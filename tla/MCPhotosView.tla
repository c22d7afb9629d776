---------------------------- MODULE MCPhotosView ----------------------------
(* Small instances of PhotosView. *)
EXTENDS PhotosView

Dated(d) == [Blank EXCEPT !.date = d]
In(g) == [Blank EXCEPT !.group = g]

\* Two photos to review, one of them without a date.
ToReview == <<[Dated(1) EXCEPT !.staged = TRUE], [Blank EXCEPT !.staged = TRUE]>>

\* Two groups of one, ahead of a dated photo.
TwoGroups == <<Dated(1), In(3), Blank, In(5), Blank>>

SomeCollections == {ToReview, TwoGroups}
GroupsOnly == {TwoGroups}
=============================================================================
