------------------------------ MODULE FlatModel ------------------------------
(***************************************************************************)
(* FlatModel: the rows the view shows, the row of each photo, and the data *)
(* of the photos whose details were asked for.  Each operator is what one  *)
(* handler of the model makes of it; PhotosView runs them.                 *)
(***************************************************************************)
EXTENDS Ordering, Sequences, SequencesExt

CONSTANT MaxPhoto  \* bound: ids of photos are 1 .. MaxPhoto

Photos == 1 .. MaxPhoto

\* Photo::Data(): the details were asked for and have not come yet.
Unknown == [known |-> FALSE]

\* m_photos, m_idToRow and m_properties; rows are counted from one.
EmptyModel == [photos |-> <<>>, rows |-> <<>>, data |-> <<>>]

Without(model, ids) == [model EXCEPT !.data = Restrict(@, DOMAIN @ \ ids)]

\* What stays of a sequence when some positions go.
Keep(seq, positions) ==
    LET kept == Ascending(positions \cap DOMAIN seq)
    IN  [i \in DOMAIN kept |-> seq[kept[i]]]

RowsOfIds(model, ids) == {model.rows[p] : p \in ids \cap DOMAIN model.rows}

\* removePhotos() erases rows the model may not have: m_idToRow is left alone.
RemovesPastTheEnd(model, ids) == ~ (RowsOfIds(model, ids) \subseteq DOMAIN model.photos)

\* Mutant: what is removed is dropped from m_idToRow too, the rest stays.
RemovePhotos_DropIds(model, ids) ==
    LET rows == RowsOfIds(model, ids)
    IN  [Without(model, {model.photos[r] : r \in rows \cap DOMAIN model.photos})
            EXCEPT !.photos = Keep(@, DOMAIN @ \ rows), !.rows = Restrict(@, DOMAIN @ \ ids)]

\* removePhotos(): ranges of rows, from the back.
RemovePhotos(model, ids) ==
    LET rows == RowsOfIds(model, ids)
    IN  [Without(model, {model.photos[r] : r \in rows \cap DOMAIN model.photos})
            EXCEPT !.photos = Keep(@, DOMAIN @ \ rows)]

\* Mutant: only the end of the range is invalidated.
InvalidatePhotos_LastRow(model, ids) ==
    Without(model, {p \in ids : p \in DOMAIN model.rows /\ model.rows[p] = Len(model.photos)})

\* invalidatePhotos()
InvalidatePhotos(model, ids) == Without(model, ids)

\* photoData(): details that are not there are asked for, once.
Asks(model, p) == p \notin DOMAIN model.data
PhotoData(model, p) ==
    [model EXCEPT !.data = [q \in DOMAIN @ \cup {p} |-> IF q \in DOMAIN @ THEN @[q] ELSE Unknown]]

\* fetchedPhotoProperties(): the photo may be gone from the model by now.
FetchedPhotoProperties(model, p, details) ==
    IF p \in DOMAIN model.rows
    THEN [model EXCEPT !.data = [q \in DOMAIN @ \cup {p} |-> IF q = p THEN details ELSE @[q]]]
    ELSE model

-----------------------------------------------------------------------------
(* fetchedPhotos() changes the rows it has into those it was given, with   *)
(* two iterators: "old" in its rows and "new" in the given ones.           *)

Lists == Seq(Photos)
Merges(given) ==
    {m \in [photos : Lists, erased : SUBSET Photos, old : Nat \ {0}, new : Nat \ {0}] :
        m.old <= Len(m.photos) + 1 /\ m.new <= Len(given) + 1}

\* The rows from m.old on which are ahead of position "to" are erased.
Erase(m, to) ==
    [m EXCEPT !.photos = SubSeq(@, 1, m.old - 1) \o SubSeq(@, to, Len(@)),
              !.erased = @ \cup ToSet(SubSeq(m.photos, m.old, to - 1))]

\* Mutant: the iterator stays at the first of the inserted rows.
Insert_NotAdvanced(m, given, to) ==
    [m EXCEPT !.photos = SubSeq(@, 1, m.old - 1) \o SubSeq(given, m.new, to - 1)
                         \o SubSeq(@, m.old, Len(@)),
              !.new = to]

\* The photos from m.new on which are ahead of position "to" are inserted.
Insert(m, given, to) ==
    [m EXCEPT !.photos = SubSeq(@, 1, m.old - 1) \o SubSeq(given, m.new, to - 1)
                         \o SubSeq(@, m.old, Len(@)),
              !.old = @ + to - m.new,
              !.new = to]

\* One turn of the loop: the row is the photo wanted; or the photo is found
\* further on, and what is ahead of it goes; or it is new, and comes in with
\* those after it that are new too.
MergeStep(m, given) ==
    LET rest == m.old .. Len(m.photos)
        found == {i \in rest : m.new <= Len(given) /\ m.photos[i] = given[m.new]}
        known == {j \in m.new + 1 .. Len(given) : \E i \in rest : m.photos[i] = given[j]}
    IN  IF m.old > Len(m.photos) THEN Insert(m, given, Len(given) + 1)
        ELSE IF m.new > Len(given) THEN Erase(m, Len(m.photos) + 1)
        ELSE IF m.photos[m.old] = given[m.new] THEN [m EXCEPT !.old = @ + 1, !.new = @ + 1]
        ELSE IF found # {} THEN Erase(m, CHOOSE i \in found : TRUE)
        ELSE IF known # {} THEN Insert(m, given, CHOOSE j \in known : \A k \in known : j <= k)
        ELSE Insert(Erase(m, Len(m.photos) + 1), given, Len(given) + 1)

Merged(model, given) ==
    LET loop[m \in Merges(given)] ==
          IF m.old > Len(m.photos) /\ m.new > Len(given) THEN m ELSE loop[MergeStep(m, given)]
    IN  loop[[photos |-> model.photos, erased |-> {}, old |-> 1, new |-> 1]]

RowOf(photos, p) == CHOOSE i \in DOMAIN photos : photos[i] = p

\* Mutant: m_idToRow is not cleared, and emplace() leaves known photos alone.
FetchedPhotos_NotCleared(model, given) ==
    LET m == Merged(model, given)
    IN  [Without(model, m.erased) EXCEPT
            !.photos = m.photos,
            !.rows = [p \in DOMAIN @ \cup ToSet(m.photos) |->
                        IF p \in DOMAIN @ THEN @[p] ELSE RowOf(m.photos, p)]]

\* fetchedPhotos(): the details of erased rows go, the index is made anew.
FetchedPhotos(model, given) ==
    LET m == Merged(model, given)
    IN  [Without(model, m.erased) EXCEPT
            !.photos = m.photos,
            !.rows = [p \in ToSet(m.photos) |-> RowOf(m.photos, p)]]
=============================================================================
