-------------------------- MODULE MCPhotosAnalyzer --------------------------
(* Small instances of PhotosAnalyzer. *)
EXTENDS PhotosAnalyzer

CONSTANTS p1, p2

TwoPhotos == {p1, p2}
OneUnreadable == {p2}

\* New, freshly added, and known with its geometry and its flag zeroed later.
Leftovers == {NewPhoto,
              [NewPhoto EXCEPT !.known = TRUE, !.flags["StagingArea"] = 1],
              [NewPhoto EXCEPT !.known = TRUE, !.data = Fields, !.flags["ExifLoaded"] = 1],
              [NewPhoto EXCEPT !.known = TRUE, !.broken = TRUE]}

=============================================================================
