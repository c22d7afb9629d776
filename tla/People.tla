------------------------------- MODULE People -------------------------------
(***************************************************************************)
(* What the tables about people hold for one photo, and the operations of  *)
(* PeopleInformationAccessor on them.  Rows are never removed by the       *)
(* dialog that uses them, so an id is the position in the table.  A place  *)
(* on the photo is a number, in the order the dialog lists them.           *)
(***************************************************************************)
EXTENDS Integers, Sequences, FiniteSets, SequencesExt

CONSTANTS Faces, \* the faces that can be seen on the photo, by their place
          Names  \* names a person may have

ASSUME PeopleAssumption == /\ Faces \subseteq Nat \ {0} /\ IsFiniteSet(Faces)
                           /\ "" \notin Names

NoId == 0
NoRect == 0
NoName == ""

\* A fingerprint is named by the face it was calculated from, the empty one by NoRect.
NoPrint == NoRect

Info(person, rect, print) == [person |-> person, rect |-> rect, print |-> print]

\* The columns of the tables: an id is null or that of a row there is.
TypedTables(t) ==
    /\ t \in [names : Seq(Names), prints : Seq(Faces \cup {NoPrint}),
              rows : Seq([person : Nat, rect : Faces \cup {NoRect}, print : Nat])]
    /\ \A i \in DOMAIN t.rows : /\ t.rows[i].person <= Len(t.names)
                                /\ t.rows[i].print <= Len(t.prints)

\* person() of an id
NameOf(t, id) == IF id = NoId THEN NoName ELSE t.names[id]

\* person() of a name, among these names
PersonOf(names, name) == SelectInSeq(names, LAMBDA n : n = name)

\* store() of a name without an id: names are unique.
StoreName(t, name) ==
    IF PersonOf(t.names, name) # NoId THEN t ELSE [t EXCEPT !.names = Append(@, name)]

\* store() of a fingerprint without an id, which is the last one then.
StorePrint(t, print) == [t EXCEPT !.prints = Append(@, print)]

\* The row that store() of an info without an id takes for the same person.
RowFor(t, info) ==
    SelectInSeq(t.rows, LAMBDA r : \/ r.rect = info.rect
                                   \/ r.rect = NoRect /\ r.person # NoId /\ r.person = info.person)

\* store() of an info with a place: storePerson() sets all columns of the row.
StoreInfo(t, id, info) ==
    LET row == IF id # NoId THEN id ELSE RowFor(t, info)
    IN  [t EXCEPT !.rows = IF row = NoId THEN Append(@, info) ELSE [@ EXCEPT ![row] = info]]

\* The rows listPeople() of the photo has a place for.
Placed(t) == {i \in DOMAIN t.rows : t.rows[i].rect # NoRect}

\* No place has two rows: store() looks for a row with the place first.
PlacesDiffer(t) ==
    \A i, j \in Placed(t) : t.rows[i].rect = t.rows[j].rect => i = j

\* Whose fingerprints the faces are compared with: those of all photos, so
\* anybody known may be among them, with or without one on this photo.
Recognizable(t) == DOMAIN t.names

=============================================================================
