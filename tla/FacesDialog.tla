---------------------------- MODULE FacesDialog ----------------------------
(***************************************************************************)
(* FacesDialog and its PeopleManipulator.                                  *)
(*                                                                         *)
(* The dialog runs an event loop of its own on the GUI's thread.  The      *)
(* manipulator looks for the faces, and then recognizes them, in tasks of  *)
(* the executor, which hold the mutex of their safe_callback: its          *)
(* destructor waits for a task that has begun, and one that has not does   *)
(* nothing.  Both threads evaluate() on the database's thread: they put a  *)
(* request in its queue and block until it was executed.  What the task    *)
(* does with an answer until it blocks or calculates again is one step     *)
(* with the execution of its request; so are the names it asks for one by  *)
(* one after the list of people.                                           *)
(***************************************************************************)
EXTENDS People, Ordering

CONSTANTS Earlier,    \* what earlier sessions may have left in the tables
          MaxSessions \* bound: times the dialog is opened

ASSUME DialogAssumption == MaxSessions \in Nat

ASSUME EarlierAssumption == \A t \in Earlier : TypedTables(t) /\ PlacesDiffer(t)

VARIABLES
    tables,   \* the database
    requests, \* queue of the database's thread
    dialog,   \* where the GUI's thread is
    faces,    \* PeopleManipulator::m_faces
    known,    \* the names store_people_names() fetched
    shown,    \* the list of names was filled
    job,      \* the task that waits in the executor
    worker,   \* where the running task is: it holds the mutex unless "idle"
    events,   \* calls posted to the manipulator
    crashed,  \* a data race ended the program
    sessions, \* number of times the dialog was opened
    expected, \* history: the names accepted last, by the place of the face
    hasty     \* history: OK was pressed before the faces were shown

guiVars == <<dialog, known, shown, sessions, expected, hasty>>
vars == <<tables, requests, guiVars, faces, job, worker, events, crashed>>

Request(from, what, arg) == [from |-> from, what |-> what, arg |-> arg]

Evaluate(from, what, arg) == requests' = Append(requests, Request(from, what, arg))

\* evaluate() of the GUI's thread has not returned.
Blocked == \E i \in DOMAIN requests : requests[i].from = "gui"

\* FaceInfo of a place.
NewFace(rect) == [rect |-> rect, id |-> NoId, f |-> NoId, person |-> NoId, name |-> NoName,
                  printId |-> NoId, print |-> NoPrint]

\* m_faces is not guarded: writing it while store() reads it is undefined.
MayRace == crashed' \in IF dialog \in {"names", "fingerprints"} THEN BOOLEAN ELSE {FALSE}

Init ==
    /\ tables \in Earlier
    /\ requests = <<>>
    /\ dialog = "closed"
    /\ faces = <<>>
    /\ known = <<>>
    /\ shown = FALSE
    /\ job = "none"
    /\ worker = "idle"
    /\ events = <<>>
    /\ crashed = FALSE
    /\ sessions = 0
    /\ expected = <<>>
    /\ hasty = FALSE

-----------------------------------------------------------------------------
(* The tasks of the manipulator *)

\* safe_callback: the task takes the mutex and asks the database first.
StartJob ==
    /\ ~ crashed /\ job # "none" /\ worker = "idle"
    /\ job' = "none"
    /\ worker' = IF job = "find" THEN "rects" ELSE "people"
    /\ Evaluate("worker", worker', NoId)
    /\ UNCHANGED <<tables, guiVars, faces, events, crashed>>

\* The places the rows have, sorted.
SortedRects(t) ==
    LET Before(i, j) == \/ t.rows[i].rect < t.rows[j].rect
                        \/ t.rows[i].rect = t.rows[j].rect /\ i < j
        order == InOrder(Placed(t), {pair \in Placed(t) \X Placed(t) : Before(pair[1], pair[2])})
    IN  [k \in DOMAIN order |-> t.rows[order[k]].rect]

FindFaces_Result(rects) == events' = Append(events, [what |-> "findFaces_result", rects |-> rects])

\* findFaces_thrd() goes on with the places the database has, if any.
FoundInDb ==
    /\ \/ Placed(tables) = {} /\ worker' = "detecting" /\ UNCHANGED events
       \/ Placed(tables) # {} /\ worker' = "idle" /\ FindFaces_Result(SortedRects(tables))
    /\ requests' = Tail(requests)
    /\ UNCHANGED <<faces, crashed>>

\* fetchFaces()
Detect ==
    /\ ~ crashed /\ worker = "detecting"
    /\ worker' = "idle"
    /\ FindFaces_Result(Ascending(Faces))
    /\ UNCHANGED <<tables, requests, guiVars, faces, job, crashed>>

\* recognizeFaces_thrd_fetch_from_db(): the first row with the same place.
FillPeople ==
    LET RowOf(face) == SelectInSeq(tables.rows, LAMBDA r : r.rect = face.rect)
        Filled(face) ==
            IF RowOf(face) = NoId THEN face
            ELSE LET row == tables.rows[RowOf(face)] IN
                 [face EXCEPT !.id = RowOf(face), !.f = row.print,
                              !.person = IF row.person = NoId THEN @ ELSE row.person,
                              !.name = IF row.person = NoId THEN @ ELSE NameOf(tables, row.person)]
    IN  /\ faces' = [i \in DOMAIN faces |-> Filled(faces[i])]
        /\ worker' = "prints"
        /\ requests' = Append(Tail(requests), Request("worker", "prints", NoId))
        /\ UNCHANGED events
        /\ MayRace

RecognizeFaces_Result == events' = Append(events, [what |-> "recognizeFaces_result"])

\* fetchFingerprints() of the rows, and whether any is missing.
FillPrints ==
    LET PrintOf(face) == IF face.id = NoId THEN NoId ELSE tables.rows[face.id].print
        Filled(face) == IF PrintOf(face) = NoId THEN face
                        ELSE [face EXCEPT !.printId = PrintOf(face),
                                          !.print = tables.prints[PrintOf(face)]]
    IN  /\ faces' = [i \in DOMAIN faces |-> Filled(faces[i])]
        /\ IF \E i \in DOMAIN faces' : faces'[i].printId = NoId
           THEN worker' = "calculating" /\ UNCHANGED events
           ELSE worker' = "idle" /\ RecognizeFaces_Result
        /\ requests' = Tail(requests)
        /\ MayRace

\* recognizeFaces_thrd_calculate_missing_fingerprints()
Calculate ==
    /\ ~ crashed /\ worker = "calculating"
    /\ faces' = [i \in DOMAIN faces |->
                   IF faces[i].printId # NoId THEN faces[i]
                   ELSE [faces[i] EXCEPT !.print = faces[i].rect]]
    /\ worker' = "known"
    /\ Evaluate("worker", "known", NoId)
    /\ MayRace
    /\ UNCHANGED <<tables, guiVars, job, events>>

\* Mutant: names that are known are guessed again.
Guessed_Again(face) == TRUE

Guessed(face) == face.name = NoName

\* recognizeFaces_thrd_recognize_people(): the closest of the people with
\* fingerprints, or none that is close enough.
RecognizePeople ==
    /\ \E guess \in [DOMAIN faces -> Recognizable(tables) \cup {NoId}] :
          faces' = [i \in DOMAIN faces |->
                      IF ~ Guessed(faces[i]) \/ guess[i] = NoId THEN faces[i]
                      ELSE [faces[i] EXCEPT !.person = guess[i], !.name = NameOf(tables, guess[i])]]
    /\ worker' = "idle"
    /\ RecognizeFaces_Result
    /\ requests' = Tail(requests)
    /\ MayRace

-----------------------------------------------------------------------------
(* The GUI's thread *)

\* facesOf() of mainwindow.cpp: the dialog is modal.
Open ==
    /\ ~ crashed /\ dialog = "closed" /\ sessions < MaxSessions
    /\ sessions' = sessions + 1
    /\ dialog' = "open"
    /\ job' = "find"
    /\ UNCHANGED <<tables, requests, faces, known, shown, worker, events, crashed, expected, hasty>>

\* The dialog's event loop handles the next posted call.
HandleEvent ==
    /\ ~ crashed /\ dialog = "open" /\ events # <<>>
    /\ events' = Tail(events)
    /\ \/ /\ Head(events).what = "findFaces_result"
          /\ faces' = faces \o [i \in DOMAIN Head(events).rects |-> NewFace(Head(events).rects[i])]
          /\ job' = "recognize"
          /\ UNCHANGED shown
       \/ /\ Head(events).what = "recognizeFaces_result"
          /\ shown' = TRUE
          /\ UNCHANGED <<faces, job>>
    /\ UNCHANGED <<tables, requests, dialog, known, worker, crashed, sessions, expected, hasty>>

\* Mutant: the new name is set beside the old person.
SetName_KeepId(face, name) == [face EXCEPT !.name = name]

\* setName()
SetName(face, name) ==
    IF face.name = name THEN face ELSE [face EXCEPT !.name = name, !.person = NoId]

\* OK: apply() with what the user typed, and store() up to its first evaluate().
Accept ==
    LET listed == IF shown THEN DOMAIN faces ELSE {} IN
    /\ ~ crashed /\ dialog = "open"
    /\ \E typed \in [listed -> Names \cup {NoName}] :
          /\ faces' = [i \in DOMAIN faces |->
                         IF i \in listed THEN SetName(faces[i], typed[i]) ELSE faces[i]]
          /\ expected' = IF shown THEN [r \in {faces[i].rect : i \in listed} |->
                                          typed[CHOOSE i \in listed : faces[i].rect = r]]
                         ELSE expected
    /\ hasty' = (hasty \/ (~ shown /\ faces # <<>>))
    /\ dialog' = "names"
    /\ Evaluate("gui", "names", NoId)
    /\ UNCHANGED <<tables, known, shown, job, worker, events, crashed, sessions>>

Reject ==
    /\ ~ crashed /\ dialog = "open"
    /\ dialog' = "closing"
    /\ UNCHANGED <<tables, requests, faces, known, shown, job, worker, events, crashed, sessions,
                   expected, hasty>>

\* store_people_names() of the next face that needs it.
StorePeopleNames ==
    LET i == SelectInSeq(faces, LAMBDA f : f.person = NoId /\ f.name # NoName)
        person == IF i = NoId THEN NoId ELSE PersonOf(known, faces[i].name)
    IN  /\ ~ crashed /\ dialog = "names" /\ ~ Blocked
        /\ \/ /\ i = NoId
              /\ dialog' = "fingerprints"
              /\ UNCHANGED <<requests, faces>>
           \/ /\ i # NoId /\ person # NoId
              /\ faces' = [faces EXCEPT ![i].person = person]
              /\ UNCHANGED <<requests, dialog>>
           \/ /\ i # NoId /\ person = NoId
              /\ Evaluate("gui", "storeName", i)
              /\ UNCHANGED <<faces, dialog>>
        /\ UNCHANGED <<tables, known, shown, job, worker, events, crashed, sessions, expected, hasty>>

\* store_fingerprints() of the next face that needs it, and then
\* store_people_information() of them all.
StoreFingerprints ==
    LET i == SelectInSeq(faces, LAMBDA f : f.printId = NoId)
        InfoOf(f) == [id |-> f.id,
                      info |-> Info(f.person, f.rect, IF f.f = NoId THEN f.printId ELSE f.f)]
    IN  /\ ~ crashed /\ dialog = "fingerprints" /\ ~ Blocked
        /\ \/ /\ i # NoId
              /\ Evaluate("gui", "storePrint", i)
              /\ UNCHANGED dialog
           \/ /\ i = NoId
              /\ requests' = requests \o [k \in DOMAIN faces |->
                                            Request("nobody", "storeInfo", InfoOf(faces[k]))]
              /\ dialog' = "closing"
        /\ UNCHANGED <<tables, faces, known, shown, job, worker, events, crashed, sessions,
                       expected, hasty>>

\* Mutant: the tasks' calls are waited for, with the event loop gone.
Released_NoCalls == worker = "idle" /\ events = <<>>

Released == worker = "idle"

\* ~PeopleManipulator: invalidate() takes the mutex; a task that has not begun
\* does nothing any more and posted calls die with their receiver.
Close ==
    /\ ~ crashed /\ dialog = "closing" /\ Released
    /\ dialog' = "closed"
    /\ job' = "none"
    /\ events' = <<>>
    /\ faces' = <<>>
    /\ known' = <<>>
    /\ shown' = FALSE
    /\ UNCHANGED <<tables, requests, worker, crashed, sessions, expected, hasty>>

-----------------------------------------------------------------------------
(* The database's thread *)

\* What a task of the executor asked for.
AnswerWorker ==
    /\ \/ worker = "rects" /\ FoundInDb
       \/ worker = "people" /\ FillPeople
       \/ worker = "prints" /\ FillPrints
       \/ worker = "known" /\ RecognizePeople
    /\ UNCHANGED <<tables, guiVars, job>>

Execute(request) ==
    /\ \/ /\ request.what = "names"
          /\ known' = tables.names
          /\ UNCHANGED <<tables, faces>>
       \/ /\ request.what = "storeName"
          /\ tables' = StoreName(tables, faces[request.arg].name)
          /\ faces' = [faces EXCEPT ![request.arg].person =
                                     PersonOf(tables'.names, faces[request.arg].name)]
          /\ UNCHANGED known
       \/ /\ request.what = "storePrint"
          /\ tables' = StorePrint(tables, faces[request.arg].print)
          /\ faces' = [faces EXCEPT ![request.arg].printId = Len(tables'.prints)]
          /\ UNCHANGED known
       \/ /\ request.what = "storeInfo"
          /\ tables' = StoreInfo(tables, request.arg.id, request.arg.info)
          /\ UNCHANGED <<faces, known>>
    /\ UNCHANGED <<dialog, shown, job, worker, events, crashed, sessions, expected, hasty>>

Serve ==
    /\ ~ crashed /\ requests # <<>>
    /\ IF Head(requests).from = "worker" THEN AnswerWorker
       ELSE requests' = Tail(requests) /\ Execute(Head(requests))

Next ==
    \/ Open \/ HandleEvent \/ Accept \/ Reject
    \/ StorePeopleNames \/ StoreFingerprints \/ Close
    \/ StartJob \/ Detect \/ Calculate
    \/ Serve

Spec == Init /\ [][Next]_vars

\* The threads go on and the calculations of a task end.  Nothing depends on
\* whether the executor ever gets to a task that waits.
Fairness == /\ WF_vars(Serve) /\ WF_vars(StorePeopleNames) /\ WF_vars(StoreFingerprints)
            /\ WF_vars(Close) /\ WF_vars(Detect) /\ WF_vars(Calculate)

FairSpec == Spec /\ Fairness

-----------------------------------------------------------------------------
(* Properties *)

Rows == DOMAIN tables.rows

\* What the user accepted is stored once the database has drained its queue:
\* every face of the list has one row, with the person of the name it was given.
\* Persons are told by name only, rows by place or by person, and the ids they
\* got in between are the dialog's own; pressing OK too early is left out.
NamesAsAccepted ==
    dialog = "closed" /\ requests = <<>> /\ ~ hasty /\ ~ crashed
        => \A r \in DOMAIN expected :
              \E i \in Rows : /\ {j \in Rows : tables.rows[j].rect = r} = {i}
                              /\ NameOf(tables, tables.rows[i].person) = expected[r]

\* The list shows what is stored: nothing the dialog before it sent is still to
\* come, and a guess never takes the place of a name the user gave.
ShowsStoredNames ==
    dialog = "open" /\ shown
        => \A i \in DOMAIN faces, j \in Rows :
              tables.rows[j].rect = faces[i].rect /\ tables.rows[j].person # NoId
                  => faces[i].name = NameOf(tables, tables.rows[j].person)

\* The dialog closes: its destructor waits for the mutex of a task that waits
\* for the database, and store() for every answer of the database.
DialogCloses ==
    dialog \in {"names", "fingerprints", "closing"} ~> (dialog = "closed" \/ crashed)

=============================================================================
