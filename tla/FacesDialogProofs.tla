-------------------------- MODULE FacesDialogProofs --------------------------
(***************************************************************************)
(* What FacesDialog promises, for any faces, names, tables that earlier    *)
(* sessions left and number of sessions.                                   *)
(*                                                                         *)
(* The invariant has six layers, each of which needs those before it:      *)
(*                                                                         *)
(*   - Control: types, and who waits for whom.  A task waits, runs, has    *)
(*     posted its result, or the list is shown, and a thread has one call  *)
(*     in the queue at most;                                               *)
(*   - Ordered: infos of the dialog before are ahead of all calls of this  *)
(*     one.  So they are stored before the database says where the places  *)
(*     are, and none is in the queue once there are faces;                 *)
(*   - KnownNames: the names that were fetched are still those of the ids; *)
(*   - OneRowEach: no place has two rows, an id is that of the row with    *)
(*     the place, and infos are about different places;                    *)
(*   - RightNames: the name of a face is that of its person, and that of   *)
(*     the row of its place while the dialog is open;                      *)
(*   - Accepted: a name that was accepted is that of the face, then that   *)
(*     of the one info about its place, then that of the row.              *)
(*                                                                         *)
(* What a step does is put in few cases first: to the infos and the rows   *)
(* (StepKinds: nothing, they are sent, or one is stored) and to the faces  *)
(* (StepFaces: they keep their places, come, are filled in, or go).        *)
(***************************************************************************)
EXTENDS FacesDialog, SequenceLemmas

-----------------------------------------------------------------------------
(* Sequences *)

\* SelectInSeq() gives the first of the places it looks for, or zero.
LEMMA FirstPlace ==
    ASSUME NEW n \in Nat, NEW I \in SUBSET (1 .. n)
    PROVE  LET first == IF I # {} THEN Min(I) ELSE 0 IN
           first \in 0 .. n /\ (first = 0 <=> I = {}) /\ (first # 0 => first \in I)
<1>1. I \subseteq Nat /\ I \subseteq 1 .. n
  OBVIOUS
<1>2. I # {} => Min(I) \in I
  <2> SUFFICES ASSUME I # {}  PROVE Min(I) \in I
    OBVIOUS
  <2>1. \E m \in I : \A k \in I : m <= k
    BY <1>1, LeastNumber
  <2> QED  BY <2>1 DEF Min
<1>3. ASSUME NEW m, I # {} => m \in I
      PROVE  LET first == IF I # {} THEN m ELSE 0 IN
             first \in 0 .. n /\ (first = 0 <=> I = {}) /\ (first # 0 => first \in I)
  <2>1. CASE I = {}
    BY <2>1
  <2>2. CASE I # {}
    <3>1. m \in I /\ m \in 1 .. n
      BY <1>1, <1>3, <2>2
    <3>2. m \in 0 .. n /\ m # 0
      BY <3>1
    <3> QED  BY <2>2, <3>1, <3>2
  <2> QED  BY <2>1, <2>2
<1> QED  BY <1>2, <1>3

\* A sequence is a function.
LEMMA SeqIsFunction ==
    ASSUME NEW S, NEW s \in Seq(S)
    PROVE  Len(s) \in Nat /\ DOMAIN s = 1 .. Len(s) /\ s \in [1 .. Len(s) -> S]
OBVIOUS

\* What is appended comes after what is there.
LEMMA AppendedPlaces ==
    ASSUME NEW S, NEW s \in Seq(S), NEW x \in S
    PROVE  /\ Append(s, x) \in Seq(S)
           /\ Len(s) \in Nat /\ DOMAIN s = 1 .. Len(s)
           /\ Len(Append(s, x)) = Len(s) + 1 /\ DOMAIN Append(s, x) = 1 .. Len(s) + 1
           /\ \A i \in 1 .. Len(s) : Append(s, x)[i] = s[i]
           /\ Append(s, x)[Len(s) + 1] = x
BY AppendProperties

\* The rest of a sequence has its elements from the second on.
LEMMA TailPlaces ==
    ASSUME NEW S, NEW s \in Seq(S), s # <<>>
    PROVE  /\ Tail(s) \in Seq(S) /\ Head(s) = s[1] /\ Head(s) \in S
           /\ Len(s) \in Nat \ {0} /\ DOMAIN s = 1 .. Len(s) /\ 1 \in DOMAIN s
           /\ Len(Tail(s)) = Len(s) - 1 /\ DOMAIN Tail(s) = 1 .. Len(s) - 1
           /\ \A i \in 1 .. Len(s) - 1 : Tail(s)[i] = s[i + 1]
<1>1. Len(s) \in Nat /\ DOMAIN s = 1 .. Len(s) /\ Len(s) # 0
  BY EmptySeq
<1>2. Tail(s) \in Seq(S) /\ Len(Tail(s)) = Len(s) - 1 /\ Head(s) \in S
      /\ \A i \in 1 .. Len(Tail(s)) : Tail(s)[i] = s[i + 1]
  BY HeadTailProperties
<1>3. Head(s) = s[1]
  OBVIOUS
<1> QED  BY <1>1, <1>2, <1>3

\* A sequence made place by place of another one.
LEMMA MappedPlaces ==
    ASSUME NEW S, NEW n \in Nat, NEW f, DOMAIN f = 1 .. n, f = [i \in 1 .. n |-> f[i]], \A i \in 1 .. n : f[i] \in S
    PROVE  f \in Seq(S) /\ Len(f) = n
<1>1. f \in [1 .. n -> S]
  OBVIOUS
<1> QED  BY <1>1, FunctionIsSeq

-----------------------------------------------------------------------------
(* Types, and who waits for whom *)

\* Rows, faces, and what store() sends of a face: ids are those of rows there are.
RowsFor(t) == [person : 0 .. Len(t.names), rect : Faces \cup {NoRect}, print : 0 .. Len(t.prints)]

FacesFor(t) ==
    [rect : Faces, id : 0 .. Len(t.rows), f : 0 .. Len(t.prints), person : 0 .. Len(t.names),
     name : Names \cup {NoName}, printId : 0 .. Len(t.prints), print : Faces \cup {NoPrint}]

InfosFor(t) ==
    [id : 0 .. Len(t.rows),
     info : [person : 0 .. Len(t.names), rect : Faces, print : 0 .. Len(t.prints)]]

Waiting == {"rects", "people", "prints", "known"}

CallsFor(t) == [from : {"worker"}, what : Waiting, arg : {NoId}]
               \cup [from : {"gui"}, what : {"names"}, arg : {NoId}]
               \cup [from : {"gui"}, what : {"storeName", "storePrint"}, arg : Nat]
               \cup [from : {"nobody"}, what : {"storeInfo"}, arg : InfosFor(t)]

Results == [what : {"findFaces_result"}, rects : Seq(Faces)] \cup [what : {"recognizeFaces_result"}]

TablesTyped ==
    tables \in [names : Seq(Names), prints : Seq(Faces \cup {NoPrint}), rows : Seq(RowsFor(tables))]

Typed ==
    /\ TablesTyped
    /\ requests \in Seq(CallsFor(tables))
    /\ dialog \in {"closed", "open", "names", "fingerprints", "closing"}
    /\ faces \in Seq(FacesFor(tables))
    /\ known \in Seq(Names) /\ Len(known) <= Len(tables.names)
    /\ shown \in BOOLEAN /\ hasty \in BOOLEAN
    /\ job \in {"none", "find", "recognize"}
    /\ worker \in {"idle", "detecting", "calculating"} \cup Waiting
    /\ events \in Seq(Results)

\* A task waits, runs, has posted its result, or the list is shown: one of them
\* at most, and none without the dialog.
OneThing ==
    /\ job # "none" => worker = "idle" /\ events = <<>> /\ ~ shown
    /\ worker # "idle" => events = <<>> /\ ~ shown
    /\ events # <<>> => Len(events) = 1 /\ ~ shown
    /\ dialog = "closed" => job = "none" /\ worker = "idle" /\ events = <<>> /\ ~ shown /\ faces = <<>>

\* A thread has one call in the queue, while it waits for it.
OnePerThread(queue) ==
    \A i, j \in DOMAIN queue : queue[i].from = queue[j].from /\ queue[i].from # "nobody" => i = j

OneCallEach ==
    /\ OnePerThread(requests)
    /\ \A i \in DOMAIN requests :
          /\ requests[i].from = "worker" => worker \in Waiting
          /\ requests[i].from = "gui" => dialog \in {"names", "fingerprints"}

\* A call about a face: it is there, and has a name to be stored.
CallsFit ==
    \A i \in DOMAIN requests :
        /\ requests[i].what \in {"storeName", "storePrint"} => requests[i].arg \in DOMAIN faces
        /\ requests[i].what = "storeName" => shown /\ faces[requests[i].arg].name # NoName

\* Names without a person are names the user typed.
UnshownNames == ~ shown => \A i \in DOMAIN faces : faces[i].name # NoName => faces[i].person # NoId

Control == Typed /\ OneThing /\ OneCallEach /\ CallsFit /\ UnshownNames

\* Numbers for a longer table.
LEMMA NumbersGrow ==
    ASSUME NEW a \in Nat, NEW b \in Nat, a <= b
    PROVE  0 .. a \subseteq 0 .. b
OBVIOUS

\* Tables only grow.
Longer(t, u) ==
    /\ Len(t.names) \in Nat /\ Len(u.names) \in Nat /\ Len(t.names) <= Len(u.names)
    /\ Len(t.prints) \in Nat /\ Len(u.prints) \in Nat /\ Len(t.prints) <= Len(u.prints)
    /\ Len(t.rows) \in Nat /\ Len(u.rows) \in Nat /\ Len(t.rows) <= Len(u.rows)

LEMMA TypesGrow ==
    ASSUME NEW t, NEW u, Longer(t, u)
    PROVE  /\ RowsFor(t) \subseteq RowsFor(u) /\ FacesFor(t) \subseteq FacesFor(u)
           /\ InfosFor(t) \subseteq InfosFor(u) /\ CallsFor(t) \subseteq CallsFor(u)
<1>1. /\ 0 .. Len(t.names) \subseteq 0 .. Len(u.names)
      /\ 0 .. Len(t.prints) \subseteq 0 .. Len(u.prints)
      /\ 0 .. Len(t.rows) \subseteq 0 .. Len(u.rows)
  BY NumbersGrow DEF Longer
<1>2. RowsFor(t) \subseteq RowsFor(u)
  BY <1>1 DEF RowsFor
<1>3. FacesFor(t) \subseteq FacesFor(u)
  BY <1>1 DEF FacesFor
<1>4. InfosFor(t) \subseteq InfosFor(u)
  BY <1>1 DEF InfosFor
<1>5. CallsFor(t) \subseteq CallsFor(u)
  BY <1>4 DEF CallsFor
<1> QED  BY <1>2, <1>3, <1>4, <1>5

\* What a call says of who made it.
LEMMA KindsOfCalls ==
    ASSUME NEW t, NEW call \in CallsFor(t)
    PROVE  /\ call.from \in {"worker", "gui", "nobody"}
           /\ call.from = "worker" => call.what \in Waiting
           /\ call.from = "gui" => call.what \in {"names", "storeName", "storePrint"}
           /\ call.from = "nobody" => call.what = "storeInfo"
           /\ call.what = "storeInfo" => call.from = "nobody" /\ call.arg \in InfosFor(t)
           /\ call.what \in {"names", "storeName", "storePrint"} => call.from = "gui"
BY DEF CallsFor, Waiting

\* Sequences and places of the state.
LEMMA TablesAre ==
    ASSUME Typed
    PROVE  /\ tables.names \in Seq(Names) /\ Len(tables.names) \in Nat
           /\ DOMAIN tables.names = 1 .. Len(tables.names)
           /\ tables.prints \in Seq(Faces \cup {NoPrint}) /\ Len(tables.prints) \in Nat
           /\ DOMAIN tables.prints = 1 .. Len(tables.prints)
           /\ tables.rows \in Seq(RowsFor(tables)) /\ Len(tables.rows) \in Nat
           /\ Rows = 1 .. Len(tables.rows) /\ DOMAIN tables.rows = Rows
           /\ \A i \in Rows : /\ tables.rows[i] \in RowsFor(tables)
                              /\ tables.rows[i].person \in 0 .. Len(tables.names)
                              /\ tables.rows[i].rect \in Faces \cup {NoRect}
                              /\ tables.rows[i].print \in 0 .. Len(tables.prints)
           /\ tables = [names |-> tables.names, prints |-> tables.prints, rows |-> tables.rows]
<1>1. tables \in [names : Seq(Names), prints : Seq(Faces \cup {NoPrint}), rows : Seq(RowsFor(tables))]
  BY DEF Typed, TablesTyped
<1>2. /\ tables.names \in Seq(Names) /\ tables.prints \in Seq(Faces \cup {NoPrint})
      /\ tables.rows \in Seq(RowsFor(tables))
      /\ tables = [names |-> tables.names, prints |-> tables.prints, rows |-> tables.rows]
  BY <1>1
<1>3. \A i \in 1 .. Len(tables.rows) : tables.rows[i] \in RowsFor(tables)
  BY <1>2
<1>4. \A i \in 1 .. Len(tables.rows) : /\ tables.rows[i].person \in 0 .. Len(tables.names)
                                       /\ tables.rows[i].rect \in Faces \cup {NoRect}
                                       /\ tables.rows[i].print \in 0 .. Len(tables.prints)
  BY <1>3 DEF RowsFor
<1>5. Len(tables.names) \in Nat /\ DOMAIN tables.names = 1 .. Len(tables.names)
  BY <1>2
<1>6. Len(tables.prints) \in Nat /\ DOMAIN tables.prints = 1 .. Len(tables.prints)
  BY <1>2
<1>7. Len(tables.rows) \in Nat /\ DOMAIN tables.rows = 1 .. Len(tables.rows)
  BY <1>2
<1> QED  BY <1>2, <1>3, <1>4, <1>5, <1>6, <1>7 DEF Rows

LEMMA FacesAre ==
    ASSUME Typed
    PROVE  /\ Len(faces) \in Nat /\ DOMAIN faces = 1 .. Len(faces)
           /\ faces = [i \in DOMAIN faces |-> faces[i]]
           /\ \A i \in DOMAIN faces :
                 /\ faces[i] \in FacesFor(tables)
                 /\ faces[i].rect \in Faces /\ faces[i].id \in 0 .. Len(tables.rows)
                 /\ faces[i].f \in 0 .. Len(tables.prints) /\ faces[i].person \in 0 .. Len(tables.names)
                 /\ faces[i].name \in Names \cup {NoName}
                 /\ faces[i].printId \in 0 .. Len(tables.prints) /\ faces[i].print \in Faces \cup {NoPrint}
<1>1. faces \in Seq(FacesFor(tables))
  BY DEF Typed
<1>2. Len(faces) \in Nat /\ DOMAIN faces = 1 .. Len(faces) /\ \A i \in 1 .. Len(faces) : faces[i] \in FacesFor(tables)
  BY <1>1
<1>3. faces = [i \in DOMAIN faces |-> faces[i]]
  BY <1>1
<1> QED  BY <1>2, <1>3 DEF FacesFor

LEMMA RequestsAre ==
    ASSUME Typed
    PROVE  /\ Len(requests) \in Nat /\ DOMAIN requests = 1 .. Len(requests)
           /\ \A i \in DOMAIN requests : requests[i] \in CallsFor(tables)
<1>1. requests \in Seq(CallsFor(tables))
  BY DEF Typed
<1> QED  BY <1>1

LEMMA InitControl ==
    ASSUME Init
    PROVE  Control
<1>1. TablesTyped
  <2>1. TypedTables(tables)
    BY EarlierAssumption DEF Init
  <2>2. /\ tables \in [names : Seq(Names), prints : Seq(Faces \cup {NoPrint}),
                       rows : Seq([person : Nat, rect : Faces \cup {NoRect}, print : Nat])]
        /\ \A i \in DOMAIN tables.rows : /\ tables.rows[i].person <= Len(tables.names)
                                         /\ tables.rows[i].print <= Len(tables.prints)
    BY <2>1 DEF TypedTables
  <2>3. /\ Len(tables.names) \in Nat /\ Len(tables.prints) \in Nat
        /\ Len(tables.rows) \in Nat /\ DOMAIN tables.rows = 1 .. Len(tables.rows)
        /\ tables.rows \in [1 .. Len(tables.rows) -> [person : Nat, rect : Faces \cup {NoRect}, print : Nat]]
    <3>1. /\ tables.names \in Seq(Names) /\ tables.prints \in Seq(Faces \cup {NoPrint})
          /\ tables.rows \in Seq([person : Nat, rect : Faces \cup {NoRect}, print : Nat])
      BY <2>2
    <3>2. Len(tables.names) \in Nat
      BY <3>1
    <3>3. Len(tables.prints) \in Nat
      BY <3>1
    <3> QED  BY <3>1, <3>2, <3>3, SeqIsFunction
  <2>4. \A i \in 1 .. Len(tables.rows) : tables.rows[i] \in RowsFor(tables)
    <3> SUFFICES ASSUME NEW i \in 1 .. Len(tables.rows)  PROVE tables.rows[i] \in RowsFor(tables)
      OBVIOUS
    <3>1. tables.rows[i] \in [person : Nat, rect : Faces \cup {NoRect}, print : Nat]
      BY <2>3
    <3>2. tables.rows[i].person <= Len(tables.names) /\ tables.rows[i].print <= Len(tables.prints)
      BY <2>2, <2>3
    <3> QED  BY <2>3, <3>1, <3>2 DEF RowsFor
  <2>5. tables.rows \in Seq(RowsFor(tables))
    <3>1. tables.rows \in [1 .. Len(tables.rows) -> RowsFor(tables)]
      BY <2>3, <2>4
    <3> QED  BY <2>3, <3>1, FunctionIsSeq
  <2> QED  BY <2>2, <2>5 DEF TablesTyped
<1>2. Typed
  <2>1. Len(tables.names) \in Nat
    <3>1. tables.names \in Seq(Names)
      BY <1>1 DEF TablesTyped
    <3> QED  BY <3>1
  <2>2. /\ requests \in Seq(CallsFor(tables)) /\ faces \in Seq(FacesFor(tables))
        /\ known \in Seq(Names) /\ Len(known) = 0 /\ events \in Seq(Results)
    BY DEF Init
  <2>3. /\ dialog \in {"closed", "open", "names", "fingerprints", "closing"}
        /\ shown \in BOOLEAN /\ hasty \in BOOLEAN
        /\ job \in {"none", "find", "recognize"}
        /\ worker \in {"idle", "detecting", "calculating"} \cup Waiting
    BY DEF Init
  <2> QED  BY <1>1, <2>1, <2>2, <2>3 DEF Typed
<1>3. OneThing /\ OneCallEach /\ CallsFit /\ UnshownNames
  BY DEF Init, OneThing, OneCallEach, OnePerThread, CallsFit, UnshownNames
<1> QED  BY <1>2, <1>3 DEF Control

\* A thread that does not wait asks the database.
LEMMA AskedBehind ==
    ASSUME NEW S, NEW queue \in Seq(S), OnePerThread(queue), NEW call \in S,
           \A i \in DOMAIN queue : queue[i].from # call.from
    PROVE  /\ Append(queue, call) \in Seq(S) /\ OnePerThread(Append(queue, call))
           /\ \A i \in DOMAIN Append(queue, call) :
                 Append(queue, call)[i] = call \/ \E k \in DOMAIN queue : Append(queue, call)[i] = queue[k]
<1> DEFINE new == Append(queue, call)
<1>1. /\ new \in Seq(S)
      /\ Len(queue) \in Nat /\ DOMAIN queue = 1 .. Len(queue)
      /\ DOMAIN new = 1 .. Len(queue) + 1
      /\ \A i \in 1 .. Len(queue) : new[i] = queue[i]
      /\ new[Len(queue) + 1] = call
  BY AppendedPlaces
<1> HIDE DEF new
<1>2. ASSUME NEW i \in DOMAIN new, NEW j \in DOMAIN new, new[i].from = new[j].from, new[i].from # "nobody"
      PROVE  i = j
  <2>1. CASE i \in 1 .. Len(queue) /\ j \in 1 .. Len(queue)
    BY <1>1, <1>2, <2>1 DEF OnePerThread
  <2>2. CASE i = Len(queue) + 1 /\ j \in 1 .. Len(queue)
    BY <1>1, <1>2, <2>2
  <2>3. CASE i \in 1 .. Len(queue) /\ j = Len(queue) + 1
    BY <1>1, <1>2, <2>3
  <2>4. CASE i = Len(queue) + 1 /\ j = Len(queue) + 1
    BY <2>4
  <2> QED  BY <1>1, <2>1, <2>2, <2>3, <2>4
<1>3. ASSUME NEW i \in DOMAIN new
      PROVE  new[i] = call \/ \E k \in DOMAIN queue : new[i] = queue[k]
  <2>1. CASE i = Len(queue) + 1
    BY <1>1, <2>1
  <2>2. CASE i \in 1 .. Len(queue)
    BY <1>1, <2>2
  <2> QED  BY <1>1, <2>1, <2>2
<1>4. OnePerThread(new)
  BY <1>2 DEF OnePerThread
<1> QED  BY <1>1, <1>3, <1>4 DEF new

LEMMA AskedOnce ==
    ASSUME Typed, OneCallEach, NEW call \in CallsFor(tables), requests' = Append(requests, call),
           \A i \in DOMAIN requests : requests[i].from # call.from
    PROVE  /\ requests' \in Seq(CallsFor(tables))
           /\ OnePerThread(requests')
           /\ \A i \in DOMAIN requests' : requests'[i] = call \/ \E k \in DOMAIN requests : requests'[i] = requests[k]
BY AskedBehind DEF Typed, OneCallEach

LEMMA OpenControl ==
    ASSUME Control, Open
    PROVE  Control'
<1>1. Typed'
  BY DEF Control, Typed, TablesTyped, Open
<1>2. OneThing'
  BY DEF Control, OneThing, Open
<1>3. OneCallEach' /\ CallsFit' /\ UnshownNames'
  BY DEF Control, OneCallEach, CallsFit, UnshownNames, Open
<1> QED  BY <1>1, <1>2, <1>3 DEF Control

LEMMA StartJobControl ==
    ASSUME Control, StartJob
    PROVE  Control'
<1> DEFINE call == Request("worker", worker', NoId)
<1>1. Typed /\ OneThing /\ OneCallEach /\ CallsFit /\ UnshownNames
  BY DEF Control
<1>2. /\ job # "none" /\ worker = "idle" /\ job' = "none" /\ worker' \in {"rects", "people"}
      /\ requests' = Append(requests, call)
      /\ UNCHANGED <<tables, dialog, known, shown, sessions, expected, hasty, faces, events, crashed>>
  BY DEF StartJob, Evaluate, guiVars
<1>3. call \in CallsFor(tables) /\ call.from = "worker" /\ call.what \in {"rects", "people"}
  BY <1>2 DEF Request, CallsFor, Waiting
<1> HIDE DEF call
<1>4. \A i \in DOMAIN requests : requests[i].from # call.from
  BY <1>1, <1>2, <1>3 DEF OneCallEach, Waiting
<1>5. /\ requests' \in Seq(CallsFor(tables))
      /\ OnePerThread(requests')
      /\ \A i \in DOMAIN requests' : requests'[i] = call \/ \E k \in DOMAIN requests : requests'[i] = requests[k]
  BY <1>1, <1>2, <1>3, <1>4, AskedOnce
<1>6. Typed'
  BY <1>1, <1>2, <1>5 DEF Typed, TablesTyped, Waiting
<1>7. OneThing'
  BY <1>1, <1>2 DEF OneThing
<1>8. OneCallEach'
  BY <1>1, <1>2, <1>3, <1>5 DEF OneCallEach, Waiting
<1>9. CallsFit' /\ UnshownNames'
  BY <1>1, <1>2, <1>3, <1>5 DEF CallsFit, UnshownNames
<1> QED  BY <1>6, <1>7, <1>8, <1>9 DEF Control

\* m_faces is filled in place.
LEMMA FacesStayFaces ==
    ASSUME Typed, NEW S, DOMAIN faces' = DOMAIN faces, faces' = [i \in DOMAIN faces |-> faces'[i]],
           \A i \in DOMAIN faces : faces'[i] \in S
    PROVE  faces' \in Seq(S)
<1>1. Len(faces) \in Nat /\ DOMAIN faces = 1 .. Len(faces)
  BY FacesAre
<1> QED  BY <1>1, MappedPlaces

\* A result is posted when none waits.
LEMMA PostedOnce ==
    ASSUME events = <<>>, NEW result \in Results, events' = Append(events, result)
    PROVE  /\ events' \in Seq(Results) /\ Len(events') = 1
           /\ DOMAIN events' = {1} /\ events'[1] = result
<1>1. events \in Seq(Results) /\ Len(events) = 0
  OBVIOUS
<1>2. /\ events' \in Seq(Results) /\ Len(events') = 0 + 1 /\ DOMAIN events' = 1 .. 0 + 1
      /\ events'[0 + 1] = result
  BY <1>1, AppendedPlaces
<1> QED  BY <1>2

LEMMA DetectControl ==
    ASSUME Control, Detect
    PROVE  Control' /\ events'[1].what = "findFaces_result" /\ IsInjective(events'[1].rects) /\ DOMAIN events' = {1}
<1> DEFINE result == [what |-> "findFaces_result", rects |-> Ascending(Faces)]
<1>1. Typed /\ OneThing /\ OneCallEach /\ CallsFit /\ UnshownNames
  BY DEF Control
<1>2. /\ worker = "detecting" /\ worker' = "idle" /\ events' = Append(events, result)
      /\ UNCHANGED <<tables, requests, dialog, known, shown, sessions, expected, hasty, faces, job, crashed>>
  BY DEF Detect, FindFaces_Result, guiVars
<1>3. Ascending(Faces) \in Seq(Faces) /\ IsInjective(Ascending(Faces))
  <2>1. Faces \subseteq Nat \ {0}
    BY PeopleAssumption
  <2>2. Faces \subseteq Int
    BY <2>1
  <2>3. IsFiniteSet(Faces)
    BY PeopleAssumption
  <2> QED  BY <2>2, <2>3, AscendingProperties
<1>4. result \in Results /\ result.what = "findFaces_result" /\ IsInjective(result.rects)
  BY <1>3 DEF Results
<1> HIDE DEF result
<1>5. events = <<>> /\ ~ shown /\ job = "none" /\ dialog # "closed"
  BY <1>1, <1>2 DEF OneThing
<1>6. events' \in Seq(Results) /\ Len(events') = 1 /\ DOMAIN events' = {1} /\ events'[1] = result
  BY <1>2, <1>4, <1>5, PostedOnce
<1>7. Typed'
  BY <1>1, <1>2, <1>6 DEF Typed, TablesTyped
<1>8. OneThing'
  BY <1>1, <1>2, <1>5, <1>6 DEF OneThing
<1>9. OneCallEach'
  BY <1>1, <1>2 DEF OneCallEach, Waiting
<1>10. CallsFit' /\ UnshownNames'
  BY <1>1, <1>2 DEF CallsFit, UnshownNames
<1> QED  BY <1>4, <1>6, <1>7, <1>8, <1>9, <1>10 DEF Control

LEMMA CalculateControl ==
    ASSUME Control, Calculate
    PROVE  Control'
<1> DEFINE call == Request("worker", "known", NoId)
<1>1. Typed /\ OneThing /\ OneCallEach /\ CallsFit /\ UnshownNames
  BY DEF Control
<1>2. /\ worker = "calculating" /\ worker' = "known" /\ requests' = Append(requests, call)
      /\ faces' = [i \in DOMAIN faces |->
                     IF faces[i].printId # NoId THEN faces[i] ELSE [faces[i] EXCEPT !.print = faces[i].rect]]
      /\ UNCHANGED <<tables, dialog, known, shown, sessions, expected, hasty, job, events>>
  BY DEF Calculate, Evaluate, guiVars
<1>3. call \in CallsFor(tables) /\ call.from = "worker" /\ call.what = "known"
  BY DEF Request, CallsFor, Waiting
<1> HIDE DEF call
<1>4. \A i \in DOMAIN requests : requests[i].from # call.from
  BY <1>1, <1>2, <1>3 DEF OneCallEach, Waiting
<1>5. /\ requests' \in Seq(CallsFor(tables))
      /\ OnePerThread(requests')
      /\ \A i \in DOMAIN requests' : requests'[i] = call \/ \E k \in DOMAIN requests : requests'[i] = requests[k]
  BY <1>1, <1>2, <1>3, <1>4, AskedOnce
<1>6. faces' \in Seq(FacesFor(tables)) /\ DOMAIN faces' = DOMAIN faces
  <2>1. DOMAIN faces' = DOMAIN faces /\ faces' = [i \in DOMAIN faces |-> faces'[i]]
    BY <1>2
  <2>2. \A i \in DOMAIN faces : faces'[i] \in FacesFor(tables)
    BY <1>1, <1>2, FacesAre DEF FacesFor
  <2> QED  BY <1>1, <2>1, <2>2, FacesStayFaces
<1>7. Typed'
  BY <1>1, <1>2, <1>5, <1>6 DEF Typed, TablesTyped, Waiting
<1>8. OneThing'
  BY <1>1, <1>2, <1>6 DEF OneThing
<1>9. OneCallEach'
  BY <1>1, <1>2, <1>3, <1>5 DEF OneCallEach, Waiting
<1>10. CallsFit'
  BY <1>1, <1>2, <1>3, <1>5, <1>6 DEF CallsFit, OneThing
<1>11. UnshownNames'
  <2>1. \A i \in DOMAIN faces : faces'[i].name = faces[i].name /\ faces'[i].person = faces[i].person
    BY <1>1, <1>2, FacesAre DEF FacesFor
  <2> QED  BY <1>1, <1>2, <1>6, <2>1 DEF UnshownNames
<1> QED  BY <1>7, <1>8, <1>9, <1>10, <1>11 DEF Control

\* The call that waits, if one does.
LEMMA OneEvent ==
    ASSUME Typed, OneThing, events # <<>>
    PROVE  Tail(events) = <<>> /\ Head(events) = events[1] /\ Head(events) \in Results /\ DOMAIN events = {1}
<1>1. events \in Seq(Results) /\ Len(events) = 1
  BY DEF Typed, OneThing
<1>2. /\ Tail(events) \in Seq(Results) /\ Head(events) = events[1] /\ Head(events) \in Results
      /\ DOMAIN events = 1 .. 1 /\ Len(Tail(events)) = 1 - 1
  BY <1>1, TailPlaces
<1>3. Len(Tail(events)) = 0
  BY <1>2
<1>4. Tail(events) = <<>>
  BY <1>2, <1>3, EmptySeq
<1> QED  BY <1>2, <1>4

\* What findFaces_result() appends.
LEMMA FoundFaces ==
    ASSUME Typed, NEW rects \in Seq(Faces),
           faces' = faces \o [i \in DOMAIN rects |-> NewFace(rects[i])], UNCHANGED tables
    PROVE  /\ faces' \in Seq(FacesFor(tables))
           /\ \A i \in DOMAIN faces' : \/ \E k \in DOMAIN faces : faces'[i] = faces[k]
                                      \/ \E k \in DOMAIN rects : faces'[i] = NewFace(rects[k])
           /\ faces = <<>> => DOMAIN faces' = DOMAIN rects /\ \A i \in DOMAIN faces' : faces'[i] = NewFace(rects[i])
<1> DEFINE new == [i \in DOMAIN rects |-> NewFace(rects[i])]
<1>1. Len(rects) \in Nat /\ DOMAIN rects = 1 .. Len(rects) /\ \A i \in 1 .. Len(rects) : rects[i] \in Faces
  OBVIOUS
<1>2. 0 \in 0 .. Len(tables.rows) /\ 0 \in 0 .. Len(tables.names) /\ 0 \in 0 .. Len(tables.prints)
  BY TablesAre
<1>3. \A i \in 1 .. Len(rects) : NewFace(rects[i]) \in FacesFor(tables)
  BY <1>1, <1>2 DEF NewFace, FacesFor, NoId, NoPrint, NoRect
<1>4. new \in Seq(FacesFor(tables)) /\ Len(new) = Len(rects) /\ DOMAIN new = 1 .. Len(rects)
  <2>1. DOMAIN new = 1 .. Len(rects) /\ new = [i \in 1 .. Len(rects) |-> new[i]]
        /\ \A i \in 1 .. Len(rects) : new[i] \in FacesFor(tables)
    BY <1>1, <1>3
  <2> HIDE DEF new
  <2> QED  BY <1>1, <2>1, MappedPlaces
<1>5. \A i \in DOMAIN rects : new[i] = NewFace(rects[i])
  OBVIOUS
<1>6. faces' = faces \o new
  OBVIOUS
<1> HIDE DEF new
<1>7. faces \in Seq(FacesFor(tables))
  BY DEF Typed
<1>8. /\ faces' \in Seq(FacesFor(tables)) /\ Len(faces') = Len(faces) + Len(new)
      /\ \A i \in 1 .. Len(faces) + Len(new) :
            faces'[i] = IF i <= Len(faces) THEN faces[i] ELSE new[i - Len(faces)]
  <2>1. new \in Seq(FacesFor(tables))
    BY <1>4
  <2>2. /\ faces \o new \in Seq(FacesFor(tables)) /\ Len(faces \o new) = Len(faces) + Len(new)
        /\ \A i \in 1 .. Len(faces) + Len(new) :
              (faces \o new)[i] = IF i <= Len(faces) THEN faces[i] ELSE new[i - Len(faces)]
    BY <1>7, <2>1, ConcatProperties
  <2> QED  BY <1>6, <2>2
<1>10. Len(faces) \in Nat /\ DOMAIN faces = 1 .. Len(faces) /\ DOMAIN faces' = 1 .. Len(faces')
  BY <1>7, <1>8
<1>11. ASSUME NEW i \in DOMAIN faces'
       PROVE  \/ \E k \in DOMAIN faces : faces'[i] = faces[k]
              \/ \E k \in DOMAIN rects : faces'[i] = NewFace(rects[k])
  <2>1. CASE i <= Len(faces)
    BY <1>8, <1>10, <1>11, <2>1
  <2>2. CASE ~ (i <= Len(faces))
    <3>1. i - Len(faces) \in DOMAIN rects
      BY <1>1, <1>4, <1>8, <1>10, <1>11, <2>2
    <3>2. faces'[i] = new[i - Len(faces)]
      BY <1>4, <1>1, <1>8, <1>10, <1>11, <2>2
    <3> QED  BY <1>5, <3>1, <3>2
  <2> QED  BY <2>1, <2>2
<1>9. ASSUME faces = <<>>  PROVE faces' = new
  BY <1>4, <1>6, <1>9, ConcatEmptySeq
<1> QED  BY <1>1, <1>4, <1>5, <1>8, <1>9, <1>11

LEMMA HandleEventControl ==
    ASSUME Control, HandleEvent
    PROVE  Control'
<1>1. Typed /\ OneThing /\ OneCallEach /\ CallsFit /\ UnshownNames
  BY DEF Control
<1>2. /\ dialog = "open" /\ events # <<>> /\ events' = Tail(events)
      /\ UNCHANGED <<tables, requests, dialog, known, worker, crashed, sessions, expected, hasty>>
  BY DEF HandleEvent
<1>3. events' = <<>> /\ Head(events) \in Results /\ job = "none" /\ worker = "idle" /\ ~ shown
  BY <1>1, <1>2, OneEvent DEF OneThing
<1>4. \A i \in DOMAIN requests : requests[i].from # "gui"
  BY <1>1, <1>2 DEF OneCallEach
<1>5. \A i \in DOMAIN requests : requests[i].what \notin {"storeName", "storePrint"}
  BY <1>1, <1>4, KindsOfCalls, RequestsAre
<1>6. OneCallEach' /\ CallsFit'
  BY <1>1, <1>2, <1>5 DEF OneCallEach, CallsFit
<1>7. Len(events') = 0 /\ events' \in Seq(Results)
  BY <1>3
<1>8. CASE Head(events).what = "findFaces_result" /\ shown' = shown /\ job' = "recognize"
           /\ faces' = faces \o [i \in DOMAIN Head(events).rects |-> NewFace(Head(events).rects[i])]
  <2>1. Head(events).rects \in Seq(Faces)
    BY <1>3, <1>8 DEF Results
  <2>2. faces' \in Seq(FacesFor(tables))
    BY <1>1, <1>2, <1>8, <2>1, FoundFaces
  <2>3. Typed'
    BY <1>1, <1>2, <1>7, <1>8, <2>2 DEF Typed, TablesTyped
  <2>4. OneThing'
    BY <1>1, <1>2, <1>3, <1>8 DEF OneThing
  <2>5. UnshownNames'
    <3>1. \A i \in DOMAIN faces' : \/ \E k \in DOMAIN faces : faces'[i] = faces[k]
                                   \/ faces'[i].name = NoName
      BY <1>1, <1>2, <1>8, <2>1, FoundFaces DEF NewFace
    <3> QED  BY <1>1, <1>8, <3>1 DEF UnshownNames
  <2> QED  BY <1>6, <2>3, <2>4, <2>5 DEF Control
<1>9. CASE Head(events).what = "recognizeFaces_result" /\ shown' = TRUE /\ UNCHANGED <<faces, job>>
  <2>1. Typed'
    BY <1>1, <1>2, <1>7, <1>9 DEF Typed, TablesTyped
  <2>2. OneThing'
    BY <1>1, <1>2, <1>3, <1>9 DEF OneThing
  <2>3. UnshownNames'
    BY <1>9 DEF UnshownNames
  <2> QED  BY <1>6, <2>1, <2>2, <2>3 DEF Control
<1> QED  BY <1>8, <1>9 DEF HandleEvent

\* person() of a name finds a row with the name if there is one.
LEMMA PersonFound ==
    ASSUME NEW S, NEW names \in Seq(S), NEW name
    PROVE  /\ PersonOf(names, name) \in 0 .. Len(names)
           /\ PersonOf(names, name) # NoId => names[PersonOf(names, name)] = name
           /\ PersonOf(names, name) = NoId => \A n \in DOMAIN names : names[n] # name
<1> DEFINE I == {i \in 1 .. Len(names) : names[i] = name}
<1>1. Len(names) \in Nat /\ DOMAIN names = 1 .. Len(names) /\ I \in SUBSET (1 .. Len(names))
  OBVIOUS
<1>2. PersonOf(names, name) = IF I # {} THEN Min(I) ELSE 0
  BY DEF PersonOf, SelectInSeq
<1>3. \A i \in 1 .. Len(names) : i \in I <=> names[i] = name
  OBVIOUS
<1> HIDE DEF I
<1>4. /\ PersonOf(names, name) \in 0 .. Len(names)
      /\ PersonOf(names, name) = 0 <=> I = {}
      /\ PersonOf(names, name) # 0 => PersonOf(names, name) \in I
  BY <1>1, <1>2, FirstPlace
<1> QED  BY <1>1, <1>3, <1>4 DEF NoId

\* The face store_people_names() goes on with, and that of store_fingerprints().
Unstored == SelectInSeq(faces, LAMBDA f : f.person = NoId /\ f.name # NoName)
Unprinted == SelectInSeq(faces, LAMBDA f : f.printId = NoId)

LEMMA UnstoredFace ==
    ASSUME Typed
    PROVE  /\ Unstored # NoId => /\ Unstored \in DOMAIN faces
                                 /\ faces[Unstored].person = NoId /\ faces[Unstored].name # NoName
           /\ Unstored = NoId => \A i \in DOMAIN faces : faces[i].name # NoName => faces[i].person # NoId
<1> DEFINE I == {i \in 1 .. Len(faces) : faces[i].person = NoId /\ faces[i].name # NoName}
<1>1. Len(faces) \in Nat /\ DOMAIN faces = 1 .. Len(faces) /\ I \in SUBSET (1 .. Len(faces))
  BY FacesAre
<1>2. Unstored = IF I # {} THEN Min(I) ELSE 0
  BY DEF Unstored, SelectInSeq
<1>3. \A i \in 1 .. Len(faces) : i \in I <=> faces[i].person = NoId /\ faces[i].name # NoName
  OBVIOUS
<1> HIDE DEF I
<1>4. /\ Unstored = 0 <=> I = {}
      /\ Unstored # 0 => Unstored \in I
  BY <1>1, <1>2, FirstPlace
<1> QED  BY <1>1, <1>3, <1>4 DEF NoId

LEMMA UnprintedFace ==
    ASSUME Typed
    PROVE  Unprinted # NoId => Unprinted \in DOMAIN faces
<1> DEFINE I == {i \in 1 .. Len(faces) : faces[i].printId = NoId}
<1>1. Len(faces) \in Nat /\ DOMAIN faces = 1 .. Len(faces) /\ I \in SUBSET (1 .. Len(faces))
  BY FacesAre
<1>2. Unprinted = IF I # {} THEN Min(I) ELSE 0
  BY DEF Unprinted, SelectInSeq
<1> HIDE DEF I
<1>3. Unprinted # 0 => Unprinted \in I
  BY <1>1, <1>2, FirstPlace
<1> QED  BY <1>1, <1>3 DEF NoId

\* apply() sets the names of the list, if there is one.
LEMMA AcceptNames ==
    ASSUME Typed, Accept
    PROVE  /\ DOMAIN faces' = DOMAIN faces /\ faces' = [i \in DOMAIN faces |-> faces'[i]]
           /\ ~ shown => faces' = faces /\ expected' = expected
           /\ \A i \in DOMAIN faces : /\ faces'[i] \in FacesFor(tables)
                                      /\ faces'[i].rect = faces[i].rect /\ faces'[i].id = faces[i].id
                                      /\ \/ faces'[i] = faces[i]
                                         \/ shown /\ faces'[i].person = NoId
           /\ shown => \E typed \in [DOMAIN faces -> Names \cup {NoName}] :
                          /\ \A i \in DOMAIN faces : faces'[i].name = typed[i]
                          /\ expected' = [r \in {faces[i].rect : i \in DOMAIN faces} |->
                                            typed[CHOOSE i \in DOMAIN faces : faces[i].rect = r]]
<1>1. /\ Len(faces) \in Nat /\ DOMAIN faces = 1 .. Len(faces) /\ faces = [i \in DOMAIN faces |-> faces[i]]
      /\ \A i \in DOMAIN faces : faces[i] \in FacesFor(tables)
  BY FacesAre
<1>2. 0 \in 0 .. Len(tables.names)
  BY TablesAre
<1>3. ASSUME NEW i \in DOMAIN faces, NEW name \in Names \cup {NoName}
      PROVE  /\ SetName(faces[i], name) \in FacesFor(tables) /\ SetName(faces[i], name).name = name
             /\ SetName(faces[i], name).rect = faces[i].rect /\ SetName(faces[i], name).id = faces[i].id
             /\ SetName(faces[i], name) = faces[i] \/ SetName(faces[i], name).person = NoId
  BY <1>1, <1>2 DEF SetName, FacesFor, NoId
<1>4. CASE shown
  <2>1. PICK typed \in [DOMAIN faces -> Names \cup {NoName}] :
           /\ faces' = [i \in DOMAIN faces |-> SetName(faces[i], typed[i])]
           /\ expected' = [r \in {faces[i].rect : i \in DOMAIN faces} |->
                             typed[CHOOSE i \in DOMAIN faces : faces[i].rect = r]]
    BY <1>4 DEF Accept
  <2>2. \A i \in DOMAIN faces : typed[i] \in Names \cup {NoName} /\ faces'[i] = SetName(faces[i], typed[i])
    BY <2>1
  <2>3. \A i \in DOMAIN faces : /\ faces'[i] \in FacesFor(tables) /\ faces'[i].name = typed[i]
                                /\ faces'[i].rect = faces[i].rect /\ faces'[i].id = faces[i].id
                                /\ faces'[i] = faces[i] \/ faces'[i].person = NoId
    BY <1>3, <2>2
  <2>4. DOMAIN faces' = DOMAIN faces /\ faces' = [i \in DOMAIN faces |-> faces'[i]]
    BY <2>1
  <2> QED  BY <1>4, <2>1, <2>3, <2>4
<1>5. CASE ~ shown
  <2>1. faces' = [i \in DOMAIN faces |-> faces[i]] /\ expected' = expected
    BY <1>5 DEF Accept
  <2>2. faces' = faces
    BY <1>1, <2>1
  <2> QED  BY <1>1, <1>5, <2>1, <2>2
<1> QED  BY <1>4, <1>5

LEMMA AcceptControl ==
    ASSUME Control, Accept
    PROVE  Control'
<1> DEFINE call == Request("gui", "names", NoId)
<1>1. Typed /\ OneThing /\ OneCallEach /\ CallsFit /\ UnshownNames
  BY DEF Control
<1>2. /\ dialog = "open" /\ dialog' = "names" /\ requests' = Append(requests, call)
      /\ hasty' = (hasty \/ (~ shown /\ faces # <<>>))
      /\ UNCHANGED <<tables, known, shown, job, worker, events>>
  BY DEF Accept, Evaluate
<1>3. call \in CallsFor(tables) /\ call.from = "gui" /\ call.what = "names"
  BY DEF Request, CallsFor
<1> HIDE DEF call
<1>4. \A i \in DOMAIN requests : requests[i].from # call.from
  BY <1>1, <1>2, <1>3 DEF OneCallEach
<1>5. /\ requests' \in Seq(CallsFor(tables))
      /\ OnePerThread(requests')
      /\ \A i \in DOMAIN requests' : requests'[i] = call \/ \E k \in DOMAIN requests : requests'[i] = requests[k]
  BY <1>1, <1>2, <1>3, <1>4, AskedOnce
<1>6. /\ faces' \in Seq(FacesFor(tables)) /\ DOMAIN faces' = DOMAIN faces
      /\ ~ shown => faces' = faces
  BY <1>1, AcceptNames, FacesStayFaces
<1>7. Typed'
  BY <1>1, <1>2, <1>5, <1>6 DEF Typed, TablesTyped, Waiting
<1>8. OneThing'
  BY <1>1, <1>2 DEF OneThing
<1>9. OneCallEach'
  BY <1>1, <1>2, <1>3, <1>5 DEF OneCallEach, Waiting
<1>10. CallsFit'
  <2>1. \A i \in DOMAIN requests : requests[i].what \notin {"storeName", "storePrint"}
    BY <1>1, <1>3, <1>4, KindsOfCalls, RequestsAre
  <2> QED  BY <1>3, <1>5, <2>1 DEF CallsFit
<1>11. UnshownNames'
  BY <1>1, <1>2, <1>6 DEF UnshownNames
<1> QED  BY <1>7, <1>8, <1>9, <1>10, <1>11 DEF Control

LEMMA RejectControl ==
    ASSUME Control, Reject
    PROVE  Control'
<1>1. Typed /\ OneThing /\ OneCallEach /\ CallsFit /\ UnshownNames
  BY DEF Control
<1>2. /\ dialog = "open" /\ dialog' = "closing"
      /\ UNCHANGED <<tables, requests, faces, known, shown, job, worker, events, hasty>>
  BY DEF Reject
<1>3. Typed'
  BY <1>1, <1>2 DEF Typed, TablesTyped
<1>4. OneThing'
  BY <1>1, <1>2 DEF OneThing
<1>5. OneCallEach' /\ CallsFit' /\ UnshownNames'
  BY <1>1, <1>2 DEF OneCallEach, CallsFit, UnshownNames
<1> QED  BY <1>3, <1>4, <1>5 DEF Control

LEMMA CloseControl ==
    ASSUME Control, Close
    PROVE  Control'
<1>1. Typed /\ OneThing /\ OneCallEach /\ CallsFit /\ UnshownNames
  BY DEF Control
<1>2. /\ dialog = "closing" /\ worker = "idle" /\ dialog' = "closed" /\ job' = "none" /\ events' = <<>>
      /\ faces' = <<>> /\ known' = <<>> /\ shown' = FALSE
      /\ UNCHANGED <<tables, requests, worker, hasty>>
  BY DEF Close, Released
<1>3. /\ faces' \in Seq(FacesFor(tables)) /\ known' \in Seq(Names) /\ Len(known') = 0
      /\ events' \in Seq(Results)
  BY <1>2
<1>4. Len(known') <= Len(tables.names)
  BY <1>1, <1>3, TablesAre
<1>5. Typed'
  BY <1>1, <1>2, <1>3, <1>4 DEF Typed, TablesTyped
<1>6. OneThing'
  BY <1>1, <1>2 DEF OneThing
<1>7. \A i \in DOMAIN requests : requests[i].from = "nobody" /\ requests[i].what = "storeInfo"
  BY <1>1, <1>2, RequestsAre, KindsOfCalls DEF OneCallEach, Waiting
<1>8. OneCallEach' /\ CallsFit' /\ UnshownNames'
  BY <1>2, <1>7 DEF OneCallEach, OnePerThread, CallsFit, UnshownNames
<1> QED  BY <1>5, <1>6, <1>8 DEF Control

LEMMA StorePeopleNamesControl ==
    ASSUME Control, StorePeopleNames
    PROVE  Control'
<1> DEFINE i == Unstored
           person == IF i = NoId THEN NoId ELSE PersonOf(known, faces[i].name)
           call == Request("gui", "storeName", i)
<1>1. Typed /\ OneThing /\ OneCallEach /\ CallsFit /\ UnshownNames
  BY DEF Control
<1>2. /\ dialog = "names" /\ ~ Blocked
      /\ UNCHANGED <<tables, known, shown, job, worker, events, hasty>>
      /\ \/ i = NoId /\ dialog' = "fingerprints" /\ UNCHANGED <<requests, faces>>
         \/ /\ i # NoId /\ person # NoId
            /\ faces' = [faces EXCEPT ![i].person = person] /\ UNCHANGED <<requests, dialog>>
         \/ /\ i # NoId /\ person = NoId
            /\ requests' = Append(requests, call) /\ UNCHANGED <<faces, dialog>>
  BY DEF StorePeopleNames, Unstored, Evaluate
<1>3. i # NoId => i \in DOMAIN faces /\ faces[i].person = NoId /\ faces[i].name # NoName
  BY <1>1, UnstoredFace
<1>4. \A k \in DOMAIN requests : requests[k].from # "gui"
  BY <1>2 DEF Blocked
<1>5. \A k \in DOMAIN requests : requests[k].what \notin {"storeName", "storePrint"}
  BY <1>1, <1>4, KindsOfCalls, RequestsAre
<1> HIDE DEF i
<1>6. CASE i = NoId /\ dialog' = "fingerprints" /\ UNCHANGED <<requests, faces>>
  <2>1. Typed'
    BY <1>1, <1>2, <1>6 DEF Typed, TablesTyped
  <2>2. OneThing'
    BY <1>1, <1>2, <1>6 DEF OneThing
  <2>3. OneCallEach' /\ CallsFit' /\ UnshownNames'
    BY <1>1, <1>2, <1>6 DEF OneCallEach, CallsFit, UnshownNames
  <2> QED  BY <2>1, <2>2, <2>3 DEF Control
<1>7. CASE i # NoId /\ person # NoId /\ faces' = [faces EXCEPT ![i].person = person]
           /\ UNCHANGED <<requests, dialog>>
  <2>1. person \in 0 .. Len(tables.names)
    <3>1. known \in Seq(Names) /\ Len(known) \in Nat /\ Len(known) <= Len(tables.names)
      BY <1>1 DEF Typed
    <3>2. person \in 0 .. Len(known)
      BY <1>7, <3>1, PersonFound
    <3> HIDE DEF person
    <3> QED  BY <1>1, <3>1, <3>2, TablesAre
  <2> HIDE DEF person
  <2>2. DOMAIN faces' = DOMAIN faces /\ faces' = [k \in DOMAIN faces |-> faces'[k]]
    BY <1>7
  <2>3. ASSUME NEW k \in DOMAIN faces
        PROVE  faces'[k] \in FacesFor(tables) /\ faces'[k].name = faces[k].name
               /\ (faces[k].person # NoId => faces'[k].person # NoId)
    BY <1>1, <1>3, <1>7, <2>1, FacesAre DEF FacesFor
  <2>4. faces' \in Seq(FacesFor(tables))
    BY <1>1, <2>2, <2>3, FacesStayFaces
  <2>5. Typed'
    BY <1>1, <1>2, <1>7, <2>4 DEF Typed, TablesTyped
  <2>6. OneThing'
    BY <1>1, <1>2, <1>7 DEF OneThing
  <2>7. OneCallEach' /\ CallsFit'
    BY <1>1, <1>2, <1>5, <1>7 DEF OneCallEach, CallsFit
  <2>8. UnshownNames'
    BY <1>1, <1>2, <2>2, <2>3 DEF UnshownNames
  <2> QED  BY <2>5, <2>6, <2>7, <2>8 DEF Control
<1>8. CASE i # NoId /\ requests' = Append(requests, call) /\ UNCHANGED <<faces, dialog>>
  <2>1. call \in CallsFor(tables) /\ call.from = "gui" /\ call.what = "storeName" /\ call.arg = i
    BY <1>1, <1>3, <1>8, FacesAre DEF Request, CallsFor
  <2> HIDE DEF call
  <2>2. /\ requests' \in Seq(CallsFor(tables)) /\ OnePerThread(requests')
        /\ \A k \in DOMAIN requests' : requests'[k] = call \/ \E l \in DOMAIN requests : requests'[k] = requests[l]
    BY <1>1, <1>4, <1>8, <2>1, AskedOnce
  <2>3. Typed'
    BY <1>1, <1>2, <1>8, <2>2 DEF Typed, TablesTyped
  <2>4. OneThing'
    BY <1>1, <1>2, <1>8 DEF OneThing
  <2>5. OneCallEach'
    BY <1>1, <1>2, <1>8, <2>1, <2>2 DEF OneCallEach
  <2>6. shown
    BY <1>1, <1>3, <1>8 DEF UnshownNames
  <2>7. CallsFit' /\ UnshownNames'
    BY <1>1, <1>2, <1>3, <1>5, <1>8, <2>1, <2>2, <2>6 DEF CallsFit, UnshownNames
  <2> QED  BY <2>3, <2>4, <2>5, <2>7 DEF Control
<1> QED  BY <1>2, <1>6, <1>7, <1>8

\* store_people_information() sends a call for each face, and waits for none.
InfoOf(f) == [id |-> f.id, info |-> Info(f.person, f.rect, IF f.f = NoId THEN f.printId ELSE f.f)]
Sending == requests' = requests \o [k \in DOMAIN faces |-> Request("nobody", "storeInfo", InfoOf(faces[k]))]

LEMMA SentInfos ==
    ASSUME Typed, Sending
    PROVE  /\ requests' \in Seq(CallsFor(tables)) /\ Len(requests') = Len(requests) + Len(faces)
           /\ DOMAIN requests' = 1 .. Len(requests) + Len(faces)
           /\ \A i \in 1 .. Len(requests) : requests'[i] = requests[i]
           /\ \A i \in DOMAIN requests' \ 1 .. Len(requests) :
                 /\ i - Len(requests) \in DOMAIN faces
                 /\ requests'[i] = Request("nobody", "storeInfo", InfoOf(faces[i - Len(requests)]))
<1> DEFINE sent == [k \in DOMAIN faces |-> Request("nobody", "storeInfo", InfoOf(faces[k]))]
<1>1. requests' = requests \o sent
  BY DEF Sending
<1>2. requests \in Seq(CallsFor(tables)) /\ Len(requests) \in Nat /\ DOMAIN requests = 1 .. Len(requests)
  BY RequestsAre DEF Typed
<1>3. Len(faces) \in Nat /\ DOMAIN faces = 1 .. Len(faces)
  BY FacesAre
<1>4. \A k \in DOMAIN faces : Request("nobody", "storeInfo", InfoOf(faces[k])) \in CallsFor(tables)
  <2> SUFFICES ASSUME NEW k \in DOMAIN faces
               PROVE  Request("nobody", "storeInfo", InfoOf(faces[k])) \in CallsFor(tables)
    OBVIOUS
  <2>1. InfoOf(faces[k]) \in InfosFor(tables)
    BY FacesAre DEF InfoOf, Info, InfosFor
  <2> QED  BY <2>1 DEF Request, CallsFor
<1>5. /\ DOMAIN sent = 1 .. Len(faces) /\ sent = [k \in 1 .. Len(faces) |-> sent[k]]
      /\ \A k \in 1 .. Len(faces) : /\ sent[k] = Request("nobody", "storeInfo", InfoOf(faces[k]))
                                    /\ sent[k] \in CallsFor(tables)
  BY <1>3, <1>4
<1> HIDE DEF sent
<1>6. sent \in Seq(CallsFor(tables)) /\ Len(sent) = Len(faces)
  BY <1>3, <1>5, MappedPlaces
<1>7. /\ requests' \in Seq(CallsFor(tables)) /\ Len(requests') = Len(requests) + Len(sent)
      /\ \A i \in 1 .. Len(requests) + Len(sent) :
            requests'[i] = IF i <= Len(requests) THEN requests[i] ELSE sent[i - Len(requests)]
  BY <1>1, <1>2, <1>6, ConcatProperties
<1>8. DOMAIN requests' = 1 .. Len(requests) + Len(faces)
  BY <1>6, <1>7
<1>9. \A i \in 1 .. Len(requests) : requests'[i] = requests[i]
  BY <1>2, <1>3, <1>6, <1>7
<1>10. ASSUME NEW i \in DOMAIN requests' \ 1 .. Len(requests)
       PROVE  /\ i - Len(requests) \in 1 .. Len(faces) /\ requests'[i] = sent[i - Len(requests)]
  BY <1>2, <1>3, <1>6, <1>7, <1>8
<1> QED  BY <1>3, <1>5, <1>6, <1>7, <1>8, <1>9, <1>10

LEMMA StoreFingerprintsControl ==
    ASSUME Control, StoreFingerprints
    PROVE  Control'
<1> DEFINE i == Unprinted
           call == Request("gui", "storePrint", i)
<1>1. Typed /\ OneThing /\ OneCallEach /\ CallsFit /\ UnshownNames
  BY DEF Control
<1>2. /\ dialog = "fingerprints" /\ ~ Blocked
      /\ UNCHANGED <<tables, faces, known, shown, job, worker, events, hasty>>
      /\ \/ i # NoId /\ requests' = Append(requests, call) /\ UNCHANGED dialog
         \/ i = NoId /\ Sending /\ dialog' = "closing"
  BY DEF StoreFingerprints, Unprinted, Evaluate, Sending, InfoOf
<1>3. i # NoId => i \in DOMAIN faces
  BY <1>1, UnprintedFace
<1>4. \A k \in DOMAIN requests : requests[k].from # "gui"
  BY <1>2 DEF Blocked
<1>5. \A k \in DOMAIN requests : requests[k].what \notin {"storeName", "storePrint"}
  BY <1>1, <1>4, KindsOfCalls, RequestsAre
<1> HIDE DEF i
<1>6. CASE i # NoId /\ requests' = Append(requests, call) /\ UNCHANGED dialog
  <2>1. call \in CallsFor(tables) /\ call.from = "gui" /\ call.what = "storePrint" /\ call.arg = i
    BY <1>1, <1>3, <1>6, FacesAre DEF Request, CallsFor
  <2> HIDE DEF call
  <2>2. /\ requests' \in Seq(CallsFor(tables)) /\ OnePerThread(requests')
        /\ \A k \in DOMAIN requests' : requests'[k] = call \/ \E l \in DOMAIN requests : requests'[k] = requests[l]
    BY <1>1, <1>4, <1>6, <2>1, AskedOnce
  <2>3. Typed'
    BY <1>1, <1>2, <1>6, <2>2 DEF Typed, TablesTyped
  <2>4. OneThing'
    BY <1>1, <1>2, <1>6 DEF OneThing
  <2>5. OneCallEach'
    BY <1>1, <1>2, <1>6, <2>1, <2>2 DEF OneCallEach
  <2>6. CallsFit' /\ UnshownNames'
    BY <1>1, <1>2, <1>3, <1>5, <1>6, <2>1, <2>2 DEF CallsFit, UnshownNames
  <2> QED  BY <2>3, <2>4, <2>5, <2>6 DEF Control
<1>7. CASE Sending /\ dialog' = "closing"
  <2>1. /\ requests' \in Seq(CallsFor(tables)) /\ DOMAIN requests' = 1 .. Len(requests) + Len(faces)
        /\ \A k \in 1 .. Len(requests) : requests'[k] = requests[k]
        /\ \A k \in DOMAIN requests' \ 1 .. Len(requests) :
              requests'[k].from = "nobody" /\ requests'[k].what = "storeInfo"
    BY <1>1, <1>7, SentInfos DEF Request
  <2>2. DOMAIN requests = 1 .. Len(requests)
    BY <1>1, RequestsAre
  <2>3. Typed'
    BY <1>1, <1>2, <1>7, <2>1 DEF Typed, TablesTyped
  <2>4. OneThing'
    BY <1>1, <1>2, <1>7 DEF OneThing
  <2>5. OneCallEach'
    BY <1>1, <1>2, <1>4, <1>7, <2>1, <2>2 DEF OneCallEach, OnePerThread
  <2>6. CallsFit' /\ UnshownNames'
    BY <1>1, <1>2, <1>5, <2>1, <2>2 DEF CallsFit, UnshownNames
  <2> QED  BY <2>3, <2>4, <2>5, <2>6 DEF Control
<1> QED  BY <1>2, <1>6, <1>7

\* The places of the rows, sorted, are places of faces, and they are all
\* different if the rows have different ones.
LEMMA SortedPlaces ==
    ASSUME Typed
    PROVE  /\ SortedRects(tables) \in Seq(Faces)
           /\ PlacesDiffer(tables) => IsInjective(SortedRects(tables))
<1> DEFINE rows == tables.rows
           S == Placed(tables)
           Before(i, j) == rows[i].rect < rows[j].rect \/ (rows[i].rect = rows[j].rect /\ i < j)
           before == {pair \in S \X S : Before(pair[1], pair[2])}
           order == InOrder(S, before)
<1>1. /\ S \subseteq Rows /\ Rows = 1 .. Len(rows) /\ Len(rows) \in Nat
      /\ \A i \in S : rows[i].rect \in Faces /\ rows[i].rect \in Int
  <2>1. \A i \in S : rows[i].rect \in Faces
    BY TablesAre DEF Placed
  <2>2. Faces \subseteq Int
    <3>1. Faces \subseteq Nat \ {0}
      BY PeopleAssumption
    <3> QED  BY <3>1
  <2> QED  BY <2>1, <2>2, TablesAre DEF Placed
<1>2. IsFiniteSet(S)
  <2>1. IsFiniteSet(1 .. Len(rows))
    BY <1>1, FS_Interval
  <2> QED  BY <1>1, <2>1, FS_Subset
<1>3. SortedRects(tables) = [k \in DOMAIN order |-> rows[order[k]].rect]
  BY DEF SortedRects
<1>4. \A i, j : <<i, j>> \in before <=> i \in S /\ j \in S /\ Before(i, j)
  OBVIOUS
<1> HIDE DEF before, S
<1>5. Orders(before, S)
  BY <1>1, <1>4 DEF Orders
<1>6. order \in Seq(S) /\ IsInjective(order)
  BY <1>2, <1>5, InOrderProperties
<1> DEFINE sorted == SortedRects(tables)
<1> HIDE DEF order, rows, sorted
<1>7. Len(order) \in Nat /\ DOMAIN order = 1 .. Len(order) /\ \A k \in DOMAIN order : order[k] \in S
  BY <1>6
<1>8. /\ DOMAIN sorted = 1 .. Len(order) /\ sorted = [k \in 1 .. Len(order) |-> sorted[k]]
      /\ \A k \in 1 .. Len(order) : sorted[k] = rows[order[k]].rect /\ sorted[k] \in Faces
  BY <1>1, <1>3, <1>7 DEF sorted
<1>9. sorted \in Seq(Faces)
  BY <1>7, <1>8, MappedPlaces
<1>10. PlacesDiffer(tables) => IsInjective(sorted)
  <2> SUFFICES ASSUME PlacesDiffer(tables), NEW k \in DOMAIN sorted, NEW l \in DOMAIN sorted, sorted[k] = sorted[l]
               PROVE  k = l
    BY DEF IsInjective
  <2>1. order[k] \in S /\ order[l] \in S /\ rows[order[k]].rect = rows[order[l]].rect
    BY <1>7, <1>8
  <2>2. order[k] = order[l]
    BY <2>1 DEF PlacesDiffer, S, rows
  <2> QED  BY <1>6, <1>7, <1>8, <2>2 DEF IsInjective
<1> QED  BY <1>9, <1>10 DEF sorted

\* The first row that has a place.
RowAt(rect) == SelectInSeq(tables.rows, LAMBDA r : r.rect = rect)

LEMMA RowOfPlace ==
    ASSUME Typed, NEW rect
    PROVE  /\ RowAt(rect) \in 0 .. Len(tables.rows)
           /\ RowAt(rect) # NoId => RowAt(rect) \in Rows /\ tables.rows[RowAt(rect)].rect = rect
           /\ RowAt(rect) = NoId => \A j \in Rows : tables.rows[j].rect # rect
<1> DEFINE I == {i \in 1 .. Len(tables.rows) : tables.rows[i].rect = rect}
<1>1. Len(tables.rows) \in Nat /\ Rows = 1 .. Len(tables.rows) /\ I \in SUBSET (1 .. Len(tables.rows))
  BY TablesAre
<1>2. RowAt(rect) = IF I # {} THEN Min(I) ELSE 0
  BY DEF RowAt, SelectInSeq
<1>3. \A i \in 1 .. Len(tables.rows) : i \in I <=> tables.rows[i].rect = rect
  OBVIOUS
<1> HIDE DEF I
<1>4. /\ RowAt(rect) \in 0 .. Len(tables.rows)
      /\ RowAt(rect) = 0 <=> I = {}
      /\ RowAt(rect) # 0 => RowAt(rect) \in I
  BY <1>1, <1>2, FirstPlace
<1> QED  BY <1>1, <1>3, <1>4 DEF NoId

\* What the row of a face's place says of it.
Joined(face, j) ==
    [face EXCEPT !.id = j, !.f = tables.rows[j].print,
                 !.person = IF tables.rows[j].person = NoId THEN @ ELSE tables.rows[j].person,
                 !.name = IF tables.rows[j].person = NoId THEN @ ELSE NameOf(tables, tables.rows[j].person)]

LEMMA JoinedFace ==
    ASSUME Typed, NEW face \in FacesFor(tables), NEW j \in Rows
    PROVE  /\ Joined(face, j) \in FacesFor(tables)
           /\ Joined(face, j).rect = face.rect /\ Joined(face, j).id = j
           /\ \/ /\ tables.rows[j].person = NoId
                 /\ Joined(face, j).person = face.person /\ Joined(face, j).name = face.name
              \/ /\ tables.rows[j].person # NoId
                 /\ Joined(face, j).person = tables.rows[j].person
                 /\ Joined(face, j).name = tables.names[tables.rows[j].person]
                 /\ tables.names[tables.rows[j].person] \in Names
<1>1. /\ j \in 0 .. Len(tables.rows) /\ tables.rows[j].person \in 0 .. Len(tables.names)
      /\ tables.rows[j].print \in 0 .. Len(tables.prints)
  BY TablesAre
<1>2. tables.rows[j].person # NoId => tables.names[tables.rows[j].person] \in Names
  <2> SUFFICES ASSUME tables.rows[j].person # NoId  PROVE tables.names[tables.rows[j].person] \in Names
    OBVIOUS
  <2>1. tables.rows[j].person \in 1 .. Len(tables.names)
    BY <1>1, TablesAre DEF NoId
  <2>2. tables.names \in Seq(Names)
    BY TablesAre
  <2> QED  BY <2>1, <2>2
<1>3. CASE tables.rows[j].person = NoId
  <2>1. Joined(face, j) = [face EXCEPT !.id = j, !.f = tables.rows[j].print]
    BY <1>3 DEF Joined, FacesFor
  <2> QED  BY <1>1, <1>3, <2>1 DEF FacesFor
<1>4. CASE tables.rows[j].person # NoId
  <2>1. Joined(face, j) = [face EXCEPT !.id = j, !.f = tables.rows[j].print, !.person = tables.rows[j].person,
                                       !.name = tables.names[tables.rows[j].person]]
    BY <1>4 DEF Joined, NameOf, FacesFor
  <2> QED  BY <1>1, <1>2, <1>4, <2>1 DEF FacesFor
<1> QED  BY <1>3, <1>4

LEMMA FilledPeople ==
    ASSUME Typed, FillPeople
    PROVE  /\ DOMAIN faces' = DOMAIN faces /\ faces' = [i \in DOMAIN faces |-> faces'[i]]
           /\ \A i \in DOMAIN faces :
                 \/ RowAt(faces[i].rect) = NoId /\ faces'[i] = faces[i]
                 \/ RowAt(faces[i].rect) # NoId /\ faces'[i] = Joined(faces[i], RowAt(faces[i].rect))
<1>1. faces' = [i \in DOMAIN faces |-> IF RowAt(faces[i].rect) = NoId THEN faces[i]
                                       ELSE Joined(faces[i], RowAt(faces[i].rect))]
  BY DEF FillPeople, RowAt, Joined
<1> QED  BY <1>1

LEMMA FilledPrints ==
    ASSUME Typed, FillPrints
    PROVE  /\ DOMAIN faces' = DOMAIN faces /\ faces' = [i \in DOMAIN faces |-> faces'[i]]
           /\ \A i \in DOMAIN faces :
                 /\ faces'[i] \in FacesFor(tables)
                 /\ faces'[i].rect = faces[i].rect /\ faces'[i].id = faces[i].id
                 /\ faces'[i].person = faces[i].person /\ faces'[i].name = faces[i].name
<1> DEFINE P(face) == IF face.id = NoId THEN NoId ELSE tables.rows[face.id].print
<1>1. faces' = [i \in DOMAIN faces |-> IF P(faces[i]) = NoId THEN faces[i]
                                       ELSE [faces[i] EXCEPT !.printId = P(faces[i]),
                                                             !.print = tables.prints[P(faces[i])]]]
  BY DEF FillPrints
<1>2. \A i \in DOMAIN faces : P(faces[i]) \in 0 .. Len(tables.prints)
  <2> SUFFICES ASSUME NEW i \in DOMAIN faces  PROVE P(faces[i]) \in 0 .. Len(tables.prints)
    OBVIOUS
  <2>1. CASE faces[i].id = NoId
    BY <2>1, TablesAre DEF NoId
  <2>2. CASE faces[i].id # NoId
    <3>1. faces[i].id \in Rows
      BY <2>2, FacesAre, TablesAre DEF NoId
    <3> QED  BY <2>2, <3>1, TablesAre
  <2> QED  BY <2>1, <2>2
<1> HIDE DEF P
<1>3. ASSUME NEW i \in DOMAIN faces, P(faces[i]) # NoId
      PROVE  tables.prints[P(faces[i])] \in Faces \cup {NoPrint}
  <2>1. P(faces[i]) \in 1 .. Len(tables.prints)
    BY <1>2, <1>3, TablesAre DEF NoId
  <2>2. tables.prints \in Seq(Faces \cup {NoPrint})
    BY TablesAre
  <2> QED  BY <2>1, <2>2
<1>4. \A i \in DOMAIN faces :
         /\ faces'[i] \in FacesFor(tables)
         /\ faces'[i].rect = faces[i].rect /\ faces'[i].id = faces[i].id
         /\ faces'[i].person = faces[i].person /\ faces'[i].name = faces[i].name
  BY <1>1, <1>2, <1>3, FacesAre DEF FacesFor
<1> QED  BY <1>1, <1>4

LEMMA RecognizedPeople ==
    ASSUME Typed, RecognizePeople
    PROVE  /\ DOMAIN faces' = DOMAIN faces /\ faces' = [i \in DOMAIN faces |-> faces'[i]]
           /\ \A i \in DOMAIN faces :
                 \/ faces'[i] = faces[i]
                 \/ /\ faces[i].name = NoName /\ faces'[i] \in FacesFor(tables)
                    /\ faces'[i].rect = faces[i].rect /\ faces'[i].id = faces[i].id
                    /\ faces'[i].person # NoId /\ faces'[i].name = tables.names[faces'[i].person]
<1>1. PICK guess \in [DOMAIN faces -> Recognizable(tables) \cup {NoId}] :
         faces' = [i \in DOMAIN faces |->
                     IF ~ Guessed(faces[i]) \/ guess[i] = NoId THEN faces[i]
                     ELSE [faces[i] EXCEPT !.person = guess[i], !.name = NameOf(tables, guess[i])]]
  BY DEF RecognizePeople
<1>2. Recognizable(tables) \subseteq 1 .. Len(tables.names)
  BY TablesAre DEF Recognizable
<1>3. ASSUME NEW i \in DOMAIN faces
      PROVE  \/ faces'[i] = faces[i]
             \/ /\ faces[i].name = NoName /\ faces'[i] \in FacesFor(tables)
                /\ faces'[i].rect = faces[i].rect /\ faces'[i].id = faces[i].id
                /\ faces'[i].person # NoId /\ faces'[i].name = tables.names[faces'[i].person]
  <2>1. CASE ~ Guessed(faces[i]) \/ guess[i] = NoId
    BY <1>1, <2>1
  <2>2. CASE faces[i].name = NoName /\ guess[i] # NoId
    <3> DEFINE p == guess[i]
    <3>1. p \in 1 .. Len(tables.names) /\ p # NoId
      BY <1>1, <1>2, <2>2
    <3>2. faces'[i] = [faces[i] EXCEPT !.person = p, !.name = tables.names[p]]
      BY <1>1, <2>2 DEF Guessed, NameOf
    <3> HIDE DEF p
    <3>3. p \in 0 .. Len(tables.names)
      BY <3>1, TablesAre
    <3>4. tables.names[p] \in Names
      <4>1. tables.names \in Seq(Names)
        BY TablesAre
      <4> QED  BY <3>1, <4>1
    <3>5. faces[i] \in FacesFor(tables)
      BY FacesAre
    <3> QED  BY <2>2, <3>1, <3>2, <3>3, <3>4, <3>5 DEF FacesFor
  <2> QED  BY <2>1, <2>2 DEF Guessed
<1> QED  BY <1>1, <1>3

\* What is stored is added to the tables: types are kept for longer ones.
LEMMA GrownTypes ==
    ASSUME Typed, Longer(tables, tables')
    PROVE  /\ requests \in Seq(CallsFor(tables')) /\ faces \in Seq(FacesFor(tables'))
           /\ tables.rows \in Seq(RowsFor(tables'))
<1>1. /\ RowsFor(tables) \subseteq RowsFor(tables') /\ FacesFor(tables) \subseteq FacesFor(tables')
      /\ CallsFor(tables) \subseteq CallsFor(tables')
  BY TypesGrow
<1>2. requests \in Seq(CallsFor(tables)) /\ faces \in Seq(FacesFor(tables)) /\ tables.rows \in Seq(RowsFor(tables))
  BY TablesAre DEF Typed
<1> QED  BY <1>1, <1>2, SeqMonotonic

LEMMA StoredName ==
    ASSUME Typed, NEW name \in Names, tables' = StoreName(tables, name)
    PROVE  /\ TablesTyped' /\ Longer(tables, tables') /\ tables'.rows = tables.rows
           /\ tables'.prints = tables.prints
           /\ \A n \in 1 .. Len(tables.names) : tables'.names[n] = tables.names[n]
           /\ PersonOf(tables'.names, name) \in 1 .. Len(tables'.names)
           /\ tables'.names[PersonOf(tables'.names, name)] = name
<1>1. /\ tables.names \in Seq(Names) /\ Len(tables.names) \in Nat
      /\ tables.prints \in Seq(Faces \cup {NoPrint}) /\ Len(tables.prints) \in Nat
      /\ tables.rows \in Seq(RowsFor(tables)) /\ Len(tables.rows) \in Nat
      /\ tables = [names |-> tables.names, prints |-> tables.prints, rows |-> tables.rows]
  BY TablesAre
<1>2. CASE PersonOf(tables.names, name) # NoId
  <2>1. tables' = tables
    BY <1>2 DEF StoreName
  <2>2. TablesTyped' /\ Longer(tables, tables')
    BY <1>1, <2>1 DEF Typed, TablesTyped, Longer
  <2>3. /\ PersonOf(tables.names, name) \in 0 .. Len(tables.names)
        /\ tables.names[PersonOf(tables.names, name)] = name
    BY <1>1, <1>2, PersonFound
  <2>4. PersonOf(tables.names, name) \in 1 .. Len(tables.names)
    BY <1>1, <1>2, <2>3 DEF NoId
  <2> QED  BY <2>1, <2>2, <2>3, <2>4
<1>3. CASE PersonOf(tables.names, name) = NoId
  <2> DEFINE names == Append(tables.names, name)
  <2>1. tables' = [tables EXCEPT !.names = names]
    BY <1>3 DEF StoreName
  <2>2. /\ names \in Seq(Names) /\ Len(names) = Len(tables.names) + 1 /\ DOMAIN names = 1 .. Len(tables.names) + 1
        /\ \A n \in 1 .. Len(tables.names) : names[n] = tables.names[n]
        /\ names[Len(tables.names) + 1] = name
    BY <1>1, AppendedPlaces
  <2> HIDE DEF names
  <2>3. tables' = [names |-> names, prints |-> tables.prints, rows |-> tables.rows]
    BY <1>1, <2>1
  <2>4. tables'.names = names /\ tables'.prints = tables.prints /\ tables'.rows = tables.rows
    BY <2>3
  <2>5. Longer(tables, tables')
    BY <1>1, <2>2, <2>4 DEF Longer
  <2>6. tables.rows \in Seq(RowsFor(tables'))
    BY <2>5, GrownTypes
  <2>7. TablesTyped'
    BY <1>1, <2>2, <2>3, <2>6 DEF TablesTyped
  <2>8. Len(tables.names) + 1 \in DOMAIN names
    BY <1>1, <2>2
  <2>9. /\ PersonOf(names, name) \in 0 .. Len(names)
        /\ PersonOf(names, name) # NoId /\ names[PersonOf(names, name)] = name
    BY <2>2, <2>8, PersonFound
  <2>10. PersonOf(names, name) \in 1 .. Len(names)
    BY <1>1, <2>2, <2>9 DEF NoId
  <2> QED  BY <2>2, <2>4, <2>5, <2>7, <2>9, <2>10
<1> QED  BY <1>2, <1>3

LEMMA StoredPrint ==
    ASSUME Typed, NEW print \in Faces \cup {NoPrint}, tables' = StorePrint(tables, print)
    PROVE  /\ TablesTyped' /\ Longer(tables, tables') /\ tables'.rows = tables.rows
           /\ tables'.names = tables.names /\ Len(tables'.prints) = Len(tables.prints) + 1
<1>1. /\ tables.names \in Seq(Names) /\ Len(tables.names) \in Nat
      /\ tables.prints \in Seq(Faces \cup {NoPrint}) /\ Len(tables.prints) \in Nat
      /\ tables.rows \in Seq(RowsFor(tables)) /\ Len(tables.rows) \in Nat
      /\ tables = [names |-> tables.names, prints |-> tables.prints, rows |-> tables.rows]
  BY TablesAre
<1> DEFINE prints == Append(tables.prints, print)
<1>2. tables' = [tables EXCEPT !.prints = prints]
  BY DEF StorePrint
<1>3. prints \in Seq(Faces \cup {NoPrint}) /\ Len(prints) = Len(tables.prints) + 1
  BY <1>1, AppendedPlaces
<1> HIDE DEF prints
<1>4. tables' = [names |-> tables.names, prints |-> prints, rows |-> tables.rows]
  BY <1>1, <1>2
<1>5. tables'.names = tables.names /\ tables'.prints = prints /\ tables'.rows = tables.rows
  BY <1>4
<1>6. Longer(tables, tables')
  BY <1>1, <1>3, <1>5 DEF Longer
<1>7. tables.rows \in Seq(RowsFor(tables'))
  BY <1>6, GrownTypes
<1>8. TablesTyped'
  BY <1>1, <1>3, <1>4, <1>7 DEF TablesTyped
<1> QED  BY <1>3, <1>5, <1>6, <1>8

\* The row store() takes for an info without an id.
LEMMA RowForInfo ==
    ASSUME Typed, NEW info
    PROVE  /\ RowFor(tables, info) \in 0 .. Len(tables.rows)
           /\ RowFor(tables, info) # NoId =>
                 /\ RowFor(tables, info) \in Rows
                 /\ \/ tables.rows[RowFor(tables, info)].rect = info.rect
                    \/ tables.rows[RowFor(tables, info)].rect = NoRect /\ info.person # NoId
           /\ RowFor(tables, info) = NoId => \A j \in Rows : tables.rows[j].rect # info.rect
<1> DEFINE Fits(r) == \/ r.rect = info.rect
                      \/ r.rect = NoRect /\ r.person # NoId /\ r.person = info.person
           I == {i \in 1 .. Len(tables.rows) : Fits(tables.rows[i])}
<1>1. Len(tables.rows) \in Nat /\ Rows = 1 .. Len(tables.rows) /\ I \in SUBSET (1 .. Len(tables.rows))
  BY TablesAre
<1>2. RowFor(tables, info) = IF I # {} THEN Min(I) ELSE 0
  BY DEF RowFor, SelectInSeq
<1>3. \A i \in 1 .. Len(tables.rows) : i \in I <=> Fits(tables.rows[i])
  OBVIOUS
<1> HIDE DEF I
<1>4. /\ RowFor(tables, info) \in 0 .. Len(tables.rows)
      /\ RowFor(tables, info) = 0 <=> I = {}
      /\ RowFor(tables, info) # 0 => RowFor(tables, info) \in I
  BY <1>1, <1>2, FirstPlace
<1> QED  BY <1>1, <1>3, <1>4 DEF NoId

\* storePerson() writes one row: that of the id, the one found, or a new one.
LEMMA StoredRow ==
    ASSUME Typed, NEW arg \in InfosFor(tables), tables' = StoreInfo(tables, arg.id, arg.info)
    PROVE  /\ TablesTyped' /\ Longer(tables, tables')
           /\ tables'.names = tables.names /\ tables'.prints = tables.prints
           /\ \E j \in Rows' : /\ Rows' = Rows \cup {j} /\ tables'.rows[j] = arg.info
                               /\ \A k \in Rows \ {j} : tables'.rows[k] = tables.rows[k]
                               /\ arg.id # NoId => j = arg.id
                               /\ arg.id = NoId => j = RowFor(tables, arg.info) \/ j \notin Rows
                               /\ j \notin Rows => RowFor(tables, arg.info) = NoId
<1>1. /\ tables.names \in Seq(Names) /\ Len(tables.names) \in Nat
      /\ tables.prints \in Seq(Faces \cup {NoPrint}) /\ Len(tables.prints) \in Nat
      /\ tables.rows \in Seq(RowsFor(tables)) /\ Len(tables.rows) \in Nat
      /\ Rows = 1 .. Len(tables.rows) /\ DOMAIN tables.rows = Rows
      /\ tables = [names |-> tables.names, prints |-> tables.prints, rows |-> tables.rows]
  BY TablesAre
<1>2. arg.info \in RowsFor(tables) /\ arg.id \in 0 .. Len(tables.rows)
  BY DEF InfosFor, RowsFor
<1> DEFINE row == IF arg.id # NoId THEN arg.id ELSE RowFor(tables, arg.info)
           rows == IF row = NoId THEN Append(tables.rows, arg.info) ELSE [tables.rows EXCEPT ![row] = arg.info]
<1>3. tables' = [tables EXCEPT !.rows = rows]
  BY DEF StoreInfo
<1>4. row # NoId => row \in Rows
  BY <1>1, <1>2, RowForInfo DEF NoId
<1>5. rows \in Seq(RowsFor(tables)) /\ Len(rows) >= Len(tables.rows)
      /\ \E j \in DOMAIN rows : /\ DOMAIN rows = Rows \cup {j} /\ rows[j] = arg.info
                                /\ \A k \in Rows \ {j} : rows[k] = tables.rows[k]
                                /\ row # NoId => j = row
                                /\ row = NoId => j \notin Rows
  <2>1. CASE row = NoId
    <3>1. rows = Append(tables.rows, arg.info)
      BY <2>1
    <3>2. /\ rows \in Seq(RowsFor(tables)) /\ Len(rows) = Len(tables.rows) + 1
          /\ DOMAIN rows = 1 .. Len(tables.rows) + 1
          /\ \A k \in 1 .. Len(tables.rows) : rows[k] = tables.rows[k]
          /\ rows[Len(tables.rows) + 1] = arg.info
      BY <1>1, <1>2, <3>1, AppendedPlaces
    <3> HIDE DEF rows, row
    <3> DEFINE j == Len(tables.rows) + 1
    <3>3. j \in DOMAIN rows /\ DOMAIN rows = Rows \cup {j} /\ j \notin Rows
      BY <1>1, <3>2
    <3>4. Len(rows) >= Len(tables.rows)
      BY <1>1, <3>2
    <3>5. rows[j] = arg.info
      BY <3>2
    <3> HIDE DEF j
    <3> QED  BY <1>1, <2>1, <3>2, <3>3, <3>4, <3>5
  <2>2. CASE row # NoId
    <3>1. rows = [tables.rows EXCEPT ![row] = arg.info] /\ row \in Rows
      BY <1>4, <2>2
    <3> HIDE DEF rows, row
    <3>2. DOMAIN rows = Rows /\ rows[row] = arg.info /\ \A k \in Rows \ {row} : rows[k] = tables.rows[k]
      BY <1>1, <3>1
    <3>3. \A k \in Rows : rows[k] \in RowsFor(tables)
      BY <1>1, <1>2, <3>1, <3>2, TablesAre
    <3>4. rows = [k \in 1 .. Len(tables.rows) |-> rows[k]]
      BY <1>1, <3>1
    <3>5. rows \in Seq(RowsFor(tables)) /\ Len(rows) = Len(tables.rows)
      BY <1>1, <3>2, <3>3, <3>4, MappedPlaces
    <3>6. DOMAIN rows = Rows \cup {row}
      BY <3>1, <3>2
    <3> QED  BY <1>1, <2>2, <3>1, <3>2, <3>5, <3>6
  <2> QED  BY <2>1, <2>2
<1> HIDE DEF rows
<1>6. tables' = [names |-> tables.names, prints |-> tables.prints, rows |-> rows]
  BY <1>1, <1>3
<1>7. tables'.names = tables.names /\ tables'.prints = tables.prints /\ tables'.rows = rows /\ Rows' = DOMAIN rows
  BY <1>6 DEF Rows
<1>8. Longer(tables, tables')
  <2>1. Len(rows) \in Nat
    BY <1>5
  <2> QED  BY <1>1, <1>5, <1>7, <2>1 DEF Longer
<1>9. rows \in Seq(RowsFor(tables'))
  BY <1>5, <1>8, TypesGrow, SeqMonotonic
<1>10. TablesTyped'
  BY <1>1, <1>6, <1>9 DEF TablesTyped
<1>11. PICK j \in DOMAIN rows : /\ DOMAIN rows = Rows \cup {j} /\ rows[j] = arg.info
                                /\ \A k \in Rows \ {j} : rows[k] = tables.rows[k]
                                /\ row # NoId => j = row
                                /\ row = NoId => j \notin Rows
  BY <1>5
<1>12. /\ arg.id # NoId => j = arg.id
       /\ arg.id = NoId => j = RowFor(tables, arg.info) \/ j \notin Rows
       /\ j \notin Rows => RowFor(tables, arg.info) = NoId
  BY <1>4, <1>11
<1>13. j \in Rows' /\ Rows' = Rows \cup {j} /\ tables'.rows[j] = arg.info
       /\ \A k \in Rows \ {j} : tables'.rows[k] = tables.rows[k]
  BY <1>7, <1>11
<1> QED  BY <1>7, <1>8, <1>10, <1>12, <1>13

\* The next call is taken out of the queue.
LEMMA ServedQueue ==
    ASSUME Typed, OneCallEach, requests # <<>>
    PROVE  /\ Tail(requests) \in Seq(CallsFor(tables)) /\ OnePerThread(Tail(requests))
           /\ Head(requests) = requests[1] /\ 1 \in DOMAIN requests
           /\ \A i \in DOMAIN Tail(requests) : /\ i + 1 \in DOMAIN requests /\ i + 1 # 1
                                               /\ Tail(requests)[i] = requests[i + 1]
           /\ Head(requests).from # "nobody" =>
                 \A i \in DOMAIN Tail(requests) : Tail(requests)[i].from # Head(requests).from
<1>1. requests \in Seq(CallsFor(tables))
  BY DEF Typed
<1> DEFINE rest == Tail(requests)
<1>2. /\ rest \in Seq(CallsFor(tables)) /\ Head(requests) = requests[1]
      /\ Len(requests) \in Nat \ {0} /\ DOMAIN requests = 1 .. Len(requests) /\ 1 \in DOMAIN requests
      /\ DOMAIN rest = 1 .. Len(requests) - 1
      /\ \A i \in 1 .. Len(requests) - 1 : rest[i] = requests[i + 1]
  BY <1>1, TailPlaces
<1> HIDE DEF rest
<1>3. \A i \in DOMAIN rest : i + 1 \in DOMAIN requests /\ i + 1 # 1 /\ rest[i] = requests[i + 1]
  BY <1>2
<1>4. ASSUME NEW i \in DOMAIN rest, NEW j \in DOMAIN rest, rest[i].from = rest[j].from, rest[i].from # "nobody"
      PROVE  i = j
  <2>1. i + 1 = j + 1
    BY <1>3, <1>4 DEF OneCallEach, OnePerThread
  <2> QED  BY <1>2, <2>1
<1>5. ASSUME Head(requests).from # "nobody", NEW i \in DOMAIN rest
      PROVE  rest[i].from # Head(requests).from
  BY <1>2, <1>3, <1>5 DEF OneCallEach, OnePerThread
<1>6. OnePerThread(rest)
  BY <1>4 DEF OnePerThread
<1> QED  BY <1>2, <1>3, <1>5, <1>6 DEF rest

\* Calls of the GUI's thread are as they were when a task got its answer.
LEMMA GuisCallsFit ==
    ASSUME CallsFit, NEW queue,
           \A i \in DOMAIN queue : \/ queue[i].what \notin {"storeName", "storePrint"}
                                   \/ \E k \in DOMAIN requests : queue[i] = requests[k],
           DOMAIN faces' = DOMAIN faces, requests' = queue, ~ shown
    PROVE  CallsFit'
BY DEF CallsFit

LEMMA AnswerWorkerControl ==
    ASSUME Control, requests # <<>>, Head(requests).from = "worker", AnswerWorker
    PROVE  Control'
<1> DEFINE rest == Tail(requests)
<1>1. Typed /\ OneThing /\ OneCallEach /\ CallsFit /\ UnshownNames
  BY DEF Control
<1>2. /\ rest \in Seq(CallsFor(tables)) /\ OnePerThread(rest)
      /\ \A i \in DOMAIN rest : \E k \in DOMAIN requests : rest[i] = requests[k]
      /\ \A i \in DOMAIN rest : rest[i].from # "worker"
  BY <1>1, ServedQueue
<1> HIDE DEF rest
<1>3. worker \in Waiting /\ UNCHANGED <<tables, dialog, known, shown, hasty, job>>
  BY DEF AnswerWorker, guiVars, Waiting
<1>4. events = <<>> /\ ~ shown /\ job = "none" /\ dialog # "closed"
  BY <1>1, <1>3 DEF OneThing, Waiting
<1>5. events \in Seq(Results)
  BY <1>1 DEF Typed
<1>6. CASE FoundInDb
  <2>1. requests' = rest /\ faces' = faces /\ worker' \in {"detecting", "idle"}
    BY <1>6 DEF FoundInDb, rest
  <2>2. events' \in Seq(Results) /\ (worker' # "idle" => events' = <<>>) /\ (events' # <<>> => Len(events') = 1)
    <3>1. CASE worker' = "detecting" /\ events' = events
      BY <1>4, <1>5, <3>1
    <3>2. CASE worker' = "idle" /\ FindFaces_Result(SortedRects(tables))
      <4> DEFINE result == [what |-> "findFaces_result", rects |-> SortedRects(tables)]
      <4>1. events' = Append(events, result)
        BY <3>2 DEF FindFaces_Result
      <4>2. result \in Results
        BY <1>1, SortedPlaces DEF Results
      <4> HIDE DEF result
      <4> QED  BY <1>4, <3>2, <4>1, <4>2, PostedOnce
    <3> QED  BY <1>6, <3>1, <3>2 DEF FoundInDb
  <2>3. Typed'
    BY <1>1, <1>2, <1>3, <2>1, <2>2 DEF Typed, TablesTyped
  <2>4. OneThing'
    BY <1>1, <1>3, <1>4, <2>1, <2>2 DEF OneThing
  <2>5. OneCallEach'
    BY <1>1, <1>2, <1>3, <2>1 DEF OneCallEach
  <2>6. CallsFit'
    BY <1>1, <1>2, <1>4, <2>1, GuisCallsFit
  <2>7. UnshownNames'
    BY <1>1, <1>3, <2>1 DEF UnshownNames
  <2> QED  BY <2>3, <2>4, <2>5, <2>6, <2>7 DEF Control
<1>7. CASE FillPeople
  <2> DEFINE call == Request("worker", "prints", NoId)
  <2>1. requests' = Append(rest, call) /\ worker' = "prints" /\ events' = events
    BY <1>7 DEF FillPeople, rest
  <2>2. call \in CallsFor(tables) /\ call.from = "worker" /\ call.what = "prints"
    BY DEF Request, CallsFor, Waiting
  <2> HIDE DEF call
  <2>3. /\ requests' \in Seq(CallsFor(tables)) /\ OnePerThread(requests')
        /\ \A i \in DOMAIN requests' : requests'[i] = call \/ \E k \in DOMAIN rest : requests'[i] = rest[k]
    <3>1. \A i \in DOMAIN rest : rest[i].from # call.from
      BY <1>2, <2>2
    <3> QED  BY <1>2, <2>1, <2>2, <3>1, AskedBehind
  <2>4. \A i \in DOMAIN requests' : requests'[i] = call \/ \E k \in DOMAIN requests : requests'[i] = requests[k]
    BY <1>2, <2>3
  <2>5. /\ DOMAIN faces' = DOMAIN faces /\ faces' = [i \in DOMAIN faces |-> faces'[i]]
        /\ \A i \in DOMAIN faces : /\ faces'[i] \in FacesFor(tables)
                                   /\ \/ faces'[i].name = faces[i].name /\ faces'[i].person = faces[i].person
                                      \/ faces'[i].person # NoId
    <3>1. /\ DOMAIN faces' = DOMAIN faces /\ faces' = [i \in DOMAIN faces |-> faces'[i]]
          /\ \A i \in DOMAIN faces :
                \/ RowAt(faces[i].rect) = NoId /\ faces'[i] = faces[i]
                \/ RowAt(faces[i].rect) # NoId /\ faces'[i] = Joined(faces[i], RowAt(faces[i].rect))
      BY <1>1, <1>7, FilledPeople
    <3> SUFFICES ASSUME NEW i \in DOMAIN faces
                 PROVE  /\ faces'[i] \in FacesFor(tables)
                        /\ \/ faces'[i].name = faces[i].name /\ faces'[i].person = faces[i].person
                           \/ faces'[i].person # NoId
      BY <3>1
    <3>2. faces[i] \in FacesFor(tables)
      BY <1>1, FacesAre
    <3>3. CASE faces'[i] = faces[i]
      BY <3>2, <3>3
    <3>4. CASE RowAt(faces[i].rect) # NoId /\ faces'[i] = Joined(faces[i], RowAt(faces[i].rect))
      <4>1. RowAt(faces[i].rect) \in Rows
        BY <1>1, <3>4, RowOfPlace
      <4> QED  BY <1>1, <3>2, <3>4, <4>1, JoinedFace
    <3> QED  BY <3>1, <3>3, <3>4
  <2>6. faces' \in Seq(FacesFor(tables))
    BY <1>1, <2>5, FacesStayFaces
  <2>7. Typed'
    BY <1>1, <1>3, <2>1, <2>3, <2>6 DEF Typed, TablesTyped, Waiting
  <2>8. OneThing'
    BY <1>1, <1>3, <1>4, <2>1 DEF OneThing
  <2>9. OneCallEach'
    BY <1>1, <1>3, <2>1, <2>2, <2>3, <2>4 DEF OneCallEach, Waiting
  <2>10. CallsFit'
    BY <1>1, <1>4, <2>2, <2>4, <2>5, GuisCallsFit
  <2>11. UnshownNames'
    BY <1>1, <1>3, <2>5 DEF UnshownNames
  <2> QED  BY <2>7, <2>8, <2>9, <2>10, <2>11 DEF Control
<1>8. CASE FillPrints \/ RecognizePeople
  <2>1. requests' = rest /\ worker' \in {"calculating", "idle"}
    BY <1>8 DEF FillPrints, RecognizePeople, rest
  <2>2. events' \in Seq(Results) /\ (worker' # "idle" => events' = <<>>) /\ (events' # <<>> => Len(events') = 1)
    <3>1. CASE worker' = "calculating" /\ events' = events
      BY <1>4, <1>5, <3>1
    <3>2. CASE worker' = "idle" /\ RecognizeFaces_Result
      <4> DEFINE result == [what |-> "recognizeFaces_result"]
      <4>1. events' = Append(events, result) /\ result \in Results
        BY <3>2 DEF RecognizeFaces_Result, Results
      <4> HIDE DEF result
      <4> QED  BY <1>4, <3>2, <4>1, PostedOnce
    <3> QED  BY <1>8, <3>1, <3>2 DEF FillPrints, RecognizePeople
  <2>3. /\ DOMAIN faces' = DOMAIN faces /\ faces' = [i \in DOMAIN faces |-> faces'[i]]
        /\ \A i \in DOMAIN faces : /\ faces'[i] \in FacesFor(tables)
                                   /\ \/ faces'[i].name = faces[i].name /\ faces'[i].person = faces[i].person
                                      \/ faces'[i].person # NoId
    BY <1>1, <1>8, FilledPrints, RecognizedPeople, FacesAre
  <2>4. faces' \in Seq(FacesFor(tables))
    BY <1>1, <2>3, FacesStayFaces
  <2>5. Typed'
    BY <1>1, <1>2, <1>3, <2>1, <2>2, <2>4 DEF Typed, TablesTyped
  <2>6. OneThing'
    BY <1>1, <1>3, <1>4, <2>1, <2>2 DEF OneThing
  <2>7. OneCallEach'
    BY <1>1, <1>2, <1>3, <2>1 DEF OneCallEach
  <2>8. CallsFit'
    BY <1>1, <1>2, <1>4, <2>1, <2>3, GuisCallsFit
  <2>9. UnshownNames'
    BY <1>1, <1>3, <2>3 DEF UnshownNames
  <2> QED  BY <2>5, <2>6, <2>7, <2>8, <2>9 DEF Control
<1> QED  BY <1>6, <1>7, <1>8 DEF AnswerWorker

LEMMA ExecuteControl ==
    ASSUME Control, requests # <<>>, Head(requests).from # "worker",
           requests' = Tail(requests), Execute(Head(requests))
    PROVE  Control'
<1> DEFINE rest == Tail(requests)
           call == Head(requests)
<1>1. Typed /\ OneThing /\ OneCallEach /\ CallsFit /\ UnshownNames
  BY DEF Control
<1>2. /\ rest \in Seq(CallsFor(tables)) /\ OnePerThread(rest)
      /\ \A i \in DOMAIN rest : \E k \in DOMAIN requests : rest[i] = requests[k]
      /\ call = requests[1] /\ 1 \in DOMAIN requests
      /\ call.from # "nobody" => \A i \in DOMAIN rest : rest[i].from # call.from
  BY <1>1, ServedQueue
<1>3. /\ requests' = rest
      /\ UNCHANGED <<dialog, shown, job, worker, events, crashed, sessions, expected, hasty>>
      /\ \/ call.what = "names" /\ known' = tables.names /\ UNCHANGED <<tables, faces>>
         \/ /\ call.what = "storeName" /\ tables' = StoreName(tables, faces[call.arg].name)
            /\ faces' = [faces EXCEPT ![call.arg].person = PersonOf(tables'.names, faces[call.arg].name)]
            /\ UNCHANGED known
         \/ /\ call.what = "storePrint" /\ tables' = StorePrint(tables, faces[call.arg].print)
            /\ faces' = [faces EXCEPT ![call.arg].printId = Len(tables'.prints)]
            /\ UNCHANGED known
         \/ /\ call.what = "storeInfo" /\ tables' = StoreInfo(tables, call.arg.id, call.arg.info)
            /\ UNCHANGED <<faces, known>>
  BY DEF Execute
<1>4. call \in CallsFor(tables)
  BY <1>1, <1>2, RequestsAre
<1>5. /\ call.what \in {"storeName", "storePrint"} => call.arg \in DOMAIN faces
      /\ call.what = "storeName" => shown /\ faces[call.arg].name # NoName
  BY <1>1, <1>2 DEF CallsFit
<1>6. call.what \in {"names", "storeName", "storePrint"} =>
         \A i \in DOMAIN rest : rest[i].what \notin {"storeName", "storePrint"}
  <2> SUFFICES ASSUME call.what \in {"names", "storeName", "storePrint"}, NEW i \in DOMAIN rest
               PROVE  rest[i].what \notin {"storeName", "storePrint"}
    OBVIOUS
  <2>1. call.from = "gui"
    BY <1>4, KindsOfCalls
  <2>2. rest[i] \in CallsFor(tables) /\ rest[i].from # "gui"
    BY <1>2, <2>1
  <2> QED  BY <2>2, KindsOfCalls
<1> HIDE DEF rest, call
<1>7. OneThing'
  <2>1. faces = <<>> => faces' = <<>>
    BY <1>3, <1>5
  <2> QED  BY <1>1, <1>3, <2>1 DEF OneThing
<1>8. OneCallEach'
  <2>1. \A i \in DOMAIN rest :
           /\ rest[i].from = "worker" => worker \in Waiting
           /\ rest[i].from = "gui" => dialog \in {"names", "fingerprints"}
    BY <1>1, <1>2 DEF OneCallEach
  <2>2. requests' = rest /\ worker' = worker /\ dialog' = dialog
    BY <1>3
  <2> QED  BY <1>2, <2>1, <2>2 DEF OneCallEach, Waiting
<1>9. Len(known) \in Nat
  BY <1>1 DEF Typed
<1>10. CASE call.what = "names" /\ known' = tables.names /\ UNCHANGED <<tables, faces>>
  <2>1. Typed'
    BY <1>1, <1>2, <1>3, <1>10, TablesAre DEF Typed, TablesTyped
  <2>2. CallsFit' /\ UnshownNames'
    BY <1>1, <1>3, <1>6, <1>10 DEF CallsFit, UnshownNames
  <2> QED  BY <1>7, <1>8, <2>1, <2>2 DEF Control
<1>11. CASE call.what = "storeName" /\ tables' = StoreName(tables, faces[call.arg].name)
            /\ faces' = [faces EXCEPT ![call.arg].person = PersonOf(tables'.names, faces[call.arg].name)]
            /\ UNCHANGED known
  <2> DEFINE name == faces[call.arg].name
             person == PersonOf(tables'.names, name)
  <2>1. name \in Names
    BY <1>1, <1>5, <1>11, FacesAre
  <2>2. TablesTyped' /\ Longer(tables, tables') /\ person \in 1 .. Len(tables'.names)
    BY <1>1, <1>11, <2>1, StoredName
  <2>3. faces \in Seq(FacesFor(tables')) /\ FacesFor(tables) \subseteq FacesFor(tables')
        /\ rest \in Seq(CallsFor(tables'))
    BY <1>1, <1>2, <2>2, GrownTypes, TypesGrow, SeqMonotonic
  <2>4. person \in 0 .. Len(tables'.names) /\ person # NoId
    BY <2>2 DEF Longer, NoId
  <2>5. faces' = [faces EXCEPT ![call.arg].person = person]
    BY <1>11
  <2> HIDE DEF person
  <2>6. DOMAIN faces' = DOMAIN faces /\ faces' = [k \in DOMAIN faces |-> faces'[k]]
    BY <2>5
  <2>7. \A k \in DOMAIN faces : faces[k] \in FacesFor(tables')
    BY <1>1, <2>3, FacesAre
  <2>8. \A k \in DOMAIN faces : faces'[k] \in FacesFor(tables')
    BY <2>4, <2>5, <2>7 DEF FacesFor
  <2>9. faces' \in Seq(FacesFor(tables'))
    BY <1>1, <2>6, <2>8, FacesStayFaces
  <2>10. Len(known) <= Len(tables'.names)
    BY <1>1, <1>9, <2>2 DEF Typed, Longer
  <2>11. Typed'
    BY <1>1, <1>3, <1>11, <2>2, <2>3, <2>9, <2>10 DEF Typed
  <2>12. CallsFit' /\ UnshownNames'
    BY <1>3, <1>5, <1>6, <1>11 DEF CallsFit, UnshownNames
  <2> QED  BY <1>7, <1>8, <2>11, <2>12 DEF Control
<1>12. CASE call.what = "storePrint" /\ tables' = StorePrint(tables, faces[call.arg].print)
            /\ faces' = [faces EXCEPT ![call.arg].printId = Len(tables'.prints)]
            /\ UNCHANGED known
  <2> DEFINE print == faces[call.arg].print
             id == Len(tables'.prints)
  <2>1. print \in Faces \cup {NoPrint}
    BY <1>1, <1>5, <1>12, FacesAre
  <2>2. TablesTyped' /\ Longer(tables, tables')
    BY <1>1, <1>12, <2>1, StoredPrint
  <2>3. faces \in Seq(FacesFor(tables')) /\ FacesFor(tables) \subseteq FacesFor(tables')
        /\ rest \in Seq(CallsFor(tables'))
    BY <1>1, <1>2, <2>2, GrownTypes, TypesGrow, SeqMonotonic
  <2>4. id \in 0 .. Len(tables'.prints)
    BY <2>2 DEF Longer
  <2>5. faces' = [faces EXCEPT ![call.arg].printId = id]
    BY <1>12
  <2> HIDE DEF id
  <2>6. DOMAIN faces' = DOMAIN faces /\ faces' = [k \in DOMAIN faces |-> faces'[k]]
    BY <2>5
  <2>7. \A k \in DOMAIN faces : faces[k] \in FacesFor(tables')
    BY <1>1, <2>3, FacesAre
  <2>8. \A k \in DOMAIN faces : /\ faces'[k] \in FacesFor(tables')
                                /\ faces'[k].name = faces[k].name /\ faces'[k].person = faces[k].person
    BY <2>4, <2>5, <2>7 DEF FacesFor
  <2>9. faces' \in Seq(FacesFor(tables'))
    BY <1>1, <2>6, <2>8, FacesStayFaces
  <2>10. Len(known) <= Len(tables'.names)
    BY <1>1, <1>9, <2>2 DEF Typed, Longer
  <2>11. Typed'
    BY <1>1, <1>3, <1>12, <2>2, <2>3, <2>9, <2>10 DEF Typed
  <2>12. CallsFit'
    BY <1>3, <1>6, <1>12 DEF CallsFit
  <2>13. UnshownNames'
    BY <1>1, <1>3, <2>6, <2>8 DEF UnshownNames
  <2> QED  BY <1>7, <1>8, <2>11, <2>12, <2>13 DEF Control
<1>13. CASE call.what = "storeInfo" /\ tables' = StoreInfo(tables, call.arg.id, call.arg.info)
            /\ UNCHANGED <<faces, known>>
  <2>1. call.arg \in InfosFor(tables)
    BY <1>4, <1>13, KindsOfCalls
  <2>2. TablesTyped' /\ Longer(tables, tables')
    BY <1>1, <1>13, <2>1, StoredRow
  <2>3. faces \in Seq(FacesFor(tables')) /\ rest \in Seq(CallsFor(tables'))
    BY <1>1, <1>2, <2>2, GrownTypes, TypesGrow, SeqMonotonic
  <2>4. Len(known) <= Len(tables'.names)
    BY <1>1, <1>9, <2>2 DEF Typed, Longer
  <2>5. Typed'
    BY <1>1, <1>3, <1>13, <2>2, <2>3, <2>4 DEF Typed
  <2>6. CallsFit' /\ UnshownNames'
    BY <1>1, <1>2, <1>3, <1>13 DEF CallsFit, UnshownNames
  <2> QED  BY <1>7, <1>8, <2>5, <2>6 DEF Control
<1> QED  BY <1>3, <1>10, <1>11, <1>12, <1>13

\* Every step keeps the types and who waits for whom.
LEMMA StepControl ==
    ASSUME Control, [Next]_vars
    PROVE  Control'
<1>1. CASE Open  BY <1>1, OpenControl
<1>2. CASE HandleEvent  BY <1>2, HandleEventControl
<1>3. CASE Accept  BY <1>3, AcceptControl
<1>4. CASE Reject  BY <1>4, RejectControl
<1>5. CASE StorePeopleNames  BY <1>5, StorePeopleNamesControl
<1>6. CASE StoreFingerprints  BY <1>6, StoreFingerprintsControl
<1>7. CASE Close  BY <1>7, CloseControl
<1>8. CASE StartJob  BY <1>8, StartJobControl
<1>9. CASE Detect  BY <1>9, DetectControl
<1>10. CASE Calculate  BY <1>10, CalculateControl
<1>11. CASE Serve  BY <1>11, AnswerWorkerControl, ExecuteControl DEF Serve
<1>12. CASE UNCHANGED vars
  BY <1>12 DEF vars, guiVars, Control, Typed, TablesTyped, OneThing, OneCallEach, CallsFit, UnshownNames
<1> QED
  BY <1>1, <1>2, <1>3, <1>4, <1>5, <1>6, <1>7, <1>8, <1>9, <1>10, <1>11, <1>12 DEF Next

-----------------------------------------------------------------------------
(* What a step does to the queue and to the tables *)

IsInfo(call) == call.what = "storeInfo"

\* The infos in the queue stay as they are, d places ahead.
KeptInfos(d) ==
    /\ \A i \in DOMAIN requests' :
          IsInfo(requests'[i]) => i + d \in DOMAIN requests /\ requests'[i] = requests[i + d]
    /\ \A i \in DOMAIN requests :
          IsInfo(requests[i]) => i - d \in DOMAIN requests' /\ requests'[i - d] = requests[i]

\* Names are added at the end.
KeptNames ==
    /\ Len(tables.names) <= Len(tables'.names)
    /\ \A n \in 1 .. Len(tables.names) : tables'.names[n] = tables.names[n]

\* A step that has nothing to do with infos.
Quiet == (\E d \in {0, 1} : KeptInfos(d)) /\ tables'.rows = tables.rows /\ KeptNames

\* store() sends its infos.
Sent == /\ dialog = "fingerprints" /\ dialog' = "closing" /\ Sending
        /\ UNCHANGED <<tables, faces, known, shown, job, worker, events, expected, hasty>>

\* One is stored.
Stored == /\ requests # <<>> /\ IsInfo(Head(requests)) /\ requests' = Tail(requests)
          /\ tables' = StoreInfo(tables, Head(requests).arg.id, Head(requests).arg.info)
          /\ UNCHANGED <<faces, known, dialog, shown, job, worker, events, expected, hasty>>

LEMMA SameQueue ==
    ASSUME Typed, UNCHANGED <<requests, tables>>
    PROVE  Quiet
<1>1. KeptInfos(0)
  BY RequestsAre DEF KeptInfos
<1>2. KeptNames
  BY TablesAre DEF KeptNames
<1> QED  BY <1>1, <1>2 DEF Quiet

LEMMA CallAdded ==
    ASSUME Typed, NEW call \in CallsFor(tables), ~ IsInfo(call), requests' = Append(requests, call), UNCHANGED tables
    PROVE  Quiet
<1>1. /\ Len(requests) \in Nat /\ DOMAIN requests = 1 .. Len(requests)
      /\ DOMAIN requests' = 1 .. Len(requests) + 1
      /\ \A i \in 1 .. Len(requests) : requests'[i] = requests[i]
      /\ requests'[Len(requests) + 1] = call
  BY AppendedPlaces DEF Typed
<1>2. ASSUME NEW i \in DOMAIN requests', IsInfo(requests'[i])
      PROVE  i + 0 \in DOMAIN requests /\ requests'[i] = requests[i + 0]
  <2>1. i # Len(requests) + 1
    BY <1>1, <1>2
  <2> QED  BY <1>1, <2>1
<1>3. ASSUME NEW i \in DOMAIN requests
      PROVE  i - 0 \in DOMAIN requests' /\ requests'[i - 0] = requests[i]
  BY <1>1
<1>4. KeptInfos(0)
  BY <1>2, <1>3 DEF KeptInfos
<1>5. KeptNames
  BY TablesAre DEF KeptNames
<1> QED  BY <1>4, <1>5 DEF Quiet

\* A call that is no info is taken out of the queue.
LEMMA RestKept ==
    ASSUME Typed, requests # <<>>, ~ IsInfo(Head(requests)), requests' = Tail(requests)
    PROVE  KeptInfos(1)
<1>1. /\ Head(requests) = requests[1]
      /\ Len(requests) \in Nat \ {0} /\ DOMAIN requests = 1 .. Len(requests)
      /\ DOMAIN requests' = 1 .. Len(requests) - 1
      /\ \A i \in 1 .. Len(requests) - 1 : requests'[i] = requests[i + 1]
  BY TailPlaces DEF Typed
<1>2. ASSUME NEW i \in DOMAIN requests'
      PROVE  i + 1 \in DOMAIN requests /\ requests'[i] = requests[i + 1]
  BY <1>1
<1>3. ASSUME NEW i \in DOMAIN requests, IsInfo(requests[i])
      PROVE  i - 1 \in DOMAIN requests' /\ requests'[i - 1] = requests[i]
  <2>1. i # 1
    BY <1>1, <1>3
  <2>2. i - 1 \in 1 .. Len(requests) - 1 /\ (i - 1) + 1 = i
    BY <1>1, <2>1
  <2> QED  BY <1>1, <2>2
<1> QED  BY <1>2, <1>3 DEF KeptInfos

\* It is, and the one who waited for it asks again.
LEMMA RestAdded ==
    ASSUME Typed, requests # <<>>, ~ IsInfo(Head(requests)),
           NEW call \in CallsFor(tables), ~ IsInfo(call), requests' = Append(Tail(requests), call)
    PROVE  KeptInfos(1)
<1> DEFINE rest == Tail(requests)
<1>1. /\ rest \in Seq(CallsFor(tables)) /\ Head(requests) = requests[1]
      /\ Len(requests) \in Nat \ {0} /\ DOMAIN requests = 1 .. Len(requests)
      /\ Len(rest) = Len(requests) - 1
      /\ \A i \in 1 .. Len(requests) - 1 : rest[i] = requests[i + 1]
  BY TailPlaces DEF Typed
<1> HIDE DEF rest
<1>2. /\ DOMAIN requests' = 1 .. Len(rest) + 1
      /\ \A i \in 1 .. Len(rest) : requests'[i] = rest[i]
      /\ requests'[Len(rest) + 1] = call
  BY <1>1, AppendedPlaces DEF rest
<1>3. ASSUME NEW i \in DOMAIN requests', IsInfo(requests'[i])
      PROVE  i + 1 \in DOMAIN requests /\ requests'[i] = requests[i + 1]
  <2>1. i # Len(rest) + 1
    BY <1>2, <1>3
  <2>2. i \in 1 .. Len(requests) - 1
    BY <1>1, <1>2, <2>1
  <2> QED  BY <1>1, <1>2, <2>2
<1>4. ASSUME NEW i \in DOMAIN requests, IsInfo(requests[i])
      PROVE  i - 1 \in DOMAIN requests' /\ requests'[i - 1] = requests[i]
  <2>1. i # 1
    BY <1>1, <1>4
  <2>2. i - 1 \in 1 .. Len(requests) - 1 /\ (i - 1) + 1 = i
    BY <1>1, <2>1
  <2> QED  BY <1>1, <1>2, <2>2
<1> QED  BY <1>3, <1>4 DEF KeptInfos

LEMMA StepKinds ==
    ASSUME Control, [Next]_vars
    PROVE  Quiet \/ Sent \/ Stored
<1>1. Typed /\ OneThing /\ OneCallEach /\ CallsFit /\ UnshownNames
  BY DEF Control
<1>2. CASE Open \/ HandleEvent \/ Reject \/ Close \/ Detect \/ UNCHANGED vars
  <2>1. UNCHANGED <<requests, tables>>
    BY <1>2 DEF Open, HandleEvent, Reject, Close, Detect, vars
  <2> QED  BY <1>1, <2>1, SameQueue
<1>3. CASE Accept
  <2> DEFINE call == Request("gui", "names", NoId)
  <2>1. requests' = Append(requests, call) /\ UNCHANGED tables
    BY <1>3 DEF Accept, Evaluate
  <2>2. call \in CallsFor(tables) /\ ~ IsInfo(call)
    BY DEF Request, CallsFor, IsInfo
  <2> HIDE DEF call
  <2> QED  BY <1>1, <2>1, <2>2, CallAdded
<1>4. CASE StorePeopleNames
  <2> DEFINE call == Request("gui", "storeName", Unstored)
  <2>1. /\ UNCHANGED requests \/ (Unstored # NoId /\ requests' = Append(requests, call))
        /\ UNCHANGED tables
    BY <1>4 DEF StorePeopleNames, Evaluate, Unstored
  <2>2. Unstored # NoId => call \in CallsFor(tables) /\ ~ IsInfo(call)
    BY <1>1, UnstoredFace, FacesAre DEF Request, CallsFor, IsInfo
  <2> HIDE DEF call
  <2> QED  BY <1>1, <2>1, <2>2, CallAdded, SameQueue
<1>5. CASE StoreFingerprints
  <2> DEFINE call == Request("gui", "storePrint", Unprinted)
  <2>1. CASE Unprinted # NoId /\ requests' = Append(requests, call) /\ UNCHANGED tables
    <3>1. call \in CallsFor(tables) /\ ~ IsInfo(call)
      BY <1>1, <2>1, UnprintedFace, FacesAre DEF Request, CallsFor, IsInfo
    <3> HIDE DEF call
    <3> QED  BY <1>1, <2>1, <3>1, CallAdded
  <2>2. CASE Sent
    BY <2>2
  <2> QED  BY <1>5, <2>1, <2>2 DEF StoreFingerprints, Evaluate, Unprinted, Sent, Sending, InfoOf
<1>6. CASE StartJob
  <2> DEFINE call == Request("worker", worker', NoId)
  <2>1. requests' = Append(requests, call) /\ UNCHANGED tables /\ worker' \in {"rects", "people"}
    BY <1>6 DEF StartJob, Evaluate
  <2>2. call \in CallsFor(tables) /\ ~ IsInfo(call)
    BY <2>1 DEF Request, CallsFor, Waiting, IsInfo
  <2> HIDE DEF call
  <2> QED  BY <1>1, <2>1, <2>2, CallAdded
<1>7. CASE Calculate
  <2> DEFINE call == Request("worker", "known", NoId)
  <2>1. requests' = Append(requests, call) /\ UNCHANGED tables
    BY <1>7 DEF Calculate, Evaluate
  <2>2. call \in CallsFor(tables) /\ ~ IsInfo(call)
    BY DEF Request, CallsFor, Waiting, IsInfo
  <2> HIDE DEF call
  <2> QED  BY <1>1, <2>1, <2>2, CallAdded
<1>8. CASE Serve
  <2>1. requests # <<>> /\ Head(requests) \in CallsFor(tables)
        /\ Head(requests) = requests[1] /\ 1 \in DOMAIN requests
    BY <1>1, <1>8, TailPlaces DEF Serve, Typed
  <2>2. CASE Head(requests).from = "worker" /\ AnswerWorker
    <3> DEFINE call == Request("worker", "prints", NoId)
    <3>1. ~ IsInfo(Head(requests)) /\ UNCHANGED tables
      BY <2>1, <2>2, KindsOfCalls DEF AnswerWorker, IsInfo
    <3>2. requests' = Tail(requests) \/ requests' = Append(Tail(requests), call)
      BY <2>2 DEF AnswerWorker, FoundInDb, FillPeople, FillPrints, RecognizePeople
    <3>3. call \in CallsFor(tables) /\ ~ IsInfo(call)
      BY DEF Request, CallsFor, Waiting, IsInfo
    <3> HIDE DEF call
    <3>4. KeptInfos(1)
      BY <1>1, <2>1, <3>1, <3>2, <3>3, RestKept, RestAdded
    <3>5. KeptNames
      BY <1>1, <3>1, TablesAre DEF KeptNames
    <3> QED  BY <3>1, <3>4, <3>5 DEF Quiet
  <2>3. CASE requests' = Tail(requests) /\ Execute(Head(requests))
    <3> DEFINE call == Head(requests)
    <3>1. CASE call.what = "names" /\ UNCHANGED tables
      <4>1. KeptNames
        BY <1>1, <3>1, TablesAre DEF KeptNames
      <4>2. KeptInfos(1)
        BY <1>1, <2>1, <2>3, <3>1, RestKept DEF IsInfo
      <4> QED  BY <3>1, <4>1, <4>2 DEF Quiet
    <3>2. CASE call.what = "storeName" /\ tables' = StoreName(tables, faces[call.arg].name)
      <4>1. call.arg \in DOMAIN faces /\ faces[call.arg].name \in Names
        BY <1>1, <2>1, <3>2, FacesAre DEF CallsFit
      <4> HIDE DEF call
      <4>2. tables'.rows = tables.rows /\ KeptNames
        BY <1>1, <3>2, <4>1, StoredName DEF KeptNames, Longer
      <4>3. KeptInfos(1)
        BY <1>1, <2>1, <2>3, <3>2, RestKept DEF IsInfo, call
      <4> QED  BY <4>2, <4>3 DEF Quiet
    <3>3. CASE call.what = "storePrint" /\ tables' = StorePrint(tables, faces[call.arg].print)
      <4>1. call.arg \in DOMAIN faces /\ faces[call.arg].print \in Faces \cup {NoPrint}
        BY <1>1, <2>1, <3>3, FacesAre DEF CallsFit
      <4> HIDE DEF call
      <4>2. tables'.rows = tables.rows /\ tables'.names = tables.names
        BY <1>1, <3>3, <4>1, StoredPrint
      <4>3. KeptNames
        BY <1>1, <4>2, TablesAre DEF KeptNames
      <4>4. KeptInfos(1)
        BY <1>1, <2>1, <2>3, <3>3, RestKept DEF IsInfo, call
      <4> QED  BY <4>2, <4>3, <4>4 DEF Quiet
    <3>4. CASE Stored
      BY <3>4
    <3> QED  BY <2>1, <2>3, <3>1, <3>2, <3>3, <3>4 DEF Execute, Stored, IsInfo
  <2> QED  BY <1>8, <2>2, <2>3 DEF Serve
<1> QED  BY <1>2, <1>3, <1>4, <1>5, <1>6, <1>7, <1>8 DEF Next

-----------------------------------------------------------------------------
(* What an earlier dialog sent is stored before this one has faces *)

\* The dialog was opened, and did not send what it stores yet.
Session == dialog \in {"open", "names", "fingerprints"}

\* The database has not been asked for the places yet, or did not answer.
Asks == job = "find" \/ worker = "rects"

\* The faces are still to come; they have come, and nothing is known of them;
\* they were given ids and names.
FacesCome == Asks \/ worker = "detecting" \/ \E i \in DOMAIN events : events[i].what = "findFaces_result"
Raw == job = "recognize" \/ worker = "people"
FilledIn == \/ worker \in {"prints", "calculating", "known"} \/ shown
            \/ \E i \in DOMAIN events : events[i].what = "recognizeFaces_result"

NoInfos == \A i \in DOMAIN requests : ~ IsInfo(requests[i])

InfosFirst ==
    Session => \A i, j \in DOMAIN requests : i < j /\ IsInfo(requests[j]) => IsInfo(requests[i])
QueueEmptied == Session => Asks \/ NoInfos
NoneYet == FacesCome => faces = <<>>
RawFaces ==
    Raw => \A i \in DOMAIN faces : faces[i].id = NoId /\ faces[i].person = NoId /\ faces[i].name = NoName

Ordered == InfosFirst /\ QueueEmptied /\ NoneYet /\ RawFaces

LEMMA ClosedQueue ==
    ASSUME Control, dialog = "closed"
    PROVE  \A i \in DOMAIN requests : IsInfo(requests[i])
BY RequestsAre, KindsOfCalls DEF Control, OneThing, OneCallEach, Waiting, IsInfo

\* Steps of one stage to the next.
LEMMA StepStages ==
    ASSUME Control, NoneYet, RawFaces, [Next]_vars
    PROVE  NoneYet' /\ RawFaces'
<1>1. Typed /\ OneThing /\ OneCallEach /\ CallsFit /\ UnshownNames
  BY DEF Control
<1>2. CASE Open
  BY <1>1, <1>2 DEF Open, OneThing, NoneYet, RawFaces, Raw
<1>3. CASE HandleEvent
  <2>1. events # <<>> /\ events' = <<>> /\ DOMAIN events = {1} /\ Head(events) = events[1]
        /\ worker' = "idle" /\ job = "none"
    BY <1>1, <1>3, OneEvent DEF HandleEvent, OneThing
  <2>2. CASE Head(events).what = "findFaces_result" /\ job' = "recognize"
             /\ faces' = faces \o [i \in DOMAIN Head(events).rects |-> NewFace(Head(events).rects[i])]
    <3>1. faces = <<>>
      BY <2>1, <2>2 DEF NoneYet, FacesCome
    <3>2. Head(events).rects \in Seq(Faces)
      BY <1>1, <2>1, <2>2, OneEvent DEF Results
    <3>3. \A i \in DOMAIN faces' : faces'[i] = NewFace(Head(events).rects[i])
      BY <1>1, <1>3, <2>2, <3>1, <3>2, FoundFaces DEF HandleEvent
    <3> QED  BY <2>1, <2>2, <3>3 DEF NoneYet, RawFaces, FacesCome, Asks, NewFace
  <2>3. CASE job' = job
    BY <2>1, <2>3 DEF NoneYet, RawFaces, FacesCome, Asks, Raw
  <2> QED  BY <1>3, <2>2, <2>3 DEF HandleEvent
<1>4. CASE Accept
  <2>1. UNCHANGED <<job, worker, events, shown>>
    BY <1>4 DEF Accept
  <2>2. FacesCome \/ Raw => faces' = faces
    <3>1. FacesCome \/ Raw => ~ shown
      BY <1>1 DEF OneThing, FacesCome, Raw, Asks
    <3> QED  BY <1>1, <1>4, <3>1, AcceptNames
  <2> QED  BY <2>1, <2>2 DEF NoneYet, RawFaces, FacesCome, Asks, Raw
<1>5. CASE Reject
  BY <1>5 DEF Reject, NoneYet, RawFaces, FacesCome, Asks, Raw
<1>6. CASE StorePeopleNames
  <2>1. UNCHANGED <<job, worker, events>>
    BY <1>6 DEF StorePeopleNames
  <2>2. FacesCome \/ Raw => faces' = faces
    <3>1. ASSUME FacesCome \/ Raw  PROVE Unstored = NoId
      BY <1>1, <3>1, UnstoredFace DEF NoneYet, RawFaces
    <3> QED  BY <1>6, <3>1 DEF StorePeopleNames, Unstored
  <2> QED  BY <2>1, <2>2 DEF NoneYet, RawFaces, FacesCome, Asks, Raw
<1>7. CASE StoreFingerprints
  BY <1>7 DEF StoreFingerprints, NoneYet, RawFaces, FacesCome, Asks, Raw
<1>8. CASE Close
  BY <1>8 DEF Close, NoneYet, RawFaces
<1>9. CASE StartJob
  <2>1. /\ job # "none" /\ job' = "none" /\ worker = "idle" /\ UNCHANGED <<faces, shown, events>>
        /\ worker' = IF job = "find" THEN "rects" ELSE "people"
    BY <1>9 DEF StartJob, guiVars
  <2>2. job \in {"find", "recognize"} /\ events = <<>>
    BY <1>1, <2>1 DEF Typed, OneThing
  <2>3. CASE job = "find"
    <3>1. faces' = <<>> /\ worker' = "rects"
      BY <2>1, <2>3 DEF NoneYet, FacesCome, Asks
    <3> QED  BY <2>1, <3>1 DEF NoneYet, RawFaces
  <2>4. CASE job = "recognize"
    <3>1. worker' = "people" /\ job' = "none" /\ events' = <<>>
      BY <2>1, <2>2, <2>4
    <3>2. ~ FacesCome'
      BY <3>1 DEF FacesCome, Asks
    <3>3. Raw
      BY <2>4 DEF Raw
    <3> QED  BY <2>1, <3>2, <3>3 DEF NoneYet, RawFaces
  <2> QED  BY <2>2, <2>3, <2>4
<1>10. CASE Detect
  <2>1. faces = <<>> /\ faces' = faces
    BY <1>10 DEF Detect, NoneYet, FacesCome
  <2> QED  BY <2>1 DEF NoneYet, RawFaces
<1>11. CASE Calculate
  BY <1>1, <1>11 DEF Calculate, OneThing, NoneYet, RawFaces, FacesCome, Asks, Raw
<1>12. CASE Serve
  <2>1. CASE AnswerWorker
    <3>1. events = <<>> /\ job = "none" /\ job' = job /\ worker \in Waiting
      BY <1>1, <2>1 DEF AnswerWorker, OneThing, Waiting
    <3>2. CASE worker = "rects" /\ FoundInDb
      BY <3>2 DEF FoundInDb, NoneYet, RawFaces, FacesCome, Asks
    <3>3. CASE FillPeople
      <4>1. worker' = "prints" /\ job' = "none" /\ events' = <<>>
        BY <3>1, <3>3 DEF FillPeople
      <4>2. ~ FacesCome' /\ ~ Raw'
        BY <4>1 DEF FacesCome, Asks, Raw
      <4> QED  BY <4>2 DEF NoneYet, RawFaces
    <3>4. CASE FillPrints \/ RecognizePeople
      <4> DEFINE result == [what |-> "recognizeFaces_result"]
      <4>1. worker' \in {"calculating", "idle"} /\ (events' = events \/ events' = Append(events, result))
        BY <3>4 DEF FillPrints, RecognizePeople, RecognizeFaces_Result
      <4>2. result \in Results /\ result.what = "recognizeFaces_result"
        BY DEF Results
      <4> HIDE DEF result
      <4>3. \A i \in DOMAIN events' : events'[i].what = "recognizeFaces_result"
        BY <3>1, <4>1, <4>2, PostedOnce
      <4> QED  BY <3>1, <4>1, <4>3 DEF NoneYet, RawFaces, FacesCome, Asks, Raw
    <3> QED  BY <2>1, <3>2, <3>3, <3>4 DEF AnswerWorker
  <2>2. CASE requests # <<>> /\ Execute(Head(requests))
    <3> DEFINE call == Head(requests)
    <3>1. UNCHANGED <<job, worker, events>>
      BY <2>2 DEF Execute
    <3>2. call = requests[1] /\ 1 \in DOMAIN requests
      BY <1>1, <2>2, TailPlaces DEF Typed
    <3>3. CASE faces' = faces
      BY <3>1, <3>3 DEF NoneYet, RawFaces, FacesCome, Asks, Raw
    <3>4. CASE call.what = "storeName"
      <4>1. shown
        BY <1>1, <3>2, <3>4 DEF CallsFit
      <4> QED  BY <1>1, <3>1, <4>1 DEF OneThing, NoneYet, RawFaces, FacesCome, Asks, Raw
    <3>5. CASE call.what = "storePrint" /\ faces' = [faces EXCEPT ![call.arg].printId = Len(tables'.prints)]
      <4>1. call.arg \in DOMAIN faces
        BY <1>1, <3>2, <3>5 DEF CallsFit
      <4>2. faces # <<>>
        BY <4>1
      <4>3. DOMAIN faces' = DOMAIN faces
            /\ \A i \in DOMAIN faces : /\ faces'[i].id = faces[i].id /\ faces'[i].person = faces[i].person
                                       /\ faces'[i].name = faces[i].name
        BY <1>1, <3>5, FacesAre DEF FacesFor
      <4> QED  BY <3>1, <4>2, <4>3 DEF NoneYet, RawFaces, FacesCome, Asks, Raw
    <3> QED  BY <2>2, <3>3, <3>4, <3>5 DEF Execute
  <2> QED  BY <1>12, <2>1, <2>2 DEF Serve
<1>13. CASE UNCHANGED vars
  BY <1>13 DEF vars, guiVars, NoneYet, RawFaces, FacesCome, Asks, Raw
<1> QED
  BY <1>2, <1>3, <1>4, <1>5, <1>6, <1>7, <1>8, <1>9, <1>10, <1>11, <1>12, <1>13 DEF Next

\* A session begins with Open.
LEMMA SessionBegins ==
    ASSUME [Next]_vars, ~ Session, Session'
    PROVE  Open
<1>1. dialog' # dialog
  BY DEF Session
<1>2. ~ (\/ HandleEvent \/ StartJob \/ Detect \/ Calculate \/ Serve \/ UNCHANGED vars)
  <2>1. UNCHANGED dialog => dialog' = dialog
    OBVIOUS
  <2>2. HandleEvent => dialog' = dialog
    BY DEF HandleEvent
  <2>3. StartJob => dialog' = dialog
    BY DEF StartJob, guiVars
  <2>4. Detect => dialog' = dialog
    BY DEF Detect, guiVars
  <2>5. Calculate => dialog' = dialog
    BY DEF Calculate, guiVars
  <2>6. Serve => dialog' = dialog
    BY DEF Serve, AnswerWorker, guiVars, Execute
  <2>7. UNCHANGED vars => dialog' = dialog
    BY DEF vars, guiVars
  <2> QED  BY <1>1, <2>2, <2>3, <2>4, <2>5, <2>6, <2>7
<1>3. ~ (Accept \/ Reject \/ StorePeopleNames \/ StoreFingerprints)
  BY DEF Session, Accept, Reject, StorePeopleNames, StoreFingerprints
<1>4. ~ Close
  BY DEF Session, Close
<1> QED  BY <1>2, <1>3, <1>4 DEF Next

\* The database answers where the places are: it has stored what was sent.
LEMMA AnsweredLast ==
    ASSUME Control, InfosFirst, Session, requests # <<>>, ~ IsInfo(Head(requests))
    PROVE  NoInfos
<1>1. Head(requests) = requests[1] /\ 1 \in DOMAIN requests /\ DOMAIN requests = 1 .. Len(requests)
      /\ Len(requests) \in Nat
  BY TailPlaces DEF Control, Typed
<1>2. SUFFICES ASSUME NEW j \in DOMAIN requests, IsInfo(requests[j])  PROVE FALSE
  BY DEF NoInfos
<1>3. j # 1 /\ 1 < j
  BY <1>1, <1>2
<1> QED  BY <1>1, <1>2, <1>3 DEF InfosFirst

LEMMA PlacesAsked ==
    ASSUME Control, InfosFirst, Session, Asks, [Next]_vars
    PROVE  Asks' \/ ~ Session' \/ NoInfos
<1>1. Typed /\ OneThing /\ OneCallEach
  BY DEF Control
<1>2. CASE StartJob
  <2>1. job = "find"
    BY <1>2 DEF StartJob, Asks
  <2>2. worker' = "rects"
    BY <1>2, <2>1 DEF StartJob
  <2> QED  BY <2>2 DEF Asks
<1>3. CASE HandleEvent
  <2>1. events # <<>>
    BY <1>3 DEF HandleEvent
  <2> QED  BY <1>1, <2>1 DEF OneThing, Asks
<1>4. CASE Serve
  <2>1. requests # <<>>
    BY <1>4 DEF Serve
  <2>2. CASE Head(requests).from = "worker"
    <3>1. ~ IsInfo(Head(requests))
      BY <1>1, <2>1, <2>2, TailPlaces, KindsOfCalls DEF Typed, IsInfo
    <3> QED  BY <2>1, <3>1, AnsweredLast
  <2>3. CASE Execute(Head(requests))
    BY <2>3 DEF Execute, Asks
  <2> QED  BY <1>4, <2>2, <2>3 DEF Serve
<1>5. CASE Open \/ Close
  BY <1>5 DEF Open, Close, Session
<1>6. CASE Detect \/ Calculate
  <2>1. worker \in {"detecting", "calculating"} /\ job' = job
    BY <1>6 DEF Detect, Calculate
  <2> QED  BY <2>1 DEF Asks
<1>7. CASE Accept \/ Reject \/ StorePeopleNames \/ StoreFingerprints \/ UNCHANGED vars
  <2>1. UNCHANGED <<job, worker>>
    BY <1>7 DEF Accept, Reject, StorePeopleNames, StoreFingerprints, vars
  <2> QED  BY <2>1 DEF Asks
<1> QED  BY <1>2, <1>3, <1>4, <1>5, <1>6, <1>7 DEF Next

\* What is left in the queue.
LEMMA QuietInfos ==
    ASSUME Typed, Typed', Quiet
    PROVE  /\ NoInfos => NoInfos'
           /\ InfosFirst /\ Session /\ Session' => InfosFirst'
<1> DEFINE n == Len(requests)
<1>1. PICK d \in {0, 1} : KeptInfos(d)
  BY DEF Quiet
<1>2. n \in Nat /\ DOMAIN requests = 1 .. n
  BY RequestsAre
<1>3. Len(requests') \in Nat /\ DOMAIN requests' = 1 .. Len(requests')
  BY DEF Typed
<1>4. NoInfos => NoInfos'
  BY <1>1 DEF NoInfos, KeptInfos
<1>5. ASSUME InfosFirst, Session, NEW i \in DOMAIN requests', NEW j \in DOMAIN requests', i < j, IsInfo(requests'[j])
      PROVE  IsInfo(requests'[i])
  <2>1. j + d \in DOMAIN requests /\ IsInfo(requests[j + d])
    BY <1>1, <1>5 DEF KeptInfos
  <2>2. i + d \in DOMAIN requests /\ i + d < j + d /\ (i + d) - d = i
    BY <1>2, <1>3, <1>5, <2>1
  <2>3. IsInfo(requests[i + d])
    BY <1>5, <2>1, <2>2 DEF InfosFirst
  <2> QED  BY <1>1, <2>2, <2>3 DEF KeptInfos
<1> QED  BY <1>4, <1>5 DEF InfosFirst

\* The infos still in the queue come before all else.
LEMMA StoredInfos ==
    ASSUME Typed, Stored
    PROVE  /\ ~ NoInfos
           /\ InfosFirst => InfosFirst'
<1>1. /\ requests # <<>> /\ IsInfo(Head(requests)) /\ requests' = Tail(requests) /\ dialog' = dialog
      /\ Head(requests) = requests[1] /\ 1 \in DOMAIN requests
      /\ Len(requests) \in Nat \ {0} /\ DOMAIN requests = 1 .. Len(requests)
      /\ DOMAIN requests' = 1 .. Len(requests) - 1
      /\ \A i \in 1 .. Len(requests) - 1 : requests'[i] = requests[i + 1]
  BY TailPlaces DEF Typed, Stored
<1>2. ~ NoInfos
  BY <1>1 DEF NoInfos
<1>3. ASSUME InfosFirst, Session, NEW i \in DOMAIN requests', NEW j \in DOMAIN requests', i < j, IsInfo(requests'[j])
      PROVE  IsInfo(requests'[i])
  <2>1. i + 1 \in DOMAIN requests /\ j + 1 \in DOMAIN requests /\ i + 1 < j + 1
    BY <1>1, <1>3
  <2> QED  BY <1>1, <1>3, <2>1 DEF InfosFirst
<1> QED  BY <1>1, <1>2, <1>3 DEF InfosFirst, Session

LEMMA StepOrdered ==
    ASSUME Control, Ordered, [Next]_vars
    PROVE  Ordered'
<1>1. Typed /\ InfosFirst /\ QueueEmptied /\ NoneYet /\ RawFaces
  BY DEF Control, Ordered
<1>2. Typed'
  BY StepControl DEF Control
<1>3. NoneYet' /\ RawFaces'
  BY <1>1, StepStages
<1>4. CASE ~ Session'
  BY <1>3, <1>4 DEF Ordered, InfosFirst, QueueEmptied
<1>5. CASE ~ Session /\ Session'
  <2>1. dialog = "closed" /\ job' = "find" /\ UNCHANGED requests
    BY <1>5, SessionBegins DEF Open
  <2>2. \A i \in DOMAIN requests' : IsInfo(requests'[i])
    BY <2>1, ClosedQueue
  <2>3. InfosFirst' /\ QueueEmptied'
    BY <2>1, <2>2 DEF InfosFirst, QueueEmptied, Asks
  <2> QED  BY <1>3, <2>3 DEF Ordered
<1>6. CASE Session /\ Session'
  <2>1. CASE Quiet
    <3>1. InfosFirst' /\ (NoInfos => NoInfos')
      BY <1>1, <1>2, <1>6, <2>1, QuietInfos
    <3>2. Asks' \/ NoInfos
      BY <1>1, <1>6, PlacesAsked DEF QueueEmptied
    <3> QED  BY <1>3, <3>1, <3>2 DEF Ordered, QueueEmptied
  <2>2. CASE Sent
    BY <1>6, <2>2 DEF Sent, Session
  <2>3. CASE Stored
    <3>1. InfosFirst' /\ Asks
      BY <1>1, <1>6, <2>3, StoredInfos DEF QueueEmptied
    <3>2. Asks'
      BY <2>3, <3>1 DEF Stored, Asks
    <3> QED  BY <1>3, <3>1, <3>2 DEF Ordered, QueueEmptied
  <2> QED  BY <2>1, <2>2, <2>3, StepKinds
<1> QED  BY <1>4, <1>5, <1>6

-----------------------------------------------------------------------------
(* What a step does to the faces *)

LEMMA NamesStay ==
    ASSUME Control, [Next]_vars
    PROVE  KeptNames
<1>1. Typed
  BY DEF Control
<1>2. CASE Quiet
  BY <1>2 DEF Quiet
<1>3. CASE Sent
  BY <1>1, <1>3, TablesAre DEF Sent, KeptNames
<1>4. CASE Stored
  <2>1. /\ Head(requests) \in CallsFor(tables) /\ Head(requests).what = "storeInfo"
        /\ tables' = StoreInfo(tables, Head(requests).arg.id, Head(requests).arg.info)
    BY <1>1, <1>4, TailPlaces DEF Typed, Stored, IsInfo
  <2>2. Head(requests).arg \in InfosFor(tables)
    BY <2>1, KindsOfCalls
  <2>3. tables'.names = tables.names
    BY <1>1, <2>1, <2>2, StoredRow
  <2> QED  BY <1>1, <2>3, TablesAre DEF KeptNames
<1> QED  BY <1>2, <1>3, <1>4, StepKinds

\* The names that were fetched are still those of their ids.
KnownNames == \A n \in 1 .. Len(known) : known[n] = tables.names[n]

LEMMA StepKnown ==
    ASSUME Control, KnownNames, [Next]_vars
    PROVE  KnownNames'
<1>1. Typed /\ KeptNames
  BY NamesStay DEF Control
<1>2. CASE UNCHANGED known
  <2>1. Len(known) \in Nat /\ Len(tables.names) \in Nat /\ Len(known) <= Len(tables.names)
    BY <1>1, TablesAre DEF Typed
  <2> QED  BY <1>1, <1>2, <2>1 DEF KnownNames, KeptNames
<1>3. CASE known' = <<>>
  BY <1>3 DEF KnownNames
<1>4. CASE known' = tables.names
  <2>1. \A n \in 1 .. Len(tables.names) : tables'.names[n] = tables.names[n]
    BY <1>1 DEF KeptNames
  <2> QED  BY <1>4, <2>1 DEF KnownNames
<1>5. UNCHANGED known \/ known' = <<>> \/ known' = tables.names
  <2>1. CASE Open \/ HandleEvent \/ Accept \/ Reject \/ StorePeopleNames \/ StoreFingerprints
    BY <2>1 DEF Open, HandleEvent, Accept, Reject, StorePeopleNames, StoreFingerprints
  <2>2. CASE Close \/ StartJob \/ Detect \/ Calculate
    BY <2>2 DEF Close, StartJob, Detect, Calculate, guiVars
  <2>3. CASE Serve
    BY <2>3 DEF Serve, AnswerWorker, Execute, guiVars
  <2>4. CASE UNCHANGED vars
    BY <2>4 DEF vars, guiVars
  <2> QED  BY <2>1, <2>2, <2>3, <2>4 DEF Next
<1> QED  BY <1>2, <1>3, <1>4, <1>5

\* A face that has its place and its id still: no more is known of it, or the
\* user typed a name, or a person was found or made for that name, or one for
\* the face.
KeptFace(old, new) ==
    /\ new.rect = old.rect /\ new.id = old.id
    /\ \/ new.person = old.person /\ new.name = old.name
       \/ dialog = "open" /\ dialog' = "names" /\ shown /\ new.person = NoId
       \/ /\ dialog # "open" /\ shown /\ new.name = old.name /\ new.name # NoName
          /\ new.person # NoId /\ new.name = tables'.names[new.person]
       \/ /\ FilledIn /\ ~ shown /\ old.name = NoName
          /\ new.person # NoId /\ new.name = tables'.names[new.person]

KeptFaces == /\ DOMAIN faces' = DOMAIN faces
             /\ \A i \in DOMAIN faces : KeptFace(faces[i], faces'[i])
             /\ FilledIn' => FilledIn

\* Faces come, with their places.
NewFaces == /\ DOMAIN events = {1} /\ events[1].what = "findFaces_result"
            /\ DOMAIN faces' = DOMAIN events[1].rects
            /\ \A i \in DOMAIN faces' : faces'[i] = NewFace(events[1].rects[i])
            /\ ~ FilledIn' /\ UNCHANGED <<tables, requests, dialog, expected>> /\ dialog = "open"

\* They get ids and names.
Filling == /\ Raw /\ FillPeople /\ Session' = Session /\ ~ shown /\ UNCHANGED <<tables, dialog, shown, expected>>

LEMMA SameFaces ==
    ASSUME Typed, UNCHANGED <<faces, worker, shown, events>>
    PROVE  KeptFaces
BY FacesAre DEF KeptFaces, KeptFace, FilledIn

LEMMA AcceptFaces ==
    ASSUME Control, Accept
    PROVE  KeptFaces
<1>1. Typed
  BY DEF Control
<1>2. dialog = "open" /\ dialog' = "names" /\ UNCHANGED <<worker, shown, events>>
  BY DEF Accept
<1>3. FilledIn' => FilledIn
  BY <1>2 DEF FilledIn
<1> QED  BY <1>1, <1>2, <1>3, AcceptNames DEF KeptFaces, KeptFace

LEMMA StorePeopleNamesFaces ==
    ASSUME Control, KnownNames, StorePeopleNames
    PROVE  KeptFaces
<1>1. Typed /\ UnshownNames
  BY DEF Control
<1>2. dialog = "names" /\ UNCHANGED <<tables, worker, shown, events>>
  BY DEF StorePeopleNames
<1>3. CASE UNCHANGED faces
  BY <1>1, <1>2, <1>3, SameFaces
<1>4. CASE /\ Unstored # NoId /\ PersonOf(known, faces[Unstored].name) # NoId
           /\ faces' = [faces EXCEPT ![Unstored].person = PersonOf(known, faces[Unstored].name)]
  <2> DEFINE name == faces[Unstored].name
             person == PersonOf(known, name)
  <2>1. Unstored \in DOMAIN faces /\ faces[Unstored].person = NoId /\ name # NoName /\ shown
    BY <1>1, <1>4, UnstoredFace DEF UnshownNames
  <2>2. person \in 1 .. Len(known) /\ known[person] = name
    <3>1. known \in Seq(Names) /\ Len(known) \in Nat
      BY <1>1 DEF Typed
    <3> QED  BY <1>4, <3>1, PersonFound DEF NoId
  <2>3. tables'.names[person] = name
    BY <1>2, <2>2 DEF KnownNames
  <2> HIDE DEF person, name
  <2>4. DOMAIN faces' = DOMAIN faces
        /\ \A i \in DOMAIN faces : \/ i # Unstored /\ faces'[i] = faces[i]
                                   \/ /\ i = Unstored /\ faces'[i].person = person
                                      /\ faces'[i].rect = faces[i].rect /\ faces'[i].id = faces[i].id
                                      /\ faces'[i].name = name /\ faces[i].name = name
    BY <1>1, <1>4, <2>1, FacesAre DEF person, name, FacesFor
  <2>5. person # NoId
    BY <1>4 DEF person, name
  <2>6. FilledIn' => FilledIn
    BY <1>2 DEF FilledIn
  <2> QED  BY <1>2, <2>1, <2>3, <2>4, <2>5, <2>6 DEF KeptFaces, KeptFace
<1> QED  BY <1>3, <1>4 DEF StorePeopleNames, Unstored

LEMMA HandleEventFaces ==
    ASSUME Control, Ordered, HandleEvent
    PROVE  KeptFaces \/ NewFaces
<1>1. Typed /\ OneThing /\ NoneYet
  BY DEF Control, Ordered
<1>2. /\ events # <<>> /\ events' = <<>> /\ DOMAIN events = {1} /\ Head(events) = events[1]
      /\ worker' = "idle" /\ ~ shown /\ Head(events) \in Results
      /\ dialog = "open" /\ UNCHANGED <<tables, requests, dialog, expected>>
  BY <1>1, OneEvent DEF HandleEvent, OneThing
<1>3. CASE /\ Head(events).what = "findFaces_result" /\ UNCHANGED shown
           /\ faces' = faces \o [i \in DOMAIN Head(events).rects |-> NewFace(Head(events).rects[i])]
  <2>1. faces = <<>>
    BY <1>1, <1>2, <1>3 DEF NoneYet, FacesCome
  <2>2. Head(events).rects \in Seq(Faces)
    BY <1>2, <1>3 DEF Results
  <2>3. DOMAIN faces' = DOMAIN Head(events).rects
        /\ \A i \in DOMAIN faces' : faces'[i] = NewFace(Head(events).rects[i])
    BY <1>1, <1>2, <1>3, <2>1, <2>2, FoundFaces
  <2>4. ~ FilledIn'
    BY <1>2, <1>3 DEF FilledIn
  <2> QED  BY <1>2, <1>3, <2>3, <2>4 DEF NewFaces
<1>4. CASE Head(events).what = "recognizeFaces_result" /\ UNCHANGED faces
  <2>1. FilledIn
    BY <1>2, <1>4 DEF FilledIn
  <2> QED  BY <1>1, <1>4, <2>1, FacesAre DEF KeptFaces, KeptFace
<1> QED  BY <1>3, <1>4 DEF HandleEvent

LEMMA StaleFaces ==
    ASSUME Control, Open \/ Reject \/ StoreFingerprints \/ StartJob \/ Detect \/ UNCHANGED vars
    PROVE  KeptFaces
<1>1. Typed
  BY DEF Control
<1>2. CASE Open \/ Reject \/ StoreFingerprints \/ UNCHANGED vars
  <2>1. UNCHANGED <<faces, worker, shown, events>>
    BY <1>2 DEF Open, Reject, StoreFingerprints, vars, guiVars
  <2> QED  BY <1>1, <2>1, SameFaces
<1>3. CASE StartJob
  <2>1. UNCHANGED <<faces, shown, events>> /\ worker' \in {"rects", "people"}
    BY <1>3 DEF StartJob, guiVars
  <2>2. FilledIn' => FilledIn
    BY <2>1 DEF FilledIn
  <2> QED  BY <1>1, <2>1, <2>2, FacesAre DEF KeptFaces, KeptFace
<1>4. CASE Detect
  <2>1. UNCHANGED <<faces, shown>> /\ worker' = "idle"
    BY <1>4 DEF Detect, guiVars
  <2>2. \A i \in DOMAIN events' : events'[i].what = "findFaces_result"
    BY <1>4, DetectControl
  <2>3. FilledIn' => FilledIn
    BY <2>1, <2>2 DEF FilledIn
  <2> QED  BY <1>1, <2>1, <2>3, FacesAre DEF KeptFaces, KeptFace
<1> QED  BY <1>2, <1>3, <1>4

LEMMA CalculateFaces ==
    ASSUME Control, Calculate
    PROVE  KeptFaces
<1>1. Typed
  BY DEF Control
<1>2. FilledIn
  BY DEF Calculate, FilledIn
<1>3. DOMAIN faces' = DOMAIN faces
      /\ \A i \in DOMAIN faces : /\ faces'[i].rect = faces[i].rect /\ faces'[i].id = faces[i].id
                                 /\ faces'[i].person = faces[i].person /\ faces'[i].name = faces[i].name
  BY <1>1, FacesAre DEF Calculate, FacesFor
<1> QED  BY <1>2, <1>3 DEF KeptFaces, KeptFace

LEMMA AnswerWorkerFaces ==
    ASSUME Control, AnswerWorker
    PROVE  KeptFaces \/ Filling
<1>1. Typed /\ OneThing
  BY DEF Control
<1>2. /\ worker \in Waiting /\ events = <<>> /\ ~ shown
      /\ UNCHANGED <<tables, dialog, shown, expected>>
  BY <1>1 DEF AnswerWorker, OneThing, Waiting, guiVars
<1>3. CASE worker = "rects" /\ FoundInDb
  <2> DEFINE rects == SortedRects(tables)
             result == [what |-> "findFaces_result", rects |-> rects]
  <2>1. rects \in Seq(Faces)
    BY <1>1, SortedPlaces
  <2>2. result \in Results /\ result.what = "findFaces_result"
    BY <2>1 DEF Results
  <2>3. UNCHANGED faces /\ worker' \in {"detecting", "idle"}
        /\ (UNCHANGED events \/ events' = Append(events, result))
    BY <1>3 DEF FoundInDb, FindFaces_Result
  <2> HIDE DEF result
  <2>4. \A i \in DOMAIN events' : events'[i].what = "findFaces_result"
    BY <1>2, <2>2, <2>3, PostedOnce
  <2>5. FilledIn' => FilledIn
    BY <1>2, <2>3, <2>4 DEF FilledIn
  <2> QED  BY <1>1, <2>3, <2>5, FacesAre DEF KeptFaces, KeptFace
<1>4. CASE worker = "people" /\ FillPeople
  BY <1>2, <1>4 DEF Filling, Raw, Session
<1>5. CASE worker = "prints" /\ FillPrints
  <2>1. FilledIn
    BY <1>5 DEF FilledIn
  <2> QED  BY <1>1, <1>5, <2>1, FilledPrints DEF KeptFaces, KeptFace
<1>6. CASE worker = "known" /\ RecognizePeople
  <2>1. FilledIn
    BY <1>6 DEF FilledIn
  <2> QED  BY <1>1, <1>2, <1>6, <2>1, RecognizedPeople DEF KeptFaces, KeptFace
<1> QED  BY <1>3, <1>4, <1>5, <1>6 DEF AnswerWorker

LEMMA ExecuteFaces ==
    ASSUME Control, requests # <<>>, Execute(Head(requests))
    PROVE  KeptFaces
<1> DEFINE call == Head(requests)
<1>1. Typed /\ OneThing /\ OneCallEach /\ CallsFit
  BY DEF Control
<1>2. UNCHANGED <<job, worker, events, shown>>
  BY DEF Execute
<1>3. call = requests[1] /\ 1 \in DOMAIN requests /\ call \in CallsFor(tables)
  BY <1>1, TailPlaces DEF Typed
<1>4. CASE UNCHANGED faces
  BY <1>1, <1>2, <1>4, SameFaces
<1>5. FilledIn' => FilledIn
  BY <1>2 DEF FilledIn
<1>6. CASE /\ call.what = "storeName" /\ tables' = StoreName(tables, faces[call.arg].name)
           /\ faces' = [faces EXCEPT ![call.arg].person = PersonOf(tables'.names, faces[call.arg].name)]
  <2> DEFINE k == call.arg
             name == faces[k].name
             person == PersonOf(tables'.names, name)
  <2>1. k \in DOMAIN faces /\ shown /\ name # NoName /\ name \in Names
    BY <1>1, <1>3, <1>6, FacesAre DEF CallsFit
  <2>2. dialog # "open"
    BY <1>1, <1>3, <1>6, KindsOfCalls DEF OneCallEach
  <2>3. person \in 1 .. Len(tables'.names) /\ tables'.names[person] = name
    BY <1>1, <1>6, <2>1, StoredName
  <2> HIDE DEF person
  <2>4. DOMAIN faces' = DOMAIN faces
        /\ \A i \in DOMAIN faces : \/ i # k /\ faces'[i] = faces[i]
                                   \/ /\ i = k /\ faces'[i].person = person
                                      /\ faces'[i].rect = faces[i].rect /\ faces'[i].id = faces[i].id
                                      /\ faces'[i].name = name /\ faces[i].name = name
    BY <1>1, <1>6, <2>1, FacesAre DEF person, FacesFor
  <2>5. person # NoId
    BY <2>3 DEF NoId
  <2> HIDE DEF k, name
  <2>6. \A i \in DOMAIN faces : KeptFace(faces[i], faces'[i])
    BY <2>1, <2>2, <2>3, <2>4, <2>5 DEF KeptFace
  <2> QED  BY <1>5, <2>4, <2>6 DEF KeptFaces
<1>7. CASE call.what = "storePrint" /\ faces' = [faces EXCEPT ![call.arg].printId = Len(tables'.prints)]
  <2>1. call.arg \in DOMAIN faces
    BY <1>1, <1>3, <1>7 DEF CallsFit
  <2>2. DOMAIN faces' = DOMAIN faces
        /\ \A i \in DOMAIN faces : /\ faces'[i].rect = faces[i].rect /\ faces'[i].id = faces[i].id
                                   /\ faces'[i].person = faces[i].person /\ faces'[i].name = faces[i].name
    BY <1>1, <1>7, FacesAre DEF FacesFor
  <2> QED  BY <1>5, <2>2 DEF KeptFaces, KeptFace
<1> QED  BY <1>4, <1>6, <1>7 DEF Execute

\* What a step does to the faces.
LEMMA StepFaces ==
    ASSUME Control, Ordered, KnownNames, [Next]_vars
    PROVE  \/ KeptFaces
           \/ NewFaces
           \/ Filling
           \/ Close /\ faces' = <<>> /\ ~ FilledIn'
<1>1. CASE Close
  BY <1>1 DEF Close, Released, FilledIn
<1>2. CASE Serve
  BY <1>2, AnswerWorkerFaces, ExecuteFaces DEF Serve
<1> QED  BY <1>1, <1>2, HandleEventFaces, AcceptFaces, StorePeopleNamesFaces, StaleFaces, CalculateFaces DEF Next

-----------------------------------------------------------------------------
(* No place has two rows *)

NoRowAt(rect) == \A j \in Rows : tables.rows[j].rect # rect

FoundDiffer == \A i \in DOMAIN events : events[i].what = "findFaces_result" => IsInjective(events[i].rects)
FacesDiffer == \A i, j \in DOMAIN faces : faces[i].rect = faces[j].rect => i = j

\* An id is that of the row with the place; without one the place has no row.
FaceIds ==
    Session => \A i \in DOMAIN faces :
                  /\ faces[i].id # NoId => tables.rows[faces[i].id].rect = faces[i].rect
                  /\ faces[i].id = NoId /\ (FilledIn \/ faces[i].person # NoId) => NoRowAt(faces[i].rect)

\* So it is with the infos that were sent, which are about different places.
InfosFit ==
    \A i \in DOMAIN requests :
        IsInfo(requests[i]) =>
            LET arg == requests[i].arg IN
            /\ arg.id # NoId => tables.rows[arg.id].rect = arg.info.rect
            /\ arg.id = NoId /\ arg.info.person # NoId => NoRowAt(arg.info.rect)
InfosDiffer ==
    \A i, j \in DOMAIN requests :
        IsInfo(requests[i]) /\ IsInfo(requests[j]) /\ requests[i].arg.info.rect = requests[j].arg.info.rect
            => i = j

OneRowEach == PlacesDiffer(tables) /\ FoundDiffer /\ FacesDiffer /\ FaceIds /\ InfosFit /\ InfosDiffer

\* There are no infos in the queue once there are faces.
LEMMA FacesAlone ==
    ASSUME Ordered, Session, faces # <<>>
    PROVE  NoInfos
BY DEF Ordered, QueueEmptied, NoneYet, FacesCome

\* What is known of an info in the queue.
LEMMA InfosAre ==
    ASSUME Typed, NEW i \in DOMAIN requests, IsInfo(requests[i])
    PROVE  /\ requests[i].arg \in InfosFor(tables)
           /\ requests[i].arg.id \in 0 .. Len(tables.rows)
           /\ requests[i].arg.info.rect \in Faces /\ requests[i].arg.info.rect # NoRect
           /\ requests[i].arg.info.person \in 0 .. Len(tables.names)
<1>1. requests[i].arg \in InfosFor(tables)
  BY RequestsAre, KindsOfCalls DEF IsInfo
<1>2. NoRect \notin Faces
  BY PeopleAssumption DEF NoRect
<1> QED  BY <1>1, <1>2 DEF InfosFor

\* The row that is written is the only one with its place.
LEMMA StoredPlace ==
    ASSUME Typed, PlacesDiffer(tables), InfosFit, Stored
    PROVE  LET info == requests[1].arg.info IN
           /\ Head(requests) = requests[1] /\ 1 \in DOMAIN requests /\ IsInfo(requests[1])
           /\ tables'.names = tables.names
           /\ \E j \in Rows' : /\ Rows' = Rows \cup {j} /\ tables'.rows[j] = info
                               /\ \A k \in Rows \ {j} : /\ tables'.rows[k] = tables.rows[k]
                                                        /\ tables.rows[k].rect # info.rect
                               /\ j \in Rows => tables.rows[j].rect \in {info.rect, NoRect}
<1> DEFINE arg == requests[1].arg
           row == RowFor(tables, arg.info)
<1>1. /\ Head(requests) = requests[1] /\ 1 \in DOMAIN requests /\ IsInfo(requests[1])
      /\ tables' = StoreInfo(tables, arg.id, arg.info)
  BY TailPlaces DEF Typed, Stored
<1>2. arg \in InfosFor(tables) /\ arg.info.rect # NoRect
      /\ arg.id \in 0 .. Len(tables.rows)
  BY <1>1, InfosAre
<1>3. /\ arg.id # NoId => tables.rows[arg.id].rect = arg.info.rect
      /\ arg.id = NoId /\ arg.info.person # NoId => NoRowAt(arg.info.rect)
  BY <1>1 DEF InfosFit
<1>4. /\ row # NoId => /\ row \in Rows
                       /\ \/ tables.rows[row].rect = arg.info.rect
                          \/ tables.rows[row].rect = NoRect /\ arg.info.person # NoId
      /\ row = NoId => NoRowAt(arg.info.rect)
  BY RowForInfo DEF NoRowAt
<1> HIDE DEF row
<1>5. tables'.names = tables.names
      /\ \E j \in Rows' : /\ Rows' = Rows \cup {j} /\ tables'.rows[j] = arg.info
                          /\ \A k \in Rows \ {j} : tables'.rows[k] = tables.rows[k]
                          /\ arg.id # NoId => j = arg.id
                          /\ arg.id = NoId => j = row \/ j \notin Rows
                          /\ j \notin Rows => row = NoId
  BY <1>1, <1>2, StoredRow DEF row
<1>6. PICK j \in Rows' : /\ Rows' = Rows \cup {j} /\ tables'.rows[j] = arg.info
                         /\ \A k \in Rows \ {j} : tables'.rows[k] = tables.rows[k]
                         /\ arg.id # NoId => j = arg.id
                         /\ arg.id = NoId => j = row \/ j \notin Rows
                         /\ j \notin Rows => row = NoId
  BY <1>5
<1>7. Rows = 1 .. Len(tables.rows) /\ Len(tables.rows) \in Nat
  BY TablesAre
<1>8. NoId \notin Rows
  BY <1>7 DEF NoId
<1>9. (j \in Rows /\ tables.rows[j].rect = arg.info.rect) \/ NoRowAt(arg.info.rect)
  <2>1. CASE arg.id # NoId
    <3>1. arg.id \in Rows
      BY <1>2, <1>7, <2>1 DEF NoId
    <3> QED  BY <1>3, <1>6, <2>1, <3>1
  <2>2. CASE arg.id = NoId /\ row = NoId
    BY <1>4, <2>2
  <2>3. CASE arg.id = NoId /\ row # NoId
    <3>1. j = row /\ j \in Rows
      BY <1>4, <1>6, <2>3
    <3> QED  BY <1>3, <1>4, <2>3, <3>1
  <2> QED  BY <2>1, <2>2, <2>3
<1>10. ASSUME NEW k \in Rows \ {j}
       PROVE  tables.rows[k].rect # arg.info.rect
  <2>1. CASE NoRowAt(arg.info.rect)
    BY <2>1 DEF NoRowAt
  <2>2. CASE j \in Rows /\ tables.rows[j].rect = arg.info.rect
    BY <1>2, <2>2 DEF PlacesDiffer, Placed, Rows
  <2> QED  BY <1>9, <2>1, <2>2
<1>11. j \in Rows => tables.rows[j].rect \in {arg.info.rect, NoRect}
  <2> SUFFICES ASSUME j \in Rows  PROVE tables.rows[j].rect \in {arg.info.rect, NoRect}
    OBVIOUS
  <2>1. CASE arg.id # NoId
    BY <1>3, <1>6, <2>1
  <2>2. CASE arg.id = NoId
    BY <1>4, <1>6, <1>8, <2>2
  <2> QED  BY <2>1, <2>2
<1>12. /\ \A k \in Rows \ {j} : tables'.rows[k] = tables.rows[k] /\ tables.rows[k].rect # arg.info.rect
       /\ j \in Rows' /\ Rows' = Rows \cup {j} /\ tables'.rows[j] = arg.info
  BY <1>6, <1>10
<1> QED  BY <1>1, <1>5, <1>11, <1>12

\* Places of faces and rows after a step that stores nothing.
LEMMA StepFaceIds ==
    ASSUME Control, Ordered, KnownNames, OneRowEach, [Next]_vars, tables'.rows = tables.rows
    PROVE  FacesDiffer' /\ FaceIds'
<1>1. Typed /\ Typed' /\ OneThing
  BY StepControl DEF Control
<1>2. FoundDiffer /\ FacesDiffer /\ FaceIds
  BY DEF OneRowEach
<1>3. \A rect : NoRowAt(rect)' <=> NoRowAt(rect)
  BY DEF NoRowAt, Rows
<1>4. \A i \in DOMAIN faces : faces[i].id \in 0 .. Len(tables.rows)
  BY <1>1, FacesAre
<1>5. CASE KeptFaces
  <2>1. DOMAIN faces' = DOMAIN faces /\ (FilledIn' => FilledIn)
        /\ \A i \in DOMAIN faces : /\ faces'[i].rect = faces[i].rect /\ faces'[i].id = faces[i].id
                                   /\ faces'[i].person # NoId => faces[i].person # NoId \/ FilledIn
    BY <1>5 DEF KeptFaces, KeptFace, FilledIn
  <2>2. FacesDiffer'
    BY <1>2, <2>1 DEF FacesDiffer
  <2>3. CASE Session
    BY <1>2, <1>3, <2>1, <2>2, <2>3 DEF FaceIds
  <2>4. CASE ~ Session /\ Session'
    <3>1. dialog = "closed"
      BY <2>4, SessionBegins DEF Open
    <3>2. DOMAIN faces = {}
      BY <1>1, <3>1 DEF OneThing
    <3> QED  BY <2>1, <2>2, <3>2 DEF FaceIds
  <2> QED  BY <2>2, <2>3, <2>4 DEF FaceIds
<1>6. CASE NewFaces
  <2> DEFINE rects == events[1].rects
  <2>1. /\ rects \in Seq(Faces) /\ IsInjective(rects) /\ DOMAIN faces' = DOMAIN rects
        /\ \A i \in DOMAIN faces' : faces'[i] = NewFace(rects[i])
        /\ ~ FilledIn'
    <3>1. events[1] \in Results /\ events[1].what = "findFaces_result" /\ 1 \in DOMAIN events
      <4>1. 1 \in DOMAIN events /\ events[1].what = "findFaces_result"
        BY <1>6 DEF NewFaces
      <4>2. events \in [1 .. Len(events) -> Results] /\ DOMAIN events = 1 .. Len(events)
        BY <1>1, SeqIsFunction DEF Typed
      <4> QED  BY <4>1, <4>2
    <3> QED  BY <1>2, <1>6, <3>1 DEF NewFaces, Results, FoundDiffer
  <2> HIDE DEF rects
  <2>2. \A i \in DOMAIN faces' : faces'[i].rect = rects[i] /\ faces'[i].id = NoId /\ faces'[i].person = NoId
    BY <2>1 DEF NewFace
  <2>3. FacesDiffer'
    BY <2>1, <2>2 DEF FacesDiffer, IsInjective
  <2> QED  BY <2>1, <2>2, <2>3 DEF FaceIds
<1>7. CASE Filling
  <2>1. /\ DOMAIN faces' = DOMAIN faces /\ FillPeople
        /\ \A i \in DOMAIN faces :
              \/ RowAt(faces[i].rect) = NoId /\ faces'[i] = faces[i]
              \/ RowAt(faces[i].rect) # NoId /\ faces'[i] = Joined(faces[i], RowAt(faces[i].rect))
    BY <1>1, <1>7, FilledPeople DEF Filling
  <2>2. \A i \in DOMAIN faces : faces[i].id = NoId /\ faces[i] \in FacesFor(tables)
    BY <1>1, <1>7, FacesAre DEF Filling, Ordered, RawFaces
  <2>3. \A i \in DOMAIN faces :
           \/ faces'[i].rect = faces[i].rect /\ faces'[i].id = NoId /\ NoRowAt(faces[i].rect)
           \/ /\ faces'[i].rect = faces[i].rect /\ faces'[i].id \in Rows
              /\ tables.rows[faces'[i].id].rect = faces[i].rect
    BY <1>1, <2>1, <2>2, RowOfPlace, JoinedFace DEF NoRowAt
  <2>4. NoId \notin Rows
    BY <1>1, TablesAre DEF NoId
  <2>5. FacesDiffer'
    BY <1>2, <2>1, <2>3 DEF FacesDiffer
  <2>6. FaceIds'
    BY <1>3, <2>1, <2>3, <2>4 DEF FaceIds
  <2> QED  BY <2>5, <2>6
<1>8. CASE faces' = <<>>
  BY <1>8 DEF FacesDiffer, FaceIds
<1> QED  BY <1>5, <1>6, <1>7, <1>8, StepFaces

LEMMA StepFoundDiffer ==
    ASSUME Control, OneRowEach, [Next]_vars
    PROVE  FoundDiffer'
<1>1. Typed /\ OneThing /\ FoundDiffer /\ PlacesDiffer(tables)
  BY DEF Control, OneRowEach
<1>2. CASE UNCHANGED events
  BY <1>1, <1>2 DEF FoundDiffer
<1>3. CASE events' = <<>>
  BY <1>3 DEF FoundDiffer
<1>4. CASE HandleEvent
  <2>1. events' = <<>>
    BY <1>1, <1>4, OneEvent DEF HandleEvent
  <2> QED  BY <2>1 DEF FoundDiffer
<1>5. CASE Detect
  <2>1. DOMAIN events' = {1} /\ IsInjective(events'[1].rects)
    BY <1>5, DetectControl
  <2> QED  BY <2>1 DEF FoundDiffer
<1>6. CASE AnswerWorker
  <2>1. events = <<>>
    BY <1>1, <1>6 DEF AnswerWorker, OneThing
  <2>2. CASE FoundInDb
    <3> DEFINE rects == SortedRects(tables)
               result == [what |-> "findFaces_result", rects |-> rects]
    <3>1. rects \in Seq(Faces) /\ IsInjective(rects)
      BY <1>1, SortedPlaces
    <3>2. result \in Results /\ result.rects = rects
      BY <3>1 DEF Results
    <3>3. events' = events \/ events' = Append(events, result)
      BY <2>2 DEF FoundInDb, FindFaces_Result
    <3> HIDE DEF result, rects
    <3>4. events' = events \/ (DOMAIN events' = {1} /\ events'[1] = result)
      BY <2>1, <3>2, <3>3, PostedOnce
    <3> QED  BY <1>1, <3>1, <3>2, <3>4 DEF FoundDiffer
  <2>3. CASE FillPeople
    BY <1>2, <2>3 DEF FillPeople
  <2>4. CASE FillPrints \/ RecognizePeople
    <3> DEFINE result == [what |-> "recognizeFaces_result"]
    <3>1. result \in Results /\ result.what # "findFaces_result"
      BY DEF Results
    <3>2. events' = events \/ events' = Append(events, result)
      BY <2>4 DEF FillPrints, RecognizePeople, RecognizeFaces_Result
    <3> HIDE DEF result
    <3>3. events' = events \/ (DOMAIN events' = {1} /\ events'[1] = result)
      BY <2>1, <3>1, <3>2, PostedOnce
    <3> QED  BY <1>1, <3>1, <3>3 DEF FoundDiffer
  <2> QED  BY <1>6, <2>2, <2>3, <2>4 DEF AnswerWorker
<1>7. UNCHANGED events \/ events' = <<>> \/ HandleEvent \/ Detect \/ AnswerWorker
  <2>1. CASE Open \/ Accept \/ Reject \/ StorePeopleNames \/ StoreFingerprints
    BY <2>1 DEF Open, Accept, Reject, StorePeopleNames, StoreFingerprints
  <2>2. CASE Close \/ StartJob \/ Calculate
    BY <2>2 DEF Close, StartJob, Calculate
  <2>3. CASE Serve
    BY <2>3 DEF Serve, Execute
  <2>4. CASE UNCHANGED vars
    BY <2>4 DEF vars
  <2> QED  BY <2>1, <2>2, <2>3, <2>4 DEF Next
<1> QED  BY <1>2, <1>3, <1>4, <1>5, <1>6, <1>7

\* Infos in the queue after a step that has nothing to do with them.
LEMMA QuietPlaces ==
    ASSUME Typed, Typed', Quiet, InfosFit, InfosDiffer
    PROVE  InfosFit' /\ InfosDiffer'
<1>1. PICK d \in {0, 1} : KeptInfos(d)
  BY DEF Quiet
<1>2. \A rect : NoRowAt(rect)' <=> NoRowAt(rect)
  BY DEF NoRowAt, Rows, Quiet
<1>3. \A i \in DOMAIN requests' :
         IsInfo(requests'[i]) => /\ i + d \in DOMAIN requests /\ requests'[i] = requests[i + d]
                                 /\ IsInfo(requests[i + d])
  BY <1>1 DEF KeptInfos
<1>4. InfosFit'
  BY <1>2, <1>3 DEF InfosFit, Quiet
<1>5. DOMAIN requests' \subseteq Nat
  BY DEF Typed
<1>6. ASSUME NEW i \in DOMAIN requests', NEW j \in DOMAIN requests', IsInfo(requests'[i]), IsInfo(requests'[j]),
             requests'[i].arg.info.rect = requests'[j].arg.info.rect
      PROVE  i = j
  <2>1. i + d = j + d
    BY <1>3, <1>6 DEF InfosDiffer
  <2> QED  BY <1>5, <2>1
<1> QED  BY <1>4, <1>6 DEF InfosDiffer

\* Infos of the faces are sent after all others were stored.
LEMMA SentPlaces ==
    ASSUME Control, Ordered, OneRowEach, Sent
    PROVE  InfosFit' /\ InfosDiffer'
<1>1. Typed /\ FacesDiffer /\ FaceIds /\ InfosFit /\ InfosDiffer
  BY DEF Control, OneRowEach
<1>2. Session /\ UNCHANGED <<tables, faces>> /\ Sending /\ dialog = "fingerprints"
  BY DEF Sent, Session
<1>3. \A rect : NoRowAt(rect)' <=> NoRowAt(rect)
  BY <1>2 DEF NoRowAt, Rows
<1>4. /\ Len(requests) \in Nat /\ DOMAIN requests = 1 .. Len(requests)
      /\ Len(faces) \in Nat /\ DOMAIN faces = 1 .. Len(faces)
      /\ DOMAIN requests' = 1 .. Len(requests) + Len(faces)
      /\ \A i \in 1 .. Len(requests) : requests'[i] = requests[i]
      /\ \A i \in DOMAIN requests' \ 1 .. Len(requests) :
            /\ i - Len(requests) \in DOMAIN faces
            /\ requests'[i] = Request("nobody", "storeInfo", InfoOf(faces[i - Len(requests)]))
  BY <1>1, <1>2, SentInfos, RequestsAre, FacesAre
<1>5. CASE faces = <<>>
  <2>1. Len(faces) = 0
    BY <1>5
  <2>2. DOMAIN requests' = DOMAIN requests /\ \A i \in DOMAIN requests : requests'[i] = requests[i]
    BY <1>4, <2>1
  <2>3. InfosFit'
    BY <1>1, <1>2, <1>3, <2>2 DEF InfosFit
  <2> QED  BY <1>1, <2>2, <2>3 DEF InfosDiffer
<1>6. CASE faces # <<>>
  <2>1. NoInfos
    BY <1>2, <1>6, FacesAlone
  <2>2. ASSUME NEW i \in DOMAIN requests', IsInfo(requests'[i])
        PROVE  /\ i - Len(requests) \in DOMAIN faces
               /\ requests'[i].arg = InfoOf(faces[i - Len(requests)])
    <3>1. i \notin 1 .. Len(requests)
      BY <1>4, <2>1, <2>2 DEF NoInfos
    <3> QED  BY <1>4, <3>1 DEF Request
  <2>3. InfosFit'
    <3> SUFFICES ASSUME NEW i \in DOMAIN requests', IsInfo(requests'[i])
                 PROVE  LET arg == requests'[i].arg IN
                        /\ arg.id # NoId => tables'.rows[arg.id].rect = arg.info.rect
                        /\ arg.id = NoId /\ arg.info.person # NoId => \A k \in Rows' : tables'.rows[k].rect # arg.info.rect
      BY DEF InfosFit, NoRowAt
    <3> DEFINE face == faces[i - Len(requests)]
    <3>1. i - Len(requests) \in DOMAIN faces /\ requests'[i].arg = InfoOf(face)
      BY <2>2
    <3>2. /\ face.id # NoId => tables.rows[face.id].rect = face.rect
          /\ face.id = NoId /\ face.person # NoId => NoRowAt(face.rect)
      BY <1>1, <1>2, <3>1 DEF FaceIds
    <3> HIDE DEF face
    <3>3. /\ requests'[i].arg.id = face.id /\ requests'[i].arg.info.rect = face.rect
          /\ requests'[i].arg.info.person = face.person
      BY <3>1 DEF InfoOf, Info
    <3> QED  BY <1>2, <1>3, <3>2, <3>3 DEF NoRowAt
  <2>4. ASSUME NEW i \in DOMAIN requests', NEW j \in DOMAIN requests', IsInfo(requests'[i]), IsInfo(requests'[j]),
               requests'[i].arg.info.rect = requests'[j].arg.info.rect
        PROVE  i = j
    <3>1. faces[i - Len(requests)].rect = faces[j - Len(requests)].rect
      <4>1. \A face : InfoOf(face).info.rect = face.rect
        BY DEF InfoOf, Info
      <4>2. /\ requests'[i].arg = InfoOf(faces[i - Len(requests)])
            /\ requests'[j].arg = InfoOf(faces[j - Len(requests)])
        BY <2>2, <2>4
      <4> QED  BY <2>4, <4>1, <4>2
    <3>2. i - Len(requests) = j - Len(requests)
      BY <1>1, <2>2, <2>4, <3>1 DEF FacesDiffer
    <3> QED  BY <1>4, <3>2
  <2> QED  BY <2>3, <2>4 DEF InfosDiffer
<1> QED  BY <1>5, <1>6

\* One row is written, and it is the only one with its place.
LEMMA StoredPlaces ==
    ASSUME Typed, PlacesDiffer(tables), InfosFit, InfosDiffer, Stored
    PROVE  PlacesDiffer(tables') /\ InfosFit' /\ InfosDiffer'
<1> DEFINE info == requests[1].arg.info
<1>1. /\ 1 \in DOMAIN requests /\ IsInfo(requests[1])
      /\ \E j \in Rows' : /\ Rows' = Rows \cup {j} /\ tables'.rows[j] = info
                          /\ \A k \in Rows \ {j} : /\ tables'.rows[k] = tables.rows[k]
                                                   /\ tables.rows[k].rect # info.rect
                          /\ j \in Rows => tables.rows[j].rect \in {info.rect, NoRect}
  BY StoredPlace
<1>2. PICK j \in Rows' : /\ Rows' = Rows \cup {j} /\ tables'.rows[j] = info
                         /\ \A k \in Rows \ {j} : /\ tables'.rows[k] = tables.rows[k]
                                                  /\ tables.rows[k].rect # info.rect
                         /\ j \in Rows => tables.rows[j].rect \in {info.rect, NoRect}
  BY <1>1
<1>3. /\ requests' = Tail(requests) /\ Len(requests) \in Nat /\ DOMAIN requests = 1 .. Len(requests)
      /\ DOMAIN requests' = 1 .. Len(requests) - 1
      /\ \A i \in 1 .. Len(requests) - 1 : requests'[i] = requests[i + 1]
  BY TailPlaces DEF Typed, Stored
<1>4. PlacesDiffer(tables')
  BY <1>2 DEF PlacesDiffer, Placed, Rows
<1>5. ASSUME NEW i \in DOMAIN requests', IsInfo(requests'[i])
      PROVE  /\ i + 1 \in DOMAIN requests /\ requests'[i] = requests[i + 1]
             /\ requests'[i].arg.info.rect # info.rect /\ requests'[i].arg.info.rect # NoRect
             /\ requests'[i].arg.id \in 0 .. Len(tables.rows)
  <2>1. i + 1 \in DOMAIN requests /\ i + 1 # 1 /\ requests'[i] = requests[i + 1]
    BY <1>3
  <2>2. requests[i + 1].arg.info.rect # info.rect
    BY <1>1, <1>5, <2>1 DEF InfosDiffer
  <2>3. /\ requests[i + 1].arg.info.rect # NoRect
        /\ requests[i + 1].arg.id \in 0 .. Len(tables.rows)
    BY <1>5, <2>1, InfosAre
  <2> QED  BY <2>1, <2>2, <2>3
<1>6. InfosFit'
  <2> SUFFICES ASSUME NEW i \in DOMAIN requests', IsInfo(requests'[i])
               PROVE  LET arg == requests'[i].arg IN
                      /\ arg.id # NoId => tables'.rows[arg.id].rect = arg.info.rect
                      /\ arg.id = NoId /\ arg.info.person # NoId => \A k \in Rows' : tables'.rows[k].rect # arg.info.rect
    BY DEF InfosFit, NoRowAt
  <2> DEFINE arg == requests[i + 1].arg
  <2>1. /\ requests'[i].arg = arg /\ arg.info.rect # info.rect /\ arg.info.rect # NoRect
        /\ arg.id \in 0 .. Len(tables.rows) /\ Rows = 1 .. Len(tables.rows)
    BY <1>5, TablesAre
  <2>2. /\ arg.id # NoId => tables.rows[arg.id].rect = arg.info.rect
        /\ arg.id = NoId /\ arg.info.person # NoId => NoRowAt(arg.info.rect)
    BY <1>5 DEF InfosFit
  <2> HIDE DEF arg, info
  <2>3. ASSUME arg.id # NoId  PROVE tables'.rows[arg.id].rect = arg.info.rect
    <3>1. arg.id \in Rows
      BY <2>1, <2>3 DEF NoId
    <3>2. arg.id # j
      BY <1>2, <2>1, <2>2, <2>3, <3>1
    <3> QED  BY <1>2, <2>2, <2>3, <3>1, <3>2
  <2>4. ASSUME arg.id = NoId, arg.info.person # NoId  PROVE \A k \in Rows' : tables'.rows[k].rect # arg.info.rect
    BY <1>2, <2>1, <2>2, <2>4 DEF NoRowAt
  <2> QED  BY <2>1, <2>3, <2>4
<1>7. ASSUME NEW i \in DOMAIN requests', NEW k \in DOMAIN requests', IsInfo(requests'[i]), IsInfo(requests'[k]),
             requests'[i].arg.info.rect = requests'[k].arg.info.rect
      PROVE  i = k
  <2>1. i + 1 = k + 1
    BY <1>5, <1>7 DEF InfosDiffer
  <2> QED  BY <1>3, <2>1
<1> QED  BY <1>4, <1>6, <1>7 DEF InfosDiffer

LEMMA StepOneRowEach ==
    ASSUME Control, Ordered, KnownNames, OneRowEach, [Next]_vars
    PROVE  OneRowEach'
<1>1. Typed /\ Typed' /\ PlacesDiffer(tables) /\ InfosFit /\ InfosDiffer /\ FacesDiffer
  BY StepControl DEF Control, OneRowEach
<1>2. FoundDiffer'
  BY StepFoundDiffer
<1>3. CASE Quiet
  <2>1. PlacesDiffer(tables')
    BY <1>1, <1>3 DEF Quiet, PlacesDiffer, Placed
  <2> QED  BY <1>1, <1>2, <1>3, <2>1, QuietPlaces, StepFaceIds DEF OneRowEach, Quiet
<1>4. CASE Sent
  <2>1. FacesDiffer' /\ ~ Session' /\ PlacesDiffer(tables')
    BY <1>1, <1>4 DEF Sent, FacesDiffer, Session
  <2> QED  BY <1>2, <1>4, <2>1, SentPlaces DEF OneRowEach, FaceIds
<1>5. CASE Stored
  <2>1. PlacesDiffer(tables') /\ InfosFit' /\ InfosDiffer'
    BY <1>1, <1>5, StoredPlaces
  <2>2. UNCHANGED <<faces, dialog>>
    BY <1>5 DEF Stored
  <2>3. FacesDiffer'
    BY <1>1, <2>2 DEF FacesDiffer
  <2>4. Session' => faces' = <<>>
    BY <1>1, <1>5, <2>2, FacesAlone, StoredInfos DEF Session
  <2>5. FaceIds'
    BY <2>4 DEF FaceIds
  <2> QED  BY <1>2, <2>1, <2>3, <2>5 DEF OneRowEach
<1> QED  BY <1>3, <1>4, <1>5, StepKinds

-----------------------------------------------------------------------------
(* Names are those of the persons *)

FaceNames ==
    Session => \A i \in DOMAIN faces :
                  faces[i].person # NoId => faces[i].name = tables.names[faces[i].person]

\* store_people_names() is through.
NamedPersons ==
    dialog = "fingerprints" => \A i \in DOMAIN faces : faces[i].name # NoName => faces[i].person # NoId

\* What a row says of a place is on its face, from the answer of the database on.
FacesAsStored ==
    dialog = "open" /\ FilledIn =>
        \A i \in DOMAIN faces, j \in Rows :
            tables.rows[j].rect = faces[i].rect /\ tables.rows[j].person # NoId =>
                faces[i].name = NameOf(tables, tables.rows[j].person)

RightNames == FaceNames /\ NamedPersons /\ FacesAsStored

\* A step that fills in what the rows say of the places.
LEMMA FilledNames ==
    ASSUME Control, Ordered, OneRowEach, Filling
    PROVE  /\ DOMAIN faces' = DOMAIN faces
           /\ \A i \in DOMAIN faces :
                 /\ faces'[i].rect = faces[i].rect
                 /\ faces'[i].person # NoId => faces'[i].name = tables.names[faces'[i].person]
                 /\ faces'[i].name # NoName => faces'[i].person # NoId
                 /\ \A j \in Rows : tables.rows[j].rect = faces[i].rect /\ tables.rows[j].person # NoId =>
                                       faces'[i].name = tables.names[tables.rows[j].person]
<1>1. Typed /\ PlacesDiffer(tables)
  BY DEF Control, OneRowEach
<1>2. /\ DOMAIN faces' = DOMAIN faces
      /\ \A i \in DOMAIN faces :
            \/ RowAt(faces[i].rect) = NoId /\ faces'[i] = faces[i]
            \/ RowAt(faces[i].rect) # NoId /\ faces'[i] = Joined(faces[i], RowAt(faces[i].rect))
  BY <1>1, FilledPeople DEF Filling
<1>3. \A i \in DOMAIN faces : /\ faces[i].id = NoId /\ faces[i].person = NoId /\ faces[i].name = NoName
                              /\ faces[i] \in FacesFor(tables) /\ faces[i].rect \in Faces
  BY <1>1, FacesAre DEF Filling, Ordered, RawFaces
<1>4. SUFFICES ASSUME NEW i \in DOMAIN faces
               PROVE  /\ faces'[i].rect = faces[i].rect
                      /\ faces'[i].person # NoId => faces'[i].name = tables.names[faces'[i].person]
                      /\ faces'[i].name # NoName => faces'[i].person # NoId
                      /\ \A j \in Rows : tables.rows[j].rect = faces[i].rect /\ tables.rows[j].person # NoId =>
                                            faces'[i].name = tables.names[tables.rows[j].person]
  BY <1>2
<1> DEFINE at == RowAt(faces[i].rect)
<1>5. /\ at # NoId => at \in Rows /\ tables.rows[at].rect = faces[i].rect
      /\ at = NoId => \A j \in Rows : tables.rows[j].rect # faces[i].rect
  BY <1>1, RowOfPlace
<1>6. \A j \in Rows : tables.rows[j].rect = faces[i].rect => j = at
  <2>1. faces[i].rect # NoRect
    BY <1>3, PeopleAssumption DEF NoRect
  <2>2. ASSUME NEW j \in Rows, tables.rows[j].rect = faces[i].rect  PROVE j = at
    <3>1. at \in Rows /\ tables.rows[at].rect = faces[i].rect
      BY <1>5, <2>2
    <3> QED  BY <1>1, <2>1, <2>2, <3>1 DEF PlacesDiffer, Placed, Rows
  <2> QED  BY <2>2
<1>7. CASE at = NoId
  BY <1>2, <1>3, <1>5, <1>7
<1>8. CASE at # NoId
  <2>1. faces'[i] = Joined(faces[i], at) /\ at \in Rows
    BY <1>2, <1>5, <1>8
  <2> HIDE DEF at
  <2>2. /\ faces'[i].rect = faces[i].rect
        /\ \/ /\ tables.rows[at].person = NoId
              /\ faces'[i].person = faces[i].person /\ faces'[i].name = faces[i].name
           \/ /\ tables.rows[at].person # NoId
              /\ faces'[i].person = tables.rows[at].person
              /\ faces'[i].name = tables.names[tables.rows[at].person]
    BY <1>1, <1>3, <2>1, JoinedFace
  <2> QED  BY <1>3, <1>6, <2>2
<1> QED  BY <1>7, <1>8

LEMMA StepFaceNames ==
    ASSUME Control, Ordered, KnownNames, OneRowEach, FaceNames, [Next]_vars
    PROVE  FaceNames'
<1>1. Typed /\ OneThing /\ KeptNames
  BY NamesStay DEF Control
<1>2. CASE KeptFaces
  <2>1. SUFFICES ASSUME Session', NEW i \in DOMAIN faces', faces'[i].person # NoId
                 PROVE  faces'[i].name = tables'.names[faces'[i].person]
    BY DEF FaceNames
  <2>2. i \in DOMAIN faces /\ KeptFace(faces[i], faces'[i])
    BY <1>2, <2>1 DEF KeptFaces
  <2>3. Session
    <3>1. dialog # "closed"
      BY <1>1, <2>2 DEF OneThing
    <3> QED  BY <2>1, <3>1, SessionBegins DEF Open
  <2>4. CASE faces'[i].person = faces[i].person /\ faces'[i].name = faces[i].name
    <3>1. faces[i].person \in 1 .. Len(tables.names)
      <4>1. faces[i].person \in 0 .. Len(tables.names) /\ Len(tables.names) \in Nat
        BY <1>1, <2>2, FacesAre, TablesAre
      <4> QED  BY <2>1, <2>4, <4>1 DEF NoId
    <3> QED  BY <1>1, <2>1, <2>2, <2>3, <2>4, <3>1 DEF FaceNames, KeptNames
  <2> QED  BY <2>1, <2>2, <2>4 DEF KeptFace
<1>3. CASE NewFaces
  <2>1. \A rect : NewFace(rect).person = NoId
    BY DEF NewFace
  <2>2. \A i \in DOMAIN faces' : faces'[i].person = NoId
    BY <1>3, <2>1 DEF NewFaces
  <2> QED  BY <2>2 DEF FaceNames
<1>4. CASE Filling
  BY <1>4, FilledNames DEF FaceNames, Filling
<1>5. CASE faces' = <<>>
  BY <1>5 DEF FaceNames
<1> QED  BY <1>2, <1>3, <1>4, <1>5, StepFaces

LEMMA StepNamedPersons ==
    ASSUME Control, Ordered, KnownNames, OneRowEach, NamedPersons, [Next]_vars
    PROVE  NamedPersons'
<1>1. Typed
  BY DEF Control
<1>2. CASE dialog' = "fingerprints" /\ dialog # "fingerprints"
  <2>1. StorePeopleNames
    <3>1. ~ (Open \/ HandleEvent \/ Accept \/ Reject \/ StoreFingerprints)
      BY <1>2 DEF Open, HandleEvent, Accept, Reject, StoreFingerprints
    <3>2. ~ (Close \/ StartJob \/ Detect \/ Calculate)
      BY <1>2 DEF Close, StartJob, Detect, Calculate, guiVars
    <3>3. ~ Serve
      BY <1>2 DEF Serve, AnswerWorker, Execute, guiVars
    <3>4. ~ UNCHANGED vars
      BY <1>2 DEF vars, guiVars
    <3> QED  BY <3>1, <3>2, <3>3, <3>4 DEF Next
  <2>2. Unstored = NoId /\ UNCHANGED faces
    BY <1>2, <2>1 DEF StorePeopleNames, Unstored
  <2> QED  BY <1>1, <2>2, UnstoredFace DEF NamedPersons
<1>3. CASE dialog' = "fingerprints" /\ dialog = "fingerprints"
  <2>1. CASE KeptFaces
    BY <1>3, <2>1 DEF KeptFaces, KeptFace, NamedPersons
  <2>2. CASE NewFaces
    BY <1>3, <2>2 DEF NewFaces
  <2>3. CASE Filling
    BY <2>3, FilledNames DEF NamedPersons
  <2>4. CASE faces' = <<>>
    BY <2>4 DEF NamedPersons
  <2> QED  BY <2>1, <2>2, <2>3, <2>4, StepFaces
<1> QED  BY <1>2, <1>3 DEF NamedPersons

\* Rows do not change while there are faces.
LEMMA RowsStay ==
    ASSUME Control, Ordered, [Next]_vars, dialog = "open", faces # <<>>
    PROVE  tables'.rows = tables.rows
<1>1. Typed /\ NoInfos
  BY FacesAlone DEF Control, Session
<1>2. ~ Sent /\ ~ Stored
  BY <1>1, StoredInfos DEF Sent
<1> QED  BY <1>2, StepKinds DEF Quiet

\* A dialog that is open was, or Open made it so.
LEMMA OpenStays ==
    ASSUME [Next]_vars, dialog' = "open", Session
    PROVE  dialog = "open"
<1>1. CASE Open \/ Accept \/ Reject \/ StorePeopleNames \/ StoreFingerprints \/ Close
  BY <1>1 DEF Open, Accept, Reject, StorePeopleNames, StoreFingerprints, Close, Session
<1>2. CASE HandleEvent \/ StartJob \/ Detect \/ Calculate \/ UNCHANGED vars
  BY <1>2 DEF HandleEvent, StartJob, Detect, Calculate, guiVars, vars
<1>3. CASE Serve
  BY <1>3 DEF Serve, AnswerWorker, Execute, guiVars
<1> QED  BY <1>1, <1>2, <1>3 DEF Next

LEMMA StepFacesAsStored ==
    ASSUME Control, Ordered, KnownNames, OneRowEach, FacesAsStored, [Next]_vars
    PROVE  FacesAsStored'
<1>1. Typed /\ OneThing /\ KeptNames
  BY NamesStay DEF Control
<1>2. SUFFICES ASSUME dialog' = "open", FilledIn', NEW i \in DOMAIN faces', NEW j \in Rows',
                      tables'.rows[j].rect = faces'[i].rect, tables'.rows[j].person # NoId
               PROVE  faces'[i].name = NameOf(tables', tables'.rows[j].person)
  BY DEF FacesAsStored
<1>3. CASE KeptFaces
  <2>1. i \in DOMAIN faces /\ KeptFace(faces[i], faces'[i]) /\ FilledIn /\ faces # <<>>
    BY <1>2, <1>3 DEF KeptFaces
  <2>2. dialog = "open"
    <3>1. dialog # "closed"
      BY <1>1, <2>1 DEF OneThing
    <3>2. Session
      BY <1>2, <3>1, SessionBegins DEF Open, Session
    <3> QED  BY <1>2, <3>2, OpenStays
  <2>3. tables'.rows = tables.rows
    BY <2>1, <2>2, RowsStay
  <2>4. j \in Rows /\ tables.rows[j].rect = faces[i].rect /\ tables.rows[j].person # NoId
    BY <1>2, <2>1, <2>3 DEF Rows, KeptFace
  <2>5. faces[i].name = tables.names[tables.rows[j].person]
    BY <2>1, <2>2, <2>4 DEF FacesAsStored, NameOf
  <2>6. tables.rows[j].person \in 1 .. Len(tables.names) /\ tables.names \in Seq(Names)
    BY <1>1, <2>4, TablesAre DEF NoId
  <2>7. tables'.names[tables.rows[j].person] = tables.names[tables.rows[j].person]
    BY <1>1, <2>6 DEF KeptNames
  <2>8. faces[i].name # NoName
    <3>1. tables.names[tables.rows[j].person] \in Names
      BY <2>6, SeqIsFunction
    <3> QED  BY <2>5, <3>1, PeopleAssumption DEF NoName
  <2>9. faces'[i].name = faces[i].name
    BY <1>2, <2>1, <2>2, <2>8 DEF KeptFace
  <2> QED  BY <1>2, <2>3, <2>5, <2>7, <2>9 DEF NameOf
<1>4. CASE NewFaces
  BY <1>2, <1>4 DEF NewFaces
<1>5. CASE Filling
  <2>1. UNCHANGED tables
    BY <1>5 DEF Filling
  <2> QED  BY <1>2, <1>5, <2>1, FilledNames DEF Rows, NameOf
<1>6. CASE faces' = <<>>
  BY <1>2, <1>6
<1> QED  BY <1>3, <1>4, <1>5, <1>6, StepFaces

LEMMA StepRightNames ==
    ASSUME Control, Ordered, KnownNames, OneRowEach, RightNames, [Next]_vars
    PROVE  RightNames'
BY StepFaceNames, StepNamedPersons, StepFacesAsStored DEF RightNames

-----------------------------------------------------------------------------
(* What becomes of the names that were accepted *)

\* store() has not sent its infos.
Accepting == dialog \in {"names", "fingerprints"}

\* Without a list there is nothing to accept.
NotHasty == Accepting /\ ~ shown /\ ~ hasty => faces = <<>>

\* The names of the faces are those that were accepted.
Listed ==
    Accepting /\ shown =>
        /\ DOMAIN expected = {faces[i].rect : i \in DOMAIN faces}
        /\ \A i \in DOMAIN faces : expected[faces[i].rect] = faces[i].name

\* The last info about a place has the name, or its row if no info is left.
InfoAbout(i, rect) == IsInfo(requests[i]) /\ requests[i].arg.info.rect = rect
Destined(rect) ==
    \/ \E i \in DOMAIN requests : /\ InfoAbout(i, rect)
                                  /\ NameOf(tables, requests[i].arg.info.person) = expected[rect]
    \/ /\ \A i \in DOMAIN requests : ~ InfoAbout(i, rect)
       /\ \E j \in Rows : tables.rows[j].rect = rect /\ NameOf(tables, tables.rows[j].person) = expected[rect]

Destiny == ~ hasty /\ ~ (Accepting /\ shown) => \A rect \in DOMAIN expected : Destined(rect)

Accepted == NotHasty /\ Listed /\ Destiny /\ DOMAIN expected \subseteq Faces

\* What was accepted changes with Accept only.
LEMMA AcceptedOnce ==
    ASSUME [Next]_vars, ~ Accept
    PROVE  UNCHANGED <<expected, hasty>> /\ (Accepting' => Accepting) /\ (Accepting => UNCHANGED shown)
<1>1. CASE Open \/ HandleEvent \/ Reject \/ StorePeopleNames \/ StoreFingerprints
  BY <1>1 DEF Open, HandleEvent, Reject, StorePeopleNames, StoreFingerprints, Accepting
<1>2. CASE Close \/ StartJob \/ Detect \/ Calculate
  BY <1>2 DEF Close, StartJob, Detect, Calculate, guiVars, Accepting
<1>3. CASE Serve
  BY <1>3 DEF Serve, AnswerWorker, Execute, guiVars, Accepting
<1>4. CASE UNCHANGED vars
  BY <1>4 DEF vars, guiVars, Accepting
<1> QED  BY <1>1, <1>2, <1>3, <1>4 DEF Next

\* store() ends when it has sent its infos.
LEMMA AcceptingEnds ==
    ASSUME [Next]_vars, Accepting, ~ Accepting'
    PROVE  Sent
<1>1. ~ (Open \/ HandleEvent \/ Accept \/ Reject \/ StorePeopleNames \/ Close)
  BY DEF Open, HandleEvent, Accept, Reject, StorePeopleNames, Close, Accepting
<1>2. ~ (StartJob \/ Detect \/ Calculate)
  BY DEF StartJob, Detect, Calculate, guiVars, Accepting
<1>3. ~ Serve
  BY DEF Serve, AnswerWorker, Execute, guiVars, Accepting
<1>4. ~ UNCHANGED vars
  BY DEF vars, guiVars, Accepting
<1>5. StoreFingerprints
  BY <1>1, <1>2, <1>3, <1>4 DEF Next
<1> QED  BY <1>5 DEF StoreFingerprints, Accepting, Sent, Sending, InfoOf

\* The names of the list are accepted.
LEMMA AcceptListed ==
    ASSUME Control, FacesDiffer, Accept, shown
    PROVE  /\ DOMAIN expected' = {faces'[i].rect : i \in DOMAIN faces'}
           /\ \A i \in DOMAIN faces' : expected'[faces'[i].rect] = faces'[i].name
<1>1. Typed
  BY DEF Control
<1>2. /\ DOMAIN faces' = DOMAIN faces /\ \A i \in DOMAIN faces : faces'[i].rect = faces[i].rect
      /\ \E typed \in [DOMAIN faces -> Names \cup {NoName}] :
            /\ \A i \in DOMAIN faces : faces'[i].name = typed[i]
            /\ expected' = [r \in {faces[i].rect : i \in DOMAIN faces} |->
                              typed[CHOOSE i \in DOMAIN faces : faces[i].rect = r]]
  BY <1>1, AcceptNames
<1>3. PICK typed : /\ \A i \in DOMAIN faces : faces'[i].name = typed[i]
                   /\ expected' = [r \in {faces[i].rect : i \in DOMAIN faces} |->
                                     typed[CHOOSE i \in DOMAIN faces : faces[i].rect = r]]
  BY <1>2
<1>4. ASSUME NEW i \in DOMAIN faces
      PROVE  (CHOOSE k \in DOMAIN faces : faces[k].rect = faces[i].rect) = i
  BY DEF FacesDiffer
<1>5. ASSUME NEW i \in DOMAIN faces
      PROVE  expected'[faces[i].rect] = typed[i]
  BY <1>3, <1>4
<1>6. DOMAIN expected' = {faces[i].rect : i \in DOMAIN faces}
  BY <1>3
<1>7. {faces'[i].rect : i \in DOMAIN faces'} = {faces[i].rect : i \in DOMAIN faces}
  BY <1>2
<1> QED  BY <1>2, <1>3, <1>5, <1>6, <1>7

LEMMA StepNotHasty ==
    ASSUME Control, Ordered, KnownNames, NotHasty, [Next]_vars
    PROVE  NotHasty'
<1>1. Typed /\ Typed'
  BY StepControl DEF Control
<1>2. SUFFICES ASSUME Accepting', ~ shown', ~ hasty'  PROVE faces' = <<>>
  BY DEF NotHasty
<1>3. CASE Accept
  <2>1. ~ shown /\ faces = <<>>
    BY <1>2, <1>3 DEF Accept
  <2> QED  BY <1>1, <1>3, <2>1, AcceptNames
<1>4. CASE ~ Accept
  <2>1. Accepting /\ ~ shown /\ ~ hasty
    BY <1>2, <1>4, AcceptedOnce
  <2>2. faces = <<>> /\ dialog # "open"
    BY <2>1 DEF NotHasty, Accepting
  <2>3. KeptFaces \/ Filling \/ faces' = <<>>
    BY <2>2, StepFaces DEF NewFaces
  <2>4. DOMAIN faces' = {}
    <3>1. CASE KeptFaces
      BY <2>2, <3>1 DEF KeptFaces
    <3>2. CASE Filling
      BY <1>1, <2>2, <3>2, FilledPeople DEF Filling
    <3>3. CASE faces' = <<>>
      BY <3>3
    <3> QED  BY <2>3, <3>1, <3>2, <3>3
  <2>5. faces' \in Seq(FacesFor(tables'))
    BY <1>1 DEF Typed
  <2> QED  BY <2>4, <2>5
<1> QED  BY <1>3, <1>4

LEMMA StepListed ==
    ASSUME Control, Ordered, KnownNames, OneRowEach, Listed, [Next]_vars
    PROVE  Listed'
<1>1. SUFFICES ASSUME Accepting', shown'
               PROVE  /\ DOMAIN expected' = {faces'[i].rect : i \in DOMAIN faces'}
                      /\ \A i \in DOMAIN faces' : expected'[faces'[i].rect] = faces'[i].name
  BY DEF Listed
<1>2. CASE Accept
  BY <1>1, <1>2, AcceptListed DEF OneRowEach, Accept
<1>3. CASE ~ Accept
  <2>1. Accepting /\ shown /\ expected' = expected
    BY <1>1, <1>3, AcceptedOnce
  <2>2. dialog \notin {"open", "closing"} /\ dialog # "open"
    BY <2>1 DEF Accepting
  <2>3. KeptFaces
    <3>1. ~ NewFaces /\ ~ Filling /\ ~ Close
      BY <2>1, <2>2 DEF NewFaces, Filling, Close
    <3> QED  BY <3>1, StepFaces
  <2>4. /\ DOMAIN faces' = DOMAIN faces
        /\ \A i \in DOMAIN faces : faces'[i].rect = faces[i].rect /\ faces'[i].name = faces[i].name
    BY <2>1, <2>2, <2>3 DEF KeptFaces, KeptFace
  <2>5. /\ DOMAIN expected = {faces[i].rect : i \in DOMAIN faces}
        /\ \A i \in DOMAIN faces : expected[faces[i].rect] = faces[i].name
    BY <2>1 DEF Listed
  <2>6. {faces'[i].rect : i \in DOMAIN faces'} = {faces[i].rect : i \in DOMAIN faces}
    BY <2>4
  <2> QED  BY <2>1, <2>4, <2>5, <2>6
<1> QED  BY <1>2, <1>3

\* A step that has nothing to do with infos.
LEMMA QuietDestined ==
    ASSUME Typed, Typed', Quiet, NEW rect, expected'[rect] = expected[rect], Destined(rect)
    PROVE  Destined(rect)'
<1>1. PICK d \in {0, 1} : KeptInfos(d)
  BY DEF Quiet
<1>2. /\ \A i \in DOMAIN requests' :
            IsInfo(requests'[i]) => i + d \in DOMAIN requests /\ requests'[i] = requests[i + d]
      /\ \A i \in DOMAIN requests :
            IsInfo(requests[i]) => i - d \in DOMAIN requests' /\ requests'[i - d] = requests[i]
  BY <1>1 DEF KeptInfos
<1>3. ASSUME NEW person \in 0 .. Len(tables.names)
      PROVE  NameOf(tables', person) = NameOf(tables, person)
  <2>1. person # NoId => person \in 1 .. Len(tables.names)
    BY <1>3, TablesAre DEF NoId
  <2> QED  BY <2>1 DEF NameOf, Quiet, KeptNames
<1>4. CASE \E i \in DOMAIN requests : /\ InfoAbout(i, rect)
                                      /\ NameOf(tables, requests[i].arg.info.person) = expected[rect]
  <2>1. PICK i \in DOMAIN requests : /\ IsInfo(requests[i]) /\ requests[i].arg.info.rect = rect
                                     /\ NameOf(tables, requests[i].arg.info.person) = expected[rect]
    BY <1>4 DEF InfoAbout
  <2>2. i - d \in DOMAIN requests' /\ requests'[i - d] = requests[i]
    BY <1>2, <2>1
  <2>3. NameOf(tables', requests[i].arg.info.person) = expected'[rect]
    BY <1>3, <2>1, InfosAre
  <2> QED  BY <2>1, <2>2, <2>3 DEF Destined, InfoAbout
<1>5. CASE /\ \A i \in DOMAIN requests : ~ InfoAbout(i, rect)
           /\ \E j \in Rows : tables.rows[j].rect = rect /\ NameOf(tables, tables.rows[j].person) = expected[rect]
  <2>1. \A i \in DOMAIN requests' : ~ (IsInfo(requests'[i]) /\ requests'[i].arg.info.rect = rect)
    BY <1>2, <1>5 DEF InfoAbout
  <2>2. PICK j \in Rows : tables.rows[j].rect = rect /\ NameOf(tables, tables.rows[j].person) = expected[rect]
    BY <1>5
  <2>3. j \in Rows' /\ tables'.rows[j] = tables.rows[j] /\ tables.rows[j].person \in 0 .. Len(tables.names)
    BY TablesAre DEF Quiet, Rows
  <2>4. tables'.rows[j].rect = rect /\ NameOf(tables', tables'.rows[j].person) = expected'[rect]
    BY <1>3, <2>2, <2>3
  <2> QED  BY <2>1, <2>3, <2>4 DEF Destined, InfoAbout
<1> QED  BY <1>4, <1>5 DEF Destined

\* An info is stored: the one about the place, or another one.
LEMMA StoredDestined ==
    ASSUME Typed, PlacesDiffer(tables), InfosFit, InfosDiffer, Stored,
           NEW rect \in Faces, expected'[rect] = expected[rect], Destined(rect)
    PROVE  Destined(rect)'
<1> DEFINE info == requests[1].arg.info
<1>1. /\ 1 \in DOMAIN requests /\ IsInfo(requests[1]) /\ tables'.names = tables.names
      /\ \E j \in Rows' : /\ Rows' = Rows \cup {j} /\ tables'.rows[j] = info
                          /\ \A k \in Rows \ {j} : /\ tables'.rows[k] = tables.rows[k]
                                                   /\ tables.rows[k].rect # info.rect
                          /\ j \in Rows => tables.rows[j].rect \in {info.rect, NoRect}
  BY StoredPlace
<1>2. PICK j \in Rows' : /\ Rows' = Rows \cup {j} /\ tables'.rows[j] = info
                         /\ \A k \in Rows \ {j} : /\ tables'.rows[k] = tables.rows[k]
                                                  /\ tables.rows[k].rect # info.rect
                         /\ j \in Rows => tables.rows[j].rect \in {info.rect, NoRect}
  BY <1>1
<1>3. /\ requests' = Tail(requests) /\ Len(requests) \in Nat /\ DOMAIN requests = 1 .. Len(requests)
      /\ DOMAIN requests' = 1 .. Len(requests) - 1
      /\ \A i \in 1 .. Len(requests) - 1 : requests'[i] = requests[i + 1]
  BY TailPlaces DEF Typed, Stored
<1>4. \A person : NameOf(tables', person) = NameOf(tables, person)
  BY <1>1 DEF NameOf
<1>5. rect # NoRect
  BY PeopleAssumption DEF NoRect
<1>6. \A i \in DOMAIN requests' : i + 1 \in DOMAIN requests /\ i + 1 # 1 /\ requests'[i] = requests[i + 1]
  BY <1>3
<1>7. CASE \E i \in DOMAIN requests : /\ InfoAbout(i, rect)
                                      /\ NameOf(tables, requests[i].arg.info.person) = expected[rect]
  <2>1. PICK i \in DOMAIN requests : /\ IsInfo(requests[i]) /\ requests[i].arg.info.rect = rect
                                     /\ NameOf(tables, requests[i].arg.info.person) = expected[rect]
    BY <1>7 DEF InfoAbout
  <2>2. CASE i = 1
    <3>1. tables'.rows[j].rect = rect /\ NameOf(tables', tables'.rows[j].person) = expected'[rect]
      BY <1>2, <1>4, <2>1, <2>2
    <3>2. \A k \in DOMAIN requests' : ~ (IsInfo(requests'[k]) /\ requests'[k].arg.info.rect = rect)
      BY <1>6, <2>1, <2>2 DEF InfosDiffer
    <3> QED  BY <1>2, <3>1, <3>2 DEF Destined, InfoAbout
  <2>3. CASE i # 1
    <3>1. i - 1 \in DOMAIN requests' /\ (i - 1) + 1 = i
      BY <1>3, <2>3
    <3>2. requests'[i - 1] = requests[i]
      BY <1>6, <3>1
    <3> QED  BY <1>4, <2>1, <3>1, <3>2 DEF Destined, InfoAbout
  <2> QED  BY <2>2, <2>3
<1>8. CASE /\ \A i \in DOMAIN requests : ~ InfoAbout(i, rect)
           /\ \E k \in Rows : tables.rows[k].rect = rect /\ NameOf(tables, tables.rows[k].person) = expected[rect]
  <2>1. \A i \in DOMAIN requests' : ~ (IsInfo(requests'[i]) /\ requests'[i].arg.info.rect = rect)
    BY <1>6, <1>8 DEF InfoAbout
  <2>2. PICK k \in Rows : tables.rows[k].rect = rect /\ NameOf(tables, tables.rows[k].person) = expected[rect]
    BY <1>8
  <2>3. info.rect # rect
    BY <1>1, <1>8 DEF InfoAbout
  <2>4. k # j
    BY <1>2, <1>5, <2>2, <2>3
  <2>5. k \in Rows' /\ tables'.rows[k].rect = rect /\ NameOf(tables', tables'.rows[k].person) = expected'[rect]
    BY <1>2, <1>4, <2>2, <2>4
  <2> QED  BY <2>1, <2>5 DEF Destined, InfoAbout
<1> QED  BY <1>7, <1>8 DEF Destined

\* The infos of the list are sent.
LEMMA SentDestined ==
    ASSUME Control, OneRowEach, RightNames, Listed, Sent, shown, NEW rect \in DOMAIN expected
    PROVE  Destined(rect)'
<1>1. Typed /\ FaceNames /\ NamedPersons
  BY DEF Control, RightNames
<1>2. Accepting /\ Session /\ UNCHANGED <<tables, expected>> /\ Sending /\ dialog = "fingerprints"
  BY DEF Sent, Accepting, Session
<1>3. PICK i \in DOMAIN faces : faces[i].rect = rect /\ expected[rect] = faces[i].name
  BY <1>2 DEF Listed
<1>4. NameOf(tables, faces[i].person) = faces[i].name
  <2>1. CASE faces[i].person = NoId
    BY <1>1, <1>2, <2>1 DEF NamedPersons, NameOf
  <2>2. CASE faces[i].person # NoId
    BY <1>1, <1>2, <2>2 DEF FaceNames, NameOf
  <2> QED  BY <2>1, <2>2
<1> DEFINE k == Len(requests) + i
<1>5. /\ k \in DOMAIN requests' /\ k \notin 1 .. Len(requests) /\ k - Len(requests) = i
      /\ requests'[k] = Request("nobody", "storeInfo", InfoOf(faces[k - Len(requests)]))
  <2>1. Len(requests) \in Nat /\ Len(faces) \in Nat /\ i \in 1 .. Len(faces)
    BY <1>1, <1>3, RequestsAre, FacesAre
  <2>2. k \in 1 .. Len(requests) + Len(faces) /\ k \notin 1 .. Len(requests) /\ k - Len(requests) = i
    BY <2>1
  <2> HIDE DEF k
  <2> QED  BY <1>1, <1>2, <2>2, SentInfos
<1> HIDE DEF k
<1>6. requests'[k] = Request("nobody", "storeInfo", InfoOf(faces[i]))
  BY <1>5
<1>7. /\ IsInfo(requests'[k]) /\ requests'[k].arg.info.rect = rect
      /\ requests'[k].arg.info.person = faces[i].person
  BY <1>3, <1>6 DEF IsInfo, Request, InfoOf, Info
<1>8. NameOf(tables', requests'[k].arg.info.person) = expected'[rect]
  BY <1>2, <1>3, <1>4, <1>7
<1> QED  BY <1>5, <1>7, <1>8 DEF Destined, InfoAbout

LEMMA StepDestiny ==
    ASSUME Control, Ordered, KnownNames, OneRowEach, RightNames, Accepted, [Next]_vars
    PROVE  Destiny'
<1>1. /\ Typed /\ Typed' /\ NotHasty /\ Listed /\ Destiny /\ DOMAIN expected \subseteq Faces
      /\ PlacesDiffer(tables) /\ InfosFit /\ InfosDiffer
  BY StepControl DEF Control, Accepted, OneRowEach
<1>2. SUFFICES ASSUME ~ hasty', ~ (Accepting' /\ shown'), NEW rect \in DOMAIN expected'
               PROVE  Destined(rect)'
  BY DEF Destiny
<1>3. CASE Accept
  <2>1. ~ shown /\ ~ hasty /\ UNCHANGED <<tables, shown>>
    BY <1>2, <1>3 DEF Accept, Accepting
  <2>2. expected' = expected
    BY <1>1, <1>3, <2>1, AcceptNames
  <2>3. Destined(rect)
    BY <1>1, <1>2, <2>1, <2>2 DEF Destiny
  <2>4. Quiet
    BY <1>3, StepKinds DEF Accept, Sent, Stored
  <2> QED  BY <1>1, <2>2, <2>3, <2>4, QuietDestined
<1>4. CASE ~ Accept
  <2>1. expected' = expected /\ ~ hasty /\ rect \in DOMAIN expected /\ rect \in Faces
    BY <1>1, <1>2, <1>4, AcceptedOnce
  <2>2. CASE Accepting /\ shown
    <3>1. Sent
      <4>1. ~ Accepting'
        BY <1>2, <1>4, <2>2, AcceptedOnce
      <4> QED  BY <2>2, <4>1, AcceptingEnds
    <3> QED  BY <1>1, <2>1, <2>2, <3>1, SentDestined
  <2>3. CASE ~ (Accepting /\ shown)
    <3>1. Destined(rect)
      BY <1>1, <2>1, <2>3 DEF Destiny
    <3>2. CASE Quiet
      BY <1>1, <2>1, <3>1, <3>2, QuietDestined
    <3>3. CASE Sent
      <4>1. faces = <<>>
        BY <1>1, <2>1, <2>3, <3>3 DEF NotHasty, Sent, Accepting
      <4>2. requests' = requests /\ UNCHANGED tables
        <5>1. requests \in Seq(CallsFor(tables)) /\ UNCHANGED tables
          BY <1>1, <3>3 DEF Typed, Sent
        <5>2. requests' = requests \o <<>>
          BY <3>3, <4>1 DEF Sent, Sending
        <5> QED  BY <5>1, <5>2
      <4> QED  BY <1>1, <2>1, <3>1, <4>2, SameQueue, QuietDestined
    <3>4. CASE Stored
      BY <1>1, <2>1, <3>1, <3>4, StoredDestined
    <3> QED  BY <3>2, <3>3, <3>4, StepKinds
  <2> QED  BY <2>2, <2>3
<1> QED  BY <1>3, <1>4

LEMMA StepAccepted ==
    ASSUME Control, Ordered, KnownNames, OneRowEach, RightNames, Accepted, [Next]_vars
    PROVE  Accepted'
<1>1. Typed /\ NotHasty /\ Listed /\ DOMAIN expected \subseteq Faces
  BY DEF Control, Accepted
<1>2. NotHasty' /\ Listed' /\ Destiny'
  BY <1>1, StepNotHasty, StepListed, StepDestiny
<1>3. DOMAIN expected' \subseteq Faces
  <2>1. CASE Accept /\ shown
    <3>1. \A i \in DOMAIN faces' : faces'[i].rect \in Faces
      BY <1>1, <2>1, AcceptNames, FacesAre
    <3> QED  BY <2>1, <3>1, AcceptListed DEF OneRowEach
  <2>2. CASE Accept /\ ~ shown
    BY <1>1, <2>2, AcceptNames
  <2>3. CASE ~ Accept
    BY <1>1, <2>3, AcceptedOnce
  <2> QED  BY <2>1, <2>2, <2>3
<1> QED  BY <1>2, <1>3 DEF Accepted

-----------------------------------------------------------------------------
(* The theorems *)

IInv == Control /\ Ordered /\ KnownNames /\ OneRowEach /\ RightNames /\ Accepted

LEMMA InitIInv ==
    ASSUME Init
    PROVE  IInv
<1>1. Control
  BY InitControl
<1>2. Ordered
  <2>1. NoInfos /\ faces = <<>> /\ requests = <<>>
    BY DEF Init, NoInfos
  <2> QED  BY <2>1 DEF Ordered, InfosFirst, QueueEmptied, NoneYet, RawFaces
<1>3. KnownNames
  BY DEF Init, KnownNames
<1>4. OneRowEach
  <2>1. PlacesDiffer(tables)
    BY EarlierAssumption DEF Init
  <2>2. events = <<>> /\ faces = <<>> /\ requests = <<>>
    BY DEF Init
  <2> QED  BY <2>1, <2>2 DEF OneRowEach, FoundDiffer, FacesDiffer, FaceIds, InfosFit, InfosDiffer
<1>5. RightNames
  BY DEF Init, RightNames, FaceNames, NamedPersons, FacesAsStored
<1>6. Accepted
  <2>1. dialog = "closed" /\ expected = <<>>
    BY DEF Init
  <2> QED  BY <2>1 DEF Accepted, NotHasty, Listed, Destiny, Accepting
<1> QED  BY <1>1, <1>2, <1>3, <1>4, <1>5, <1>6 DEF IInv

LEMMA StepIInv ==
    ASSUME IInv, [Next]_vars
    PROVE  IInv'
BY StepControl, StepOrdered, StepKnown, StepOneRowEach, StepRightNames, StepAccepted DEF IInv

LEMMA IInvIsInvariant == Spec => []IInv
<1>1. IInv /\ [Next]_vars => IInv'
  BY StepIInv
<1> QED  BY <1>1, InitIInv, PTL DEF Spec

\* Ids are those of rows there are, wherever the dialog, a task or a call in the
\* queue keeps one, and a task waits, runs, has posted its result or was shown:
\* never two of these at once.
THEOREM IdsAreOfRows == Spec => [](Typed /\ OneThing)
<1>1. IInv => Typed /\ OneThing
  BY DEF IInv, Control
<1> QED  BY <1>1, IInvIsInvariant, PTL

\* store() of an info never gives a place a second row: an info without an id
\* and with a person is only sent when the place had none, and nothing is left
\* in the queue that could have written one since.
THEOREM PlacesHaveOneRow == Spec => []PlacesDiffer(tables)
<1>1. IInv => PlacesDiffer(tables)
  BY DEF IInv, OneRowEach
<1> QED  BY <1>1, IInvIsInvariant, PTL

\* FacesDialog::apply() and PeopleManipulator::store(): every place of the list
\* has one row with the name that was accepted, once the queue is empty.
THEOREM AcceptedNamesAreStored == Spec => []NamesAsAccepted
<1>1. IInv => NamesAsAccepted
  <2>1. SUFFICES ASSUME IInv, dialog = "closed", requests = <<>>, ~ hasty, NEW rect \in DOMAIN expected
                 PROVE  \E i \in Rows : /\ {j \in Rows : tables.rows[j].rect = rect} = {i}
                                        /\ NameOf(tables, tables.rows[i].person) = expected[rect]
    BY DEF NamesAsAccepted
  <2>2. /\ Destiny /\ rect \in Faces /\ PlacesDiffer(tables)
    BY <2>1 DEF IInv, Accepted, OneRowEach
  <2>3. Destined(rect)
    BY <2>1, <2>2 DEF Destiny, Accepting
  <2>4. PICK i \in Rows : tables.rows[i].rect = rect /\ NameOf(tables, tables.rows[i].person) = expected[rect]
    BY <2>1, <2>3 DEF Destined
  <2>5. rect # NoRect
    BY <2>2, PeopleAssumption DEF NoRect
  <2>6. {j \in Rows : tables.rows[j].rect = rect} = {i}
    BY <2>2, <2>4, <2>5 DEF PlacesDiffer, Placed, Rows
  <2> QED  BY <2>4, <2>6
<1> QED  BY <1>1, IInvIsInvariant, PTL

\* PeopleManipulator: what the rows say of a place is on the list that is shown,
\* whatever an earlier dialog had sent and whoever was guessed.
THEOREM StoredNamesAreShown == Spec => []ShowsStoredNames
<1>1. IInv => ShowsStoredNames
  BY DEF IInv, RightNames, FacesAsStored, FilledIn, ShowsStoredNames
<1> QED  BY <1>1, IInvIsInvariant, PTL
=============================================================================
