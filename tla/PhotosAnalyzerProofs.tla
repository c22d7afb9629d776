------------------------ MODULE PhotosAnalyzerProofs ------------------------
(***************************************************************************)
(* What is proved about PhotosAnalyzer.                                    *)
(*                                                                         *)
(* Deltas that were applied are always followed by a flush.                *)
(* TouchedWillBeFlushed is inductive: only apply() touches a photo, and    *)
(* from an untouched m_touchedPhotos it leads to one touched photo at      *)
(* most, which is below any limit above one; with something touched the    *)
(* timer runs already, and only a flush stops it.                          *)
(*                                                                         *)
(* A flag never says more than the backend has.  FlagsNotAhead is not      *)
(* inductive: the flags of an update come from deltas, these from tasks,   *)
(* these from loaded data, and merged deltas keep flags that were loaded   *)
(* some time ago.  FlagsInv says of everything under way that it is about  *)
(* photos of the backend and that its flags are true of them, which data   *)
(* never removed keeps so; a photo is added once, as adding it again would *)
(* take its data away.                                                     *)
(*                                                                         *)
(* On top of these: one batch is loaded at a time, no photo is forgotten   *)
(* but by an update that fails (what is lost is what it was to store), and *)
(* none is analysed twice.                                                 *)
(***************************************************************************)
EXTENDS PhotosAnalyzer, SequenceLemmas

\* The first delta that is applied starts the timer, whatever the limit.
LEMMA FirstDeltaKicks ==
    ASSUME NEW p, NEW delta,
           touched = Untouched,
           touched' = [touched EXCEPT ![p] = Merged(@, delta)]
    PROVE  KicksTimer(touched')
<1>1. TouchedPhotos(touched') \subseteq {p}
  BY DEF TouchedPhotos, Untouched
<1>2. IsFiniteSet({p}) /\ Cardinality({p}) = 1
  BY FS_Singleton
<1>3. Cardinality(TouchedPhotos(touched')) <= 1
  BY <1>1, <1>2, FS_Subset
<1>4. Cardinality(TouchedPhotos(touched')) \in Nat
  BY <1>1, <1>2, FS_Subset, FS_CardinalityType
<1> QED  BY <1>3, <1>4, AnalyzerAssumption DEF KicksTimer

\* Applied deltas never wait without a running timer, for every limit of touched
\* photos above one and every interleaving of the three kinds of threads.
THEOREM AppliedDeltasAreFlushed == Spec => []TouchedWillBeFlushed
<1>1. Init => TouchedWillBeFlushed
  BY DEF Init, TouchedWillBeFlushed
<1>2. TouchedWillBeFlushed /\ [Next]_vars => TouchedWillBeFlushed'
  <2> SUFFICES ASSUME TouchedWillBeFlushed, [Next]_vars,
                      phase' = "running", touched' # Untouched
               PROVE  timerActive'
    BY DEF TouchedWillBeFlushed, Untouched
  <2>1. CASE Execute
    BY <2>1 DEF Execute, ExecuteDangling, guiVars, TouchedWillBeFlushed
  <2>2. CASE HandleEvent
    <3>1. phase = "running"
      BY <2>2 DEF HandleEvent
    <3>2. ASSUME NEW p, NEW delta, Apply(p, delta)  PROVE timerActive'
      <4>1. CASE touched = Untouched
        BY <3>2, <4>1, FirstDeltaKicks DEF Apply
      <4>2. CASE touched # Untouched
        BY <3>1, <3>2, <4>2 DEF Apply, TouchedWillBeFlushed
      <4> QED  BY <4>1, <4>2
    <3>3. CASE UNCHANGED <<touched, timerActive>>
      BY <3>1, <3>3 DEF TouchedWillBeFlushed
    <3> QED
      BY <2>2, <3>2, <3>3 DEF HandleEvent, AddPhotos, PhotoProcessed, UpdatePhotos, ApplyFlags, guiVars
  <2>3. CASE FlushTimeout
    BY <2>3 DEF FlushTimeout, FlushCache
  <2>4. CASE Worker
    BY <2>4 DEF Worker, Perform, TaskFinished, guiVars, TouchedWillBeFlushed
  <2>5. CASE StopBegin
    BY <2>5 DEF StopBegin
  <2>6. CASE StopEnd
    BY <2>6 DEF StopEnd
  <2>7. CASE \E photos \in SUBSET Photos : ScanCollection(photos)
    BY <2>7 DEF ScanCollection, guiVars, TouchedWillBeFlushed
  <2>8. CASE UNCHANGED vars
    BY <2>8 DEF vars, guiVars, TouchedWillBeFlushed
  <2> QED  BY <2>1, <2>2, <2>3, <2>4, <2>5, <2>6, <2>7, <2>8 DEF Next
<1> QED  BY <1>1, <1>2, PTL DEF Spec

-----------------------------------------------------------------------------
(* The flags are never ahead of the data *)

\* The photos of the backend.
KnownPhotos(st) == {p \in Photos : st[p].known}

\* The flags claim no more than the backend has.
FlagsTrue(s, flags) ==
    /\ flags["ExifLoaded"] = 1 => "tags" \in s.data
    /\ flags["GeometryLoaded"] = 1 => "geometry" \in s.data

\* The flags of a delta claim no more than the backend has once it is stored.
DeltaTrue(s, delta) ==
    /\ "ExifLoaded" \in DOMAIN delta.flags /\ delta.flags["ExifLoaded"] = 1
          => "tags" \in delta.fields \cup s.data
    /\ "GeometryLoaded" \in DOMAIN delta.flags /\ delta.flags["GeometryLoaded"] = 1
          => "geometry" \in delta.fields \cup s.data

\* What may be under way: photos of the backend only, with flags that are true.
TrueDeltas(st) ==
    {d \in [Photos -> Deltas] :
        \A p \in Photos : d[p] # NoDelta => st[p].known /\ DeltaTrue(st[p], d[p])}

TrueData(st) ==
    {d \in [photo : KnownPhotos(st), flags : [Flags -> {0, 1}]] : FlagsTrue(st[d.photo], d.flags)}

TrueTasks(st) ==
    {t \in TaskStates : st[t.photo].known /\ FlagsTrue(st[t.photo], t.flags)}

TrueRequests(st) ==
    [kind : {"scan"}]
    \cup [kind : {"add"}, photos : SUBSET (Photos \ KnownPhotos(st))]
    \cup [kind : {"load"}, photos : Seq(KnownPhotos(st))]
    \cup [kind : {"update"}, deltas : TrueDeltas(st)]
    \cup [kind : {"broken"}, photo : Photos]

TrueEvents(st) ==
    [kind : {"addPhotos"}, photos : Seq(KnownPhotos(st))]
    \cup [kind : {"photoProcessed"}]
    \cup [kind : {"updatePhotos"}, photos : Seq(TrueData(st))]
    \cup {e \in [kind : {"apply"}, photo : KnownPhotos(st), delta : Deltas] :
             DeltaTrue(st[e.photo], e.delta)}
    \cup [kind : {"applyFlags"}, photo : Photos]

UnderwayTrue ==
    /\ dbQueue \in Seq(TrueRequests(stored))
    /\ events \in Seq(TrueEvents(stored))
    /\ toUpdate \in Seq(KnownPhotos(stored))
    /\ tasks \in Seq(TrueTasks(stored))
    /\ touched \in TrueDeltas(stored)

\* A photo is offered to the backend once.
AddedOnce ==
    \A i, j \in DOMAIN dbQueue :
        dbQueue[i].kind = "add" /\ dbQueue[j].kind = "add"
        /\ dbQueue[i].photos \cap dbQueue[j].photos # {} => i = j

\* The variables of a simple type.
Simple == /\ watched \in BOOLEAN /\ loading \in BOOLEAN /\ timerActive \in BOOLEAN
          /\ phase \in {"running", "stopping", "destroyed", "crashed"}

\* The inductive invariant.
FlagsInv ==
    /\ stored \in [Photos -> PhotoStates]
    /\ Simple
    /\ FlagsNotAhead
    /\ UnderwayTrue
    /\ AddedOnce

\* Photos get known and get data; neither is undone.
Grows(old, new) ==
    \A p \in Photos : old[p].known => new[p].known /\ old[p].data \subseteq new[p].data

\* What is under way stays true when photos grow; only a photo that is still to
\* be added may turn out to be known.
LEMMA TruthStays ==
    ASSUME NEW old \in [Photos -> PhotoStates], NEW new \in [Photos -> PhotoStates],
           Grows(old, new)
    PROVE  /\ Seq(KnownPhotos(old)) \subseteq Seq(KnownPhotos(new))
           /\ TrueDeltas(old) \subseteq TrueDeltas(new)
           /\ Seq(TrueData(old)) \subseteq Seq(TrueData(new))
           /\ Seq(TrueTasks(old)) \subseteq Seq(TrueTasks(new))
           /\ Seq(TrueEvents(old)) \subseteq Seq(TrueEvents(new))
           /\ \A r \in TrueRequests(old) : r.kind # "add" => r \in TrueRequests(new)
<1>1. KnownPhotos(old) \subseteq KnownPhotos(new)
  BY DEF Grows, KnownPhotos
<1>2. \A flags : \A p \in Photos : old[p].known /\ FlagsTrue(old[p], flags) => FlagsTrue(new[p], flags)
  BY DEF Grows, FlagsTrue
<1>3. \A d : \A p \in Photos : old[p].known /\ DeltaTrue(old[p], d) => DeltaTrue(new[p], d)
  BY DEF Grows, DeltaTrue
<1>4. TrueDeltas(old) \subseteq TrueDeltas(new)
  BY <1>3 DEF TrueDeltas, Grows
<1>5. TrueData(old) \subseteq TrueData(new)
  BY <1>1, <1>2 DEF TrueData, KnownPhotos
<1>6. TrueTasks(old) \subseteq TrueTasks(new)
  BY <1>2 DEF TrueTasks, TaskStates, Grows
<1>7. /\ Seq(KnownPhotos(old)) \subseteq Seq(KnownPhotos(new))
      /\ Seq(TrueData(old)) \subseteq Seq(TrueData(new))
      /\ Seq(TrueTasks(old)) \subseteq Seq(TrueTasks(new))
  BY <1>1, <1>5, <1>6, SeqMonotonic
<1>8. TrueEvents(old) \subseteq TrueEvents(new)
  <2> SUFFICES ASSUME NEW e \in TrueEvents(old)  PROVE e \in TrueEvents(new)
    OBVIOUS
  <2>1. CASE e \in [kind : {"apply"}, photo : KnownPhotos(old), delta : Deltas]
                   /\ DeltaTrue(old[e.photo], e.delta)
    <3>1. e.photo \in Photos /\ old[e.photo].known
      BY <2>1 DEF KnownPhotos
    <3>2. DeltaTrue(new[e.photo], e.delta)
      BY <1>3, <2>1, <3>1
    <3> QED  BY <1>1, <2>1, <3>2 DEF TrueEvents
  <2>2. CASE e \notin [kind : {"apply"}, photo : KnownPhotos(old), delta : Deltas]
    BY <1>7, <2>2 DEF TrueEvents
  <2> QED  BY <2>1, <2>2 DEF TrueEvents
<1>9. Seq(TrueEvents(old)) \subseteq Seq(TrueEvents(new))
  BY <1>8, SeqMonotonic
<1>10. ASSUME NEW r \in TrueRequests(old), r.kind # "add"  PROVE r \in TrueRequests(new)
  BY <1>4, <1>7, <1>10 DEF TrueRequests
<1> QED  BY <1>4, <1>7, <1>9, <1>10

\* The kinds of true requests, and what comes with each.
LEMMA RequestKinds ==
    ASSUME NEW st, NEW r \in TrueRequests(st)
    PROVE  /\ r.kind \in {"scan", "add", "load", "update", "broken"}
           /\ r.kind = "add" => r.photos \in SUBSET (Photos \ KnownPhotos(st))
           /\ r.kind = "load" => r.photos \in Seq(KnownPhotos(st))
           /\ r.kind = "update" => r.deltas \in TrueDeltas(st)
           /\ r.kind = "broken" => r.photo \in Photos
BY DEF TrueRequests

\* The kinds of true events, and what comes with each.
LEMMA EventKinds ==
    ASSUME NEW st, NEW e \in TrueEvents(st)
    PROVE  /\ e.kind \in {"addPhotos", "photoProcessed", "updatePhotos", "apply", "applyFlags"}
           /\ e.kind = "addPhotos" => e.photos \in Seq(KnownPhotos(st))
           /\ e.kind = "updatePhotos" => e.photos \in Seq(TrueData(st))
           /\ e.kind = "apply" => /\ e.photo \in KnownPhotos(st)
                                  /\ e.delta \in Deltas
                                  /\ DeltaTrue(st[e.photo], e.delta)
           /\ e.kind = "applyFlags" => e.photo \in Photos
BY DEF TrueEvents

\* Under way stays what is under way, when photos grow and no new one is known.
LEMMA RequestsStay ==
    ASSUME NEW old \in [Photos -> PhotoStates], NEW new \in [Photos -> PhotoStates],
           Grows(old, new), KnownPhotos(new) = KnownPhotos(old)
    PROVE  Seq(TrueRequests(old)) \subseteq Seq(TrueRequests(new))
<1>1. ASSUME NEW r \in TrueRequests(old), r.kind = "add"  PROVE r \in TrueRequests(new)
  BY <1>1 DEF TrueRequests
<1>2. TrueRequests(old) \subseteq TrueRequests(new)
  BY <1>1, TruthStays
<1> QED  BY <1>2, SeqMonotonic

\* Appending a request that is not "add" leaves AddedOnce alone.
LEMMA AppendRequest ==
    ASSUME NEW st, NEW q \in Seq(TrueRequests(st)), NEW r \in TrueRequests(st),
           r.kind # "add", dbQueue = q, dbQueue' = Append(q, r), AddedOnce
    PROVE  AddedOnce' /\ dbQueue' \in Seq(TrueRequests(st))
<1>1. dbQueue' \in Seq(TrueRequests(st))
  BY AppendProperties
<1>2. /\ DOMAIN dbQueue' = 1 .. Len(q) + 1
      /\ \A i \in 1 .. Len(q) : dbQueue'[i] = q[i]
      /\ dbQueue'[Len(q) + 1] = r
  BY AppendProperties
<1>3. \A i \in 1 .. Len(q) + 1 : dbQueue'[i].kind = "add" => i \in 1 .. Len(q)
  BY <1>2
<1> QED  BY <1>1, <1>2, <1>3 DEF AddedOnce

\* The initial states satisfy the invariant.
LEMMA InitialTruth == Init => FlagsInv
<1> SUFFICES ASSUME Init  PROVE FlagsInv
  OBVIOUS
<1>1. stored \in [Photos -> PhotoStates] /\ \A p \in Photos : stored[p] \in Earlier
  BY EarlierAssumption DEF Init
<1>2. FlagsNotAhead
  BY <1>1, EarlierAssumption DEF FlagsNotAhead
<1>3. NoDelta \in Deltas
  <2>1. <<>> \in [{} -> {0, 1}]
    OBVIOUS
  <2> QED  BY <2>1 DEF NoDelta, Deltas
<1>4. touched \in TrueDeltas(stored)
  BY <1>3 DEF Init, Untouched, TrueDeltas
<1>5. dbQueue \in Seq(TrueRequests(stored))
  <2>1. [kind |-> "scan"] \in TrueRequests(stored)
    BY DEF TrueRequests
  <2> QED  BY <2>1 DEF Init
<1>6. UnderwayTrue
  BY <1>4, <1>5 DEF Init, UnderwayTrue
<1>7. AddedOnce
  <2>1. dbQueue = <<[kind |-> "scan"]>>
    BY DEF Init
  <2>2. DOMAIN dbQueue = {1}
    BY <2>1
  <2> QED  BY <2>2 DEF AddedOnce
<1>8. Simple
  BY DEF Init, Simple
<1> QED  BY <1>1, <1>2, <1>6, <1>7, <1>8 DEF FlagsInv

\* What the database's thread takes leaves a queue as good as the one it was.
LEMMA QueueTail ==
    ASSUME FlagsInv, dbQueue # <<>>, dbQueue' = Tail(dbQueue)
    PROVE  /\ Head(dbQueue) \in TrueRequests(stored)
           /\ dbQueue' \in Seq(TrueRequests(stored))
           /\ \A i \in DOMAIN dbQueue' : i + 1 \in DOMAIN dbQueue /\ dbQueue'[i] = dbQueue[i + 1]
           /\ AddedOnce'
<1>1. dbQueue \in Seq(TrueRequests(stored)) /\ AddedOnce
  BY DEF FlagsInv, UnderwayTrue
<1>2. /\ Head(dbQueue) \in TrueRequests(stored)
      /\ dbQueue' \in Seq(TrueRequests(stored))
      /\ \A i \in DOMAIN dbQueue' : i \in Int /\ i + 1 \in DOMAIN dbQueue /\ dbQueue'[i] = dbQueue[i + 1]
  BY <1>1, HeadTailProperties
<1>3. AddedOnce'
  <2> SUFFICES ASSUME NEW i \in DOMAIN dbQueue', NEW j \in DOMAIN dbQueue',
                      dbQueue'[i].kind = "add", dbQueue'[j].kind = "add",
                      dbQueue'[i].photos \cap dbQueue'[j].photos # {}
               PROVE  i = j
    BY DEF AddedOnce
  <2>1. i + 1 = j + 1
    BY <1>1, <1>2 DEF AddedOnce
  <2> QED  BY <1>2, <2>1
<1> QED  BY <1>2, <1>3

\* The tasks of the database's thread that store something.
LEMMA StoreKeepsTruth ==
    ASSUME FlagsInv, Execute, stored' \in [Photos -> PhotoStates],
           Grows(stored, stored'), FlagsNotAhead', KnownPhotos(stored') = KnownPhotos(stored),
           UNCHANGED <<watched, events, phase>>
    PROVE  FlagsInv'
<1>1. /\ dbQueue' \in Seq(TrueRequests(stored)) /\ AddedOnce'
      /\ UNCHANGED <<tasks, toUpdate, loading, touched, timerActive>>
  BY QueueTail DEF Execute, guiVars
<1>2. dbQueue' \in Seq(TrueRequests(stored'))
  BY <1>1, RequestsStay DEF FlagsInv
<1>3. UnderwayTrue'
  BY <1>1, <1>2, TruthStays DEF FlagsInv, UnderwayTrue
<1>4. Simple'
  BY <1>1 DEF FlagsInv, Simple
<1> QED  BY <1>1, <1>3, <1>4 DEF FlagsInv

\* A task that runs into the destroyed analyzer leaves the rest alone.
LEMMA DanglingKeepsTruth ==
    ASSUME FlagsInv, Execute, ExecuteDangling
    PROVE  FlagsInv'
<1>1. /\ dbQueue' \in Seq(TrueRequests(stored)) /\ AddedOnce'
      /\ UNCHANGED <<stored, watched, events, tasks, toUpdate, loading, touched, timerActive>>
  BY QueueTail DEF Execute, ExecuteDangling, guiVars
<1>2. UnderwayTrue'
  BY <1>1 DEF FlagsInv, UnderwayTrue
<1>3. Simple'
  BY <1>1 DEF FlagsInv, Simple, ExecuteDangling
<1> QED  BY <1>1, <1>2, <1>3 DEF FlagsInv, FlagsNotAhead

\* What the scan and the loading of a batch post.
LEMMA AnswerKeepsTruth ==
    ASSUME FlagsInv, Execute, UNCHANGED <<stored, phase>>, watched' \in BOOLEAN,
           NEW e \in TrueEvents(stored), events' = Append(events, e)
    PROVE  FlagsInv'
<1>1. /\ dbQueue' \in Seq(TrueRequests(stored)) /\ AddedOnce'
      /\ UNCHANGED <<tasks, toUpdate, loading, touched, timerActive>>
  BY QueueTail DEF Execute, guiVars
<1>2. events' \in Seq(TrueEvents(stored))
  <2>1. events \in Seq(TrueEvents(stored))
    BY DEF FlagsInv, UnderwayTrue
  <2> QED  BY <2>1, AppendProperties
<1>3. UnderwayTrue'
  BY <1>1, <1>2 DEF FlagsInv, UnderwayTrue
<1>4. Simple'
  BY <1>1 DEF FlagsInv, Simple
<1> QED  BY <1>1, <1>3, <1>4 DEF FlagsInv, FlagsNotAhead

\* A set of known photos, announced.
LEMMA AnnouncedAreKnown ==
    ASSUME NEW st \in [Photos -> PhotoStates], NEW photos, photos \subseteq KnownPhotos(st)
    PROVE  Announce(SetToSeq(photos)) \in TrueEvents(st)
<1>1. IsFiniteSet(photos)
  <2>1. photos \subseteq Photos
    BY DEF KnownPhotos
  <2> QED  BY <2>1, AnalyzerAssumption, FS_Subset
<1>2. SetToSeq(photos) \in Seq(photos)
  BY <1>1, SetToSeqProperties
<1>3. SetToSeq(photos) \in Seq(KnownPhotos(st))
  BY <1>2, SeqMonotonic
<1> QED  BY <1>3 DEF Announce, TrueEvents

\* The scan of the constructor announces known photos only.
LEMMA ScanKeepsTruth ==
    ASSUME FlagsInv, Execute, ExecuteScan, UNCHANGED phase
    PROVE  FlagsInv'
<1>1. {p \in Photos : Uninitialized(stored[p])} \subseteq KnownPhotos(stored)
  BY DEF Uninitialized, KnownPhotos
<1>2. Announce(SetToSeq({p \in Photos : Uninitialized(stored[p])})) \in TrueEvents(stored)
  BY <1>1, AnnouncedAreKnown DEF FlagsInv
<1> QED  BY <1>2, AnswerKeepsTruth DEF ExecuteScan

\* The loaded flags are those of the backend, so they are true.
LEMMA LoadKeepsTruth ==
    ASSUME FlagsInv, Execute, Head(dbQueue).kind = "load", ExecuteLoad(Head(dbQueue).photos),
           UNCHANGED phase
    PROVE  FlagsInv'
<1> DEFINE photos == Head(dbQueue).photos
           data == [i \in DOMAIN photos |-> [photo |-> photos[i],
                                             flags |-> stored[photos[i]].flags]]
<1>1. photos \in Seq(KnownPhotos(stored))
  BY QueueTail, RequestKinds DEF Execute
<1>2. ASSUME NEW p \in KnownPhotos(stored)
      PROVE  [photo |-> p, flags |-> stored[p].flags] \in TrueData(stored)
  <2>1. stored[p].flags \in [Flags -> {0, 1}]
    BY DEF FlagsInv, PhotoStates, KnownPhotos
  <2>2. FlagsTrue(stored[p], stored[p].flags)
    <3>1. p \in Photos /\ FlagsNotAhead
      BY DEF FlagsInv, KnownPhotos
    <3> QED  BY <3>1 DEF FlagsNotAhead, FlagsTrue
  <2> QED  BY <2>1, <2>2 DEF TrueData
<1>3. data \in Seq(TrueData(stored))
  <2>1. Len(photos) \in Nat /\ DOMAIN photos = 1 .. Len(photos)
    BY <1>1
  <2>2. \A i \in 1 .. Len(photos) : data[i] \in TrueData(stored)
    BY <1>1, <1>2, <2>1
  <2>3. data \in [1 .. Len(photos) -> TrueData(stored)]
    <3>1. data = [i \in 1 .. Len(photos) |-> data[i]]
      BY <2>1
    <3> HIDE DEF data
    <3> QED  BY <2>2, <3>1
  <2> HIDE DEF data
  <2> QED  BY <2>1, <2>3, SeqDef
<1>4. [kind |-> "updatePhotos", photos |-> data] \in TrueEvents(stored)
  BY <1>3 DEF TrueEvents
<1>5. events' = Append(events, [kind |-> "updatePhotos", photos |-> data])
  BY DEF ExecuteLoad
<1> QED  BY <1>4, <1>5, AnswerKeepsTruth DEF ExecuteLoad, FlagsInv, Simple

\* Photos are added without a flag about their data, and those of the other
\* requests in the queue stay unknown.
LEMMA AddKeepsTruth ==
    ASSUME FlagsInv, Execute, Head(dbQueue).kind = "add", ExecuteAdd(Head(dbQueue).photos),
           UNCHANGED phase
    PROVE  FlagsInv'
<1> DEFINE photos == Head(dbQueue).photos
<1>1. /\ stored \in [Photos -> PhotoStates]
      /\ dbQueue \in Seq(TrueRequests(stored)) /\ AddedOnce
      /\ events \in Seq(TrueEvents(stored))
      /\ Simple /\ FlagsNotAhead
  BY DEF FlagsInv, UnderwayTrue
<1>2. /\ dbQueue' \in Seq(TrueRequests(stored)) /\ AddedOnce'
      /\ dbQueue # <<>> /\ dbQueue' = Tail(dbQueue)
      /\ UNCHANGED <<tasks, toUpdate, loading, touched, timerActive, watched>>
  BY QueueTail DEF Execute, guiVars, ExecuteAdd
<1>3. photos \subseteq Photos \ KnownPhotos(stored)
  BY <1>2, QueueTail, RequestKinds
<1> DEFINE added == [NewPhoto EXCEPT !.known = TRUE, !.flags["StagingArea"] = 1]
<1>4. /\ added \in PhotoStates /\ added.known
      /\ added.flags["ExifLoaded"] = 0 /\ added.flags["GeometryLoaded"] = 0
  BY DEF NewPhoto, PhotoStates, Flags, Fields
<1>5. \A p \in Photos : stored'[p] = IF p \in photos THEN added ELSE stored[p]
  BY DEF ExecuteAdd
<1>6. stored' \in [Photos -> PhotoStates]
  <2>1. stored' = [p \in Photos |-> stored'[p]]
    BY DEF ExecuteAdd
  <2> HIDE DEF added
  <2> QED  BY <1>1, <1>4, <1>5, <2>1
<1>7. Grows(stored, stored')
  BY <1>3, <1>5 DEF Grows, KnownPhotos
<1>8. FlagsNotAhead'
  <2> HIDE DEF added, photos
  <2> QED  BY <1>1, <1>4, <1>5 DEF FlagsNotAhead
<1>9. KnownPhotos(stored') = KnownPhotos(stored) \cup photos
  <2> HIDE DEF added
  <2> QED  BY <1>3, <1>4, <1>5 DEF KnownPhotos
<1>10. dbQueue' \in Seq(TrueRequests(stored'))
  <2>1. ASSUME NEW i \in 1 .. Len(dbQueue')  PROVE dbQueue'[i] \in TrueRequests(stored')
    <3>1. /\ i \in DOMAIN dbQueue' /\ i # 0
          /\ dbQueue'[i] \in TrueRequests(stored)
      BY <1>2
    <3>2. CASE dbQueue'[i].kind # "add"
      BY <1>1, <1>6, <1>7, <3>1, <3>2, TruthStays
    <3>3. CASE dbQueue'[i].kind = "add"
      <4>1. i + 1 \in DOMAIN dbQueue /\ dbQueue'[i] = dbQueue[i + 1] /\ i + 1 # 1
        BY <1>2, <3>1, QueueTail
      <4>2. 1 \in DOMAIN dbQueue /\ dbQueue[1] = Head(dbQueue)
        BY <1>1, <1>2, HeadTailProperties
      <4>3. dbQueue[i + 1].photos \cap dbQueue[1].photos = {}
        BY <1>1, <3>3, <4>1, <4>2 DEF AddedOnce
      <4>4. dbQueue'[i] \in [kind : {"add"}, photos : SUBSET (Photos \ KnownPhotos(stored))]
        BY <3>1, <3>3 DEF TrueRequests
      <4>5. dbQueue'[i] \in [kind : {"add"}, photos : SUBSET (Photos \ KnownPhotos(stored'))]
        BY <1>9, <4>1, <4>2, <4>3, <4>4
      <4> QED  BY <4>5 DEF TrueRequests
    <3> QED  BY <3>2, <3>3
  <2>2. Len(dbQueue') \in Nat /\ dbQueue' = [i \in 1 .. Len(dbQueue') |-> dbQueue'[i]]
    <3> DEFINE q == dbQueue'
    <3>1. q \in Seq(TrueRequests(stored))
      BY <1>2
    <3> HIDE DEF q
    <3>2. Len(q) \in Nat /\ q = [i \in 1 .. Len(q) |-> q[i]]
      BY <3>1
    <3> QED  BY <3>2 DEF q
  <2>3. dbQueue' \in [1 .. Len(dbQueue') -> TrueRequests(stored')]
    BY <2>1, <2>2
  <2> QED  BY <2>2, <2>3, SeqDef
<1>11. events' \in Seq(TrueEvents(stored'))
  <2>1. events \in Seq(TrueEvents(stored'))
    BY <1>1, <1>6, <1>7, TruthStays
  <2>2. Announce(SetToSeq(photos)) \in TrueEvents(stored')
    BY <1>6, <1>9, AnnouncedAreKnown
  <2>3. events' = IF watched THEN Append(events, Announce(SetToSeq(photos))) ELSE events
    BY DEF ExecuteAdd
  <2> HIDE DEF photos
  <2> QED  BY <2>1, <2>2, <2>3, AppendProperties
<1>12. UnderwayTrue'
  BY <1>1, <1>2, <1>6, <1>7, <1>10, <1>11, TruthStays DEF FlagsInv, UnderwayTrue
<1>13. Simple'
  BY <1>1, <1>2 DEF Simple
<1> QED  BY <1>2, <1>6, <1>8, <1>12, <1>13 DEF FlagsInv

\* What fails to be stored leaves everything as it was.
LEMMA FailureKeepsTruth ==
    ASSUME FlagsInv, Execute, UNCHANGED <<stored, watched, events, phase>>
    PROVE  FlagsInv'
<1>1. stored' \in [Photos -> PhotoStates] /\ FlagsNotAhead'
  BY DEF FlagsInv, FlagsNotAhead
<1>2. Grows(stored, stored') /\ KnownPhotos(stored') = KnownPhotos(stored)
  BY DEF Grows, KnownPhotos
<1> QED  BY <1>1, <1>2, StoreKeepsTruth

\* An update stores true deltas: every flag it sets comes with its data, and the
\* flags it does not mention are zeroed.
LEMMA UpdateKeepsTruth ==
    ASSUME FlagsInv, Execute, Head(dbQueue).kind = "update", ExecuteUpdate(Head(dbQueue).deltas),
           UNCHANGED phase
    PROVE  FlagsInv'
<1> DEFINE deltas == Head(dbQueue).deltas
<1>0. SUFFICES
        ASSUME stored' = [p \in Photos |->
                            IF deltas[p] = NoDelta THEN stored[p]
                            ELSE [stored[p] EXCEPT !.data = @ \cup deltas[p].fields,
                                                   !.flags = StoreFlags(deltas[p].flags)]]
        PROVE  FlagsInv'
  BY FailureKeepsTruth DEF ExecuteUpdate, FailsToStore
<1>1. stored \in [Photos -> PhotoStates] /\ FlagsNotAhead
  BY DEF FlagsInv
<1>2. deltas \in TrueDeltas(stored)
  BY QueueTail, RequestKinds DEF Execute
<1>3. /\ deltas \in [Photos -> Deltas]
      /\ \A p \in Photos : deltas[p] # NoDelta => stored[p].known /\ DeltaTrue(stored[p], deltas[p])
  BY <1>2 DEF TrueDeltas
<1>4. ASSUME NEW p \in Photos, deltas[p] = NoDelta  PROVE stored'[p] = stored[p]
  BY <1>0, <1>4
<1>5. ASSUME NEW p \in Photos, deltas[p] # NoDelta
      PROVE  /\ stored'[p] \in PhotoStates
             /\ stored'[p].known = stored[p].known
             /\ stored'[p].data = stored[p].data \cup deltas[p].fields
             /\ stored'[p].flags = StoreFlags(deltas[p].flags)
  <2>1. stored'[p] = [stored[p] EXCEPT !.data = @ \cup deltas[p].fields,
                                       !.flags = StoreFlags(deltas[p].flags)]
    BY <1>0, <1>5
  <2>2. /\ stored[p] \in PhotoStates
        /\ deltas[p].fields \subseteq Fields
        /\ deltas[p].flags \in UNION {[S -> {0, 1}] : S \in SUBSET Flags}
    BY <1>1, <1>3 DEF Deltas
  <2>3. StoreFlags(deltas[p].flags) \in [Flags -> {0, 1}]
    BY <2>2 DEF StoreFlags
  <2> HIDE DEF deltas
  <2> QED  BY <2>1, <2>2, <2>3 DEF PhotoStates
<1>6. stored' \in [Photos -> PhotoStates]
  <2>1. stored' = [p \in Photos |-> stored'[p]]
    BY <1>0
  <2>2. \A p \in Photos : stored'[p] \in PhotoStates
    BY <1>1, <1>4, <1>5
  <2> QED  BY <2>1, <2>2
<1> HIDE DEF deltas
<1>7. Grows(stored, stored') /\ KnownPhotos(stored') = KnownPhotos(stored)
  BY <1>4, <1>5 DEF Grows, KnownPhotos
<1>8. FlagsNotAhead'
  <2> SUFFICES ASSUME NEW p \in Photos
               PROVE  /\ stored'[p].flags["ExifLoaded"] = 1 => "tags" \in stored'[p].data
                      /\ stored'[p].flags["GeometryLoaded"] = 1 => "geometry" \in stored'[p].data
    BY DEF FlagsNotAhead
  <2>1. CASE deltas[p] = NoDelta
    BY <1>1, <1>4, <2>1 DEF FlagsNotAhead
  <2>2. CASE deltas[p] # NoDelta
    <3>1. DeltaTrue(stored[p], deltas[p])
      BY <1>3, <2>2
    <3>2. \A f \in Flags : stored'[p].flags[f] = 1
                           => f \in DOMAIN deltas[p].flags /\ deltas[p].flags[f] = 1
      <4>1. stored'[p].flags = StoreFlags(deltas[p].flags)
        BY <1>5, <2>2
      <4> QED  BY <4>1 DEF StoreFlags
    <3> QED  BY <1>5, <2>2, <3>1, <3>2 DEF DeltaTrue, Flags
  <2> QED  BY <2>1, <2>2
<1> QED  BY <1>6, <1>7, <1>8, StoreKeepsTruth DEF ExecuteUpdate

\* Marking a photo as broken changes neither data nor flags.
LEMMA BrokenKeepsTruth ==
    ASSUME FlagsInv, Execute, NEW p \in Photos, ExecuteBroken(p), UNCHANGED phase
    PROVE  FlagsInv'
<1> SUFFICES ASSUME stored' = [stored EXCEPT ![p].broken = TRUE]  PROVE FlagsInv'
  BY FailureKeepsTruth DEF ExecuteBroken, FailsToStore
<1>1. stored \in [Photos -> PhotoStates] /\ FlagsNotAhead
  BY DEF FlagsInv
<1>2. \A q \in Photos : /\ stored'[q] \in PhotoStates
                        /\ stored'[q].known = stored[q].known
                        /\ stored'[q].data = stored[q].data
                        /\ stored'[q].flags = stored[q].flags
  BY <1>1 DEF PhotoStates
<1>3. stored' \in [Photos -> PhotoStates]
  BY <1>1, <1>2
<1>4. FlagsNotAhead'
  BY <1>1, <1>2 DEF FlagsNotAhead
<1>5. Grows(stored, stored') /\ KnownPhotos(stored') = KnownPhotos(stored)
  BY <1>2 DEF Grows, KnownPhotos
<1> QED  BY <1>3, <1>4, <1>5, StoreKeepsTruth DEF ExecuteBroken

\* The database's thread keeps the invariant.
LEMMA ExecuteKeepsTruth ==
    ASSUME FlagsInv, Execute
    PROVE  FlagsInv'
<1>1. CASE ExecuteDangling
  BY <1>1, DanglingKeepsTruth
<1>2. CASE ~ ExecuteDangling
  <2>1. Head(dbQueue).kind = "broken" => Head(dbQueue).photo \in Photos
    BY QueueTail, RequestKinds DEF Execute
  <2> QED
    BY <1>2, <2>1, ScanKeepsTruth, AddKeepsTruth, LoadKeepsTruth, UpdateKeepsTruth, BrokenKeepsTruth
       DEF Execute
<1> QED  BY <1>1, <1>2

\* The steps of the other threads, which leave the backend as it is: what is
\* left to show is what they change.
LEMMA OthersKeepTruth ==
    ASSUME FlagsInv, UNCHANGED stored, AddedOnce', Simple',
           dbQueue' \in Seq(TrueRequests(stored)),
           events' \in Seq(TrueEvents(stored)),
           toUpdate' \in Seq(KnownPhotos(stored)),
           tasks' \in Seq(TrueTasks(stored)),
           touched' \in TrueDeltas(stored)
    PROVE  FlagsInv'
<1>1. UnderwayTrue'
  BY DEF UnderwayTrue
<1> QED  BY <1>1 DEF FlagsInv, FlagsNotAhead

\* processPhotos() moves photos of the list to a request.
LEMMA ProcessKeepsTruth ==
    ASSUME FlagsInv, NEW list \in Seq(KnownPhotos(stored)), ProcessPhotos(list)
    PROVE  /\ toUpdate' \in Seq(KnownPhotos(stored))
           /\ loading' \in BOOLEAN
           /\ dbQueue' \in Seq(TrueRequests(stored))
           /\ AddedOnce'
<1> DEFINE K == KnownPhotos(stored)
<1> HIDE DEF K
<1>1. /\ dbQueue \in Seq(TrueRequests(stored)) /\ AddedOnce /\ loading \in BOOLEAN
      /\ list \in Seq(K)
  BY DEF FlagsInv, UnderwayTrue, Simple, K
<1>2. CASE ~ MayLoad(list)
  <2>1. toUpdate' = list /\ UNCHANGED <<loading, dbQueue>>
    BY <1>2 DEF ProcessPhotos
  <2> QED  BY <1>1, <2>1 DEF AddedOnce, K
<1>3. CASE MayLoad(list)
  <2>1. Batch(list) \in Seq(K)
    <3>1. Workers \in Nat
      BY AnalyzerAssumption
    <3> QED  BY <1>1, <3>1, SubSeqProperties DEF Batch
  <2>2. WithoutBatch(list) \in Seq(K)
    <3>1. Len(Batch(list)) + 1 \in 1 .. Len(list) + 1
      BY <1>1, AnalyzerAssumption, SubSeqProperties DEF Batch
    <3> QED  BY <1>1, <3>1, SubSeqProperties DEF WithoutBatch
  <2>3. [kind |-> "load", photos |-> Batch(list)] \in TrueRequests(stored)
    BY <2>1 DEF TrueRequests, K
  <2>4. /\ loading' = TRUE
        /\ toUpdate' = WithoutBatch(list)
        /\ dbQueue' = Append(dbQueue, [kind |-> "load", photos |-> Batch(list)])
    BY <1>3 DEF ProcessPhotos
  <2>5. AddedOnce' /\ dbQueue' \in Seq(TrueRequests(stored))
    BY <1>1, <2>3, <2>4, AppendRequest
  <2> QED  BY <2>2, <2>4, <2>5 DEF K
<1> QED  BY <1>2, <1>3

\* updatePhotos() gives a task the flags that were loaded with the photo.
LEMMA TasksAreTrue ==
    ASSUME NEW st \in [Photos -> PhotoStates], NEW data \in TrueData(st)
    PROVE  TasksFor(data) \in Seq(TrueTasks(st))
<1> DEFINE Task(kind) == [kind |-> kind, photo |-> data.photo, flags |-> data.flags,
                          performed |-> FALSE]
           G == IF data.flags["GeometryLoaded"] = 0 THEN <<Task("geometry")>> ELSE <<>>
           E == IF data.flags["ExifLoaded"] = 0 THEN <<Task("tags")>> ELSE <<>>
<1>1. Task("geometry") \in TrueTasks(st) /\ Task("tags") \in TrueTasks(st)
  BY DEF TrueData, TrueTasks, TaskStates, KnownPhotos, Fields
<1>2. TasksFor(data) = G \o E
  BY DEF TasksFor
<1>3. G \in Seq(TrueTasks(st)) /\ E \in Seq(TrueTasks(st))
  <2> HIDE DEF Task
  <2> QED  BY <1>1
<1> HIDE DEF G, E
<1> QED  BY <1>2, <1>3, ConcatProperties

\* operator|=() of true deltas is true: the flag that is kept keeps its data.
LEMMA MergedIsTrue ==
    ASSUME NEW s, NEW old \in Deltas, NEW new \in Deltas, DeltaTrue(s, old), DeltaTrue(s, new)
    PROVE  Merged(old, new) \in Deltas /\ DeltaTrue(s, Merged(old, new))
<1> DEFINE m == Merged(old, new)
<1>1. /\ m.fields = old.fields \cup new.fields
      /\ DOMAIN m.flags = DOMAIN old.flags \cup DOMAIN new.flags
      /\ \A f \in DOMAIN m.flags : m.flags[f] = IF f \in DOMAIN old.flags THEN old.flags[f] ELSE new.flags[f]
      /\ m = [fields |-> m.fields, flags |-> m.flags]
      /\ m.flags = [f \in DOMAIN m.flags |-> m.flags[f]]
  BY DEF Merged
<1> HIDE DEF m
<1>2. /\ old.fields \subseteq Fields /\ new.fields \subseteq Fields
      /\ DOMAIN old.flags \subseteq Flags /\ DOMAIN new.flags \subseteq Flags
      /\ \A f \in DOMAIN old.flags : old.flags[f] \in {0, 1}
      /\ \A f \in DOMAIN new.flags : new.flags[f] \in {0, 1}
  BY DEF Deltas
<1>3. m.flags \in [DOMAIN m.flags -> {0, 1}] /\ DOMAIN m.flags \in SUBSET Flags
  BY <1>1, <1>2
<1>4. m \in Deltas
  BY <1>1, <1>2, <1>3 DEF Deltas
<1>5. DeltaTrue(s, m)
  BY <1>1 DEF DeltaTrue
<1> QED  BY <1>4, <1>5 DEF m

\* The posted calls of the GUI thread keep the invariant.
LEMMA HandleKeepsTruth ==
    ASSUME FlagsInv, HandleEvent
    PROVE  FlagsInv'
<1> DEFINE event == Head(events)
<1>1. /\ stored \in [Photos -> PhotoStates] /\ AddedOnce /\ Simple
      /\ dbQueue \in Seq(TrueRequests(stored))
      /\ events \in Seq(TrueEvents(stored))
      /\ toUpdate \in Seq(KnownPhotos(stored))
      /\ tasks \in Seq(TrueTasks(stored))
      /\ touched \in TrueDeltas(stored)
  BY DEF FlagsInv, UnderwayTrue
<1>2. /\ event \in TrueEvents(stored) /\ events' \in Seq(TrueEvents(stored))
      /\ UNCHANGED <<stored, watched, phase>>
  BY <1>1, HeadTailProperties DEF HandleEvent
<1> HIDE DEF event
<1>3. CASE event.kind = "addPhotos" /\ AddPhotos(event.photos)
  <2>1. toUpdate \o event.photos \in Seq(KnownPhotos(stored))
    BY <1>1, <1>2, <1>3, EventKinds, ConcatProperties
  <2>2. /\ toUpdate' \in Seq(KnownPhotos(stored)) /\ loading' \in BOOLEAN
        /\ dbQueue' \in Seq(TrueRequests(stored)) /\ AddedOnce'
        /\ UNCHANGED <<tasks, touched, timerActive>>
    BY <1>3, <2>1, ProcessKeepsTruth DEF AddPhotos
  <2>3. Simple'
    BY <1>1, <1>2, <2>2 DEF Simple
  <2> QED  BY <1>1, <1>2, <2>2, <2>3, OthersKeepTruth
<1>4. CASE event.kind = "photoProcessed" /\ PhotoProcessed
  <2>1. /\ toUpdate' \in Seq(KnownPhotos(stored)) /\ loading' \in BOOLEAN
        /\ dbQueue' \in Seq(TrueRequests(stored)) /\ AddedOnce'
        /\ UNCHANGED <<tasks, touched, timerActive>>
    BY <1>1, <1>4, ProcessKeepsTruth DEF PhotoProcessed
  <2>2. Simple'
    BY <1>1, <1>2, <2>1 DEF Simple
  <2> QED  BY <1>1, <1>2, <2>1, <2>2, OthersKeepTruth
<1>5. CASE event.kind = "updatePhotos" /\ UpdatePhotos(event.photos)
  <2> DEFINE photos == event.photos
             made == [i \in DOMAIN photos |-> TasksFor(photos[i])]
  <2>1. photos \in Seq(TrueData(stored))
    BY <1>2, <1>5, EventKinds
  <2>2. made \in Seq(Seq(TrueTasks(stored)))
    <3>1. Len(photos) \in Nat /\ DOMAIN photos = 1 .. Len(photos)
      BY <2>1
    <3>2. \A i \in 1 .. Len(photos) : TasksFor(photos[i]) \in Seq(TrueTasks(stored))
      BY <1>1, <2>1, <3>1, TasksAreTrue
    <3>3. made \in [1 .. Len(photos) -> Seq(TrueTasks(stored))]
      BY <3>1, <3>2
    <3> HIDE DEF made
    <3> QED  BY <3>1, <3>3, SeqDef
  <2>3. tasks' = tasks \o FlattenSeq(made)
    BY <1>5 DEF UpdatePhotos
  <2> HIDE DEF made
  <2>4. FlattenSeq(made) \in Seq(TrueTasks(stored))
    BY <2>2, FlattenSeqProperties
  <2>5. tasks' \in Seq(TrueTasks(stored))
    BY <1>1, <2>3, <2>4, ConcatProperties
  <2>6. loading' = FALSE /\ UNCHANGED <<toUpdate, dbQueue, touched, timerActive>>
    BY <1>5 DEF UpdatePhotos
  <2>7. AddedOnce' /\ Simple'
    BY <1>1, <1>2, <2>6 DEF AddedOnce, Simple
  <2> QED  BY <1>1, <1>2, <2>5, <2>6, <2>7, OthersKeepTruth
<1>6. CASE event.kind = "apply" /\ Apply(event.photo, event.delta)
  <2> DEFINE p == event.photo
             merged == Merged(touched[p], event.delta)
  <2>1. /\ p \in Photos /\ stored[p].known
        /\ event.delta \in Deltas /\ DeltaTrue(stored[p], event.delta)
    BY <1>2, <1>6, EventKinds DEF KnownPhotos
  <2>2. touched \in [Photos -> Deltas] /\ touched[p] \in Deltas
    BY <1>1, <2>1 DEF TrueDeltas
  <2>3. DeltaTrue(stored[p], touched[p])
    <3>1. CASE touched[p] = NoDelta
      BY <3>1 DEF NoDelta, DeltaTrue
    <3>2. CASE touched[p] # NoDelta
      BY <1>1, <2>1, <3>2 DEF TrueDeltas
    <3> QED  BY <3>1, <3>2
  <2>4. merged \in Deltas /\ DeltaTrue(stored[p], merged)
    BY <2>1, <2>2, <2>3, MergedIsTrue
  <2>5. /\ touched' = [touched EXCEPT ![p] = merged]
        /\ UNCHANGED <<toUpdate, loading, tasks, dbQueue>>
        /\ timerActive' \in BOOLEAN
    BY <1>1, <1>6 DEF Apply, Simple, KicksTimer
  <2> HIDE DEF merged, p
  <2>6. touched' \in TrueDeltas(stored)
    BY <1>1, <2>1, <2>2, <2>4, <2>5 DEF TrueDeltas
  <2>7. AddedOnce' /\ Simple'
    BY <1>1, <1>2, <2>5 DEF AddedOnce, Simple
  <2> QED  BY <1>1, <1>2, <2>5, <2>6, <2>7, OthersKeepTruth
<1>7. CASE event.kind = "applyFlags" /\ ApplyFlags(event.photo)
  <2>1. [kind |-> "broken", photo |-> event.photo] \in TrueRequests(stored)
    BY <1>2, <1>7, EventKinds DEF TrueRequests
  <2>2. /\ dbQueue' = Append(dbQueue, [kind |-> "broken", photo |-> event.photo])
        /\ UNCHANGED <<tasks, toUpdate, loading, touched, timerActive>>
    BY <1>7 DEF ApplyFlags, guiVars
  <2>3. AddedOnce' /\ dbQueue' \in Seq(TrueRequests(stored))
    BY <1>1, <2>1, <2>2, AppendRequest
  <2>4. Simple'
    BY <1>1, <1>2, <2>2 DEF Simple
  <2> QED  BY <1>1, <1>2, <2>2, <2>3, <2>4, OthersKeepTruth
<1> QED  BY <1>3, <1>4, <1>5, <1>6, <1>7 DEF HandleEvent, event

\* flushCache() sends what was touched, and that was true.
LEMMA FlushKeepsTruth ==
    ASSUME FlagsInv, FlushCache
    PROVE  /\ dbQueue' \in Seq(TrueRequests(stored)) /\ AddedOnce'
           /\ touched' \in TrueDeltas(stored)
<1>1. /\ dbQueue \in Seq(TrueRequests(stored)) /\ AddedOnce
      /\ touched \in TrueDeltas(stored)
  BY DEF FlagsInv, UnderwayTrue
<1>2. NoDelta \in Deltas
  <2>1. <<>> \in [{} -> {0, 1}]
    OBVIOUS
  <2> QED  BY <2>1 DEF NoDelta, Deltas
<1>3. touched' \in TrueDeltas(stored)
  BY <1>2 DEF FlushCache, Untouched, TrueDeltas
<1>4. CASE touched = Untouched
  BY <1>1, <1>3, <1>4 DEF FlushCache, AddedOnce
<1>5. CASE touched # Untouched
  <2>1. [kind |-> "update", deltas |-> touched] \in TrueRequests(stored)
    BY <1>1 DEF TrueRequests
  <2>2. dbQueue' = Append(dbQueue, [kind |-> "update", deltas |-> touched])
    BY <1>5 DEF FlushCache
  <2> QED  BY <1>1, <1>3, <2>1, <2>2, AppendRequest
<1> QED  BY <1>4, <1>5

\* The flush timer and the destructor keep the invariant.
LEMMA StopKeepsTruth ==
    ASSUME FlagsInv, FlushTimeout \/ StopBegin \/ StopEnd
    PROVE  FlagsInv'
<1>1. /\ AddedOnce /\ Simple
      /\ dbQueue \in Seq(TrueRequests(stored))
      /\ events \in Seq(TrueEvents(stored))
      /\ toUpdate \in Seq(KnownPhotos(stored))
      /\ tasks \in Seq(TrueTasks(stored))
      /\ touched \in TrueDeltas(stored)
  BY DEF FlagsInv, UnderwayTrue
<1>2. CASE FlushTimeout
  <2>1. /\ UNCHANGED <<stored, watched, events, toUpdate, loading, tasks, phase>>
        /\ timerActive' = FALSE /\ FlushCache
    BY <1>2 DEF FlushTimeout
  <2>2. Simple'
    BY <1>1, <2>1 DEF Simple
  <2> QED  BY <1>1, <2>1, <2>2, FlushKeepsTruth, OthersKeepTruth
<1>3. CASE StopBegin
  <2>1. /\ UNCHANGED <<stored, dbQueue, events, loading, tasks, touched, timerActive>>
        /\ watched' = FALSE /\ toUpdate' = <<>> /\ phase' = "stopping"
    BY <1>3 DEF StopBegin
  <2>2. Simple' /\ AddedOnce'
    BY <1>1, <2>1 DEF Simple, AddedOnce
  <2>3. toUpdate' \in Seq(KnownPhotos(stored))
    BY <2>1
  <2> QED  BY <1>1, <2>1, <2>2, <2>3, OthersKeepTruth
<1>4. CASE StopEnd
  <2>1. /\ UNCHANGED <<stored, toUpdate, loading, tasks>>
        /\ timerActive' = FALSE /\ FlushCache
        /\ watched' = FALSE /\ events' = <<>> /\ phase' = "destroyed"
    BY <1>4 DEF StopEnd
  <2>2. Simple'
    BY <1>1, <2>1 DEF Simple
  <2>3. events' \in Seq(TrueEvents(stored))
    BY <2>1
  <2> QED  BY <1>1, <2>1, <2>2, <2>3, FlushKeepsTruth, OthersKeepTruth
<1> QED  BY <1>2, <1>3, <1>4

\* What a task posts is true: its own flag comes with its data, the other flags
\* are those it was given.
LEMMA ResultIsTrue ==
    ASSUME NEW st \in [Photos -> PhotoStates], NEW t \in TrueTasks(st)
    PROVE  Result(t) \in TrueEvents(st)
<1>1. /\ t.kind \in {"tags", "geometry"} /\ t.photo \in KnownPhotos(st)
      /\ t.flags \in [Flags -> {0, 1}] /\ FlagsTrue(st[t.photo], t.flags)
  BY DEF TrueTasks, TaskStates, KnownPhotos, Fields
<1>2. CASE t.kind = "tags"
  <2> DEFINE delta == [fields |-> {"tags"}, flags |-> [t.flags EXCEPT !["ExifLoaded"] = 1]]
  <2>1. /\ delta.flags \in [Flags -> {0, 1}]
        /\ delta.flags["GeometryLoaded"] = t.flags["GeometryLoaded"]
    BY <1>1 DEF Flags
  <2>2. delta \in Deltas
    BY <2>1 DEF Deltas, Fields
  <2>3. DeltaTrue(st[t.photo], delta)
    BY <1>1, <2>1 DEF DeltaTrue, FlagsTrue
  <2>4. Result(t) = [kind |-> "apply", photo |-> t.photo, delta |-> delta]
    BY <1>2 DEF Result
  <2> HIDE DEF delta
  <2> QED  BY <1>1, <2>2, <2>3, <2>4 DEF TrueEvents
<1>3. CASE t.kind # "tags" /\ t.photo \in Unreadable
  BY <1>1, <1>3 DEF Result, TrueEvents, KnownPhotos
<1>4. CASE t.kind # "tags" /\ t.photo \notin Unreadable
  <2> DEFINE delta == [fields |-> {"geometry"}, flags |-> [f \in {"GeometryLoaded"} |-> 1]]
  <2>1. delta \in Deltas
    <3>1. [f \in {"GeometryLoaded"} |-> 1] \in [{"GeometryLoaded"} -> {0, 1}]
      OBVIOUS
    <3>2. {"GeometryLoaded"} \in SUBSET Flags
      BY DEF Flags
    <3> QED  BY <3>1, <3>2 DEF Deltas, Fields
  <2>2. DeltaTrue(st[t.photo], delta)
    BY DEF DeltaTrue
  <2>3. Result(t) = [kind |-> "apply", photo |-> t.photo, delta |-> delta]
    BY <1>4 DEF Result
  <2> HIDE DEF delta
  <2> QED  BY <1>1, <2>1, <2>2, <2>3 DEF TrueEvents
<1> QED  BY <1>2, <1>3, <1>4

\* The executor's workers keep the invariant.
LEMMA WorkerKeepsTruth ==
    ASSUME FlagsInv, Worker
    PROVE  FlagsInv'
<1>1. /\ stored \in [Photos -> PhotoStates] /\ AddedOnce /\ Simple
      /\ dbQueue \in Seq(TrueRequests(stored))
      /\ events \in Seq(TrueEvents(stored))
      /\ toUpdate \in Seq(KnownPhotos(stored))
      /\ tasks \in Seq(TrueTasks(stored))
      /\ touched \in TrueDeltas(stored)
  BY DEF FlagsInv, UnderwayTrue
<1>2. PICK i : i \in 1 .. Workers /\ (Perform(i) \/ TaskFinished(i))
  BY DEF Worker
<1>3. UNCHANGED <<stored, dbQueue, watched, toUpdate, loading, touched, timerActive, phase>>
  BY <1>2 DEF Perform, TaskFinished, guiVars
<1>4. AddedOnce' /\ Simple'
  BY <1>1, <1>3 DEF AddedOnce, Simple
<1>5. i \in 1 .. Len(tasks)
  BY <1>1, <1>2 DEF Perform, TaskFinished, InWork
<1>6. CASE Perform(i)
  <2>1. tasks[i] \in TrueTasks(stored)
    BY <1>1, <1>5
  <2>2. events' \in Seq(TrueEvents(stored))
    BY <1>1, <1>6, <2>1, ResultIsTrue, AppendProperties DEF Perform
  <2>3. [tasks[i] EXCEPT !.performed = TRUE] \in TrueTasks(stored)
    BY <2>1 DEF TrueTasks, TaskStates
  <2>4. tasks' = [tasks EXCEPT ![i] = [tasks[i] EXCEPT !.performed = TRUE]]
    BY <1>6 DEF Perform
  <2>5. tasks' \in Seq(TrueTasks(stored))
    BY <1>1, <1>5, <2>3, <2>4, ExceptSeq
  <2> QED  BY <1>1, <1>3, <1>4, <2>2, <2>5, OthersKeepTruth
<1>7. CASE TaskFinished(i)
  <2>1. [kind |-> "photoProcessed"] \in TrueEvents(stored)
    BY DEF TrueEvents
  <2>2. events' \in Seq(TrueEvents(stored))
    BY <1>1, <1>7, <2>1, AppendProperties DEF TaskFinished
  <2>3. tasks' \in Seq(TrueTasks(stored))
    <3> DEFINE T == TrueTasks(stored)
    <3> HIDE DEF T
    <3>1. tasks \in Seq(T)
      BY <1>1 DEF T
    <3>2. tasks' = SubSeq(tasks, 1, i - 1) \o SubSeq(tasks, i + 1, Len(tasks))
      BY <1>7 DEF TaskFinished, RemoveAt
    <3>3. SubSeq(tasks, 1, i - 1) \in Seq(T) /\ SubSeq(tasks, i + 1, Len(tasks)) \in Seq(T)
      BY <1>5, <3>1, SubSeqProperties
    <3>4. tasks' \in Seq(T)
      BY <3>2, <3>3, ConcatProperties
    <3> QED  BY <3>4 DEF T
  <2> QED  BY <1>1, <1>3, <1>4, <2>2, <2>3, OthersKeepTruth
<1> QED  BY <1>2, <1>6, <1>7

\* "Scan collection" offers photos no other request offers.
LEMMA CollectKeepsTruth ==
    ASSUME FlagsInv, NEW photos \in SUBSET Photos, ScanCollection(photos)
    PROVE  FlagsInv'
<1>1. /\ stored \in [Photos -> PhotoStates] /\ AddedOnce /\ Simple
      /\ dbQueue \in Seq(TrueRequests(stored))
      /\ events \in Seq(TrueEvents(stored))
      /\ toUpdate \in Seq(KnownPhotos(stored))
      /\ tasks \in Seq(TrueTasks(stored))
      /\ touched \in TrueDeltas(stored)
  BY DEF FlagsInv, UnderwayTrue
<1> DEFINE request == [kind |-> "add", photos |-> photos]
<1>2. /\ photos \cap Offered = {}
      /\ dbQueue' = Append(dbQueue, request)
      /\ UNCHANGED <<stored, watched, events, tasks, toUpdate, loading, touched, timerActive, phase>>
  BY DEF ScanCollection, guiVars
<1>3. photos \subseteq Photos \ KnownPhotos(stored)
  BY <1>2 DEF Offered, KnownPhotos
<1>4. request \in TrueRequests(stored)
  BY <1>3 DEF TrueRequests
<1>5. dbQueue' \in Seq(TrueRequests(stored))
  BY <1>1, <1>2, <1>4, AppendProperties
<1>6. AddedOnce'
  <2>1. /\ Len(dbQueue) \in Nat /\ DOMAIN dbQueue = 1 .. Len(dbQueue)
        /\ DOMAIN dbQueue' = 1 .. Len(dbQueue) + 1
        /\ \A i \in 1 .. Len(dbQueue) : dbQueue'[i] = dbQueue[i]
        /\ dbQueue'[Len(dbQueue) + 1].photos = photos
    BY <1>1, <1>2, AppendProperties
  <2>2. \A i \in 1 .. Len(dbQueue) :
           dbQueue[i].kind = "add" => dbQueue[i].photos \cap photos = {}
    BY <1>2, <2>1 DEF Offered
  <2> SUFFICES ASSUME NEW i \in DOMAIN dbQueue', NEW j \in DOMAIN dbQueue',
                      dbQueue'[i].kind = "add", dbQueue'[j].kind = "add",
                      dbQueue'[i].photos \cap dbQueue'[j].photos # {}
               PROVE  i = j
    BY DEF AddedOnce
  <2>3. CASE i \in 1 .. Len(dbQueue) /\ j \in 1 .. Len(dbQueue)
    BY <1>1, <2>1, <2>3 DEF AddedOnce
  <2>4. CASE i = Len(dbQueue) + 1 /\ j \in 1 .. Len(dbQueue)
    BY <2>1, <2>2, <2>4
  <2>5. CASE j = Len(dbQueue) + 1 /\ i \in 1 .. Len(dbQueue)
    BY <2>1, <2>2, <2>5
  <2> QED  BY <2>1, <2>3, <2>4, <2>5
<1>7. Simple'
  BY <1>1, <1>2 DEF Simple
<1> HIDE DEF request
<1> QED  BY <1>1, <1>2, <1>5, <1>6, <1>7, OthersKeepTruth

\* The invariant, for all behaviours.
LEMMA TruthIsInvariant == Spec => []FlagsInv
<1>1. Init => FlagsInv
  BY InitialTruth
<1>2. FlagsInv /\ [Next]_vars => FlagsInv'
  <2> SUFFICES ASSUME FlagsInv, [Next]_vars  PROVE FlagsInv'
    OBVIOUS
  <2>1. CASE Execute
    BY <2>1, ExecuteKeepsTruth
  <2>2. CASE HandleEvent
    BY <2>2, HandleKeepsTruth
  <2>3. CASE FlushTimeout \/ StopBegin \/ StopEnd
    BY <2>3, StopKeepsTruth
  <2>4. CASE Worker
    BY <2>4, WorkerKeepsTruth
  <2>5. CASE \E photos \in SUBSET Photos : ScanCollection(photos)
    BY <2>5, CollectKeepsTruth
  <2>6. CASE UNCHANGED vars
    <3>1. UNCHANGED <<stored, dbQueue, watched, events, toUpdate, loading, tasks, touched,
                      timerActive, phase>>
      BY <2>6 DEF vars, guiVars
    <3>2. AddedOnce' /\ Simple'
      BY <3>1 DEF FlagsInv, AddedOnce, Simple
    <3> QED  BY <3>1, <3>2, OthersKeepTruth DEF FlagsInv, UnderwayTrue
  <2> QED  BY <2>1, <2>2, <2>3, <2>4, <2>5, <2>6 DEF Next
<1> QED  BY <1>1, <1>2, PTL DEF Spec

\* A flag in the backend never says more than the backend has.
THEOREM FlagsNeverAhead == Spec => []FlagsNotAhead
BY TruthIsInvariant, PTL DEF FlagsInv

\* What is lost are fields of photos.
LEMMA LostIsTyped == Spec => [](lost \subseteq Photos \X Fields)
<1>1. Init => lost \subseteq Photos \X Fields
  BY DEF Init
<1>2. FlagsInv /\ lost \subseteq Photos \X Fields /\ [Next]_vars
        => (lost \subseteq Photos \X Fields)'
  <2> SUFFICES ASSUME FlagsInv, lost \subseteq Photos \X Fields, [Next]_vars
               PROVE  lost' \subseteq Photos \X Fields
    OBVIOUS
  <2>1. CASE Execute
    <3> DEFINE task == Head(dbQueue)
    <3>1. task.kind = "broken" => task.photo \in Photos
      BY <2>1, QueueTail, RequestKinds DEF Execute
    <3> HIDE DEF task
    <3>2. \/ UNCHANGED lost
          \/ \E deltas : lost' = lost \cup {r \in Photos \X Fields : r[2] \in deltas[r[1]].fields}
          \/ task.kind = "broken" /\ lost' = lost \cup {<<task.photo, "geometry">>}
      BY <2>1 DEF Execute, ExecuteDangling, ExecuteScan, ExecuteAdd, ExecuteLoad,
                  ExecuteUpdate, ExecuteBroken, FailsToStore, task
    <3> QED  BY <3>1, <3>2 DEF Fields
  <2>2. CASE UNCHANGED lost
    BY <2>2
  <2> QED  BY <2>1, <2>2 DEF Next, HandleEvent, FlushTimeout, Worker, Perform, TaskFinished,
                             StopBegin, StopEnd, ScanCollection, vars
<1> QED  BY <1>1, <1>2, TruthIsInvariant, PTL DEF Spec

\* Every variable holds values of its type.
THEOREM TypeCorrect == Spec => []TypeOK
<1>1. FlagsInv /\ lost \subseteq Photos \X Fields => TypeOK
  <2> SUFFICES ASSUME FlagsInv, lost \subseteq Photos \X Fields  PROVE TypeOK
    OBVIOUS
  <2>1. /\ stored \in [Photos -> PhotoStates] /\ Simple
        /\ dbQueue \in Seq(TrueRequests(stored))
        /\ events \in Seq(TrueEvents(stored))
        /\ toUpdate \in Seq(KnownPhotos(stored))
        /\ tasks \in Seq(TrueTasks(stored))
        /\ touched \in TrueDeltas(stored)
    BY DEF FlagsInv, UnderwayTrue
  <2>2. /\ KnownPhotos(stored) \subseteq Photos
        /\ TrueTasks(stored) \subseteq TaskStates
        /\ TrueDeltas(stored) \subseteq [Photos -> Deltas]
        /\ TrueData(stored) \subseteq [photo : Photos, flags : [Flags -> {0, 1}]]
    BY DEF KnownPhotos, TrueTasks, TrueDeltas, TrueData
  <2>3. /\ Seq(KnownPhotos(stored)) \subseteq Seq(Photos)
        /\ Seq(TrueTasks(stored)) \subseteq Seq(TaskStates)
        /\ Seq(TrueData(stored)) \subseteq Seq([photo : Photos, flags : [Flags -> {0, 1}]])
    BY <2>2, SeqMonotonic
  <2>4. TrueRequests(stored) \subseteq Requests
    BY <2>2, <2>3 DEF TrueRequests, Requests
  <2>5. TrueEvents(stored) \subseteq Events
    BY <2>2, <2>3 DEF TrueEvents, Events
  <2>6. dbQueue \in Seq(Requests) /\ events \in Seq(Events)
    BY <2>1, <2>4, <2>5, SeqMonotonic
  <2> QED  BY <2>1, <2>2, <2>3, <2>6 DEF TypeOK, Simple
<1> QED  BY <1>1, LostIsTyped, TruthIsInvariant, PTL

-----------------------------------------------------------------------------
(* One batch at a time: counted over the two queues, requests for a batch  *)
(* and answers to one are one as long as m_loadingPhotos is set, and none  *)
(* when it is not; every step that moves a batch on keeps the count.       *)

\* Where the calls of a kind are.
Places(calls, kind) == {i \in DOMAIN calls : calls[i].kind = kind}

\* A call that is appended counts for its kind.
LEMMA CountAppend ==
    ASSUME NEW S, NEW calls \in Seq(S), NEW call \in S, NEW kind
    PROVE  /\ Cardinality(Places(calls, kind)) \in Nat
           /\ Cardinality(Places(Append(calls, call), kind))
              = Cardinality(Places(calls, kind)) + IF call.kind = kind THEN 1 ELSE 0
<1> DEFINE n == Len(calls)
<1>1. /\ n \in Nat /\ DOMAIN calls = 1 .. n
      /\ DOMAIN Append(calls, call) = 1 .. n + 1
      /\ \A i \in 1 .. n : Append(calls, call)[i] = calls[i]
      /\ Append(calls, call)[n + 1] = call
  BY AppendProperties
<1> HIDE DEF n
<1>2. IsFiniteSet(Places(calls, kind))
  <2>1. Places(calls, kind) \subseteq 1 .. n
    BY <1>1 DEF Places
  <2>2. IsFiniteSet(1 .. n)
    BY <1>1, FS_Interval
  <2> QED  BY <2>1, <2>2, FS_Subset
<1>3. n + 1 \notin Places(calls, kind)
  BY <1>1 DEF Places
<1>4. CASE call.kind = kind
  <2>1. Places(Append(calls, call), kind) = Places(calls, kind) \cup {n + 1}
    BY <1>1, <1>4 DEF Places
  <2> QED  BY <1>2, <1>3, <1>4, <2>1, FS_AddElement, FS_CardinalityType
<1>5. CASE call.kind # kind
  <2>1. Places(Append(calls, call), kind) = Places(calls, kind)
    BY <1>1, <1>5 DEF Places
  <2>2. Cardinality(Places(calls, kind)) \in Nat
    BY <1>2, FS_CardinalityType
  <2> QED  BY <1>5, <2>1, <2>2
<1> QED  BY <1>4, <1>5

\* A call that is taken from the head no longer counts for its kind.
LEMMA CountTail ==
    ASSUME NEW S, NEW calls \in Seq(S), calls # <<>>, NEW kind
    PROVE  /\ Cardinality(Places(Tail(calls), kind)) \in Nat
           /\ Cardinality(Places(calls, kind))
              = Cardinality(Places(Tail(calls), kind)) + IF Head(calls).kind = kind THEN 1 ELSE 0
<1> DEFINE n == Len(calls)
           P == Places(calls, kind)
           Q == Places(Tail(calls), kind)
           f == [i \in Q |-> i + 1]
<1>1. /\ n \in Nat /\ n # 0 /\ DOMAIN calls = 1 .. n
      /\ DOMAIN Tail(calls) = 1 .. n - 1
      /\ \A i \in 1 .. n - 1 : Tail(calls)[i] = calls[i + 1]
      /\ Head(calls) = calls[1]
  BY HeadTailProperties
<1> HIDE DEF n
<1>2. P \subseteq 1 .. n /\ Q \subseteq 1 .. n - 1
  BY <1>1 DEF Places
<1>3. IsFiniteSet(P) /\ IsFiniteSet(Q)
  BY <1>1, <1>2, FS_Interval, FS_Subset
<1>4. Q = {i \in 1 .. n - 1 : calls[i + 1].kind = kind}
  BY <1>1 DEF Places
<1>5. P = {i \in 1 .. n : calls[i].kind = kind}
  BY <1>1 DEF Places
<1> HIDE DEF P, Q
<1>6. f \in Bijection(Q, P \ {1})
  <2>1. ASSUME NEW i \in Q  PROVE i + 1 \in P \ {1}
    BY <1>1, <1>4, <1>5
  <2>2. ASSUME NEW j \in P \ {1}  PROVE \E i \in Q : f[i] = j
    <3>1. j - 1 \in Q /\ j - 1 + 1 = j
      BY <1>1, <1>4, <1>5
    <3> QED  BY <3>1
  <2>3. \A i, j \in Q : i + 1 = j + 1 => i = j
    BY <1>1, <1>2
  <2>4. f \in [Q -> P \ {1}]
    BY <2>1
  <2>5. \A i, j \in Q : f[i] = f[j] => i = j
    BY <2>3
  <2> HIDE DEF f
  <2> QED  BY <2>2, <2>4, <2>5 DEF Bijection, Injection, Surjection, IsInjective
<1>7. Cardinality(P \ {1}) = Cardinality(Q)
  BY <1>3, <1>6, FS_Bijection DEF ExistsBijection
<1>8. Cardinality(P) \in Nat /\ Cardinality(Q) \in Nat
  BY <1>3, FS_CardinalityType
<1>9. 1 \in P <=> Head(calls).kind = kind
  BY <1>1, <1>5
<1>10. Cardinality(P \ {1}) = IF 1 \in P THEN Cardinality(P) - 1 ELSE Cardinality(P)
  BY <1>3, FS_RemoveElement
<1>11. Cardinality(P) = Cardinality(Q) + IF Head(calls).kind = kind THEN 1 ELSE 0
  <2>1. CASE Head(calls).kind = kind
    BY <1>7, <1>8, <1>9, <1>10, <2>1
  <2>2. CASE Head(calls).kind # kind
    BY <1>7, <1>8, <1>9, <1>10, <2>2
  <2> QED  BY <2>1, <2>2
<1> QED  BY <1>8, <1>11 DEF P, Q

\* Counts are numbers.
LEMMA CountsAreNumbers ==
    ASSUME NEW S, NEW calls \in Seq(S), NEW kind
    PROVE  Cardinality(Places(calls, kind)) \in Nat
<1>1. Places(calls, kind) \subseteq 1 .. Len(calls)
  BY DEF Places
<1>2. IsFiniteSet(1 .. Len(calls))
  BY FS_Interval
<1> QED  BY <1>1, <1>2, FS_Subset, FS_CardinalityType

\* Batches with the database and batches on their way back.
Loads == Cardinality(Places(dbQueue, "load"))
Answers == Cardinality(Places(events, "updatePhotos"))

\* What the counts may be, while m_loadingPhotos is "busy".
Fits(loads, answers, busy) ==
    \/ ~ busy /\ loads = 0 /\ answers = 0
    \/ busy /\ loads = 1 /\ answers = 0
    \/ busy /\ loads = 0 /\ answers = 1

OneBatch == phase = "running" => Fits(Loads, Answers, loading)

\* processPhotos() sends a batch only if there is none.
LEMMA ProcessCountsBatches ==
    ASSUME TypeOK, NEW list, ProcessPhotos(list), Fits(Loads, Answers', loading)
    PROVE  Fits(Loads', Answers', loading')
<1>1. CASE MayLoad(list)
  <2> DEFINE request == [kind |-> "load", photos |-> Batch(list)]
  <2>1. dbQueue' = Append(dbQueue, request) /\ loading' = TRUE /\ ~ loading /\ request.kind = "load"
    BY <1>1 DEF ProcessPhotos, MayLoad
  <2>2. dbQueue \in Seq(Requests \cup {request})
    BY SeqMonotonic DEF TypeOK
  <2> HIDE DEF request
  <2>3. Loads = 0 /\ Answers' = 0
    BY <2>1 DEF Fits
  <2>4. Loads' = Loads + 1
    BY <2>1, <2>2, CountAppend DEF Loads
  <2>5. Loads' = 1
    BY <2>3, <2>4
  <2> QED  BY <2>1, <2>3, <2>5 DEF Fits
<1>2. CASE ~ MayLoad(list)
  BY <1>2 DEF ProcessPhotos, Loads
<1> QED  BY <1>1, <1>2

\* A request of another kind, appended.
LEMMA OtherRequest ==
    ASSUME TypeOK, NEW request, request.kind # "load", dbQueue' = Append(dbQueue, request)
    PROVE  Loads' = Loads
<1>1. dbQueue \in Seq(Requests \cup {request})
  BY SeqMonotonic DEF TypeOK
<1> QED  BY <1>1, CountAppend DEF Loads

\* A call of another kind, appended.
LEMMA OtherCall ==
    ASSUME TypeOK, NEW call, call.kind # "updatePhotos", events' = Append(events, call)
    PROVE  Answers' = Answers
<1>1. events \in Seq(Events \cup {call})
  BY SeqMonotonic DEF TypeOK
<1> QED  BY <1>1, CountAppend DEF Answers

\* The database's thread turns a request for a batch into its answer.
LEMMA ExecuteCountsBatches ==
    ASSUME TypeOK, OneBatch, Execute, phase' = "running"
    PROVE  OneBatch'
<1> DEFINE task == Head(dbQueue)
<1>1. /\ dbQueue \in Seq(Requests) /\ events \in Seq(Events)
      /\ Loads \in Nat /\ Answers \in Nat
  BY CountsAreNumbers DEF TypeOK, Loads, Answers
<1>2. phase = "running" /\ dbQueue # <<>> /\ dbQueue' = Tail(dbQueue) /\ UNCHANGED loading
  BY DEF Execute, ExecuteDangling, guiVars
<1>3. Fits(Loads, Answers, loading)
  BY <1>2 DEF OneBatch
<1>4. /\ Loads' \in Nat
      /\ task.kind = "load" => Loads # 0 /\ (Loads = 1 => Loads' = 0)
      /\ task.kind # "load" => Loads = Loads'
  <2>1. /\ Cardinality(Places(Tail(dbQueue), "load")) \in Nat
        /\ Cardinality(Places(dbQueue, "load"))
           = Cardinality(Places(Tail(dbQueue), "load")) + IF task.kind = "load" THEN 1 ELSE 0
    BY <1>1, <1>2, CountTail
  <2> HIDE DEF task
  <2> QED  BY <1>2, <2>1 DEF Loads
<1>5. CASE task.kind = "load"
  <2> DEFINE data == [i \in DOMAIN task.photos |->
                        [photo |-> task.photos[i], flags |-> stored[task.photos[i]].flags]]
             answer == [kind |-> "updatePhotos", photos |-> data]
  <2>1. events' = Append(events, answer)
    BY <1>2, <1>5 DEF Execute, ExecuteLoad, ExecuteDangling
  <2>2. events \in Seq(Events \cup {answer}) /\ answer.kind = "updatePhotos"
    BY <1>1, SeqMonotonic
  <2> HIDE DEF answer, task
  <2>3. Answers' = Answers + 1
    BY <1>1, <2>1, <2>2, CountAppend DEF Answers
  <2>4. Loads # 0
    BY <1>4, <1>5
  <2>5. loading /\ Loads = 1 /\ Answers = 0
    BY <1>3, <2>4 DEF Fits
  <2>6. Loads' = 0
    BY <1>4, <1>5, <2>5
  <2>7. Answers' = 1
    BY <2>3, <2>5
  <2> QED  BY <1>2, <2>5, <2>6, <2>7 DEF OneBatch, Fits
<1>6. CASE task.kind # "load"
  <2>1. UNCHANGED events \/ \E photos : events' = Append(events, Announce(photos))
    BY <1>2, <1>6
       DEF Execute, ExecuteDangling, ExecuteScan, ExecuteAdd, ExecuteUpdate, ExecuteBroken
  <2>2. ASSUME NEW photos, events' = Append(events, Announce(photos))  PROVE Answers' = Answers
    BY <2>2, OtherCall DEF Announce
  <2>3. Answers' = Answers /\ Loads' = Loads
    BY <1>4, <1>6, <2>1, <2>2 DEF Answers
  <2> QED  BY <1>2, <1>3, <2>3 DEF OneBatch
<1> QED  BY <1>5, <1>6

\* The calls of the GUI thread count batches right.
LEMMA HandleCountsBatches ==
    ASSUME TypeOK, OneBatch, HandleEvent
    PROVE  OneBatch'
<1> DEFINE event == Head(events)
<1>1. /\ dbQueue \in Seq(Requests) /\ events \in Seq(Events)
      /\ Loads \in Nat /\ Answers \in Nat
  BY CountsAreNumbers DEF TypeOK, Loads, Answers
<1>2. phase = "running" /\ events # <<>> /\ events' = Tail(events) /\ UNCHANGED phase
  BY DEF HandleEvent
<1>3. Fits(Loads, Answers, loading)
  BY <1>2 DEF OneBatch
<1>4. /\ Answers' \in Nat
      /\ event.kind = "updatePhotos" => Answers # 0 /\ (Answers = 1 => Answers' = 0)
      /\ event.kind # "updatePhotos" => Answers = Answers'
  <2>1. /\ Cardinality(Places(Tail(events), "updatePhotos")) \in Nat
        /\ Cardinality(Places(events, "updatePhotos"))
           = Cardinality(Places(Tail(events), "updatePhotos"))
             + IF event.kind = "updatePhotos" THEN 1 ELSE 0
    BY <1>1, <1>2, CountTail
  <2> HIDE DEF event
  <2> QED  BY <1>2, <2>1 DEF Answers
<1> HIDE DEF event
<1>5. CASE event.kind \in {"addPhotos", "photoProcessed"}
  <2>1. PICK list : ProcessPhotos(list)
    BY <1>5 DEF HandleEvent, AddPhotos, PhotoProcessed, event
  <2>2. Answers' = Answers
    BY <1>4, <1>5
  <2>3. Fits(Loads', Answers', loading')
    BY <1>3, <2>1, <2>2, ProcessCountsBatches
  <2> QED  BY <2>3 DEF OneBatch
<1>6. CASE event.kind = "updatePhotos"
  <2>1. loading' = FALSE /\ UNCHANGED dbQueue
    BY <1>6 DEF HandleEvent, UpdatePhotos, event
  <2>2. Answers # 0
    BY <1>4, <1>6
  <2>3. Loads = 0 /\ Answers = 1
    BY <1>3, <2>2 DEF Fits
  <2>4. Answers' = 0
    BY <1>4, <1>6, <2>3
  <2>5. Loads' = 0
    BY <2>1, <2>3 DEF Loads
  <2> QED  BY <2>1, <2>4, <2>5 DEF OneBatch, Fits
<1>7. CASE event.kind = "apply"
  <2>1. UNCHANGED <<loading, dbQueue>>
    BY <1>7 DEF HandleEvent, Apply, event
  <2>2. Loads' = Loads /\ Answers' = Answers
    BY <1>4, <1>7, <2>1 DEF Loads
  <2> QED  BY <1>3, <2>1, <2>2 DEF OneBatch
<1>8. CASE event.kind = "applyFlags"
  <2>1. /\ UNCHANGED loading
        /\ dbQueue' = Append(dbQueue, [kind |-> "broken", photo |-> event.photo])
    BY <1>8 DEF HandleEvent, ApplyFlags, guiVars, event
  <2>2. Loads' = Loads /\ Answers' = Answers
    BY <1>4, <1>8, <2>1, OtherRequest
  <2> QED  BY <1>3, <2>1, <2>2 DEF OneBatch
<1> QED  BY <1>5, <1>6, <1>7, <1>8 DEF HandleEvent, event

\* One batch at a time, for every number of photos and workers and every
\* interleaving.
THEOREM OneBatchAlways == Spec => []OneBatchAtATime
<1>1. Init => OneBatch
  <2> SUFFICES ASSUME Init  PROVE OneBatch
    OBVIOUS
  <2>1. dbQueue = <<[kind |-> "scan"]>> /\ events = <<>> /\ loading = FALSE
    BY DEF Init
  <2>2. Places(dbQueue, "load") = {} /\ Places(events, "updatePhotos") = {}
    <3>1. DOMAIN dbQueue = {1} /\ dbQueue[1].kind = "scan" /\ DOMAIN events = {}
      BY <2>1
    <3> QED  BY <3>1 DEF Places
  <2> QED  BY <2>1, <2>2, FS_EmptySet DEF OneBatch, Fits, Loads, Answers
<1>2. OneBatch /\ TypeOK /\ [Next]_vars => OneBatch'
  <2> SUFFICES ASSUME OneBatch, TypeOK, [Next]_vars, phase' = "running"
               PROVE  OneBatch'
    BY DEF OneBatch
  <2>1. CASE Execute
    BY <2>1, ExecuteCountsBatches
  <2>2. CASE HandleEvent
    BY <2>2, HandleCountsBatches
  <2>3. CASE FlushTimeout
    <3>1. Loads' = Loads
      <4>1. CASE touched = Untouched
        BY <2>3, <4>1 DEF FlushTimeout, FlushCache, Loads
      <4>2. CASE touched # Untouched
        BY <2>3, <4>2, OtherRequest DEF FlushTimeout, FlushCache
      <4> QED  BY <4>1, <4>2
    <3>2. UNCHANGED <<events, loading, phase>>
      BY <2>3 DEF FlushTimeout
    <3> QED  BY <3>1, <3>2 DEF OneBatch, Answers
  <2>4. CASE Worker
    <3>1. PICK i : Perform(i) \/ TaskFinished(i)
      BY <2>4 DEF Worker
    <3>2. \E call : call.kind # "updatePhotos" /\ events' = Append(events, call)
      BY <3>1 DEF Perform, TaskFinished, Result
    <3>3. UNCHANGED <<dbQueue, loading, phase>>
      BY <3>1 DEF Perform, TaskFinished, guiVars
    <3>4. Answers' = Answers
      BY <3>2, OtherCall
    <3> QED  BY <3>3, <3>4 DEF OneBatch, Loads
  <2>5. CASE StopBegin \/ StopEnd
    BY <2>5 DEF StopBegin, StopEnd
  <2>6. CASE \E photos \in SUBSET Photos : ScanCollection(photos)
    <3>1. UNCHANGED <<events, loading, phase>>
      BY <2>6 DEF ScanCollection, guiVars
    <3>2. \E request : request.kind # "load" /\ dbQueue' = Append(dbQueue, request)
      BY <2>6 DEF ScanCollection
    <3>3. Loads' = Loads
      BY <3>2, OtherRequest
    <3> QED  BY <3>1, <3>3 DEF OneBatch, Answers
  <2>7. CASE UNCHANGED vars
    BY <2>7 DEF vars, guiVars, OneBatch, Loads, Answers
  <2> QED  BY <2>1, <2>2, <2>3, <2>4, <2>5, <2>6, <2>7 DEF Next
<1>3. OneBatch => OneBatchAtATime
  <2> SUFFICES ASSUME OneBatch, phase = "running"
               PROVE  Loads + Answers = IF loading THEN 1 ELSE 0
    BY DEF OneBatchAtATime, Loads, Answers, Places
  <2>1. Fits(Loads, Answers, loading)
    BY DEF OneBatch
  <2> QED  BY <2>1 DEF Fits
<1> QED  BY <1>1, <1>2, <1>3, TypeCorrect, PTL DEF Spec

-----------------------------------------------------------------------------
(* No photo is forgotten: once photosAdded is watched, what the backend    *)
(* lacks of a photo is held somewhere, and every step passes it on to the  *)
(* next place.  FlagsInv is needed twice: for the photos updatePhotos()    *)
(* makes no task of, as their flags are set, and for those the scan does   *)
(* not find, for the same reason.                                          *)

\* What a call carries, brings or stores, and what a task is for.
Carries(call, p) == p \in Range(Carried(call))

Results(call, p, field) ==
    \/ call.kind = "apply" /\ call.photo = p /\ field \in call.delta.fields
    \/ call.kind = "applyFlags" /\ call.photo = p /\ field = "geometry"

Stores(call, p, field) ==
    \/ call.kind = "update" /\ field \in call.deltas[p].fields
    \/ call.kind = "broken" /\ call.photo = p /\ field = "geometry"

Performs(task, p, field) == task.photo = p /\ task.kind = field /\ ~ task.performed

\* Where what the backend lacks of a photo is to be found.
InStore(p, field) == ~ stored[p].known \/ stored[p].broken \/ field \in stored[p].data
InTasks(p, field) == \E t \in Range(tasks) : Performs(t, p, field)
InEvents(p, field) == \E e \in Range(events) : Carries(e, p) \/ Results(e, p, field)
InQueue(p, field) == \E r \in Range(dbQueue) : Carries(r, p) \/ Stores(r, p, field)
InList(p) == p \in Range(toUpdate)
InTouched(p, field) == field \in touched[p].fields
InLost(p, field) == <<p, field>> \in lost

Held(p, field) ==
    \/ InStore(p, field)
    \/ InTasks(p, field)
    \/ InEvents(p, field)
    \/ InQueue(p, field)
    \/ InList(p)
    \/ InTouched(p, field)
    \/ InLost(p, field)

AllHeld == phase = "running" /\ watched => \A p \in Photos, field \in Fields : Held(p, field)

\* The types the steps rely on.
Typed ==
    /\ stored \in [Photos -> PhotoStates]
    /\ dbQueue \in Seq(TrueRequests(stored))
    /\ events \in Seq(TrueEvents(stored))
    /\ toUpdate \in Seq(Photos)
    /\ tasks \in Seq(TrueTasks(stored))
    /\ touched \in [Photos -> Deltas]

\* The invariant of the flags gives them.
LEMMA InvariantIsTyped == ASSUME FlagsInv  PROVE Typed
<1>1. toUpdate \in Seq(Photos)
  <2>1. toUpdate \in Seq(KnownPhotos(stored)) /\ KnownPhotos(stored) \subseteq Photos
    BY DEF FlagsInv, UnderwayTrue, KnownPhotos
  <2> QED  BY <2>1, SeqMonotonic
<1>2. touched \in [Photos -> Deltas]
  BY DEF FlagsInv, UnderwayTrue, TrueDeltas
<1> QED  BY <1>1, <1>2 DEF Typed, FlagsInv, UnderwayTrue

\* Before the scan: what the backend lacks has its flag at zero.
LEMMA ScanFinds ==
    ASSUME FlagsInv, NEW p \in Photos, NEW field \in Fields, ~ InStore(p, field)
    PROVE  Uninitialized(stored[p])
<1>1. stored[p] \in PhotoStates /\ FlagsNotAhead
  BY DEF FlagsInv
<1>2. stored[p].flags["ExifLoaded"] \in {0, 1} /\ stored[p].flags["GeometryLoaded"] \in {0, 1}
  BY <1>1 DEF PhotoStates, Flags
<1> QED  BY <1>1, <1>2 DEF FlagsNotAhead, InStore, Fields, Uninitialized

\* What Carried() gives for each kind.
LEMMA CarriedPhotos ==
    ASSUME NEW call
    PROVE  /\ call.kind \in {"addPhotos", "load"} => Carried(call) = call.photos
           /\ call.kind = "updatePhotos"
                 => Carried(call) = [i \in DOMAIN call.photos |-> call.photos[i].photo]
           /\ call.kind \notin {"addPhotos", "load", "updatePhotos"} => Carried(call) = <<>>
BY DEF Carried

\* Calls of the other kinds carry no photo.
LEMMA NothingCarried ==
    ASSUME NEW call, NEW p, call.kind \notin {"addPhotos", "load", "updatePhotos"}
    PROVE  ~ Carries(call, p)
<1>1. Range(<<>>) = {}
  BY DEF Range
<1> QED  BY <1>1, CarriedPhotos DEF Carries

\* What the database's thread takes from its queue.
LEMMA ExecuteHolds ==
    ASSUME FlagsInv, Execute, AllHeld, phase' = "running", watched',
           NEW p \in Photos, NEW field \in Fields
    PROVE  Held(p, field)'
<1> DEFINE task == Head(dbQueue)
<1>1. Typed
  BY InvariantIsTyped
<1>2. /\ phase = "running" /\ dbQueue # <<>> /\ dbQueue' = Tail(dbQueue)
      /\ UNCHANGED <<tasks, toUpdate, touched>>
  BY DEF Execute, ExecuteDangling, guiVars
<1>3. Range(dbQueue) = {task} \cup Range(dbQueue') /\ task \in TrueRequests(stored)
  <2>1. dbQueue \in Seq(TrueRequests(stored))
    BY <1>1 DEF Typed
  <2> QED  BY <1>2, <2>1, RangeOfTail, HeadTailProperties
<1> HIDE DEF task
<1>4. stored \in [Photos -> PhotoStates] /\ events \in Seq(TrueEvents(stored))
  BY <1>1 DEF Typed
<1>5. Range(events) \subseteq Range(events')
  <2>1. UNCHANGED events \/ \E e : events' = Append(events, e)
    BY <1>2 DEF Execute, ExecuteDangling, ExecuteScan, ExecuteAdd, ExecuteLoad, ExecuteUpdate,
                ExecuteBroken
  <2> QED  BY <1>4, <2>1, RangeOfAppend
<1>6. SUFFICES ASSUME ~ InStore(p, field)'  PROVE Held(p, field)'
  BY DEF Held
<1>11. lost \subseteq lost'
  BY <1>2 DEF Execute, ExecuteDangling, ExecuteScan, ExecuteAdd, ExecuteLoad, ExecuteUpdate,
              ExecuteBroken, FailsToStore
<1>7. ASSUME \/ InTasks(p, field) \/ InList(p) \/ InTouched(p, field) \/ InEvents(p, field)
             \/ InLost(p, field)
      PROVE  Held(p, field)'
  BY <1>2, <1>5, <1>7, <1>11 DEF Held, InTasks, InList, InTouched, InEvents, InLost
<1>8. ASSUME NEW r \in Range(dbQueue), r # task, Carries(r, p) \/ Stores(r, p, field)
      PROVE  Held(p, field)'
  BY <1>3, <1>8 DEF Held, InQueue
<1>9. CASE task.kind = "scan"
  <2>1. ExecuteScan
    BY <1>2, <1>9 DEF Execute, ExecuteDangling, task
  <2>2. ~ InStore(p, field)
    BY <1>6, <2>1 DEF ExecuteScan, InStore
  <2> DEFINE found == {q \in Photos : Uninitialized(stored[q])}
  <2>3. events' = Append(events, Announce(SetToSeq(found)))
    BY <2>1 DEF ExecuteScan
  <2>4. p \in found
    BY <2>2, ScanFinds
  <2>5. IsFiniteSet(found)
    BY AnalyzerAssumption, FS_Subset
  <2>6. p \in Range(SetToSeq(found))
    BY <2>4, <2>5, SetToSeqProperties
  <2> HIDE DEF found
  <2>7. Carries(Announce(SetToSeq(found)), p)
    BY <2>6, CarriedPhotos DEF Carries, Announce
  <2>8. Announce(SetToSeq(found)) \in Range(events')
    BY <1>4, <2>3, RangeOfAppend
  <2> QED  BY <2>7, <2>8 DEF Held, InEvents
<1>10. CASE task.kind # "scan"
  <2>1. watched
    BY <1>2, <1>10 DEF Execute, ExecuteDangling, ExecuteAdd, ExecuteLoad, ExecuteUpdate,
                       ExecuteBroken, task
  <2>2. Held(p, field)
    BY <1>2, <2>1 DEF AllHeld
  <2>3. CASE InStore(p, field)
    <3>1. ExecuteAdd(task.photos) /\ task.kind = "add" /\ p \in task.photos
      <4>1. stored'[p] # stored[p] /\ stored[p] \in PhotoStates
        BY <1>4, <1>6, <2>3 DEF InStore
      <4>2. \/ task.kind = "add" /\ ExecuteAdd(task.photos)
            \/ task.kind = "load" /\ ExecuteLoad(task.photos)
            \/ task.kind = "update" /\ ExecuteUpdate(task.deltas)
            \/ task.kind = "broken" /\ ExecuteBroken(task.photo)
        BY <1>2, <1>10 DEF Execute, ExecuteDangling, task
      <4>3. ~ ExecuteLoad(task.photos)
        BY <4>1 DEF ExecuteLoad
      <4>4. ~ ExecuteUpdate(task.deltas)
        <5> SUFFICES ASSUME ExecuteUpdate(task.deltas)  PROVE FALSE
          OBVIOUS
        <5>1. stored'[p] = [stored[p] EXCEPT !.data = @ \cup task.deltas[p].fields,
                                             !.flags = StoreFlags(task.deltas[p].flags)]
          BY <4>1 DEF ExecuteUpdate, FailsToStore
        <5>2. /\ stored'[p].known = stored[p].known /\ stored'[p].broken = stored[p].broken
              /\ stored[p].data \subseteq stored'[p].data
          BY <4>1, <5>1 DEF PhotoStates
        <5> QED  BY <1>6, <2>3, <5>2 DEF InStore
      <4>5. ~ ExecuteBroken(task.photo)
        BY <1>4, <1>6, <2>3, <4>1 DEF ExecuteBroken, FailsToStore, InStore, PhotoStates
      <4>6. ExecuteAdd(task.photos) => p \in task.photos
        BY <4>1 DEF ExecuteAdd
      <4> QED  BY <4>2, <4>3, <4>4, <4>5, <4>6
    <3>2. events' = Append(events, Announce(SetToSeq(task.photos)))
      BY <2>1, <3>1 DEF ExecuteAdd
    <3>3. task.photos \subseteq Photos
      BY <1>3, <3>1, RequestKinds
    <3>4. p \in Range(SetToSeq(task.photos))
      <4>1. IsFiniteSet(task.photos)
        BY <3>3, AnalyzerAssumption, FS_Subset
      <4> QED  BY <3>1, <4>1, SetToSeqProperties
    <3>5. Carries(Announce(SetToSeq(task.photos)), p)
      BY <3>4, CarriedPhotos DEF Carries, Announce
    <3>6. Announce(SetToSeq(task.photos)) \in Range(events')
      BY <1>4, <3>2, RangeOfAppend
    <3> QED  BY <3>5, <3>6 DEF Held, InEvents
  <2>4. CASE Carries(task, p)
    <3>1. task.kind = "load"
      BY <1>3, <2>4, NothingCarried, RequestKinds
    <3> DEFINE photos == task.photos
               data == [i \in DOMAIN photos |-> [photo |-> photos[i],
                                                 flags |-> stored[photos[i]].flags]]
               answer == [kind |-> "updatePhotos", photos |-> data]
    <3>2. events' = Append(events, answer)
      BY <1>2, <3>1 DEF Execute, ExecuteDangling, ExecuteLoad, task
    <3>3. PICK i \in DOMAIN photos : photos[i] = p
      BY <2>4, <3>1, CarriedPhotos DEF Carries, Range
    <3>4. DOMAIN data = DOMAIN photos /\ data[i].photo = p
      BY <3>3
    <3>5. answer.kind = "updatePhotos" /\ answer.photos = data
      OBVIOUS
    <3> HIDE DEF answer, data, photos
    <3>6. Carries(answer, p)
      <4>1. Carried(answer) = [j \in DOMAIN data |-> data[j].photo]
        BY <3>5, CarriedPhotos
      <4>2. i \in DOMAIN Carried(answer) /\ Carried(answer)[i] = p
        BY <3>3, <3>4, <4>1
      <4> QED  BY <4>2 DEF Carries, Range
    <3>7. answer \in Range(events')
      BY <1>4, <3>2, RangeOfAppend
    <3> QED  BY <3>6, <3>7 DEF Held, InEvents
  <2>5. CASE Stores(task, p, field)
    <3>1. CASE task.kind = "update"
      <4>1. ExecuteUpdate(task.deltas)
        BY <1>2, <3>1 DEF Execute, ExecuteDangling, task
      <4>2. field \in task.deltas[p].fields
        BY <2>5, <3>1 DEF Stores
      <4>3. task.deltas[p] # NoDelta
        BY <4>2 DEF NoDelta
      <4>4. CASE FailsToStore({r \in Photos \X Fields : r[2] \in task.deltas[r[1]].fields})
        <5>1. <<p, field>> \in {r \in Photos \X Fields : r[2] \in task.deltas[r[1]].fields}
          BY <4>2
        <5> QED  BY <4>4, <5>1 DEF FailsToStore, Held, InLost
      <4>5. CASE ~ FailsToStore({r \in Photos \X Fields : r[2] \in task.deltas[r[1]].fields})
        <5>1. stored'[p] = [stored[p] EXCEPT !.data = @ \cup task.deltas[p].fields,
                                             !.flags = StoreFlags(task.deltas[p].flags)]
          BY <4>1, <4>3, <4>5 DEF ExecuteUpdate
        <5>2. field \in stored'[p].data
          BY <1>4, <4>2, <5>1 DEF PhotoStates
        <5> QED  BY <5>2 DEF Held, InStore
      <4> QED  BY <4>4, <4>5
    <3>2. CASE task.kind = "broken"
      <4>1. ExecuteBroken(p) /\ field = "geometry"
        BY <1>2, <2>5, <3>2 DEF Execute, ExecuteDangling, Stores, task
      <4>2. CASE FailsToStore({<<p, "geometry">>})
        BY <4>1, <4>2 DEF FailsToStore, Held, InLost
      <4>3. CASE ~ FailsToStore({<<p, "geometry">>})
        <5>1. stored'[p].broken
          BY <1>4, <4>1, <4>3 DEF ExecuteBroken, PhotoStates
        <5> QED  BY <5>1 DEF Held, InStore
      <4> QED  BY <4>2, <4>3
    <3> QED  BY <2>5, <3>1, <3>2 DEF Stores
  <2> QED  BY <1>7, <1>8, <2>2, <2>3, <2>4, <2>5 DEF Held, InQueue
<1> QED  BY <1>9, <1>10

\* processPhotos() leaves every photo in the list or sends it with the batch.
LEMMA ProcessHolds ==
    ASSUME Typed, NEW list \in Seq(Photos), ProcessPhotos(list),
           NEW p \in Range(list)
    PROVE  InList(p)' \/ \E r \in Range(dbQueue') : Carries(r, p)
<1>1. CASE ~ MayLoad(list)
  BY <1>1 DEF ProcessPhotos, InList
<1>2. CASE MayLoad(list)
  <2> DEFINE n == IF Len(list) < Workers THEN Len(list) ELSE Workers
             request == [kind |-> "load", photos |-> Batch(list)]
  <2>1. PICK i \in 1 .. Len(list) : list[i] = p
    BY DEF Range
  <2>2. Len(list) \in Nat /\ n \in 1 .. Len(list)
    BY <2>1, AnalyzerAssumption
  <2>3. /\ Batch(list) = SubSeq(list, 1, n)
        /\ toUpdate' = WithoutBatch(list)
        /\ dbQueue' = Append(dbQueue, request)
    BY <1>2 DEF ProcessPhotos, Batch
  <2> HIDE DEF n
  <2>4. /\ Len(Batch(list)) = n /\ DOMAIN Batch(list) = 1 .. n
        /\ \A j \in 1 .. n : Batch(list)[j] = list[j]
    BY <2>2, <2>3, SubSeqProperties
  <2>5. CASE i \in 1 .. n
    <3>1. p \in Range(Batch(list))
      BY <2>1, <2>4, <2>5 DEF Range
    <3>2. Carries(request, p)
      BY <3>1, CarriedPhotos DEF Carries
    <3>3. request \in Range(dbQueue')
      BY <2>3, RangeOfAppend DEF Typed
    <3> QED  BY <3>2, <3>3
  <2>6. CASE i \notin 1 .. n
    <3>1. i \in n + 1 .. Len(list)
      BY <2>2, <2>6
    <3>2. WithoutBatch(list) = SubSeq(list, n + 1, Len(list))
      BY <2>4 DEF WithoutBatch
    <3>3. /\ DOMAIN WithoutBatch(list) = 1 .. Len(list) - n
          /\ WithoutBatch(list)[i - n] = list[i]
          /\ i - n \in 1 .. Len(list) - n
      BY <2>2, <3>1, <3>2, SubSeqProperties
    <3> QED  BY <2>1, <2>3, <3>3 DEF InList, Range
  <2> QED  BY <2>5, <2>6
<1> QED  BY <1>1, <1>2

\* What updatePhotos() finds missing gets a task.
LEMMA TaskForMissing ==
    ASSUME NEW st \in [Photos -> PhotoStates], NEW data \in TrueData(st),
           NEW field \in Fields, field \notin st[data.photo].data
    PROVE  \E t \in Range(TasksFor(data)) : Performs(t, data.photo, field)
<1> DEFINE Task(kind) == [kind |-> kind, photo |-> data.photo, flags |-> data.flags,
                          performed |-> FALSE]
           G == IF data.flags["GeometryLoaded"] = 0 THEN <<Task("geometry")>> ELSE <<>>
           E == IF data.flags["ExifLoaded"] = 0 THEN <<Task("tags")>> ELSE <<>>
           S == {Task("geometry"), Task("tags")}
<1>1. /\ data.flags["GeometryLoaded"] \in {0, 1} /\ data.flags["ExifLoaded"] \in {0, 1}
      /\ FlagsTrue(st[data.photo], data.flags)
  BY DEF TrueData, Flags
<1>2. Performs(Task(field), data.photo, field)
  BY DEF Performs
<1>3. TasksFor(data) = G \o E
  BY DEF TasksFor
<1>4. \A t : Range(<<t>>) = {t}
  BY DEF Range
<1>5. G \in Seq(S) /\ E \in Seq(S)
  <2>1. Task("geometry") \in S /\ Task("tags") \in S
    OBVIOUS
  <2> HIDE DEF Task, S
  <2> QED  BY <2>1
<1>6. Task(field) \in Range(G) \cup Range(E)
  <2>1. CASE field = "geometry"
    <3>1. G = <<Task("geometry")>>
      BY <1>1, <2>1 DEF FlagsTrue
    <3> HIDE DEF Task, G
    <3> QED  BY <1>4, <2>1, <3>1
  <2>2. CASE field = "tags"
    <3>1. E = <<Task("tags")>>
      BY <1>1, <2>2 DEF FlagsTrue
    <3> HIDE DEF Task, E
    <3> QED  BY <1>4, <2>2, <3>1
  <2> QED  BY <2>1, <2>2 DEF Fields
<1> HIDE DEF G, E, S
<1>7. Range(TasksFor(data)) = Range(G) \cup Range(E)
  BY <1>3, <1>5, RangeConcatenation
<1> QED  BY <1>2, <1>6, <1>7

\* The photos of an announcement.
LEMMA AnnouncedPhotos ==
    ASSUME NEW st, NEW e \in TrueEvents(st), e.kind = "addPhotos"
    PROVE  e.photos \in Seq(Photos)
<1>1. e.photos \in Seq(KnownPhotos(st)) /\ KnownPhotos(st) \subseteq Photos
  BY EventKinds DEF KnownPhotos
<1> QED  BY <1>1, SeqMonotonic

\* updatePhotos() adds the tasks of all photos it was given.
LEMMA MadeTasks ==
    ASSUME NEW st \in [Photos -> PhotoStates], NEW e \in TrueEvents(st), e.kind = "updatePhotos",
           tasks \in Seq(TrueTasks(st)), UpdatePhotos(e.photos)
    PROVE  /\ \E made : /\ tasks' = tasks \o FlattenSeq(made)
                        /\ FlattenSeq(made) \in Seq(TrueTasks(st))
           /\ \A i \in DOMAIN e.photos : Range(TasksFor(e.photos[i])) \subseteq Range(tasks')
<1> DEFINE photos == e.photos
           made == [i \in DOMAIN photos |-> TasksFor(photos[i])]
<1>1. photos \in Seq(TrueData(st))
  BY EventKinds
<1> HIDE DEF photos
<1>2. Len(photos) \in Nat /\ DOMAIN photos = 1 .. Len(photos)
  BY <1>1
<1>3. made \in Seq(Seq(TrueTasks(st))) /\ Len(made) = Len(photos)
  <2>1. \A i \in 1 .. Len(photos) : TasksFor(photos[i]) \in Seq(TrueTasks(st))
    BY <1>1, <1>2, TasksAreTrue
  <2>2. made \in [1 .. Len(photos) -> Seq(TrueTasks(st))]
    BY <1>2, <2>1
  <2> HIDE DEF made
  <2>3. made \in Seq(Seq(TrueTasks(st)))
    BY <1>2, <2>2, SeqDef
  <2> QED  BY <1>2, <2>2, <2>3
<1>4. tasks' = tasks \o FlattenSeq(made)
  BY DEF UpdatePhotos, photos
<1>5. \A i \in DOMAIN photos : made[i] = TasksFor(photos[i])
  OBVIOUS
<1> HIDE DEF made
<1>6. /\ FlattenSeq(made) \in Seq(TrueTasks(st))
      /\ \A t : t \in Range(FlattenSeq(made)) <=> \E i \in 1 .. Len(made) : t \in Range(made[i])
  BY <1>3, FlattenSeqProperties
<1>7. Range(tasks') = Range(tasks) \cup Range(FlattenSeq(made))
  BY <1>4, <1>6, RangeConcatenation
<1> QED  BY <1>2, <1>3, <1>4, <1>5, <1>6, <1>7 DEF photos

\* The posted calls of the GUI thread.
LEMMA HandleHolds ==
    ASSUME Typed, HandleEvent, AllHeld, watched, NEW p \in Photos, NEW field \in Fields
    PROVE  Held(p, field)'
<1> DEFINE event == Head(events)
<1>1. /\ stored \in [Photos -> PhotoStates]
      /\ dbQueue \in Seq(TrueRequests(stored))
      /\ events \in Seq(TrueEvents(stored))
      /\ toUpdate \in Seq(Photos)
      /\ tasks \in Seq(TrueTasks(stored))
      /\ touched \in [Photos -> Deltas]
  BY DEF Typed
<1>2. /\ phase = "running" /\ events # <<>> /\ events' = Tail(events)
      /\ UNCHANGED stored
  BY DEF HandleEvent
<1>3. Range(events) = {event} \cup Range(events') /\ event \in TrueEvents(stored)
  BY <1>1, <1>2, RangeOfTail, HeadTailProperties
<1> HIDE DEF event
<1>4. Held(p, field)
  BY <1>2 DEF AllHeld
<1>5. CASE InStore(p, field)
  BY <1>2, <1>5 DEF InStore, Held
<1>15. CASE InLost(p, field)
  BY <1>15 DEF HandleEvent, InLost, Held
<1>6. ASSUME NEW e \in Range(events), e # event, Carries(e, p) \/ Results(e, p, field)
      PROVE  Held(p, field)'
  BY <1>3, <1>6 DEF Held, InEvents
<1>7. \/ event.kind = "addPhotos" /\ AddPhotos(event.photos)
      \/ event.kind = "photoProcessed" /\ PhotoProcessed
      \/ event.kind = "updatePhotos" /\ UpdatePhotos(event.photos)
      \/ event.kind = "apply" /\ Apply(event.photo, event.delta)
      \/ event.kind = "applyFlags" /\ ApplyFlags(event.photo)
  BY DEF HandleEvent, event
<1>8. Range(dbQueue) \subseteq Range(dbQueue')
  <2>1. UNCHANGED dbQueue \/ \E r : dbQueue' = Append(dbQueue, r)
    BY <1>7 DEF AddPhotos, PhotoProcessed, ProcessPhotos, UpdatePhotos, Apply, ApplyFlags
  <2> QED  BY <1>1, <2>1, RangeOfAppend
<1>9. CASE InQueue(p, field)
  BY <1>8, <1>9 DEF InQueue, Held
<1>10. CASE InTasks(p, field)
  <2>1. Range(tasks) \subseteq Range(tasks')
    <3>1. CASE UNCHANGED tasks
      BY <3>1
    <3>2. CASE UpdatePhotos(event.photos) /\ event.kind = "updatePhotos"
      <4>1. PICK made : tasks' = tasks \o FlattenSeq(made) /\ FlattenSeq(made) \in Seq(TrueTasks(stored))
        BY <1>1, <1>3, <3>2, MadeTasks
      <4> QED  BY <1>1, <4>1, RangeConcatenation
    <3> QED  BY <1>7, <3>1, <3>2 DEF AddPhotos, PhotoProcessed, Apply, ApplyFlags
  <2> QED  BY <1>10, <2>1 DEF InTasks, Held
<1>11. CASE InTouched(p, field)
  <2>1. touched[p].fields \subseteq touched'[p].fields
    <3>1. CASE UNCHANGED touched
      BY <3>1
    <3>2. CASE Apply(event.photo, event.delta)
      BY <1>1, <3>2 DEF Apply, Merged
    <3> QED  BY <1>7, <3>1, <3>2 DEF AddPhotos, PhotoProcessed, UpdatePhotos, ApplyFlags, guiVars
  <2> QED  BY <1>11, <2>1 DEF InTouched, Held
<1>12. CASE InList(p)
  <2>1. CASE event.kind = "addPhotos"
    <3>1. event.photos \in Seq(Photos)
      BY <1>3, <2>1, AnnouncedPhotos
    <3>2. toUpdate \o event.photos \in Seq(Photos) /\ p \in Range(toUpdate \o event.photos)
      BY <1>1, <1>12, <3>1, RangeConcatenation, ConcatProperties DEF InList
    <3>3. ProcessPhotos(toUpdate \o event.photos)
      BY <1>7, <2>1 DEF AddPhotos
    <3> QED  BY <3>2, <3>3, ProcessHolds DEF Held, InQueue
  <2>2. CASE event.kind = "photoProcessed"
    BY <1>1, <1>7, <1>12, <2>2, ProcessHolds DEF PhotoProcessed, InList, Held, InQueue
  <2>3. CASE event.kind \notin {"addPhotos", "photoProcessed"}
    <3>1. UNCHANGED toUpdate
      BY <1>7, <2>3 DEF UpdatePhotos, Apply, ApplyFlags, guiVars
    <3> QED  BY <1>12, <3>1 DEF InList, Held
  <2> QED  BY <2>1, <2>2, <2>3
<1>13. CASE Carries(event, p)
  <2>1. CASE event.kind = "addPhotos"
    <3>1. event.photos \in Seq(Photos) /\ p \in Range(event.photos)
      BY <1>3, <1>13, <2>1, AnnouncedPhotos, CarriedPhotos DEF Carries
    <3>2. toUpdate \o event.photos \in Seq(Photos) /\ p \in Range(toUpdate \o event.photos)
      BY <1>1, <3>1, RangeConcatenation, ConcatProperties
    <3>3. ProcessPhotos(toUpdate \o event.photos)
      BY <1>7, <2>1 DEF AddPhotos
    <3> QED  BY <3>2, <3>3, ProcessHolds DEF Held, InQueue
  <2>2. CASE event.kind = "updatePhotos"
    <3>1. PICK i \in DOMAIN event.photos : event.photos[i].photo = p
      <4>1. Carried(event) = [i \in DOMAIN event.photos |-> event.photos[i].photo]
        BY <2>2, CarriedPhotos
      <4> QED  BY <1>13, <4>1 DEF Carries, Range
    <3>2. event.photos[i] \in TrueData(stored)
      BY <1>3, <2>2, <3>1, EventKinds
    <3>3. CASE field \in stored[p].data
      BY <1>2, <3>3 DEF InStore, Held
    <3>4. CASE field \notin stored[p].data
      <4>1. PICK t \in Range(TasksFor(event.photos[i])) : Performs(t, p, field)
        BY <1>1, <3>1, <3>2, <3>4, TaskForMissing
      <4>2. t \in Range(tasks')
        BY <1>1, <1>3, <1>7, <2>2, <3>1, <4>1, MadeTasks
      <4> QED  BY <4>1, <4>2 DEF InTasks, Held
    <3> QED  BY <3>3, <3>4
  <2>3. event.kind \in {"addPhotos", "updatePhotos"}
    BY <1>3, <1>13, NothingCarried, EventKinds
  <2> QED  BY <2>1, <2>2, <2>3
<1>14. CASE Results(event, p, field)
  <2>1. CASE event.kind = "apply"
    <3>1. event.photo = p /\ field \in event.delta.fields
      BY <1>14, <2>1 DEF Results
    <3>2. touched' = [touched EXCEPT ![p] = Merged(touched[p], event.delta)]
      BY <1>7, <2>1, <3>1 DEF Apply
    <3>3. field \in touched'[p].fields
      BY <1>1, <3>1, <3>2 DEF Merged
    <3> QED  BY <3>3 DEF InTouched, Held
  <2>2. CASE event.kind = "applyFlags"
    <3> DEFINE request == [kind |-> "broken", photo |-> p]
    <3>1. dbQueue' = Append(dbQueue, request) /\ field = "geometry"
      BY <1>7, <1>14, <2>2 DEF ApplyFlags, Results
    <3>2. Stores(request, p, field)
      BY <3>1 DEF Stores
    <3> HIDE DEF request
    <3>3. request \in Range(dbQueue')
      BY <1>1, <3>1, RangeOfAppend
    <3> QED  BY <3>2, <3>3 DEF InQueue, Held
  <2> QED  BY <1>14, <2>1, <2>2 DEF Results
<1> QED  BY <1>4, <1>5, <1>6, <1>9, <1>10, <1>11, <1>12, <1>13, <1>14, <1>15 DEF Held, InEvents

\* What is before and after a place of a sequence.
LEMMA PartsAround ==
    ASSUME NEW T, NEW s \in Seq(T), NEW i \in 1 .. Len(s)
    PROVE  LET before == SubSeq(s, 1, i - 1)
               after == SubSeq(s, i + 1, Len(s))
           IN  /\ before \in Seq(T) /\ after \in Seq(T)
               /\ DOMAIN before = 1 .. i - 1 /\ DOMAIN after = 1 .. Len(s) - i
               /\ \A k \in 1 .. i - 1 : before[k] = s[k]
               /\ \A k \in 1 .. Len(s) - i : after[k] = s[i + k]
<1>1. /\ Len(s) \in Nat /\ i \in Int /\ 1 <= i /\ i <= Len(s)
      /\ \A k \in 1 .. Len(s) : s[k] \in T
  OBVIOUS
<1>2. /\ SubSeq(s, 1, i - 1) \in Seq(T)
      /\ Len(SubSeq(s, 1, i - 1)) = i - 1
      /\ \A k \in 1 .. i - 1 : SubSeq(s, 1, i - 1)[k] = s[k]
  <2>1. \A k \in 1 .. i - 1 : s[k] \in T
    BY <1>1
  <2>2. /\ SubSeq(s, 1, i - 1) \in Seq(T)
        /\ Len(SubSeq(s, 1, i - 1)) = IF 1 <= i - 1 THEN (i - 1) - 1 + 1 ELSE 0
        /\ \A k \in 1 .. (i - 1) - 1 + 1 : SubSeq(s, 1, i - 1)[k] = s[1 + k - 1]
    BY <1>1, <2>1, SubSeqProperties
  <2> QED  BY <1>1, <2>2
<1>3. /\ SubSeq(s, i + 1, Len(s)) \in Seq(T)
      /\ Len(SubSeq(s, i + 1, Len(s))) = Len(s) - i
      /\ \A k \in 1 .. Len(s) - i : SubSeq(s, i + 1, Len(s))[k] = s[i + k]
  <2>1. \A k \in i + 1 .. Len(s) : s[k] \in T
    BY <1>1
  <2>2. /\ SubSeq(s, i + 1, Len(s)) \in Seq(T)
        /\ Len(SubSeq(s, i + 1, Len(s))) = IF i + 1 <= Len(s) THEN Len(s) - (i + 1) + 1 ELSE 0
        /\ \A k \in 1 .. Len(s) - (i + 1) + 1 : SubSeq(s, i + 1, Len(s))[k] = s[i + 1 + k - 1]
    BY <1>1, <2>1, SubSeqProperties
  <2> QED  BY <1>1, <2>2
<1> QED  BY <1>2, <1>3

\* The workers: a task that is performed posts what it was for.
LEMMA WorkerHolds ==
    ASSUME Typed, Worker, AllHeld, phase = "running", watched,
           NEW p \in Photos, NEW field \in Fields
    PROVE  Held(p, field)'
<1>1. events \in Seq(TrueEvents(stored)) /\ tasks \in Seq(TrueTasks(stored))
  BY DEF Typed
<1>2. Held(p, field)
  BY DEF AllHeld
<1>3. PICK i : i \in 1 .. Workers /\ (Perform(i) \/ TaskFinished(i))
  BY DEF Worker
<1>4. UNCHANGED <<stored, dbQueue, toUpdate, touched, lost>>
  BY <1>3 DEF Perform, TaskFinished, guiVars
<1>5. i \in 1 .. Len(tasks) /\ Len(tasks) \in Nat /\ DOMAIN tasks = 1 .. Len(tasks)
  <2>1. i \in DOMAIN tasks
    BY <1>3 DEF Perform, TaskFinished, InWork
  <2> QED  BY <1>1, <2>1
<1>6. Range(events) \subseteq Range(events')
  <2>1. \E e : events' = Append(events, e)
    BY <1>3 DEF Perform, TaskFinished
  <2> QED  BY <1>1, <2>1, RangeOfAppend
<1>7. CASE ~ InTasks(p, field)
  BY <1>2, <1>4, <1>6, <1>7
     DEF Held, InStore, InEvents, InQueue, InList, InTouched, InLost
<1>8. CASE InTasks(p, field)
  <2>1. PICK j \in 1 .. Len(tasks) : Performs(tasks[j], p, field)
    BY <1>5, <1>8 DEF InTasks, Range
  <2>2. CASE Perform(i) /\ j = i
    <3>1. events' = Append(events, Result(tasks[i]))
      BY <2>2 DEF Perform
    <3>2. Results(Result(tasks[i]), p, field)
      BY <2>1, <2>2 DEF Performs, Result, Results, Fields
    <3>3. Result(tasks[i]) \in Range(events')
      BY <1>1, <3>1, RangeOfAppend
    <3> QED  BY <3>2, <3>3 DEF InEvents, Held
  <2>3. CASE Perform(i) /\ j # i
    <3>1. DOMAIN tasks' = 1 .. Len(tasks) /\ tasks'[j] = tasks[j]
      BY <1>5, <2>1, <2>3 DEF Perform
    <3> QED  BY <2>1, <3>1 DEF InTasks, Held, Range
  <2>4. CASE TaskFinished(i)
    <3>1. tasks[i].performed
      BY <2>4 DEF TaskFinished
    <3>2. j # i
      BY <2>1, <3>1 DEF Performs
    <3> DEFINE before == SubSeq(tasks, 1, i - 1)
               after == SubSeq(tasks, i + 1, Len(tasks))
               T == TrueTasks(stored)
    <3> HIDE DEF T
    <3>3. tasks' = before \o after /\ tasks \in Seq(T)
      BY <1>1, <2>4 DEF TaskFinished, RemoveAt, T
    <3>4. /\ before \in Seq(T) /\ after \in Seq(T)
          /\ DOMAIN before = 1 .. i - 1 /\ DOMAIN after = 1 .. Len(tasks) - i
          /\ \A k \in 1 .. i - 1 : before[k] = tasks[k]
          /\ \A k \in 1 .. Len(tasks) - i : after[k] = tasks[i + k]
      BY <1>5, <3>3, PartsAround
    <3> HIDE DEF before, after
    <3>5. Range(tasks') = Range(before) \cup Range(after)
      BY <3>3, <3>4, RangeConcatenation
    <3>6. CASE j < i
      <4>1. j \in DOMAIN before /\ before[j] = tasks[j]
        BY <1>5, <2>1, <3>4, <3>6
      <4> QED  BY <2>1, <3>5, <4>1 DEF InTasks, Held, Range
    <3>7. CASE j > i
      <4>1. j - i \in DOMAIN after /\ after[j - i] = tasks[j]
        <5>1. j - i \in 1 .. Len(tasks) - i /\ i + (j - i) = j
          BY <1>5, <2>1, <3>7
        <5> QED  BY <3>4, <5>1
      <4> QED  BY <2>1, <3>5, <4>1 DEF InTasks, Held, Range
    <3> QED  BY <1>5, <2>1, <3>2, <3>6, <3>7
  <2> QED  BY <1>3, <2>2, <2>3, <2>4
<1> QED  BY <1>7, <1>8

\* The flush timer: what was touched goes to the database's queue.
LEMMA FlushHolds ==
    ASSUME Typed, FlushTimeout, AllHeld, watched, NEW p \in Photos, NEW field \in Fields
    PROVE  Held(p, field)'
<1>1. dbQueue \in Seq(TrueRequests(stored))
  BY DEF Typed
<1>2. /\ phase = "running" /\ FlushCache
      /\ UNCHANGED <<stored, events, toUpdate, tasks, lost>>
  BY DEF FlushTimeout
<1>3. Held(p, field)
  BY <1>2 DEF AllHeld
<1>4. Range(dbQueue) \subseteq Range(dbQueue')
  <2>1. UNCHANGED dbQueue \/ \E r : dbQueue' = Append(dbQueue, r)
    BY <1>2 DEF FlushCache
  <2>2. ASSUME NEW r, dbQueue' = Append(dbQueue, r)  PROVE Range(dbQueue) \subseteq Range(dbQueue')
    BY <1>1, <2>2, RangeOfAppend
  <2> QED  BY <2>1, <2>2
<1>5. CASE ~ InTouched(p, field)
  BY <1>2, <1>3, <1>4, <1>5 DEF Held, InStore, InEvents, InQueue, InList, InTasks, InLost
<1>6. CASE InTouched(p, field)
  <2> DEFINE request == [kind |-> "update", deltas |-> touched]
  <2>1. touched # Untouched
    BY <1>6 DEF InTouched, Untouched, NoDelta
  <2>2. dbQueue' = Append(dbQueue, request)
    BY <1>2, <2>1 DEF FlushCache
  <2>3. Stores(request, p, field)
    BY <1>6 DEF Stores, InTouched
  <2> HIDE DEF request
  <2>4. request \in Range(dbQueue')
    BY <1>1, <2>2, RangeOfAppend
  <2> QED  BY <2>3, <2>4 DEF InQueue, Held
<1> QED  BY <1>5, <1>6

\* AllHeld, for all behaviours.
LEMMA HeldIsInvariant == Spec => []AllHeld
<1>1. Init => AllHeld
  BY DEF Init, AllHeld
<1>2. FlagsInv /\ AllHeld /\ [Next]_vars => AllHeld'
  <2> SUFFICES ASSUME FlagsInv, AllHeld, [Next]_vars, phase' = "running", watched',
                      NEW p \in Photos, NEW field \in Fields
               PROVE  Held(p, field)'
    BY DEF AllHeld
  <2>1. Typed
    BY InvariantIsTyped
  <2>2. CASE Execute
    BY <2>2, ExecuteHolds
  <2>3. CASE HandleEvent
    <3>1. watched
      BY <2>3 DEF HandleEvent
    <3> QED  BY <2>1, <2>3, <3>1, HandleHolds
  <2>4. CASE FlushTimeout
    <3>1. watched
      BY <2>4 DEF FlushTimeout
    <3> QED  BY <2>1, <2>4, <3>1, FlushHolds
  <2>5. CASE Worker
    <3>1. watched /\ phase = "running"
      BY <2>5 DEF Worker, Perform, TaskFinished
    <3> QED  BY <2>1, <2>5, <3>1, WorkerHolds
  <2>6. CASE StopBegin \/ StopEnd
    BY <2>6 DEF StopBegin, StopEnd
  <2>7. CASE \E photos \in SUBSET Photos : ScanCollection(photos)
    <3>1. /\ \E r : dbQueue' = Append(dbQueue, r)
          /\ phase = "running" /\ watched
          /\ UNCHANGED <<stored, events, tasks, toUpdate, touched, lost>>
      BY <2>7 DEF ScanCollection, guiVars
    <3>2. Range(dbQueue) \subseteq Range(dbQueue')
      BY <2>1, <3>1, RangeOfAppend DEF Typed
    <3>3. Held(p, field)
      BY <3>1 DEF AllHeld
    <3> QED  BY <3>1, <3>2, <3>3 DEF Held, InStore, InEvents, InQueue, InList, InTasks, InTouched,
                                       InLost
  <2>8. CASE UNCHANGED vars
    <3>1. /\ phase = "running" /\ watched
          /\ UNCHANGED <<stored, dbQueue, events, tasks, toUpdate, touched, lost>>
      BY <2>8 DEF vars, guiVars
    <3>2. Held(p, field)
      BY <3>1 DEF AllHeld
    <3> QED  BY <3>1, <3>2 DEF Held, InStore, InEvents, InQueue, InList, InTasks, InTouched,
                                       InLost
  <2> QED  BY <2>2, <2>3, <2>4, <2>5, <2>6, <2>7, <2>8 DEF Next
<1> QED  BY <1>1, <1>2, TruthIsInvariant, PTL DEF Spec

\* The photos the calls of a queue carry.
LEMMA CarriedByElements ==
    ASSUME NEW S, NEW calls \in Seq(S), \A call \in S : Carried(call) \in Seq(Photos)
    PROVE  /\ CarriedBy(calls) \in Seq(Photos)
           /\ \A p : p \in Range(CarriedBy(calls)) <=> \E call \in Range(calls) : Carries(call, p)
<1> DEFINE all == [i \in DOMAIN calls |-> Carried(calls[i])]
<1>1. Len(calls) \in Nat /\ DOMAIN calls = 1 .. Len(calls) /\ \A i \in 1 .. Len(calls) : calls[i] \in S
  OBVIOUS
<1>2. \A i \in 1 .. Len(calls) : all[i] = Carried(calls[i])
  BY <1>1
<1>3. all \in Seq(Seq(Photos)) /\ Len(all) = Len(calls)
  <2>1. all \in [1 .. Len(calls) -> Seq(Photos)]
    BY <1>1
  <2> HIDE DEF all
  <2>2. Len(calls) \in Nat
    BY <1>1
  <2> QED  BY <2>1, <2>2, FunctionIsSeq
<1>4. CarriedBy(calls) = FlattenSeq(all)
  BY DEF CarriedBy
<1> HIDE DEF all
<1>5. /\ FlattenSeq(all) \in Seq(Photos)
      /\ \A p : p \in Range(FlattenSeq(all)) <=> \E i \in 1 .. Len(all) : p \in Range(all[i])
  BY <1>3, FlattenSeqProperties
<1>6. ASSUME NEW p
      PROVE  (\E i \in 1 .. Len(all) : p \in Range(all[i]))
             <=> \E call \in Range(calls) : Carries(call, p)
  <2>1. \A i \in 1 .. Len(calls) : p \in Range(all[i]) <=> Carries(calls[i], p)
    BY <1>2 DEF Carries
  <2>2. Range(calls) = {calls[i] : i \in 1 .. Len(calls)}
    BY <1>1 DEF Range
  <2> QED  BY <1>3, <2>1, <2>2
<1> QED  BY <1>4, <1>5, <1>6

\* What Carried() gives of true calls.
LEMMA CarriedAreTyped ==
    ASSUME NEW st
    PROVE  /\ \A r \in TrueRequests(st) : Carried(r) \in Seq(Photos)
           /\ \A e \in TrueEvents(st) : Carried(e) \in Seq(Photos)
<1>1. /\ KnownPhotos(st) \subseteq Photos
      /\ Seq(KnownPhotos(st)) \subseteq Seq(Photos)
  <2>1. KnownPhotos(st) \subseteq Photos
    BY DEF KnownPhotos
  <2> QED  BY <2>1, SeqMonotonic
<1>2. ASSUME NEW r \in TrueRequests(st)  PROVE Carried(r) \in Seq(Photos)
  BY <1>1, RequestKinds, CarriedPhotos, EmptySeq
<1>3. ASSUME NEW e \in TrueEvents(st)  PROVE Carried(e) \in Seq(Photos)
  <2>1. CASE e.kind # "updatePhotos"
    BY <1>1, <2>1, EventKinds, CarriedPhotos, EmptySeq
  <2>2. CASE e.kind = "updatePhotos"
    <3>1. e.photos \in Seq(TrueData(st))
      BY <2>2, EventKinds
    <3>2. Len(e.photos) \in Nat /\ DOMAIN e.photos = 1 .. Len(e.photos)
      BY <3>1
    <3>3. \A i \in 1 .. Len(e.photos) : e.photos[i].photo \in Photos
      <4>1. \A d \in TrueData(st) : d.photo \in Photos
        BY <1>1 DEF TrueData
      <4> QED  BY <3>1, <4>1
    <3>4. Carried(e) \in [1 .. Len(e.photos) -> Photos]
      BY <2>2, <3>2, <3>3, CarriedPhotos
    <3> QED  BY <3>2, <3>4, SeqDef
  <2> QED  BY <2>1, <2>2
<1> QED  BY <1>2, <1>3

\* Only an update that fails forgets a photo, and only what it was to store: for
\* every number of photos and workers, every limit and every interleaving,
\* whichever updates fail.
THEOREM NothingEverForgotten == Spec => []NothingForgotten
<1>1. FlagsInv /\ AllHeld => NothingForgotten
  <2> SUFFICES ASSUME FlagsInv, AllHeld, phase = "running", NEW p \in Photos, NEW field \in Fields
               PROVE  \/ ~ stored[p].known \/ stored[p].broken
                      \/ field \in stored[p].data
                      \/ ~ watched /\ Uninitialized(stored[p])
                      \/ p \in Range(Underway)
                      \/ HasTask(p, field) \/ HasResult(p, field)
                      \/ field \in touched[p].fields
                      \/ BeingStored(p, field)
                      \/ <<p, field>> \in lost /\ Uninitialized(stored[p])
    BY DEF NothingForgotten
  <2>1. CASE InStore(p, field)
    BY <2>1 DEF InStore
  <2>2. CASE ~ watched
    BY <2>2, ScanFinds DEF InStore
  <2>3. CASE watched
    <3>1. Held(p, field)
      BY <2>3 DEF AllHeld
    <3>2. /\ dbQueue \in Seq(TrueRequests(stored)) /\ events \in Seq(TrueEvents(stored))
          /\ toUpdate \in Seq(Photos)
      BY InvariantIsTyped DEF Typed
    <3>3. Range(Underway) = Range(toUpdate) \cup Range(CarriedBy(events)) \cup Range(CarriedBy(dbQueue))
      <4>1. CarriedBy(events) \in Seq(Photos) /\ CarriedBy(dbQueue) \in Seq(Photos)
        BY <3>2, CarriedAreTyped, CarriedByElements
      <4>2. toUpdate \o CarriedBy(events) \in Seq(Photos)
        BY <3>2, <4>1, ConcatProperties
      <4>3. Range(Underway) = Range(toUpdate \o CarriedBy(events)) \cup Range(CarriedBy(dbQueue))
        <5> DEFINE front == toUpdate \o CarriedBy(events)
                   back == CarriedBy(dbQueue)
        <5>1. front \in Seq(Photos) /\ back \in Seq(Photos) /\ Underway = front \o back
          BY <4>1, <4>2 DEF Underway
        <5> HIDE DEF front, back
        <5>2. Range(Underway) = Range(front) \cup Range(back)
          BY <5>1, RangeConcatenation
        <5> QED  BY <5>2 DEF front, back
      <4>4. Range(toUpdate \o CarriedBy(events)) = Range(toUpdate) \cup Range(CarriedBy(events))
        BY <3>2, <4>1, RangeConcatenation
      <4> QED  BY <4>3, <4>4
    <3>4. CASE InList(p)
      BY <3>3, <3>4 DEF InList
    <3>5. CASE \E call \in Range(events) : Carries(call, p)
      BY <3>2, <3>3, <3>5, CarriedAreTyped, CarriedByElements
    <3>6. CASE \E call \in Range(dbQueue) : Carries(call, p)
      BY <3>2, <3>3, <3>6, CarriedAreTyped, CarriedByElements
    <3>7. CASE InTasks(p, field)
      BY <3>7 DEF InTasks, Performs, HasTask, Range
    <3>8. CASE \E call \in Range(events) : Results(call, p, field)
      BY <3>8 DEF Results, HasResult, Range
    <3>9. CASE \E call \in Range(dbQueue) : Stores(call, p, field)
      BY <3>9 DEF Stores, BeingStored, Range
    <3>10. CASE InLost(p, field) /\ ~ InStore(p, field)
      BY <3>10, ScanFinds DEF InLost
    <3> QED
      BY <2>1, <3>1, <3>4, <3>5, <3>6, <3>7, <3>8, <3>9, <3>10
         DEF Held, InEvents, InQueue, InTouched
  <2> QED  BY <2>1, <2>2, <2>3
<1> QED  BY <1>1, TruthIsInvariant, HeldIsInvariant, PTL

-----------------------------------------------------------------------------
(* A photo is analysed once.  Apart says it of the places a photo may be   *)
(* in, which no step makes two of: a step takes photos from one place and  *)
(* puts them into the next.  Two steps bring new ones: the scan, which is  *)
(* why ScanIsFirst has it executed before anything is under way, and the   *)
(* adding of photos, which FlagsInv says are not in the backend yet, while *)
(* all that is under way is.                                               *)

\* The photos the calls of a queue hold, and that no photo is in it twice.
Holds(calls) == UNION {Range(Carried(calls[i])) : i \in DOMAIN calls}

OnceEach(calls) ==
    /\ \A i \in DOMAIN calls : IsInjective(Carried(calls[i]))
    /\ \A i, j \in DOMAIN calls :
          Range(Carried(calls[i])) \cap Range(Carried(calls[j])) # {} => i = j

\* The photos that have tasks, and that none has two tasks of a kind.
Worked(list) == {list[i].photo : i \in DOMAIN list}

OneOfAKind(list) ==
    \A i, j \in DOMAIN list : list[i].photo = list[j].photo /\ list[i].kind = list[j].kind => i = j

\* A call is appended that carries each photo once, and none that is in the queue.
LEMMA OnceEachAppend ==
    ASSUME NEW S, NEW calls \in Seq(S), NEW call, OnceEach(calls), IsInjective(Carried(call)),
           Range(Carried(call)) \cap Holds(calls) = {}
    PROVE  /\ OnceEach(Append(calls, call))
           /\ Holds(Append(calls, call)) = Holds(calls) \cup Range(Carried(call))
<1> DEFINE new == Append(calls, call)
           n == Len(calls)
<1>1. /\ n \in Nat /\ DOMAIN calls = 1 .. n
      /\ DOMAIN new = 1 .. n \cup {n + 1}
      /\ \A i \in 1 .. n : new[i] = calls[i]
      /\ new[n + 1] = call
  <2>1. calls \in Seq(S \cup {call})
    BY SeqMonotonic
  <2>2. /\ n \in Nat /\ DOMAIN calls = 1 .. n
        /\ DOMAIN new = 1 .. n + 1
        /\ \A i \in 1 .. n : new[i] = calls[i]
        /\ new[n + 1] = call
    BY <2>1, AppendProperties
  <2>3. 1 .. n + 1 = 1 .. n \cup {n + 1}
    BY <2>2
  <2> QED  BY <2>2, <2>3
<1> HIDE DEF new, n
<1>2. Holds(new) = Holds(calls) \cup Range(Carried(call))
  BY <1>1 DEF Holds
<1>3. \A i \in DOMAIN new : IsInjective(Carried(new[i]))
  BY <1>1 DEF OnceEach
<1>4. ASSUME NEW i \in DOMAIN new, NEW j \in DOMAIN new,
             Range(Carried(new[i])) \cap Range(Carried(new[j])) # {}
      PROVE  i = j
  <2>1. CASE i \in 1 .. n /\ j \in 1 .. n
    BY <1>1, <1>4, <2>1 DEF OnceEach
  <2>2. CASE i = n + 1 /\ j = n + 1
    BY <2>2
  <2>3. \A k \in 1 .. n : Range(Carried(calls[k])) \cap Range(Carried(call)) = {}
    BY <1>1 DEF Holds
  <2>4. CASE i \in 1 .. n /\ j = n + 1
    BY <1>1, <1>4, <2>3, <2>4
  <2>5. CASE i = n + 1 /\ j \in 1 .. n
    BY <1>1, <1>4, <2>3, <2>5
  <2> QED  BY <1>1, <2>1, <2>2, <2>4, <2>5
<1> QED  BY <1>2, <1>3, <1>4 DEF OnceEach, new

\* The head of a queue is taken: it carries each photo once, and none of the others.
LEMMA OnceEachTail ==
    ASSUME NEW S, NEW calls \in Seq(S), calls # <<>>, OnceEach(calls)
    PROVE  /\ OnceEach(Tail(calls))
           /\ IsInjective(Carried(Head(calls)))
           /\ Range(Carried(Head(calls))) \cap Holds(Tail(calls)) = {}
           /\ Holds(calls) = Range(Carried(Head(calls))) \cup Holds(Tail(calls))
<1> DEFINE t == Tail(calls)
           h == Head(calls)
           n == Len(calls)
<1>1. /\ n \in Nat /\ DOMAIN calls = 1 .. n /\ n # 0
      /\ calls[1] = h
      /\ DOMAIN t = 1 .. n - 1
      /\ \A i \in 1 .. n - 1 : t[i] = calls[i + 1]
  BY HeadTailProperties
<1> HIDE DEF t, h, n
<1>2. /\ 1 \in DOMAIN calls
      /\ \A i \in DOMAIN t : i + 1 \in DOMAIN calls /\ t[i] = calls[i + 1] /\ i + 1 # 1
      /\ \A i, j \in DOMAIN t : i + 1 = j + 1 => i = j
      /\ \A i \in DOMAIN calls : i = 1 \/ (i - 1 \in DOMAIN t /\ t[i - 1] = calls[i])
  <2>1. \A i \in DOMAIN calls : i = 1 \/ (i - 1 \in 1 .. n - 1 /\ (i - 1) + 1 = i)
    BY <1>1
  <2> QED  BY <1>1, <2>1
<1>3. OnceEach(t)
  BY <1>2 DEF OnceEach
<1>4. IsInjective(Carried(h))
  BY <1>1, <1>2 DEF OnceEach
<1>5. \A i \in DOMAIN t : Range(Carried(h)) \cap Range(Carried(t[i])) = {}
  BY <1>1, <1>2 DEF OnceEach
<1>6. Range(Carried(h)) \cap Holds(t) = {}
  BY <1>5 DEF Holds
<1>7. Holds(calls) = Range(Carried(h)) \cup Holds(t)
  <2>1. Holds(calls) \subseteq Range(Carried(h)) \cup Holds(t)
    <3> SUFFICES ASSUME NEW i \in DOMAIN calls, NEW p \in Range(Carried(calls[i]))
                 PROVE  p \in Range(Carried(h)) \cup Holds(t)
      BY DEF Holds
    <3>1. CASE i = 1
      BY <1>1, <3>1
    <3>2. CASE i - 1 \in DOMAIN t /\ t[i - 1] = calls[i]
      BY <3>2 DEF Holds
    <3> QED  BY <1>2, <3>1, <3>2
  <2>2. Holds(t) \subseteq Holds(calls)
    BY <1>2 DEF Holds
  <2>3. Range(Carried(h)) \subseteq Holds(calls)
    BY <1>1, <1>2 DEF Holds
  <2> QED  BY <2>1, <2>2, <2>3
<1> QED  BY <1>3, <1>4, <1>6, <1>7 DEF t, h

\* A queue in which no photo is twice carries none twice.
LEMMA CarriedByOnce ==
    ASSUME NEW S, NEW calls \in Seq(S), \A call \in S : Carried(call) \in Seq(Photos),
           OnceEach(calls)
    PROVE  /\ CarriedBy(calls) \in Seq(Photos)
           /\ IsInjective(CarriedBy(calls))
           /\ Range(CarriedBy(calls)) = Holds(calls)
<1> DEFINE all == [i \in DOMAIN calls |-> Carried(calls[i])]
<1>1. Len(calls) \in Nat /\ DOMAIN calls = 1 .. Len(calls) /\ \A i \in 1 .. Len(calls) : calls[i] \in S
  OBVIOUS
<1>2. \A i \in 1 .. Len(calls) : all[i] = Carried(calls[i])
  BY <1>1
<1>3. all \in Seq(Seq(Photos)) /\ Len(all) = Len(calls)
  <2>1. all \in [1 .. Len(calls) -> Seq(Photos)]
    BY <1>1
  <2> HIDE DEF all
  <2>2. Len(calls) \in Nat
    BY <1>1
  <2> QED  BY <2>1, <2>2, FunctionIsSeq
<1>4. CarriedBy(calls) = FlattenSeq(all)
  BY DEF CarriedBy
<1> HIDE DEF all
<1>5. /\ \A i \in 1 .. Len(all) : IsInjective(all[i])
      /\ \A i, j \in 1 .. Len(all) : Range(all[i]) \cap Range(all[j]) # {} => i = j
  BY <1>1, <1>2, <1>3 DEF OnceEach
<1>6. IsInjective(FlattenSeq(all))
  BY <1>3, <1>5, FlattenInjective
<1>7. CarriedBy(calls) \in Seq(Photos)
  BY CarriedByElements
<1>8. Range(CarriedBy(calls)) = Holds(calls)
  <2>1. \A p : p \in Range(CarriedBy(calls)) <=> \E call \in Range(calls) : Carries(call, p)
    BY CarriedByElements
  <2>2. \A p : p \in Holds(calls) <=> \E call \in Range(calls) : Carries(call, p)
    BY DEF Holds, Carries, Range
  <2>3. \A p : p \in Range(CarriedBy(calls)) <=> p \in Holds(calls)
    BY <2>1, <2>2
  <2> HIDE DEF Holds
  <2> QED  BY <2>3
<1> QED  BY <1>4, <1>6, <1>7, <1>8

\* A call of another kind carries nothing.
LEMMA CarriesNone ==
    ASSUME NEW call, call.kind \notin {"addPhotos", "load", "updatePhotos"}
    PROVE  IsInjective(Carried(call)) /\ Range(Carried(call)) = {}
<1>1. Carried(call) = <<>>
  BY CarriedPhotos
<1> QED  BY <1>1 DEF IsInjective, Range

\* Four sets of photos of which no two share one.
Separate(listed, posted, queued, worked) ==
    /\ listed \cap posted = {} /\ listed \cap queued = {} /\ listed \cap worked = {}
    /\ posted \cap queued = {} /\ posted \cap worked = {}
    /\ queued \cap worked = {}

\* Every photo is in one place, once.
Apart ==
    /\ IsInjective(toUpdate)
    /\ OnceEach(events)
    /\ OnceEach(dbQueue)
    /\ OneOfAKind(tasks)
    /\ Separate(Range(toUpdate), Holds(events), Holds(dbQueue), Worked(tasks))

\* The scan comes first: until it is executed nothing is announced.
NothingBegun == /\ ~ watched
                /\ events = <<>> /\ toUpdate = <<>> /\ tasks = <<>>
                /\ Holds(dbQueue) = {}

ScanIsFirst == \A i \in DOMAIN dbQueue : dbQueue[i].kind = "scan" => i = 1 /\ NothingBegun

\* The photos of a queue of true calls are in the backend.
LEMMA HeldAreKnown ==
    ASSUME NEW st
    PROVE  /\ \A q \in Seq(TrueRequests(st)) : Holds(q) \subseteq KnownPhotos(st)
           /\ \A q \in Seq(TrueEvents(st)) : Holds(q) \subseteq KnownPhotos(st)
           /\ \A q \in Seq(TrueTasks(st)) : Worked(q) \subseteq KnownPhotos(st)
<1>1. \A q \in Seq(KnownPhotos(st)) : Range(q) \subseteq KnownPhotos(st)
  BY DEF Range
<1>2. Range(<<>>) = {}
  BY DEF Range
<1>3. \A r \in TrueRequests(st) : Range(Carried(r)) \subseteq KnownPhotos(st)
  BY <1>1, <1>2, RequestKinds, CarriedPhotos
<1>4. ASSUME NEW e \in TrueEvents(st)  PROVE Range(Carried(e)) \subseteq KnownPhotos(st)
  <2>1. CASE e.kind # "updatePhotos"
    BY <1>1, <1>2, <2>1, EventKinds, CarriedPhotos
  <2>2. CASE e.kind = "updatePhotos"
    <3>1. e.photos \in Seq(TrueData(st))
      BY <2>2, EventKinds
    <3>2. \A i \in DOMAIN e.photos : e.photos[i] \in TrueData(st)
      BY <3>1
    <3>3. \A i \in DOMAIN e.photos : e.photos[i].photo \in KnownPhotos(st)
      BY <3>2 DEF TrueData
    <3>4. Carried(e) = [i \in DOMAIN e.photos |-> e.photos[i].photo]
      BY <2>2, CarriedPhotos
    <3> QED  BY <3>3, <3>4 DEF Range
  <2> QED  BY <2>1, <2>2
<1>5. ASSUME NEW q \in Seq(TrueTasks(st)), NEW i \in DOMAIN q  PROVE q[i].photo \in KnownPhotos(st)
  <2>1. q[i] \in TrueTasks(st)
    OBVIOUS
  <2> QED  BY <2>1 DEF TrueTasks, TaskStates, KnownPhotos
<1>6. ASSUME NEW q \in Seq(TrueRequests(st))  PROVE Holds(q) \subseteq KnownPhotos(st)
  BY <1>3 DEF Holds
<1>7. ASSUME NEW q \in Seq(TrueEvents(st))  PROVE Holds(q) \subseteq KnownPhotos(st)
  BY <1>4 DEF Holds
<1> QED  BY <1>5, <1>6, <1>7 DEF Worked

\* A request that carries nothing may be appended at any time.
LEMMA OtherRequestsApart ==
    ASSUME NEW q, NEW r, q \in Seq(TrueRequests(stored)), OnceEach(q),
           r.kind \notin {"addPhotos", "load", "updatePhotos"}
    PROVE  OnceEach(Append(q, r)) /\ Holds(Append(q, r)) = Holds(q)
<1>1. IsInjective(Carried(r)) /\ Range(Carried(r)) = {}
  BY CarriesNone
<1> QED  BY <1>1, OnceEachAppend

\* So may a posted call.
LEMMA OtherCallsApart ==
    ASSUME NEW q, NEW e, q \in Seq(TrueEvents(stored)), OnceEach(q),
           e.kind \notin {"addPhotos", "load", "updatePhotos"}
    PROVE  OnceEach(Append(q, e)) /\ Holds(Append(q, e)) = Holds(q)
<1>1. IsInjective(Carried(e)) /\ Range(Carried(e)) = {}
  BY CarriesNone
<1> QED  BY <1>1, OnceEachAppend

\* The scan takes place before anything else carries a photo.
LEMMA ScanAlone ==
    ASSUME FlagsInv, dbQueue # <<>>, ScanIsFirst, Head(dbQueue).kind = "scan"
    PROVE  NothingBegun
<1>1. dbQueue \in Seq(TrueRequests(stored))
  BY DEF FlagsInv, UnderwayTrue
<1>2. 1 \in DOMAIN dbQueue /\ dbQueue[1] = Head(dbQueue)
  <2>1. Len(dbQueue) \in Nat /\ Len(dbQueue) # 0 /\ DOMAIN dbQueue = 1 .. Len(dbQueue)
    BY <1>1
  <2> QED  BY <1>1, <2>1
<1> QED  BY <1>2 DEF ScanIsFirst

\* What the database's thread posts: the photos leave the queue, or are new.
LEMMA PostedApart ==
    ASSUME FlagsInv, Apart, Execute, NEW e, events' = Append(events, e),
           UNCHANGED <<tasks, toUpdate>>,
           IsInjective(Carried(e)),
           \/ Range(Carried(e)) \subseteq Range(Carried(Head(dbQueue)))
           \/ Range(Carried(e)) \cap KnownPhotos(stored) = {}
           \/ events = <<>> /\ toUpdate = <<>> /\ tasks = <<>> /\ Holds(dbQueue) = {}
    PROVE  Apart'
<1>1. /\ dbQueue \in Seq(TrueRequests(stored)) /\ events \in Seq(TrueEvents(stored))
      /\ toUpdate \in Seq(KnownPhotos(stored)) /\ tasks \in Seq(TrueTasks(stored))
  BY DEF FlagsInv, UnderwayTrue
<1>2. dbQueue # <<>> /\ dbQueue' = Tail(dbQueue)
  BY DEF Execute
<1> DEFINE L == Range(toUpdate)
           E == Holds(events)
           Q == Holds(dbQueue)
           W == Worked(tasks)
           new == Range(Carried(e))
           left == Holds(dbQueue')
           K == KnownPhotos(stored)
           H == Range(Carried(Head(dbQueue)))
<1>3. OnceEach(dbQueue') /\ H \cap left = {} /\ Q = H \cup left
  BY <1>1, <1>2, OnceEachTail DEF Apart
<1>4. L \subseteq K /\ E \subseteq K /\ Q \subseteq K /\ W \subseteq K
  <2>1. L \subseteq K
    BY <1>1 DEF Range
  <2>2. E \subseteq K /\ Q \subseteq K /\ W \subseteq K
    BY <1>1, HeldAreKnown
  <2> QED  BY <2>1, <2>2
<1>5. Separate(L, E, Q, W)
  BY DEF Apart
<1>6. events = <<>> /\ toUpdate = <<>> /\ tasks = <<>> => L = {} /\ E = {} /\ W = {}
  BY DEF Range, Holds, Worked
<1>7. new \subseteq H \/ new \cap K = {} \/ (L = {} /\ E = {} /\ W = {} /\ Q = {})
  BY <1>6
<1> HIDE DEF L, E, Q, W, new, left, K, H
<1>8. new \cap E = {} /\ Separate(L, E \cup new, left, W)
  BY <1>3, <1>4, <1>5, <1>7 DEF Separate
<1>9. OnceEach(events') /\ Holds(events') = E \cup new
  BY <1>1, <1>8, OnceEachAppend DEF Apart, E, new
<1> QED  BY <1>3, <1>8, <1>9 DEF Apart, L, W, left

\* The tasks of the database's thread.
LEMMA ExecuteApart ==
    ASSUME FlagsInv, Apart, ScanIsFirst, Execute
    PROVE  Apart'
<1> DEFINE task == Head(dbQueue)
<1>1. /\ dbQueue \in Seq(TrueRequests(stored)) /\ dbQueue # <<>> /\ dbQueue' = Tail(dbQueue)
      /\ UNCHANGED <<tasks, toUpdate>>
  BY DEF FlagsInv, UnderwayTrue, Execute, guiVars
<1>2. task \in TrueRequests(stored)
  BY <1>1, HeadTailProperties
<1>3. /\ OnceEach(dbQueue') /\ IsInjective(Carried(task))
      /\ Holds(dbQueue') \subseteq Holds(dbQueue)
  BY <1>1, OnceEachTail DEF Apart
<1>4. CASE UNCHANGED events
  BY <1>1, <1>3, <1>4 DEF Apart, Separate
<1>5. CASE task.kind = "scan" /\ ExecuteScan
  <2> DEFINE found == {q \in Photos : Uninitialized(stored[q])}
             e == Announce(SetToSeq(found))
  <2>1. events' = Append(events, e)
    BY <1>5 DEF ExecuteScan
  <2>2. IsFiniteSet(found)
    BY AnalyzerAssumption, FS_Subset
  <2>3. IsInjective(SetToSeq(found))
    BY <2>2, SetToSeqProperties
  <2>4. Carried(e) = SetToSeq(found)
    BY CarriedPhotos DEF Announce
  <2>5. events = <<>> /\ toUpdate = <<>> /\ tasks = <<>> /\ Holds(dbQueue) = {}
    BY <1>1, <1>5, ScanAlone DEF NothingBegun
  <2> HIDE DEF e
  <2>6. IsInjective(Carried(e))
    BY <2>3, <2>4
  <2> QED  BY <1>1, <2>1, <2>5, <2>6, PostedApart
<1>6. CASE task.kind = "add" /\ ExecuteAdd(task.photos) /\ ~ UNCHANGED events
  <2> DEFINE e == Announce(SetToSeq(task.photos))
  <2>1. events' = Append(events, e)
    BY <1>6 DEF ExecuteAdd
  <2>2. task.photos \in SUBSET (Photos \ KnownPhotos(stored))
    BY <1>2, <1>6, RequestKinds
  <2>3. IsFiniteSet(task.photos)
    BY <2>2, AnalyzerAssumption, FS_Subset
  <2>4. IsInjective(SetToSeq(task.photos)) /\ Range(SetToSeq(task.photos)) = task.photos
    BY <2>3, SetToSeqProperties
  <2>5. Carried(e) = SetToSeq(task.photos)
    BY CarriedPhotos DEF Announce
  <2> HIDE DEF e
  <2>6. IsInjective(Carried(e)) /\ Range(Carried(e)) \cap KnownPhotos(stored) = {}
    BY <2>2, <2>4, <2>5
  <2> QED  BY <1>1, <2>1, <2>6, PostedApart
<1>7. CASE task.kind = "load" /\ ExecuteLoad(task.photos)
  <2> DEFINE photos == task.photos
             data == [i \in DOMAIN photos |-> [photo |-> photos[i], flags |-> stored[photos[i]].flags]]
             e == [kind |-> "updatePhotos", photos |-> data]
  <2>1. events' = Append(events, e)
    BY <1>7 DEF ExecuteLoad
  <2>2. photos \in Seq(KnownPhotos(stored))
    BY <1>2, <1>7, RequestKinds
  <2>3. Carried(e) = [i \in DOMAIN data |-> data[i].photo]
    <3>1. e.kind = "updatePhotos" /\ e.photos = data
      OBVIOUS
    <3> HIDE DEF e
    <3> QED  BY <3>1, CarriedPhotos
  <2>4. [i \in DOMAIN data |-> data[i].photo] = photos
    <3>1. DOMAIN data = DOMAIN photos /\ \A i \in DOMAIN photos : data[i].photo = photos[i]
      OBVIOUS
    <3>2. photos = [i \in DOMAIN photos |-> photos[i]]
      BY <2>2
    <3> HIDE DEF data, photos
    <3> QED  BY <3>1, <3>2
  <2>5. Carried(task) = photos
    BY <1>7, CarriedPhotos
  <2> HIDE DEF e, data, photos
  <2>6. IsInjective(Carried(e)) /\ Range(Carried(e)) \subseteq Range(Carried(task))
    BY <1>3, <2>3, <2>4, <2>5
  <2> QED  BY <1>1, <2>1, <2>6, PostedApart
<1> QED
  BY <1>4, <1>5, <1>6, <1>7
     DEF Execute, ExecuteDangling, ExecuteUpdate, ExecuteBroken

\* processPhotos() moves photos of the list to the queue, and loses and doubles none.
LEMMA ProcessApart ==
    ASSUME dbQueue \in Seq(TrueRequests(stored)), OnceEach(dbQueue),
           NEW list \in Seq(Photos), IsInjective(list), Range(list) \cap Holds(dbQueue) = {},
           ProcessPhotos(list)
    PROVE  /\ IsInjective(toUpdate') /\ OnceEach(dbQueue')
           /\ Range(toUpdate') \cap Holds(dbQueue') = {}
           /\ Range(toUpdate') \cup Holds(dbQueue') \subseteq Range(list) \cup Holds(dbQueue)
<1>1. CASE ~ MayLoad(list)
  BY <1>1 DEF ProcessPhotos
<1>2. CASE MayLoad(list)
  <2> DEFINE n == IF Len(list) < Workers THEN Len(list) ELSE Workers
             request == [kind |-> "load", photos |-> Batch(list)]
             rest == WithoutBatch(list)
  <2>1. Len(list) \in Nat /\ DOMAIN list = 1 .. Len(list)
    OBVIOUS
  <2>2. n \in 0 .. Len(list)
    BY <2>1, AnalyzerAssumption
  <2>3. Batch(list) = SubSeq(list, 1, n)
    BY DEF Batch
  <2>4. toUpdate' = rest /\ dbQueue' = Append(dbQueue, request)
    BY <1>2 DEF ProcessPhotos
  <2> HIDE DEF n
  <2>5. /\ Batch(list) \in Seq(Photos) /\ Len(Batch(list)) = n
        /\ DOMAIN Batch(list) = 1 .. n
        /\ \A j \in 1 .. n : j \in DOMAIN list /\ Batch(list)[j] = list[j]
    BY <2>1, <2>2, <2>3, SubSeqProperties
  <2>6. rest = SubSeq(list, n + 1, Len(list))
    BY <2>5 DEF WithoutBatch
  <2>7. /\ DOMAIN rest = 1 .. Len(list) - n
        /\ \A j \in 1 .. Len(list) - n : rest[j] = list[n + j] /\ n + j \in DOMAIN list /\ n + j \notin 1 .. n
    BY <2>1, <2>2, <2>6, SubSeqProperties
  <2>8. \A i, j \in DOMAIN list : list[i] = list[j] => i = j
    BY DEF IsInjective
  <2>9. \A i, j \in DOMAIN rest : n + i = n + j => i = j
    BY <2>1, <2>2, <2>7
  <2> HIDE DEF rest
  <2>10. IsInjective(rest)
    BY <2>7, <2>8, <2>9 DEF IsInjective
  <2>11. IsInjective(Batch(list))
    BY <2>5, <2>8 DEF IsInjective
  <2>12. Range(rest) \cap Range(Batch(list)) = {}
    BY <2>5, <2>7, <2>8 DEF Range
  <2>13. Range(rest) \subseteq Range(list) /\ Range(Batch(list)) \subseteq Range(list)
    BY <2>5, <2>7 DEF Range
  <2>14. Carried(request) = Batch(list)
    BY CarriedPhotos
  <2> HIDE DEF request
  <2>15. IsInjective(Carried(request)) /\ Range(Carried(request)) \cap Holds(dbQueue) = {}
    BY <2>11, <2>13, <2>14
  <2>16. OnceEach(dbQueue') /\ Holds(dbQueue') = Holds(dbQueue) \cup Range(Batch(list))
    BY <2>4, <2>14, <2>15, OnceEachAppend
  <2> QED  BY <2>4, <2>10, <2>12, <2>13, <2>16
<1> QED  BY <1>1, <1>2

\* The tasks of a photo: two kinds at most.
LEMMA TasksOfAPhoto ==
    ASSUME NEW data
    PROVE  /\ IsInjective(TasksFor(data))
           /\ \A t \in Range(TasksFor(data)) :
                 t = [kind |-> t.kind, photo |-> data.photo, flags |-> data.flags, performed |-> FALSE]
<1> DEFINE Task(kind) == [kind |-> kind, photo |-> data.photo, flags |-> data.flags,
                          performed |-> FALSE]
           g == Task("geometry")
           t == Task("tags")
           G == IF data.flags["GeometryLoaded"] = 0 THEN <<g>> ELSE <<>>
           E == IF data.flags["ExifLoaded"] = 0 THEN <<t>> ELSE <<>>
<1>1. TasksFor(data) = G \o E
  BY DEF TasksFor
<1>2. g # t
  <2>1. g.kind = "geometry" /\ t.kind = "tags"
    OBVIOUS
  <2> HIDE DEF g, t
  <2> QED  BY <2>1
<1>3. \A u : IsInjective(<<u>>) /\ Range(<<u>>) = {u}
  BY DEF IsInjective, Range
<1>4. IsInjective(<<>>) /\ Range(<<>>) = {}
  BY DEF IsInjective, Range
<1>5. G \in Seq({g, t}) /\ E \in Seq({g, t}) /\ (G = <<g>> \/ G = <<>>) /\ (E = <<t>> \/ E = <<>>)
  <2> HIDE DEF g, t
  <2>1. (G = <<g>> \/ G = <<>>) /\ (E = <<t>> \/ E = <<>>)
    OBVIOUS
  <2> DEFINE S == {g, t}
  <2>2. g \in S /\ t \in S
    OBVIOUS
  <2> HIDE DEF S, G, E
  <2>3. <<>> \in Seq(S) /\ <<g>> \in Seq(S) /\ <<t>> \in Seq(S)
    BY <2>2
  <2> QED  BY <2>1, <2>3 DEF S
<1> HIDE DEF g, t, G, E
<1>6. /\ IsInjective(G) /\ IsInjective(E)
      /\ Range(G) \subseteq {g} /\ Range(E) \subseteq {t}
  BY <1>3, <1>4, <1>5
<1>7. IsInjective(TasksFor(data))
  <2>1. Range(G) \cap Range(E) = {}
    BY <1>2, <1>6
  <2> QED  BY <1>1, <1>5, <1>6, <2>1, ConcatInjective
<1>8. Range(TasksFor(data)) \subseteq {g, t}
  <2>1. Range(TasksFor(data)) = Range(G) \cup Range(E)
    BY <1>1, <1>5, RangeConcatenation
  <2> QED  BY <1>6, <2>1
<1> QED  BY <1>7, <1>8 DEF g, t

\* updatePhotos() makes one task of a kind for photos of which none has any.
LEMMA MadeApart ==
    ASSUME NEW st \in [Photos -> PhotoStates], NEW photos \in Seq(TrueData(st)),
           tasks \in Seq(TrueTasks(st)), OneOfAKind(tasks),
           IsInjective([i \in DOMAIN photos |-> photos[i].photo]),
           Range([i \in DOMAIN photos |-> photos[i].photo]) \cap Worked(tasks) = {},
           UpdatePhotos(photos)
    PROVE  /\ OneOfAKind(tasks')
           /\ Worked(tasks') \subseteq Worked(tasks) \cup Range([i \in DOMAIN photos |-> photos[i].photo])
<1> DEFINE made == [i \in DOMAIN photos |-> TasksFor(photos[i])]
           more == FlattenSeq(made)
           T == TrueTasks(st)
<1>1. Len(photos) \in Nat /\ DOMAIN photos = 1 .. Len(photos)
  OBVIOUS
<1>2. made \in Seq(Seq(T)) /\ Len(made) = Len(photos)
  <2>1. \A i \in 1 .. Len(photos) : TasksFor(photos[i]) \in Seq(T)
    BY <1>1, TasksAreTrue
  <2>2. made \in [1 .. Len(photos) -> Seq(T)]
    BY <1>1, <2>1
  <2> HIDE DEF made, T
  <2> QED  BY <1>1, <2>2, FunctionIsSeq
<1>3. tasks' = tasks \o more
  BY DEF UpdatePhotos
<1>4. \A i \in 1 .. Len(photos) : made[i] = TasksFor(photos[i])
  BY <1>1
<1> HIDE DEF made, more
<1>5. \A i \in 1 .. Len(made) : IsInjective(made[i])
  BY <1>2, <1>4, TasksOfAPhoto
<1>6. \A i \in 1 .. Len(made) : \A t \in Range(made[i]) :
         t = [kind |-> t.kind, photo |-> photos[i].photo, flags |-> photos[i].flags, performed |-> FALSE]
  BY <1>2, <1>4, TasksOfAPhoto
<1>7. \A i, j \in 1 .. Len(made) : photos[i].photo = photos[j].photo => i = j
  BY <1>1, <1>2 DEF IsInjective
<1>8. \A i \in 1 .. Len(made) : \A t \in Range(made[i]) : t.photo = photos[i].photo
  BY <1>6
<1>9. \A i, j \in 1 .. Len(made) : Range(made[i]) \cap Range(made[j]) # {} => i = j
  <2> SUFFICES ASSUME NEW i \in 1 .. Len(made), NEW j \in 1 .. Len(made),
                      NEW t \in Range(made[i]), t \in Range(made[j])
               PROVE  i = j
    OBVIOUS
  <2>1. t.photo = photos[i].photo /\ t.photo = photos[j].photo
    BY <1>8
  <2> QED  BY <1>7, <2>1
<1>10. /\ more \in Seq(T)
       /\ \A t : t \in Range(more) <=> \E i \in 1 .. Len(made) : t \in Range(made[i])
  BY <1>2, FlattenSeqProperties DEF more
<1>11. IsInjective(more)
  BY <1>2, <1>5, <1>9, FlattenInjective DEF more
<1>12. \A t \in Range(more) : t.photo \in Range([i \in DOMAIN photos |-> photos[i].photo])
  <2> SUFFICES ASSUME NEW t \in Range(more)
               PROVE  t.photo \in Range([i \in DOMAIN photos |-> photos[i].photo])
    OBVIOUS
  <2>1. PICK i \in 1 .. Len(made) : t \in Range(made[i])
    BY <1>10
  <2>2. i \in DOMAIN photos /\ t.photo = photos[i].photo
    BY <1>1, <1>2, <1>8, <2>1
  <2> QED  BY <2>2 DEF Range
<1>13. \A t, u \in Range(more) : t.photo = u.photo /\ t.kind = u.kind => t = u
  <2> SUFFICES ASSUME NEW t \in Range(more), NEW u \in Range(more),
                      t.photo = u.photo, t.kind = u.kind
               PROVE  t = u
    OBVIOUS
  <2>1. PICK i \in 1 .. Len(made) : t \in Range(made[i])
    BY <1>10
  <2>2. PICK j \in 1 .. Len(made) : u \in Range(made[j])
    BY <1>10
  <2>3. i = j
    BY <1>7, <1>8, <2>1, <2>2
  <2> QED  BY <1>6, <2>1, <2>2, <2>3
<1>14. OneOfAKind(more)
  BY <1>11, <1>13 DEF OneOfAKind, IsInjective, Range
<1>15. Worked(more) \subseteq Range([i \in DOMAIN photos |-> photos[i].photo])
  BY <1>12 DEF Worked, Range
<1>16. Worked(more) \cap Worked(tasks) = {}
  BY <1>15
<1>17. /\ Len(tasks) \in Nat /\ DOMAIN tasks = 1 .. Len(tasks)
       /\ Len(more) \in Nat /\ DOMAIN more = 1 .. Len(more)
       /\ DOMAIN tasks' = 1 .. Len(tasks) + Len(more)
       /\ \A i \in DOMAIN tasks' :
             \/ i \in DOMAIN tasks /\ tasks'[i] = tasks[i]
             \/ i - Len(tasks) \in DOMAIN more /\ tasks'[i] = more[i - Len(tasks)]
  BY <1>3, <1>10, ConcatProperties
<1>18. OneOfAKind(tasks')
  <2> SUFFICES ASSUME NEW i \in DOMAIN tasks', NEW j \in DOMAIN tasks',
                      tasks'[i].photo = tasks'[j].photo, tasks'[i].kind = tasks'[j].kind
               PROVE  i = j
    BY DEF OneOfAKind
  <2>1. \A k \in DOMAIN tasks, l \in DOMAIN more : tasks[k].photo # more[l].photo
    BY <1>16 DEF Worked
  <2>2. i - Len(tasks) = j - Len(tasks) => i = j
    BY <1>17
  <2>3. \A k, l \in DOMAIN tasks : tasks[k].photo = tasks[l].photo /\ tasks[k].kind = tasks[l].kind => k = l
    BY DEF OneOfAKind
  <2>4. \A k, l \in DOMAIN more : more[k].photo = more[l].photo /\ more[k].kind = more[l].kind => k = l
    BY <1>14 DEF OneOfAKind
  <2>5. CASE i \in DOMAIN tasks /\ tasks'[i] = tasks[i]
    BY <1>17, <2>1, <2>3, <2>5
  <2>6. CASE i - Len(tasks) \in DOMAIN more /\ tasks'[i] = more[i - Len(tasks)]
    BY <1>17, <2>1, <2>2, <2>4, <2>6
  <2> QED  BY <1>17, <2>5, <2>6
<1>19. Worked(tasks') \subseteq Worked(tasks) \cup Worked(more)
  BY <1>17 DEF Worked
<1> QED  BY <1>15, <1>18, <1>19

\* The calls posted to the GUI thread.
LEMMA HandleApart ==
    ASSUME FlagsInv, Apart, HandleEvent
    PROVE  Apart'
<1> DEFINE event == Head(events)
           C == Range(Carried(event))
           L == Range(toUpdate)
           E == Holds(events')
           Q == Holds(dbQueue)
           W == Worked(tasks)
<1>1. /\ stored \in [Photos -> PhotoStates]
      /\ dbQueue \in Seq(TrueRequests(stored)) /\ events \in Seq(TrueEvents(stored))
      /\ toUpdate \in Seq(Photos) /\ tasks \in Seq(TrueTasks(stored))
  BY InvariantIsTyped DEF Typed
<1>2. events # <<>> /\ events' = Tail(events)
  BY DEF HandleEvent
<1>3. event \in TrueEvents(stored)
  BY <1>1, <1>2, HeadTailProperties
<1>4. /\ OnceEach(events') /\ IsInjective(Carried(event))
      /\ C \cap E = {} /\ Holds(events) = C \cup E
  BY <1>1, <1>2, OnceEachTail DEF Apart
<1>5. Separate(L, C \cup E, Q, W) /\ IsInjective(toUpdate) /\ OnceEach(dbQueue) /\ OneOfAKind(tasks)
  BY <1>4 DEF Apart
<1>6. \/ event.kind = "addPhotos" /\ AddPhotos(event.photos)
      \/ event.kind = "photoProcessed" /\ PhotoProcessed
      \/ event.kind = "updatePhotos" /\ UpdatePhotos(event.photos)
      \/ event.kind = "apply" /\ Apply(event.photo, event.delta)
      \/ event.kind = "applyFlags" /\ ApplyFlags(event.photo)
  BY DEF HandleEvent
<1> HIDE DEF event
<1>7. ASSUME NEW list \in Seq(Photos), IsInjective(list), ProcessPhotos(list), UNCHANGED tasks,
             Range(list) \subseteq L \cup C
      PROVE  Apart'
  <2> DEFINE newL == Range(toUpdate')
             newQ == Holds(dbQueue')
             R == Range(list)
  <2>1. R \cap Q = {}
    BY <1>5, <1>7 DEF Separate
  <2>2. IsInjective(toUpdate') /\ OnceEach(dbQueue')
    BY <1>1, <1>5, <1>7, <2>1, ProcessApart
  <2>3. newL \cap newQ = {} /\ newL \cup newQ \subseteq R \cup Q
    BY <1>1, <1>5, <1>7, <2>1, ProcessApart
  <2>4. Worked(tasks') = W
    BY <1>7
  <2> HIDE DEF L, C, E, Q, W, newL, newQ, R
  <2>5. R \subseteq L \cup C
    BY <1>7 DEF R
  <2>6. C \cap E = {}
    BY <1>4
  <2>7. Separate(L, C \cup E, Q, W)
    BY <1>5
  <2>8. Separate(newL, E, newQ, W)
    BY <2>3, <2>5, <2>6, <2>7 DEF Separate
  <2>9. OneOfAKind(tasks)'
    BY <1>5, <1>7
  <2>10. OnceEach(events)'
    BY <1>4
  <2> QED  BY <2>2, <2>4, <2>8, <2>9, <2>10 DEF Apart, newL, E, newQ
<1>8. CASE event.kind = "addPhotos"
  <2>1. event.photos \in Seq(Photos) /\ Carried(event) = event.photos
    BY <1>3, <1>8, AnnouncedPhotos, CarriedPhotos
  <2> DEFINE photos == event.photos
             list == toUpdate \o photos
  <2>2. photos \in Seq(Photos) /\ IsInjective(photos) /\ C = Range(photos)
    BY <1>4, <2>1
  <2>3. ProcessPhotos(list) /\ UNCHANGED tasks
    BY <1>6, <1>8 DEF AddPhotos
  <2> HIDE DEF photos
  <2>4. L \cap Range(photos) = {}
    BY <1>5, <2>2 DEF Separate
  <2>5. list \in Seq(Photos) /\ Range(list) = L \cup Range(photos)
    BY <1>1, <2>2, ConcatProperties, RangeConcatenation
  <2>6. IsInjective(list)
    BY <1>1, <1>5, <2>2, <2>4, ConcatInjective
  <2> HIDE DEF list, L, C
  <2> QED  BY <1>7, <2>2, <2>3, <2>5, <2>6
<1>9. CASE event.kind = "photoProcessed"
  <2>1. ProcessPhotos(toUpdate) /\ UNCHANGED tasks
    BY <1>6, <1>9 DEF PhotoProcessed
  <2> QED  BY <1>1, <1>5, <1>7, <2>1
<1>10. CASE event.kind = "updatePhotos"
  <2> DEFINE photos == event.photos
             names == [i \in DOMAIN photos |-> photos[i].photo]
  <2>1. photos \in Seq(TrueData(stored)) /\ Carried(event) = names
    BY <1>3, <1>10, EventKinds, CarriedPhotos
  <2>2. UpdatePhotos(photos) /\ UNCHANGED <<toUpdate, dbQueue>>
    BY <1>6, <1>10 DEF UpdatePhotos
  <2> HIDE DEF photos
  <2>3. IsInjective(names) /\ Range(names) = C
    BY <1>4, <2>1
  <2>4. Range(names) \cap Worked(tasks) = {}
    BY <1>5, <2>3 DEF Separate
  <2>5. OneOfAKind(tasks') /\ Worked(tasks') \subseteq W \cup C
    BY <1>1, <1>5, <2>1, <2>2, <2>3, <2>4, MadeApart
  <2> DEFINE newW == Worked(tasks')
  <2>6. newW \subseteq W \cup C /\ C \cap E = {} /\ Separate(L, C \cup E, Q, W)
    BY <1>4, <1>5, <2>5
  <2> HIDE DEF L, C, E, Q, W, newW
  <2>7. Separate(L, E, Q, newW)
    BY <2>6 DEF Separate
  <2> QED  BY <1>4, <1>5, <2>2, <2>5, <2>7 DEF Apart, L, E, Q, newW
<1>11. ASSUME UNCHANGED <<toUpdate, tasks>>, OnceEach(dbQueue'), Holds(dbQueue') = Q
       PROVE  Apart'
  BY <1>4, <1>5, <1>11 DEF Apart, Separate
<1>12. CASE event.kind = "apply"
  BY <1>5, <1>6, <1>11, <1>12 DEF Apply
<1>13. CASE event.kind = "applyFlags"
  <2> DEFINE request == [kind |-> "broken", photo |-> event.photo]
  <2>1. dbQueue' = Append(dbQueue, request) /\ UNCHANGED <<toUpdate, tasks>>
    BY <1>6, <1>13 DEF ApplyFlags, guiVars
  <2>2. request.kind = "broken"
    OBVIOUS
  <2> HIDE DEF request
  <2>3. OnceEach(dbQueue') /\ Holds(dbQueue') = Q
    BY <1>1, <1>5, <2>1, <2>2, OtherRequestsApart
  <2> QED  BY <1>11, <2>1, <2>3
<1> QED  BY <1>6, <1>8, <1>9, <1>10, <1>12, <1>13

\* The workers: a task is marked, or goes; what they post carries no photo.
LEMMA WorkerApart ==
    ASSUME FlagsInv, Apart, Worker
    PROVE  Apart'
<1>1. events \in Seq(TrueEvents(stored)) /\ tasks \in Seq(TrueTasks(stored))
  BY DEF FlagsInv, UnderwayTrue
<1>2. PICK i : i \in 1 .. Workers /\ (Perform(i) \/ TaskFinished(i))
  BY DEF Worker
<1>3. UNCHANGED <<dbQueue, toUpdate>>
  BY <1>2 DEF Perform, TaskFinished, guiVars
<1>4. i \in 1 .. Len(tasks) /\ Len(tasks) \in Nat /\ DOMAIN tasks = 1 .. Len(tasks)
  <2>1. i \in DOMAIN tasks
    BY <1>2 DEF Perform, TaskFinished, InWork
  <2> QED  BY <1>1, <2>1
<1>5. OnceEach(events') /\ Holds(events') = Holds(events)
  <2>1. PICK e : events' = Append(events, e) /\ e.kind \in {"apply", "applyFlags", "photoProcessed"}
    BY <1>2 DEF Perform, TaskFinished, Result
  <2> QED  BY <1>1, <2>1, OtherCallsApart DEF Apart
<1>6. OneOfAKind(tasks') /\ Worked(tasks') \subseteq Worked(tasks)
  <2>1. CASE Perform(i)
    <3>1. /\ DOMAIN tasks' = DOMAIN tasks
          /\ \A j \in DOMAIN tasks : tasks'[j].photo = tasks[j].photo /\ tasks'[j].kind = tasks[j].kind
      <4>1. tasks' = [tasks EXCEPT ![i] = [tasks[i] EXCEPT !.performed = TRUE]]
        BY <2>1 DEF Perform
      <4>2. tasks[i] \in TaskStates
        <5>1. tasks[i] \in TrueTasks(stored)
          BY <1>1, <1>4
        <5> QED  BY <5>1 DEF TrueTasks
      <4>3. DOMAIN tasks' = DOMAIN tasks
        BY <1>1, <4>1
      <4>4. \A j \in DOMAIN tasks : j # i => tasks'[j] = tasks[j]
        BY <1>1, <4>1
      <4>5. tasks'[i].photo = tasks[i].photo /\ tasks'[i].kind = tasks[i].kind
        BY <1>4, <4>1, <4>2 DEF TaskStates
      <4> QED  BY <4>3, <4>4, <4>5
    <3> QED  BY <3>1 DEF Apart, OneOfAKind, Worked
  <2>2. CASE TaskFinished(i)
    <3> DEFINE before == SubSeq(tasks, 1, i - 1)
               after == SubSeq(tasks, i + 1, Len(tasks))
               T == TrueTasks(stored)
    <3> HIDE DEF T
    <3>1. tasks' = before \o after /\ tasks \in Seq(T)
      BY <1>1, <2>2 DEF TaskFinished, RemoveAt, T
    <3>2. /\ before \in Seq(T) /\ after \in Seq(T)
          /\ DOMAIN before = 1 .. i - 1 /\ DOMAIN after = 1 .. Len(tasks) - i
          /\ \A k \in 1 .. i - 1 : before[k] = tasks[k]
          /\ \A k \in 1 .. Len(tasks) - i : after[k] = tasks[i + k]
      BY <1>4, <3>1, PartsAround
    <3> HIDE DEF before, after
    <3>8. Len(before) = i - 1 /\ Len(after) = Len(tasks) - i
      <4>1. /\ Len(before) \in Nat /\ DOMAIN before = 1 .. Len(before)
            /\ Len(after) \in Nat /\ DOMAIN after = 1 .. Len(after)
        BY <3>2
      <4>2. \A m, n \in Nat : 1 .. m = 1 .. n => m = n
        <5> SUFFICES ASSUME NEW m \in Nat, NEW n \in Nat, 1 .. m = 1 .. n  PROVE m = n
          OBVIOUS
        <5>1. m # 0 => m \in 1 .. n
          OBVIOUS
        <5>2. n # 0 => n \in 1 .. m
          OBVIOUS
        <5> QED  BY <5>1, <5>2
      <4>3. i - 1 \in Nat /\ Len(tasks) - i \in Nat
        BY <1>4
      <4> QED  BY <3>2, <4>1, <4>2, <4>3
    <3>3. /\ DOMAIN tasks' = 1 .. Len(tasks) - 1
          /\ \A k \in 1 .. i - 1 : tasks'[k] = tasks[k]
          /\ \A k \in i .. Len(tasks) - 1 : tasks'[k] = after[k - (i - 1)]
      <4>1. /\ before \o after \in Seq(T)
            /\ Len(before \o after) = (i - 1) + (Len(tasks) - i)
            /\ \A k \in 1 .. (i - 1) + (Len(tasks) - i) :
                  (before \o after)[k] = IF k <= i - 1 THEN before[k] ELSE after[k - (i - 1)]
        BY <3>2, <3>8, ConcatProperties
      <4>2. (i - 1) + (Len(tasks) - i) = Len(tasks) - 1
        BY <1>4
      <4>3. DOMAIN tasks' = 1 .. Len(tasks) - 1
        BY <3>1, <4>1, <4>2
      <4>4. ASSUME NEW k \in 1 .. i - 1  PROVE tasks'[k] = tasks[k]
        <5>1. k \in 1 .. Len(tasks) - 1 /\ k <= i - 1
          BY <1>4
        <5> QED  BY <3>1, <3>2, <4>1, <4>2, <5>1
      <4>5. ASSUME NEW k \in i .. Len(tasks) - 1  PROVE tasks'[k] = after[k - (i - 1)]
        <5>1. k \in 1 .. Len(tasks) - 1 /\ ~ (k <= i - 1)
          BY <1>4
        <5> QED  BY <3>1, <4>1, <4>2, <5>1
      <4> QED  BY <4>3, <4>4, <4>5
    <3>4. ASSUME NEW k \in i .. Len(tasks) - 1  PROVE tasks'[k] = tasks[k + 1]
      <4>1. k - (i - 1) \in 1 .. Len(tasks) - i /\ i + (k - (i - 1)) = k + 1
        BY <1>4
      <4> QED  BY <3>2, <3>3, <4>1
    <3>5. \A k \in DOMAIN tasks' : \/ k < i /\ k \in DOMAIN tasks /\ tasks'[k] = tasks[k]
                                   \/ k >= i /\ k + 1 \in DOMAIN tasks /\ tasks'[k] = tasks[k + 1]
      <4> SUFFICES ASSUME NEW k \in 1 .. Len(tasks) - 1
                   PROVE  \/ k < i /\ k \in DOMAIN tasks /\ tasks'[k] = tasks[k]
                          \/ k >= i /\ k + 1 \in DOMAIN tasks /\ tasks'[k] = tasks[k + 1]
        BY <3>3
      <4>1. CASE k < i
        <5>1. k \in 1 .. i - 1 /\ k \in 1 .. Len(tasks)
          BY <1>4, <4>1
        <5> QED  BY <1>4, <3>3, <4>1, <5>1
      <4>2. CASE k >= i
        <5>1. k \in i .. Len(tasks) - 1 /\ k + 1 \in 1 .. Len(tasks)
          BY <1>4, <4>2
        <5> QED  BY <1>4, <3>4, <4>2, <5>1
      <4> QED  BY <1>4, <4>1, <4>2
    <3>6. Worked(tasks') \subseteq Worked(tasks)
      BY <3>5 DEF Worked
    <3>7. ASSUME NEW j \in DOMAIN tasks', NEW k \in DOMAIN tasks',
                 tasks'[j].photo = tasks'[k].photo, tasks'[j].kind = tasks'[k].kind
          PROVE  j = k
      <4>1. j \in Int /\ k \in Int /\ i \in Int
        BY <1>4, <3>3
      <4>2. \A a, b \in DOMAIN tasks : tasks[a].photo = tasks[b].photo /\ tasks[a].kind = tasks[b].kind => a = b
        BY DEF Apart, OneOfAKind
      <4>3. CASE j < i
        BY <3>5, <3>7, <4>1, <4>2, <4>3
      <4>4. CASE j >= i
        BY <3>5, <3>7, <4>1, <4>2, <4>4
      <4> QED  BY <4>1, <4>3, <4>4
    <3> QED  BY <3>6, <3>7 DEF OneOfAKind
  <2> QED  BY <1>2, <2>1, <2>2
<1> QED  BY <1>3, <1>5, <1>6 DEF Apart, Separate

\* A flush sends what was touched to the database's queue.
LEMMA FlushApart ==
    ASSUME FlagsInv, Apart, FlushCache
    PROVE  OnceEach(dbQueue') /\ Holds(dbQueue') = Holds(dbQueue)
<1>1. dbQueue \in Seq(TrueRequests(stored))
  BY DEF FlagsInv, UnderwayTrue
<1>2. CASE UNCHANGED dbQueue
  BY <1>2 DEF Apart
<1>3. CASE ~ UNCHANGED dbQueue
  <2>1. PICK r : dbQueue' = Append(dbQueue, r) /\ r.kind = "update"
    BY <1>3 DEF FlushCache
  <2> QED  BY <1>1, <2>1, OtherRequestsApart DEF Apart
<1> QED  BY <1>2, <1>3

\* Every step leaves every photo in one place.
LEMMA StepApart ==
    ASSUME FlagsInv, Apart, ScanIsFirst, [Next]_vars
    PROVE  Apart'
<1>1. CASE Execute
  BY <1>1, ExecuteApart
<1>2. CASE HandleEvent
  BY <1>2, HandleApart
<1>3. CASE FlushTimeout
  BY <1>3, FlushApart DEF FlushTimeout, Apart, Separate
<1>4. CASE Worker
  BY <1>4, WorkerApart
<1>5. CASE StopBegin
  <2>1. toUpdate' = <<>> /\ UNCHANGED <<dbQueue, events, tasks>>
    BY <1>5 DEF StopBegin
  <2>2. IsInjective(<<>>) /\ Range(<<>>) = {}
    BY DEF IsInjective, Range
  <2> QED  BY <2>1, <2>2 DEF Apart, Separate
<1>6. CASE StopEnd
  <2>1. events' = <<>> /\ UNCHANGED <<toUpdate, tasks>> /\ FlushCache
    BY <1>6 DEF StopEnd
  <2>2. OnceEach(<<>>) /\ Holds(<<>>) = {}
    BY DEF OnceEach, Holds
  <2> QED  BY <2>1, <2>2, FlushApart DEF Apart, Separate
<1>7. CASE \E photos \in SUBSET Photos : ScanCollection(photos)
  <2>1. PICK r : dbQueue' = Append(dbQueue, r) /\ r.kind = "add"
    BY <1>7 DEF ScanCollection
  <2>2. UNCHANGED <<events, tasks, toUpdate>>
    BY <1>7 DEF ScanCollection, guiVars
  <2>3. OnceEach(dbQueue') /\ Holds(dbQueue') = Holds(dbQueue)
    BY <2>1, OtherRequestsApart DEF FlagsInv, UnderwayTrue, Apart
  <2> QED  BY <2>2, <2>3 DEF Apart, Separate
<1>8. CASE UNCHANGED vars
  BY <1>8 DEF vars, guiVars, Apart
<1> QED  BY <1>1, <1>2, <1>3, <1>4, <1>5, <1>6, <1>7, <1>8 DEF Next

\* Nothing is announced before the scan, whatever the steps.
LEMMA StepScanFirst ==
    ASSUME FlagsInv, Apart, ScanIsFirst, [Next]_vars
    PROVE  ScanIsFirst'
<1> SUFFICES ASSUME NEW i \in DOMAIN dbQueue', dbQueue'[i].kind = "scan"
             PROVE  i = 1 /\ NothingBegun'
  BY DEF ScanIsFirst
<1>1. dbQueue \in Seq(TrueRequests(stored))
  BY DEF FlagsInv, UnderwayTrue
<1>2. ASSUME NEW r, dbQueue' = Append(dbQueue, r), r.kind # "scan"
      PROVE  i = 1 /\ NothingBegun
  <2>1. /\ DOMAIN dbQueue = 1 .. Len(dbQueue) /\ Len(dbQueue) \in Nat
        /\ DOMAIN dbQueue' = 1 .. Len(dbQueue) + 1
        /\ \A j \in 1 .. Len(dbQueue) : dbQueue'[j] = dbQueue[j]
        /\ dbQueue'[Len(dbQueue) + 1] = r
    <3>1. dbQueue \in Seq(TrueRequests(stored) \cup {r})
      BY <1>1, SeqMonotonic
    <3> QED  BY <1>2, <3>1, AppendProperties
  <2>2. i \in DOMAIN dbQueue /\ dbQueue[i].kind = "scan"
    BY <1>2, <2>1
  <2> QED  BY <2>2 DEF ScanIsFirst
<1>3. ASSUME UNCHANGED dbQueue  PROVE i = 1 /\ NothingBegun
  BY <1>3 DEF ScanIsFirst
<1>4. ASSUME FlushCache  PROVE i = 1 /\ NothingBegun
  <2>1. UNCHANGED dbQueue \/ \E r : dbQueue' = Append(dbQueue, r) /\ r.kind = "update"
    BY <1>4 DEF FlushCache
  <2> QED  BY <1>2, <1>3, <2>1
<1>5. CASE Execute
  <2>1. dbQueue # <<>> /\ dbQueue' = Tail(dbQueue)
    BY <1>5 DEF Execute
  <2>2. i \in Int /\ i > 0 /\ i + 1 \in DOMAIN dbQueue /\ dbQueue'[i] = dbQueue[i + 1]
    BY <1>1, <2>1, HeadTailProperties
  <2>3. i + 1 = 1
    BY <2>2 DEF ScanIsFirst
  <2> QED  BY <2>2, <2>3
<1>6. CASE HandleEvent
  <2>1. events # <<>>
    BY <1>6 DEF HandleEvent
  <2>2. UNCHANGED dbQueue \/ \E r : dbQueue' = Append(dbQueue, r) /\ r.kind # "scan"
    BY <1>6 DEF HandleEvent, AddPhotos, PhotoProcessed, ProcessPhotos, UpdatePhotos, Apply, ApplyFlags
  <2> QED  BY <1>2, <1>3, <2>1, <2>2 DEF NothingBegun
<1>7. CASE FlushTimeout
  BY <1>4, <1>7, FlushApart DEF FlushTimeout, NothingBegun
<1>8. CASE Worker
  <2>1. UNCHANGED dbQueue /\ tasks # <<>>
    BY <1>8 DEF Worker, Perform, TaskFinished, InWork, guiVars
  <2> QED  BY <1>3, <2>1 DEF NothingBegun
<1>9. CASE StopBegin
  <2>1. /\ watched' = FALSE /\ toUpdate' = <<>> /\ UNCHANGED <<dbQueue, events, tasks>>
    BY <1>9 DEF StopBegin
  <2> QED  BY <1>3, <2>1 DEF NothingBegun
<1>10. CASE StopEnd
  <2>1. /\ events' = <<>> /\ watched' = FALSE /\ UNCHANGED <<toUpdate, tasks>> /\ FlushCache
    BY <1>10 DEF StopEnd
  <2> QED  BY <1>4, <2>1, FlushApart DEF NothingBegun
<1>11. CASE \E photos \in SUBSET Photos : ScanCollection(photos)
  <2>1. PICK r : dbQueue' = Append(dbQueue, r) /\ r.kind = "add"
    BY <1>11 DEF ScanCollection
  <2>2. UNCHANGED <<watched, events, tasks, toUpdate>>
    BY <1>11 DEF ScanCollection, guiVars
  <2>3. Holds(dbQueue') = Holds(dbQueue)
    BY <1>1, <2>1, OtherRequestsApart DEF Apart
  <2> QED  BY <1>2, <2>1, <2>2, <2>3 DEF NothingBegun
<1>12. CASE UNCHANGED vars
  BY <1>3, <1>12 DEF vars, guiVars, NothingBegun
<1> QED  BY <1>5, <1>6, <1>7, <1>8, <1>9, <1>10, <1>11, <1>12 DEF Next

\* A photo is analysed once, for every number of photos and workers and every
\* interleaving of the three kinds of threads.
THEOREM AlwaysAnalysedOnce == Spec => []AnalysedOnce
<1>1. Init => Apart /\ ScanIsFirst
  <2> SUFFICES ASSUME Init  PROVE Apart /\ ScanIsFirst
    OBVIOUS
  <2>1. /\ dbQueue = <<[kind |-> "scan"]>> /\ ~ watched
        /\ events = <<>> /\ toUpdate = <<>> /\ tasks = <<>>
    BY DEF Init
  <2>2. DOMAIN dbQueue = {1}
    BY <2>1
  <2>3. Carried(dbQueue[1]) = <<>>
    <3>1. dbQueue[1].kind = "scan"
      BY <2>1
    <3> QED  BY <3>1, CarriedPhotos
  <2>4. IsInjective(<<>>) /\ Range(<<>>) = {} /\ OnceEach(<<>>) /\ Holds(<<>>) = {}
        /\ OneOfAKind(<<>>) /\ Worked(<<>>) = {}
    BY DEF IsInjective, Range, OnceEach, Holds, OneOfAKind, Worked
  <2>5. OnceEach(dbQueue) /\ Holds(dbQueue) = {}
    BY <2>2, <2>3, <2>4 DEF OnceEach, Holds
  <2>6. Apart
    BY <2>1, <2>4, <2>5 DEF Apart, Separate
  <2>7. ScanIsFirst
    BY <2>1, <2>2, <2>5 DEF ScanIsFirst, NothingBegun
  <2> QED  BY <2>6, <2>7
<1>2. FlagsInv /\ Apart /\ ScanIsFirst /\ [Next]_vars => (Apart /\ ScanIsFirst)'
  BY StepApart, StepScanFirst
<1>3. FlagsInv /\ Apart => AnalysedOnce
  <2> SUFFICES ASSUME FlagsInv, Apart  PROVE AnalysedOnce
    OBVIOUS
  <2> DEFINE a == toUpdate
             b == CarriedBy(events)
             c == CarriedBy(dbQueue)
  <2>1. /\ dbQueue \in Seq(TrueRequests(stored)) /\ events \in Seq(TrueEvents(stored))
        /\ toUpdate \in Seq(Photos)
    BY InvariantIsTyped DEF Typed
  <2>2. b \in Seq(Photos) /\ IsInjective(b) /\ Range(b) = Holds(events)
    BY <2>1, CarriedAreTyped, CarriedByOnce DEF Apart
  <2>3. c \in Seq(Photos) /\ IsInjective(c) /\ Range(c) = Holds(dbQueue)
    BY <2>1, CarriedAreTyped, CarriedByOnce DEF Apart
  <2>4. a \in Seq(Photos) /\ IsInjective(a) /\ Separate(Range(a), Range(b), Range(c), Worked(tasks))
    BY <2>1, <2>2, <2>3 DEF Apart
  <2>5. Underway = (a \o b) \o c
    BY DEF Underway
  <2> HIDE DEF a, b, c
  <2> DEFINE front == a \o b
  <2>6. front \in Seq(Photos) /\ IsInjective(front) /\ Range(front) = Range(a) \cup Range(b)
    BY <2>2, <2>4, ConcatInjective, ConcatProperties, RangeConcatenation DEF Separate
  <2>7. Underway = front \o c
    BY <2>5
  <2> HIDE DEF front
  <2>8. Range(front) \cap Range(c) = {}
    BY <2>4, <2>6 DEF Separate
  <2>9. IsInjective(Underway) /\ Range(Underway) = Range(front) \cup Range(c)
    BY <2>3, <2>6, <2>7, <2>8, ConcatInjective, RangeConcatenation
  <2>10. \A i \in DOMAIN tasks : tasks[i].photo \notin Range(Underway)
    BY <2>4, <2>6, <2>9 DEF Separate, Worked
  <2>11. OneOfAKind(tasks)
    BY DEF Apart
  <2> QED  BY <2>9, <2>10, <2>11 DEF AnalysedOnce, OneOfAKind
<1> QED  BY <1>1, <1>2, <1>3, TruthIsInvariant, PTL DEF Spec

=============================================================================
