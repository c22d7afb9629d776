-------------------------- MODULE PhotoInfoProofs --------------------------
(***************************************************************************)
(* Proofs about AsyncDatabase, for any clients, any requests, any queue    *)
(* limit and any number of requests, and about PhotoInfo over it, for any  *)
(* tags, values and clients.                                               *)
(*                                                                         *)
(* ExecutedInOrder is inductive with the types.  EndsClosed is not: that   *)
(* the thread has executed DbCloseTask when it finds the queue stopped and *)
(* empty follows from stopExecutor() pushing it before it stops the queue, *)
(* which CloseSent and StoppedAfterClose record.                           *)
(*                                                                         *)
(* PhotoInfo adds no step of its own to the queue, so it has the invariant *)
(* of AsyncDatabase.  CopyIsStoredOrRefused says what is true when nothing *)
(* is under way; CopyFollows is what makes it inductive: a copy that the   *)
(* backend neither has nor refused is itself on its way as an update, or a *)
(* notification that will overwrite it is.                                 *)
(***************************************************************************)
EXTENDS PhotoInfo, SequenceTheorems, TLAPS

-----------------------------------------------------------------------------
(* The queue of the database *)

Elems(s) == {s[i] : i \in 1 .. Len(s)}

\* DbCloseTask is pushed by stopExecutor(), once m_working is false, and only so.
CloseSent ==
    /\ working => closer = "open"
    /\ closer \in {"open", "push"} => Close \notin Elems(accepted)
    /\ closer \in {"stop", "join", "closed"} => Close \in Elems(accepted)
StoppedAfterClose == tasksStopped => closer \in {"join", "closed"}

DbIInv == /\ DbTypeOK
          /\ ExecutedInOrder
          /\ CloseSent
          /\ StoppedAfterClose
          /\ EndsClosed

-----------------------------------------------------------------------------
(* The three ways a task moves along performed, the thread's hand and the queue *)

\* Pushing a task appends it to the whole.
LEMMA OrderPush ==
    ASSUME NEW s \in Seq(Tasks), NEW h \in Seq(Tasks), NEW q \in Seq(Tasks), NEW e \in Tasks
    PROVE  Append(s \o h \o q, e) = s \o h \o Append(q, e)
<1>1. s \o h \in Seq(Tasks) /\ s \o h \o q \in Seq(Tasks) /\ <<e>> \in Seq(Tasks)
  BY ConcatProperties
<1>2. Append(s \o h \o q, e) = (s \o h \o q) \o <<e>> /\ Append(q, e) = q \o <<e>>
  BY <1>1, AppendIsConcat
<1>3. (s \o h \o q) \o <<e>> = s \o h \o (q \o <<e>>)
  BY <1>1, ConcatAssociative
<1> QED BY <1>2, <1>3, Zenon

\* Taking the head of the queue into an empty hand leaves the whole.
LEMMA OrderPop ==
    ASSUME NEW S, NEW s \in Seq(S), NEW q \in Seq(S), q # <<>>
    PROVE  s \o <<>> \o q = s \o <<Head(q)>> \o Tail(q)
<1>1. Head(q) \in S /\ Tail(q) \in Seq(S) /\ <<Head(q)>> \in Seq(S)
  BY HeadTailProperties
<1>2. <<Head(q)>> \o Tail(q) = q
  <2>1. Len(q) \in Nat /\ Len(q) >= 1 /\ Len(Tail(q)) = Len(q) - 1 /\ Head(q) = q[1]
    BY EmptySeq, LenProperties, HeadTailProperties
  <2>2. /\ <<Head(q)>> \o Tail(q) \in Seq(S)
        /\ Len(<<Head(q)>> \o Tail(q)) = Len(q)
        /\ \A i \in 1 .. Len(q) : (<<Head(q)>> \o Tail(q))[i] = q[i]
    BY <1>1, <2>1, ConcatProperties, HeadTailProperties
  <2> QED BY <2>2, SeqEqual
<1>3. s \o <<>> = s
  BY ConcatEmptySeq
<1> QED BY <1>1, <1>2, <1>3, ConcatAssociative

\* A task that is done moves from the hand to the performed ones.
LEMMA OrderDone ==
    ASSUME NEW S, NEW s \in Seq(S), NEW q \in Seq(S), NEW e \in S
    PROVE  s \o <<e>> \o q = Append(s, e) \o <<>> \o q
<1>1. Append(s, e) \in Seq(S) /\ Append(s, e) = s \o <<e>>
  BY AppendIsConcat, AppendProperties
<1> QED BY <1>1, ConcatEmptySeq

\* Appending adds one element.
LEMMA ElemsAppend ==
    ASSUME NEW S, NEW s \in Seq(S), NEW e \in S
    PROVE  Elems(Append(s, e)) = Elems(s) \cup {e}
<1>1. /\ Len(s) \in Nat /\ Len(Append(s, e)) = Len(s) + 1
      /\ \A i \in 1 .. Len(s) : Append(s, e)[i] = s[i]
      /\ Append(s, e)[Len(s) + 1] = e
  BY AppendProperties, LenProperties
<1>2. Elems(Append(s, e)) \subseteq Elems(s) \cup {e}
  BY <1>1 DEF Elems
<1>3. Elems(s) \cup {e} \subseteq Elems(Append(s, e))
  BY <1>1 DEF Elems
<1> QED BY <1>2, <1>3

-----------------------------------------------------------------------------
(* The invariant *)

\* The initial state satisfies the invariant.
LEMMA InitDbIInv == DbInit => DbIInv
<1> SUFFICES ASSUME DbInit PROVE DbIInv
  OBVIOUS
<1>1. DbTypeOK
  <2>1. working \in BOOLEAN /\ tasksStopped \in BOOLEAN
    BY Zenon DEF DbInit
  <2>2. /\ tasks \in Seq(Tasks) /\ accepted \in Seq(Tasks) /\ performed \in Seq(Tasks)
        /\ Len(tasks) <= QueueLimit
    BY DatabaseAssumption, EmptySeq DEF DbInit
  <2>3. /\ calling \in [Clients -> Requests \cup {None}]
        /\ current \in Tasks \cup {None}
        /\ thread \in {"running", "ended"} /\ closer \in CloserPlaces
    BY DEF DbInit, CloserPlaces
  <2> QED BY <2>1, <2>2, <2>3 DEF DbTypeOK
<1>2. ExecutedInOrder
  BY EmptySeq, ConcatEmptySeq DEF DbInit, ExecutedInOrder, InHand
<1>3. Elems(accepted) = {}
  BY EmptySeq DEF DbInit, Elems
<1> QED BY <1>1, <1>2, <1>3 DEF DbInit, DbIInv, CloseSent, StoppedAfterClose, EndsClosed

\* Enqueuing keeps order and types, whoever does it.
LEMMA EnqueueStep ==
    ASSUME DbTypeOK, ExecutedInOrder, NEW t \in Tasks, Enqueue(t),
           UNCHANGED <<current, performed>>
    PROVE  /\ ExecutedInOrder'
           /\ tasks' \in Seq(Tasks) /\ Len(tasks') <= QueueLimit
           /\ accepted' \in Seq(Tasks)
           /\ Elems(accepted') = Elems(accepted) \cup {t}
<1>1. /\ tasks \in Seq(Tasks) /\ accepted \in Seq(Tasks) /\ performed \in Seq(Tasks)
      /\ InHand \in Seq(Tasks) /\ InHand' = InHand
  <2>1. /\ tasks \in Seq(Tasks) /\ accepted \in Seq(Tasks) /\ performed \in Seq(Tasks)
        /\ current \in Tasks \cup {None}
    BY DEF DbTypeOK
  <2>2. InHand \in Seq(Tasks)
    BY <2>1 DEF InHand
  <2>3. InHand' = InHand
    BY DEF InHand
  <2> QED BY <2>1, <2>2, <2>3
<1>2. Append(performed \o InHand \o tasks, t) = performed \o InHand \o Append(tasks, t)
  BY <1>1, OrderPush, ZenonT(60)
<1>3. ExecutedInOrder'
  <2>1. accepted' = Append(accepted, t) /\ tasks' = Append(tasks, t) /\ performed' = performed
    BY DEF Enqueue
  <2>2. accepted = performed \o InHand \o tasks
    BY DEF ExecutedInOrder
  <2>3. accepted' = performed' \o InHand' \o tasks'
    BY <1>1, <1>2, <2>1, <2>2, Zenon
  <2> QED BY <2>3 DEF ExecutedInOrder
<1> QED BY <1>1, <1>3, ElemsAppend, AppendProperties, DatabaseAssumption DEF Enqueue

\* Every step preserves the invariant.
LEMMA DbStep == DbIInv /\ [DbNext]_dbVars => DbIInv'
<1> SUFFICES ASSUME DbIInv, [DbNext]_dbVars PROVE DbIInv'
  OBVIOUS
<1> USE DatabaseAssumption DEF DbIInv
<1>1. CASE UNCHANGED dbVars
  BY <1>1 DEF dbVars, DbTypeOK, ExecutedInOrder, InHand, CloseSent,
              StoppedAfterClose, EndsClosed
<1>2. ASSUME NEW c \in Clients, Push(c)
      PROVE  DbIInv'
  <2>1. calling[c] \in Requests /\ calling[c] \in Tasks /\ calling[c] # Close
    BY <1>2 DEF DbTypeOK, Push, Tasks
  <2>2. Enqueue(calling[c]) /\ UNCHANGED <<current, performed>>
    BY <1>2 DEF Push
  <2>3. /\ ExecutedInOrder'
        /\ tasks' \in Seq(Tasks) /\ Len(tasks') <= QueueLimit /\ accepted' \in Seq(Tasks)
        /\ Elems(accepted') = Elems(accepted) \cup {calling[c]}
    BY <2>1, <2>2, EnqueueStep
  <2> QED BY <1>2, <2>1, <2>3 DEF Push, DbTypeOK, CloseSent, StoppedAfterClose, EndsClosed
<1>3. ASSUME NEW c \in Clients, NEW t \in Requests, AddTask(c, t)
      PROVE  DbIInv'
  BY <1>3 DEF AddTask, queueVars, DbTypeOK, ExecutedInOrder, InHand, CloseSent,
              StoppedAfterClose, EndsClosed
<1>4. CASE Pop
  <2>1. /\ Head(tasks) \in Tasks /\ Tail(tasks) \in Seq(Tasks)
        /\ Len(Tail(tasks)) <= QueueLimit
    BY <1>4, HeadTailProperties, LenProperties DEF Pop, DbTypeOK
  <2>2. InHand = <<>> /\ InHand' = <<Head(tasks)>>
    BY <1>4, <2>1 DEF Pop, InHand, Tasks
  <2>3. ExecutedInOrder'
    BY <1>4, <2>2, OrderPop DEF Pop, DbTypeOK, ExecutedInOrder
  <2> QED BY <1>4, <2>1, <2>3 DEF Pop, DbTypeOK, CloseSent, StoppedAfterClose, EndsClosed
<1>5. CASE TaskDone
  <2>1. current \in Tasks /\ performed' = Append(performed, current) /\ performed' \in Seq(Tasks)
    BY <1>5, AppendProperties DEF TaskDone, DbTypeOK
  <2>2. InHand = <<current>> /\ InHand' = <<>>
    BY <1>5, <2>1 DEF TaskDone, InHand
  <2>3. ExecutedInOrder'
    BY <1>5, <2>1, <2>2, OrderDone DEF TaskDone, queueVars, DbTypeOK, ExecutedInOrder
  <2>4. thread = "ended" => \E i \in 1 .. Len(performed') : performed'[i] = Close
    <3>1. Elems(performed') = Elems(performed) \cup {current}
      BY <2>1, ElemsAppend DEF DbTypeOK
    <3> QED BY <3>1 DEF EndsClosed, Elems
  <2> QED BY <1>5, <2>1, <2>3, <2>4 DEF TaskDone, queueVars, DbTypeOK, CloseSent,
                                        StoppedAfterClose, EndsClosed
<1>6. CASE ThreadEnds
  <2>1. accepted = performed
    <3>1. performed \in Seq(Tasks) /\ InHand = <<>> /\ tasks = <<>>
      BY <1>6 DEF ThreadEnds, InHand, DbTypeOK
    <3> QED BY <3>1, ConcatEmptySeq DEF ExecutedInOrder
  <2>2. Close \in Elems(performed)
    BY <1>6, <2>1 DEF ThreadEnds, StoppedAfterClose, CloseSent
  <2>3. EndsClosed'
    BY <1>6, <2>2 DEF ThreadEnds, EndsClosed, Elems
  <2> QED BY <1>6, <2>3 DEF ThreadEnds, queueVars, DbTypeOK, ExecutedInOrder, InHand,
                            CloseSent, StoppedAfterClose
<1>7. CASE CloseBegin
  BY <1>7 DEF CloseBegin, queueVars, DbTypeOK, CloserPlaces, ExecutedInOrder, InHand,
              CloseSent, StoppedAfterClose, EndsClosed
<1>8. CASE ClosePush
  <2>1. Close \in Tasks /\ Enqueue(Close) /\ UNCHANGED <<current, performed>>
    BY <1>8 DEF ClosePush, Tasks
  <2>2. /\ ExecutedInOrder'
        /\ tasks' \in Seq(Tasks) /\ Len(tasks') <= QueueLimit /\ accepted' \in Seq(Tasks)
        /\ Elems(accepted') = Elems(accepted) \cup {Close}
    BY <2>1, EnqueueStep
  <2> QED BY <1>8, <2>2 DEF ClosePush, DbTypeOK, CloserPlaces, CloseSent,
                            StoppedAfterClose, EndsClosed
<1>9. CASE CloseStop
  BY <1>9 DEF CloseStop, queueVars, DbTypeOK, CloserPlaces, ExecutedInOrder, InHand,
              CloseSent, StoppedAfterClose, EndsClosed
<1>10. CASE CloseJoin
  BY <1>10 DEF CloseJoin, queueVars, DbTypeOK, CloserPlaces, ExecutedInOrder, InHand,
               CloseSent, StoppedAfterClose, EndsClosed
<1> QED BY <1>1, <1>2, <1>3, <1>4, <1>5, <1>6, <1>7, <1>8, <1>9, <1>10 DEF DbNext, CloseStep

-----------------------------------------------------------------------------
(* Theorems *)

\* AsyncDatabase: the invariant holds in every reachable state.
THEOREM DbInvariance == DbSpec => []DbIInv
<1> QED BY InitDbIInv, DbStep, PTL DEF DbSpec

\* async_database.cpp:65, begin(): whatever clients push, and even if the database
\* is closed meanwhile, tasks are executed each once and in the order of the pushes.
THEOREM AlwaysExecutedInOrder == DbSpec => []ExecutedInOrder
<1>1. DbIInv => ExecutedInOrder
  BY DEF DbIInv
<1> QED BY <1>1, DbInvariance, PTL

\* async_database.cpp:307, stopExecutor(): the thread executes DbCloseTask, and so
\* all that was pushed before it, before it ends.
THEOREM AlwaysEndsClosed == DbSpec => []EndsClosed
<1>1. DbIInv => EndsClosed
  BY DEF DbIInv
<1> QED BY <1>1, DbInvariance, PTL

-----------------------------------------------------------------------------
(* The cache of photos *)

\* The copy's own list of tags is on its way to the backend.
CopyUnderWay ==
    \/ current = copy /\ stage = "begin"
    \/ calling[Editor] = copy
    \/ \E i \in 1 .. Len(tasks) : tasks[i] = copy

CopyFollows ==
    copy # Nobody => \/ copy \in {stored, committed} \cup refused
                     \/ CopyUnderWay
                     \/ stage = "notify"
                     \/ BackendClosed

\* What was read of a transaction left open failed to be stored; otherwise the
\* backend reads what is on the disk.
StoreFollows == /\ open => stored \in refused
                /\ ~open => stored = committed

StageOfCurrent == /\ stage # "begin" => current \in Requests
                  /\ stage = "notify" => current \in TagLists

PhotoIInv == DbIInv /\ TypeOK /\ StageOfCurrent /\ StoreFollows /\ CopyFollows

-----------------------------------------------------------------------------
\* What a setter leaves in the copy is a list of tags.
LEMMA SettersKeepType ==
    ASSUME NEW list \in TagLists
    PROVE  /\ \A t \in Tags, v \in Values \cup {Empty} : WithTag(list, t, v) \in TagLists
           /\ \A new \in TagLists : Inserted(list, new) \in TagLists
  BY DEF TagLists, WithTag, Inserted

\* Every step is a step of AsyncDatabase, or leaves it alone.
LEMMA StepOfDatabase == TypeOK /\ [Next]_vars => [DbNext]_dbVars
<1> SUFFICES ASSUME TypeOK, [Next]_vars PROVE [DbNext]_dbVars
  OBVIOUS
<1> USE PhotoAssumption, RequestsAssumption
<1>1. CASE Fetch
  BY <1>1 DEF Fetch, DbNext
<1>2. CASE EditorPush
  BY <1>2 DEF EditorPush, DbNext
<1>3. CASE Drop
  BY <1>3 DEF Drop
<1>4. ASSUME NEW t \in Tags, NEW v \in Values \cup {Empty}, SetTag(t, v)
      PROVE  [DbNext]_dbVars
  <2>1. copy \in TagLists
    BY <1>4 DEF SetTag, TypeOK
  <2>2. copy' \in Requests /\ AddTask(Editor, copy')
    BY <1>4, <2>1, SettersKeepType DEF SetTag
  <2> QED BY <2>2 DEF DbNext
<1>5. ASSUME NEW new \in TagLists, SetTags(new)
      PROVE  [DbNext]_dbVars
  <2>1. copy \in TagLists
    BY <1>5 DEF SetTags, TypeOK
  <2>2. copy' \in Requests /\ AddTask(Editor, copy')
    BY <1>5, <2>1, SettersKeepType DEF SetTags
  <2> QED BY <2>2 DEF DbNext
<1>6. ASSUME NEW c \in Clients, OtherPush(c)
      PROVE  [DbNext]_dbVars
  BY <1>6 DEF OtherPush, DbNext
<1>7. ASSUME NEW c \in Clients, NEW list \in TagLists, OtherUpdate(c, list)
      PROVE  [DbNext]_dbVars
  BY <1>7 DEF OtherUpdate, DbNext
<1>8. CASE DatabaseStep
  BY <1>8 DEF DatabaseStep, TakeTask, StoreDelta, StoreClosed, StoreFails, NotifyCache,
              GetPhoto, Finish, DbNext
<1>9. CASE CloseBegin \/ CloseStep
  BY <1>9 DEF DbNext
<1>10. CASE UNCHANGED vars
  BY <1>10 DEF vars
<1> QED BY <1>1, <1>2, <1>3, <1>4, <1>5, <1>6, <1>7, <1>8, <1>9, <1>10 DEF Next, CloseProject

\* DbCloseTask has been executed only when the database is not working any more.
LEMMA ClosedNotWorking == DbIInv /\ BackendClosed => ~working
<1> SUFFICES ASSUME DbIInv, BackendClosed PROVE ~working
  OBVIOUS
<1>1. PICK i \in 1 .. Len(performed) : performed[i] = Close
  BY DEF BackendClosed
<1>2. /\ performed \in Seq(Tasks) /\ InHand \in Seq(Tasks) /\ tasks \in Seq(Tasks)
      /\ performed \o InHand \in Seq(Tasks)
  BY ConcatProperties DEF DbIInv, DbTypeOK, InHand
<1>3. (performed \o InHand)[i] = Close /\ i \in 1 .. Len(performed \o InHand)
  BY <1>1, <1>2, ConcatProperties, LenProperties
<1>4. (performed \o InHand \o tasks)[i] = Close /\ i \in 1 .. Len(performed \o InHand \o tasks)
  BY <1>2, <1>3, ConcatProperties, LenProperties
<1>5. Close \in Elems(accepted)
  BY <1>4 DEF DbIInv, ExecutedInOrder, Elems
<1> QED BY <1>5 DEF DbIInv, CloseSent

-----------------------------------------------------------------------------
(* The invariant *)

\* The initial state satisfies the invariant.
LEMMA InitPhotoIInv == Init => PhotoIInv
<1> SUFFICES ASSUME Init PROVE PhotoIInv
  OBVIOUS
<1>1. DbIInv
  BY InitDbIInv DEF Init
<1>2. TypeOK
  <2>1. stored \in TagLists /\ committed \in TagLists
    BY DEF Init, TagLists
  <2>2. lastSet \in [Tags -> Values \cup {Empty, Nobody}]
    BY DEF Init
  <2>3. open \in BOOLEAN /\ refused \subseteq TagLists
    BY Zenon DEF Init
  <2>4. faults \in Nat /\ faults <= MaxFaults
    BY PhotoAssumption DEF Init
  <2> QED BY <1>1, <2>1, <2>2, <2>3, <2>4 DEF Init, TypeOK, DbIInv
<1> QED BY <1>1, <1>2 DEF Init, PhotoIInv, StageOfCurrent, StoreFollows, CopyFollows

\* A step keeps the types of the photo's state.
LEMMA TypeStep == PhotoIInv /\ [Next]_vars => TypeOK' /\ StageOfCurrent'
<1> SUFFICES ASSUME PhotoIInv, [Next]_vars PROVE TypeOK' /\ StageOfCurrent'
  OBVIOUS
<1>0. DbTypeOK' /\ TypeOK /\ StageOfCurrent
  BY StepOfDatabase, DbStep DEF PhotoIInv, DbIInv
<1> USE <1>0, PhotoAssumption, RequestsAssumption, DatabaseAssumption
    DEF TypeOK, StageOfCurrent, storeVars
<1>1. CASE Fetch
  BY <1>1 DEF Fetch, AddTask
<1>2. CASE EditorPush
  BY <1>2 DEF EditorPush, Push
<1>3. CASE Drop
  BY <1>3 DEF Drop, dbVars
<1>4. ASSUME NEW t \in Tags, NEW v \in Values \cup {Empty}, SetTag(t, v)
      PROVE  TypeOK' /\ StageOfCurrent'
  <2>1. copy' \in TagLists
    BY <1>4, SettersKeepType DEF SetTag
  <2> QED BY <1>4, <2>1 DEF SetTag, AddTask
<1>5. ASSUME NEW new \in TagLists, SetTags(new)
      PROVE  TypeOK' /\ StageOfCurrent'
  <2>1. copy' \in TagLists
    BY <1>5, SettersKeepType DEF SetTags
  <2>2. lastSet' \in [Tags -> Values \cup {Empty, Nobody}]
    BY <1>5 DEF SetTags, TagLists
  <2> QED BY <1>5, <2>1, <2>2 DEF SetTags, AddTask
<1>6. ASSUME NEW c \in Clients, OtherPush(c)
      PROVE  TypeOK' /\ StageOfCurrent'
  BY <1>6 DEF OtherPush, Push
<1>7. ASSUME NEW c \in Clients, NEW list \in TagLists, OtherUpdate(c, list)
      PROVE  TypeOK' /\ StageOfCurrent'
  BY <1>7 DEF OtherUpdate, AddTask
<1>8. CASE TakeTask
  BY <1>8 DEF TakeTask
<1>9. CASE StoreDelta \/ StoreClosed
  BY <1>9 DEF StoreDelta, StoreClosed, dbVars
<1>15. CASE StoreFails
  <2>1. stored' \in TagLists /\ faults' \in Nat /\ faults' <= MaxFaults
    BY <1>15 DEF StoreFails, BeginFails, StatementFails, CommitFails
  <2>2. open' \in BOOLEAN
    BY <1>15, Zenon DEF StoreFails, BeginFails, StatementFails, CommitFails
  <2> QED BY <1>15, <2>1, <2>2 DEF StoreFails, dbVars
<1>10. CASE NotifyCache
  BY <1>10 DEF NotifyCache, dbVars
<1>11. CASE GetPhoto
  BY <1>11 DEF GetPhoto, dbVars
<1>12. CASE Finish
  BY <1>12 DEF Finish
<1>13. CASE (ThreadEnds \/ CloseBegin \/ CloseStep) /\ Rest
  BY <1>13 DEF Rest, ThreadEnds, CloseBegin, CloseStep, ClosePush, CloseStop, CloseJoin
<1>14. CASE UNCHANGED vars
  BY <1>14 DEF vars, dbVars
<1> QED BY <1>1, <1>2, <1>3, <1>4, <1>5, <1>6, <1>7, <1>8, <1>9, <1>10, <1>11, <1>12, <1>13,
           <1>14, <1>15 DEF Next, DatabaseStep, CloseProject

\* What the backend reads and what is on the disk part only in a failed COMMIT.
LEMMA StoreStep == TypeOK /\ StoreFollows /\ [Next]_vars => StoreFollows'
<1> SUFFICES ASSUME TypeOK, StoreFollows, [Next]_vars PROVE StoreFollows'
  OBVIOUS
<1>1. CASE UNCHANGED storeVars
  BY <1>1 DEF storeVars, StoreFollows
<1>2. CASE StoreDelta
  BY <1>2 DEF StoreDelta, StoreFollows
<1>3. CASE StoreFails
  BY <1>3 DEF StoreFails, BeginFails, StatementFails, CommitFails, StoreFollows
<1> QED BY <1>1, <1>2, <1>3 DEF Next, Fetch, EditorPush, Drop, SetTag, SetTags, OtherPush,
              OtherUpdate, DatabaseStep, TakeTask, StoreClosed, NotifyCache, GetPhoto, Finish,
              Rest, CloseProject, vars

\* The copy's list goes from the setter's call through the queue to the database's
\* thread, where it is stored or refused, unless a notification overwrites it.
LEMMA FollowStep == PhotoIInv /\ [Next]_vars => CopyFollows'
<1> SUFFICES ASSUME PhotoIInv, [Next]_vars PROVE CopyFollows'
  OBVIOUS
<1>0. DbTypeOK /\ TypeOK /\ StageOfCurrent /\ StoreFollows /\ CopyFollows
  BY DEF PhotoIInv, DbIInv
<1> USE <1>0, PhotoAssumption, RequestsAssumption, DatabaseAssumption
<1>18. copy # Nobody => copy \in TagLists /\ copy # None /\ copy # Load /\ copy # Close
  BY DEF TypeOK
<1>1. ASSUME NEW c \in Clients, Push(c), UNCHANGED <<storeVars, copy, stage>>
      PROVE  CopyFollows'
  <2>1. /\ \A i \in 1 .. Len(tasks) : tasks'[i] = tasks[i]
        /\ Len(tasks') = Len(tasks) + 1 /\ Len(tasks) \in Nat
        /\ tasks'[Len(tasks) + 1] = calling[c]
    BY <1>1, AppendProperties, LenProperties DEF Push, Enqueue, DbTypeOK, Tasks
  <2>2. CopyUnderWay => CopyUnderWay'
    <3>1. CASE current = copy /\ stage = "begin"
      BY <1>1, <3>1 DEF CopyUnderWay, Push
    <3>2. CASE calling[Editor] = copy
      <4>1. CASE c = Editor
        BY <1>1, <2>1, <3>2, <4>1 DEF CopyUnderWay
      <4>2. CASE c # Editor
        BY <1>1, <3>2, <4>2 DEF CopyUnderWay, Push, DbTypeOK
      <4> QED BY <4>1, <4>2
    <3>3. ASSUME NEW i \in 1 .. Len(tasks), tasks[i] = copy
          PROVE  CopyUnderWay'
      BY <1>1, <2>1, <3>3 DEF CopyUnderWay
    <3> QED BY <3>1, <3>2, <3>3 DEF CopyUnderWay
  <2> QED BY <1>1, <2>2 DEF CopyFollows, BackendClosed, Push, storeVars
<1>2. ASSUME NEW c \in Clients, NEW r \in Requests, AddTask(c, r),
             UNCHANGED <<storeVars, stage>>, copy' = copy \/ (c = Editor /\ copy' = r)
      PROVE  CopyFollows'
  <2>1. CASE c = Editor /\ copy' = r
    <3>1. calling'[Editor] = r
      BY <1>2, <2>1 DEF AddTask, DbTypeOK
    <3> QED BY <2>1, <3>1 DEF CopyFollows, CopyUnderWay
  <2>2. CASE copy' = copy /\ copy # Nobody
    <3>1. calling[Editor] = copy => calling'[Editor] = copy
      BY <1>2, <1>18, <2>2 DEF AddTask, DbTypeOK
    <3>2. CopyUnderWay => CopyUnderWay'
      BY <1>2, <2>2, <3>1 DEF CopyUnderWay, AddTask, queueVars
    <3> QED BY <1>2, <2>2, <3>2 DEF CopyFollows, BackendClosed, AddTask, storeVars
  <2> QED BY <1>2, <2>1, <2>2 DEF CopyFollows
<1>3. CASE Fetch
  <2>1. AddTask(Editor, Load) /\ UNCHANGED <<storeVars, stage, copy>>
    BY <1>3 DEF Fetch
  <2> QED BY <1>2, <2>1
<1>4. CASE EditorPush
  BY <1>1, <1>4 DEF EditorPush
<1>5. CASE Drop
  BY <1>5 DEF Drop, CopyFollows
<1>6. ASSUME NEW t \in Tags, NEW v \in Values \cup {Empty}, SetTag(t, v)
      PROVE  CopyFollows'
  <2>1. copy' \in TagLists
    BY <1>6, SettersKeepType DEF SetTag, TypeOK
  <2>2. AddTask(Editor, copy') /\ UNCHANGED <<storeVars, stage>>
    BY <1>6 DEF SetTag
  <2> QED BY <1>2, <2>1, <2>2
<1>7. ASSUME NEW new \in TagLists, SetTags(new)
      PROVE  CopyFollows'
  <2>1. copy' \in TagLists
    BY <1>7, SettersKeepType DEF SetTags, TypeOK
  <2>2. AddTask(Editor, copy') /\ UNCHANGED <<storeVars, stage>>
    BY <1>7 DEF SetTags
  <2> QED BY <1>2, <2>1, <2>2
<1>8. ASSUME NEW c \in Clients, OtherPush(c)
      PROVE  CopyFollows'
  BY <1>1, <1>8 DEF OtherPush
<1>9. ASSUME NEW c \in Clients, NEW list \in TagLists, OtherUpdate(c, list)
      PROVE  CopyFollows'
  <2>1. AddTask(c, list) /\ UNCHANGED <<storeVars, stage, copy>>
    BY <1>9 DEF OtherUpdate
  <2> QED BY <1>2, <2>1
<1>10. CASE TakeTask
  <2>1. /\ tasks \in Seq(Tasks) /\ tasks # <<>>
        /\ current' = tasks[1] /\ stage' = "begin"
        /\ tasks' = Tail(tasks) /\ Len(tasks) \in Nat /\ Len(tasks) >= 1
        /\ current = None
        /\ UNCHANGED <<calling, copy, storeVars, performed>>
    BY <1>10, EmptySeq, LenProperties DEF TakeTask, Pop, DbTypeOK
  <2>2. /\ Len(tasks') = Len(tasks) - 1
        /\ \A i \in 1 .. Len(tasks') : tasks'[i] = tasks[i + 1]
    BY <2>1, HeadTailProperties
  <2>3. copy # Nobody /\ CopyUnderWay => CopyUnderWay'
    <3>1. CASE calling[Editor] = copy
      BY <2>1, <3>1 DEF CopyUnderWay
    <3>2. ASSUME NEW i \in 1 .. Len(tasks), tasks[i] = copy
          PROVE  CopyUnderWay'
      <4>1. CASE i = 1
        BY <2>1, <3>2, <4>1 DEF CopyUnderWay
      <4>2. CASE i # 1
        <5>1. i - 1 \in 1 .. Len(tasks') /\ tasks'[i - 1] = tasks[i]
          BY <2>1, <2>2, <4>2
        <5> QED BY <2>1, <3>2, <5>1 DEF CopyUnderWay
      <4> QED BY <4>1, <4>2
    <3>3. copy # Nobody => current # copy
      BY <1>18, <2>1
    <3> QED BY <3>1, <3>2, <3>3 DEF CopyUnderWay
  <2>4. stage # "notify"
    BY <2>1 DEF StageOfCurrent
  <2> QED BY <2>1, <2>3, <2>4 DEF CopyFollows, BackendClosed, storeVars
<1>11. CASE StoreDelta
  BY <1>11 DEF StoreDelta, CopyFollows
<1>19. CASE StoreClosed
  BY <1>19 DEF StoreClosed, dbVars, CopyFollows, BackendClosed
<1>20. CASE StoreFails
  <2>1. /\ stage = "begin" /\ ~BackendClosed
        /\ refused' = refused \cup {current}
        /\ UNCHANGED <<dbVars, committed, copy>>
    BY <1>20 DEF StoreFails
  <2>2. CASE copy \in {stored, committed} \cup refused
    <3>1. copy \in {committed} \cup refused
      BY <2>2 DEF StoreFollows
    <3> QED BY <2>1, <3>1 DEF CopyFollows
  <2>3. CASE CopyUnderWay
    <3>1. CASE current = copy
      BY <2>1, <3>1 DEF CopyFollows
    <3>2. CASE calling[Editor] = copy \/ \E i \in 1 .. Len(tasks) : tasks[i] = copy
      <4>1. CopyUnderWay'
        BY <2>1, <3>2 DEF CopyUnderWay, dbVars
      <4> QED BY <4>1 DEF CopyFollows
    <3> QED BY <2>3, <3>1, <3>2 DEF CopyUnderWay
  <2> QED BY <2>1, <2>2, <2>3 DEF CopyFollows
<1>12. CASE NotifyCache
  BY <1>12 DEF NotifyCache, storeVars, CopyFollows
<1>13. CASE GetPhoto
  <2>1. /\ stage = "begin" /\ current = Load
        /\ UNCHANGED <<dbVars, storeVars>>
    BY <1>13 DEF GetPhoto
  <2>2. copy' = copy /\ copy # Nobody /\ CopyUnderWay => CopyUnderWay'
    BY <1>18, <2>1 DEF dbVars, CopyUnderWay
  <2>3. BackendClosed => BackendClosed'
    BY <2>1 DEF dbVars, BackendClosed
  <2>4. copy' = copy \/ copy' = stored
    BY <1>13 DEF GetPhoto
  <2> QED BY <2>1, <2>2, <2>3, <2>4 DEF CopyFollows, storeVars
<1>14. CASE Finish
  <2>1. /\ UNCHANGED <<calling, tasks, copy, storeVars>>
        /\ performed' = Append(performed, current) /\ current \in Tasks
        /\ stage = "end" \/ current = Close
    BY <1>14 DEF Finish, TaskDone, queueVars, DbTypeOK
  <2>2. copy # Nobody /\ CopyUnderWay => CopyUnderWay'
    <3>1. CASE current = copy /\ stage = "begin"
      BY <1>18, <2>1, <3>1
    <3>2. CASE calling[Editor] = copy \/ \E i \in 1 .. Len(tasks) : tasks[i] = copy
      BY <2>1, <3>2 DEF CopyUnderWay
    <3> QED BY <3>1, <3>2 DEF CopyUnderWay
  <2>3. BackendClosed => BackendClosed'
    BY <2>1, AppendProperties, LenProperties DEF BackendClosed, DbTypeOK
  <2>4. stage # "notify"
    BY <2>1 DEF StageOfCurrent
  <2> QED BY <2>1, <2>2, <2>3, <2>4 DEF CopyFollows, storeVars
<1>15. CASE (ThreadEnds \/ CloseBegin \/ CloseStop \/ CloseJoin) /\ Rest
  BY <1>15 DEF Rest, storeVars, ThreadEnds, CloseBegin, CloseStop, CloseJoin, queueVars,
               CopyFollows, CopyUnderWay, BackendClosed
<1>16. CASE ClosePush /\ Rest
  <2>1. /\ \A i \in 1 .. Len(tasks) : tasks'[i] = tasks[i]
        /\ Len(tasks') = Len(tasks) + 1 /\ Len(tasks) \in Nat
    BY <1>16, AppendProperties, LenProperties DEF ClosePush, Enqueue, DbTypeOK, Tasks
  <2>2. CopyUnderWay => CopyUnderWay'
    BY <1>16, <2>1 DEF ClosePush, Rest, CopyUnderWay
  <2> QED BY <1>16, <2>2 DEF ClosePush, Rest, storeVars, CopyFollows, BackendClosed
<1>17. CASE UNCHANGED vars
  BY <1>17 DEF vars, storeVars, dbVars, CopyFollows, CopyUnderWay, BackendClosed
<1> QED BY <1>3, <1>4, <1>5, <1>6, <1>7, <1>8, <1>9, <1>10, <1>11, <1>12, <1>13, <1>14, <1>15,
           <1>16, <1>17, <1>19, <1>20 DEF Next, DatabaseStep, CloseStep, CloseProject

-----------------------------------------------------------------------------
(* Theorems *)

\* PhotoInfo and Utils: the invariant holds in every reachable state.
THEOREM PhotoInvariance == Spec => []PhotoIInv
<1>1. PhotoIInv /\ [Next]_vars => PhotoIInv'
  BY StepOfDatabase, DbStep, TypeStep, StoreStep, FollowStep DEF PhotoIInv
<1> QED BY <1>1, InitPhotoIInv, PTL DEF Spec

\* PhotoInfo: the variables keep their types.
THEOREM TypeCorrect == Spec => []TypeOK
<1>1. PhotoIInv => TypeOK
  BY DEF PhotoIInv
<1> QED BY <1>1, PhotoInvariance, PTL

\* Utils::photosModified(), async_database.cpp:185 and :268: however many clients
\* update the photo, whichever of the updates fail, and whether the editor drops and
\* fetches the photo meanwhile, the copy and the backend agree whenever nothing is
\* under way and nothing failed since; after failures the copy is one of the
\* updates that failed, or what the backend reads or has on the disk.
THEOREM CopyAlwaysStoredOrRefused == Spec => []CopyIsStoredOrRefused
<1>1. PhotoIInv => CopyIsStoredOrRefused
  <2> SUFFICES ASSUME PhotoIInv, Idle, copy # Nobody PROVE CopyIsStoredOrRefused
    BY DEF CopyIsStoredOrRefused
  <2>1. ~BackendClosed
    BY ClosedNotWorking DEF PhotoIInv, Idle
  <2>2. ~CopyUnderWay
    <3>1. copy # None
      BY DatabaseAssumption, RequestsAssumption DEF PhotoIInv, TypeOK
    <3> QED BY <3>1, PhotoAssumption, EmptySeq DEF Idle, CopyUnderWay
  <2>3. stage # "notify"
    BY DatabaseAssumption DEF PhotoIInv, StageOfCurrent, Idle, TypeOK
  <2>4. copy \in {stored, committed} \cup refused
    BY <2>1, <2>2, <2>3 DEF PhotoIInv, CopyFollows
  <2>5. refused = {} => stored = committed
    BY DEF PhotoIInv, StoreFollows
  <2> QED BY <2>4, <2>5 DEF CopyIsStoredOrRefused
<1> QED BY <1>1, PhotoInvariance, PTL

\* PhotoInfo with its setters, notifications and other clients is a use of
\* AsyncDatabase: every behaviour is one of DbSpec.
THEOREM UsesDatabase == Spec => DbSpec
<1>1. Init => DbInit
  BY DEF Init
<1>2. PhotoIInv /\ [Next]_vars => [DbNext]_dbVars
  BY StepOfDatabase DEF PhotoIInv
<1> QED BY <1>1, <1>2, PhotoInvariance, PTL DEF Spec, DbSpec
=============================================================================
