------------------------- MODULE TaskExecutorProofs -------------------------
(***************************************************************************)
(* Proofs about TaskExecutor, for any sets of tasks and any number of      *)
(* threads, NThreads = 0 included.                                         *)
(*                                                                         *)
(* The safety properties are not inductive by themselves.  EatOutlivesTasks*)
(* needs SlotsAccounted (running = 0 must mean that nobody works),         *)
(* SlotsAccounted needs TaskInOnePlace (a worker must add a new task to    *)
(* busy), and the light half needs to know what m_lightTasks counts and    *)
(* who holds its mutex.  IInv is the conjunction of all of that.           *)
(***************************************************************************)
EXTENDS TaskExecutor, FiniteSetTheorems, SequenceTheorems, TLAPS

\* m_lightTasks counts the light threads that have not counted themselves down.
Uncounted == {l \in LightTasks : light[l] \in {"performing", "counting"}}
LightCounted == lightCount = Cardinality(Uncounted)

\* The mutex is held between the count-down and the end of a thread, by it alone.
MutexHeldByUnlocking ==
    /\ lightMutex <=> \E l \in LightTasks : light[l] = "unlocking"
    /\ \A k, l \in LightTasks :
          light[k] = "unlocking" /\ light[l] = "unlocking" => k = l

\* stop() and the final part of eat() are for an executor that does not work.
StoppingMeansNotWorking ==
    /\ stopper # "no" => ~working
    /\ eater \in {"finish", "lastBlock", "lastAsleep", "exited"} => ~working

StoppedMeansCounted == stopper = "stopped" => lightCount = 0 /\ ~lightMutex

HeavyInv == /\ TaskInOnePlace
            /\ SlotsAccounted
            /\ EatOutlivesTasks
            /\ StoppingMeansNotWorking
LightInv == LightCounted /\ MutexHeldByUnlocking /\ StoppedMeansCounted

IInv == TypeOK /\ HeavyInv /\ LightInv

-----------------------------------------------------------------------------
(* Queues without repetition *)

Elements(s) == {s[i] : i \in DOMAIN s}
Distinct(s) == \A i, j \in DOMAIN s : s[i] = s[j] => i = j

\* Appending a new element keeps a sequence free of repetitions.
LEMMA AppendNew ==
    ASSUME NEW S, NEW s \in Seq(S), NEW e \in S, e \notin Elements(s), Distinct(s)
    PROVE  /\ Distinct(Append(s, e))
           /\ Elements(Append(s, e)) = Elements(s) \cup {e}
<1>1. /\ Len(Append(s, e)) = Len(s) + 1
      /\ \A i \in 1 .. Len(s) : Append(s, e)[i] = s[i]
      /\ Append(s, e)[Len(s) + 1] = e
  BY AppendProperties
<1>2. /\ DOMAIN s = 1 .. Len(s) /\ Len(s) \in Nat
      /\ DOMAIN Append(s, e) = 1 .. Len(s) + 1
  BY <1>1, AppendProperties, LenProperties
<1>3. \A i \in 1 .. Len(s) : s[i] # e
  BY <1>2 DEF Elements
<1>4. Distinct(Append(s, e))
  BY <1>1, <1>2, <1>3 DEF Distinct
<1>5. Elements(Append(s, e)) \subseteq Elements(s) \cup {e}
  BY <1>1, <1>2 DEF Elements
<1>6. Elements(s) \cup {e} \subseteq Elements(Append(s, e))
  BY <1>1, <1>2 DEF Elements
<1> QED BY <1>4, <1>5, <1>6

\* Taking the head from such a sequence leaves all other elements and not it.
LEMMA TailWithoutHead ==
    ASSUME NEW S, NEW s \in Seq(S), s # <<>>, Distinct(s)
    PROVE  /\ Distinct(Tail(s))
           /\ Elements(Tail(s)) = Elements(s) \ {Head(s)}
           /\ Head(s) \in Elements(s)
<1>1. /\ Len(s) \in Nat /\ Len(s) >= 1
      /\ DOMAIN s = 1 .. Len(s)
      /\ Head(s) = s[1]
  BY EmptySeq, LenProperties
<1>2. /\ Tail(s) \in Seq(S)
      /\ Len(Tail(s)) = Len(s) - 1
      /\ \A i \in 1 .. Len(s) - 1 : Tail(s)[i] = s[i + 1]
  BY <1>1
<1>3. DOMAIN Tail(s) = 1 .. Len(s) - 1
  BY <1>2, LenProperties
<1>4. Distinct(Tail(s))
  BY <1>1, <1>2, <1>3 DEF Distinct
<1>5. Elements(Tail(s)) \subseteq Elements(s) \ {Head(s)}
  BY <1>1, <1>2, <1>3 DEF Elements, Distinct
<1>6. ASSUME NEW x \in Elements(s), x # Head(s)
      PROVE  x \in Elements(Tail(s))
  <2>1. PICK i \in 1 .. Len(s) : x = s[i]
    BY <1>1 DEF Elements
  <2>2. i - 1 \in 1 .. Len(s) - 1 /\ Tail(s)[i - 1] = x
    BY <1>1, <1>2, <1>6, <2>1
  <2> QED BY <1>3, <2>2 DEF Elements
<1> QED BY <1>1, <1>4, <1>5, <1>6 DEF Elements

-----------------------------------------------------------------------------
(* The invariant *)

\* The initial state satisfies the invariant.
LEMMA InitIInv == Init => IInv
<1> SUFFICES ASSUME Init PROVE IInv
  OBVIOUS
<1> USE ExecutorAssumption DEF Init
<1>1. TypeOK
  <2>1. working \in BOOLEAN /\ queueStopped \in BOOLEAN /\ lightMutex \in BOOLEAN
    BY Zenon
  <2>2. light \in [LightTasks -> LightPlaces]
    BY DEF LightPlaces
  <2>3. queue \in Seq(Tasks)
    BY EmptySeq
  <2> QED BY <2>1, <2>2, <2>3 DEF TypeOK, EaterPlaces, StopPlaces
<1>2. HeavyInv
  BY FS_EmptySet DEF HeavyInv, TaskInOnePlace, Queued, SlotsAccounted, EatOutlivesTasks,
                     StoppingMeansNotWorking
<1>3. LightInv
  <2>1. Uncounted = {}
    BY DEF Uncounted
  <2> QED BY <2>1, FS_EmptySet DEF LightInv, LightCounted, MutexHeldByUnlocking,
                                   StoppedMeansCounted
<1> QED BY <1>1, <1>2, <1>3 DEF IInv

\* The heavy tasks: every action keeps each in one place and each slot counted.
LEMMA HeavyStep == IInv /\ [Next]_vars => HeavyInv'
<1> SUFFICES ASSUME IInv, [Next]_vars PROVE HeavyInv'
  OBVIOUS
<1> USE DEF IInv, HeavyInv
<1>0. /\ IsFiniteSet(busy) /\ Cardinality(busy) \in Nat
      /\ Queued = Elements(queue) /\ Queued' = Elements(queue')
      /\ Distinct(queue)
      /\ queue \in Seq(Tasks) /\ busy \subseteq Tasks
      /\ running \in Nat /\ idle \in Nat /\ leaving \in Nat /\ NThreads \in Nat
  BY ExecutorAssumption, FS_Subset, FS_CardinalityType
     DEF TypeOK, Queued, Elements, Distinct, TaskInOnePlace
<1>1. ASSUME NEW t \in Tasks, Add(t) PROVE HeavyInv'
  <2>1. Distinct(queue') /\ Elements(queue') = Elements(queue) \cup {t}
    BY <1>0, <1>1, AppendNew DEF Add
  <2>2. TaskInOnePlace'
    BY <1>0, <1>1, <2>1 DEF Add, heavyVars, TaskInOnePlace, Distinct
  <2> QED
    BY <1>1, <2>2 DEF Add, heavyVars, SlotsAccounted, EatOutlivesTasks,
                      StoppingMeansNotWorking
<1>2. CASE EaterSpawn
  <2>1. SlotsAccounted'
    BY <1>0, <1>2 DEF EaterSpawn, MayStartWorker, SlotsAccounted
  <2> QED
    BY <1>2, <2>1 DEF EaterSpawn, TaskInOnePlace, Queued, EatOutlivesTasks,
                      StoppingMeansNotWorking
<1>3. CASE EaterCheck
  <2>1. EatOutlivesTasks'
    <3>1. running = 0 => idle = 0 /\ leaving = 0 /\ Cardinality(busy) = 0
      BY <1>0 DEF SlotsAccounted
    <3>2. running = 0 => busy = {}
      BY <1>0, <3>1, FS_EmptySet
    <3> QED BY <1>3, <3>1, <3>2 DEF EaterCheck, WorkersGone, heavyVars, EatOutlivesTasks
  <2> QED
    BY <1>3, <2>1 DEF EaterCheck, heavyVars, TaskInOnePlace, Queued, SlotsAccounted,
                      StoppingMeansNotWorking
<1>4. CASE EaterLoop \/ EaterHasData \/ EaterBlock \/ EaterSpuriousWakeup
  BY <1>4 DEF EaterLoop, EaterHasData, EaterBlock, EaterSpuriousWakeup, Woken, heavyVars,
              TaskInOnePlace, Queued, SlotsAccounted, EatOutlivesTasks,
              StoppingMeansNotWorking
<1>5. CASE WorkerPop
  <2>1. /\ Distinct(queue')
        /\ Elements(queue') = Elements(queue) \ {Head(queue)}
        /\ Head(queue) \in Elements(queue)
    BY <1>0, <1>5, TailWithoutHead DEF WorkerPop
  <2>2. TaskInOnePlace'
    BY <1>0, <1>5, <2>1 DEF WorkerPop, TaskInOnePlace, Distinct
  <2>3. Cardinality(busy') = Cardinality(busy) + 1
    <3>1. Head(queue) \notin busy
      BY <1>0, <2>1 DEF TaskInOnePlace
    <3> QED BY <1>0, <1>5, <3>1, FS_AddElement DEF WorkerPop
  <2>4. SlotsAccounted'
    BY <1>0, <1>5, <2>3 DEF WorkerPop, SlotsAccounted
  <2> QED
    BY <1>0, <1>5, <2>2, <2>4 DEF WorkerPop, EatOutlivesTasks, StoppingMeansNotWorking
<1>6. ASSUME NEW t \in Tasks, WorkerPerformed(t) PROVE HeavyInv'
  <2>1. Cardinality(busy') = Cardinality(busy) - 1
    BY <1>0, <1>6, FS_RemoveElement DEF WorkerPerformed
  <2>2. SlotsAccounted'
    BY <1>0, <1>6, <2>1 DEF WorkerPerformed, SlotsAccounted
  <2>3. TaskInOnePlace'
    BY <1>6 DEF WorkerPerformed, TaskInOnePlace, Queued
  <2> QED
    BY <1>6, <2>2, <2>3 DEF WorkerPerformed, EatOutlivesTasks, StoppingMeansNotWorking
<1>7. CASE WorkerNoTask
  BY <1>0, <1>7 DEF WorkerNoTask, TaskInOnePlace, Queued, SlotsAccounted,
                    EatOutlivesTasks, StoppingMeansNotWorking
<1>8. CASE WorkerLeave
  BY <1>0, <1>8 DEF WorkerLeave, TaskInOnePlace, Queued, SlotsAccounted,
                    EatOutlivesTasks, StoppingMeansNotWorking
<1>9. CASE WorkerNotify
  BY <1>9 DEF WorkerNotify, Woken, TaskInOnePlace, Queued, SlotsAccounted,
              EatOutlivesTasks, StoppingMeansNotWorking
<1>10. ASSUME NEW l \in LightTasks, AddLight(l) \/ LightStep(l) PROVE HeavyInv'
  BY <1>10 DEF AddLight, LightStep, LightPerformed, LightCountDown, LightUnlock,
               LightNotify, heavyVars, TaskInOnePlace, Queued, SlotsAccounted,
               EatOutlivesTasks, StoppingMeansNotWorking
<1>11. CASE StopBegin \/ StopStep
  BY <1>11 DEF StopBegin, StopStep, StopQueue, StopJoin, StopLight, heavyVars,
               TaskInOnePlace, Queued, SlotsAccounted, EatOutlivesTasks,
               StoppingMeansNotWorking
<1>12. CASE UNCHANGED vars
  BY <1>12 DEF vars, heavyVars, TaskInOnePlace, Queued, SlotsAccounted, EatOutlivesTasks,
               StoppingMeansNotWorking
<1> QED
  BY <1>1, <1>2, <1>3, <1>4, <1>5, <1>6, <1>7, <1>8, <1>9, <1>10, <1>11, <1>12
     DEF Next, EaterStep, WorkerStep

\* The light tasks: every action keeps the count and the mutex in step with the
\* places of the threads.
LEMMA LightStepInv == IInv /\ [Next]_vars => LightInv'
<1> SUFFICES ASSUME IInv, [Next]_vars PROVE LightInv'
  OBVIOUS
<1> USE DEF IInv, LightInv
<1>0. /\ IsFiniteSet(Uncounted) /\ Cardinality(Uncounted) \in Nat
      /\ light \in [LightTasks -> LightPlaces]
      /\ lightCount \in Nat
  BY ExecutorAssumption, FS_Subset, FS_CardinalityType DEF TypeOK, Uncounted
<1>1. ASSUME NEW l \in LightTasks, AddLight(l) PROVE LightInv'
  <2>1. Uncounted' = Uncounted \cup {l} /\ l \notin Uncounted
    BY <1>0, <1>1 DEF AddLight, Uncounted
  <2>2. LightCounted'
    BY <1>0, <1>1, <2>1, FS_AddElement DEF AddLight, LightCounted
  <2>3. MutexHeldByUnlocking'
    BY <1>0, <1>1 DEF AddLight, MutexHeldByUnlocking
  <2>4. StoppedMeansCounted'
    BY <1>1 DEF AddLight, StoppedMeansCounted, HeavyInv, StoppingMeansNotWorking
  <2> QED BY <2>2, <2>3, <2>4
<1>2. ASSUME NEW l \in LightTasks, LightPerformed(l) PROVE LightInv'
  <2>1. Uncounted' = Uncounted
    BY <1>0, <1>2 DEF LightPerformed, Uncounted
  <2> QED
    BY <1>0, <1>2, <2>1 DEF LightPerformed, LightCounted, MutexHeldByUnlocking,
                            StoppedMeansCounted
<1>3. ASSUME NEW l \in LightTasks, LightCountDown(l) PROVE LightInv'
  <2>1. Uncounted' = Uncounted \ {l} /\ l \in Uncounted
    BY <1>0, <1>3 DEF LightCountDown, Uncounted
  <2>2. LightCounted'
    BY <1>0, <1>3, <2>1, FS_RemoveElement DEF LightCountDown, LightCounted
  <2>3. MutexHeldByUnlocking'
    BY <1>0, <1>3 DEF LightCountDown, MutexHeldByUnlocking
  <2>4. stopper # "stopped"
    BY <1>0, <2>1, FS_EmptySet DEF LightCounted, StoppedMeansCounted
  <2> QED BY <1>3, <2>2, <2>3, <2>4 DEF LightCountDown, StoppedMeansCounted
<1>4. ASSUME NEW l \in LightTasks, LightUnlock(l) PROVE LightInv'
  <2>1. Uncounted' = Uncounted
    BY <1>0, <1>4 DEF LightUnlock, Uncounted
  <2>2. MutexHeldByUnlocking'
    BY <1>0, <1>4 DEF LightUnlock, MutexHeldByUnlocking
  <2> QED
    BY <1>4, <2>1, <2>2 DEF LightUnlock, LightCounted, StoppedMeansCounted
<1>5. ASSUME NEW l \in LightTasks, LightNotify(l) PROVE LightInv'
  <2>1. Uncounted' = Uncounted
    BY <1>0, <1>5 DEF LightNotify, Uncounted
  <2>2. MutexHeldByUnlocking'
    BY <1>0, <1>5 DEF LightNotify, MutexHeldByUnlocking
  <2> QED
    BY <1>5, <2>1, <2>2 DEF LightNotify, LightCounted, StoppedMeansCounted
<1>6. CASE StopLight
  BY <1>6 DEF StopLight, lightVars, LightCounted, Uncounted, MutexHeldByUnlocking,
              StoppedMeansCounted
<1>7. CASE StopBegin \/ StopQueue \/ StopJoin
  BY <1>7 DEF StopBegin, StopQueue, StopJoin, lightVars, LightCounted, Uncounted,
              MutexHeldByUnlocking, StoppedMeansCounted
<1>8. ASSUME UNCHANGED <<stopper, lightVars>> PROVE LightInv'
  BY <1>8 DEF lightVars, LightCounted, Uncounted, MutexHeldByUnlocking,
              StoppedMeansCounted
<1>9. ASSUME \/ \E t \in Tasks : Add(t)
             \/ EaterStep \/ EaterSpuriousWakeup \/ WorkerStep
             \/ UNCHANGED vars
      PROVE  UNCHANGED <<stopper, lightVars>>
  BY <1>9 DEF Add, EaterStep, EaterLoop, EaterHasData, EaterSpawn, EaterCheck, EaterBlock,
              EaterSpuriousWakeup, WorkerStep, WorkerPop, WorkerNoTask, WorkerLeave,
              WorkerNotify, WorkerPerformed, vars, lightVars
<1> QED
  BY <1>1, <1>2, <1>3, <1>4, <1>5, <1>6, <1>7, <1>8, <1>9
     DEF Next, LightStep, StopStep

\* Every action assigns values of the right types; the counters stay natural
\* because HeavyInv and LightInv say that what is counted down was counted.
LEMMA TypeStep == IInv /\ [Next]_vars => TypeOK'
<1> SUFFICES ASSUME IInv, [Next]_vars PROVE TypeOK'
  OBVIOUS
<1> USE DEF IInv, TypeOK
<1>0. /\ IsFiniteSet(busy) /\ Cardinality(busy) \in Nat
      /\ IsFiniteSet(Uncounted) /\ Cardinality(Uncounted) \in Nat
  BY ExecutorAssumption, FS_Subset, FS_CardinalityType DEF Uncounted
<1>1. ASSUME NEW t \in Tasks, Add(t) PROVE TypeOK'
  <2>1. Append(queue, t) \in Seq(Tasks)
    BY AppendProperties
  <2> QED BY <1>1, <2>1 DEF Add, heavyVars, lightVars
<1>2. CASE EaterStep \/ EaterSpuriousWakeup
  <2>1. eater' \in EaterPlaces
    BY <1>2 DEF EaterStep, EaterLoop, EaterHasData, EaterSpawn, EaterCheck, EaterBlock,
                EaterSpuriousWakeup, Woken, EaterPlaces
  <2>2. running' \in Nat /\ idle' \in Nat
    BY <1>2 DEF EaterStep, EaterLoop, EaterHasData, EaterSpawn, EaterCheck, EaterBlock,
                EaterSpuriousWakeup, heavyVars
  <2> QED
    BY <1>2, <2>1, <2>2 DEF EaterStep, EaterLoop, EaterHasData, EaterSpawn, EaterCheck,
                            EaterBlock, EaterSpuriousWakeup, heavyVars, lightVars
<1>3. CASE WorkerPop
  <2>1. Head(queue) \in Tasks /\ Tail(queue) \in Seq(Tasks)
    BY <1>3, HeadTailProperties DEF WorkerPop
  <2> QED BY <1>3, <2>1 DEF WorkerPop, lightVars
<1>4. CASE WorkerNoTask \/ \E t \in Tasks : WorkerPerformed(t)
  BY <1>4 DEF WorkerNoTask, WorkerPerformed, lightVars
<1>5. CASE WorkerLeave
  <2>1. running > 0
    BY <1>0, <1>5 DEF WorkerLeave, HeavyInv, SlotsAccounted
  <2> QED BY <1>5, <2>1 DEF WorkerLeave, lightVars
<1>6. CASE WorkerNotify
  BY <1>6 DEF WorkerNotify, Woken, EaterPlaces, lightVars
<1>7. ASSUME NEW l \in LightTasks, AddLight(l) \/ LightStep(l) PROVE TypeOK'
  <2>1. light' \in [LightTasks -> LightPlaces]
    BY <1>7 DEF AddLight, LightStep, LightPerformed, LightCountDown, LightUnlock,
                LightNotify, LightPlaces
  <2>2. lightCount' \in Nat
    <3>1. CASE LightCountDown(l)
      <4>1. Uncounted # {}
        BY <3>1 DEF LightCountDown, Uncounted
      <4>2. lightCount > 0
        BY <1>0, <4>1, FS_EmptySet DEF LightInv, LightCounted
      <4> QED BY <3>1, <4>2 DEF LightCountDown
    <3> QED
      BY <1>7, <3>1 DEF AddLight, LightStep, LightPerformed, LightUnlock, LightNotify
  <2>3. lightMutex' \in BOOLEAN /\ stopper' \in StopPlaces
    BY <1>7 DEF AddLight, LightStep, LightPerformed, LightCountDown, LightUnlock,
                LightNotify, StopPlaces
  <2> QED
    BY <1>7, <2>1, <2>2, <2>3 DEF AddLight, LightStep, LightPerformed, LightCountDown,
                                  LightUnlock, LightNotify, heavyVars
<1>8. CASE StopBegin \/ StopStep
  BY <1>8 DEF StopBegin, StopStep, StopQueue, StopJoin, StopLight, StopPlaces, heavyVars,
              lightVars
<1>9. CASE UNCHANGED vars
  BY <1>9 DEF vars, heavyVars, lightVars
<1> QED
  BY <1>1, <1>2, <1>3, <1>4, <1>5, <1>6, <1>7, <1>8, <1>9 DEF Next, WorkerStep

\* The invariant holds in every reachable state.
THEOREM Invariance == Spec => []IInv
<1>1. IInv /\ [Next]_vars => IInv'
  BY HeavyStep, LightStepInv, TypeStep DEF IInv
<1> QED BY InitIInv, <1>1, PTL DEF Spec

\* Every variable always holds a value of its type: no counter of the executor is
\* ever decremented below zero.
THEOREM TypeCorrect == Spec => []TypeOK
BY Invariance, PTL DEF IInv

\* A heavy task is never queued twice, lost to two workers or performed again.
THEOREM TasksInOnePlace == Spec => []TaskInOnePlace
BY Invariance, PTL DEF IInv, HeavyInv

\* running_tasks counts the workers and never exceeds the number of threads.
THEOREM SlotsAlwaysAccounted == Spec => []SlotsAccounted
BY Invariance, PTL DEF IInv, HeavyInv

\* No worker looks for, performs or gives up anything after eat() has returned.
THEOREM EatAlwaysOutlivesTasks == Spec => []EatOutlivesTasks
BY Invariance, PTL DEF IInv, HeavyInv

\* stop() returns only after every light task was performed and released the mutex.
THEOREM StopAlwaysWaitsForLightTasks == Spec => []StopWaitsForLightTasks
<1>1. IInv => StopWaitsForLightTasks
  <2> SUFFICES ASSUME IInv, stopper = "stopped", NEW l \in LightTasks
               PROVE  light[l] \in {"none", "notifying", "gone"}
    BY DEF StopWaitsForLightTasks
  <2>1. IsFiniteSet(Uncounted)
    BY ExecutorAssumption, FS_Subset DEF Uncounted
  <2>2. Uncounted = {} /\ ~lightMutex
    BY <2>1, FS_EmptySet DEF IInv, LightInv, LightCounted, StoppedMeansCounted
  <2>3. light[l] \notin {"performing", "counting", "unlocking"}
    BY <2>2 DEF Uncounted, IInv, LightInv, MutexHeldByUnlocking
  <2> QED BY <2>3 DEF IInv, TypeOK, LightPlaces
<1> QED BY Invariance, <1>1, PTL

-----------------------------------------------------------------------------
(* The executor is a task pool *)

\* Every step of the executor is a step of the pool or leaves the pool alone:
\* Add submits, WorkerPop starts, WorkerPerformed finishes and the eater's last
\* check halts; no other step shows.
LEMMA PoolStep == IInv /\ [Next]_vars => [Pool!Next]_(Pool!vars)
<1> SUFFICES ASSUME IInv, [Next]_vars PROVE [Pool!Next]_(Pool!vars)
  OBVIOUS
<1> USE DEF IInv, HeavyInv
<1>0. /\ IsFiniteSet(busy) /\ Cardinality(busy) \in Nat
      /\ Queued = Elements(queue) /\ Queued' = Elements(queue')
      /\ Distinct(queue)
      /\ queue \in Seq(Tasks) /\ busy \subseteq Tasks
      /\ running \in Nat /\ idle \in Nat /\ leaving \in Nat /\ NThreads \in Nat
  BY ExecutorAssumption, FS_Subset, FS_CardinalityType
     DEF TypeOK, Queued, Elements, Distinct, TaskInOnePlace
<1>1. ASSUME NEW t \in Tasks, Add(t) PROVE Pool!Next
  <2>1. Queued' = Queued \cup {t}
    BY <1>0, <1>1, AppendNew DEF Add
  <2>2. eater # "exited"
    BY <1>1 DEF Add, StoppingMeansNotWorking
  <2>3. Pool!Submit(t)
    BY <1>1, <2>1, <2>2 DEF Add, heavyVars, Pool!Submit
  <2> QED BY <2>3 DEF Pool!Next
<1>2. CASE WorkerPop
  <2>1. /\ Queued' = Queued \ {Head(queue)}
        /\ Head(queue) \in Queued
        /\ Head(queue) \in Tasks
    BY <1>0, <1>2, TailWithoutHead, HeadTailProperties DEF WorkerPop
  <2>2. Pool!Cardinality(busy) < NThreads
    <3>1. Cardinality(busy) < NThreads
      BY <1>0, <1>2 DEF WorkerPop, SlotsAccounted
    <3>2. Pool!Cardinality(busy) = Cardinality(busy)
      BY DEF Pool!Cardinality, Cardinality
    <3> QED BY <3>1, <3>2
  <2>3. eater # "exited"
    BY <1>0, <1>2 DEF WorkerPop, EatOutlivesTasks
  <2>4. Pool!Start(Head(queue))
    BY <1>2, <2>1, <2>2, <2>3 DEF WorkerPop, Pool!Start
  <2> QED BY <2>1, <2>4 DEF Pool!Next
<1>3. ASSUME NEW t \in Tasks, WorkerPerformed(t) PROVE Pool!Next
  <2>1. Pool!Finish(t)
    BY <1>3 DEF WorkerPerformed, Queued, Pool!Finish
  <2> QED BY <2>1 DEF Pool!Next
<1>4. CASE EaterCheck
  <2>1. CASE eater' = "exited"
    <3>1. running = 0
      BY <1>4, <2>1 DEF EaterCheck, WorkersGone
    <3>2. Cardinality(busy) = 0
      BY <1>0, <3>1 DEF SlotsAccounted
    <3>3. busy = {}
      BY <1>0, <3>2, FS_EmptySet
    <3>4. Pool!Halt
      BY <1>4, <2>1, <3>3 DEF EaterCheck, heavyVars, Queued, Pool!Halt
    <3> QED BY <3>4 DEF Pool!Next
  <2>2. CASE eater' # "exited"
    BY <1>4, <2>2 DEF EaterCheck, heavyVars, Queued, Pool!vars
  <2> QED BY <2>1, <2>2
<1>5. ASSUME \/ EaterLoop \/ EaterHasData \/ EaterSpawn \/ EaterBlock
             \/ EaterSpuriousWakeup \/ WorkerNoTask \/ WorkerLeave \/ WorkerNotify
      PROVE  UNCHANGED Pool!vars
  BY <1>5 DEF EaterLoop, EaterHasData, EaterSpawn, EaterBlock, EaterSpuriousWakeup, Woken,
              WorkerNoTask, WorkerLeave, WorkerNotify, heavyVars, Queued, Pool!vars
<1>6. ASSUME NEW l \in LightTasks, AddLight(l) \/ LightStep(l)
      PROVE  UNCHANGED Pool!vars
  BY <1>6 DEF AddLight, LightStep, LightPerformed, LightCountDown, LightUnlock, LightNotify,
              heavyVars, Queued, Pool!vars
<1>7. ASSUME StopBegin \/ StopStep \/ UNCHANGED vars PROVE UNCHANGED Pool!vars
  BY <1>7 DEF StopBegin, StopStep, StopQueue, StopJoin, StopLight, vars, heavyVars, Queued,
              Pool!vars
<1> QED
  BY <1>1, <1>2, <1>3, <1>4, <1>5, <1>6, <1>7 DEF Next, EaterStep, WorkerStep

\* The heavy half of the executor implements the abstract pool of NThreads.
THEOREM ExecutorIsTaskPool == Spec => IsTaskPool
<1>1. Init => Pool!Init
  <2> SUFFICES ASSUME Init PROVE Pool!Init
    OBVIOUS
  <2>1. Queued = {} /\ busy = {} /\ done = {} /\ eater # "exited"
    BY DEF Init, Queued
  <2> QED BY <2>1, Zenon DEF Pool!Init
<1> QED BY Invariance, PoolStep, <1>1, PTL DEF Spec, IsTaskPool, Pool!Spec
=============================================================================
