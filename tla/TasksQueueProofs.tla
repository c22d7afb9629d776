-------------------------- MODULE TasksQueueProofs --------------------------
(***************************************************************************)
(* Proofs about TasksQueue, for any number of pushes and of workers and    *)
(* both modes.                                                             *)
(*                                                                         *)
(* The argument turns on NoTaskWaitsNeedlessly: as long as it holds, the   *)
(* loop of try_to_fire() runs at most once, because either nothing was     *)
(* waiting or exactly one slot has just become free.                       *)
(***************************************************************************)
EXTENDS TasksQueue, FiniteSetTheorems, SequenceTheorems, TLAPS

Distinct(s) == \A i, j \in DOMAIN s : s[i] = s[j] => i = j

\* A task waits, or is with the executor, or is finished; new numbers are unused.
EachTaskOnce ==
    /\ Distinct(waiting)
    /\ Elements(waiting) \cap (pending \cup active \cup finished) = {}
    /\ pending \cap active = {}
    /\ Elements(waiting) \cup pending \cup active \cup finished \subseteq 1 .. pushed

IInv == /\ TypeOK
        /\ EachTaskOnce
        /\ ExecutingCounted
        /\ NoTaskWaitsNeedlessly
        /\ DestroyedIsQuiet

-----------------------------------------------------------------------------
(* Sequences *)

\* A sequence without repetitions and its element at one end.
LEMMA TakeFirst ==
    ASSUME NEW S, NEW w \in Seq(S), Len(w) >= 1, Distinct(w)
    PROVE  /\ SubSeq(w, 2, Len(w)) \in Seq(S)
           /\ Len(SubSeq(w, 2, Len(w))) = Len(w) - 1
           /\ Distinct(SubSeq(w, 2, Len(w)))
           /\ Elements(SubSeq(w, 2, Len(w))) = Elements(w) \ {w[1]}
           /\ Elements(SubSeq(w, 1, 1)) = {w[1]}
           /\ w[1] \in Elements(w)
<1> DEFINE v == SubSeq(w, 2, Len(w))
<1>1. Len(w) \in Nat /\ DOMAIN w = 1 .. Len(w) /\ \A i \in 1 .. Len(w) : w[i] \in S
  BY LenProperties, ElementOfSeq
<1>2. /\ v \in Seq(S)
      /\ Len(v) = Len(w) - 1
      /\ \A i \in 1 .. Len(w) - 1 : v[i] = w[i + 1]
  BY <1>1, SubSeqProperties
<1>3. DOMAIN v = 1 .. Len(w) - 1
  BY <1>2, LenProperties
<1> HIDE DEF v
<1>4. Distinct(v)
  <2> SUFFICES ASSUME NEW i \in 1 .. Len(w) - 1, NEW j \in 1 .. Len(w) - 1, v[i] = v[j]
               PROVE  i = j
    BY <1>3 DEF Distinct
  <2>1. w[i + 1] = w[j + 1] /\ i + 1 \in DOMAIN w /\ j + 1 \in DOMAIN w
    BY <1>1, <1>2
  <2>2. i + 1 = j + 1
    BY <2>1 DEF Distinct
  <2> QED BY <1>1, <2>2
<1>5. Elements(v) \subseteq Elements(w) \ {w[1]}
  BY <1>1, <1>2, <1>3 DEF Elements, Distinct
<1>6. ASSUME NEW x \in Elements(w), x # w[1]
      PROVE  x \in Elements(v)
  <2>1. PICK i \in 1 .. Len(w) : x = w[i]
    BY <1>1 DEF Elements
  <2>2. i - 1 \in 1 .. Len(w) - 1 /\ v[i - 1] = x
    BY <1>1, <1>2, <1>6, <2>1
  <2> QED BY <1>3, <2>2 DEF Elements
<1>7. Elements(SubSeq(w, 1, 1)) = {w[1]}
  <2>1. /\ SubSeq(w, 1, 1) \in Seq(S)
        /\ Len(SubSeq(w, 1, 1)) = 1
        /\ SubSeq(w, 1, 1)[1] = w[1]
    BY <1>1, SubSeqProperties
  <2>2. DOMAIN SubSeq(w, 1, 1) = 1 .. 1
    BY <2>1, LenProperties
  <2> QED BY <2>1, <2>2 DEF Elements
<1>8. w[1] \in Elements(w)
  BY <1>1 DEF Elements
<1>9. Elements(v) = Elements(w) \ {w[1]}
  BY <1>5, <1>6
<1> QED BY <1>2, <1>4, <1>7, <1>8, <1>9 DEF v

\* The same for the other end.
LEMMA TakeLast ==
    ASSUME NEW S, NEW w \in Seq(S), Len(w) >= 1, Distinct(w)
    PROVE  /\ SubSeq(w, 1, Len(w) - 1) \in Seq(S)
           /\ Len(SubSeq(w, 1, Len(w) - 1)) = Len(w) - 1
           /\ Distinct(SubSeq(w, 1, Len(w) - 1))
           /\ Elements(SubSeq(w, 1, Len(w) - 1)) = Elements(w) \ {w[Len(w)]}
           /\ Elements(SubSeq(w, Len(w), Len(w))) = {w[Len(w)]}
           /\ w[Len(w)] \in Elements(w)
<1> DEFINE v == SubSeq(w, 1, Len(w) - 1)
           u == SubSeq(w, Len(w), Len(w))
<1>1. Len(w) \in Nat /\ DOMAIN w = 1 .. Len(w) /\ \A i \in 1 .. Len(w) : w[i] \in S
  BY LenProperties, ElementOfSeq
<1>2. /\ v \in Seq(S)
      /\ Len(v) = Len(w) - 1
      /\ \A i \in 1 .. Len(w) - 1 : v[i] = w[i]
  BY <1>1, SubSeqProperties
<1>3. DOMAIN v = 1 .. Len(w) - 1
  BY <1>2, LenProperties
<1>4. u \in Seq(S) /\ Len(u) = 1 /\ u[1] = w[Len(w)]
  BY <1>1, SubSeqProperties
<1>5. DOMAIN u = 1 .. 1
  BY <1>4, LenProperties
<1> HIDE DEF v, u
<1>6. Distinct(v)
  BY <1>1, <1>2, <1>3 DEF Distinct
<1>7. Elements(v) \subseteq Elements(w) \ {w[Len(w)]}
  BY <1>1, <1>2, <1>3 DEF Elements, Distinct
<1>8. Elements(w) \ {w[Len(w)]} \subseteq Elements(v)
  BY <1>1, <1>2, <1>3 DEF Elements
<1>9. Elements(u) = {w[Len(w)]}
  BY <1>4, <1>5 DEF Elements
<1>10. w[Len(w)] \in Elements(w)
  BY <1>1 DEF Elements
<1>11. Elements(v) = Elements(w) \ {w[Len(w)]}
  BY <1>7, <1>8
<1> QED BY <1>2, <1>6, <1>9, <1>10, <1>11 DEF v, u

\* No element is taken.
LEMMA TakeNone ==
    ASSUME NEW S, NEW w \in Seq(S)
    PROVE  /\ SubSeq(w, 1, Len(w)) = w
           /\ Elements(SubSeq(w, 1, 0)) = {}
           /\ Elements(SubSeq(w, Len(w) + 1, Len(w))) = {}
<1>1. SubSeq(w, 1, Len(w)) = w
  BY SubSeqFull
<1>2. SubSeq(w, 1, 0) = <<>> /\ SubSeq(w, Len(w) + 1, Len(w)) = <<>>
  BY SubSeqEmpty, LenProperties
<1> QED BY <1>1, <1>2 DEF Elements

-----------------------------------------------------------------------------
(* The loop of try_to_fire() *)

\* Called with a free slot too few or a task too few to loop twice, try_to_fire()
\* gives the executor nothing, because there is nothing or no slot, or it gives
\* the executor exactly one of the tasks.
LEMMA FireAtMostOne ==
    ASSUME NEW w \in Seq(Tasks), NEW e \in Nat, NEW p, QueueAssumption,
           Distinct(w), e <= MaxTasks,
           Len(w) <= 1 \/ e + 1 >= MaxTasks,
           mode \in {"Fifo", "Lifo"},
           TryToFire(w, e, p)
    PROVE  \/ /\ waiting' = w /\ executing' = e /\ pending' = p
              /\ w = <<>> \/ e = MaxTasks
           \/ \E t \in Elements(w) :
                 /\ waiting' \in Seq(Tasks)
                 /\ Distinct(waiting')
                 /\ Elements(waiting') = Elements(w) \ {t}
                 /\ executing' = e + 1
                 /\ executing' <= MaxTasks
                 /\ pending' = p \cup {t}
                 /\ waiting' = <<>> \/ executing' = MaxTasks
<1>1. Len(w) \in Nat /\ MaxTasks \in Nat /\ MaxTasks >= 2
  BY LenProperties DEF QueueAssumption, MaxTasks
<1>2. Fires(w, e) = IF Len(w) = 0 \/ e = MaxTasks THEN 0 ELSE 1
  BY <1>1 DEF Fires
<1>3. CASE Len(w) = 0 \/ e = MaxTasks
  <2>1. Taken(w, 0).left = w /\ Elements(Taken(w, 0).gone) = {}
    BY <1>1, TakeNone DEF Taken, Oldest, Newest
  <2>2. Fires(w, e) = 0
    BY <1>2, <1>3
  <2>3. waiting' = w /\ executing' = e /\ pending' = p
    BY <2>1, <2>2 DEF TryToFire
  <2>4. w = <<>> \/ e = MaxTasks
    BY <1>3, EmptySeq
  <2> QED BY <2>3, <2>4
<1>4. CASE Len(w) # 0 /\ e # MaxTasks
  <2>1. Fires(w, e) = 1
    BY <1>2, <1>4
  <2>2. /\ waiting' = Taken(w, 1).left
        /\ executing' = e + 1
        /\ pending' = p \cup Elements(Taken(w, 1).gone)
    BY <2>1 DEF TryToFire
  <2>3. e + 1 <= MaxTasks /\ Len(w) >= 1
    BY <1>1, <1>4
  <2>4. PICK t \in Elements(w) :
           /\ Elements(Taken(w, 1).gone) = {t}
           /\ Taken(w, 1).left \in Seq(Tasks)
           /\ Distinct(Taken(w, 1).left)
           /\ Elements(Taken(w, 1).left) = Elements(w) \ {t}
           /\ Len(Taken(w, 1).left) = Len(w) - 1
    <3>1. CASE mode = "Fifo"
      <4>1. /\ Taken(w, 1).gone = SubSeq(w, 1, 1)
            /\ Taken(w, 1).left = SubSeq(w, 2, Len(w))
        BY <3>1 DEF Taken, Oldest
      <4>2. w[1] \in Elements(w)
        BY <2>3, TakeFirst
      <4>3. /\ Elements(SubSeq(w, 1, 1)) = {w[1]}
            /\ SubSeq(w, 2, Len(w)) \in Seq(Tasks)
            /\ Len(SubSeq(w, 2, Len(w))) = Len(w) - 1
            /\ Distinct(SubSeq(w, 2, Len(w)))
            /\ Elements(SubSeq(w, 2, Len(w))) = Elements(w) \ {w[1]}
        BY <2>3, TakeFirst
      <4> WITNESS w[1] \in Elements(w)
      <4> QED BY <4>1, <4>3, Zenon
    <3>2. CASE mode # "Fifo"
      <4>1. /\ Taken(w, 1).gone = SubSeq(w, Len(w), Len(w))
            /\ Taken(w, 1).left = SubSeq(w, 1, Len(w) - 1)
        BY <1>1, <3>2 DEF Taken, Newest
      <4>2. w[Len(w)] \in Elements(w)
        BY <2>3, TakeLast
      <4>3. /\ Elements(SubSeq(w, Len(w), Len(w))) = {w[Len(w)]}
            /\ SubSeq(w, 1, Len(w) - 1) \in Seq(Tasks)
            /\ Len(SubSeq(w, 1, Len(w) - 1)) = Len(w) - 1
            /\ Distinct(SubSeq(w, 1, Len(w) - 1))
            /\ Elements(SubSeq(w, 1, Len(w) - 1)) = Elements(w) \ {w[Len(w)]}
        BY <2>3, TakeLast
      <4> WITNESS w[Len(w)] \in Elements(w)
      <4> QED BY <4>1, <4>3, Zenon
    <3> QED BY <3>1, <3>2
  <2>5. waiting' = <<>> \/ executing' = MaxTasks
    <3>1. CASE Len(w) <= 1
      BY <1>1, <2>2, <2>3, <2>4, <3>1, EmptySeq
    <3>2. CASE e + 1 >= MaxTasks
      BY <1>1, <2>2, <2>3, <3>2
    <3> QED BY <3>1, <3>2
  <2> QED BY <2>2, <2>3, <2>4, <2>5
<1> QED BY <1>3, <1>4

-----------------------------------------------------------------------------
(* The invariant *)

\* The initial states satisfy the invariant.
LEMMA InitIInv == Init => IInv
<1> SUFFICES ASSUME Init PROVE IInv
  OBVIOUS
<1> USE DEF Init
<1>1. Elements(waiting) = {} /\ Distinct(waiting) /\ waiting \in Seq(Tasks)
  BY EmptySeq DEF Elements, Distinct
<1>2. TypeOK
  BY <1>1, QueueAssumption DEF TypeOK, OwnerPlaces
<1>3. ExecutingCounted
  BY FS_EmptySet, QueueAssumption DEF ExecutingCounted, MaxTasks
<1> QED
  BY <1>1, <1>2, <1>3 DEF IInv, EachTaskOnce, NoTaskWaitsNeedlessly, DestroyedIsQuiet

\* push() keeps the invariant.
LEMMA PushStep == IInv /\ Push => IInv'
<1> SUFFICES ASSUME IInv, Push PROVE IInv'
  OBVIOUS
<1> USE DEF IInv
<1> DEFINE new == pushed + 1
           w == Append(waiting, new)
<1>1. /\ pushed \in Nat /\ MaxPushes \in Nat /\ MaxTasks \in Nat /\ MaxTasks >= 2
      /\ new \in Tasks
      /\ waiting \in Seq(Tasks) /\ Len(waiting) \in Nat
      /\ new \notin Elements(waiting) \cup pending \cup active \cup finished
  BY QueueAssumption, LenProperties DEF TypeOK, Push, Tasks, MaxTasks, EachTaskOnce
<1>2. /\ w \in Seq(Tasks) /\ Len(w) = Len(waiting) + 1 /\ w # <<>>
      /\ Distinct(w) /\ Elements(w) = Elements(waiting) \cup {new}
  <2>1. /\ w \in Seq(Tasks) /\ Len(w) = Len(waiting) + 1 /\ w # <<>>
        /\ \A i \in 1 .. Len(waiting) : w[i] = waiting[i]
        /\ w[Len(waiting) + 1] = new
    BY <1>1, AppendProperties
  <2>2. DOMAIN w = 1 .. Len(waiting) + 1 /\ DOMAIN waiting = 1 .. Len(waiting)
    BY <1>1, <2>1, LenProperties
  <2>3. \A i \in 1 .. Len(waiting) : waiting[i] # new
    BY <1>1, <2>2 DEF Elements
  <2> HIDE DEF w, new
  <2>4. Distinct(w)
    BY <1>1, <2>1, <2>2, <2>3 DEF Distinct, EachTaskOnce
  <2>5. Elements(w) \subseteq Elements(waiting) \cup {new}
    BY <1>1, <2>1, <2>2 DEF Elements
  <2>6. Elements(waiting) \cup {new} \subseteq Elements(w)
    BY <1>1, <2>1, <2>2 DEF Elements
  <2> QED BY <2>1, <2>4, <2>5, <2>6
<1>3. /\ executing \in Nat /\ executing <= MaxTasks
      /\ Len(w) <= 1 \/ executing + 1 >= MaxTasks
  <2>1. waiting = <<>> => Len(w) = 1
    BY <1>2, EmptySeq
  <2> QED BY <1>1, <2>1 DEF TypeOK, ExecutingCounted, NoTaskWaitsNeedlessly
<1>4. TryToFire(w, executing, pending)
  BY DEF Push
<1>5. /\ IsFiniteSet(pending \cup active) /\ Cardinality(pending \cup active) \in Nat
      /\ pending \subseteq Tasks /\ active \subseteq Tasks
  <2>1. IsFiniteSet(Tasks)
    BY <1>1, FS_Interval DEF Tasks
  <2> QED BY <2>1, FS_Subset, FS_CardinalityType DEF TypeOK
<1>6. /\ pushed' = new
      /\ UNCHANGED <<mode, active, finished, halted, owner>>
      /\ owner # "destroyed"
  BY DEF Push, DestroyedIsQuiet
<1> HIDE DEF w, new
<1>7. \/ /\ waiting' = w /\ executing' = executing /\ pending' = pending
         /\ executing = MaxTasks
      \/ \E t \in Elements(w) :
            /\ waiting' \in Seq(Tasks)
            /\ Distinct(waiting')
            /\ Elements(waiting') = Elements(w) \ {t}
            /\ executing' = executing + 1
            /\ executing' <= MaxTasks
            /\ pending' = pending \cup {t}
            /\ waiting' = <<>> \/ executing' = MaxTasks
  BY <1>2, <1>3, <1>4, FireAtMostOne, QueueAssumption DEF TypeOK
<1>8. pushed' \in 0 .. MaxPushes /\ (1 .. pushed) \cup {new} \subseteq 1 .. pushed'
  BY <1>1, <1>6 DEF Tasks, new
<1>9. CASE /\ waiting' = w /\ executing' = executing /\ pending' = pending
           /\ executing = MaxTasks
  <2>1. TypeOK'
    BY <1>2, <1>6, <1>8, <1>9 DEF TypeOK
  <2>2. EachTaskOnce'
    BY <1>1, <1>2, <1>6, <1>8, <1>9 DEF EachTaskOnce
  <2> QED
    BY <1>6, <1>9, <2>1, <2>2 DEF ExecutingCounted, NoTaskWaitsNeedlessly,
                                  DestroyedIsQuiet, MaxTasks
<1>10. ASSUME NEW t \in Elements(w),
              /\ waiting' \in Seq(Tasks)
              /\ Distinct(waiting')
              /\ Elements(waiting') = Elements(w) \ {t}
              /\ executing' = executing + 1
              /\ executing' <= MaxTasks
              /\ pending' = pending \cup {t}
              /\ waiting' = <<>> \/ executing' = MaxTasks
       PROVE  IInv'
  <2>1. t \in Tasks /\ t \notin pending \cup active \cup finished
    BY <1>1, <1>2 DEF EachTaskOnce, Tasks, TypeOK
  <2>2. TypeOK'
    BY <1>3, <1>6, <1>8, <1>10, <2>1 DEF TypeOK
  <2>3. EachTaskOnce'
    <3>1. /\ Elements(w) \cap (pending \cup active \cup finished) = {}
          /\ pending \cap active = {}
          /\ Elements(w) \cup pending \cup active \cup finished \subseteq 1 .. pushed'
      BY <1>1, <1>2, <1>8 DEF EachTaskOnce
    <3>2. /\ Elements(waiting') = Elements(w) \ {t} /\ pending' = pending \cup {t}
          /\ active' = active /\ finished' = finished /\ Distinct(waiting')
      BY <1>6, <1>10
    <3> QED BY <2>1, <3>1, <3>2 DEF EachTaskOnce
  <2>4. Cardinality((pending \cup active)') = Cardinality(pending \cup active) + 1
    <3>1. (pending \cup active)' = (pending \cup active) \cup {t}
      BY <1>6, <1>10
    <3> QED BY <1>5, <2>1, <3>1, FS_AddElement
  <2>5. ExecutingCounted'
    BY <1>10, <2>4 DEF ExecutingCounted, MaxTasks
  <2>6. NoTaskWaitsNeedlessly'
    BY <1>10 DEF NoTaskWaitsNeedlessly, MaxTasks
  <2>7. DestroyedIsQuiet'
    BY <1>6 DEF DestroyedIsQuiet
  <2> QED BY <2>2, <2>3, <2>5, <2>6, <2>7
<1> QED BY <1>7, <1>9, <1>10

\* task_finished() keeps the invariant.
LEMMA FinishStep == ASSUME IInv, NEW f \in Tasks, TaskFinished(f) PROVE IInv'
<1> USE DEF IInv
<1> DEFINE e == executing - 1
<1>1. /\ MaxTasks \in Nat /\ MaxTasks >= 2 /\ MaxPushes \in Nat
      /\ waiting \in Seq(Tasks) /\ Len(waiting) \in Nat
      /\ executing \in Nat /\ f \in active
  BY QueueAssumption, LenProperties DEF TypeOK, TaskFinished, MaxTasks
<1>2. /\ IsFiniteSet(pending \cup active) /\ Cardinality(pending \cup active) \in Nat
      /\ pending \subseteq Tasks /\ active \subseteq Tasks
  <2>1. IsFiniteSet(Tasks)
    BY <1>1, FS_Interval DEF Tasks
  <2> QED BY <2>1, FS_Subset, FS_CardinalityType DEF TypeOK
<1>3. /\ active' = active \ {f} /\ finished' = finished \cup {f}
      /\ UNCHANGED <<mode, pushed, halted>>
      /\ owner' \in OwnerPlaces
      /\ owner' # "destroyed"
  BY <1>1 DEF TaskFinished, TypeOK, OwnerPlaces, DestroyedIsQuiet
<1>4. /\ IsFiniteSet(pending \cup active')
      /\ Cardinality(pending \cup active') = e
      /\ e \in Nat
  <2>1. pending \cup active' = (pending \cup active) \ {f} /\ f \in pending \cup active
    BY <1>1, <1>3 DEF EachTaskOnce
  <2>2. /\ IsFiniteSet((pending \cup active) \ {f})
        /\ Cardinality((pending \cup active) \ {f}) = Cardinality(pending \cup active) - 1
    BY <1>2, <2>1, FS_RemoveElement
  <2>3. Cardinality((pending \cup active) \ {f}) \in Nat
    BY <2>2, FS_CardinalityType
  <2> QED BY <2>1, <2>2, <2>3 DEF ExecutingCounted
<1>5. /\ e <= MaxTasks
      /\ Len(waiting) <= 1 \/ e + 1 >= MaxTasks
      /\ e = MaxTasks => FALSE
  <2>1. waiting = <<>> => Len(waiting) = 0
    BY EmptySeq
  <2> QED BY <1>1, <2>1 DEF ExecutingCounted, NoTaskWaitsNeedlessly
<1>6. TryToFire(waiting, e, pending)
  BY DEF TaskFinished
<1> HIDE DEF e
<1>7. \/ waiting' = <<>> /\ waiting = <<>> /\ executing' = e /\ pending' = pending
      \/ \E t \in Elements(waiting) :
            /\ waiting' \in Seq(Tasks)
            /\ Distinct(waiting')
            /\ Elements(waiting') = Elements(waiting) \ {t}
            /\ executing' = e + 1
            /\ executing' <= MaxTasks
            /\ pending' = pending \cup {t}
            /\ waiting' = <<>> \/ executing' = MaxTasks
  BY <1>1, <1>4, <1>5, <1>6, FireAtMostOne, QueueAssumption DEF TypeOK, EachTaskOnce
<1>8. CASE waiting' = <<>> /\ waiting = <<>> /\ executing' = e /\ pending' = pending
  <2>1. TypeOK'
    BY <1>3, <1>4, <1>8, <1>1 DEF TypeOK
  <2>2. EachTaskOnce'
    BY <1>1, <1>3, <1>8 DEF EachTaskOnce
  <2>3. ExecutingCounted'
    BY <1>4, <1>5, <1>8 DEF ExecutingCounted, MaxTasks
  <2> QED
    BY <1>3, <1>8, <2>1, <2>2, <2>3 DEF NoTaskWaitsNeedlessly, DestroyedIsQuiet
<1>9. ASSUME NEW t \in Elements(waiting),
             /\ waiting' \in Seq(Tasks)
             /\ Distinct(waiting')
             /\ Elements(waiting') = Elements(waiting) \ {t}
             /\ executing' = e + 1
             /\ executing' <= MaxTasks
             /\ pending' = pending \cup {t}
             /\ waiting' = <<>> \/ executing' = MaxTasks
      PROVE  IInv'
  <2>1. t \in Tasks /\ t \notin pending \cup active \cup finished
    BY <1>1 DEF EachTaskOnce, Tasks, TypeOK
  <2>2. TypeOK'
    BY <1>1, <1>3, <1>4, <1>9, <2>1 DEF TypeOK
  <2>3. EachTaskOnce'
    BY <1>1, <1>3, <1>9, <2>1 DEF EachTaskOnce
  <2>4. Cardinality(pending' \cup active') = e + 1
    <3>1. pending' \cup active' = (pending \cup active') \cup {t}
      BY <1>9
    <3>2. t \notin pending \cup active'
      BY <1>3, <2>1
    <3> QED BY <1>4, <3>1, <3>2, FS_AddElement
  <2>5. ExecutingCounted'
    BY <1>9, <2>4 DEF ExecutingCounted, MaxTasks
  <2> QED
    BY <1>3, <1>9, <2>2, <2>3, <2>5 DEF NoTaskWaitsNeedlessly, DestroyedIsQuiet, MaxTasks
<1> QED BY <1>7, <1>8, <1>9

\* Every other step keeps it too.
LEMMA InductiveStep == IInv /\ [Next]_vars => IInv'
<1> SUFFICES ASSUME IInv, [Next]_vars PROVE IInv'
  OBVIOUS
<1> USE DEF IInv
<1>1. CASE Push
  BY <1>1, PushStep
<1>2. ASSUME NEW f \in Tasks, TaskFinished(f) PROVE IInv'
  BY <1>2, FinishStep
<1>3. CASE Clear \/ DestroyClear
  <2>0. waiting' = <<>>
    BY <1>3 DEF Clear, DestroyClear
  <2>1. /\ Elements(waiting') = {} /\ Distinct(waiting')
        /\ waiting' \in Seq(Tasks)
    BY <2>0, EmptySeq DEF Elements, Distinct
  <2>2. /\ UNCHANGED <<mode, pushed, executing, pending, active, finished, halted>>
        /\ owner' \in OwnerPlaces /\ owner' # "destroyed"
    BY <1>3 DEF Clear, DestroyClear, OwnerPlaces, TypeOK
  <2> QED
    BY <2>0, <2>1, <2>2 DEF TypeOK, EachTaskOnce, ExecutingCounted,
                            NoTaskWaitsNeedlessly, DestroyedIsQuiet, MaxTasks
<1>4. CASE ExecutorStarts
  <2>1. PICK t \in Tasks : Pool!Start(t)
    BY <1>4 DEF ExecutorStarts
  <2>2. /\ t \in pending
        /\ pending' = pending \ {t} /\ active' = active \cup {t}
        /\ UNCHANGED <<mode, pushed, waiting, executing, finished, halted, owner>>
    BY <1>4, <2>1 DEF ExecutorStarts, Pool!Start
  <2>3. pending' \cup active' = pending \cup active
    BY <2>2
  <2>4. TypeOK' /\ EachTaskOnce'
    BY <2>2 DEF TypeOK, EachTaskOnce, Distinct, Elements
  <2> QED
    BY <2>2, <2>3, <2>4 DEF ExecutingCounted, NoTaskWaitsNeedlessly, DestroyedIsQuiet,
                            MaxTasks
<1>5. CASE DestroyWait
  <2>1. /\ UNCHANGED <<mode, pushed, waiting, executing, pending, active, finished, halted>>
        /\ owner' \in OwnerPlaces
        /\ owner' = "destroyed" => executing = 0
    BY <1>5 DEF DestroyWait, OwnerPlaces
  <2>2. executing = 0 => pending = {} /\ active = {} /\ waiting = <<>>
    <3>1. MaxTasks >= 2 /\ IsFiniteSet(Tasks)
      BY QueueAssumption, FS_Interval DEF MaxTasks, Tasks
    <3>2. IsFiniteSet(pending \cup active)
      BY <3>1, FS_Subset DEF TypeOK
    <3>3. executing = 0 => pending \cup active = {}
      BY <3>2, FS_EmptySet DEF ExecutingCounted
    <3> QED BY <3>1, <3>3 DEF NoTaskWaitsNeedlessly
  <2> QED
    BY <2>1, <2>2 DEF TypeOK, EachTaskOnce, ExecutingCounted, NoTaskWaitsNeedlessly,
                      DestroyedIsQuiet, MaxTasks, Distinct, Elements
<1>6. CASE UNCHANGED vars
  BY <1>6 DEF vars, TypeOK, EachTaskOnce, ExecutingCounted, NoTaskWaitsNeedlessly,
              DestroyedIsQuiet, MaxTasks, Distinct, Elements
<1> QED BY <1>1, <1>2, <1>3, <1>4, <1>5, <1>6 DEF Next

\* The invariant holds in every reachable state.
THEOREM Invariance == Spec => []IInv
BY InitIInv, InductiveStep, PTL DEF Spec

\* m_executingTasks is the number of this queue's tasks in the executor, at most
\* heavyWorkers() + 2, whatever clients, tasks and workers do.
THEOREM ExecutingAlwaysCounted == Spec => []ExecutingCounted
BY Invariance, PTL DEF IInv

\* No refill is ever missed: tasks wait only while the limit is reached.
THEOREM NoTaskEverWaitsNeedlessly == Spec => []NoTaskWaitsNeedlessly
BY Invariance, PTL DEF IInv

\* When the destructor has returned no task will call into the destroyed queue.
THEOREM DestroyedAlwaysQuiet == Spec => []DestroyedIsQuiet
BY Invariance, PTL DEF IInv

\* Every variable keeps its type.
THEOREM TypesAreKept == Spec => []TypeOK
BY Invariance, PTL DEF IInv

-----------------------------------------------------------------------------
(* The order in which tasks are handed over *)

Sorted(s) == \A i, j \in DOMAIN s : i < j => s[i] < s[j]

InOrder(gone, left) == \A t \in Elements(gone), u \in Elements(left) :
                          IF mode = "Fifo" THEN t < u ELSE u < t

\* A part of a sorted sequence is sorted, and its elements have their indices.
LEMMA SortedPart ==
    ASSUME NEW w \in Seq(Tasks), Sorted(w),
           NEW m \in 1 .. Len(w) + 1, NEW n \in (m - 1) .. Len(w)
    PROVE  /\ Sorted(SubSeq(w, m, n))
           /\ \A t \in Elements(SubSeq(w, m, n)) : \E i \in m .. n : t = w[i]
<1> DEFINE v == SubSeq(w, m, n)
<1>1. Len(w) \in Nat /\ DOMAIN w = 1 .. Len(w) /\ \A i \in 1 .. Len(w) : w[i] \in Tasks
  BY LenProperties, ElementOfSeq
<1>2. CASE m <= n
  <2>1. /\ v \in Seq(Tasks) /\ Len(v) = n - m + 1
        /\ \A i \in 1 .. n - m + 1 : v[i] = w[m + i - 1]
    BY <1>1, <1>2, SubSeqProperties
  <2>2. DOMAIN v = 1 .. n - m + 1
    BY <1>1, <2>1, LenProperties
  <2> HIDE DEF v
  <2>3. Sorted(v)
    <3> SUFFICES ASSUME NEW i \in 1 .. n - m + 1, NEW j \in 1 .. n - m + 1, i < j
                 PROVE  v[i] < v[j]
      BY <2>2 DEF Sorted
    <3>1. /\ m + i - 1 \in DOMAIN w /\ m + j - 1 \in DOMAIN w
          /\ m + i - 1 < m + j - 1
      BY <1>1
    <3>2. w[m + i - 1] < w[m + j - 1]
      BY <3>1 DEF Sorted
    <3> QED  BY <2>1, <3>2
  <2>4. \A t \in Elements(v) : \E i \in m .. n : t = w[i]
    <3> SUFFICES ASSUME NEW k \in 1 .. n - m + 1  PROVE \E i \in m .. n : v[k] = w[i]
      BY <2>2 DEF Elements
    <3>1. m + k - 1 \in m .. n /\ v[k] = w[m + k - 1]
      BY <1>1, <2>1
    <3> QED  BY <3>1
  <2> QED  BY <2>3, <2>4 DEF v
<1>3. CASE ~ (m <= n)
  <2>1. v = <<>>
    BY <1>1, <1>3, SubSeqEmpty
  <2> QED  BY <2>1 DEF Sorted, Elements, v
<1> QED  BY <1>2, <1>3

\* fire(), as often as it may be, hands over what the mode says.
LEMMA TakenInOrder ==
    ASSUME NEW w \in Seq(Tasks), Sorted(w), NEW n \in 0 .. Len(w)
    PROVE  /\ Sorted(Taken(w, n).left)
           /\ InOrder(Taken(w, n).gone, Taken(w, n).left)
<1>1. Len(w) \in Nat /\ DOMAIN w = 1 .. Len(w)
  BY LenProperties
<1>2. \A i, j \in 1 .. Len(w) : i < j => w[i] < w[j]
  BY <1>1 DEF Sorted
<1>3. CASE mode = "Fifo"
  <2>1. /\ Taken(w, n).gone = SubSeq(w, 1, n)
        /\ Taken(w, n).left = SubSeq(w, n + 1, Len(w))
    BY <1>3 DEF Taken, Oldest
  <2>2. \A t \in Elements(SubSeq(w, 1, n)) : \E i \in 1 .. n : t = w[i]
    BY <1>1, SortedPart
  <2>3. /\ Sorted(SubSeq(w, n + 1, Len(w)))
        /\ \A u \in Elements(SubSeq(w, n + 1, Len(w))) : \E j \in n + 1 .. Len(w) : u = w[j]
    BY <1>1, SortedPart
  <2>4. \A i \in 1 .. n, j \in n + 1 .. Len(w) : w[i] < w[j]
    BY <1>1, <1>2
  <2>5. ASSUME NEW t \in Elements(SubSeq(w, 1, n)), NEW u \in Elements(SubSeq(w, n + 1, Len(w)))
        PROVE  t < u
    BY <2>2, <2>3, <2>4
  <2> QED  BY <1>3, <2>1, <2>3, <2>5 DEF InOrder
<1>4. CASE mode # "Fifo"
  <2>1. /\ Taken(w, n).gone = SubSeq(w, Len(w) - n + 1, Len(w))
        /\ Taken(w, n).left = SubSeq(w, 1, Len(w) - n)
    BY <1>4 DEF Taken, Newest
  <2>2. \A t \in Elements(SubSeq(w, Len(w) - n + 1, Len(w))) :
           \E i \in Len(w) - n + 1 .. Len(w) : t = w[i]
    BY <1>1, SortedPart
  <2>3. /\ Sorted(SubSeq(w, 1, Len(w) - n))
        /\ \A u \in Elements(SubSeq(w, 1, Len(w) - n)) : \E j \in 1 .. Len(w) - n : u = w[j]
    BY <1>1, SortedPart
  <2>4. \A i \in Len(w) - n + 1 .. Len(w), j \in 1 .. Len(w) - n : w[j] < w[i]
    BY <1>1, <1>2
  <2>5. ASSUME NEW t \in Elements(SubSeq(w, Len(w) - n + 1, Len(w))),
               NEW u \in Elements(SubSeq(w, 1, Len(w) - n))
        PROVE  u < t
    BY <2>2, <2>3, <2>4
  <2> QED  BY <1>4, <2>1, <2>3, <2>5 DEF InOrder
<1> QED  BY <1>3, <1>4

\* try_to_fire() with sorted tasks leaves them sorted and hands over in order.
LEMMA FireInOrder ==
    ASSUME NEW w \in Seq(Tasks), Sorted(w), NEW e \in Int, NEW p, QueueAssumption,
           TryToFire(w, e, p)
    PROVE  /\ Sorted(waiting')
           /\ \A t \in pending' \ p, u \in Elements(waiting') :
                 IF mode = "Fifo" THEN t < u ELSE u < t
<1>1. Fires(w, e) \in 0 .. Len(w)
  <2>1. Len(w) \in Nat /\ MaxTasks \in Nat
    BY LenProperties DEF QueueAssumption, MaxTasks
  <2> QED  BY <2>1 DEF Fires
<1>2. /\ Sorted(Taken(w, Fires(w, e)).left)
      /\ InOrder(Taken(w, Fires(w, e)).gone, Taken(w, Fires(w, e)).left)
  BY <1>1, TakenInOrder
<1>3. /\ waiting' = Taken(w, Fires(w, e)).left
      /\ pending' \ p \subseteq Elements(Taken(w, Fires(w, e)).gone)
  BY DEF TryToFire
<1> QED  BY <1>2, <1>3 DEF InOrder

Ordered == \A t \in pending' \ pending, u \in Elements(waiting') :
              IF mode = "Fifo" THEN t < u ELSE u < t

\* Tasks wait in the order they were pushed, and every step hands over in order.
LEMMA OrderStep == IInv /\ Sorted(waiting) /\ [Next]_vars => Sorted(waiting)' /\ Ordered
<1> SUFFICES ASSUME IInv, Sorted(waiting), [Next]_vars  PROVE Sorted(waiting') /\ Ordered
  OBVIOUS
<1>1. waiting \in Seq(Tasks) /\ executing \in Int /\ pushed \in Nat
  BY DEF IInv, TypeOK
<1>2. CASE Push
  <2> DEFINE w == Append(waiting, pushed + 1)
  <2>1. /\ pushed + 1 \in Tasks /\ TryToFire(w, executing, pending)
        /\ Elements(waiting) \subseteq 1 .. pushed
    BY <1>2, QueueAssumption DEF Push, Tasks, IInv, EachTaskOnce, TypeOK
  <2>2. /\ Len(waiting) \in Nat /\ DOMAIN waiting = 1 .. Len(waiting)
        /\ w \in Seq(Tasks) /\ Len(w) = Len(waiting) + 1
        /\ \A i \in 1 .. Len(waiting) : w[i] = waiting[i]
        /\ w[Len(waiting) + 1] = pushed + 1
    BY <1>1, <2>1, AppendProperties, LenProperties
  <2>3. DOMAIN w = 1 .. Len(waiting) + 1
    BY <2>2, LenProperties
  <2>4. \A i \in 1 .. Len(waiting) : waiting[i] \in 1 .. pushed
    BY <2>1, <2>2 DEF Elements
  <2> HIDE DEF w
  <2>5. Sorted(w)
    BY <1>1, <2>2, <2>3, <2>4 DEF Sorted
  <2> QED  BY <1>1, <2>1, <2>2, <2>5, FireInOrder, QueueAssumption DEF Ordered
<1>3. ASSUME NEW f \in Tasks, TaskFinished(f)  PROVE Sorted(waiting') /\ Ordered
  <2>1. TryToFire(waiting, executing - 1, pending)
    BY <1>3 DEF TaskFinished
  <2> QED  BY <1>1, <2>1, FireInOrder, QueueAssumption DEF Ordered
<1>4. CASE Clear \/ DestroyClear
  BY <1>4 DEF Clear, DestroyClear, Sorted, Ordered
<1>5. CASE ExecutorStarts
  BY <1>5 DEF ExecutorStarts, Pool!Start, Ordered
<1>6. CASE DestroyWait \/ UNCHANGED vars
  BY <1>6 DEF DestroyWait, vars, Ordered
<1> QED  BY <1>2, <1>3, <1>4, <1>5, <1>6 DEF Next

\* The executor is given the oldest tasks, or the newest ones, whatever is
\* pushed, cleared and finished meanwhile.
THEOREM AlwaysHandedInOrder == Spec => HandedInOrder
<1>1. Init => Sorted(waiting)
  BY DEF Init, Sorted
<1>2. Spec => []Sorted(waiting)
  BY <1>1, OrderStep, Invariance, PTL DEF Spec
<1>3. IInv /\ Sorted(waiting) /\ [Next]_vars
        => [\A t \in pending' \ pending, u \in Elements(waiting') :
              IF mode = "Fifo" THEN t < u ELSE u < t]_vars
  BY OrderStep DEF Ordered
<1> QED  BY <1>2, <1>3, Invariance, PTL DEF Spec, HandedInOrder
=============================================================================
