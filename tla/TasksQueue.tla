----------------------------- MODULE TasksQueue -----------------------------
(***************************************************************************)
(* TasksQueue (core/task_executor_utils.hpp): a queue of its own in front  *)
(* of a shared ITaskExecutor.  At most heavyWorkers() + 2 of its tasks are *)
(* with the executor at a time, so that clear() and the destructor can     *)
(* still drop the rest.                                                    *)
(*                                                                         *)
(* The executor is the abstract TaskPool, which TaskExecutor implements:   *)
(* `pending` and `active` are the tasks of this queue that wait in it or   *)
(* are performed by it.  Tasks are numbered in the order they are pushed.  *)
(* Every step holds m_tasksMutex from begin to end.                        *)
(***************************************************************************)
EXTENDS Integers, Sequences, FiniteSets

CONSTANTS MaxPushes,     \* bound: how many tasks clients push
          HeavyWorkers   \* m_tasksExecutor->heavyWorkers()

ASSUME QueueAssumption == MaxPushes \in Nat /\ HeavyWorkers \in Nat

VARIABLES
    mode,       \* m_mode, fixed by the constructor
    pushed,     \* how many tasks have been pushed
    waiting,    \* m_waitingTasks
    executing,  \* m_executingTasks
    pending, active, finished, halted,  \* the executor, as in TaskPool
    owner       \* what the owner does: use the queue, or where in ~TasksQueue()

vars == <<mode, pushed, waiting, executing, pending, active, finished, halted, owner>>

Tasks == 1 .. MaxPushes
OwnerPlaces == {"using", "cleared", "asleep", "destroyed"}

\* More tasks could be given to the executor while this many are there.
MaxTasks == HeavyWorkers + 2

Elements(s) == {s[i] : i \in DOMAIN s}

Init == /\ mode \in {"Fifo", "Lifo"}
        /\ pushed = 0
        /\ waiting = <<>>
        /\ executing = 0
        /\ pending = {} /\ active = {} /\ finished = {} /\ halted = FALSE
        /\ owner = "using"

-----------------------------------------------------------------------------
\* How often the loop of try_to_fire() runs for these values of the members.
Fires(w, e) == IF MaxTasks > e
               THEN IF Len(w) <= MaxTasks - e THEN Len(w) ELSE MaxTasks - e
               ELSE 0

Oldest(w, n) == [gone |-> SubSeq(w, 1, n), left |-> SubSeq(w, n + 1, Len(w))]
Newest(w, n) == [gone |-> SubSeq(w, Len(w) - n + 1, Len(w)),
                 left |-> SubSeq(w, 1, Len(w) - n)]

\* fire(), n times: take_front or take_back, and executor->add().
Taken_AlwaysFront(w, n) == Oldest(w, n)
Taken(w, n) == IF mode = "Fifo" THEN Oldest(w, n) ELSE Newest(w, n)

\* try_to_fire() with `w` waiting and `e` tasks at the executor, which has `p`
\* of them pending.
TryToFire(w, e, p) ==
    LET n == Fires(w, e) IN
    /\ waiting' = Taken(w, n).left
    /\ executing' = e + n
    /\ pending' = p \cup Elements(Taken(w, n).gone)

\* push(): by the owner, or by a task of this queue while it is performed.
Push ==
    /\ owner = "using" \/ active # {}
    /\ pushed < MaxPushes
    /\ pushed' = pushed + 1
    /\ TryToFire(Append(waiting, pushed + 1), executing, pending)
    /\ UNCHANGED <<mode, active, finished, halted, owner>>

Clear_ForgetsExecuting ==
    /\ owner = "using"
    /\ waiting' = <<>>
    /\ executing' = 0
    /\ UNCHANGED <<mode, pushed, pending, active, finished, halted, owner>>

\* clear()
Clear ==
    /\ owner = "using"
    /\ waiting' = <<>>
    /\ UNCHANGED <<mode, pushed, executing, pending, active, finished, halted, owner>>

Pool == INSTANCE TaskPool WITH Limit <- HeavyWorkers

\* A worker of the executor takes a task of this queue.
ExecutorStarts ==
    /\ \E t \in Tasks : Pool!Start(t)
    /\ UNCHANGED <<mode, pushed, waiting, executing, owner>>

TaskFinished_NoRefill(t) ==
    /\ Pool!Finish(t)
    /\ executing' = executing - 1
    /\ owner' = IF executing = 1 /\ owner = "asleep" THEN "cleared" ELSE owner
    /\ UNCHANGED <<mode, pushed, waiting>>

TaskFinished_SilentEnd(t) ==
    /\ t \in active
    /\ active' = active \ {t}
    /\ finished' = finished \cup {t}
    /\ TryToFire(waiting, executing - 1, pending)
    /\ UNCHANGED <<mode, pushed, halted, owner>>

\* IntTask::perform(): the client's code has returned; task_finished().
TaskFinished(t) ==
    /\ t \in active
    /\ active' = active \ {t}
    /\ finished' = finished \cup {t}
    /\ owner' = IF executing = 1 /\ owner = "asleep" THEN "cleared" ELSE owner
    /\ TryToFire(waiting, executing - 1, pending)
    /\ UNCHANGED <<mode, pushed, halted>>

\* ~TasksQueue() clears ...
DestroyClear ==
    /\ owner = "using"
    /\ owner' = "cleared"
    /\ waiting' = <<>>
    /\ UNCHANGED <<mode, pushed, executing, pending, active, finished, halted>>

DestroyWait_NothingWaiting ==
    /\ owner = "cleared"
    /\ owner' = IF waiting = <<>> THEN "destroyed" ELSE "asleep"
    /\ UNCHANGED <<mode, pushed, waiting, executing, pending, active, finished, halted>>

\* ... lets the mutex go, takes it again and waits for m_executingTasks == 0.
DestroyWait ==
    /\ owner = "cleared"
    /\ owner' = IF executing = 0 THEN "destroyed" ELSE "asleep"
    /\ UNCHANGED <<mode, pushed, waiting, executing, pending, active, finished, halted>>

Next == \/ Push \/ Clear
        \/ ExecutorStarts
        \/ \E t \in Tasks : TaskFinished(t)
        \/ DestroyClear \/ DestroyWait

Spec == Init /\ [][Next]_vars

\* The executor performs what it was given and tasks return; a destructor that
\* has begun is scheduled.
Fairness == /\ WF_vars(ExecutorStarts)
            /\ WF_vars(\E t \in Tasks : TaskFinished(t))
            /\ WF_vars(DestroyWait)

FairSpec == Spec /\ Fairness

-----------------------------------------------------------------------------
(* Properties *)

\* Every variable holds a value of its type.
TypeOK ==
    /\ mode \in {"Fifo", "Lifo"}
    /\ pushed \in 0 .. MaxPushes
    /\ waiting \in Seq(Tasks)
    /\ executing \in Nat
    /\ pending \in SUBSET Tasks /\ active \in SUBSET Tasks /\ finished \in SUBSET Tasks
    /\ halted = FALSE
    /\ owner \in OwnerPlaces

\* m_executingTasks counts the queue's tasks in the executor, never more than the
\* limit: the rest can still be dropped.
ExecutingCounted ==
    /\ executing = Cardinality(pending \cup active)
    /\ executing <= MaxTasks

\* No task waits while the executor could be given one: push() and
\* task_finished() are all the refills that are needed.
NoTaskWaitsNeedlessly == waiting # <<>> => executing = MaxTasks

\* A destroyed queue is not used any more: no task that would call
\* task_finished() is left, and none was forgotten.
DestroyedIsQuiet ==
    owner = "destroyed" => pending = {} /\ active = {} /\ waiting = <<>>

\* A task given to the executor is the oldest of the waiting ones (Fifo) or the
\* newest (Lifo, which shows thumbnails of what the user looks at now first).
HandedInOrder ==
    [][\A t \in pending' \ pending, u \in Elements(waiting') :
          IF mode = "Fifo" THEN t < u ELSE u < t]_vars

\* The destructor returns if the tasks do: the last one to finish wakes it, and
\* what running tasks push meanwhile is performed too.
DestructorReturns == owner = "cleared" ~> owner = "destroyed"
=============================================================================
