---------------------------- MODULE TaskExecutor ----------------------------
(***************************************************************************)
(* The pool of threads behind ITaskExecutor (core/task_executor.hpp).      *)
(*                                                                         *)
(* A manager thread, the "eater", starts heavy worker threads on demand,   *)
(* at most NThreads at a time; a worker serves the shared queue until it   *)
(* finds nothing for two seconds and leaves.  Every light task gets a      *)
(* thread of its own.  stop() shuts all of it down.                        *)
(*                                                                         *)
(* Heavy workers are indistinguishable, so the model counts them by the    *)
(* place they have reached: `idle` of them wait in pop_for, one for each   *)
(* task of `busy` performs it, `leaving` have been told there is nothing   *)
(* to do, and `notifying` have given up their slot and have yet to touch   *)
(* the eater's condition variable for the last time.                       *)
(***************************************************************************)
EXTENDS Integers, Sequences, FiniteSets

CONSTANTS Tasks,        \* heavy tasks that clients may submit, each once
          LightTasks,   \* light tasks that clients may submit, each once
          NThreads      \* m_threads, std::thread::hardware_concurrency()

\* The standard lets hardware_concurrency() return 0 ("not computable");
\* the theorems and the runs say which values they are about.
ASSUME ExecutorAssumption == /\ NThreads \in Nat
                             /\ IsFiniteSet(Tasks)
                             /\ IsFiniteSet(LightTasks)

VARIABLES
    working,       \* m_working
    queue,         \* m_tasks, oldest task first
    queueStopped,  \* m_tasks.stop() was called
    eater,         \* where the eater is in eat()
    running,       \* running_tasks, local to eat()
    idle, busy, leaving, notifying,  \* the heavy workers, by place
    done,          \* heavy tasks whose perform() has returned
    stopper,       \* where the owner of the executor is in stop()
    light,         \* where the thread of each light task is
    lightCount,    \* m_lightTasks
    lightMutex     \* m_lightTasksMutex is held by a light thread

heavyVars == <<running, idle, busy, leaving, notifying, done>>
lightVars == <<light, lightCount, lightMutex>>
vars == <<working, queue, queueStopped, eater, heavyVars, stopper, lightVars>>

EaterPlaces == {"loop", "data", "spawn", "check", "block", "asleep",
                "finish", "lastBlock", "lastAsleep", "exited"}
StopPlaces == {"no", "queue", "join", "light", "lightAsleep", "stopped"}
LightPlaces == {"none", "performing", "counting", "unlocking", "notifying", "gone"}

Init == /\ working = TRUE
        /\ queue = <<>>
        /\ queueStopped = FALSE
        /\ eater = "loop"
        /\ running = 0
        /\ idle = 0 /\ busy = {} /\ leaving = 0 /\ notifying = 0
        /\ done = {}
        /\ stopper = "no"
        /\ light = [l \in LightTasks |-> "none"]
        /\ lightCount = 0
        /\ lightMutex = FALSE

Queued == {queue[i] : i \in DOMAIN queue}

-----------------------------------------------------------------------------
(* Clients *)

\* add(): any thread submits a task; assert(m_working) is its obligation.
Add(t) ==
    /\ working
    /\ t \notin Queued \cup busy \cup done
    /\ queue' = Append(queue, t)
    /\ UNCHANGED <<working, queueStopped, eater, heavyVars, stopper, lightVars>>

AddLight_NotCounted(l) ==
    /\ working
    /\ light[l] = "none"
    /\ ~lightMutex
    /\ light' = [light EXCEPT ![l] = "performing"]
    /\ UNCHANGED <<working, queue, queueStopped, eater, heavyVars, stopper, lightCount,
                   lightMutex>>

\* addLight(): count the task and start its thread, under the mutex.
AddLight(l) ==
    /\ working
    /\ light[l] = "none"
    /\ ~lightMutex
    /\ lightCount' = lightCount + 1
    /\ light' = [light EXCEPT ![l] = "performing"]
    /\ UNCHANGED <<working, queue, queueStopped, eater, heavyVars, stopper, lightMutex>>

-----------------------------------------------------------------------------
(* The eater *)

\* while (m_working): one more round, or on to the final wait.
EaterLoop ==
    /\ eater = "loop"
    /\ eater' = IF working THEN "data" ELSE "finish"
    /\ UNCHANGED <<working, queue, queueStopped, heavyVars, stopper, lightVars>>

\* m_tasks.wait_for_data(): returns when there is data or the queue is stopped.
EaterHasData ==
    /\ eater = "data"
    /\ queue # <<>> \/ queueStopped
    /\ eater' = "spawn"
    /\ UNCHANGED <<working, queue, queueStopped, heavyVars, stopper, lightVars>>

MayStartWorker == running < NThreads /\ queue # <<>>

EaterSpawn_Uncounted ==
    /\ eater = "spawn"
    /\ eater' = "check"
    /\ idle' = IF MayStartWorker THEN idle + 1 ELSE idle
    /\ UNCHANGED <<working, queue, queueStopped, running, busy, leaving, notifying, done,
                   stopper, lightVars>>

\* A worker is started if there is a free slot and something to do.
EaterSpawn ==
    /\ eater = "spawn"
    /\ eater' = "check"
    /\ IF MayStartWorker
       THEN running' = running + 1 /\ idle' = idle + 1
       ELSE UNCHANGED <<running, idle>>
    /\ UNCHANGED <<working, queue, queueStopped, busy, leaving, notifying, done,
                   stopper, lightVars>>

WorkersGone_QueueEmpty == queue = <<>>
WorkersGone == running = 0

\* free_worker.wait(lock, pred): the predicate is evaluated ...
EaterCheck ==
    /\ eater \in {"check", "finish"}
    /\ eater' = IF eater = "check"
                THEN IF running < NThreads THEN "loop" ELSE "block"
                ELSE IF WorkersGone THEN "exited" ELSE "lastBlock"
    /\ UNCHANGED <<working, queue, queueStopped, heavyVars, stopper, lightVars>>

\* ... and then the thread blocks.  The workers never take free_worker_mutex,
\* so a notification between the two finds nobody waiting.
EaterBlock ==
    /\ eater \in {"block", "lastBlock"}
    /\ eater' = IF eater = "block" THEN "asleep" ELSE "lastAsleep"
    /\ UNCHANGED <<working, queue, queueStopped, heavyVars, stopper, lightVars>>

Woken(place) == CASE place = "asleep" -> "check"
                  [] place = "lastAsleep" -> "finish"
                  [] OTHER -> place

\* A condition variable may wake its waiter without a notification.
EaterSpuriousWakeup ==
    /\ eater \in {"asleep", "lastAsleep"}
    /\ eater' = Woken(eater)
    /\ UNCHANGED <<working, queue, queueStopped, heavyVars, stopper, lightVars>>

-----------------------------------------------------------------------------
(* Heavy workers *)

WorkerPop_Peek ==
    /\ idle > 0
    /\ queue # <<>>
    /\ busy' = busy \cup {Head(queue)}
    /\ idle' = idle - 1
    /\ UNCHANGED <<working, queue, queueStopped, eater, running, leaving, notifying,
                   done, stopper, lightVars>>

\* pop_for(2000ms) found a task; execute() begins.
WorkerPop ==
    /\ idle > 0
    /\ queue # <<>>
    /\ queue' = Tail(queue)
    /\ busy' = busy \cup {Head(queue)}
    /\ idle' = idle - 1
    /\ UNCHANGED <<working, queueStopped, eater, running, leaving, notifying, done,
                   stopper, lightVars>>

WorkerPerformed_ThenLeaves(t) ==
    /\ t \in busy
    /\ busy' = busy \ {t}
    /\ done' = done \cup {t}
    /\ leaving' = leaving + 1
    /\ UNCHANGED <<working, queue, queueStopped, eater, running, idle, notifying,
                   stopper, lightVars>>

\* perform() returned; the worker asks for the next task.
WorkerPerformed(t) ==
    /\ t \in busy
    /\ busy' = busy \ {t}
    /\ done' = done \cup {t}
    /\ idle' = idle + 1
    /\ UNCHANGED <<working, queue, queueStopped, eater, running, leaving, notifying,
                   stopper, lightVars>>

\* pop_for(2000ms) gave nothing: two seconds without data, or a stopped queue.
WorkerNoTask ==
    /\ idle > 0
    /\ queue = <<>>
    /\ idle' = idle - 1
    /\ leaving' = leaving + 1
    /\ UNCHANGED <<working, queue, queueStopped, eater, running, busy, notifying, done,
                   stopper, lightVars>>

\* --running_tasks
WorkerLeave ==
    /\ leaving > 0
    /\ leaving' = leaving - 1
    /\ running' = running - 1
    /\ notifying' = notifying + 1
    /\ UNCHANGED <<working, queue, queueStopped, eater, idle, busy, done, stopper,
                   lightVars>>

\* free_worker.notify_one(), the last thing the thread does.  After the eater
\* has left eat() there is no such variable any more.
WorkerNotify ==
    /\ notifying > 0
    /\ notifying' = notifying - 1
    /\ eater' = Woken(eater)
    /\ UNCHANGED <<working, queue, queueStopped, running, idle, busy, leaving, done,
                   stopper, lightVars>>

-----------------------------------------------------------------------------
(* Light threads *)

LightPerformed(l) ==
    /\ light[l] = "performing"
    /\ light' = [light EXCEPT ![l] = "counting"]
    /\ UNCHANGED <<working, queue, queueStopped, eater, heavyVars, stopper, lightCount,
                   lightMutex>>

\* Lock, --m_lightTasks, and keep the lock until the thread exits.
LightCountDown(l) ==
    /\ light[l] = "counting"
    /\ ~lightMutex
    /\ lightMutex' = TRUE
    /\ lightCount' = lightCount - 1
    /\ light' = [light EXCEPT ![l] = "unlocking"]
    /\ UNCHANGED <<working, queue, queueStopped, eater, heavyVars, stopper>>

\* notify_all_at_thread_exit: the lock is released first ...
LightUnlock(l) ==
    /\ light[l] = "unlocking"
    /\ lightMutex' = FALSE
    /\ light' = [light EXCEPT ![l] = "notifying"]
    /\ UNCHANGED <<working, queue, queueStopped, eater, heavyVars, stopper, lightCount>>

LightNotify_Silent(l) ==
    /\ light[l] = "notifying"
    /\ light' = [light EXCEPT ![l] = "gone"]
    /\ UNCHANGED <<working, queue, queueStopped, eater, heavyVars, stopper, lightCount,
                   lightMutex>>

\* ... and m_lightTaskFinished is notified afterwards.
LightNotify(l) ==
    /\ light[l] = "notifying"
    /\ light' = [light EXCEPT ![l] = "gone"]
    /\ stopper' = IF stopper = "lightAsleep" THEN "light" ELSE stopper
    /\ UNCHANGED <<working, queue, queueStopped, eater, heavyVars, lightCount, lightMutex>>

-----------------------------------------------------------------------------
(* stop() *)

StopBegin ==
    /\ working
    /\ working' = FALSE
    /\ stopper' = "queue"
    /\ UNCHANGED <<queue, queueStopped, eater, heavyVars, lightVars>>

StopQueue ==
    /\ stopper = "queue"
    /\ queueStopped' = TRUE
    /\ stopper' = "join"
    /\ UNCHANGED <<working, queue, eater, heavyVars, lightVars>>

\* m_taskEater.join()
StopJoin ==
    /\ stopper = "join"
    /\ eater = "exited"
    /\ stopper' = "light"
    /\ UNCHANGED <<working, queue, queueStopped, eater, heavyVars, lightVars>>

StopLight_Unlocked ==
    /\ stopper = "light"
    /\ stopper' = IF lightCount = 0 THEN "stopped" ELSE "lightAsleep"
    /\ UNCHANGED <<working, queue, queueStopped, eater, heavyVars, lightVars>>

\* m_lightTaskFinished.wait(lock, pred): everybody who changes the count holds
\* the mutex, so testing and blocking are one step here.
StopLight ==
    /\ stopper = "light"
    /\ ~lightMutex
    /\ stopper' = IF lightCount = 0 THEN "stopped" ELSE "lightAsleep"
    /\ UNCHANGED <<working, queue, queueStopped, eater, heavyVars, lightVars>>

-----------------------------------------------------------------------------
EaterStep == \/ EaterLoop \/ EaterHasData \/ EaterSpawn \/ EaterCheck \/ EaterBlock
WorkerStep == \/ WorkerPop \/ WorkerNoTask \/ WorkerLeave \/ WorkerNotify
              \/ \E t \in Tasks : WorkerPerformed(t)
LightStep(l) == \/ LightPerformed(l) \/ LightCountDown(l)
                \/ LightUnlock(l) \/ LightNotify(l)
StopStep == StopQueue \/ StopJoin \/ StopLight

Next == \/ \E t \in Tasks : Add(t)
        \/ \E l \in LightTasks : AddLight(l) \/ LightStep(l)
        \/ EaterStep \/ EaterSpuriousWakeup
        \/ WorkerStep
        \/ StopBegin \/ StopStep

Spec == Init /\ [][Next]_vars

\* Every thread that can take a step is scheduled, and tasks return; nobody has
\* to submit work or to stop the executor, and wakeups without a notification
\* may happen but cannot be counted on.
Fairness == /\ WF_vars(EaterStep)
            /\ WF_vars(WorkerPop) /\ WF_vars(WorkerNoTask)
            /\ WF_vars(WorkerLeave) /\ WF_vars(WorkerNotify)
            /\ \A t \in Tasks : WF_vars(WorkerPerformed(t))
            /\ \A l \in LightTasks : SF_vars(LightStep(l))
            /\ WF_vars(StopStep)

FairSpec == Spec /\ Fairness
-----------------------------------------------------------------------------
(* Properties *)

\* Every variable holds a value of its type.
TypeOK ==
    /\ working \in BOOLEAN /\ queueStopped \in BOOLEAN /\ lightMutex \in BOOLEAN
    /\ queue \in Seq(Tasks)
    /\ eater \in EaterPlaces
    /\ running \in Nat /\ idle \in Nat /\ leaving \in Nat /\ notifying \in Nat
    /\ busy \in SUBSET Tasks /\ done \in SUBSET Tasks
    /\ stopper \in StopPlaces
    /\ light \in [LightTasks -> LightPlaces]
    /\ lightCount \in Nat

\* A task waits in the queue once, or is being performed, or has been: pop_for
\* hands each unique_ptr to one worker and no worker puts one back.
TaskInOnePlace ==
    /\ \A i, j \in DOMAIN queue : queue[i] = queue[j] => i = j
    /\ Queued \cap (busy \cup done) = {}
    /\ busy \cap done = {}

\* running_tasks counts exactly the workers that may still perform a task, and
\* there are never more of them than the hardware has threads.
SlotsAccounted ==
    /\ running = idle + Cardinality(busy) + leaving
    /\ running <= NThreads

\* eat(), whose locals the workers use by reference, does not return while a
\* worker may still look for a task, perform one or give up its slot.
EatOutlivesTasks ==
    eater = "exited" => idle = 0 /\ busy = {} /\ leaving = 0

\* When stop() has returned every light task was performed and its thread has
\* released m_lightTasksMutex, which may be destroyed next.
StopWaitsForLightTasks ==
    stopper = "stopped" =>
        \A l \in LightTasks : light[l] \in {"none", "notifying", "gone"}

\* A queued task is performed if a worker is there to serve the queue: a worker
\* leaves only when it finds the queue empty, whatever the eater does.
WorkersServeTheQueue ==
    \A t \in Tasks : t \in Queued /\ idle + Cardinality(busy) > 0 ~> t \in done

\* Once the eater has gone, stop() returns: no light thread can end without
\* stop() being awake, or woken, to see the count reach zero.
StopReturnsOnceEaterGone ==
    stopper = "join" /\ eater = "exited" ~> stopper = "stopped"

\* The heavy half of the executor is a pool of NThreads that never performs a
\* task twice, never exceeds its limit and is quiet once eat() has returned.
Pool == INSTANCE TaskPool WITH pending <- Queued, active <- busy, finished <- done,
                               halted <- eater = "exited", Limit <- NThreads
IsTaskPool == Pool!Spec

(* What comments of the source say and the code does not do *)

\* task_executor.cpp:101, "wait for heavy tasks": stop() returns when the
\* submitted heavy tasks have been performed.
StopWaitsForHeavyTasks == stopper = "stopped" => queue = <<>>

\* task_executor.cpp:163, "notify manager that thread is gone": an eater that
\* sleeps because of running workers does not sleep on when the last is gone.
Asleep == eater \in {"asleep", "lastAsleep"}
ManagerLearnsThreadIsGone == Asleep /\ running = 0 ~> ~Asleep
=============================================================================
