---------------------------- MODULE AsyncDatabase ----------------------------
(***************************************************************************)
(* AsyncDatabase: one thread owns the backend; everybody else sends it     *)
(* tasks through a bounded queue (Executor::m_tasks) and never waits for   *)
(* them.  closeConnections() sends a last task and joins the thread.       *)
(*                                                                         *)
(* A task that itself submits tasks, from the database's thread, runs them *)
(* on the spot (addTask(), first branch): they are part of it here.        *)
(***************************************************************************)
EXTENDS Naturals, Sequences

CONSTANTS Clients,     \* the other threads that submit tasks
          Requests,    \* the tasks they may submit
          Close,       \* DbCloseTask
          None,        \* no task
          QueueLimit,  \* capacity of Executor::m_tasks, 1024 in the program
          MaxRequests  \* bound: how many tasks clients submit

ASSUME DatabaseAssumption == /\ QueueLimit \in Nat \ {0}
                             /\ MaxRequests \in Nat
                             /\ Close \notin Requests
                             /\ None \notin Requests \cup {Close}

VARIABLES
    working,       \* m_working
    tasks,         \* Executor::m_tasks
    tasksStopped,  \* m_tasks.stop() was called
    calling,       \* what each client is about to push, or None
    current,       \* the task the database's thread executes, or None
    thread,        \* "running" or "ended"
    closer,        \* where the owner is in stopExecutor()
    accepted,      \* history: every task pushed, in order
    performed      \* history: every task executed, in order

queueVars == <<tasks, accepted>>
dbVars == <<working, tasks, tasksStopped, calling, current, thread, closer,
            accepted, performed>>

Tasks == Requests \cup {Close}
CloserPlaces == {"open", "push", "stop", "join", "closed"}

DbInit == /\ working = TRUE
          /\ tasks = <<>>
          /\ tasksStopped = FALSE
          /\ calling = [c \in Clients |-> None]
          /\ current = None
          /\ thread = "running"
          /\ closer = "open"
          /\ accepted = <<>>
          /\ performed = <<>>

Enqueue_Unbounded(t) ==
    /\ tasks' = Append(tasks, t)
    /\ accepted' = Append(accepted, t)

\* ol::TS_Queue: a full queue makes the pusher wait.
Enqueue(t) ==
    /\ Len(tasks) < QueueLimit
    /\ tasks' = Append(tasks, t)
    /\ accepted' = Append(accepted, t)

-----------------------------------------------------------------------------
\* addTask() from another thread: assert(m_working) ...
AddTask(c, t) ==
    /\ working
    /\ calling[c] = None
    /\ calling' = [calling EXCEPT ![c] = t]
    /\ UNCHANGED <<working, tasksStopped, current, thread, closer, queueVars, performed>>

\* ... and the push; m_working may have changed in between.
Push(c) ==
    /\ calling[c] # None
    /\ Enqueue(calling[c])
    /\ calling' = [calling EXCEPT ![c] = None]
    /\ UNCHANGED <<working, tasksStopped, current, thread, closer, performed>>

-----------------------------------------------------------------------------
\* Executor::begin(): pop() waits for a task; execution begins.
Pop_Last ==
    /\ thread = "running" /\ current = None
    /\ tasks # <<>>
    /\ current' = tasks[Len(tasks)]
    /\ tasks' = SubSeq(tasks, 1, Len(tasks) - 1)
    /\ UNCHANGED <<working, tasksStopped, calling, thread, closer, accepted, performed>>
Pop ==
    /\ thread = "running" /\ current = None
    /\ tasks # <<>>
    /\ current' = Head(tasks)
    /\ tasks' = Tail(tasks)
    /\ UNCHANGED <<working, tasksStopped, calling, thread, closer, accepted, performed>>

\* The task's execute() has returned.
TaskDone ==
    /\ current # None
    /\ performed' = Append(performed, current)
    /\ current' = None
    /\ UNCHANGED <<working, tasksStopped, calling, thread, closer, queueVars>>

ThreadEnds_WhenStopped ==
    /\ thread = "running" /\ current = None
    /\ tasksStopped
    /\ thread' = "ended"
    /\ UNCHANGED <<working, tasksStopped, calling, current, closer, queueVars, performed>>

\* pop() returns nothing: the queue is stopped and empty.
ThreadEnds ==
    /\ thread = "running" /\ current = None
    /\ tasks = <<>> /\ tasksStopped
    /\ thread' = "ended"
    /\ UNCHANGED <<working, tasksStopped, calling, current, closer, queueVars, performed>>

-----------------------------------------------------------------------------
\* closeConnections() / stopExecutor(); the second call, from the destructor,
\* finds m_working false and does nothing.
CloseBegin ==
    /\ working
    /\ working' = FALSE
    /\ closer' = "push"
    /\ UNCHANGED <<tasksStopped, calling, current, thread, queueVars, performed>>

ClosePush ==
    /\ closer = "push"
    /\ Enqueue(Close)
    /\ closer' = "stop"
    /\ UNCHANGED <<working, tasksStopped, calling, current, thread, performed>>

CloseStop ==
    /\ closer = "stop"
    /\ tasksStopped' = TRUE
    /\ closer' = "join"
    /\ UNCHANGED <<working, calling, current, thread, queueVars, performed>>

CloseJoin ==
    /\ closer = "join"
    /\ thread = "ended"
    /\ closer' = "closed"
    /\ UNCHANGED <<working, tasksStopped, calling, current, thread, queueVars, performed>>

CloseStep == ClosePush \/ CloseStop \/ CloseJoin

DbNext == \/ \E c \in Clients : Push(c)
          \/ \E c \in Clients, t \in Requests : AddTask(c, t)
          \/ Pop \/ TaskDone \/ ThreadEnds
          \/ CloseBegin \/ CloseStep

DbSpec == DbInit /\ [][DbNext]_dbVars

-----------------------------------------------------------------------------
(* Properties *)

\* Every variable holds a value of its type.
DbTypeOK ==
    /\ working \in BOOLEAN /\ tasksStopped \in BOOLEAN
    /\ tasks \in Seq(Tasks) /\ Len(tasks) <= QueueLimit
    /\ calling \in [Clients -> Requests \cup {None}]
    /\ current \in Tasks \cup {None}
    /\ thread \in {"running", "ended"}
    /\ closer \in CloserPlaces
    /\ accepted \in Seq(Tasks) /\ performed \in Seq(Tasks)

\* Tasks are executed one at a time, in the order they were pushed, each once:
\* what is not executed yet is in the thread's hands or in the queue.
InHand == IF current = None THEN <<>> ELSE <<current>>
ExecutedInOrder == accepted = performed \o InHand \o tasks

\* The thread does not end before DbCloseTask was executed, and so not before
\* every task pushed ahead of it: no update made before the close is lost.
EndsClosed ==
    thread = "ended" => \E i \in 1 .. Len(performed) : performed[i] = Close

=============================================================================
