------------------------------ MODULE TaskPool ------------------------------
(***************************************************************************)
(* What ITaskExecutor promises the rest of the program about heavy tasks:  *)
(* a submitted task is performed at most once, never more than Limit of    *)
(* them at a time, and once the pool has halted none is being performed    *)
(* and none will be started.  Which pending task goes next is left open.   *)
(***************************************************************************)
EXTENDS Naturals, FiniteSets

CONSTANTS Tasks, Limit

VARIABLES pending, active, finished, halted

vars == <<pending, active, finished, halted>>

Init == /\ pending = {} /\ active = {} /\ finished = {}
        /\ halted = FALSE

Submit(t) ==
    /\ ~halted
    /\ t \notin pending \cup active \cup finished
    /\ pending' = pending \cup {t}
    /\ UNCHANGED <<active, finished, halted>>

Start(t) ==
    /\ ~halted
    /\ t \in pending
    /\ Cardinality(active) < Limit
    /\ pending' = pending \ {t}
    /\ active' = active \cup {t}
    /\ UNCHANGED <<finished, halted>>

Finish(t) ==
    /\ t \in active
    /\ active' = active \ {t}
    /\ finished' = finished \cup {t}
    /\ UNCHANGED <<pending, halted>>

Halt ==
    /\ active = {}
    /\ halted' = TRUE
    /\ UNCHANGED <<pending, active, finished>>

Next == Halt \/ \E t \in Tasks : Submit(t) \/ Start(t) \/ Finish(t)

Spec == Init /\ [][Next]_vars
=============================================================================
