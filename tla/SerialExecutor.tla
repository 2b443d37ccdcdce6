--------------------------- MODULE SerialExecutor ---------------------------
(***************************************************************************)
(* What the command scheduler promises its users, without threads or       *)
(* locks: accepted tasks are kept in the order of acceptance, at most one  *)
(* is active, only the oldest one may become active, and none does while   *)
(* the executor is suspended.  Suspending takes effect between tasks.      *)
(***************************************************************************)
EXTENDS Naturals, Sequences, SequencesExt

CONSTANTS Task, NoTask

VARIABLES queue, active, suspended

vars == <<queue, active, suspended>>

Init == queue = <<>> /\ active = NoTask /\ suspended = FALSE

Accept ==
    /\ queue' # <<>>
    /\ Front(queue') = queue
    /\ Last(queue') \in Task
    /\ UNCHANGED <<active, suspended>>

\* A task is withdrawn, or refused when its turn comes.
Withdraw ==
    /\ \E i \in 1 .. Len(queue) : queue' = RemoveAt(queue, i)
    /\ UNCHANGED <<active, suspended>>

Clear == queue' = <<>> /\ UNCHANGED <<active, suspended>>

Start ==
    /\ active = NoTask
    /\ ~suspended
    /\ queue # <<>>
    /\ active' = Head(queue)
    /\ queue' = Tail(queue)
    /\ UNCHANGED suspended

Finish == active' = NoTask /\ UNCHANGED <<queue, suspended>>

Suspend == active = NoTask /\ suspended' = TRUE /\ UNCHANGED <<queue, active>>

Resume == suspended' = FALSE /\ UNCHANGED <<queue, active>>

Next == Accept \/ Withdraw \/ Clear \/ Start \/ Finish \/ Suspend \/ Resume

Spec == Init /\ [][Next]_vars
=============================================================================
