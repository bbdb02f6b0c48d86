--------------------------- MODULE AnswerPipeline ---------------------------
(***************************************************************************)
(* What one run of an answer worker promises to the page, without threads, *)
(* timers or pauses: every question is searched, its request completes,    *)
(* and the answers are resolved strictly in page order; closing the worker *)
(* freezes every result; once the round is over nothing moves any more.    *)
(* Worker.tla is shown to implement this specification.                    *)
(***************************************************************************)
EXTENDS Naturals

CONSTANT N                       \* number of questions of the page

VARIABLES
    stage,                       \* question -> how far it got
    closed,                      \* the worker was closed
    over                         \* the round was announced as settled

vars == <<stage, closed, over>>

Questions == 1..N
Stages == {"waiting", "searching", "requested", "resolved"}

TypeOK ==
    /\ stage \in [Questions -> Stages]
    /\ closed \in BOOLEAN
    /\ over \in BOOLEAN

Init ==
    /\ stage = [i \in Questions |-> "waiting"]
    /\ closed \in BOOLEAN
    /\ over = FALSE

Open == ~closed /\ ~over

Search(i) ==
    /\ Open /\ stage[i] = "waiting"
    /\ stage' = [stage EXCEPT ![i] = "searching"]
    /\ UNCHANGED <<closed, over>>

\* A request may complete without a search: its authorization was refused.
CompleteRequest(i) ==
    /\ Open /\ stage[i] \in {"waiting", "searching"}
    /\ stage' = [stage EXCEPT ![i] = "requested"]
    /\ UNCHANGED <<closed, over>>

Resolve(i) ==
    /\ Open /\ stage[i] = "requested"
    /\ \A j \in 1..(i - 1) : stage[j] = "resolved"
    /\ stage' = [stage EXCEPT ![i] = "resolved"]
    /\ UNCHANGED <<closed, over>>

Close ==
    /\ closed' = TRUE
    /\ UNCHANGED <<stage, over>>

\* A round ends before it began (the page could not be read), because it was
\* closed, or with every question resolved.
Settle ==
    /\ ~over /\ over' = TRUE
    /\ \/ closed
       \/ \A i \in Questions : stage[i] = "waiting"
       \/ \A i \in Questions : stage[i] = "resolved"
    /\ UNCHANGED <<stage, closed>>

Next ==
    \/ \E i \in Questions : Search(i) \/ CompleteRequest(i) \/ Resolve(i)
    \/ Close
    \/ Settle

Spec == Init /\ [][Next]_vars
=============================================================================
