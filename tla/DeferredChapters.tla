-------------------------- MODULE DeferredChapters --------------------------
(***************************************************************************)
(* The ledger of deferred chapter tests (projects/cx-deferred-chapters.ts) *)
(* and the study turns that work from it (study() in projects/cx.ts), for  *)
(* one chapter.  The ledger is an attribute of the top document, shared by *)
(* the study turns of every frame.  A turn reads it, changes it and writes *)
(* it back without awaiting in between, so each such stretch is an action; *)
(* what a turn awaits is a job, and other turns go on meanwhile.           *)
(*                                                                         *)
(* Navigation to another tab, by a turn or by the user, is SwitchTab: the  *)
(* turn that asks for it ends.                                             *)
(***************************************************************************)
EXTENDS Integers, FiniteSets

CONSTANTS
    Turns,         \* study turns that may be active
    Jobs,          \* chapter tests of the chapter
    Tabs,          \* tabs of the chapter, numbered in page order
    Tab,           \* job -> its tab
    MaxAttempts,   \* 1 + the configured retries
    MaxMissing     \* visits without the job until it is given up

ASSUME DeferredAssumption ==
    /\ Tabs \subseteq Nat /\ Tabs # {}
    /\ Tab \in [Jobs -> Tabs]
    /\ MaxAttempts \in Nat \ {0} /\ MaxMissing \in Nat \ {0}

VARIABLES
    phase,         \* "scan", "retry" or "settled"
    inspected,     \* tabs whose ordinary jobs were inspected
    task,          \* job -> its entry in the ledger
    tab,           \* the active tab
    turn,          \* turn -> what it is doing
    own,           \* turn -> the tab it was started for: none or one
    target,        \* turn -> the job it awaits: none or one
    searched       \* turn -> searchedJobs

ledger == <<phase, inspected, task>>
vars   == <<ledger, tab, turn, own, target, searched>>

NoPause == "none"
Pauses  == {"saved", "disabled", "not-ready", "manual"}
Absent  == [state |-> "absent", attempts |-> 0, expired |-> FALSE, missing |-> 0, pause |-> NoPause]

Entry == [state : {"absent", "deferred", "complete", "abandoned"},
          attempts : 0..MaxAttempts, expired : BOOLEAN,
          missing : 0..MaxMissing, pause : Pauses \cup {NoPause}]

TypeOK ==
    /\ phase \in {"scan", "retry", "settled"}
    /\ inspected \subseteq Tabs
    /\ task \in [Jobs -> Entry]
    /\ tab \in Tabs
    /\ turn \in [Turns -> {"idle", "scan", "ordinary", "over", "inspect", "retry", "attempt"}]
    /\ own \in [Turns -> SUBSET Tabs]
    /\ target \in [Turns -> SUBSET Jobs]
    /\ searched \in [Turns -> SUBSET Jobs]

Init ==
    /\ phase = "scan" /\ inspected = {}
    /\ task = [j \in Jobs |-> Absent]
    /\ tab \in Tabs
    /\ turn = [r \in Turns |-> "idle"]
    /\ own = [r \in Turns |-> {}]
    /\ target = [r \in Turns |-> {}]
    /\ searched = [r \in Turns |-> {}]

-----------------------------------------------------------------------------
(* The operations on the entry of a job.                                   *)

\* What a job may come back with.  "failed" stands for an exception, for a
\* failed submission and, on a visit, for a static deadline.
Outcomes == {"finished", "failed", "static", "expired"} \cup Pauses

\* recordChapterDeferral
Recorded(t) == IF t.state = "absent" THEN [t EXCEPT !.state = "deferred"] ELSE t

\* markDeferredChapterAttempt: the entry after a reservation.
MayAttempt(t) == t.state = "deferred" /\ t.pause = NoPause /\ ~t.expired /\ t.attempts < MaxAttempts

Spent(t) ==
    IF t.state = "deferred" /\ (t.expired \/ t.attempts >= MaxAttempts)
    THEN [t EXCEPT !.state = "abandoned"] ELSE t

Attempted(t) ==
    IF MayAttempt(t) THEN [t EXCEPT !.attempts = @ + 1, !.missing = 0]
    ELSE IF t.pause = NoPause THEN Spent(t) ELSE t

\* Mutant: a terminal entry is not protected from a late result.
ConcludedAlways(t, outcome) ==
    CASE outcome = "expired"  -> [t EXCEPT !.expired = TRUE, !.state = "abandoned"]
      [] outcome \in Pauses   -> [t EXCEPT !.pause = outcome,
                                           !.attempts = IF @ = 0 THEN 0 ELSE @ - 1]
      [] outcome = "finished" -> [t EXCEPT !.state = "complete", !.missing = 0]
      [] OTHER -> IF t.attempts >= MaxAttempts THEN [t EXCEPT !.state = "abandoned"] ELSE t

\* Mutant: a result that is not an attempt gives back two.
ConcludedRefundingTwice(t, outcome) ==
    IF t.state # "deferred" THEN t
    ELSE CASE outcome = "expired"  -> [t EXCEPT !.expired = TRUE, !.state = "abandoned"]
           [] outcome \in Pauses   -> [t EXCEPT !.pause = outcome,
                                                !.attempts = IF @ < 2 THEN 0 ELSE @ - 2]
           [] outcome = "finished" -> [t EXCEPT !.state = "complete", !.missing = 0]
           [] OTHER -> IF t.attempts >= MaxAttempts THEN [t EXCEPT !.state = "abandoned"] ELSE t

\* Mutant: a failure gives the task up before its attempts are used.
ConcludedEarly(t, outcome) ==
    IF t.state # "deferred" THEN t
    ELSE CASE outcome = "expired"  -> [t EXCEPT !.expired = TRUE, !.state = "abandoned"]
           [] outcome \in Pauses   -> [t EXCEPT !.pause = outcome,
                                                !.attempts = IF @ = 0 THEN 0 ELSE @ - 1]
           [] outcome = "finished" -> [t EXCEPT !.state = "complete", !.missing = 0]
           [] OTHER -> IF t.attempts >= MaxAttempts - 1 THEN [t EXCEPT !.state = "abandoned"] ELSE t

\* markDeferredChapterResult: the reservation is given back when the job was
\* put off.
Concluded(t, outcome) ==
    IF t.state # "deferred" THEN t
    ELSE CASE outcome = "expired"  -> [t EXCEPT !.expired = TRUE, !.state = "abandoned"]
           [] outcome \in Pauses   -> [t EXCEPT !.pause = outcome,
                                                !.attempts = IF @ = 0 THEN 0 ELSE @ - 1]
           [] outcome = "finished" -> [t EXCEPT !.state = "complete", !.missing = 0]
           [] OTHER -> IF t.attempts >= MaxAttempts THEN [t EXCEPT !.state = "abandoned"] ELSE t

\* markDeferredChapterMissing
Missed(t) ==
    IF t.state # "deferred" THEN t
    ELSE [t EXCEPT !.missing = @ + 1,
                   !.state = IF t.missing + 1 >= MaxMissing THEN "abandoned" ELSE @]

Deferred(t)  == t.state = "deferred"
Known(tasks) == {j \in Jobs : tasks[j].state # "absent"}
Pending(tasks) == {j \in Jobs : Deferred(tasks[j]) /\ tasks[j].pause = NoPause}

-----------------------------------------------------------------------------
(* A study turn.                                                           *)

ContextCurrent(r) == own[r] = {tab}

\* The turn goes on; it awaits the jobs given.
Goes(r, where, awaited) ==
    /\ turn' = [turn EXCEPT ![r] = where]
    /\ target' = [target EXCEPT ![r] = awaited]
    /\ UNCHANGED own

\* The turn ends, and its local state with it.
Ends(r) ==
    /\ turn' = [turn EXCEPT ![r] = "idle"]
    /\ target' = [target EXCEPT ![r] = {}]
    /\ own' = [own EXCEPT ![r] = {}]
    /\ searched' = [searched EXCEPT ![r] = {}]

\* The start of a turn lifts the pauses its settings and its page have cured,
\* and forgets what was inspected when the chapter has changed since.
Start(r) ==
    /\ turn[r] = "idle"
    /\ turn' = [turn EXCEPT ![r] = "scan"]
    /\ own' = [own EXCEPT ![r] = {tab}]
    /\ \E enabled, changed \in BOOLEAN, found \in SUBSET {j \in Jobs : Tab[j] = tab} :
          /\ task' = [j \in Jobs |->
                 IF \/ task[j].pause = "disabled" /\ enabled
                    \/ task[j].pause = "not-ready" /\ j \in found
                 THEN [task[j] EXCEPT !.pause = NoPause] ELSE task[j]]
          /\ phase' = IF changed THEN "scan" ELSE phase
          /\ inspected' = IF changed THEN {} ELSE inspected
    /\ UNCHANGED <<tab, target, searched>>

\* runJobs() finds a job that is not in the ledger.
FindJob(r, j) ==
    /\ turn[r] = "scan" /\ ContextCurrent(r)
    /\ Tab[j] = tab /\ task[j].state = "absent" /\ j \notin searched[r]
    /\ Goes(r, "ordinary", {j})
    /\ searched' = [searched EXCEPT ![r] = @ \cup {j}]
    /\ UNCHANGED <<ledger, tab>>

\* The first failure of a job puts it into the ledger; a failed submission
\* counts as an attempt.
RecordOutcome(j, outcome) ==
    /\ task' = [task EXCEPT ![j] =
           IF outcome \in Pauses THEN [Recorded(@) EXCEPT !.pause = outcome]
           ELSE IF outcome = "static" THEN Recorded(@)
           ELSE Concluded(Attempted(Recorded(@)), outcome)]
    /\ phase' = IF task[j].state = "absent" THEN "scan" ELSE phase

\* The job returns.  A manual decision ends the turn and records nothing.
OrdinaryReturns(r, outcome) ==
    /\ turn[r] = "ordinary"
    /\ IF outcome \in {"finished", "manual"}
       THEN UNCHANGED <<task, phase>>
       ELSE \E j \in target[r] : RecordOutcome(j, outcome)
    /\ IF outcome = "manual" THEN Ends(r) ELSE Goes(r, "scan", {}) /\ UNCHANGED searched
    /\ UNCHANGED <<inspected, tab>>

\* A job that its settings or its page forbid ends the scan of the tab.
JobBlocked(r, j, reason) ==
    /\ turn[r] = "scan" /\ ContextCurrent(r)
    /\ Tab[j] = tab /\ task[j].state = "absent" /\ j \notin searched[r]
    /\ RecordOutcome(j, reason)
    /\ Goes(r, "over", {})
    /\ UNCHANGED <<inspected, tab, searched>>

\* The end of routeDeferredCourse as far as this chapter goes.
Routed(tasks, seen, ph) ==
    IF seen = Tabs /\ Known(tasks) # {} /\ \A j \in Known(tasks) : ~Deferred(tasks[j]) \/ tasks[j].expired
    THEN "settled" ELSE ph

\* The scan is over, for a turn whose tab is still the active one or for no one.
EndScan(r) ==
    /\ turn[r] \in {"scan", "over"}
    /\ Ends(r) \/ (ContextCurrent(r) /\ Goes(r, "inspect", {}) /\ UNCHANGED searched)
    /\ UNCHANGED <<ledger, tab>>

\* After a wait while the tab's answers are paused, the tab active by then
\* counts as inspected, and the turn goes on to the retries unless another tab
\* or chapter comes first or nothing is left.
Inspect(r) ==
    /\ turn[r] = "inspect"
    /\ inspected' = inspected \cup {tab}
    /\ phase' = Routed(task, inspected', phase)
    /\ Ends(r) \/ (Pending(task) # {} /\ Goes(r, "retry", {}) /\ UNCHANGED searched)
    /\ UNCHANGED <<task, tab>>

\* The phase chooseNextDeferredChapterTask leaves.
PhaseAfter(tasks) == IF \E j \in Jobs : Deferred(tasks[j]) THEN "retry" ELSE "settled"

\* The ledger once the used-up tasks are given up.
Swept == [j \in Jobs |-> Spent(task[j])]

\* The task to try: of the first tab that has one.
Chosen(tasks) == {j \in Pending(tasks) : \A k \in Pending(tasks) : Tab[j] <= Tab[k]}

\* The retry loop has nothing to do here: the turn's page is gone, a tab is
\* not inspected, or there is no task, or only one of another tab.
StopRetrying(r) ==
    /\ turn[r] = "retry"
    /\ IF ~ContextCurrent(r) THEN UNCHANGED ledger
       ELSE IF inspected # Tabs THEN phase' = "scan" /\ UNCHANGED <<inspected, task>>
       ELSE /\ \A j \in Chosen(Swept) : Tab[j] # tab
            /\ task' = Swept
            /\ phase' = Routed(Swept, inspected, PhaseAfter(Swept))
            /\ UNCHANGED inspected
    /\ Ends(r)
    /\ UNCHANGED <<tab>>

\* What the page tells of the chosen task: the job is there and the attempt
\* is reserved, or it has passed, is forbidden, or is missing.
Visit(r, j) ==
    /\ turn[r] = "retry" /\ ContextCurrent(r) /\ inspected = Tabs
    /\ j \in Chosen(Swept) /\ Tab[j] = tab
    /\ phase' = PhaseAfter(Swept)
    /\ \/ /\ task' = [Swept EXCEPT ![j] = Attempted(@)]
          /\ Goes(r, "attempt", {j})
       \/ /\ \/ task' = [Swept EXCEPT ![j].state = "complete"]
             \/ \E reason \in {"disabled", "not-ready"} : task' = [Swept EXCEPT ![j].pause = reason]
             \/ task' = [Swept EXCEPT ![j] = Missed(@)]
          /\ Goes(r, "retry", {})
    /\ UNCHANGED <<inspected, tab, searched>>

\* The retried job returns; the result goes into the latest ledger.
AttemptReturns(r, outcome) ==
    /\ turn[r] = "attempt"
    /\ \E j \in target[r] : task' = [task EXCEPT ![j] = Concluded(@, outcome)]
    /\ IF ContextCurrent(r) /\ outcome # "manual" THEN Goes(r, "retry", {}) /\ UNCHANGED searched ELSE Ends(r)
    /\ UNCHANGED <<phase, inspected, tab>>

\* The frame of a turn is replaced while the turn awaits something.
Vanish(r) ==
    /\ turn[r] # "idle"
    /\ Ends(r)
    /\ UNCHANGED <<ledger, tab>>

-----------------------------------------------------------------------------
(* The user and the site.                                                  *)

SwitchTab ==
    /\ tab' \in Tabs \ {tab}
    /\ UNCHANGED <<ledger, turn, own, target, searched>>

\* resumeCurrentStudy: the user continues; the new turn is Start.
Resume ==
    /\ task' = [j \in Jobs |->
           IF Tab[j] = tab /\ Deferred(task[j]) /\ task[j].pause \in {"saved", "manual"}
           THEN [task[j] EXCEPT !.pause = NoPause] ELSE task[j]]
    /\ UNCHANGED <<phase, inspected, tab, turn, own, target, searched>>

Work(r) ==
    \/ \E j \in Jobs : FindJob(r, j) \/ Visit(r, j)
    \/ \E j \in Jobs, reason \in {"disabled", "not-ready"} : JobBlocked(r, j, reason)
    \/ EndScan(r) \/ Inspect(r) \/ StopRetrying(r)
    \/ \E outcome \in Outcomes : OrdinaryReturns(r, outcome) \/ AttemptReturns(r, outcome)

Next ==
    \/ \E r \in Turns : Start(r) \/ Work(r) \/ Vanish(r)
    \/ SwitchTab
    \/ Resume

Spec == Init /\ [][Next]_vars

-----------------------------------------------------------------------------
(* Properties.                                                             *)

\* The ledger accounts for every attempt in progress, whichever turns reserve,
\* give back and conclude attempts meanwhile.
InProgress(j) == {r \in Turns : turn[r] = "attempt" /\ j \in target[r]}

AttemptsCovered ==
    \A j \in Jobs : Deferred(task[j]) => Cardinality(InProgress(j)) <= task[j].attempts

\* A task that is complete or given up never comes back, however late an
\* earlier attempt returns.
TerminalIsFinal ==
    [][\A j \in Jobs : task[j].state \in {"complete", "abandoned"} => task'[j].state = task[j].state]_vars

\* A task is only given up for a reason: it expired, its attempts are used
\* up, or its job has been missing too often.
AbandonedForReason ==
    \A j \in Jobs : task[j].state = "abandoned" =>
        task[j].expired \/ task[j].attempts >= MaxAttempts \/ task[j].missing >= MaxMissing

\* A settled chapter has no deferred task left, and no task is added to it
\* without opening it again.
SettledHasNoDeferred ==
    phase = "settled" => \A j \in Jobs : ~Deferred(task[j])

=============================================================================
