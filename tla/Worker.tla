------------------------------- MODULE Worker -------------------------------
(***************************************************************************)
(* OCSWorker (core/worker/worker.ts): the request threads that search the  *)
(* questions of a page concurrently, the resolver that applies the answers *)
(* in page order, and the stop / continuate / close events that may arrive *)
(* between any two microtasks of either.                                   *)
(*                                                                         *)
(* A step runs from one await to the next.  A promise that waitForTask     *)
(* awaits settles in one step and the code after the await runs in a later *)
(* one, so an event of another promise chain can slip in between.          *)
(***************************************************************************)
EXTENDS Naturals

CONSTANTS
    N,                \* number of question roots found on the page
    Threads,          \* the request threads
    MaxOptions,       \* bound: options one answer selects
    CallbacksThrow    \* whether onResultsUpdate may throw

ASSUME WorkerAssumption ==
    /\ N \in Nat
    /\ MaxOptions \in Nat
    /\ CallbacksThrow \in BOOLEAN

VARIABLES
    isStop, isClose, isRunning,       \* the worker's public flags
    run,                              \* where runWork / doWork is
    nextIndex,                        \* next unclaimed question
    pc, at, got,                      \* per thread: label, question, answer that arrived
    searching, requested, resolved,   \* per question: the WorkResult flags
    infos,                            \* per question: ctx.searchInfos
    late,                             \* questions whose answerer was abandoned and still runs
    rpc, cursor,                      \* the resolver: label and question
    wpc, left,                        \* the question resolver: label, options to select
    slips, searchSlips                \* history: work begun since the last halt

flags   == <<isStop, isClose, isRunning>>
threads == <<nextIndex, pc, at, got>>
results == <<searching, requested, resolved, infos>>
resolver == <<rpc, cursor>>
work    == <<wpc, left>>
history == <<slips, searchSlips>>
vars    == <<flags, run, threads, results, late, resolver, work, history>>

Questions == 1..N
Answers   == {"none", "found"}

\* Where waitForTask awaits: closing the worker rejects each of these.
ThreadAwaits == {"paused1", "before", "authorizing", "paused2", "announce",
                 "announcing", "search", "searching"}
ThreadLabels == ThreadAwaits \cup
    {"claim", "authorized", "mark", "answered", "failed", "reporting", "ended", "threw"}
ResolverLabels ==
    {"top", "pausedA", "awaitRequest", "recheck", "pausedB", "enter", "pausedC", "dispatch",
     "callWork", "working", "after", "pausedD", "write", "reporting", "ended", "threw"}
WorkLabels == {"idle", "gate", "apply", "handling", "finished"}
RunLabels  == {"init", "running", "done", "rejected", "aborted"}

TypeOK ==
    /\ isStop \in BOOLEAN /\ isClose \in BOOLEAN /\ isRunning \in BOOLEAN
    /\ run \in RunLabels
    /\ nextIndex \in 1..(N + 1)
    /\ pc \in [Threads -> ThreadLabels]
    /\ at \in [Threads -> 0..N]
    /\ got \in [Threads -> Answers]
    /\ searching \in [Questions -> BOOLEAN]
    /\ requested \in [Questions -> BOOLEAN]
    /\ resolved \in [Questions -> BOOLEAN]
    /\ infos \in [Questions -> Answers]
    /\ late \subseteq Questions
    /\ rpc \in ResolverLabels /\ cursor \in 1..(N + 1)
    /\ wpc \in WorkLabels /\ left \in 0..MaxOptions
    /\ slips \in Nat /\ searchSlips \in [Threads -> Nat]

Init ==
    /\ isStop \in BOOLEAN /\ isClose \in BOOLEAN /\ isRunning = TRUE
    /\ run = "init"
    /\ nextIndex = 1
    /\ pc = [t \in Threads |-> "claim"]
    /\ at = [t \in Threads |-> 0]
    /\ got = [t \in Threads |-> "none"]
    /\ searching = [i \in Questions |-> FALSE]
    /\ requested = [i \in Questions |-> FALSE]
    /\ resolved = [i \in Questions |-> FALSE]
    /\ infos = [i \in Questions |-> "none"]
    /\ late = {}
    /\ rpc = "top" /\ cursor = 1
    /\ wpc = "idle" /\ left = 0
    /\ slips = 0 /\ searchSlips = [t \in Threads |-> 0]

-----------------------------------------------------------------------------
(* Events: any listener of the page may emit them, at any time.            *)

Stop ==
    /\ isStop' = TRUE
    /\ UNCHANGED <<isClose, isRunning, run, threads, results, late, resolver, work, history>>

Continuate ==
    /\ isStop' = FALSE
    /\ slips' = IF isClose THEN slips ELSE 0
    /\ searchSlips' = [t \in Threads |-> 0]
    /\ UNCHANGED <<isClose, isRunning, run, threads, results, late, resolver, work>>

Close ==
    /\ isClose' = TRUE
    /\ UNCHANGED <<isStop, isRunning, run, threads, results, late, resolver, work, history>>

-----------------------------------------------------------------------------
(* runWork before the threads start, and after they ended.                 *)

\* The contexts are built and onResultsInitialized returned.
StartThreads ==
    /\ run = "init" /\ N > 0
    /\ run' = "running"
    /\ UNCHANGED <<flags, threads, results, late, resolver, work, history>>

\* No question root, or a callback of the initialisation threw: doWork's
\* finally block announces the end of the round all the same.
AbortInit ==
    /\ run = "init"
    /\ run' = "aborted" /\ isRunning' = FALSE
    /\ UNCHANGED <<isStop, isClose, threads, results, late, resolver, work, history>>

Finish ==
    /\ run = "running"
    /\ rpc = "ended" /\ \A t \in Threads : pc[t] = "ended"
    /\ run' = "done" /\ isRunning' = FALSE
    /\ UNCHANGED <<isStop, isClose, threads, results, late, resolver, work, history>>

\* Promise.all rejects as soon as one of its members does.
Reject ==
    /\ run = "running"
    /\ rpc = "threw" \/ \E t \in Threads : pc[t] = "threw"
    /\ run' = "rejected" /\ isRunning' = FALSE
    /\ UNCHANGED <<isStop, isClose, threads, results, late, resolver, work, history>>

Settled == run \in {"done", "rejected", "aborted"}
Started == run \in {"running", "done", "rejected"}

-----------------------------------------------------------------------------
(* Request threads.                                                        *)

Goto(t, label) == pc' = [pc EXCEPT ![t] = label]

\* Everything a thread leaves alone when it only moves on.
ThreadMoves == UNCHANGED <<flags, run, nextIndex, at, results, resolver, work>>
ThreadOnly  == ThreadMoves /\ UNCHANGED <<got, late, history>>

\* while (nextIndex < length && !isClose): the check, the increment and the
\* start of requestThread share one synchronous section.
ClaimQuestion(t) ==
    /\ Started /\ pc[t] = "claim"
    /\ nextIndex <= N /\ ~isClose
    /\ nextIndex' = nextIndex + 1
    /\ at' = [at EXCEPT ![t] = nextIndex]
    /\ infos' = [infos EXCEPT ![nextIndex] = "none"]
    /\ Goto(t, IF isStop THEN "paused1" ELSE "before")
    /\ UNCHANGED <<flags, run, got, searching, requested, resolved, late, resolver, work, history>>

EndThread(t) ==
    /\ Started /\ pc[t] = "claim"
    /\ nextIndex > N \/ isClose
    /\ Goto(t, "ended")
    /\ ThreadOnly

\* waitForContinuate polls until the worker runs again.
WakeThread(t) ==
    /\ pc[t] \in {"paused1", "paused2"} /\ ~isStop /\ ~isClose
    /\ Goto(t, IF pc[t] = "paused1" THEN "before" ELSE "mark")
    /\ ThreadOnly

\* waitForTask re-checks the close before it starts the task: beforeSearch.
BeginAuthorization(t) ==
    /\ pc[t] = "before" /\ ~isClose
    /\ Goto(t, "authorizing")
    /\ ThreadOnly

\* beforeSearch returned, or refused the question by throwing.
EndAuthorization(t) ==
    /\ pc[t] = "authorizing"
    /\ \E label \in {"authorized", "failed"} : Goto(t, label)
    /\ ThreadOnly

\* The code after the await: stopped meanwhile, or on to the search.
PauseAuthorized(t) ==
    /\ pc[t] = "authorized" /\ isStop
    /\ Goto(t, "paused2")
    /\ ThreadOnly

MarkSearching(t) ==
    /\ pc[t] = "mark" \/ (pc[t] = "authorized" /\ ~isStop)
    /\ ~isClose
    /\ searching' = [searching EXCEPT ![at[t]] = TRUE]
    /\ Goto(t, "announce")
    /\ UNCHANGED <<flags, run, nextIndex, at, got, requested, resolved, infos, late, resolver,
                   work, history>>

BeginAnnounce(t) ==
    /\ pc[t] = "announce" /\ ~isClose
    /\ Goto(t, "announcing")
    /\ ThreadOnly

\* This call of onResultsUpdate is inside the try: its error fails the question.
EndAnnounce(t) ==
    /\ pc[t] = "announcing"
    /\ \E label \in {"search", "failed"} : Goto(t, label)
    /\ ThreadOnly

BeginSearch(t) ==
    /\ pc[t] = "search" /\ ~isClose
    /\ Goto(t, "searching")
    /\ searchSlips' = IF isStop THEN [searchSlips EXCEPT ![t] = @ + 1] ELSE searchSlips
    /\ ThreadMoves /\ UNCHANGED <<got, late, slips>>

AnswerArrives(t) ==
    /\ pc[t] = "searching"
    /\ \E answer \in Answers : got' = [got EXCEPT ![t] = answer]
    /\ Goto(t, "answered")
    /\ ThreadMoves /\ UNCHANGED <<late, history>>

SearchFails(t) ==
    /\ pc[t] = "searching"
    /\ Goto(t, "failed")
    /\ ThreadOnly

\* Mutant: the answerer is awaited without a deadline.
NeverTimesOut(t) == FALSE /\ pc[t] = "searching" /\ ThreadOnly

\* The deadline passes while the answerer is still running.
SearchTimesOut(t) ==
    /\ pc[t] = "searching"
    /\ Goto(t, "failed")
    /\ late' = late \cup {at[t]}
    /\ ThreadMoves /\ UNCHANGED <<got, history>>

\* An abandoned answerer returns: waitForTask has settled and drops the value.
LateAnswer(i) ==
    /\ i \in late
    /\ late' = late \ {i}
    /\ UNCHANGED <<flags, run, threads, results, resolver, work, history>>

\* The close aborts whatever waitForTask awaits; the catch and the check
\* after it lead straight back to the loop.
AbortThread(t) ==
    /\ isClose /\ pc[t] \in ThreadAwaits \cup {"authorized", "mark"}
    /\ Goto(t, "claim")
    /\ late' = IF pc[t] = "searching" THEN late \cup {at[t]} ELSE late
    /\ ThreadMoves /\ UNCHANGED <<got, history>>

\* The code after the search: keep the answer, and unless the worker was
\* closed publish the request and release the resolver.
CompleteRequest(t) ==
    /\ pc[t] \in {"answered", "failed"}
    /\ infos' = IF pc[t] = "answered" THEN [infos EXCEPT ![at[t]] = got[t]] ELSE infos
    /\ IF isClose
       THEN Goto(t, "claim") /\ UNCHANGED <<searching, requested>>
       ELSE /\ searching' = [searching EXCEPT ![at[t]] = FALSE]
            /\ requested' = [requested EXCEPT ![at[t]] = TRUE]
            /\ Goto(t, "reporting")
    /\ UNCHANGED <<flags, run, nextIndex, at, got, resolved, late, resolver, work, history>>

\* onResultsUpdate is awaited outside the try and is not aborted by a close.
EndReport(t) ==
    /\ pc[t] = "reporting"
    /\ \/ Goto(t, "claim")
       \/ CallbacksThrow /\ Goto(t, "threw")
    /\ ThreadOnly

-----------------------------------------------------------------------------
(* The resolver thread.                                                    *)

ResolverMoves == UNCHANGED <<flags, run, threads, results, late, cursor, work, history>>

\* Mutant: the loop stops one question short.
ResolverHeadShort ==
    /\ Started /\ rpc = "top"
    /\ rpc' = IF cursor >= N \/ isClose THEN "ended"
              ELSE IF isStop THEN "pausedA" ELSE "awaitRequest"
    /\ UNCHANGED <<flags, run, threads, results, late, cursor, work, history>>

\* The loop head: past the last question, closed, stopped or straight on.
ResolverHead ==
    /\ Started /\ rpc = "top"
    /\ rpc' = IF cursor > N \/ isClose THEN "ended"
              ELSE IF isStop THEN "pausedA" ELSE "awaitRequest"
    /\ isRunning' = (isRunning /\ (cursor > N \/ ~isClose))
    /\ UNCHANGED <<isStop, isClose, run, threads, results, late, cursor, work, history>>

WakeResolver ==
    /\ ~isStop /\ ~isClose
    /\ \/ rpc = "pausedA" /\ rpc' = "awaitRequest"
       \/ rpc = "pausedB" /\ rpc' = "enter"
       \/ rpc = "pausedC" /\ rpc' = "dispatch"
       \/ rpc = "pausedD" /\ rpc' = "write"
    /\ ResolverMoves

\* Mutant: the resolver does not wait for the request.
SkipRequest ==
    /\ rpc = "awaitRequest" /\ ~isClose
    /\ rpc' = "recheck"
    /\ ResolverMoves

\* waitForRequested: the request of this very question completed.
SeeRequest ==
    /\ rpc = "awaitRequest" /\ requested[cursor] /\ ~isClose
    /\ rpc' = "recheck"
    /\ ResolverMoves

PauseResolver ==
    /\ isStop /\ ~isClose
    /\ \/ rpc = "recheck" /\ rpc' = "pausedB"
       \/ rpc = "enter" /\ rpc' = "pausedC"
       \/ rpc = "after" /\ rpc' = "pausedD"
    /\ ResolverMoves

\* Every return on isClose, and every rejection by the close signal.
EndResolver ==
    /\ isClose
    /\ rpc \notin {"top", "reporting", "ended", "threw"}
    /\ rpc' = "ended"
    /\ ResolverMoves

\* With no answer, or none that fits the question, the error is recorded.
Dispatch ==
    /\ ~isClose
    /\ rpc = "dispatch" \/ (rpc \in {"recheck", "enter"} /\ ~isStop)
    /\ rpc' \in IF infos[cursor] = "found" THEN {"callWork", "after"} ELSE {"after"}
    /\ ResolverMoves

\* The question resolver picks the options to select, possibly none.
BeginWork ==
    /\ rpc = "callWork" /\ ~isClose
    /\ rpc' = "working"
    /\ \E k \in 0..MaxOptions :
          /\ left' = k
          /\ wpc' = IF k = 0 THEN "finished" ELSE "gate"
    /\ UNCHANGED <<flags, run, threads, results, late, cursor, history>>

\* Mutant: an option is applied without waiting for the user to continue.
PassGateUnpaused ==
    /\ wpc = "gate" /\ ~isClose
    /\ wpc' = "apply"
    /\ UNCHANGED <<flags, run, threads, results, late, resolver, left, history>>

\* apply: ctx.waitForContinue() holds it while stopped ...
PassGate ==
    /\ wpc = "gate" /\ ~isStop /\ ~isClose
    /\ wpc' = "apply"
    /\ UNCHANGED <<flags, run, threads, results, late, resolver, left, history>>

\* ... and rejects after a close, which ends the question resolver.
RefuseGate ==
    /\ wpc = "gate" /\ isClose
    /\ wpc' = "finished"
    /\ UNCHANGED <<flags, run, threads, results, late, resolver, left, history>>

\* The handler selects the option on the page.
ApplyOption ==
    /\ wpc = "apply"
    /\ wpc' = "handling"
    /\ slips' = IF isStop \/ isClose THEN slips + 1 ELSE slips
    /\ UNCHANGED <<flags, run, threads, results, late, resolver, left, searchSlips>>

\* The handler returns, or throws and so ends the question resolver.
EndApply ==
    /\ wpc = "handling"
    /\ left' = left - 1
    /\ wpc' \in IF left = 1 THEN {"finished"} ELSE {"gate", "finished"}
    /\ UNCHANGED <<flags, run, threads, results, late, resolver, history>>

EndWork ==
    /\ rpc = "working" /\ wpc = "finished"
    /\ rpc' = "after" /\ wpc' = "idle"
    /\ UNCHANGED <<flags, run, threads, results, late, cursor, left, history>>

\* Mutant: the result is written without looking at isClose.
WriteResultUnchecked ==
    /\ rpc = "write" \/ (rpc = "after" /\ ~isStop)
    /\ resolved' = [resolved EXCEPT ![cursor] = TRUE]
    /\ rpc' = "reporting"
    /\ UNCHANGED <<flags, run, threads, searching, requested, infos, late, cursor, work, history>>

WriteResult ==
    /\ ~isClose
    /\ rpc = "write" \/ (rpc = "after" /\ ~isStop)
    /\ resolved' = [resolved EXCEPT ![cursor] = TRUE]
    /\ rpc' = "reporting"
    /\ UNCHANGED <<flags, run, threads, searching, requested, infos, late, cursor, work, history>>

EndResolverReport ==
    /\ rpc = "reporting"
    /\ \/ rpc' = "top" /\ cursor' = cursor + 1
       \/ CallbacksThrow /\ rpc' = "threw" /\ cursor' = cursor
    /\ UNCHANGED <<flags, run, threads, results, late, work, history>>

-----------------------------------------------------------------------------

ThreadStep(t) ==
    \/ ClaimQuestion(t) \/ EndThread(t) \/ WakeThread(t)
    \/ BeginAuthorization(t) \/ EndAuthorization(t) \/ PauseAuthorized(t)
    \/ MarkSearching(t) \/ BeginAnnounce(t) \/ EndAnnounce(t)
    \/ BeginSearch(t) \/ AnswerArrives(t) \/ SearchFails(t) \/ SearchTimesOut(t)
    \/ AbortThread(t) \/ CompleteRequest(t) \/ EndReport(t)

ResolverStep ==
    \/ ResolverHead \/ WakeResolver \/ SeeRequest \/ PauseResolver \/ EndResolver
    \/ Dispatch \/ BeginWork \/ EndWork \/ WriteResult \/ EndResolverReport

WorkStep == PassGate \/ RefuseGate \/ ApplyOption \/ EndApply

RunStep == StartThreads \/ AbortInit \/ Finish \/ Reject

Next ==
    \/ Stop \/ Continuate \/ Close
    \/ RunStep
    \/ \E t \in Threads : ThreadStep(t)
    \/ \E i \in Questions : LateAnswer(i)
    \/ ResolverStep
    \/ WorkStep

Spec == Init /\ [][Next]_vars

(***************************************************************************)
(* Fairness.  The code between awaits runs; the callbacks the worker does  *)
(* not abort (onResultsUpdate) return; the search deadline fires.  Nothing *)
(* is assumed of the events, and nothing of beforeSearch, which waits for  *)
(* a human, nor of the page handlers.                                      *)
(***************************************************************************)
ProgramFairness ==
    /\ WF_vars(RunStep)
    /\ WF_vars(ResolverStep)
    /\ WF_vars(PassGate \/ RefuseGate \/ ApplyOption)
    /\ \A t \in Threads :
          /\ WF_vars(ClaimQuestion(t) \/ EndThread(t) \/ WakeThread(t) \/ BeginAuthorization(t)
                      \/ PauseAuthorized(t) \/ MarkSearching(t) \/ BeginAnnounce(t)
                      \/ EndAnnounce(t) \/ BeginSearch(t) \/ SearchTimesOut(t)
                      \/ AbortThread(t) \/ CompleteRequest(t) \/ EndReport(t))

\* For a round nobody closes, the human answers and the page handlers return.
PageFairness ==
    /\ WF_vars(EndApply)
    /\ \A t \in Threads : WF_vars(EndAuthorization(t))

FairSpec == Spec /\ ProgramFairness

-----------------------------------------------------------------------------
(* Properties.                                                             *)

\* Answers are applied in page order and only after their own request
\* completed, however the request threads interleave (resolverThread's
\* sequential loop over waitForRequested).
InOrder ==
    \A i \in Questions : resolved[i] =>
        requested[i] /\ \A j \in 1..(i - 1) : resolved[j]

\* Two request threads never hold the same question, and none holds one that
\* is still to be claimed (the shared nextIndex of requestThreadHandler).
Busy(t) == pc[t] \notin {"claim", "ended", "threw"}
ClaimedOnce ==
    \A t \in Threads : Busy(t) =>
        /\ at[t] < nextIndex
        /\ \A u \in Threads \ {t} : Busy(u) => at[u] # at[t]

\* After a stop or a close at most the one option whose gate was already
\* passed is still selected on the page, until the user continues.
ApplicationsBounded == slips <= 1

\* After a stop each request thread starts at most the one search it was
\* already past the stop check for, until the user continues.
SearchesBounded == \A t \in Threads : searchSlips[t] <= 1

\* The done event of a worker nobody closed means that every question was
\* requested and resolved.
DoneIsComplete ==
    run = "done" /\ ~isClose => \A i \in Questions : requested[i] /\ resolved[i]

\* A closed worker publishes nothing more, whatever it was awaiting.
NoPublishAfterClose == [][isClose => UNCHANGED <<searching, requested, resolved>>]_vars

\* Once a question's request completed its answers are fixed: a late answer
\* of a search that timed out cannot replace the outcome.
LateAnswerIgnored ==
    [][\A i \in Questions : requested[i] => infos'[i] = infos[i]]_vars

\* interface.ts: settled announces the end of the round.  Nothing is
\* published after it.
SettledIsFinal == [][Settled => UNCHANGED results]_vars

\* A round that is not left stopped for ever ends, when the human answers and
\* the page handlers return.
RoundEnds == PageFairness /\ <>[](~isStop) => <>Settled

-----------------------------------------------------------------------------
(* The round as the page sees it.                                          *)

Stage(i) ==
    IF resolved[i] THEN "resolved"
    ELSE IF requested[i] THEN "requested"
    ELSE IF searching[i] THEN "searching" ELSE "waiting"

Pipeline == INSTANCE AnswerPipeline
    WITH stage <- [i \in Questions |-> Stage(i)], closed <- isClose, over <- Settled

\* Until a callback throws, every step of the worker is a step of the abstract
\* pipeline or changes nothing that the page sees.
NothingThrew == rpc # "threw" /\ \A t \in Threads : pc[t] # "threw"
ImplementsPipeline == Pipeline!Init /\ [][NothingThrew => Pipeline!Next]_(Pipeline!vars)
=============================================================================
