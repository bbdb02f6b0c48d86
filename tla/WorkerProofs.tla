---------------------------- MODULE WorkerProofs ----------------------------
(***************************************************************************)
(* Proofs about Worker, for any number of questions, threads and options.  *)
(***************************************************************************)
EXTENDS Worker, TLAPS

\* TypeOK is not inductive by itself: a busy thread holds a question of the
\* page, the resolver past its head is at a question, and options are left
\* while one of them is being selected.
InBounds ==
    /\ \A t \in Threads : Busy(t) => at[t] \in Questions
    /\ rpc \notin {"top", "ended"} => cursor \in Questions
    /\ wpc \in {"gate", "apply", "handling"} => left > 0

TypeInv == TypeOK /\ InBounds

LEMMA TypeInit == Init => TypeInv
  BY WorkerAssumption
  DEF Init, TypeInv, TypeOK, InBounds, Busy, ThreadLabels, ThreadAwaits, ResolverLabels,
      WorkLabels, RunLabels, Questions, Answers

LEMMA TypeEvents ==
  ASSUME TypeInv, Stop \/ Continuate \/ Close PROVE TypeInv'
  <1> USE DEF TypeInv, TypeOK, InBounds, Busy, flags, threads, results, resolver, work, history
  <1>1. CASE Stop
    BY <1>1 DEF Stop
  <1>2. CASE Continuate
    BY <1>2 DEF Continuate
  <1>3. CASE Close
    BY <1>3 DEF Close
  <1>. QED
    BY <1>1, <1>2, <1>3

LEMMA TypeRun ==
  ASSUME TypeInv, RunStep PROVE TypeInv'
  BY DEF TypeInv, TypeOK, InBounds, Busy, flags, threads, results, resolver, work, history,
         RunLabels, RunStep, StartThreads, AbortInit, Finish, Reject

LEMMA TypeThread ==
  ASSUME TypeInv, NEW t \in Threads, ThreadStep(t) PROVE TypeInv'
  <1> USE DEF TypeInv, TypeOK, InBounds, Busy, flags, threads, results, resolver, work, history,
              Goto, ThreadMoves, ThreadOnly, ThreadLabels, ThreadAwaits
  <1>1. CASE ClaimQuestion(t)
    BY <1>1, WorkerAssumption DEF ClaimQuestion, Questions, Answers
  <1>2. CASE EndThread(t) \/ WakeThread(t) \/ BeginAuthorization(t) \/ EndAuthorization(t)
             \/ PauseAuthorized(t) \/ BeginAnnounce(t) \/ EndAnnounce(t) \/ SearchFails(t)
             \/ EndReport(t)
    BY <1>2 DEF EndThread, WakeThread, BeginAuthorization, EndAuthorization, PauseAuthorized,
                BeginAnnounce, EndAnnounce, SearchFails, EndReport
  <1>3. CASE MarkSearching(t)
    BY <1>3 DEF MarkSearching
  <1>4. CASE BeginSearch(t)
    BY <1>4 DEF BeginSearch
  <1>5. CASE AnswerArrives(t)
    BY <1>5 DEF AnswerArrives
  <1>6. CASE SearchTimesOut(t)
    BY <1>6 DEF SearchTimesOut
  <1>7. CASE AbortThread(t)
    BY <1>7 DEF AbortThread
  <1>8. CASE CompleteRequest(t)
    <2>1. TypeOK'
      BY <1>8 DEF CompleteRequest
    <2>2. InBounds'
      BY <1>8 DEF CompleteRequest
    <2>. QED
      BY <2>1, <2>2
  <1>. QED
    BY <1>1, <1>2, <1>3, <1>4, <1>5, <1>6, <1>7, <1>8 DEF ThreadStep

LEMMA TypeLate ==
  ASSUME TypeInv, NEW i \in Questions, LateAnswer(i) PROVE TypeInv'
  BY DEF TypeInv, TypeOK, InBounds, Busy, flags, threads, results, resolver, work, history, LateAnswer

LEMMA TypeResolver ==
  ASSUME TypeInv, ResolverStep PROVE TypeInv'
  <1> USE DEF TypeInv, TypeOK, InBounds, Busy, flags, threads, results, resolver, work, history,
              ResolverMoves, ResolverLabels
  <1>1. CASE ResolverHead
    BY <1>1, WorkerAssumption DEF ResolverHead, Questions
  <1>2. CASE WakeResolver \/ SeeRequest \/ PauseResolver \/ EndResolver \/ Dispatch
    BY <1>2 DEF WakeResolver, SeeRequest, PauseResolver, EndResolver, Dispatch
  <1>3. CASE BeginWork
    BY <1>3, WorkerAssumption DEF BeginWork, WorkLabels
  <1>4. CASE EndWork
    BY <1>4 DEF EndWork, WorkLabels
  <1>5. CASE WriteResult
    BY <1>5 DEF WriteResult
  <1>6. CASE EndResolverReport
    BY <1>6, WorkerAssumption DEF EndResolverReport, Questions
  <1>. QED
    BY <1>1, <1>2, <1>3, <1>4, <1>5, <1>6 DEF ResolverStep

LEMMA TypeWork ==
  ASSUME TypeInv, WorkStep PROVE TypeInv'
  <1> USE DEF TypeInv, TypeOK, InBounds, Busy, flags, threads, results, resolver, work, history,
              WorkLabels
  <1>1. CASE PassGate \/ RefuseGate \/ ApplyOption
    BY <1>1 DEF PassGate, RefuseGate, ApplyOption
  <1>2. CASE EndApply
    BY <1>2, WorkerAssumption DEF EndApply
  <1>. QED
    BY <1>1, <1>2 DEF WorkStep

LEMMA TypeStep == TypeInv /\ [Next]_vars => TypeInv'
<1> SUFFICES ASSUME TypeInv, [Next]_vars PROVE TypeInv'
  OBVIOUS
<1>1. CASE UNCHANGED vars
  BY <1>1 DEF TypeInv, TypeOK, InBounds, Busy, vars, flags, threads, results, resolver, work, history
<1>. QED
  BY <1>1, TypeEvents, TypeRun, TypeThread, TypeLate, TypeResolver, TypeWork DEF Next

\* Every variable keeps its type along every behaviour of the worker.
THEOREM WorkerTypeCorrect == Spec => []TypeOK
<1>1. TypeInv => TypeOK
  BY DEF TypeInv
<1>. QED
  BY <1>1, TypeInit, TypeStep, PTL DEF Spec

-----------------------------------------------------------------------------
(* The inductive invariant, one named part per concern.                    *)

Searching(t) == pc[t] \in {"paused1", "before", "authorizing", "authorized", "paused2", "mark",
                           "announce", "announcing", "search", "searching", "answered", "failed"}

\* Questions belong to one thread, from their claim to their request.
OwnsQuestion ==
    /\ ClaimedOnce
    /\ \A t \in Threads : Searching(t) => ~requested[at[t]]
    /\ \A i \in Questions : i >= nextIndex => ~requested[i] /\ ~searching[i]

\* The resolver resolved exactly the questions before its cursor, and past
\* waitForRequested it stands at a requested one.
ResolvedPrefix ==
    /\ \A i \in Questions : i < cursor => requested[i] /\ resolved[i]
    /\ \A i \in Questions : i > cursor => ~resolved[i]
    /\ cursor \in Questions =>
          (resolved[cursor] <=> rpc \in {"reporting", "threw"})
    /\ rpc \notin {"top", "ended", "pausedA", "awaitRequest"} => requested[cursor]
    /\ rpc = "ended" /\ ~isClose => cursor = N + 1

\* Work that slipped past a stop has left no second step that could slip.
SlipsSpent ==
    /\ slips \in {0, 1}
    /\ slips = 1 => (isStop \/ isClose) /\ wpc # "apply"
    /\ \A t \in Threads :
          /\ searchSlips[t] \in {0, 1}
          /\ searchSlips[t] = 1 => isStop /\ pc[t] \in
                {"searching", "answered", "failed", "reporting", "claim", "paused1", "ended", "threw"}

\* Before the threads start nothing happened; after done they have ended.
RunPhases ==
    /\ run \in {"init", "aborted"} =>
          /\ rpc = "top"
          /\ \A t \in Threads : pc[t] = "claim"
          /\ \A i \in Questions : ~searching[i] /\ ~requested[i] /\ ~resolved[i]
    /\ run = "done" => rpc = "ended" /\ \A t \in Threads : pc[t] = "ended"
    /\ NothingThrew => run # "rejected"
    /\ ~CallbacksThrow => NothingThrew

IInv == TypeInv /\ OwnsQuestion /\ ResolvedPrefix /\ SlipsSpent /\ RunPhases

LEMMA IInvInit == Init => IInv
<1> SUFFICES ASSUME Init PROVE IInv
  OBVIOUS
<1>1. OwnsQuestion
  BY DEF Init, OwnsQuestion, ClaimedOnce, Busy, Searching
<1>2. ResolvedPrefix
  BY WorkerAssumption DEF Init, ResolvedPrefix, Questions
<1>3. SlipsSpent
  BY DEF Init, SlipsSpent
<1>4. RunPhases
  BY DEF Init, RunPhases, NothingThrew
<1>. QED
  BY <1>1, <1>2, <1>3, <1>4, TypeInit DEF IInv

\* The thread actions that change nothing but the thread's own label and
\* what it alone keeps.
QuietThreadStep(t) ==
    \/ EndThread(t) \/ WakeThread(t) \/ BeginAuthorization(t) \/ EndAuthorization(t)
    \/ PauseAuthorized(t) \/ BeginAnnounce(t) \/ EndAnnounce(t) \/ BeginSearch(t)
    \/ AnswerArrives(t) \/ SearchFails(t) \/ SearchTimesOut(t) \/ AbortThread(t) \/ EndReport(t)

\* Such a step moves one label, never from outside the search into it.
LEMMA QuietThread ==
  ASSUME TypeInv, NEW t \in Threads, QuietThreadStep(t)
  PROVE  /\ UNCHANGED <<nextIndex, at, searching, requested, resolved, infos, rpc, cursor>>
         /\ UNCHANGED <<isStop, isClose, isRunning, run, wpc, left>>
         /\ \A u \in Threads \ {t} : pc'[u] = pc[u]
         /\ Busy(t)' => Busy(t)
         /\ Searching(t)' => Searching(t)
         /\ pc[t] = "claim" => pc'[t] = "ended" /\ run \in {"running", "done", "rejected"}
         /\ pc[t] \notin {"ended", "threw"}
         /\ pc'[t] = "threw" => CallbacksThrow
  <1> USE DEF TypeInv, TypeOK, flags, threads, results, resolver, work, history, Goto, ThreadMoves,
              ThreadOnly, Busy, Searching, ThreadAwaits
  <1>1. CASE EndThread(t) \/ WakeThread(t) \/ BeginAuthorization(t) \/ EndAuthorization(t)
             \/ PauseAuthorized(t) \/ BeginAnnounce(t) \/ EndAnnounce(t)
    BY <1>1 DEF EndThread, WakeThread, BeginAuthorization, EndAuthorization, PauseAuthorized,
                BeginAnnounce, EndAnnounce, Started
  <1>2. CASE BeginSearch(t) \/ AnswerArrives(t) \/ SearchFails(t) \/ SearchTimesOut(t)
             \/ AbortThread(t) \/ EndReport(t)
    BY <1>2 DEF BeginSearch, AnswerArrives, SearchFails, SearchTimesOut, AbortThread, EndReport
  <1>. QED
    BY <1>1, <1>2 DEF QuietThreadStep

LEMMA OwnsThread ==
  ASSUME TypeInv, OwnsQuestion, NEW t \in Threads, ThreadStep(t) PROVE OwnsQuestion'
  <1> USE DEF TypeInv, TypeOK, InBounds, OwnsQuestion, ClaimedOnce, Busy, Searching
  <1>1. CASE ClaimQuestion(t)
    BY <1>1, WorkerAssumption DEF ClaimQuestion, Goto, Questions
  <1>2. CASE MarkSearching(t)
    BY <1>2, WorkerAssumption DEF MarkSearching, Goto, Questions
  <1>3. CASE CompleteRequest(t)
    <2>1. at[t] \in Questions /\ at[t] < nextIndex
      BY <1>3 DEF CompleteRequest
    <2>2. /\ UNCHANGED <<nextIndex, at>>
          /\ \A u \in Threads \ {t} : pc'[u] = pc[u]
          /\ ~Searching(t)'
          /\ \A i \in Questions \ {at[t]} : requested'[i] = requested[i] /\ searching'[i] = searching[i]
      BY <1>3 DEF CompleteRequest, Goto
    <2>3. \A u \in Threads \ {t} : Searching(u) => at[u] # at[t]
      BY <1>3 DEF CompleteRequest
    <2>4. ClaimedOnce'
      BY <1>3, <2>2 DEF CompleteRequest
    <2>5. \A u \in Threads : Searching(u)' => ~requested'[at'[u]]
      BY <2>2, <2>3
    <2>6. \A i \in Questions : i >= nextIndex' => ~requested'[i] /\ ~searching'[i]
      BY <2>1, <2>2, WorkerAssumption DEF Questions
    <2>. QED
      BY <2>4, <2>5, <2>6
  <1>4. CASE QuietThreadStep(t)
    BY <1>4, QuietThread
  <1>. QED
    BY <1>1, <1>2, <1>3, <1>4 DEF ThreadStep, QuietThreadStep

LEMMA OwnsStep == TypeInv /\ OwnsQuestion /\ [Next]_vars => OwnsQuestion'
<1> SUFFICES ASSUME TypeInv, OwnsQuestion, [Next]_vars PROVE OwnsQuestion'
  OBVIOUS
<1> USE DEF OwnsQuestion, ClaimedOnce, Busy, Searching, flags, threads, results, resolver, work, history
<1>1. CASE Stop \/ Continuate \/ Close \/ RunStep
  BY <1>1 DEF Stop, Continuate, Close, RunStep, StartThreads, AbortInit, Finish, Reject
<1>2. CASE \E i \in Questions : LateAnswer(i)
  BY <1>2 DEF LateAnswer
<1>3. CASE ResolverStep
  BY <1>3 DEF ResolverStep, ResolverMoves, ResolverHead, WakeResolver, SeeRequest, PauseResolver,
              EndResolver, Dispatch, BeginWork, EndWork, WriteResult, EndResolverReport
<1>4. CASE WorkStep
  BY <1>4 DEF WorkStep, PassGate, RefuseGate, ApplyOption, EndApply
<1>5. CASE UNCHANGED vars
  BY <1>5 DEF vars
<1>. QED
  BY <1>1, <1>2, <1>3, <1>4, <1>5, OwnsThread DEF Next

LEMMA PrefixResolver ==
  ASSUME TypeInv, ResolvedPrefix, ResolverStep PROVE ResolvedPrefix'
  <1> USE WorkerAssumption
      DEF TypeInv, TypeOK, InBounds, ResolvedPrefix, Questions, flags, threads, results, resolver,
          work, history, ResolverMoves
  <1>1. CASE ResolverHead
    BY <1>1 DEF ResolverHead
  <1>2. CASE WakeResolver
    BY <1>2 DEF WakeResolver
  <1>3. CASE SeeRequest \/ PauseResolver \/ EndResolver
    BY <1>3 DEF SeeRequest, PauseResolver, EndResolver
  <1>4. CASE Dispatch
    BY <1>4 DEF Dispatch
  <1>5. CASE BeginWork \/ EndWork
    BY <1>5 DEF BeginWork, EndWork
  <1>6. CASE WriteResult
    BY <1>6 DEF WriteResult
  <1>7. CASE EndResolverReport
    BY <1>7 DEF EndResolverReport
  <1>. QED
    BY <1>1, <1>2, <1>3, <1>4, <1>5, <1>6, <1>7 DEF ResolverStep

LEMMA PrefixStep == TypeInv /\ ResolvedPrefix /\ [Next]_vars => ResolvedPrefix'
<1> SUFFICES ASSUME TypeInv, ResolvedPrefix, [Next]_vars PROVE ResolvedPrefix'
  OBVIOUS
<1> USE DEF ResolvedPrefix, flags, threads, results, resolver, work, history
<1>1. CASE Stop \/ Continuate \/ Close \/ RunStep
  BY <1>1 DEF Stop, Continuate, Close, RunStep, StartThreads, AbortInit, Finish, Reject
<1>2. ASSUME NEW t \in Threads, ThreadStep(t) PROVE ResolvedPrefix'
  <2>1. CASE ClaimQuestion(t) \/ MarkSearching(t)
    BY <2>1 DEF ClaimQuestion, MarkSearching
  <2>2. CASE CompleteRequest(t)
    <3>1. \A i \in Questions : requested[i] => requested'[i]
      BY <2>2 DEF CompleteRequest, TypeInv, TypeOK
    <3>2. UNCHANGED <<resolved, rpc, cursor, isClose>>
      BY <2>2 DEF CompleteRequest
    <3>3. rpc \notin {"top", "ended"} => cursor \in Questions
      BY DEF TypeInv, InBounds
    <3>. QED
      BY <3>1, <3>2, <3>3
  <2>3. CASE QuietThreadStep(t)
    BY <2>3, QuietThread
  <2>. QED
    BY <1>2, <2>1, <2>2, <2>3 DEF ThreadStep, QuietThreadStep
<1>3. CASE \E i \in Questions : LateAnswer(i)
  BY <1>3 DEF LateAnswer
<1>4. CASE WorkStep
  BY <1>4 DEF WorkStep, PassGate, RefuseGate, ApplyOption, EndApply
<1>5. CASE UNCHANGED vars
  BY <1>5 DEF vars
<1>. QED
  BY <1>1, <1>2, <1>3, <1>4, <1>5, PrefixResolver DEF Next

LEMMA SlipsThread ==
  ASSUME TypeInv, SlipsSpent, NEW t \in Threads, ThreadStep(t) PROVE SlipsSpent'
  <1> USE DEF TypeInv, TypeOK, SlipsSpent, flags, threads, results, resolver, work, history, Goto,
              ThreadMoves, ThreadOnly
  <1>1. CASE ClaimQuestion(t) \/ EndThread(t) \/ WakeThread(t)
    BY <1>1 DEF ClaimQuestion, EndThread, WakeThread
  <1>2. CASE BeginAuthorization(t) \/ EndAuthorization(t) \/ PauseAuthorized(t)
             \/ MarkSearching(t) \/ BeginAnnounce(t) \/ EndAnnounce(t)
    BY <1>2 DEF BeginAuthorization, EndAuthorization, PauseAuthorized, MarkSearching,
                BeginAnnounce, EndAnnounce
  <1>3. CASE BeginSearch(t)
    BY <1>3 DEF BeginSearch
  <1>4. CASE AnswerArrives(t) \/ SearchFails(t) \/ SearchTimesOut(t)
    BY <1>4 DEF AnswerArrives, SearchFails, SearchTimesOut
  <1>5. CASE AbortThread(t)
    BY <1>5 DEF AbortThread, ThreadAwaits
  <1>6. CASE CompleteRequest(t) \/ EndReport(t)
    BY <1>6 DEF CompleteRequest, EndReport
  <1>. QED
    BY <1>1, <1>2, <1>3, <1>4, <1>5, <1>6 DEF ThreadStep

LEMMA SlipsStep == TypeInv /\ SlipsSpent /\ [Next]_vars => SlipsSpent'
<1> SUFFICES ASSUME TypeInv, SlipsSpent, [Next]_vars PROVE SlipsSpent'
  OBVIOUS
<1> USE DEF SlipsSpent, TypeInv, TypeOK, flags, threads, results, resolver, work, history
<1>1. CASE Stop \/ Close
  BY <1>1 DEF Stop, Close
<1>2. CASE Continuate
  BY <1>2 DEF Continuate
<1>3. CASE RunStep
  BY <1>3 DEF RunStep, StartThreads, AbortInit, Finish, Reject
<1>4. CASE \E i \in Questions : LateAnswer(i)
  BY <1>4 DEF LateAnswer
<1>5. CASE ResolverStep
  BY <1>5 DEF ResolverStep, ResolverMoves, ResolverHead, WakeResolver, SeeRequest, PauseResolver,
              EndResolver, Dispatch, BeginWork, EndWork, WriteResult, EndResolverReport
<1>6. CASE WorkStep
  BY <1>6 DEF WorkStep, PassGate, RefuseGate, ApplyOption, EndApply
<1>7. CASE UNCHANGED vars
  BY <1>7 DEF vars
<1>. QED
  BY <1>1, <1>2, <1>3, <1>4, <1>5, <1>6, <1>7, SlipsThread DEF Next

LEMMA PhasesStep == TypeInv /\ RunPhases /\ [Next]_vars => RunPhases'
<1> SUFFICES ASSUME TypeInv, RunPhases, [Next]_vars PROVE RunPhases'
  OBVIOUS
<1> USE DEF RunPhases, NothingThrew, flags, threads, results, resolver, work, history
<1>1. CASE Stop \/ Continuate \/ Close
  BY <1>1 DEF Stop, Continuate, Close
<1>2. CASE RunStep
  BY <1>2 DEF RunStep, StartThreads, AbortInit, Finish, Reject
<1>3. ASSUME NEW t \in Threads, ThreadStep(t) PROVE RunPhases'
  <2>1. CASE ClaimQuestion(t)
    BY <2>1 DEF ClaimQuestion, Goto, Started, TypeInv, TypeOK
  <2>2. CASE MarkSearching(t) \/ CompleteRequest(t)
    BY <2>2 DEF MarkSearching, CompleteRequest, Goto, TypeInv, TypeOK
  <2>3. CASE QuietThreadStep(t)
    BY <2>3, QuietThread
  <2>. QED
    BY <1>3, <2>1, <2>2, <2>3 DEF ThreadStep, QuietThreadStep
<1>4. CASE \E i \in Questions : LateAnswer(i)
  BY <1>4 DEF LateAnswer
<1>5. CASE ResolverStep
  BY <1>5 DEF ResolverStep, ResolverMoves, ResolverHead, WakeResolver, SeeRequest, PauseResolver,
              EndResolver, Dispatch, BeginWork, EndWork, WriteResult, EndResolverReport, Started
<1>6. CASE WorkStep
  BY <1>6 DEF WorkStep, PassGate, RefuseGate, ApplyOption, EndApply
<1>7. CASE UNCHANGED vars
  BY <1>7 DEF vars
<1>. QED
  BY <1>1, <1>2, <1>3, <1>4, <1>5, <1>6, <1>7 DEF Next

THEOREM WorkerInvariant == Spec => []IInv
<1>1. IInv /\ [Next]_vars => IInv'
  BY TypeStep, OwnsStep, PrefixStep, SlipsStep, PhasesStep DEF IInv
<1>. QED
  BY <1>1, IInvInit, PTL DEF Spec

-----------------------------------------------------------------------------
(* What the invariant gives.                                               *)

\* Answers are applied in page order and only after their own request
\* completed (resolverThread over waitForRequested).
THEOREM WorkerInOrder == Spec => []InOrder
<1>1. IInv => InOrder
  BY WorkerAssumption DEF IInv, TypeInv, TypeOK, ResolvedPrefix, InOrder, Questions
<1>. QED
  BY <1>1, WorkerInvariant, PTL

\* No two request threads ever hold the same question (requestThreadHandler).
THEOREM WorkerClaimedOnce == Spec => []ClaimedOnce
<1>1. IInv => ClaimedOnce
  BY DEF IInv, OwnsQuestion
<1>. QED
  BY <1>1, WorkerInvariant, PTL

\* After a stop or a close at most one more option is selected, and each
\* request thread starts at most one more search.
THEOREM WorkerHaltBounded == Spec => [](ApplicationsBounded /\ SearchesBounded)
<1>1. IInv => ApplicationsBounded /\ SearchesBounded
  BY DEF IInv, SlipsSpent, ApplicationsBounded, SearchesBounded
<1>. QED
  BY <1>1, WorkerInvariant, PTL

\* done, when nobody closed the worker, means every question was resolved.
THEOREM WorkerDoneIsComplete == Spec => []DoneIsComplete
<1>1. IInv => DoneIsComplete
  BY WorkerAssumption
  DEF IInv, TypeInv, TypeOK, ResolvedPrefix, RunPhases, DoneIsComplete, Questions
<1>. QED
  BY <1>1, WorkerInvariant, PTL

\* A closed worker publishes nothing more (the isClose checks of the threads).
THEOREM WorkerNoPublishAfterClose == Spec => NoPublishAfterClose
<1>1. [Next]_vars => [isClose => UNCHANGED <<searching, requested, resolved>>]_vars
  <2> SUFFICES ASSUME Next, isClose PROVE UNCHANGED <<searching, requested, resolved>>
    BY DEF vars
  <2> USE DEF results
  <2>1. CASE Stop \/ Continuate \/ Close \/ RunStep
    BY <2>1 DEF Stop, Continuate, Close, RunStep, StartThreads, AbortInit, Finish, Reject
  <2>2. ASSUME NEW t \in Threads, ThreadStep(t) PROVE UNCHANGED <<searching, requested, resolved>>
    BY <2>2 DEF ThreadStep, ThreadOnly, ThreadMoves, ClaimQuestion, EndThread, WakeThread,
                BeginAuthorization, EndAuthorization, PauseAuthorized, MarkSearching,
                BeginAnnounce, EndAnnounce, BeginSearch, AnswerArrives, SearchFails,
                SearchTimesOut, AbortThread, CompleteRequest, EndReport
  <2>3. CASE \E i \in Questions : LateAnswer(i)
    BY <2>3 DEF LateAnswer
  <2>4. CASE ResolverStep
    BY <2>4 DEF ResolverStep, ResolverMoves, ResolverHead, WakeResolver, SeeRequest, PauseResolver,
                EndResolver, Dispatch, BeginWork, EndWork, WriteResult, EndResolverReport
  <2>5. CASE WorkStep
    BY <2>5 DEF WorkStep, PassGate, RefuseGate, ApplyOption, EndApply
  <2>. QED
    BY <2>1, <2>2, <2>3, <2>4, <2>5 DEF Next
<1>. QED
  BY <1>1, PTL DEF Spec, NoPublishAfterClose

\* A completed request keeps its answers: a late answer never replaces them.
THEOREM WorkerLateAnswerIgnored == Spec => LateAnswerIgnored
<1> DEFINE Kept == \A i \in Questions : requested[i] => infos'[i] = infos[i]
<1>1. IInv /\ [Next]_vars => [Kept]_vars
  <2> SUFFICES ASSUME IInv, Next PROVE Kept
    BY DEF vars
  <2> USE DEF results
  <2>1. CASE Stop \/ Continuate \/ Close \/ RunStep
    BY <2>1 DEF Stop, Continuate, Close, RunStep, StartThreads, AbortInit, Finish, Reject
  <2>2. ASSUME NEW t \in Threads, ThreadStep(t) PROVE Kept
    <3>1. CASE ClaimQuestion(t)
      BY <3>1, WorkerAssumption DEF ClaimQuestion, IInv, TypeInv, TypeOK, OwnsQuestion, Questions
    <3>2. CASE MarkSearching(t)
      BY <3>2 DEF MarkSearching
    <3>3. CASE CompleteRequest(t)
      BY <3>3 DEF CompleteRequest, IInv, TypeInv, TypeOK, OwnsQuestion, Searching
    <3>4. CASE QuietThreadStep(t)
      BY <3>4, QuietThread DEF IInv
    <3>. QED
      BY <2>2, <3>1, <3>2, <3>3, <3>4 DEF ThreadStep, QuietThreadStep
  <2>3. CASE \E i \in Questions : LateAnswer(i)
    BY <2>3 DEF LateAnswer
  <2>4. CASE ResolverStep
    BY <2>4 DEF ResolverStep, ResolverMoves, ResolverHead, WakeResolver, SeeRequest, PauseResolver,
                EndResolver, Dispatch, BeginWork, EndWork, WriteResult, EndResolverReport
  <2>5. CASE WorkStep
    BY <2>5 DEF WorkStep, PassGate, RefuseGate, ApplyOption, EndApply
  <2>. QED
    BY <2>1, <2>2, <2>3, <2>4, <2>5 DEF Next
<1>. QED
  BY <1>1, WorkerInvariant, PTL DEF Spec, LateAnswerIgnored

-----------------------------------------------------------------------------
(* Until onResultsUpdate throws the worker implements the abstract pipeline *)
(* and, when it never throws, the round's end is really its end.           *)

\* While a thread is busy or the resolver is past its head the round is on.
LEMMA StillRunning ==
  ASSUME IInv, NothingThrew
  PROVE  /\ \A t \in Threads : Busy(t) => run = "running"
         /\ rpc \notin {"top", "ended"} => run = "running"
         /\ run # "rejected"
  BY DEF IInv, TypeInv, TypeOK, RunPhases, RunLabels, Busy

\* Threads that are all idle or ended change no result.
THEOREM WorkerSettledIsFinal ==
  ASSUME ~CallbacksThrow PROVE Spec => SettledIsFinal
<1>1. IInv /\ [Next]_vars => [Settled => UNCHANGED results]_vars
  <2> SUFFICES ASSUME IInv, Next, Settled PROVE UNCHANGED results
    BY DEF vars
  <2>. NothingThrew
    BY DEF IInv, RunPhases
  <2>a. run # "running"
    BY DEF Settled
  <2>1. CASE Stop \/ Continuate \/ Close \/ RunStep
    BY <2>1 DEF Stop, Continuate, Close, RunStep, StartThreads, AbortInit, Finish, Reject
  <2>2. ASSUME NEW t \in Threads, ThreadStep(t) PROVE UNCHANGED results
    <3>1. CASE ClaimQuestion(t)
      BY <3>1, <2>a DEF ClaimQuestion, IInv, RunPhases, Started
    <3>2. CASE MarkSearching(t) \/ CompleteRequest(t)
      BY <3>2, <2>a, StillRunning DEF MarkSearching, CompleteRequest, Busy
    <3>3. CASE QuietThreadStep(t)
      BY <3>3, QuietThread DEF IInv, results
    <3>. QED
      BY <2>2, <3>1, <3>2, <3>3 DEF ThreadStep, QuietThreadStep
  <2>3. CASE \E i \in Questions : LateAnswer(i)
    BY <2>3 DEF LateAnswer
  <2>4. CASE ResolverStep
    BY <2>4, <2>a, StillRunning
    DEF ResolverStep, ResolverMoves, ResolverHead, WakeResolver, SeeRequest, PauseResolver,
        EndResolver, Dispatch, BeginWork, EndWork, WriteResult, EndResolverReport
  <2>5. CASE WorkStep
    BY <2>5 DEF WorkStep, PassGate, RefuseGate, ApplyOption, EndApply
  <2>. QED
    BY <2>1, <2>2, <2>3, <2>4, <2>5 DEF Next
<1>. QED
  BY <1>1, WorkerInvariant, PTL DEF Spec, SettledIsFinal

\* The refinement mapping.
StageOf == [i \in Questions |-> Stage(i)]

\* A step that leaves the flags of every question alone and keeps the round
\* on or off is a stutter of the pipeline.
LEMMA StutterStep ==
  ASSUME UNCHANGED <<searching, requested, resolved, isClose>>, Settled' = Settled
  PROVE  UNCHANGED Pipeline!vars
  BY DEF Pipeline!vars, Stage, Settled

\* A question the resolver reached has been requested.
LEMMA UnrequestedUnresolved ==
  ASSUME IInv, NEW i \in Questions, ~requested[i] PROVE ~resolved[i]
  BY WorkerAssumption DEF IInv, TypeInv, TypeOK, ResolvedPrefix, Questions

LEMMA RefineThread ==
  ASSUME IInv, NothingThrew, NEW t \in Threads, ThreadStep(t)
  PROVE  [Pipeline!Next]_(Pipeline!vars)
  <1> USE DEF IInv, TypeInv, TypeOK, InBounds, OwnsQuestion, ClaimedOnce, Busy, Searching
  <1>1. CASE ClaimQuestion(t)
    BY <1>1, StutterStep DEF ClaimQuestion, flags, Settled
  <1>2. CASE MarkSearching(t)
    <2>1. at[t] \in Questions /\ run = "running" /\ ~isClose
      BY <1>2, StillRunning DEF MarkSearching
    <2>2. ~requested[at[t]] /\ ~resolved[at[t]]
      BY <1>2, <2>1, UnrequestedUnresolved DEF MarkSearching
    <2>3. CASE searching[at[t]]
      <3>1. UNCHANGED <<searching, requested, resolved, isClose, run>>
        BY <1>2, <2>1, <2>3 DEF MarkSearching, flags
      <3>. QED
        BY <3>1, StutterStep DEF Settled
    <2>4. CASE ~searching[at[t]]
      <3>1. Stage(at[t]) = "waiting"
        BY <2>2, <2>4 DEF Stage
      <3>2. StageOf' = [StageOf EXCEPT ![at[t]] = "searching"]
        BY <1>2, <2>1, <2>2 DEF MarkSearching, StageOf, Stage
      <3>. QED
        BY <1>2, <2>1, <3>1, <3>2
        DEF MarkSearching, flags, Pipeline!Next, Pipeline!Search, Pipeline!Open,
            Pipeline!Questions, Questions, StageOf, Settled
    <2>. QED
      BY <2>3, <2>4
  <1>3. CASE CompleteRequest(t)
    <2>1. at[t] \in Questions /\ run = "running"
      BY <1>3, StillRunning DEF CompleteRequest
    <2>2. CASE isClose
      BY <1>3, <2>2, StutterStep DEF CompleteRequest, flags, Settled
    <2>3. CASE ~isClose
      <3>1. Stage(at[t]) \in {"waiting", "searching"} /\ ~resolved[at[t]]
        BY <1>3, <2>1, UnrequestedUnresolved DEF CompleteRequest, Stage
      <3>2. StageOf' = [StageOf EXCEPT ![at[t]] = "requested"]
        BY <1>3, <2>1, <2>3, <3>1 DEF CompleteRequest, StageOf, Stage
      <3>. QED
        BY <1>3, <2>1, <2>3, <3>1, <3>2
        DEF CompleteRequest, flags, Pipeline!Next, Pipeline!CompleteRequest, Pipeline!Open,
            Pipeline!Questions, Questions, StageOf, Settled
    <2>. QED
      BY <2>2, <2>3
  <1>4. CASE QuietThreadStep(t)
    <2>1. UNCHANGED <<searching, requested, resolved, isClose, run>>
      BY <1>4, QuietThread
    <2>. QED
      BY <2>1, StutterStep DEF Settled
  <1>. QED
    BY <1>1, <1>2, <1>3, <1>4 DEF ThreadStep, QuietThreadStep

LEMMA RefineResolver ==
  ASSUME IInv, NothingThrew, ResolverStep
  PROVE  [Pipeline!Next]_(Pipeline!vars)
  <1>1. CASE WriteResult
    <2>1. cursor \in Questions /\ run = "running" /\ ~isClose
      BY <1>1, StillRunning DEF WriteResult, IInv, TypeInv, InBounds
    <2>2. Stage(cursor) = "requested" /\ \A j \in 1..(cursor - 1) : Stage(j) = "resolved"
      BY <1>1, <2>1, WorkerAssumption DEF WriteResult, IInv, ResolvedPrefix, Stage, Questions
    <2>3. StageOf' = [StageOf EXCEPT ![cursor] = "resolved"]
      BY <1>1, <2>1 DEF WriteResult, IInv, TypeInv, TypeOK, StageOf, Stage
    <2>4. \A j \in 1..(cursor - 1) : j \in Questions
      BY <2>1, WorkerAssumption DEF Questions
    <2>. QED
      BY <1>1, <2>1, <2>2, <2>3, <2>4
      DEF WriteResult, flags, Pipeline!Next, Pipeline!Resolve, Pipeline!Open, Pipeline!Questions,
          Questions, StageOf, Settled
  <1>2. CASE ~WriteResult
    <2>1. UNCHANGED <<searching, requested, resolved, isClose, run>>
      BY <1>2 DEF ResolverStep, ResolverMoves, ResolverHead, WakeResolver, SeeRequest, PauseResolver,
                  EndResolver, Dispatch, BeginWork, EndWork, EndResolverReport, flags, results
    <2>. QED
      BY <2>1, StutterStep DEF Settled
  <1>. QED
    BY <1>1, <1>2

LEMMA RefineRun ==
  ASSUME IInv, NothingThrew, RunStep
  PROVE  [Pipeline!Next]_(Pipeline!vars)
  <1>1. CASE StartThreads
    BY <1>1, StutterStep DEF StartThreads, flags, results, Settled
  <1>2. CASE AbortInit \/ Finish
    <2>1. UNCHANGED <<searching, requested, resolved, isClose>> /\ ~Settled /\ Settled'
      BY <1>2 DEF AbortInit, Finish, results, Settled
    <2>2. StageOf' = StageOf
      BY <2>1 DEF StageOf, Stage
    <2>3. \/ isClose
          \/ \A i \in Questions : Stage(i) = "waiting"
          \/ \A i \in Questions : Stage(i) = "resolved"
      BY <1>2, WorkerAssumption
      DEF AbortInit, Finish, IInv, TypeInv, TypeOK, RunPhases, ResolvedPrefix, Stage, Questions
    <2>. QED
      BY <2>1, <2>2, <2>3
      DEF Pipeline!Next, Pipeline!Settle, Pipeline!Questions, Questions, StageOf
  <1>3. CASE Reject
    BY <1>3 DEF Reject, NothingThrew
  <1>. QED
    BY <1>1, <1>2, <1>3 DEF RunStep

\* As long as no callback threw, the worker's steps are steps of the abstract
\* pipeline: ordered, frozen by a close, and final once settled.
LEMMA RefineStep ==
  ASSUME IInv, NothingThrew, [Next]_vars
  PROVE  [Pipeline!Next]_(Pipeline!vars)
  <1>1. CASE Stop \/ Continuate
    BY <1>1, StutterStep DEF Stop, Continuate, results, Settled
  <1>2. CASE Close
    <2>1. UNCHANGED <<searching, requested, resolved, run>> /\ isClose'
      BY <1>2 DEF Close, results
    <2>2. StageOf' = StageOf
      BY <2>1 DEF StageOf, Stage
    <2>. QED
      BY <2>1, <2>2 DEF Pipeline!Next, Pipeline!Close, StageOf, Settled
  <1>3. CASE (\E i \in Questions : LateAnswer(i)) \/ WorkStep
    BY <1>3, StutterStep
    DEF LateAnswer, WorkStep, PassGate, RefuseGate, ApplyOption, EndApply, flags, results, Settled
  <1>4. CASE UNCHANGED vars
    BY <1>4, StutterStep DEF vars, flags, results, Settled
  <1>. QED
    BY <1>1, <1>2, <1>3, <1>4, RefineThread, RefineResolver, RefineRun DEF Next

LEMMA RefineInit == Init => Pipeline!Init
  BY DEF Init, Pipeline!Init, Pipeline!Questions, Questions, Stage, Settled

\* Whatever onResultsUpdate does, the worker keeps to the abstract pipeline
\* until it throws.
THEOREM WorkerImplementsPipeline == Spec => ImplementsPipeline
<1>1. IInv /\ [Next]_vars => [NothingThrew => Pipeline!Next]_(Pipeline!vars)
  BY RefineStep
<1>. QED
  BY <1>1, RefineInit, WorkerInvariant, PTL DEF Spec, ImplementsPipeline

\* With callbacks that never throw, it is an implementation for good.
THEOREM WorkerRefinesPipeline ==
  ASSUME ~CallbacksThrow PROVE Spec => Pipeline!Spec
<1>1. IInv /\ [Next]_vars => [Pipeline!Next]_(Pipeline!vars)
  <2> SUFFICES ASSUME IInv, [Next]_vars PROVE [Pipeline!Next]_(Pipeline!vars)
    OBVIOUS
  <2>. QED
    BY RefineStep DEF IInv, RunPhases
<1>. QED
  BY <1>1, RefineInit, WorkerInvariant, PTL DEF Spec, Pipeline!Spec
=============================================================================
