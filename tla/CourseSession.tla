--------------------------- MODULE CourseSession ---------------------------
(***************************************************************************)
(* The manual decision of a course (projects/cx-course-session.ts): the    *)
(* owner document of a tab asks the human before answers are filled in     *)
(* automatically, and shares, keeps and restores what the human decided.   *)
(*                                                                         *)
(* The state of the owner document is one record, changed by operators     *)
(* that follow the helpers of the code.  The page may come to show another *)
(* course at any time; the session notices when it is next called.         *)
(* Promise callbacks (Settle and Retry) run before anything else does      *)
(* (Calm), and so does the observer that saves a change of the decision.   *)
(*                                                                         *)
(* Callers are frames of the owner's origin: a task asks with the course   *)
(* and a decision key, a page outside the tasks with neither.              *)
(***************************************************************************)
EXTENDS Integers, FiniteSets

CONSTANTS
    Scopes,        \* courses, a course and a class each
    NoScope,       \* the page shows no course
    Keys,          \* decision keys
    NoKey,         \* a request that is not about a task
    Callers,
    MaxMoves       \* bound: times the page shows another course or is loaded again

ASSUME CourseSessionAssumption ==
    /\ NoScope \notin Scopes /\ NoKey \notin Keys
    /\ MaxMoves \in Nat

VARIABLES
    place,         \* what readScope() returns
    storage,       \* how sessionStorage behaves
    session,       \* the owner document's session, and what is stored
    caller,        \* caller -> its request, of a visit while it is unanswered
    consent,       \* history: scope -> what the human last agreed to there
    refused,       \* history: scopes where the human refused and did not resume
    moves

vars == <<place, storage, session, caller, consent, refused, moves>>

Places    == Scopes \cup {NoScope}
Questions == Keys \cup {NoKey}
Decisions == {"none", "pending", "accepted", "declined"}

Snapshot == [decision : Decisions, tasks : SUBSET Keys, paused : Questions]
Empty    == [decision |-> "none", tasks |-> {}, paused |-> NoKey]

\* A decision asked for and not settled yet; the outcome is that of the race
\* between the dialog and an override.
Ask == [gen : Nat, scope : Places, key : Questions, outcome : {"open", "accepted", "declined"}]

Session == [scope : Places, gen : Nat, decision : Decisions, tasks : SUBSET Keys, paused : Questions,
            asks : SUBSET Ask, visited : SUBSET Scopes, memory : [Scopes -> Snapshot],
            available : BOOLEAN, stored : [Scopes -> Snapshot], lost : BOOLEAN]

Request == [at : {"idle", "waiting", "queued", "yes", "no"}, scope : Places, key : Questions, gen : Nat]
Idle    == [at |-> "idle", scope |-> NoScope, key |-> NoKey, gen |-> 0]

TypeOK ==
    /\ place \in Places
    /\ storage \in {"ok", "full", "denied", "off"}
    /\ session \in Session
    /\ caller \in [Callers -> Request]
    /\ consent \in [Places -> SUBSET Questions]
    /\ refused \subseteq Scopes
    /\ moves \in 0..MaxMoves

-----------------------------------------------------------------------------
(* The session.                                                            *)

\* The document that has just been loaded; only what is stored is left.
Fresh(stored, lost) ==
    [scope |-> NoScope, gen |-> 0, decision |-> "none", tasks |-> {}, paused |-> NoKey,
     asks |-> {}, visited |-> {}, memory |-> [c \in Scopes |-> Empty],
     available |-> TRUE, stored |-> stored, lost |-> lost]

\* snapshot()
Shot(s) == [decision |-> s.decision, tasks |-> s.tasks, paused |-> s.paused]

\* save(): without disk writes ("off") only the memory is used; a storage that
\* throws is not used again by this document.
Saved(s) ==
    IF s.scope = NoScope THEN s
    ELSE [s EXCEPT
             !.visited = @ \cup {s.scope},
             !.memory[s.scope] = Shot(s),
             !.stored[s.scope] = IF storage = "ok" /\ s.available THEN Shot(s) ELSE @,
             !.available = @ /\ storage \in {"ok", "off"},
             !.lost = @ \/ storage = "full"]

\* What is known of a course the session comes to.
Kept(s, p) ==
    IF p \in s.visited THEN s.memory[p]
    ELSE IF s.available /\ storage \in {"ok", "full"} THEN s.stored[p]
    ELSE Empty

\* Mutant: only an acceptance is restored.
RestoredAcceptance(d) == IF d = "accepted" THEN d ELSE "none"

\* A question that was open when the course was left counts as declined.
Restored(d) == IF d = "pending" THEN "declined" ELSE d

Overridden(asks, outcome) ==
    {[a EXCEPT !.outcome = IF @ = "open" THEN outcome ELSE @] : a \in asks}

Entered(s, p) ==
    LET kept == IF p = NoScope THEN Empty ELSE Kept(s, p)
    IN  [s EXCEPT
            !.scope = p,
            !.gen = @ + 1,
            !.asks = Overridden(@, "declined"),
            !.decision = Restored(kept.decision),
            !.tasks = kept.tasks,
            !.paused = kept.paused,
            !.available = @ /\ (storage = "denied" => p = NoScope \/ p \in s.visited)]

\* synchronizeScope(); the observer of the attributes saves what it changes.
Synced(s, p) == IF s.scope = p THEN s ELSE Saved(Entered(Saved(s), p))

\* A document of its own: the first call comes before the observer exists.
Opened(s, p) == IF p = NoScope THEN s ELSE Entered(s, p)

\* decisionPromise: the question of the present scope generation.
Active(s) == {a \in s.asks : a.gen = s.gen}

Agreed(s, k) ==
    IF k # NoKey /\ s.scope # NoScope
    THEN [s EXCEPT !.tasks = @ \cup {k}, !.decision = "none", !.paused = NoKey]
    ELSE [s EXCEPT !.decision = "accepted", !.paused = NoKey]

Init ==
    /\ place \in Places
    /\ storage \in {"ok", "denied", "off"}
    /\ session = Opened(Fresh([c \in Scopes |-> Empty], FALSE), place)
    /\ caller = [c \in Callers |-> Idle]
    /\ consent = [p \in Places |-> {}]
    /\ refused = {}
    /\ moves = 0

Settled(a) == a.outcome # "open"

\* Mutant: only what is queued in the present visit is asked again.
OvertakenHere(c) ==
    caller[c].at = "queued" /\ caller[c].gen = session.gen /\ \A a \in session.asks : a.gen # caller[c].gen

Overtaken(c) == caller[c].at = "queued" /\ \A a \in session.asks : a.gen # caller[c].gen

\* No promise callback is due.
Calm == (\A a \in session.asks : ~Settled(a)) /\ (\A c \in Callers : ~Overtaken(c))

-----------------------------------------------------------------------------
(* The operations.                                                         *)

\* Mutant: a question for another task does not wait for the open one.
ReplyUnqueued(s, scope, key) ==
    IF scope \notin {NoScope, s.scope} THEN "no"
    ELSE IF key \in s.tasks THEN "yes"
    ELSE IF s.decision = "declined" THEN "no"
    ELSE IF key = NoKey /\ s.decision = "accepted" THEN "yes"
    ELSE IF \E a \in Active(s) : a.key = key THEN "waiting"
    ELSE "ask"

\* requestDecision of a synchronized session: what the request meets.
Reply(s, scope, key) ==
    IF scope \notin {NoScope, s.scope} THEN "no"
    ELSE IF key \in s.tasks THEN "yes"
    ELSE IF s.decision = "declined" THEN "no"
    ELSE IF key = NoKey /\ s.decision = "accepted" THEN "yes"
    ELSE IF Active(s) = {} THEN "ask"
    ELSE IF \E a \in Active(s) : a.key = key THEN "waiting"
    ELSE "queued"

Asking(s, key) ==
    Saved([s EXCEPT !.decision = "pending", !.paused = key,
              !.asks = @ \cup {[gen |-> s.gen, scope |-> s.scope, key |-> key, outcome |-> "open"]}])

Decide(c, scope, key) ==
    LET s == Synced(session, place)
        reply == Reply(s, scope, key)
    IN  /\ session' = IF reply = "ask" THEN Asking(s, key) ELSE s
        /\ caller' = [caller EXCEPT ![c] = [at |-> IF reply = "ask" THEN "waiting" ELSE reply,
                                            scope |-> scope, key |-> key,
                                            gen |-> IF reply \in {"yes", "no"} THEN 0 ELSE s.gen]]
        /\ UNCHANGED <<place, storage, consent, refused, moves>>

\* requestManualDecision: with the course and the task, or with neither.
Call(c, scope, key) ==
    /\ Calm
    /\ caller[c].at = "idle"
    /\ scope = NoScope <=> key = NoKey
    /\ Decide(c, scope, key)

\* The question that a request waited behind is settled; it asks again.
Retry(c) == Overtaken(c) /\ Decide(c, caller[c].scope, caller[c].key)

\* The caller goes on with the answer.
Return(c) ==
    /\ Calm
    /\ caller[c].at \in {"yes", "no"}
    /\ caller' = [caller EXCEPT ![c] = Idle]
    /\ UNCHANGED <<place, storage, session, consent, refused, moves>>

\* The dialog of an open question is answered, or its countdown accepts.
Click(a, accepted) ==
    /\ Calm
    /\ a \in session.asks
    /\ session' = [session EXCEPT !.asks = Overridden(@, IF accepted THEN "accepted" ELSE "declined")]
    /\ consent' = [consent EXCEPT ![a.scope] = IF accepted THEN @ \cup {a.key} ELSE @ \ {NoKey}]
    /\ refused' = IF accepted THEN refused \ {a.scope} ELSE refused \cup ({a.scope} \cap Scopes)
    /\ UNCHANGED <<place, storage, caller, moves>>

\* Mutant: the answer to any question counts.
AlwaysAsked(a, s) == TRUE

\* Whether a settled question still is one of this visit to this course.
StillAsked(a, s) == a.gen = s.gen /\ a.scope = s.scope

\* The callback of the race between the dialog and an override.
Settle(a) ==
    LET s == Synced(session, place)
        valid == StillAsked(a, s)
        accepted == valid /\ a.outcome = "accepted"
        after == IF accepted THEN Saved(Agreed(s, a.key))
                 ELSE IF valid THEN Saved([s EXCEPT !.decision = "declined"])
                 ELSE s
        Due(c) == caller[c].at = "waiting" /\ caller[c].gen = a.gen
    IN  /\ a \in session.asks /\ Settled(a)
        /\ session' = [after EXCEPT !.asks = {b \in @ : b.gen # a.gen}]
        /\ caller' = [c \in Callers |->
                        IF Due(c) THEN [caller[c] EXCEPT !.at = IF accepted THEN "yes" ELSE "no", !.gen = 0]
                        ELSE caller[c]]
        /\ UNCHANGED <<place, storage, consent, refused, moves>>

Resumed(s) ==
    [s EXCEPT !.decision = "accepted", !.paused = NoKey, !.asks = Overridden(@, "accepted"),
              !.tasks = @ \cup IF s.scope = NoScope THEN {} ELSE {s.paused} \ {NoKey}]

\* resumeDecision: the human goes on answering automatically.
Resume ==
    LET s == Synced(session, place)
    IN  /\ Calm
        /\ session' = Saved(Resumed(s))
        /\ consent' = [consent EXCEPT ![s.scope] = @ \cup {NoKey, s.paused}]
        /\ refused' = refused \ {s.scope}
        /\ UNCHANGED <<place, storage, caller, moves>>

\* persist(), canReload() and the observer, when other course state changes.
Persist ==
    /\ Calm
    /\ session' = Saved(Synced(session, place))
    /\ UNCHANGED <<place, storage, caller, consent, refused, moves>>

Move(p) ==
    /\ Calm /\ moves < MaxMoves /\ p # place
    /\ place' = p /\ moves' = moves + 1
    /\ UNCHANGED <<storage, session, caller, consent, refused>>

\* The storage of the origin has no room left: writing throws.
StorageFills ==
    /\ Calm /\ storage = "ok"
    /\ storage' = "full"
    /\ UNCHANGED <<place, session, caller, consent, refused, moves>>

\* A new document of the owner, with or without the pagehide of the old one.
\* Without storage it is a new course run, and nothing is known of any refusal.
Reload(p, hidden) ==
    LET s == IF hidden THEN Saved(Synced(session, place)) ELSE session
    IN  /\ Calm /\ moves < MaxMoves
        /\ place' = p /\ moves' = moves + 1
        /\ session' = Opened(Fresh(s.stored, s.lost), p)
        /\ caller' = [c \in Callers |-> Idle]
        /\ refused' = IF storage \in {"denied", "off"} THEN {} ELSE refused
        /\ UNCHANGED <<storage, consent>>

Next ==
    \/ \E c \in Callers :
        \/ \E scope \in Places, key \in Questions : Call(c, scope, key)
        \/ Retry(c) \/ Return(c)
    \/ \E a \in session.asks : Settle(a) \/ \E accepted \in BOOLEAN : Click(a, accepted)
    \/ Resume \/ Persist \/ StorageFills
    \/ \E p \in Places : Move(p) \/ \E hidden \in BOOLEAN : Reload(p, hidden)

Spec == Init /\ [][Next]_vars

\* Callbacks run, and every dialog is answered: its countdown accepts.
Fairness ==
    /\ WF_vars(\E a \in session.asks : Settle(a))
    /\ \A c \in Callers : WF_vars(Retry(c))
    /\ WF_vars(\E a \in session.asks, accepted \in BOOLEAN : Click(a, accepted))

FairSpec == Spec /\ Fairness

-----------------------------------------------------------------------------
(* Properties.                                                             *)

\* A request is only answered with yes where the human agreed to it.
Answers(c) == caller[c].at # "yes" /\ caller'[c].at = "yes"
Agrees(c) == caller'[c].key \in consent'[session'.scope]

\* No caller is told to go on unless the human agreed to its task, or to the
\* course when it has none, in the course that the session is in: whatever
\* moves, reloads, queued requests and late dialogs come between
\* (requestDecision and resumeDecision).  Writes that failed are exempt.
ConsentNeeded == [][\A c \in Callers : Answers(c) => session'.lost \/ Agrees(c)]_vars

\* A course the human refused is not asked about again, in this document or a
\* later one, until the human resumes (save, synchronizeScope).
DeclineSticks ==
    [][\A a \in session'.asks \ session.asks :
        a.outcome = "open" /\ a.scope \in refused => session'.lost]_vars

\* Each visit to a course has at most one question, and it is open only while
\* the session is in that visit (overrideDecision, decisionPromise).
OneQuestion ==
    \A a \in session.asks :
        /\ a.outcome = "open" => a.gen = session.gen /\ a.scope = session.scope
        /\ \A b \in session.asks : a.gen = b.gen => a = b

\* Every request is answered: also the ones queued behind a question, and the
\* ones whose course is left (requestDecision).
RequestsEnd ==
    \A c \in Callers : caller[c].at \in {"waiting", "queued"} ~> caller[c].at \in {"idle", "yes", "no"}
=============================================================================
