------------------------------ MODULE TabPause ------------------------------
(***************************************************************************)
(* The answer pause of a browser tab: the page controller of every frame   *)
(* (projects/tab-answer-pause.ts), its content script (extension-entry.js) *)
(* and the extension's service worker (extension-tab-pause.js), which      *)
(* keeps one state per tab, so one tab is modelled.                        *)
(*                                                                         *)
(* Messages of one sender to one receiver keep their order.  A request is  *)
(* put into the worker's queue when it is sent: the queue holds what is    *)
(* under way and what has arrived, and a restart of the worker loses the   *)
(* arrived part of it.  A respond that throws a second time, inside the     *)
(* .catch of the worker, is left out.                                      *)
(***************************************************************************)
EXTENDS Integers, Sequences, FiniteSets

CONSTANTS
    Frames,        \* documents of the tab that run the content script
    MaxSets,       \* bound: setPaused calls in the tab
    MaxLoads,      \* bound: documents loaded into the frames
    MaxRestarts,   \* bound: restarts of the service worker
    MaxFaults      \* bound: failed storage calls and messaging calls that throw

ASSUME TabPauseAssumption ==
    /\ MaxSets \in Nat /\ MaxLoads \in Nat \ {0} /\ MaxRestarts \in Nat /\ MaxFaults \in Nat

VARIABLES
    paused,        \* frame -> data-chaoxing-plus-tab-paused and the controller's value
    ready,         \* frame -> data-chaoxing-plus-tab-pause-ready
    pending,       \* frame -> number of pendingPauseRequests
    timers,        \* frame -> number of timers of hydrateTabPause that run
    injected,      \* frame -> the main script runs
    document,      \* frame -> number of its current document, 0 before the first
    cached,        \* the frames whose document is in the back-forward cache
    inbox,         \* frame -> messages from the worker under way
    tab,           \* "open", "closed", "cleaned", or else "kept": session.remove failed,
                   \* "forgotten": the worker stopped before the clean-up
    queue,         \* requests of the tab, in the order the worker handles them
    step,          \* where the worker is with the first request
    removed,       \* removed.has(tabId)
    known,         \* values.has(tabId)
    value,         \* values.get(tabId) === true
    durable,       \* durability.get(tabId) === true
    stored,        \* chrome.storage.session holds true (absent and false read alike)
    strayed,       \* history: since the last broadcast a restart hit a write, a read
                   \* failed or a handler ended in its .catch
    choice,        \* history: what was set last in the tab, "none" once the worker lost it
    sets, loads, restarts, faults   \* bounds

frameVars  == <<paused, ready, pending, timers, injected, document, cached>>
workerVars == <<step, removed, known, value, durable, stored>>
history    == <<strayed, choice>>
bounds     == <<sets, loads, restarts, faults>>
vars       == <<frameVars, inbox, tab, queue, workerVars, history, bounds>>

Request == [frame : Frames, document : 1..MaxLoads, operation : {"read", "write"}, paused : BOOLEAN]
Message == [kind : {"broadcast", "read", "write"}, answered : BOOLEAN,
            paused : BOOLEAN, durable : BOOLEAN]

TypeOK ==
    /\ paused \in [Frames -> BOOLEAN]
    /\ ready \in [Frames -> {"none", "extension", "memory", "unavailable"}]
    /\ pending \in [Frames -> 0..MaxSets]
    /\ timers \in [Frames -> 0..MaxSets + 1]
    /\ injected \in [Frames -> BOOLEAN]
    /\ document \in [Frames -> 0..MaxLoads]
    /\ cached \subseteq Frames
    /\ inbox \in [Frames -> Seq(Message)]
    /\ tab \in {"open", "closed", "cleaned", "kept", "forgotten"}
    /\ queue \in Seq(Request)
    /\ step \in {"queued", "reading", "writing"}
    /\ removed \in BOOLEAN /\ known \in BOOLEAN /\ value \in BOOLEAN
    /\ durable \in BOOLEAN /\ stored \in BOOLEAN
    /\ strayed \in BOOLEAN /\ choice \in {"none", "paused", "running"}
    /\ sets \in 0..MaxSets /\ loads \in 0..MaxLoads /\ restarts \in 0..MaxRestarts /\ faults \in 0..MaxFaults

Init ==
    /\ paused = [f \in Frames |-> FALSE]
    /\ ready = [f \in Frames |-> "none"]
    /\ pending = [f \in Frames |-> 0]
    /\ timers = [f \in Frames |-> 0]
    /\ injected = [f \in Frames |-> FALSE]
    /\ document = [f \in Frames |-> 0] /\ cached = {}
    /\ inbox = [f \in Frames |-> <<>>]
    /\ tab = "open" /\ queue = <<>> /\ step = "queued"
    /\ removed = FALSE /\ known = FALSE /\ value = FALSE /\ durable = FALSE /\ stored = FALSE
    /\ strayed = FALSE /\ choice = "none" /\ sets = 0 /\ loads = 0 /\ restarts = 0 /\ faults = 0

-----------------------------------------------------------------------------
(* The frames.                                                             *)

ReadRequest(f, d) == [frame |-> f, document |-> d, operation |-> "read", paused |-> FALSE]
WriteRequest(f, p) == [frame |-> f, document |-> document[f], operation |-> "write", paused |-> p]

\* A document starts in the frame and its content script asks for the state.
Load(f) ==
    /\ tab = "open"
    /\ loads < MaxLoads /\ loads' = loads + 1
    /\ document' = [document EXCEPT ![f] = @ + 1]
    /\ cached' = cached \ {f}
    /\ paused' = [paused EXCEPT ![f] = FALSE]
    /\ ready' = [ready EXCEPT ![f] = "none"]
    /\ pending' = [pending EXCEPT ![f] = 0]
    /\ timers' = [timers EXCEPT ![f] = 1]
    /\ injected' = [injected EXCEPT ![f] = FALSE]
    /\ inbox' = [inbox EXCEPT ![f] = <<>>]
    /\ queue' = Append(queue, ReadRequest(f, document[f] + 1))
    /\ UNCHANGED <<tab, workerVars, history, sets, restarts, faults>>

\* The document goes into the back-forward cache, at any moment: it stands still,
\* and answers to it wait.
Freeze(f) ==
    /\ tab = "open" /\ document[f] # 0 /\ f \notin cached
    /\ sets < MaxSets
    /\ cached' = cached \cup {f}
    /\ UNCHANGED <<paused, ready, pending, timers, injected, document, inbox, tab, queue,
                   workerVars, history, bounds>>

\* No broadcast reaches a document in the cache.
Miss(f) ==
    /\ f \in cached /\ inbox[f] # <<>> /\ Head(inbox[f]).kind = "broadcast"
    /\ inbox' = [inbox EXCEPT ![f] = Tail(@)]
    /\ UNCHANGED <<frameVars, tab, queue, workerVars, history, bounds>>

\* pageshow.persisted: the page shows itself paused and asks again, whatever it
\* still waits for.
Restore(f) ==
    /\ tab = "open" /\ f \in cached
    /\ sets < MaxSets /\ sets' = sets + 1
    /\ cached' = cached \ {f}
    /\ paused' = [paused EXCEPT ![f] = TRUE]
    /\ timers' = [timers EXCEPT ![f] = @ + 1]
    /\ queue' = Append(queue, ReadRequest(f, document[f]))
    /\ UNCHANGED <<ready, pending, injected, document, inbox, tab, workerVars, history,
                   loads, restarts, faults>>

\* setPaused(p) and the content script's listener, both synchronous.
SetPaused(f, p) ==
    /\ tab = "open" /\ injected[f] /\ f \notin cached
    /\ sets < MaxSets /\ sets' = sets + 1
    /\ paused' = [paused EXCEPT ![f] = p]
    /\ \/ /\ pending' = [pending EXCEPT ![f] = @ + 1]
          /\ queue' = Append(queue, WriteRequest(f, p))
          /\ choice' = IF p THEN "paused" ELSE "running"
          /\ UNCHANGED <<ready, faults>>
       \/ /\ faults < MaxFaults /\ faults' = faults + 1
          /\ ready' = [ready EXCEPT ![f] = "unavailable"]
          /\ UNCHANGED <<pending, queue, choice>>
    /\ UNCHANGED <<timers, injected, document, cached, inbox, tab, workerVars, strayed, loads, restarts>>

\* A timer of hydrateTabPause: the page goes on without the state.
HydrationTimesOut(f) ==
    /\ tab = "open" /\ timers[f] > 0 /\ f \notin cached
    /\ timers' = [timers EXCEPT ![f] = @ - 1]
    /\ ready' = [ready EXCEPT ![f] = "unavailable"]
    /\ injected' = [injected EXCEPT ![f] = TRUE]
    /\ UNCHANGED <<paused, pending, document, cached, inbox, tab, queue, workerVars, history, bounds>>

\* applyTabPause
Apply(f, m) ==
    /\ paused' = [paused EXCEPT ![f] = m.paused]
    /\ ready' = [ready EXCEPT ![f] = IF m.durable THEN "extension" ELSE "memory"]

Unavailable(f) ==
    /\ ready' = [ready EXCEPT ![f] = "unavailable"]
    /\ UNCHANGED paused

ApplyAnswer(f, m) == IF m.answered THEN Apply(f, m) ELSE Unavailable(f)

Keep == UNCHANGED <<paused, ready>>

HearBroadcast(f, m) ==
    /\ m.kind = "broadcast"
    /\ IF pending[f] = 0 THEN Apply(f, m) ELSE Keep
    /\ UNCHANGED <<pending, timers, injected>>

HearReceipt(f, m) ==
    /\ m.kind = "write"
    /\ pending' = [pending EXCEPT ![f] = @ - 1]
    /\ IF pending[f] = 1 THEN ApplyAnswer(f, m) ELSE Keep
    /\ UNCHANGED <<timers, injected>>

\* The requests of the open document that nobody has answered yet.
Unheard(f, operation) ==
    Cardinality({i \in DOMAIN queue : /\ queue[i].frame = f /\ queue[i].document = document[f]
                                      /\ queue[i].operation = operation})
    + Cardinality({i \in DOMAIN inbox[f] : inbox[f][i].kind = operation})

\* An answer to the oldest read applies, even to a page that waits for a write.
\* The timers end in the order they began: this one runs unless one has ended.
HearHydration(f, m) ==
    /\ m.kind = "read"
    /\ ApplyAnswer(f, m)
    /\ timers' = [timers EXCEPT ![f] = IF @ = Unheard(f, "read") THEN @ - 1 ELSE @]
    /\ injected' = [injected EXCEPT ![f] = TRUE]
    /\ UNCHANGED pending

Deliver(f) ==
    /\ inbox[f] # <<>> /\ f \notin cached
    /\ LET m == Head(inbox[f])
       IN  HearBroadcast(f, m) \/ HearReceipt(f, m) \/ HearHydration(f, m)
    /\ inbox' = [inbox EXCEPT ![f] = Tail(@)]
    /\ UNCHANGED <<document, cached, tab, queue, workerVars, history, bounds>>

-----------------------------------------------------------------------------
(* The service worker: one request of the tab at a time.                   *)

Answer(r, answered, p, d) ==
    [kind |-> r.operation, answered |-> answered, paused |-> p, durable |-> d]

\* What a document that is gone was sent is lost.
Respond(boxes, r, m) ==
    [f \in Frames |-> IF f = r.frame /\ r.document = document[f] THEN Append(boxes[f], m) ELSE boxes[f]]

Broadcast(boxes, p, d) ==
    [f \in Frames |-> IF document[f] = 0 THEN boxes[f]
        ELSE Append(boxes[f], [kind |-> "broadcast", answered |-> TRUE, paused |-> p, durable |-> d])]

NextRequest == queue' = Tail(queue) /\ step' = "queued"
Faulty(n) == faults + n <= MaxFaults /\ faults' = faults + n
Holds(p, d) == known' = TRUE /\ value' = p /\ durable' = d

\* A write is told to all pages of the tab, and each request is answered.
Tell(r, p, d) ==
    /\ Holds(p, d)
    /\ inbox' = IF tab # "open" THEN inbox
                ELSE Respond(IF r.operation = "write" THEN Broadcast(inbox, p, d) ELSE inbox,
                             r, Answer(r, TRUE, p, d))

\* Mutant: the .catch puts a write back as it puts a read.
CatchAsRunning(r, sent, d) ==
    /\ ~removed
    /\ Holds(FALSE, FALSE)
    /\ inbox' = IF tab # "open" THEN inbox
                ELSE Respond(IF sent THEN Broadcast(inbox, r.paused, d) ELSE inbox,
                             r, Answer(r, TRUE, FALSE, FALSE))

\* The .catch of the handler: sendMessage has thrown, or respond after it was sent.
Catch(r, sent, d) ==
    LET p == r.operation = "write" /\ r.paused
    IN  /\ ~removed
        /\ Holds(p, FALSE)
        /\ inbox' = IF tab # "open" THEN inbox
                    ELSE Respond(IF sent THEN Broadcast(inbox, p, d) ELSE inbox,
                                 r, Answer(r, TRUE, p, FALSE))

\* The tail of the handler, after read() or write(), n of whose calls have failed.
Finish(r, p, d, n) ==
    /\ NextRequest
    /\ \/ /\ Tell(r, p, d) /\ Faulty(n)
          /\ strayed' = (r.operation = "read" /\ (strayed \/ n > 0))
          /\ choice' = IF r.operation = "read" /\ n > 0 THEN "none" ELSE choice
       \/ \E sent \in {r.operation = "write", FALSE} :
             /\ Catch(r, sent, d) /\ Faulty(n + 1)
             /\ strayed' = ~sent
             /\ choice' = IF r.operation = "read" THEN "none" ELSE choice

StartWrite(r) == value' = r.paused /\ known' = TRUE /\ step' = "writing"

\* The first request, nothing for a tab that was removed.
BeginRequest ==
    /\ queue # <<>> /\ step = "queued"
    /\ LET r == Head(queue)
       IN  \/ removed /\ NextRequest /\ UNCHANGED <<known, value, durable, inbox, history, faults>>
           \/ /\ ~removed /\ ~known
              /\ step' = "reading" /\ UNCHANGED <<queue, known, value, durable, inbox, history, faults>>
           \/ /\ ~removed /\ known /\ r.operation = "write"
              /\ StartWrite(r) /\ UNCHANGED <<queue, durable, inbox, history, faults>>
           \/ ~removed /\ known /\ r.operation = "read" /\ Finish(r, value, durable, 0)
    /\ UNCHANGED <<frameVars, tab, removed, stored, sets, loads, restarts>>

\* What the request does once read() is over; a removed tab's has nobody to answer.
ReadDone(failed) ==
    /\ queue # <<>> /\ step = "reading"
    /\ LET r == Head(queue)
           n == IF failed THEN 1 ELSE 0
       IN  IF removed \/ r.operation = "read"
           THEN Finish(r, stored /\ ~failed, ~failed, n)
           ELSE /\ StartWrite(r) /\ durable' = ~failed /\ Faulty(n)
                /\ strayed' = (strayed \/ failed) /\ UNCHANGED <<queue, inbox, choice>>
    /\ UNCHANGED <<frameVars, tab, removed, stored, sets, loads, restarts>>

\* Mutant: a failed write counts as durable.
WriteDoneAlwaysDurable(failed) ==
    /\ queue # <<>> /\ step = "writing"
    /\ stored' = IF failed THEN stored ELSE value
    /\ Finish(Head(queue), value, TRUE, IF failed THEN 1 ELSE 0)
    /\ UNCHANGED <<frameVars, tab, removed, sets, loads, restarts>>

\* write()
WriteDone(failed) ==
    /\ queue # <<>> /\ step = "writing"
    /\ stored' = IF failed THEN stored ELSE value
    /\ Finish(Head(queue), value, ~failed, IF failed THEN 1 ELSE 0)
    /\ UNCHANGED <<frameVars, tab, removed, sets, loads, restarts>>

\* The ports of the first n requests close, and a document that is still there
\* hears no answer.  All that these messages do is the same whatever their order.
Closed(f, n, operation) ==
    LET lost == {i \in 1..n : /\ queue[i].frame = f /\ queue[i].document = document[f]
                             /\ queue[i].operation = operation}
    IN  [i \in 1..Cardinality(lost) |->
            [kind |-> operation, answered |-> FALSE, paused |-> FALSE, durable |-> FALSE]]

\* The worker stops: its maps, the first n requests and a clean-up that waits are
\* lost.  A write under way may have been stored.
Restart(n) ==
    /\ restarts < MaxRestarts /\ restarts' = restarts + 1
    /\ n <= Len(queue) /\ (step # "queued" => n > 0)
    /\ removed' = FALSE /\ known' = FALSE /\ value' = FALSE /\ durable' = FALSE /\ step' = "queued"
    /\ queue' = SubSeq(queue, n + 1, Len(queue))
    /\ stored' \in IF step = "writing" THEN {stored, value} ELSE {stored}
    /\ tab' = IF tab = "closed" THEN "forgotten" ELSE tab
    /\ strayed' = (strayed \/ step = "writing")
    /\ choice' = IF (known /\ ~durable) \/ \E i \in 1..n : queue[i].operation = "write"
                 THEN "none" ELSE choice
    /\ inbox' = IF tab # "open" THEN inbox
                ELSE [f \in Frames |-> inbox[f] \o (Closed(f, n, "read") \o Closed(f, n, "write"))]
    /\ UNCHANGED <<frameVars, sets, loads, faults>>

-----------------------------------------------------------------------------
(* The tab is closed.                                                      *)

CloseTab ==
    /\ tab = "open"
    /\ tab' = "closed" /\ removed' = TRUE
    /\ inbox' = [f \in Frames |-> <<>>]
    /\ UNCHANGED <<frameVars, queue, step, known, value, durable, stored, history, bounds>>

\* Mutant: the clean-up does not wait for the request in progress.
CleanupAtOnce(failed) ==
    /\ tab = "closed"
    /\ tab' = IF failed THEN "kept" ELSE "cleaned"
    /\ Faulty(IF failed THEN 1 ELSE 0)
    /\ known' = FALSE /\ value' = FALSE /\ durable' = FALSE
    /\ stored' = (stored /\ failed)
    /\ UNCHANGED <<frameVars, inbox, queue, step, removed, history, sets, loads, restarts>>

\* cleanup() waits for the request in progress; session.remove may fail.
Cleanup(failed) ==
    /\ tab = "closed" /\ step = "queued"
    /\ tab' = IF failed THEN "kept" ELSE "cleaned"
    /\ Faulty(IF failed THEN 1 ELSE 0)
    /\ known' = FALSE /\ value' = FALSE /\ durable' = FALSE
    /\ stored' = (stored /\ failed)
    /\ UNCHANGED <<frameVars, inbox, queue, step, removed, history, sets, loads, restarts>>

Worker ==
    \/ BeginRequest
    \/ \E failed \in BOOLEAN : ReadDone(failed) \/ WriteDone(failed) \/ Cleanup(failed)

Next ==
    \/ Worker
    \/ \E f \in Frames :
          \/ Load(f) \/ Freeze(f) \/ Miss(f) \/ Restore(f) \/ HydrationTimesOut(f) \/ Deliver(f)
          \/ \E p \in BOOLEAN : SetPaused(f, p)
    \/ \E n \in 0..Len(queue) : Restart(n)
    \/ CloseTab

Spec == Init /\ [][Next]_vars

-----------------------------------------------------------------------------
(* Properties.                                                             *)

Quiescent == tab = "open" /\ queue = <<>> /\ \A f \in Frames : inbox[f] = <<>>

\* What the next document of the tab will be told.
StateOfTab == IF known THEN value ELSE stored

\* The frames of a tab share its state: once nothing is under way, every
\* frame on show that counts as backed by the extension shows what the worker
\* holds and what is stored, also after a late answer to a read has replaced
\* what the user set.  Until the next broadcast this does not hold after a
\* restart that hit a write, a failed read or a handler that threw.
Converged ==
    Quiescent /\ ~strayed =>
        \A f \in Frames \ cached :
            ready[f] = "extension" => paused[f] = StateOfTab /\ paused[f] = stored

\* The state of the tab is the last choice made in any of its pages, whatever
\* failed to be stored or told, unless the worker stopped before the choice was
\* stored or could not read it.
LastChoiceStands ==
    Quiescent /\ choice # "none" => StateOfTab = (choice = "paused")

\* The worker that saw the tab removed keeps nothing of it after the clean-up,
\* whatever request was in progress or comes late, and nothing stays stored
\* unless session.remove failed.
RemovedLeavesNothing ==
    removed /\ tab # "closed" => ~known /\ (tab = "cleaned" => ~stored)

\* What an open page counts as pending is in the worker's hands, or its answer
\* (the closed port included) is on its way.
PendingUnderWay == tab = "open" => \A f \in Frames : pending[f] = Unheard(f, "write")

\* Nothing is left over, on either side: no page is kept from reloading by a
\* request that nobody will answer, and a removed tab keeps no state.
NothingLeftOver == TypeOK /\ PendingUnderWay /\ RemovedLeavesNothing
=============================================================================
