---------------------------- MODULE HostSession ----------------------------
(***************************************************************************)
(* One page of the Windows host: the session (session.c) that decides what *)
(* each execution context of the page still needs, the loop that carries   *)
(* out its tasks over a WebSocket (host-session.inc, host.c) and the       *)
(* browser at the other end.                                               *)
(*                                                                         *)
(* The host has one thread.  It sends one command at a time and, while it  *)
(* waits for the reply, feeds every event that arrives before it to the    *)
(* session: documents come and go under a task that is under way.  The     *)
(* WebSocket is a queue in each direction, orders to the browser and wire  *)
(* back.  A command that timed out may still be carried out, and answered, *)
(* later.                                                                  *)
(*                                                                         *)
(* Strings are classes: the URL of a document is one the bundle is made    *)
(* for (site), a blank one or another.  The page's diagnostics and panel   *)
(* channels, which share the thread but not the tasks, are left out.       *)
(***************************************************************************)
EXTENDS Integers, Sequences, FiniteSets

CONSTANTS
    Frames,        \* frames of the page
    Top,           \* its top frame
    NoFrame,       \* an empty frame identifier
    Below,         \* frame -> the frames of its subtree
    MaxContexts,   \* CX_SESSION_MAX_CONTEXTS
    Ids,           \* execution context identifiers
    Reused,        \* whether another process may use an identifier again at once
    Width,         \* 2^32, where a DWORD starts again
    Tries,         \* evaluations an injection is given by its strategy and retries
    InjectBlank,   \* injectBlankFrames
    Kinds,         \* the kinds of URL that occur: site, blank, other
    MaxTrouble     \* bound: navigations and removals of frames, changes of the
                   \* settings, lost connections, failed evaluations and timeouts, together

ASSUME HostSessionAssumption ==
    /\ Top \in Frames /\ IsFiniteSet(Frames) /\ NoFrame \notin Frames
    /\ Below \in [Frames -> SUBSET Frames] /\ \A f \in Frames : f \in Below[f]
    /\ \A f \in Frames : Top \in Below[f] => f = Top
    /\ Ids \subseteq Nat \ {0}
    /\ MaxContexts \in Nat \ {0} /\ Width \in Nat \ {0, 1} /\ Tries \in Nat \ {0}
    /\ InjectBlank \in BOOLEAN /\ Reused \in BOOLEAN
    /\ Kinds \subseteq {"site", "blank", "other"} /\ Kinds # {}
    /\ MaxTrouble \in Nat

VARIABLES
    docs,          \* browser: frame -> the document it shows
    orders,        \* commands sent and not carried out yet
    wire,          \* events and replies on their way to the host
    session,       \* CX_SESSION
    at,            \* where the host's loop stands
    task,          \* the task under way: what cx_session_next gave, and its progress
    settings,      \* how often the settings were changed, and whether they enable the extension
    ensure,        \* the timer of cx_session_request_top_ensure
    missed,        \* history: slots whose last delivery of settings failed
    moves, faults

vars == <<docs, orders, wire, session, at, task, settings, ensure, missed, moves, faults>>

AnyKind  == {"site", "blank", "other"}
Slots    == 0..MaxContexts          \* 0 is the fallback
Numbers  == 0..Width - 1            \* a DWORD
TaskType == {"bootstrap", "bundle", "config"}
Scripts  == {"settings", "bootstrap", "ask", "bundle", "notify"}

Context == [used : BOOLEAN, id : Ids \cup {0}, frame : Frames \cup {NoFrame}, kind : AnyKind,
            bootstrapped : BOOLEAN, bundled : BOOLEAN, ready : BOOLEAN, disabled : BOOLEAN,
            queued : SUBSET TaskType, generation : Numbers, token : [TaskType -> Numbers]]
Session == [context : [Slots -> Context], known : [Frames -> AnyKind \cup {"unknown"}],
            top : Frames \cup {NoFrame}, target : AnyKind, enabled : BOOLEAN,
            generation : Numbers, serial : Numbers, contexts : Int]
Task    == [type : TaskType, id : Ids \cup {0}, generation : Numbers, token : Numbers,
            step : Nat, tries : Nat, waits : Nat]
Document == [id : Ids \cup {0}, kind : AnyKind, loading : BOOLEAN, booted : BOOLEAN, due : BOOLEAN,
             settings : Nat, on : BOOLEAN, loaded : BOOLEAN, runs : Nat, thrown : Nat]
EventType == {"created", "destroyed", "cleared", "navigated", "detached", "message", "reply"}
Event   == {e \in [type : EventType, id : Nat, frame : Frames, kind : AnyKind,
                   note : {"", "ready", "boot-request", "disabled", "ok", "failed"}] :
              e.type = "created" => e.id \in Ids}
Command == [number : Nat, id : Ids \cup {0}, script : Scripts, settings : Nat, on : BOOLEAN]

TypeOK ==
    /\ docs \in [Frames -> Document]
    /\ orders \in Seq(Command) /\ wire \in Seq(Event)
    /\ session \in Session
    /\ at \in {"closed", "top", "read", "tasks", "task"}
    /\ task \in Task
    /\ moves \in Nat /\ faults \in Nat
    /\ settings \in [version : Nat, on : BOOLEAN]
    /\ ensure \in {"off", "set"}
    /\ missed \subseteq Slots

-----------------------------------------------------------------------------
(* The session.  Operators follow the functions of session.c.              *)

NoTokens == [t \in TaskType |-> 0]
Unused   == [used |-> FALSE, id |-> 0, frame |-> NoFrame, kind |-> "blank",
             bootstrapped |-> FALSE, bundled |-> FALSE, ready |-> FALSE, disabled |-> FALSE,
             queued |-> {}, generation |-> 0, token |-> NoTokens]

\* A DWORD that counts and leaves out zero.
Serial(n) == IF n + 1 = Width THEN 1 ELSE n + 1

Idle(c) == c.token = NoTokens

\* session_context()
SlotOf(s, id) == {i \in Slots : s.context[i].used /\ s.context[i].id = id}

\* session_bundle_allowed(): the frame's URL where it is known, the context's origin where not.
UrlKind(s, c) == IF c.frame \in Frames /\ s.known[c.frame] # "unknown" THEN s.known[c.frame] ELSE c.kind
Allowed(s, c) == /\ s.enabled /\ ~c.disabled
                 /\ UrlKind(s, c) = "site" \/ (InjectBlank /\ UrlKind(s, c) = "blank")

\* Mutant: tasks in flight keep their tokens.
ResetKeepingTokens(c, generation) ==
    [c EXCEPT !.bootstrapped = FALSE, !.bundled = FALSE, !.ready = FALSE, !.disabled = FALSE,
              !.queued = {"bootstrap"}, !.generation = generation]

\* session_reset_context().  Contexts reset together share a generation here;
\* the code takes one for each and compares those of one context only.
Reset(c, generation) ==
    [c EXCEPT !.bootstrapped = FALSE, !.bundled = FALSE, !.ready = FALSE, !.disabled = FALSE,
              !.queued = {"bootstrap"}, !.generation = generation, !.token = NoTokens]

\* Contexts are cleared, and no longer counted; the fallback never is.
Drop(s, slots) ==
    [s EXCEPT !.context  = [i \in Slots |-> IF i \in slots THEN Unused ELSE s.context[i]],
              !.contexts = s.contexts - Cardinality(slots \ {0})]

\* cx_session_create(), with the frame tree of the page when it could be read.
NewSession(enabled, tree) ==
    [context |-> [i \in Slots |-> Unused],
     known   |-> [f \in Frames |-> IF tree /\ docs[f].id # 0 THEN docs[f].kind ELSE "unknown"],
     top     |-> IF tree THEN Top ELSE NoFrame,
     target  |-> docs[Top].kind, enabled |-> enabled, generation |-> 0, serial |-> 0, contexts |-> 0]

\* Runtime.executionContextCreated: an identifier that is known for the same
\* document is left alone, for another it is taken over; a full table is an error.
ContextCreated(s, e) ==
    LET old  == SlotOf(s, e.id)
        free == {i \in 1..MaxContexts : ~s.context[i].used}
        Put(i) == [Drop(s, IF s.top \in {NoFrame, e.frame} THEN {0} ELSE {}) EXCEPT
                      !.generation = Serial(@),
                      !.context[i] = Reset([Unused EXCEPT !.used = TRUE, !.id = e.id, !.frame = e.frame,
                                                          !.kind = e.kind], Serial(s.generation)),
                      !.contexts   = IF old = {} THEN @ + 1 ELSE @]
    IN CASE \E i \in old : s.context[i].frame = e.frame /\ s.context[i].kind = e.kind -> s
         [] old # {} /\ \A i \in old : s.context[i].frame # e.frame \/ s.context[i].kind # e.kind
              -> Put(CHOOSE i \in old : TRUE)
         [] old = {} /\ free # {} -> Put(CHOOSE i \in free : \A j \in free : i <= j)
         [] OTHER -> s

\* session_set_frame().  The table has room for every frame here.
WithFrame(s, f, kind) == [s EXCEPT !.known[f] = kind]

\* Page.frameNavigated: what the contexts of the frame held is of the document before.
FrameNavigated(s, e) ==
    LET known == [WithFrame(s, e.frame, e.kind) EXCEPT
                    !.generation = Serial(@),
                    !.context = [i \in Slots |-> IF i # 0 /\ s.context[i].used /\ s.context[i].frame = e.frame
                                                 THEN Reset(s.context[i], Serial(s.generation))
                                                 ELSE s.context[i]]]
    IN IF e.frame # Top THEN known
       ELSE [Drop(known, {0}) EXCEPT !.top = Top, !.target = e.kind]

\* session_remove_frame(): the frame, the frames below it that the table leads to,
\* and their contexts.
FrameDetached(s, e) ==
    LET gone == {g \in Below[e.frame] : \A h \in Below[e.frame] : g \in Below[h] => s.known[h] # "unknown"}
                \cup {e.frame}
    IN [Drop(s, {i \in Slots \ {0} : s.context[i].used /\ s.context[i].frame \in gone}
                  \cup (IF s.top = e.frame THEN {0} ELSE {}))
        EXCEPT !.known = [f \in Frames |-> IF f \in gone THEN "unknown" ELSE s.known[f]]]

\* Mutant: a page that is ready before its bootstrap is credited is not heard.
PageMessageLate(s, e) ==
    [s EXCEPT !.context = [i \in Slots |->
        IF i \in SlotOf(s, e.id) /\ e.note = "ready" /\ s.context[i].bootstrapped
        THEN [s.context[i] EXCEPT !.ready = TRUE, !.queued = @ \cup {"bundle"}] ELSE s.context[i]]]

\* session_page_message()
PageMessage(s, e) ==
    LET Heard(c) ==
            CASE e.note = "ready" ->
                    [c EXCEPT !.ready = TRUE,
                              !.queued = @ \cup (IF c.bundled \/ c.token["bundle"] # 0 THEN {} ELSE {"bundle"})]
              [] e.note = "boot-request" ->
                    [c EXCEPT !.queued = @ \cup (IF c.bootstrapped THEN {} ELSE {"bootstrap"})]
              [] e.note = "disabled" -> [c EXCEPT !.disabled = TRUE, !.queued = @ \ {"bundle"}]
              [] OTHER -> c
    IN [s EXCEPT !.context = [i \in Slots |-> IF i \in SlotOf(s, e.id) THEN Heard(s.context[i]) ELSE s.context[i]]]

\* cx_session_feed()
Fed(s, e) ==
    CASE e.type = "created"   -> ContextCreated(s, e)
      [] e.type = "destroyed" -> Drop(s, SlotOf(s, e.id) \ {0})
      [] e.type = "cleared"   -> [s EXCEPT !.context = [i \in Slots |-> Unused], !.contexts = 0]
      [] e.type = "navigated" -> FrameNavigated(s, e)
      [] e.type = "detached"  -> FrameDetached(s, e)
      [] e.type = "message"   -> PageMessage(s, e)
      [] OTHER -> s

\* cx_session_request_top_ensure(): the last context of the top frame, or the
\* fallback, is given everything once more.
TopEnsured(s) ==
    LET tops == {i \in 1..MaxContexts : s.context[i].used /\ s.top \in {NoFrame, s.context[i].frame}}
        slot == IF tops = {} THEN 0 ELSE CHOOSE i \in tops : \A j \in tops : j <= i
        new  == slot = 0 /\ ~s.context[0].used
        base == IF new THEN Reset([Unused EXCEPT !.used = TRUE, !.frame = s.top, !.kind = s.target],
                                  Serial(s.generation))
                       ELSE s.context[slot]
    IN [s EXCEPT !.context[slot] = [base EXCEPT !.queued = @ \cup {"bootstrap", "bundle"}, !.ready = TRUE],
                 !.generation = IF new THEN Serial(@) ELSE @]

\* Mutant: only pages that have the bundle are told.
ConfigUpdatedBundled(s, on) ==
    [s EXCEPT !.enabled = on,
              !.context = [i \in Slots |->
                  IF s.context[i].used /\ s.context[i].bundled
                  THEN [s.context[i] EXCEPT !.disabled = FALSE, !.queued = @ \cup {"config"}]
                  ELSE s.context[i]]]

\* cx_session_update_config()
ConfigUpdated(s, on) ==
    LET Told(c) ==
            [c EXCEPT !.disabled = FALSE,
                      !.queued = @ \cup (IF c.bootstrapped \/ c.token["bootstrap"] # 0 THEN {"config"} ELSE {})
                                   \cup (IF on /\ c.ready /\ ~c.bundled /\ c.token["bundle"] = 0
                                         THEN {"bundle"} ELSE {}),
                      !.token["config"] = IF c.bootstrapped \/ c.token["bootstrap"] # 0 THEN 0 ELSE @]
    IN [s EXCEPT !.enabled = on,
                 !.context = [i \in Slots |-> IF s.context[i].used THEN Told(s.context[i]) ELSE s.context[i]]]

\* cx_session_next(): the kind of task a context is due, in this order.
Due(c) ==
    IF ~c.used \/ ~Idle(c) THEN "none"
    ELSE IF "bootstrap" \in c.queued THEN "bootstrap"
    ELSE IF "config" \in c.queued /\ c.bootstrapped THEN "config"
    ELSE IF "bundle" \in c.queued /\ "config" \notin c.queued /\ c.bootstrapped /\ c.ready THEN "bundle"
    ELSE "none"

Rank(i)      == IF i = 0 THEN MaxContexts + 1 ELSE i
Startable(s) == {i \in Slots : /\ Due(s.context[i]) # "none"
                               /\ Due(s.context[i]) = "bundle" => Allowed(s, s.context[i])}
\* The slot the scan stops at, if any, and the bundles it gives up on its way.
Chosen(s)    == {i \in Startable(s) : \A j \in Startable(s) : Rank(i) <= Rank(j)}
Refused(s)   == {i \in Slots : /\ Due(s.context[i]) = "bundle" /\ ~Allowed(s, s.context[i])
                               /\ \A j \in Chosen(s) : Rank(i) < Rank(j)}

Scanned(s) ==
    [s EXCEPT
        !.serial  = IF Chosen(s) = {} THEN @ ELSE Serial(@),
        !.context = [i \in Slots |->
            CASE i \in Refused(s) -> [s.context[i] EXCEPT !.queued = @ \ {"bundle"}]
              [] i \in Chosen(s)  -> [s.context[i] EXCEPT !.queued = @ \ {Due(s.context[i])},
                                                          !.token[Due(s.context[i])] = Serial(s.serial)]
              [] OTHER -> s.context[i]]]

\* Mutant: a task that was taken stays active.
ActiveOnceTaken(s, t) == t.token # 0

\* cx_session_task_active()
Active(s, t) == \E i \in SlotOf(s, t.id) : /\ s.context[i].generation = t.generation
                                           /\ t.token # 0 /\ s.context[i].token[t.type] = t.token

\* cx_session_complete() of an active task
Completed(s, t, ok) ==
    LET Credited(c) == CASE t.type = "bootstrap" -> [c EXCEPT !.token["bootstrap"] = 0, !.bootstrapped = @ \/ ok]
                         [] t.type = "bundle" -> [c EXCEPT !.token["bundle"] = 0, !.bundled = @ \/ ok,
                                                           !.queued = IF ok THEN @ \ {"bundle"} ELSE @]
                         [] t.type = "config" -> [c EXCEPT !.token["config"] = 0]
    IN [s EXCEPT !.context = [i \in Slots |-> IF i \in SlotOf(s, t.id) THEN Credited(s.context[i]) ELSE s.context[i]]]

Room == moves + faults + settings.version <= MaxTrouble

-----------------------------------------------------------------------------
(* The browser (external): documents, events and the scripts of the host.  *)

NoDocument == [id |-> 0, kind |-> "blank", loading |-> FALSE, booted |-> FALSE, due |-> FALSE,
               settings |-> 0, on |-> FALSE, loaded |-> FALSE, runs |-> 0, thrown |-> 0]
Loading(id, kind) == [NoDocument EXCEPT !.id = id, !.kind = kind, !.loading = TRUE]

Message(type, f, id, note) == [type |-> type, id |-> id, frame |-> f, kind |-> docs[f].kind, note |-> note]
Note(f, note)     == Message("message", f, docs[f].id, note)
Reply(number, ok) == Message("reply", Top, number, IF ok THEN "ok" ELSE "failed")

Live(frames) == {f \in frames : docs[f].id # 0}

\* Some order of the members of a set of frames.
Listed(frames) == CHOOSE q \in [1..Cardinality(frames) -> frames] : \A f \in frames : \E i \in DOMAIN q : q[i] = f
Each(type, frames) == [i \in 1..Cardinality(frames) |-> Message(type, Listed(frames)[i], docs[Listed(frames)[i]].id, "")]

\* Identifiers that the host still speaks of
Remembered == {docs[f].id : f \in Frames} \cup {session.context[i].id : i \in Slots} \cup {task.id}
              \cup {orders[i].id : i \in DOMAIN orders}

\* A frame shows another document, in the same process or, with the contexts
\* of all frames cleared, in another; its identifier may be one that was used
\* before.  The frames below it are gone.  The script registered for new
\* documents may ask for the bootstrap.
Navigate(f) ==
    /\ Room /\ moves' = moves + 1
    /\ f = Top \/ docs[Top].id # 0
    /\ LET below == Live(Below[f] \ {f})
           gone  == Each("destroyed", Live({f})) IN
       \E id \in Ids \ (IF Reused THEN {docs[g].id : g \in Live(Frames \ Below[f])} ELSE Remembered), kind \in Kinds, swap \in BOOLEAN,
          early \in BOOLEAN, asks \in BOOLEAN :
         LET moved   == [Message("navigated", f, 0, "") EXCEPT !.kind = kind]
             created == [Message("created", f, id, "") EXCEPT !.kind = kind]
             request == IF asks THEN <<[Message("message", f, id, "boot-request") EXCEPT !.kind = kind]>> ELSE <<>>
         IN /\ swap => f = Top /\ ~early
            /\ docs' = [g \in Frames |-> IF g = f THEN Loading(id, kind)
                                         ELSE IF g \in below THEN NoDocument ELSE docs[g]]
            /\ wire' = IF at = "closed" THEN wire
                       ELSE wire \o Each("detached", below)
                                 \o (IF swap THEN <<Message("cleared", f, 0, "")>> ELSE gone)
                                 \o (IF early THEN <<created, moved>> ELSE <<moved, created>>) \o request
    /\ UNCHANGED <<orders, session, at, task, settings, ensure, missed, faults>>

\* A frame is taken out of the page, and what is below it; each is reported.
RemoveFrame(f) ==
    /\ Room /\ moves' = moves + 1
    /\ f # Top /\ docs[f].id # 0
    /\ docs' = [g \in Frames |-> IF g \in Below[f] THEN NoDocument ELSE docs[g]]
    /\ wire' = IF at = "closed" THEN wire ELSE wire \o Each("detached", Live(Below[f]))
    /\ UNCHANGED <<orders, session, at, task, settings, ensure, missed, faults>>

\* The document is complete: a bootstrap that waited for it says so.
Loaded(f) ==
    /\ docs[f].loading
    /\ docs' = [docs EXCEPT ![f].loading = FALSE, ![f].due = FALSE]
    /\ wire' = IF docs[f].due /\ at # "closed" THEN Append(wire, Note(f, "ready")) ELSE wire
    /\ UNCHANGED <<orders, session, at, task, settings, ensure, missed, moves, faults>>

\* Mutant: the bundle is not wrapped in a test.
AfterScriptUnwrapped(d, c) ==
    CASE c.script = "settings"  -> [d EXCEPT !.settings = c.settings, !.on = c.on]
      [] c.script = "bootstrap" -> [d EXCEPT !.booted = TRUE, !.due = @ \/ (~d.booted /\ d.on /\ d.loading)]
      [] c.script = "bundle"    -> [d EXCEPT !.loaded = TRUE, !.runs = IF @ < 3 THEN @ + 1 ELSE @]
      [] c.script = "notify"    -> [d EXCEPT !.settings = c.settings, !.on = c.on]
      [] OTHER -> d

\* What a script leaves in the document that runs it, the message it sends and
\* whether the host's condition on the result holds.  The bundle comes wrapped
\* in a test of a mark (__CX_WIN_BUNDLE_LOADED__) that is set after it.  runs
\* counts the evaluations that began, thrown those that did not end.
AfterScript(d, c) ==
    CASE c.script = "settings"  -> [d EXCEPT !.settings = c.settings, !.on = c.on]
      [] c.script = "bootstrap" -> [d EXCEPT !.booted = TRUE, !.due = @ \/ (~d.booted /\ d.on /\ d.loading)]
      [] c.script = "bundle" /\ ~d.loaded -> [d EXCEPT !.loaded = TRUE, !.runs = @ + 1]
      [] c.script = "notify"    -> [d EXCEPT !.settings = c.settings, !.on = c.on]
      [] OTHER -> d
Says(d, c) ==
    CASE c.script = "bootstrap" /\ ~d.booted /\ ~d.on -> {"disabled"}
      [] c.script = "bootstrap" /\ ~d.booted /\ d.on /\ ~d.loading -> {"ready"}
      [] c.script = "ask" /\ d.booted /\ ~d.loading -> {"ready"}
      [] OTHER -> {}
Accepted(d, c) == c.script = "notify" => d.booted

\* The bundle throws midway: a part of it has run and the mark is not set.
Torn(d) == [d EXCEPT !.runs = @ + 1, !.thrown = @ + 1]

\* The browser carries out the next command, in the document that has the
\* identifier by now.  A script may fail before it has done anything, and the
\* bundle midway; the other scripts catch what they throw.
Execute ==
    /\ orders # <<>> /\ orders' = Tail(orders)
    /\ LET c      == Head(orders)
           target == {f \in Frames : IF c.id = 0 THEN f = Top ELSE docs[f].id = c.id} IN
       \/ /\ target = {}
          /\ wire' = Append(wire, Reply(c.number, FALSE))
          /\ UNCHANGED <<docs, faults>>
       \/ \E f \in target :
             /\ docs' = [docs EXCEPT ![f] = AfterScript(docs[f], c)]
             /\ \E says \in {<<>>} \cup {<<Note(f, n)>> : n \in Says(docs[f], c)} :
                   /\ (says = <<>>) = (Says(docs[f], c) = {})
                   /\ wire' = wire \o says \o <<Reply(c.number, Accepted(docs[f], c))>>
             /\ UNCHANGED faults
       \/ /\ Room /\ faults' = faults + 1
          /\ wire' = Append(wire, Reply(c.number, FALSE))
          /\ \/ UNCHANGED docs
             \/ \E f \in target : /\ c.script = "bundle" /\ ~docs[f].loaded
                                  /\ docs' = [docs EXCEPT ![f] = Torn(docs[f])]
    /\ UNCHANGED <<session, at, task, settings, ensure, missed, moves>>

-----------------------------------------------------------------------------
(* The host.                                                               *)

NoTask == [type |-> "bootstrap", id |-> 0, generation |-> 0, token |-> 0, step |-> 0, tries |-> 0, waits |-> 0]

\* The commands of a task, one after the other.
Steps(type) == CASE type = "bootstrap" -> <<"settings", "bootstrap", "ask">>
                 [] type = "bundle"    -> <<"bundle">>
                 [] type = "config"    -> <<"notify">>
Script      == Steps(task.type)[task.step]
Injected    == {"bootstrap", "bundle"}     \* scripts h_inject_asset repeats

\* h_page_open(): Page.enable, the frame tree, which may not be had, and
\* Runtime.enable, which reports the context of every document there is.
Open ==
    /\ at = "closed" /\ at' = "top"
    /\ \E tree \in BOOLEAN :
          /\ tree \/ Room
          /\ faults' = IF tree THEN faults ELSE faults + 1
          /\ session' = NewSession(settings.on, tree)
    /\ wire' = Each("created", Live(Frames)) /\ orders' = <<>>
    /\ ensure' = "set" /\ missed' = {} /\ task' = NoTask
    /\ UNCHANGED <<docs, settings, moves>>

\* The connection is lost: h_page_close(), to be opened again.
Close ==
    /\ at # "closed" /\ at' = "closed"
    /\ Room /\ faults' = faults + 1
    /\ session' = NewSession(settings.on, FALSE)
    /\ wire' = <<>> /\ orders' = <<>> /\ task' = NoTask /\ missed' = {} /\ ensure' = "off"
    /\ UNCHANGED <<docs, settings, moves>>

\* A turn of the loop begins; settings that arrived or were read from the file
\* are published to the page (h_config_publish).
Turn ==
    /\ at = "top" /\ at' = "read"
    /\ \/ UNCHANGED <<session, settings>>
       \/ \E on \in BOOLEAN :
             /\ Room
             /\ settings' = [version |-> settings.version + 1, on |-> on]
             /\ session'  = ConfigUpdated(session, on)
    /\ UNCHANGED <<docs, orders, wire, task, ensure, missed, moves, faults>>

\* h_dispatch_event(): the session is fed, and a new top document is ensured later.
Dispatch ==
    /\ wire' = Tail(wire)
    /\ session' = Fed(session, Head(wire))
    /\ ensure' = IF Head(wire).type = "navigated" /\ Head(wire).frame = Top THEN "set" ELSE ensure
    /\ missed' = {i \in missed : session'.context[i].generation = session.context[i].generation}

ReadEvent ==
    /\ at = "read" /\ wire # <<>> /\ Dispatch
    /\ UNCHANGED <<docs, orders, at, task, settings, moves, faults>>

\* Nothing has arrived yet, or 64 messages were read.
ReadEnd ==
    /\ at = "read" /\ at' = "tasks"
    /\ UNCHANGED <<docs, orders, wire, session, task, settings, ensure, missed, moves, faults>>

\* The same, at least 2.5 seconds after the page was opened or its top document changed.
Ensure ==
    /\ at = "read" /\ at' = "tasks"
    /\ ensure = "set" /\ ensure' = "off"
    /\ session' = TopEnsured(session)
    /\ UNCHANGED <<docs, orders, wire, task, settings, missed, moves, faults>>

\* cx_session_next() gives a task, or there is none and the turn is over.
NextTask ==
    /\ at = "tasks"
    /\ session' = Scanned(session)
    /\ \/ /\ Chosen(session) = {} /\ at' = "top" /\ UNCHANGED task
       \/ \E i \in Chosen(session) :
             /\ at' = "task"
             /\ task' = [NoTask EXCEPT !.type = Due(session.context[i]), !.id = session.context[i].id,
                                       !.generation = session.context[i].generation,
                                       !.token = Serial(session.serial), !.step = 1, !.tries = Tries]
    /\ UNCHANGED <<docs, orders, wire, settings, ensure, missed, moves, faults>>

\* The end of a task: a result is credited only while the task is active.
Finish(ok) ==
    /\ at' = "tasks" /\ task' = NoTask
    /\ session' = IF Active(session, task) THEN Completed(session, task, ok) ELSE session
    /\ missed' = IF ~Active(session, task) \/ task.type = "bundle" THEN missed
                 ELSE IF ok THEN missed \ SlotOf(session, task.id) ELSE missed \cup SlotOf(session, task.id)

\* The number of the next command.  The code counts; what matters is that it is
\* not the number of an earlier command that may still be answered.
Pending == {orders[i].number : i \in DOMAIN orders}
           \cup {wire[i].id : i \in {j \in DOMAIN wire : wire[j].type = "reply"}}
Fresh   == {n \in 1..Len(orders) + Len(wire) + 1 : n \notin Pending /\ \A m \in 1..n - 1 : m \in Pending}

\* h_send_eval_result(): the command is sent unless the task was overtaken.
Send ==
    /\ at = "task" /\ task.waits = 0 /\ Active(session, task)
    /\ \E n \in Fresh :
          /\ orders' = Append(orders, [number |-> n, id |-> task.id, script |-> Script,
                                       settings |-> settings.version, on |-> settings.on])
          /\ task' = [task EXCEPT !.waits = n]
    /\ UNCHANGED <<docs, wire, session, at, settings, ensure, missed, moves, faults>>

\* The task's context is gone, navigated or told anew: it is given up.
Abandon ==
    /\ at = "task" /\ ~Active(session, task)
    /\ Finish(FALSE)
    /\ UNCHANGED <<docs, orders, wire, settings, ensure, moves, faults>>

\* An evaluation has failed: an injection is tried again, anything else ends the task.
Failed ==
    IF Script \in Injected /\ task.tries > 1
    THEN task' = [task EXCEPT !.tries = @ - 1, !.waits = 0] /\ UNCHANGED <<session, at, missed>>
    ELSE Finish(FALSE)

\* The evaluation has succeeded: the next step, or the task is done.
Stepped ==
    IF task.step < Len(Steps(task.type))
    THEN task' = [task EXCEPT !.step = @ + 1, !.tries = Tries, !.waits = 0] /\ UNCHANGED <<session, at, missed>>
    ELSE Finish(TRUE)

\* h_wait_reply(): an event is dispatched, the reply to an earlier command dropped.
Wait ==
    /\ at = "task" /\ task.waits # 0 /\ Active(session, task) /\ wire # <<>>
    /\ IF Head(wire).type = "reply"
       THEN /\ wire' = Tail(wire) /\ UNCHANGED ensure
            /\ IF Head(wire).id # task.waits THEN UNCHANGED <<session, at, task, missed>>
               ELSE IF Head(wire).note = "ok" THEN Stepped ELSE Failed
       ELSE Dispatch /\ UNCHANGED <<at, task>>
    /\ UNCHANGED <<docs, orders, settings, moves, faults>>

\* No reply within bundleTimeoutMs; it may still come.
Timeout ==
    /\ at = "task" /\ task.waits # 0 /\ Active(session, task)
    /\ Room /\ faults' = faults + 1
    /\ Failed
    /\ UNCHANGED <<docs, orders, wire, settings, ensure, moves>>

-----------------------------------------------------------------------------
Init ==
    /\ \E kind \in Kinds, id \in Ids :
          /\ \A other \in Ids : id <= other
          /\ docs = [f \in Frames |-> IF f = Top THEN Loading(id, kind) ELSE NoDocument]
    /\ orders = <<>> /\ wire = <<>>
    /\ settings \in [version : {1}, on : BOOLEAN]
    /\ session = NewSession(settings.on, FALSE)
    /\ at = "closed" /\ task = NoTask /\ ensure = "off"
    /\ missed = {} /\ moves = 0 /\ faults = 0

Host == \/ Open \/ Turn \/ ReadEvent \/ ReadEnd \/ Ensure \/ NextTask \/ Send \/ Abandon \/ Wait
Page == Execute \/ \E f \in Frames : Loaded(f)

Next == \/ Host \/ Page \/ Close \/ Timeout
        \/ \E f \in Frames : Navigate(f) \/ RemoveFrame(f)

Spec == Init /\ [][Next]_vars

\* The loop of the host does not stop, the browser carries out what it is sent
\* and finishes loading, and the timer of the host runs.
ProgramFairness ==
    /\ WF_vars(Open) /\ WF_vars(Turn) /\ SF_vars(ReadEvent) /\ WF_vars(NextTask)
    /\ WF_vars(Send) /\ WF_vars(Abandon) /\ WF_vars(Wait) /\ WF_vars(Execute)
    /\ SF_vars(ReadEnd) /\ SF_vars(Ensure) /\ \A f \in Frames : WF_vars(Loaded(f))

FairSpec == Spec /\ ProgramFairness

-----------------------------------------------------------------------------
(* Properties.                                                             *)

\* A task that is marked in flight in a context is the one the host is carrying
\* out: no context is kept from further tasks by one that nobody will finish.
TokenBacked ==
    \A i \in Slots, t \in TaskType :
        session.context[i].token[t] # 0 => /\ at = "task" /\ task.type = t
                                           /\ task.token = session.context[i].token[t]
                                           /\ task.id = session.context[i].id

\* The frame whose document a context is
FrameOf(i) == IF i = 0 THEN {Top} ELSE {f \in Frames : docs[f].id = session.context[i].id}

\* A result is credited to the document that produced it: when the host has
\* heard everything, a context that counts as bootstrapped or bundled is a
\* document that is, whatever navigated, was destroyed or used its identifier
\* again while the task was under way.
CreditIsDue ==
    at # "closed" /\ wire = <<>> =>
        \A i \in Slots : session.context[i].used =>
            \E f \in FrameOf(i) : /\ session.context[i].bootstrapped => docs[f].booted
                                  /\ session.context[i].bundled => docs[f].loaded

\* A document evaluates the bundle again only after an evaluation that threw: once
\* it has run to its end it does not run again, although it is delivered again
\* after a lost reply, a second attempt or a reconnection.  (The part that ran
\* before it threw does run again: the mark is set at the end.)
BundleRunsOnce == \A f \in Frames : docs[f].runs <= docs[f].thrown + 1

\* Settings reach every context: between tasks a bootstrapped context shows the
\* settings in force, or is queued to be told, or its delivery failed.
SettingsReach ==
    at \in {"read", "tasks", "top"} /\ wire = <<>> /\ orders = <<>> =>
        \A i \in Slots \ missed :
            session.context[i].bootstrapped /\ session.context[i].used =>
                \/ "config" \in session.context[i].queued \/ "bootstrap" \in session.context[i].queued
                \/ \A f \in FrameOf(i) : docs[f].settings = settings.version

\* The counter of contexts is the number of table entries in use.
ContextsCounted == session.contexts = Cardinality({i \in 1..MaxContexts : session.context[i].used})

\* The counter of the table counts it, and nothing in it is marked in flight for
\* ever.
TableSound == ContextsCounted /\ TokenBacked

\* With the extension enabled throughout, no fault and no identifier used again
\* at once, a top document the bundle is made for gets it, whatever message or
\* navigation overtakes its bootstrap.  (Enabled only later it need not: a
\* document that was bootstrapped as disabled and took longer to load than the
\* timer of the host never says that it is ready.)
Wanted == docs[Top].kind = "site" \/ (InjectBlank /\ docs[Top].kind = "blank")
TopGetsBundle == ([](settings.on /\ faults = 0) /\ <>[]Wanted) => <>[](docs[Top].loaded /\ docs[Top].runs = 1)
============================================================================
