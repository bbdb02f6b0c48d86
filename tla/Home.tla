-------------------------------- MODULE Home --------------------------------
(***************************************************************************)
(* The home window (home.c) over its browser sessions.                     *)
(*                                                                         *)
(* One thread handles the window's messages; opening, closing and checking *)
(* for an extension run on a worker thread, one at a time, which reports   *)
(* by a posted message.  Between the two, the sessions change by           *)
(* themselves.  The dialogs are modal: their own loops go on handling the  *)
(* timer and the posted message.  The account window is AccountWindow,     *)
(* the fetching of the package ExtensionStore, and a run of the            *)
(* examination client HostRun; here each is one step with its outcomes.    *)
(***************************************************************************)
EXTENDS BrowserSession, FiniteSets

CONSTANT
    Slots       \* HOME_MAX_SESSIONS of them

ASSUME HomeAssumption == Slots \subseteq Nat \ {0} /\ IsFiniteSet(Slots)

VARIABLES
    slots,      \* the session of each slot, 0 for none
    list,       \* what the list shows: slots, as of its last refresh
    cursor,     \* the line selected in it, 0 for none
    ui,         \* the dialog that is open, or "home", or "gone"
    config,     \* CX_HOME_CONFIG: the settings for new sessions
    work,       \* the operation of the worker thread
    closing,
    asked       \* history: the settings of the session that was asked for

homeVars == <<slots, list, cursor, ui, config, work, closing, asked>>
vars == <<browserVars, homeVars>>

Resting == [op |-> "none", slot |-> 0, settings |-> {}, at |-> "none", ok |-> TRUE, s |-> 0, todo |-> {}]

TypeOK ==
    /\ BrowserTypeOK
    /\ slots \in [Slots -> Sessions \cup {0}]
    /\ \A i \in DOMAIN list : list[i] \in Slots
    /\ cursor \in 0..Len(list)
    /\ ui \in {"home", "settings", "separate", "account", "exam", "gone"}
    /\ config \in Settings
    /\ work.op \in {"none", "open", "update", "close", "exit"}
    /\ work.slot \in Slots \cup {0} /\ work.s \in Sessions \cup {0}
    /\ closing \in BOOLEAN

Init ==
    /\ BrowserInit
    /\ slots = [i \in Slots |-> 0] /\ list = <<>> /\ cursor = 0
    /\ ui = "home" /\ config \in Settings
    /\ work = Resting /\ closing = FALSE
    /\ asked = {}

Working == work.op # "none"
Fresh   == {s \in Sessions : Unused(s)}
Full(f) == {i \in DOMAIN f : f[i] # 0}

\* Defect: the line is kept, whatever it shows now
Refresh_line(filled) ==
    LET new == CHOOSE l \in [1..Cardinality(Full(filled)) -> Full(filled)] : \A i, j \in DOMAIN l : i < j => l[i] < l[j]
    IN  /\ list' = new
        /\ cursor' = IF cursor \in DOMAIN new THEN cursor ELSE IF new = <<>> THEN 0 ELSE 1

\* home_refresh_list: the selected slot stays selected; the first one is when it is gone.
Refresh(filled) ==
    LET new == CHOOSE l \in [1..Cardinality(Full(filled)) -> Full(filled)] : \A i, j \in DOMAIN l : i < j => l[i] < l[j]
        kept == {i \in DOMAIN new : cursor # 0 /\ new[i] = list[cursor]}
    IN  /\ list' = new
        /\ cursor' = IF kept # {} THEN CHOOSE i \in kept : TRUE ELSE IF new = <<>> THEN 0 ELSE 1

-----------------------------------------------------------------------------
(* The window                                                              *)

\* Defect: a session is opened with the settings of the window
Thread_shared(op, slot, settings, filled) ==
    /\ work' = [Resting EXCEPT !.op = op, !.slot = slot, !.settings = {config}, !.at = "go",
                               !.todo = IF op = "exit" THEN Full(filled) ELSE {slot}]
    /\ UNCHANGED troubles

\* home_begin with no worker: its copy of the request, and the thread
Thread(op, slot, settings, filled) ==
    /\ work' = [Resting EXCEPT !.op = op, !.slot = slot, !.settings = settings, !.at = "go",
                               !.todo = IF op = "exit" THEN Full(filled) ELSE {slot}]
    /\ UNCHANGED troubles

\* The thread cannot be created: the window stays.
NoThread == troubles < MaxTroubles /\ troubles' = troubles + 1 /\ closing' = FALSE /\ work' = Resting

Begin(op, slot, settings) ==
    \/ Thread(op, slot, settings, slots) /\ UNCHANGED closing
    \/ NoThread

\* Defect: the first slot is taken
FreeSlot_first == {CHOOSE i \in Slots : \A j \in Slots : i <= j}

\* The first free slot, if there is one
FreeSlot == {i \in Slots : slots[i] = 0 /\ \A j \in Slots : j < i => slots[j] # 0}

Open(settings) == asked' = {settings} /\ \E i \in FreeSlot : Begin("open", i, {settings})

\* HOME_EDGE and HOME_CHROME
NewSession ==
    /\ ui = "home" /\ ~Working
    /\ Open(config)
    /\ UNCHANGED <<browser, call, slots, list, cursor, ui, config>>

Update ==
    /\ ui = "home" /\ ~Working
    /\ Begin("update", 0, {config})
    /\ UNCHANGED <<browser, call, slots, list, cursor, ui, config, asked>>

CloseSelected ==
    /\ ui = "home" /\ ~Working /\ cursor # 0
    /\ Begin("close", list[cursor], {})
    /\ UNCHANGED <<browser, call, slots, list, cursor, ui, config, asked>>

Select ==
    /\ ui = "home"
    /\ cursor' \in DOMAIN list
    /\ UNCHANGED <<browserVars, slots, list, ui, config, work, closing, asked>>

\* WM_CLOSE and the exit button, pressed while an operation is under way or not.
CloseWindow ==
    /\ ui = "home"
    /\ IF Working THEN closing' = TRUE /\ UNCHANGED <<work, troubles>>
       ELSE \/ Thread("exit", 0, {}, slots) /\ closing' = TRUE
            \/ NoThread
    /\ UNCHANGED <<browser, call, slots, list, cursor, ui, config, asked>>

\* A dialog, the account window or a run of the client is opened.
Dialog ==
    /\ ui = "home" /\ ~Working
    /\ ui' \in {"settings", "separate", "account", "exam"}
    /\ UNCHANGED <<browserVars, slots, list, cursor, config, work, closing, asked>>

\* It ends: cancelled, with settings for the window, or with some for one session.
DialogEnds ==
    /\ ui \in {"settings", "separate", "account", "exam"}
    /\ ui' = "home"
    /\ \/ UNCHANGED <<config, work, closing, asked, troubles>>
       \/ ui \in {"settings", "account"} /\ config' \in Settings /\ UNCHANGED <<work, closing, asked, troubles>>
       \/ ui = "separate" /\ \E c \in Settings : Open(c) /\ UNCHANGED config
    /\ UNCHANGED <<browser, call, slots, list, cursor>>

\* cx_browser_poll of one slot after the other: a session that has ended is
\* cleaned up and destroyed; one that cannot be cleaned up yet is polled again.
PollSlots(ended) ==
    \E held \in SUBSET {i \in ended : browser[slots[i]].dir # "none"} :
        /\ troubles' = troubles + Cardinality(held) /\ troubles' <= MaxTroubles
        /\ browser' = [s \in Sessions |-> IF s \notin {slots[i] : i \in ended} THEN browser[s]
                                          ELSE IF s \in {slots[i] : i \in held} THEN [browser[s] EXCEPT !.dir = "torn"]
                                          ELSE NoSession]
        /\ slots' = [i \in Slots |-> IF i \in ended \ held THEN 0 ELSE slots[i]]

Ended == {i \in Slots : slots[i] # 0 /\ JobEmpty(slots[i])}

\* home_poll_sessions
Poll ==
    /\ ui # "gone" /\ Ended # {} /\ ~Working
    /\ PollSlots(Ended) /\ Refresh(slots')
    /\ UNCHANGED <<call, ui, config, work, closing, asked>>

-----------------------------------------------------------------------------
(* home_work                                                               *)

Done(ok) == work' = [work EXCEPT !.at = "posted", !.ok = ok]

\* The browser and the verified package are found, or not; then the session is started.
Fetch ==
    /\ work.op \in {"open", "update"} /\ work.at = "go"
    /\ \/ Done(FALSE) /\ UNCHANGED <<browserVars, asked>>
       \/ work.op = "update" /\ Done(TRUE) /\ UNCHANGED <<browserVars, asked>>
       \/ /\ work.op = "open" /\ work' = [work EXCEPT !.at = "call"]
          /\ \E c \in work.settings : Fresh # {} /\ StartBegins(CHOOSE s \in Fresh : TRUE, c)
          /\ UNCHANGED <<troubles, asked>>
    /\ UNCHANGED <<slots, list, cursor, ui, config, closing>>

\* cx_browser_start returns: with a session, or after it has closed and destroyed it.
Started ==
    /\ work.op = "open" /\ work.at = "call"
    /\ \/ call.at = "started" /\ UNCHANGED browser /\ work' = [work EXCEPT !.at = "posted", !.s = call.s]
       \/ call.at = "closed" /\ Destroyed(call.s) /\ Done(FALSE)
    /\ call' = Idle
    /\ UNCHANGED <<troubles, slots, list, cursor, ui, config, closing, asked>>

CloseNext ==
    /\ work.op \in {"close", "exit"} /\ work.at = "go"
    /\ IF \E i \in work.todo : slots[i] # 0
       THEN \E i \in work.todo : /\ slots[i] # 0 /\ CloseBegins(slots[i]) /\ UNCHANGED <<browser, troubles>>
                                 /\ work' = [work EXCEPT !.at = "call", !.todo = @ \ {i}, !.slot = i]
       ELSE Done(work.ok) /\ UNCHANGED browserVars
    /\ UNCHANGED <<slots, list, cursor, ui, config, closing, asked>>

\* A session that could not be closed is kept.
Closed ==
    /\ work.op \in {"close", "exit"} /\ work.at = "call" /\ call.at = "closed"
    /\ IF call.ok THEN Destroyed(call.s) /\ slots' = [slots EXCEPT ![work.slot] = 0]
                  ELSE UNCHANGED <<browser, slots>>
    /\ work' = [work EXCEPT !.at = "go", !.ok = @ /\ call.ok]
    /\ call' = Idle
    /\ UNCHANGED <<troubles, list, cursor, ui, config, closing, asked>>

\* Defect: after an operation that failed the wish to leave is not looked at
OperationDone_forgets ==
    /\ work.at = "posted" /\ ui # "gone"
    /\ slots' = IF work.s # 0 THEN [slots EXCEPT ![work.slot] = work.s] ELSE slots
    /\ Refresh(slots')
    /\ IF work.op = "exit"
       THEN /\ work' = Resting /\ UNCHANGED troubles
            /\ IF work.ok THEN ui' = "gone" /\ UNCHANGED closing ELSE closing' = FALSE /\ UNCHANGED ui
       ELSE /\ UNCHANGED ui
            /\ IF closing /\ work.ok THEN \/ Thread("exit", 0, {}, slots') /\ UNCHANGED closing
                                          \/ NoThread
               ELSE work' = Resting /\ UNCHANGED <<closing, troubles>>
    /\ asked' = {} /\ UNCHANGED <<browser, call, config>>

\* HOME_OPERATION_DONE: the thread is awaited and its session takes its slot.  A
\* window that is to be closed goes on to close, whatever the operation has come to.
OperationDone ==
    /\ work.at = "posted" /\ ui # "gone"
    /\ slots' = IF work.s # 0 THEN [slots EXCEPT ![work.slot] = work.s] ELSE slots
    /\ Refresh(slots')
    /\ IF work.op = "exit"
       THEN /\ work' = Resting /\ UNCHANGED troubles
            /\ IF work.ok THEN ui' = "gone" /\ UNCHANGED closing ELSE closing' = FALSE /\ UNCHANGED ui
       ELSE /\ UNCHANGED ui
            /\ IF closing THEN \/ Thread("exit", 0, {}, slots') /\ UNCHANGED closing
                               \/ NoThread
               ELSE work' = Resting /\ UNCHANGED <<closing, troubles>>
    /\ asked' = {} /\ UNCHANGED <<browser, call, config>>

-----------------------------------------------------------------------------
Worker ==
    \/ Fetch \/ Started \/ CloseNext \/ Closed
    \/ /\ \E s \in Sessions : Prepare(s) \/ Launch(s) \/ Command(s) \/ CommandFails(s)
                              \/ Ask(s) \/ Wait(s) \/ Kill(s) \/ Killed(s) \/ Clean(s)
       /\ UNCHANGED homeVars
Window ==
    NewSession \/ Update \/ CloseSelected \/ Select \/ CloseWindow \/ Dialog \/ DialogEnds \/ Poll \/ OperationDone
Browsers ==
    /\ \E s \in Sessions : Answer(s) \/ Event(s) \/ Spawn(s) \/ Exit(s)
    /\ UNCHANGED homeVars

\* The program has ended.
Gone == ui = "gone" /\ UNCHANGED vars

Next == Worker \/ Window \/ Browsers \/ Gone

\* The worker thread runs, its deadlines pass, and the window handles its messages.
Fairness == WF_vars(Worker) /\ WF_vars(OperationDone)

Spec == Init /\ [][Next]_vars /\ Fairness

-----------------------------------------------------------------------------
\* No browser is left to itself: one that runs is in a slot, or the worker is
\* starting it or is about to hand it over; none is left when the window is gone.
NoBrowserLost ==
    \A s \in Sessions : browser[s].procs # {} \/ browser[s].open =>
        /\ ui # "gone"
        /\ s \in {slots[i] : i \in Slots} \cup {call.s, work.s}

\* The worker and the slots refer to sessions that are not destroyed, each to its own.
UsesOnlyOpen ==
    /\ \A s \in {call.s, work.s} \cup {slots[i] : i \in Slots} : s # 0 => browser[s].open
    /\ \A i, j \in Slots : slots[i] # 0 /\ slots[i] = slots[j] => i = j

\* Sessions are neither lost nor used after their end, and the directory of a
\* browser stays as long as a process of it runs.
SessionsHeld == NoBrowserLost /\ UsesOnlyOpen /\ ProfileOutlivesBrowser

\* A session is started with the settings it was asked for with, and no page is
\* opened in it before its extension has them.
SettingsAsAsked == (call.op = "start" => call.settings = asked) /\ SettingsInPlace

Selected == IF cursor = 0 THEN 0 ELSE slots[list[cursor]]

\* When the list is filled again the selection stays with its session.
SelectionKept ==
    [][list' # list /\ Selected # 0 /\ Selected \in {slots'[i] : i \in Slots} => Selected' = Selected]_vars

\* The exit is carried out or given up with the reason shown, whatever operation
\* was under way when it was asked for.
ExitEnds == closing ~> (~closing \/ ui = "gone")
=============================================================================
