---------------------------- MODULE ClientPicker ---------------------------
(***************************************************************************)
(* Choosing the client in a window (host.c h_pick_client, selection.c):    *)
(* the list, the way of injection and its carrier, which depend on what    *)
(* the selected client can do, and the search of the whole disk with a     *)
(* progress window of its own thread that the user may cancel.             *)
(*                                                                         *)
(* What Discovery finds is any set of clients here.                        *)
(***************************************************************************)
EXTENDS Integers, FiniteSets

CONSTANTS
    Clients,    \* clients on the disk
    Traits,     \* of each: packed, x86, writable (its directory), imports
    Dlls,       \* the proxy libraries beside the host or inside it
    KnownDlls,  \* those Windows loads from System32 only
    MaxScans    \* bound: searches of the whole disk

VARIABLES
    list,       \* result: the candidates of the search before the window
    full,       \* fullResult
    shown,      \* which of the two the window shows
    notice,     \* the window says that the scan was cancelled
    win,        \* SELECTION_WINDOW
    prog,       \* CX_SCAN_PROGRESS and the scan
    before,     \* history: what the window showed when the scan was asked for
    asked,      \* history: the user cancelled the scan
    scans

pickerVars == <<list, full, shown, notice, win, prog, before, asked, scans>>

None == "none"
\* selection_load_carriers, selection_add_carrier
Carriers == Dlls \ KnownDlls
\* selection_client_caps
CarriersOf(c) == IF Traits[c].x86 /\ Traits[c].writable THEN Carriers \cap Traits[c].imports ELSE {}
\* cx_selection_client_caps: what is greyed out
InjectDisabled(c) ==
    (IF Traits[c].packed THEN {"cdp-port"} ELSE {}) \cup (IF CarriersOf(c) = {} THEN {"dll-proxy"} ELSE {})
CarrierDisabled(c) == Carriers \ CarriersOf(c)

Shown == IF shown = "full" THEN full ELSE list
\* d_choose: the recommended client is an x86 one where there is one
Recommended(s) ==
    IF s = {} THEN {None} ELSE IF \E c \in s : Traits[c].x86 THEN {c \in s : Traits[c].x86} ELSE s

Window(at, c) == [at |-> at, sel |-> c, mode |-> "auto", carrier |-> "auto",
    noMode |-> IF c = None THEN {} ELSE InjectDisabled(c),
    noCarrier |-> IF c = None THEN {} ELSE CarrierDisabled(c), path |-> None, browsed |-> FALSE]
NoProgress == [at |-> "none", open |-> FALSE, cancelRequested |-> FALSE, cancelled |-> FALSE]

PickerTypeOK ==
    /\ list \subseteq Clients /\ full \subseteq Clients /\ before \subseteq Clients /\ scans \in 0..MaxScans
    /\ win.at \in {"open", "scan", "selected", "cancelled", "error"}
    /\ win.mode \in {"auto", "cdp-port", "dll-proxy"} /\ win.carrier \in Carriers \cup {"auto"}
    /\ prog.at \in {"none", "scanning", "over", "finished"}

PickerInit ==
    /\ list \in SUBSET Clients /\ full = {} /\ shown = "list" /\ notice = FALSE
    /\ \E c \in Recommended(list) : win = Window("open", c)
    /\ prog = NoProgress /\ before = {} /\ asked = FALSE /\ scans = 0

-----------------------------------------------------------------------------
(* The selection window                                                    *)

Open == win.at = "open"
\* selection_fill_carriers: the carrier is chosen again
Filled(w) == [w EXCEPT !.carrier = "auto"]

\* Defect: a way of injection that the next client cannot do stays selected
Capable_noFallback(w, c) ==
    Filled([w EXCEPT !.sel = c, !.noMode = InjectDisabled(c), !.noCarrier = CarrierDisabled(c)])
\* selection_apply_caps
Capable(w, c) ==
    Filled([w EXCEPT !.sel = c, !.noMode = InjectDisabled(c), !.noCarrier = CarrierDisabled(c),
                     !.mode = IF @ \in InjectDisabled(c) THEN "auto" ELSE @])

Select ==
    /\ Open /\ \E c \in Shown : win' = Capable(win, c)
    /\ UNCHANGED <<list, full, shown, notice, prog, before, asked, scans>>

\* A choice that is greyed out springs back
PickMode ==
    /\ Open /\ \E m \in {"auto", "cdp-port", "dll-proxy"} \ win.noMode : win' = Filled([win EXCEPT !.mode = m])
    /\ UNCHANGED <<list, full, shown, notice, prog, before, asked, scans>>

PickCarrier ==
    /\ Open /\ win.mode = "dll-proxy"
    /\ \E k \in (Carriers \cup {"auto"}) \ win.noCarrier : win' = [win EXCEPT !.carrier = k]
    /\ UNCHANGED <<list, full, shown, notice, prog, before, asked, scans>>

\* selection_accept: the path is resolved again; one that is not a client any
\* more leaves the window open
Accept ==
    /\ Open /\ win.sel # None
    /\ win' = [win EXCEPT !.at = "selected", !.path = win.sel]
    /\ UNCHANGED <<list, full, shown, notice, prog, before, asked, scans>>

\* selection_browse: any client, whatever is selected in the list
Browse ==
    /\ Open
    /\ \E c \in Clients : win' = [win EXCEPT !.at = "selected", !.path = c, !.browsed = TRUE]
    /\ UNCHANGED <<list, full, shown, notice, prog, before, asked, scans>>

Leave ==
    /\ Open /\ win' = [win EXCEPT !.at = "cancelled"]
    /\ UNCHANGED <<list, full, shown, notice, prog, before, asked, scans>>

-----------------------------------------------------------------------------
(* The search of the whole disk                                            *)

\* The window closes, the last full result is freed, and a progress window is
\* made, or cannot be: then the search runs without one.
ScanAll ==
    /\ Open /\ scans < MaxScans /\ scans' = scans + 1
    /\ win' = [win EXCEPT !.at = "scan"]
    /\ before' = Shown /\ asked' = FALSE /\ full' = {}
    /\ \E o \in BOOLEAN : prog' = [NoProgress EXCEPT !.at = "scanning", !.open = o]
    /\ UNCHANGED <<list, shown, notice>>

\* The button cancels whenever it is pressed; the window is then gone
PressCancel ==
    /\ prog.open /\ prog' = [prog EXCEPT !.open = FALSE, !.cancelRequested = TRUE]
    /\ asked' = TRUE
    /\ UNCHANGED <<list, full, shown, notice, win, before, scans>>

\* WM_CLOSE from the user: no cancellation once the search is finished
Closed(p) == [p EXCEPT !.open = FALSE, !.cancelRequested = @ \/ p.at # "finished"]

CloseByUser ==
    /\ prog.open /\ prog' = Closed(prog) /\ asked' = (prog.at # "finished")
    /\ UNCHANGED <<list, full, shown, notice, win, before, scans>>

\* cx_discovery_scan: it ends early when it sees the request
SearchEnds ==
    /\ prog.at = "scanning"
    /\ \/ prog' = [prog EXCEPT !.at = "over"]
       \/ prog.cancelRequested /\ prog' = [prog EXCEPT !.at = "over", !.cancelled = TRUE]
    /\ full' \in SUBSET Clients
    /\ UNCHANGED <<list, shown, notice, win, before, asked, scans>>

\* cx_scan_progress_end: finished, and WM_CLOSE is posted to the progress window
Finish ==
    /\ prog.at = "over" /\ prog' = [prog EXCEPT !.at = "finished"]
    /\ UNCHANGED <<list, full, shown, notice, win, before, asked, scans>>

CloseByProgram ==
    /\ prog.at = "finished" /\ prog.open /\ prog' = Closed(prog)
    /\ UNCHANGED <<list, full, shown, notice, win, before, asked, scans>>

\* The thread of the progress window has ended, and the request is read.  After
\* a cancellation the result is freed; shown stays what it was.
Reopen ==
    /\ prog.at = "finished" /\ ~prog.open
    /\ IF prog.cancelRequested \/ prog.cancelled
       THEN notice' = TRUE /\ full' = {} /\ UNCHANGED shown
       ELSE notice' = FALSE /\ shown' = "full" /\ UNCHANGED full
    /\ prog' = NoProgress
    /\ \/ \E c \in Recommended(IF shown' = "full" THEN full' ELSE list) : win' = Window("open", c)
       \/ win' = Window("error", None)
    /\ UNCHANGED <<list, before, asked, scans>>

PickerNext ==
    \/ Select \/ PickMode \/ PickCarrier \/ Accept \/ Browse \/ Leave
    \/ ScanAll \/ PressCancel \/ CloseByUser \/ SearchEnds \/ Finish \/ CloseByProgram \/ Reopen

-----------------------------------------------------------------------------

\* A client that was chosen from the list is launched in a way it supports: the
\* mode and the carrier the host is given are never among those that are greyed
\* out for that client, whatever was selected before it.
ChosenIsSupported ==
    win.at = "selected" /\ ~win.browsed
    => /\ win.mode \notin InjectDisabled(win.path)
       /\ win.carrier # "auto" => win.mode = "dll-proxy" /\ win.carrier \in CarriersOf(win.path)

\* A search is thrown away exactly when the user cancelled it: not because the
\* host closed the progress window itself, nor because it ended at that moment.
CancelIsTheUsers == Open /\ scans > 0 => notice = asked

\* "已取消全盘扫描，保留原候选": after a cancelled search the window shows the
\* clients it showed before (the notice of h_pick_client).
CancelKeepsList == Open /\ notice => Shown = before

=============================================================================
