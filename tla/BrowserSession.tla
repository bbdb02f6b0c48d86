--------------------------- MODULE BrowserSession ---------------------------
(***************************************************************************)
(* A temporary browser session (browser-session.c): a browser in a job of  *)
(* its own with a profile directory of its own, configured over the        *)
(* debugging pipe before it may show its first page, and closed together   *)
(* with its profile.                                                       *)
(*                                                                         *)
(* One thread at a time calls these functions.  The browser runs by        *)
(* itself: it answers late or never, sends events, has child processes     *)
(* that outlive it, and is closed by its user.  What the commands carry is *)
(* left out, and so are the ids: a command is sent once in a session, and  *)
(* its name is its id.                                                     *)
(***************************************************************************)
EXTENDS Naturals, Sequences

CONSTANTS
    Sessions,      \* one for every call of cx_browser_start
    Settings,      \* what can be stored for the extension
    MaxTroubles    \* bound: removals that fail because another program has a file open, and other faults

ASSUME BrowserAssumption == 0 \notin Sessions

Commands == <<"version", "load", "target", "attach", "context", "settings", "navigate", "blank">>
Processes == {"main", "child"}

VARIABLES
    browser,    \* CX_BROWSER_SESSION and the processes and the directory it stands for
    call,       \* the function under way: what it does to which session, and where it is
    troubles

browserVars == <<browser, call, troubles>>

Idle == [op |-> "none", s |-> 0, at |-> "none", ok |-> TRUE, settings |-> {}]
NoSession == [open |-> FALSE, procs |-> {}, dying |-> FALSE, ready |-> FALSE, dir |-> "none",
              owed |-> {}, pipe |-> <<>>, done |-> {}]

BrowserInit ==
    /\ browser = [s \in Sessions |-> NoSession]
    /\ call = Idle
    /\ troubles = 0

BrowserTypeOK ==
    /\ \A s \in Sessions :
        /\ browser[s].procs \subseteq Processes
        /\ browser[s].dir \in {"none", "whole", "torn"}
    /\ call.op \in {"none", "start", "close"}
    /\ call.s \in Sessions \cup {0} /\ call.settings \subseteq Settings

Unused(s)  == browser[s] = NoSession
JobEmpty(s) == browser[s].procs = {} /\ ~browser[s].dying
At(place)  == call' = [call EXCEPT !.at = place]
CommandNames == {Commands[i] : i \in DOMAIN Commands}
After(c)   == LET i == CHOOSE i \in DOMAIN Commands : Commands[i] = c IN Append(Commands, "started")[i + 1]

-----------------------------------------------------------------------------
(* cx_browser_start                                                        *)

\* A start that fails closes what it has begun.
StartFails(s) == call' = [call EXCEPT !.at = "ask", !.ok = FALSE]

StartBegins(s, settings) ==
    /\ Unused(s)
    /\ browser' = [browser EXCEPT ![s].open = TRUE]
    /\ call' = [op |-> "start", s |-> s, at |-> "prepare", ok |-> TRUE, settings |-> {settings}]

\* bs_prepare: the directories, and the extension of the expected id in one of them
Prepare(s) ==
    /\ call.op = "start" /\ call.s = s /\ call.at = "prepare"
    /\ \/ browser' = [browser EXCEPT ![s].dir = "whole"] /\ At("launch")
       \/ browser' = [browser EXCEPT ![s].dir = "whole"] /\ StartFails(s)
       \/ UNCHANGED browser /\ StartFails(s)
    /\ UNCHANGED troubles

\* bs_launch: suspended, put into the job, then resumed.  A process that cannot
\* be put into the job is ended before it has run.
Launch(s) ==
    /\ call.op = "start" /\ call.s = s /\ call.at = "launch"
    /\ \/ browser' = [browser EXCEPT ![s].procs = {"main"}, ![s].owed = {"version"}] /\ At("version")
       \/ UNCHANGED browser /\ StartFails(s)
    /\ UNCHANGED troubles

\* bs_read: the first answer to this command; everything before it is discarded.
Received(s, command) ==
    {i \in DOMAIN browser[s].pipe : /\ browser[s].pipe[i].id = command
                                    /\ \A j \in 1..(i - 1) : browser[s].pipe[j].id # command}

\* A command has been answered and the next one is sent.  The context of the
\* extension is asked for until it is there.
Command(s) ==
    /\ call.op = "start" /\ call.s = s /\ call.at \in CommandNames
    /\ \E i \in Received(s, call.at) :
        /\ browser[s].pipe[i].ok
        /\ browser' = [browser EXCEPT ![s].pipe = SubSeq(@, i + 1, Len(@)), ![s].ready = TRUE,
                                      ![s].owed = @ \cup ({After(call.at)} \ {"started"})]
    /\ At(After(call.at))
    /\ UNCHANGED troubles

\* The browser has ended, the deadline has passed, or the answer is an error or
\* not the one wanted: another id of the extension, a page that does not open.
CommandFails(s) ==
    /\ call.op = "start" /\ call.s = s /\ call.at \in CommandNames
    /\ StartFails(s)
    /\ UNCHANGED <<browser, troubles>>

-----------------------------------------------------------------------------
(* cx_browser_close                                                        *)

CloseBegins(s) == call' = [Idle EXCEPT !.op = "close", !.s = s, !.at = "ask"]

\* Browser.close, when there is someone to ask; its answer does not matter, and
\* those to earlier commands do not any more.
Ask(s) ==
    /\ call.s = s /\ call.at = "ask"
    /\ browser' = [browser EXCEPT ![s].pipe = <<>>,
                        ![s].owed = IF browser[s].ready /\ "main" \in browser[s].procs THEN {"quit"} ELSE {}]
    /\ At("wait")
    /\ UNCHANGED troubles

\* bs_wait_job_empty, three seconds
Wait(s) ==
    /\ call.s = s /\ call.at = "wait"
    /\ At(IF JobEmpty(s) THEN "clean" ELSE "kill")
    /\ UNCHANGED <<browser, troubles>>

Kill(s) ==
    /\ call.s = s /\ call.at = "kill"
    /\ browser' = [browser EXCEPT ![s].dying = browser[s].procs # {}, ![s].procs = {}]
    /\ At("killed")
    /\ UNCHANGED troubles

\* Five seconds more
Killed(s) ==
    /\ call.s = s /\ call.at = "killed"
    /\ IF JobEmpty(s) THEN At("clean") ELSE call' = [call EXCEPT !.at = "closed", !.ok = FALSE]
    /\ UNCHANGED <<browser, troubles>>

\* bs_cleanup: the directory is removed, unless a file in it is held open.
Removed(s) ==
    \/ browser' = [browser EXCEPT ![s].dir = "none"] /\ UNCHANGED troubles
    \/ /\ troubles < MaxTroubles /\ browser[s].dir # "none"
       /\ browser' = [browser EXCEPT ![s].dir = "torn"] /\ troubles' = troubles + 1

Clean(s) ==
    /\ call.s = s /\ call.at = "clean"
    /\ Removed(s)
    /\ call' = [call EXCEPT !.at = "closed", !.ok = @ /\ browser'[s].dir = "none"]

\* cx_browser_destroy: closing the job ends whatever is left in it, and what is
\* left of the directory stays behind.
Destroyed(s) ==
    \E dir \in {"none"} \cup (IF browser[s].dir = "none" THEN {} ELSE {"torn"}) :
        browser' = [browser EXCEPT ![s] = [NoSession EXCEPT !.dir = dir]]

-----------------------------------------------------------------------------
(* The browser                                                             *)

\* Of what it has done only the two commands matter that must not be swapped.
Answer(s) ==
    \E command \in browser[s].owed, ok \in BOOLEAN :
        /\ "main" \in browser[s].procs /\ call.s = s
        /\ browser' = [browser EXCEPT
            ![s].owed = @ \ {command},
            ![s].pipe = IF command = "quit" THEN @ ELSE Append(@, [id |-> command, ok |-> ok]),
            ![s].procs = IF command = "quit" /\ ok THEN {} ELSE @,
            ![s].done = IF ok THEN @ \cup ({command} \cap {"settings", "navigate"}) ELSE @]
        /\ UNCHANGED <<call, troubles>>

\* Events carry no id.
Event(s) ==
    /\ "main" \in browser[s].procs /\ browser[s].pipe = <<>> /\ call.s = s /\ call.op = "start"
    /\ browser' = [browser EXCEPT ![s].pipe = <<[id |-> "event", ok |-> TRUE]>>]
    /\ UNCHANGED <<call, troubles>>

Spawn(s) ==
    /\ browser[s].procs = {"main"} /\ browser[s].ready
    /\ browser' = [browser EXCEPT ![s].procs = Processes]
    /\ UNCHANGED <<call, troubles>>

\* A process ends: closed by the user, or killed and now gone.
Exit(s) ==
    /\ \/ \E p \in browser[s].procs : browser' = [browser EXCEPT ![s].procs = @ \ {p}]
       \/ browser[s].dying /\ browser' = [browser EXCEPT ![s].dying = FALSE]
    /\ UNCHANGED <<call, troubles>>

-----------------------------------------------------------------------------
\* The profile is not touched while a browser runs in it.
ProfileOutlivesBrowser == \A s \in Sessions : browser[s].procs # {} => browser[s].dir = "whole"

\* A page is opened only in a browser whose extension has its settings.
SettingsInPlace == \A s \in Sessions : "navigate" \in browser[s].done => "settings" \in browser[s].done
=============================================================================
