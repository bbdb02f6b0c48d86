------------------------------- MODULE HostRun -------------------------------
(***************************************************************************)
(* A run of the Windows host from its start to its exit (host.c, with      *)
(* elevation.c): a client is chosen, launched and watched, a launch        *)
(* without an endpoint is repeated once with a helper file beside the      *)
(* client, a client that needs administrator rights makes the host start   *)
(* itself again through UAC, and what the run has made is undone.          *)
(*                                                                         *)
(* Every step may fail, and the code leaves through one exit path for all  *)
(* of them; the user may close the client between any two steps.  The      *)
(* helper is a DLL beside the client under the name of a carrier, that is, *)
(* of a library the client loads; a marker in that directory says that one *)
(* of ours is there, and under which carrier.  What runs inside the pages  *)
(* is HostSession.  Left out: the modes that hide or delete the program    *)
(* itself, and how a carrier is chosen.                                    *)
(***************************************************************************)
EXTENDS Integers, FiniteSets

CONSTANTS
    Configurations,   \* option sets that cx_options_finalize accepts, and the machine they meet
    MaxRuns,          \* bound: runs begun from the home window
    MaxFaults         \* bound: steps that fail

Modes == {"default", "auto", "cdp-port", "cdp-pipe", "dll-proxy", "input"}

\* What lies beside the client: the DLL under the carrier's name, a part of ours
\* when it could not be written; the one under another carrier's name; and the
\* marker, with the carrier it names.
Files  == {"none", "ours", "torn", "foreign"}
Beside == [file : Files, other : Files, marker : {"none", "this", "other"}]
Configuration ==
    [mode : Modes, home : BOOLEAN, attach : BOOLEAN, dpi : BOOLEAN, stop : BOOLEAN,
     noElevate : BOOLEAN, elevateOnStart : BOOLEAN, retain : BOOLEAN, deleteConfig : BOOLEAN,
     packed : BOOLEAN,    \* the client ignores the command line
     admin : BOOLEAN,     \* the client needs administrator rights
     token : BOOLEAN,     \* the host has them from the start
     running : BOOLEAN,   \* the client is running already, not from this host
     beside : Beside]     \* what lies beside the client

\* The home window is shown only when the command line names no file (WinMain),
\* and --delete-config asks for one to be named (cx_options_finalize).
ASSUME HostRunAssumption ==
    /\ Configurations \subseteq {c \in Configuration : c.home => ~c.deleteConfig}
    /\ MaxRuns \in Nat /\ MaxFaults \in Nat

VARIABLES
    conf,       \* the configuration, which does not change
    host,       \* the process that runs: the first one or its administrator restart
    at,         \* the step it is at
    run,        \* the globals of h_run
    client,     \* the client this host launched
    beside,     \* the files beside the client and the marker
    layer,      \* the DPI compatibility setting of the client
    files,      \* files of this run: log and report
    config,     \* whether the file given with --config exists
    restarts,   \* history: administrator restarts asked for since the home window or the start
    refused,    \* history: whether one was refused
    reason,     \* history: why the helper stays, since it was last installed
    runs, faults

vars == <<conf, host, at, run, client, beside, layer, files, config, restarts, refused, reason, runs, faults>>

Globals == [ok : BOOLEAN, code : 0..4, handoff : BOOLEAN, proxy : BOOLEAN, installed : BOOLEAN,
            handle : BOOLEAN, launched : BOOLEAN, attempt : 0..1, seen : BOOLEAN]
Fresh   == [ok |-> FALSE, code |-> 0, handoff |-> FALSE, proxy |-> FALSE, installed |-> FALSE,
            handle |-> FALSE, launched |-> FALSE, attempt |-> 0, seen |-> FALSE]
Reasons == {"none", "unmarked", "torn", "open", "undeleted"}
Places  == {"start", "home", "begin", "scan", "pick", "assets", "pipe", "piped", "mode", "check", "dpi", "create", "undo-dpi",
            "launched", "watch", "watched", "stop", "report", "uninstall", "cleanup", "restart", "over"}

TypeOK ==
    /\ conf \in Configuration
    /\ host \in {"first", "restarted"} /\ at \in Places
    /\ run \in Globals
    /\ client \in {"none", "running", "gone"}
    /\ beside \in Beside
    /\ layer \in {"original", "temporary"}
    /\ files \subseteq {"log", "report"} /\ config \in BOOLEAN
    /\ restarts \in Nat /\ refused \in BOOLEAN /\ reason \in Reasons /\ runs \in Nat /\ faults \in Nat

Elevated == host = "restarted" \/ conf.token
Fault    == faults < MaxFaults /\ faults' = faults + 1
NoFault  == UNCHANGED faults

\* The exit path of h_run begins, with the value of ok and the exit code.
Exit(ok, code) == at' = "stop" /\ run' = [run EXCEPT !.ok = ok, !.code = code]

Kept(others) == UNCHANGED <<conf, host, restarts, refused, runs>> /\ UNCHANGED others
KeptAll(others) == Kept(others) /\ UNCHANGED reason

-----------------------------------------------------------------------------
(* WinMain, before a run                                                   *)

\* cx_elevation_restart(): Windows asks for consent, the restart gets the
\* same arguments and this process waits for it.
Restart ==
    /\ at = "restart"
    /\ restarts' = restarts + 1
    /\ \/ host' = "restarted" /\ at' = "start" /\ UNCHANGED refused
       \/ refused' = TRUE /\ UNCHANGED host
          /\ at' = IF conf.home /\ ~conf.elevateOnStart THEN "home" ELSE "over"
    /\ UNCHANGED <<conf, run, client, beside, layer, files, config, reason, runs, faults>>

Start ==
    /\ at = "start"
    /\ at' = IF conf.elevateOnStart /\ ~conf.attach /\ ~Elevated THEN "restart"
             ELSE IF conf.home /\ (host = "first" \/ conf.elevateOnStart) THEN "home" ELSE "begin"
    /\ KeptAll(<<run, client, beside, layer, files, config, faults>>)

\* The home window begins an exam or is closed.
Home ==
    /\ at = "home"
    /\ \/ runs < MaxRuns /\ at' = "begin" /\ runs' = runs + 1 /\ restarts' = 0
       \/ at' = "over" /\ UNCHANGED <<runs, restarts>>
    /\ UNCHANGED <<conf, host, run, client, beside, layer, files, config, refused, reason, faults>>

-----------------------------------------------------------------------------
(* h_run                                                                   *)

\* The globals are set for a new run and the log is begun.
Begin ==
    /\ at = "begin"
    /\ \/ NoFault /\ run' = Fresh /\ at' = "scan" /\ files' = {"log"}
       \/ Fault /\ run' = Fresh /\ at' = "stop" /\ files' = {}
    /\ KeptAll(<<client, beside, layer, config>>)

\* cx_discovery_scan; a restart is given the client that was chosen before.
Scan ==
    /\ at = "scan"
    /\ \/ NoFault /\ at' = (IF conf.attach \/ (host = "restarted" /\ ~conf.elevateOnStart) THEN "assets" ELSE "pick")
          /\ UNCHANGED run
       \/ ~conf.attach /\ Fault /\ Exit(FALSE, 0)
    /\ KeptAll(<<client, beside, layer, files, config>>)

\* h_pick_client: a client is chosen, the user cancels the choice, or none can
\* be, a scan of all disks asked for in the window that fails included.
PickClient ==
    /\ at = "pick"
    /\ \/ NoFault /\ at' = "assets" /\ UNCHANGED run
       \/ NoFault /\ Exit(TRUE, 3)
       \/ Fault /\ Exit(FALSE, 0)
    /\ KeptAll(<<client, beside, layer, files, config>>)

\* h_config_begin, the assets, and whether a pipe is asked for
Assets ==
    /\ at = "assets"
    /\ \/ NoFault /\ at' = (IF conf.mode = "cdp-pipe" THEN "pipe" ELSE "mode") /\ UNCHANGED run
       \/ Fault /\ Exit(FALSE, 0)
    /\ KeptAll(<<client, beside, layer, files, config>>)

\* h_pipe_open, whose refusal for want of rights asks for a restart
PipeOpen ==
    /\ at = "pipe"
    /\ \/ conf.admin /\ ~Elevated /\ NoFault
          /\ at' = "stop" /\ run' = [run EXCEPT !.handoff = TRUE] /\ UNCHANGED client
       \/ ~(conf.admin /\ ~Elevated) /\ NoFault
          /\ at' = "piped" /\ client' = "running" /\ run' = [run EXCEPT !.handle = TRUE, !.launched = TRUE]
       \/ Fault /\ Exit(FALSE, 0) /\ UNCHANGED client
    /\ KeptAll(<<beside, layer, files, config>>)

\* h_pipe_bootstrap: the first page is found, attached to and given the settings,
\* the bootstrap and the bundle, each call answered in time or the rest is left
\* out; h_pipe_close ends the client in either case.
PipeBootstrap ==
    /\ at = "piped"
    /\ \/ client = "running" /\ NoFault /\ at' = "stop" /\ run' = [run EXCEPT !.ok = TRUE, !.handle = FALSE]
       \/ client = "gone" /\ NoFault /\ at' = "stop" /\ run' = [run EXCEPT !.handle = FALSE]
       \/ Fault /\ at' = "stop" /\ run' = [run EXCEPT !.handle = FALSE]
    /\ client' = "gone"
    /\ KeptAll(<<beside, layer, files, config>>)

\* Defect: any file of that name is taken for ours
Free_anyFile == TRUE

\* h_proxy_destination_free: a marker frees whatever lies there, also one that
\* names another carrier.
Marked == beside.marker # "none"
Free   == beside.file = "none" \/ Marked

\* h_install_proxy: the file is put beside the client, then the marker, whose
\* own failure goes unnoticed and leaves the marker that was there.
Install ==
    /\ Free
    /\ \/ beside' = [beside EXCEPT !.file = "ours", !.marker = "this"] /\ reason' = "none" /\ NoFault
       \/ beside' = [beside EXCEPT !.file = "ours"] /\ reason' = "unmarked" /\ Fault

\* A file that cannot be opened stays as it is.  One that cannot be written to
\* its end is deleted, with it what lay there before, if it can be.
CannotInstall ==
    \/ ~Free /\ NoFault /\ UNCHANGED <<beside, reason>>
    \/ Fault /\ UNCHANGED <<beside, reason>>
    \/ Free /\ Fault /\ beside' = [beside EXCEPT !.file = "none"] /\ reason' = "none"
    \/ Free /\ Fault /\ beside' = [beside EXCEPT !.file = "torn"] /\ reason' = "torn"

\* The mode of injection: a client that ignores the command line, or a mode
\* that asks for it, goes by the file beside it.
Mode ==
    /\ at = "mode"
    /\ LET there   == beside.file # "none"
           ready   == \/ conf.mode = "auto" /\ ~conf.attach /\ there /\ Marked
                      \/ there /\ ~conf.attach /\ conf.packed /\ conf.mode \in {"default", "auto"}
                      \/ there /\ conf.mode = "dll-proxy"
           wanted  == \/ conf.mode = "dll-proxy"
                      \/ ~conf.attach /\ conf.packed /\ conf.mode \in {"default", "auto"}
           By(installed) == at' = "check" /\ run' = [run EXCEPT !.proxy = TRUE, !.installed = installed]
       IN CASE conf.mode = "input" -> Exit(FALSE, 4) /\ NoFault /\ UNCHANGED <<beside, reason>>
            [] ready -> By(FALSE) /\ NoFault /\ UNCHANGED <<beside, reason>>
            [] wanted /\ ~ready ->
                 \/ Install /\ By(TRUE)
                 \/ CannotInstall /\ IF conf.mode = "dll-proxy" THEN Exit(FALSE, 4)
                                     ELSE at' = "check" /\ UNCHANGED run
            [] OTHER -> at' = "check" /\ NoFault /\ UNCHANGED <<run, beside, reason>>
    /\ Kept(<<client, layer, files, config>>)

\* proc_check_instances and h_choose_port
Check ==
    /\ at = "check"
    /\ CASE conf.attach -> at' = "watch" /\ NoFault /\ UNCHANGED run
         [] ~conf.attach /\ (conf.running \/ client = "running") -> Exit(FALSE, 0) /\ NoFault
         [] OTHER -> \/ at' = (IF conf.dpi THEN "dpi" ELSE "create") /\ NoFault /\ UNCHANGED run
                     \/ Fault /\ Exit(FALSE, 0)
    /\ KeptAll(<<client, beside, layer, files, config>>)

\* cx_dpi_begin
DpiBegin ==
    /\ at = "dpi"
    /\ \/ layer' = "temporary" /\ at' = "create" /\ NoFault /\ UNCHANGED run
       \/ Fault /\ Exit(FALSE, 0) /\ UNCHANGED layer
    /\ KeptAll(<<client, beside, files, config>>)

\* proc_launch: without administrator rights a client that needs them is refused.
Create ==
    /\ at = "create" /\ at' = "undo-dpi"
    /\ \/ ~(conf.admin /\ ~Elevated) /\ NoFault
          /\ client' = "running" /\ run' = [run EXCEPT !.handle = TRUE, !.launched = TRUE]
       \/ ((conf.admin /\ ~Elevated /\ NoFault) \/ Fault) /\ UNCHANGED client
          /\ run' = [run EXCEPT !.launched = FALSE]
    /\ KeptAll(<<beside, layer, files, config>>)

\* cx_dpi_restore
DpiRestore ==
    /\ at = "undo-dpi"
    /\ \/ layer' = "original" /\ at' = "launched" /\ NoFault /\ UNCHANGED run
       \/ layer = "temporary" /\ Fault /\ Exit(FALSE, 0) /\ UNCHANGED layer
    /\ KeptAll(<<client, beside, files, config>>)

\* Defect: the restart is asked for without a look at the rights or at --elevated
CanRestart_again == ~conf.noElevate

\* The launch has failed or not; what a failure for want of rights does is
\* cx_elevation_can_restart's.
CanRestart == ~conf.noElevate /\ host = "first" /\ ~Elevated
Launched ==
    /\ at = "launched"
    /\ CASE run.launched -> at' = "watch" /\ NoFault /\ UNCHANGED run
         [] ~run.launched /\ conf.admin /\ CanRestart ->
              at' = "stop" /\ run' = [run EXCEPT !.handoff = TRUE, !.ok = TRUE] /\ NoFault
         [] OTHER -> Exit(FALSE, 0) /\ NoFault
    /\ KeptAll(<<client, beside, layer, files, config>>)

\* h_watch_targets: pages are served until the client is closed or the run has
\* lasted as long as it may, or there is no endpoint in time.  A client that
\* ignores the command line has none without the helper, and one launched for the
\* helper none with another file in its place.
Watch ==
    /\ at = "watch" /\ at' = "watched"
    /\ LET endpoint == conf.attach \/ (client = "running" /\ IF run.proxy THEN beside.file = "ours" ELSE ~conf.packed) IN
       \/ endpoint /\ NoFault /\ run' = [run EXCEPT !.ok = TRUE, !.seen = TRUE]
       \/ ~endpoint /\ NoFault /\ run' = [run EXCEPT !.ok = FALSE, !.seen = FALSE]
       \/ \E seen \in BOOLEAN : Fault /\ run' = [run EXCEPT !.ok = FALSE, !.seen = seen]
    /\ KeptAll(<<client, beside, layer, files, config>>)

\* Defect: the launch is repeated as long as there is no endpoint
SelfHeal_forever ==
    /\ at = "watched"
    /\ IF ~run.ok /\ ~conf.attach /\ ~run.seen /\ conf.mode \in {"default", "auto"}
       THEN /\ client' = IF run.handle THEN "gone" ELSE client
            /\ \/ Install /\ at' = "check" /\ run' = [run EXCEPT !.proxy = TRUE, !.installed = TRUE]
               \/ CannotInstall /\ at' = "stop" /\ UNCHANGED run
       ELSE at' = "stop" /\ NoFault /\ UNCHANGED <<client, beside, reason, run>>
    /\ Kept(<<layer, files, config>>)

\* h_selfheal_worthwhile and h_selfheal_retry: once, the client is ended, the
\* helper installed, and the launch repeated.
Worthwhile == ~run.ok /\ ~conf.attach /\ run.attempt = 0 /\ ~run.seen
SelfHeal ==
    /\ at = "watched"
    /\ IF Worthwhile /\ ~run.proxy /\ conf.mode \in {"default", "auto"}
       THEN /\ client' = IF run.handle THEN "gone" ELSE client
            /\ \/ Install /\ at' = "check"
                  /\ run' = [run EXCEPT !.attempt = 1, !.proxy = TRUE, !.installed = TRUE]
               \/ CannotInstall /\ at' = "stop" /\ UNCHANGED run
       ELSE at' = "stop" /\ NoFault /\ UNCHANGED <<client, beside, reason, run>>
    /\ Kept(<<layer, files, config>>)

\* Defect: the client is ended only with --stop-client-on-exit
Stop_onlyAsked ==
    /\ at = "stop" /\ at' = "report"
    /\ client' = IF run.handle /\ client = "running" /\ conf.stop THEN "gone" ELSE client
    /\ run' = [run EXCEPT !.handle = FALSE]
    /\ KeptAll(<<beside, layer, files, config, faults>>)

\* done: the owned client is ended if the run failed or it is to be.
Stop ==
    /\ at = "stop" /\ at' = "report"
    /\ client' = IF run.handle /\ client = "running" /\ (~run.ok \/ conf.stop) THEN "gone" ELSE client
    /\ run' = [run EXCEPT !.handle = FALSE]
    /\ KeptAll(<<beside, layer, files, config, faults>>)

\* The report is written, but not for a run that is handed over.
Report ==
    /\ at = "report" /\ at' = "uninstall"
    /\ \/ (run.handoff \/ files = {}) /\ NoFault /\ UNCHANGED files
       \/ ~run.handoff /\ files # {} /\ NoFault /\ files' = files \cup {"report"}
       \/ ~run.handoff /\ files # {} /\ Fault /\ UNCHANGED files
    /\ KeptAll(<<run, client, beside, layer, config>>)

\* The client has loaded the helper that the marker names.
Open == client = "running" /\ run.proxy /\ beside.marker = "this"

\* The file that the marker names is gone, and the marker.
WithoutNamed ==
    IF beside.marker = "this" THEN [beside EXCEPT !.file = "none", !.marker = "none"]
                              ELSE [beside EXCEPT !.other = "none", !.marker = "none"]

\* Defect: the exit path uninstalls only after a success
Uninstall_onSuccess ==
    /\ at = "uninstall" /\ at' = "cleanup"
    /\ IF run.ok /\ run.installed /\ Marked
       THEN \/ Open /\ reason' = "open" /\ UNCHANGED beside /\ NoFault
            \/ ~Open /\ beside' = WithoutNamed /\ UNCHANGED reason /\ NoFault
            \/ /\ reason' = "undeleted" /\ Fault
               /\ UNCHANGED beside \/ beside' = [beside EXCEPT !.marker = "none"]
       ELSE UNCHANGED <<beside, reason>> /\ NoFault
    /\ run' = [run EXCEPT !.installed = FALSE]
    /\ Kept(<<client, layer, files, config>>)

\* h_uninstall_proxy: only with the marker, and what the marker names.  A file
\* that some process has open is tried for five seconds; then it and the marker
\* stay if access is denied, as it is while the client has loaded it, and the
\* file alone after another error.
Uninstall ==
    /\ at = "uninstall" /\ at' = "cleanup"
    /\ IF run.installed /\ Marked
       THEN \/ Open /\ reason' = "open" /\ UNCHANGED beside /\ NoFault
            \/ ~Open /\ beside' = WithoutNamed /\ UNCHANGED reason /\ NoFault
            \/ /\ reason' = "undeleted" /\ Fault
               /\ UNCHANGED beside \/ beside' = [beside EXCEPT !.marker = "none"]
       ELSE UNCHANGED <<beside, reason>> /\ NoFault
    /\ run' = [run EXCEPT !.installed = FALSE]
    /\ Kept(<<client, layer, files, config>>)

\* h_cleanup_run_data, and where WinMain or h_home_exam goes on
Cleanup ==
    /\ at = "cleanup"
    /\ files' = IF conf.retain THEN files ELSE {}
    /\ config' = (config /\ ~(conf.deleteConfig /\ ~run.handoff))
    /\ at' = IF run.handoff THEN "restart"
             ELSE IF conf.home /\ (host = "first" \/ conf.elevateOnStart) THEN "home" ELSE "over"
    /\ KeptAll(<<run, client, beside, layer, faults>>)

\* The restarted process is over: the first one goes on where it waited.
Return ==
    /\ at = "over" /\ host = "restarted"
    /\ host' = "first"
    /\ at' = IF conf.home /\ ~conf.elevateOnStart THEN "home" ELSE "over"
    /\ UNCHANGED <<conf, run, client, beside, layer, files, config, restarts, refused, reason, runs, faults>>

\* The user closes the client.
ClientExits ==
    /\ client = "running" /\ client' = "gone"
    /\ UNCHANGED <<conf, host, at, run, beside, layer, files, config, restarts, refused, reason, runs, faults>>

-----------------------------------------------------------------------------
Init ==
    /\ conf \in Configurations
    /\ host = "first" /\ at = "start" /\ run = Fresh
    /\ client = "none" /\ beside = conf.beside /\ layer = "original"
    /\ files = {} /\ config = TRUE
    /\ restarts = 0 /\ refused = FALSE /\ reason = "none" /\ runs = 0 /\ faults = 0

Host ==
    \/ Restart \/ Start \/ Home \/ Begin \/ Scan \/ PickClient \/ Assets \/ PipeOpen \/ PipeBootstrap
    \/ Mode \/ Check \/ DpiBegin \/ Create
    \/ DpiRestore \/ Launched \/ Watch \/ SelfHeal \/ Stop \/ Report \/ Uninstall \/ Cleanup \/ Return

Over == at = "over" /\ host = "first" /\ UNCHANGED vars

Next == Host \/ ClientExits \/ Over

\* The host's thread goes on.  The waits of h_run for programs have a time limit;
\* for people they have none: this assumes that the user answers the picker and
\* the consent prompt, and closes the client unless --duration ends the watch.
Spec == Init /\ [][Next]_vars /\ WF_vars(Host)

-----------------------------------------------------------------------------
(* Properties                                                              *)

\* Without a marker in the directory no file beside the client is replaced or
\* deleted, whatever the mode and however the run ends.  With one, the file under
\* the carrier's name may be, a third party's included; under another carrier's
\* name, only the file that the marker names, and only by a run that installed.
ForeignFileKept ==
    [][/\ ~Marked /\ beside.file # "none" => beside'.file = beside.file
       /\ beside'.other # beside.other => beside.marker = "other" /\ run.installed]_vars

\* The client is ended by the run that launched it, never one that another run
\* or the user started.
EndsOnlyItsOwn ==
    [][client = "running" /\ client' = "gone" /\ at # at' => run.handle]_vars

\* A run touches its own client only, and no file but where a marker is.
TouchesOnlyItsOwn == ForeignFileKept /\ EndsOnlyItsOwn

\* A helper that this host put beside the client stays only for a reason: it or
\* its marker could not be written, the client that has loaded it outlived the
\* run, or Windows would not delete it; no other exit path of h_run, and no
\* administrator restart, forgets it.  Beside a client that outlived the run it
\* keeps its marker, without which it could not be uninstalled later.
HelperLeftForAReason ==
    at \in {"home", "over"} =>
        /\ (conf.beside.file = "none" /\ beside.file # "none") => reason # "none"
        /\ reason = "open" => beside.file = "ours" /\ beside.marker = "this"

\* A run that failed leaves no client of its own behind.
FailedLeavesNothing ==
    (at \in {"report", "uninstall", "cleanup"} /\ ~run.ok /\ run.launched) => client # "running"

\* However often the launch is refused, consent is asked for once a run.
AskedOnce == restarts <= 1

\* The file of --delete-config is gone once the host is over, unless a restart
\* that was to delete it was refused; a host that hands over leaves it to read.
ConfigDeleted ==
    /\ at = "over" /\ host = "first" /\ conf.deleteConfig /\ ~refused => ~config
    /\ at = "restart" => config

\* A host that cannot go on hands over once, and the configuration with it.
HandsOverOnce == TypeOK /\ AskedOnce /\ ConfigDeleted

\* Every run comes back to the home window or to the end.
RunEnds == at = "begin" ~> at \in {"home", "over"}

\* "--no-elevate: never restart the host through UAC" (the help text): no
\* restart is asked for.
NoElevateObeyed == conf.noElevate => restarts = 0
=============================================================================
