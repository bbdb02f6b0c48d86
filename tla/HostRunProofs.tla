---------------------------- MODULE HostRunProofs ----------------------------
(***************************************************************************)
(* A run of the host undoes what it has made, whatever the options are and *)
(* however many runs and faults there are: the inductive invariant of      *)
(* HostRun and what follows from it.                                       *)
(***************************************************************************)
EXTENDS HostRun, TLAPS

\* Between runs nothing of h_run is going on.
Between == {"start", "home", "begin", "restart", "over"}

\* A client this host launched is held by a handle until the exit path has let
\* it go, which it does with a running client only after a success.
HandleHeld ==
    /\ run.launched /\ client = "running" =>
          run.handle \/ (run.ok /\ at \in Between \cup {"report", "uninstall", "cleanup"})
    /\ at \in Between \cup {"report", "uninstall", "cleanup"} => ~run.handle
    /\ at = "piped" => run.handle

\* What this run has installed is there and has come to no harm until the exit
\* path uninstalls it.
Installed ==
    run.installed =>
        /\ run.proxy /\ beside.file = "ours" /\ reason \in {"none", "unmarked"}
        /\ at \in {"check", "dpi", "create", "undo-dpi", "launched", "watch", "watched",
                   "stop", "report", "uninstall"}

\* A file beside a client that had none, without a reason to stay, is one that
\* this run has installed, with its marker.  What stays for a client that has it
\* open keeps its marker.
HelperHeld ==
    /\ Installed
    /\ (conf.beside.file = "none" /\ beside.file # "none" /\ reason = "none") =>
          run.installed /\ beside.marker = "this"
    /\ reason = "open" => beside.file = "ours" /\ beside.marker = "this"

\* Only a process without administrator rights hands over, and a restarted one
\* never asks again.
OneRestart ==
    /\ at \notin Between /\ run.handoff => ~Elevated
    /\ at = "restart" => ~Elevated
    /\ restarts \in {0, 1}
    /\ restarts = 1 => host = "restarted" \/ at \in {"home", "over"}

\* The configuration file is there until the last process is over.
ConfigHeld ==
    /\ conf.home => ~conf.deleteConfig
    /\ at = "home" => conf.home
    /\ ~conf.deleteConfig \/ at # "over" => config
    /\ conf.deleteConfig /\ at = "over" /\ (host = "restarted" \/ ~refused) => ~config

IInv == TypeOK /\ HandleHeld /\ HelperHeld /\ OneRestart /\ ConfigHeld

-----------------------------------------------------------------------------
LEMMA FreshGlobals == Fresh \in Globals
  BY DEF Fresh, Globals

\* Each way in which a step of h_run changes its globals keeps their shape.
LEMMA ExitGlobals ==
  ASSUME NEW r \in Globals
  PROVE  /\ [r EXCEPT !.ok = FALSE, !.code = 0] \in Globals
         /\ [r EXCEPT !.ok = TRUE, !.code = 3] \in Globals
         /\ [r EXCEPT !.ok = FALSE, !.code = 4] \in Globals
<1>1. \A ok \in BOOLEAN : \A code \in 0..4 : [r EXCEPT !.ok = ok, !.code = code] \in Globals
  BY DEF Globals
<1>2. 0 \in 0..4 /\ 3 \in 0..4 /\ 4 \in 0..4
  OBVIOUS
<1>. QED
  BY <1>1, <1>2, Zenon

LEMMA LaunchGlobals ==
  ASSUME NEW r \in Globals
  PROVE  /\ [r EXCEPT !.handle = FALSE] \in Globals
         /\ [r EXCEPT !.launched = FALSE] \in Globals
         /\ [r EXCEPT !.handle = TRUE, !.launched = TRUE] \in Globals
         /\ [r EXCEPT !.ok = TRUE, !.handle = FALSE] \in Globals
<1>1. \A held \in BOOLEAN : \A ok \in BOOLEAN : [r EXCEPT !.handle = held, !.launched = ok] \in Globals
  BY DEF Globals
<1>2. \A held \in BOOLEAN : \A ok \in BOOLEAN : [r EXCEPT !.ok = ok, !.handle = held] \in Globals
  BY DEF Globals
<1>3. \A held \in BOOLEAN : [r EXCEPT !.handle = held] \in Globals
  BY DEF Globals
<1>4. \A ok \in BOOLEAN : [r EXCEPT !.launched = ok] \in Globals
  BY DEF Globals
<1>. QED
  BY <1>1, <1>2, <1>3, <1>4, Zenon

LEMMA HandoffGlobals ==
  ASSUME NEW r \in Globals
  PROVE  /\ [r EXCEPT !.handoff = TRUE] \in Globals
         /\ [r EXCEPT !.handoff = TRUE, !.ok = TRUE] \in Globals
<1>1. \A ok \in BOOLEAN : \A asked \in BOOLEAN : [r EXCEPT !.handoff = asked, !.ok = ok] \in Globals
  BY DEF Globals
<1>2. \A asked \in BOOLEAN : [r EXCEPT !.handoff = asked] \in Globals
  BY DEF Globals
<1>. QED
  BY <1>1, <1>2, Zenon

LEMMA ProxyGlobals ==
  ASSUME NEW r \in Globals
  PROVE  /\ [r EXCEPT !.installed = FALSE] \in Globals
         /\ [r EXCEPT !.proxy = TRUE, !.installed = FALSE] \in Globals
         /\ [r EXCEPT !.proxy = TRUE, !.installed = TRUE] \in Globals
         /\ [r EXCEPT !.attempt = 1, !.proxy = TRUE, !.installed = TRUE] \in Globals
<1>1. \A proxy \in BOOLEAN : \A installed \in BOOLEAN :
         [r EXCEPT !.proxy = proxy, !.installed = installed] \in Globals
  BY DEF Globals
<1>2. \A proxy \in BOOLEAN : \A installed \in BOOLEAN : \A attempt \in 0..1 :
         [r EXCEPT !.attempt = attempt, !.proxy = proxy, !.installed = installed] \in Globals
  BY DEF Globals
<1>3. \A installed \in BOOLEAN : [r EXCEPT !.installed = installed] \in Globals
  BY DEF Globals
<1>4. 1 \in 0..1
  OBVIOUS
<1>. QED
  BY <1>1, <1>2, <1>3, <1>4, Zenon

LEMMA WatchGlobals ==
  ASSUME NEW r \in Globals
  PROVE  \A ok \in BOOLEAN : \A seen \in BOOLEAN : [r EXCEPT !.ok = ok, !.seen = seen] \in Globals
  BY DEF Globals

LEMMA BesideType ==
  ASSUME NEW b \in Beside
  PROVE  /\ \A file \in Files : [b EXCEPT !.file = file] \in Beside
         /\ [b EXCEPT !.file = "ours", !.marker = "this"] \in Beside
         /\ [b EXCEPT !.file = "none", !.marker = "none"] \in Beside
         /\ [b EXCEPT !.other = "none", !.marker = "none"] \in Beside
         /\ [b EXCEPT !.marker = "none"] \in Beside
  BY DEF Beside, Files

\* Putting the helper beside the client, or failing to, keeps the types.
LEMMA InstallBeside ==
  ASSUME beside \in Beside, reason \in Reasons, Install \/ CannotInstall \/ UNCHANGED <<beside, reason>>
  PROVE  beside' \in Beside /\ reason' \in Reasons
<1>1. {"ours", "none", "torn"} \subseteq Files /\ {"none", "unmarked", "torn"} \subseteq Reasons
  BY DEF Files, Reasons
<1>2. CASE Install
  BY <1>1, <1>2, BesideType DEF Install
<1>3. CASE CannotInstall
  <2>1. CASE UNCHANGED <<beside, reason>>
    BY <2>1
  <2>2. ASSUME NEW file \in {"none", "torn"}, beside' = [beside EXCEPT !.file = file], reason' = file
        PROVE  beside' \in Beside /\ reason' \in Reasons
    BY <1>1, <2>2, BesideType
  <2>. QED
    BY <1>3, <2>1, <2>2, Zenon DEF CannotInstall
<1>. QED
  BY <1>2, <1>3

LEMMA FaultNat == faults \in Nat /\ (Fault \/ NoFault) => faults' \in Nat
  BY DEF Fault, NoFault

-----------------------------------------------------------------------------
LEMMA InitInv == Init => IInv
<1> SUFFICES ASSUME Init PROVE IInv
  OBVIOUS
<1> USE DEF Init
<1>1. conf \in Configuration /\ (conf.home => ~conf.deleteConfig)
  BY HostRunAssumption
<1>2. TypeOK
  <2>1. conf.beside \in Beside
    BY <1>1 DEF Configuration
  <2>. QED
    BY <1>1, <2>1, FreshGlobals DEF TypeOK, Places, Reasons
<1>3. HandleHeld
  BY DEF HandleHeld, Between, Fresh
<1>4. HelperHeld
  BY <1>1 DEF HelperHeld, Installed, Fresh, Configuration, Beside
<1>5. OneRestart
  BY DEF OneRestart, Between
<1>6. ConfigHeld
  BY <1>1 DEF ConfigHeld
<1>. QED
  BY <1>2, <1>3, <1>4, <1>5, <1>6 DEF IInv

LEMMA TypeStep == TypeOK /\ [Next]_vars => TypeOK'
<1> SUFFICES ASSUME TypeOK, [Next]_vars PROVE TypeOK'
  OBVIOUS
<1> USE DEF TypeOK, Kept, KeptAll, Places
<1>1. CASE Restart
  <2>1. restarts' \in Nat
    BY <1>1 DEF Restart
  <2>2. refused' \in BOOLEAN
    BY <1>1, Zenon DEF Restart
  <2>3. at' \in Places /\ host' \in {"first", "restarted"}
    BY <1>1 DEF Restart
  <2>. QED
    BY <1>1, <2>1, <2>2, <2>3, Zenon DEF Restart
<1>2. CASE Start
  BY <1>2 DEF Start, Elevated
<1>3. CASE Home
  BY <1>3 DEF Home
<1>4. CASE Begin
  <2>1. run' \in Globals
    BY <1>4, FreshGlobals, Zenon DEF Begin, Fault, NoFault
  <2>. QED
    BY <1>4, <2>1 DEF Begin, Fault, NoFault
<1>5. CASE Scan
  <2>1. run' \in Globals
    BY <1>5, ExitGlobals, Zenon DEF Scan, Exit, Fault, NoFault
  <2>. QED
    BY <1>5, <2>1 DEF Scan, Exit, Fault, NoFault
<1>6. CASE PickClient
  <2>1. run' \in Globals
    BY <1>6, ExitGlobals, Zenon DEF PickClient, Exit, Fault, NoFault
  <2>. QED
    BY <1>6, <2>1 DEF PickClient, Exit, Fault, NoFault
<1>7. CASE Assets
  <2>1. run' \in Globals
    BY <1>7, ExitGlobals, Zenon DEF Assets, Exit, Fault, NoFault
  <2>. QED
    BY <1>7, <2>1 DEF Assets, Exit, Fault, NoFault
<1>8. CASE PipeOpen
  <2>1. run' \in Globals
    BY <1>8, ExitGlobals, LaunchGlobals, HandoffGlobals, Zenon DEF PipeOpen, Exit, Fault, NoFault
  <2>. QED
    BY <1>8, <2>1 DEF PipeOpen, Exit, Fault, NoFault
<1>9. CASE PipeBootstrap
  <2>1. run' \in Globals
    BY <1>9, LaunchGlobals, Zenon DEF PipeBootstrap, Fault, NoFault
  <2>. QED
    BY <1>9, <2>1 DEF PipeBootstrap, Fault, NoFault
<1>10. CASE Mode
  <2>1. run' \in Globals
    BY <1>10, ExitGlobals, ProxyGlobals, Zenon DEF Mode, Exit, Fault, NoFault, Install, CannotInstall
  <2>2. beside' \in Beside /\ reason' \in Reasons
    <3>1. Install \/ CannotInstall \/ UNCHANGED <<beside, reason>>
      BY <1>10 DEF Mode
    <3>. QED
      BY <3>1, InstallBeside
  <2>3. at' \in Places
    BY <1>10 DEF Mode, Exit
  <2>4. faults' \in Nat
    BY <1>10 DEF Mode, Exit, Fault, NoFault, Install, CannotInstall
  <2>. QED
    BY <1>10, <2>1, <2>2, <2>3, <2>4, Zenon DEF Mode
<1>11. CASE Check
  <2>1. run' \in Globals
    BY <1>11, ExitGlobals, Zenon DEF Check, Exit, Fault, NoFault
  <2>. QED
    BY <1>11, <2>1 DEF Check, Exit, Fault, NoFault
<1>12. CASE DpiBegin
  <2>1. run' \in Globals
    BY <1>12, ExitGlobals, Zenon DEF DpiBegin, Exit, Fault, NoFault
  <2>. QED
    BY <1>12, <2>1 DEF DpiBegin, Exit, Fault, NoFault
<1>13. CASE Create
  <2>1. run' \in Globals
    BY <1>13, LaunchGlobals, Zenon DEF Create, Fault, NoFault
  <2>. QED
    BY <1>13, <2>1 DEF Create, Fault, NoFault
<1>14. CASE DpiRestore
  <2>1. run' \in Globals
    BY <1>14, ExitGlobals, Zenon DEF DpiRestore, Exit, Fault, NoFault
  <2>. QED
    BY <1>14, <2>1 DEF DpiRestore, Exit, Fault, NoFault
<1>15. CASE Launched
  <2>1. run' \in Globals
    BY <1>15, ExitGlobals, HandoffGlobals, Zenon DEF Launched, Exit, NoFault
  <2>. QED
    BY <1>15, <2>1 DEF Launched, Exit, NoFault
<1>16. CASE Watch
  <2>1. run' \in Globals
    BY <1>16, WatchGlobals, Zenon DEF Watch, Fault, NoFault
  <2>2. faults' \in Nat
    BY <1>16, FaultNat, Zenon DEF Watch
  <2>3. at' \in Places
    BY <1>16 DEF Watch
  <2>. QED
    BY <1>16, <2>1, <2>2, <2>3, Zenon DEF Watch
<1>17. CASE SelfHeal
  <2>1. run' \in Globals
    BY <1>17, ProxyGlobals, Zenon DEF SelfHeal, Fault, NoFault, Install, CannotInstall
  <2>2. beside' \in Beside /\ reason' \in Reasons
    <3>1. Install \/ CannotInstall \/ UNCHANGED <<beside, reason>>
      BY <1>17 DEF SelfHeal
    <3>. QED
      BY <3>1, InstallBeside
  <2>3. at' \in Places
    BY <1>17 DEF SelfHeal
  <2>4. faults' \in Nat
    BY <1>17 DEF SelfHeal, Fault, NoFault, Install, CannotInstall
  <2>5. client' \in {"none", "running", "gone"}
    BY <1>17 DEF SelfHeal
  <2>. QED
    BY <1>17, <2>1, <2>2, <2>3, <2>4, <2>5, Zenon DEF SelfHeal
<1>18. CASE Stop
  <2>1. run' \in Globals
    BY <1>18, LaunchGlobals, Zenon DEF Stop
  <2>. QED
    BY <1>18, <2>1 DEF Stop
<1>19. CASE Report
  <2>1. files' \subseteq {"log", "report"}
    BY <1>19 DEF Report
  <2>2. faults' \in Nat
    BY <1>19, FaultNat, Zenon DEF Report
  <2>3. at' \in Places
    BY <1>19 DEF Report
  <2>. QED
    BY <1>19, <2>1, <2>2, <2>3, Zenon DEF Report
<1>20. CASE Uninstall
  <2>1. run' \in Globals
    BY <1>20, ProxyGlobals, Zenon DEF Uninstall
  <2>2. beside' \in Beside
    BY <1>20, BesideType DEF Uninstall, WithoutNamed
  <2>3. reason' \in Reasons
    BY <1>20 DEF Uninstall, Reasons
  <2>4. faults' \in Nat
    BY <1>20 DEF Uninstall, Fault, NoFault
  <2>5. at' \in Places
    BY <1>20 DEF Uninstall
  <2>. QED
    BY <1>20, <2>1, <2>2, <2>3, <2>4, <2>5, Zenon DEF Uninstall
<1>21. CASE Cleanup
  BY <1>21 DEF Cleanup
<1>22. CASE Return
  BY <1>22 DEF Return
<1>23. CASE ClientExits
  BY <1>23 DEF ClientExits
<1>24. CASE Over
  BY <1>24 DEF Over, vars
<1>25. CASE UNCHANGED vars
  BY <1>25 DEF vars
<1>. QED
  BY <1>1, <1>2, <1>3, <1>4, <1>5, <1>6, <1>7, <1>8, <1>9, <1>10, <1>11, <1>12, <1>13, <1>14, <1>15, <1>16, <1>17, <1>18, <1>19, <1>20, <1>21, <1>22, <1>23, <1>24, <1>25 DEF Next, Host

LEMMA HandleHeldStep == TypeOK /\ HandleHeld /\ [Next]_vars => HandleHeld'
<1> SUFFICES ASSUME TypeOK, HandleHeld, [Next]_vars PROVE HandleHeld'
  OBVIOUS
<1>0. run \in Globals
  BY DEF TypeOK
<1> USE DEF HandleHeld, Between, Kept, KeptAll
<1>1. CASE Restart
  BY <1>0, <1>1 DEF Globals, Restart
<1>2. CASE Start
  BY <1>0, <1>2 DEF Globals, Start, Elevated
<1>3. CASE Home
  BY <1>0, <1>3 DEF Globals, Home
<1>4. CASE Begin
  BY <1>0, <1>4 DEF Globals, Begin, Fresh
<1>5. CASE Scan
  BY <1>0, <1>5 DEF Globals, Scan, Exit
<1>6. CASE PickClient
  BY <1>0, <1>6 DEF Globals, PickClient, Exit
<1>7. CASE Assets
  BY <1>0, <1>7 DEF Globals, Assets, Exit
<1>8. CASE PipeOpen
  BY <1>0, <1>8 DEF Globals, PipeOpen, Exit, Elevated
<1>9. CASE PipeBootstrap
  BY <1>0, <1>9 DEF Globals, PipeBootstrap
<1>10. CASE Mode
  <2>0. \/ run' = run
        \/ run' = [run EXCEPT !.ok = FALSE, !.code = 4]
        \/ run' = [run EXCEPT !.proxy = TRUE, !.installed = TRUE]
        \/ run' = [run EXCEPT !.proxy = TRUE, !.installed = FALSE]
    BY <1>10, Zenon DEF Mode, Exit
  <2>1. run'.handle = run.handle /\ run'.launched = run.launched
    BY <1>0, <2>0 DEF Globals
  <2>2. at = "mode" /\ at' \in {"stop", "check"} /\ client' = client
    BY <1>0, <1>10 DEF Globals, Mode, Exit
  <2>. QED
    BY <2>1, <2>2
<1>11. CASE Check
  BY <1>0, <1>11 DEF Globals, Check, Exit
<1>12. CASE DpiBegin
  BY <1>0, <1>12 DEF Globals, DpiBegin, Exit
<1>13. CASE Create
  BY <1>0, <1>13 DEF Globals, Create, Elevated
<1>14. CASE DpiRestore
  BY <1>0, <1>14 DEF Globals, DpiRestore, Exit
<1>15. CASE Launched
  BY <1>0, <1>15 DEF Globals, Launched, Exit, NoFault, CanRestart, Elevated
<1>16. CASE Watch
  BY <1>0, <1>16 DEF Globals, Watch
<1>17. CASE SelfHeal
  BY <1>0, <1>17 DEF Globals, SelfHeal, Install, CannotInstall, Free, Worthwhile
<1>18. CASE Stop
  BY <1>0, <1>18 DEF Globals, Stop
<1>19. CASE Report
  BY <1>0, <1>19 DEF Globals, Report
<1>20. CASE Uninstall
  BY <1>0, <1>20 DEF Globals, Uninstall
<1>21. CASE Cleanup
  BY <1>0, <1>21 DEF Globals, Cleanup
<1>22. CASE Return
  BY <1>0, <1>22 DEF Globals, Return
<1>23. CASE ClientExits
  BY <1>0, <1>23 DEF Globals, ClientExits
<1>24. CASE Over
  BY <1>0, <1>24 DEF Globals, Over, vars
<1>25. CASE UNCHANGED vars
  BY <1>0, <1>25 DEF Globals, vars
<1>. QED
  BY <1>1, <1>2, <1>3, <1>4, <1>5, <1>6, <1>7, <1>8, <1>9, <1>10, <1>11, <1>12, <1>13, <1>14, <1>15, <1>16, <1>17, <1>18, <1>19, <1>20, <1>21, <1>22, <1>23, <1>24, <1>25 DEF Next, Host

\* The helper's own steps apart, a step leaves alone what lies beside the client
\* and what the run knows of it.
LEMMA QuietSteps ==
  ASSUME TypeOK, \/ Restart \/ Start \/ Home \/ Scan \/ PickClient \/ Assets \/ PipeOpen \/ PipeBootstrap \/ Check
                 \/ DpiBegin \/ Create \/ DpiRestore \/ Launched \/ Watch \/ Stop \/ Report \/ Cleanup \/ Return
                 \/ ClientExits \/ Over \/ UNCHANGED vars
  PROVE  /\ UNCHANGED <<conf, beside, reason>>
         /\ run'.installed = run.installed /\ run'.proxy = run.proxy
<1>1. UNCHANGED <<conf, beside, reason>>
  BY Zenon DEF Restart, Start, Home, Scan, PickClient, Assets, PipeOpen, PipeBootstrap, Check, DpiBegin, Create, DpiRestore,
         Launched, Watch, Stop, Report, Cleanup, Return, ClientExits, Over, vars, Kept, KeptAll
<1>2. \/ UNCHANGED run
      \/ \E ok \in BOOLEAN, code \in 0..4 : run' = [run EXCEPT !.ok = ok, !.code = code]
      \/ run' = [run EXCEPT !.handoff = TRUE]
      \/ run' = [run EXCEPT !.handoff = TRUE, !.ok = TRUE]
      \/ run' = [run EXCEPT !.handle = TRUE, !.launched = TRUE]
      \/ run' = [run EXCEPT !.launched = FALSE]
      \/ run' = [run EXCEPT !.handle = FALSE]
      \/ run' = [run EXCEPT !.ok = TRUE, !.handle = FALSE]
      \/ \E ok \in BOOLEAN, seen \in BOOLEAN : run' = [run EXCEPT !.ok = ok, !.seen = seen]
  <2>0. 0 \in 0..4 /\ 3 \in 0..4 /\ 4 \in 0..4
    OBVIOUS
  <2>1. CASE Restart
    BY <2>0, <2>1, Zenon DEF Restart
  <2>2. CASE Start
    BY <2>0, <2>2, Zenon DEF Start, Kept, KeptAll
  <2>3. CASE Home
    BY <2>0, <2>3, Zenon DEF Home
  <2>4. CASE Scan
    BY <2>0, <2>4, Zenon DEF Scan, Exit
  <2>5. CASE PickClient
    BY <2>0, <2>5, Zenon DEF PickClient, Exit
  <2>6. CASE Assets
    BY <2>0, <2>6, Zenon DEF Assets, Exit
  <2>7. CASE PipeOpen
    BY <2>0, <2>7, Zenon DEF PipeOpen, Exit
  <2>8. CASE PipeBootstrap
    BY <2>0, <2>8, Zenon DEF PipeBootstrap
  <2>9. CASE Check
    BY <2>0, <2>9, Zenon DEF Check, Exit
  <2>10. CASE DpiBegin
    BY <2>0, <2>10, Zenon DEF DpiBegin, Exit
  <2>11. CASE Create
    BY <2>0, <2>11, Zenon DEF Create
  <2>12. CASE DpiRestore
    BY <2>0, <2>12, Zenon DEF DpiRestore, Exit
  <2>13. CASE Launched
    BY <2>0, <2>13, Zenon DEF Launched, Exit
  <2>14. CASE Watch
    BY <2>0, <2>14, Zenon DEF Watch
  <2>15. CASE Stop
    BY <2>0, <2>15, Zenon DEF Stop
  <2>16. CASE Report
    BY <2>0, <2>16, Zenon DEF Report, Kept, KeptAll
  <2>17. CASE Cleanup
    BY <2>0, <2>17, Zenon DEF Cleanup, Kept, KeptAll
  <2>18. CASE Return
    BY <2>0, <2>18, Zenon DEF Return
  <2>19. CASE ClientExits
    BY <2>0, <2>19, Zenon DEF ClientExits
  <2>20. CASE Over
    BY <2>0, <2>20, Zenon DEF Over, vars
  <2>21. CASE UNCHANGED vars
    BY <2>21 DEF vars
  <2>. QED
    BY <2>1, <2>2, <2>3, <2>4, <2>5, <2>6, <2>7, <2>8, <2>9, <2>10, <2>11, <2>12, <2>13, <2>14, <2>15, <2>16, <2>17, <2>18, <2>19, <2>20, <2>21
<1>3. run \in Globals
  BY DEF TypeOK
<1>4. run'.installed = run.installed /\ run'.proxy = run.proxy
  BY <1>2, <1>3 DEF Globals
<1>. QED
  BY <1>1, <1>4

LEMMA HelperHeldStep == TypeOK /\ HelperHeld /\ [Next]_vars => HelperHeld'
<1> SUFFICES ASSUME TypeOK, HelperHeld, [Next]_vars PROVE HelperHeld'
  OBVIOUS
<1> DEFINE After == {"check", "dpi", "create", "undo-dpi", "launched", "watch", "watched", "stop", "report", "uninstall"}
<1>0. run \in Globals /\ beside \in Beside /\ conf' = conf
  BY DEF TypeOK, Next, Host, Kept, KeptAll, Restart, Start, Home, Begin, Scan, PickClient, Assets, PipeOpen, PipeBootstrap,
         Mode, Check, DpiBegin, Create, DpiRestore, Launched, Watch, SelfHeal, Stop, Report, Uninstall, Cleanup,
         Return, ClientExits, Over, vars
<1>1. ASSUME UNCHANGED <<beside, reason>>, run'.installed = run.installed, run'.proxy = run.proxy, at \in After => at' \in After
      PROVE  HelperHeld'
  BY <1>0, <1>1 DEF HelperHeld, Installed
<1>2. CASE \/ Restart \/ Start \/ Home \/ Scan \/ PickClient \/ Assets \/ PipeOpen \/ PipeBootstrap \/ Check
           \/ DpiBegin \/ Create \/ DpiRestore \/ Launched \/ Watch \/ Stop \/ Report \/ Cleanup \/ Return
           \/ ClientExits \/ Over \/ UNCHANGED vars
  <2>1. at \in After => at' \in After
    BY <1>2 DEF Restart, Start, Home, Scan, PickClient, Assets, PipeOpen, PipeBootstrap, Check, DpiBegin, Create, DpiRestore,
                Launched, Watch, Stop, Report, Cleanup, Return, ClientExits, Over, vars, Exit
  <2>. QED
    BY <1>1, <1>2, <2>1, QuietSteps
<1>3. CASE Begin
  <2>1. at = "begin" /\ ~run'.installed /\ UNCHANGED <<beside, reason>>
    BY <1>3 DEF Begin, Fresh, KeptAll, Kept
  <2>. QED
    BY <1>0, <2>1 DEF HelperHeld, Installed
\* A run that has not installed: the helper is put there, or cannot be.
<1>4. ASSUME ~run.installed, CannotInstall, ~run'.installed PROVE HelperHeld'
  <2>1. CASE UNCHANGED <<beside, reason>>
    BY <1>0, <1>4, <2>1 DEF HelperHeld, Installed
  <2>2. CASE beside' = [beside EXCEPT !.file = "none"] /\ reason' = "none"
    BY <1>0, <1>4, <2>2 DEF HelperHeld, Installed, Beside
  <2>3. CASE beside' = [beside EXCEPT !.file = "torn"] /\ reason' = "torn"
    BY <1>0, <1>4, <2>3 DEF HelperHeld, Installed, Beside
  <2>. QED
    BY <1>4, <2>1, <2>2, <2>3, Zenon DEF CannotInstall
<1>5. ASSUME Install, run'.installed, run'.proxy, at' = "check" PROVE HelperHeld'
  <2>1. CASE beside' = [beside EXCEPT !.file = "ours", !.marker = "this"] /\ reason' = "none"
    BY <1>0, <1>5, <2>1 DEF HelperHeld, Installed, Beside
  <2>2. CASE beside' = [beside EXCEPT !.file = "ours"] /\ reason' = "unmarked"
    BY <1>0, <1>5, <2>2 DEF HelperHeld, Installed, Beside
  <2>. QED
    BY <1>5, <2>1, <2>2, Zenon DEF Install
<1>6. CASE Mode
  <2>1. at = "mode" /\ ~run.installed
    BY <1>6 DEF Mode, HelperHeld, Installed
  <2>2. \/ Install /\ at' = "check" /\ run' = [run EXCEPT !.proxy = TRUE, !.installed = TRUE]
        \/ CannotInstall /\ (run' = run \/ run' = [run EXCEPT !.ok = FALSE, !.code = 4])
        \/ /\ UNCHANGED <<beside, reason>>
           /\ \/ run' = run \/ run' = [run EXCEPT !.ok = FALSE, !.code = 4]
              \/ run' = [run EXCEPT !.proxy = TRUE, !.installed = FALSE]
    BY <1>6, Zenon DEF Mode, Exit
  <2>3. CASE Install /\ at' = "check" /\ run' = [run EXCEPT !.proxy = TRUE, !.installed = TRUE]
    <3>1. run'.installed /\ run'.proxy
      BY <1>0, <2>3 DEF Globals
    <3>. QED
      BY <1>5, <2>3, <3>1
  <2>4. CASE CannotInstall /\ (run' = run \/ run' = [run EXCEPT !.ok = FALSE, !.code = 4])
    <3>1. ~run'.installed
      BY <1>0, <2>1, <2>4 DEF Globals
    <3>. QED
      BY <1>4, <2>1, <2>4, <3>1
  <2>5. CASE /\ UNCHANGED <<beside, reason>>
             /\ \/ run' = run \/ run' = [run EXCEPT !.ok = FALSE, !.code = 4]
                \/ run' = [run EXCEPT !.proxy = TRUE, !.installed = FALSE]
    <3>1. ~run'.installed
      BY <1>0, <2>1, <2>5 DEF Globals
    <3>. QED
      BY <1>0, <2>1, <2>5, <3>1 DEF HelperHeld, Installed
  <2>. QED
    BY <2>2, <2>3, <2>4, <2>5
<1>7. CASE SelfHeal
  <2>1. CASE UNCHANGED <<beside, reason, run>> /\ at' = "stop"
    BY <1>1, <2>1
  <2>2. CASE ~run.proxy /\ CannotInstall /\ UNCHANGED run
    <3>1. ~run.installed
      BY <2>2 DEF HelperHeld, Installed
    <3>. QED
      BY <1>4, <2>2, <3>1
  <2>3. CASE Install /\ at' = "check" /\ run' = [run EXCEPT !.attempt = 1, !.proxy = TRUE, !.installed = TRUE]
    <3>1. run'.installed /\ run'.proxy
      BY <1>0, <2>3 DEF Globals
    <3>. QED
      BY <1>5, <2>3, <3>1
  <2>. QED
    BY <1>7, <2>1, <2>2, <2>3 DEF SelfHeal
<1>8. CASE Uninstall
  <2>1. ~run'.installed
    BY <1>0, <1>8 DEF Uninstall, Globals
  <2>2. CASE run.installed /\ Open /\ reason' = "open" /\ UNCHANGED beside
    BY <1>0, <2>1, <2>2 DEF HelperHeld, Installed, Open
  <2>3. CASE run.installed /\ beside' = WithoutNamed /\ UNCHANGED reason
    BY <1>0, <2>1, <2>3 DEF HelperHeld, Installed, WithoutNamed, Beside
  <2>4. CASE reason' = "undeleted"
    BY <2>1, <2>4 DEF HelperHeld, Installed
  <2>5. CASE ~(run.installed /\ Marked) /\ UNCHANGED <<beside, reason>>
    BY <1>0, <2>1, <2>5 DEF HelperHeld, Installed, Marked
  <2>. QED
    BY <1>8, <2>2, <2>3, <2>4, <2>5 DEF Uninstall
<1>. QED
  BY <1>2, <1>3, <1>6, <1>7, <1>8 DEF Next, Host

LEMMA OneRestartStep == TypeOK /\ OneRestart /\ [Next]_vars => OneRestart'
<1> SUFFICES ASSUME TypeOK, OneRestart, [Next]_vars PROVE OneRestart'
  OBVIOUS
<1> USE HostRunAssumption DEF TypeOK, OneRestart, Between, Kept, KeptAll, Globals, Configuration, Beside, Places
<1>1. CASE Restart
  BY <1>1 DEF Restart, Elevated
<1>2. CASE Start
  BY <1>2 DEF Start, Elevated
<1>3. CASE Home
  BY <1>3 DEF Home, Elevated
<1>4. CASE Begin
  BY <1>4 DEF Begin, Fresh, Fault, NoFault, Elevated
<1>5. CASE Scan
  BY <1>5 DEF Scan, Exit, Fault, NoFault, Elevated
<1>6. CASE PickClient
  BY <1>6 DEF PickClient, Exit, Fault, NoFault, Elevated
<1>7. CASE Assets
  BY <1>7 DEF Assets, Exit, Fault, NoFault, Elevated
<1>8. CASE PipeOpen
  BY <1>8 DEF PipeOpen, Exit, Fault, NoFault, Elevated
<1>9. CASE PipeBootstrap
  BY <1>9 DEF PipeBootstrap, Fault, NoFault, Elevated
<1>10. CASE Mode
  <2>1. \/ run' = run
        \/ run' = [run EXCEPT !.ok = FALSE, !.code = 4]
        \/ run' = [run EXCEPT !.proxy = TRUE, !.installed = TRUE]
        \/ run' = [run EXCEPT !.proxy = TRUE, !.installed = FALSE]
    BY <1>10, Zenon DEF Mode, Exit
  <2>2. run'.handoff = run.handoff
    BY <2>1
  <2>3. at = "mode" /\ at' \in {"stop", "check"} /\ UNCHANGED <<conf, host, restarts>>
    BY <1>10 DEF Mode, Exit
  <2>. QED
    BY <2>2, <2>3 DEF Elevated
<1>11. CASE Check
  BY <1>11 DEF Check, Exit, Fault, NoFault, Elevated
<1>12. CASE DpiBegin
  BY <1>12 DEF DpiBegin, Exit, Fault, NoFault, Elevated
<1>13. CASE Create
  BY <1>13 DEF Create, Fault, NoFault, Elevated
<1>14. CASE DpiRestore
  BY <1>14 DEF DpiRestore, Exit, Fault, NoFault, Elevated
<1>15. CASE Launched
  BY <1>15 DEF Launched, Exit, NoFault, CanRestart, Elevated
<1>16. CASE Watch
  BY <1>16 DEF Watch, Fault, NoFault, Elevated
<1>17. CASE SelfHeal
  <2>1. run' = run \/ run' = [run EXCEPT !.attempt = 1, !.proxy = TRUE, !.installed = TRUE]
    BY <1>17, Zenon DEF SelfHeal
  <2>2. run'.handoff = run.handoff
    BY <2>1
  <2>3. at = "watched" /\ at' \in {"stop", "check"} /\ UNCHANGED <<conf, host, restarts>>
    BY <1>17 DEF SelfHeal
  <2>. QED
    BY <2>2, <2>3 DEF Elevated
<1>18. CASE Stop
  BY <1>18 DEF Stop, Elevated
<1>19. CASE Report
  BY <1>19 DEF Report, Fault, NoFault, Elevated
<1>20. CASE Uninstall
  BY <1>20 DEF Uninstall, Elevated
<1>21. CASE Cleanup
  BY <1>21 DEF Cleanup, Elevated
<1>22. CASE Return
  BY <1>22 DEF Return, Elevated
<1>23. CASE ClientExits
  BY <1>23 DEF ClientExits, Elevated
<1>24. CASE Over
  BY <1>24 DEF Over, Elevated, vars
<1>25. CASE UNCHANGED vars
  BY <1>25 DEF vars, Elevated
<1>. QED
  BY <1>1, <1>2, <1>3, <1>4, <1>5, <1>6, <1>7, <1>8, <1>9, <1>10, <1>11, <1>12, <1>13, <1>14, <1>15, <1>16, <1>17, <1>18, <1>19, <1>20, <1>21, <1>22, <1>23, <1>24, <1>25 DEF Next, Host

LEMMA ConfigHeldStep == TypeOK /\ OneRestart /\ ConfigHeld /\ [Next]_vars => ConfigHeld'
<1> SUFFICES ASSUME TypeOK, OneRestart, ConfigHeld, [Next]_vars PROVE ConfigHeld'
  OBVIOUS
<1> USE HostRunAssumption DEF TypeOK, ConfigHeld, Between, Kept, KeptAll, Globals, Configuration, Beside, Places
<1>1. CASE Restart
  BY <1>1 DEF Restart, OneRestart, Elevated
<1>2. CASE Start
  BY <1>2 DEF Start, Elevated
<1>3. CASE Home
  BY <1>3 DEF Home
<1>4. CASE Begin
  BY <1>4 DEF Begin, Fresh, Fault, NoFault
<1>5. CASE Scan
  BY <1>5 DEF Scan, Exit, Fault, NoFault
<1>6. CASE PickClient
  BY <1>6 DEF PickClient, Exit, Fault, NoFault
<1>7. CASE Assets
  BY <1>7 DEF Assets, Exit, Fault, NoFault
<1>8. CASE PipeOpen
  BY <1>8 DEF PipeOpen, Exit, Fault, NoFault, Elevated
<1>9. CASE PipeBootstrap
  BY <1>9 DEF PipeBootstrap, Fault, NoFault
<1>10. CASE Mode
  BY <1>10 DEF Mode, Exit, Fault, NoFault, Install, CannotInstall, Free
<1>11. CASE Check
  BY <1>11 DEF Check, Exit, Fault, NoFault
<1>12. CASE DpiBegin
  BY <1>12 DEF DpiBegin, Exit, Fault, NoFault
<1>13. CASE Create
  BY <1>13 DEF Create, Fault, NoFault, Elevated
<1>14. CASE DpiRestore
  BY <1>14 DEF DpiRestore, Exit, Fault, NoFault
<1>15. CASE Launched
  BY <1>15 DEF Launched, Exit, NoFault, CanRestart, Elevated
<1>16. CASE Watch
  BY <1>16 DEF Watch, Fault, NoFault
<1>17. CASE SelfHeal
  BY <1>17 DEF SelfHeal, Fault, NoFault, Install, CannotInstall, Free, Worthwhile
<1>18. CASE Stop
  BY <1>18 DEF Stop
<1>19. CASE Report
  BY <1>19 DEF Report, Fault, NoFault
<1>20. CASE Uninstall
  BY <1>20 DEF Uninstall
<1>21. CASE Cleanup
  BY <1>21 DEF Cleanup
<1>22. CASE Return
  BY <1>22 DEF Return
<1>23. CASE ClientExits
  BY <1>23 DEF ClientExits
<1>24. CASE Over
  BY <1>24 DEF Over, vars
<1>25. CASE UNCHANGED vars
  BY <1>25 DEF vars
<1>. QED
  BY <1>1, <1>2, <1>3, <1>4, <1>5, <1>6, <1>7, <1>8, <1>9, <1>10, <1>11, <1>12, <1>13, <1>14, <1>15, <1>16, <1>17, <1>18, <1>19, <1>20, <1>21, <1>22, <1>23, <1>24, <1>25 DEF Next, Host

THEOREM HostRunInvariant == Spec => []IInv
<1>1. IInv /\ [Next]_vars => IInv'
  BY TypeStep, HandleHeldStep, HelperHeldStep, OneRestartStep, ConfigHeldStep DEF IInv
<1>. QED
  BY <1>1, InitInv, PTL DEF Spec

-----------------------------------------------------------------------------
\* Every variable of the host keeps its type.
THEOREM HostRunTypeCorrect == Spec => []TypeOK
<1>1. IInv => TypeOK
  BY DEF IInv
<1>. QED
  BY <1>1, HostRunInvariant, PTL

\* The helper beside the client is left only for a reason.
THEOREM HostRunHelper == Spec => []HelperLeftForAReason
<1>1. IInv => HelperLeftForAReason
  BY DEF IInv, HelperHeld, Installed, HelperLeftForAReason
<1>. QED
  BY <1>1, HostRunInvariant, PTL

\* A run that failed leaves no client of its own.
THEOREM HostRunFailure == Spec => []FailedLeavesNothing
<1>1. IInv => FailedLeavesNothing
  BY DEF IInv, HandleHeld, Between, FailedLeavesNothing
<1>. QED
  BY <1>1, HostRunInvariant, PTL

\* The host asks for consent once a run, and the configuration file is deleted
\* by the last process.
THEOREM HostRunHandover == Spec => []HandsOverOnce
<1>1. IInv => HandsOverOnce
  BY DEF IInv, OneRestart, ConfigHeld, HandsOverOnce, AskedOnce, ConfigDeleted
<1>. QED
  BY <1>1, HostRunInvariant, PTL

\* Without a marker in the directory no file beside the client is replaced or
\* deleted, and no client that the run has not launched is ended.
THEOREM HostRunTouches == Spec => TouchesOnlyItsOwn
<1>1. IInv /\ [Next]_vars => [/\ ~Marked /\ beside.file # "none" => beside'.file = beside.file
                              /\ beside'.other # beside.other => beside.marker = "other" /\ run.installed]_vars
  <2> SUFFICES ASSUME IInv, Next
               PROVE  /\ ~Marked /\ beside.file # "none" => beside'.file = beside.file
                      /\ beside'.other # beside.other => beside.marker = "other" /\ run.installed
    OBVIOUS
  <2>0. beside \in Beside
    BY DEF IInv, TypeOK
  <2>1. ASSUME Install \/ CannotInstall \/ UNCHANGED <<beside, reason>>
        PROVE  beside'.other = beside.other /\ (~Free => beside' = beside)
    BY <2>0, <2>1 DEF Install, CannotInstall, Beside
  <2>2. CASE Mode \/ SelfHeal
    <3>1. Install \/ CannotInstall \/ UNCHANGED <<beside, reason>>
      BY <2>2 DEF Mode, SelfHeal
    <3>. QED
      BY <2>1, <3>1 DEF Free
  <2>3. CASE Uninstall
    BY <2>0, <2>3 DEF Uninstall, WithoutNamed, Marked, Beside
  <2>4. CASE ~(Mode \/ SelfHeal \/ Uninstall)
    <3>1. beside' = beside
      BY <2>4 DEF Next, Host, Kept, KeptAll, Restart, Start, Home, Begin, Scan, PickClient, Assets, PipeOpen,
                  PipeBootstrap, Check, DpiBegin, Create, DpiRestore, Launched, Watch, Stop, Report, Cleanup,
                  Return, ClientExits, Over, vars
    <3>. QED
      BY <3>1
  <2>. QED
    BY <2>2, <2>3, <2>4
<1>2. IInv /\ [Next]_vars => [client = "running" /\ client' = "gone" /\ at # at' => run.handle]_vars
  <2> SUFFICES ASSUME IInv, Next, client = "running", client' = "gone", at # at' PROVE run.handle
    OBVIOUS
  <2>1. CASE PipeBootstrap
    BY <2>1 DEF PipeBootstrap, IInv, HandleHeld
  <2>2. CASE SelfHeal \/ Stop
    BY <2>2 DEF SelfHeal, Stop, Kept, KeptAll
  <2>3. CASE ~(PipeBootstrap \/ SelfHeal \/ Stop)
    BY <2>3 DEF Next, Host, Kept, KeptAll, Restart, Start, Home, Begin, Scan, PickClient, Assets, PipeOpen,
                Mode, Check, DpiBegin, Create, DpiRestore, Launched, Watch, Report, Uninstall, Cleanup,
                Return, ClientExits, Over, vars
  <2>. QED
    BY <2>1, <2>2, <2>3
<1>. QED
  BY <1>1, <1>2, HostRunInvariant, PTL DEF Spec, TouchesOnlyItsOwn, ForeignFileKept, EndsOnlyItsOwn
=============================================================================
