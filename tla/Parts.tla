-------------------------------- MODULE Parts --------------------------------
(***************************************************************************)
(* The parts of the Windows host that share no state.  In each behaviour   *)
(* one of them moves and the others are not there: what is checked, or     *)
(* proved, of this module is so for each part, and the behaviours of the   *)
(* parts are not multiplied with one another.                              *)
(***************************************************************************)
EXTENDS Integers, Sequences, FiniteSets

CONSTANTS
    Pids, Slots, MaxSeen, MaxTime,                                \* OwnedProcesses
    Hosts,                                                        \* DpiOverride, ConfigStore, ExtensionStore
    Values, MaxWrites,                                            \* DpiOverride
    CommonOrder, FullOrder, MaxFound, MaxChanges, MaxErrors,      \* Discovery
    Clients, Traits, Dlls, KnownDlls, MaxScans,                   \* ClientPicker
    Documents, Arguments, MaxArguments, Keys, Addresses,          \* HomeSettings
    SharedKeys, OtherKeys, MaxFaults,                             \* ConfigStore
    Services, MaxTroubles,                                        \* ExtensionStore
    Bases, MaxChallenges                                          \* AccountWindow

\* 0, -1 and "none" stand for no one.
ASSUME PartsAssumption ==
    /\ Hosts \cap {0, -1} = {} /\ 0 \notin Pids /\ 0 \notin Services /\ 0 \notin Bases
    /\ Values \subseteq [type : {"none", "text", "expand", "binary"}, tokens : SUBSET UNION {v.tokens : v \in Values}]
    /\ IsFiniteSet(Pids) /\ MaxSeen \in Nat \ {0} /\ MaxTime \in Nat
    /\ Len(CommonOrder) \in Nat /\ Len(FullOrder) \in Nat /\ MaxFound \in Nat /\ MaxChanges \in Nat
    /\ MaxTroubles \in Nat /\ MaxChallenges \in Nat /\ MaxWrites \in Nat /\ MaxScans \in Nat

VARIABLES
    part,
    live, clock, roots, call, ended,                                                   \* OwnedProcesses
    reg, mutex, dpi, meant, spoiled, writes,                                           \* DpiOverride
    disk, locked, os32, scanCache, scan, result, touched, sinceFill, changes, errors,  \* Discovery
    list, full, shown, notice, win, prog, before, asked, scans,                        \* ClientPicker
    at, layers, options, why, home, last,                                              \* HomeSettings
    file, readers, patch, temporary, first, patched, faults,                           \* ConfigStore
    latest, package, update, troubles,                                                 \* ExtensionStore
    aw, config, open, saved                                                            \* AccountWindow

processVars == <<live, clock, roots, call, ended>>
dpiVars == <<reg, mutex, dpi, meant, spoiled, writes>>
searchVars == <<disk, locked, os32, scanCache, scan, result, touched, sinceFill, changes, errors>>
pickerVars == <<list, full, shown, notice, win, prog, before, asked, scans>>
settingsVars == <<at, layers, options, why, home, last>>
fileVars == <<file, readers, patch, temporary, first, patched, faults>>
packageVars == <<latest, package, update, troubles>>
accountVars == <<aw, config, open, saved>>
vars == <<part, processVars, dpiVars, searchVars, pickerVars, settingsVars, fileVars, packageVars, accountVars>>

-----------------------------------------------------------------------------
Processes == INSTANCE OwnedProcesses
Dpi == INSTANCE DpiOverride WITH s <- dpi, trouble <- writes
Search == INSTANCE Discovery WITH cache <- scanCache
Picker == INSTANCE ClientPicker
Settings == INSTANCE HomeSettings
File == INSTANCE ConfigStore WITH op <- patch, touched <- patched
Package == INSTANCE ExtensionStore WITH cache <- package, op <- update
Account == INSTANCE AccountWindow

\* An argument sets fields of the options, and a log is on or off.
ASSUME SettingsAssumption ==
    /\ \A a \in Arguments : DOMAIN a \subseteq DOMAIN Settings!Default /\ ("log" \in DOMAIN a => a["log"] \in BOOLEAN)
    /\ \A doc \in Documents : /\ "log" \in DOMAIN doc.top => doc.top["log"] \in BOOLEAN
                              /\ "log_enabled" \in DOMAIN doc.settings => doc.settings["log_enabled"] \in BOOLEAN

-----------------------------------------------------------------------------
NoProcesses == live = 0 /\ clock = 0 /\ roots = 0 /\ call = 0 /\ ended = 0
NoDpi == reg = 0 /\ mutex = 0 /\ dpi = 0 /\ meant = 0 /\ spoiled = 0 /\ writes = 0
NoSearch ==
    /\ disk = 0 /\ locked = 0 /\ os32 = 0 /\ scanCache = 0 /\ scan = 0 /\ result = 0
    /\ touched = 0 /\ sinceFill = 0 /\ changes = 0 /\ errors = 0
NoPicker ==
    /\ list = 0 /\ full = 0 /\ shown = 0 /\ notice = 0 /\ win = 0 /\ prog = 0
    /\ before = 0 /\ asked = 0 /\ scans = 0
NoSettings == at = 0 /\ layers = 0 /\ options = 0 /\ why = 0 /\ home = 0 /\ last = 0
NoFile == file = 0 /\ readers = 0 /\ patch = 0 /\ temporary = 0 /\ first = 0 /\ patched = 0 /\ faults = 0
NoPackage == latest = 0 /\ package = 0 /\ update = 0 /\ troubles = 0
NoAccount == aw = 0 /\ config = 0 /\ open = 0 /\ saved = 0

Init ==
    /\ part \in {"processes", "dpi", "search", "picker", "settings", "file", "package", "account"}
    /\ IF part = "processes" THEN Processes!ProcInit ELSE NoProcesses
    /\ IF part = "dpi" THEN Dpi!DpiInit ELSE NoDpi
    /\ IF part = "search" THEN Search!DiscoveryInit ELSE NoSearch
    /\ IF part = "picker" THEN Picker!PickerInit ELSE NoPicker
    /\ IF part = "settings" THEN Settings!SettingsInit ELSE NoSettings
    /\ IF part = "file" THEN File!ConfigInit ELSE NoFile
    /\ IF part = "package" THEN Package!StoreInit ELSE NoPackage
    /\ IF part = "account" THEN Account!AccountInit ELSE NoAccount

\* What is not the part stays as it is
Others(p) ==
    /\ part = p /\ UNCHANGED part
    /\ p # "processes" => UNCHANGED processVars
    /\ p # "dpi" => UNCHANGED dpiVars
    /\ p # "search" => UNCHANGED searchVars
    /\ p # "picker" => UNCHANGED pickerVars
    /\ p # "settings" => UNCHANGED settingsVars
    /\ p # "file" => UNCHANGED fileVars
    /\ p # "package" => UNCHANGED packageVars
    /\ p # "account" => UNCHANGED accountVars

Next ==
    \/ Others("processes") /\ Processes!ProcNext
    \/ Others("dpi") /\ Dpi!DpiNext
    \/ Others("search") /\ Search!DiscoveryNext
    \/ Others("picker") /\ Picker!PickerNext
    \/ Others("settings") /\ Settings!SettingsNext
    \/ Others("file") /\ File!ConfigNext
    \/ Others("package") /\ Package!StoreNext
    \/ Others("account") /\ Account!AccountNext

Spec == Init /\ [][Next]_vars

-----------------------------------------------------------------------------
\* process.c: only descendants of a launch are ended for it, and a verified listener
\* descends from it, but for a process that took a number within the scan that
\* adopted it; the client that is asked about is the one launched.
OwnProcesses ==
    part = "processes" =>
        Processes!ProcTypeOK /\ Processes!EndsOnlyDescendants /\ Processes!VerifiedDescends /\ Processes!AliveIsTheClient

\* dpi.c: the setting is in effect during a launch, and afterwards the registry
\* holds what everyone but the hosts wants.
DpiKept == part = "dpi" => Dpi!DpiTypeOK /\ Dpi!MeantIsKept /\ Dpi!InEffect

\* discovery.c: an undisturbed search lists every client that runs here.
NoClientMissed == part = "search" => Search!DiscoveryTypeOK /\ Search!NothingMissed

\* discovery-cache.inc: a list from the cache is complete and true.
CachedListTrue == part = "search" => Search!HitComplete /\ Search!ListTrue

\* selection.c, host.c: a client of the list is launched in a way that it
\* supports, and only the user cancels a search.
ChoiceIsTheUsers ==
    part = "picker" => Picker!PickerTypeOK /\ Picker!ChosenIsSupported /\ Picker!CancelIsTheUsers

\* options.c, home.c: the arguments' choice of client wins over the files, a
\* promise not to write survives the dialog, and a dialog in which only a theme was
\* picked changes only the theme.
SettingsObeyed ==
    part = "settings" =>
        /\ Settings!OptionsTypeOK /\ Settings!CliSelectionWins
        /\ Settings!SharedSettingsUnique /\ Settings!ExamKeepsPromise /\ Settings!SaveKeeps

\* config-store.c: settings that nobody changes survive every write, and no
\* temporary file is left.
SettingsSurvive == part = "file" => File!ConfigTypeOK /\ File!UnpatchedKept /\ File!NoLitter

\* adapter-account.c: the package in use is sound, of the right service, and as
\* fresh as was asked for; a bad one in the cache is replaced.
PackageIsOurs ==
    part = "package" => Package!StoreTypeOK /\ Package!UsedIsOurs /\ Package!BadCacheHeals /\ Package!UpdateIsFresh

\* account-window.c: passwords and keys go to the service they belong to.
AnswersTheAsker ==
    part = "account" => Account!AccountTypeOK /\ Account!AnswersTheAsker /\ Account!KeyBelongsToBase

\* config-store.c: at no step is the configuration file gone or half written,
\* whichever of the writers fails, ends or is overtaken between its steps.
FileStaysWhole == [][part = "file" => file'.state = "whole" \/ file' = file]_vars

=============================================================================
