------------------------------- MODULE Options -------------------------------
(***************************************************************************)
(* The options of the host (options.c and the start of host.c).  They come *)
(* in four layers: the file beside the program, the file that --config     *)
(* names, --options-json, and the other arguments.  Each layer is merged   *)
(* over the ones before it, and what comes out is checked and completed.   *)
(*                                                                         *)
(* A layer is a function on the fields it sets; page settings it carries   *)
(* verbatim are kept apart.  Fields that only differ in name are left out, *)
(* and so are those of the start-up clean-up and of silent runs.           *)
(***************************************************************************)
EXTENDS Naturals, FiniteSets, Functions, Layers

CONSTANTS
    Documents,       \* what a configuration file or --options-json may say
    Arguments,       \* the arguments, each as the fields it sets
    MaxArguments

VARIABLES
    at,              \* where wWinMain is
    layers,          \* h_base_options, h_config_options, h_json_options, h_cli_options
    options,         \* the options after cx_options_finalize
    why              \* the reasons it may refuse them for

optionVars == <<at, layers, options, why>>

Default ==
    [clientPath |-> "", clientIndex |-> 0, clientFirst |-> FALSE, scanClients |-> FALSE,
     listClients |-> FALSE, selectClient |-> FALSE, scanMode |-> "fallback-all", scanAll |-> FALSE,
     rescan |-> FALSE, noScanCache |-> FALSE, ui |-> "auto", configPath |-> FALSE, optionsJson |-> FALSE,
     noDiskWrite |-> FALSE, deleteConfig |-> FALSE, diagnose |-> FALSE, noDiagnose |-> FALSE,
     log |-> TRUE, dpiAware |-> FALSE, attach |-> FALSE, memory |-> FALSE, deleteSuspend |-> FALSE,
     elevate |-> FALSE, noElevate |-> FALSE, threads |-> 4, key |-> <<"F8">>, theme |-> "pink"]

Nothing == [f \in {} |-> 0]
Empty == [set |-> Nothing, shared |-> Nothing, pathBy |-> 0, uiBy |-> 0, layers |-> 0, cli |-> FALSE]
Sets(layer, f) == f \in DOMAIN layer.set
Get(layer, f) == IF Sets(layer, f) THEN layer.set[f] ELSE Default[f]
Without(fields, gone) == Restrict(fields, DOMAIN fields \ gone)

OptionsTypeOK ==
    /\ at \in {"default", "arguments", "config", "json", "merge", "ready", "refused"}
    /\ \A l \in DOMAIN layers : DOMAIN layers[l].set \subseteq DOMAIN Default
    /\ DOMAIN options = DOMAIN Default

OptionsInit ==
    /\ at = "default" /\ options = Default /\ why = {}
    /\ layers = [base |-> Empty, config |-> Empty, json |-> Empty, cli |-> [Empty EXCEPT !.cli = TRUE]]

-----------------------------------------------------------------------------
(* Shortcuts: the sequence of the words between the signs                  *)

Modifiers == {"Ctrl", "Alt", "Shift", "Win"}
BaseKeys == {"Escape", "Tab", "Space", "W", "A", "F4", "F8", "Enter"}
FunctionKeys == {"F4", "F8"}
Words(key) == {key[i] : i \in DOMAIN key}
BasesOf(key) == {i \in DOMAIN key : key[i] \notin Modifiers}

\* cx_shortcut: one base key, and no modifier twice
Shortcut(key) ==
    /\ key # <<>> /\ Words(key) \subseteq Modifiers \cup BaseKeys
    /\ Cardinality(BasesOf(key)) = 1
    /\ \A i, j \in DOMAIN key : key[i] = key[j] => i = j

\* cx_shortcut_blocked: the client's keyboard hook takes it
Blocked(key) ==
    \/ "Win" \in Words(key)
    \/ /\ Cardinality(BasesOf(key)) = 1
       /\ \/ "Escape" \in Words(key)
          \/ "Alt" \in Words(key) /\ Words(key) \cap ({"Tab", "Space"} \cup FunctionKeys) # {}
          \/ "Ctrl" \in Words(key) /\ "W" \in Words(key)

-----------------------------------------------------------------------------
(* A JSON document: [top, settings]                                        *)

\* The page settings that are fields of the options (cx_managed_shared_setting),
\* and the field each of them is.
ManagedField ==
    [log_enabled |-> "log", no_disk_write |-> "noDiskWrite", answer_key |-> "key", answer_threads |-> "threads",
     panel_theme |-> "theme"]
\* shared_key of config-store.c
Managed == DOMAIN ManagedField
SharedSettings == DOMAIN ManagedField \cup {"question_caches", "baseurl"}
Shared(settings) == Restrict(settings, DOMAIN settings \cap SharedSettings)

\* cx_known_top_key
KnownTop == (DOMAIN Default \ {"attach", "noElevate", "configPath", "optionsJson", "memory"}) \cup {"executionMode", "memoryExec"}
\* cx_json_reject_unsupported: flags of the host where page settings belong
Restricted == {"executionMode", "deleteSuspend"}
Readable(doc) == DOMAIN doc.top \subseteq KnownTop /\ DOMAIN doc.settings \cap Restricted = {}

\* cx_json_execution_mode: memoryExec overrides executionMode
ModeFields(top) ==
    (IF "memoryExec" \in DOMAIN top THEN [memory |-> top.memoryExec] ELSE Nothing)
    ++ (IF "deleteSuspend" \in DOMAIN top THEN [deleteSuspend |-> top.deleteSuspend] ELSE Nothing)
    ++ (IF "executionMode" \notin DOMAIN top THEN Nothing
        ELSE IF top.executionMode = "delete-suspend" THEN [memory |-> FALSE, deleteSuspend |-> TRUE]
        ELSE [memory |-> top.executionMode = "memory"])

\* cx_options_apply_object: settings are read after the fields of the document
Typed(doc) ==
    LET typed == DOMAIN doc.settings \cap DOMAIN ManagedField
        field(f) == CHOOSE k \in typed : ManagedField[k] = f
    IN [f \in {ManagedField[k] : k \in typed} |-> doc.settings[field(f)]]
       ++ ModeFields(doc.top) ++ Without(doc.top, {"executionMode", "memoryExec", "deleteSuspend"})

\* The fields that follow from others (cx_options_apply_json_utf8)
Diagnoses(set) ==
    IF "noDiagnose" \in DOMAIN set THEN [noDiagnose |-> set.noDiagnose, diagnose |-> ~set.noDiagnose]
    ELSE IF "diagnose" \in DOMAIN set THEN [diagnose |-> set.diagnose, noDiagnose |-> ~set.diagnose]
    ELSE Nothing
Scans(set) ==
    IF "scanMode" \in DOMAIN set THEN [scanAll |-> set.scanMode = "all", scanClients |-> TRUE]
    ELSE IF "scanAll" \in DOMAIN set
         THEN [scanMode |-> IF set.scanAll THEN "fallback-all" ELSE "common", scanClients |-> TRUE]
    ELSE IF \E f \in {"clientFirst", "selectClient", "listClients", "rescan", "noScanCache"} \cap DOMAIN set : set[f]
         THEN [scanClients |-> TRUE]
    ELSE Nothing
Unmanaged(settings) == Shared(Without(settings, Managed))
DocumentLayer(doc) ==
    LET set == Typed(doc)
    IN [Empty EXCEPT !.set = Diagnoses(set) ++ Scans(set) ++ set, !.shared = Unmanaged(doc.settings),
                     !.layers = 1, !.pathBy = 1, !.uiBy = 1]

-----------------------------------------------------------------------------
(* cx_options_merge                                                        *)

Selection == {"clientPath", "clientIndex", "clientFirst", "listClients", "selectClient"}
Scanning == {"scanClients", "scanMode", "scanAll", "rescan", "noScanCache"}
Chooses(layer) == layer.cli /\ DOMAIN layer.set \cap Selection # {}
Searches(layer) ==
    layer.cli /\ (DOMAIN layer.set \cap {"scanClients", "scanMode", "rescan", "noScanCache"} # {}
                  \/ Get(layer, "ui") # "auto")

\* Defect: the arguments do not clear what the files say about the client
Cleared_never(layer) == {}
\* The arguments' own choice of a client replaces any the files made.
Cleared(layer) ==
    IF Chooses(layer) THEN Selection \cup IF Sets(layer, "clientPath") THEN Scanning ELSE {}
    ELSE IF Searches(layer) THEN {"clientPath"} ELSE {}

Merge(d, l) ==
    [set    |-> l.set ++ Without(d.set, Cleared(l)),
     shared |-> l.shared ++ d.shared,
     pathBy |-> IF Sets(l, "clientPath") THEN d.layers + l.pathBy
                ELSE IF "clientPath" \in Cleared(l) THEN 0 ELSE d.pathBy,
     uiBy   |-> IF Sets(l, "ui") THEN d.layers + l.uiBy ELSE d.uiBy,
     layers |-> d.layers + IF l.layers = 0 THEN 1 ELSE l.layers,
     cli    |-> d.cli]

-----------------------------------------------------------------------------
(* cx_options_finalize                                                     *)

\* A window that a later layer asks for takes the place of the path.
Suppressed(o) == Get(o, "ui") # "auto" /\ o.uiBy > o.pathBy
HasPath(o) == Get(o, "clientPath") # "" /\ ~Suppressed(o)
HasIndex(o) == Sets(o, "clientIndex")

SelectionConflict(o) ==
    \/ HasPath(o) /\ (HasIndex(o) \/ \E f \in {"scanClients", "clientFirst", "selectClient", "listClients"} : Get(o, f))
    \/ HasIndex(o) /\ \E f \in {"clientFirst", "selectClient", "listClients"} : Get(o, f)
    \/ Cardinality({f \in {"clientFirst", "selectClient", "listClients"} : Get(o, f)}) > 1

NoDiskWrite(o) == Get(o, "noDiskWrite") \/ Get(o, "deleteSuspend")

Refusals(o) ==
    {r \in {"elevate", "dpi", "config", "suspend", "disk", "selection", "index", "threads", "key"} :
        CASE r = "elevate"   -> Get(o, "elevate") /\ Get(o, "noElevate")
          [] r = "dpi"       -> Get(o, "dpiAware") /\ (Get(o, "noDiskWrite") \/ Get(o, "attach"))
          [] r = "config"    -> Get(o, "deleteConfig") /\ ~Get(o, "configPath")
          [] r = "suspend"   -> Get(o, "deleteSuspend") /\ (Get(o, "attach") \/ Get(o, "listClients"))
          [] r = "disk"      -> Get(o, "deleteConfig") /\ NoDiskWrite(o)
          [] r = "selection" -> SelectionConflict(o)
          [] r = "index"     -> HasIndex(o) /\ Get(o, "clientIndex") < 1
          [] r = "threads"   -> Get(o, "threads") \notin 1..4
          [] r = "key"       -> Get(o, "key") # <<>> /\ (~Shortcut(Get(o, "key")) \/ Blocked(Get(o, "key")))}

\* Memory mode writes nothing, and nothing is logged, diagnosed or cached
\* when nothing may be written.
Final(o) ==
    LET quiet == NoDiskWrite(o) \/ Get(o, "memory")
        all == [f \in DOMAIN Default |-> Get(o, f)]
        chosen == [all EXCEPT !.clientPath = IF HasPath(o) THEN @ ELSE "", !.noDiskWrite = quiet]
    IN IF quiet THEN [chosen EXCEPT !.log = FALSE, !.diagnose = FALSE, !.noDiagnose = TRUE, !.noScanCache = TRUE]
       ELSE chosen

-----------------------------------------------------------------------------
(* wWinMain                                                                *)

Refuse(reasons) == at' = "refused" /\ why' = reasons /\ UNCHANGED <<layers, options>>
Load(layer, next) ==
    \E doc \in Documents :
        IF Readable(doc)
        THEN /\ layers' = [layers EXCEPT ![layer] = Merge(@, DocumentLayer(doc))]
             /\ at' = next /\ UNCHANGED <<options, why>>
        ELSE Refuse({"document"})
Skip(next) == at' = next /\ UNCHANGED <<layers, options, why>>

\* cx_options_load_default: the file may be missing
LoadDefault == at = "default" /\ (Skip("arguments") \/ Load("base", "arguments"))

\* cx_options_parse_cli: one more argument.  An execution mode that is not
\* delete-suspend only takes back one that an argument before it asked for.
ParseArgument ==
    /\ at = "arguments"
    /\ layers.cli.layers < MaxArguments
    /\ \E a \in Arguments :
        LET idle == IF "deleteSuspend" \in DOMAIN a /\ ~a["deleteSuspend"] /\ ~Sets(layers.cli, "deleteSuspend")
                    THEN {"deleteSuspend"} ELSE {}
        IN layers' = [layers EXCEPT !.cli.set = Without(a, idle) ++ @, !.cli.layers = @ + 1]
    /\ UNCHANGED <<at, options, why>>
Parsed ==
    /\ at = "arguments" /\ at' = "config"
    /\ layers' = [layers EXCEPT !.cli.layers = 1, !.cli.pathBy = 1, !.cli.uiBy = 1]
    /\ UNCHANGED <<options, why>>
\* an unknown argument, one without its value, or a value out of range
BadArgument == at = "arguments" /\ Refuse({"argument"})

LoadConfig ==
    at = "config" /\ IF Get(layers.cli, "configPath") THEN Load("config", "json") ELSE Skip("json")
\* cx_options_apply_pending_json
LoadPending ==
    at = "json" /\ IF Get(layers.cli, "optionsJson") THEN Load("json", "merge") ELSE Skip("merge")

\* Of the layers only the page settings are read after this.
Merged == Merge(Merge(Merge(layers.base, layers.config), layers.json), layers.cli)
Finalize ==
    /\ at = "merge"
    /\ IF Refusals(Merged) # {} THEN Refuse(Refusals(Merged))
       ELSE /\ at' = "ready" /\ options' = Final(Merged)
            /\ layers' = [base |-> [Empty EXCEPT !.shared = Merged.shared], config |-> Empty,
                          json |-> Empty, cli |-> layers.cli]
            /\ UNCHANGED why

OptionsNext ==
    \/ LoadDefault \/ ParseArgument \/ Parsed \/ BadArgument
    \/ LoadConfig \/ LoadPending \/ Finalize

-----------------------------------------------------------------------------
\* A choice of client among the arguments is obeyed whatever the files say: a
\* run is refused for its selection only if the arguments alone contradict
\* themselves, and a path among them is the one that is used.
CliSelectionWins ==
    /\ at = "refused" /\ why = {"selection"} /\ Chooses(layers.cli) => SelectionConflict(Merge(Empty, layers.cli))
    /\ at = "ready" /\ Sets(layers.cli, "clientPath") => options.clientPath = layers.cli.set.clientPath

\* Of a setting that is a field of the options no copy is carried verbatim: the
\* copy would outlive a later layer's value.
SharedSettingsUnique ==
    \A l \in DOMAIN layers : DOMAIN layers[l].shared \cap DOMAIN ManagedField = {}

=============================================================================
