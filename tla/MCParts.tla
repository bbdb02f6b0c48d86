------------------------------ MODULE MCParts -------------------------------
(* The parts of the Windows host on small instances.                       *)
EXTENDS Parts

Text(tokens) == [type |-> "text", tokens |-> tokens]
MCValues == {[type |-> "none", tokens |-> {}], Text({"HIGHDPIAWARE"}), Text({"HIGHDPIAWARE", "DPIUNAWARE"}),
         [type |-> "expand", tokens |-> {"WIN7"}], [type |-> "binary", tokens |-> {}]}

MCCommonOrder == <<"desktop", "programs">>
MCFullOrder == <<"desktop", "programs", "elsewhere">>

Trait(p, x, w, i) == [packed |-> p, x86 |-> x, writable |-> w, imports |-> i]
MCTraits == [packed |-> Trait(TRUE, TRUE, TRUE, {"winmm"}),
             plain  |-> Trait(FALSE, TRUE, TRUE, {"version", "kernel32"}),
             wide   |-> Trait(FALSE, FALSE, TRUE, {"winmm"})]

None == [f \in {} |-> 0]
Document(top, settings) == [top |-> top, settings |-> settings]
MCKeys == {<<"F8">>, <<"Alt", "F4">>}
MCDocuments == {
    Document([clientPath |-> "p"], None),
    Document([clientIndex |-> 1, scanAll |-> FALSE], [question_caches |-> "file"]),
    Document([noDiskWrite |-> TRUE], [log_enabled |-> TRUE]),
    Document([log |-> TRUE], [no_disk_write |-> FALSE, answer_threads |-> 2]),
    Document([executionMode |-> "memory"], [answer_key |-> <<"Ctrl", "F8">>, panel_theme |-> "green"]),
    Document([deleteSuspend |-> TRUE, dpiAware |-> TRUE], None),
    Document([ui |-> "gui", diagnose |-> TRUE, memoryExec |-> FALSE], None),
    Document([elevate |-> TRUE, key |-> <<"Alt", "F4">>], None),
    Document([threads |-> 5, typo |-> TRUE], None),
    Document(None, [executionMode |-> "memory"]) }
MCArguments == {
    [clientPath |-> "q"], [clientIndex |-> 2], [clientFirst |-> TRUE, scanClients |-> TRUE],
    [selectClient |-> TRUE, scanClients |-> TRUE], [scanMode |-> "all", scanAll |-> TRUE, scanClients |-> TRUE],
    [ui |-> "gui"], [attach |-> TRUE], [listClients |-> TRUE, scanClients |-> TRUE],
    [rescan |-> TRUE, scanClients |-> TRUE], [key |-> <<"Alt", "Tab">>], [configPath |-> TRUE],
    [optionsJson |-> TRUE], [noDiskWrite |-> TRUE], [deleteConfig |-> TRUE], [dpiAware |-> TRUE],
    [memory |-> TRUE], [memory |-> FALSE, deleteSuspend |-> FALSE], [memory |-> TRUE, deleteSuspend |-> FALSE],
    [memory |-> FALSE, deleteSuspend |-> TRUE], [noElevate |-> TRUE], [log |-> TRUE] }
=============================================================================
