----------------------------- MODULE HomeSettings -----------------------------
(***************************************************************************)
(* The settings dialog of the home window and the exam it starts (home.c). *)
(* The window keeps page settings of its own over those of the options;    *)
(* the dialog shows what is in effect and writes all of it back, for the   *)
(* window or for one session, and an exam runs with a copy of the options  *)
(* that these settings are applied to.                                     *)
(***************************************************************************)
EXTENDS Options

CONSTANTS
    Keys,        \* shortcuts that are typed
    Addresses    \* of services

VARIABLES
    home,        \* CX_HOME_CONFIG: its settingsJson and adapterBaseUrl
    last         \* what was started last: the options of an exam, the settings of a session

homeVars == <<home, last>>
None == [what |-> "none", options |-> Default, settings |-> Nothing]

SettingsInit ==
    /\ OptionsInit
    /\ home \in [settings : {Nothing}, base : Addresses]
    /\ last = None

OptionsStep == OptionsNext /\ UNCHANGED homeVars

-----------------------------------------------------------------------------
\* home_build_settings, with home_adapter_patch: shared settings of the
\* options, under those of the window, under its service.
Build(config) ==
    [baseurl |-> config.base] ++ Shared(config.settings) ++ layers.base.shared

Themes == {"pink", "blue", "green"}
Controls == {"log_enabled", "answer_key", "answer_threads", "question_caches", "panel_theme"}

\* settings_populate: a control shows the setting, or else the field of the
\* options.  The list of themes does not: without the setting none is selected.
Populated(config) ==
    LET built == Build(config) IN
    [k \in Controls |->
        IF k \in DOMAIN built THEN built[k]
        ELSE CASE k = "log_enabled"     -> options.log /\ ~options.noDiskWrite
               [] k = "answer_key"      -> options.key
               [] k = "answer_threads"  -> options.threads
               [] k = "question_caches" -> "on"
               [] k = "panel_theme"     -> "unselected"]

\* settings_make_patch: every control is written, and the log stays off when
\* nothing may be written.
Patch(form) == [form EXCEPT !.log_enabled = @ /\ ~options.noDiskWrite]

\* settings_make_patch and settings_shortcut_valid: numbers in range, a key that
\* is one, and a theme that is selected
Accepted(form) ==
    form.answer_threads \in 1..4 /\ Shortcut(form.answer_key) /\ form.panel_theme \in Themes
Saved(config, form) == [config EXCEPT !.settings = Patch(form) ++ @]

\* What the user may have changed in the dialog
Filled(log, key, threads) ==
    [Populated(home) EXCEPT !.log_enabled = log, !.answer_key = key, !.answer_threads = threads]
WithTheme(form, theme) == [form EXCEPT !.panel_theme = theme]
Forms ==
    LET filled == {Filled(log, key, threads) : log \in BOOLEAN, key \in Keys, threads \in {0, 2}}
    IN filled \cup {WithTheme(form, "blue") : form \in filled}
Opened(config) == last' = [None EXCEPT !.what = "session", !.settings = Build(config)]

\* home_settings_dialog: for the window, or for a session that is opened with it
Dialog ==
    /\ at = "ready"
    /\ \E form \in Forms, base \in Addresses :
        LET saved == Saved([home EXCEPT !.base = base], form)
        IN /\ Accepted(form)
           /\ \/ home' = saved /\ UNCHANGED last
              \/ Opened(saved) /\ UNCHANGED home
    /\ UNCHANGED optionVars

\* home_apply_typed_settings: the settings are a document over the options
Applied(settings) ==
    LET set == Typed([top |-> Nothing, settings |-> settings])
    IN [f \in DOMAIN options |-> IF f \in DOMAIN set THEN set[f] ELSE options[f]]

\* home_exam: they are not checked again
Exam ==
    /\ at = "ready"
    /\ last' = [None EXCEPT !.what = "exam", !.options = Applied(Build(home))]
    /\ UNCHANGED <<optionVars, home>>

SettingsNext == OptionsStep \/ Dialog \/ Exam

-----------------------------------------------------------------------------
\* An exam from the home window keeps the promise the host was started with: no
\* settings of a file or of the dialog bring writing back.
ExamKeepsPromise ==
    options.noDiskWrite /\ last.what = "exam" => last.options.noDiskWrite /\ ~last.options.log

\* To save the dialog with no more than a theme picked in it, which the first one
\* cannot be saved without, changes nothing but the theme: neither the options of
\* an exam nor a setting of a session.
SaveKeeps ==
    at = "ready" =>
        \A theme \in Themes :
            LET form == WithTheme(Populated(home), theme)
                saved == Saved(home, form)
            IN Accepted(form) =>
                /\ Applied(Build(saved)) = [Applied(Build(home)) EXCEPT !["theme"] = theme]
                /\ \A k \in DOMAIN Build(home) \ {"panel_theme"} : Build(saved)[k] = Build(home)[k]

=============================================================================
