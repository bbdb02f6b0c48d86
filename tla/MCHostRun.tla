------------------------------ MODULE MCHostRun ------------------------------
EXTENDS HostRun

Plain == [mode |-> "default", home |-> FALSE, attach |-> FALSE, dpi |-> FALSE, stop |-> FALSE,
          noElevate |-> FALSE, elevateOnStart |-> FALSE, retain |-> TRUE, deleteConfig |-> FALSE,
          packed |-> FALSE, admin |-> FALSE, token |-> FALSE, running |-> FALSE,
          beside |-> [file |-> "none", other |-> "none", marker |-> "none"]]
Ours     == [file |-> "ours", other |-> "none", marker |-> "this"]
Unmarked == [file |-> "ours", other |-> "none", marker |-> "none"]
Foreign  == [file |-> "foreign", other |-> "none", marker |-> "none"]
Stray    == [file |-> "foreign", other |-> "ours", marker |-> "other"]
Former   == [file |-> "none", other |-> "ours", marker |-> "other"]

\* Every mode and client with every thing beside it, from the command line and
\* from the home window; the options that only matter to a client that needs
\* rights are varied for it alone.  cx_options_finalize refuses --no-elevate with
\* --elevate-on-start and --dpi-aware with --attach.
Cases ==
    {[Plain EXCEPT !.mode = m, !.packed = p, !.admin = a, !.beside = b, !.home = h, !.noElevate = n, !.elevateOnStart = e,
                   !.dpi = d, !.stop = d, !.deleteConfig = ~h, !.retain = h, !.token = t, !.running = r, !.attach = c] :
        m \in Modes, p \in BOOLEAN, a \in BOOLEAN, b \in {Plain.beside, Ours, Unmarked, Foreign, Stray, Former}, h \in BOOLEAN,
        n \in BOOLEAN, e \in BOOLEAN, d \in BOOLEAN, t \in BOOLEAN, r \in BOOLEAN, c \in BOOLEAN}
Accepted ==
    {c \in Cases : /\ ~(c.noElevate /\ c.elevateOnStart) /\ ~(c.attach /\ (c.dpi \/ c.home))
                   /\ (~c.admin => ~c.noElevate /\ ~c.token)
                   /\ (c.running \/ c.attach => c.beside = Ours /\ ~c.admin)}
=============================================================================
