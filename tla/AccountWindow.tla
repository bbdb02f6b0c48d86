---------------------------- MODULE AccountWindow ----------------------------
(***************************************************************************)
(* The account window (account-window.c over adapter-account.c).  Its user *)
(* types the address of a service and either a key, or a name, a password  *)
(* and the answer to a picture that the service has drawn.  Requests are   *)
(* made by a worker thread that reads copies of what was typed, and that   *)
(* posts a message when it is done; the window may be closed before.       *)
(*                                                                         *)
(* A key is the service that knows it, 0 for none.  What the fields for    *)
(* name, password and answer hold is left out; a service may refuse it.    *)
(***************************************************************************)
EXTENDS Naturals

CONSTANTS
    Bases,            \* addresses of services
    MaxChallenges     \* bound: pictures drawn

VARIABLES
    aw,          \* ACCOUNT_WINDOW: fields, worker and challenge
    config,      \* CX_HOME_CONFIG: address and key
    open,        \* the challenges that services wait to be answered
    saved        \* history: what config holds was put there by the window

NoChallenge == [id |-> 0, by |-> 0]
Working == aw.op # "none"

AccountTypeOK ==
    /\ aw.ui \in {"open", "closed"} /\ aw.base \in Bases /\ aw.text \in Bases \cup {0}
    /\ aw.op \in {"none", "refresh", "login", "key"}
    /\ aw.challenge \in {NoChallenge} \cup [id : 1..MaxChallenges, by : Bases]
    /\ config \in [base : Bases, key : Bases \cup {0}]

AccountInit ==
    /\ config \in [base : Bases, key : Bases \cup {0}]
    /\ aw = [ui |-> "open", base |-> config.base, key |-> config.key, create |-> TRUE,
             op |-> "none", at |-> "", text |-> 0, ok |-> FALSE, account |-> 0, closing |-> FALSE,
             loaded |-> FALSE, local |-> FALSE, challenge |-> NoChallenge, captchaBase |-> 0, drawn |-> 0]
    /\ open = {} /\ saved = FALSE

-----------------------------------------------------------------------------
(* The window: its controls are disabled while the worker runs             *)

Idle == aw.ui = "open" /\ ~Working

Type ==
    /\ Idle
    /\ \E base \in Bases, key \in Bases \cup {0}, create \in BOOLEAN :
        aw' = [aw EXCEPT !.base = base, !.key = key, !.create = create]
    /\ UNCHANGED <<config, open, saved>>

\* aw_start with the copies and the thread
Work(window, op, at) == [window EXCEPT !.op = op, !.at = at, !.text = aw.base, !.ok = FALSE]

\* The challenge is forgotten before the thread is created, which may fail.
Refresh ==
    /\ Idle
    /\ LET cleared == [aw EXCEPT !.loaded = FALSE, !.challenge = NoChallenge, !.captchaBase = 0]
       IN aw' \in {cleared, Work(cleared, "refresh", "settings")}
    /\ UNCHANGED <<config, open, saved>>

\* Defect: the address the picture came from is not compared with the one typed
Login_anyBase ==
    /\ Idle /\ aw.loaded /\ aw.local /\ aw.challenge # NoChallenge
    /\ aw' \in {aw, Work(aw, "login", "verify")}
    /\ UNCHANGED <<config, open, saved>>

\* Only with a picture of the service whose address is typed now
Login ==
    /\ Idle /\ aw.loaded /\ aw.local
    /\ IF aw.captchaBase # aw.base THEN aw' = [aw EXCEPT !.challenge = NoChallenge]
       ELSE aw.challenge # NoChallenge /\ aw' \in {aw, Work(aw, "login", "verify")}
    /\ UNCHANGED <<config, open, saved>>

CheckKey ==
    /\ Idle
    /\ aw' \in {aw, Work(aw, "key", "check")}
    /\ UNCHANGED <<config, open, saved>>

\* Closing, or the end of the message loop, waits for the worker.
Close ==
    /\ aw.ui = "open"
    /\ aw' = IF Working THEN [aw EXCEPT !.closing = TRUE] ELSE [aw EXCEPT !.ui = "closed"]
    /\ UNCHANGED <<config, open, saved>>

-----------------------------------------------------------------------------
(* aw_work                                                                 *)

Ends(ok) == aw' = [aw EXCEPT !.at = "done", !.ok = ok]

\* cx_adapter_auth_settings: how this service tells people from programs
Settings ==
    /\ aw.at = "settings"
    /\ \/ Ends(FALSE)
       \/ aw' = [aw EXCEPT !.loaded = TRUE, !.local = TRUE, !.at = "captcha"]
       \/ aw' = [aw EXCEPT !.loaded = TRUE, !.local = FALSE, !.at = "done", !.ok = TRUE]
    /\ UNCHANGED <<config, open, saved>>

\* cx_adapter_captcha_begin
Captcha ==
    /\ aw.at = "captcha"
    /\ \/ Ends(FALSE) /\ UNCHANGED open
       \/ LET c == [id |-> aw.drawn + 1, by |-> aw.text] IN
          /\ c.id <= MaxChallenges
          /\ aw' = [aw EXCEPT !.challenge = c, !.drawn = c.id, !.at = "done", !.ok = TRUE]
          /\ open' = open \cup {c}
    /\ UNCHANGED <<config, saved>>

\* cx_adapter_captcha_verify: right or wrong, the challenge is over.
Verify ==
    /\ aw.at = "verify"
    /\ open' = open \ {aw.challenge}
    /\ \/ aw' = [aw EXCEPT !.at = "password"]
       \/ Ends(FALSE)
    /\ UNCHANGED <<config, saved>>

\* cx_adapter_account_login
Password ==
    /\ aw.at = "password"
    /\ \/ aw' = [aw EXCEPT !.at = "token"]
       \/ Ends(FALSE)
    /\ UNCHANGED <<config, open, saved>>

\* cx_adapter_account_token: an enabled one of the account, or a new one if that is allowed
Token ==
    /\ aw.at = "token"
    /\ \/ aw' = [aw EXCEPT !.account = aw.text, !.at = "done", !.ok = TRUE]
       \/ aw.create /\ aw' = [aw EXCEPT !.account = aw.text, !.at = "done", !.ok = TRUE]
       \/ aw' = [aw EXCEPT !.account = 0, !.at = "done", !.ok = FALSE]
    /\ UNCHANGED <<config, open, saved>>

\* cx_adapter_key_check
Check ==
    /\ aw.at = "check"
    /\ \/ aw.key = aw.text /\ Ends(TRUE)
       \/ Ends(FALSE)
    /\ UNCHANGED <<config, open, saved>>

-----------------------------------------------------------------------------
(* ACCOUNT_DONE                                                            *)

Rested == [aw EXCEPT !.op = "none", !.at = "", !.text = 0, !.ok = FALSE]

\* What any end of an operation leaves: a challenge serves one login.
Finished == IF aw.op = "login" THEN [Rested EXCEPT !.challenge = NoChallenge] ELSE Rested

\* A refresh that went well shows its picture, if there is one and it can be drawn.
Shown ==
    IF aw.local THEN {[Finished EXCEPT !.captchaBase = aw.text], Finished}
    ELSE {[Finished EXCEPT !.challenge = NoChallenge, !.captchaBase = 0]}

Done ==
    /\ aw.at = "done"
    /\ \/ aw.closing /\ aw' = [Rested EXCEPT !.ui = "closed"] /\ UNCHANGED <<config, saved>>
       \/ ~aw.closing /\ ~aw.ok /\ aw' = Finished /\ UNCHANGED <<config, saved>>
       \/ ~aw.closing /\ aw.ok /\ aw.op = "refresh" /\ aw' \in Shown /\ UNCHANGED <<config, saved>>
       \/ /\ ~aw.closing /\ aw.ok /\ aw.op # "refresh"
          /\ config' = [base |-> aw.text, key |-> IF aw.op = "key" THEN aw.key ELSE aw.account]
          /\ saved' = TRUE
          /\ aw' = [Finished EXCEPT !.ui = "closed"]
    /\ UNCHANGED open

AccountNext ==
    \/ Type \/ Refresh \/ Login \/ CheckKey \/ Close
    \/ Settings \/ Captcha \/ Verify \/ Password \/ Token \/ Check \/ Done

-----------------------------------------------------------------------------
\* A password goes only to the service that drew the picture its user answered,
\* and the answer to a picture is given once.
AnswersTheAsker ==
    aw.op = "login" /\ aw.at \in {"verify", "password", "token"} =>
        /\ aw.challenge.by = aw.text
        /\ aw.at = "verify" => aw.challenge \in open

\* The key that is kept is one the service kept with it has accepted or issued.
KeyBelongsToBase == saved => config.key = config.base

=============================================================================
