----------------------------- MODULE PartsProofs -----------------------------
(***************************************************************************)
(* Proofs about the parts of the Windows host that share no state, for any *)
(* values of their constants.  Each part has an invariant of its own, and  *)
(* an invariant of Parts says it of the part that a behaviour is about.    *)
(***************************************************************************)
EXTENDS Parts, FiniteSetTheorems, SequenceTheorems, TLAPS

\* The part stays what it is, and moves as its module says.
LEMMA PartsMove ==
  ASSUME [Next]_vars
  PROVE  /\ part' = part
         /\ part = "processes" => Processes!ProcNext \/ UNCHANGED processVars
         /\ part = "dpi" => Dpi!DpiNext \/ UNCHANGED dpiVars
         /\ part = "search" => Search!DiscoveryNext \/ UNCHANGED searchVars
         /\ part = "picker" => Picker!PickerNext \/ UNCHANGED pickerVars
         /\ part = "settings" => Settings!SettingsNext \/ UNCHANGED settingsVars
         /\ part = "file" => File!ConfigNext \/ UNCHANGED fileVars
         /\ part = "package" => Package!StoreNext \/ UNCHANGED packageVars
         /\ part = "account" => Account!AccountNext \/ UNCHANGED accountVars
<1>1. CASE UNCHANGED vars
  BY <1>1 DEF vars
<1>2. CASE Next
  BY <1>2 DEF Next, Others
<1>. QED
  BY <1>1, <1>2

-----------------------------------------------------------------------------
(* The configuration file (ConfigStore)                                    *)

\* A document has the roots of the first one, and its settings that were not patched.
Keeps(document, done) ==
    first.state = "whole" =>
        /\ document.state = "whole" /\ document.roots = first.roots
        /\ \A k \in SharedKeys \ done : k \in DOMAIN document.settings /\ document.settings[k] = first.settings[k]

\* What a call of a host has in its hands: what it read, and what it wrote.
FileCall(h) ==
    /\ patch[h].at \in {"idle", "read", "merge", "write", "flush", "move"}
    /\ DOMAIN patch[h].patch \subseteq SharedKeys
    /\ patch[h].at \in {"merge", "write", "flush", "move"} => Keeps(patch[h].read, patched)
    /\ h \in DOMAIN temporary <=> patch[h].at \in {"write", "flush", "move"}
    /\ patch[h].at \in {"flush", "move"} =>
          temporary[h].state = "whole" /\ Keeps(temporary[h], patched \cup DOMAIN patch[h].patch)

FileInv ==
    /\ file.state \in {"none", "whole"} /\ Keeps(file, patched) /\ patched \subseteq SharedKeys
    /\ DOMAIN patch = Hosts /\ DOMAIN temporary \subseteq Hosts
    /\ \A h \in Hosts : FileCall(h)

LEMMA FileInit == File!ConfigInit => FileInv
  BY DEF File!ConfigInit, FileInv, FileCall, Keeps, File!NoFile, File!Written, File!Document, File!Idle, File!NoSettings

LEMMA FileKept == ASSUME FileInv, UNCHANGED fileVars PROVE FileInv'
  BY DEF FileInv, FileCall, Keeps, fileVars

\* What has been kept is kept when more has been patched.
LEMMA KeepsMore ==
  ASSUME NEW document, NEW done, NEW more, Keeps(document, done), done \subseteq more
  PROVE  Keeps(document, more)
  BY DEF Keeps

LEMMA FileOther ==
  ASSUME NEW g \in Hosts, FileCall(g), first' = first, patched \subseteq patched', patch'[g] = patch[g],
         g \in DOMAIN temporary' <=> g \in DOMAIN temporary,
         g \in DOMAIN temporary => temporary'[g] = temporary[g]
  PROVE  FileCall(g)'
  BY DEF FileCall, Keeps

\* A call that ends leaves nothing in its host's hands.
LEMMA FileFails ==
  ASSUME FileInv, NEW h \in Hosts, File!Fails(h), first' = first, patched \subseteq patched'
  PROVE  /\ DOMAIN patch' = Hosts /\ DOMAIN temporary' \subseteq Hosts
         /\ \A g \in Hosts : FileCall(g)'
<1>1. /\ patch' = [patch EXCEPT ![h] = File!Idle]
      /\ temporary' = [g \in DOMAIN temporary \ {h} |-> temporary[g]]
  BY DEF File!Fails, File!Restrict
<1>2. DOMAIN patch' = Hosts /\ DOMAIN temporary' \subseteq Hosts
  BY <1>1 DEF FileInv
<1>3. FileCall(h)'
  BY <1>1 DEF FileInv, FileCall, File!Idle, File!NoSettings
<1>4. ASSUME NEW g \in Hosts \ {h} PROVE FileCall(g)'
  BY <1>1, FileOther DEF FileInv
<1>. QED
  BY <1>2, <1>3, <1>4

\* A step that changes nothing but the call of one host.
LEMMA FileAlone ==
  ASSUME FileInv, NEW h \in Hosts, UNCHANGED <<file, first, patched>>,
         NEW c, patch' = [patch EXCEPT ![h] = c], FileCall(h)',
         \A g \in Hosts \ {h} : /\ g \in DOMAIN temporary' <=> g \in DOMAIN temporary
                                /\ g \in DOMAIN temporary => temporary'[g] = temporary[g],
         DOMAIN temporary' \subseteq Hosts
  PROVE  FileInv'
<1>1. ASSUME NEW g \in Hosts \ {h} PROVE FileCall(g)'
  BY FileOther DEF FileInv
<1>. QED
  BY <1>1 DEF FileInv, Keeps

LEMMA FileBegins == ASSUME FileInv, NEW h \in Hosts, File!Begin(h) PROVE FileInv'
<1>1. PICK keys \in SUBSET SharedKeys, v \in File!Contents :
        patch' = [patch EXCEPT ![h] = [File!Idle EXCEPT !.at = "read", !.patch = [k \in keys |-> v]]]
  BY DEF File!Begin
<1> DEFINE c == [File!Idle EXCEPT !.at = "read", !.patch = [k \in keys |-> v]]
<1>2. c.at = "read" /\ DOMAIN c.patch = keys
  BY DEF File!Idle
<1>. HIDE DEF c
<1>3. patch'[h] = c
  BY <1>1 DEF FileInv, c
<1>4. FileCall(h)'
  BY <1>2, <1>3 DEF FileCall, FileInv, File!Begin
<1>. QED
  BY <1>1, <1>4, FileAlone DEF File!Begin, FileInv, c

LEMMA FileReads == ASSUME FileInv, NEW h \in Hosts, File!Read(h) PROVE FileInv'
<1>1. CASE patch' = [patch EXCEPT ![h] = File!Idle]
  <2>1. FileCall(h)'
    BY <1>1 DEF File!Read, FileInv, FileCall, File!Idle, File!NoSettings
  <2>. QED
    BY <1>1, <2>1, FileAlone DEF File!Read, FileInv
<1>2. CASE patch' = [patch EXCEPT ![h].at = "merge", ![h].read = file]
  <2> DEFINE c == [patch[h] EXCEPT !.at = "merge", !.read = file]
  <2>1. patch' = [patch EXCEPT ![h] = c]
    BY <1>2 DEF FileInv
  <2>2. FileCall(h)'
    BY <1>2 DEF File!Read, FileInv, FileCall, Keeps
  <2>. QED
    BY <2>1, <2>2, FileAlone DEF File!Read, FileInv
<1>. QED
  BY <1>1, <1>2 DEF File!Read

LEMMA FileCreates == ASSUME FileInv, NEW h \in Hosts, File!Create(h) PROVE FileInv'
<1>1. CASE patch' = [patch EXCEPT ![h] = File!Idle] /\ UNCHANGED temporary
  <2>1. FileCall(h)'
    BY <1>1 DEF File!Create, FileInv, FileCall, File!Idle, File!NoSettings
  <2>. QED
    BY <1>1, <2>1, FileAlone DEF File!Create, FileInv
<1>2. CASE File!At(h, "write") /\ temporary' = File!++([g \in {h} |-> [File!NoFile EXCEPT !.state = "part"]], temporary)
  <2> DEFINE c == [patch[h] EXCEPT !.at = "write"]
  <2>1. patch' = [patch EXCEPT ![h] = c]
    BY <1>2 DEF FileInv, File!At
  <2>2. /\ DOMAIN temporary' = DOMAIN temporary \cup {h}
        /\ \A g \in DOMAIN temporary \ {h} : temporary'[g] = temporary[g]
    BY <1>2 DEF File!++
  <2>3. FileCall(h)'
    BY <2>1, <2>2 DEF File!Create, FileInv, FileCall, Keeps
  <2>. QED
    BY <2>1, <2>2, <2>3, FileAlone DEF File!Create, FileInv
<1>. QED
  BY <1>1, <1>2 DEF File!Create

\* What is written has what the file had when it was read, but for the patch.
LEMMA MergedKeeps ==
  ASSUME NEW h \in Hosts, FileCall(h), patch[h].at = "write"
  PROVE  File!Merged(h).state = "whole" /\ Keeps(File!Merged(h), patched \cup DOMAIN patch[h].patch)
<1> DEFINE before_ == patch[h].read.settings
           kept == File!Shared(before_)
           both == File!++(patch[h].patch, kept)
<1>1. File!Merged(h) = [state |-> "whole", roots |-> patch[h].read.roots, settings |-> both]
  BY DEF File!Merged, File!Document
<1>2. ASSUME first.state = "whole", NEW k \in SharedKeys \ (patched \cup DOMAIN patch[h].patch)
      PROVE  k \in DOMAIN both /\ both[k] = first.settings[k]
  <2>1. k \in DOMAIN before_ /\ before_[k] = first.settings[k]
    BY <1>2 DEF FileCall, Keeps
  <2>2. k \in DOMAIN kept /\ kept[k] = before_[k]
    BY <2>1 DEF File!Shared, File!Restrict
  <2>3. k \in DOMAIN both /\ both[k] = kept[k]
    BY <1>2, <2>2 DEF File!++
  <2>. QED
    BY <2>1, <2>2, <2>3
<1>. HIDE DEF both
<1>. QED
  BY <1>1, <1>2 DEF FileCall, Keeps

LEMMA FileWrites == ASSUME FileInv, NEW h \in Hosts, File!Write(h) PROVE FileInv'
<1>1. CASE File!Fails(h)
  BY <1>1, FileFails DEF File!Write, FileInv, Keeps
<1>2. CASE File!At(h, "flush") /\ temporary' = [temporary EXCEPT ![h] = File!Merged(h)]
  <2> DEFINE c == [patch[h] EXCEPT !.at = "flush"]
             m == File!Merged(h)
  <2>1. patch' = [patch EXCEPT ![h] = c]
    BY <1>2 DEF FileInv, File!At
  <2>2. FileCall(h) /\ patch[h].at = "write"
    BY DEF FileInv, File!Write
  <2>3. m.state = "whole" /\ Keeps(m, patched \cup DOMAIN patch[h].patch)
    BY <2>2, MergedKeeps
  <2>. HIDE DEF m
  <2>4. temporary'[h] = m /\ DOMAIN temporary' = DOMAIN temporary
    BY <1>2, <2>2 DEF FileCall, m
  <2>5. FileCall(h)'
    BY <2>1, <2>2, <2>3, <2>4 DEF File!Write, FileInv, FileCall, Keeps
  <2>6. \A g \in Hosts \ {h} : temporary'[g] = temporary[g] \/ g \notin DOMAIN temporary
    BY <1>2
  <2>. QED
    BY <2>1, <2>4, <2>5, <2>6, FileAlone DEF File!Write, FileInv
<1>. QED
  BY <1>1, <1>2 DEF File!Write

LEMMA FileFlushes == ASSUME FileInv, NEW h \in Hosts, File!Flush(h) PROVE FileInv'
<1>1. CASE File!Fails(h)
  BY <1>1, FileFails DEF File!Flush, FileInv, Keeps
<1>2. CASE File!At(h, "move") /\ UNCHANGED temporary
  <2> DEFINE c == [patch[h] EXCEPT !.at = "move"]
  <2>1. patch' = [patch EXCEPT ![h] = c]
    BY <1>2 DEF FileInv, File!At
  <2>2. FileCall(h)'
    BY <1>2, <2>1 DEF File!Flush, FileInv, FileCall, Keeps
  <2>. QED
    BY <1>2, <2>1, <2>2, FileAlone DEF File!Flush, FileInv
<1>. QED
  BY <1>1, <1>2 DEF File!Flush

LEMMA FileMoves == ASSUME FileInv, NEW h \in Hosts, File!Move(h) PROVE FileInv'
<1>1. File!Fails(h) /\ first' = first
  BY DEF File!Move
<1>2. CASE UNCHANGED <<file, patched>>
  BY <1>1, <1>2, FileFails DEF FileInv, Keeps
<1>3. CASE file' = temporary[h] /\ patched' = patched \cup DOMAIN patch[h].patch
  <2>1. FileCall(h) /\ patch[h].at = "move"
    BY DEF FileInv, File!Move
  <2>2. file'.state = "whole" /\ Keeps(file, patched)' /\ patched' \subseteq SharedKeys
    BY <1>1, <1>3, <2>1 DEF FileCall, FileInv, Keeps
  <2>. QED
    BY <1>1, <1>3, <2>2, FileFails DEF FileInv
<1>. QED
  BY <1>2, <1>3 DEF File!Move

LEMMA FileStep == ASSUME FileInv, File!ConfigNext PROVE FileInv'
<1>1. ASSUME NEW h \in Hosts, File!Crash(h) PROVE FileInv'
  BY <1>1, FileFails DEF File!Crash, FileInv, Keeps
<1>2. CASE File!Hold
  BY <1>2 DEF File!Hold, FileInv, FileCall, Keeps
<1>. QED
  BY <1>1, <1>2, FileBegins, FileReads, FileCreates, FileWrites, FileFlushes, FileMoves DEF File!ConfigNext

\* Nothing a host reads, writes or moves loses a setting of the configuration
\* file that no patch changes (cx_config_patch_file).
THEOREM PartsFile == Spec => [](part = "file" => FileInv)
<1>1. Init => (part = "file" => FileInv)
  BY FileInit DEF Init
<1>2. (part = "file" => FileInv) /\ [Next]_vars => (part = "file" => FileInv)'
  BY PartsMove, FileStep, FileKept
<1>. QED
  BY <1>1, <1>2, PTL DEF Spec

\* config-store.c: settings that no patch names survive every write of every
\* host, and no temporary file is left, for any hosts, settings and faults.
THEOREM PartsSettingsSurvive == Spec => []SettingsSurvive
<1>1. (part = "file" => FileInv) => SettingsSurvive
  BY DEF SettingsSurvive, FileInv, FileCall, Keeps, File!ConfigTypeOK, File!UnpatchedKept, File!NoLitter
<1>. QED
  BY <1>1, PartsFile, PTL

-----------------------------------------------------------------------------
(* The account window (AccountWindow)                                      *)

Challenge == {Account!NoChallenge} \cup [id : 1..MaxChallenges, by : Bases]
Window ==
    [ui : {"open", "closed"}, base : Bases, key : Bases \cup {0}, create : BOOLEAN,
     op : {"none", "refresh", "login", "key"},
     at : {"", "settings", "captcha", "verify", "password", "token", "check", "done"},
     text : Bases \cup {0}, ok : BOOLEAN, account : Bases \cup {0}, closing : BOOLEAN,
     loaded : BOOLEAN, local : BOOLEAN, challenge : Challenge, captchaBase : Bases \cup {0},
     drawn : 0..MaxChallenges]

AccountTypes == aw \in Window /\ config \in [base : Bases, key : Bases \cup {0}] /\ saved \in BOOLEAN

\* Where the worker is belongs to what it does, and it has an address then.
WorkerPlaces ==
    /\ aw.op = "none" => aw.at = ""
    /\ aw.op = "refresh" => aw.at \in {"settings", "captcha", "done"}
    /\ aw.op = "login" => aw.at \in {"verify", "password", "token", "done"}
    /\ aw.op = "key" => aw.at \in {"check", "done"}
    /\ aw.op # "none" => aw.text \in Bases /\ aw.ui = "open"

\* The picture in the window was drawn by the service it is kept with, and waits
\* for its answer until a login gives it.
PictureKnown ==
    aw.challenge # Account!NoChallenge =>
        /\ aw.captchaBase # 0 => aw.challenge.by = aw.captchaBase
        /\ aw.op = "refresh" => aw.challenge.by = aw.text
        /\ aw.ui = "open" /\ (aw.op # "login" \/ aw.at = "verify") => aw.challenge \in open

\* A login answers a picture of the service it asks; a worker that is done well
\* has a key of the service that it asked.
WorkIsOfText ==
    /\ aw.op = "refresh" => aw.captchaBase = 0
    /\ aw.op = "login" => aw.challenge # Account!NoChallenge /\ aw.challenge.by = aw.text
    /\ aw.at = "done" /\ aw.ok /\ aw.op = "key" => aw.key = aw.text
    /\ aw.at = "done" /\ aw.ok /\ aw.op = "login" => aw.account = aw.text

AccountInv == AccountTypes /\ WorkerPlaces /\ PictureKnown /\ WorkIsOfText /\ Account!KeyBelongsToBase

LEMMA AccountInit == Account!AccountInit => AccountInv
<1> SUFFICES ASSUME Account!AccountInit PROVE AccountInv
  OBVIOUS
<1>1. 0 \in 0..MaxChallenges /\ Account!NoChallenge \in Challenge
  BY PartsAssumption DEF Challenge
<1>2. AccountTypes
  BY <1>1 DEF Account!AccountInit, AccountTypes, Window
<1>. QED
  BY <1>2 DEF Account!AccountInit, AccountInv, WorkerPlaces, PictureKnown, WorkIsOfText, Account!KeyBelongsToBase

LEMMA AccountKept == ASSUME AccountInv, UNCHANGED accountVars PROVE AccountInv'
  BY DEF AccountInv, AccountTypes, WorkerPlaces, PictureKnown, WorkIsOfText, Account!KeyBelongsToBase, accountVars

\* The window's own operations
LEMMA AccountTyped == ASSUME AccountInv, Account!Type PROVE AccountInv'
<1>1. PICK base \in Bases, k \in Bases \cup {0}, create \in BOOLEAN :
        aw' = [aw EXCEPT !.base = base, !.key = k, !.create = create]
  BY DEF Account!Type
<1>2. aw \in Window /\ UNCHANGED <<config, open, saved>> /\ aw.op = "none"
  BY DEF AccountInv, AccountTypes, Account!Type, Account!Idle, Account!Working
<1>3. AccountTypes'
  BY <1>1, <1>2 DEF AccountInv, AccountTypes, Window
<1>4. UNCHANGED <<aw.op, aw.at, aw.ui, aw.text, aw.ok, aw.challenge, aw.captchaBase, aw.account>>
  BY <1>1, <1>2 DEF Window
<1>. QED
  BY <1>2, <1>3, <1>4 DEF AccountInv, WorkerPlaces, PictureKnown, WorkIsOfText, Account!KeyBelongsToBase

LEMMA AccountRefreshes == ASSUME AccountInv, Account!Refresh PROVE AccountInv'
<1> DEFINE w == [aw EXCEPT !.loaded = FALSE, !.challenge = Account!NoChallenge, !.captchaBase = 0]
<1>1. aw \in Window /\ UNCHANGED <<config, open, saved>> /\ aw.op = "none" /\ aw.ui = "open"
  BY DEF AccountInv, AccountTypes, Account!Refresh, Account!Idle, Account!Working
<1>2. Account!NoChallenge \in Challenge
  BY DEF Challenge
<1>3. w \in Window
  BY <1>1, <1>2 DEF Window
<1>4. /\ w.op = "none" /\ w.at = aw.at /\ w.ui = "open" /\ w.text = aw.text /\ w.ok = aw.ok
      /\ w.challenge = Account!NoChallenge /\ w.captchaBase = 0 /\ w.base = aw.base
  BY <1>1 DEF Window
<1>5. aw' = w \/ aw' = [w EXCEPT !.op = "refresh", !.at = "settings", !.text = aw.base, !.ok = FALSE]
  BY DEF Account!Refresh, Account!Work
<1>. HIDE DEF w
<1>6. CASE aw' = w
  BY <1>1, <1>3, <1>4, <1>6 DEF AccountInv, AccountTypes, WorkerPlaces, PictureKnown, WorkIsOfText, Account!KeyBelongsToBase
<1>7. CASE aw' = [w EXCEPT !.op = "refresh", !.at = "settings", !.text = aw.base, !.ok = FALSE]
  <2>1. aw' \in Window /\ aw.base \in Bases
    BY <1>1, <1>3, <1>7 DEF Window
  <2>2. /\ aw'.op = "refresh" /\ aw'.at = "settings" /\ aw'.text = aw.base /\ aw'.ui = "open"
        /\ aw'.challenge = Account!NoChallenge /\ aw'.captchaBase = 0
    BY <1>3, <1>4, <1>7 DEF Window
  <2>. QED
    BY <1>1, <2>1, <2>2 DEF AccountInv, AccountTypes, WorkerPlaces, PictureKnown, WorkIsOfText, Account!KeyBelongsToBase
<1>. QED
  BY <1>5, <1>6, <1>7

LEMMA AccountLogsIn == ASSUME AccountInv, Account!Login PROVE AccountInv'
<1>1. aw \in Window /\ UNCHANGED <<config, open, saved>> /\ aw.op = "none" /\ aw.ui = "open" /\ aw.base \in Bases
  BY DEF AccountInv, AccountTypes, Account!Login, Account!Idle, Account!Working, Window
<1>2. CASE aw' = [aw EXCEPT !.challenge = Account!NoChallenge]
  <2>1. aw' \in Window
    <3>1. Account!NoChallenge \in Challenge
      BY DEF Challenge
    <3>. QED
      BY <1>1, <1>2, <3>1 DEF Window
  <2>2. UNCHANGED <<aw.op, aw.at, aw.ui, aw.text, aw.ok, aw.captchaBase>> /\ aw'.challenge = Account!NoChallenge
    BY <1>1, <1>2 DEF Window
  <2>. QED
    BY <1>1, <2>1, <2>2 DEF AccountInv, AccountTypes, WorkerPlaces, PictureKnown, WorkIsOfText, Account!KeyBelongsToBase
<1>3. CASE aw' = aw
  BY <1>1, <1>3, AccountKept DEF accountVars
<1>4. CASE /\ aw.captchaBase = aw.base /\ aw.challenge # Account!NoChallenge
           /\ aw' = [aw EXCEPT !.op = "login", !.at = "verify", !.text = aw.base, !.ok = FALSE]
  <2>1. aw' \in Window
    BY <1>1, <1>4 DEF Window
  <2>2. /\ aw'.op = "login" /\ aw'.at = "verify" /\ aw'.text = aw.base
        /\ UNCHANGED <<aw.ui, aw.challenge, aw.captchaBase>>
    BY <1>1, <1>4 DEF Window
  <2>3. aw.base # 0
    BY <1>1, PartsAssumption
  <2>4. aw.challenge.by = aw.base /\ aw.challenge \in open
    BY <1>1, <1>4, <2>3 DEF AccountInv, PictureKnown
  <2>5. PictureKnown' /\ WorkIsOfText'
    BY <1>1, <1>4, <2>2, <2>4 DEF PictureKnown, WorkIsOfText
  <2>. QED
    BY <1>1, <2>1, <2>2, <2>5 DEF AccountInv, AccountTypes, WorkerPlaces, Account!KeyBelongsToBase
<1>. QED
  BY <1>2, <1>3, <1>4 DEF Account!Login, Account!Work

LEMMA AccountChecksKey == ASSUME AccountInv, Account!CheckKey PROVE AccountInv'
<1>1. aw \in Window /\ UNCHANGED <<config, open, saved>> /\ aw.op = "none" /\ aw.ui = "open" /\ aw.base \in Bases
  BY DEF AccountInv, AccountTypes, Account!CheckKey, Account!Idle, Account!Working, Window
<1>2. CASE aw' = aw
  BY <1>1, <1>2, AccountKept DEF accountVars
<1>3. CASE aw' = [aw EXCEPT !.op = "key", !.at = "check", !.text = aw.base, !.ok = FALSE]
  <2>1. aw' \in Window
    BY <1>1, <1>3 DEF Window
  <2>2. /\ aw'.op = "key" /\ aw'.at = "check" /\ aw'.text = aw.base
        /\ UNCHANGED <<aw.ui, aw.challenge, aw.captchaBase>>
    BY <1>1, <1>3 DEF Window
  <2>. QED
    BY <1>1, <2>1, <2>2 DEF AccountInv, AccountTypes, WorkerPlaces, PictureKnown, WorkIsOfText, Account!KeyBelongsToBase
<1>. QED
  BY <1>2, <1>3 DEF Account!CheckKey, Account!Work

LEMMA AccountCloses == ASSUME AccountInv, Account!Close PROVE AccountInv'
<1>1. aw \in Window /\ UNCHANGED <<config, open, saved>>
  BY DEF AccountInv, AccountTypes, Account!Close
<1>2. CASE aw.op # "none" /\ aw' = [aw EXCEPT !.closing = TRUE]
  <2>1. aw' \in Window
    BY <1>1, <1>2 DEF Window
  <2>2. UNCHANGED <<aw.op, aw.at, aw.ui, aw.text, aw.ok, aw.key, aw.account, aw.challenge, aw.captchaBase>>
    BY <1>1, <1>2 DEF Window
  <2>. QED
    BY <1>1, <2>1, <2>2 DEF AccountInv, AccountTypes, WorkerPlaces, PictureKnown, WorkIsOfText, Account!KeyBelongsToBase
<1>3. CASE aw.op = "none" /\ aw' = [aw EXCEPT !.ui = "closed"]
  <2>1. aw' \in Window
    BY <1>1, <1>3 DEF Window
  <2>2. UNCHANGED <<aw.op, aw.at, aw.text, aw.ok, aw.key, aw.account, aw.challenge, aw.captchaBase>> /\ aw'.ui = "closed"
    BY <1>1, <1>3 DEF Window
  <2>. QED
    BY <1>1, <1>3, <2>1, <2>2 DEF AccountInv, AccountTypes, WorkerPlaces, PictureKnown, WorkIsOfText, Account!KeyBelongsToBase
<1>. QED
  BY <1>2, <1>3 DEF Account!Close, Account!Working

\* The worker: a step of it that goes on to another place, or ends there.
LEMMA AccountWorks ==
  ASSUME AccountInv, UNCHANGED <<config, saved>>, aw.op # "none",
         aw' \in Window, UNCHANGED <<aw.op, aw.ui, aw.text, aw.captchaBase, aw.key>>,
         WorkerPlaces', PictureKnown', aw'.challenge = aw.challenge \/ aw.op = "refresh",
         aw'.at = "done" /\ aw'.ok => (aw.op = "key" => aw.key = aw.text) /\ (aw.op = "login" => aw'.account = aw.text)
  PROVE  AccountInv'
  BY DEF AccountInv, AccountTypes, WorkIsOfText, Account!KeyBelongsToBase

LEMMA AccountSettings == ASSUME AccountInv, Account!Settings PROVE AccountInv'
<1>1. aw \in Window /\ UNCHANGED <<config, open, saved>> /\ aw.op = "refresh"
  BY DEF AccountInv, AccountTypes, Account!Settings, WorkerPlaces, Window
<1>2. aw' \in Window
  <2>1. CASE Account!Ends(FALSE)
    BY <1>1, <2>1 DEF Account!Ends, Window
  <2>2. CASE aw' = [aw EXCEPT !.loaded = TRUE, !.local = TRUE, !.at = "captcha"]
    BY <1>1, <2>2 DEF Window
  <2>3. CASE aw' = [aw EXCEPT !.loaded = TRUE, !.local = FALSE, !.at = "done", !.ok = TRUE]
    BY <1>1, <2>3 DEF Window
  <2>. QED
    BY <2>1, <2>2, <2>3 DEF Account!Settings
<1>3. UNCHANGED <<aw.op, aw.ui, aw.text, aw.captchaBase, aw.key, aw.challenge>> /\ aw'.at \in {"captcha", "done"}
  BY <1>1 DEF Account!Settings, Account!Ends, Window
<1>. QED
  BY <1>1, <1>2, <1>3, AccountWorks DEF AccountInv, WorkerPlaces, PictureKnown

LEMMA AccountCaptcha == ASSUME AccountInv, Account!Captcha PROVE AccountInv'
<1>1. aw \in Window /\ UNCHANGED <<config, saved>> /\ aw.op = "refresh" /\ aw.text \in Bases /\ aw.captchaBase = 0
  BY DEF AccountInv, AccountTypes, Account!Captcha, WorkerPlaces, WorkIsOfText, Window
<1>2. CASE Account!Ends(FALSE) /\ UNCHANGED open
  <2>1. aw' \in Window
    BY ZenonT(60), <1>1, <1>2 DEF Account!Ends, Window
  <2>2. UNCHANGED <<aw.op, aw.ui, aw.text, aw.captchaBase, aw.key, aw.challenge>> /\ aw'.at = "done"
    BY <1>1, <1>2 DEF Account!Ends, Window
  <2>. QED
    BY <1>1, <1>2, <2>1, <2>2, AccountWorks DEF AccountInv, WorkerPlaces, PictureKnown
<1>3. ASSUME NEW c, c = [id |-> aw.drawn + 1, by |-> aw.text], c.id <= MaxChallenges, open' = open \cup {c},
             aw' = [aw EXCEPT !.challenge = c, !.drawn = c.id, !.at = "done", !.ok = TRUE]
      PROVE  AccountInv'
  <2>1. aw.drawn \in 0..MaxChallenges
    BY <1>1 DEF Window
  <2>2. c.id \in 1..MaxChallenges /\ c.id \in 0..MaxChallenges
    BY <1>3, <2>1, PartsAssumption
  <2>3. c \in Challenge /\ c.by = aw.text
    BY <1>1, <1>3, <2>2 DEF Challenge
  <2>4. aw' \in Window
    <3> DEFINE n == c.id
    <3>1. aw' = [aw EXCEPT !.challenge = c, !.drawn = n, !.at = "done", !.ok = TRUE]
      BY <1>3
    <3>. HIDE DEF n
    <3>2. n \in 0..MaxChallenges
      BY <2>2 DEF n
    <3>. QED
      BY <1>1, <2>3, <3>1, <3>2 DEF Window
  <2>5. UNCHANGED <<aw.op, aw.ui, aw.text, aw.captchaBase, aw.key>> /\ aw'.at = "done" /\ aw'.challenge = c
    BY <1>1, <1>3 DEF Window
  <2>6. PictureKnown'
    BY <1>1, <1>3, <2>3, <2>5 DEF PictureKnown
  <2>. QED
    BY <1>1, <2>4, <2>5, <2>6, AccountWorks DEF AccountInv, WorkerPlaces
<1>. QED
  BY <1>2, <1>3 DEF Account!Captcha

LEMMA AccountVerifies == ASSUME AccountInv, Account!Verify PROVE AccountInv'
<1>1. aw \in Window /\ UNCHANGED <<config, saved>> /\ aw.op = "login"
  BY DEF AccountInv, AccountTypes, Account!Verify, WorkerPlaces, Window
<1>2. aw' \in Window
  BY ZenonT(60), <1>1 DEF Account!Verify, Account!Ends, Window
<1>3. /\ UNCHANGED <<aw.op, aw.ui, aw.text, aw.captchaBase, aw.key, aw.challenge>>
      /\ aw'.at = "password" \/ (aw'.at = "done" /\ ~aw'.ok)
  BY <1>1 DEF Account!Verify, Account!Ends, Window
<1>. QED
  BY <1>1, <1>2, <1>3, AccountWorks DEF AccountInv, WorkerPlaces, PictureKnown

LEMMA AccountPassword == ASSUME AccountInv, Account!Password PROVE AccountInv'
<1>1. aw \in Window /\ UNCHANGED <<config, open, saved>> /\ aw.op = "login" /\ aw.at = "password"
  BY DEF AccountInv, AccountTypes, Account!Password, WorkerPlaces, Window
<1>2. aw' \in Window
  BY ZenonT(60), <1>1 DEF Account!Password, Account!Ends, Window
<1>3. /\ UNCHANGED <<aw.op, aw.ui, aw.text, aw.captchaBase, aw.key, aw.challenge>>
      /\ aw'.at = "token" \/ (aw'.at = "done" /\ ~aw'.ok)
  BY <1>1 DEF Account!Password, Account!Ends, Window
<1>. QED
  BY <1>1, <1>2, <1>3, AccountWorks DEF AccountInv, WorkerPlaces, PictureKnown

LEMMA AccountToken == ASSUME AccountInv, Account!Token PROVE AccountInv'
<1>1. aw \in Window /\ UNCHANGED <<config, open, saved>> /\ aw.op = "login" /\ aw.at = "token"
  BY DEF AccountInv, AccountTypes, Account!Token, WorkerPlaces, Window
<1>2. \/ aw' = [aw EXCEPT !.account = aw.text, !.at = "done", !.ok = TRUE]
      \/ aw' = [aw EXCEPT !.account = 0, !.at = "done", !.ok = FALSE]
  BY DEF Account!Token
<1>3. aw' \in Window
  BY ZenonT(60), <1>1, <1>2 DEF Window
<1>4. /\ UNCHANGED <<aw.op, aw.ui, aw.text, aw.captchaBase, aw.key, aw.challenge>>
      /\ aw'.at = "done" /\ (aw'.ok => aw'.account = aw.text)
  BY <1>1, <1>2 DEF Window
<1>. QED
  BY <1>1, <1>3, <1>4, AccountWorks DEF AccountInv, WorkerPlaces, PictureKnown

LEMMA AccountChecks == ASSUME AccountInv, Account!Check PROVE AccountInv'
<1>1. aw \in Window /\ UNCHANGED <<config, open, saved>> /\ aw.op = "key" /\ aw.at = "check"
  BY DEF AccountInv, AccountTypes, Account!Check, WorkerPlaces, Window
<1>2. aw' \in Window
  BY ZenonT(60), <1>1 DEF Account!Check, Account!Ends, Window
<1>3. /\ UNCHANGED <<aw.op, aw.ui, aw.text, aw.captchaBase, aw.key, aw.challenge>>
      /\ aw'.at = "done" /\ (aw'.ok => aw.key = aw.text)
  BY <1>1 DEF Account!Check, Account!Ends, Window
<1>. QED
  BY <1>1, <1>2, <1>3, AccountWorks DEF AccountInv, WorkerPlaces, PictureKnown

\* The worker is done.
LEMMA AccountDone == ASSUME AccountInv, Account!Done PROVE AccountInv'
<1> DEFINE r == [aw EXCEPT !.op = "none", !.at = "", !.text = 0, !.ok = FALSE]
           f == Account!Finished
<1>1. aw \in Window /\ open' = open /\ aw.op # "none" /\ aw.text \in Bases /\ aw.ui = "open"
  BY DEF AccountInv, AccountTypes, Account!Done, WorkerPlaces, Window
<1>2. r \in Window
  BY <1>1 DEF Window
<1>3. /\ r.op = "none" /\ r.at = "" /\ r.ui = "open" /\ r.challenge = aw.challenge /\ r.captchaBase = aw.captchaBase
      /\ r.key = aw.key /\ r.account = aw.account
  BY <1>1 DEF Window
<1>4. f = IF aw.op = "login" THEN [r EXCEPT !.challenge = Account!NoChallenge] ELSE r
  BY DEF Account!Finished, Account!Rested
<1>. HIDE DEF r, f
<1>5. Account!NoChallenge \in Challenge
  BY DEF Challenge
<1>6. f \in Window
  BY <1>2, <1>4, <1>5 DEF Window
<1>7. /\ f.op = "none" /\ f.at = "" /\ f.ui = "open" /\ f.captchaBase = aw.captchaBase
      /\ f.challenge = IF aw.op = "login" THEN Account!NoChallenge ELSE aw.challenge
  BY <1>2, <1>3, <1>4 DEF Window
<1>8. CASE aw.closing /\ aw' = [r EXCEPT !.ui = "closed"] /\ UNCHANGED <<config, saved>>
  <2>1. aw' \in Window
    BY <1>2, <1>8 DEF Window
  <2>2. /\ aw'.op = "none" /\ aw'.at = "" /\ aw'.ui = "closed" /\ UNCHANGED <<aw.challenge, aw.captchaBase>>
    BY <1>2, <1>3, <1>8 DEF Window
  <2>. QED
    BY <1>8, <2>1, <2>2 DEF AccountInv, AccountTypes, WorkerPlaces, PictureKnown, WorkIsOfText, Account!KeyBelongsToBase
<1>9. CASE aw' = f /\ UNCHANGED <<config, saved>>
  BY <1>1, <1>6, <1>7, <1>9 DEF AccountInv, AccountTypes, WorkerPlaces, PictureKnown, WorkIsOfText, Account!KeyBelongsToBase
<1>10. CASE aw.op = "refresh" /\ aw' \in Account!Shown /\ UNCHANGED <<config, saved>>
  <2>1. CASE aw' = [f EXCEPT !.captchaBase = aw.text]
    <3>1. aw' \in Window
      BY <1>1, <1>6, <2>1 DEF Window
    <3>2. /\ aw'.op = "none" /\ aw'.at = "" /\ aw'.ui = "open" /\ aw'.captchaBase = aw.text
          /\ aw'.challenge = aw.challenge
      BY <1>6, <1>7, <1>10, <2>1 DEF Window
    <3>. QED
      BY <1>1, <1>10, <3>1, <3>2 DEF AccountInv, AccountTypes, WorkerPlaces, PictureKnown, WorkIsOfText, Account!KeyBelongsToBase
  <2>2. CASE aw' = [f EXCEPT !.challenge = Account!NoChallenge, !.captchaBase = 0]
    <3>1. aw' \in Window
      BY <1>5, <1>6, <2>2 DEF Window
    <3>2. aw'.op = "none" /\ aw'.at = "" /\ aw'.ui = "open" /\ aw'.challenge = Account!NoChallenge
      BY <1>6, <1>7, <2>2 DEF Window
    <3>. QED
      BY <1>10, <3>1, <3>2 DEF AccountInv, AccountTypes, WorkerPlaces, PictureKnown, WorkIsOfText, Account!KeyBelongsToBase
  <2>. QED
    BY <1>9, <1>10, <2>1, <2>2 DEF Account!Shown, f
<1>11. CASE /\ aw.at = "done" /\ aw.ok /\ aw.op # "refresh" /\ saved' = TRUE
            /\ config' = [base |-> aw.text, key |-> IF aw.op = "key" THEN aw.key ELSE aw.account]
            /\ aw' = [f EXCEPT !.ui = "closed"]
  <2>1. aw' \in Window
    BY <1>6, <1>11 DEF Window
  <2>2. /\ aw'.op = "none" /\ aw'.at = "" /\ aw'.ui = "closed"
        /\ aw'.challenge = f.challenge /\ aw'.captchaBase = aw.captchaBase
    BY <1>6, <1>7, <1>11 DEF Window
  <2>3. config' = [base |-> aw.text, key |-> aw.text]
    BY <1>1, <1>11 DEF AccountInv, WorkIsOfText, WorkerPlaces, AccountTypes, Window
  <2>4. AccountTypes' /\ Account!KeyBelongsToBase'
    BY <1>1, <1>11, <2>1, <2>3 DEF AccountTypes, Account!KeyBelongsToBase
  <2>. QED
    BY <1>1, <1>7, <2>2, <2>4 DEF AccountInv, WorkerPlaces, PictureKnown, WorkIsOfText
<1>. QED
  BY <1>8, <1>9, <1>10, <1>11 DEF Account!Done, Account!Rested, r, f

LEMMA AccountStep == ASSUME AccountInv, Account!AccountNext PROVE AccountInv'
  BY AccountTyped, AccountRefreshes, AccountLogsIn, AccountChecksKey, AccountCloses, AccountSettings,
     AccountCaptcha, AccountVerifies, AccountPassword, AccountToken, AccountChecks, AccountDone
  DEF Account!AccountNext

\* The worker of the account window works for the address it was started with,
\* and the picture in the window is kept with the service that drew it.
THEOREM PartsAccount == Spec => [](part = "account" => AccountInv)
<1>1. Init => (part = "account" => AccountInv)
  BY AccountInit DEF Init
<1>2. (part = "account" => AccountInv) /\ [Next]_vars => (part = "account" => AccountInv)'
  BY PartsMove, AccountStep, AccountKept
<1>. QED
  BY <1>1, <1>2, PTL DEF Spec

\* account-window.c: a password goes to the service that drew the answered
\* picture, and a kept key belongs to the service kept with it, for any
\* services and however often the fields are typed over.
THEOREM PartsAnswersTheAsker == Spec => []AnswersTheAsker
<1>1. AccountInv => Account!AccountTypeOK /\ Account!AnswersTheAsker
  BY DEF AccountInv, AccountTypes, Window, Challenge, PictureKnown, WorkerPlaces, WorkIsOfText,
         Account!AccountTypeOK, Account!AnswersTheAsker
<1>. QED
  BY <1>1, PartsAccount, PTL DEF AnswersTheAsker, AccountInv

-----------------------------------------------------------------------------
(* The extension package (ExtensionStore)                                  *)

Packages == Package!Package \cup {Package!None}
Fetches ==
    [at : {"idle", "fetch", "latest", "download", "write", "move", "verify", "used", "bad", "failed"},
     service : Services \cup {0}, force : BOOLEAN, again : BOOLEAN, disk : BOOLEAN, saw : Nat,
     advertised : Packages, got : Packages, from : {"none", "cache", "online"}]

\* What a service publishes is its own, and a release is one of its publications.
Published(l) == l \in [Services -> Package!Package] /\ \A s \in Services : l[s].by = s /\ l[s].release <= troubles

\* A package c has in hand is of the service it asked and not older than what
\* it saw published at its start; one that failed its check made it ask again.
Fetching(c, l) ==
    /\ c \in Fetches
    /\ c.at # "idle" => c.service \in Services /\ c.saw <= l[c.service].release
    /\ c.at = "download" => c.advertised \in Package!Package /\ c.advertised.by = c.service /\ c.advertised.release >= c.saw
    /\ c.at \in {"write", "move", "verify", "used", "bad"} => c.got # Package!None
    /\ c.got # Package!None => c.got.by = c.service /\ c.got.release >= c.saw
    /\ c.again = c.force /\ (~c.force => c.saw = 0)
    /\ c.at \in {"fetch", "latest", "download", "failed"} /\ c.got # Package!None => c.force
    /\ c.at = "bad" => c.force
    /\ c.at = "used" => c.got.sound

CacheSound == package \in Package!File \cup {Package!NoFile} /\ (package # Package!NoFile => package.package.by = package.identity)

PackageInv ==
    /\ Published(latest) /\ CacheSound /\ troubles \in 0..MaxTroubles
    /\ DOMAIN update = Hosts /\ \A h \in Hosts : Fetching(update[h], latest)

LEMMA NoPackageIsNone ==
  Package!None \notin Package!Package /\ Package!None \in Packages /\ Package!NoFile \notin Package!File
  BY PartsAssumption DEF Package!None, Package!Package, Packages, Package!NoFile, Package!File

LEMMA IdleFetches == ASSUME NEW l PROVE Fetching(Package!Idle, l)
  BY NoPackageIsNone DEF Package!Idle, Fetching, Fetches

LEMMA PackageInit == Package!StoreInit => PackageInv
<1> SUFFICES ASSUME Package!StoreInit PROVE PackageInv
  OBVIOUS
<1>1. Published(latest) /\ troubles \in 0..MaxTroubles
  BY PartsAssumption DEF Package!StoreInit, Published
<1>2. CacheSound
  BY DEF Package!StoreInit, CacheSound
<1>. QED
  BY <1>1, <1>2, IdleFetches DEF Package!StoreInit, PackageInv

LEMMA PackageKept == ASSUME PackageInv, UNCHANGED packageVars PROVE PackageInv'
  BY DEF PackageInv, Published, CacheSound, packageVars

\* One host moves, to c; the trouble it may meet is counted.
LEMMA PackageMoves ==
  ASSUME PackageInv, NEW h \in Hosts, NEW c, update' = [update EXCEPT ![h] = c], Fetching(c, latest),
         latest' = latest, troubles' = troubles \/ Package!Trouble, CacheSound'
  PROVE  PackageInv'
<1>1. troubles' \in 0..MaxTroubles /\ troubles <= troubles'
  BY PartsAssumption DEF PackageInv, Package!Trouble
<1>2. ASSUME NEW s \in Services PROVE latest[s].by = s /\ latest[s].release <= troubles'
  <2>1. latest[s].release \in Nat
    BY PartsAssumption DEF PackageInv, Published, Package!Package
  <2>. QED
    BY <1>1, <2>1 DEF PackageInv, Published
<1>3. Published(latest)'
  BY <1>2 DEF PackageInv, Published
<1>. QED
  BY <1>1, <1>3 DEF PackageInv

\* A fetch that goes on to a place that asks nothing more of it.
LEMMA FetchGoes ==
  ASSUME NEW c, NEW l, Fetching(c, l), c.at # "idle", NEW place \in {"write", "move", "verify", "failed"},
         c.got = Package!None => place = "failed", c.got # Package!None /\ place = "failed" => c.force
  PROVE  Fetching([c EXCEPT !.at = place], l)
<1> DEFINE d == [c EXCEPT !.at = place]
<1>1. c \in Fetches
  BY DEF Fetching
<1>2. d \in Fetches
  BY <1>1 DEF Fetches
<1>3. /\ d.at = place /\ d.service = c.service /\ d.saw = c.saw /\ d.got = c.got /\ d.force = c.force
      /\ d.again = c.again
  BY <1>1 DEF Fetches
<1>. HIDE DEF d
<1>4. Fetching(d, l)
  BY <1>2, <1>3 DEF Fetching
<1>. QED
  BY <1>4 DEF d

\* A step of one host that goes to another place with what it has.
LEMMA PackageGoes ==
  ASSUME PackageInv, NEW h \in Hosts, NEW place, Package!At(h, place), Fetching([update[h] EXCEPT !.at = place], latest),
         latest' = latest, troubles' = troubles \/ Package!Trouble, CacheSound'
  PROVE  PackageInv'
<1> DEFINE c == [update[h] EXCEPT !.at = place]
<1>1. update' = [update EXCEPT ![h] = c]
  BY DEF Package!At, PackageInv
<1>. QED
  BY <1>1, PackageMoves

LEMMA PackageBegins == ASSUME PackageInv, NEW h \in Hosts, Package!Begin(h) PROVE PackageInv'
<1>1. PICK s \in Services, force \in BOOLEAN, disk_ \in BOOLEAN :
        update' = [update EXCEPT ![h] = [Package!Idle EXCEPT !.at = "fetch", !.service = s, !.force = force,
                                             !.again = force, !.disk = disk_,
                                             !.saw = IF force THEN latest[s].release ELSE 0]]
  BY DEF Package!Begin
<1> DEFINE n == IF force THEN latest[s].release ELSE 0
           c == [Package!Idle EXCEPT !.at = "fetch", !.service = s, !.force = force, !.again = force, !.disk = disk_, !.saw = n]
<1>2. latest[s].release \in Nat
  BY PartsAssumption DEF PackageInv, Published, Package!Package
<1>3. n \in Nat /\ n <= latest[s].release /\ (~force => n = 0)
  BY <1>2
<1>. HIDE DEF n
<1>4. c \in Fetches /\ c.at = "fetch" /\ c.service = s /\ c.saw = n /\ c.force = force /\ c.again = force /\ c.got = Package!None
  BY <1>3, NoPackageIsNone DEF Package!Idle, Fetches
<1>. HIDE DEF c
<1>5. Fetching(c, latest)
  BY <1>3, <1>4 DEF Fetching
<1>6. update' = [update EXCEPT ![h] = c]
  BY <1>1 DEF c, n
<1>. QED
  BY <1>5, <1>6, PackageMoves DEF Package!Begin, PackageInv, CacheSound

LEMMA PackageFetches == ASSUME PackageInv, NEW h \in Hosts, Package!Fetch(h) PROVE PackageInv'
<1> DEFINE a == update[h]
<1>1. /\ Fetching(a, latest) /\ a \in Fetches /\ a.at = "fetch" /\ CacheSound
      /\ UNCHANGED <<latest, package, troubles>>
  BY DEF PackageInv, Package!Fetch, Fetching
<1>2. CASE Package!MayUseCache(h) /\ Package!Valid(package, a.service)
  <2> DEFINE g == package.package
             c == [a EXCEPT !.at = "verify", !.got = g, !.from = "cache"]
  <2>1. ~a.force /\ package # Package!NoFile /\ package.identity = a.service
    BY <1>2 DEF Package!MayUseCache, Package!Valid, Package!NoFile
  <2>2. g \in Package!Package /\ g.by = a.service
    BY <1>1, <2>1 DEF CacheSound, Package!File
  <2>3. g.release \in Nat
    BY <2>2, PartsAssumption DEF Package!Package
  <2>4. update' = [update EXCEPT ![h] = c]
    BY <1>2 DEF Package!Fetch, PackageInv
  <2>. HIDE DEF g, a
  <2>5. /\ c \in Fetches /\ c.at = "verify" /\ c.service = a.service /\ c.saw = a.saw /\ c.force = a.force
        /\ c.again = a.again /\ c.got = g
    BY <1>1, <2>2, NoPackageIsNone DEF Fetches, Packages
  <2>. HIDE DEF c
  <2>6. Fetching(c, latest)
    BY <1>1, <2>1, <2>2, <2>3, <2>5, NoPackageIsNone DEF Fetching
  <2>. QED
    BY <1>1, <2>4, <2>6, PackageMoves DEF CacheSound
<1>3. CASE ~(Package!MayUseCache(h) /\ Package!Valid(package, a.service))
  <2> DEFINE c == [a EXCEPT !.at = "latest"]
  <2>1. update' = [update EXCEPT ![h] = c]
    BY <1>3 DEF Package!Fetch, PackageInv
  <2>. HIDE DEF a
  <2>2. /\ c \in Fetches /\ c.at = "latest" /\ c.service = a.service /\ c.saw = a.saw /\ c.force = a.force
        /\ c.again = a.again /\ c.got = a.got
    BY <1>1 DEF Fetches
  <2>. HIDE DEF c
  <2>3. Fetching(c, latest)
    BY <1>1, <2>2 DEF Fetching
  <2>. QED
    BY <1>1, <2>1, <2>3, PackageMoves DEF CacheSound
<1>. QED
  BY <1>2, <1>3

LEMMA PackageLatest == ASSUME PackageInv, NEW h \in Hosts, Package!Latest(h) PROVE PackageInv'
<1> DEFINE a == update[h]
<1>1. /\ Fetching(a, latest) /\ a \in Fetches /\ a.at = "latest" /\ CacheSound /\ CacheSound'
      /\ UNCHANGED <<latest, package>>
  BY DEF PackageInv, Package!Latest, Fetching, CacheSound
<1>2. CASE update' = [update EXCEPT ![h].at = "download", ![h].advertised = latest[a.service]] /\ UNCHANGED troubles
  <2> DEFINE g == latest[a.service]
             c == [a EXCEPT !.at = "download", !.advertised = g]
  <2>1. update' = [update EXCEPT ![h] = c]
    BY <1>2 DEF PackageInv
  <2>2. g \in Package!Package /\ g.by = a.service /\ g.release >= a.saw
    <3>1. a.service \in Services /\ a.saw <= g.release /\ a.saw \in Nat
      BY <1>1 DEF Fetching, Fetches
    <3>2. g \in Package!Package /\ g.by = a.service
      BY <3>1 DEF PackageInv, Published
    <3>3. g.release \in Nat
      BY <3>2, PartsAssumption DEF Package!Package
    <3>. HIDE DEF a, g
    <3>. QED
      BY <3>1, <3>2, <3>3
  <2>. HIDE DEF a, g
  <2>3. /\ c \in Fetches /\ c.at = "download" /\ c.service = a.service /\ c.saw = a.saw /\ c.force = a.force
        /\ c.again = a.again /\ c.got = a.got /\ c.advertised = g
    BY <1>1, <2>2 DEF Fetches, Packages
  <2>. HIDE DEF c
  <2>4. Fetching(c, latest)
    BY <1>1, <2>2, <2>3 DEF Fetching
  <2>. QED
    BY <1>1, <1>2, <2>1, <2>4, PackageMoves
<1>3. CASE Package!Trouble /\ Package!Fails(h)
  <2>1. Fetching([a EXCEPT !.at = "failed"], latest)
    BY <1>1, FetchGoes DEF Fetching
  <2>. QED
    BY <1>1, <1>3, <2>1, PackageGoes DEF Package!Fails
<1>. QED
  BY <1>2, <1>3 DEF Package!Latest

LEMMA PackageDownloads == ASSUME PackageInv, NEW h \in Hosts, Package!Download(h) PROVE PackageInv'
<1> DEFINE a == update[h]
<1>1. /\ Fetching(a, latest) /\ a \in Fetches /\ a.at = "download" /\ CacheSound /\ CacheSound'
      /\ UNCHANGED <<latest, package>>
  BY DEF PackageInv, Package!Download, Fetching, CacheSound
<1>2. CASE /\ update' = [update EXCEPT ![h].at = IF a.disk THEN "write" ELSE "verify", ![h].got = a.advertised,
                                       ![h].advertised = Package!None, ![h].from = "online"]
           /\ UNCHANGED troubles
  <2> DEFINE g == a.advertised
             place == IF a.disk THEN "write" ELSE "verify"
             c == [a EXCEPT !.at = place, !.got = g, !.advertised = Package!None, !.from = "online"]
  <2>1. update' = [update EXCEPT ![h] = c]
    BY <1>2 DEF PackageInv
  <2>2. g \in Package!Package /\ g.by = a.service /\ g.release >= a.saw
    BY <1>1 DEF Fetching
  <2>3. place \in {"write", "verify"}
    OBVIOUS
  <2>. HIDE DEF a, g, place
  <2>4. /\ c \in Fetches /\ c.at = place /\ c.service = a.service /\ c.saw = a.saw /\ c.force = a.force
        /\ c.again = a.again /\ c.got = g
    BY <1>1, <2>2, <2>3, NoPackageIsNone DEF Fetches, Packages
  <2>. HIDE DEF c
  <2>5. Fetching(c, latest)
    BY <1>1, <2>2, <2>3, <2>4, NoPackageIsNone DEF Fetching
  <2>. QED
    BY <1>1, <1>2, <2>1, <2>5, PackageMoves
<1>3. CASE Package!Fails(h) /\ (UNCHANGED troubles \/ Package!Trouble)
  <2>1. Fetching([a EXCEPT !.at = "failed"], latest)
    BY <1>1, FetchGoes DEF Fetching
  <2>. QED
    BY <1>1, <1>3, <2>1, PackageGoes DEF Package!Fails
<1>. QED
  BY <1>2, <1>3 DEF Package!Download

LEMMA PackageVerifies == ASSUME PackageInv, NEW h \in Hosts, Package!Verify(h) PROVE PackageInv'
<1> DEFINE a == update[h]
<1>1. /\ Fetching(a, latest) /\ a \in Fetches /\ a.at = "verify" /\ CacheSound'
      /\ UNCHANGED <<latest, package, troubles>>
  BY DEF PackageInv, Package!Verify, Fetching, CacheSound
<1>2. ASSUME NEW place \in {"used", "bad"}, place = "used" => a.got.sound, place = "bad" => a.again
      PROVE  Fetching([a EXCEPT !.at = place], latest)
  <2> DEFINE c == [a EXCEPT !.at = place]
  <2>. HIDE DEF a
  <2>1. /\ c \in Fetches /\ c.at = place /\ c.service = a.service /\ c.saw = a.saw /\ c.force = a.force
        /\ c.again = a.again /\ c.got = a.got
    BY <1>1 DEF Fetches
  <2>. HIDE DEF c
  <2>2. Fetching(c, latest)
    BY <1>1, <1>2, <2>1 DEF Fetching
  <2>. QED
    BY <2>2 DEF c
<1>3. CASE a.got.sound
  BY <1>1, <1>2, <1>3, PackageGoes DEF Package!Verify
<1>4. CASE ~a.got.sound /\ a.again
  BY <1>1, <1>2, <1>4, PackageGoes DEF Package!Verify
<1>5. CASE ~a.got.sound /\ ~a.again
  <2> DEFINE c == [a EXCEPT !.at = "fetch", !.force = TRUE, !.again = TRUE]
  <2>1. update' = [update EXCEPT ![h] = c]
    BY <1>5 DEF PackageInv, Package!Verify
  <2>. HIDE DEF a
  <2>2. /\ c \in Fetches /\ c.at = "fetch" /\ c.service = a.service /\ c.saw = a.saw /\ c.force = TRUE
        /\ c.again = TRUE /\ c.got = a.got
    BY <1>1 DEF Fetches
  <2>. HIDE DEF c
  <2>3. Fetching(c, latest)
    BY <1>1, <2>2 DEF Fetching
  <2>. QED
    BY <1>1, <2>1, <2>3, PackageMoves
<1>. QED
  BY <1>3, <1>4, <1>5

LEMMA PackageWrites == ASSUME PackageInv, NEW h \in Hosts, Package!Write(h) PROVE PackageInv'
<1> DEFINE a == update[h]
<1>1. Fetching(a, latest) /\ a.at = "write" /\ CacheSound' /\ latest' = latest
  BY DEF PackageInv, Package!Write, CacheSound
<1>2. ASSUME NEW place \in {"move", "verify"} PROVE Fetching([a EXCEPT !.at = place], latest)
  <2>1. a.got # Package!None
    BY <1>1 DEF Fetching
  <2>. QED
    BY <1>1, <2>1, FetchGoes
<1>. QED
  BY <1>1, <1>2, PackageGoes DEF Package!Write

\* What is written to the cache is of the service that it is written under.
LEMMA PackageMovesFile == ASSUME PackageInv, NEW h \in Hosts, Package!Move(h) PROVE PackageInv'
<1> DEFINE a == update[h]
<1>1. Fetching(a, latest) /\ a \in Fetches /\ a.at = "move" /\ latest' = latest
  BY DEF PackageInv, Package!Move, Fetching
<1>2. a.got # Package!None /\ a.got.by = a.service /\ a.service \in Services /\ a.got \in Package!Package
  BY <1>1 DEF Fetching, Fetches, Packages
<1>3. CacheSound'
  BY <1>2 DEF Package!Move, PackageInv, CacheSound, Package!File
<1>4. Fetching([a EXCEPT !.at = "verify"], latest)
  BY <1>1, <1>2, FetchGoes
<1>. QED
  BY <1>1, <1>3, <1>4, PackageGoes DEF Package!Move

\* An operation that ends, or whose host does
LEMMA PackageEnds == ASSUME PackageInv, NEW h \in Hosts, Package!End(h) \/ Package!Crash(h) PROVE PackageInv'
  BY IdleFetches, PackageMoves DEF Package!End, Package!Crash, PackageInv, CacheSound

LEMMA PackagePublishes == ASSUME PackageInv, Package!Publish PROVE PackageInv'
<1>1. PICK s \in Services, sound \in BOOLEAN :
        latest' = [latest EXCEPT ![s] = [by |-> s, release |-> latest[s].release + 1, sound |-> sound]]
  BY DEF Package!Publish
<1>2. /\ troubles < MaxTroubles /\ troubles' = troubles + 1 /\ troubles \in Nat /\ troubles' \in 0..MaxTroubles
      /\ UNCHANGED <<package, update>>
  BY PartsAssumption DEF Package!Publish, Package!Trouble, PackageInv
<1>3. \A t \in Services : latest[t].by = t /\ latest[t].release \in Nat /\ latest[t].release <= troubles /\ latest[t] \in Package!Package
  BY PartsAssumption DEF PackageInv, Published, Package!Package
<1> DEFINE n == latest[s].release + 1
           new == [by |-> s, release |-> n, sound |-> sound]
<1>4. n \in 0..MaxTroubles /\ n \in Nat /\ n <= troubles' /\ latest[s].release <= n
  <2>1. latest[s].release \in Nat /\ latest[s].release <= troubles
    BY <1>3
  <2>2. MaxTroubles \in Nat
    BY PartsAssumption
  <2>. HIDE PartsAssumption
  <2>. QED
    BY <1>2, <2>1, <2>2
<1>. HIDE DEF n
<1>5. new \in Package!Package /\ new.by = s /\ new.release = n
  BY <1>4 DEF Package!Package
<1>6. latest' = [latest EXCEPT ![s] = new] /\ latest \in [Services -> Package!Package]
  BY <1>1 DEF n, PackageInv, Published
<1>. HIDE DEF new
<1>7. /\ latest' \in [Services -> Package!Package] /\ latest'[s] = new
      /\ \A t \in Services \ {s} : latest'[t] = latest[t]
  BY <1>5, <1>6
<1>8. \A t \in Services : latest'[t].by = t /\ latest'[t].release <= troubles' /\ latest[t].release <= latest'[t].release
  BY <1>2, <1>3, <1>4, <1>5, <1>7
<1>9. Published(latest)'
  BY <1>7, <1>8 DEF Published
<1>10. ASSUME NEW h \in Hosts PROVE Fetching(update[h], latest)'
  <2> DEFINE c == update[h]
  <2>1. Fetching(c, latest) /\ c.saw \in Nat /\ update' = update
    BY <1>2 DEF PackageInv, Fetching, Fetches
  <2>. HIDE DEF c
  <2>2. ASSUME c.at # "idle" PROVE c.service \in Services /\ c.saw <= latest'[c.service].release
    <3>1. c.service \in Services /\ c.saw <= latest[c.service].release
      BY <2>1, <2>2 DEF Fetching
    <3>2. latest[c.service].release <= latest'[c.service].release /\ latest[c.service].release \in Nat
      BY <1>3, <1>8, <3>1
    <3>3. latest'[c.service].release \in Nat
      BY <1>7, <3>1, PartsAssumption DEF Package!Package
    <3>. QED
      BY <2>1, <3>1, <3>2, <3>3
  <2>3. Fetching(c, latest')
    BY <2>1, <2>2 DEF Fetching
  <2>. QED
    BY <2>1, <2>3 DEF c
<1>. QED
  BY <1>2, <1>9, <1>10 DEF PackageInv, CacheSound

LEMMA PackageDamaged == ASSUME PackageInv, Package!Damage PROVE PackageInv'
<1>1. /\ UNCHANGED <<latest, update>> /\ troubles' \in 0..MaxTroubles /\ troubles <= troubles'
      /\ package \in Package!File /\ package.package.by = package.identity
  BY PartsAssumption DEF PackageInv, Package!Damage, Package!Trouble, CacheSound
<1>2. CacheSound'
  <2>1. CASE package' = Package!NoFile
    BY <2>1 DEF CacheSound
  <2>2. CASE package' = [package EXCEPT !.state = "part"]
    BY <1>1, <2>2 DEF CacheSound, Package!File
  <2>. QED
    BY <2>1, <2>2 DEF Package!Damage
<1>3. ASSUME NEW s \in Services PROVE latest[s].by = s /\ latest[s].release <= troubles'
  <2>1. latest[s].release \in Nat
    BY PartsAssumption DEF PackageInv, Published, Package!Package
  <2>. QED
    BY <1>1, <2>1, PartsAssumption DEF PackageInv, Published
<1>. QED
  BY <1>1, <1>2, <1>3 DEF PackageInv, Published

LEMMA PackageStep == ASSUME PackageInv, Package!StoreNext PROVE PackageInv'
  BY PackageBegins, PackageFetches, PackageLatest, PackageDownloads, PackageVerifies, PackageWrites,
     PackageMovesFile, PackageEnds, PackagePublishes, PackageDamaged
  DEF Package!StoreNext

\* A cached file is what its header says, and what a host fetches is of its
\* service and no older than what was published when it asked.
THEOREM PartsPackage == Spec => [](part = "package" => PackageInv)
<1>1. Init => (part = "package" => PackageInv)
  BY PackageInit DEF Init
<1>2. (part = "package" => PackageInv) /\ [Next]_vars => (part = "package" => PackageInv)'
  BY PartsMove, PackageStep, PackageKept
<1>. QED
  BY <1>1, <1>2, PTL DEF Spec

\* adapter-account.c: whatever the other hosts put into the shared cache, the
\* package in use passed its check, is of the service the host is set to and is
\* as fresh as the update saw; for any hosts, services and faults.
THEOREM PartsPackageIsOurs == Spec => []PackageIsOurs
<1>1. PackageInv => Package!StoreTypeOK
  BY DEF PackageInv, Published, CacheSound, Fetching, Fetches, Packages, Package!StoreTypeOK
<1>2. PackageInv => Package!UsedIsOurs /\ Package!BadCacheHeals /\ Package!UpdateIsFresh
  BY DEF PackageInv, Fetching, Package!UsedIsOurs, Package!BadCacheHeals, Package!UpdateIsFresh
<1>. QED
  BY <1>1, <1>2, PartsPackage, PTL DEF PackageIsOurs

-----------------------------------------------------------------------------
(* The display override (DpiOverride)                                      *)

Tokens == (UNION {v.tokens : v \in Values}) \cup {"~", "HIGHDPIAWARE"}
Value == [type : {"none", "text", "expand", "binary"}, tokens : SUBSET Tokens]
Override ==
    [at : {"out", "read", "observe", "set", "begun", "restore", "put"}, original : Value,
     changed : BOOLEAN, attempt : 0..2]

DpiTypes ==
    /\ reg \in Value /\ meant \in Value /\ mutex \in Hosts \cup {0, -1}
    /\ dpi \in [Hosts -> Override] /\ spoiled \in BOOLEAN /\ writes \in 0..MaxWrites

\* Only the owner of the mutex is at work.
OneAtWork == \A h \in Hosts : dpi[h].at # "out" => mutex = h

\* The registry, r, as a host at work left it, when others want m: untouched until
\* the write, and then the temporary value, or what others wrote over it.
Left(c, r, m) ==
    /\ c.at \in {"read", "observe", "set"} => r = m
    /\ c.at = "set" => r = c.original
    /\ c.at \in {"observe", "set", "put"} => c.changed
    /\ c.at \in {"begun", "restore", "put"} /\ ~c.changed => r = m
    /\ c.at \in {"begun", "restore", "put"} /\ c.changed =>
          \/ r = Dpi!Temporary(c.original) /\ m = c.original
          \/ r = m /\ r # Dpi!Temporary(c.original)
    /\ c.at = "put" => r = Dpi!Temporary(c.original)

RegistryKept ==
    ~spoiled => /\ (\A h \in Hosts : dpi[h].at = "out") => reg = meant
                /\ \A h \in Hosts : dpi[h].at # "out" => Left(dpi[h], reg, meant)

DpiInv == DpiTypes /\ OneAtWork /\ RegistryKept

LEMMA ValuesAreValues == Values \subseteq Value
<1> SUFFICES ASSUME NEW v \in Values PROVE v \in Value
  OBVIOUS
<1>1. v \in [type : {"none", "text", "expand", "binary"}, tokens : SUBSET UNION {w.tokens : w \in Values}]
  BY PartsAssumption
<1>. QED
  BY <1>1 DEF Value, Tokens

LEMMA AbsentIsValue == Dpi!Absent \in Value /\ Dpi!Nothing \in Override /\ Dpi!Nothing.at = "out"
<1>1. Dpi!Absent \in Value
  BY DEF Dpi!Absent, Value
<1>. QED
  BY <1>1 DEF Dpi!Nothing, Override

LEMMA TemporaryIsAware ==
  ASSUME NEW v \in Value PROVE Dpi!Temporary(v) \in Value /\ Dpi!Aware(Dpi!Temporary(v))
<1> DEFINE kept == IF Dpi!Kept(v) = {} THEN {"~"} ELSE Dpi!Kept(v)
<1>1. \A x \in Dpi!Kept(v) : x \in Tokens /\ x # "DPIUNAWARE" /\ x # "GDIDPISCALING"
  BY DEF Dpi!Kept, Value
<1>2. \A x \in kept : x \in Tokens /\ x # "DPIUNAWARE" /\ x # "GDIDPISCALING"
  <2>1. CASE Dpi!Kept(v) = {}
    BY <2>1 DEF Tokens
  <2>2. CASE Dpi!Kept(v) # {}
    BY <1>1, <2>2
  <2>. QED
    BY <2>1, <2>2
<1>3. Dpi!Temporary(v) = [type |-> "text", tokens |-> kept \cup {"HIGHDPIAWARE"}]
  BY DEF Dpi!Temporary
<1>. HIDE DEF kept
<1> DEFINE all == kept \cup {"HIGHDPIAWARE"}
<1>4. all \in SUBSET Tokens /\ "HIGHDPIAWARE" \in all /\ \A x \in all : x # "DPIUNAWARE" /\ x # "GDIDPISCALING"
  BY <1>2 DEF Tokens
<1>. HIDE DEF all
<1>5. Dpi!Temporary(v).tokens = all /\ Dpi!Temporary(v) \in Value
  BY <1>3, <1>4 DEF Value, all
<1>6. all \cap {"DPIUNAWARE", "GDIDPISCALING"} = {}
  BY <1>4
<1>. QED
  BY <1>4, <1>5, <1>6 DEF Dpi!Aware

LEMMA DpiInit == Dpi!DpiInit => DpiInv
<1> SUFFICES ASSUME Dpi!DpiInit PROVE DpiInv
  OBVIOUS
<1>1. DpiTypes
  <2>1. reg \in Value /\ meant \in Value
    BY ValuesAreValues DEF Dpi!DpiInit
  <2>2. dpi \in [Hosts -> Override]
    BY AbsentIsValue DEF Dpi!DpiInit
  <2>3. 0 \in 0..MaxWrites
    BY PartsAssumption
  <2>. QED
    BY <2>1, <2>2, <2>3 DEF Dpi!DpiInit, DpiTypes
<1>2. \A h \in Hosts : dpi[h].at = "out"
  BY AbsentIsValue DEF Dpi!DpiInit
<1>. QED
  BY <1>1, <1>2 DEF Dpi!DpiInit, DpiInv, OneAtWork, RegistryKept

LEMMA DpiStays == ASSUME DpiInv, UNCHANGED dpiVars PROVE DpiInv'
  BY DEF DpiInv, DpiTypes, OneAtWork, RegistryKept, Left, dpiVars

\* While a host is at work the others are not.
LEMMA OthersAreOut ==
  ASSUME DpiInv, NEW h \in Hosts, dpi[h].at # "out" \/ mutex \in {0, -1}
  PROVE  \A g \in Hosts \ {h} : dpi[g].at = "out"
  BY PartsAssumption DEF DpiInv, OneAtWork

\* One host moves, to c: into work, or out of it.
LEMMA DpiMoves ==
  ASSUME DpiInv, NEW h \in Hosts, NEW c \in Override, dpi' = [dpi EXCEPT ![h] = c],
         dpi[h].at # "out" \/ mutex \in {0, -1},
         DpiTypes', c.at # "out" => mutex' = h,
         ~spoiled' => IF c.at = "out" THEN reg' = meant' ELSE Left(c, reg', meant')
  PROVE  DpiInv'
<1>1. \A g \in Hosts \ {h} : dpi'[g] = dpi[g] /\ dpi[g].at = "out"
  BY OthersAreOut DEF DpiInv, DpiTypes
<1>2. dpi'[h] = c
  BY DEF DpiInv, DpiTypes
<1>3. OneAtWork'
  BY <1>1, <1>2 DEF OneAtWork
<1>4. RegistryKept'
  BY <1>1, <1>2 DEF RegistryKept
<1>. QED
  BY <1>3, <1>4 DEF DpiInv

\* What is known of a host at work.
LEMMA AtWork ==
  ASSUME DpiInv, NEW h \in Hosts
  PROVE  /\ dpi[h] \in Override /\ dpi[h].original \in Value /\ reg \in Value /\ meant \in Value
         /\ dpi[h].at # "out" => mutex = h /\ (~spoiled => Left(dpi[h], reg, meant))
         /\ (dpi[h].at = "out" /\ mutex \in {0, -1} /\ ~spoiled => reg = meant)
  BY OthersAreOut DEF DpiInv, DpiTypes, OneAtWork, RegistryKept, Override

LEMMA TroubleCounted == ASSUME DpiInv, Dpi!Trouble PROVE writes' \in 0..MaxWrites
  BY PartsAssumption DEF DpiInv, DpiTypes, Dpi!Trouble

LEMMA DpiAcquires == ASSUME DpiInv, NEW h \in Hosts, Dpi!Acquire(h) PROVE DpiInv'
<1> DEFINE a == dpi[h]
           c == [a EXCEPT !.at = "read"]
<1>1. a \in Override /\ a.at = "out" /\ UNCHANGED <<reg, meant, spoiled, writes>>
  BY AtWork DEF Dpi!Acquire
<1>2. CASE mutex = 0 /\ mutex' = h /\ Dpi!At(h, "read")
  <2>1. dpi' = [dpi EXCEPT ![h] = c]
    BY <1>2 DEF Dpi!At, DpiInv, DpiTypes
  <2>2. ~spoiled => reg = meant
    BY <1>1, <1>2, AtWork
  <2>. HIDE DEF a
  <2>3. c \in Override /\ c.at = "read"
    BY <1>1 DEF Override
  <2>. HIDE DEF c
  <2>4. DpiTypes'
    BY <1>1, <1>2, <2>1, <2>3 DEF DpiInv, DpiTypes
  <2>. QED
    BY <1>1, <1>2, <2>1, <2>2, <2>3, <2>4, DpiMoves DEF Left
<1>3. CASE mutex = -1 /\ mutex' = 0 /\ UNCHANGED dpi
  <2>1. \A g \in Hosts : dpi[g].at = "out"
    BY <1>3, PartsAssumption DEF DpiInv, OneAtWork
  <2>. QED
    BY <1>1, <1>3, <2>1 DEF DpiInv, DpiTypes, OneAtWork, RegistryKept
<1>. QED
  BY <1>2, <1>3 DEF Dpi!Acquire

\* A host leaves when the registry is as it is meant.
LEMMA DpiLeaves ==
  ASSUME DpiInv, NEW h \in Hosts, dpi[h].at # "out", Dpi!Leave(h), meant' = meant, reg' \in Value, spoiled' \in BOOLEAN,
         writes' = writes \/ Dpi!Trouble, ~spoiled' => reg' = meant
  PROVE  DpiInv'
<1>1. dpi' = [dpi EXCEPT ![h] = Dpi!Nothing] /\ mutex' = 0
  BY DEF Dpi!Leave
<1>2. DpiTypes'
  BY <1>1, TroubleCounted, AbsentIsValue DEF DpiInv, DpiTypes
<1>. QED
  BY <1>1, <1>2, AbsentIsValue, DpiMoves

\* A host at work goes on with what it has.
LEMMA DpiGoes ==
  ASSUME DpiInv, NEW h \in Hosts, dpi[h].at # "out", NEW c \in Override, c.at # "out", dpi' = [dpi EXCEPT ![h] = c],
         reg' \in Value, UNCHANGED <<mutex, meant, spoiled>>, writes' = writes \/ Dpi!Trouble, ~spoiled => Left(c, reg', meant')
  PROVE  DpiInv'
<1>1. DpiTypes'
  BY TroubleCounted DEF DpiInv, DpiTypes
<1>. QED
  BY <1>1, AtWork, DpiMoves

LEMMA DpiReads == ASSUME DpiInv, NEW h \in Hosts, Dpi!Read(h) PROVE DpiInv'
<1> DEFINE a == dpi[h]
           place == IF Dpi!Aware(reg) THEN "begun" ELSE "observe"
           change == ~Dpi!Aware(reg)
           c == [a EXCEPT !.at = place, !.original = reg, !.changed = change]
<1>1. /\ a \in Override /\ a.at = "read" /\ reg \in Value /\ UNCHANGED <<reg, meant, spoiled>> /\ (~spoiled => reg = meant)
      /\ (writes' = writes \/ Dpi!Trouble)
  BY AtWork DEF Dpi!Read, Left
<1>2. CASE Dpi!Leave(h)
  BY <1>1, <1>2, DpiLeaves DEF DpiInv, DpiTypes
<1>3. CASE dpi' = [dpi EXCEPT ![h] = c] /\ UNCHANGED mutex
  <2>1. place \in {"begun", "observe"} /\ change \in BOOLEAN /\ (place = "observe" => change) /\ (place = "begun" => ~change)
    BY DEF Dpi!Aware
  <2>. HIDE DEF a, place, change
  <2>2. c \in Override /\ c.at = place /\ c.changed = change
    BY <1>1, <2>1 DEF Override
  <2>. HIDE DEF c
  <2>3. ~spoiled => Left(c, reg', meant')
    BY <1>1, <2>1, <2>2 DEF Left
  <2>. QED
    BY <1>1, <1>3, <2>1, <2>2, <2>3, DpiGoes DEF a
<1>. QED
  BY <1>2, <1>3 DEF Dpi!Read

LEMMA DpiObserves == ASSUME DpiInv, NEW h \in Hosts, Dpi!Observe(h) PROVE DpiInv'
<1> DEFINE a == dpi[h]
           c == [a EXCEPT !.at = "set"]
<1>1. /\ a \in Override /\ a.at = "observe" /\ UNCHANGED <<reg, meant, spoiled>> /\ reg \in Value
      /\ (~spoiled => reg = meant /\ a.changed) /\ (writes' = writes \/ Dpi!Trouble)
  BY AtWork DEF Dpi!Observe, Left
<1>2. CASE Dpi!Leave(h)
  BY <1>1, <1>2, DpiLeaves DEF DpiInv, DpiTypes
<1>3. CASE reg = a.original /\ Dpi!At(h, "set") /\ UNCHANGED mutex
  <2>1. dpi' = [dpi EXCEPT ![h] = c]
    BY <1>3 DEF Dpi!At, DpiInv, DpiTypes
  <2>. HIDE DEF a
  <2>2. c \in Override /\ c.at = "set" /\ c.changed = a.changed /\ c.original = a.original
    BY <1>1 DEF Override
  <2>. HIDE DEF c
  <2>3. ~spoiled => Left(c, reg', meant')
    BY <1>1, <1>3, <2>2 DEF Left
  <2>. QED
    BY <1>1, <1>3, <2>1, <2>2, <2>3, DpiGoes DEF a
<1>. QED
  BY <1>2, <1>3 DEF Dpi!Observe

\* The temporary value is written over the one that was read.
LEMMA DpiSets == ASSUME DpiInv, NEW h \in Hosts, Dpi!Set(h) PROVE DpiInv'
<1> DEFINE a == dpi[h]
           c == [a EXCEPT !.at = "begun"]
<1>1. /\ a \in Override /\ a.at = "set" /\ UNCHANGED <<meant, spoiled>> /\ reg \in Value /\ a.original \in Value
      /\ (~spoiled => reg = meant /\ reg = a.original /\ a.changed)
  BY AtWork DEF Dpi!Set, Left
<1>2. CASE Dpi!Trouble /\ Dpi!Leave(h) /\ UNCHANGED reg
  BY <1>1, <1>2, DpiLeaves DEF DpiInv, DpiTypes
<1>3. CASE reg' = Dpi!Temporary(a.original) /\ Dpi!At(h, "begun") /\ UNCHANGED <<mutex, writes>>
  <2>1. dpi' = [dpi EXCEPT ![h] = c] /\ reg' \in Value
    BY <1>1, <1>3, TemporaryIsAware DEF Dpi!At, DpiInv, DpiTypes
  <2>. HIDE DEF a
  <2>2. c \in Override /\ c.at = "begun" /\ c.changed = a.changed /\ c.original = a.original
    BY <1>1 DEF Override
  <2>. HIDE DEF c
  <2>3. ~spoiled => Left(c, reg', meant')
    BY <1>1, <1>3, <2>2 DEF Left
  <2>. QED
    BY <1>1, <1>3, <2>1, <2>2, <2>3, DpiGoes DEF a
<1>. QED
  BY <1>2, <1>3 DEF Dpi!Set

LEMMA DpiRestores == ASSUME DpiInv, NEW h \in Hosts, Dpi!Restore(h) PROVE DpiInv'
<1> DEFINE a == dpi[h]
           c == [a EXCEPT !.at = "put"]
<1>1. /\ a \in Override /\ a.at \in {"begun", "restore"} /\ UNCHANGED <<reg, meant>>
      /\ reg \in Value /\ (~spoiled => Left(a, reg, meant)) /\ spoiled \in BOOLEAN
  BY AtWork DEF Dpi!Restore, DpiInv, DpiTypes
<1>2. CASE /\ Dpi!Leave(h) /\ (~a.changed \/ reg # Dpi!Temporary(a.original) \/ reg = a.original)
           /\ UNCHANGED <<spoiled, writes>>
  BY <1>1, <1>2, DpiLeaves DEF Left
<1>3. CASE /\ a.changed /\ reg = Dpi!Temporary(a.original) /\ Dpi!At(h, "put")
           /\ UNCHANGED <<mutex, spoiled, writes>>
  <2>1. dpi' = [dpi EXCEPT ![h] = c]
    BY <1>3 DEF Dpi!At, DpiInv, DpiTypes
  <2>. HIDE DEF a
  <2>2. c \in Override /\ c.at = "put" /\ c.changed = a.changed /\ c.original = a.original
    BY <1>1 DEF Override
  <2>. HIDE DEF c
  <2>3. ~spoiled => Left(c, reg', meant')
    BY <1>1, <1>3, <2>2 DEF Left
  <2>. QED
    BY <1>1, <1>3, <2>1, <2>2, <2>3, DpiGoes DEF a
<1>4. CASE a.changed /\ Dpi!Trouble /\ Dpi!Leave(h) /\ spoiled' = (spoiled \/ reg = Dpi!Temporary(a.original))
  BY <1>1, <1>4, DpiLeaves DEF Left
<1>. QED
  BY <1>2, <1>3, <1>4 DEF Dpi!Restore

LEMMA DpiPuts == ASSUME DpiInv, NEW h \in Hosts, Dpi!Put(h) PROVE DpiInv'
<1> DEFINE a == dpi[h]
           n == a.attempt + 1
           c == [a EXCEPT !.at = "restore", !.attempt = n]
<1>1. /\ a \in Override /\ a.at = "put" /\ meant' = meant /\ reg \in Value /\ a.original \in Value
      /\ (~spoiled => Left(a, reg, meant)) /\ a.attempt \in 0..2
  BY AtWork DEF Dpi!Put, Override
<1>2. CASE reg' = a.original /\ Dpi!Leave(h) /\ UNCHANGED <<spoiled, writes>>
  BY <1>1, <1>2, DpiLeaves DEF Left, DpiInv, DpiTypes
<1>3. CASE Dpi!Trouble /\ Dpi!Leave(h) /\ spoiled' = TRUE /\ UNCHANGED reg
  BY <1>1, <1>3, DpiLeaves
<1>4. CASE a.attempt < 2 /\ Dpi!Trouble /\ dpi' = [dpi EXCEPT ![h].at = "restore", ![h].attempt = a.attempt + 1]
           /\ UNCHANGED <<reg, mutex, spoiled>>
  <2>1. dpi' = [dpi EXCEPT ![h] = c]
    BY <1>4 DEF DpiInv, DpiTypes
  <2>2. n \in 0..2
    BY <1>1, <1>4
  <2>. HIDE DEF a, n
  <2>3. c \in Override /\ c.at = "restore" /\ c.changed = a.changed /\ c.original = a.original
    BY <1>1, <2>2 DEF Override
  <2>. HIDE DEF c
  <2>4. ~spoiled => Left(c, reg', meant')
    BY <1>1, <1>4, <2>3 DEF Left
  <2>. QED
    BY <1>1, <1>4, <2>1, <2>3, <2>4, DpiGoes DEF a
<1>. QED
  BY <1>2, <1>3, <1>4 DEF Dpi!Put

\* Others write the value: it is what everyone wants then.
LEMMA DpiWrites == ASSUME DpiInv, Dpi!Write PROVE DpiInv'
<1>1. PICK v \in Values \cup {Dpi!Temporary(w) : w \in {x \in Values : Dpi!Valid(x)}} :
        /\ v # reg /\ reg' = v /\ meant' = v
        /\ spoiled' = (spoiled \/ \E h \in Hosts : dpi[h].at \in {"set", "put"}
                                     \/ (Dpi!Inside(h) /\ dpi[h].changed /\ v = Dpi!Temporary(dpi[h].original)))
  BY DEF Dpi!Write
<1>2. v \in Value
  BY ValuesAreValues, TemporaryIsAware
<1>3. UNCHANGED <<mutex, dpi>> /\ writes' \in 0..MaxWrites
  BY TroubleCounted DEF Dpi!Write
<1>4. DpiTypes'
  BY <1>1, <1>2, <1>3 DEF DpiInv, DpiTypes
<1>5. ASSUME NEW h \in Hosts, dpi[h].at # "out", ~spoiled' PROVE Left(dpi'[h], reg', meant')
  <2> DEFINE a == dpi[h]
  <2>1. /\ ~spoiled /\ a.at \notin {"set", "put"}
        /\ (a.at \in {"begun", "restore"} /\ a.changed => v # Dpi!Temporary(a.original))
    BY <1>1, <1>5 DEF Dpi!Inside
  <2>2. Left(a, reg, meant) /\ dpi'[h] = a
    BY <1>3, <1>5, <2>1, AtWork
  <2>. HIDE DEF a
  <2>3. Left(a, reg', meant')
    BY <1>1, <2>1, <2>2 DEF Left
  <2>. QED
    BY <2>2, <2>3 DEF Left
<1>. QED
  BY <1>1, <1>3, <1>4, <1>5 DEF DpiInv, OneAtWork, RegistryKept

LEMMA DpiKilled == ASSUME DpiInv, NEW h \in Hosts, Dpi!Kill(h) PROVE DpiInv'
<1> DEFINE a == dpi[h]
<1>1. /\ a \in Override /\ a.at # "out" /\ UNCHANGED <<reg, meant>> /\ mutex = h /\ (~spoiled => Left(a, reg, meant)) /\ mutex' = -1
      /\ dpi' = [dpi EXCEPT ![h] = Dpi!Nothing] /\ spoiled' = (spoiled \/ (Dpi!Inside(h) /\ a.changed))
  BY AtWork DEF Dpi!Kill
<1>2. ~spoiled' => reg = meant
  BY <1>1 DEF Left, Dpi!Inside, Override
<1>3. DpiTypes'
  BY <1>1, TroubleCounted, AbsentIsValue DEF Dpi!Kill, DpiInv, DpiTypes
<1>. QED
  BY <1>1, <1>2, <1>3, AbsentIsValue, DpiMoves

LEMMA DpiStep == ASSUME DpiInv, Dpi!DpiNext PROVE DpiInv'
  BY DpiAcquires, DpiReads, DpiObserves, DpiSets, DpiRestores, DpiPuts, DpiKilled, DpiWrites DEF Dpi!DpiNext

\* Only the owner of the mutex is at work on the value of the display setting,
\* and it knows what it replaced.
THEOREM PartsDpi == Spec => [](part = "dpi" => DpiInv)
<1>1. Init => (part = "dpi" => DpiInv)
  BY DpiInit DEF Init
<1>2. (part = "dpi" => DpiInv) /\ [Next]_vars => (part = "dpi" => DpiInv)'
  BY PartsMove, DpiStep, DpiStays
<1>. QED
  BY <1>1, <1>2, PTL DEF Spec

\* dpi.c: the setting is in effect during a launch, and the registry holds what
\* everyone else wants when no host is inside; for any hosts, values and writes.
THEOREM PartsDpiKept == Spec => []DpiKept
<1>1. ASSUME DpiInv PROVE Dpi!DpiTypeOK
  BY <1>1 DEF DpiInv, DpiTypes, Value, Override, Dpi!DpiTypeOK
<1>2. ASSUME DpiInv PROVE Dpi!MeantIsKept
  BY <1>2 DEF DpiInv, DpiTypes, Override, RegistryKept, Left, Dpi!MeantIsKept, Dpi!Inside
<1>3. ASSUME DpiInv PROVE Dpi!InEffect
  BY <1>3, TemporaryIsAware DEF DpiInv, DpiTypes, Override, RegistryKept, Left, Dpi!InEffect
<1>. QED
  BY <1>1, <1>2, <1>3, PartsDpi, PTL DEF DpiKept

-----------------------------------------------------------------------------
(* The client picker (ClientPicker)                                        *)

PickerWindow ==
    [at : {"open", "scan", "selected", "cancelled", "error"}, sel : Clients \cup {Picker!None},
     mode : {"auto", "cdp-port", "dll-proxy"}, carrier : Picker!Carriers \cup {"auto"},
     noMode : SUBSET {"cdp-port", "dll-proxy"}, noCarrier : SUBSET Picker!Carriers,
     path : Clients \cup {Picker!None}, browsed : BOOLEAN]
Progress ==
    [at : {"none", "scanning", "over", "finished"}, open : BOOLEAN, cancelRequested : BOOLEAN, cancelled : BOOLEAN]

PickerTypes ==
    /\ list \subseteq Clients /\ full \subseteq Clients /\ before \subseteq Clients
    /\ notice \in BOOLEAN /\ asked \in BOOLEAN /\ scans \in 0..MaxScans
    /\ win \in PickerWindow /\ prog \in Progress

\* The window w offers, and holds, only what its client supports.
Fits(w) ==
    /\ w.sel # Picker!None /\ ~w.browsed =>
          /\ w.noMode = Picker!InjectDisabled(w.sel) /\ w.noCarrier = Picker!CarrierDisabled(w.sel)
          /\ w.mode \notin w.noMode
          /\ w.carrier # "auto" => w.mode = "dll-proxy" /\ w.carrier \notin w.noCarrier
    /\ w.carrier # "auto" => w.mode = "dll-proxy"
    /\ w.at = "selected" /\ ~w.browsed => w.sel # Picker!None /\ w.path = w.sel

\* A request to cancel is the user's, and it is still to come while the window of the search is there.
RequestIsTheUsers ==
    /\ prog.at = "none" <=> win.at # "scan"
    /\ prog.at = "none" => ~prog.open
    /\ prog.open => ~prog.cancelRequested
    /\ prog.cancelled => prog.cancelRequested
    /\ win.at = "scan" => (asked <=> prog.cancelRequested)
    /\ win.at # "scan" /\ scans > 0 => (notice <=> asked)

PickerInv == PickerTypes /\ Fits(win) /\ RequestIsTheUsers

\* What is greyed out is known, and a window that opens fits its client.
LEMMA Offered ==
  ASSUME NEW c PROVE Picker!InjectDisabled(c) \subseteq {"cdp-port", "dll-proxy"} /\ Picker!CarrierDisabled(c) \subseteq Picker!Carriers
  BY DEF Picker!InjectDisabled, Picker!CarrierDisabled

LEMMA WindowFits ==
  ASSUME NEW c \in Clients \cup {Picker!None}, NEW place \in {"open", "error"}
  PROVE  /\ Picker!Window(place, c) \in PickerWindow /\ Fits(Picker!Window(place, c))
         /\ Picker!Window(place, c).at = place
<1> DEFINE none == IF c = Picker!None THEN {} ELSE Picker!InjectDisabled(c)
           others == IF c = Picker!None THEN {} ELSE Picker!CarrierDisabled(c)
<1>1. /\ none \subseteq {"cdp-port", "dll-proxy"} /\ others \subseteq Picker!Carriers /\ "auto" \notin none
      /\ (c # Picker!None => none = Picker!InjectDisabled(c) /\ others = Picker!CarrierDisabled(c))
  BY Offered
<1>2. Picker!Window(place, c) =
        [at |-> place, sel |-> c, mode |-> "auto", carrier |-> "auto", noMode |-> none, noCarrier |-> others,
         path |-> Picker!None, browsed |-> FALSE]
  BY DEF Picker!Window
<1>. HIDE DEF none, others
<1>. QED
  BY <1>1, <1>2 DEF PickerWindow, Fits

LEMMA RecommendedIsThere ==
  ASSUME NEW s \in SUBSET Clients, NEW c \in Picker!Recommended(s) PROVE c \in Clients \cup {Picker!None}
  BY DEF Picker!Recommended

LEMMA PickerInit == Picker!PickerInit /\ MaxScans \in Nat => PickerInv
<1> SUFFICES ASSUME Picker!PickerInit, MaxScans \in Nat PROVE PickerInv
  OBVIOUS
<1>1. PICK c \in Clients \cup {Picker!None} : win = Picker!Window("open", c)
  BY RecommendedIsThere DEF Picker!PickerInit
<1>2. win \in PickerWindow /\ Fits(win) /\ win.at = "open"
  BY <1>1, WindowFits
<1>3. prog \in Progress /\ prog.at = "none" /\ ~prog.open /\ ~prog.cancelled
  BY DEF Picker!PickerInit, Picker!NoProgress, Progress
<1>4. /\ list \subseteq Clients /\ full = {} /\ before = {} /\ notice = FALSE /\ asked = FALSE /\ scans = 0
  BY DEF Picker!PickerInit
<1>5. scans \in 0..MaxScans /\ ~(scans > 0)
  BY <1>4
<1>. QED
  BY <1>2, <1>3, <1>4, <1>5 DEF PickerInv, PickerTypes, RequestIsTheUsers

LEMMA PickerStays == ASSUME PickerInv, UNCHANGED pickerVars PROVE PickerInv'
  BY DEF PickerInv, PickerTypes, RequestIsTheUsers, pickerVars

\* The user changes the open window, and nothing else.
LEMMA WindowMoves ==
  ASSUME PickerInv, NEW w \in PickerWindow, win' = w, win.at = "open", w.at # "scan", Fits(w),
         UNCHANGED <<list, full, shown, notice, prog, before, asked, scans>>
  PROVE  PickerInv'
  BY DEF PickerInv, PickerTypes, RequestIsTheUsers

LEMMA PickerSelects == ASSUME PickerInv, Picker!Select PROVE PickerInv'
<1>1. PICK c \in Clients : win' = Picker!Capable(win, c)
  BY DEF Picker!Select, Picker!Shown, PickerInv, PickerTypes
<1> DEFINE m == IF win.mode \in Picker!InjectDisabled(c) THEN "auto" ELSE win.mode
           w == [win EXCEPT !.sel = c, !.noMode = Picker!InjectDisabled(c), !.noCarrier = Picker!CarrierDisabled(c),
                            !.mode = m, !.carrier = "auto"]
<1>2. win \in PickerWindow /\ win.at = "open"
  BY DEF PickerInv, PickerTypes, Picker!Select, Picker!Open
<1>3. win' = w
  BY <1>1, <1>2 DEF Picker!Capable, Picker!Filled, PickerWindow
<1>4. m \in {"auto", "cdp-port", "dll-proxy"} /\ m \notin Picker!InjectDisabled(c)
  BY <1>2, Offered DEF PickerWindow
<1>. HIDE DEF m
<1>5. w \in PickerWindow /\ w.at = "open" /\ Fits(w)
  BY <1>2, <1>4, Offered DEF PickerWindow, Fits
<1>. HIDE DEF w
<1>. QED
  BY <1>2, <1>3, <1>5, WindowMoves DEF Picker!Select

LEMMA PickerPicks == ASSUME PickerInv, Picker!PickMode \/ Picker!PickCarrier PROVE PickerInv'
<1>1. win \in PickerWindow /\ win.at = "open" /\ Fits(win) /\ UNCHANGED <<list, full, shown, notice, prog, before, asked, scans>>
  BY DEF PickerInv, PickerTypes, Picker!PickMode, Picker!PickCarrier, Picker!Open
<1>2. CASE Picker!PickMode
  <2>1. PICK m \in {"auto", "cdp-port", "dll-proxy"} \ win.noMode : win' = [win EXCEPT !.mode = m, !.carrier = "auto"]
    BY <1>1, <1>2 DEF Picker!PickMode, Picker!Filled, PickerWindow
  <2> DEFINE w == [win EXCEPT !.mode = m, !.carrier = "auto"]
  <2>2. w \in PickerWindow /\ w.at = "open" /\ Fits(w)
    BY <1>1 DEF PickerWindow, Fits
  <2>. HIDE DEF w
  <2>. QED
    BY <1>1, <2>1, <2>2, WindowMoves DEF w
<1>3. CASE Picker!PickCarrier
  <2>1. PICK k \in (Picker!Carriers \cup {"auto"}) \ win.noCarrier : win' = [win EXCEPT !.carrier = k]
    BY <1>3 DEF Picker!PickCarrier
  <2> DEFINE w == [win EXCEPT !.carrier = k]
  <2>2. w \in PickerWindow /\ w.at = "open" /\ Fits(w)
    BY <1>1, <1>3 DEF PickerWindow, Fits, Picker!PickCarrier
  <2>. HIDE DEF w
  <2>. QED
    BY <1>1, <2>1, <2>2, WindowMoves DEF w
<1>. QED
  BY <1>2, <1>3

LEMMA PickerCloses == ASSUME PickerInv, Picker!Accept \/ Picker!Browse \/ Picker!Leave PROVE PickerInv'
<1>1. win \in PickerWindow /\ win.at = "open" /\ Fits(win) /\ UNCHANGED <<list, full, shown, notice, prog, before, asked, scans>>
  BY DEF PickerInv, PickerTypes, Picker!Accept, Picker!Browse, Picker!Leave, Picker!Open
<1>2. CASE Picker!Accept
  <2> DEFINE w == [win EXCEPT !.at = "selected", !.path = win.sel]
  <2>1. win' = w /\ win.sel # Picker!None
    BY <1>2 DEF Picker!Accept
  <2>2. w \in PickerWindow /\ w.at = "selected" /\ Fits(w)
    BY <1>1, <2>1 DEF PickerWindow, Fits
  <2>. HIDE DEF w
  <2>. QED
    BY <1>1, <2>1, <2>2, WindowMoves
<1>3. CASE Picker!Browse
  <2>1. PICK c \in Clients : win' = [win EXCEPT !.at = "selected", !.path = c, !.browsed = TRUE]
    BY <1>3 DEF Picker!Browse
  <2> DEFINE w == [win EXCEPT !.at = "selected", !.path = c, !.browsed = TRUE]
  <2>2. w \in PickerWindow /\ w.at = "selected" /\ Fits(w)
    BY <1>1 DEF PickerWindow, Fits
  <2>. HIDE DEF w
  <2>. QED
    BY <1>1, <2>1, <2>2, WindowMoves DEF w
<1>4. CASE Picker!Leave
  <2> DEFINE w == [win EXCEPT !.at = "cancelled"]
  <2>1. win' = w
    BY <1>4 DEF Picker!Leave
  <2>2. w \in PickerWindow /\ w.at = "cancelled" /\ Fits(w)
    BY <1>1 DEF PickerWindow, Fits
  <2>. HIDE DEF w
  <2>. QED
    BY <1>1, <2>1, <2>2, WindowMoves
<1>. QED
  BY <1>2, <1>3, <1>4

\* The search goes on, or its window goes.
LEMMA ProgressMoves ==
  ASSUME PickerInv, NEW p \in Progress, prog' = p, prog.at # "none", p.at # "none", full' \subseteq Clients, asked' \in BOOLEAN,
         p.open => ~p.cancelRequested, p.cancelled => p.cancelRequested, asked' <=> p.cancelRequested,
         UNCHANGED <<list, notice, win, before, scans>>
  PROVE  PickerInv'
  BY DEF PickerInv, PickerTypes, RequestIsTheUsers

LEMMA PickerSearches ==
  ASSUME PickerInv, Picker!PressCancel \/ Picker!CloseByUser \/ Picker!SearchEnds \/ Picker!Finish \/ Picker!CloseByProgram
  PROVE  PickerInv'
<1>1. /\ prog \in Progress /\ prog.at # "none" /\ full \subseteq Clients /\ asked \in BOOLEAN
      /\ (prog.open => ~prog.cancelRequested) /\ (prog.cancelled => prog.cancelRequested) /\ (asked <=> prog.cancelRequested)
      /\ UNCHANGED <<list, notice, win, before, scans>>
  BY DEF PickerInv, PickerTypes, RequestIsTheUsers, Picker!PressCancel, Picker!CloseByUser, Picker!SearchEnds,
         Picker!Finish, Picker!CloseByProgram
<1>2. CASE Picker!PressCancel
  <2> DEFINE p == [prog EXCEPT !.open = FALSE, !.cancelRequested = TRUE]
  <2>1. prog' = p /\ asked' = TRUE /\ full' = full
    BY <1>2 DEF Picker!PressCancel
  <2>2. p \in Progress /\ p.at = prog.at /\ ~p.open /\ p.cancelRequested
    BY <1>1 DEF Progress
  <2>. HIDE DEF p
  <2>. QED
    BY <1>1, <2>1, <2>2, ProgressMoves
<1>3. CASE Picker!CloseByUser \/ Picker!CloseByProgram
  <2> DEFINE r == prog.cancelRequested \/ prog.at # "finished"
             p == [prog EXCEPT !.open = FALSE, !.cancelRequested = r]
  <2>1. prog' = p /\ full' = full /\ prog.open
    BY <1>3 DEF Picker!CloseByUser, Picker!CloseByProgram, Picker!Closed
  <2>2. asked' \in BOOLEAN /\ (asked' <=> r) /\ r \in BOOLEAN
    BY <1>1, <1>3, <2>1 DEF Picker!CloseByUser, Picker!CloseByProgram, Progress
  <2>3. prog.cancelled => r
    BY <1>1
  <2>. HIDE DEF r
  <2>4. p \in Progress /\ p.at = prog.at /\ ~p.open /\ (p.cancelRequested <=> r) /\ p.cancelled = prog.cancelled
    BY <1>1, <2>2 DEF Progress
  <2>. HIDE DEF p
  <2>. QED
    BY <1>1, <2>1, <2>2, <2>3, <2>4, ProgressMoves
<1>4. CASE Picker!SearchEnds
  <2>1. PICK b \in BOOLEAN : prog' = [prog EXCEPT !.at = "over", !.cancelled = b] /\ (b => prog.cancelRequested)
    <3>1. CASE prog' = [prog EXCEPT !.at = "over"]
      <4>1. [prog EXCEPT !.at = "over"] = [prog EXCEPT !.at = "over", !.cancelled = prog.cancelled] /\ prog.cancelled \in BOOLEAN
        BY <1>1 DEF Progress
      <4>. QED
        BY <1>1, <3>1, <4>1
    <3>2. CASE prog.cancelRequested /\ prog' = [prog EXCEPT !.at = "over", !.cancelled = TRUE]
      BY <3>2
    <3>. QED
      BY <1>4, <3>1, <3>2 DEF Picker!SearchEnds
  <2> DEFINE p == [prog EXCEPT !.at = "over", !.cancelled = b]
  <2>2. p \in Progress /\ p.at = "over" /\ p.open = prog.open /\ p.cancelRequested = prog.cancelRequested /\ p.cancelled = b
    BY <1>1 DEF Progress
  <2>3. prog' = p /\ full' \subseteq Clients /\ asked' = asked
    BY <1>4, <2>1 DEF Picker!SearchEnds
  <2>. HIDE DEF p
  <2>. QED
    BY <1>1, <2>1, <2>2, <2>3, ProgressMoves
<1>5. CASE Picker!Finish
  <2> DEFINE p == [prog EXCEPT !.at = "finished"]
  <2>1. prog' = p /\ full' = full /\ asked' = asked
    BY <1>5 DEF Picker!Finish
  <2>2. p \in Progress /\ p.at = "finished" /\ p.open = prog.open /\ p.cancelRequested = prog.cancelRequested /\ p.cancelled = prog.cancelled
    BY <1>1 DEF Progress
  <2>. HIDE DEF p
  <2>. QED
    BY <1>1, <2>1, <2>2, ProgressMoves
<1>. QED
  BY <1>2, <1>3, <1>4, <1>5

LEMMA PickerScans == ASSUME PickerInv, MaxScans \in Nat, Picker!ScanAll PROVE PickerInv'
<1>1. PICK o \in BOOLEAN : prog' = [Picker!NoProgress EXCEPT !.at = "scanning", !.open = o]
  BY DEF Picker!ScanAll
<1>2. prog' \in Progress /\ prog'.at = "scanning" /\ ~prog'.cancelRequested /\ ~prog'.cancelled
  BY <1>1 DEF Picker!NoProgress, Progress
<1>3. win' \in PickerWindow /\ win'.at = "scan" /\ Fits(win')
  BY DEF Picker!ScanAll, Picker!Open, PickerInv, PickerTypes, PickerWindow, Fits
<1>4. scans' \in 0..MaxScans /\ before' \subseteq Clients
  BY DEF Picker!ScanAll, Picker!Shown, PickerInv, PickerTypes
<1>. QED
  BY <1>2, <1>3, <1>4 DEF Picker!ScanAll, PickerInv, PickerTypes, RequestIsTheUsers

LEMMA PickerReopens == ASSUME PickerInv, Picker!Reopen PROVE PickerInv'
<1>1. full' \subseteq Clients /\ (IF shown' = "full" THEN full' ELSE list) \subseteq Clients
  BY DEF Picker!Reopen, PickerInv, PickerTypes
<1>2. PICK c \in Clients \cup {Picker!None} : win' = Picker!Window("open", c) \/ win' = Picker!Window("error", c)
  BY <1>1, RecommendedIsThere DEF Picker!Reopen
<1>3. win' \in PickerWindow /\ win'.at \in {"open", "error"} /\ Fits(win')
  BY <1>2, WindowFits
<1>4. prog' \in Progress /\ prog'.at = "none" /\ ~prog'.open /\ ~prog'.cancelled
  BY DEF Picker!Reopen, Picker!NoProgress, Progress
<1>5. notice' \in BOOLEAN /\ (notice' <=> asked)
  BY DEF Picker!Reopen, PickerInv, PickerTypes, RequestIsTheUsers
<1>. QED
  BY <1>1, <1>3, <1>4, <1>5 DEF Picker!Reopen, PickerInv, PickerTypes, RequestIsTheUsers

LEMMA PickerStep == ASSUME PickerInv, MaxScans \in Nat, Picker!PickerNext PROVE PickerInv'
  BY PickerSelects, PickerPicks, PickerCloses, PickerSearches, PickerScans, PickerReopens DEF Picker!PickerNext

\* The picker offers what its client supports, and what ends a search is the
\* button of the user.
THEOREM PartsPicker == Spec => [](part = "picker" => PickerInv)
<1>1. Init => (part = "picker" => PickerInv)
  BY PartsAssumption, PickerInit DEF Init
<1>2. (part = "picker" => PickerInv) /\ [Next]_vars => (part = "picker" => PickerInv)'
  BY PartsAssumption, PartsMove, PickerStep, PickerStays
<1>. QED
  BY <1>1, <1>2, PTL DEF Spec

\* selection.c, host.c: a client of the list is launched in a way that it
\* supports, and only the user cancels a search; for any clients and libraries.
THEOREM PartsChoiceIsTheUsers == Spec => []ChoiceIsTheUsers
<1>1. ASSUME PickerInv PROVE Picker!PickerTypeOK /\ Picker!CancelIsTheUsers
  BY <1>1 DEF PickerInv, PickerTypes, PickerWindow, Progress, RequestIsTheUsers, Picker!PickerTypeOK,
              Picker!CancelIsTheUsers, Picker!Open
<1>2. ASSUME PickerInv PROVE Picker!ChosenIsSupported
  BY <1>2 DEF PickerInv, PickerTypes, PickerWindow, Fits, Picker!ChosenIsSupported, Picker!CarrierDisabled
<1>. QED
  BY <1>1, <1>2, PartsPicker, PTL DEF ChoiceIsTheUsers

-----------------------------------------------------------------------------
(* The processes of the host (OwnedProcesses)                              *)

Process == [born : 0..MaxTime, parent : Pids \cup {0}, tree : 0..MaxTime, client : BOOLEAN]
SeenSet == [pid : Pids, born : Nat, died : Nat, listed : BOOLEAN]
Root == [pid : Pids \cup {0}, seen : Seq(SeenSet)]
Node == [pid : Pids, parent : Pids \cup {0}]
Call ==
    [name : {"idle", "launch", "owner", "stop"}, slot : Slots \cup {0}, at : {"", "scan", "scanned"},
     nodes : SUBSET Node, left : SUBSET Node, changed : BOOLEAN, found : Pids \cup {0}]

ProcTypes ==
    /\ live \in [Pids -> Process] /\ clock \in Nat
    /\ roots \in [Slots -> Root] /\ call \in Call

\* The processes m at time t: each was born by then, and a child of one that
\* runs belongs to its tree, if it was born after it.
Machine(m, t) ==
    \A p \in Pids :
        /\ m[p].born <= t /\ (m[p].born = 0 <=> m[p] = Processes!None)
        /\ \A q \in Pids : m[p].parent = q /\ m[p].born # 0 /\ m[q].born # 0 /\ m[q].born <= m[p].born
              => m[p].tree = m[q].tree

\* What the table holds of a process is true: whether it still runs and, if it is
\* the one that the list meant, that it and the children it had belong to the launch.
Entry(e, launch, m, t) ==
    /\ e.born >= 1 /\ e.born <= t /\ e.died <= t
    /\ e.died = 0 <=> m[e.pid].born = e.born
    /\ e.listed /\ m[e.pid].born = e.born => m[e.pid].tree = launch
    /\ \A p \in Pids : e.listed /\ m[p].parent = e.pid /\ m[p].born # 0 /\ e.born <= m[p].born /\ (e.died = 0 \/ m[p].born <= e.died)
          => m[p].tree = launch

Table(q, m, t) ==
    /\ Len(q.seen) <= MaxSeen /\ (q.seen # <<>> => q.seen[1].pid = q.pid)
    /\ \A i \in 1..Len(q.seen) : Entry(q.seen[i], q.seen[1].born, m, t)

CallHolds ==
    /\ call.at # "" => call.slot \in Slots /\ call.name \in {"owner", "stop"}
    /\ call.at = "scan" => call.left \subseteq call.nodes
    /\ \A s \in Slots : roots[s].pid # 0 /\ roots[s].seen = <<>> =>
          call.name = "stop" /\ call.at = "scanned" /\ call.slot = s
Running(m) == {p \in Pids : m[p].born # 0}
Counted(m, t) == t + Cardinality(Running(m)) <= MaxTime + Cardinality(Pids)

ProcInv ==
    /\ ProcTypes /\ Machine(live, clock) /\ Counted(live, clock)
    /\ \A s \in Slots : Table(roots[s], live, clock)
    /\ CallHolds /\ \A e \in ended : e.listed => e.tree = e.launch

LEMMA RunningIsFinite ==
  ASSUME NEW m PROVE IsFiniteSet(Running(m)) /\ Cardinality(Running(m)) \in Nat /\ Cardinality(Pids) \in Nat
                     /\ Cardinality(Running(m)) <= Cardinality(Pids)
<1>1. Running(m) \in SUBSET Pids /\ IsFiniteSet(Pids)
  BY PartsAssumption DEF Running
<1>. QED
  BY <1>1, FS_Subset, FS_CardinalityType

LEMMA NoneIsProcess == Processes!None \in Process /\ Processes!None.born = 0
  BY PartsAssumption DEF Processes!None, Process

LEMMA IdleIsCall == Processes!Idle \in Call /\ Processes!Idle.at = "" /\ Processes!Idle.name = "idle"
  BY DEF Processes!Idle, Call

LEMMA FreeIsRoot ==
  ASSUME NEW m, NEW t
  PROVE  Processes!FreeSlot \in Root /\ Table(Processes!FreeSlot, m, t) /\ Processes!FreeSlot.pid = 0 /\ Processes!FreeSlot.seen = <<>>
<1>1. <<>> \in Seq(SeenSet) /\ Len(<<>>) = 0
  BY EmptySeq
<1>. QED
  BY <1>1, PartsAssumption DEF Processes!FreeSlot, Root, Table

\* Who runs, by the model's name and by the time of birth.
LEMMA RunsIsBorn ==
  ASSUME ProcInv, NEW p \in Pids
  PROVE  (Processes!Runs(p) <=> live[p].born # 0) /\ live[p] \in Process
  BY NoneIsProcess DEF ProcInv, ProcTypes, Machine, Processes!Runs

LEMMA ProcInit == Processes!ProcInit => ProcInv
<1> SUFFICES ASSUME Processes!ProcInit PROVE ProcInv
  OBVIOUS
<1>1. /\ live = [p \in Pids |-> Processes!None] /\ clock = 0 /\ call = Processes!Idle /\ ended = {}
      /\ roots = [s \in Slots |-> Processes!FreeSlot]
  BY DEF Processes!ProcInit
<1>2. ProcTypes
  BY <1>1, NoneIsProcess, IdleIsCall, FreeIsRoot DEF ProcTypes
<1>3. Machine(live, clock)
  BY <1>1, NoneIsProcess DEF Machine
<1>4. Counted(live, clock)
  BY <1>1, RunningIsFinite, PartsAssumption DEF Counted
<1>5. \A s \in Slots : Table(roots[s], live, clock)
  BY <1>1, FreeIsRoot
<1>6. CallHolds
  BY <1>1, IdleIsCall, FreeIsRoot DEF CallHolds
<1>. QED
  BY <1>1, <1>2, <1>3, <1>4, <1>5, <1>6 DEF ProcInv

LEMMA ProcStays == ASSUME ProcInv, UNCHANGED processVars PROVE ProcInv'
<1>1. live' = live /\ clock' = clock /\ roots' = roots /\ call' = call /\ ended' = ended
  BY DEF processVars
<1>. QED
  BY <1>1 DEF ProcInv, ProcTypes, CallHolds

-----------------------------------------------------------------------------
(* A process is born, or ends                                              *)

\* What is true of the processes stays so when one is born.
LEMMA MachineBirth ==
  ASSUME ProcInv, NEW p \in Pids, ~Processes!Runs(p), NEW new \in Process, new.born = clock + 1, clock < MaxTime,
         new.parent \in Pids => live[new.parent].born # 0 /\ new.tree = live[new.parent].tree,
         NEW m, m = [live EXCEPT ![p] = new]
  PROVE  Machine(m, clock + 1) /\ Counted(m, clock + 1) /\ m \in [Pids -> Process]
<1>1. m[p] = new /\ (\A q \in Pids \ {p} : m[q] = live[q]) /\ live[p].born = 0 /\ m \in [Pids -> Process]
      /\ clock \in Nat /\ \A q \in Pids : live[q] \in Process /\ live[q].born <= clock
  BY RunsIsBorn DEF ProcInv, ProcTypes, Machine
<1>2. Machine(m, clock + 1)
  <2> SUFFICES ASSUME NEW q \in Pids
               PROVE  /\ m[q].born <= clock + 1 /\ (m[q].born = 0 <=> m[q] = Processes!None)
                      /\ \A r \in Pids : m[q].parent = r /\ m[q].born # 0 /\ m[r].born # 0 /\ m[r].born <= m[q].born
                            => m[q].tree = m[r].tree
    BY DEF Machine
  <2>1. m[q].born <= clock + 1 /\ (m[q].born = 0 <=> m[q] = Processes!None)
    <3>1. CASE q = p
      BY <1>1, <3>1, NoneIsProcess
    <3>2. CASE q # p
      BY <1>1, <3>2 DEF ProcInv, Machine, Process
    <3>. QED
      BY <3>1, <3>2
  <2>2. ASSUME NEW r \in Pids, m[q].parent = r, m[q].born # 0, m[r].born # 0, m[r].born <= m[q].born
        PROVE  m[q].tree = m[r].tree
    <3>1. CASE q = p
      <4>1. r # p
        BY <1>1, <2>2, <3>1
      <4>. QED
        BY <1>1, <2>2, <3>1, <4>1
    <3>2. CASE q # p
      <4>1. r # p
        BY <1>1, <2>2, <3>2 DEF Process
      <4>. QED
        BY <1>1, <2>2, <3>2, <4>1 DEF ProcInv, Machine
    <3>. QED
      BY <3>1, <3>2
  <2>. QED
    BY <2>1, <2>2
<1>3. Counted(m, clock + 1)
  BY <1>1, RunningIsFinite, PartsAssumption DEF Counted
<1>. QED
  BY <1>1, <1>2, <1>3

LEMMA EntryBirth ==
  ASSUME ProcInv, NEW p \in Pids, ~Processes!Runs(p), NEW new \in Process, new.born = clock + 1,
         new.parent \in Pids => live[new.parent].born # 0 /\ new.tree = live[new.parent].tree,
         NEW m, m = [live EXCEPT ![p] = new], NEW e \in SeenSet, NEW launch, Entry(e, launch, live, clock)
  PROVE  Entry(e, launch, m, clock + 1)
<1>1. m[p] = new /\ (\A q \in Pids \ {p} : m[q] = live[q]) /\ live[p].born = 0
      /\ clock \in Nat /\ e.pid \in Pids /\ e.born \in Nat /\ e.died \in Nat
  BY RunsIsBorn DEF ProcInv, ProcTypes, SeenSet
<1>2. e.born >= 1 /\ e.born <= clock /\ e.died <= clock /\ (e.died = 0 <=> live[e.pid].born = e.born)
      /\ (e.listed /\ live[e.pid].born = e.born => live[e.pid].tree = launch)
  BY DEF Entry
<1>3. (e.died = 0 <=> m[e.pid].born = e.born) /\ (e.listed /\ m[e.pid].born = e.born => m[e.pid].tree = launch)
  BY <1>1, <1>2
<1>4. ASSUME NEW q \in Pids, e.listed, m[q].parent = e.pid, m[q].born # 0, e.born <= m[q].born, e.died = 0 \/ m[q].born <= e.died
      PROVE  m[q].tree = launch
  <2>1. CASE q = p
    <3>1. e.died = 0
      BY <1>1, <1>2, <1>4, <2>1
    <3>. QED
      BY <1>1, <1>2, <1>4, <2>1, <3>1
  <2>2. CASE q # p
    BY <1>1, <1>4, <2>2 DEF Entry
  <2>. QED
    BY <2>1, <2>2
<1>. QED
  BY <1>1, <1>2, <1>3, <1>4 DEF Entry

\* ... and when one ends.
LEMMA MachineDeath ==
  ASSUME ProcInv, NEW p \in Pids, Processes!Runs(p), NEW m, m = [live EXCEPT ![p] = Processes!None]
  PROVE  Machine(m, clock + 1) /\ Counted(m, clock + 1) /\ m \in [Pids -> Process]
<1>1. m[p] = Processes!None /\ m[p].born = 0 /\ (\A q \in Pids \ {p} : m[q] = live[q]) /\ live[p].born # 0
      /\ m \in [Pids -> Process] /\ clock \in Nat /\ \A q \in Pids : live[q] \in Process /\ live[q].born <= clock
  BY RunsIsBorn, NoneIsProcess DEF ProcInv, ProcTypes, Machine
<1>2. Machine(m, clock + 1)
  BY <1>1 DEF ProcInv, Machine, Process
<1>3. Running(m) = Running(live) \ {p} /\ p \in Running(live)
  BY <1>1 DEF Running
<1>4. Cardinality(Running(m)) = Cardinality(Running(live)) - 1
  BY <1>3, RunningIsFinite, FS_RemoveElement
<1>5. Counted(m, clock + 1)
  BY <1>1, <1>4, RunningIsFinite, PartsAssumption DEF Counted, ProcInv
<1>. QED
  BY <1>1, <1>2, <1>5

\* The handle of p marks its exit in e.
Closed(e, p) == IF e.pid = p /\ e.born = live[p].born /\ e.died = 0 THEN [e EXCEPT !.died = clock + 1] ELSE e

LEMMA EntryDeath ==
  ASSUME ProcInv, NEW p \in Pids, Processes!Runs(p), NEW m, m = [live EXCEPT ![p] = Processes!None],
         NEW e \in SeenSet, NEW launch, Entry(e, launch, live, clock)
  PROVE  Closed(e, p) \in SeenSet /\ Closed(e, p).born = e.born /\ Closed(e, p).pid = e.pid /\ Entry(Closed(e, p), launch, m, clock + 1)
<1>1. m[p].born = 0 /\ (\A q \in Pids \ {p} : m[q] = live[q]) /\ live[p].born # 0
      /\ clock \in Nat /\ e.pid \in Pids /\ e.born \in Nat /\ e.died \in Nat
      /\ \A q \in Pids : live[q].born \in Nat /\ live[q].born <= clock
  BY RunsIsBorn, NoneIsProcess DEF ProcInv, ProcTypes, SeenSet, Machine, Process
<1>2. e.born >= 1 /\ e.born <= clock /\ e.died <= clock /\ (e.died = 0 <=> live[e.pid].born = e.born)
      /\ (e.listed /\ live[e.pid].born = e.born => live[e.pid].tree = launch)
  BY DEF Entry
<1>3. CASE e.pid = p /\ e.born = live[p].born /\ e.died = 0
  <2> DEFINE x == [e EXCEPT !.died = clock + 1]
  <2>1. Closed(e, p) = x
    BY <1>3 DEF Closed
  <2>2. x \in SeenSet /\ x.born = e.born /\ x.pid = e.pid /\ x.died = clock + 1 /\ x.listed = e.listed
    BY <1>1 DEF SeenSet
  <2>. HIDE DEF x
  <2>3. ASSUME NEW q \in Pids, x.listed, m[q].parent = x.pid, m[q].born # 0, x.born <= m[q].born
        PROVE  m[q].tree = launch
    BY <1>1, <1>3, <2>2, <2>3 DEF Entry
  <2>. QED
    BY <1>1, <1>2, <1>3, <2>1, <2>2, <2>3 DEF Entry
<1>4. CASE ~(e.pid = p /\ e.born = live[p].born /\ e.died = 0)
  <2>1. Closed(e, p) = e
    BY <1>4 DEF Closed
  <2>2. e.died = 0 <=> m[e.pid].born = e.born
    BY <1>1, <1>2, <1>4
  <2>3. e.listed /\ m[e.pid].born = e.born => m[e.pid].tree = launch
    BY <1>1, <1>2
  <2>4. ASSUME NEW q \in Pids, e.listed, m[q].parent = e.pid, m[q].born # 0, e.born <= m[q].born, e.died = 0 \/ m[q].born <= e.died
        PROVE  m[q].tree = launch
    BY <1>1, <2>4 DEF Entry
  <2>. QED
    BY <1>1, <1>2, <2>1, <2>2, <2>3, <2>4 DEF Entry
<1>. QED
  BY <1>3, <1>4

LEMMA SeenIs ==
  ASSUME ProcInv, NEW s \in Slots
  PROVE  /\ roots[s] \in Root /\ roots[s].seen \in Seq(SeenSet) /\ Len(roots[s].seen) \in Nat /\ Table(roots[s], live, clock)
         /\ DOMAIN roots[s].seen = 1..Len(roots[s].seen)
         /\ \A i \in 1..Len(roots[s].seen) : roots[s].seen[i] \in SeenSet /\ Entry(roots[s].seen[i], roots[s].seen[1].born, live, clock)
         /\ roots[s].seen = <<>> <=> Len(roots[s].seen) = 0
<1>1. roots[s] \in Root /\ roots[s].seen \in Seq(SeenSet) /\ Table(roots[s], live, clock)
  BY DEF ProcInv, ProcTypes, Root
<1>2. roots[s].seen = <<>> <=> Len(roots[s].seen) = 0
  BY <1>1, EmptySeq
<1>. QED
  BY <1>1, <1>2, LenProperties, ElementOfSeq DEF Table

LEMMA TablesAtBirth ==
  ASSUME ProcInv, NEW p \in Pids, ~Processes!Runs(p), NEW new \in Process, new.born = clock + 1,
         new.parent \in Pids => live[new.parent].born # 0 /\ new.tree = live[new.parent].tree,
         NEW m, m = [live EXCEPT ![p] = new]
  PROVE  \A s \in Slots : Table(roots[s], m, clock + 1)
<1> SUFFICES ASSUME NEW s \in Slots PROVE Table(roots[s], m, clock + 1)
  OBVIOUS
<1> DEFINE q == roots[s].seen
<1>1. \A i \in 1..Len(q) : Entry(q[i], q[1].born, m, clock + 1)
  BY SeenIs, EntryBirth
<1>. QED
  BY <1>1, SeenIs DEF Table

LEMMA TablesAtDeath ==
  ASSUME ProcInv, NEW p \in Pids, Processes!Runs(p), NEW m, m = [live EXCEPT ![p] = Processes!None]
  PROVE  /\ Processes!Marked(p) \in [Slots -> Root]
         /\ \A s \in Slots : /\ Table(Processes!Marked(p)[s], m, clock + 1)
                             /\ Processes!Marked(p)[s].pid = roots[s].pid
                             /\ Len(Processes!Marked(p)[s].seen) = Len(roots[s].seen)
<1> DEFINE marked(s) == [i \in DOMAIN roots[s].seen |-> Closed(roots[s].seen[i], p)]
<1>1. Processes!Marked(p) = [s \in Slots |-> [roots[s] EXCEPT !.seen = marked(s)]]
  BY DEF Processes!Marked, Closed, Processes!Now
<1>2. ASSUME NEW s \in Slots
      PROVE  /\ [roots[s] EXCEPT !.seen = marked(s)] \in Root /\ Table([roots[s] EXCEPT !.seen = marked(s)], m, clock + 1)
             /\ [roots[s] EXCEPT !.seen = marked(s)].pid = roots[s].pid
             /\ Len([roots[s] EXCEPT !.seen = marked(s)].seen) = Len(roots[s].seen)
  <2> DEFINE n == Len(roots[s].seen)
             f == [i \in 1..n |-> Closed(roots[s].seen[i], p)]
             q == [roots[s] EXCEPT !.seen = f]
  <2>1. marked(s) = f /\ n \in Nat
    BY SeenIs
  <2>2. \A i \in 1..n : /\ f[i] = Closed(roots[s].seen[i], p) /\ f[i] \in SeenSet
                        /\ f[i].born = roots[s].seen[i].born /\ f[i].pid = roots[s].seen[i].pid
                        /\ Entry(f[i], roots[s].seen[1].born, m, clock + 1)
    BY SeenIs, EntryDeath
  <2>3. f \in [1..n -> SeenSet]
    BY <2>2
  <2>4. f \in Seq(SeenSet) /\ Len(f) = n
    BY <2>1, <2>3, SeqDef, LenProperties
  <2>5. roots[s] \in Root /\ (n # 0 => roots[s].seen[1].pid = roots[s].pid) /\ n <= MaxSeen
    BY SeenIs DEF Table
  <2>6. f = <<>> <=> n = 0
    BY <2>4, EmptySeq
  <2>. HIDE DEF f, n
  <2>7. q \in Root /\ q.seen = f /\ q.pid = roots[s].pid
    BY <2>4, <2>5 DEF Root
  <2>8. n # 0 => 1 \in 1..n
    BY <2>1
  <2>. HIDE DEF q
  <2>9. n # 0 => f[1].born = roots[s].seen[1].born /\ f[1].pid = roots[s].seen[1].pid
    BY <2>2, <2>8
  <2>10. Table(q, m, clock + 1)
    <3>1. ASSUME NEW i \in 1..n PROVE Entry(f[i], f[1].born, m, clock + 1)
      <4>1. n # 0
        BY <2>1
      <4>2. f[1].born = roots[s].seen[1].born
        BY <2>9, <4>1
      <4>. QED
        BY <2>2, <4>2
    <3>. QED
      BY <2>4, <2>5, <2>6, <2>7, <2>9, <3>1 DEF Table
  <2>. QED
    BY <2>1, <2>4, <2>7, <2>10 DEF n, q
<1>. HIDE DEF marked
<1>. QED
  BY <1>1, <1>2

-----------------------------------------------------------------------------
(* The steps of the host and of the machine                                *)

LEMMA ProcSpawns == ASSUME ProcInv, Processes!Spawn PROVE ProcInv'
<1>1. PICK p \in Pids, parent \in Pids \cup {0}, client \in BOOLEAN :
        /\ ~Processes!Runs(p) /\ (parent # 0 => Processes!Runs(parent))
        /\ Processes!Born(p, [born |-> clock + 1, parent |-> parent, client |-> client,
                              tree |-> IF parent = 0 THEN 0 ELSE live[parent].tree])
  BY DEF Processes!Spawn, Processes!Now
<1> DEFINE tree == IF parent = 0 THEN 0 ELSE live[parent].tree
           new == [born |-> clock + 1, parent |-> parent, client |-> client, tree |-> tree]
<1>2. /\ UNCHANGED <<roots, call, ended>> /\ clock < MaxTime /\ clock \in Nat /\ 0 \notin Pids /\ MaxTime \in Nat
      /\ live' = [live EXCEPT ![p] = new] /\ clock' = clock + 1
  BY <1>1, PartsAssumption DEF Processes!Spawn, Processes!Born, Processes!Now, ProcInv, ProcTypes
<1>3. tree \in 0..MaxTime /\ (parent \in Pids => live[parent].born # 0 /\ tree = live[parent].tree)
  BY <1>1, <1>2, RunsIsBorn DEF Process
<1>. HIDE DEF tree
<1>4. new \in Process /\ new.born = clock + 1 /\ new.parent = parent /\ new.tree = tree
  BY <1>2, <1>3 DEF Process
<1>. HIDE DEF new
<1>5. Machine(live', clock') /\ Counted(live', clock') /\ live' \in [Pids -> Process]
  BY <1>1, <1>2, <1>3, <1>4, MachineBirth
<1>6. \A s \in Slots : Table(roots[s], live', clock')
  BY <1>1, <1>2, <1>3, <1>4, TablesAtBirth
<1>8. CallHolds'
  BY <1>2 DEF ProcInv, CallHolds
<1>9. ProcTypes'
  BY <1>2, <1>5 DEF ProcInv, ProcTypes
<1>10. (\A s \in Slots : Table(roots[s], live, clock))'
  BY <1>2, <1>6
<1>. QED
  BY <1>2, <1>5, <1>8, <1>9, <1>10 DEF ProcInv

\* A process ends while the host is anywhere.
LEMMA ProcEnds == ASSUME ProcInv, Processes!ProcessExits PROVE ProcInv'
<1>1. PICK p \in Pids : Processes!Runs(p) /\ Processes!Gone(p) /\ roots' = Processes!Marked(p)
  BY DEF Processes!ProcessExits
<1>2. UNCHANGED <<call, ended>> /\ live' = [live EXCEPT ![p] = Processes!None] /\ clock' = clock + 1 /\ clock \in Nat
  BY <1>1 DEF Processes!ProcessExits, Processes!Gone, Processes!Now, ProcInv, ProcTypes
<1>3. Machine(live', clock') /\ Counted(live', clock') /\ live' \in [Pids -> Process]
  BY <1>1, <1>2, MachineDeath
<1>4. /\ roots' \in [Slots -> Root]
      /\ \A s \in Slots : Table(roots'[s], live', clock') /\ roots'[s].pid = roots[s].pid /\ Len(roots'[s].seen) = Len(roots[s].seen)
  BY <1>1, <1>2, TablesAtDeath
<1>5. \A s \in Slots : roots'[s].seen = <<>> <=> roots[s].seen = <<>>
  BY <1>4, SeenIs, EmptySeq DEF Root
<1>7. CallHolds'
  BY <1>2, <1>4, <1>5 DEF ProcInv, CallHolds
<1>8. ProcTypes'
  BY <1>2, <1>3, <1>4 DEF ProcInv, ProcTypes
<1>9. (\A s \in Slots : Table(roots[s], live, clock))'
  BY <1>4
<1>. QED
  BY <1>2, <1>3, <1>7, <1>8, <1>9 DEF ProcInv

\* The host goes on with its call only.
LEMMA CallMoves ==
  ASSUME ProcInv, NEW k \in Call, call' = k, UNCHANGED <<live, clock, roots, ended>>,
         k.at # "" => k.slot \in Slots /\ k.name \in {"owner", "stop"},
         k.at = "scan" => k.left \subseteq k.nodes,
         call.name = "stop" /\ call.at = "scanned" => k = call
  PROVE  ProcInv'
  BY DEF ProcInv, ProcTypes, CallHolds

LEMMA ProcChecks == ASSUME ProcInv, Processes!LaunchCheck PROVE ProcInv'
<1> DEFINE k == [Processes!Idle EXCEPT !.name = "launch"]
<1>1. call = Processes!Idle /\ call' = k /\ UNCHANGED <<live, clock, roots, ended>>
  BY DEF Processes!LaunchCheck
<1>2. k \in Call /\ k.at = ""
  BY DEF Processes!Idle, Call
<1>. HIDE DEF k
<1>. QED
  BY <1>1, <1>2, IdleIsCall, CallMoves

LEMMA ProcBegins == ASSUME ProcInv, Processes!OwnerBegin \/ Processes!StopBegin PROVE ProcInv'
<1>1. PICK name \in {"owner", "stop"}, s \in Slots, found \in Pids \cup {0} :
        /\ Processes!Begin(name, s, found) /\ call = Processes!Idle /\ UNCHANGED <<live, clock, roots, ended>>
  BY DEF Processes!OwnerBegin, Processes!StopBegin
<1> DEFINE k == [Processes!Idle EXCEPT !.name = name, !.slot = s, !.at = "scan", !.nodes = Processes!Snapshot,
                                       !.left = Processes!Snapshot, !.found = found]
<1>2. Processes!Snapshot \subseteq Node
  BY RunsIsBorn DEF Processes!Snapshot, Node, Process
<1>3. k \in Call /\ k.at = "scan" /\ k.slot = s /\ k.name = name /\ k.nodes = Processes!Snapshot /\ k.left = Processes!Snapshot
  BY <1>2 DEF Processes!Idle, Call
<1>4. call' = k
  BY <1>1 DEF Processes!Begin
<1>. HIDE DEF k
<1>. QED
  BY <1>1, <1>2, <1>3, <1>4, IdleIsCall, CallMoves

LEMMA ProcPasses == ASSUME ProcInv, Processes!Pass \/ Processes!OwnerEnd PROVE ProcInv'
<1>1. call \in Call /\ UNCHANGED <<live, clock, roots, ended>>
  BY DEF Processes!Pass, Processes!OwnerEnd, ProcInv, ProcTypes
<1>2. CASE Processes!OwnerEnd
  BY <1>1, <1>2, IdleIsCall, CallMoves DEF Processes!OwnerEnd
<1>3. CASE Processes!Pass
  <2>1. call.at = "scan" /\ call.slot \in Slots /\ call.name \in {"owner", "stop"}
    BY <1>3 DEF Processes!Pass, ProcInv, CallHolds
  <2>2. CASE call' = [call EXCEPT !.left = call.nodes, !.changed = FALSE]
    <3> DEFINE k == [call EXCEPT !.left = call.nodes, !.changed = FALSE]
    <3>1. k \in Call /\ k.at = "scan" /\ k.slot = call.slot /\ k.name = call.name /\ k.left = k.nodes /\ k.nodes = call.nodes
      BY <1>1, <2>1 DEF Call
    <3>. HIDE DEF k
    <3>. QED
      BY <1>1, <2>1, <2>2, <3>1, CallMoves DEF k
  <2>3. CASE call' = [call EXCEPT !.at = "scanned", !.nodes = {}]
    <3> DEFINE k == [call EXCEPT !.at = "scanned", !.nodes = {}]
    <3>1. k \in Call /\ k.at = "scanned" /\ k.slot = call.slot /\ k.name = call.name
      BY <1>1, <2>1 DEF Call
    <3>. HIDE DEF k
    <3>. QED
      BY <1>1, <2>1, <2>3, <3>1, CallMoves DEF k
  <2>. QED
    BY <1>3, <2>2, <2>3 DEF Processes!Pass
<1>. QED
  BY <1>2, <1>3

LEMMA LaunchedEntry ==
  ASSUME ProcInv, NEW p \in Pids, NEW new \in Process, new.born = clock + 1, new.parent = 0, new.tree = clock + 1,
         NEW m, m = [live EXCEPT ![p] = new], NEW q, q = [pid |-> p, seen |-> <<[pid |-> p, born |-> clock + 1, died |-> 0, listed |-> TRUE]>>]
  PROVE  q \in Root /\ q.pid = p /\ q.seen # <<>> /\ Table(q, m, clock + 1)
<1> DEFINE e == [pid |-> p, born |-> clock + 1, died |-> 0, listed |-> TRUE]
<1>1. clock \in Nat /\ 0 \notin Pids /\ m[p] = new /\ \A r \in Pids \ {p} : m[r] = live[r] /\ live[r].born <= clock /\ live[r].born \in Nat
  BY PartsAssumption, RunsIsBorn DEF ProcInv, ProcTypes, Machine, Process
<1>2. e \in SeenSet /\ e.pid = p /\ e.born = clock + 1 /\ e.died = 0
  BY <1>1 DEF SeenSet
<1>3. Entry(e, clock + 1, m, clock + 1)
  <2>1. ASSUME NEW r \in Pids, m[r].parent = p, clock + 1 <= m[r].born PROVE FALSE
    BY <1>1, <2>1
  <2>. QED
    BY <1>1, <1>2, <2>1 DEF Entry
<1> HIDE DEF e
<1>4. q.pid = p /\ q.seen = <<e>> /\ q.seen \in Seq(SeenSet) /\ Len(q.seen) = 1 /\ q.seen[1] = e /\ q.seen # <<>>
  <2>1. q.pid = p /\ q.seen = <<e>>
    BY DEF e
  <2>2. ASSUME NEW x \in SeenSet, NEW s, s = <<x>>
        PROVE  s \in Seq(SeenSet) /\ Len(s) = 1 /\ s[1] = x /\ s # <<>>
    BY <2>2
  <2>. QED
    BY <1>2, <2>1, <2>2, ZenonT(60)
<1>5. q \in Root
  BY <1>4 DEF Root
<1>6. \A i \in 1..Len(q.seen) : Entry(q.seen[i], q.seen[1].born, m, clock + 1)
  BY <1>2, <1>3, <1>4
<1>7. Len(q.seen) <= MaxSeen
  BY <1>4, PartsAssumption
<1>8. q.seen[1].pid = q.pid
  BY <1>2, <1>4
<1>. QED
  BY <1>4, <1>5, <1>6, <1>7, <1>8 DEF Table

LEMMA ProcLaunches == ASSUME ProcInv, Processes!LaunchCreate PROVE ProcInv'
<1>1. call.name = "launch" /\ call' = Processes!Idle /\ ended' = ended
  BY DEF Processes!LaunchCreate
<1>2. \A s \in Slots : ~(roots[s].pid # 0 /\ roots[s].seen = <<>>)
  BY <1>1 DEF ProcInv, CallHolds
<1>3. CASE UNCHANGED <<live, clock, roots>>
  BY <1>1, <1>3, IdleIsCall, CallMoves
<1>4. ASSUME NEW s \in Slots, NEW p \in Pids, clock < MaxTime, ~Processes!Runs(p),
             Processes!Born(p, [born |-> clock + 1, parent |-> 0, tree |-> clock + 1, client |-> TRUE]),
             roots' = [roots EXCEPT ![s] = [pid |-> p, seen |-> <<[pid |-> p, born |-> clock + 1, died |-> 0, listed |-> TRUE]>>]]
      PROVE  ProcInv'
  <2> DEFINE new == [born |-> clock + 1, parent |-> 0, tree |-> clock + 1, client |-> TRUE]
             q == [pid |-> p, seen |-> <<[pid |-> p, born |-> clock + 1, died |-> 0, listed |-> TRUE]>>]
  <2>1. clock \in Nat /\ MaxTime \in Nat /\ 0 \notin Pids /\ live' = [live EXCEPT ![p] = new] /\ clock' = clock + 1
    BY <1>4, PartsAssumption DEF Processes!Born, Processes!Now, ProcInv, ProcTypes
  <2>2. new \in Process /\ new.born = clock + 1 /\ new.parent = 0 /\ new.tree = clock + 1
    BY <1>4, <2>1 DEF Process
  <2>3. roots' = [roots EXCEPT ![s] = q]
    BY <1>4
  <2>. HIDE DEF new
  <2>4. q \in Root /\ q.pid = p /\ q.seen # <<>> /\ Table(q, live', clock')
    BY <2>1, <2>2, LaunchedEntry
  <2>. HIDE DEF q
  <2>5. Machine(live', clock') /\ Counted(live', clock') /\ live' \in [Pids -> Process]
    BY <1>4, <2>1, <2>2, MachineBirth
  <2>6. \A r \in Slots : Table(roots[r], live', clock')
    BY <1>4, <2>1, <2>2, TablesAtBirth
  <2>7. roots' \in [Slots -> Root] /\ roots'[s] = q /\ \A r \in Slots \ {s} : roots'[r] = roots[r]
    BY <2>3, <2>4 DEF ProcInv, ProcTypes
  <2>8. ProcTypes'
    <3>1. call' \in Call
      BY <1>1, IdleIsCall
    <3>2. clock' \in Nat
      BY <2>1
    <3>. QED
      BY <2>5, <2>7, <3>1, <3>2 DEF ProcTypes
  <2>9. (\A r \in Slots : Table(roots[r], live, clock))'
    BY <2>4, <2>6, <2>7
  <2>10. CallHolds'
    BY <1>1, <1>2, <2>4, <2>7, IdleIsCall DEF CallHolds
  <2>. QED
    BY <1>1, <2>5, <2>8, <2>9, <2>10 DEF ProcInv
<1>. QED
  BY <1>3, <1>4 DEF Processes!LaunchCreate, Processes!Seen, Processes!Now

\* A child of a process of the table is of the same launch, and so are its own
\* children, if it is the child of the list.
LEMMA AdoptedEntry ==
  ASSUME ProcInv, NEW s \in Slots, NEW n, n.pid \in Pids, Processes!Runs(n.pid),
         Processes!ParentOwned(s, n.parent, live[n.pid].born)
  PROVE  /\ [pid |-> n.pid, born |-> live[n.pid].born, died |-> 0, listed |-> Processes!IsListed(s, n)] \in SeenSet
         /\ Len(roots[s].seen) # 0
         /\ Entry([pid |-> n.pid, born |-> live[n.pid].born, died |-> 0, listed |-> Processes!IsListed(s, n)],
                  roots[s].seen[1].born, live, clock)
<1> DEFINE p == n.pid
           listed == Processes!IsListed(s, n)
           e == [pid |-> p, born |-> live[p].born, died |-> 0, listed |-> listed]
<1>1. PICK i \in Processes!Owners(s, n.parent, live[p].born) :
        /\ i \in DOMAIN roots[s].seen /\ roots[s].seen[i].pid = n.parent /\ live[p].born >= roots[s].seen[i].born
        /\ (roots[s].seen[i].died = 0 \/ live[p].born <= roots[s].seen[i].died)
  BY DEF Processes!ParentOwned, Processes!Owners
<1>2. live[p].born # 0 /\ live[p].born \in Nat /\ live[p].born <= clock /\ clock \in Nat
  BY RunsIsBorn DEF Process, ProcInv, ProcTypes, Machine
<1>3. i \in 1..Len(roots[s].seen) /\ Len(roots[s].seen) \in Nat /\ roots[s].seen[i] \in SeenSet
      /\ Entry(roots[s].seen[i], roots[s].seen[1].born, live, clock)
  BY <1>1, SeenIs
<1>4. listed \in BOOLEAN /\ (listed => live[p].parent = n.parent /\ roots[s].seen[i].listed)
  BY <1>1 DEF Processes!IsListed
<1>. HIDE DEF listed
<1>5. listed => live[p].tree = roots[s].seen[1].born
  BY <1>1, <1>2, <1>3, <1>4 DEF Entry, SeenSet
<1>6. e \in SeenSet /\ e.pid = p /\ e.born = live[p].born /\ e.died = 0 /\ e.listed = listed
  BY <1>2, <1>4 DEF SeenSet
<1>. HIDE DEF e
<1>7. ASSUME NEW q \in Pids, listed, live[q].parent = p, live[q].born # 0, live[p].born <= live[q].born
      PROVE  live[q].tree = roots[s].seen[1].born
  BY <1>2, <1>5, <1>7 DEF ProcInv, Machine
<1>8. Entry(e, roots[s].seen[1].born, live, clock)
  BY <1>2, <1>5, <1>6, <1>7 DEF Entry
<1>. QED
  BY <1>3, <1>6, <1>8 DEF e, listed

LEMMA ProcAdopts ==
  ASSUME ProcInv, call.at = "scan", NEW n \in call.left,
         Processes!Runs(n.pid), Processes!ParentOwned(call.slot, n.parent, live[n.pid].born), Len(roots[call.slot].seen) # MaxSeen,
         call' = [call EXCEPT !.left = call.left \ {n}, !.changed = TRUE], UNCHANGED <<live, clock, ended>>,
         roots' = [roots EXCEPT ![call.slot].seen = Append(roots[call.slot].seen,
                    Processes!Seen(n.pid, live[n.pid].born, Processes!IsListed(call.slot, n)))]
  PROVE  ProcInv'
<1> DEFINE s == call.slot
           e == [pid |-> n.pid, born |-> live[n.pid].born, died |-> 0, listed |-> Processes!IsListed(s, n)]
           f == Append(roots[s].seen, e)
           q == [roots[s] EXCEPT !.seen = f]
           k == [call EXCEPT !.left = call.left \ {n}, !.changed = TRUE]
<1>1. /\ s \in Slots /\ call \in Call /\ call.name \in {"owner", "stop"} /\ call.left \subseteq call.nodes
      /\ n.pid \in Pids /\ n \in call.nodes
  BY DEF ProcInv, ProcTypes, CallHolds, Call, Node
<1>3. e \in SeenSet /\ Len(roots[s].seen) # 0 /\ Entry(e, roots[s].seen[1].born, live, clock)
  BY <1>1, AdoptedEntry
<1>4. roots' = [roots EXCEPT ![s] = q]
  BY <1>1 DEF Processes!Seen, ProcInv, ProcTypes
<1>. HIDE DEF e, s
<1>5. /\ f \in Seq(SeenSet) /\ Len(f) = Len(roots[s].seen) + 1 /\ f[Len(f)] = e
      /\ \A i \in 1..Len(roots[s].seen) : f[i] = roots[s].seen[i]
  BY <1>1, <1>3, SeenIs, AppendProperties
<1>6. roots[s] \in Root /\ Len(roots[s].seen) \in Nat /\ Len(roots[s].seen) <= MaxSeen /\ roots[s].seen[1].pid = roots[s].pid
  BY <1>1, <1>3, SeenIs DEF Table
<1>7. f # <<>>
  BY <1>5, <1>6, EmptySeq
<1>. HIDE DEF f
<1>8. q \in Root /\ q.seen = f /\ q.pid = roots[s].pid
  BY <1>5, <1>6 DEF Root
<1>. HIDE DEF q
<1>9. f[1] = roots[s].seen[1]
  BY <1>3, <1>5, <1>6
<1>10. ASSUME NEW i \in 1..Len(f) PROVE Entry(f[i], f[1].born, live, clock)
  <2>1. CASE i = Len(f)
    BY <1>3, <1>5, <1>9, <2>1
  <2>2. CASE i # Len(f)
    <3>1. i \in 1..Len(roots[s].seen)
      BY <1>5, <1>6, <2>2
    <3>2. Entry(roots[s].seen[i], roots[s].seen[1].born, live, clock)
      BY <1>1, <3>1, SeenIs
    <3>. QED
      BY <1>5, <1>9, <3>1, <3>2
  <2>. QED
    BY <2>1, <2>2
<1>11. Table(q, live, clock)
  <2>1. MaxSeen \in Nat /\ Len(roots[s].seen) # MaxSeen
    BY PartsAssumption DEF s
  <2>2. Len(f) <= MaxSeen
    BY <1>5, <1>6, <2>1
  <2>. QED
    BY <1>6, <1>8, <1>9, <1>10, <2>2 DEF Table
<1>12. k \in Call /\ k.at = "scan" /\ k.slot = s /\ k.name = call.name /\ k.left \subseteq k.nodes /\ k.nodes = call.nodes
  BY <1>1 DEF Call, s
<1>13. call' = k
  OBVIOUS
<1>. HIDE DEF k
<1>14. roots' \in [Slots -> Root] /\ roots'[s] = q /\ \A r \in Slots \ {s} : roots'[r] = roots[r]
  BY <1>1, <1>4, <1>8 DEF ProcInv, ProcTypes
<1>15. ProcTypes'
  BY <1>12, <1>13, <1>14 DEF ProcInv, ProcTypes
<1>16. (\A r \in Slots : Table(roots[r], live, clock))'
  BY <1>11, <1>14 DEF ProcInv
<1>17. CallHolds'
  BY ZenonT(60), <1>1, <1>7, <1>8, <1>12, <1>13, <1>14 DEF ProcInv, CallHolds
<1>. QED
  BY <1>15, <1>16, <1>17 DEF ProcInv

LEMMA ProcVisits == ASSUME ProcInv, Processes!Visit PROVE ProcInv'
<1>1. call.at = "scan" /\ UNCHANGED <<live, clock, ended>>
  BY DEF Processes!Visit
<1>2. /\ call.slot \in Slots /\ call \in Call /\ call.name \in {"owner", "stop"}
      /\ call.left \subseteq call.nodes
  BY <1>1 DEF ProcInv, ProcTypes, CallHolds
<1>3. PICK n \in call.left :
        \/ UNCHANGED roots /\ call' = [call EXCEPT !.left = call.left \ {n}]
        \/ /\ Processes!Runs(n.pid) /\ Processes!ParentOwned(call.slot, n.parent, live[n.pid].born)
           /\ Len(roots[call.slot].seen) # MaxSeen
           /\ call' = [call EXCEPT !.left = call.left \ {n}, !.changed = TRUE]
           /\ roots' = [roots EXCEPT ![call.slot].seen = Append(roots[call.slot].seen,
                    Processes!Seen(n.pid, live[n.pid].born, Processes!IsListed(call.slot, n)))]
        \/ /\ UNCHANGED roots
           /\ call' \in {Processes!Idle, [call EXCEPT !.at = "scanned", !.nodes = {}, !.left = {}, !.changed = FALSE]}
  BY <1>1, <1>2 DEF Processes!Visit, Call
<1>4. CASE UNCHANGED roots /\ call' = [call EXCEPT !.left = call.left \ {n}]
  <2> DEFINE k == [call EXCEPT !.left = call.left \ {n}]
  <2>1. k \in Call /\ k.at = "scan" /\ k.slot = call.slot /\ k.name = call.name /\ k.left \subseteq k.nodes /\ k.nodes = call.nodes
    BY <1>1, <1>2 DEF Call
  <2>. HIDE DEF k
  <2>. QED
    BY <1>1, <1>2, <1>4, <2>1, CallMoves DEF k
<1>5. CASE UNCHANGED roots /\ call' = [call EXCEPT !.at = "scanned", !.nodes = {}, !.left = {}, !.changed = FALSE]
  <2> DEFINE k == [call EXCEPT !.at = "scanned", !.nodes = {}, !.left = {}, !.changed = FALSE]
  <2>1. k \in Call /\ k.at = "scanned" /\ k.slot = call.slot /\ k.name = call.name
    BY <1>1, <1>2 DEF Call
  <2>. HIDE DEF k
  <2>. QED
    BY <1>1, <1>2, <1>5, <2>1, CallMoves DEF k
<1>6. CASE UNCHANGED roots /\ call' = Processes!Idle
  BY <1>1, <1>6, IdleIsCall, CallMoves
<1>. QED
  BY <1>1, <1>3, <1>4, <1>5, <1>6, ProcAdopts

\* A table without its last process is as true.
LEMMA FrontTable ==
  ASSUME NEW q \in Root, NEW m, NEW t, Table(q, m, t), q.seen # <<>>
  PROVE  [q EXCEPT !.seen = Processes!Front(q.seen)] \in Root /\ Table([q EXCEPT !.seen = Processes!Front(q.seen)], m, t)
<1> DEFINE n == Len(q.seen) - 1
           f == SubSeq(q.seen, 1, n)
           r == [q EXCEPT !.seen = f]
<1>1. Processes!Front(q.seen) = f
  BY DEF Processes!Front
<1>2. q.seen \in Seq(SeenSet) /\ Len(q.seen) \in Nat /\ Len(q.seen) # 0
  BY EmptySeq DEF Root
<1>3. n \in Nat /\ Len(q.seen) = n + 1 /\ \A i \in 1..n : q.seen[i] \in SeenSet
  BY <1>2, ElementOfSeq
<1>4. f \in Seq(SeenSet) /\ Len(f) = n /\ \A i \in 1..n : f[i] = q.seen[i]
  <2>1. /\ f \in Seq(SeenSet) /\ Len(f) = (IF 1 <= n THEN n - 1 + 1 ELSE 0)
        /\ \A i \in 1..(n - 1 + 1) : f[i] = q.seen[1 + i - 1]
    BY <1>3, SubSeqProperties
  <2>. QED
    BY <1>3, <2>1
<1>. HIDE DEF f, n
<1>5. r \in Root /\ r.seen = f /\ r.pid = q.pid
  BY <1>4 DEF Root
<1>6. f = <<>> <=> n = 0
  BY <1>4, EmptySeq
<1>. HIDE DEF r
<1>7. n # 0 => f[1] = q.seen[1]
  BY <1>3, <1>4
<1>8. ASSUME NEW i \in 1..n PROVE Entry(f[i], f[1].born, m, t)
  <2>1. n # 0 /\ i \in 1..Len(q.seen)
    BY <1>3
  <2>. QED
    BY <1>4, <1>7, <2>1 DEF Table
<1>9. n <= MaxSeen /\ (n # 0 => f[1].pid = q.pid)
  BY SMTT(30), <1>2, <1>3, <1>7, PartsAssumption DEF Table
<1>10. Table(r, m, t)
  BY <1>4, <1>5, <1>6, <1>8, <1>9 DEF Table
<1>. QED
  BY <1>1, <1>5, <1>10 DEF r

\* The last process of the table is ended if it is the one that was seen, and leaves the table.
LEMMA ProcStops == ASSUME ProcInv, Processes!StopOne PROVE ProcInv'
<1> DEFINE s == call.slot
           e == roots[s].seen[Len(roots[s].seen)]
<1>1. call.name = "stop" /\ call.at = "scanned" /\ s \in Slots /\ call \in Call
  BY DEF Processes!StopOne, ProcInv, ProcTypes, CallHolds
<1>2. CASE roots[s].seen = <<>>
  <2>1. roots' = [roots EXCEPT ![s] = Processes!FreeSlot] /\ call' = Processes!Idle /\ UNCHANGED <<live, clock, ended>>
    BY <1>2 DEF Processes!StopOne
  <2>. HIDE DEF s
  <2>2. roots' \in [Slots -> Root] /\ roots'[s] = Processes!FreeSlot /\ \A r \in Slots \ {s} : roots'[r] = roots[r]
    BY <1>1, <2>1, FreeIsRoot DEF ProcInv, ProcTypes
  <2>3. ProcTypes'
    BY <2>1, <2>2, IdleIsCall DEF ProcInv, ProcTypes
  <2>4. (\A r \in Slots : Table(roots[r], live, clock))'
    BY <1>1, <2>1, <2>2, FreeIsRoot DEF ProcInv
  <2>5. \A r \in Slots \ {s} : ~(roots[r].pid # 0 /\ roots[r].seen = <<>>)
    BY DEF ProcInv, CallHolds, s
  <2>6. CallHolds'
    BY <2>1, <2>2, <2>5, IdleIsCall, FreeIsRoot DEF CallHolds
  <2>. QED
    BY <2>1, <2>3, <2>4, <2>6 DEF ProcInv
<1>3. CASE roots[s].seen # <<>> /\ ~(Processes!Runs(e.pid) /\ Processes!Same(e.pid, e))
  <2> DEFINE q == [roots[s] EXCEPT !.seen = Processes!Front(roots[s].seen)]
  <2>1. roots' = [roots EXCEPT ![s] = q] /\ call' = call /\ UNCHANGED <<live, clock, ended>>
    BY <1>1, <1>3 DEF Processes!StopOne, ProcInv, ProcTypes
  <2>. HIDE DEF s
  <2>2. q \in Root /\ Table(q, live, clock)
    BY <1>1, <1>3, SeenIs, FrontTable
  <2>. HIDE DEF q
  <2>3. roots' \in [Slots -> Root] /\ roots'[s] = q /\ \A r \in Slots \ {s} : roots'[r] = roots[r]
    BY <1>1, <2>1, <2>2 DEF ProcInv, ProcTypes
  <2>4. ProcTypes'
    BY <2>1, <2>3 DEF ProcInv, ProcTypes
  <2>5. (\A r \in Slots : Table(roots[r], live, clock))'
    BY <2>1, <2>2, <2>3 DEF ProcInv
  <2>6. CallHolds'
    BY <1>1, <2>1, <2>3 DEF ProcInv, CallHolds, s
  <2>. QED
    BY <2>1, <2>4, <2>5, <2>6 DEF ProcInv
<1>4. CASE roots[s].seen # <<>> /\ Processes!Runs(e.pid) /\ Processes!Same(e.pid, e)
  <2> DEFINE marked == Processes!Marked(e.pid)
             q == [marked[s] EXCEPT !.seen = Processes!Front(marked[s].seen)]
  <2>1. /\ Processes!Gone(e.pid) /\ call' = call /\ roots' = [marked EXCEPT ![s].seen = Processes!Front(@)]
        /\ ended' = ended \cup {[tree |-> live[e.pid].tree, launch |-> roots[s].seen[1].born, listed |-> e.listed]}
    BY <1>4 DEF Processes!StopOne
  <2>2. Len(roots[s].seen) \in 1..Len(roots[s].seen)
    BY <1>1, <1>4, SeenIs
  <2>3. e.pid \in Pids /\ (e.listed => live[e.pid].tree = roots[s].seen[1].born)
    BY <1>1, <1>4, <2>2, SeenIs DEF Entry, SeenSet, Processes!Same
  <2>. HIDE DEF s, e
  <2>4. live' = [live EXCEPT ![e.pid] = Processes!None] /\ clock' = clock + 1 /\ clock \in Nat
    BY <2>1 DEF Processes!Gone, Processes!Now, ProcInv, ProcTypes
  <2>5. Machine(live', clock') /\ Counted(live', clock') /\ live' \in [Pids -> Process]
    BY <1>4, <2>3, <2>4, MachineDeath
  <2>6. marked \in [Slots -> Root] /\ \A r \in Slots :
          Table(marked[r], live', clock') /\ marked[r].pid = roots[r].pid /\ Len(marked[r].seen) = Len(roots[r].seen)
    BY <1>4, <2>3, <2>4, TablesAtDeath
  <2>. HIDE DEF marked
  <2>7. \A r \in Slots : marked[r].seen = <<>> <=> roots[r].seen = <<>>
    BY <2>6, SeenIs, EmptySeq DEF Root
  <2>8. roots' = [marked EXCEPT ![s] = q]
    BY <1>1, <2>1, <2>6
  <2>9. q \in Root /\ Table(q, live', clock')
    BY <1>1, <1>4, <2>6, <2>7, FrontTable
  <2>. HIDE DEF q
  <2>10. roots' \in [Slots -> Root] /\ roots'[s] = q /\ \A r \in Slots \ {s} : roots'[r] = marked[r]
    BY <1>1, <2>6, <2>8, <2>9
  <2>11. ProcTypes'
    <3>1. clock' \in Nat /\ call' \in Call
      BY <1>1, <2>1, <2>4
    <3>. QED
      BY <2>5, <2>10, <3>1 DEF ProcTypes
  <2>12. (\A r \in Slots : Table(roots[r], live, clock))'
    BY <2>6, <2>9, <2>10
  <2>13. CallHolds'
    BY <1>1, <2>1, <2>6, <2>7, <2>10 DEF ProcInv, CallHolds, s
  <2>14. (\A x \in ended : x.listed => x.tree = x.launch)'
    BY <2>1, <2>3 DEF ProcInv
  <2>. QED
    BY <2>5, <2>11, <2>12, <2>13, <2>14 DEF ProcInv
<1>. QED
  BY <1>2, <1>3, <1>4

LEMMA ProcStep == ASSUME ProcInv, Processes!ProcNext PROVE ProcInv'
  BY ProcSpawns, ProcEnds, ProcChecks, ProcLaunches, ProcBegins, ProcVisits, ProcPasses, ProcStops DEF Processes!ProcNext

\* The module counts as this one does.
LEMMA SameCount == ASSUME NEW S PROVE Processes!Cardinality(S) = Cardinality(S) /\ Search!Cardinality(S) = Cardinality(S)
  BY DEF Processes!Cardinality, Search!Cardinality, Cardinality

\* An entry of the table of launches knows when its process ends, and what is
\* about to be ended belongs to the launch if the list meant it (p_refresh).
THEOREM PartsProcesses == Spec => [](part = "processes" => ProcInv)
<1>1. Init => (part = "processes" => ProcInv)
  BY ProcInit DEF Init
<1>2. (part = "processes" => ProcInv) /\ [Next]_vars => (part = "processes" => ProcInv)'
  BY PartsMove, ProcStep, ProcStays
<1>. QED
  BY <1>1, <1>2, PTL DEF Spec

\* process.c: only descendants of a launch are ended for it and a verified listener
\* descends from it, but for what took a number within the scan that adopted it; and
\* a client is alive when the one that was launched is; for any processes and tables.
THEOREM PartsOwnProcesses == Spec => []OwnProcesses
<1>1. ASSUME ProcInv PROVE Processes!ProcTypeOK
  <2>1. clock \in 0..(MaxTime + Cardinality(Pids))
    BY <1>1, RunningIsFinite, PartsAssumption DEF ProcInv, ProcTypes, Counted
  <2>2. \A s \in Slots : roots[s].pid \in Pids \cup {0} /\ Len(roots[s].seen) <= MaxSeen
                        /\ (roots[s].seen # <<>> => roots[s].seen[1].pid = roots[s].pid)
    BY <1>1 DEF ProcInv, ProcTypes, Root, Table
  <2>3. live \in [Pids -> Process] /\ call.name \in {"idle", "launch", "owner", "stop"}
    BY <1>1 DEF ProcInv, ProcTypes, Call
  <2>. QED
    BY <2>1, <2>2, <2>3, SameCount DEF Process, Processes!ProcTypeOK
<1>2. ASSUME ProcInv PROVE Processes!EndsOnlyDescendants
  BY <1>2 DEF ProcInv, Processes!EndsOnlyDescendants
<1>3. ASSUME ProcInv PROVE Processes!VerifiedDescends
  <2> SUFFICES ASSUME call.name = "owner", call.at = "scanned",
                      NEW i \in Processes!Entries(call.slot, call.found, live[call.found].born), roots[call.slot].seen[i].listed
               PROVE  live[call.found].tree = roots[call.slot].seen[1].born
    BY DEF Processes!VerifiedDescends
  <2>1. call.slot \in Slots
    BY <1>3 DEF ProcInv, CallHolds
  <2>2. /\ i \in DOMAIN roots[call.slot].seen
        /\ roots[call.slot].seen[i].pid = call.found /\ roots[call.slot].seen[i].born = live[call.found].born
    BY DEF Processes!Entries
  <2>. QED
    BY SMTT(30), <1>3, <2>1, <2>2, SeenIs DEF Entry
<1>4. ASSUME ProcInv PROVE Processes!AliveIsTheClient
  <2> SUFFICES ASSUME NEW s \in Slots, roots[s].pid # 0, call.name # "stop"
               PROVE  roots[s].seen[1].died = 0 <=> live[roots[s].pid].born = roots[s].seen[1].born
    BY DEF Processes!AliveIsTheClient, Processes!Alive
  <2>1. roots[s].seen # <<>>
    BY <1>4 DEF ProcInv, CallHolds
  <2>2. 1 \in 1..Len(roots[s].seen) /\ roots[s].seen[1].pid = roots[s].pid
    BY <1>4, <2>1, SeenIs DEF Table
  <2>. QED
    BY <1>4, <2>2, SeenIs DEF Entry
<1>. QED
  BY <1>1, <1>2, <1>3, <1>4, PartsProcesses, PTL DEF OwnProcesses

-----------------------------------------------------------------------------
(* The search for clients (Discovery)                                      *)

Client == [machine : {"none", "x86", "x64"}, stamp : 0..MaxChanges]
Lists(S) == UNION {[P -> S] : P \in SUBSET Search!Places}
Scan ==
    [at : {"idle", "common", "full", "done"}, mode : {"common", "fallback", "all"}, enumerateAll : BOOLEAN, cached : BOOLEAN,
     cancellable : BOOLEAN, i : Nat, complete : BOOLEAN, stopOnX86 : BOOLEAN, stopped : BOOLEAN]
Result ==
    [found : Lists({"x86", "x64"}), commonScanned : BOOLEAN, fallbackScanned : BOOLEAN, stoppedOnX86 : BOOLEAN,
     truncated : BOOLEAN, cacheHit : BOOLEAN, cancelled : BOOLEAN]
Cache == [found : Lists(Client), fresh : BOOLEAN]
Few(S) == IsFiniteSet(S) /\ Cardinality(S) <= MaxFound

SearchTypes ==
    /\ disk \in [Search!Places -> Client] /\ locked \subseteq touched /\ changes \in 0..MaxChanges
    /\ scan \in Scan /\ result \in Result /\ scanCache \in Cache
    /\ Few(DOMAIN result.found) /\ Few(DOMAIN scanCache.found)

Walked(r) == IF r.fallbackScanned THEN FullOrder ELSE CommonOrder

\* Where the search sc with its result r is: what has stopped it is in the result.
SearchIs(sc, r) ==
    /\ sc.i \in 1..(Len(Walked(r)) + 1)
    /\ sc.at = "idle" => ~r.cacheHit /\ sc.i = 1
    /\ sc.at = "common" => /\ ~r.fallbackScanned /\ ~r.cacheHit /\ ~r.cancelled /\ ~r.stoppedOnX86
                           /\ ~sc.stopOnX86 /\ ~sc.stopped /\ ~sc.cancellable
    /\ sc.at = "full" => r.fallbackScanned /\ ~r.cacheHit /\ (sc.stopped => r.cancelled \/ r.stoppedOnX86)
    /\ sc.at = "done" /\ ~r.cacheHit => /\ sc.i = Len(Walked(r)) + 1 \/ r.cancelled \/ r.stoppedOnX86
                                        /\ sc.mode # "common" /\ DOMAIN r.found = {} => r.fallbackScanned

\* The clients of the directories that the search walked are listed.
Covers(sc, r) ==
    ~r.cacheHit /\ sc.complete /\ ~r.truncated =>
        \A j \in 1..(sc.i - 1) :
            Walked(r)[j] \notin touched /\ Search!Runs(disk[Walked(r)[j]].machine) => Walked(r)[j] \in DOMAIN r.found

\* What is listed is true.
Honest(found) ==
    \A p \in DOMAIN found : Search!Runs(found[p]) /\ (p \in touched \/ disk[p].machine = found[p])

\* The places P hold every client of the usual places since the cache was filled.
Knows(P) == \A p \in Search!PlacesOf(CommonOrder) : p \notin sinceFill /\ Search!Runs(disk[p].machine) => p \in P

SearchInv ==
    /\ SearchTypes /\ SearchIs(scan, result) /\ Covers(scan, result) /\ Honest(result.found)
    /\ DOMAIN scanCache.found # {} => Knows(DOMAIN scanCache.found)
    /\ result.cacheHit => Knows(DOMAIN result.found)

LEMMA OrdersWalkPlaces ==
  /\ \A j \in 1..Len(CommonOrder) : CommonOrder[j] \in Search!Places /\ CommonOrder[j] \in Search!PlacesOf(CommonOrder)
  /\ \A j \in 1..Len(FullOrder) : FullOrder[j] \in Search!Places /\ FullOrder[j] \in Search!PlacesOf(FullOrder)
  /\ \A p \in Search!PlacesOf(CommonOrder) : \E j \in 1..Len(CommonOrder) : p = CommonOrder[j]
  /\ \A p \in Search!PlacesOf(FullOrder) : \E j \in 1..Len(FullOrder) : p = FullOrder[j]
  /\ Search!PlacesOf(CommonOrder) \subseteq Search!Places
  BY DEF Search!Places, Search!PlacesOf

LEMMA NothingIsFew == Few({})
  BY PartsAssumption, FS_EmptySet DEF Few

LEMMA NoResultIs ==
  /\ Search!NoResult \in Result /\ DOMAIN Search!NoResult.found = {} /\ Search!NoCache \in Cache /\ DOMAIN Search!NoCache.found = {}
  /\ Search!NoScan \in Scan
  /\ ~Search!NoResult.cacheHit /\ ~Search!NoResult.cancelled /\ ~Search!NoResult.stoppedOnX86
<1>1. [p \in {} |-> "x86"] \in Lists({"x86", "x64"}) /\ DOMAIN [p \in {} |-> "x86"] = {}
  <2>1. [p \in {} |-> "x86"] \in [{} -> {"x86", "x64"}]
    OBVIOUS
  <2>. QED
    BY <2>1 DEF Lists
<1>2. [p \in {} |-> Search!NoFile] \in Lists(Client) /\ DOMAIN [p \in {} |-> Search!NoFile] = {}
  <2>1. [p \in {} |-> Search!NoFile] \in [{} -> Client]
    OBVIOUS
  <2>. QED
    BY <2>1 DEF Lists
<1>3. Search!NoScan \in Scan
  BY DEF Search!NoScan, Scan
<1>. QED
  BY <1>1, <1>2, <1>3 DEF Search!NoResult, Search!NoCache, Result, Cache

LEMMA SearchInit == Search!DiscoveryInit => SearchInv
<1> SUFFICES ASSUME Search!DiscoveryInit PROVE SearchInv
  OBVIOUS
<1>1. /\ disk \in [Search!Places -> {Search!NoFile, [machine |-> "x86", stamp |-> 0], [machine |-> "x64", stamp |-> 0]}]
      /\ locked = {} /\ touched = {} /\ changes = 0 /\ scanCache = Search!NoCache /\ scan = Search!NoScan /\ result = Search!NoResult
  BY DEF Search!DiscoveryInit
<1>2. SearchTypes
  <2>1. 0 \in 0..MaxChanges
    BY PartsAssumption
  <2>2. disk \in [Search!Places -> Client]
    BY <1>1, <2>1 DEF Client, Search!NoFile
  <2>. QED
    BY <1>1, <2>1, <2>2, NoResultIs, NothingIsFew DEF SearchTypes
<1>3. SearchIs(scan, result)
  <2>1. Search!NoScan.i = 1 /\ Search!NoScan.at = "idle" /\ 1 \in 1..(Len(Walked(result)) + 1)
    BY PartsAssumption DEF Search!NoScan, Walked
  <2>. QED
    BY <1>1, <2>1, NoResultIs DEF SearchIs
<1>4. Covers(scan, result)
  BY <1>1 DEF Covers, Search!NoScan
<1>. QED
  BY <1>1, <1>2, <1>3, <1>4, NoResultIs DEF SearchInv, Honest

LEMMA SearchStays == ASSUME SearchInv, UNCHANGED searchVars PROVE SearchInv'
<1>1. UNCHANGED <<disk, locked, os32, scanCache, scan, result, touched, sinceFill, changes>>
  BY DEF searchVars
<1>2. SearchTypes'
  BY <1>1 DEF SearchInv, SearchTypes
<1>3. (\A m : Search!Runs(m)' <=> Search!Runs(m)) /\ Walked(result)' = Walked(result)
  BY <1>1 DEF Search!Runs, Walked
<1>4. SearchIs(scan, result)'
  BY <1>1, <1>3 DEF SearchInv, SearchIs
<1>5. Covers(scan, result)' /\ Honest(result.found)'
  BY <1>1, <1>3 DEF SearchInv, Covers, Honest
<1>. QED
  BY <1>1, <1>2, <1>3, <1>4, <1>5 DEF SearchInv, Knows

\* A place that changes, or is locked or let go, is touched from then on.
LEMMA SearchTouches ==
  ASSUME SearchInv, NEW p \in Search!Places, Search!Touch(p), UNCHANGED <<os32, scanCache, scan, result>>,
         \A q \in Search!Places \ {p} : disk'[q] = disk[q], disk' \in [Search!Places -> Client],
         locked' \subseteq locked \cup {p}, changes' \in 0..MaxChanges
  PROVE  SearchInv'
<1>1. touched' = touched \cup {p} /\ sinceFill' = sinceFill \cup {p}
  BY DEF Search!Touch
<1>2. SearchTypes'
  BY <1>1 DEF SearchInv, SearchTypes
<1>3. (\A m : Search!Runs(m)' <=> Search!Runs(m)) /\ Walked(result)' = Walked(result)
  BY DEF Search!Runs, Walked
<1>4. SearchIs(scan, result)'
  BY <1>3 DEF SearchInv, SearchIs
<1>5. Covers(scan, result)'
  <2> SUFFICES ASSUME ~result.cacheHit, scan.complete, ~result.truncated, NEW j \in 1..(scan.i - 1),
                      Walked(result)[j] \notin touched', Search!Runs(disk'[Walked(result)[j]].machine)
               PROVE  Walked(result)[j] \in DOMAIN result.found
    BY <1>3 DEF Covers
  <2>1. j \in 1..Len(Walked(result)) /\ Len(Walked(result)) \in Nat
    BY SMTT(30), PartsAssumption DEF SearchInv, SearchIs, SearchTypes, Scan, Walked
  <2>2. Walked(result)[j] \in Search!Places
    BY <2>1, OrdersWalkPlaces DEF Walked
  <2>. QED
    BY <1>1, <2>2 DEF SearchInv, Covers
<1>6. DOMAIN result.found \subseteq Search!Places
  BY DEF SearchInv, SearchTypes, Result, Lists
<1>7. Honest(result.found)'
  BY <1>1, <1>3, <1>6 DEF SearchInv, Honest
<1>8. \A P : Knows(P) => Knows(P)'
  BY <1>1, <1>3, OrdersWalkPlaces DEF Knows
<1>. QED
  BY <1>2, <1>4, <1>5, <1>7, <1>8 DEF SearchInv

LEMMA SearchDisturbed ==
  ASSUME SearchInv, NEW p \in Search!Places, Search!Change(p) \/ Search!Lock(p) PROVE SearchInv'
<1>1. changes' \in 0..MaxChanges /\ changes' = changes + 1 /\ changes' >= 1 /\ Search!Touch(p) /\ UNCHANGED <<os32, scanCache, scan, result>>
  BY PartsAssumption DEF Search!Change, Search!Lock, SearchInv, SearchTypes
<1>2. CASE Search!Change(p)
  <2>1. PICK m \in {"none", "x86", "x64"} :
          disk' = [disk EXCEPT ![p] = IF m = "none" THEN Search!NoFile ELSE [machine |-> m, stamp |-> changes + 1]]
    BY <1>2 DEF Search!Change
  <2>2. (IF m = "none" THEN Search!NoFile ELSE [machine |-> m, stamp |-> changes + 1]) \in Client
    BY <1>1, PartsAssumption DEF Search!NoFile, Client
  <2>3. disk' \in [Search!Places -> Client] /\ \A q \in Search!Places \ {p} : disk'[q] = disk[q]
    BY <2>1, <2>2 DEF SearchInv, SearchTypes
  <2>. QED
    BY <1>1, <1>2, <2>3, SearchTouches DEF Search!Change
<1>3. CASE Search!Lock(p)
  <2>1. locked' \subseteq locked \cup {p} /\ disk' = disk
    BY <1>3 DEF Search!Lock
  <2>. QED
    BY <1>1, <2>1, SearchTouches DEF SearchInv, SearchTypes
<1>. QED
  BY <1>2, <1>3

LEMMA SearchExpires == ASSUME SearchInv, Search!Expire PROVE SearchInv'
<1>1. UNCHANGED <<disk, locked, os32, scan, result, touched, sinceFill, changes>>
      /\ scanCache' = [scanCache EXCEPT !.fresh = FALSE] /\ scanCache \in Cache
  BY DEF Search!Expire, SearchInv, SearchTypes
<1>2. scanCache' \in Cache /\ scanCache'.found = scanCache.found
  BY <1>1 DEF Cache
<1>3. SearchTypes'
  BY <1>1, <1>2 DEF SearchInv, SearchTypes
<1>4. (\A m : Search!Runs(m)' <=> Search!Runs(m)) /\ Walked(result)' = Walked(result)
  BY <1>1 DEF Search!Runs, Walked
<1>5. SearchIs(scan, result)' /\ Covers(scan, result)' /\ Honest(result.found)'
  BY <1>1, <1>4 DEF SearchInv, SearchIs, Covers, Honest
<1>6. \A P : Knows(P) => Knows(P)'
  BY <1>1, <1>4 DEF Knows
<1>. QED
  BY <1>1, <1>2, <1>3, <1>5, <1>6 DEF SearchInv

\* The search goes on to sc, with the result r.
LEMMA SearchGoes ==
  ASSUME SearchInv, NEW sc \in Scan, NEW r \in Result, scan' = sc, result' = r,
         UNCHANGED <<disk, locked, os32, scanCache, touched, sinceFill, changes>>,
         Few(DOMAIN r.found), SearchIs(sc, r), Covers(sc, r), Honest(r.found), r.cacheHit => Knows(DOMAIN r.found)
  PROVE  SearchInv'
<1>1. SearchTypes'
  BY DEF SearchInv, SearchTypes
<1>2. \A m : Search!Runs(m)' <=> Search!Runs(m)
  BY DEF Search!Runs
<1>3. SearchIs(scan, result)' /\ Honest(result.found)'
  BY <1>2 DEF SearchIs, Honest, Walked
<1>4. Covers(scan, result)'
  BY <1>2 DEF Covers, Walked
<1>5. \A P : Knows(P) => Knows(P)'
  BY <1>2 DEF Knows
<1>. QED
  BY <1>1, <1>3, <1>4, <1>5 DEF SearchInv

\* What becomes of the result at the place p.
LEMMA AddedIs ==
  ASSUME SearchInv, NEW p \in Search!Places, NEW r, r = Search!Added(result, p)
  PROVE  /\ r \in Result /\ Few(DOMAIN r.found) /\ Honest(r.found) /\ DOMAIN result.found \subseteq DOMAIN r.found
         /\ r.fallbackScanned = result.fallbackScanned /\ r.cacheHit = result.cacheHit /\ r.cancelled = result.cancelled
         /\ (result.truncated => r.truncated) /\ (result.stoppedOnX86 => r.stoppedOnX86)
         /\ (~scan.stopOnX86 /\ ~result.stoppedOnX86 => ~r.stoppedOnX86)
         /\ (~r.truncated /\ p \notin touched /\ Search!Runs(disk[p].machine) => p \in DOMAIN r.found)
<1>1. /\ result \in Result /\ Few(DOMAIN result.found) /\ Honest(result.found) /\ locked \subseteq touched /\ disk[p].machine \in {"none", "x86", "x64"}
      /\ result.found \in [DOMAIN result.found -> {"x86", "x64"}] /\ DOMAIN result.found \subseteq Search!Places
      /\ scan.stopOnX86 \in BOOLEAN
  BY DEF SearchInv, SearchTypes, Result, Lists, Client, Scan
<1>2. CASE ~Search!Runs(disk[p].machine) \/ p \in locked \/ p \in DOMAIN result.found
  <2>1. r = result
    BY <1>2 DEF Search!Added
  <2>. QED
    BY <1>1, <1>2, <2>1
<1>3. CASE ~(~Search!Runs(disk[p].machine) \/ p \in locked \/ p \in DOMAIN result.found)
           /\ Search!Cardinality(DOMAIN result.found) >= MaxFound
  <2> DEFINE x == [result EXCEPT !.truncated = TRUE]
  <2>1. r = x
    BY <1>3 DEF Search!Added
  <2>2. /\ x \in Result /\ x.found = result.found /\ x.fallbackScanned = result.fallbackScanned /\ x.cacheHit = result.cacheHit
        /\ x.cancelled = result.cancelled /\ x.stoppedOnX86 = result.stoppedOnX86 /\ x.truncated
    BY <1>1 DEF Result
  <2>. HIDE DEF x
  <2>. QED
    BY <1>1, <2>1, <2>2
<1>4. CASE ~(~Search!Runs(disk[p].machine) \/ p \in locked \/ p \in DOMAIN result.found)
           /\ ~(Search!Cardinality(DOMAIN result.found) >= MaxFound)
  <2> DEFINE f == [q \in DOMAIN result.found \cup {p} |-> IF q = p THEN disk[p].machine ELSE result.found[q]]
             stop == result.stoppedOnX86 \/ (scan.stopOnX86 /\ disk[p].machine = "x86")
             x == [result EXCEPT !.found = f, !.stoppedOnX86 = stop]
  <2>1. r = x
    BY <1>1, <1>4 DEF Search!Added, Result
  <2>2. disk[p].machine \in {"x86", "x64"}
    BY <1>1, <1>4 DEF Search!Runs
  <2>3. f \in Lists({"x86", "x64"}) /\ DOMAIN f = DOMAIN result.found \cup {p}
    <3>1. f \in [DOMAIN result.found \cup {p} -> {"x86", "x64"}]
      BY <1>1, <2>2
    <3>2. DOMAIN result.found \cup {p} \in SUBSET Search!Places
      BY <1>1
    <3>. QED
      BY <3>1, <3>2 DEF Lists
  <2>4. Few(DOMAIN f)
    <3>1. IsFiniteSet(DOMAIN result.found) /\ Cardinality(DOMAIN result.found) < MaxFound /\ Cardinality(DOMAIN result.found) \in Nat
      BY <1>1, <1>4, SameCount, FS_CardinalityType, PartsAssumption DEF Few
    <3>2. p \notin DOMAIN result.found /\ MaxFound \in Nat
      BY <1>4, PartsAssumption
    <3>3. IsFiniteSet(DOMAIN f) /\ Cardinality(DOMAIN f) = Cardinality(DOMAIN result.found) + 1
      BY <2>3, <3>1, <3>2, FS_AddElement
    <3>. QED
      BY <3>1, <3>2, <3>3 DEF Few
  <2>5. Honest(f)
    BY <1>1, <1>4 DEF Honest
  <2>6. stop \in BOOLEAN /\ (result.stoppedOnX86 => stop) /\ (~scan.stopOnX86 /\ ~result.stoppedOnX86 => ~stop)
    BY <1>1 DEF Result
  <2>. HIDE DEF f, stop
  <2>7. /\ x \in Result /\ x.found = f /\ x.fallbackScanned = result.fallbackScanned /\ x.cacheHit = result.cacheHit
        /\ x.cancelled = result.cancelled /\ x.stoppedOnX86 = stop /\ x.truncated = result.truncated
    BY <1>1, <2>3, <2>6 DEF Result
  <2>. HIDE DEF x
  <2>. QED
    BY <2>1, <2>3, <2>4, <2>5, <2>6, <2>7
<1>. QED
  BY <1>2, <1>3, <1>4

LEMMA SearchVisits ==
  ASSUME SearchInv, Search!Visit, UNCHANGED <<disk, locked, os32, scanCache, touched, sinceFill, changes>>
  PROVE  SearchInv'
<1> DEFINE p == Search!Order[scan.i]
           r == Search!Added(result, p)
           i == scan.i + 1
           sc == [scan EXCEPT !.i = i, !.stopped = r.stoppedOnX86]
<1>1. /\ scan \in Scan /\ scan.at \in {"common", "full"} /\ scan.i <= Len(Search!Order) /\ ~scan.stopped
      /\ Search!Order = Walked(result) /\ scan.i \in 1..(Len(Walked(result)) + 1)
      /\ ~result.cacheHit /\ (scan.at = "full" <=> result.fallbackScanned)
      /\ (scan.at = "common" => ~result.cancelled /\ ~result.stoppedOnX86 /\ ~scan.stopOnX86 /\ ~scan.cancellable)
  BY DEF Search!Visit, Search!Walking, Search!Order, SearchInv, SearchTypes, SearchIs, Walked
<1>2. Len(Walked(result)) \in Nat /\ scan.i \in 1..Len(Walked(result)) /\ i \in Nat /\ i \in 1..(Len(Walked(result)) + 1) /\ i - 1 = scan.i
  <2>1. Len(Walked(result)) \in Nat
    BY PartsAssumption DEF Walked
  <2>. QED
    BY <1>1, <2>1
<1>3. p = Walked(result)[scan.i] /\ p \in Search!Places
  BY <1>1, <1>2, OrdersWalkPlaces DEF Walked
<1>. HIDE DEF p
<1>4. /\ r \in Result /\ Few(DOMAIN r.found) /\ Honest(r.found) /\ DOMAIN result.found \subseteq DOMAIN r.found
      /\ r.fallbackScanned = result.fallbackScanned /\ r.cacheHit = result.cacheHit /\ r.cancelled = result.cancelled
      /\ (result.truncated => r.truncated) /\ (result.stoppedOnX86 => r.stoppedOnX86)
      /\ (~scan.stopOnX86 /\ ~result.stoppedOnX86 => ~r.stoppedOnX86)
      /\ (~r.truncated /\ p \notin touched /\ Search!Runs(disk[p].machine) => p \in DOMAIN r.found)
  BY <1>3, AddedIs
<1>5. result' = r /\ scan' = sc
  BY <1>1 DEF Search!Visit, p
<1>. HIDE DEF r
<1>6. Walked(r) = Walked(result) /\ r.stoppedOnX86 \in BOOLEAN
  BY <1>4 DEF Walked, Result
<1>. HIDE DEF i
<1>7. /\ sc \in Scan /\ sc.i = i /\ sc.stopped = r.stoppedOnX86 /\ sc.at = scan.at /\ sc.complete = scan.complete
      /\ sc.stopOnX86 = scan.stopOnX86 /\ sc.cancellable = scan.cancellable
  BY <1>1, <1>2, <1>6 DEF Scan
<1>. HIDE DEF sc
<1>8. SearchIs(sc, r)
  BY <1>1, <1>2, <1>4, <1>6, <1>7 DEF SearchIs
<1>9. Covers(sc, r)
  <2> SUFFICES ASSUME sc.complete, ~r.truncated, NEW j \in 1..scan.i, Walked(result)[j] \notin touched,
                      Search!Runs(disk[Walked(result)[j]].machine)
               PROVE  Walked(result)[j] \in DOMAIN r.found
    BY <1>2, <1>6, <1>7 DEF Covers
  <2>1. CASE j = scan.i
    BY <1>3, <1>4, <2>1
  <2>2. CASE j # scan.i
    <3>1. j \in 1..(scan.i - 1)
      BY <1>2, <2>2
    <3>2. Walked(result)[j] \in DOMAIN result.found
      BY <1>1, <1>4, <1>7, <3>1 DEF SearchInv, Covers
    <3>. QED
      BY <1>4, <3>2
  <2>. QED
    BY <2>1, <2>2
<1>. QED
  BY <1>1, <1>4, <1>5, <1>7, <1>8, <1>9, SearchGoes

\* A directory that cannot be read makes the search incomplete; the user stops it.
LEMMA SearchFails ==
  ASSUME SearchInv, Search!Unreadable \/ Search!CancelSeen, UNCHANGED <<disk, locked, os32, scanCache, touched, sinceFill, changes>>
  PROVE  SearchInv'
<1>1. /\ scan \in Scan /\ scan.at \in {"common", "full"} /\ scan.i <= Len(Search!Order) /\ ~scan.stopped
      /\ Search!Order = Walked(result) /\ scan.i \in 1..(Len(Walked(result)) + 1)
      /\ ~result.cacheHit /\ (scan.at = "full" <=> result.fallbackScanned) /\ result \in Result
      /\ (scan.at = "common" => ~result.cancelled /\ ~result.stoppedOnX86 /\ ~scan.stopOnX86 /\ ~scan.cancellable)
  BY DEF Search!Unreadable, Search!CancelSeen, Search!Walking, Search!Order, SearchInv, SearchTypes, SearchIs, Walked
<1>2. Len(Walked(result)) \in Nat
  BY PartsAssumption DEF Walked
<1>3. Few(DOMAIN result.found) /\ Honest(result.found) /\ Covers(scan, result)
  BY DEF SearchInv, SearchTypes
<1>4. CASE Search!Unreadable
  <2> DEFINE i == scan.i + 1
             sc == [scan EXCEPT !.i = i, !.complete = FALSE]
  <2>1. scan' = sc /\ result' = result /\ i \in 1..(Len(Walked(result)) + 1) /\ i \in Nat
    BY <1>1, <1>2, <1>4 DEF Search!Unreadable
  <2>. HIDE DEF i
  <2>2. /\ sc \in Scan /\ sc.i = i /\ sc.stopped = scan.stopped /\ sc.at = scan.at /\ ~sc.complete
        /\ sc.stopOnX86 = scan.stopOnX86 /\ sc.cancellable = scan.cancellable
    BY <1>1, <2>1 DEF Scan
  <2>. HIDE DEF sc
  <2>3. SearchIs(sc, result) /\ Covers(sc, result)
    BY <1>1, <2>1, <2>2 DEF SearchIs, Covers
  <2>. QED
    BY <1>1, <1>3, <2>1, <2>2, <2>3, SearchGoes
<1>5. CASE Search!CancelSeen
  <2> DEFINE sc == [scan EXCEPT !.stopped = TRUE]
             r == [result EXCEPT !.cancelled = TRUE]
  <2>1. scan' = sc /\ result' = r /\ scan.at = "full"
    BY <1>1, <1>5 DEF Search!CancelSeen
  <2>2. sc \in Scan /\ sc.i = scan.i /\ sc.at = "full" /\ sc.complete = scan.complete
    BY <1>1, <2>1 DEF Scan
  <2>3. /\ r \in Result /\ r.found = result.found /\ r.cancelled /\ r.cacheHit = result.cacheHit /\ r.truncated = result.truncated
        /\ r.fallbackScanned = result.fallbackScanned
    BY <1>1 DEF Result
  <2>. HIDE DEF sc, r
  <2>4. SearchIs(sc, r)
    BY <1>1, <2>1, <2>2, <2>3 DEF SearchIs, Walked
  <2>5. Covers(sc, r)
    BY <1>3, <2>2, <2>3 DEF Covers, Walked
  <2>. QED
    BY <1>1, <1>3, <2>1, <2>2, <2>3, <2>4, <2>5, SearchGoes
<1>. QED
  BY <1>4, <1>5

LEMMA SearchFullEnds == ASSUME SearchInv, Search!FullEnds PROVE SearchInv'
<1> DEFINE sc == [scan EXCEPT !.at = "done"]
<1>1. /\ scan \in Scan /\ scan.at = "full" /\ (~(scan.i <= Len(Search!Order)) \/ scan.stopped) /\ scan' = sc /\ result' = result
      /\ UNCHANGED <<disk, locked, os32, scanCache, touched, sinceFill, changes>>
  BY DEF Search!FullEnds, Search!Walking, SearchInv, SearchTypes
<1>2. /\ result.fallbackScanned /\ ~result.cacheHit /\ (scan.stopped => result.cancelled \/ result.stoppedOnX86)
      /\ scan.i \in 1..(Len(Walked(result)) + 1) /\ Len(Walked(result)) \in Nat
  BY <1>1, PartsAssumption DEF SearchInv, SearchIs, Walked
<1>3. sc \in Scan /\ sc.at = "done" /\ sc.i = scan.i /\ sc.complete = scan.complete
  BY <1>1 DEF Scan
<1>. HIDE DEF sc
<1>4. SearchIs(sc, result)
  BY <1>1, <1>2, <1>3 DEF SearchIs, Search!Order, Walked
<1>5. Covers(sc, result) /\ Few(DOMAIN result.found) /\ Honest(result.found) /\ result \in Result
  BY <1>3 DEF SearchInv, SearchTypes, Covers
<1>. QED
  BY <1>1, <1>2, <1>3, <1>4, <1>5, SearchGoes

\* The search of the usual places ends: what it found is the list, and may be remembered.
LEMMA SearchFills ==
  ASSUME SearchInv, scan.at = "common", ~Search!Walking, Search!Remember, scan' = [scan EXCEPT !.at = "done"], DOMAIN result.found # {},
         UNCHANGED <<disk, locked, os32, touched, changes, result>>
  PROVE  SearchInv'
<1> DEFINE sc == [scan EXCEPT !.at = "done"]
<1>1. /\ scan \in Scan /\ ~(scan.i <= Len(CommonOrder)) /\ scan.i \in 1..(Len(CommonOrder) + 1) /\ Walked(result) = CommonOrder
      /\ ~result.cacheHit /\ Len(CommonOrder) \in Nat
  BY PartsAssumption DEF SearchInv, SearchTypes, SearchIs, Search!Walking, Search!Order, Walked
<1>2. sc \in Scan /\ sc.at = "done" /\ sc.i = scan.i /\ sc.complete = scan.complete
  BY <1>1 DEF Scan
<1>. HIDE DEF sc
<1>3. SearchIs(sc, result)
  BY <1>1, <1>2 DEF SearchIs
<1>4. Covers(sc, result) /\ Few(DOMAIN result.found) /\ Honest(result.found) /\ result \in Result
  BY <1>2 DEF SearchInv, SearchTypes, Covers
<1>5. CASE UNCHANGED <<scanCache, sinceFill>>
  BY <1>1, <1>2, <1>3, <1>4, <1>5, SearchGoes DEF sc
<1>6. CASE /\ scan.complete /\ scan.cached /\ Search!Writable(result) /\ sinceFill' = touched
           /\ scanCache' = [found |-> [p \in DOMAIN result.found |-> [machine |-> result.found[p], stamp |-> disk[p].stamp]], fresh |-> TRUE]
  <2> DEFINE f == [p \in DOMAIN result.found |-> [machine |-> result.found[p], stamp |-> disk[p].stamp]]
  <2>1. /\ result.found \in [DOMAIN result.found -> {"x86", "x64"}] /\ DOMAIN result.found \in SUBSET Search!Places
        /\ disk \in [Search!Places -> Client] /\ ~result.truncated
    BY <1>6 DEF SearchInv, SearchTypes, Result, Lists, Search!Writable
  <2>2. f \in [DOMAIN result.found -> Client]
    BY <2>1 DEF Client
  <2>3. f \in Lists(Client) /\ DOMAIN f = DOMAIN result.found
    BY <2>1, <2>2 DEF Lists
  <2>. HIDE DEF f
  <2>4. scanCache' \in Cache /\ DOMAIN scanCache'.found = DOMAIN result.found
    BY <1>6, <2>3 DEF Cache, f
  <2>5. scan' = sc
    BY DEF sc
  <2>6. SearchTypes'
    BY <1>2, <1>4, <2>4, <2>5 DEF SearchInv, SearchTypes
  <2>7. (\A m : Search!Runs(m)' <=> Search!Runs(m)) /\ Walked(result)' = Walked(result)
    BY DEF Search!Runs, Walked
  <2>8. SearchIs(scan, result)' /\ Covers(scan, result)' /\ Honest(result.found)'
    BY <1>3, <1>4, <2>5, <2>7 DEF SearchIs, Covers, Honest
  <2>9. ASSUME NEW p \in Search!PlacesOf(CommonOrder), p \notin touched, Search!Runs(disk[p].machine) PROVE p \in DOMAIN result.found
    <3>1. PICK j \in 1..Len(CommonOrder) : p = CommonOrder[j]
      BY OrdersWalkPlaces
    <3>2. j \in 1..(scan.i - 1)
      BY <1>1
    <3>. QED
      BY <1>1, <1>6, <2>1, <2>9, <3>1, <3>2 DEF SearchInv, Covers
  <2>10. Knows(DOMAIN scanCache.found)'
    BY <1>6, <2>4, <2>7, <2>9 DEF Knows
  <2>. QED
    BY <1>1, <2>6, <2>8, <2>10 DEF SearchInv
<1>. QED
  BY <1>5, <1>6 DEF Search!Remember, Search!Listed

LEMMA SearchCommonEnds == ASSUME SearchInv, Search!CommonEnds PROVE SearchInv'
<1>1. /\ scan.at = "common" /\ ~Search!Walking /\ UNCHANGED <<disk, locked, os32, touched, changes>> /\ scan \in Scan
      /\ scan.i \in 1..(Len(CommonOrder) + 1) /\ Walked(result) = CommonOrder /\ ~result.cacheHit /\ Len(CommonOrder) \in Nat
      /\ ~(scan.i <= Len(CommonOrder)) /\ result \in Result
  BY PartsAssumption DEF Search!CommonEnds, SearchInv, SearchTypes, SearchIs, Search!Walking, Search!Order, Walked
<1>2. CASE DOMAIN result.found # {} /\ Search!Remember /\ scan' = [scan EXCEPT !.at = "done"] /\ UNCHANGED result
  BY <1>1, <1>2, SearchFills
<1>3. CASE DOMAIN result.found = {} /\ scan.mode = "common" /\ scan' = [scan EXCEPT !.at = "done"] /\ UNCHANGED <<result, scanCache, sinceFill>>
  <2> DEFINE sc == [scan EXCEPT !.at = "done"]
  <2>1. sc \in Scan /\ sc.at = "done" /\ sc.i = scan.i /\ sc.complete = scan.complete /\ sc.mode = "common"
    BY <1>1, <1>3 DEF Scan
  <2>2. scan' = sc
    BY <1>3
  <2>. HIDE DEF sc
  <2>3. SearchIs(sc, result)
    BY <1>1, <2>1 DEF SearchIs
  <2>4. Covers(sc, result) /\ Few(DOMAIN result.found) /\ Honest(result.found)
    BY <2>1 DEF SearchInv, SearchTypes, Covers
  <2>. QED
    BY <1>1, <1>3, <2>1, <2>2, <2>3, <2>4, SearchGoes
<1>4. CASE /\ DOMAIN result.found = {} /\ UNCHANGED <<scanCache, sinceFill>>
           /\ scan' = [scan EXCEPT !.at = "full", !.i = 1, !.stopped = FALSE, !.stopOnX86 = ~scan.enumerateAll]
           /\ result' = [Search!NoResult EXCEPT !.commonScanned = TRUE, !.fallbackScanned = TRUE]
  <2> DEFINE b == ~scan.enumerateAll
             sc == [scan EXCEPT !.at = "full", !.i = 1, !.stopped = FALSE, !.stopOnX86 = b]
             r == [Search!NoResult EXCEPT !.commonScanned = TRUE, !.fallbackScanned = TRUE]
  <2>1. scan' = sc /\ result' = r /\ b \in BOOLEAN
    BY <1>4
  <2>. HIDE DEF b
  <2>2. sc \in Scan /\ sc.at = "full" /\ sc.i = 1 /\ ~sc.stopped
    BY <1>1, <2>1 DEF Scan
  <2>3. r \in Result /\ DOMAIN r.found = {} /\ ~r.cacheHit /\ r.fallbackScanned
    BY NoResultIs DEF Result
  <2>. HIDE DEF sc, r
  <2>4. SearchIs(sc, r)
    <3>1. sc.i \in 1..(Len(Walked(r)) + 1)
      BY <2>2, PartsAssumption DEF Walked
    <3>. QED
      BY <2>2, <2>3, <3>1 DEF SearchIs
  <2>5. Covers(sc, r) /\ Honest(r.found)
    BY <2>2, <2>3 DEF Covers, Honest
  <2>. QED
    BY <1>1, <1>4, <2>1, <2>2, <2>3, <2>4, <2>5, NothingIsFew, SearchGoes
<1>. QED
  BY <1>2, <1>3, <1>4 DEF Search!CommonEnds, Search!Listed

\* A search starts afresh, or its list is the one of the cache, which is true at this moment.
LEMMA SearchStarts == ASSUME SearchInv, Search!Start PROVE SearchInv'
<1>1. PICK mode \in {"common", "fallback", "all"}, enumerate, cached, rescan, picker \in BOOLEAN :
        /\ picker => mode = "all" /\ enumerate /\ ~cached
        /\ cached => mode # "all"
        /\ rescan => cached
        /\ IF cached /\ ~rescan /\ Search!Trusted
           THEN /\ result' = [Search!NoResult EXCEPT !.found = [p \in DOMAIN scanCache.found |-> scanCache.found[p].machine],
                                                     !.commonScanned = TRUE, !.cacheHit = TRUE]
                /\ scan' = [Search!NoScan EXCEPT !.at = "done", !.mode = mode]
           ELSE /\ result' = [Search!NoResult EXCEPT !.commonScanned = mode # "all", !.fallbackScanned = mode = "all"]
                /\ scan' = [Search!NoScan EXCEPT !.at = IF mode = "all" THEN "full" ELSE "common", !.mode = mode,
                                !.enumerateAll = enumerate, !.cached = cached, !.cancellable = picker]
  BY DEF Search!Start
<1>2. /\ touched' = locked /\ UNCHANGED <<disk, locked, os32, scanCache, sinceFill, changes>>
      /\ disk \in [Search!Places -> Client] /\ scanCache \in Cache /\ locked \subseteq touched
      /\ Few(DOMAIN scanCache.found) /\ changes \in 0..MaxChanges
  BY DEF Search!Start, SearchInv, SearchTypes
<1>3. (\A m : Search!Runs(m)' <=> Search!Runs(m)) /\ \A r : Walked(r)' = Walked(r')
  BY <1>2 DEF Search!Runs, Walked
<1>4. ASSUME NEW sc \in Scan, NEW r \in Result, scan' = sc, result' = r, Few(DOMAIN r.found), SearchIs(sc, r), sc.i = 1,
             \A p \in DOMAIN r.found : Search!Runs(r.found[p]) /\ disk[p].machine = r.found[p],
             r.cacheHit => Knows(DOMAIN r.found)
      PROVE  SearchInv'
  <2>1. SearchTypes'
    BY <1>2, <1>4 DEF SearchTypes
  <2>2. SearchIs(scan, result)' /\ Covers(scan, result)' /\ Honest(result.found)'
    BY <1>2, <1>3, <1>4 DEF SearchIs, Covers, Honest, Walked
  <2>3. \A P : Knows(P) => Knows(P)'
    BY <1>2, <1>3 DEF Knows
  <2>. QED
    BY <1>2, <1>4, <2>1, <2>2, <2>3 DEF SearchInv
<1>5. CASE /\ Search!Trusted
           /\ result' = [Search!NoResult EXCEPT !.found = [p \in DOMAIN scanCache.found |-> scanCache.found[p].machine],
                                                !.commonScanned = TRUE, !.cacheHit = TRUE]
           /\ scan' = [Search!NoScan EXCEPT !.at = "done", !.mode = mode]
  <2> DEFINE f == [p \in DOMAIN scanCache.found |-> scanCache.found[p].machine]
             sc == [Search!NoScan EXCEPT !.at = "done", !.mode = mode]
             r == [Search!NoResult EXCEPT !.found = f, !.commonScanned = TRUE, !.cacheHit = TRUE]
  <2>1. scanCache.found \in [DOMAIN scanCache.found -> Client] /\ DOMAIN scanCache.found \in SUBSET Search!Places
    BY <1>2 DEF Cache, Lists
  <2>2. \A p \in DOMAIN scanCache.found : disk[p] = scanCache.found[p] /\ Search!Runs(disk[p].machine) /\ f[p] \in {"x86", "x64"}
    BY <1>5, <2>1 DEF Search!Trusted, Search!Runs, Client
  <2>3. f \in Lists({"x86", "x64"}) /\ DOMAIN f = DOMAIN scanCache.found
    <3>1. f \in [DOMAIN scanCache.found -> {"x86", "x64"}]
      BY <2>2
    <3>. QED
      BY <2>1, <3>1 DEF Lists
  <2>4. \A p \in DOMAIN f : Search!Runs(f[p]) /\ disk[p].machine = f[p]
    BY <2>2
  <2>5. result' = r /\ scan' = sc
    BY <1>5
  <2>. HIDE DEF f
  <2>6. r \in Result /\ r.found = f /\ r.cacheHit
    BY <2>3, NoResultIs DEF Result
  <2>7. sc \in Scan /\ sc.at = "done" /\ sc.i = 1
    BY NoResultIs DEF Scan, Search!NoScan
  <2>. HIDE DEF r, sc
  <2>8. SearchIs(sc, r)
    <3>1. sc.i \in 1..(Len(Walked(r)) + 1)
      BY <2>7, PartsAssumption DEF Walked
    <3>. QED
      BY <2>6, <2>7, <3>1 DEF SearchIs
  <2>9. Knows(DOMAIN f)
    BY <1>5, <2>3 DEF SearchInv, Search!Trusted
  <2>. QED
    BY <1>2, <1>4, <2>3, <2>4, <2>5, <2>6, <2>7, <2>8, <2>9
<1>6. CASE /\ result' = [Search!NoResult EXCEPT !.commonScanned = mode # "all", !.fallbackScanned = mode = "all"]
           /\ scan' = [Search!NoScan EXCEPT !.at = IF mode = "all" THEN "full" ELSE "common", !.mode = mode,
                           !.enumerateAll = enumerate, !.cached = cached, !.cancellable = picker]
  <2> DEFINE place == IF mode = "all" THEN "full" ELSE "common"
             all == mode = "all"
             some == mode # "all"
             sc == [Search!NoScan EXCEPT !.at = place, !.mode = mode, !.enumerateAll = enumerate, !.cached = cached, !.cancellable = picker]
             r == [Search!NoResult EXCEPT !.commonScanned = some, !.fallbackScanned = all]
  <2>1. /\ place \in {"full", "common"} /\ (place = "full" <=> all) /\ all \in BOOLEAN /\ some \in BOOLEAN /\ (picker => all)
        /\ result' = r /\ scan' = sc
    BY <1>1, <1>6
  <2>. HIDE DEF place, all, some
  <2>2. /\ sc \in Scan /\ sc.at = place /\ sc.i = 1 /\ ~sc.stopped /\ ~sc.stopOnX86 /\ sc.cancellable = picker
    BY ZenonT(60), <2>1, NoResultIs DEF Scan, Search!NoScan
  <2>3. r \in Result /\ DOMAIN r.found = {} /\ ~r.cacheHit /\ ~r.cancelled /\ ~r.stoppedOnX86 /\ (r.fallbackScanned <=> all)
    BY <2>1, NoResultIs DEF Result
  <2>. HIDE DEF r, sc
  <2>4. SearchIs(sc, r)
    <3>1. sc.i \in 1..(Len(Walked(r)) + 1)
      BY <2>2, PartsAssumption DEF Walked
    <3>. QED
      BY <2>1, <2>2, <2>3, <3>1 DEF SearchIs
  <2>. QED
    BY <1>4, <2>1, <2>2, <2>3, <2>4, NothingIsFew
<1>. QED
  BY <1>1, <1>5, <1>6

LEMMA SearchStep == ASSUME SearchInv, Search!DiscoveryNext PROVE SearchInv'
<1>1. CASE Search!Step
  BY <1>1, SearchVisits, SearchFails DEF Search!Step
<1>. QED
  BY <1>1, SearchStarts, SearchCommonEnds, SearchFullEnds, SearchExpires, SearchDisturbed DEF Search!DiscoveryNext

\* A search has listed what it passed, lists only what was there, and leaves a
\* cache that knows all usual places.
THEOREM PartsSearch == Spec => [](part = "search" => SearchInv)
<1>1. Init => (part = "search" => SearchInv)
  BY SearchInit DEF Init
<1>2. (part = "search" => SearchInv) /\ [Next]_vars => (part = "search" => SearchInv)'
  BY PartsMove, SearchStep, SearchStays
<1>. QED
  BY <1>1, <1>2, PTL DEF Spec

\* discovery.c: a search that nothing cut short lists every client that runs here,
\* wherever nobody touched it since; for any places, disks and errors.
THEOREM PartsNoClientMissed == Spec => []NoClientMissed
<1>1. ASSUME SearchInv PROVE Search!DiscoveryTypeOK
  <2>1. disk \in [Search!Places -> Client] /\ changes \in 0..MaxChanges /\ scan.at \in {"idle", "common", "full", "done"}
    BY <1>1 DEF SearchInv, SearchTypes, Scan
  <2>2. DOMAIN result.found \subseteq Search!Places /\ Cardinality(DOMAIN result.found) <= MaxFound
    BY <1>1 DEF SearchInv, SearchTypes, Result, Lists, Few
  <2>. QED
    BY <2>1, <2>2, SameCount DEF Search!DiscoveryTypeOK, Search!Listed, Client
<1>2. ASSUME SearchInv PROVE Search!NothingMissed
  <2> SUFFICES ASSUME scan.at = "done", ~result.cacheHit, scan.complete, ~result.truncated, ~result.cancelled, ~result.stoppedOnX86
               PROVE  /\ \A p \in Search!Scope : p \notin touched /\ Search!Runs(disk[p].machine) => p \in DOMAIN result.found
                      /\ DOMAIN result.found = {} /\ scan.mode # "common" => Search!Scope = Search!PlacesOf(FullOrder)
    BY DEF Search!NothingMissed, Search!Listed
  <2>1. scan.i = Len(Walked(result)) + 1 /\ Len(Walked(result)) \in Nat
    BY <1>2, PartsAssumption DEF SearchInv, SearchIs, Walked
  <2>2. ASSUME NEW p \in Search!Scope, p \notin touched, Search!Runs(disk[p].machine) PROVE p \in DOMAIN result.found
    <3>1. PICK j \in 1..Len(Walked(result)) : p = Walked(result)[j]
      BY OrdersWalkPlaces DEF Search!Scope, Walked
    <3>2. j \in 1..(scan.i - 1)
      BY <2>1
    <3>. QED
      BY <1>2, <2>2, <3>1, <3>2 DEF SearchInv, Covers
  <2>3. DOMAIN result.found = {} /\ scan.mode # "common" => Search!Scope = Search!PlacesOf(FullOrder)
    BY <1>2 DEF SearchInv, SearchIs, Search!Scope
  <2>. QED
    BY <2>2, <2>3
<1>. QED
  BY <1>1, <1>2, PartsSearch, PTL DEF NoClientMissed

\* discovery-cache.inc: a list from the cache holds every client of the usual places
\* that nobody touched since it was filled, and a list is true where nobody touched it.
THEOREM PartsCachedListTrue == Spec => []CachedListTrue
<1>1. ASSUME SearchInv PROVE Search!HitComplete /\ Search!ListTrue
  BY <1>1 DEF SearchInv, Knows, Honest, Search!HitComplete, Search!ListTrue, Search!Listed
<1>. QED
  BY <1>1, PartsSearch, PTL DEF CachedListTrue

-----------------------------------------------------------------------------
(* The options and the settings of the home window (Options, HomeSettings) *)

Controls == {"log_enabled", "answer_key", "answer_threads", "question_caches", "panel_theme"}

\* A layer sets fields of the options, and carries no setting that is one of them.
LayerOK(l) ==
    /\ l \in [set : {l.set}, shared : {l.shared}, pathBy : Nat, uiBy : Nat, layers : Nat, cli : {l.cli}]
    /\ l.uiBy <= l.layers
    /\ DOMAIN l.set \subseteq DOMAIN Settings!Default /\ DOMAIN l.shared \subseteq {"question_caches", "baseurl"}
    /\ "log" \in DOMAIN l.set => l.set["log"] \in BOOLEAN

\* The four layers x
LayersOK(x) ==
    /\ x \in [base : {x.base}, config : {x.config}, json : {x.json}, cli : {x.cli}]
    /\ LayerOK(x.base) /\ LayerOK(x.config) /\ LayerOK(x.json) /\ LayerOK(x.cli)

\* The arguments are one layer when they have been read.
Placed(l) == l.pathBy = 1 /\ l.uiBy = 1

OptionsOK(o) ==
    /\ DOMAIN o = DOMAIN Settings!Default /\ o["log"] \in BOOLEAN
    /\ o["noDiskWrite"] => ~o["log"]

\* The window w has settings that its dialog shows, and none of them brings the log back.
HomeOK(w, o) ==
    /\ w \in [settings : {w.settings}, base : {w.base}] /\ DOMAIN w.settings \subseteq Controls
    /\ "log_enabled" \in DOMAIN w.settings =>
          w.settings["log_enabled"] \in BOOLEAN /\ (o["noDiskWrite"] => ~w.settings["log_enabled"])

SettingsInv ==
    /\ at \in {"default", "arguments", "config", "json", "merge", "ready", "refused"}
    /\ LayersOK(layers) /\ OptionsOK(options) /\ HomeOK(home, options)
    /\ at \in {"config", "json", "merge"} => Placed(layers.cli)
    /\ at # "ready" => home.settings = Settings!Nothing /\ last.what # "exam"
    /\ Settings!CliSelectionWins /\ Settings!ExamKeepsPromise

LEMMA DefaultIs ==
  /\ {"clientPath", "clientIndex", "clientFirst", "listClients", "selectClient", "scanClients", "scanMode", "scanAll", "rescan",
      "noScanCache", "ui", "noDiskWrite", "diagnose", "noDiagnose", "log", "memory", "deleteSuspend", "key", "threads", "theme"}
         \subseteq DOMAIN Settings!Default
  /\ Settings!Default["log"] = TRUE /\ Settings!Default["noDiskWrite"] = FALSE
  BY DEF Settings!Default

LEMMA KnownTopIs == Settings!KnownTop \ {"executionMode", "memoryExec", "deleteSuspend"} \subseteq DOMAIN Settings!Default
  BY DEF Settings!KnownTop

\* The arguments in Managed, and the fields they are.
LEMMA ManagedIs ==
  /\ Settings!Managed = {"log_enabled", "no_disk_write", "answer_key", "answer_threads", "panel_theme"}
  /\ DOMAIN Settings!ManagedField = {"log_enabled", "no_disk_write", "answer_key", "answer_threads", "panel_theme"}
  /\ Settings!ManagedField["log_enabled"] = "log" /\ Settings!ManagedField["no_disk_write"] = "noDiskWrite"
  /\ Settings!ManagedField["answer_key"] = "key" /\ Settings!ManagedField["answer_threads"] = "threads"
  /\ Settings!ManagedField["panel_theme"] = "theme"
  BY DEF Settings!Managed, Settings!ManagedField

LEMMA LayerOver ==
  ASSUME NEW f, NEW g
  PROVE  /\ DOMAIN Settings!++(f, g) = DOMAIN f \cup DOMAIN g
         /\ \A k \in DOMAIN f : Settings!++(f, g)[k] = f[k]
         /\ \A k \in DOMAIN g \ DOMAIN f : Settings!++(f, g)[k] = g[k]
  BY DEF Settings!++

LEMMA ThreeLayers ==
  ASSUME NEW f, NEW g, NEW h
  PROVE  /\ DOMAIN Settings!++(Settings!++(f, g), h) = (DOMAIN f \cup DOMAIN g) \cup DOMAIN h
         /\ \A k \in DOMAIN f : Settings!++(Settings!++(f, g), h)[k] = f[k]
         /\ \A k \in DOMAIN g \ DOMAIN f : Settings!++(Settings!++(f, g), h)[k] = g[k]
         /\ \A k \in DOMAIN h \ (DOMAIN f \cup DOMAIN g) : Settings!++(Settings!++(f, g), h)[k] = h[k]
<1> DEFINE t == Settings!++(f, g)
<1>1. /\ DOMAIN t = DOMAIN f \cup DOMAIN g
      /\ \A k \in DOMAIN f : t[k] = f[k]
      /\ \A k \in DOMAIN g \ DOMAIN f : t[k] = g[k]
  BY LayerOver
<1> HIDE DEF t
<1>2. /\ DOMAIN Settings!++(t, h) = DOMAIN t \cup DOMAIN h
      /\ \A k \in DOMAIN t : Settings!++(t, h)[k] = t[k]
      /\ \A k \in DOMAIN h \ DOMAIN t : Settings!++(t, h)[k] = h[k]
  BY LayerOver
<1>3. /\ DOMAIN Settings!++(t, h) = (DOMAIN f \cup DOMAIN g) \cup DOMAIN h
      /\ \A k \in DOMAIN f : Settings!++(t, h)[k] = f[k]
      /\ \A k \in DOMAIN g \ DOMAIN f : Settings!++(t, h)[k] = g[k]
      /\ \A k \in DOMAIN h \ (DOMAIN f \cup DOMAIN g) : Settings!++(t, h)[k] = h[k]
  BY <1>1, <1>2
<1>. QED
  BY <1>3 DEF t

\* The page settings S that are fields of the options, as those fields.
Fields(S) ==
    LET typed == DOMAIN S \cap DOMAIN Settings!ManagedField
        field(f) == CHOOSE k \in typed : Settings!ManagedField[k] = f
    IN [f \in {Settings!ManagedField[k] : k \in typed} |-> S[field(f)]]

LEMMA FieldsAre ==
  ASSUME NEW S
  PROVE  /\ DOMAIN Fields(S) \subseteq {"log", "noDiskWrite", "key", "threads", "theme"}
         /\ \A k \in DOMAIN Settings!ManagedField :
              /\ Settings!ManagedField[k] \in DOMAIN Fields(S) <=> k \in DOMAIN S
              /\ k \in DOMAIN S => Fields(S)[Settings!ManagedField[k]] = S[k]
<1> DEFINE typed == DOMAIN S \cap DOMAIN Settings!ManagedField
           field(f) == CHOOSE k \in typed : Settings!ManagedField[k] = f
<1>1. Fields(S) = [f \in {Settings!ManagedField[k] : k \in typed} |-> S[field(f)]]
  BY DEF Fields
<1>2. \A j, k \in DOMAIN Settings!ManagedField : Settings!ManagedField[j] = Settings!ManagedField[k] => j = k
  BY ManagedIs
<1>3. DOMAIN Fields(S) = {Settings!ManagedField[k] : k \in typed}
  BY <1>1
<1>4. ASSUME NEW k \in DOMAIN Settings!ManagedField, k \in DOMAIN S
      PROVE  Fields(S)[Settings!ManagedField[k]] = S[k]
  <2>1. k \in typed
    BY <1>4
  <2>2. field(Settings!ManagedField[k]) = k
    BY <2>1, <1>2
  <2>. QED
    BY <2>1, <2>2, <1>1, <1>3
<1>. QED
  BY <1>2, <1>3, <1>4, ManagedIs

Gone == {"executionMode", "memoryExec", "deleteSuspend"}

LEMMA TypedAre ==
  ASSUME NEW doc
  PROVE  Settings!Typed(doc) =
           Settings!++(Settings!++(Fields(doc.settings), Settings!ModeFields(doc.top)), Settings!Without(doc.top, Gone))
  BY DEF Settings!Typed, Fields, Gone

LEMMA WithoutIs ==
  ASSUME NEW f, NEW gone
  PROVE  /\ DOMAIN Settings!Without(f, gone) = DOMAIN f \ gone
         /\ \A k \in DOMAIN f \ gone : Settings!Without(f, gone)[k] = f[k]
  BY DEF Settings!Without, Settings!Restrict

LEMMA SharedIs ==
  ASSUME NEW f
  PROVE  /\ DOMAIN Settings!Shared(f) = DOMAIN f \cap (Controls \cup {"no_disk_write", "baseurl"})
         /\ \A k \in DOMAIN Settings!Shared(f) : Settings!Shared(f)[k] = f[k]
  BY ManagedIs DEF Settings!Shared, Settings!SharedSettings, Settings!Restrict, Controls

LEMMA NothingIs == DOMAIN Settings!Nothing = {}
  BY DEF Settings!Nothing

LEMMA ModesAre ==
  ASSUME NEW top
  PROVE  /\ DOMAIN Settings!ModeFields(top) \subseteq {"memory", "deleteSuspend"}
         /\ DOMAIN top = {} => DOMAIN Settings!ModeFields(top) = {}
<1> DEFINE A == IF "memoryExec" \in DOMAIN top THEN [memory |-> top.memoryExec] ELSE Settings!Nothing
           B == IF "deleteSuspend" \in DOMAIN top THEN [deleteSuspend |-> top.deleteSuspend] ELSE Settings!Nothing
           C == IF "executionMode" \notin DOMAIN top THEN Settings!Nothing
                ELSE IF top.executionMode = "delete-suspend" THEN [memory |-> FALSE, deleteSuspend |-> TRUE]
                ELSE [memory |-> top.executionMode = "memory"]
<1>1. Settings!ModeFields(top) = Settings!++(Settings!++(A, B), C)
  BY DEF Settings!ModeFields
<1>2. /\ DOMAIN A \subseteq {"memory"} /\ DOMAIN B \subseteq {"deleteSuspend"} /\ DOMAIN C \subseteq {"memory", "deleteSuspend"}
      /\ DOMAIN top = {} => DOMAIN A = {} /\ DOMAIN B = {} /\ DOMAIN C = {}
  BY NothingIs
<1> HIDE DEF A, B, C
<1>3. /\ DOMAIN Settings!++(A, B) = DOMAIN A \cup DOMAIN B
      /\ DOMAIN Settings!++(Settings!++(A, B), C) = DOMAIN Settings!++(A, B) \cup DOMAIN C
  BY LayerOver
<1>. QED
  BY <1>1, <1>2, <1>3

\* A document that can be read sets fields of the options.
LEMMA TypedIs ==
  ASSUME NEW doc \in Documents, Settings!Readable(doc)
  PROVE  /\ DOMAIN Settings!Typed(doc) \subseteq DOMAIN Settings!Default
         /\ "log" \in DOMAIN Settings!Typed(doc) => Settings!Typed(doc)["log"] \in BOOLEAN
<1> DEFINE A == Fields(doc.settings)
           M == Settings!ModeFields(doc.top)
           W == Settings!Without(doc.top, Gone)
<1>1. Settings!Typed(doc) = Settings!++(Settings!++(A, M), W)
  BY TypedAre
<1>2. /\ DOMAIN A \subseteq {"log", "noDiskWrite", "key", "threads", "theme"}
      /\ "log" \in DOMAIN A => A["log"] \in BOOLEAN
  BY FieldsAre, ManagedIs, SettingsAssumption
<1>3. DOMAIN M \subseteq {"memory", "deleteSuspend"}
  BY ModesAre
<1>4. DOMAIN doc.top \subseteq Settings!KnownTop
  BY DEF Settings!Readable
<1>5. /\ DOMAIN W \subseteq DOMAIN Settings!Default
      /\ "log" \in DOMAIN W => W["log"] \in BOOLEAN
  <2>1. /\ DOMAIN W = DOMAIN doc.top \ Gone
        /\ \A k \in DOMAIN doc.top \ Gone : W[k] = doc.top[k]
    BY WithoutIs
  <2>2. "log" \in DOMAIN doc.top => doc.top["log"] \in BOOLEAN
    BY SettingsAssumption
  <2> HIDE DEF W
  <2>. QED
    BY <1>4, <2>1, <2>2, KnownTopIs DEF Gone
<1> HIDE DEF A, M, W
<1> DEFINE t == Settings!++(Settings!++(A, M), W)
<1>6. /\ DOMAIN t = (DOMAIN A \cup DOMAIN M) \cup DOMAIN W
      /\ \A k \in DOMAIN A : t[k] = A[k]
      /\ \A k \in DOMAIN W \ (DOMAIN A \cup DOMAIN M) : t[k] = W[k]
  BY ThreeLayers
<1> HIDE DEF t
<1>7. /\ DOMAIN t \subseteq DOMAIN Settings!Default
      /\ "log" \in DOMAIN t => t["log"] \in BOOLEAN
  BY <1>2, <1>3, <1>5, <1>6, DefaultIs
<1>. QED
  BY <1>1, <1>7 DEF t

\* The page settings S alone.
LEMMA TypedSettings ==
  ASSUME NEW S, "no_disk_write" \notin DOMAIN S,
         NEW T, T = Settings!Typed([top |-> Settings!Nothing, settings |-> S])
  PROVE  /\ DOMAIN T \subseteq {"log", "key", "threads", "theme"}
         /\ "log" \in DOMAIN T <=> "log_enabled" \in DOMAIN S
         /\ "key" \in DOMAIN T <=> "answer_key" \in DOMAIN S
         /\ "threads" \in DOMAIN T <=> "answer_threads" \in DOMAIN S
         /\ "theme" \in DOMAIN T <=> "panel_theme" \in DOMAIN S
         /\ "log" \in DOMAIN T => T["log"] = S["log_enabled"]
         /\ "key" \in DOMAIN T => T["key"] = S["answer_key"]
         /\ "threads" \in DOMAIN T => T["threads"] = S["answer_threads"]
         /\ "theme" \in DOMAIN T => T["theme"] = S["panel_theme"]
<1> DEFINE doc == [top |-> Settings!Nothing, settings |-> S]
           A == Fields(S)
           M == Settings!ModeFields(Settings!Nothing)
           W == Settings!Without(Settings!Nothing, Gone)
<1>1. T = Settings!++(Settings!++(A, M), W)
  <2>1. doc.settings = S /\ doc.top = Settings!Nothing
    OBVIOUS
  <2> HIDE DEF doc
  <2>. QED
    BY <2>1, TypedAre
<1>2. DOMAIN M = {} /\ DOMAIN W = {}
  <2>1. DOMAIN Settings!Nothing = {}
    BY NothingIs
  <2>2. DOMAIN W = DOMAIN Settings!Nothing \ Gone
    BY WithoutIs
  <2>3. DOMAIN M = {}
    BY <2>1, ModesAre
  <2>. QED
    BY <2>1, <2>2, <2>3
<1>3. /\ DOMAIN A \subseteq {"log", "key", "threads", "theme"}
      /\ "log" \in DOMAIN A <=> "log_enabled" \in DOMAIN S
      /\ "key" \in DOMAIN A <=> "answer_key" \in DOMAIN S
      /\ "threads" \in DOMAIN A <=> "answer_threads" \in DOMAIN S
      /\ "theme" \in DOMAIN A <=> "panel_theme" \in DOMAIN S
      /\ "log_enabled" \in DOMAIN S => A["log"] = S["log_enabled"]
      /\ "answer_key" \in DOMAIN S => A["key"] = S["answer_key"]
      /\ "answer_threads" \in DOMAIN S => A["threads"] = S["answer_threads"]
      /\ "panel_theme" \in DOMAIN S => A["theme"] = S["panel_theme"]
  BY FieldsAre, ManagedIs
<1> HIDE DEF A, M, W
<1>4. DOMAIN T = DOMAIN A /\ \A k \in DOMAIN A : T[k] = A[k]
  <2> DEFINE t == Settings!++(A, M)
  <2>1. DOMAIN t = DOMAIN A \cup DOMAIN M /\ \A k \in DOMAIN A : t[k] = A[k]
    BY LayerOver
  <2> HIDE DEF t
  <2>2. DOMAIN Settings!++(t, W) = DOMAIN t \cup DOMAIN W /\ \A k \in DOMAIN t : Settings!++(t, W)[k] = t[k]
    BY LayerOver
  <2>3. T = Settings!++(t, W)
    BY <1>1 DEF t
  <2>. QED
    BY <2>1, <2>2, <2>3, <1>2
<1>5. /\ DOMAIN T \subseteq {"log", "key", "threads", "theme"}
      /\ "log" \in DOMAIN T <=> "log_enabled" \in DOMAIN S
      /\ "key" \in DOMAIN T <=> "answer_key" \in DOMAIN S
      /\ "threads" \in DOMAIN T <=> "answer_threads" \in DOMAIN S
      /\ "theme" \in DOMAIN T <=> "panel_theme" \in DOMAIN S
      /\ "log" \in DOMAIN T => T["log"] = S["log_enabled"]
      /\ "key" \in DOMAIN T => T["key"] = S["answer_key"]
      /\ "threads" \in DOMAIN T => T["threads"] = S["answer_threads"]
      /\ "theme" \in DOMAIN T => T["theme"] = S["panel_theme"]
  BY <1>3, <1>4
<1>. QED
  BY <1>5

LEMMA EmptyIs ==
  /\ LayerOK(Settings!Empty) /\ DOMAIN Settings!Empty.set = {} /\ DOMAIN Settings!Empty.shared = {}
  /\ Settings!Empty.pathBy = 0 /\ Settings!Empty.uiBy = 0 /\ Settings!Empty.layers = 0 /\ Settings!Empty.cli = FALSE
  BY NothingIs DEF Settings!Empty, LayerOK

LEMMA DiagnosesAre ==
  ASSUME NEW set
  PROVE  DOMAIN Settings!Diagnoses(set) \subseteq {"diagnose", "noDiagnose"}
  BY NothingIs DEF Settings!Diagnoses

LEMMA ScansAre ==
  ASSUME NEW set
  PROVE  DOMAIN Settings!Scans(set) \subseteq {"scanMode", "scanAll", "scanClients"}
  BY NothingIs DEF Settings!Scans

LEMMA EmptyWith ==
  ASSUME NEW s, NEW h,
         NEW l, l = [Settings!Empty EXCEPT !.set = s, !.shared = h, !.layers = 1, !.pathBy = 1, !.uiBy = 1]
  PROVE  l = [set |-> s, shared |-> h, pathBy |-> 1, uiBy |-> 1, layers |-> 1, cli |-> FALSE]
  BY DEF Settings!Empty

LEMMA LayerOfDocument ==
  ASSUME NEW s, NEW h, NEW l, l = [set |-> s, shared |-> h, pathBy |-> 1, uiBy |-> 1, layers |-> 1, cli |-> FALSE],
         DOMAIN s \subseteq DOMAIN Settings!Default, "log" \in DOMAIN s => s["log"] \in BOOLEAN,
         DOMAIN h \subseteq {"question_caches", "baseurl"}
  PROVE  LayerOK(l)
<1>1. l.set = s /\ l.shared = h /\ l.uiBy = 1 /\ l.layers = 1 /\ l.cli = FALSE
  OBVIOUS
<1>2. l \in [set : {s}, shared : {h}, pathBy : Nat, uiBy : Nat, layers : Nat, cli : {FALSE}]
  OBVIOUS
<1>. QED
  BY <1>1, <1>2 DEF LayerOK

\* The layer that a document makes.
LEMMA DocumentLayerOK ==
  ASSUME NEW doc \in Documents, Settings!Readable(doc)
  PROVE  LayerOK(Settings!DocumentLayer(doc))
<1> DEFINE T == Settings!Typed(doc)
           D == Settings!Diagnoses(T)
           C == Settings!Scans(T)
           U == Settings!Unmanaged(doc.settings)
           t == Settings!++(D, C)
           s == Settings!++(t, T)
           l == [set |-> s, shared |-> U, pathBy |-> 1, uiBy |-> 1, layers |-> 1, cli |-> FALSE]
<1>1. Settings!DocumentLayer(doc) = l
  <2>1. Settings!DocumentLayer(doc) = [Settings!Empty EXCEPT !.set = s, !.shared = U, !.layers = 1, !.pathBy = 1, !.uiBy = 1]
    BY DEF Settings!DocumentLayer
  <2> HIDE DEF s, U
  <2>. QED
    BY <2>1, EmptyWith
<1>2. DOMAIN T \subseteq DOMAIN Settings!Default /\ ("log" \in DOMAIN T => T["log"] \in BOOLEAN)
  BY TypedIs
<1>3. DOMAIN U \subseteq {"question_caches", "baseurl"}
  <2> DEFINE w == Settings!Without(doc.settings, Settings!Managed)
  <2>1. DOMAIN w = DOMAIN doc.settings \ Settings!Managed
    BY WithoutIs
  <2> HIDE DEF w
  <2>2. DOMAIN Settings!Shared(w) = DOMAIN w \cap (Controls \cup {"no_disk_write", "baseurl"})
    BY SharedIs
  <2>3. U = Settings!Shared(w)
    BY DEF Settings!Unmanaged, w
  <2>. QED
    BY <2>1, <2>2, <2>3, ManagedIs DEF Controls
<1>4. DOMAIN D \subseteq {"diagnose", "noDiagnose"} /\ DOMAIN C \subseteq {"scanMode", "scanAll", "scanClients"}
  BY DiagnosesAre, ScansAre
<1> HIDE DEF T, D, C, U
<1>5. DOMAIN t = DOMAIN D \cup DOMAIN C
  BY LayerOver
<1> HIDE DEF t
<1>6. /\ DOMAIN s = DOMAIN t \cup DOMAIN T
      /\ \A k \in DOMAIN T \ DOMAIN t : s[k] = T[k]
  BY LayerOver
<1> HIDE DEF s
<1>7. DOMAIN s \subseteq DOMAIN Settings!Default /\ ("log" \in DOMAIN s => s["log"] \in BOOLEAN)
  BY <1>2, <1>4, <1>5, <1>6, DefaultIs
<1>8. LayerOK(l)
  BY <1>3, <1>7, LayerOfDocument
<1>. QED
  BY <1>1, <1>8

\* A layer l over the layers d.
LEMMA MergeIs ==
  ASSUME NEW d, NEW l, LayerOK(d), LayerOK(l), NEW m, m = Settings!Merge(d, l)
  PROVE  /\ LayerOK(m) /\ m.cli = d.cli
         /\ DOMAIN m.set = DOMAIN l.set \cup (DOMAIN d.set \ Settings!Cleared(l))
         /\ \A k \in DOMAIN l.set : m.set[k] = l.set[k]
         /\ "clientPath" \in DOMAIN l.set => m.pathBy = d.layers + l.pathBy
         /\ m.uiBy = IF "ui" \in DOMAIN l.set THEN d.layers + l.uiBy ELSE d.uiBy
<1> DEFINE w == Settings!Without(d.set, Settings!Cleared(l))
           s == Settings!++(l.set, w)
           h == Settings!++(l.shared, d.shared)
           p == IF Settings!Sets(l, "clientPath") THEN d.layers + l.pathBy
                ELSE IF "clientPath" \in Settings!Cleared(l) THEN 0 ELSE d.pathBy
           u == IF Settings!Sets(l, "ui") THEN d.layers + l.uiBy ELSE d.uiBy
           n == d.layers + IF l.layers = 0 THEN 1 ELSE l.layers
<1>1. m = [set |-> s, shared |-> h, pathBy |-> p, uiBy |-> u, layers |-> n, cli |-> d.cli]
  BY DEF Settings!Merge
<1>2. DOMAIN w = DOMAIN d.set \ Settings!Cleared(l) /\ \A k \in DOMAIN d.set \ Settings!Cleared(l) : w[k] = d.set[k]
  BY WithoutIs
<1>3. /\ d.pathBy \in Nat /\ d.uiBy \in Nat /\ d.layers \in Nat /\ l.pathBy \in Nat /\ l.uiBy \in Nat /\ l.layers \in Nat
      /\ d.uiBy <= d.layers /\ l.uiBy <= l.layers
      /\ DOMAIN l.set \subseteq DOMAIN Settings!Default /\ DOMAIN d.set \subseteq DOMAIN Settings!Default
      /\ DOMAIN l.shared \subseteq {"question_caches", "baseurl"} /\ DOMAIN d.shared \subseteq {"question_caches", "baseurl"}
      /\ "log" \in DOMAIN l.set => l.set["log"] \in BOOLEAN
      /\ "log" \in DOMAIN d.set => d.set["log"] \in BOOLEAN
  BY DEF LayerOK
<1>4. /\ p \in Nat /\ u \in Nat /\ n \in Nat /\ u <= n
      /\ "clientPath" \in DOMAIN l.set => p = d.layers + l.pathBy
      /\ u = IF "ui" \in DOMAIN l.set THEN d.layers + l.uiBy ELSE d.uiBy
  BY <1>3 DEF Settings!Sets
<1> HIDE DEF w, p, u, n
<1>5. DOMAIN h = DOMAIN l.shared \cup DOMAIN d.shared
  BY LayerOver
<1>6. /\ DOMAIN s = DOMAIN l.set \cup DOMAIN w
      /\ \A k \in DOMAIN l.set : s[k] = l.set[k]
      /\ \A k \in DOMAIN w \ DOMAIN l.set : s[k] = w[k]
  BY LayerOver
<1> HIDE DEF s, h
<1>7. DOMAIN s \subseteq DOMAIN Settings!Default /\ ("log" \in DOMAIN s => s["log"] \in BOOLEAN)
  BY <1>2, <1>3, <1>6
<1>8. DOMAIN h \subseteq {"question_caches", "baseurl"}
  BY <1>3, <1>5
<1>9. LayerOK(m) /\ m.cli = d.cli /\ m.set = s /\ m.pathBy = p /\ m.uiBy = u
  BY <1>1, <1>4, <1>7, <1>8 DEF LayerOK
<1>. QED
  BY <1>2, <1>4, <1>6, <1>9

LEMMA MergedOK ==
  ASSUME LayersOK(layers)
  PROVE  /\ LayerOK(Settings!Merged)
         /\ \E d : LayerOK(d) /\ Settings!Merged = Settings!Merge(d, layers.cli)
<1> DEFINE a == Settings!Merge(layers.base, layers.config)
           b == Settings!Merge(a, layers.json)
<1>1. LayerOK(layers.base) /\ LayerOK(layers.config) /\ LayerOK(layers.json) /\ LayerOK(layers.cli)
  BY DEF LayersOK
<1>2. LayerOK(a)
  BY <1>1, MergeIs
<1>3. Settings!Merged = Settings!Merge(b, layers.cli)
  BY DEF Settings!Merged
<1> HIDE DEF a
<1>4. LayerOK(b)
  BY <1>1, <1>2, MergeIs
<1> HIDE DEF b
<1>. QED
  BY <1>1, <1>3, <1>4, MergeIs

\* What the arguments say of a field they clear stands.
LEMMA ClearedGet ==
  ASSUME NEW d, NEW l, LayerOK(d), LayerOK(l), NEW m, m = Settings!Merge(d, l),
         NEW e, e = Settings!Merge(Settings!Empty, l), NEW f \in Settings!Cleared(l)
  PROVE  /\ Settings!Sets(m, f) <=> Settings!Sets(l, f)
         /\ Settings!Sets(e, f) <=> Settings!Sets(l, f)
         /\ Settings!Get(m, f) = Settings!Get(l, f)
         /\ Settings!Get(e, f) = Settings!Get(l, f)
<1>1. /\ DOMAIN m.set = DOMAIN l.set \cup (DOMAIN d.set \ Settings!Cleared(l))
      /\ \A k \in DOMAIN l.set : m.set[k] = l.set[k]
  BY MergeIs
<1>2. /\ DOMAIN e.set = DOMAIN l.set \cup (DOMAIN Settings!Empty.set \ Settings!Cleared(l))
      /\ \A k \in DOMAIN l.set : e.set[k] = l.set[k]
  <2>1. LayerOK(Settings!Empty)
    BY EmptyIs
  <2>. QED
    BY <2>1, MergeIs
<1>. QED
  BY <1>1, <1>2, EmptyIs DEF Settings!Sets, Settings!Get

\* A path or a way to choose among the arguments is not contradicted by the
\* layers d below them, and no window these ask for takes its place.
LEMMA ArgumentsChoose ==
  ASSUME NEW d, NEW l, LayerOK(d), LayerOK(l), Placed(l), Settings!Chooses(l), NEW m, m = Settings!Merge(d, l)
  PROVE  Settings!SelectionConflict(m) => Settings!SelectionConflict(Settings!Merge(Settings!Empty, l))
<1> DEFINE e == Settings!Merge(Settings!Empty, l)
<1>1. Settings!Selection \subseteq Settings!Cleared(l)
      /\ (Settings!Sets(l, "clientPath") => Settings!Scanning \subseteq Settings!Cleared(l))
  BY DEF Settings!Cleared
<1>2. Settings!Selection = {"clientPath", "clientIndex", "clientFirst", "listClients", "selectClient"}
      /\ "scanClients" \in Settings!Scanning
  BY DEF Settings!Selection, Settings!Scanning
<1>3. e = Settings!Merge(Settings!Empty, l)
  OBVIOUS
<1> HIDE DEF e
<1>4. \A f \in Settings!Cleared(l) : Settings!Get(m, f) = Settings!Get(e, f)
  BY <1>3, ClearedGet
<1>5. Settings!HasIndex(m) => Settings!HasIndex(e)
  BY <1>1, <1>2, <1>3, ClearedGet DEF Settings!HasIndex
<1>6. ASSUME Settings!HasPath(m)
      PROVE  Settings!HasPath(e) /\ Settings!Sets(l, "clientPath")
  <2>1. Settings!Get(m, "clientPath") # "" /\ Settings!Get(m, "clientPath") = Settings!Get(l, "clientPath")
    BY <1>1, <1>2, <1>6, ClearedGet DEF Settings!HasPath
  <2>2. Settings!Default["clientPath"] = ""
    BY DEF Settings!Default
  <2>3. Settings!Sets(l, "clientPath")
    BY <2>1, <2>2 DEF Settings!Get
  <2>4. /\ "clientPath" \in DOMAIN l.set => e.pathBy = Settings!Empty.layers + l.pathBy
        /\ e.uiBy = IF "ui" \in DOMAIN l.set THEN Settings!Empty.layers + l.uiBy ELSE Settings!Empty.uiBy
    BY <1>3, MergeIs, EmptyIs
  <2>5. e.pathBy = 1 /\ (e.uiBy = 1 \/ e.uiBy = 0)
    BY <2>3, <2>4, EmptyIs DEF Placed, Settings!Sets
  <2>6. ~Settings!Suppressed(e)
    BY <2>5 DEF Settings!Suppressed
  <2>. QED
    BY <1>1, <1>2, <1>4, <2>1, <2>3, <2>6 DEF Settings!HasPath
<1>7. \A f \in {"clientFirst", "selectClient", "listClients"} : Settings!Get(m, f) = Settings!Get(e, f)
  BY <1>1, <1>2, <1>4
<1>8. Settings!HasPath(m) => Settings!Get(m, "scanClients") = Settings!Get(e, "scanClients")
  BY <1>1, <1>2, <1>4, <1>6
<1>9. {f \in {"clientFirst", "selectClient", "listClients"} : Settings!Get(m, f)}
      = {f \in {"clientFirst", "selectClient", "listClients"} : Settings!Get(e, f)}
  BY <1>7
<1>10. ASSUME Settings!SelectionConflict(m)
       PROVE  Settings!SelectionConflict(e)
  <2>1. CASE Settings!HasPath(m) /\ Settings!HasIndex(m)
    BY <2>1, <1>5, <1>6 DEF Settings!SelectionConflict
  <2>2. CASE Settings!HasPath(m) /\ \E f \in {"scanClients", "clientFirst", "selectClient", "listClients"} : Settings!Get(m, f)
    BY <2>2, <1>6, <1>7, <1>8 DEF Settings!SelectionConflict
  <2>3. CASE Settings!HasIndex(m) /\ \E f \in {"clientFirst", "selectClient", "listClients"} : Settings!Get(m, f)
    BY <2>3, <1>5, <1>7 DEF Settings!SelectionConflict
  <2>4. CASE Settings!Cardinality({f \in {"clientFirst", "selectClient", "listClients"} : Settings!Get(m, f)}) > 1
    BY <2>4, <1>9 DEF Settings!SelectionConflict
  <2>. QED
    BY <1>10, <2>1, <2>2, <2>3, <2>4 DEF Settings!SelectionConflict
<1>. QED
  BY <1>10 DEF e

\* A path among the arguments is the path of the options.
LEMMA PathIs ==
  ASSUME NEW d, NEW l, LayerOK(d), LayerOK(l), Placed(l), "clientPath" \in DOMAIN l.set, NEW m, m = Settings!Merge(d, l)
  PROVE  Settings!Final(m)["clientPath"] = l.set["clientPath"]
<1>1. /\ m.set["clientPath"] = l.set["clientPath"] /\ "clientPath" \in DOMAIN m.set
      /\ m.pathBy = d.layers + l.pathBy
      /\ m.uiBy = IF "ui" \in DOMAIN l.set THEN d.layers + l.uiBy ELSE d.uiBy
  BY MergeIs
<1>2. ~(m.uiBy > m.pathBy)
  BY <1>1 DEF LayerOK, Placed
<1>3. Settings!Get(m, "clientPath") = l.set["clientPath"] /\ ~Settings!Suppressed(m)
  BY <1>1, <1>2 DEF Settings!Get, Settings!Sets, Settings!Suppressed
<1>4. Settings!Final(m)["clientPath"] = IF Settings!HasPath(m) THEN Settings!Get(m, "clientPath") ELSE ""
  BY DefaultIs DEF Settings!Final
<1>. QED
  BY <1>3, <1>4 DEF Settings!HasPath

\* What the options become.
LEMMA FinalOK ==
  ASSUME NEW o, LayerOK(o)
  PROVE  OptionsOK(Settings!Final(o))
<1> DEFINE quiet == Settings!NoDiskWrite(o) \/ Settings!Get(o, "memory")
           all == [f \in DOMAIN Settings!Default |-> Settings!Get(o, f)]
           chosen == [all EXCEPT !.clientPath = IF Settings!HasPath(o) THEN @ ELSE "", !.noDiskWrite = quiet]
<1>1. Settings!Final(o) = IF quiet THEN [chosen EXCEPT !.log = FALSE, !.diagnose = FALSE, !.noDiagnose = TRUE, !.noScanCache = TRUE]
                          ELSE chosen
  BY DEF Settings!Final
<1>2. Settings!Get(o, "log") \in BOOLEAN
  BY DefaultIs DEF Settings!Get, Settings!Sets, LayerOK
<1>3. /\ DOMAIN chosen = DOMAIN Settings!Default /\ chosen["log"] = Settings!Get(o, "log")
      /\ chosen["noDiskWrite"] = quiet
  BY DefaultIs
<1> HIDE DEF chosen, quiet
<1>. QED
  BY <1>1, <1>2, <1>3, DefaultIs DEF OptionsOK

-----------------------------------------------------------------------------
(* What the dialog shows and writes, and what an exam is started with      *)

\* The settings of a session or an exam: the service, the window's, the options'.
LEMMA BuildIs ==
  ASSUME NEW c, DOMAIN c.settings \subseteq Controls, LayersOK(layers), NEW B, B = Settings!Build(c)
  PROVE  /\ DOMAIN B = ({"baseurl"} \cup DOMAIN c.settings) \cup DOMAIN layers.base.shared
         /\ B["baseurl"] = c.base
         /\ \A k \in DOMAIN c.settings : B[k] = c.settings[k]
         /\ \A k \in DOMAIN layers.base.shared \ ({"baseurl"} \cup DOMAIN c.settings) : B[k] = layers.base.shared[k]
         /\ "no_disk_write" \notin DOMAIN B
<1> DEFINE u == [baseurl |-> c.base]
           s == Settings!Shared(c.settings)
           h == layers.base.shared
           t == Settings!++(u, s)
<1>1. B = Settings!++(t, h)
  BY DEF Settings!Build
<1>2. DOMAIN u = {"baseurl"} /\ u["baseurl"] = c.base
  OBVIOUS
<1>3. DOMAIN s = DOMAIN c.settings /\ \A k \in DOMAIN c.settings : s[k] = c.settings[k]
  <2>1. /\ DOMAIN s = DOMAIN c.settings \cap (Controls \cup {"no_disk_write", "baseurl"})
        /\ \A k \in DOMAIN s : s[k] = c.settings[k]
    BY SharedIs
  <2>. QED
    BY <2>1
<1>4. DOMAIN h \subseteq {"question_caches", "baseurl"}
  BY DEF LayersOK, LayerOK
<1> HIDE DEF u, s, h
<1>5. /\ DOMAIN t = DOMAIN u \cup DOMAIN s
      /\ \A k \in DOMAIN u : t[k] = u[k]
      /\ \A k \in DOMAIN s \ DOMAIN u : t[k] = s[k]
  BY LayerOver
<1> HIDE DEF t
<1>6. /\ DOMAIN B = DOMAIN t \cup DOMAIN h
      /\ \A k \in DOMAIN t : B[k] = t[k]
      /\ \A k \in DOMAIN h \ DOMAIN t : B[k] = h[k]
  BY <1>1, LayerOver
<1>7. "baseurl" \notin Controls /\ "no_disk_write" \notin Controls
  BY DEF Controls
<1>8. /\ DOMAIN B = ({"baseurl"} \cup DOMAIN c.settings) \cup DOMAIN h
      /\ B["baseurl"] = c.base
      /\ \A k \in DOMAIN c.settings : B[k] = c.settings[k]
      /\ \A k \in DOMAIN h \ ({"baseurl"} \cup DOMAIN c.settings) : B[k] = h[k]
      /\ "no_disk_write" \notin DOMAIN B
  BY <1>2, <1>3, <1>4, <1>5, <1>6, <1>7
<1>. QED
  BY <1>8 DEF h

\* The option f when the settings S are applied.
AppliedAt(S, f) ==
    IF f = "log" /\ "log_enabled" \in DOMAIN S THEN S["log_enabled"]
    ELSE IF f = "key" /\ "answer_key" \in DOMAIN S THEN S["answer_key"]
    ELSE IF f = "threads" /\ "answer_threads" \in DOMAIN S THEN S["answer_threads"]
    ELSE IF f = "theme" /\ "panel_theme" \in DOMAIN S THEN S["panel_theme"]
    ELSE options[f]

LEMMA AppliedIs ==
  ASSUME NEW S, "no_disk_write" \notin DOMAIN S
  PROVE  Settings!Applied(S) = [f \in DOMAIN options |-> AppliedAt(S, f)]
<1> DEFINE T == Settings!Typed([top |-> Settings!Nothing, settings |-> S])
<1>1. Settings!Applied(S) = [f \in DOMAIN options |-> IF f \in DOMAIN T THEN T[f] ELSE options[f]]
  BY DEF Settings!Applied
<1>2. /\ DOMAIN T \subseteq {"log", "key", "threads", "theme"}
      /\ "log" \in DOMAIN T <=> "log_enabled" \in DOMAIN S
      /\ "key" \in DOMAIN T <=> "answer_key" \in DOMAIN S
      /\ "threads" \in DOMAIN T <=> "answer_threads" \in DOMAIN S
      /\ "theme" \in DOMAIN T <=> "panel_theme" \in DOMAIN S
      /\ "log" \in DOMAIN T => T["log"] = S["log_enabled"]
      /\ "key" \in DOMAIN T => T["key"] = S["answer_key"]
      /\ "threads" \in DOMAIN T => T["threads"] = S["answer_threads"]
      /\ "theme" \in DOMAIN T => T["theme"] = S["panel_theme"]
  BY TypedSettings
<1> HIDE DEF T
<1>3. \A f \in DOMAIN options : (IF f \in DOMAIN T THEN T[f] ELSE options[f]) = AppliedAt(S, f)
  BY <1>2 DEF AppliedAt
<1>. QED
  BY <1>1, <1>3

\* The dialog shows a setting that there is, and otherwise the option.
LEMMA PopulatedIs ==
  ASSUME NEW c, NEW B, B = Settings!Build(c), NEW P, P = Settings!Populated(c)
  PROVE  /\ DOMAIN P = Controls
         /\ \A k \in Controls \cap DOMAIN B : P[k] = B[k]
         /\ "log_enabled" \notin DOMAIN B => P["log_enabled"] = (options["log"] /\ ~options["noDiskWrite"])
         /\ "answer_key" \notin DOMAIN B => P["answer_key"] = options["key"]
         /\ "answer_threads" \notin DOMAIN B => P["answer_threads"] = options["threads"]
<1>1. P = [k \in Controls |->
             IF k \in DOMAIN B THEN B[k]
             ELSE CASE k = "log_enabled"     -> options.log /\ ~options.noDiskWrite
                    [] k = "answer_key"      -> options.key
                    [] k = "answer_threads"  -> options.threads
                    [] k = "question_caches" -> "on"
                    [] k = "panel_theme"     -> "unselected"]
  BY DEF Settings!Populated, Settings!Controls, Controls
<1>2. DOMAIN P = Controls /\ \A k \in Controls \cap DOMAIN B : P[k] = B[k]
  BY <1>1
<1>3. "log_enabled" \in Controls /\ "answer_key" \in Controls /\ "answer_threads" \in Controls
  BY DEF Controls
<1>. QED
  BY <1>1, <1>2, <1>3

LEMMA PatchIs ==
  ASSUME NEW form, DOMAIN form = Controls, NEW p, p = Settings!Patch(form)
  PROVE  /\ DOMAIN p = Controls
         /\ p["log_enabled"] = (form["log_enabled"] /\ ~options["noDiskWrite"])
         /\ \A k \in Controls \ {"log_enabled"} : p[k] = form[k]
  BY DEF Settings!Patch, Controls

\* What is saved of a form.
LEMMA SavedIs ==
  ASSUME NEW c, c \in [settings : {c.settings}, base : {c.base}], DOMAIN c.settings \subseteq Controls,
         NEW form, DOMAIN form = Controls, NEW s, s = Settings!Saved(c, form)
  PROVE  /\ s \in [settings : {s.settings}, base : {s.base}] /\ s.base = c.base /\ DOMAIN s.settings = Controls
         /\ s.settings["log_enabled"] = (form["log_enabled"] /\ ~options["noDiskWrite"])
         /\ \A k \in Controls \ {"log_enabled"} : s.settings[k] = form[k]
<1> DEFINE p == Settings!Patch(form)
           t == Settings!++(p, c.settings)
<1>1. s = [c EXCEPT !.settings = t]
  BY DEF Settings!Saved
<1>2. /\ DOMAIN p = Controls
      /\ p["log_enabled"] = (form["log_enabled"] /\ ~options["noDiskWrite"])
      /\ \A k \in Controls \ {"log_enabled"} : p[k] = form[k]
  BY PatchIs
<1> HIDE DEF p
<1>3. DOMAIN t = DOMAIN p \cup DOMAIN c.settings /\ \A k \in DOMAIN p : t[k] = p[k]
  BY LayerOver
<1> HIDE DEF t
<1>4. s \in [settings : {t}, base : {c.base}]
  BY <1>1
<1>5. s.settings = t /\ s.base = c.base
  BY <1>4
<1>6. "log_enabled" \in Controls
  BY DEF Controls
<1>. QED
  BY <1>2, <1>3, <1>4, <1>5, <1>6

\* A theme that is picked in the dialog.
LEMMA ThemeIs ==
  ASSUME NEW P, DOMAIN P = Controls, NEW theme, NEW form, form = Settings!WithTheme(P, theme)
  PROVE  /\ DOMAIN form = Controls /\ form["panel_theme"] = theme
         /\ \A k \in Controls \ {"panel_theme"} : form[k] = P[k]
  BY DEF Settings!WithTheme, Controls

\* To save the dialog with no more than a theme picked in it changes neither
\* another setting nor another option.
LEMMA SavingKeepsTheRest ==
  ASSUME LayersOK(layers), OptionsOK(options), HomeOK(home, options), NEW theme,
         NEW kept, kept = Settings!Saved(home, Settings!WithTheme(Settings!Populated(home), theme))
  PROVE  /\ Settings!Applied(Settings!Build(kept)) = [Settings!Applied(Settings!Build(home)) EXCEPT !["theme"] = theme]
         /\ \A k \in DOMAIN Settings!Build(home) \ {"panel_theme"} : Settings!Build(kept)[k] = Settings!Build(home)[k]
<1> DEFINE B == Settings!Build(home)
           P == Settings!Populated(home)
           form == Settings!WithTheme(P, theme)
           C == Settings!Build(kept)
<1>1. home \in [settings : {home.settings}, base : {home.base}] /\ DOMAIN home.settings \subseteq Controls
  BY DEF HomeOK
<1>2. /\ DOMAIN B = ({"baseurl"} \cup DOMAIN home.settings) \cup DOMAIN layers.base.shared
      /\ B["baseurl"] = home.base
      /\ \A k \in DOMAIN home.settings : B[k] = home.settings[k]
      /\ "no_disk_write" \notin DOMAIN B
  <2>1. B = Settings!Build(home)
    OBVIOUS
  <2> HIDE DEF B
  <2>. QED
    BY <1>1, <2>1, BuildIs
<1>3. DOMAIN layers.base.shared \subseteq {"question_caches", "baseurl"}
  BY DEF LayersOK, LayerOK
<1> HIDE DEF B
<1>4. /\ DOMAIN P = Controls
      /\ \A k \in Controls \cap DOMAIN B : P[k] = B[k]
      /\ "log_enabled" \notin DOMAIN B => P["log_enabled"] = (options["log"] /\ ~options["noDiskWrite"])
      /\ "answer_key" \notin DOMAIN B => P["answer_key"] = options["key"]
      /\ "answer_threads" \notin DOMAIN B => P["answer_threads"] = options["threads"]
  <2>1. B = Settings!Build(home)
    BY DEF B
  <2>. QED
    BY <2>1, PopulatedIs
<1> HIDE DEF P
<1>5. /\ DOMAIN form = Controls /\ form["panel_theme"] = theme
      /\ \A k \in Controls \ {"panel_theme"} : form[k] = P[k]
  BY <1>4, ThemeIs
<1>6. kept = Settings!Saved(home, form)
  BY DEF P
<1> HIDE DEF form
<1>7. /\ "log_enabled" \in Controls /\ "answer_key" \in Controls /\ "answer_threads" \in Controls
      /\ "question_caches" \in Controls /\ "panel_theme" \in Controls /\ "baseurl" \notin Controls
  BY DEF Controls
<1>8. /\ kept \in [settings : {kept.settings}, base : {kept.base}] /\ kept.base = home.base /\ DOMAIN kept.settings = Controls
      /\ kept.settings["log_enabled"] = (P["log_enabled"] /\ ~options["noDiskWrite"])
      /\ kept.settings["panel_theme"] = theme
      /\ \A k \in Controls \ {"log_enabled", "panel_theme"} : kept.settings[k] = P[k]
  <2>1. /\ kept \in [settings : {kept.settings}, base : {kept.base}] /\ kept.base = home.base /\ DOMAIN kept.settings = Controls
        /\ kept.settings["log_enabled"] = (form["log_enabled"] /\ ~options["noDiskWrite"])
        /\ \A k \in Controls \ {"log_enabled"} : kept.settings[k] = form[k]
    BY <1>1, <1>5, <1>6, SavedIs
  <2>. QED
    BY <1>5, <1>7, <2>1
<1>9. /\ DOMAIN C = ({"baseurl"} \cup DOMAIN kept.settings) \cup DOMAIN layers.base.shared
      /\ C["baseurl"] = kept.base
      /\ \A k \in DOMAIN kept.settings : C[k] = kept.settings[k]
      /\ "no_disk_write" \notin DOMAIN C
  <2>1. C = Settings!Build(kept)
    OBVIOUS
  <2>2. DOMAIN kept.settings \subseteq Controls
    BY <1>8
  <2> HIDE DEF C
  <2>3. ASSUME NEW c, c = kept, NEW D, D = C
        PROVE  /\ DOMAIN D = ({"baseurl"} \cup DOMAIN c.settings) \cup DOMAIN layers.base.shared
               /\ D["baseurl"] = c.base
               /\ \A k \in DOMAIN c.settings : D[k] = c.settings[k]
               /\ "no_disk_write" \notin DOMAIN D
    <3>1. D = Settings!Build(c) /\ DOMAIN c.settings \subseteq Controls
      BY <2>1, <2>2, <2>3
    <3>. QED
      BY <3>1, BuildIs
  <2>. QED
    BY <2>3
<1> HIDE DEF C
<1>10. "log_enabled" \in DOMAIN B =>
          B["log_enabled"] \in BOOLEAN /\ (options["noDiskWrite"] => ~B["log_enabled"])
  <2>1. "log_enabled" \in DOMAIN B => "log_enabled" \in DOMAIN home.settings
    BY <1>2, <1>3
  <2>. QED
    BY <1>2, <2>1 DEF HomeOK
<1>11. options["log"] \in BOOLEAN /\ (options["noDiskWrite"] => ~options["log"]) /\ "theme" \in DOMAIN options
  BY DefaultIs DEF OptionsOK
<1>12. C["log_enabled"] = IF "log_enabled" \in DOMAIN B THEN B["log_enabled"] ELSE options["log"]
  <2>1. C["log_enabled"] = (P["log_enabled"] /\ ~options["noDiskWrite"])
    BY <1>7, <1>8, <1>9
  <2>2. CASE "log_enabled" \in DOMAIN B
    <3>1. P["log_enabled"] = B["log_enabled"]
      BY <1>4, <1>7, <2>2
    <3>. QED
      BY <1>10, <2>1, <2>2, <3>1
  <2>3. CASE "log_enabled" \notin DOMAIN B
    <3>1. P["log_enabled"] = (options["log"] /\ ~options["noDiskWrite"])
      BY <1>4, <2>3
    <3>. QED
      BY <1>11, <2>1, <2>3, <3>1
  <2>. QED
    BY <2>2, <2>3
<1>13. C["panel_theme"] = theme /\ \A k \in Controls \ {"log_enabled", "panel_theme"} : C[k] = P[k]
  BY <1>7, <1>8, <1>9
<1>14. \A k \in DOMAIN B \ {"panel_theme"} : C[k] = B[k]
  <2> SUFFICES ASSUME NEW k \in DOMAIN B \ {"panel_theme"}
               PROVE  C[k] = B[k]
    OBVIOUS
  <2>1. CASE k = "baseurl"
    BY <1>2, <1>8, <1>9, <2>1
  <2>2. CASE k = "log_enabled"
    BY <1>12, <2>2
  <2>3. CASE k \in Controls \ {"log_enabled", "panel_theme"}
    BY <1>4, <1>13, <2>3
  <2>. QED
    BY <1>1, <1>2, <1>3, <1>7, <2>1, <2>2, <2>3
<1>15. \A f \in DOMAIN options : AppliedAt(C, f) = IF f = "theme" THEN theme ELSE AppliedAt(B, f)
  <2>1. /\ "log_enabled" \in DOMAIN C /\ "answer_key" \in DOMAIN C /\ "answer_threads" \in DOMAIN C
        /\ "panel_theme" \in DOMAIN C
    BY <1>7, <1>8, <1>9
  <2>2. C["answer_key"] = IF "answer_key" \in DOMAIN B THEN B["answer_key"] ELSE options["key"]
    BY <1>4, <1>7, <1>13
  <2>3. C["answer_threads"] = IF "answer_threads" \in DOMAIN B THEN B["answer_threads"] ELSE options["threads"]
    BY <1>4, <1>7, <1>13
  <2>. QED
    BY <1>12, <1>13, <2>1, <2>2, <2>3 DEF AppliedAt
<1>16. Settings!Applied(C) = [Settings!Applied(B) EXCEPT !["theme"] = theme]
  <2>1. /\ Settings!Applied(C) = [f \in DOMAIN options |-> AppliedAt(C, f)]
        /\ Settings!Applied(B) = [f \in DOMAIN options |-> AppliedAt(B, f)]
    BY <1>2, <1>9, AppliedIs
  <2>. QED
    BY <1>11, <1>15, <2>1
<1>. QED
  BY <1>14, <1>16 DEF B, C

LEMMA SavingKeeps ==
  ASSUME LayersOK(layers), OptionsOK(options), HomeOK(home, options)
  PROVE  Settings!SaveKeeps
  BY SavingKeepsTheRest DEF Settings!SaveKeeps

\* An exam writes no log when nothing may be written.
LEMMA ExamApplied ==
  ASSUME LayersOK(layers), OptionsOK(options), HomeOK(home, options), options["noDiskWrite"],
         NEW o, o = Settings!Applied(Settings!Build(home))
  PROVE  o["noDiskWrite"] /\ ~o["log"]
<1> DEFINE B == Settings!Build(home)
<1>1. DOMAIN home.settings \subseteq Controls
  BY DEF HomeOK
<1>2. /\ DOMAIN B = ({"baseurl"} \cup DOMAIN home.settings) \cup DOMAIN layers.base.shared
      /\ \A k \in DOMAIN home.settings : B[k] = home.settings[k]
      /\ "no_disk_write" \notin DOMAIN B
  BY <1>1, BuildIs
<1>3. DOMAIN layers.base.shared \subseteq {"question_caches", "baseurl"}
  BY DEF LayersOK, LayerOK
<1> HIDE DEF B
<1>4. o = [f \in DOMAIN options |-> AppliedAt(B, f)]
  BY <1>2, AppliedIs DEF B
<1>5. /\ "log" \in DOMAIN options /\ "noDiskWrite" \in DOMAIN options /\ ~options["log"]
  BY DefaultIs DEF OptionsOK
<1>6. "log_enabled" \in DOMAIN B => "log_enabled" \in DOMAIN home.settings
  BY <1>2, <1>3
<1>7. "log_enabled" \in DOMAIN B => ~B["log_enabled"]
  BY <1>2, <1>6 DEF HomeOK
<1>8. ~AppliedAt(B, "log")
  BY <1>5, <1>7 DEF AppliedAt
<1>9. AppliedAt(B, "noDiskWrite") = options["noDiskWrite"]
  BY DEF AppliedAt
<1>. QED
  BY <1>4, <1>5, <1>8, <1>9

\* Reading on, or refusing for another reason than the choice of a client.
LEMMA ReadsOn ==
  ASSUME SettingsInv, at # "ready", LayersOK(layers'), UNCHANGED <<options, home, last>>,
         \/ at' \in {"default", "arguments", "config", "json", "merge"}
         \/ at' = "refused" /\ why' # {"selection"},
         at' \in {"config", "json", "merge"} => Placed(layers'.cli)
  PROVE  SettingsInv'
<1>1. OptionsOK(options)' /\ HomeOK(home, options)'
  BY DEF SettingsInv, OptionsOK, HomeOK
<1>2. LayersOK(layers)'
  BY DEF LayersOK, LayerOK
<1>3. Settings!CliSelectionWins'
  BY DEF Settings!CliSelectionWins
<1>4. last.what # "exam" /\ home.settings = Settings!Nothing
  BY DEF SettingsInv
<1>5. Settings!ExamKeepsPromise'
  BY <1>4 DEF Settings!ExamKeepsPromise
<1>6. (at \in {"config", "json", "merge"} => Placed(layers.cli))'
  BY DEF Placed
<1>7. (at # "ready" => home.settings = Settings!Nothing /\ last.what # "exam")'
  BY <1>4 DEF Settings!Nothing
<1>. QED
  BY <1>1, <1>2, <1>3, <1>5, <1>6, <1>7 DEF SettingsInv

LEMMA LayerPut ==
  ASSUME LayersOK(layers), NEW l \in {"base", "config", "json"}, NEW n, LayerOK(n), layers' = [layers EXCEPT ![l] = n]
  PROVE  LayersOK(layers') /\ layers'.cli = layers.cli
<1>1. layers \in [base : {layers.base}, config : {layers.config}, json : {layers.json}, cli : {layers.cli}]
  BY DEF LayersOK
<1>2. /\ layers' \in [base : {layers'.base}, config : {layers'.config}, json : {layers'.json}, cli : {layers'.cli}]
      /\ layers'.cli = layers.cli
      /\ layers'.base = layers.base \/ layers'.base = n
      /\ layers'.config = layers.config \/ layers'.config = n
      /\ layers'.json = layers.json \/ layers'.json = n
  BY <1>1
<1>. QED
  BY <1>2 DEF LayersOK

\* cx_options_load_file, cx_options_apply_pending_json: the document or a refusal
LEMMA LoadStep ==
  ASSUME LayersOK(layers), NEW l \in {"base", "config", "json"}, NEW n, Settings!Load(l, n)
  PROVE  /\ LayersOK(layers') /\ layers'.cli = layers.cli /\ UNCHANGED options
         /\ at' = n \/ (at' = "refused" /\ why' = {"document"})
<1>1. PICK doc \in Documents :
        IF Settings!Readable(doc)
        THEN /\ layers' = [layers EXCEPT ![l] = Settings!Merge(@, Settings!DocumentLayer(doc))]
             /\ at' = n /\ UNCHANGED <<options, why>>
        ELSE Settings!Refuse({"document"})
  BY DEF Settings!Load
<1>2. CASE Settings!Readable(doc)
  <2> DEFINE m == Settings!Merge(layers[l], Settings!DocumentLayer(doc))
  <2>1. LayerOK(layers[l])
    BY DEF LayersOK
  <2>2. LayerOK(Settings!DocumentLayer(doc))
    BY <1>2, DocumentLayerOK
  <2>3. LayerOK(m)
    BY <2>1, <2>2, MergeIs
  <2>4. layers' = [layers EXCEPT ![l] = m]
    BY <1>1, <1>2
  <2> HIDE DEF m
  <2>5. LayersOK(layers') /\ layers'.cli = layers.cli
    BY <2>3, <2>4, LayerPut
  <2>. QED
    BY <1>1, <1>2, <2>5
<1>3. CASE ~Settings!Readable(doc)
  BY <1>1, <1>3 DEF Settings!Refuse
<1>. QED
  BY <1>2, <1>3

LEMMA LoadDefaultStep ==
  ASSUME SettingsInv, Settings!LoadDefault, UNCHANGED <<home, last>>
  PROVE  SettingsInv'
<1>1. at = "default"
  BY DEF Settings!LoadDefault
<1>2. LayersOK(layers)
  BY DEF SettingsInv
<1>3. CASE Settings!Skip("arguments")
  BY <1>1, <1>2, <1>3, ReadsOn DEF Settings!Skip
<1>4. CASE Settings!Load("base", "arguments")
  <2>1. /\ LayersOK(layers') /\ UNCHANGED options
        /\ at' = "arguments" \/ (at' = "refused" /\ why' = {"document"})
    BY <1>2, <1>4, LoadStep
  <2>. QED
    BY <1>1, <2>1, ReadsOn
<1>. QED
  BY <1>3, <1>4 DEF Settings!LoadDefault

LEMMA LoadFurtherStep ==
  ASSUME SettingsInv, Settings!LoadConfig \/ Settings!LoadPending, UNCHANGED <<home, last>>
  PROVE  SettingsInv'
<1>1. PICK l \in {"config", "json"}, n \in {"json", "merge"} : at = l /\ (Settings!Load(l, n) \/ Settings!Skip(n))
  BY DEF Settings!LoadConfig, Settings!LoadPending
<1>2. LayersOK(layers) /\ Placed(layers.cli)
  BY <1>1 DEF SettingsInv
<1>3. CASE Settings!Skip(n)
  BY <1>1, <1>2, <1>3, ReadsOn DEF Settings!Skip
<1>4. CASE Settings!Load(l, n)
  <2>1. /\ LayersOK(layers') /\ layers'.cli = layers.cli /\ UNCHANGED options
        /\ at' = n \/ (at' = "refused" /\ why' = {"document"})
    BY <1>2, <1>4, LoadStep
  <2>. QED
    BY <1>1, <1>2, <2>1, ReadsOn
<1>. QED
  BY <1>1, <1>3, <1>4

LEMMA BadArgumentStep ==
  ASSUME SettingsInv, Settings!BadArgument, UNCHANGED <<home, last>>
  PROVE  SettingsInv'
<1>1. at = "arguments" /\ at' = "refused" /\ why' = {"argument"} /\ UNCHANGED <<layers, options>>
  BY DEF Settings!BadArgument, Settings!Refuse
<1>2. LayersOK(layers)
  BY DEF SettingsInv
<1>. QED
  BY <1>1, <1>2, ReadsOn

LEMMA LayersAreRecords ==
  ASSUME NEW x, LayersOK(x)
  PROVE  /\ x \in [base : {x.base}, config : {x.config}, json : {x.json}, cli : {x.cli}]
         /\ x.cli \in [set : {x.cli.set}, shared : {x.cli.shared}, pathBy : Nat, uiBy : Nat, layers : Nat, cli : {x.cli.cli}]
  BY DEF LayersOK, LayerOK

\* The layers y, whose layer of arguments is sound, are x but for that layer.
LEMMA ArgumentsPut ==
  ASSUME NEW x, LayersOK(x), NEW y, LayerOK(y.cli),
         y \in [base : {x.base}, config : {x.config}, json : {x.json}, cli : {y.cli}]
  PROVE  LayersOK(y)
<1>1. y.base = x.base /\ y.config = x.config /\ y.json = x.json
  OBVIOUS
<1>. QED
  BY <1>1 DEF LayersOK

LEMMA ArgumentPut ==
  ASSUME NEW x, LayersOK(x), NEW s, NEW y, y = [x EXCEPT !.cli.set = s, !.cli.layers = @ + 1],
         DOMAIN s \subseteq DOMAIN Settings!Default, "log" \in DOMAIN s => s["log"] \in BOOLEAN
  PROVE  LayersOK(y)
<1>1. /\ x \in [base : {x.base}, config : {x.config}, json : {x.json}, cli : {x.cli}]
      /\ x.cli \in [set : {x.cli.set}, shared : {x.cli.shared}, pathBy : Nat, uiBy : Nat, layers : Nat, cli : {x.cli.cli}]
  BY LayersAreRecords
<1>2. y \in [base : {x.base}, config : {x.config}, json : {x.json}, cli : {y.cli}]
  BY <1>1
<1> DEFINE l == x.cli
           c == y.cli
<1>3. c = [l EXCEPT !.set = s, !.layers = @ + 1]
  BY <1>1
<1>4. l \in [set : {l.set}, shared : {l.shared}, pathBy : Nat, uiBy : Nat, layers : Nat, cli : {l.cli}]
  BY <1>1
<1>5. LayerOK(l)
  BY DEF LayersOK
<1>6. LayerOK(c)
  <2> HIDE DEF l, c
  <2>1. /\ c.set = s /\ c.layers = l.layers + 1 /\ c.shared = l.shared
        /\ c.pathBy = l.pathBy /\ c.uiBy = l.uiBy /\ c.cli = l.cli
    BY <1>3, <1>4
  <2>2. c \in [set : {s}, shared : {l.shared}, pathBy : Nat, uiBy : Nat, layers : Nat, cli : {l.cli}]
    <3> DEFINE n == l.layers + 1
    <3>1. n \in Nat
      BY <1>4
    <3>2. c = [l EXCEPT !.set = s, !.layers = n]
      BY <1>3
    <3> HIDE DEF n
    <3>. QED
      BY <1>4, <3>1, <3>2
  <2>3. l.uiBy <= l.layers + 1 /\ DOMAIN l.shared \subseteq {"question_caches", "baseurl"}
    BY <1>4, <1>5 DEF LayerOK
  <2>. QED
    BY <2>1, <2>2, <2>3 DEF LayerOK
<1>. QED
  BY <1>2, <1>6, ArgumentsPut DEF c

LEMMA ArgumentsPlaced ==
  ASSUME NEW x, LayersOK(x), NEW y, y = [x EXCEPT !.cli.layers = 1, !.cli.pathBy = 1, !.cli.uiBy = 1]
  PROVE  LayersOK(y) /\ Placed(y.cli)
<1>1. /\ x \in [base : {x.base}, config : {x.config}, json : {x.json}, cli : {x.cli}]
      /\ x.cli \in [set : {x.cli.set}, shared : {x.cli.shared}, pathBy : Nat, uiBy : Nat, layers : Nat, cli : {x.cli.cli}]
  BY LayersAreRecords
<1>2. y \in [base : {x.base}, config : {x.config}, json : {x.json}, cli : {y.cli}]
  BY <1>1
<1> DEFINE l == x.cli
           c == y.cli
<1>3. c = [l EXCEPT !.layers = 1, !.pathBy = 1, !.uiBy = 1]
  BY <1>1
<1>4. l \in [set : {l.set}, shared : {l.shared}, pathBy : Nat, uiBy : Nat, layers : Nat, cli : {l.cli}]
  BY <1>1
<1>5. LayerOK(l)
  BY DEF LayersOK
<1>6. LayerOK(c) /\ Placed(c)
  <2> HIDE DEF l, c
  <2>1. /\ c.set = l.set /\ c.layers = 1 /\ c.shared = l.shared
        /\ c.pathBy = 1 /\ c.uiBy = 1 /\ c.cli = l.cli
    BY <1>3, <1>4
  <2>2. c \in [set : {l.set}, shared : {l.shared}, pathBy : Nat, uiBy : Nat, layers : Nat, cli : {l.cli}]
    BY <1>3, <1>4
  <2>. QED
    BY <1>5, <2>1, <2>2 DEF LayerOK, Placed
<1>. QED
  BY <1>2, <1>6, ArgumentsPut DEF c

LEMMA ParseArgumentStep ==
  ASSUME SettingsInv, Settings!ParseArgument, UNCHANGED <<home, last>>
  PROVE  SettingsInv'
<1>1. PICK a \in Arguments :
        LET idle == IF "deleteSuspend" \in DOMAIN a /\ ~a["deleteSuspend"] /\ ~Settings!Sets(layers.cli, "deleteSuspend")
                    THEN {"deleteSuspend"} ELSE {}
        IN layers' = [layers EXCEPT !.cli.set = Settings!++(Settings!Without(a, idle), @), !.cli.layers = @ + 1]
  BY DEF Settings!ParseArgument
<1> DEFINE idle == IF "deleteSuspend" \in DOMAIN a /\ ~a["deleteSuspend"] /\ ~Settings!Sets(layers.cli, "deleteSuspend")
                   THEN {"deleteSuspend"} ELSE {}
           w == Settings!Without(a, idle)
           s == Settings!++(w, layers.cli.set)
           l == layers.cli
<1>2. LayersOK(layers) /\ LayerOK(l)
  BY DEF SettingsInv, LayersOK
<1>3. DOMAIN a \subseteq DOMAIN Settings!Default /\ ("log" \in DOMAIN a => a["log"] \in BOOLEAN)
  BY SettingsAssumption
<1>4. layers' = [layers EXCEPT !.cli.set = s, !.cli.layers = @ + 1]
  BY <1>1
<1> HIDE DEF idle
<1>5. DOMAIN w = DOMAIN a \ idle /\ \A k \in DOMAIN a \ idle : w[k] = a[k]
  BY WithoutIs
<1> HIDE DEF w
<1>6. /\ DOMAIN s = DOMAIN w \cup DOMAIN l.set
      /\ \A k \in DOMAIN w : s[k] = w[k]
      /\ \A k \in DOMAIN l.set \ DOMAIN w : s[k] = l.set[k]
  BY LayerOver
<1> HIDE DEF s
<1>7. DOMAIN s \subseteq DOMAIN Settings!Default /\ ("log" \in DOMAIN s => s["log"] \in BOOLEAN)
  BY <1>2, <1>3, <1>5, <1>6 DEF LayerOK
<1>8. LayersOK(layers')
  BY <1>2, <1>4, <1>7, ArgumentPut
<1>9. at = "arguments" /\ at' = "arguments" /\ UNCHANGED options
  BY DEF Settings!ParseArgument
<1>. QED
  BY <1>8, <1>9, ReadsOn

LEMMA ParsedStep ==
  ASSUME SettingsInv, Settings!Parsed, UNCHANGED <<home, last>>
  PROVE  SettingsInv'
<1>1. at = "arguments" /\ at' = "config" /\ UNCHANGED options
      /\ layers' = [layers EXCEPT !.cli.layers = 1, !.cli.pathBy = 1, !.cli.uiBy = 1]
  BY DEF Settings!Parsed
<1>2. LayersOK(layers)
  BY DEF SettingsInv
<1>3. LayersOK(layers') /\ Placed(layers'.cli)
  BY <1>1, <1>2, ArgumentsPlaced
<1>. QED
  BY <1>1, <1>3, ReadsOn

\* What is left of the layers when the options are made.
LEMMA LayersLeft ==
  ASSUME NEW c, LayerOK(c), NEW m, LayerOK(m), NEW y,
         y = [base |-> [Settings!Empty EXCEPT !.shared = m.shared], config |-> Settings!Empty,
              json |-> Settings!Empty, cli |-> c]
  PROVE  LayersOK(y)
<1> DEFINE b == [Settings!Empty EXCEPT !.shared = m.shared]
<1>1. LayerOK(b)
  <2> DEFINE E == Settings!Empty
             h == m.shared
  <2>1. E \in [set : {E.set}, shared : {E.shared}, pathBy : Nat, uiBy : Nat, layers : Nat, cli : {E.cli}] /\ LayerOK(E)
    BY EmptyIs DEF LayerOK
  <2>2. DOMAIN h \subseteq {"question_caches", "baseurl"}
    BY DEF LayerOK
  <2> HIDE DEF E, h
  <2>3. b = [E EXCEPT !.shared = h]
    BY DEF E, h
  <2> HIDE DEF b
  <2>4. b.set = E.set /\ b.shared = h /\ b.layers = E.layers /\ b.uiBy = E.uiBy /\ b.pathBy = E.pathBy /\ b.cli = E.cli
    BY <2>1, <2>3
  <2>5. b \in [set : {E.set}, shared : {h}, pathBy : Nat, uiBy : Nat, layers : Nat, cli : {E.cli}]
    BY <2>1, <2>3
  <2>. QED
    BY <2>1, <2>2, <2>4, <2>5 DEF LayerOK
<1>2. y = [base |-> b, config |-> Settings!Empty, json |-> Settings!Empty, cli |-> c]
  OBVIOUS
<1> HIDE DEF b
<1>3. LayerOK(Settings!Empty)
  BY EmptyIs
<1>4. /\ y \in [base : {y.base}, config : {y.config}, json : {y.json}, cli : {y.cli}]
      /\ y.base = b /\ y.config = Settings!Empty /\ y.json = Settings!Empty /\ y.cli = c
  BY <1>2
<1>. QED
  BY <1>1, <1>3, <1>4 DEF LayersOK

\* cx_options_finalize: the refusals, or the options that all layers make
LEMMA FinalizeStep ==
  ASSUME SettingsInv, Settings!Finalize, UNCHANGED <<home, last>>
  PROVE  SettingsInv'
<1>1. /\ LayersOK(layers) /\ Placed(layers.cli) /\ LayerOK(layers.cli)
      /\ at = "merge" /\ home.settings = Settings!Nothing /\ last.what # "exam"
  BY DEF SettingsInv, LayersOK, Settings!Finalize
<1>2. PICK d : LayerOK(d) /\ Settings!Merged = Settings!Merge(d, layers.cli)
  BY <1>1, MergedOK
<1>3. LayerOK(Settings!Merged)
  BY <1>1, MergedOK
<1>4. Settings!ExamKeepsPromise'
  BY <1>1 DEF Settings!ExamKeepsPromise
<1>5. CASE Settings!Refusals(Settings!Merged) # {}
  <2>1. at' = "refused" /\ why' = Settings!Refusals(Settings!Merged) /\ UNCHANGED <<layers, options>>
    BY <1>5 DEF Settings!Finalize, Settings!Refuse
  <2>2. ASSUME why' = {"selection"}, Settings!Chooses(layers.cli)
        PROVE  Settings!SelectionConflict(Settings!Merge(Settings!Empty, layers.cli))
    <3>1. Settings!SelectionConflict(Settings!Merged)
      BY <2>1, <2>2 DEF Settings!Refusals
    <3>. QED
      BY <1>1, <1>2, <2>2, <3>1, ArgumentsChoose
  <2>3. Settings!CliSelectionWins'
    BY <2>1, <2>2 DEF Settings!CliSelectionWins, Settings!Chooses, Settings!SelectionConflict, Settings!Merge
  <2>. QED
    BY <1>1, <1>4, <2>1, <2>3 DEF SettingsInv
<1>6. CASE Settings!Refusals(Settings!Merged) = {}
  <2>1. /\ at' = "ready" /\ options' = Settings!Final(Settings!Merged)
        /\ layers' = [base |-> [Settings!Empty EXCEPT !.shared = Settings!Merged.shared], config |-> Settings!Empty,
                      json |-> Settings!Empty, cli |-> layers.cli]
    BY <1>6 DEF Settings!Finalize
  <2>2. OptionsOK(options')
    BY <1>3, <2>1, FinalOK
  <2>3. LayersOK(layers')
    BY <1>1, <1>3, <2>1, LayersLeft
  <2>4. Settings!CliSelectionWins'
    <3>1. layers'.cli = layers.cli
      BY <2>1
    <3>2. "clientPath" \in DOMAIN layers.cli.set => options'["clientPath"] = layers.cli.set["clientPath"]
      BY <1>1, <1>2, <2>1, PathIs
    <3>. QED
      BY <2>1, <3>1, <3>2 DEF Settings!CliSelectionWins, Settings!Sets
  <2>5. HomeOK(home, options)'
    <3>1. DOMAIN home.settings = {} /\ home \in [settings : {home.settings}, base : {home.base}]
      BY <1>1, NothingIs DEF SettingsInv, HomeOK
    <3>. QED
      BY <3>1 DEF HomeOK
  <2>6. LayersOK(layers)' /\ OptionsOK(options)'
    BY <2>2, <2>3 DEF LayersOK, LayerOK, OptionsOK
  <2>. QED
    BY <1>4, <2>1, <2>4, <2>5, <2>6 DEF SettingsInv
<1>. QED
  BY <1>5, <1>6

LEMMA OptionsSteps ==
  ASSUME SettingsInv, Settings!OptionsStep
  PROVE  SettingsInv'
<1>1. UNCHANGED <<home, last>>
  BY DEF Settings!OptionsStep, Settings!homeVars
<1>. QED
  BY <1>1, LoadDefaultStep, ParseArgumentStep, ParsedStep, BadArgumentStep, LoadFurtherStep, FinalizeStep
     DEF Settings!OptionsStep, Settings!OptionsNext

\* A form, in which the user may have changed what the dialog showed.
LEMMA FormsAre ==
  ASSUME NEW form \in Settings!Forms
  PROVE  DOMAIN form = Controls /\ form["log_enabled"] \in BOOLEAN
<1> DEFINE P == Settings!Populated(home)
<1>1. DOMAIN P = Controls
  <2> DEFINE B == Settings!Build(home)
  <2>1. B = Settings!Build(home) /\ P = Settings!Populated(home)
    OBVIOUS
  <2> HIDE DEF B, P
  <2>. QED
    BY <2>1, PopulatedIs
<1>2. PICK log \in BOOLEAN, key \in Keys, threads \in {0, 2} :
         form = Settings!Filled(log, key, threads) \/ form = Settings!WithTheme(Settings!Filled(log, key, threads), "blue")
  BY DEF Settings!Forms
<1> DEFINE filled == Settings!Filled(log, key, threads)
<1>3. filled = [P EXCEPT !.log_enabled = log, !.answer_key = key, !.answer_threads = threads]
  BY DEF Settings!Filled
<1> HIDE DEF P
<1>4. DOMAIN filled = Controls /\ filled["log_enabled"] = log
  BY <1>1, <1>3 DEF Controls
<1>5. form = filled \/ form = Settings!WithTheme(filled, "blue")
  BY <1>2
<1> HIDE DEF filled
<1>6. "log_enabled" \in Controls \ {"panel_theme"}
  BY DEF Controls
<1>. QED
  BY <1>4, <1>5, <1>6, ThemeIs

\* What does not move the options keeps what was said of them.
LEMMA HomeMoves ==
  ASSUME SettingsInv, at = "ready", UNCHANGED <<at, layers, options, why>>, HomeOK(home', options), Settings!ExamKeepsPromise'
  PROVE  SettingsInv'
<1>1. LayersOK(layers)' /\ OptionsOK(options)' /\ HomeOK(home, options)'
  BY DEF SettingsInv, LayersOK, LayerOK, OptionsOK, HomeOK
<1>2. Settings!CliSelectionWins'
  BY DEF SettingsInv, Settings!CliSelectionWins
<1>. QED
  BY <1>1, <1>2 DEF SettingsInv

LEMMA DialogStep ==
  ASSUME SettingsInv, Settings!Dialog
  PROVE  SettingsInv'
<1>1. PICK form \in Settings!Forms, base \in Addresses :
        LET kept == Settings!Saved([home EXCEPT !.base = base], form)
        IN /\ Settings!Accepted(form)
           /\ \/ home' = kept /\ UNCHANGED last
              \/ Settings!Opened(kept) /\ UNCHANGED home
  BY DEF Settings!Dialog
<1>2. at = "ready" /\ UNCHANGED <<at, layers, options, why>> /\ HomeOK(home, options) /\ Settings!ExamKeepsPromise
  BY DEF SettingsInv, Settings!Dialog, Settings!optionVars
<1> DEFINE c == [home EXCEPT !.base = base]
           kept == Settings!Saved(c, form)
<1>3. CASE home' = kept /\ UNCHANGED last
  <2>1. c \in [settings : {c.settings}, base : {c.base}] /\ c.settings = home.settings
    BY <1>2 DEF HomeOK
  <2>2. DOMAIN c.settings \subseteq Controls
    BY <1>2, <2>1 DEF HomeOK
  <2> HIDE DEF c
  <2>3. DOMAIN form = Controls
    BY FormsAre
  <2>4. /\ kept \in [settings : {kept.settings}, base : {kept.base}] /\ DOMAIN kept.settings = Controls
        /\ kept.settings["log_enabled"] = (form["log_enabled"] /\ ~options["noDiskWrite"])
    BY <2>1, <2>2, <2>3, SavedIs
  <2>5. HomeOK(home', options)
    BY <1>3, <2>4 DEF HomeOK
  <2>6. Settings!ExamKeepsPromise'
    BY <1>2, <1>3 DEF Settings!ExamKeepsPromise
  <2>. QED
    BY <1>2, <2>5, <2>6, HomeMoves
<1>4. CASE Settings!Opened(kept) /\ UNCHANGED home
  <2>1. last'.what # "exam"
    BY <1>4 DEF Settings!Opened, Settings!None
  <2>2. Settings!ExamKeepsPromise'
    BY <2>1 DEF Settings!ExamKeepsPromise
  <2>3. HomeOK(home', options)
    BY <1>2, <1>4 DEF HomeOK
  <2>. QED
    BY <1>2, <2>2, <2>3, HomeMoves
<1>. QED
  BY <1>1, <1>3, <1>4

LEMMA ExamStep ==
  ASSUME SettingsInv, Settings!Exam
  PROVE  SettingsInv'
<1>1. /\ at = "ready" /\ UNCHANGED <<at, layers, options, why>> /\ UNCHANGED home
      /\ LayersOK(layers) /\ OptionsOK(options) /\ HomeOK(home, options)
      /\ last' = [Settings!None EXCEPT !.what = "exam", !.options = Settings!Applied(Settings!Build(home))]
  BY DEF SettingsInv, Settings!Exam, Settings!optionVars
<1> DEFINE o == Settings!Applied(Settings!Build(home))
<1>2. options["noDiskWrite"] => o["noDiskWrite"] /\ ~o["log"]
  BY <1>1, ExamApplied
<1>3. last'.options = o
  <2> HIDE DEF o
  <2>. QED
    BY <1>1 DEF o, Settings!None
<1>4. Settings!ExamKeepsPromise'
  <2> HIDE DEF o
  <2>. QED
    BY <1>1, <1>2, <1>3 DEF Settings!ExamKeepsPromise
<1>5. HomeOK(home', options)
  BY <1>1 DEF HomeOK
<1>. QED
  BY <1>1, <1>4, <1>5, HomeMoves

LEMMA SettingsStill ==
  ASSUME SettingsInv, UNCHANGED settingsVars
  PROVE  SettingsInv'
<1>1. LayersOK(layers)' /\ OptionsOK(options)' /\ HomeOK(home, options)'
  BY DEF SettingsInv, LayersOK, LayerOK, OptionsOK, HomeOK, settingsVars
<1>2. Settings!CliSelectionWins' /\ Settings!ExamKeepsPromise'
  BY DEF SettingsInv, Settings!CliSelectionWins, Settings!ExamKeepsPromise, settingsVars
<1>3. (at # "ready" => home.settings = Settings!Nothing /\ last.what # "exam")' /\ (at \in {"config", "json", "merge"} => Placed(layers.cli))'
  BY DEF SettingsInv, settingsVars, Placed, Settings!Nothing
<1>. QED
  BY <1>1, <1>2, <1>3 DEF SettingsInv, settingsVars

\* The layers of the options, the options and the settings of the window are sound.
THEOREM PartsSettings == Spec => [](part = "settings" => SettingsInv)
<1>1. Init => (part = "settings" => SettingsInv)
  <2> SUFFICES ASSUME Init, part = "settings"
               PROVE  SettingsInv
    OBVIOUS
  <2>1. Settings!SettingsInit
    BY DEF Init
  <2>2. at = "default" /\ options = Settings!Default /\ last.what = "none" /\ home \in [settings : {Settings!Nothing}, base : Addresses]
    BY <2>1 DEF Settings!SettingsInit, Settings!OptionsInit, Settings!None
  <2>3. LayersOK(layers)
    <3>1. layers = [base |-> Settings!Empty, config |-> Settings!Empty, json |-> Settings!Empty,
                    cli |-> [Settings!Empty EXCEPT !.cli = TRUE]]
      BY <2>1 DEF Settings!SettingsInit, Settings!OptionsInit
    <3> DEFINE c == [Settings!Empty EXCEPT !.cli = TRUE]
    <3>2. LayerOK(c)
      <4> DEFINE E == Settings!Empty
      <4>1. E \in [set : {E.set}, shared : {E.shared}, pathBy : Nat, uiBy : Nat, layers : Nat, cli : {E.cli}] /\ LayerOK(E)
        BY EmptyIs DEF LayerOK
      <4> HIDE DEF E
      <4>2. c = [E EXCEPT !.cli = TRUE]
        BY DEF E
      <4> HIDE DEF c
      <4>3. c.set = E.set /\ c.shared = E.shared /\ c.layers = E.layers /\ c.uiBy = E.uiBy /\ c.cli = TRUE
        BY <4>1, <4>2
      <4>4. c \in [set : {E.set}, shared : {E.shared}, pathBy : Nat, uiBy : Nat, layers : Nat, cli : {TRUE}]
        BY <4>1, <4>2
      <4>. QED
        BY <4>1, <4>3, <4>4 DEF LayerOK
    <3> HIDE DEF c
    <3>3. /\ layers \in [base : {layers.base}, config : {layers.config}, json : {layers.json}, cli : {layers.cli}]
          /\ layers.base = Settings!Empty /\ layers.config = Settings!Empty /\ layers.json = Settings!Empty /\ layers.cli = c
      BY <3>1 DEF c
    <3>. QED
      BY <3>2, <3>3, EmptyIs DEF LayersOK
  <2>4. OptionsOK(options)
    BY <2>2, DefaultIs DEF OptionsOK
  <2>5. HomeOK(home, options)
    BY <2>2, NothingIs DEF HomeOK
  <2>6. Settings!CliSelectionWins /\ Settings!ExamKeepsPromise
    BY <2>2 DEF Settings!CliSelectionWins, Settings!ExamKeepsPromise
  <2>. QED
    BY <2>2, <2>3, <2>4, <2>5, <2>6 DEF SettingsInv
<1>2. (part = "settings" => SettingsInv) /\ [Next]_vars => (part = "settings" => SettingsInv)'
  <2> SUFFICES ASSUME part = "settings" => SettingsInv, [Next]_vars, part' = "settings"
               PROVE  SettingsInv'
    OBVIOUS
  <2>1. SettingsInv /\ (Settings!SettingsNext \/ UNCHANGED settingsVars)
    BY PartsMove
  <2>. QED
    BY <2>1, OptionsSteps, DialogStep, ExamStep, SettingsStill DEF Settings!SettingsNext
<1>. QED
  BY <1>1, <1>2, PTL DEF Spec

\* options.c, home.c: whatever the files say, the arguments' choice of client is
\* obeyed, no setting that is an option is carried twice, a promise not to
\* write survives the dialog, and a dialog in which only a theme was picked changes only the theme.
THEOREM PartsSettingsObeyed == Spec => []SettingsObeyed
<1>1. (part = "settings" => SettingsInv) => SettingsObeyed
  <2> SUFFICES ASSUME SettingsInv, part = "settings"
               PROVE  SettingsObeyed
    BY DEF SettingsObeyed
  <2>1. LayersOK(layers) /\ OptionsOK(options) /\ HomeOK(home, options)
    BY DEF SettingsInv
  <2>2. /\ layers \in [base : {layers.base}, config : {layers.config}, json : {layers.json}, cli : {layers.cli}]
        /\ \A l \in {"base", "config", "json", "cli"} : LayerOK(layers[l])
    BY <2>1 DEF LayersOK
  <2>3. DOMAIN layers = {"base", "config", "json", "cli"}
    BY <2>2
  <2>4. Settings!OptionsTypeOK
    BY <2>1, <2>2, <2>3 DEF Settings!OptionsTypeOK, SettingsInv, LayerOK, OptionsOK
  <2>5. Settings!SharedSettingsUnique
    BY <2>2, <2>3, ManagedIs DEF Settings!SharedSettingsUnique, LayerOK
  <2>6. Settings!SaveKeeps
    BY <2>1, SavingKeeps
  <2>. QED
    BY <2>4, <2>5, <2>6 DEF SettingsInv, SettingsObeyed
<1>. QED
  BY <1>1, PartsSettings, PTL

-----------------------------------------------------------------------------
(* What a step of a part never does                                        *)

LEMMA FileSteps ==
  ASSUME FileInv, File!ConfigNext \/ UNCHANGED fileVars PROVE file'.state = "whole" \/ file' = file
<1>1. CASE UNCHANGED fileVars \/ File!Hold
  BY <1>1 DEF fileVars, File!Hold
<1>2. ASSUME NEW h \in Hosts,
             File!Begin(h) \/ File!Read(h) \/ File!Create(h) \/ File!Write(h) \/ File!Flush(h) \/ File!Crash(h)
      PROVE  file' = file
  BY <1>2 DEF File!Begin, File!Read, File!Create, File!Write, File!Flush, File!Crash
<1>3. ASSUME NEW h \in Hosts, File!Move(h) PROVE file'.state = "whole" \/ file' = file
  <2>1. patch[h].at = "move" /\ temporary[h].state = "whole"
    BY <1>3 DEF File!Move, FileInv, FileCall
  <2>. QED
    BY <1>3, <2>1 DEF File!Move
<1>. QED
  BY <1>1, <1>2, <1>3 DEF File!ConfigNext

\* config-store.c: at no step is the configuration file gone or half written.
THEOREM PartsFileStaysWhole == Spec => FileStaysWhole
<1>1. (part = "file" => FileInv) /\ [Next]_vars => [part = "file" => file'.state = "whole" \/ file' = file]_vars
  BY PartsMove, FileSteps
<1>. QED
  BY <1>1, PartsFile, PTL DEF Spec, FileStaysWhole
=============================================================================
