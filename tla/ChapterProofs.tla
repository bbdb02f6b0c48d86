---------------------------- MODULE ChapterProofs ----------------------------
(***************************************************************************)
(* Proofs about the two parts of a chapter's submission: the confirmation  *)
(* sessions (ChapterConfirmation), for any windows, frames and sessions,   *)
(* and the ledger of deferred tests (DeferredChapters), for any number of  *)
(* turns, jobs, tabs and attempts.  They share no state.                   *)
(***************************************************************************)
EXTENDS ChapterConfirmation, DeferredChapters, FiniteSetTheorems, TLAPS

-----------------------------------------------------------------------------
(* Confirmation sessions                                                   *)

\* Leases are never of a future document, and a released session has none.
LeaseBounds ==
    /\ \A s \in Sessions, w \in Windows : lease[s][w] <= doc[w]
    /\ \A s \in Sessions, w \in Windows : sessionPhase[s] = "idle" => lease[s][w] = NoDoc

\* A lease of the current document is in the registry that is on the window,
\* and two leases in one registry are both ambiguous.
LeasesMarked ==
    /\ \A s \in Sessions, w \in Windows : lease[s][w] = doc[w] => key[w] = doc[w]
    /\ \A s, u \in Sessions, w \in Windows :
          s # u /\ lease[s][w] = lease[u][w] /\ lease[s][w] # NoDoc => w \in ambiguous[s]
    /\ \A s \in Sessions : overlap[s] \subseteq ambiguous[s]

\* While a popup is visible in a shared page, exactly the sessions that watch
\* the page were watching it when the popup appeared.
PopupsAttributed ==
    \A s \in Sessions, w \in Windows : popup[w] =>
        /\ lease[s][w] = doc[w] /\ Shared(s, w) => s \in raisedUnder[w]
        /\ s \in raisedUnder[w] => lease[s][w] = doc[w]

ConfirmationIInv == ConfirmationTypeOK /\ LeaseBounds /\ LeasesMarked /\ PopupsAttributed

\* Documents and leases are numbers, and no document is NoDoc.
LEMMA DocNumbers ==
  ASSUME ConfirmationTypeOK
  PROVE  /\ \A w \in Windows : doc[w] \in Nat /\ doc[w] # NoDoc /\ doc[w] \in Docs
         /\ \A s \in Sessions, w \in Windows : lease[s][w] \in Nat
         /\ NoDoc = 0 /\ NoDoc \notin Docs
  BY ConfirmationAssumption DEF ConfirmationTypeOK, Docs, NoDoc


LEMMA ConfirmationIInvInit == ConfirmationInit => ConfirmationIInv
<1> SUFFICES ASSUME ConfirmationInit PROVE ConfirmationIInv
  OBVIOUS
<1> USE ConfirmationAssumption DEF ConfirmationInit, Docs, NoDoc
<1>1. ConfirmationTypeOK
  BY DEF ConfirmationTypeOK, AtMostOne
<1>2. LeaseBounds /\ LeasesMarked /\ PopupsAttributed
  BY DEF LeaseBounds, LeasesMarked, PopupsAttributed
<1>. QED
  BY <1>1, <1>2 DEF ConfirmationIInv

\* The leases do not depend on the popups or the tasks.
LEMMA LeasesKept ==
  ASSUME LeaseBounds, LeasesMarked, UNCHANGED <<doc, sessionPhase, key, lease, ambiguous, overlap>>
  PROVE  LeaseBounds' /\ LeasesMarked'
  BY DEF LeaseBounds, LeasesMarked

LEMMA RaiseStep ==
  ASSUME ConfirmationIInv, NEW w \in Windows, RaisePopup(w) PROVE ConfirmationIInv'
  <1>1. /\ UNCHANGED <<doc, taskOk, sessionPhase, actor, frameDoc, initial, key, lease, ambiguous, overlap, bound>>
        /\ popup' \in [Windows -> BOOLEAN]
        /\ raisedUnder' \in [Windows -> SUBSET Sessions]
    BY DEF ConfirmationIInv, ConfirmationTypeOK, RaisePopup, session, leases
  <1>2. ConfirmationTypeOK'
    BY <1>1 DEF ConfirmationIInv, ConfirmationTypeOK
  <1>3. LeaseBounds' /\ LeasesMarked'
    BY <1>1, LeasesKept DEF ConfirmationIInv
  <1>4. \A v \in Windows : v # w => popup'[v] = popup[v] /\ raisedUnder'[v] = raisedUnder[v]
    BY DEF ConfirmationIInv, ConfirmationTypeOK, RaisePopup
  <1>5. \A s \in Sessions : s \in raisedUnder'[w] <=> sessionPhase[s] = "open" /\ lease[s][w] = doc[w]
    BY DEF ConfirmationIInv, ConfirmationTypeOK, RaisePopup, Leased
  <1>6. \A s \in Sessions : lease[s][w] = doc[w] => sessionPhase[s] = "open"
    BY ConfirmationAssumption DEF ConfirmationIInv, ConfirmationTypeOK, LeaseBounds, Docs, NoDoc
  <1>7. PopupsAttributed'
    BY <1>1, <1>4, <1>5, <1>6 DEF ConfirmationIInv, PopupsAttributed, Shared, Owned
  <1>. QED
    BY <1>2, <1>3, <1>7 DEF ConfirmationIInv

LEMMA NavigateStep ==
  ASSUME ConfirmationIInv, NEW w \in Windows, Navigate(w) PROVE ConfirmationIInv'
  <1> DEFINE replaced == {u \in Windows : u = w \/ w \in Above[u]}
  <1>1. UNCHANGED <<lease, sessionPhase, ambiguous, overlap, raisedUnder, actor, taskOk, frameDoc, initial, bound>>
    BY DEF Navigate, session
  <1>2. \A u \in replaced : doc'[u] = doc[u] + 1 /\ ~popup'[u]
    BY DEF Navigate
  <1>3. \A u \in Windows \ replaced : doc'[u] = doc[u] /\ popup'[u] = popup[u] /\ key'[u] = key[u]
    BY DEF ConfirmationIInv, ConfirmationTypeOK, Navigate
  <1>4. /\ doc' \in [Windows -> Docs]
        /\ popup' \in [Windows -> BOOLEAN]
        /\ key' \in [Windows -> Docs \cup {NoDoc}]
    <2>1. doc' \in [Windows -> Docs]
      <3>1. \A u \in replaced : doc[u] + 1 \in Docs
        BY ConfirmationAssumption, DocNumbers DEF ConfirmationIInv, Navigate, Docs
      <3>. QED
        BY <3>1, DocNumbers DEF ConfirmationIInv, Navigate
    <2>2. popup' \in [Windows -> BOOLEAN]
      BY DEF ConfirmationIInv, ConfirmationTypeOK, Navigate
    <2>3. key' \in [Windows -> Docs \cup {NoDoc}]
      BY DEF ConfirmationIInv, ConfirmationTypeOK, Navigate
    <2>. QED
      BY <2>1, <2>2, <2>3
  <1>5. ConfirmationTypeOK'
    BY <1>1, <1>4 DEF ConfirmationIInv, ConfirmationTypeOK
  <1>6. \A s \in Sessions, u \in Windows : lease[s][u] \in Nat /\ doc[u] \in Nat
    BY DocNumbers DEF ConfirmationIInv
  <1>7. LeaseBounds'
    BY <1>1, <1>2, <1>3, <1>6 DEF ConfirmationIInv, LeaseBounds
  <1>8. \A s \in Sessions, u \in replaced : lease'[s][u] # doc'[u]
    BY <1>1, <1>2, <1>6 DEF ConfirmationIInv, LeaseBounds
  <1>9. LeasesMarked'
    BY <1>1, <1>3, <1>8 DEF ConfirmationIInv, LeasesMarked
  <1>10. PopupsAttributed'
    BY <1>1, <1>2, <1>3 DEF ConfirmationIInv, PopupsAttributed, Shared, Owned
  <1>. QED
    BY <1>5, <1>7, <1>9, <1>10 DEF ConfirmationIInv

LEMMA CreateStep ==
  ASSUME ConfirmationIInv, NEW s \in Sessions, NEW owner \in {Frame[s]} \cup Above[Frame[s]], Create(s, owner)
  PROVE  ConfirmationIInv'
  <1> DEFINE seen == Candidates(s, owner)
  <1>0. owner \in Windows /\ seen \subseteq Windows /\ Frame[s] \in Windows
    BY ConfirmationAssumption DEF Candidates
  <1>1. /\ sessionPhase[s] = "idle" /\ UNCHANGED <<doc, popup, raisedUnder>>
        /\ \A u \in Sessions \ {s} : /\ sessionPhase'[u] = sessionPhase[u]
                                     /\ lease'[u] = lease[u]
                                     /\ actor'[u] = actor[u]
                                     /\ ambiguous[u] \subseteq ambiguous'[u]
        /\ sessionPhase'[s] = "open" /\ actor'[s] = owner
        /\ \A w \in Windows : lease'[s][w] = IF w \in seen THEN doc[w] ELSE NoDoc
        /\ \A w \in Windows : key'[w] = IF w \in seen THEN doc[w] ELSE key[w]
    BY <1>0 DEF Create, ConfirmationIInv, ConfirmationTypeOK, page
  <1>2. ConfirmationTypeOK'
    <2>1. /\ UNCHANGED <<doc, popup, raisedUnder, taskOk, bound>>
          /\ sessionPhase' \in [Sessions -> {"idle", "open"}]
          /\ actor' \in [Sessions -> Windows]
          /\ frameDoc' \in [Sessions -> Docs \cup {NoDoc}]
          /\ initial' \in [Sessions -> SUBSET Windows]
      BY <1>0 DEF Create, ConfirmationIInv, ConfirmationTypeOK, page
    <2>2. /\ key' \in [Windows -> Docs \cup {NoDoc}]
          /\ lease' \in [Sessions -> [Windows -> Docs \cup {NoDoc}]]
      BY <1>0 DEF Create, ConfirmationIInv, ConfirmationTypeOK
    <2>3. /\ ambiguous' \in [Sessions -> SUBSET Windows]
          /\ overlap' \in [Sessions -> SUBSET Windows]
      BY <1>0 DEF Create, ConfirmationIInv, ConfirmationTypeOK
    <2>. QED
      BY <2>1, <2>2, <2>3 DEF ConfirmationIInv, ConfirmationTypeOK
  <1>3. LeaseBounds'
    <2>1. \A w \in Windows : lease'[s][w] <= doc[w]
      BY <1>1, DocNumbers DEF ConfirmationIInv
    <2>. QED
      BY <1>1, <2>1 DEF ConfirmationIInv, LeaseBounds
  <1>4. \A u \in Sessions, w \in Windows : lease'[u][w] = doc'[w] => key'[w] = doc'[w]
    BY <1>1, DocNumbers DEF ConfirmationIInv, LeasesMarked
  <1>5. ASSUME NEW u \in Sessions \ {s}, NEW w \in seen, lease[u][w] = doc[w]
        PROVE  w \in ambiguous'[u] /\ w \in ambiguous'[s]
    <2>1. u \in Holders(w)
      BY <1>0, <1>5 DEF Holders, ConfirmationIInv, LeasesMarked
    <2>. QED
      BY <1>0, <2>1 DEF Create, ConfirmationIInv, ConfirmationTypeOK
  <1>6. \A v, u \in Sessions, w \in Windows :
          v # u /\ lease'[v][w] = lease'[u][w] /\ lease'[v][w] # NoDoc => w \in ambiguous'[v]
    <2> SUFFICES ASSUME NEW v \in Sessions, NEW u \in Sessions, NEW w \in Windows,
                        v # u, lease'[v][w] = lease'[u][w], lease'[v][w] # NoDoc
                 PROVE  w \in ambiguous'[v]
      OBVIOUS
    <2>1. CASE v = s
      BY <1>1, <1>5, <2>1
    <2>2. CASE u = s
      BY <1>1, <1>5, <2>2
    <2>3. CASE v # s /\ u # s
      BY <1>1, <2>3 DEF ConfirmationIInv, LeasesMarked
    <2>. QED
      BY <2>1, <2>2, <2>3
  <1>7. \A u \in Sessions : overlap'[u] \subseteq ambiguous'[u]
    BY <1>0 DEF Create, ConfirmationIInv, ConfirmationTypeOK, LeasesMarked
  <1>8. ASSUME NEW w \in seen, popup[w] PROVE ~Shared(s, w)'
    BY <1>0, <1>1, <1>8 DEF Create, Blocked, Shared, Owned
  <1>9. \A w \in Windows : popup[w] => s \notin raisedUnder[w]
    BY <1>1, DocNumbers DEF ConfirmationIInv, PopupsAttributed, LeaseBounds
  <1>10. PopupsAttributed'
    <2> SUFFICES ASSUME NEW u \in Sessions, NEW w \in Windows, popup[w]
                 PROVE  /\ (lease[u][w] = doc[w] /\ Shared(u, w))' => u \in raisedUnder[w]
                        /\ u \in raisedUnder[w] => (lease[u][w] = doc[w])'
      BY <1>1 DEF PopupsAttributed
    <2>1. CASE u = s
      BY <1>1, <1>8, <1>9, <2>1, DocNumbers DEF ConfirmationIInv
    <2>2. CASE u # s
      BY <1>1, <2>2 DEF ConfirmationIInv, PopupsAttributed, Shared, Owned
    <2>. QED
      BY <2>1, <2>2
  <1>. QED
    BY <1>2, <1>3, <1>4, <1>6, <1>7, <1>10 DEF ConfirmationIInv, LeasesMarked

LEMMA ReleaseStep ==
  ASSUME ConfirmationIInv, NEW s \in Sessions, Release(s) PROVE ConfirmationIInv'
  <1>1. /\ \A u \in Sessions \ {s} : lease'[u] = lease[u] /\ ambiguous'[u] = ambiguous[u]
                                     /\ overlap'[u] = overlap[u] /\ sessionPhase'[u] = sessionPhase[u]
        /\ \A w \in Windows : lease'[s][w] = NoDoc
        /\ overlap'[s] = {}
        /\ \A w \in Windows : raisedUnder'[w] = raisedUnder[w] \ {s}
        /\ UNCHANGED <<doc, popup, actor, taskOk, frameDoc>>
    BY DEF Release, Ended, ConfirmationIInv, ConfirmationTypeOK
  <1>2. ConfirmationTypeOK'
    <2>1. /\ sessionPhase' \in [Sessions -> {"idle", "open"}]
          /\ initial' \in [Sessions -> SUBSET Windows]
          /\ ambiguous' \in [Sessions -> SUBSET Windows]
          /\ overlap' \in [Sessions -> SUBSET Windows]
          /\ raisedUnder' \in [Windows -> SUBSET Sessions]
      BY DEF Release, Ended, ConfirmationIInv, ConfirmationTypeOK
    <2>2. /\ key' \in [Windows -> Docs \cup {NoDoc}]
          /\ lease' \in [Sessions -> [Windows -> Docs \cup {NoDoc}]]
      BY DEF Release, Ended, ConfirmationIInv, ConfirmationTypeOK
    <2>3. bound' \in [Sessions -> AtMostOne]
      <3>1. {} \in AtMostOne
        BY DEF AtMostOne
      <3>. QED
        BY <3>1 DEF Release, Ended, ConfirmationIInv, ConfirmationTypeOK
    <2>. QED
      BY <1>1, <2>1, <2>2, <2>3 DEF ConfirmationIInv, ConfirmationTypeOK
  <1>3. \A u \in Sessions \ {s}, w \in Windows : lease[u][w] = doc[w] => key'[w] = doc[w]
    BY DEF Release, Ended, ConfirmationIInv, ConfirmationTypeOK, LeasesMarked
  <1>4. LeaseBounds'
    BY <1>1, DocNumbers DEF ConfirmationIInv, LeaseBounds
  <1>5. LeasesMarked'
    BY <1>1, <1>3, DocNumbers DEF ConfirmationIInv, LeasesMarked
  <1>6. PopupsAttributed'
    BY <1>1, DocNumbers DEF ConfirmationIInv, PopupsAttributed, Shared, Owned
  <1>. QED
    BY <1>2, <1>4, <1>5, <1>6 DEF ConfirmationIInv

\* The steps that lease or release nothing and raise no popup.
LEMMA SessionStep ==
  ASSUME ConfirmationIInv,
         UNCHANGED <<doc, raisedUnder, session, leases>>,
         popup' \in [Windows -> BOOLEAN], taskOk' \in [Sessions -> BOOLEAN],
         bound' \in [Sessions -> AtMostOne],
         \A w \in Windows : popup'[w] => popup[w]
  PROVE  ConfirmationIInv'
  <1>1. UNCHANGED <<sessionPhase, actor, frameDoc, initial, key, lease, ambiguous, overlap>>
    BY DEF session, leases
  <1>2. ConfirmationTypeOK'
    BY <1>1 DEF ConfirmationIInv, ConfirmationTypeOK
  <1>3. LeaseBounds' /\ LeasesMarked'
    BY <1>1, LeasesKept DEF ConfirmationIInv
  <1>4. PopupsAttributed'
    BY <1>1 DEF ConfirmationIInv, PopupsAttributed, Shared, Owned
  <1>. QED
    BY <1>2, <1>3, <1>4 DEF ConfirmationIInv

\* Leases are of documents there have been, those that share a registry are both
\* ambiguous, and a popup is attributed to whoever watches it.
THEOREM ConfirmationInvariant == ConfirmationSpec => []ConfirmationIInv
<1>1. ConfirmationIInv /\ [ConfirmationNext]_confirmationVars => ConfirmationIInv'
  <2> SUFFICES ASSUME ConfirmationIInv, [ConfirmationNext]_confirmationVars PROVE ConfirmationIInv'
    OBVIOUS
  <2>1. CASE UNCHANGED confirmationVars
    BY <2>1, SessionStep DEF confirmationVars, page, ConfirmationIInv, ConfirmationTypeOK
  <2>2. ASSUME NEW w \in Windows, HidePopup(w) PROVE ConfirmationIInv'
    BY <2>2, SessionStep DEF HidePopup, ConfirmationIInv, ConfirmationTypeOK
  <2>3. ASSUME NEW s \in Sessions, SwitchTask(s) PROVE ConfirmationIInv'
    BY <2>3, SessionStep DEF SwitchTask, page, ConfirmationIInv, ConfirmationTypeOK
  <2>4. ASSUME NEW s \in Sessions, Find(s) \/ Clear(s) PROVE ConfirmationIInv'
    <3>1. \E B \in AtMostOne : bound' = [bound EXCEPT ![s] = B]
      BY <2>4 DEF Find, Clear, AtMostOne
    <3>. QED
      BY <2>4, <3>1, SessionStep DEF Find, Clear, page, ConfirmationIInv, ConfirmationTypeOK
  <2>5. ASSUME NEW s \in Sessions, Submit(s) PROVE ConfirmationIInv'
    <3>1. PICK w \in Current(s) : popup' = [popup EXCEPT ![w] = FALSE]
      BY <2>5 DEF Submit
    <3>2. popup' \in [Windows -> BOOLEAN] /\ \A v \in Windows : popup'[v] => popup[v]
      BY <3>1 DEF ConfirmationIInv, ConfirmationTypeOK
    <3>. QED
      BY <2>5, <3>2, SessionStep DEF Submit, ConfirmationIInv, ConfirmationTypeOK
  <2>. QED
    BY <2>1, <2>2, <2>3, <2>4, <2>5, RaiseStep, NavigateStep, CreateStep, ReleaseStep DEF ConfirmationNext
<1>. QED
  BY <1>1, ConfirmationIInvInit, PTL DEF ConfirmationSpec

\* What is known of a window whose confirmation a session may submit.
LEMMA CurrentFacts ==
  ASSUME ConfirmationIInv, NEW s \in Sessions, NEW w \in Current(s)
  PROVE  w \in Windows /\ popup[w] /\ lease[s][w] = doc[w] /\ w \notin ambiguous[s]
  <1>1. bound[s] \in AtMostOne
    BY DEF ConfirmationIInv, ConfirmationTypeOK
  <1>2. w \in Windows
    BY <1>1 DEF Current, AtMostOne
  <1>. QED
    BY <1>2 DEF Current, OwnerIsCurrent

\* A confirmation a session may submit is watched by no other open session.
THEOREM ConfirmationExclusive == ConfirmationSpec => []ExclusiveCurrent
<1>1. ConfirmationIInv => ExclusiveCurrent
  <2> SUFFICES ASSUME ConfirmationIInv, NEW s \in Sessions, NEW w \in Current(s), NEW u \in Sessions \ {s}
               PROVE  ~Leased(u, w)
    BY DEF ExclusiveCurrent
  <2>1. w \in Windows /\ lease[s][w] = doc[w] /\ w \notin ambiguous[s]
    BY CurrentFacts
  <2>. QED
    BY <2>1, DocNumbers DEF ConfirmationIInv, LeasesMarked, Leased
<1>. QED
  BY <1>1, ConfirmationInvariant, PTL

\* A late exit never makes an overlapping precheck uniquely owned again.
THEOREM ConfirmationOverlap == ConfirmationSpec => []OverlapNeverSubmits
<1>1. ConfirmationIInv => OverlapNeverSubmits
  BY DEF ConfirmationIInv, LeasesMarked, OverlapNeverSubmits, Current, OwnerIsCurrent
<1>. QED
  BY <1>1, ConfirmationInvariant, PTL

\* A confirmation accepted in a shared page is this session's alone.
THEOREM ConfirmationAttributed == ConfirmationSpec => []SharedConfirmationAttributed
<1>1. ConfirmationIInv => SharedConfirmationAttributed
  <2> SUFFICES ASSUME ConfirmationIInv, NEW s \in Sessions, NEW w \in Current(s), Shared(s, w)
               PROVE raisedUnder[w] = {s}
    BY DEF SharedConfirmationAttributed
  <2>1. w \in Windows /\ popup[w] /\ lease[s][w] = doc[w] /\ w \notin ambiguous[s] /\ doc[w] # NoDoc
    BY CurrentFacts, DocNumbers DEF ConfirmationIInv
  <2>2. s \in raisedUnder[w]
    BY <2>1 DEF ConfirmationIInv, PopupsAttributed
  <2>3. \A u \in raisedUnder[w] : u = s
    BY <2>1 DEF ConfirmationIInv, ConfirmationTypeOK, PopupsAttributed, LeasesMarked
  <2>. QED
    BY <2>1, <2>2, <2>3
<1>. QED
  BY <1>1, ConfirmationInvariant, PTL
\* A submission only clicks what is its own, for any windows and sessions.
THEOREM ConfirmationIsOwn == ConfirmationSpec => []ClicksItsOwn
<1>. QED
  BY ConfirmationExclusive, ConfirmationOverlap, ConfirmationAttributed, PTL DEF ClicksItsOwn

-----------------------------------------------------------------------------
(* The ledger.  It is changed entry by entry: the lemmas say what each     *)
(* operation does to an entry, and each action is a choice of them.        *)

\* What holds of every entry: its type, a task that expired is given up, a
\* task that was missing too often no longer waits, and a task that was given
\* up has its reason.
Sound(t) ==
    /\ t \in Entry
    /\ t.expired => t.state = "abandoned"
    /\ t.state \in {"absent", "deferred"} => t.missing < MaxMissing
    /\ t.state = "abandoned" => t.expired \/ t.attempts >= MaxAttempts \/ t.missing >= MaxMissing

\* What an operation may make of an entry t: a sound one, terminal if t was.
Terminal(t) == t.state \in {"complete", "abandoned"}
Follows(t, u) == Sound(u) /\ (Terminal(t) => u.state = t.state)

\* The operation that made u of t deferred nothing.
Closes(t, u) == Deferred(u) => Deferred(t)

LEMMA FollowsItself == ASSUME NEW t, Sound(t) PROVE Follows(t, t) /\ Closes(t, t)
  BY DEF Follows, Closes

LEMMA FollowsTrans ==
  ASSUME NEW t, NEW u, NEW v, Follows(t, u), Follows(u, v)
  PROVE  Follows(t, v) /\ (Closes(t, u) /\ Closes(u, v) => Closes(t, v))
  BY DEF Follows, Closes, Terminal

LEMMA RecordedFollows == ASSUME NEW t, Sound(t) PROVE Follows(t, Recorded(t))
  BY DEF Recorded, Follows, Sound, Entry, Terminal

LEMMA SpentFollows ==
  ASSUME NEW t, Sound(t) PROVE Follows(t, Spent(t)) /\ Closes(t, Spent(t))
  BY DEF Spent, Follows, Closes, Deferred, Sound, Entry, Terminal

LEMMA AttemptedFollows ==
  ASSUME NEW t, Sound(t) PROVE Follows(t, Attempted(t)) /\ Closes(t, Attempted(t))
<1>1. CASE MayAttempt(t)
  <2> DEFINE u == [t EXCEPT !.attempts = @ + 1, !.missing = 0]
  <2>1. t \in Entry /\ t.state = "deferred" /\ t.attempts + 1 \in 0..MaxAttempts
    BY <1>1, DeferredAssumption DEF MayAttempt, Sound, Entry
  <2>. 0 \in 0..MaxMissing
    BY DeferredAssumption
  <2>2. u \in Entry
    BY <2>1 DEF Entry
  <2>3. u.state = "deferred" /\ u.expired = t.expired /\ u.missing < MaxMissing
    BY <2>1, DeferredAssumption DEF Entry
  <2>4. Attempted(t) = u
    BY <1>1 DEF Attempted
  <2>. QED
    BY <2>1, <2>2, <2>3, <2>4 DEF Follows, Closes, Deferred, Sound, Terminal
<1>2. CASE ~MayAttempt(t)
  BY <1>2, SpentFollows, FollowsItself DEF Attempted
<1>. QED
  BY <1>1, <1>2

LEMMA ConcludedFollows ==
  ASSUME NEW t, Sound(t), NEW outcome \in Outcomes
  PROVE  Follows(t, Concluded(t, outcome)) /\ Closes(t, Concluded(t, outcome))
<1>1. CASE t.state # "deferred"
  BY <1>1, FollowsItself DEF Concluded
<1>2. CASE t.state = "deferred" /\ outcome = "expired"
  <2> DEFINE u == [t EXCEPT !.expired = TRUE, !.state = "abandoned"]
  <2>1. Concluded(t, outcome) = u
    BY <1>2 DEF Concluded, Pauses
  <2>2. u \in Entry /\ u.expired /\ u.state = "abandoned"
    BY DEF Sound, Entry
  <2>. QED
    BY <1>2, <2>1, <2>2 DEF Follows, Closes, Deferred, Sound, Terminal
<1>3. CASE t.state = "deferred" /\ outcome \in Pauses
  <2> DEFINE u == [t EXCEPT !.pause = outcome, !.attempts = IF @ = 0 THEN 0 ELSE @ - 1]
  <2>1. Concluded(t, outcome) = u
    BY <1>3 DEF Concluded, Pauses
  <2>2. (IF t.attempts = 0 THEN 0 ELSE t.attempts - 1) \in 0..MaxAttempts
    BY DeferredAssumption DEF Sound, Entry
  <2>3. u \in Entry /\ u.expired = t.expired /\ u.state = "deferred" /\ u.missing = t.missing
    BY <1>3, <2>2 DEF Sound, Entry
  <2>. QED
    BY <1>3, <2>1, <2>3 DEF Follows, Closes, Deferred, Sound, Terminal
<1>4. CASE t.state = "deferred" /\ outcome = "finished"
  <2> DEFINE u == [t EXCEPT !.state = "complete", !.missing = 0]
  <2>1. Concluded(t, outcome) = u
    BY <1>4 DEF Concluded, Pauses
  <2>2. 0 \in 0..MaxMissing
    BY DeferredAssumption
  <2>3. u \in Entry /\ u.expired = t.expired /\ u.state = "complete"
    BY <2>2 DEF Sound, Entry
  <2>. QED
    BY <1>4, <2>1, <2>3 DEF Follows, Closes, Deferred, Sound, Terminal
<1>5. CASE t.state = "deferred" /\ outcome \in {"failed", "static"}
  <2>1. Concluded(t, outcome) = IF t.attempts >= MaxAttempts THEN [t EXCEPT !.state = "abandoned"] ELSE t
    BY <1>5 DEF Concluded, Pauses
  <2>2. CASE t.attempts >= MaxAttempts
    <3> DEFINE u == [t EXCEPT !.state = "abandoned"]
    <3>1. u \in Entry /\ u.attempts = t.attempts /\ u.state = "abandoned"
      BY DEF Sound, Entry
    <3>. QED
      BY <1>5, <2>1, <2>2, <3>1 DEF Follows, Closes, Deferred, Sound, Terminal
  <2>. QED
    BY <2>1, <2>2, FollowsItself
<1>. QED
  BY <1>1, <1>2, <1>3, <1>4, <1>5 DEF Outcomes

LEMMA MissedFollows ==
  ASSUME NEW t, Sound(t)
  PROVE  Follows(t, Missed(t)) /\ Closes(t, Missed(t))
<1>1. CASE t.state # "deferred"
  BY <1>1, FollowsItself DEF Missed
<1>2. CASE t.state = "deferred"
  <2> DEFINE u == Missed(t)
  <2>1. t.missing + 1 \in 0..MaxMissing /\ t.missing \in Nat /\ MaxMissing \in Nat /\ ~t.expired
    BY <1>2, DeferredAssumption DEF Sound, Entry
  <2>2. u = [t EXCEPT !.missing = @ + 1,
                      !.state = IF t.missing + 1 >= MaxMissing THEN "abandoned" ELSE @]
    BY <1>2 DEF Missed
  <2>3. u \in Entry /\ u.missing = t.missing + 1 /\ u.expired = t.expired
        /\ u.state = IF t.missing + 1 >= MaxMissing THEN "abandoned" ELSE "deferred"
    BY <1>2, <2>1, <2>2 DEF Sound, Entry
  <2>. QED
    BY <1>2, <2>1, <2>3 DEF Follows, Closes, Deferred, Sound, Terminal
<1>. QED
  BY <1>1, <1>2

LEMMA PauseFollows ==
  ASSUME NEW t, Sound(t), NEW p \in Pauses \cup {NoPause}
  PROVE  Follows(t, [t EXCEPT !.pause = p]) /\ Closes(t, [t EXCEPT !.pause = p])
  BY DEF Follows, Closes, Deferred, Sound, Entry, Terminal

LEMMA CompleteFollows ==
  ASSUME NEW t, Sound(t), Deferred(t)
  PROVE  Follows(t, [t EXCEPT !.state = "complete"]) /\ Closes(t, [t EXCEPT !.state = "complete"])
  BY DEF Follows, Closes, Deferred, Sound, Entry, Terminal

-----------------------------------------------------------------------------
(* The actions.                                                            *)

IInv == TypeOK /\ (\A j \in Jobs : Sound(task[j])) /\ SettledHasNoDeferred

\* What every step does to the ledger.
AllFollow == task' \in [Jobs -> Entry] /\ \A j \in Jobs : Follows(task[j], task'[j])
AllClose  == \A j \in Jobs : Closes(task[j], task'[j])

\* A step that defers nothing keeps a settled chapter settled.
LEMMA StaysSettled ==
  ASSUME IInv, AllClose, phase' \in {phase, "scan"} PROVE SettledHasNoDeferred'
  BY DEF IInv, AllClose, Closes, SettledHasNoDeferred

LEMMA UnchangedFollow ==
  ASSUME IInv, UNCHANGED task PROVE AllFollow /\ AllClose
  BY FollowsItself DEF IInv, TypeOK, AllFollow, AllClose

\* The sweep gives tasks up and defers none.
LEMMA SweptFollow ==
  ASSUME IInv
  PROVE  Swept \in [Jobs -> Entry] /\ \A j \in Jobs : Follows(task[j], Swept[j]) /\ Closes(task[j], Swept[j])
<1>1. \A j \in Jobs : Follows(task[j], Spent(task[j])) /\ Closes(task[j], Spent(task[j]))
  BY SpentFollows DEF IInv
<1>2. \A j \in Jobs : Spent(task[j]) \in Entry
  BY <1>1 DEF Follows, Sound
<1>. QED
  BY <1>1, <1>2 DEF Swept

\* A step that changes one entry of the swept ledger.
LEMMA SweptThen ==
  ASSUME IInv, NEW j \in Jobs, NEW u, task' = [Swept EXCEPT ![j] = u],
         Follows(Swept[j], u), Closes(Swept[j], u)
  PROVE  AllFollow /\ AllClose /\ \A k \in Jobs : Closes(Swept[k], task'[k])
<1>1. u \in Entry
  BY DEF Follows, Sound
<1>2. Follows(task[j], u) /\ Closes(task[j], u)
  BY SweptFollow, FollowsTrans
<1>3. \A k \in Jobs : task'[k] = IF k = j THEN u ELSE Swept[k]
  BY SweptFollow
<1>4. task' \in [Jobs -> Entry]
  BY <1>1, SweptFollow
<1>. QED
  BY <1>2, <1>3, <1>4, SweptFollow DEF AllFollow, AllClose, Closes

\* A step that changes one entry of the ledger.
LEMMA OneFollows ==
  ASSUME IInv, NEW j \in Jobs, NEW u, task' = [task EXCEPT ![j] = u], Follows(task[j], u)
  PROVE  AllFollow /\ (Closes(task[j], u) => AllClose)
<1>1. u \in Entry
  BY DEF Follows, Sound
<1>2. \A k \in Jobs : task'[k] = IF k = j THEN u ELSE task[k]
  BY DEF IInv, TypeOK
<1>3. task' \in [Jobs -> Entry]
  BY <1>1 DEF IInv, TypeOK
<1>4. \A k \in Jobs : Follows(task[k], task[k]) /\ Closes(task[k], task[k])
  BY FollowsItself DEF IInv
<1>. QED
  BY <1>2, <1>3, <1>4 DEF AllFollow, AllClose

LEMMA StartStep ==
  ASSUME IInv, NEW r \in Turns, Start(r) PROVE AllFollow /\ SettledHasNoDeferred'
<1>1. PICK enabled, changed \in BOOLEAN, found \in SUBSET {j \in Jobs : Tab[j] = tab} :
        /\ task' = [j \in Jobs |->
               IF \/ task[j].pause = "disabled" /\ enabled
                  \/ task[j].pause = "not-ready" /\ j \in found
               THEN [task[j] EXCEPT !.pause = NoPause] ELSE task[j]]
        /\ phase' = IF changed THEN "scan" ELSE phase
  BY DEF Start
<1>2. \A j \in Jobs : Follows(task[j], task'[j]) /\ Closes(task[j], task'[j])
  BY <1>1, PauseFollows, FollowsItself DEF IInv
<1>3. task' \in [Jobs -> Entry]
  <2>1. \A j \in Jobs : task'[j] \in Entry
    BY <1>2 DEF Follows, Sound
  <2>. QED
    BY <1>1, <2>1
<1>. QED
  BY <1>1, <1>2, <1>3, StaysSettled DEF AllFollow, AllClose

LEMMA ResumeStep ==
  ASSUME IInv, Resume PROVE AllFollow /\ SettledHasNoDeferred'
<1>1. task' = [j \in Jobs |->
         IF Tab[j] = tab /\ Deferred(task[j]) /\ task[j].pause \in {"saved", "manual"}
         THEN [task[j] EXCEPT !.pause = NoPause] ELSE task[j]]
  BY DEF Resume
<1>2. \A j \in Jobs : Follows(task[j], task'[j]) /\ Closes(task[j], task'[j])
  BY <1>1, PauseFollows, FollowsItself DEF IInv
<1>3. task' \in [Jobs -> Entry]
  <2>1. \A j \in Jobs : task'[j] \in Entry
    BY <1>2 DEF Follows, Sound
  <2>. QED
    BY <1>1, <2>1
<1>. QED
  BY <1>2, <1>3, StaysSettled DEF Resume, AllFollow, AllClose

\* A result defers a task that is not in the ledger, and then opens the
\* chapter again.
LEMMA RecordStep ==
  ASSUME IInv, NEW j \in Jobs, NEW outcome \in Outcomes, RecordOutcome(j, outcome)
  PROVE  AllFollow /\ SettledHasNoDeferred'
<1> DEFINE t == task[j]
           u == IF outcome \in Pauses THEN [Recorded(t) EXCEPT !.pause = outcome]
                ELSE IF outcome = "static" THEN Recorded(t)
                ELSE Concluded(Attempted(Recorded(t)), outcome)
<1>1. Sound(t)
  BY DEF IInv
<1>2. Follows(t, Recorded(t)) /\ Sound(Recorded(t)) /\ (t.state # "absent" => Recorded(t) = t)
  BY <1>1, RecordedFollows DEF Follows, Recorded
<1>3. Follows(t, u) /\ (t.state # "absent" => Closes(t, u))
  <2>1. CASE outcome \in Pauses
    <3>1. Follows(Recorded(t), u) /\ Closes(Recorded(t), u)
      BY <1>2, <2>1, PauseFollows
    <3>. QED
      BY <1>2, <3>1, FollowsTrans
  <2>2. CASE outcome \notin Pauses /\ outcome = "static"
    BY <1>1, <1>2, <2>2, FollowsItself
  <2>3. CASE outcome \notin Pauses /\ outcome # "static"
    <3> DEFINE v == Attempted(Recorded(t))
    <3>1. Follows(Recorded(t), v) /\ Closes(Recorded(t), v)
      BY <1>2, AttemptedFollows
    <3>2. Sound(v)
      BY <3>1 DEF Follows
    <3>3. Follows(v, Concluded(v, outcome)) /\ Closes(v, Concluded(v, outcome))
      BY <3>2, ConcludedFollows
    <3>4. u = Concluded(v, outcome)
      BY <2>3
    <3>5. Follows(Recorded(t), u) /\ Closes(Recorded(t), u)
      BY ONLY <3>1, <3>3, <3>4, FollowsTrans
    <3>6. Follows(t, u)
      BY ONLY <1>2, <3>5, FollowsTrans
    <3>. QED
      BY ONLY <1>2, <3>5, <3>6
  <2>. QED
    BY <2>1, <2>2, <2>3
<1>4. task' = [task EXCEPT ![j] = u]
  BY DEF RecordOutcome
<1>5. AllFollow /\ (t.state # "absent" => AllClose)
  BY ONLY IInv, j \in Jobs, <1>3, <1>4, OneFollows
<1>6. phase' = IF t.state = "absent" THEN "scan" ELSE phase
  BY DEF RecordOutcome
<1>. QED
  BY <1>5, <1>6, StaysSettled DEF SettledHasNoDeferred

\* Routing settles a chapter only when each task it knows is terminal.
LEMMA RoutedSettles ==
  ASSUME NEW tasks, \A j \in Jobs : Sound(tasks[j]), NEW seen, NEW ph,
         Routed(tasks, seen, ph) = "settled", ph # "settled"
  PROVE  \A j \in Jobs : ~Deferred(tasks[j])
  BY DEF Routed, Known, Deferred, Sound

LEMMA InspectStep ==
  ASSUME IInv, NEW r \in Turns, Inspect(r) PROVE AllFollow /\ SettledHasNoDeferred'
<1>1. UNCHANGED task /\ phase' = Routed(task, inspected', phase)
  BY DEF Inspect
<1>2. AllFollow /\ AllClose
  BY <1>1, UnchangedFollow
<1>. QED
  BY <1>1, <1>2, RoutedSettles DEF IInv, SettledHasNoDeferred

LEMMA StopRetryingStep ==
  ASSUME IInv, NEW r \in Turns, StopRetrying(r) PROVE AllFollow /\ SettledHasNoDeferred'
<1>1. CASE UNCHANGED task /\ phase' \in {phase, "scan"}
  BY <1>1, UnchangedFollow, StaysSettled
<1>2. CASE task' = Swept /\ phase' = Routed(Swept, inspected, PhaseAfter(Swept))
  <2>1. AllFollow
    BY <1>2, SweptFollow DEF AllFollow
  <2>2. \A j \in Jobs : Sound(Swept[j])
    BY SweptFollow DEF Follows
  <2>3. PhaseAfter(Swept) = "settled" => \A j \in Jobs : ~Deferred(Swept[j])
    BY DEF PhaseAfter
  <2>4. phase' = "settled" => \A j \in Jobs : ~Deferred(Swept[j])
    BY <1>2, <2>2, <2>3, RoutedSettles
  <2>. QED
    BY <1>2, <2>1, <2>4 DEF SettledHasNoDeferred
<1>. QED
  BY <1>1, <1>2 DEF StopRetrying, ledger

LEMMA VisitStep ==
  ASSUME IInv, NEW r \in Turns, NEW j \in Jobs, Visit(r, j) PROVE AllFollow /\ SettledHasNoDeferred'
<1>1. Sound(Swept[j]) /\ Deferred(Swept[j])
  BY SweptFollow DEF Visit, Chosen, Pending, Follows
<1>2. PICK u : task' = [Swept EXCEPT ![j] = u] /\ Follows(Swept[j], u) /\ Closes(Swept[j], u)
  <2>1. CASE task' = [Swept EXCEPT ![j] = Attempted(@)]
    BY <1>1, <2>1, AttemptedFollows
  <2>2. CASE task' = [Swept EXCEPT ![j].state = "complete"]
    BY <1>1, <2>2, CompleteFollows
  <2>3. ASSUME NEW reason \in {"disabled", "not-ready"}, task' = [Swept EXCEPT ![j].pause = reason]
        PROVE  \E u : task' = [Swept EXCEPT ![j] = u] /\ Follows(Swept[j], u) /\ Closes(Swept[j], u)
    BY <1>1, <2>3, PauseFollows DEF Pauses
  <2>4. CASE task' = [Swept EXCEPT ![j] = Missed(@)]
    BY <1>1, <2>4, MissedFollows
  <2>. QED
    BY <2>1, <2>2, <2>3, <2>4 DEF Visit
<1>3. AllFollow /\ \A k \in Jobs : Closes(Swept[k], task'[k])
  BY <1>2, SweptThen
<1>4. phase' = PhaseAfter(Swept)
  BY DEF Visit
<1>. QED
  BY <1>3, <1>4 DEF PhaseAfter, Closes, SettledHasNoDeferred

LEMMA AttemptReturnsStep ==
  ASSUME IInv, NEW r \in Turns, NEW outcome \in Outcomes, AttemptReturns(r, outcome)
  PROVE  AllFollow /\ SettledHasNoDeferred'
<1>1. PICK j \in target[r] : task' = [task EXCEPT ![j] = Concluded(@, outcome)]
  BY DEF AttemptReturns
<1>2. j \in Jobs /\ Sound(task[j])
  BY <1>1 DEF IInv, TypeOK
<1>3. Follows(task[j], Concluded(task[j], outcome)) /\ Closes(task[j], Concluded(task[j], outcome))
  BY <1>2, ConcludedFollows
<1>4. AllFollow /\ AllClose
  BY <1>1, <1>2, <1>3, OneFollows
<1>. QED
  BY <1>4, StaysSettled DEF AttemptReturns

LEMMA OrdinaryReturnsStep ==
  ASSUME IInv, NEW r \in Turns, NEW outcome \in Outcomes, OrdinaryReturns(r, outcome)
  PROVE  AllFollow /\ SettledHasNoDeferred'
<1>1. CASE UNCHANGED <<task, phase>>
  BY <1>1, UnchangedFollow, StaysSettled
<1>2. CASE \E j \in target[r] : RecordOutcome(j, outcome)
  BY <1>2, RecordStep DEF IInv, TypeOK
<1>. QED
  BY <1>1, <1>2 DEF OrdinaryReturns

\* Every step makes of each entry one that follows it, and a settled chapter
\* is one without deferred tasks.
LEMMA LedgerStep == ASSUME IInv, [Next]_vars PROVE AllFollow /\ SettledHasNoDeferred'
<1>1. CASE UNCHANGED ledger
  BY <1>1, UnchangedFollow, StaysSettled DEF ledger
<1>2. CASE Next
  <2>1. ASSUME NEW r \in Turns, Start(r) PROVE AllFollow /\ SettledHasNoDeferred'
    BY <2>1, StartStep
  <2>2. ASSUME NEW r \in Turns, NEW j \in Jobs, FindJob(r, j) PROVE UNCHANGED ledger
    BY <2>2 DEF FindJob
  <2>3. ASSUME NEW r \in Turns, NEW j \in Jobs, Visit(r, j) PROVE AllFollow /\ SettledHasNoDeferred'
    BY <2>3, VisitStep
  <2>4. ASSUME NEW r \in Turns, NEW j \in Jobs, NEW reason \in {"disabled", "not-ready"}, JobBlocked(r, j, reason)
        PROVE  AllFollow /\ SettledHasNoDeferred'
    BY <2>4, RecordStep DEF JobBlocked, Outcomes, Pauses
  <2>5. ASSUME NEW r \in Turns, EndScan(r) PROVE UNCHANGED ledger
    BY <2>5 DEF EndScan
  <2>12. ASSUME NEW r \in Turns, Inspect(r) PROVE AllFollow /\ SettledHasNoDeferred'
    BY <2>12, InspectStep
  <2>6. ASSUME NEW r \in Turns, StopRetrying(r) PROVE AllFollow /\ SettledHasNoDeferred'
    BY <2>6, StopRetryingStep
  <2>7. ASSUME NEW r \in Turns, NEW outcome \in Outcomes, OrdinaryReturns(r, outcome)
        PROVE  AllFollow /\ SettledHasNoDeferred'
    BY <2>7, OrdinaryReturnsStep
  <2>8. ASSUME NEW r \in Turns, NEW outcome \in Outcomes, AttemptReturns(r, outcome)
        PROVE  AllFollow /\ SettledHasNoDeferred'
    BY <2>8, AttemptReturnsStep
  <2>9. ASSUME NEW r \in Turns, Vanish(r) PROVE UNCHANGED ledger
    BY <2>9 DEF Vanish
  <2>10. CASE SwitchTab
    BY <1>1, <2>10 DEF SwitchTab
  <2>11. CASE Resume
    BY <2>11, ResumeStep
  <2>. QED
    BY <1>1, <1>2, <2>1, <2>2, <2>3, <2>4, <2>5, <2>6, <2>7, <2>8, <2>9, <2>10, <2>11, <2>12 DEF Next, Work
<1>. QED
  BY <1>1, <1>2 DEF vars, ledger

\* The rest of the types: what a turn does to the control state.
Control ==
    /\ phase \in {"scan", "retry", "settled"}
    /\ inspected \subseteq Tabs
    /\ tab \in Tabs
    /\ turn \in [Turns -> {"idle", "scan", "ordinary", "over", "inspect", "retry", "attempt"}]
    /\ own \in [Turns -> SUBSET Tabs]
    /\ target \in [Turns -> SUBSET Jobs]
    /\ searched \in [Turns -> SUBSET Jobs]

LEMMA ControlStep == ASSUME IInv, [Next]_vars PROVE Control'
<1>0. Control
  BY DEF IInv, TypeOK, Control
<1>1. ASSUME NEW tasks, NEW seen, NEW ph \in {"scan", "retry", "settled"}
      PROVE  Routed(tasks, seen, ph) \in {"scan", "retry", "settled"}
  BY DEF Routed
<1>2. ASSUME NEW tasks PROVE PhaseAfter(tasks) \in {"scan", "retry", "settled"}
  BY DEF PhaseAfter
<1>3. CASE UNCHANGED vars
  BY <1>0, <1>3 DEF Control, vars, ledger
<1>4. CASE Next
  <2>1. ASSUME NEW r \in Turns, Start(r) PROVE Control'
    BY <1>0, <2>1 DEF Control, Start
  <2>2. ASSUME NEW r \in Turns, NEW j \in Jobs, FindJob(r, j) PROVE Control'
    BY <1>0, <2>2 DEF Control, FindJob, Goes, ledger
  <2>3. ASSUME NEW r \in Turns, NEW j \in Jobs, Visit(r, j) PROVE Control'
    <3>1. /\ turn' \in [Turns -> {"idle", "scan", "ordinary", "over", "inspect", "retry", "attempt"}]
          /\ target' \in [Turns -> SUBSET Jobs] /\ UNCHANGED own
      BY <1>0, <2>3 DEF Control, Visit, Goes
    <3>. QED
      BY <1>0, <1>2, <2>3, <3>1 DEF Control, Visit
  <2>4. ASSUME NEW r \in Turns, NEW j \in Jobs, NEW reason, JobBlocked(r, j, reason) PROVE Control'
    BY <1>0, <2>4 DEF Control, JobBlocked, Goes, RecordOutcome
  <2>5. ASSUME NEW r \in Turns, EndScan(r) PROVE Control'
    <3>1. UNCHANGED <<phase, inspected>>
      BY <2>5 DEF EndScan, ledger
    <3>2. /\ turn' \in [Turns -> {"idle", "scan", "ordinary", "over", "inspect", "retry", "attempt"}]
          /\ target' \in [Turns -> SUBSET Jobs] /\ own' \in [Turns -> SUBSET Tabs]
          /\ searched' \in [Turns -> SUBSET Jobs]
      BY <1>0, <2>5 DEF Control, EndScan, Goes, Ends
    <3>. QED
      BY <1>0, <2>5, <3>1, <3>2 DEF Control, EndScan
  <2>12. ASSUME NEW r \in Turns, Inspect(r) PROVE Control'
    <3>1. inspected' \subseteq Tabs /\ phase' \in {"scan", "retry", "settled"}
      BY <1>0, <1>1, <2>12 DEF Control, Inspect
    <3>2. /\ turn' \in [Turns -> {"idle", "scan", "ordinary", "over", "inspect", "retry", "attempt"}]
          /\ target' \in [Turns -> SUBSET Jobs] /\ own' \in [Turns -> SUBSET Tabs]
          /\ searched' \in [Turns -> SUBSET Jobs]
      BY <1>0, <2>12 DEF Control, Inspect, Goes, Ends
    <3>. QED
      BY <1>0, <2>12, <3>1, <3>2 DEF Control, Inspect
  <2>6. ASSUME NEW r \in Turns, StopRetrying(r) PROVE Control'
    <3>1. inspected' \subseteq Tabs /\ phase' \in {"scan", "retry", "settled"}
      BY <1>0, <1>1, <1>2, <2>6 DEF Control, StopRetrying, ledger
    <3>. QED
      BY <1>0, <2>6, <3>1 DEF Control, StopRetrying, Ends
  <2>7. ASSUME NEW r \in Turns, NEW outcome, OrdinaryReturns(r, outcome) PROVE Control'
    <3>1. phase' \in {"scan", "retry", "settled"}
      BY <1>0, <2>7 DEF Control, OrdinaryReturns, RecordOutcome
    <3>. QED
      BY <1>0, <2>7, <3>1 DEF Control, OrdinaryReturns, Goes, Ends
  <2>8. ASSUME NEW r \in Turns, NEW outcome, AttemptReturns(r, outcome) PROVE Control'
    BY <1>0, <2>8 DEF Control, AttemptReturns, Goes, Ends
  <2>9. ASSUME NEW r \in Turns, Vanish(r) PROVE Control'
    BY <1>0, <2>9 DEF Control, Vanish, Ends, ledger
  <2>10. CASE SwitchTab
    BY <1>0, <2>10 DEF Control, SwitchTab, ledger
  <2>11. CASE Resume
    BY <1>0, <2>11, DeferredAssumption DEF Control, Resume
  <2>. QED
    BY <1>4, <2>1, <2>2, <2>3, <2>4, <2>5, <2>6, <2>7, <2>8, <2>9, <2>10, <2>11, <2>12 DEF Next, Work
<1>. QED
  BY <1>3, <1>4

-----------------------------------------------------------------------------
(* The invariant and what it gives.                                        *)

\* The ledger is empty and every turn idle at first; the invariant holds.
LEMMA InitInv == Init => IInv
<1> SUFFICES ASSUME Init PROVE IInv
  OBVIOUS
<1>1. Absent \in Entry /\ Absent.state = "absent" /\ Absent.expired = FALSE /\ Absent.missing = 0
  BY DeferredAssumption DEF Absent, Entry
<1>2. Sound(Absent)
  BY <1>1, DeferredAssumption DEF Sound
<1>3. TypeOK
  BY <1>1, DeferredAssumption DEF Init, TypeOK
<1>. QED
  BY <1>1, <1>2, <1>3 DEF IInv, Init, SettledHasNoDeferred

LEMMA NextInv == IInv /\ [Next]_vars => IInv'
<1> SUFFICES ASSUME IInv, [Next]_vars PROVE IInv'
  OBVIOUS
<1>1. AllFollow /\ SettledHasNoDeferred' /\ Control'
  BY LedgerStep, ControlStep
<1>2. TypeOK'
  BY <1>1 DEF TypeOK, Control, AllFollow, Entry
<1>3. \A j \in Jobs : Sound(task'[j])
  BY <1>1 DEF AllFollow, Follows
<1>4. (\A j \in Jobs : Sound(task[j]))'
  BY <1>3
<1>. QED
  BY <1>1, <1>2, <1>4 DEF IInv

\* The invariant holds of every state the study turns reach: TypeOK and the
\* entries sound and no deferred task in a settled chapter.
THEOREM LedgerInvariant == Spec => []IInv
  BY InitInv, NextInv, PTL DEF Spec

\* Counters stay in their bounds, for any configured number of attempts.
THEOREM LedgerTypes == Spec => []TypeOK
<1>1. IInv => TypeOK
  BY DEF IInv
<1>. QED
  BY <1>1, LedgerInvariant, PTL

\* A task is only given up because it expired, its attempts are used up or
\* its job has been missing too often.
THEOREM LedgerAbandons == Spec => []AbandonedForReason
<1>1. IInv => AbandonedForReason
  BY DEF IInv, Sound, AbandonedForReason
<1>. QED
  BY <1>1, LedgerInvariant, PTL

\* A settled chapter has no deferred task left.
THEOREM LedgerSettles == Spec => []SettledHasNoDeferred
<1>1. IInv => SettledHasNoDeferred
  BY DEF IInv
<1>. QED
  BY <1>1, LedgerInvariant, PTL

\* Late results of any number of turns leave a terminal task terminal.
THEOREM LedgerIsFinal == Spec => TerminalIsFinal
<1>1. IInv /\ [Next]_vars =>
        [\A j \in Jobs : task[j].state \in {"complete", "abandoned"} => task'[j].state = task[j].state]_vars
  BY LedgerStep DEF AllFollow, Follows, Terminal
<1>. QED
  BY <1>1, LedgerInvariant, PTL DEF Spec, TerminalIsFinal

-----------------------------------------------------------------------------
(* Attempts in progress.  Every operation but one keeps the attempts of a  *)
(* task that still counts; the one that gives a reservation back is made   *)
(* by the turn that held it.                                               *)

Keeps(t, u) == ~Terminal(u) => u.attempts >= t.attempts

\* The invariant, for a job: as many attempts are counted as there are turns
\* in one, until the task is terminal; none are for a job not in the ledger.
Covered(j) ==
    /\ IsFiniteSet(InProgress(j))
    /\ ~Terminal(task[j]) => Cardinality(InProgress(j)) <= task[j].attempts

LEMMA KeepsTrans ==
  ASSUME NEW t, NEW u, NEW v, t \in Entry, u \in Entry, v \in Entry,
         Keeps(t, u), Keeps(u, v), Follows(u, v)
  PROVE  Keeps(t, v)
  BY DEF Keeps, Follows, Terminal, Entry

LEMMA SmallKeeps ==
  ASSUME NEW t, t \in Entry
  PROVE  /\ Keeps(t, t) /\ Keeps(t, Recorded(t)) /\ Keeps(t, Spent(t))
         /\ Keeps(t, Missed(t)) /\ Keeps(t, [t EXCEPT !.state = "complete"])
         /\ \A p : Keeps(t, [t EXCEPT !.pause = p])
<1>1. t.attempts \in Int
  BY DEF Entry
<1>2. Keeps(t, t)
  BY <1>1 DEF Keeps
<1>3. Keeps(t, Recorded(t))
  BY <1>1 DEF Keeps, Recorded, Entry
<1>4. Keeps(t, Spent(t))
  BY <1>1 DEF Keeps, Spent, Entry
<1>5. Keeps(t, Missed(t))
  BY <1>1 DEF Keeps, Missed, Entry
<1>6. Keeps(t, [t EXCEPT !.state = "complete"])
  BY <1>1 DEF Keeps, Entry
<1>7. \A p : Keeps(t, [t EXCEPT !.pause = p])
  BY <1>1 DEF Keeps, Entry
<1>. QED
  BY <1>2, <1>3, <1>4, <1>5, <1>6, <1>7

\* What a visit that does not begin an attempt makes of an entry.
LEMMA VisitKeeps ==
  ASSUME NEW t, t \in Entry, NEW u,
         \/ u = [t EXCEPT !.state = "complete"]
         \/ \E p : u = [t EXCEPT !.pause = p]
         \/ u = Missed(t)
  PROVE  Keeps(t, u)
<1>1. CASE u = [t EXCEPT !.state = "complete"]
  BY ONLY <1>1, SmallKeeps, t \in Entry
<1>2. ASSUME NEW p, u = [t EXCEPT !.pause = p] PROVE Keeps(t, u)
  <2>1. u.attempts = t.attempts /\ t.attempts \in Int
    BY <1>2 DEF Entry
  <2>. QED
    BY ONLY <2>1 DEF Keeps
<1>3. CASE u = Missed(t)
  BY ONLY <1>3, SmallKeeps, t \in Entry
<1>. QED
  BY <1>1, <1>2, <1>3

LEMMA AttemptedKeeps ==
  ASSUME NEW t, t \in Entry PROVE Keeps(t, Attempted(t))
<1>1. t.attempts \in Int
  BY DEF Entry
<1>2. CASE MayAttempt(t)
  <2>1. Attempted(t) = [t EXCEPT !.attempts = @ + 1, !.missing = 0]
    BY <1>2 DEF Attempted
  <2>2. Attempted(t).attempts = t.attempts + 1
    BY <2>1 DEF Entry
  <2>. QED
    BY <1>1, <2>2 DEF Keeps
<1>. QED
  BY <1>2, SmallKeeps DEF Attempted

LEMMA ConcludedKeeps ==
  ASSUME NEW t, t \in Entry, NEW outcome \in Outcomes \ Pauses
  PROVE  Keeps(t, Concluded(t, outcome))
<1>1. t.attempts \in Int
  BY DEF Entry
<1>2. \/ Concluded(t, outcome) = t
      \/ Concluded(t, outcome) = [t EXCEPT !.expired = TRUE, !.state = "abandoned"]
      \/ Concluded(t, outcome) = [t EXCEPT !.state = "complete", !.missing = 0]
      \/ Concluded(t, outcome) = [t EXCEPT !.state = "abandoned"]
  BY DEF Concluded, Outcomes, Pauses
<1>3. Concluded(t, outcome).attempts = t.attempts
  BY <1>2 DEF Entry
<1>. QED
  BY <1>1, <1>3 DEF Keeps

\* What is left of Covered when no attempt begins and none is given back.
LEMMA CoveredStays ==
  ASSUME IInv, NEW j \in Jobs, Covered(j), AllFollow,
         InProgress(j)' \subseteq InProgress(j), Keeps(task[j], task'[j])
  PROVE  Covered(j)'
<1> DEFINE P == InProgress(j)
           Q == InProgress(j)'
<1>1. IsFiniteSet(Q) /\ Cardinality(Q) <= Cardinality(P)
  BY FS_Subset DEF Covered
<1>2. Cardinality(Q) \in Nat /\ Cardinality(P) \in Nat
  BY <1>1, FS_CardinalityType DEF Covered
<1>3. ~Terminal(task'[j]) => ~Terminal(task[j])
  BY DEF AllFollow, Follows, Terminal
<1>4. task[j].attempts \in Int /\ task'[j].attempts \in Int
  BY DEF IInv, TypeOK, AllFollow, Entry
<1>5. ~Terminal(task'[j]) => Cardinality(Q) <= task'[j].attempts
  <2>1. ~Terminal(task[j]) => Cardinality(P) <= task[j].attempts
    BY DEF Covered
  <2> HIDE DEF P, Q
  <2>. QED
    BY <1>1, <1>2, <1>3, <1>4, <2>1 DEF Keeps
<1>. QED
  BY <1>1, <1>5 DEF Covered, Terminal

\* A turn that reserves an attempt is counted for it.
LEMMA CoveredVisit ==
  ASSUME IInv, NEW r \in Turns, NEW j \in Jobs, NEW k \in Jobs, Visit(r, k), Covered(j), AllFollow
  PROVE  Covered(j)'
<1>1. turn[r] = "retry" /\ r \notin InProgress(j)
  BY DEF Visit, InProgress
<1>2. /\ Swept[j] = Spent(task[j]) /\ Swept[j] \in Entry /\ task[j] \in Entry
      /\ Follows(task[j], Swept[j]) /\ Keeps(task[j], Swept[j])
  BY SweptFollow, SmallKeeps DEF Swept, IInv, TypeOK
<1>3. task'[j] \in Entry /\ Follows(task[j], task'[j])
  BY DEF AllFollow
<1>4. CASE j # k
  <2>1. task'[j] = Swept[j]
    BY <1>4, SweptFollow DEF Visit
  <2>2. InProgress(j)' \subseteq InProgress(j)
    BY <1>4 DEF InProgress, Visit, Goes, IInv, TypeOK
  <2>. QED
    BY <1>2, <2>1, <2>2, CoveredStays
<1>5. CASE j = k /\ ~(task' = [Swept EXCEPT ![k] = Attempted(@)] /\ Goes(r, "attempt", {k}))
  <2>1. Goes(r, "retry", {})
    BY <1>5 DEF Visit
  <2>2. InProgress(j)' \subseteq InProgress(j)
    BY <2>1 DEF InProgress, Goes, IInv, TypeOK
  <2>3. \/ task'[j] = [Swept[j] EXCEPT !.state = "complete"]
        \/ \E p : task'[j] = [Swept[j] EXCEPT !.pause = p]
        \/ task'[j] = Missed(Swept[j])
    BY <1>5, SweptFollow DEF Visit
  <2>4. Keeps(Swept[j], task'[j]) /\ Follows(Swept[j], task'[j])
    <3>1. Sound(Swept[j]) /\ Deferred(Swept[j])
      BY <1>2, <1>5 DEF Visit, Chosen, Pending, Follows
    <3>2. Follows(Swept[j], task'[j])
      BY <1>3, <3>1 DEF Follows, Terminal, Deferred
    <3>3. Keeps(Swept[j], task'[j])
      BY ONLY <1>2, <2>3, VisitKeeps
    <3>. QED
      BY <3>2, <3>3
  <2>. QED
    BY <1>2, <1>3, <2>2, <2>4, KeepsTrans, CoveredStays
<1>6. CASE j = k /\ task' = [Swept EXCEPT ![k] = Attempted(@)] /\ Goes(r, "attempt", {k})
  <2>1. Deferred(Swept[j]) /\ Swept[j].pause = NoPause /\ Sound(Swept[j])
    BY <1>2, <1>6 DEF Visit, Chosen, Pending, Follows
  <2>2. Swept[j] = task[j] /\ MayAttempt(task[j])
    BY <1>2, <2>1, DeferredAssumption DEF Spent, Deferred, MayAttempt, Sound, Entry
  <2>3. task'[j] = [task[j] EXCEPT !.attempts = @ + 1, !.missing = 0]
    BY <1>6, <2>2, SweptFollow DEF Attempted
  <2>4. task'[j].attempts = task[j].attempts + 1 /\ ~Terminal(task[j])
    BY <1>2, <2>2, <2>3 DEF Entry, MayAttempt, Terminal
  <2>5. InProgress(j)' = InProgress(j) \cup {r}
    BY <1>6 DEF InProgress, Goes, IInv, TypeOK
  <2>6. /\ IsFiniteSet(InProgress(j)')
        /\ Cardinality(InProgress(j)') = Cardinality(InProgress(j)) + 1
    BY <1>1, <2>5, FS_AddElement DEF Covered
  <2>7. Cardinality(InProgress(j)) \in Nat /\ Cardinality(InProgress(j)) <= task[j].attempts
    BY <2>4, FS_CardinalityType DEF Covered
  <2>8. task[j].attempts \in Int
    BY <1>2 DEF Entry
  <2>9. Cardinality(InProgress(j)') <= task'[j].attempts
    BY ONLY <2>4, <2>6, <2>7, <2>8
  <2>. QED
    BY <2>6, <2>9 DEF Covered
<1>. QED
  BY <1>4, <1>5, <1>6

\* A turn that gives its reservation back was counted for it.
LEMMA CoveredReturn ==
  ASSUME IInv, NEW r \in Turns, NEW outcome \in Outcomes, AttemptReturns(r, outcome),
         NEW j \in Jobs, Covered(j), AllFollow
  PROVE  Covered(j)'
<1>1. PICK k \in target[r] : task' = [task EXCEPT ![k] = Concluded(@, outcome)]
  BY DEF AttemptReturns
<1>2. task[j] \in Entry /\ task'[j] \in Entry
  BY DEF AllFollow, IInv, TypeOK
<1>3. InProgress(j)' \subseteq InProgress(j) \ {r}
  BY DEF InProgress, AttemptReturns, Goes, Ends, IInv, TypeOK
<1>4. CASE j # k
  BY <1>1, <1>2, <1>3, <1>4, SmallKeeps, CoveredStays DEF IInv, TypeOK
<1>5. CASE j = k /\ outcome \notin Pauses
  <2>1. task'[j] = Concluded(task[j], outcome)
    BY <1>1, <1>5 DEF IInv, TypeOK
  <2>. QED
    BY <1>2, <1>3, <1>5, <2>1, ConcludedKeeps, CoveredStays
<1>6. CASE j = k /\ outcome \in Pauses /\ Terminal(task[j])
  <2>1. Terminal(task'[j])
    BY <1>6 DEF AllFollow, Follows, Terminal
  <2>2. IsFiniteSet(InProgress(j)')
    BY <1>3, FS_Subset DEF Covered
  <2>. QED
    BY <2>1, <2>2 DEF Covered, Terminal
<1>7. CASE j = k /\ outcome \in Pauses /\ ~Terminal(task[j])
  <2>1. r \in InProgress(j)
    BY <1>1, <1>7 DEF InProgress, AttemptReturns
  <2>2. /\ IsFiniteSet(InProgress(j) \ {r})
        /\ Cardinality(InProgress(j) \ {r}) = Cardinality(InProgress(j)) - 1
    BY <2>1, FS_RemoveElement DEF Covered
  <2>3. IsFiniteSet(InProgress(j)') /\ Cardinality(InProgress(j)') <= Cardinality(InProgress(j) \ {r})
    BY <1>3, <2>2, FS_Subset
  <2>4. /\ Cardinality(InProgress(j)') \in Nat /\ Cardinality(InProgress(j)) \in Nat
        /\ Cardinality(InProgress(j)) <= task[j].attempts
    BY <1>7, <2>3, FS_CardinalityType DEF Covered
  <2>5. task'[j] = Concluded(task[j], outcome)
    BY <1>1, <1>7 DEF IInv, TypeOK
  <2>6. task'[j].attempts >= task[j].attempts - 1
    <3>1. task[j].attempts \in Nat
      BY <1>2, DeferredAssumption DEF Entry
    <3>2. \/ task'[j] = task[j]
          \/ task'[j] = [task[j] EXCEPT !.pause = outcome, !.attempts = IF @ = 0 THEN 0 ELSE @ - 1]
      BY <1>7, <2>5 DEF Concluded, Pauses
    <3>3. \/ task'[j].attempts = task[j].attempts
          \/ task'[j].attempts = IF task[j].attempts = 0 THEN 0 ELSE task[j].attempts - 1
      BY <1>2, <3>2 DEF Entry
    <3>. QED
      BY ONLY <3>1, <3>3
  <2>7. task[j].attempts \in Int /\ task'[j].attempts \in Int
    BY <1>2 DEF Entry
  <2>8. Cardinality(InProgress(j)') <= task'[j].attempts
    BY ONLY <2>2, <2>3, <2>4, <2>6, <2>7
  <2>. QED
    BY <2>3, <2>8 DEF Covered
<1>. QED
  BY <1>4, <1>5, <1>6, <1>7

\* A result of an ordinary run takes no attempt away.
LEMMA RecordKeeps ==
  ASSUME IInv, NEW k \in Jobs, NEW outcome \in Outcomes, RecordOutcome(k, outcome), NEW j \in Jobs
  PROVE  Keeps(task[j], task'[j])
<1> DEFINE t == task[k]
<1>1. Sound(t) /\ t \in Entry /\ task[j] \in Entry
  BY DEF IInv, TypeOK
<1>2. Follows(t, Recorded(t)) /\ Sound(Recorded(t)) /\ Recorded(t) \in Entry
  BY <1>1, RecordedFollows DEF Follows, Sound
<1>3. CASE j # k
  BY <1>1, <1>3, SmallKeeps DEF RecordOutcome, IInv, TypeOK
<1>4. CASE j = k /\ outcome \in Pauses
  <2>1. task'[j] = [Recorded(t) EXCEPT !.pause = outcome]
    BY <1>4 DEF RecordOutcome, IInv, TypeOK
  <2>2. Keeps(Recorded(t), [Recorded(t) EXCEPT !.pause = outcome])
    BY ONLY <1>2, SmallKeeps
  <2>3. Follows(Recorded(t), [Recorded(t) EXCEPT !.pause = outcome])
    BY ONLY <1>2, <1>4, PauseFollows
  <2>4. Keeps(Recorded(t), task'[j]) /\ Follows(Recorded(t), task'[j])
    BY ONLY <2>1, <2>2, <2>3
  <2>5. task'[j] \in Entry
    BY <2>4 DEF Follows, Sound
  <2>6. Keeps(t, Recorded(t))
    BY <1>1, SmallKeeps
  <2>. QED
    BY ONLY <1>1, <1>2, <1>4, <2>4, <2>5, <2>6, KeepsTrans
<1>5. CASE j = k /\ outcome = "static"
  BY <1>1, <1>5, SmallKeeps DEF RecordOutcome, IInv, TypeOK, Pauses
<1>6. CASE j = k /\ outcome \notin Pauses \cup {"static"}
  <2> DEFINE v == Attempted(Recorded(t))
  <2>1. task'[j] = Concluded(v, outcome)
    BY <1>6 DEF RecordOutcome, IInv, TypeOK
  <2>2. Follows(Recorded(t), v) /\ Sound(v) /\ v \in Entry
    BY <1>2, AttemptedFollows DEF Follows, Sound
  <2>3. Follows(v, task'[j]) /\ task'[j] \in Entry
    BY <2>1, <2>2, ConcludedFollows DEF Follows, Sound
  <2>4. Keeps(t, Recorded(t)) /\ Keeps(Recorded(t), v) /\ Keeps(v, task'[j])
    <3>1. Keeps(t, Recorded(t))
      BY <1>1, SmallKeeps
    <3>2. Keeps(Recorded(t), v)
      BY ONLY <1>2, AttemptedKeeps
    <3>3. Keeps(v, Concluded(v, outcome))
      BY ONLY <1>6, <2>2, outcome \in Outcomes, ConcludedKeeps
    <3>. QED
      BY ONLY <2>1, <3>1, <3>2, <3>3
  <2>5. Keeps(t, v)
    BY ONLY <1>1, <1>2, <2>2, <2>4, KeepsTrans
  <2>. QED
    BY ONLY <1>1, <1>6, <2>2, <2>3, <2>4, <2>5, KeepsTrans
<1>. QED
  BY <1>3, <1>4, <1>5, <1>6

\* Every other step leaves the turns in an attempt, or takes one away.
LEMMA CoveredStep ==
  ASSUME IInv, [Next]_vars, NEW j \in Jobs, Covered(j) PROVE Covered(j)'
<1>1. AllFollow
  BY LedgerStep
<1>2. task[j] \in Entry /\ task'[j] \in Entry
  BY <1>1 DEF AllFollow, IInv, TypeOK
<1>3. CASE UNCHANGED task /\ InProgress(j)' \subseteq InProgress(j)
  BY <1>1, <1>2, <1>3, SmallKeeps, CoveredStays
<1>4. CASE UNCHANGED vars
  <2>1. UNCHANGED task /\ InProgress(j)' = InProgress(j)
    BY <1>4 DEF vars, ledger, InProgress
  <2>. QED
    BY <1>3, <2>1
<1>5. CASE Next
  <2>1. ASSUME NEW r \in Turns, Start(r) PROVE Covered(j)'
    <3>1. \/ task'[j] = task[j]
          \/ task'[j] = [task[j] EXCEPT !.pause = NoPause]
      BY <2>1 DEF Start
    <3>2. Keeps(task[j], task'[j])
      <4>1. Keeps(task[j], task[j]) /\ Keeps(task[j], [task[j] EXCEPT !.pause = NoPause])
        BY ONLY <1>2, SmallKeeps
      <4>. QED
        BY ONLY <3>1, <4>1
    <3>3. InProgress(j)' \subseteq InProgress(j)
      BY <2>1 DEF Start, InProgress, IInv, TypeOK
    <3>. QED
      BY <1>1, <3>2, <3>3, CoveredStays
  <2>2. ASSUME NEW r \in Turns, NEW k \in Jobs, FindJob(r, k) PROVE Covered(j)'
    <3>1. UNCHANGED task /\ InProgress(j)' \subseteq InProgress(j)
      BY <2>2 DEF FindJob, Goes, ledger, InProgress, IInv, TypeOK
    <3>. QED
      BY <1>3, <3>1
  <2>3. ASSUME NEW r \in Turns, NEW k \in Jobs, Visit(r, k) PROVE Covered(j)'
    BY <1>1, <2>3, CoveredVisit
  <2>4. ASSUME NEW r \in Turns, NEW k \in Jobs, NEW reason \in {"disabled", "not-ready"}, JobBlocked(r, k, reason)
        PROVE  Covered(j)'
    <3>1. RecordOutcome(k, reason) /\ reason \in Outcomes
      BY <2>4 DEF JobBlocked, Outcomes, Pauses
    <3>2. InProgress(j)' \subseteq InProgress(j)
      BY <2>4 DEF JobBlocked, Goes, InProgress, IInv, TypeOK
    <3>. QED
      BY <1>1, <3>1, <3>2, RecordKeeps, CoveredStays
  <2>5. ASSUME NEW r \in Turns, EndScan(r) PROVE Covered(j)'
    <3>1. UNCHANGED task /\ InProgress(j)' \subseteq InProgress(j)
      BY <2>5 DEF EndScan, Goes, Ends, ledger, InProgress, IInv, TypeOK
    <3>. QED
      BY <1>3, <3>1
  <2>12. ASSUME NEW r \in Turns, Inspect(r) PROVE Covered(j)'
    <3>1. UNCHANGED task /\ InProgress(j)' \subseteq InProgress(j)
      BY <2>12 DEF Inspect, Goes, Ends, InProgress, IInv, TypeOK
    <3>. QED
      BY <1>3, <3>1
  <2>6. ASSUME NEW r \in Turns, StopRetrying(r) PROVE Covered(j)'
    <3>1. InProgress(j)' \subseteq InProgress(j)
      BY <2>6 DEF StopRetrying, Ends, InProgress, IInv, TypeOK
    <3>2. task'[j] = task[j] \/ task'[j] = Spent(task[j])
      BY <2>6 DEF StopRetrying, ledger, Swept
    <3>3. Keeps(task[j], task'[j])
      BY <1>2, <3>2, SmallKeeps
    <3>. QED
      BY <1>1, <3>1, <3>3, CoveredStays
  <2>7. ASSUME NEW r \in Turns, NEW outcome \in Outcomes, OrdinaryReturns(r, outcome) PROVE Covered(j)'
    <3>1. InProgress(j)' \subseteq InProgress(j)
      BY <2>7 DEF OrdinaryReturns, Goes, Ends, InProgress, IInv, TypeOK
    <3>2. UNCHANGED task \/ \E k \in Jobs : RecordOutcome(k, outcome)
      BY <2>7 DEF OrdinaryReturns, IInv, TypeOK
    <3>3. Keeps(task[j], task'[j])
      BY <1>2, <3>2, SmallKeeps, RecordKeeps
    <3>. QED
      BY <1>1, <3>1, <3>3, CoveredStays
  <2>8. ASSUME NEW r \in Turns, NEW outcome \in Outcomes, AttemptReturns(r, outcome) PROVE Covered(j)'
    BY <1>1, <2>8, CoveredReturn
  <2>9. ASSUME NEW r \in Turns, Vanish(r) PROVE Covered(j)'
    <3>1. UNCHANGED task /\ InProgress(j)' \subseteq InProgress(j)
      BY <2>9 DEF Vanish, Ends, ledger, InProgress, IInv, TypeOK
    <3>. QED
      BY <1>3, <3>1
  <2>10. CASE SwitchTab
    BY <1>3, <2>10 DEF SwitchTab, ledger, InProgress
  <2>11. CASE Resume
    <3>1. \/ task'[j] = task[j]
          \/ task'[j] = [task[j] EXCEPT !.pause = NoPause]
      BY <2>11 DEF Resume
    <3>2. Keeps(task[j], task'[j])
      <4>1. Keeps(task[j], task[j]) /\ Keeps(task[j], [task[j] EXCEPT !.pause = NoPause])
        BY ONLY <1>2, SmallKeeps
      <4>. QED
        BY ONLY <3>1, <4>1
    <3>3. InProgress(j)' \subseteq InProgress(j)
      BY <2>11 DEF Resume, InProgress
    <3>. QED
      BY <1>1, <3>2, <3>3, CoveredStays
  <2>. QED
    BY <1>5, <2>1, <2>2, <2>3, <2>4, <2>5, <2>6, <2>7, <2>8, <2>9, <2>10, <2>11, <2>12 DEF Next, Work
<1>. QED
  BY <1>4, <1>5

\* No interleaving of turns makes the ledger forget an attempt in progress: a
\* task has at least as many counted attempts as turns in one.
THEOREM LedgerCovers == Spec => []AttemptsCovered
<1> DEFINE CInv == IInv /\ \A j \in Jobs : Covered(j)
<1>1. Init => CInv
  <2> SUFFICES ASSUME Init, NEW j \in Jobs PROVE Covered(j)
    BY InitInv
  <2>1. InProgress(j) = {}
    BY DEF Init, InProgress
  <2>. QED
    BY <2>1, FS_EmptySet DEF Covered, Init, Absent
<1>2. CInv /\ [Next]_vars => CInv'
  BY NextInv, CoveredStep
<1>3. CInv => AttemptsCovered
  BY DEF Covered, AttemptsCovered, Terminal, Deferred
<1> HIDE DEF CInv
<1>. QED
  BY <1>1, <1>2, <1>3, PTL DEF Spec
=============================================================================
