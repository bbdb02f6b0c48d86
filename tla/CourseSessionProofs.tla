------------------------ MODULE CourseSessionProofs ------------------------
(***************************************************************************)
(* Proofs about CourseSession, for any courses, tasks, callers and bounds. *)
(*                                                                         *)
(* The invariant is about a session record and the consent given, so that  *)
(* each operator the session is changed by has a lemma of its own: what is *)
(* shown, kept in memory or stored is backed by consent, and an open       *)
(* question belongs to the present visit and is saved as pending, so that  *)
(* a refusal finds no acceptance of the course left anywhere.  A second    *)
(* one, of the refused courses, follows what is kept of a refusal.         *)
(***************************************************************************)
EXTENDS CourseSession, TLAPS

\* What a snapshot of a course accepts was agreed to.
Backed(d, p, con) == (d.decision = "accepted" => NoKey \in con[p]) /\ d.tasks \subseteq con[p]

AllBacked(s, con) ==
    /\ Backed(s, s.scope, con)
    /\ \A p \in Scopes : Backed(s.memory[p], p, con) /\ Backed(s.stored[p], p, con)
    /\ \A a \in s.asks : a.outcome = "accepted" => a.key \in con[a.scope]

AsksFit(s) ==
    \A a \in s.asks :
        /\ a.gen <= s.gen
        /\ \A b \in s.asks : a.gen = b.gen => a = b
        /\ a.scope = NoScope => a.key = NoKey
        /\ a.outcome = "open" => a.gen = s.gen /\ a.scope = s.scope /\ a.key = s.paused /\ s.decision = "pending"

StorageFits(s) ==
    /\ storage = "ok" => s.available
    /\ storage \in {"off", "denied"} => \A p \in Scopes : s.stored[p] = Empty

Fits(s, con) ==
    /\ s \in Session
    /\ ~s.lost => AllBacked(s, con)
    /\ AsksFit(s)
    /\ StorageFits(s)

PendingSaved(s) ==
    \A a \in s.asks : a.outcome = "open" /\ a.scope \in Scopes =>
        /\ s.memory[a.scope].decision = "pending"
        /\ ~s.lost => s.stored[a.scope].decision # "accepted"

CallersFit == \A c \in Callers : caller[c].scope = NoScope <=> caller[c].key = NoKey

Kin(a, b) == a.gen = b.gen /\ a.key = b.key

WaitersFit ==
    \A c \in Callers : caller[c].at = "waiting" => \E a \in session.asks : Kin(a, caller[c])

IInv ==
    /\ TypeOK
    /\ Fits(session, consent)
    /\ PendingSaved(session)
    /\ CallersFit
    /\ WaitersFit

Consents == [Places -> SUBSET Questions]

NoOpen(s) == \A a \in s.asks : a.outcome # "open"

-----------------------------------------------------------------------------
(* The helpers of the session.                                             *)

LEMMA ShotType == ASSUME NEW s \in Session PROVE Shot(s) \in Snapshot
  BY DEF Session, Snapshot, Shot

LEMMA EmptyType == Empty \in Snapshot
  BY DEF Empty, Snapshot, Decisions, Questions

\* A session with other contents of its stores is one.
LEMMA StoredFits ==
  ASSUME NEW s \in Session, NEW visited \in SUBSET Scopes,
         NEW memory \in [Scopes -> Snapshot], NEW stored \in [Scopes -> Snapshot],
         NEW available \in BOOLEAN, NEW lost \in BOOLEAN
  PROVE  [s EXCEPT !.visited = visited, !.memory = memory, !.stored = stored,
                   !.available = available, !.lost = lost] \in Session
  BY DEF Session

\* save() keeps the shape of a session.
LEMMA SavedType == ASSUME NEW s \in Session PROVE Saved(s) \in Session
<1>1. CASE s.scope = NoScope
  BY <1>1 DEF Saved
<1>2. CASE s.scope # NoScope
  <2>. DEFINE memory == [s.memory EXCEPT ![s.scope] = Shot(s)]
  <2>. DEFINE stored == [s.stored EXCEPT ![s.scope] = IF storage = "ok" /\ s.available THEN Shot(s) ELSE @]
  <2>. DEFINE visited == s.visited \cup {s.scope}
  <2>. DEFINE available == s.available /\ storage \in {"ok", "off"}
  <2>. DEFINE lost == s.lost \/ storage = "full"
  <2>1. Saved(s) = [s EXCEPT !.visited = visited, !.memory = memory, !.stored = stored,
                             !.available = available, !.lost = lost]
    BY <1>2 DEF Saved
  <2>2. memory \in [Scopes -> Snapshot] /\ stored \in [Scopes -> Snapshot]
    BY ShotType DEF Session
  <2>3. available \in BOOLEAN /\ lost \in BOOLEAN
    OBVIOUS
  <2>4. visited \in SUBSET Scopes
    BY <1>2 DEF Session, Places
  <2>. HIDE DEF memory, stored, visited, available, lost
  <2>5. [s EXCEPT !.visited = visited, !.memory = memory, !.stored = stored,
                  !.available = available, !.lost = lost] \in Session
    BY <2>2, <2>3, <2>4, StoredFits
  <2>. QED
    BY <2>1, <2>5
<1>. QED
  BY <1>1, <1>2

\* What save() leaves in the session and its stores
LEMMA SavedIs ==
  ASSUME NEW s \in Session, s.scope # NoScope
  PROVE  LET t == Saved(s)
         IN  /\ t.scope = s.scope /\ t.gen = s.gen /\ t.decision = s.decision /\ t.tasks = s.tasks
             /\ t.asks = s.asks /\ t.paused = s.paused
             /\ t.visited = s.visited \cup {s.scope}
             /\ t.memory = [s.memory EXCEPT ![s.scope] = Shot(s)]
             /\ t.stored = [s.stored EXCEPT ![s.scope] = IF storage = "ok" /\ s.available THEN Shot(s) ELSE @]
             /\ t.available = (s.available /\ storage \in {"ok", "off"})
             /\ t.lost = (s.lost \/ storage = "full")
             /\ s.scope \in Scopes
<1>. DEFINE t == Saved(s)
<1>1. t = [s EXCEPT
             !.visited = @ \cup {s.scope},
             !.memory[s.scope] = Shot(s),
             !.stored[s.scope] = IF storage = "ok" /\ s.available THEN Shot(s) ELSE @,
             !.available = @ /\ storage \in {"ok", "off"},
             !.lost = @ \/ storage = "full"]
  BY DEF Saved
<1>. HIDE DEF t
<1>2. s.scope \in Scopes
  BY DEF Session, Places
<1>. QED
  BY <1>1, <1>2 DEF Session, t

\* save() keeps the session fit, and saves an open question.
LEMMA SavedFits ==
  ASSUME NEW s, NEW con \in Consents, Fits(s, con),
         storage \in {"ok", "full", "denied", "off"}
  PROVE  /\ Fits(Saved(s), con)
         /\ PendingSaved(Saved(s))
         /\ s.lost => Saved(s).lost
<1>1. CASE s.scope = NoScope
  <2>1. Saved(s) = s
    BY <1>1 DEF Saved
  <2>2. \A a \in s.asks : a.outcome = "open" => a.scope = NoScope
    BY <1>1 DEF Fits, AsksFit
  <2>. QED
    BY <2>1, <2>2, CourseSessionAssumption DEF Fits, PendingSaved
<1>2. CASE s.scope # NoScope
  <2>0. s \in Session /\ s.scope \in Scopes
    BY <1>2 DEF Fits, Session, Places
  <2>. DEFINE t == Saved(s)
  <2>2. t \in Session
    BY <2>0, SavedType
  <2>3. /\ t.scope = s.scope /\ t.gen = s.gen /\ t.decision = s.decision /\ t.tasks = s.tasks
        /\ t.asks = s.asks /\ t.paused = s.paused
        /\ t.memory = [s.memory EXCEPT ![s.scope] = Shot(s)]
        /\ t.stored = [s.stored EXCEPT ![s.scope] = IF storage = "ok" /\ s.available THEN Shot(s) ELSE @]
        /\ t.available = (s.available /\ storage \in {"ok", "off"})
        /\ t.lost = (s.lost \/ storage = "full")
    BY <1>2, <2>0, SavedIs
  <2>4. AsksFit(t)
    BY <2>3 DEF AsksFit, Fits
  <2>. HIDE DEF t
  <2>5. StorageFits(t)
    <3>1. storage = "ok" => t.available
      BY <2>3 DEF StorageFits, Fits
    <3>2. ASSUME storage \in {"off", "denied"} PROVE \A p \in Scopes : t.stored[p] = Empty
      <4>1. t.stored = [s.stored EXCEPT ![s.scope] = s.stored[s.scope]]
        BY <2>3, <3>2
      <4>. QED
        BY <2>0, <3>2, <4>1 DEF StorageFits, Fits, Session
    <3>. QED
      BY <3>1, <3>2 DEF StorageFits
  <2>6. ASSUME ~t.lost PROVE AllBacked(t, con)
    <3>1. AllBacked(s, con)
      BY <2>3, <2>6 DEF Fits
    <3>2. Backed(Shot(s), s.scope, con)
      BY <3>1 DEF AllBacked, Backed, Shot
    <3>3. \A p \in Scopes : Backed(t.memory[p], p, con) /\ Backed(t.stored[p], p, con)
      BY <2>0, <2>3, <3>1, <3>2 DEF AllBacked, Session
    <3>. QED
      BY <2>3, <3>1, <3>3 DEF AllBacked, Backed
  <2>7. PendingSaved(t)
    <3> SUFFICES ASSUME NEW a \in t.asks, a.outcome = "open", a.scope \in Scopes
                 PROVE  t.memory[a.scope].decision = "pending"
                        /\ (~t.lost => t.stored[a.scope].decision # "accepted")
      BY DEF PendingSaved
    <3>1. a.scope = s.scope /\ s.decision = "pending"
      BY <2>3 DEF Fits, AsksFit
    <3>2. t.memory[s.scope] = Shot(s) /\ Shot(s).decision = "pending"
      BY <2>0, <2>3, <3>1 DEF Session, Shot
    <3>3. storage = "ok" => t.stored[s.scope] = Shot(s)
      BY <2>0, <2>3 DEF Session, Fits, StorageFits
    <3>4. storage \in {"off", "denied"} => t.stored[s.scope].decision = "none"
      BY <2>0, <2>5 DEF StorageFits, Empty
    <3>5. storage = "full" => t.lost
      BY <2>3
    <3>. QED
      BY <3>1, <3>2, <3>3, <3>4, <3>5
  <2>8. Fits(t, con)
    BY <2>2, <2>4, <2>5, <2>6 DEF Fits
  <2>9. s.lost => t.lost
    BY <2>3
  <2>. QED
    BY <2>7, <2>8, <2>9 DEF t
<1>. QED
  BY <1>1, <1>2

\* A settled outcome is never overridden.
LEMMA OverriddenFacts ==
  ASSUME NEW asks \in SUBSET Ask, NEW outcome \in {"accepted", "declined"}
  PROVE  /\ Overridden(asks, outcome) \in SUBSET Ask
         /\ \A b \in Overridden(asks, outcome) : \E a \in asks :
               /\ b.gen = a.gen /\ b.scope = a.scope /\ b.key = a.key
               /\ b.outcome = IF a.outcome = "open" THEN outcome ELSE a.outcome
         /\ \A a \in asks : a.outcome # "open" => a \in Overridden(asks, outcome)
         /\ \A a \in asks : \E b \in Overridden(asks, outcome) : b.gen = a.gen /\ b.key = a.key
<1>. DEFINE over(a) == [a EXCEPT !.outcome = IF @ = "open" THEN outcome ELSE @]
<1>1. \A a \in asks : /\ over(a) \in Ask
                      /\ over(a).gen = a.gen /\ over(a).scope = a.scope /\ over(a).key = a.key
                      /\ over(a).outcome = IF a.outcome = "open" THEN outcome ELSE a.outcome
  BY DEF Ask
<1>2. \A a \in asks : a.outcome # "open" => over(a) = a
  BY DEF Ask
<1>3. Overridden(asks, outcome) = {over(a) : a \in asks}
  BY DEF Overridden
<1>. HIDE DEF over
<1>. QED
  BY <1>1, <1>2, <1>3

\* Overriding keeps questions apart by their visits, and leaves none open.
LEMMA OverriddenFit ==
  ASSUME NEW s \in Session, AsksFit(s), NEW outcome \in {"accepted", "declined"}
  PROVE  \A b \in Overridden(s.asks, outcome) :
            /\ b \in Ask /\ b.gen <= s.gen /\ b.outcome # "open"
            /\ \A d \in Overridden(s.asks, outcome) : b.gen = d.gen => b = d
            /\ b.scope = NoScope => b.key = NoKey
<1>1. s.asks \in SUBSET Ask
  BY DEF Session
<1>2. \A b, d \in Ask : b.gen = d.gen /\ b.scope = d.scope /\ b.key = d.key /\ b.outcome = d.outcome => b = d
  BY DEF Ask
<1>. QED
  BY <1>1, <1>2, OverriddenFacts DEF AsksFit

\* Entering a course: what is known of it is backed, and nothing is open.
LEMMA EnteredFits ==
  ASSUME NEW s, NEW con \in Consents, Fits(s, con), NEW p \in Places,
         storage \in {"ok", "full", "denied", "off"}
  PROVE  LET t == Entered(s, p)
         IN  /\ Fits(t, con) /\ NoOpen(t)
             /\ t.scope = p /\ t.gen = s.gen + 1 /\ t.lost = s.lost
             /\ t.asks = Overridden(s.asks, "declined")
             /\ t.stored = s.stored
<1>. DEFINE t == Entered(s, p)
<1>. DEFINE kept == IF p = NoScope THEN Empty ELSE Kept(s, p)
<1>0. s \in Session /\ (p = NoScope \/ p \in Scopes)
  BY DEF Fits, Places
<1>1. kept \in Snapshot
  BY <1>0, EmptyType DEF Kept, Session
<1>2. ~s.lost => Backed(kept, p, con)
  <2>1. Backed(Empty, p, con)
    BY DEF Backed, Empty
  <2>. QED
    BY <1>0, <2>1 DEF Kept, Fits, AllBacked
<1>3. t = [s EXCEPT
            !.scope = p,
            !.gen = @ + 1,
            !.asks = Overridden(@, "declined"),
            !.decision = Restored(kept.decision),
            !.tasks = kept.tasks,
            !.paused = kept.paused,
            !.available = @ /\ (storage = "denied" => p = NoScope \/ p \in s.visited)]
  BY DEF Entered
<1>. HIDE DEF kept, t
<1>4. Restored(kept.decision) \in Decisions /\ kept.tasks \in SUBSET Keys /\ kept.paused \in Questions
  BY <1>1 DEF Snapshot, Restored, Decisions
<1>5. Overridden(s.asks, "declined") \in SUBSET Ask
  BY <1>0, OverriddenFacts DEF Session
<1>6. t \in Session
  <2>1. (s.available /\ (storage = "denied" => p = NoScope \/ p \in s.visited)) \in BOOLEAN
    OBVIOUS
  <2>2. s.gen + 1 \in Nat
    BY <1>0 DEF Session
  <2>. QED
    BY <1>0, <1>3, <1>4, <1>5, <2>1, <2>2 DEF Session
<1>7. /\ t.scope = p /\ t.gen = s.gen + 1 /\ t.asks = Overridden(s.asks, "declined")
      /\ t.decision = Restored(kept.decision) /\ t.tasks = kept.tasks
      /\ t.available = (s.available /\ (storage = "denied" => p = NoScope \/ p \in s.visited))
      /\ t.memory = s.memory /\ t.stored = s.stored /\ t.lost = s.lost
  BY <1>0, <1>3 DEF Session
<1>8. AsksFit(t) /\ NoOpen(t)
  <2>1. AsksFit(s) /\ s.gen \in Nat
    BY <1>0 DEF Fits, Session
  <2>2. \A b \in Ask : b.gen \in Nat
    BY DEF Ask
  <2>. QED
    BY <1>0, <1>5, <1>7, <2>1, <2>2, OverriddenFit DEF AsksFit, NoOpen
<1>9. StorageFits(t)
  BY <1>7 DEF StorageFits, Fits
<1>10. ASSUME ~t.lost PROVE AllBacked(t, con)
  <2>1. Backed(t, p, con)
    BY <1>2, <1>7, <1>10 DEF Backed, Restored
  <2>2. AllBacked(s, con)
    BY <1>7, <1>10 DEF Fits
  <2>3. \A b \in t.asks : b.outcome = "accepted" => b.key \in con[b.scope]
    <3>1. s.asks \in SUBSET Ask
      BY <1>0 DEF Session
    <3>2. ASSUME NEW b \in t.asks, b.outcome = "accepted" PROVE b.key \in con[b.scope]
      <4>1. PICK a \in s.asks : /\ b.scope = a.scope /\ b.key = a.key
                                /\ b.outcome = IF a.outcome = "open" THEN "declined" ELSE a.outcome
        BY <1>7, <3>1, OverriddenFacts
      <4>2. a.outcome = "accepted"
        BY <3>2, <4>1
      <4>. QED
        BY <2>2, <4>1, <4>2 DEF AllBacked
    <3>. QED
      BY <3>2
  <2>. QED
    BY <1>7, <2>1, <2>2, <2>3 DEF AllBacked
<1>. QED
  BY <1>6, <1>7, <1>8, <1>9, <1>10 DEF Fits, t

\* synchronizeScope(): the session is in the present course, fit and saved.
LEMMA SyncedFits ==
  ASSUME NEW s, NEW con \in Consents, Fits(s, con), PendingSaved(s), NEW p \in Places,
         storage \in {"ok", "full", "denied", "off"}
  PROVE  LET t == Synced(s, p)
         IN  /\ Fits(t, con) /\ PendingSaved(t) /\ t.scope = p
             /\ s.lost => t.lost
             /\ \A a \in s.asks : a.outcome # "open" => a \in t.asks
             /\ \A a \in s.asks : \E b \in t.asks : Kin(b, a)
<1>1. CASE s.scope = p
  BY <1>1 DEF Synced, Kin
<1>2. CASE s.scope # p
  <2>. DEFINE u == Saved(s)
  <2>. DEFINE v == Entered(u, p)
  <2>1. Fits(u, con) /\ (s.lost => u.lost)
    BY SavedFits
  <2>2. u.asks = s.asks
    BY DEF Saved, Fits, Session
  <2>. HIDE DEF u
  <2>3. Fits(v, con) /\ v.scope = p /\ v.lost = u.lost /\ v.asks = Overridden(u.asks, "declined")
    BY <2>1, EnteredFits
  <2>. HIDE DEF v
  <2>4. Fits(Saved(v), con) /\ PendingSaved(Saved(v)) /\ (v.lost => Saved(v).lost)
    BY <2>3, SavedFits
  <2>5. Saved(v).scope = p /\ Saved(v).asks = v.asks
    BY <2>3 DEF Saved, Fits, Session
  <2>6. Synced(s, p) = Saved(v)
    BY <1>2 DEF Synced, u, v
  <2>7. /\ \A a \in s.asks : a.outcome # "open" => a \in v.asks
        /\ \A a \in s.asks : \E b \in v.asks : Kin(b, a)
    <3>1. s.asks \in SUBSET Ask
      BY DEF Fits, Session
    <3>. QED
      BY <2>2, <2>3, <3>1, OverriddenFacts DEF Kin
  <2>. QED
    BY <2>1, <2>3, <2>4, <2>5, <2>6, <2>7
<1>. QED
  BY <1>1, <1>2

-----------------------------------------------------------------------------
(* The steps.                                                              *)

\* A new question, when none is active.
LEMMA AskingFits ==
  ASSUME NEW s, NEW con \in Consents, Fits(s, con), NEW key \in Questions,
         storage \in {"ok", "full", "denied", "off"},
         Active(s) = {}, s.scope = NoScope => key = NoKey
  PROVE  /\ Fits(Asking(s, key), con) /\ PendingSaved(Asking(s, key))
         /\ s.lost => Asking(s, key).lost
         /\ s.asks \subseteq Asking(s, key).asks
         /\ \E a \in Asking(s, key).asks : a.gen = s.gen /\ a.key = key
<1>. DEFINE ask == [gen |-> s.gen, scope |-> s.scope, key |-> key, outcome |-> "open"]
<1>. DEFINE u == [s EXCEPT !.decision = "pending", !.paused = key, !.asks = @ \cup {ask}]
<1>1. s \in Session /\ ask \in Ask
  BY DEF Fits, Session, Ask
<1>2. u \in Session
  BY <1>1 DEF Session, Decisions
<1>3. /\ u.scope = s.scope /\ u.gen = s.gen /\ u.decision = "pending" /\ u.tasks = s.tasks /\ u.paused = key
      /\ u.asks = s.asks \cup {ask} /\ u.memory = s.memory /\ u.stored = s.stored
      /\ u.available = s.available /\ u.lost = s.lost
  BY <1>1 DEF Session
<1>4. \A a \in s.asks : a.gen # s.gen
  BY DEF Active
<1>5. ask.gen = s.gen /\ ask.scope = s.scope /\ ask.key = key /\ ask.outcome = "open"
  OBVIOUS
<1>6. Asking(s, key) = Saved(u)
  BY DEF Asking
<1>. HIDE DEF u, ask
<1>7. AsksFit(u)
  <2>1. s.gen \in Nat
    BY <1>1 DEF Session
  <2>. QED
    BY <1>3, <1>4, <1>5, <2>1 DEF AsksFit, Fits
<1>8. StorageFits(u)
  BY <1>3 DEF StorageFits, Fits
<1>9. ~u.lost => AllBacked(u, con)
  BY <1>3, <1>5 DEF Fits, AllBacked, Backed
<1>10. Fits(u, con)
  BY <1>2, <1>7, <1>8, <1>9 DEF Fits
<1>11. Saved(u).asks = u.asks
  BY <1>2 DEF Saved, Session
<1>. QED
  BY <1>3, <1>5, <1>6, <1>10, <1>11, SavedFits

\* What a decision leaves as it is.
SameVisit(s, u) ==
    /\ u.scope = s.scope /\ u.gen = s.gen /\ u.asks = s.asks
    /\ u.memory = s.memory /\ u.stored = s.stored /\ u.available = s.available /\ u.lost = s.lost

\* A decision when no question is open.
LEMMA DecidedFits ==
  ASSUME NEW s, NEW con \in Consents, Fits(s, con), NoOpen(s),
         storage \in {"ok", "full", "denied", "off"},
         NEW u \in Session, SameVisit(s, u), ~s.lost => Backed(u, s.scope, con)
  PROVE  /\ Fits(Saved(u), con) /\ PendingSaved(Saved(u)) /\ Saved(u).scope = s.scope
         /\ s.lost => Saved(u).lost
         /\ Saved(u).asks = s.asks
<1>1. AsksFit(u)
  BY DEF AsksFit, Fits, NoOpen, SameVisit
<1>2. StorageFits(u)
  BY DEF StorageFits, Fits, SameVisit
<1>3. ~u.lost => AllBacked(u, con)
  BY DEF Fits, AllBacked, SameVisit
<1>4. Fits(u, con)
  BY <1>1, <1>2, <1>3 DEF Fits
<1>5. Saved(u).scope = u.scope /\ Saved(u).asks = u.asks
  BY DEF Saved, Session
<1>. QED
  BY <1>4, <1>5, SavedFits DEF SameVisit

\* Forgetting the question that is settled.
LEMMA ForgottenFits ==
  ASSUME NEW s, NEW con \in Consents, Fits(s, con), PendingSaved(s), NEW asks \in SUBSET s.asks
  PROVE  LET t == [s EXCEPT !.asks = asks]
         IN  Fits(t, con) /\ PendingSaved(t) /\ t.scope = s.scope /\ t.lost = s.lost
<1>. DEFINE t == [s EXCEPT !.asks = asks]
<1>1. t \in Session
  BY DEF Fits, Session
<1>2. /\ t.scope = s.scope /\ t.gen = s.gen /\ t.decision = s.decision /\ t.tasks = s.tasks
      /\ t.paused = s.paused /\ t.asks = asks /\ t.memory = s.memory /\ t.stored = s.stored
      /\ t.available = s.available /\ t.lost = s.lost
  BY DEF Fits, Session
<1>. HIDE DEF t
<1>3. AsksFit(t) /\ StorageFits(t) /\ PendingSaved(t) /\ (~t.lost => AllBacked(t, con))
  BY <1>2 DEF AsksFit, StorageFits, PendingSaved, AllBacked, Backed, Fits
<1>. QED
  BY <1>1, <1>2, <1>3 DEF Fits, t

\* More consent is never too little.
LEMMA ConsentGrows ==
  ASSUME NEW s, NEW con \in Consents, NEW more \in Consents, Fits(s, con),
         \A p \in Places : con[p] \subseteq more[p]
  PROVE  Fits(s, more)
<1>1. s.scope \in Places /\ Scopes \subseteq Places /\ \A a \in s.asks : a.scope \in Places
  BY DEF Fits, Session, Ask, Places
<1>2. AllBacked(s, con) => AllBacked(s, more)
  BY <1>1 DEF AllBacked, Backed
<1>. QED
  BY <1>2 DEF Fits

LEMMA DecideFits ==
  ASSUME IInv, NEW c \in Callers, NEW scope \in Places, NEW key \in Questions,
         scope = NoScope <=> key = NoKey, Decide(c, scope, key)
  PROVE  /\ IInv'
         /\ session.lost => session'.lost
         /\ \A d \in Callers : Answers(d) => session'.lost \/ Agrees(d)
<1>. DEFINE s == Synced(session, place)
<1>. DEFINE reply == Reply(s, scope, key)
<1>1. /\ session' = IF reply = "ask" THEN Asking(s, key) ELSE s
      /\ caller' = [caller EXCEPT ![c] = [at |-> IF reply = "ask" THEN "waiting" ELSE reply,
                                          scope |-> scope, key |-> key,
                                          gen |-> IF reply \in {"yes", "no"} THEN 0 ELSE s.gen]]
      /\ UNCHANGED <<place, storage, consent, refused, moves>>
  BY DEF Decide
<1>2. /\ Fits(s, consent) /\ PendingSaved(s) /\ s.scope = place /\ (session.lost => s.lost)
      /\ \A a \in session.asks : \E b \in s.asks : Kin(b, a)
  BY SyncedFits DEF IInv, TypeOK, Consents
<1>. HIDE DEF s
<1>3. reply = "ask" => Active(s) = {} /\ (s.scope = NoScope => key = NoKey)
  BY DEF Reply
<1>4. reply \in {"no", "yes", "ask", "waiting", "queued"}
  BY DEF Reply
<1>5. Fits(session', consent) /\ PendingSaved(session') /\ (session.lost => session'.lost)
  BY <1>1, <1>2, <1>3, AskingFits DEF IInv, TypeOK, Consents
<1>6. session' \in Session /\ s.gen \in Nat
  BY <1>2, <1>5 DEF Fits, Session
<1>7. caller' \in [Callers -> Request]
  <2>1. [at |-> IF reply = "ask" THEN "waiting" ELSE reply,
         scope |-> scope, key |-> key,
         gen |-> IF reply \in {"yes", "no"} THEN 0 ELSE s.gen] \in Request
    BY <1>4, <1>6 DEF Request
  <2>. QED
    BY <1>1, <2>1 DEF IInv, TypeOK
<1>8. TypeOK'
  BY <1>1, <1>6, <1>7 DEF IInv, TypeOK
<1>9. CallersFit'
  BY <1>1 DEF IInv, TypeOK, CallersFit
<1>10. Fits(session, consent)' /\ PendingSaved(session)'
  <2>1. storage' = storage /\ consent' = consent
    BY <1>1
  <2>. QED
    BY <1>5, <2>1 DEF Fits, AllBacked, StorageFits, Backed, PendingSaved, AsksFit
<1>12. WaitersFit'
  <2>1. s.asks \subseteq session'.asks
    BY <1>1, <1>2, <1>3, AskingFits DEF IInv, TypeOK, Consents
  <2>2. ASSUME reply \in {"ask", "waiting"} PROVE \E a \in session'.asks : a.gen = s.gen /\ a.key = key
    <3>1. CASE reply = "ask"
      BY <1>1, <1>2, <1>3, <3>1, AskingFits DEF IInv, TypeOK, Consents
    <3>2. CASE reply = "waiting"
      BY <2>1, <3>2 DEF Reply, Active
    <3>. QED
      BY <2>2, <3>1, <3>2
  <2>3. ASSUME NEW d \in Callers, caller'[d].at = "waiting" PROVE \E a \in session'.asks : Kin(a, caller'[d])
    <3>1. CASE d = c
      BY <1>1, <2>2, <2>3, <3>1 DEF IInv, TypeOK, Kin
    <3>2. CASE d # c
      <4>1. caller'[d] = caller[d]
        BY <1>1, <3>2 DEF IInv, TypeOK
      <4>. QED
        BY <1>2, <2>1, <2>3, <4>1 DEF IInv, WaitersFit, Kin
    <3>. QED
      BY <3>1, <3>2
  <2>. QED
    BY <2>3 DEF WaitersFit
<1>11. ASSUME NEW d \in Callers, Answers(d) PROVE session'.lost \/ Agrees(d)
  <2>1. d = c /\ reply = "yes" /\ caller'[c].key = key
    BY <1>1, <1>4, <1>11 DEF Answers, IInv, TypeOK
  <2>2. session' = s
    BY <1>1, <2>1
  <2>3. key \in s.tasks \/ (key = NoKey /\ s.decision = "accepted")
    BY <2>1 DEF Reply
  <2>4. ~s.lost => key \in consent[s.scope]
    BY <1>2, <2>3 DEF Fits, AllBacked, Backed
  <2>. QED
    BY <1>1, <2>1, <2>2, <2>4 DEF Agrees
<1>. QED
  BY <1>5, <1>8, <1>9, <1>10, <1>11, <1>12 DEF IInv

LEMMA SettleFits ==
  ASSUME IInv, NEW a \in session.asks, Settle(a)
  PROVE  /\ IInv'
         /\ session.lost => session'.lost
         /\ \A c \in Callers : Answers(c) => session'.lost \/ Agrees(c)
<1>. DEFINE s == Synced(session, place)
<1>. DEFINE valid == StillAsked(a, s)
<1>. DEFINE accepted == valid /\ a.outcome = "accepted"
<1>. DEFINE after == IF accepted THEN Saved(Agreed(s, a.key))
                     ELSE IF valid THEN Saved([s EXCEPT !.decision = "declined"])
                     ELSE s
<1>. DEFINE Due(c) == caller[c].at = "waiting" /\ caller[c].gen = a.gen
<1>. DEFINE Carried(t) == /\ Fits(t, consent) /\ PendingSaved(t) /\ (s.lost => t.lost) /\ t.scope = s.scope
                        /\ t.asks = s.asks
<1>1. /\ a.outcome # "open"
      /\ session' = [after EXCEPT !.asks = {b \in @ : b.gen # a.gen}]
      /\ caller' = [c \in Callers |->
                      IF Due(c) THEN [caller[c] EXCEPT !.at = IF accepted THEN "yes" ELSE "no", !.gen = 0]
                      ELSE caller[c]]
      /\ UNCHANGED <<place, storage, consent, refused, moves>>
  BY DEF Settle, Settled
<1>2. /\ Fits(s, consent) /\ PendingSaved(s) /\ s.scope = place /\ (session.lost => s.lost)
      /\ a \in s.asks /\ \A d \in session.asks : \E b \in s.asks : Kin(b, d)
  BY <1>1, SyncedFits DEF IInv, TypeOK, Consents
<1>. HIDE DEF s
<1>3. s \in Session /\ a \in Ask
  BY <1>2 DEF Fits, Session
<1>4. valid => NoOpen(s) /\ a.scope = s.scope
  BY <1>1, <1>2 DEF NoOpen, StillAsked, Fits, AsksFit
<1>5. ~s.lost /\ accepted => a.key \in consent[s.scope]
  BY <1>2, <1>4 DEF Fits, AllBacked
<1>6. storage \in {"ok", "full", "denied", "off"} /\ consent \in Consents
  BY DEF IInv, TypeOK, Consents
<1>7. accepted => Carried(after)
  <2> SUFFICES ASSUME accepted PROVE Carried(after)
    OBVIOUS
  <2>. DEFINE u == Agreed(s, a.key)
  <2>1. after = Saved(u) /\ NoOpen(s)
    BY <1>4
  <2>2. u \in Session /\ SameVisit(s, u)
    BY <1>3 DEF Agreed, Session, Decisions, Questions, Ask, SameVisit
  <2>3. ~s.lost => Backed(u, s.scope, consent)
    <3>1. ~s.lost => Backed(s, s.scope, consent)
      BY <1>2 DEF Fits, AllBacked
    <3>2. CASE a.key # NoKey /\ s.scope # NoScope
      <4>1. u.decision = "none" /\ u.tasks = s.tasks \cup {a.key}
        BY <1>3, <3>2 DEF Agreed, Session
      <4>. QED
        BY <1>5, <3>1, <4>1 DEF Backed
    <3>3. CASE ~(a.key # NoKey /\ s.scope # NoScope)
      <4>1. u.tasks = s.tasks
        BY <1>3, <3>3 DEF Agreed, Session
      <4>2. a.key = NoKey
        BY <1>2, <1>4, <3>3 DEF Fits, AsksFit
      <4>. QED
        BY <1>5, <3>1, <4>1, <4>2 DEF Backed
    <3>. QED
      BY <3>2, <3>3
  <2>. HIDE DEF after, valid, u
  <2>. QED
    BY <1>2, <1>6, <2>1, <2>2, <2>3, DecidedFits
<1>9. ~accepted /\ valid => Carried(after)
  <2> SUFFICES ASSUME ~accepted, valid PROVE Carried(after)
    OBVIOUS
  <2>. DEFINE u == [s EXCEPT !.decision = "declined"]
  <2>1. after = Saved(u) /\ NoOpen(s)
    BY <1>4
  <2>2. u \in Session /\ SameVisit(s, u)
    BY <1>3 DEF Session, Decisions, SameVisit
  <2>3. ~s.lost => Backed(u, s.scope, consent)
    BY <1>2, <1>3 DEF Fits, AllBacked, Backed, Session
  <2>. HIDE DEF after, valid, u
  <2>. QED
    BY <1>2, <1>6, <2>1, <2>2, <2>3, DecidedFits
<1>10. Carried(after)
  <2>1. ~valid => after = s
    OBVIOUS
  <2>. HIDE DEF after
  <2>. QED
    BY <1>2, <1>7, <1>9, <2>1
<1>. HIDE DEF after
<1>11. /\ Fits(session', consent) /\ PendingSaved(session')
       /\ session'.scope = s.scope /\ (session.lost => session'.lost) /\ (s.lost => session'.lost)
  <2>. HIDE DEF valid
  <2>1. session' = [after EXCEPT !.asks = {b \in @ : b.gen # a.gen}]
    BY <1>1
  <2>2. /\ Fits(after, consent) /\ PendingSaved(after)
        /\ (s.lost => after.lost) /\ after.scope = s.scope
    BY <1>10
  <2>3. after \in Session
    BY <2>2 DEF Fits
  <2>4. /\ Fits(session', consent) /\ PendingSaved(session')
    BY <1>6, <2>1, <2>2, <2>3, ForgottenFits
  <2>5. session'.scope = after.scope /\ session'.lost = after.lost
    BY <2>1, <2>3 DEF Session
  <2>. QED
    BY <1>2, <2>2, <2>4, <2>5
<1>16. session'.asks = {b \in s.asks : b.gen # a.gen}
  <2>1. after \in Session
    BY <1>10 DEF Fits
  <2>. QED
    BY <1>1, <1>10, <2>1 DEF Session
<1>12. TypeOK'
  <2>1. session' \in Session
    BY <1>11 DEF Fits
  <2>2. caller' \in [Callers -> Request]
    <3>. HIDE DEF valid
    <3>. QED
      BY <1>1 DEF IInv, TypeOK, Request
  <2>. QED
    BY <1>1, <2>1, <2>2 DEF IInv, TypeOK
<1>13. \A c \in Callers :
          /\ Due(c) => caller'[c].at # "waiting"
          /\ ~Due(c) => caller'[c] = caller[c]
          /\ caller'[c].scope = caller[c].scope /\ caller'[c].key = caller[c].key
          /\ Answers(c) => Due(c) /\ accepted
  <2>. HIDE DEF valid
  <2>. QED
    BY <1>1 DEF IInv, TypeOK, Request, Answers
<1>14. CallersFit' /\ WaitersFit'
  <2>1. ASSUME NEW c \in Callers, caller'[c].at = "waiting" PROVE \E d \in session'.asks : Kin(d, caller'[c])
    <3>1. caller'[c] = caller[c] /\ caller[c].gen # a.gen
      BY <1>13, <2>1
    <3>. QED
      BY <1>2, <1>16, <2>1, <3>1 DEF IInv, WaitersFit, Kin
  <2>. QED
    BY <1>13, <2>1 DEF IInv, CallersFit, WaitersFit
<1>15. Fits(session, consent)' /\ PendingSaved(session)'
  <2>1. storage' = storage /\ consent' = consent
    BY <1>1
  <2>. QED
    BY <1>11, <2>1 DEF Fits, AllBacked, StorageFits, Backed, PendingSaved, AsksFit
<1>17. ASSUME NEW c \in Callers, Answers(c) PROVE session'.lost \/ Agrees(c)
  <2>1. Due(c) /\ accepted /\ caller'[c].key = caller[c].key
    BY <1>13, <1>17
  <2>2. caller[c].key = a.key
    BY <2>1 DEF IInv, WaitersFit, Kin, Fits, AsksFit
  <2>3. consent' = consent
    BY <1>1
  <2>. QED
    BY <1>5, <1>11, <2>1, <2>2, <2>3 DEF Agrees
<1>. QED
  BY <1>11, <1>12, <1>14, <1>15, <1>17 DEF IInv

LEMMA ResumeFits ==
  ASSUME IInv, Resume
  PROVE  IInv' /\ (session.lost => session'.lost) /\ caller' = caller
<1>. DEFINE s == Synced(session, place)
<1>. DEFINE con == [consent EXCEPT ![s.scope] = @ \cup {NoKey, s.paused}]
<1>. DEFINE asks == Overridden(s.asks, "accepted")
<1>. DEFINE v == [s EXCEPT !.asks = asks]
<1>. DEFINE tasks == s.tasks \cup IF s.scope = NoScope THEN {} ELSE {s.paused} \ {NoKey}
<1>1. /\ session' = Saved(Resumed(s)) /\ consent' = con /\ refused' = refused \ {s.scope}
      /\ UNCHANGED <<place, storage, caller, moves>>
  BY DEF Resume
<1>2. storage \in {"ok", "full", "denied", "off"} /\ consent \in Consents
  BY DEF IInv, TypeOK, Consents
<1>3. /\ Fits(s, consent) /\ PendingSaved(s) /\ (session.lost => s.lost)
      /\ \A d \in session.asks : \E b \in s.asks : Kin(b, d)
  BY <1>2, SyncedFits DEF IInv, TypeOK
<1>. HIDE DEF s
<1>4. s \in Session /\ s.scope \in Places /\ s.paused \in Questions /\ s.asks \in SUBSET Ask
  BY <1>3 DEF Fits, Session
<1>5. con \in Consents /\ \A p \in Places : consent[p] \subseteq con[p]
  BY <1>2, <1>4 DEF Consents, Questions
<1>6. {NoKey, s.paused} \subseteq con[s.scope]
  BY <1>2, <1>4 DEF Consents
<1>. HIDE DEF con
<1>7. Fits(s, con)
  BY <1>2, <1>3, <1>5, ConsentGrows
<1>8. asks \in SUBSET Ask /\ \A d \in s.asks : \E b \in asks : Kin(b, d)
  BY <1>4, OverriddenFacts DEF Kin
<1>9. ~s.lost => \A b \in asks : b.key \in con[b.scope] \/ b.outcome # "accepted"
  <2> SUFFICES ASSUME ~s.lost, NEW b \in asks PROVE b.key \in con[b.scope] \/ b.outcome # "accepted"
    OBVIOUS
  <2>1. PICK d \in s.asks : /\ b.gen = d.gen /\ b.scope = d.scope /\ b.key = d.key
                            /\ b.outcome = IF d.outcome = "open" THEN "accepted" ELSE d.outcome
    BY <1>4, OverriddenFacts
  <2>2. CASE d.outcome = "open"
    BY <1>6, <1>7, <2>1, <2>2 DEF Fits, AsksFit
  <2>3. CASE d.outcome # "open"
    BY <1>7, <2>1, <2>3 DEF Fits, AllBacked
  <2>. QED
    BY <2>2, <2>3
<1>10. AsksFit(v) /\ NoOpen(v)
  <2>1. v.asks = asks /\ v.gen = s.gen /\ v.scope = s.scope
    BY <1>4 DEF Session
  <2>. HIDE DEF v
  <2>. QED
    BY <1>4, <1>7, <2>1, OverriddenFit DEF AsksFit, NoOpen, Fits
<1>. HIDE DEF asks
<1>11. /\ v \in Session /\ v.asks = asks /\ v.scope = s.scope /\ v.tasks = s.tasks
       /\ v.decision = s.decision /\ v.memory = s.memory /\ v.stored = s.stored
       /\ v.available = s.available /\ v.lost = s.lost
  BY <1>4, <1>8 DEF Session
<1>. DEFINE u == Resumed(s)
<1>12. u \in Session /\ SameVisit(v, u) /\ u.decision = "accepted" /\ u.tasks = tasks
  <2>1. u = [s EXCEPT !.decision = "accepted", !.paused = NoKey, !.asks = asks, !.tasks = tasks]
    BY DEF Resumed, asks
  <2>2. tasks \in SUBSET Keys /\ "accepted" \in Decisions /\ NoKey \in Questions
    BY <1>4 DEF Decisions, Questions, Session
  <2>3. v.gen = s.gen
    BY <1>4 DEF Session, v
  <2>. HIDE DEF u, tasks
  <2>. QED
    BY <1>4, <1>8, <1>11, <2>1, <2>2, <2>3 DEF Session, SameVisit
<1>. HIDE DEF v, u
<1>13. Fits(v, con)
  <2>1. ~v.lost => AllBacked(v, con)
    BY <1>7, <1>9, <1>11 DEF Fits, AllBacked, Backed
  <2>2. StorageFits(v)
    BY <1>7, <1>11 DEF Fits, StorageFits
  <2>. QED
    BY <1>10, <1>11, <2>1, <2>2 DEF Fits
<1>14. /\ Fits(session', con) /\ PendingSaved(session') /\ (v.lost => session'.lost)
       /\ session'.asks = v.asks
  <2>1. ~v.lost => Backed(u, v.scope, con)
    <3>1. ~v.lost => s.tasks \subseteq con[s.scope]
      BY <1>7, <1>11 DEF Fits, AllBacked, Backed
    <3>. QED
      BY <1>6, <1>11, <1>12, <3>1 DEF Backed
  <2>2. session' = Saved(u)
    BY <1>1 DEF u
  <2>. QED
    BY <1>2, <1>5, <1>10, <1>12, <1>13, <2>1, <2>2, DecidedFits
<1>15. Fits(session, consent)' /\ PendingSaved(session)'
  <2>1. storage' = storage /\ consent' = con
    BY <1>1
  <2>. QED
    BY <1>14, <2>1 DEF Fits, AllBacked, StorageFits, Backed, PendingSaved, AsksFit
<1>16. TypeOK'
  <2>1. session' \in Session
    BY <1>14 DEF Fits
  <2>. QED
    BY <1>1, <1>5, <2>1 DEF IInv, TypeOK, Consents
<1>17. CallersFit' /\ WaitersFit'
  <2>1. \A d \in session.asks : \E b \in session'.asks : Kin(b, d)
    BY <1>3, <1>8, <1>11, <1>14 DEF Kin
  <2>2. caller' = caller
    BY <1>1
  <2>. QED
    BY <2>1, <2>2 DEF IInv, CallersFit, WaitersFit, Kin
<1>. QED
  BY <1>1, <1>3, <1>11, <1>14, <1>15, <1>16, <1>17 DEF IInv

\* When nothing is due every question is open, so there is only one.
LEMMA ClickFits ==
  ASSUME IInv, NEW a \in session.asks, NEW accepted \in BOOLEAN, Click(a, accepted)
  PROVE  IInv' /\ session'.lost = session.lost /\ caller' = caller
<1>. DEFINE outcome == IF accepted THEN "accepted" ELSE "declined"
<1>. DEFINE con == [consent EXCEPT ![a.scope] = IF accepted THEN @ \cup {a.key} ELSE @ \ {NoKey}]
<1>. DEFINE asks == Overridden(session.asks, outcome)
<1>1. /\ Calm /\ session' = [session EXCEPT !.asks = asks] /\ consent' = con
      /\ UNCHANGED <<place, storage, caller, moves>>
      /\ refused' = IF accepted THEN refused \ {a.scope} ELSE refused \cup ({a.scope} \cap Scopes)
  BY DEF Click
<1>2. /\ session \in Session /\ AsksFit(session) /\ consent \in Consents /\ session.asks \in SUBSET Ask
      /\ a \in Ask /\ a.scope \in Places /\ a.key \in Questions
  BY DEF IInv, TypeOK, Fits, Consents, Session, Ask
<1>3. \A b \in session.asks : b.outcome = "open" /\ b = a
  BY <1>1, <1>2 DEF Calm, Settled, AsksFit
<1>4. a.scope = session.scope /\ a.gen = session.gen /\ session.decision = "pending"
  BY <1>2, <1>3 DEF AsksFit
<1>5. outcome \in {"accepted", "declined"}
  OBVIOUS
<1>6. asks \in SUBSET Ask /\ \A d \in session.asks : \E b \in asks : Kin(b, d)
  BY <1>2, <1>5, OverriddenFacts DEF Kin
<1>7. \A b \in asks : /\ b.gen <= session.gen /\ b.outcome # "open"
                      /\ \A d \in asks : b.gen = d.gen => b = d
                      /\ b.scope = NoScope => b.key = NoKey
  BY <1>2, <1>5, OverriddenFit
<1>8. \A b \in asks : b.scope = a.scope /\ b.key = a.key /\ b.outcome = outcome
  BY <1>2, <1>3, <1>5, OverriddenFacts
<1>9. con \in Consents
  BY <1>2 DEF Consents
<1>. HIDE DEF asks
<1>10. /\ session' \in Session /\ session'.asks = asks /\ session'.scope = session.scope
       /\ session'.tasks = session.tasks /\ session'.gen = session.gen
       /\ session'.decision = session.decision /\ session'.memory = session.memory
       /\ session'.stored = session.stored /\ session'.available = session.available
       /\ session'.lost = session.lost
  BY <1>1, <1>2, <1>6 DEF Session
<1>11. ASSUME ~session.lost PROVE AllBacked(session', con)
  <2>1. AllBacked(session, consent)
    BY <1>11 DEF IInv, Fits
  <2>2. CASE accepted
    <3>1. a.key \in con[a.scope] /\ \A p \in Places : consent[p] \subseteq con[p]
      BY <1>2, <2>2 DEF Consents
    <3>2. session.scope \in Places /\ Scopes \subseteq Places
      BY <1>2 DEF Session, Places
    <3>. QED
      BY <1>8, <1>10, <2>1, <3>1, <3>2 DEF AllBacked, Backed
  <2>3. CASE ~accepted
    <3>1. \A p \in Places : con[p] = IF p = a.scope THEN consent[p] \ {NoKey} ELSE consent[p]
      BY <1>2, <2>3 DEF Consents
    <3>2. /\ session.tasks \subseteq Keys
          /\ \A p \in Scopes : session.memory[p].tasks \subseteq Keys /\ session.stored[p].tasks \subseteq Keys
      BY <1>2 DEF Session, Snapshot
    <3>3. a.scope \in Scopes => /\ session.memory[a.scope].decision = "pending"
                                /\ session.stored[a.scope].decision # "accepted"
      BY <1>3, <1>11 DEF IInv, PendingSaved
    <3>4. \A p \in Scopes : p \in Places
      BY DEF Places
    <3>5. \A p \in Scopes : Backed(session.memory[p], p, con) /\ Backed(session.stored[p], p, con)
      BY <2>1, <3>1, <3>2, <3>3, <3>4, CourseSessionAssumption DEF AllBacked, Backed
    <3>6. Backed(session, session.scope, con)
      BY <1>2, <1>4, <2>1, <3>1, <3>2, CourseSessionAssumption DEF AllBacked, Backed
    <3>7. \A b \in asks : b.outcome # "accepted"
      BY <1>8, <2>3
    <3>. QED
      BY <1>10, <3>5, <3>6, <3>7 DEF AllBacked, Backed
  <2>. QED
    BY <2>2, <2>3
<1>12. AsksFit(session') /\ PendingSaved(session')
  BY <1>7, <1>10 DEF AsksFit, PendingSaved
<1>13. Fits(session, consent)' /\ PendingSaved(session)'
  <2>1. storage' = storage /\ consent' = con
    BY <1>1
  <2>. QED
    BY <1>10, <1>11, <1>12, <2>1 DEF IInv, Fits, AllBacked, StorageFits, Backed, PendingSaved, AsksFit
<1>14. TypeOK'
  BY <1>1, <1>9, <1>10 DEF IInv, TypeOK, Consents
<1>15. CallersFit' /\ WaitersFit'
  <2>1. caller' = caller
    BY <1>1
  <2>. QED
    BY <1>6, <1>10, <2>1 DEF IInv, CallersFit, WaitersFit, Kin
<1>. QED
  BY <1>1, <1>10, <1>13, <1>14, <1>15 DEF IInv

LEMMA PersistFits ==
  ASSUME IInv, NEW s, s = Saved(Synced(session, place))
  PROVE  /\ Fits(s, consent) /\ PendingSaved(s) /\ (session.lost => s.lost)
         /\ \A d \in session.asks : \E b \in s.asks : Kin(b, d)
<1>. DEFINE u == Synced(session, place)
<1>1. consent \in Consents /\ storage \in {"ok", "full", "denied", "off"}
  BY DEF IInv, TypeOK, Consents
<1>2. /\ Fits(u, consent) /\ PendingSaved(u) /\ (session.lost => u.lost)
      /\ \A d \in session.asks : \E b \in u.asks : Kin(b, d)
  BY <1>1, SyncedFits DEF IInv, TypeOK
<1>. HIDE DEF u
<1>3. Saved(u).asks = u.asks
  BY <1>2 DEF Saved, Fits, Session
<1>4. s = Saved(u)
  BY DEF u
<1>. QED
  BY <1>1, <1>2, <1>3, <1>4, SavedFits

\* A new document starts from what is stored.
LEMMA OpenedFits ==
  ASSUME NEW con \in Consents, storage \in {"ok", "full", "denied", "off"}, NEW p \in Places,
         NEW stored \in [Scopes -> Snapshot], NEW lost \in BOOLEAN,
         ~lost => \A q \in Scopes : Backed(stored[q], q, con),
         storage \in {"off", "denied"} => \A q \in Scopes : stored[q] = Empty
  PROVE  LET t == Opened(Fresh(stored, lost), p)
         IN  Fits(t, con) /\ PendingSaved(t) /\ t.lost = lost
<1>. DEFINE f == Fresh(stored, lost)
<1>1. f \in Session
  BY EmptyType DEF Fresh, Session, Places, Decisions, Questions
<1>2. /\ f.scope = NoScope /\ f.decision = "none" /\ f.tasks = {} /\ f.asks = {}
      /\ f.memory = [c \in Scopes |-> Empty] /\ f.available = TRUE /\ f.stored = stored /\ f.lost = lost
  BY DEF Fresh
<1>. HIDE DEF f
<1>3. \A q \in Scopes : Backed(Empty, q, con)
  BY DEF Backed, Empty
<1>4. Fits(f, con) /\ NoOpen(f)
  BY <1>1, <1>2, <1>3 DEF Fits, AllBacked, Backed, AsksFit, StorageFits, NoOpen
<1>5. NoOpen(Opened(f, p)) /\ Fits(Opened(f, p), con) /\ Opened(f, p).lost = lost
  BY <1>2, <1>4, EnteredFits DEF Opened
<1>. QED
  BY <1>5 DEF PendingSaved, NoOpen, f

LEMMA ReloadFits ==
  ASSUME IInv, NEW p \in Places, NEW hidden \in BOOLEAN, Reload(p, hidden)
  PROVE  IInv' /\ (session.lost => session'.lost) /\ caller' = [c \in Callers |-> Idle]
<1>. DEFINE s == IF hidden THEN Saved(Synced(session, place)) ELSE session
<1>1. /\ moves < MaxMoves /\ place' = p /\ moves' = moves + 1
      /\ session' = Opened(Fresh(s.stored, s.lost), p)
      /\ caller' = [c \in Callers |-> Idle]
      /\ refused' \in {{}, refused}
      /\ UNCHANGED <<storage, consent>>
  BY DEF Reload
<1>2. consent \in Consents /\ storage \in {"ok", "full", "denied", "off"}
  BY DEF IInv, TypeOK, Consents
<1>3. Fits(s, consent) /\ (session.lost => s.lost)
  BY PersistFits DEF IInv
<1>. HIDE DEF s
<1>4. s.stored \in [Scopes -> Snapshot] /\ s.lost \in BOOLEAN
  BY <1>3 DEF Fits, Session
<1>5. Fits(session', consent) /\ PendingSaved(session') /\ session'.lost = s.lost
  <2>1. ~s.lost => \A q \in Scopes : Backed(s.stored[q], q, consent)
    BY <1>3 DEF Fits, AllBacked
  <2>2. storage \in {"off", "denied"} => \A q \in Scopes : s.stored[q] = Empty
    BY <1>3 DEF Fits, StorageFits
  <2>. QED
    BY <1>1, <1>2, <1>4, <2>1, <2>2, OpenedFits
<1>6. Fits(session, consent)' /\ PendingSaved(session)'
  <2>1. storage' = storage /\ consent' = consent
    BY <1>1
  <2>. QED
    BY <1>5, <2>1 DEF Fits, AllBacked, StorageFits, Backed, PendingSaved, AsksFit
<1>7. Idle \in Request
  BY DEF Idle, Request, Places, Questions
<1>8. TypeOK'
  <2>1. session' \in Session
    BY <1>5 DEF Fits
  <2>2. caller' \in [Callers -> Request]
    BY <1>1, <1>7
  <2>3. moves' \in 0..MaxMoves
    BY <1>1, CourseSessionAssumption DEF IInv, TypeOK
  <2>. QED
    BY <1>1, <2>1, <2>2, <2>3 DEF IInv, TypeOK
<1>9. CallersFit' /\ WaitersFit'
  BY <1>1 DEF CallersFit, WaitersFit, Idle
<1>. QED
  BY <1>1, <1>3, <1>5, <1>6, <1>8, <1>9 DEF IInv

\* Every step keeps the invariant, and answers yes only by consent.
LEMMA StepFits ==
  ASSUME IInv, [Next]_vars
  PROVE  IInv' /\ \A c \in Callers : Answers(c) => session'.lost \/ Agrees(c)
<1>. DEFINE Unasked == caller' = caller \/ \A c \in Callers : caller'[c].at # "yes"
<1>1. Unasked => \A c \in Callers : ~Answers(c)
  BY DEF Answers
<1>2. ASSUME NEW c \in Callers, NEW scope \in Places, NEW key \in Questions, Call(c, scope, key)
      PROVE  IInv' /\ \A d \in Callers : Answers(d) => session'.lost \/ Agrees(d)
  BY <1>2, DecideFits DEF Call
<1>3. ASSUME NEW c \in Callers, Retry(c)
      PROVE  IInv' /\ \A d \in Callers : Answers(d) => session'.lost \/ Agrees(d)
  <2>1. caller[c].scope \in Places /\ caller[c].key \in Questions
    BY DEF IInv, TypeOK, Request
  <2>. QED
    BY <1>3, <2>1, DecideFits DEF Retry, IInv, CallersFit
<1>4. ASSUME NEW c \in Callers, Return(c)
      PROVE  IInv' /\ \A d \in Callers : ~Answers(d)
  <2>1. caller' = [caller EXCEPT ![c] = Idle] /\ UNCHANGED <<place, storage, session, consent, refused, moves>>
    BY <1>4 DEF Return
  <2>2. Idle \in Request
    BY DEF Idle, Request, Places, Questions
  <2>3. TypeOK'
    BY <2>1, <2>2 DEF IInv, TypeOK
  <2>4. CallersFit' /\ WaitersFit' /\ \A d \in Callers : ~Answers(d)
    <3>1. \A d \in Callers : caller'[d] = IF d = c THEN Idle ELSE caller[d]
      BY <2>1 DEF IInv, TypeOK
    <3>. QED
      BY <2>1, <3>1 DEF IInv, CallersFit, WaitersFit, Answers, Idle, Kin
  <2>5. Fits(session, consent)' /\ PendingSaved(session)'
    BY <2>1 DEF IInv, Fits, AllBacked, StorageFits, Backed, PendingSaved, AsksFit
  <2>. QED
    BY <2>3, <2>4, <2>5 DEF IInv
<1>5. ASSUME Persist PROVE IInv' /\ caller' = caller
  <2>1. session' = Saved(Synced(session, place)) /\ UNCHANGED <<place, storage, caller, consent, refused, moves>>
    BY <1>5 DEF Persist
  <2>2. Fits(session', consent) /\ PendingSaved(session') /\ \A d \in session.asks : \E b \in session'.asks : Kin(b, d)
    BY <2>1, PersistFits
  <2>3. TypeOK'
    BY <2>1, <2>2 DEF IInv, TypeOK, Fits
  <2>4. CallersFit' /\ WaitersFit'
    <3>1. caller' = caller
      BY <2>1
    <3>. QED
      BY <2>2, <3>1 DEF IInv, CallersFit, WaitersFit, Kin
  <2>5. Fits(session, consent)' /\ PendingSaved(session)'
    <3>1. storage' = storage /\ consent' = consent
      BY <2>1
    <3>. QED
      BY <2>2, <3>1 DEF Fits, AllBacked, StorageFits, Backed, PendingSaved, AsksFit
  <2>. QED
    BY <2>1, <2>3, <2>4, <2>5 DEF IInv
<1>6. ASSUME StorageFills PROVE IInv' /\ caller' = caller
  <2>1. storage = "ok" /\ storage' = "full" /\ UNCHANGED <<place, session, caller, consent, refused, moves>>
    BY <1>6 DEF StorageFills
  <2>. QED
    BY <2>1 DEF IInv, TypeOK, Fits, AllBacked, StorageFits, Backed, PendingSaved, AsksFit, CallersFit, WaitersFit, Kin
<1>7. ASSUME NEW p \in Places, Move(p) PROVE IInv' /\ caller' = caller
  <2>1. /\ moves < MaxMoves /\ place' = p /\ moves' = moves + 1
        /\ UNCHANGED <<storage, session, caller, consent, refused>>
    BY <1>7 DEF Move
  <2>2. TypeOK'
    BY <2>1, CourseSessionAssumption DEF IInv, TypeOK
  <2>. QED
    BY <2>1, <2>2 DEF IInv, Fits, AllBacked, StorageFits, Backed, PendingSaved, AsksFit, CallersFit, WaitersFit, Kin
<1>8. CASE UNCHANGED vars
  BY <1>1, <1>8 DEF vars, IInv, TypeOK, Fits, AllBacked, StorageFits, Backed, PendingSaved, AsksFit,
                    CallersFit, WaitersFit, Kin
<1>9. ASSUME NEW p \in Places, NEW hidden \in BOOLEAN, Reload(p, hidden) PROVE IInv' /\ Unasked
  BY <1>9, ReloadFits DEF Idle
<1>10. ASSUME Resume PROVE IInv' /\ Unasked
  BY <1>10, ResumeFits
<1>11. ASSUME NEW a \in session.asks, NEW accepted \in BOOLEAN, Click(a, accepted) PROVE IInv' /\ Unasked
  BY <1>11, ClickFits
<1>12. ASSUME NEW a \in session.asks, Settle(a)
       PROVE  IInv' /\ \A d \in Callers : Answers(d) => session'.lost \/ Agrees(d)
  BY <1>12, SettleFits
<1>. QED
  BY <1>1, <1>2, <1>3, <1>4, <1>5, <1>6, <1>7, <1>8, <1>9, <1>10, <1>11, <1>12 DEF Next

-----------------------------------------------------------------------------
(* Refusals.  A course that was refused is entered as declined from        *)
(* wherever it is entered, and while it is shown nothing is asked: an      *)
(* invariant of its own, of a session and the refused courses.             *)

\* A snapshot that a course is entered with as declined
Declines(shot) == shot.decision \in {"declined", "pending"}

Lasting == storage \in {"ok", "full"}

\* Wherever the course p is entered from, it is entered as declined.
KeptDeclined(s, p) ==
    /\ p \in s.visited => Declines(s.memory[p])
    /\ IF Lasting THEN Declines(s.stored[p]) ELSE p \in s.visited

Elsewhere(s, ref) == ~s.lost => \A p \in ref \ {s.scope} : KeptDeclined(s, p)
Everywhere(s, ref) == ~s.lost => \A p \in ref : KeptDeclined(s, p)

\* In a refused course the answer is there, or a question that waits for its callback.
Here(s, ref) ==
    ~s.lost /\ s.scope \in ref => s.decision = "declined" \/ (s.decision = "pending" /\ Active(s) # {})

\* A question of the present visit is about its course; none is accepted in a refused one.
OfVisits(s, ref) ==
    \A a \in s.asks : (a.gen = s.gen => a.scope = s.scope) /\ (a.outcome = "accepted" => a.scope \notin ref)

\* An open question is stored, so that it is declined by whoever reads it.
OpenKept(s) ==
    ~s.lost => \A a \in s.asks : a.outcome = "open" /\ a.scope \in Scopes => KeptDeclined(s, a.scope)

Reads(s) == ~s.lost /\ Lasting => s.available

Stands(s, ref) == Here(s, ref) /\ Everywhere(s, ref) /\ OfVisits(s, ref) /\ OpenKept(s) /\ Reads(s)

\* The inductive invariant of the refusals
Refusals == Stands(session, refused)

Storages == {"ok", "full", "denied", "off"}

\* save() keeps the present decision, and what it does not touch.
LEMMA SavedStands ==
  ASSUME NEW s \in Session, AsksFit(s), storage \in Storages, NEW ref \in SUBSET Scopes,
         Here(s, ref), Elsewhere(s, ref), OfVisits(s, ref), Reads(s)
  PROVE  /\ Stands(Saved(s), ref)
         /\ Saved(s).asks = s.asks /\ Saved(s).scope = s.scope /\ Saved(s).gen = s.gen
         /\ Saved(s).decision = s.decision
<1>1. CASE s.scope = NoScope
  <2>1. Saved(s) = s
    BY <1>1 DEF Saved
  <2>2. OpenKept(s) /\ Everywhere(s, ref)
    BY <1>1, CourseSessionAssumption DEF OpenKept, AsksFit, Everywhere, Elsewhere
  <2>. QED
    BY <2>1, <2>2 DEF Stands
<1>2. CASE s.scope # NoScope
  <2>. DEFINE t == Saved(s)
  <2>1. /\ t.scope = s.scope /\ t.gen = s.gen /\ t.decision = s.decision /\ t.asks = s.asks
        /\ t.visited = s.visited \cup {s.scope}
        /\ t.memory = [s.memory EXCEPT ![s.scope] = Shot(s)]
        /\ t.stored = [s.stored EXCEPT ![s.scope] = IF storage = "ok" /\ s.available THEN Shot(s) ELSE @]
        /\ t.available = (s.available /\ storage \in {"ok", "off"})
        /\ t.lost = (s.lost \/ storage = "full")
        /\ s.scope \in Scopes
    BY <1>2, SavedIs
  <2>. HIDE DEF t
  <2>2. ASSUME ~t.lost, s.decision \in {"declined", "pending"} PROVE KeptDeclined(t, s.scope)
    <3>1. Declines(Shot(s))
      BY <2>2 DEF Declines, Shot
    <3>2. t.memory[s.scope] = Shot(s) /\ s.scope \in t.visited
      BY <2>1 DEF Session
    <3>3. Lasting => t.stored[s.scope] = Shot(s)
      BY <2>1, <2>2 DEF Session, Reads, Lasting
    <3>. QED
      BY <3>1, <3>2, <3>3 DEF KeptDeclined
  <2>3. ASSUME ~t.lost, NEW p \in ref PROVE KeptDeclined(t, p)
    <3>1. CASE p = s.scope
      BY <2>1, <2>2, <2>3, <3>1 DEF Here
    <3>2. CASE p # s.scope
      <4>1. KeptDeclined(s, p)
        BY <2>1, <2>3, <3>2 DEF Elsewhere
      <4>2. t.memory[p] = s.memory[p] /\ t.stored[p] = s.stored[p] /\ (p \in t.visited <=> p \in s.visited)
        BY <2>1, <3>2 DEF Session
      <4>. QED
        BY <4>1, <4>2 DEF KeptDeclined
    <3>. QED
      BY <3>1, <3>2
  <2>4. OpenKept(t)
    BY <2>1, <2>2 DEF OpenKept, AsksFit
  <2>5. Here(t, ref) /\ OfVisits(t, ref)
    <3>1. Active(t) = Active(s)
      BY <2>1 DEF Active
    <3>2. Here(t, ref)
      BY <2>1, <3>1 DEF Here
    <3>. QED
      BY <2>1, <3>2 DEF OfVisits
  <2>6. Reads(t)
    BY <2>1 DEF Reads, Lasting
  <2>. QED
    BY <2>1, <2>3, <2>4, <2>5, <2>6 DEF Stands, Everywhere, t
<1>. QED
  BY <1>1, <1>2

\* A refused course is entered as declined.
LEMMA EnteredStands ==
  ASSUME NEW s \in Session, AsksFit(s), storage \in Storages, NEW ref \in SUBSET Scopes,
         Stands(s, ref), NEW p \in Places
  PROVE  Stands(Entered(s, p), ref)
<1>. DEFINE t == Entered(s, p)
<1>. DEFINE kept == IF p = NoScope THEN Empty ELSE Kept(s, p)
<1>1. t = [s EXCEPT
            !.scope = p,
            !.gen = @ + 1,
            !.asks = Overridden(@, "declined"),
            !.decision = Restored(kept.decision),
            !.tasks = kept.tasks,
            !.paused = kept.paused,
            !.available = @ /\ (storage = "denied" => p = NoScope \/ p \in s.visited)]
  BY DEF Entered
<1>. HIDE DEF kept, t
<1>2. /\ t.scope = p /\ t.gen = s.gen + 1 /\ t.asks = Overridden(s.asks, "declined")
      /\ t.decision = Restored(kept.decision) /\ t.visited = s.visited
      /\ t.available = (s.available /\ (storage = "denied" => p = NoScope \/ p \in s.visited))
      /\ t.memory = s.memory /\ t.stored = s.stored /\ t.lost = s.lost
  BY <1>1 DEF Session
<1>3. Here(t, ref)
  <2> SUFFICES ASSUME ~s.lost, p \in ref PROVE t.decision = "declined"
    BY <1>2 DEF Here
  <2>1. KeptDeclined(s, p) /\ p # NoScope
    BY CourseSessionAssumption DEF Stands, Everywhere
  <2>2. Declines(Kept(s, p))
    BY <2>1 DEF KeptDeclined, Kept, Lasting, Stands, Reads
  <2>. QED
    BY <1>2, <2>1, <2>2 DEF Declines, Restored, kept
<1>4. OfVisits(t, ref)
  <2>1. s.asks \in SUBSET Ask /\ s.gen \in Nat
    BY DEF Session
  <2>2. ASSUME NEW b \in t.asks
        PROVE  b.outcome # "open" /\ b.gen # t.gen /\ (b.outcome = "accepted" => b.scope \notin ref)
    <3>1. PICK a \in s.asks : /\ b.gen = a.gen /\ b.scope = a.scope
                              /\ b.outcome = IF a.outcome = "open" THEN "declined" ELSE a.outcome
      BY <1>2, <2>1, OverriddenFacts
    <3>2. a.gen \in Nat /\ a.gen <= s.gen
      BY <2>1 DEF Ask, AsksFit
    <3>3. b.gen # t.gen
      BY <1>2, <2>1, <3>1, <3>2
    <3>. QED
      BY <3>1, <3>3 DEF Stands, OfVisits
  <2>. QED
    BY <2>2 DEF OfVisits
<1>5. OpenKept(t)
  <2>1. \A b \in t.asks : b.outcome # "open"
    BY <1>2, OverriddenFit
  <2>. QED
    BY <2>1 DEF OpenKept
<1>6. Everywhere(t, ref) /\ Reads(t)
  BY <1>2 DEF Stands, Everywhere, KeptDeclined, Reads, Lasting
<1>. QED
  BY <1>3, <1>4, <1>5, <1>6 DEF Stands, t

\* synchronizeScope() asks nothing.
LEMMA SyncedStands ==
  ASSUME NEW s, NEW con \in Consents, Fits(s, con), PendingSaved(s), NEW p \in Places,
         storage \in Storages, NEW ref \in SUBSET Scopes, Stands(s, ref)
  PROVE  LET t == Synced(s, p)
         IN  /\ Stands(t, ref) /\ Fits(t, con) /\ t.scope = p /\ (s.lost => t.lost)
             /\ \A a \in t.asks : a.outcome = "open" => a \in s.asks
             /\ \A a \in s.asks : a.outcome # "open" => a \in t.asks
<1>. DEFINE t == Synced(s, p)
<1>1. Fits(t, con) /\ t.scope = p /\ (s.lost => t.lost) /\ \A a \in s.asks : a.outcome # "open" => a \in t.asks
  BY SyncedFits DEF Storages
<1>2. CASE s.scope = p
  BY <1>1, <1>2 DEF Synced
<1>3. CASE s.scope # p
  <2>. DEFINE u == Saved(s)
  <2>. DEFINE v == Entered(u, p)
  <2>0. Elsewhere(s, ref) /\ s \in Session /\ AsksFit(s)
    BY DEF Stands, Everywhere, Elsewhere, Fits
  <2>1. Fits(u, con) /\ Stands(u, ref)
    BY <2>0, SavedFits, SavedStands DEF Stands, Storages
  <2>. HIDE DEF u
  <2>2. Fits(v, con) /\ v.asks = Overridden(u.asks, "declined") /\ Stands(v, ref)
    BY <2>1, EnteredFits, EnteredStands DEF Fits, Storages
  <2>3. \A b \in v.asks : b.outcome # "open"
    BY <2>1, <2>2, OverriddenFit DEF Fits
  <2>. HIDE DEF v
  <2>4. Elsewhere(v, ref) /\ v \in Session /\ AsksFit(v)
    BY <2>2 DEF Stands, Everywhere, Elsewhere, Fits
  <2>5. Stands(Saved(v), ref) /\ Saved(v).asks = v.asks
    BY <2>2, <2>4, SavedStands DEF Stands
  <2>6. t = Saved(v)
    BY <1>3 DEF Synced, u, v
  <2>. HIDE DEF t
  <2>. QED
    BY <1>1, <2>3, <2>5, <2>6 DEF t
<1>. QED
  BY <1>2, <1>3

-----------------------------------------------------------------------------
(* The steps, of a session that a course's refusals stand in.              *)

\* A new question is stored.
LEMMA AskingStands ==
  ASSUME NEW s, NEW con \in Consents, Fits(s, con), NEW key \in Questions, storage \in Storages,
         NEW ref \in SUBSET Scopes, Active(s) = {}, s.scope = NoScope => key = NoKey, Stands(s, ref)
  PROVE  /\ Stands(Asking(s, key), ref) /\ (s.lost => Asking(s, key).lost)
         /\ \A a \in Asking(s, key).asks : a.outcome = "open" => a \in s.asks \/ a.scope = s.scope
<1>. DEFINE ask == [gen |-> s.gen, scope |-> s.scope, key |-> key, outcome |-> "open"]
<1>. DEFINE u == [s EXCEPT !.decision = "pending", !.paused = key, !.asks = @ \cup {ask}]
<1>1. s \in Session /\ ask \in Ask
  BY DEF Fits, Session, Ask
<1>2. u \in Session
  BY <1>1 DEF Session, Decisions
<1>3. /\ u.scope = s.scope /\ u.gen = s.gen /\ u.decision = "pending" /\ u.paused = key
      /\ u.asks = s.asks \cup {ask} /\ u.memory = s.memory /\ u.stored = s.stored
      /\ u.available = s.available /\ u.lost = s.lost /\ u.visited = s.visited
  BY <1>1 DEF Session
<1>4. \A a \in s.asks : a.gen # s.gen
  BY DEF Active
<1>5. ask.gen = s.gen /\ ask.scope = s.scope /\ ask.key = key /\ ask.outcome = "open"
  OBVIOUS
<1>6. Asking(s, key) = Saved(u)
  BY DEF Asking
<1>. HIDE DEF u, ask
<1>7. AsksFit(u)
  <2>1. s.gen \in Nat
    BY <1>1 DEF Session
  <2>. QED
    BY <1>3, <1>4, <1>5, <2>1 DEF AsksFit, Fits
<1>8. Here(u, ref)
  <2>1. ask \in Active(u)
    BY <1>3, <1>5 DEF Active
  <2>. QED
    BY <1>3, <2>1 DEF Here
<1>9. Elsewhere(u, ref) /\ Reads(u)
  BY <1>3 DEF Stands, Everywhere, Elsewhere, KeptDeclined, Reads
<1>10. OfVisits(u, ref)
  BY <1>3, <1>5 DEF Stands, OfVisits
<1>11. Saved(u).asks = u.asks /\ (u.lost => Saved(u).lost) /\ Stands(Saved(u), ref)
  <2>1. u.lost => Saved(u).lost
    BY <1>2 DEF Saved, Session
  <2>. QED
    BY <1>2, <1>7, <1>8, <1>9, <1>10, <2>1, SavedStands
<1>. QED
  BY <1>3, <1>5, <1>6, <1>11

\* Forgetting the question that is settled.
LEMMA ForgottenStands ==
  ASSUME NEW s \in Session, NEW asks \in SUBSET s.asks, NEW ref \in SUBSET Scopes, Stands(s, ref),
         \/ s.scope \notin ref \/ s.decision = "declined"
         \/ \A a \in s.asks \ asks : a.gen # s.gen
  PROVE  Stands([s EXCEPT !.asks = asks], ref)
<1>. DEFINE t == [s EXCEPT !.asks = asks]
<1>1. /\ t.scope = s.scope /\ t.gen = s.gen /\ t.decision = s.decision /\ t.asks = asks
      /\ t.memory = s.memory /\ t.stored = s.stored /\ t.visited = s.visited
      /\ t.available = s.available /\ t.lost = s.lost
  BY DEF Session
<1>. HIDE DEF t
<1>2. Here(t, ref)
  <2>1. CASE s.scope \notin ref \/ s.decision = "declined"
    BY <1>1, <2>1 DEF Here
  <2>2. CASE \A a \in s.asks \ asks : a.gen # s.gen
    <3>1. Active(t) = Active(s)
      BY <1>1, <2>2 DEF Active
    <3>. QED
      BY <1>1, <3>1 DEF Here, Stands
  <2>. QED
    BY <2>1, <2>2
<1>3. Everywhere(t, ref) /\ OfVisits(t, ref) /\ OpenKept(t) /\ Reads(t)
  BY <1>1 DEF Stands, Everywhere, KeptDeclined, OfVisits, OpenKept, Reads
<1>. QED
  BY <1>2, <1>3 DEF Stands, t

\* A new document declines what the old one stored as declined.
LEMMA OpenedStands ==
  ASSUME storage \in Storages, NEW p \in Places, NEW stored \in [Scopes -> Snapshot], NEW lost \in BOOLEAN,
         NEW ref \in SUBSET Scopes, ~Lasting => ref = {},
         ~lost /\ Lasting => \A q \in ref : Declines(stored[q])
  PROVE  Stands(Opened(Fresh(stored, lost), p), ref) /\ NoOpen(Opened(Fresh(stored, lost), p))
<1>. DEFINE f == Fresh(stored, lost)
<1>1. f \in Session
  BY EmptyType DEF Fresh, Session, Places, Decisions, Questions
<1>2. /\ f.scope = NoScope /\ f.asks = {} /\ f.visited = {} /\ f.available = TRUE
      /\ f.stored = stored /\ f.lost = lost
  BY DEF Fresh
<1>. HIDE DEF f
<1>3. Here(f, ref) /\ OfVisits(f, ref) /\ OpenKept(f) /\ Reads(f) /\ AsksFit(f)
  BY <1>2, CourseSessionAssumption DEF Here, OfVisits, OpenKept, Reads, AsksFit
<1>4. Everywhere(f, ref)
  BY <1>2 DEF Everywhere, KeptDeclined
<1>5. Stands(f, ref)
  BY <1>3, <1>4 DEF Stands
<1>6. Stands(Entered(f, p), ref)
  BY <1>1, <1>3, <1>5, EnteredStands
<1>7. NoOpen(Entered(f, p))
  <2>1. Entered(f, p).asks = Overridden({}, "declined")
    BY <1>1, <1>2 DEF Entered, Session
  <2>. QED
    BY <2>1 DEF Overridden, NoOpen
<1>. QED
  BY <1>2, <1>5, <1>6, <1>7 DEF Opened, f, NoOpen

\* The storage of the step before may be meant.
LEMMA StandsNext ==
  ASSUME Stands(session', refused'), storage' = storage \/ (Lasting /\ storage' \in {"ok", "full"})
  PROVE  Refusals'
<1>1. Lasting' <=> Lasting
  BY DEF Lasting
<1>2. Everywhere(session, refused)' /\ OpenKept(session)'
  <2>1. \A p : KeptDeclined(session', p) <=> KeptDeclined(session, p)'
    BY <1>1 DEF KeptDeclined, Declines
  <2>. QED
    BY <2>1 DEF Stands, Everywhere, OpenKept
<1>. QED
  BY <1>1, <1>2 DEF Refusals, Stands, Here, Active, OfVisits, Reads

\* What is asked anew is not asked in a refused course.
Unrefused == \A a \in session'.asks \ session.asks : a.outcome = "open" /\ a.scope \in refused => session'.lost

LEMMA PresentSynced ==
  ASSUME IInv, Refusals
  PROVE  LET s == Synced(session, place)
         IN  /\ Stands(s, refused) /\ Fits(s, consent)
             /\ \A a \in s.asks : a.outcome = "open" => a \in session.asks
             /\ \A a \in session.asks : a.outcome # "open" => a \in s.asks
  BY SyncedStands DEF IInv, TypeOK, Refusals, Consents, Storages

\* requestDecision: in a refused course the answer is there, or a question is.
LEMMA DecideStands ==
  ASSUME IInv, Refusals, NEW c \in Callers, NEW scope \in Places, NEW key \in Questions,
         scope = NoScope <=> key = NoKey, Decide(c, scope, key)
  PROVE  Refusals' /\ Unrefused
<1>. DEFINE s == Synced(session, place)
<1>. DEFINE reply == Reply(s, scope, key)
<1>1. session' = (IF reply = "ask" THEN Asking(s, key) ELSE s) /\ UNCHANGED <<storage, refused>>
  BY DEF Decide
<1>2. /\ Stands(s, refused) /\ Fits(s, consent)
      /\ \A a \in s.asks : a.outcome = "open" => a \in session.asks
  BY PresentSynced
<1>. HIDE DEF s
<1>3. storage \in Storages /\ consent \in Consents /\ refused \in SUBSET Scopes
  BY DEF IInv, TypeOK, Storages, Consents
<1>4. reply = "ask" => Active(s) = {} /\ (s.scope = NoScope => key = NoKey) /\ s.decision # "declined"
  BY DEF Reply
<1>. HIDE DEF reply
<1>5. CASE reply = "ask"
  <2>1. /\ Stands(Asking(s, key), refused) /\ (s.lost => Asking(s, key).lost)
        /\ \A a \in Asking(s, key).asks : a.outcome = "open" => a \in s.asks \/ a.scope = s.scope
    BY <1>2, <1>3, <1>4, <1>5, AskingStands
  <2>2. s.scope \in refused => s.lost
    BY <1>2, <1>4, <1>5 DEF Stands, Here
  <2>3. Stands(session', refused')
    BY <1>1, <1>5, <2>1
  <2>. QED
    BY <1>1, <1>2, <1>5, <2>1, <2>2, <2>3, StandsNext DEF Unrefused
<1>6. CASE reply # "ask"
  <2>1. Stands(session', refused')
    BY <1>1, <1>2, <1>6
  <2>. QED
    BY <1>1, <1>2, <1>6, <2>1, StandsNext DEF Unrefused
<1>. QED
  BY <1>5, <1>6

\* When nothing is due there is one question, open and of the course that is
\* shown: a refusal of it finds it stored as pending.
LEMMA ClickStands ==
  ASSUME IInv, Refusals, NEW a \in session.asks, NEW accepted \in BOOLEAN, Click(a, accepted)
  PROVE  Refusals' /\ Unrefused
<1>. DEFINE outcome == IF accepted THEN "accepted" ELSE "declined"
<1>. DEFINE asks == Overridden(session.asks, outcome)
<1>. DEFINE t == [session EXCEPT !.asks = asks]
<1>1. /\ Calm /\ session' = t /\ UNCHANGED storage
      /\ refused' = IF accepted THEN refused \ {a.scope} ELSE refused \cup ({a.scope} \cap Scopes)
  BY DEF Click
<1>2. /\ session \in Session /\ AsksFit(session) /\ session.asks \in SUBSET Ask /\ a.gen = session.gen
      /\ a.scope = session.scope /\ a.outcome = "open" /\ session.decision = "pending"
  BY <1>1 DEF IInv, Fits, Session, Calm, Settled, AsksFit
<1>3. \A b \in session.asks : b = a
  BY <1>1, <1>2 DEF Calm, Settled, AsksFit
<1>4. outcome \in {"accepted", "declined"}
  OBVIOUS
<1>5. /\ \A b \in asks : b.scope = a.scope /\ b.outcome = outcome
      /\ \E b \in asks : b.gen = a.gen
  BY <1>2, <1>3, <1>4, OverriddenFacts
<1>. HIDE DEF asks, outcome
<1>6. /\ t.scope = session.scope /\ t.gen = session.gen /\ t.decision = session.decision /\ t.asks = asks
      /\ t.memory = session.memory /\ t.stored = session.stored /\ t.visited = session.visited
      /\ t.available = session.available /\ t.lost = session.lost
  BY <1>2 DEF Session
<1>. HIDE DEF t
<1>7. Stands(session, refused)
  BY DEF Refusals
<1>8. Here(t, refused')
  <2>1. Active(t) # {}
    BY <1>2, <1>5, <1>6 DEF Active
  <2>. QED
    BY <1>2, <1>6, <2>1 DEF Here
<1>9. Everywhere(t, refused')
  <2> SUFFICES ASSUME ~session.lost, NEW p \in refused' PROVE KeptDeclined(t, p)
    BY <1>6 DEF Everywhere
  <2>1. KeptDeclined(session, p)
    BY <1>1, <1>2, <1>7 DEF Stands, Everywhere, OpenKept
  <2>. QED
    BY <1>6, <2>1 DEF KeptDeclined
<1>10. OfVisits(t, refused')
  <2>1. accepted => a.scope \notin refused'
    BY <1>1
  <2>2. ~accepted => outcome = "declined"
    BY DEF outcome
  <2>. QED
    BY <1>2, <1>5, <1>6, <2>1, <2>2 DEF OfVisits
<1>11. OpenKept(t) /\ Reads(t) /\ \A b \in t.asks : b.outcome # "open"
  BY <1>4, <1>5, <1>6, <1>7 DEF OpenKept, Stands, Reads
<1>12. Stands(session', refused')
  BY <1>1, <1>8, <1>9, <1>10, <1>11 DEF Stands
<1>. QED
  BY <1>1, <1>11, <1>12, StandsNext DEF Unrefused

\* The callback: an answer that still counts is the course's decision, and a
\* late one was declined by the visit that came after it.
LEMMA SettleStands ==
  ASSUME IInv, Refusals, NEW a \in session.asks, Settle(a)
  PROVE  Refusals' /\ Unrefused
<1>. DEFINE s == Synced(session, place)
<1>. DEFINE valid == StillAsked(a, s)
<1>. DEFINE accepted == valid /\ a.outcome = "accepted"
<1>. DEFINE after == IF accepted THEN Saved(Agreed(s, a.key))
                     ELSE IF valid THEN Saved([s EXCEPT !.decision = "declined"])
                     ELSE s
<1>. DEFINE u == IF accepted THEN Agreed(s, a.key) ELSE [s EXCEPT !.decision = "declined"]
<1>. DEFINE asks == {b \in after.asks : b.gen # a.gen}
<1>1. /\ a.outcome # "open" /\ session' = [after EXCEPT !.asks = asks] /\ UNCHANGED <<storage, refused>>
  BY DEF Settle, Settled
<1>2. /\ Stands(s, refused) /\ Fits(s, consent) /\ a \in s.asks
      /\ \A b \in s.asks : b.outcome = "open" => b \in session.asks
  BY <1>1, PresentSynced
<1>. HIDE DEF s
<1>3. s \in Session /\ AsksFit(s) /\ storage \in Storages /\ refused \in SUBSET Scopes /\ a.key \in Questions
  BY <1>2 DEF IInv, TypeOK, Storages, Fits, Session, Ask
<1>4. valid <=> a.gen = s.gen
  BY <1>2 DEF StillAsked, Stands, OfVisits
<1>5. accepted => s.scope \notin refused
  BY <1>2 DEF StillAsked, Stands, OfVisits
<1>. HIDE DEF valid
<1>6. /\ u \in Session /\ u.scope = s.scope /\ u.gen = s.gen /\ u.asks = s.asks /\ u.memory = s.memory
      /\ u.stored = s.stored /\ u.visited = s.visited /\ u.available = s.available /\ u.lost = s.lost
      /\ (~accepted => u.decision = "declined")
  <2>1. CASE accepted
    BY <1>3, <2>1 DEF Agreed, Session, Decisions, Questions
  <2>2. CASE ~accepted
    BY <1>3, <2>2 DEF Session, Decisions
  <2>. QED
    BY <2>1, <2>2
<1>. HIDE DEF accepted
<1>7. CASE valid
  <2>1. NoOpen(s)
    BY <1>1, <1>2, <1>3, <1>4, <1>7 DEF NoOpen, AsksFit
  <2>2. AsksFit(u) /\ Here(u, refused) /\ Elsewhere(u, refused) /\ Reads(u) /\ OfVisits(u, refused)
    BY <1>2, <1>3, <1>5, <1>6, <2>1
       DEF AsksFit, NoOpen, Here, Stands, Everywhere, Elsewhere, KeptDeclined, Reads, OfVisits
  <2>3. after = Saved(u)
    BY <1>7 DEF accepted
  <2>4. /\ Stands(after, refused) /\ after.asks = s.asks /\ after.scope = s.scope
        /\ (s.scope \notin refused \/ after.decision = "declined")
    <3>. HIDE DEF u, after
    <3>. QED
      BY <1>3, <1>5, <1>6, <2>2, <2>3, SavedStands
  <2>5. after \in Session
    BY <1>6, <2>3, SavedType
  <2>. HIDE DEF after
  <2>6. Stands(session', refused')
    BY <1>1, <1>3, <2>4, <2>5, ForgottenStands
  <2>7. session'.asks = asks
    BY <1>1, <2>5 DEF Session
  <2>. QED
    BY <1>1, <1>2, <2>4, <2>6, <2>7, StandsNext DEF Unrefused
<1>8. CASE ~valid
  <2>1. after = s
    BY <1>8 DEF accepted
  <2>. HIDE DEF after
  <2>2. Stands(session', refused')
    BY <1>1, <1>2, <1>3, <1>4, <1>8, <2>1, ForgottenStands
  <2>3. session'.asks = asks
    BY <1>1, <1>3, <2>1 DEF Session
  <2>. QED
    BY <1>1, <1>2, <2>1, <2>2, <2>3, StandsNext DEF Unrefused
<1>. QED
  BY <1>7, <1>8

\* resumeDecision: the course is not refused any longer.
LEMMA ResumeStands ==
  ASSUME IInv, Refusals, Resume
  PROVE  Refusals' /\ Unrefused
<1>. DEFINE s == Synced(session, place)
<1>. DEFINE u == Resumed(s)
<1>. DEFINE asks == Overridden(s.asks, "accepted")
<1>1. session' = Saved(u) /\ refused' = refused \ {s.scope} /\ UNCHANGED storage
  BY DEF Resume
<1>2. Stands(s, refused) /\ Fits(s, consent)
  BY PresentSynced
<1>. HIDE DEF s
<1>3. s \in Session /\ AsksFit(s) /\ storage \in Storages /\ refused \in SUBSET Scopes /\ s.asks \in SUBSET Ask
  BY <1>2 DEF IInv, TypeOK, Storages, Fits, Session
<1>4. /\ asks \in SUBSET Ask
      /\ \A b \in asks : /\ b.gen <= s.gen /\ b.outcome # "open"
                         /\ \A d \in asks : b.gen = d.gen => b = d
                         /\ b.scope = NoScope => b.key = NoKey
  BY <1>3, OverriddenFacts, OverriddenFit
<1>5. \A b \in asks : /\ b.gen = s.gen => b.scope = s.scope
                      /\ b.outcome = "accepted" => b.scope \notin refused'
  <2> SUFFICES ASSUME NEW b \in asks
               PROVE  (b.gen = s.gen => b.scope = s.scope) /\ (b.outcome = "accepted" => b.scope \notin refused')
    OBVIOUS
  <2>1. PICK a \in s.asks : /\ b.gen = a.gen /\ b.scope = a.scope
                            /\ b.outcome = IF a.outcome = "open" THEN "accepted" ELSE a.outcome
    BY <1>3, OverriddenFacts
  <2>2. (a.gen = s.gen => a.scope = s.scope) /\ (a.outcome = "accepted" => a.scope \notin refused)
    BY <1>2 DEF Stands, OfVisits
  <2>3. a.outcome = "open" => a.scope = s.scope
    BY <1>3 DEF AsksFit
  <2>. QED
    BY <1>1, <2>1, <2>2, <2>3
<1>6. /\ u \in Session /\ u.scope = s.scope /\ u.gen = s.gen /\ u.asks = asks /\ u.memory = s.memory
      /\ u.stored = s.stored /\ u.visited = s.visited /\ u.available = s.available /\ u.lost = s.lost
  <2>. DEFINE tasks == s.tasks \cup IF s.scope = NoScope THEN {} ELSE {s.paused} \ {NoKey}
  <2>1. u = [s EXCEPT !.decision = "accepted", !.paused = NoKey, !.asks = asks, !.tasks = tasks]
    BY DEF Resumed
  <2>2. tasks \in SUBSET Keys /\ "accepted" \in Decisions /\ NoKey \in Questions
    BY <1>3 DEF Decisions, Questions, Session
  <2>. HIDE DEF u, tasks, asks
  <2>. QED
    BY <1>3, <1>4, <2>1, <2>2 DEF Session
<1>. HIDE DEF u, asks
<1>7. AsksFit(u) /\ Here(u, refused') /\ OfVisits(u, refused') /\ Reads(u)
  <2>1. AsksFit(u)
    BY <1>4, <1>6 DEF AsksFit
  <2>2. Here(u, refused')
    BY <1>1, <1>6 DEF Here
  <2>3. OfVisits(u, refused')
    BY <1>5, <1>6 DEF OfVisits
  <2>. QED
    BY <1>2, <1>6, <2>1, <2>2, <2>3 DEF Stands, Reads
<1>8. Elsewhere(u, refused')
  BY <1>1, <1>2, <1>6 DEF Stands, Everywhere, Elsewhere, KeptDeclined
<1>9. refused' \in SUBSET Scopes
  BY <1>1, <1>3
<1>10. Stands(session', refused') /\ session'.asks = asks
  BY <1>1, <1>3, <1>6, <1>7, <1>8, <1>9, SavedStands
<1>. QED
  BY <1>1, <1>4, <1>10, StandsNext DEF Unrefused

LEMMA PersistStands ==
  ASSUME IInv, Refusals, NEW s, s = Saved(Synced(session, place))
  PROVE  Stands(s, refused) /\ \A a \in s.asks : a.outcome = "open" => a \in session.asks
<1>. DEFINE u == Synced(session, place)
<1>1. Stands(u, refused) /\ Fits(u, consent) /\ \A a \in u.asks : a.outcome = "open" => a \in session.asks
  BY PresentSynced
<1>. HIDE DEF u
<1>2. u \in Session /\ AsksFit(u) /\ storage \in Storages /\ refused \in SUBSET Scopes
  BY <1>1 DEF IInv, TypeOK, Storages, Fits
<1>3. Elsewhere(u, refused) /\ Here(u, refused) /\ OfVisits(u, refused) /\ Reads(u)
  BY <1>1 DEF Stands, Everywhere, Elsewhere
<1>4. s = Saved(u)
  BY DEF u
<1>. QED
  BY <1>1, <1>2, <1>3, <1>4, SavedStands

LEMMA ReloadStands ==
  ASSUME IInv, Refusals, NEW p \in Places, NEW hidden \in BOOLEAN, Reload(p, hidden)
  PROVE  Refusals' /\ Unrefused
<1>. DEFINE s == IF hidden THEN Saved(Synced(session, place)) ELSE session
<1>1. /\ session' = Opened(Fresh(s.stored, s.lost), p) /\ UNCHANGED storage
      /\ refused' = IF storage \in {"denied", "off"} THEN {} ELSE refused
  BY DEF Reload
<1>2. Stands(s, refused) /\ Fits(s, consent)
  BY PersistStands, PersistFits DEF IInv, Refusals
<1>. HIDE DEF s
<1>3. /\ s.stored \in [Scopes -> Snapshot] /\ s.lost \in BOOLEAN /\ storage \in Storages
      /\ refused' \in SUBSET Scopes /\ (~Lasting => refused' = {})
  BY <1>1, <1>2 DEF Fits, Session, IInv, TypeOK, Storages, Lasting
<1>4. ~s.lost /\ Lasting => \A q \in refused' : Declines(s.stored[q])
  BY <1>1, <1>2 DEF Stands, Everywhere, KeptDeclined
<1>5. Stands(session', refused') /\ NoOpen(session')
  BY <1>1, <1>3, <1>4, OpenedStands
<1>. QED
  BY <1>1, <1>5, StandsNext DEF Unrefused, NoOpen

\* Every step keeps the refusals, and asks nothing in a refused course.
LEMMA StepStands ==
  ASSUME IInv, Refusals, [Next]_vars
  PROVE  Refusals' /\ Unrefused
<1>1. ASSUME UNCHANGED <<session, refused>>, storage' = storage \/ (storage = "ok" /\ storage' = "full")
      PROVE  Refusals' /\ Unrefused
  BY <1>1, StandsNext DEF Refusals, Unrefused, Lasting
<1>2. ASSUME NEW c \in Callers, NEW scope \in Places, NEW key \in Questions, Call(c, scope, key)
      PROVE  Refusals' /\ Unrefused
  BY <1>2, DecideStands DEF Call
<1>3. ASSUME NEW c \in Callers, Retry(c) PROVE Refusals' /\ Unrefused
  <2>1. caller[c].scope \in Places /\ caller[c].key \in Questions
    BY DEF IInv, TypeOK, Request
  <2>. QED
    BY <1>3, <2>1, DecideStands DEF Retry, IInv, CallersFit
<1>4. ASSUME Persist PROVE Refusals' /\ Unrefused
  <2>1. session' = Saved(Synced(session, place)) /\ UNCHANGED <<storage, refused>>
    BY <1>4 DEF Persist
  <2>2. Stands(session', refused') /\ \A a \in session'.asks : a.outcome = "open" => a \in session.asks
    BY <2>1, PersistStands
  <2>. QED
    BY <2>1, <2>2, StandsNext DEF Unrefused
<1>5. CASE UNCHANGED vars
  BY <1>1, <1>5 DEF vars
<1>6. ASSUME NEW c \in Callers, Return(c) PROVE Refusals' /\ Unrefused
  BY <1>1, <1>6 DEF Return
<1>7. ASSUME NEW p \in Places, Move(p) PROVE Refusals' /\ Unrefused
  BY <1>1, <1>7 DEF Move
<1>8. CASE StorageFills
  BY <1>1, <1>8 DEF StorageFills
<1>. QED
  BY <1>2, <1>3, <1>4, <1>5, <1>6, <1>7, <1>8, ClickStands, SettleStands, ResumeStands, ReloadStands DEF Next

LEMMA InitStands == Init => Refusals
<1> SUFFICES ASSUME Init PROVE Refusals
  OBVIOUS
<1>1. /\ session = Opened(Fresh([c \in Scopes |-> Empty], FALSE), place) /\ refused = {}
      /\ place \in Places /\ storage \in Storages
  BY DEF Init, Storages
<1>2. [c \in Scopes |-> Empty] \in [Scopes -> Snapshot]
  BY EmptyType
<1>. QED
  BY <1>1, <1>2, OpenedStands DEF Refusals

-----------------------------------------------------------------------------
(* The theorems.                                                           *)

LEMMA InitFits == Init => IInv
<1> SUFFICES ASSUME Init PROVE IInv
  OBVIOUS
<1>1. place \in Places /\ storage \in {"ok", "full", "denied", "off"} /\ consent \in Consents
  BY DEF Init, Consents
<1>2. session = Opened(Fresh([c \in Scopes |-> Empty], FALSE), place)
  BY DEF Init
<1>3. [c \in Scopes |-> Empty] \in [Scopes -> Snapshot] /\ \A q \in Scopes : Backed([c \in Scopes |-> Empty][q], q, consent)
  BY EmptyType DEF Backed, Empty
<1>4. Fits(session, consent) /\ PendingSaved(session)
  BY <1>1, <1>2, <1>3, OpenedFits
<1>5. Idle \in Request
  BY DEF Idle, Request, Places, Questions
<1>6. TypeOK
  <2>1. caller \in [Callers -> Request]
    BY <1>5 DEF Init
  <2>2. moves \in 0..MaxMoves /\ refused \subseteq Scopes
    BY CourseSessionAssumption DEF Init
  <2>. QED
    BY <1>1, <1>4, <2>1, <2>2 DEF TypeOK, Fits, Consents
<1>7. CallersFit /\ WaitersFit
  BY DEF Init, CallersFit, WaitersFit, Idle
<1>. QED
  BY <1>4, <1>6, <1>7 DEF IInv

\* The inductive invariant: what is shown, remembered or stored is backed by
\* consent, and an open question is saved as pending.
THEOREM SessionInvariant == Spec => []IInv
<1>. QED
  BY InitFits, StepFits, PTL DEF Spec

\* Every record of the session keeps its shape.
THEOREM SessionTypes == Spec => []TypeOK
<1>1. IInv => TypeOK
  BY DEF IInv
<1>. QED
  BY <1>1, SessionInvariant, PTL

\* There is at most one question in a visit, and an open one is current.
THEOREM SessionAsksOnce == Spec => []OneQuestion
<1>1. IInv => OneQuestion
  BY DEF IInv, Fits, AsksFit, OneQuestion
<1>. QED
  BY <1>1, SessionInvariant, PTL

\* No caller is told to go on without consent.
THEOREM SessionConsents == Spec => ConsentNeeded
<1>1. IInv /\ [Next]_vars => [\A c \in Callers : Answers(c) => session'.lost \/ Agrees(c)]_vars
  BY StepFits
<1>. QED
  BY <1>1, SessionInvariant, PTL DEF Spec, ConsentNeeded

\* cx-course-session.ts: once refused, a course is not asked about again, by
\* any caller, in this document or a later one, until the human resumes.
THEOREM SessionDeclineSticks == Spec => DeclineSticks
<1>1. Init => IInv /\ Refusals
  BY InitFits, InitStands
<1>2. IInv /\ Refusals /\ [Next]_vars => IInv' /\ Refusals'
  BY StepFits, StepStands
<1>3. IInv /\ Refusals /\ [Next]_vars
      => [\A a \in session'.asks \ session.asks :
            a.outcome = "open" /\ a.scope \in refused => session'.lost]_vars
  BY StepStands DEF Unrefused
<1>. QED
  BY <1>1, <1>2, <1>3, PTL DEF Spec, DeclineSticks
=============================================================================
