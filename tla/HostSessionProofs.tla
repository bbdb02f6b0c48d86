-------------------------- MODULE HostSessionProofs --------------------------
(***************************************************************************)
(* Proofs about HostSession, for any frames, table size, identifiers and   *)
(* width of the serial numbers.  The functions of session.c are operators  *)
(* on a session: the lemmas say that each keeps the table well formed and  *)
(* that none but the taking of a task marks one as being in flight.  The   *)
(* actions of the host's loop are then choices of these functions.         *)
(*                                                                         *)
(* The second half is about what the table says of the documents.  Queues  *)
(* join the two sides: a claim may be out of date, but only while the      *)
(* event that takes it back is on its way (Traced).                        *)
(***************************************************************************)
EXTENDS HostSession, FiniteSetTheorems, SequenceTheorems, TLAPS

\* The contexts that the counter counts
Counted(c) == {i \in 1..MaxContexts : c[i].used}

\* An identifier names one context, the fallback has none of its own, and an
\* entry that is not used has nothing in flight.
WellFormed(c) ==
    /\ c \in [Slots -> Context]
    /\ \A i, j \in Slots : c[i].used /\ c[j].used /\ c[i].id = c[j].id => i = j
    /\ \A i \in Slots : c[i].used => (c[i].id = 0) = (i = 0)
    /\ \A i \in Slots, t \in TaskType : ~c[i].used => c[i].token[t] = 0

Good(s) ==
    /\ s \in Session
    /\ WellFormed(s.context)
    /\ s.contexts = Cardinality(Counted(s.context))

\* What is in flight after an operation was so before, in the same document.
Keeps(c, d) ==
    \A i \in Slots, t \in TaskType : d[i].token[t] # 0 =>
        /\ d[i].token[t] = c[i].token[t] /\ d[i].id = c[i].id
        /\ d[i].generation = c[i].generation /\ d[i].used = c[i].used

\* What is in flight is the task k, if there is one.
Backed(c, some, k) ==
    \A i \in Slots, t \in TaskType : c[i].token[t] # 0 =>
        /\ some /\ c[i].used
        /\ k.type = t /\ k.token = c[i].token[t]
        /\ k.id = c[i].id /\ k.generation = c[i].generation

\* A task under way is at one of its commands.
InStep == at = "task" => task.step \in 1..Len(Steps(task.type))

IInv == TypeOK /\ Good(session) /\ Backed(session.context, at = "task", task) /\ InStep

-----------------------------------------------------------------------------
(* Values                                                                  *)

LEMMA Constants ==
    /\ MaxContexts \in Nat \ {0} /\ 0 \in Slots /\ Slots \ {0} = 1..MaxContexts
    /\ 1..MaxContexts \subseteq Slots /\ Slots \subseteq Nat
    /\ 0 \in Numbers /\ \A n \in Numbers : Serial(n) \in Numbers /\ Serial(n) # 0
    /\ 0 \notin Ids
  BY HostSessionAssumption DEF Slots, Numbers, Serial

LEMMA UnusedType == Unused \in Context /\ Unused.token = NoTokens /\ ~Unused.used
<1>1. NoTokens \in [TaskType -> Numbers]
  BY Constants DEF NoTokens
<1>. QED
  BY <1>1, Constants DEF Unused, Context, AnyKind

LEMMA ResetType ==
  ASSUME NEW c \in Context, NEW g \in Numbers
  PROVE  /\ Reset(c, g) \in Context
         /\ Reset(c, g).token = NoTokens /\ Reset(c, g).used = c.used /\ Reset(c, g).id = c.id
         /\ Reset(c, g).frame = c.frame
<1>1. NoTokens \in [TaskType -> Numbers] /\ {"bootstrap"} \in SUBSET TaskType
  BY Constants DEF NoTokens, TaskType
<1>. QED
  BY <1>1 DEF Reset, Context

\* An entry for a document that was announced
LEMMA EnteredType ==
  ASSUME NEW id \in Ids \cup {0}, NEW f \in Frames \cup {NoFrame}, NEW k \in AnyKind
  PROVE  /\ [Unused EXCEPT !.used = TRUE, !.id = id, !.frame = f, !.kind = k] \in Context
         /\ [Unused EXCEPT !.used = TRUE, !.id = id, !.frame = f, !.kind = k].used
         /\ [Unused EXCEPT !.used = TRUE, !.id = id, !.frame = f, !.kind = k].id = id
  BY UnusedType DEF Context

\* A session by its fields
LEMMA SessionFields ==
  ASSUME NEW s \in Session
  PROVE  /\ s.context \in [Slots -> Context] /\ s.known \in [Frames -> AnyKind \cup {"unknown"}]
         /\ s.top \in Frames \cup {NoFrame} /\ s.target \in AnyKind /\ s.enabled \in BOOLEAN
         /\ s.generation \in Numbers /\ s.serial \in Numbers /\ s.contexts \in Int
  BY DEF Session

LEMMA WithContext ==
  ASSUME NEW s \in Session, NEW c \in [Slots -> Context]
  PROVE  /\ [s EXCEPT !.context = c] \in Session
         /\ [s EXCEPT !.context = c].context = c
         /\ [s EXCEPT !.context = c].contexts = s.contexts
  BY DEF Session

\* A set of slots that is not empty has a first and a last one.
LEMMA FirstAndLast ==
  ASSUME NEW S \in SUBSET Slots, S # {}
  PROVE  (\E i \in S : \A j \in S : i <= j) /\ (\E i \in S : \A j \in S : j <= i)
<1>1. S \subseteq Nat /\ \A i, j \in Nat : IsFiniteSet(i..j)
  BY Constants, FS_Interval
<1>2. ASSUME NEW T, T # {}, T \subseteq FiniteSubsetsOf(Nat)
      PROVE  \E x \in T : \A y \in T : y \subseteq x => y = x
  <2>1. \E x \in T : \A y \in T : ~ (<<y, x>> \in StrictSubsetOrdering(Nat))
    BY <1>2, FS_StrictSubsetOrderingWellFounded, WFMin
  <2>2. PICK x \in T : \A y \in T : ~ (<<y, x>> \in StrictSubsetOrdering(Nat))
    BY <2>1
  <2>3. ASSUME NEW y \in T, y \subseteq x PROVE y = x
    <3>1. y \in FiniteSubsetsOf(Nat) /\ x \in FiniteSubsetsOf(Nat)
      BY <1>2
    <3>2. <<y, x>> \notin StrictSubsetOrdering(Nat)
      BY <2>2
    <3>. QED
      BY <2>3, <3>1, <3>2 DEF StrictSubsetOrdering, FiniteSubsetsOf
  <2>. QED
    BY <2>3
<1>3. \E i \in S : \A j \in S : i <= j
  <2> DEFINE T == {0..i : i \in S}
  <2>1. T # {} /\ T \subseteq FiniteSubsetsOf(Nat)
    <3>1. ASSUME NEW i \in S PROVE 0..i \in FiniteSubsetsOf(Nat)
      <4>1. i \in Nat
        BY <1>1
      <4>2. IsFiniteSet(0..i)
        BY <1>1, <4>1
      <4>. QED
        BY <4>1, <4>2 DEF FiniteSubsetsOf
    <3>. QED
      BY <3>1
  <2>2. \E x \in T : \A y \in T : y \subseteq x => y = x
    <3>. HIDE DEF T
    <3>. QED
      BY <1>2, <2>1
  <2>3. PICK x \in T : \A y \in T : y \subseteq x => y = x
    BY <2>2
  <2>4. PICK i \in S : x = 0..i
    OBVIOUS
  <2>5. ASSUME NEW j \in S, j < i PROVE FALSE
    <3>1. 0..j \subseteq 0..i /\ 0..j # 0..i
      <4>1. i \in 0..i /\ i \notin 0..j
        BY <1>1, <2>5
      <4>. QED
        BY <1>1, <2>5, <4>1
    <3>. QED
      BY <2>3, <2>4, <3>1
  <2>. QED
    BY <1>1, <2>5
<1>4. \E i \in S : \A j \in S : j <= i
  <2> DEFINE T == {i..MaxContexts : i \in S}
  <2>1. T # {} /\ T \subseteq FiniteSubsetsOf(Nat)
    <3>1. ASSUME NEW i \in S PROVE i..MaxContexts \in FiniteSubsetsOf(Nat)
      <4>1. i \in Nat /\ MaxContexts \in Nat
        BY <1>1, Constants
      <4>2. IsFiniteSet(i..MaxContexts)
        BY <1>1, <4>1
      <4>. QED
        BY <4>1, <4>2 DEF FiniteSubsetsOf
    <3>. QED
      BY <3>1
  <2>2. \E x \in T : \A y \in T : y \subseteq x => y = x
    <3>. HIDE DEF T
    <3>. QED
      BY <1>2, <2>1
  <2>3. PICK x \in T : \A y \in T : y \subseteq x => y = x
    BY <2>2
  <2>4. PICK i \in S : x = i..MaxContexts
    OBVIOUS
  <2>5. ASSUME NEW j \in S, i < j PROVE FALSE
    <3>1. j..MaxContexts \subseteq i..MaxContexts /\ j..MaxContexts # i..MaxContexts
      <4>1. i \in i..MaxContexts /\ i \notin j..MaxContexts
        BY <1>1, <2>5, Constants DEF Slots
      <4>. QED
        BY <1>1, <2>5, <4>1, Constants
    <3>. QED
      BY <2>3, <2>4, <3>1
  <2>. QED
    BY <1>1, <2>5
<1>. QED
  BY <1>3, <1>4

-----------------------------------------------------------------------------
(* The counter                                                             *)

LEMMA CountedFinite ==
  ASSUME NEW c PROVE IsFiniteSet(Counted(c)) /\ Cardinality(Counted(c)) \in Nat
<1>1. IsFiniteSet(1..MaxContexts)
  BY FS_Interval, Constants
<1>2. Counted(c) \in SUBSET (1..MaxContexts)
  BY DEF Counted
<1>. QED
  BY <1>1, <1>2, FS_Subset, FS_CardinalityType

\* cx_session_clear and the like: used entries are cleared and not counted.
LEMMA DropGood ==
  ASSUME NEW s, Good(s), NEW gone \in SUBSET Slots,
         \A i \in gone \ {0} : s.context[i].used
  PROVE  /\ Good(Drop(s, gone)) /\ Keeps(s.context, Drop(s, gone).context)
         /\ Drop(s, gone) = [s EXCEPT !.context = Drop(s, gone).context, !.contexts = Drop(s, gone).contexts]
         /\ \A i \in Slots : Drop(s, gone).context[i] = IF i \in gone THEN Unused ELSE s.context[i]
<1> DEFINE d == [i \in Slots |-> IF i \in gone THEN Unused ELSE s.context[i]]
           n == s.contexts - Cardinality(gone \ {0})
<1>1. s \in Session /\ WellFormed(s.context) /\ s.context \in [Slots -> Context]
  BY SessionFields DEF Good
<1>2. d \in [Slots -> Context]
  BY <1>1, UnusedType
<1>3. Counted(d) = Counted(s.context) \ (gone \ {0})
  BY Constants, UnusedType DEF Counted
<1>4. Counted(s.context) \cap (gone \ {0}) = gone \ {0}
  BY Constants DEF Counted
<1>5. Cardinality(Counted(d)) = n
  <2>1. IsFiniteSet(Counted(s.context))
    BY CountedFinite
  <2>2. Cardinality(Counted(s.context) \ (gone \ {0})) =
          Cardinality(Counted(s.context)) - Cardinality(Counted(s.context) \cap (gone \ {0}))
    BY <2>1, FS_Difference
  <2>. HIDE DEF d
  <2>. QED
    BY <1>3, <1>4, <2>2 DEF Good
<1>6. n \in Int
  BY <1>5, CountedFinite
<1>7. Drop(s, gone) = [s EXCEPT !.context = d, !.contexts = n]
  BY DEF Drop
<1>8. /\ Drop(s, gone) \in Session /\ Drop(s, gone).context = d /\ Drop(s, gone).contexts = n
  BY <1>1, <1>2, <1>6, <1>7 DEF Session
<1>9. WellFormed(d)
  <2>1. \A i \in Slots : d[i].used => d[i] = s.context[i]
    BY UnusedType
  <2>2. \A i \in Slots, t \in TaskType : ~d[i].used => d[i].token[t] = 0
    BY <1>1, UnusedType DEF WellFormed, NoTokens
  <2>. QED
    BY <1>1, <1>2, <2>1, <2>2 DEF WellFormed
<1>10. Keeps(s.context, d)
  BY UnusedType DEF Keeps, NoTokens
<1>. QED
  BY <1>5, <1>7, <1>8, <1>9, <1>10 DEF Good

LEMMA KeepsTrans ==
  ASSUME NEW a, NEW b, NEW c, Keeps(a, b), Keeps(b, c) PROVE Keeps(a, c)
  BY DEF Keeps

LEMMA KeepsBacked ==
  ASSUME NEW a, NEW b, NEW some, NEW k, Keeps(a, b), Backed(a, some, k) PROVE Backed(b, some, k)
  BY DEF Keeps, Backed

-----------------------------------------------------------------------------
(* cx_session_feed                                                         *)

\* An entry for a document takes a free slot or the one with its identifier.
LEMMA PutWellFormed ==
  ASSUME NEW c, WellFormed(c), NEW i \in 1..MaxContexts, NEW new \in Context,
         new.used, new.id \in Ids, new.token = NoTokens,
         \A j \in Slots : c[j].used /\ c[j].id = new.id => j = i,
         c[i].used => c[i].id = new.id
  PROVE  /\ [c EXCEPT ![i] = new] \in [Slots -> Context]
         /\ WellFormed([c EXCEPT ![i] = new]) /\ Keeps(c, [c EXCEPT ![i] = new])
         /\ Cardinality(Counted([c EXCEPT ![i] = new])) =
               IF c[i].used THEN Cardinality(Counted(c)) ELSE Cardinality(Counted(c)) + 1
<1> DEFINE d == [c EXCEPT ![i] = new]
<1>1. c \in [Slots -> Context] /\ i \in Slots /\ i # 0 /\ new.id # 0
  BY Constants DEF WellFormed
<1>2. d \in [Slots -> Context] /\ d[i] = new /\ \A j \in Slots : j # i => d[j] = c[j]
  BY <1>1
<1>3. WellFormed(d)
  BY <1>1, <1>2 DEF WellFormed, NoTokens
<1>4. Keeps(c, d)
  BY <1>1, <1>2 DEF Keeps, NoTokens
<1>5. Counted(d) = Counted(c) \cup {i}
  BY <1>1, <1>2, Constants DEF Counted
<1>6. IsFiniteSet(Counted(c))
  BY CountedFinite
<1>7. Cardinality(Counted(c) \cup {i}) =
        IF i \in Counted(c) THEN Cardinality(Counted(c)) ELSE Cardinality(Counted(c)) + 1
  BY <1>6, FS_AddElement
<1>8. i \in Counted(c) <=> c[i].used
  BY DEF Counted
<1>. QED
  BY <1>2, <1>3, <1>4, <1>5, <1>7, <1>8

LEMMA EventFields ==
  ASSUME NEW e \in Event
  PROVE  /\ e.frame \in Frames /\ e.kind \in AnyKind /\ e.id \in Nat
         /\ e.type = "created" => e.id \in Ids
  BY DEF Event

LEMMA ContextCreatedGood ==
  ASSUME NEW s, Good(s), NEW e \in Event, e.type = "created"
  PROVE  Good(ContextCreated(s, e)) /\ Keeps(s.context, ContextCreated(s, e).context)
<1> DEFINE old  == SlotOf(s, e.id)
           free == {i \in 1..MaxContexts : ~s.context[i].used}
           gone == IF s.top \in {NoFrame, e.frame} THEN {0} ELSE {}
           b    == Drop(s, gone)
           new  == Reset([Unused EXCEPT !.used = TRUE, !.id = e.id, !.frame = e.frame, !.kind = e.kind],
                         Serial(s.generation))
           Put(i) == [b EXCEPT !.generation = Serial(@), !.context[i] = new,
                               !.contexts = IF old = {} THEN @ + 1 ELSE @]
<1>1. e.id \in Ids /\ e.frame \in Frames /\ e.kind \in AnyKind
  BY EventFields
<1>2. s \in Session /\ WellFormed(s.context) /\ s.generation \in Numbers /\ Serial(s.generation) \in Numbers
  BY SessionFields, Constants DEF Good
<1>3. new \in Context /\ new.used /\ new.id = e.id /\ new.token = NoTokens
  <2> DEFINE entered == [Unused EXCEPT !.used = TRUE, !.id = e.id, !.frame = e.frame, !.kind = e.kind]
  <2>1. entered \in Context /\ entered.used /\ entered.id = e.id
    <3> DEFINE id == e.id
               f  == e.frame
               k  == e.kind
    <3>1. id \in Ids \cup {0} /\ f \in Frames \cup {NoFrame} /\ k \in AnyKind
      BY <1>1
    <3>. HIDE DEF id, f, k
    <3>2. LET c == [Unused EXCEPT !.used = TRUE, !.id = id, !.frame = f, !.kind = k]
          IN  c \in Context /\ c.used /\ c.id = id
      BY <3>1, EnteredType
    <3>. QED
      BY <3>2 DEF id, f, k
  <2>. HIDE DEF entered
  <2>2. /\ Reset(entered, Serial(s.generation)) \in Context
        /\ Reset(entered, Serial(s.generation)).used /\ Reset(entered, Serial(s.generation)).id = e.id
        /\ Reset(entered, Serial(s.generation)).token = NoTokens
    BY <1>2, <2>1, ResetType
  <2>. QED
    BY <2>2 DEF entered
<1>4. gone \in SUBSET Slots /\ \A i \in gone \ {0} : s.context[i].used
  BY Constants
<1>5. /\ Good(b) /\ Keeps(s.context, b.context)
      /\ \A i \in Slots : b.context[i] = IF i \in gone THEN Unused ELSE s.context[i]
      /\ b = [s EXCEPT !.context = b.context, !.contexts = b.contexts]
  <2>. HIDE DEF gone
  <2>. QED
    BY <1>4, DropGood
<1>6. b \in Session /\ WellFormed(b.context) /\ b.contexts = Cardinality(Counted(b.context))
  BY <1>5 DEF Good
<1>7. b.generation \in Numbers /\ Serial(b.generation) \in Numbers
  BY <1>6, SessionFields, Constants
<1>8. ASSUME NEW i \in 1..MaxContexts, i \in old \/ (old = {} /\ i \in free)
      PROVE  Good(Put(i)) /\ Keeps(s.context, Put(i).context)
  <2>1. i \in Slots /\ i \notin gone
    BY Constants
  <2>2. b.context[i] = s.context[i]
    BY <1>5, <2>1
  <2>3. \A j \in Slots : b.context[j].used => j \notin gone /\ b.context[j] = s.context[j]
    BY <1>5, UnusedType
  <2>4. \A j \in Slots : b.context[j].used /\ b.context[j].id = e.id => j = i
    <3>1. SUFFICES ASSUME NEW j \in Slots, b.context[j].used, b.context[j].id = e.id PROVE j = i
      OBVIOUS
    <3>2. j \in old
      BY <2>3, <3>1 DEF SlotOf
    <3>3. i \in old
      BY <3>2, <1>8
    <3>. QED
      BY <1>2, <3>2, <3>3 DEF WellFormed, SlotOf
  <2>5. b.context[i].used <=> i \in old
    BY <1>8, <2>2 DEF SlotOf
  <2>6. b.context[i].used => b.context[i].id = e.id
    BY <2>2, <2>5 DEF SlotOf
  <2> DEFINE c == [b.context EXCEPT ![i] = new]
             n == IF old = {} THEN b.contexts + 1 ELSE b.contexts
  <2>7. /\ c \in [Slots -> Context] /\ WellFormed(c) /\ Keeps(b.context, c)
        /\ Cardinality(Counted(c)) = IF b.context[i].used THEN Cardinality(Counted(b.context))
                                                         ELSE Cardinality(Counted(b.context)) + 1
    <3>. HIDE DEF new, b, c
    <3>. QED
      BY <1>1, <1>3, <1>6, <2>4, <2>6, PutWellFormed DEF c
  <2>8. old = {} <=> ~b.context[i].used
    BY <1>8, <2>5
  <2>9. n = Cardinality(Counted(c)) /\ n \in Int
    BY <1>6, <2>7, <2>8, CountedFinite
  <2>10. Put(i) = [b EXCEPT !.generation = Serial(b.generation), !.context = c, !.contexts = n]
    OBVIOUS
  <2>11. Put(i) \in Session /\ Put(i).context = c /\ Put(i).contexts = n
    <3>. HIDE DEF b, c, n, new
    <3>. QED
      BY <1>6, <1>7, <2>7, <2>9, <2>10 DEF Session
  <2>. QED
    BY SMTT(30), <1>5, <2>7, <2>9, <2>11, KeepsTrans DEF Good
<1>9. old \subseteq 1..MaxContexts
  BY <1>1, <1>2, Constants DEF WellFormed, SlotOf
<1>10. Keeps(s.context, s.context)
  BY DEF Keeps
<1>11. ContextCreated(s, e) = CASE \E i \in old : s.context[i].frame = e.frame /\ s.context[i].kind = e.kind -> s
         [] old # {} /\ \A i \in old : s.context[i].frame # e.frame \/ s.context[i].kind # e.kind
              -> Put(CHOOSE i \in old : TRUE)
         [] old = {} /\ free # {} -> Put(CHOOSE i \in free : \A j \in free : i <= j)
         [] OTHER -> s
  BY DEF ContextCreated
<1>12. CASE old # {} /\ ~\E i \in old : s.context[i].frame = e.frame /\ s.context[i].kind = e.kind
  <2>1. (CHOOSE i \in old : TRUE) \in old
    BY <1>12
  <2>. QED
    BY <1>8, <1>9, <1>11, <1>12, <2>1
<1>13. CASE old = {} /\ free # {}
  <2>1. \E i \in free : \A j \in free : i <= j
    BY <1>13, FirstAndLast, Constants
  <2>2. (CHOOSE i \in free : \A j \in free : i <= j) \in free
    BY <2>1
  <2>. QED
    BY <1>8, <1>11, <1>13, <2>2
<1>. QED
  BY <1>10, <1>11, <1>12, <1>13

\* What an operation does to each entry that it changes: the document, and so
\* the count, stays the same, and nothing more is in flight.
Touched(c, d) ==
    \A i \in Slots :
        /\ d[i].used = c[i].used /\ d[i].id = c[i].id
        /\ \A t \in TaskType : d[i].token[t] # 0 =>
               d[i].token[t] = c[i].token[t] /\ d[i].generation = c[i].generation

LEMMA TouchedGood ==
  ASSUME NEW c, WellFormed(c), NEW d \in [Slots -> Context], Touched(c, d)
  PROVE  WellFormed(d) /\ Keeps(c, d) /\ Counted(d) = Counted(c)
<1>1. \A i \in Slots : d[i].used = c[i].used /\ d[i].id = c[i].id
  BY DEF Touched
<1>2. \A i \in Slots, t \in TaskType : ~d[i].used => d[i].token[t] = 0
  BY DEF Touched, WellFormed
<1>3. WellFormed(d)
  BY <1>1, <1>2 DEF WellFormed
<1>4. Keeps(c, d)
  BY <1>1 DEF Keeps, Touched, NoTokens
<1>5. Counted(d) = Counted(c)
  BY <1>1, Constants DEF Counted
<1>. QED
  BY <1>3, <1>4, <1>5

LEMMA FrameNavigatedGood ==
  ASSUME NEW s, Good(s), NEW e \in Event
  PROVE  Good(FrameNavigated(s, e)) /\ Keeps(s.context, FrameNavigated(s, e).context)
<1> DEFINE d == [i \in Slots |-> IF i # 0 /\ s.context[i].used /\ s.context[i].frame = e.frame
                                 THEN Reset(s.context[i], Serial(s.generation)) ELSE s.context[i]]
           n == [s.known EXCEPT ![e.frame] = e.kind]
           known == [WithFrame(s, e.frame, e.kind) EXCEPT !.generation = Serial(@), !.context = d]
<1>1. e.frame \in Frames /\ e.kind \in AnyKind
  BY EventFields
<1>2. /\ s \in Session /\ WellFormed(s.context) /\ s.contexts = Cardinality(Counted(s.context))
      /\ s.context \in [Slots -> Context] /\ Serial(s.generation) \in Numbers
      /\ s.known \in [Frames -> AnyKind \cup {"unknown"}]
  BY SessionFields, Constants DEF Good
<1>3. ASSUME NEW i \in Slots
      PROVE  /\ d[i] \in Context /\ d[i].used = s.context[i].used /\ d[i].id = s.context[i].id
             /\ d[i] = s.context[i] \/ d[i].token = NoTokens
  <2>1. s.context[i] \in Context
    BY <1>2
  <2>. QED
    BY <1>2, <2>1, ResetType
<1>4. d \in [Slots -> Context] /\ Touched(s.context, d)
  BY <1>3 DEF Touched, NoTokens
<1>5. WellFormed(d) /\ Keeps(s.context, d) /\ Counted(d) = Counted(s.context)
  <2>. HIDE DEF d
  <2>. QED
    BY <1>2, <1>4, TouchedGood
<1>6. n \in [Frames -> AnyKind \cup {"unknown"}]
  BY <1>1, <1>2
<1>7. known = [s EXCEPT !.known = n, !.generation = Serial(s.generation), !.context = d]
  BY <1>2 DEF WithFrame, Session
<1>8. known \in Session /\ known.context = d /\ known.contexts = s.contexts
  <2>. HIDE DEF d, n
  <2>. QED
    BY <1>2, <1>4, <1>6, <1>7 DEF Session
<1>9. Good(known)
  BY <1>2, <1>5, <1>8 DEF Good
<1>10. Good(Drop(known, {0})) /\ Keeps(known.context, Drop(known, {0}).context)
  <2>. HIDE DEF known
  <2>. QED
    <3>1. {0} \in SUBSET Slots /\ \A i \in {0} \ {0} : known.context[i].used
      BY Constants
    <3>. QED
      BY <1>9, <3>1, DropGood
<1>11. LET r == [Drop(known, {0}) EXCEPT !.top = Top, !.target = e.kind]
       IN Good(r) /\ r.context = Drop(known, {0}).context
  <2>1. Drop(known, {0}) \in Session
    BY <1>10 DEF Good
  <2>. HIDE DEF known
  <2> DEFINE b == Drop(known, {0})
             r == [b EXCEPT !.top = Top, !.target = e.kind]
  <2>. HIDE DEF b
  <2>2. r \in Session /\ r.context = b.context /\ r.contexts = b.contexts
    BY <1>1, <2>1, HostSessionAssumption DEF Session, b
  <2>. QED
    BY <1>10, <2>2 DEF Good, b
<1>12. FrameNavigated(s, e) = IF e.frame # Top THEN known
                              ELSE [Drop(known, {0}) EXCEPT !.top = Top, !.target = e.kind]
  BY DEF FrameNavigated
<1>. QED
  BY <1>5, <1>8, <1>9, <1>10, <1>11, <1>12, KeepsTrans

LEMMA FrameDetachedGood ==
  ASSUME NEW s, Good(s), NEW e \in Event
  PROVE  Good(FrameDetached(s, e)) /\ Keeps(s.context, FrameDetached(s, e).context)
<1> DEFINE gone  == {g \in Below[e.frame] : \A h \in Below[e.frame] : g \in Below[h] => s.known[h] # "unknown"}
                    \cup {e.frame}
           slots == {i \in Slots \ {0} : s.context[i].used /\ s.context[i].frame \in gone}
                    \cup (IF s.top = e.frame THEN {0} ELSE {})
           b     == Drop(s, slots)
           n     == [f \in Frames |-> IF f \in gone THEN "unknown" ELSE s.known[f]]
           r     == [b EXCEPT !.known = n]
<1>1. Good(b) /\ Keeps(s.context, b.context)
  <2>1. slots \in SUBSET Slots /\ \A i \in slots \ {0} : s.context[i].used
    BY Constants
  <2>. HIDE DEF slots
  <2>. QED
    BY <2>1, DropGood
<1>2. n \in [Frames -> AnyKind \cup {"unknown"}]
  BY SessionFields DEF Good
<1>3. r \in Session /\ r.context = b.context /\ r.contexts = b.contexts
  <2>1. b \in Session
    BY <1>1 DEF Good
  <2>. HIDE DEF b, n
  <2>. QED
    BY <1>2, <2>1 DEF Session
<1>4. FrameDetached(s, e) = r
  BY DEF FrameDetached
<1>. QED
  BY <1>1, <1>3, <1>4 DEF Good

\* An operation that only touches entries of the table
LEMMA TouchedSession ==
  ASSUME NEW s, Good(s), NEW d \in [Slots -> Context], Touched(s.context, d)
  PROVE  Good([s EXCEPT !.context = d]) /\ Keeps(s.context, [s EXCEPT !.context = d].context)
<1>1. s \in Session /\ WellFormed(s.context) /\ s.contexts = Cardinality(Counted(s.context))
  BY DEF Good
<1>2. /\ [s EXCEPT !.context = d] \in Session /\ [s EXCEPT !.context = d].context = d
      /\ [s EXCEPT !.context = d].contexts = s.contexts
  BY <1>1, WithContext
<1>3. WellFormed(d) /\ Keeps(s.context, d) /\ Counted(d) = Counted(s.context)
  BY <1>1, TouchedGood
<1>. QED
  BY <1>1, <1>2, <1>3 DEF Good

LEMMA PageMessageGood ==
  ASSUME NEW s, Good(s), NEW e \in Event
  PROVE  Good(PageMessage(s, e)) /\ Keeps(s.context, PageMessage(s, e).context)
<1> DEFINE Heard(c) ==
            CASE e.note = "ready" ->
                    [c EXCEPT !.ready = TRUE,
                              !.queued = @ \cup (IF c.bundled \/ c.token["bundle"] # 0 THEN {} ELSE {"bundle"})]
              [] e.note = "boot-request" ->
                    [c EXCEPT !.queued = @ \cup (IF c.bootstrapped THEN {} ELSE {"bootstrap"})]
              [] e.note = "disabled" -> [c EXCEPT !.disabled = TRUE, !.queued = @ \ {"bundle"}]
              [] OTHER -> c
           d == [i \in Slots |-> IF i \in SlotOf(s, e.id) THEN Heard(s.context[i]) ELSE s.context[i]]
<1>1. ASSUME NEW c \in Context
      PROVE  /\ Heard(c) \in Context /\ Heard(c).used = c.used /\ Heard(c).id = c.id
             /\ Heard(c).token = c.token /\ Heard(c).generation = c.generation
  <2>1. CASE e.note = "ready"
    <3> DEFINE q == c.queued \cup (IF c.bundled \/ c.token["bundle"] # 0 THEN {} ELSE {"bundle"})
    <3>1. Heard(c) = [c EXCEPT !.ready = TRUE, !.queued = q]
      BY <2>1
    <3>2. q \in SUBSET TaskType
      BY DEF Context, TaskType
    <3>. HIDE DEF q, Heard
    <3>. QED
      BY <3>1, <3>2 DEF Context
  <2>2. CASE e.note = "boot-request"
    <3> DEFINE q == c.queued \cup (IF c.bootstrapped THEN {} ELSE {"bootstrap"})
    <3>1. Heard(c) = [c EXCEPT !.queued = q]
      BY <2>2
    <3>2. q \in SUBSET TaskType
      BY DEF Context, TaskType
    <3>. HIDE DEF q, Heard
    <3>. QED
      BY <3>1, <3>2 DEF Context
  <2>3. CASE e.note = "disabled"
    <3> DEFINE q == c.queued \ {"bundle"}
    <3>1. Heard(c) = [c EXCEPT !.disabled = TRUE, !.queued = q]
      BY <2>3
    <3>2. q \in SUBSET TaskType
      BY DEF Context
    <3>. HIDE DEF q, Heard
    <3>. QED
      BY <3>1, <3>2 DEF Context
  <2>4. CASE e.note \notin {"ready", "boot-request", "disabled"}
    <3>1. Heard(c) = c
      BY <2>4
    <3>. QED
      BY <3>1
  <2>. QED
    BY <2>1, <2>2, <2>3, <2>4
<1>2. s.context \in [Slots -> Context]
  BY SessionFields DEF Good
<1>3. d \in [Slots -> Context] /\ Touched(s.context, d)
  <2>1. \A i \in Slots : s.context[i] \in Context
    BY <1>2
  <2>. HIDE DEF Heard
  <2>. QED
    BY <1>1, <2>1 DEF Touched
<1>4. PageMessage(s, e) = [s EXCEPT !.context = d]
  BY DEF PageMessage
<1>. HIDE DEF d
<1>. QED
  BY <1>3, <1>4, TouchedSession

LEMMA ConfigUpdatedGood ==
  ASSUME NEW s, Good(s), NEW on \in BOOLEAN
  PROVE  Good(ConfigUpdated(s, on)) /\ Keeps(s.context, ConfigUpdated(s, on).context)
<1> DEFINE q(c) == c.queued \cup (IF c.bootstrapped \/ c.token["bootstrap"] # 0 THEN {"config"} ELSE {})
                            \cup (IF on /\ c.ready /\ ~c.bundled /\ c.token["bundle"] = 0 THEN {"bundle"} ELSE {})
           n(c) == IF c.bootstrapped \/ c.token["bootstrap"] # 0 THEN 0 ELSE c.token["config"]
           Told(c) == [c EXCEPT !.disabled = FALSE, !.queued = q(c), !.token = [c.token EXCEPT !["config"] = n(c)]]
           d == [i \in Slots |-> IF s.context[i].used THEN Told(s.context[i]) ELSE s.context[i]]
           r == [s EXCEPT !.context = d]
<1>1. ASSUME NEW c \in Context
      PROVE  /\ Told(c) \in Context /\ Told(c).used = c.used /\ Told(c).id = c.id
             /\ \A t \in TaskType : Told(c).token[t] # 0 => Told(c).token[t] = c.token[t]
             /\ Told(c).generation = c.generation
  <2> DEFINE k == [c.token EXCEPT !["config"] = n(c)]
  <2>1. c.token \in [TaskType -> Numbers] /\ c.queued \in SUBSET TaskType
    BY DEF Context
  <2>2. q(c) \in SUBSET TaskType /\ n(c) \in Numbers /\ n(c) \in {0, c.token["config"]}
    BY <2>1, Constants DEF TaskType
  <2>. HIDE DEF q, n
  <2>3. k \in [TaskType -> Numbers] /\ \A t \in TaskType : k[t] # 0 => k[t] = c.token[t]
    BY <2>1, <2>2 DEF TaskType
  <2>4. Told(c) = [c EXCEPT !.disabled = FALSE, !.queued = q(c), !.token = k]
    OBVIOUS
  <2>. HIDE DEF k, Told
  <2>. QED
    BY <2>2, <2>3, <2>4 DEF Context
<1>2. s \in Session /\ s.context \in [Slots -> Context]
  BY SessionFields DEF Good
<1>3. d \in [Slots -> Context] /\ Touched(s.context, d)
  <2>1. \A i \in Slots : s.context[i] \in Context
    BY <1>2
  <2>. HIDE DEF Told
  <2>. QED
    BY <1>1, <2>1 DEF Touched
<1>4. ConfigUpdated(s, on) = [s EXCEPT !.enabled = on, !.context = d]
  BY DEF ConfigUpdated
<1>5. Good(r) /\ Keeps(s.context, r.context)
  <2>. HIDE DEF d
  <2>. QED
    BY <1>3, TouchedSession
<1>6. /\ ConfigUpdated(s, on) \in Session /\ ConfigUpdated(s, on).context = r.context
      /\ ConfigUpdated(s, on).contexts = r.contexts
  <2>. HIDE DEF d
  <2>. QED
    BY <1>2, <1>3, <1>4 DEF Session
<1>. QED
  BY <1>5, <1>6 DEF Good

\* cx_session_feed(): whatever event arrives, also in the middle of a task.
LEMMA FedGood ==
  ASSUME NEW s, Good(s), NEW e \in Event
  PROVE  Good(Fed(s, e)) /\ Keeps(s.context, Fed(s, e).context)
<1>1. CASE e.type = "created"
  BY <1>1, ContextCreatedGood DEF Fed
<1>2. CASE e.type = "destroyed"
  <2> DEFINE gone == SlotOf(s, e.id) \ {0}
  <2>1. gone \in SUBSET Slots /\ \A i \in gone \ {0} : s.context[i].used
    BY DEF SlotOf
  <2>2. Fed(s, e) = Drop(s, gone)
    BY <1>2 DEF Fed
  <2>. HIDE DEF gone
  <2>3. Good(Drop(s, gone)) /\ Keeps(s.context, Drop(s, gone).context)
    BY <2>1, DropGood
  <2>. QED
    BY <2>2, <2>3
<1>3. CASE e.type = "cleared"
  <2> DEFINE d == [i \in Slots |-> Unused]
             r == [s EXCEPT !.context = d, !.contexts = 0]
  <2>1. d \in [Slots -> Context] /\ WellFormed(d) /\ Keeps(s.context, d)
    BY UnusedType DEF WellFormed, Keeps, NoTokens
  <2>2. Counted(d) = {}
    BY UnusedType, Constants DEF Counted
  <2>3. r \in Session /\ r.context = d /\ r.contexts = 0
    <3>1. s \in Session
      BY DEF Good
    <3> DEFINE n == 0
    <3>2. n \in Int /\ r = [s EXCEPT !.context = d, !.contexts = n]
      OBVIOUS
    <3>. HIDE DEF d, n
    <3>3. [s EXCEPT !.context = d, !.contexts = n] \in Session
      BY <2>1, <3>1, <3>2 DEF Session
    <3>4. [s EXCEPT !.context = d, !.contexts = n].context = d
      BY <3>1 DEF Session
    <3>5. [s EXCEPT !.context = d, !.contexts = n].contexts = n
      BY <3>1 DEF Session
    <3>. QED
      BY <3>2, <3>3, <3>4, <3>5 DEF n
  <2>4. Fed(s, e) = r
    BY <1>3 DEF Fed
  <2>5. Cardinality(Counted(d)) = 0
    BY <2>2, FS_EmptySet
  <2>. HIDE DEF d, r
  <2>. QED
    BY <2>1, <2>3, <2>4, <2>5 DEF Good
<1>4. CASE e.type = "navigated"
  BY <1>4, FrameNavigatedGood DEF Fed
<1>5. CASE e.type = "detached"
  BY <1>5, FrameDetachedGood DEF Fed
<1>6. CASE e.type = "message"
  BY <1>6, PageMessageGood DEF Fed
<1>7. CASE e.type = "reply"
  <2>1. Fed(s, e) = s
    BY <1>7 DEF Fed
  <2>. QED
    BY <2>1 DEF Keeps
<1>. QED
  BY <1>1, <1>2, <1>3, <1>4, <1>5, <1>6, <1>7 DEF Event, EventType

-----------------------------------------------------------------------------
(* The other functions of session.c                                        *)

LEMMA TopEnsuredGood ==
  ASSUME NEW s, Good(s)
  PROVE  Good(TopEnsured(s)) /\ Keeps(s.context, TopEnsured(s).context)
<1> DEFINE tops == {i \in 1..MaxContexts : s.context[i].used /\ s.top \in {NoFrame, s.context[i].frame}}
           slot == IF tops = {} THEN 0 ELSE CHOOSE i \in tops : \A j \in tops : j <= i
           new  == slot = 0 /\ ~s.context[0].used
           made == [Unused EXCEPT !.used = TRUE, !.frame = s.top, !.kind = s.target]
           base == IF new THEN Reset(made, Serial(s.generation)) ELSE s.context[slot]
           told == [base EXCEPT !.queued = @ \cup {"bootstrap", "bundle"}, !.ready = TRUE]
           d    == [s.context EXCEPT ![slot] = told]
           g    == IF new THEN Serial(s.generation) ELSE s.generation
           r    == [s EXCEPT !.context = d, !.generation = g]
<1>1. /\ s \in Session /\ WellFormed(s.context) /\ s.contexts = Cardinality(Counted(s.context))
      /\ s.context \in [Slots -> Context] /\ s.generation \in Numbers /\ Serial(s.generation) \in Numbers
      /\ s.top \in Frames \cup {NoFrame} /\ s.target \in AnyKind
  BY SessionFields, Constants DEF Good
<1>2. slot \in Slots
  <2>1. tops \in SUBSET Slots
    BY Constants
  <2>2. CASE tops # {}
    <3>1. \E i \in tops : \A j \in tops : j <= i
      <4>. HIDE DEF tops
      <4>. QED
        BY <2>1, <2>2, FirstAndLast
    <3>. QED
      BY <2>1, <2>2, <3>1
  <2>. QED
    BY <2>2, Constants
<1>3. made \in Context /\ made.used /\ made.id = 0
  BY <1>1, UnusedType DEF Context, Unused
<1>4. base \in Context /\ base.used = (new \/ s.context[slot].used)
  <2>. HIDE DEF made, slot
  <2>1. CASE new
    <3>1. base = Reset(made, Serial(s.generation))
      BY <2>1
    <3>. QED
      BY <1>1, <1>3, <2>1, <3>1, ResetType
  <2>2. CASE ~new
    <3>1. base = s.context[slot] /\ base \in Context
      BY <1>1, <1>2, <2>2
    <3>2. base.used \in BOOLEAN
      BY <3>1 DEF Context
    <3>. QED
      BY <2>2, <3>1, <3>2
  <2>. QED
    BY <2>1, <2>2
<1>5. new => base.id = 0 /\ base.token = NoTokens
  <2>. HIDE DEF made, slot
  <2>. QED
    BY <1>1, <1>3, ResetType
<1>6. ~new => base = s.context[slot]
  OBVIOUS
<1>7. /\ told \in Context /\ told.used = base.used /\ told.id = base.id
      /\ told.token = base.token /\ told.generation = base.generation
  <2> DEFINE q == base.queued \cup {"bootstrap", "bundle"}
  <2>. HIDE DEF base
  <2>1. told = [base EXCEPT !.queued = q, !.ready = TRUE]
    OBVIOUS
  <2>2. q \in SUBSET TaskType
    BY <1>4 DEF Context, TaskType
  <2>. HIDE DEF q, told
  <2>. QED
    BY <1>4, <2>1, <2>2 DEF Context
<1>8. d \in [Slots -> Context] /\ d[slot] = told /\ \A i \in Slots : i # slot => d[i] = s.context[i]
  <2>. HIDE DEF told, slot
  <2>. QED
    BY <1>1, <1>2, <1>7
<1>9. WellFormed(d) /\ Keeps(s.context, d) /\ Counted(d) = Counted(s.context)
  <2>. HIDE DEF d, told, base
  <2>1. CASE new
    <3>1. slot = 0 /\ ~s.context[0].used
      BY <2>1
    <3>. HIDE DEF slot, new
    <3>2. d[0].used /\ d[0].id = 0 /\ d[0].token = NoTokens
      BY <1>4, <1>5, <1>7, <1>8, <2>1, <3>1
    <3>3. \A i \in Slots : i # 0 => d[i] = s.context[i]
      BY <1>8, <3>1
    <3>4. WellFormed(d)
      BY <1>1, <1>8, <3>2, <3>3 DEF WellFormed, NoTokens
    <3>5. Keeps(s.context, d)
      BY <3>2, <3>3 DEF Keeps, NoTokens
    <3>6. Counted(d) = Counted(s.context)
      BY <3>3, Constants DEF Counted
    <3>. QED
      BY <3>4, <3>5, <3>6
  <2>2. CASE ~new
    <3>. HIDE DEF new, slot
    <3>1. Touched(s.context, d)
      BY <1>6, <1>7, <1>8, <2>2 DEF Touched
    <3>. QED
      BY <1>1, <1>8, <3>1, TouchedGood
  <2>. QED
    BY <2>1, <2>2
<1>10. TopEnsured(s) = r
  BY DEF TopEnsured
<1>11. r \in Session /\ r.context = d /\ r.contexts = s.contexts
  <2>. g \in Numbers
    BY <1>1
  <2>. HIDE DEF d, g
  <2>. QED
    BY <1>1, <1>8 DEF Session
<1>. HIDE DEF r, d
<1>. QED
  BY <1>1, <1>9, <1>10, <1>11 DEF Good

\* cx_session_create(): a new table is empty.
LEMMA NewSessionGood ==
  ASSUME docs \in [Frames -> Document], NEW enabled \in BOOLEAN, NEW tree \in BOOLEAN, NEW k
  PROVE  Good(NewSession(enabled, tree)) /\ Backed(NewSession(enabled, tree).context, FALSE, k)
<1> DEFINE d == [i \in Slots |-> Unused]
           n == [f \in Frames |-> IF tree /\ docs[f].id # 0 THEN docs[f].kind ELSE "unknown"]
           r == NewSession(enabled, tree)
<1>1. d \in [Slots -> Context] /\ WellFormed(d) /\ Backed(d, FALSE, k)
  BY UnusedType DEF WellFormed, Backed, NoTokens
<1>2. Counted(d) = {} /\ Cardinality({}) = 0
  BY UnusedType, Constants, FS_EmptySet DEF Counted
<1>3. n \in [Frames -> AnyKind \cup {"unknown"}] /\ docs[Top].kind \in AnyKind
  BY HostSessionAssumption DEF Document
<1>4. r = [context |-> d, known |-> n, top |-> IF tree THEN Top ELSE NoFrame, target |-> docs[Top].kind,
           enabled |-> enabled, generation |-> 0, serial |-> 0, contexts |-> 0]
  BY DEF NewSession
<1>5. r \in Session /\ r.context = d /\ r.contexts = 0
  <2>. HIDE DEF d, n, r
  <2>. QED
    BY <1>1, <1>3, <1>4, Constants, HostSessionAssumption DEF Session
<1>. HIDE DEF d
<1>. QED
  BY <1>1, <1>2, <1>5 DEF Good

LEMMA ChosenOne ==
  ASSUME NEW s, NEW i \in Chosen(s), NEW j \in Chosen(s) PROVE i = j
<1>1. i \in Slots /\ j \in Slots /\ Rank(i) <= Rank(j) /\ Rank(j) <= Rank(i)
  BY DEF Chosen, Startable
<1>. QED
  BY <1>1, Constants DEF Rank, Slots

LEMMA DueType ==
  ASSUME NEW c PROVE Due(c) \in TaskType \cup {"none"} /\ (Due(c) # "none" => c.used)
<1>1. CASE ~c.used \/ ~Idle(c)
  BY <1>1 DEF Due
<1>2. CASE c.used /\ Idle(c)
  BY <1>2 DEF Due, TaskType
<1>. QED
  BY <1>1, <1>2

\* cx_session_next(): while nothing is in flight, the task it gives is all that is.
LEMMA ScannedGood ==
  ASSUME NEW s, Good(s), NEW before, Backed(s.context, FALSE, before)
  PROVE  /\ Good(Scanned(s))
         /\ Chosen(s) = {} => \A k : Backed(Scanned(s).context, FALSE, k)
         /\ \A i \in Chosen(s) : \A k :
              /\ k.type = Due(s.context[i]) /\ k.token = Serial(s.serial)
              /\ k.id = s.context[i].id /\ k.generation = s.context[i].generation
              => Backed(Scanned(s).context, TRUE, k)
<1> DEFINE c == s.context
           kind(i) == Due(c[i])
           Refuse(i) == [c[i] EXCEPT !.queued = @ \ {"bundle"}]
           Take(i) == [c[i] EXCEPT !.queued = @ \ {kind(i)}, !.token[kind(i)] = Serial(s.serial)]
           d == [i \in Slots |-> CASE i \in Refused(s) -> Refuse(i)
                                  [] i \in Chosen(s) -> Take(i)
                                  [] OTHER -> c[i]]
           n == IF Chosen(s) = {} THEN s.serial ELSE Serial(s.serial)
           r == [s EXCEPT !.serial = n, !.context = d]
<1>1. /\ s \in Session /\ WellFormed(c) /\ s.contexts = Cardinality(Counted(c))
      /\ c \in [Slots -> Context] /\ s.serial \in Numbers
      /\ Serial(s.serial) \in Numbers /\ Serial(s.serial) # 0
  BY SessionFields, Constants DEF Good
<1>2. \A i \in Slots, t \in TaskType : c[i].token[t] = 0
  BY DEF Backed
<1>3. ASSUME NEW i \in Refused(s)
      PROVE  /\ i \in Slots /\ i \notin Chosen(s)
             /\ Refuse(i) \in Context /\ Refuse(i).used = c[i].used /\ Refuse(i).id = c[i].id
             /\ Refuse(i).token = c[i].token
  <2>1. i \in Slots /\ \A j \in Chosen(s) : Rank(i) < Rank(j)
    BY DEF Refused
  <2>5. Rank(i) \in Int
    BY <2>1, Constants DEF Rank, Slots
  <2>2. i \notin Chosen(s)
    BY <2>1, <2>5
  <2>3. c[i] \in Context
    BY <1>1, <2>1
  <2> DEFINE q == c[i].queued \ {"bundle"}
  <2>4. q \in SUBSET TaskType /\ Refuse(i) = [c[i] EXCEPT !.queued = q]
    BY <2>3 DEF Context
  <2>. HIDE DEF q, Refuse, c
  <2>. QED
    BY <2>1, <2>2, <2>3, <2>4 DEF Context
<1>4. ASSUME NEW i \in Chosen(s)
      PROVE  /\ i \in Slots /\ kind(i) \in TaskType /\ c[i].used
             /\ Take(i) \in Context /\ Take(i).used = c[i].used /\ Take(i).id = c[i].id
             /\ Take(i).generation = c[i].generation
             /\ Take(i).token = [c[i].token EXCEPT ![kind(i)] = Serial(s.serial)]
  <2>1. i \in Slots /\ kind(i) # "none"
    BY DEF Chosen, Startable
  <2>2. kind(i) \in TaskType /\ c[i].used
    BY <2>1, DueType
  <2>3. c[i] \in Context /\ c[i].token \in [TaskType -> Numbers]
    BY <1>1, <2>1 DEF Context
  <2> DEFINE q == c[i].queued \ {kind(i)}
             k == [c[i].token EXCEPT ![kind(i)] = Serial(s.serial)]
  <2>4. q \in SUBSET TaskType /\ k \in [TaskType -> Numbers]
    <3>. HIDE DEF kind, c
    <3>. QED
      BY <1>1, <2>2, <2>3 DEF Context
  <2>5. Take(i) = [c[i] EXCEPT !.queued = q, !.token = k]
    OBVIOUS
  <2>6. /\ Take(i) \in Context /\ Take(i).used = c[i].used /\ Take(i).id = c[i].id
        /\ Take(i).generation = c[i].generation /\ Take(i).token = k
    <3>. HIDE DEF q, k, Take, kind, c
    <3>. QED
      BY <2>3, <2>4, <2>5 DEF Context
  <2>. QED
    BY <2>1, <2>2, <2>6
<1>5. /\ \A i \in Refused(s) : d[i] = Refuse(i)
      /\ \A i \in Chosen(s) : d[i] = Take(i)
      /\ \A i \in Slots : i \notin Refused(s) /\ i \notin Chosen(s) => d[i] = c[i]
  <2>. HIDE DEF Take, Refuse, c
  <2>. QED
    BY <1>3, <1>4
<1>6. d \in [Slots -> Context] /\ \A i \in Slots : d[i].used = c[i].used /\ d[i].id = c[i].id
  <2>1. \A i \in Slots : d[i] \in Context /\ d[i].used = c[i].used /\ d[i].id = c[i].id
    <3>. HIDE DEF Take, Refuse, c, d
    <3>. QED
      BY ZenonT(60), <1>1, <1>3, <1>4, <1>5
  <2>. QED
    BY <2>1
<1>7. ASSUME NEW i \in Slots, NEW t \in TaskType, d[i].token[t] # 0
      PROVE  /\ i \in Chosen(s) /\ d[i].used /\ t = kind(i) /\ d[i].token[t] = Serial(s.serial)
             /\ d[i].generation = c[i].generation
  <2>1. i \in Chosen(s)
    <3>. HIDE DEF Take, Refuse, c, d
    <3>. QED
      BY <1>2, <1>3, <1>5, <1>7
  <2>2. c[i].token \in [TaskType -> Numbers] /\ c[i].token[t] = 0
    BY <1>1, <1>2 DEF Context
  <2>. HIDE DEF Take, c, d, kind
  <2>3. d[i] = Take(i) /\ d[i].token = [c[i].token EXCEPT ![kind(i)] = Serial(s.serial)]
    BY <1>4, <1>5, <2>1
  <2>4. d[i].token[t] = IF t = kind(i) THEN Serial(s.serial) ELSE 0
    BY <1>4, <2>1, <2>2, <2>3
  <2>. QED
    BY <1>4, <1>7, <2>1, <2>3, <2>4
<1>8. WellFormed(d) /\ Counted(d) = Counted(c)
  <2>1. \A i \in Slots, t \in TaskType : ~d[i].used => d[i].token[t] = 0
    BY <1>7
  <2>. HIDE DEF d, c
  <2>2. WellFormed(d)
    BY <1>1, <1>6, <2>1 DEF WellFormed
  <2>3. Counted(d) = Counted(c)
    BY <1>6, Constants DEF Counted
  <2>. QED
    BY <2>2, <2>3
<1>9. Scanned(s) = r
  BY DEF Scanned
<1>10. r \in Session /\ r.context = d /\ r.contexts = s.contexts
  <2>. n \in Numbers
    BY <1>1
  <2>. HIDE DEF d, n
  <2>. QED
    BY <1>1, <1>6 DEF Session
<1>11. Good(Scanned(s)) /\ Scanned(s).context = d
  <2>. HIDE DEF d, r, c
  <2>. QED
    BY <1>1, <1>8, <1>9, <1>10 DEF Good, c
<1>12. ASSUME Chosen(s) = {}, NEW k PROVE Backed(d, FALSE, k)
  <2>. HIDE DEF d
  <2>. QED
    BY <1>7, <1>12 DEF Backed
<1>13. ASSUME NEW i \in Chosen(s), NEW k,
              k.type = Due(s.context[i]), k.token = Serial(s.serial),
              k.id = s.context[i].id, k.generation = s.context[i].generation
       PROVE  Backed(d, TRUE, k)
  <2>1. ASSUME NEW j \in Slots, NEW t \in TaskType, d[j].token[t] # 0
        PROVE  /\ d[j].used /\ k.type = t /\ k.token = d[j].token[t]
               /\ k.id = d[j].id /\ k.generation = d[j].generation
    <3>. HIDE DEF d
    <3>1. j \in Chosen(s) /\ d[j].used /\ t = kind(j) /\ d[j].token[t] = Serial(s.serial)
          /\ d[j].generation = c[j].generation
      BY <1>7, <2>1
    <3>2. i = j
      BY <3>1, ChosenOne
    <3>. QED
      BY <1>6, <1>13, <3>1, <3>2
  <2>. HIDE DEF d
  <2>. QED
    BY <2>1 DEF Backed
<1>. HIDE DEF d
<1>. QED
  BY <1>11, <1>12, <1>13

\* cx_session_complete(): a task that is not active has left nothing in flight,
\* an active one is taken out of flight.
LEMMA InactiveLeft ==
  ASSUME NEW s, NEW t, Backed(s.context, TRUE, t), ~Active(s, t), NEW k
  PROVE  Backed(s.context, FALSE, k)
  BY DEF Backed, Active, SlotOf

LEMMA CompletedGood ==
  ASSUME NEW s, Good(s), NEW t, t.type \in TaskType, NEW ok \in BOOLEAN, NEW k,
         Backed(s.context, TRUE, t)
  PROVE  Good(Completed(s, t, ok)) /\ Backed(Completed(s, t, ok).context, FALSE, k)
<1> DEFINE Credited(c) == CASE t.type = "bootstrap" -> [c EXCEPT !.token["bootstrap"] = 0, !.bootstrapped = @ \/ ok]
                            [] t.type = "bundle" -> [c EXCEPT !.token["bundle"] = 0, !.bundled = @ \/ ok,
                                                              !.queued = IF ok THEN @ \ {"bundle"} ELSE @]
                            [] t.type = "config" -> [c EXCEPT !.token["config"] = 0]
           d == [i \in Slots |-> IF i \in SlotOf(s, t.id) THEN Credited(s.context[i]) ELSE s.context[i]]
<1>1. ASSUME NEW c \in Context
      PROVE  /\ Credited(c) \in Context /\ Credited(c).used = c.used /\ Credited(c).id = c.id
             /\ Credited(c).generation = c.generation
             /\ Credited(c).token = [c.token EXCEPT ![t.type] = 0]
  <2> DEFINE n == [c.token EXCEPT ![t.type] = 0]
  <2>1. n \in [TaskType -> Numbers]
    BY Constants DEF Context
  <2>2. CASE t.type = "bootstrap"
    <3> DEFINE b == c.bootstrapped \/ ok
    <3>1. Credited(c) = [c EXCEPT !.token = n, !.bootstrapped = b]
      BY <2>2
    <3>2. b \in BOOLEAN
      OBVIOUS
    <3>. HIDE DEF b, n, Credited
    <3>. QED
      BY <2>1, <3>1, <3>2 DEF Context, n
  <2>3. CASE t.type = "bundle"
    <3> DEFINE b == c.bundled \/ ok
               q == IF ok THEN c.queued \ {"bundle"} ELSE c.queued
    <3>1. Credited(c) = [c EXCEPT !.token = n, !.bundled = b, !.queued = q]
      BY <2>3
    <3>2. b \in BOOLEAN /\ q \in SUBSET TaskType
      BY DEF Context
    <3>. HIDE DEF b, n, q, Credited
    <3>. QED
      BY <2>1, <3>1, <3>2 DEF Context, n
  <2>4. CASE t.type = "config"
    <3>1. Credited(c) = [c EXCEPT !.token = n]
      BY <2>4
    <3>. HIDE DEF n, Credited
    <3>. QED
      BY <2>1, <3>1 DEF Context, n
  <2>. QED
    BY <2>2, <2>3, <2>4 DEF TaskType
<1>2. s.context \in [Slots -> Context]
  BY SessionFields DEF Good
<1>3. ASSUME NEW i \in Slots
      PROVE  /\ d[i] \in Context /\ d[i].used = s.context[i].used /\ d[i].id = s.context[i].id
             /\ d[i].generation = s.context[i].generation
             /\ \A u \in TaskType : d[i].token[u] # 0 => d[i].token[u] = s.context[i].token[u]
             /\ i \in SlotOf(s, t.id) => d[i].token[t.type] = 0
  <2>1. s.context[i] \in Context /\ s.context[i].token \in [TaskType -> Numbers]
    BY <1>2 DEF Context
  <2>. HIDE DEF Credited
  <2>2. CASE i \in SlotOf(s, t.id)
    <3>1. d[i] = Credited(s.context[i])
      BY <2>2
    <3>. HIDE DEF d
    <3>2. /\ d[i] \in Context /\ d[i].used = s.context[i].used /\ d[i].id = s.context[i].id
          /\ d[i].generation = s.context[i].generation
          /\ d[i].token = [s.context[i].token EXCEPT ![t.type] = 0]
      BY <1>1, <2>1, <3>1
    <3>3. d[i].token[t.type] = 0 /\ \A u \in TaskType : u # t.type => d[i].token[u] = s.context[i].token[u]
      <4> DEFINE k1 == s.context[i].token
                 k2 == d[i].token
      <4>1. k1 \in [TaskType -> Numbers] /\ k2 = [k1 EXCEPT ![t.type] = 0]
        BY <2>1, <3>2
      <4>. HIDE DEF k1, k2
      <4>2. k2[t.type] = 0 /\ \A u \in TaskType : u # t.type => k2[u] = k1[u]
        BY <4>1
      <4>. QED
        BY <4>2 DEF k1, k2
    <3>. QED
      BY <3>2, <3>3
  <2>3. CASE i \notin SlotOf(s, t.id)
    <3>1. d[i] = s.context[i]
      BY <2>3
    <3>. HIDE DEF d
    <3>. QED
      BY <2>1, <2>3, <3>1
  <2>. QED
    BY <2>2, <2>3
<1>4. d \in [Slots -> Context] /\ Touched(s.context, d)
  <2>1. \A i \in Slots : d[i] \in Context
    BY <1>3
  <2>2. d \in [Slots -> Context]
    BY <2>1
  <2>. HIDE DEF d
  <2>3. Touched(s.context, d)
    BY <1>3 DEF Touched
  <2>. QED
    BY <2>2, <2>3
<1>5. Completed(s, t, ok) = [s EXCEPT !.context = d]
  BY DEF Completed
<1>. HIDE DEF d
<1>6. Good([s EXCEPT !.context = d])
  BY <1>4, TouchedSession
<1>7. [s EXCEPT !.context = d].context = d
  BY <1>4, WithContext DEF Good
<1>8. Backed(d, FALSE, k)
  <2>1. ASSUME NEW i \in Slots, NEW u \in TaskType, d[i].token[u] # 0 PROVE FALSE
    <3>1. s.context[i].token[u] # 0
      BY <1>3, <2>1
    <3>2. s.context[i].used /\ u = t.type /\ s.context[i].id = t.id
      BY <3>1 DEF Backed
    <3>3. i \in SlotOf(s, t.id)
      BY <3>2 DEF SlotOf
    <3>. QED
      BY <1>3, <2>1, <3>2, <3>3
  <2>. QED
    BY <2>1 DEF Backed
<1>. QED
  BY <1>5, <1>6, <1>7, <1>8

-----------------------------------------------------------------------------
(* Types of what the browser and the host send                             *)

LEMMA Listing ==
  ASSUME NEW frames \in SUBSET Frames
  PROVE  /\ Cardinality(frames) \in Nat
         /\ Listed(frames) \in [1..Cardinality(frames) -> frames]
<1>1. IsFiniteSet(frames)
  BY HostSessionAssumption, FS_Subset
<1>2. Cardinality(frames) \in Nat /\ ExistsBijection(1..Cardinality(frames), frames)
  BY <1>1, FS_CardinalityType
<1>3. \E q \in [1..Cardinality(frames) -> frames] : \A f \in frames : \E i \in DOMAIN q : q[i] = f
  BY <1>2 DEF ExistsBijection, Bijection, Surjection
<1>. QED
  BY <1>2, <1>3 DEF Listed

LEMMA MessageType ==
  ASSUME docs \in [Frames -> Document],
         NEW type \in EventType, NEW f \in Frames, NEW id \in Nat,
         NEW note \in {"", "ready", "boot-request", "disabled", "ok", "failed"},
         type = "created" => id \in Ids
  PROVE  Message(type, f, id, note) \in Event
<1>1. docs[f].kind \in AnyKind
  BY DEF Document
<1>. QED
  BY <1>1 DEF Message, Event

LEMMA DocumentId ==
  ASSUME docs \in [Frames -> Document], NEW f \in Frames
  PROVE  docs[f].id \in Nat /\ (docs[f].id # 0 => docs[f].id \in Ids)
<1>1. docs[f].id \in Ids \cup {0}
  BY DEF Document
<1>2. Ids \subseteq Nat
  BY HostSessionAssumption
<1>3. ASSUME NEW n \in Ids \cup {0} PROVE n \in Nat /\ (n # 0 => n \in Ids)
  BY <1>2
<1>. QED
  BY <1>1, <1>3

LEMMA EachType ==
  ASSUME docs \in [Frames -> Document], NEW type \in EventType, NEW frames \in SUBSET Frames
  PROVE  Each(type, Live(frames)) \in Seq(Event)
<1> DEFINE live == Live(frames)
           n    == Cardinality(live)
           q    == Listed(live)
           m(i) == Message(type, q[i], docs[q[i]].id, "")
<1>1. live \in SUBSET Frames /\ \A f \in live : docs[f].id # 0
  BY DEF Live
<1>. HIDE DEF live
<1>2. n \in Nat /\ q \in [1..n -> live]
  BY <1>1, Listing
<1>. HIDE DEF n, q
<1>3. ASSUME NEW i \in 1..n PROVE m(i) \in Event
  <2>1. q[i] \in Frames /\ docs[q[i]].id # 0
    BY <1>1, <1>2
  <2>2. docs[q[i]].id \in Nat /\ docs[q[i]].id \in Ids
    BY <2>1, DocumentId
  <2>. QED
    BY <2>1, <2>2, MessageType
<1>4. Each(type, live) = [i \in 1..n |-> m(i)]
  BY DEF Each, n, q
<1>. HIDE DEF m
<1>5. [i \in 1..n |-> m(i)] \in [1..n -> Event]
  BY <1>3
<1>. QED
  BY <1>2, <1>4, <1>5 DEF live

LEMMA NoDocumentType == NoDocument \in Document
  BY DEF NoDocument, Document, AnyKind

LEMMA LoadingType ==
  ASSUME NEW id \in Ids, NEW kind \in Kinds PROVE Loading(id, kind) \in Document
  BY NoDocumentType, HostSessionAssumption DEF Loading, Document, AnyKind

LEMMA NoTaskType == NoTask \in Task
  BY Constants DEF NoTask, Task, TaskType

LEMMA AfterScriptType ==
  ASSUME NEW d \in Document, NEW c \in Command PROVE AfterScript(d, c) \in Document
<1>1. CASE c.script \in {"settings", "notify"}
  <2>1. AfterScript(d, c) = [d EXCEPT !.settings = c.settings, !.on = c.on]
    BY <1>1 DEF AfterScript
  <2>. HIDE DEF AfterScript
  <2>. QED
    BY <2>1 DEF Document, Command
<1>2. CASE c.script = "bootstrap"
  <2> DEFINE b == d.due \/ (~d.booted /\ d.on /\ d.loading)
  <2>1. AfterScript(d, c) = [d EXCEPT !.booted = TRUE, !.due = b] /\ b \in BOOLEAN
    BY <1>2 DEF AfterScript
  <2>. HIDE DEF b
  <2>. QED
    BY <2>1 DEF Document
<1>3. CASE c.script = "bundle" /\ ~d.loaded
  <2> DEFINE n == d.runs + 1
  <2>1. AfterScript(d, c) = [d EXCEPT !.loaded = TRUE, !.runs = n] /\ n \in Nat
    BY <1>3 DEF AfterScript, Document
  <2>. HIDE DEF n, AfterScript
  <2>. QED
    BY <2>1 DEF Document
<1>4. CASE c.script = "bundle" /\ d.loaded
  BY <1>4 DEF AfterScript
<1>5. CASE c.script \notin {"settings", "notify", "bootstrap", "bundle"}
  BY <1>5 DEF AfterScript
<1>. QED
  BY <1>1, <1>2, <1>3, <1>4, <1>5

\* A bundle that throws changes only the counts of its evaluations.
LEMMA TornType ==
  ASSUME NEW d \in Document
  PROVE  /\ Torn(d) \in Document
         /\ Torn(d).runs = d.runs + 1 /\ Torn(d).thrown = d.thrown + 1
         /\ Torn(d).id = d.id /\ Torn(d).kind = d.kind /\ Torn(d).settings = d.settings
         /\ Torn(d).booted = d.booted /\ Torn(d).loaded = d.loaded
<1> DEFINE n == d.runs + 1
           m == d.thrown + 1
<1>1. Torn(d) = [d EXCEPT !.runs = n, !.thrown = m] /\ n \in Nat /\ m \in Nat
  BY DEF Torn, Document
<1>. HIDE DEF n, m, Torn
<1>2. Torn(d) \in Document
  BY <1>1 DEF Document
<1>3. Torn(d).runs = n /\ Torn(d).thrown = m
  BY <1>1 DEF Document
<1>4. /\ Torn(d).id = d.id /\ Torn(d).kind = d.kind /\ Torn(d).settings = d.settings
      /\ Torn(d).booted = d.booted /\ Torn(d).loaded = d.loaded
  BY <1>1 DEF Document
<1>. QED
  BY <1>2, <1>3, <1>4 DEF n, m

-----------------------------------------------------------------------------
(* The actions of the host                                                 *)

\* The invariant of the next state by its parts
LEMMA Primed ==
  ASSUME docs' \in [Frames -> Document], orders' \in Seq(Command), wire' \in Seq(Event),
         at' \in {"closed", "top", "read", "tasks", "task"}, task' \in Task,
         moves' \in Nat, faults' \in Nat, settings' \in [version : Nat, on : BOOLEAN],
         ensure' \in {"off", "set"}, missed' \in SUBSET Slots,
         Good(session'), Backed(session'.context, at' = "task", task'),
         at' = "task" => task'.step \in 1..Len(Steps(task'.type))
  PROVE  IInv'
<1>1. session' \in Session
  BY DEF Good
<1>2. TypeOK'
  BY <1>1 DEF TypeOK
<1>3. Good(session)' /\ Backed(session.context, at = "task", task)' /\ InStep'
  BY DEF Good, Backed, InStep
<1>. QED
  BY <1>2, <1>3 DEF IInv

\* The invariant by its parts
LEMMA Parts ==
  ASSUME IInv
  PROVE  /\ docs \in [Frames -> Document] /\ orders \in Seq(Command) /\ wire \in Seq(Event)
         /\ at \in {"closed", "top", "read", "tasks", "task"} /\ task \in Task
         /\ moves \in Nat /\ faults \in Nat /\ settings \in [version : Nat, on : BOOLEAN]
         /\ ensure \in {"off", "set"} /\ missed \in SUBSET Slots
         /\ Good(session) /\ Backed(session.context, at = "task", task)
         /\ at = "task" => task.step \in 1..Len(Steps(task.type))
  BY DEF IInv, TypeOK, InStep

\* An action that leaves the host alone
LEMMA PageStep ==
  ASSUME IInv, UNCHANGED <<session, at, task, settings, ensure, missed>>,
         docs' \in [Frames -> Document], orders' \in Seq(Command), wire' \in Seq(Event),
         moves' \in Nat, faults' \in Nat
  PROVE  IInv'
  BY Parts, Primed

LEMMA TaskFields ==
  ASSUME NEW t \in Task
  PROVE  /\ t.type \in TaskType /\ t.id \in Ids \cup {0} /\ t.step \in Nat /\ t.tries \in Nat
  BY DEF Task

LEMMA StepsType ==
  ASSUME NEW type \in TaskType
  PROVE  /\ Len(Steps(type)) \in Nat \ {0}
         /\ \A i \in 1..Len(Steps(type)) : Steps(type)[i] \in Scripts
<1>1. CASE type = "bootstrap"
  <2>1. Steps(type) = <<"settings", "bootstrap", "ask">>
    BY <1>1 DEF Steps
  <2>. QED
    BY <2>1 DEF Scripts
<1>2. CASE type = "bundle"
  <2>1. Steps(type) = <<"bundle">>
    BY <1>2 DEF Steps
  <2>. QED
    BY <2>1 DEF Scripts
<1>3. CASE type = "config"
  <2>1. Steps(type) = <<"notify">>
    BY <1>3 DEF Steps
  <2>. QED
    BY <2>1 DEF Scripts
<1>. QED
  BY <1>1, <1>2, <1>3 DEF TaskType

LEMMA OpenStep == ASSUME IInv, Open PROVE IInv'
<1>1. PICK tree \in BOOLEAN : /\ faults' = IF tree THEN faults ELSE faults + 1
                              /\ session' = NewSession(settings.on, tree)
  BY DEF Open
<1>2. docs \in [Frames -> Document] /\ settings.on \in BOOLEAN /\ faults' \in Nat
  BY <1>1, Parts
<1>3. Good(session') /\ Backed(session'.context, FALSE, task')
  BY <1>1, <1>2, NewSessionGood
<1>4. wire' \in Seq(Event)
  BY Parts, EachType DEF Open, EventType
<1>5. /\ orders' = <<>> /\ at' = "top" /\ task' = NoTask /\ missed' = {} /\ ensure' = "set"
      /\ UNCHANGED <<docs, settings, moves>>
  BY DEF Open
<1>6. Backed(session'.context, at' = "task", task')
  BY <1>3, <1>5
<1>7. orders' \in Seq(Command) /\ missed' \in SUBSET Slots /\ task' \in Task
  BY <1>5, NoTaskType
<1>. QED
  BY <1>2, <1>3, <1>4, <1>5, <1>6, <1>7, Parts, Primed

LEMMA CloseStep == ASSUME IInv, Close PROVE IInv'
<1>1. /\ orders' = <<>> /\ wire' = <<>> /\ at' = "closed" /\ task' = NoTask /\ missed' = {} /\ ensure' = "off"
      /\ session' = NewSession(settings.on, FALSE) /\ faults' = faults + 1
      /\ UNCHANGED <<docs, settings, moves>>
  BY DEF Close
<1>2. docs \in [Frames -> Document] /\ settings.on \in BOOLEAN
  BY Parts
<1>3. Good(session') /\ Backed(session'.context, FALSE, task')
  BY <1>1, <1>2, NewSessionGood
<1>4. Backed(session'.context, at' = "task", task')
  BY <1>1, <1>3
<1>5. /\ orders' \in Seq(Command) /\ wire' \in Seq(Event) /\ missed' \in SUBSET Slots /\ task' \in Task
      /\ faults' \in Nat
  BY <1>1, Parts, NoTaskType
<1>. QED
  BY <1>1, <1>3, <1>4, <1>5, Parts, Primed

LEMMA TurnStep == ASSUME IInv, Turn PROVE IInv'
<1>1. at = "top" /\ at' = "read" /\ UNCHANGED <<docs, orders, wire, task, ensure, missed, moves, faults>>
  BY DEF Turn
<1>2. Backed(session.context, FALSE, task)
  BY <1>1, Parts
<1>3. /\ settings' \in [version : Nat, on : BOOLEAN]
      /\ Good(session') /\ Backed(session'.context, FALSE, task')
  <2>1. CASE UNCHANGED <<session, settings>>
    BY <1>1, <1>2, <2>1, Parts
  <2>2. ASSUME NEW on \in BOOLEAN, settings' = [version |-> settings.version + 1, on |-> on],
               session' = ConfigUpdated(session, on)
        PROVE  /\ settings' \in [version : Nat, on : BOOLEAN]
               /\ Good(session') /\ Backed(session'.context, FALSE, task')
    <3>1. Good(session') /\ Keeps(session.context, session'.context)
      BY <2>2, Parts, ConfigUpdatedGood
    <3>2. Backed(session'.context, FALSE, task')
      BY <1>1, <1>2, <3>1, KeepsBacked
    <3>3. settings' \in [version : Nat, on : BOOLEAN]
      BY <2>2, Parts
    <3>. QED
      BY <3>1, <3>2, <3>3
  <2>. QED
    BY <2>1, <2>2 DEF Turn
<1>. QED
  BY <1>1, <1>3, Parts, Primed

\* An event that is dispatched, in the reading of events or under a task
LEMMA Dispatched ==
  ASSUME IInv, wire # <<>>, Dispatch, UNCHANGED <<docs, orders, at, task, settings, moves, faults>>
  PROVE  IInv'
<1>1. Head(wire) \in Event /\ Tail(wire) \in Seq(Event)
  BY Parts
<1>2. wire' = Tail(wire) /\ session' = Fed(session, Head(wire)) /\ ensure' \in {"off", "set"} /\ missed' \in SUBSET Slots
  BY Parts DEF Dispatch
<1>3. Good(session') /\ Keeps(session.context, session'.context)
  BY <1>1, <1>2, Parts, FedGood
<1>4. Backed(session'.context, at' = "task", task')
  BY <1>3, Parts, KeepsBacked
<1>. QED
  BY <1>1, <1>2, <1>3, <1>4, Parts, Primed

LEMMA EnsureStep == ASSUME IInv, Ensure PROVE IInv'
<1>1. /\ at = "read" /\ at' = "tasks" /\ ensure' = "off" /\ session' = TopEnsured(session)
      /\ UNCHANGED <<docs, orders, wire, task, settings, missed, moves, faults>>
  BY DEF Ensure
<1>2. Good(session') /\ Keeps(session.context, session'.context)
  BY <1>1, Parts, TopEnsuredGood
<1>3. Backed(session'.context, FALSE, task')
  BY <1>1, <1>2, Parts, KeepsBacked
<1>. QED
  BY <1>1, <1>2, <1>3, Parts, Primed

LEMMA NextTaskStep == ASSUME IInv, NextTask PROVE IInv'
<1>1. /\ at = "tasks" /\ session' = Scanned(session)
      /\ UNCHANGED <<docs, orders, wire, settings, ensure, missed, moves, faults>>
  BY DEF NextTask
<1>2. Backed(session.context, FALSE, task)
  BY <1>1, Parts
<1>3. CASE Chosen(session) = {} /\ at' = "top" /\ UNCHANGED task
  <2>1. Good(session') /\ Backed(session'.context, FALSE, task')
    BY <1>1, <1>2, <1>3, Parts, ScannedGood
  <2>. QED
    BY <1>1, <1>3, <2>1, Parts, Primed
<1>4. ASSUME NEW i \in Chosen(session), at' = "task",
             task' = [NoTask EXCEPT !.type = Due(session.context[i]), !.id = session.context[i].id,
                                    !.generation = session.context[i].generation,
                                    !.token = Serial(session.serial), !.step = 1, !.tries = Tries]
      PROVE  IInv'
  <2>1. session \in Session /\ i \in Slots /\ Due(session.context[i]) # "none"
    BY Parts DEF Good, Chosen, Startable
  <2>2. Due(session.context[i]) \in TaskType
    BY <2>1, DueType
  <2>3. session.context[i] \in Context /\ Serial(session.serial) \in Numbers
    BY <2>1, SessionFields, Constants
  <2>4. session.context[i].id \in Ids \cup {0} /\ session.context[i].generation \in Numbers
    BY <2>3 DEF Context
  <2>5. /\ task' \in Task /\ task'.type = Due(session.context[i]) /\ task'.token = Serial(session.serial)
        /\ task'.id = session.context[i].id /\ task'.generation = session.context[i].generation
        /\ task'.step = 1
    <3> DEFINE type == Due(session.context[i])
               id   == session.context[i].id
               g    == session.context[i].generation
               n    == Serial(session.serial)
    <3>1. type \in TaskType /\ id \in Ids \cup {0} /\ g \in Numbers /\ n \in Numbers /\ Tries \in Nat
      BY <2>2, <2>3, <2>4, HostSessionAssumption
    <3>2. task' = [NoTask EXCEPT !.type = type, !.id = id, !.generation = g, !.token = n, !.step = 1, !.tries = Tries]
      BY <1>4
    <3>. HIDE DEF type, id, g, n
    <3>3. /\ task' \in Task /\ task'.type = type /\ task'.token = n /\ task'.id = id
          /\ task'.generation = g /\ task'.step = 1
      BY <3>1, <3>2 DEF NoTask, Task
    <3>. QED
      BY <3>3 DEF type, id, g, n
  <2>6. Good(session') /\ Backed(session'.context, TRUE, task')
    BY <1>1, <1>2, <2>5, Parts, ScannedGood
  <2>7. 1 \in 1..Len(Steps(task'.type))
    BY <2>2, <2>5, StepsType
  <2>. QED
    BY <1>1, <1>4, <2>5, <2>6, <2>7, Parts, Primed
<1>. QED
  BY <1>3, <1>4 DEF NextTask

\* The end of a task
LEMMA Finished ==
  ASSUME IInv, at = "task", NEW ok \in BOOLEAN, Finish(ok),
         docs' = docs, orders' = orders, wire' \in Seq(Event), settings' = settings,
         ensure' = ensure, moves' = moves, faults' \in Nat
  PROVE  IInv'
<1>1. Backed(session.context, TRUE, task) /\ task.type \in TaskType
  BY Parts, TaskFields
<1>2. Good(session') /\ Backed(session'.context, FALSE, task')
  <2>1. CASE Active(session, task)
    <3>1. session' = Completed(session, task, ok)
      BY <2>1 DEF Finish
    <3>. QED
      BY <1>1, <3>1, Parts, CompletedGood
  <2>2. CASE ~Active(session, task)
    <3>1. session' = session
      BY <2>2 DEF Finish
    <3>. QED
      BY <1>1, <2>2, <3>1, Parts, InactiveLeft
  <2>. QED
    BY <2>1, <2>2
<1>3. at' = "tasks" /\ task' = NoTask
  BY DEF Finish
<1>4. missed' \in SUBSET Slots
  BY Parts DEF Finish, SlotOf
<1>. QED
  BY <1>2, <1>3, <1>4, Parts, Primed, NoTaskType

\* A task that goes on: another attempt or the next step
LEMMA GoesOn ==
  ASSUME IInv, at = "task", NEW n \in Nat, NEW m \in Nat, NEW w \in Nat,
         n \in 1..Len(Steps(task.type)),
         task' = [task EXCEPT !.step = n, !.tries = m, !.waits = w],
         UNCHANGED <<docs, session, at, settings, ensure, missed, moves>>,
         orders' \in Seq(Command), wire' \in Seq(Event), faults' \in Nat
  PROVE  IInv'
<1>1. task \in Task /\ Backed(session.context, TRUE, task)
  BY Parts
<1>2. /\ task' \in Task /\ task'.type = task.type /\ task'.token = task.token /\ task'.id = task.id
      /\ task'.generation = task.generation /\ task'.step = n
  BY <1>1 DEF Task
<1>3. Backed(session'.context, TRUE, task')
  BY <1>1, <1>2 DEF Backed
<1>. QED
  BY <1>2, <1>3, Parts, Primed

LEMMA SendStep == ASSUME IInv, Send PROVE IInv'
<1>1. PICK n \in Fresh :
          /\ orders' = Append(orders, [number |-> n, id |-> task.id, script |-> Script,
                                       settings |-> settings.version, on |-> settings.on])
          /\ task' = [task EXCEPT !.waits = n]
  BY DEF Send
<1>2. n \in Nat
  BY DEF Fresh
<1>3. at = "task" /\ UNCHANGED <<docs, wire, session, at, settings, ensure, missed, moves, faults>>
  BY DEF Send
<1>4. task \in Task /\ task.step \in 1..Len(Steps(task.type)) /\ Script \in Scripts
  <2>1. task \in Task /\ task.step \in 1..Len(Steps(task.type)) /\ task.type \in TaskType
    BY <1>3, Parts, TaskFields
  <2>. QED
    BY <2>1, StepsType DEF Script
<1>5. orders' \in Seq(Command)
  <2> DEFINE c == [number |-> n, id |-> task.id, script |-> Script,
                   settings |-> settings.version, on |-> settings.on]
  <2>1. c \in Command
    BY <1>2, <1>4, Parts, TaskFields DEF Command
  <2>. HIDE DEF c
  <2>2. orders' = Append(orders, c)
    BY <1>1 DEF c
  <2>. QED
    BY <2>1, <2>2, Parts
<1>6. task' = [task EXCEPT !.step = task.step, !.tries = task.tries, !.waits = n]
  BY <1>1, <1>4 DEF Task
<1>. QED
  BY <1>2, <1>3, <1>4, <1>5, <1>6, Parts, TaskFields, GoesOn

LEMMA FailedStep ==
  ASSUME IInv, at = "task", Failed,
         UNCHANGED <<docs, orders, settings, ensure, moves>>, wire' \in Seq(Event), faults' \in Nat
  PROVE  IInv'
<1>1. CASE Script \in Injected /\ task.tries > 1
  <2>1. task' = [task EXCEPT !.tries = task.tries - 1, !.waits = 0] /\ UNCHANGED <<session, at, missed>>
    BY <1>1 DEF Failed
  <2>2. /\ task \in Task /\ task.step \in 1..Len(Steps(task.type)) /\ task.step \in Nat
        /\ task.tries \in Nat /\ task.tries - 1 \in Nat
    BY <1>1, Parts, TaskFields
  <2>3. task' = [task EXCEPT !.step = task.step, !.tries = task.tries - 1, !.waits = 0]
    BY <2>1, <2>2 DEF Task
  <2>4. orders' \in Seq(Command)
    BY Parts
  <2>. QED
    BY <2>1, <2>2, <2>3, <2>4, GoesOn
<1>2. CASE ~(Script \in Injected /\ task.tries > 1)
  <2>1. Finish(FALSE)
    BY <1>2 DEF Failed
  <2>. QED
    BY <2>1, Finished
<1>. QED
  BY <1>1, <1>2

LEMMA SteppedStep ==
  ASSUME IInv, at = "task", Stepped,
         UNCHANGED <<docs, orders, settings, ensure, moves, faults>>, wire' \in Seq(Event)
  PROVE  IInv'
<1>1. CASE task.step < Len(Steps(task.type))
  <2>1. task' = [task EXCEPT !.step = task.step + 1, !.tries = Tries, !.waits = 0] /\ UNCHANGED <<session, at, missed>>
    BY <1>1 DEF Stepped
  <2>2. task \in Task /\ task.step \in 1..Len(Steps(task.type)) /\ Len(Steps(task.type)) \in Nat
    BY Parts, TaskFields, StepsType
  <2>3. task.step + 1 \in 1..Len(Steps(task.type)) /\ task.step + 1 \in Nat /\ Tries \in Nat
    BY <1>1, <2>2, HostSessionAssumption
  <2>4. orders' \in Seq(Command) /\ faults' \in Nat
    BY Parts
  <2>. QED
    BY <2>1, <2>3, <2>4, GoesOn
<1>2. CASE ~(task.step < Len(Steps(task.type)))
  <2>1. Finish(TRUE) /\ faults' \in Nat
    BY <1>2, Parts DEF Stepped
  <2>. QED
    BY <2>1, Finished
<1>. QED
  BY <1>1, <1>2

LEMMA AbandonStep == ASSUME IInv, Abandon PROVE IInv'
<1>1. at = "task" /\ Finish(FALSE) /\ UNCHANGED <<docs, orders, wire, settings, ensure, moves, faults>>
  BY DEF Abandon
<1>2. wire' \in Seq(Event) /\ faults' \in Nat
  BY <1>1, Parts
<1>. QED
  BY <1>1, <1>2, Finished

LEMMA WaitStep == ASSUME IInv, Wait PROVE IInv'
<1>1. at = "task" /\ wire # <<>> /\ UNCHANGED <<docs, orders, settings, moves, faults>>
  BY DEF Wait
<1>2. Tail(wire) \in Seq(Event) /\ faults' \in Nat /\ orders' \in Seq(Command)
  BY <1>1, Parts
<1>3. CASE Head(wire).type = "reply"
  <2>1. wire' = Tail(wire) /\ UNCHANGED ensure
    BY <1>3 DEF Wait
  <2>2. CASE Head(wire).id # task.waits
    <3>1. UNCHANGED <<session, at, task, missed>>
      BY <1>3, <2>2 DEF Wait
    <3>. QED
      BY <1>1, <1>2, <2>1, <3>1, Parts, PageStep
  <2>3. CASE Head(wire).id = task.waits /\ Head(wire).note = "ok"
    <3>1. Stepped
      BY <1>3, <2>3 DEF Wait
    <3>. QED
      BY <1>1, <1>2, <2>1, <3>1, SteppedStep
  <2>4. CASE Head(wire).id = task.waits /\ Head(wire).note # "ok"
    <3>1. Failed
      BY <1>3, <2>4 DEF Wait
    <3>. QED
      BY <1>1, <1>2, <2>1, <3>1, FailedStep
  <2>. QED
    BY <2>2, <2>3, <2>4
<1>4. CASE Head(wire).type # "reply"
  <2>1. Dispatch /\ UNCHANGED <<at, task>>
    BY <1>4 DEF Wait
  <2>. QED
    BY <1>1, <2>1, Dispatched
<1>. QED
  BY <1>3, <1>4

LEMMA TimeoutStep == ASSUME IInv, Timeout PROVE IInv'
<1>1. at = "task" /\ Failed /\ faults' = faults + 1 /\ UNCHANGED <<docs, orders, wire, settings, ensure, moves>>
  BY DEF Timeout
<1>2. wire' \in Seq(Event) /\ faults' \in Nat
  BY <1>1, Parts
<1>. QED
  BY <1>1, <1>2, FailedStep

-----------------------------------------------------------------------------
(* The actions of the browser                                              *)

LEMMA NavigateStep == ASSUME IInv, NEW f \in Frames, Navigate(f) PROVE IInv'
<1> DEFINE below == Live(Below[f] \ {f})
<1>1. /\ moves' = moves + 1 /\ UNCHANGED <<orders, session, at, task, settings, ensure, missed, faults>>
  BY DEF Navigate
<1>2. PICK id \in Ids \ (IF Reused THEN {docs[g].id : g \in Live(Frames \ Below[f])} ELSE Remembered),
           kind \in Kinds, swap \in BOOLEAN, early \in BOOLEAN, asks \in BOOLEAN :
         LET gone    == Each("destroyed", Live({f}))
             moved   == [Message("navigated", f, 0, "") EXCEPT !.kind = kind]
             created == [Message("created", f, id, "") EXCEPT !.kind = kind]
             request == IF asks THEN <<[Message("message", f, id, "boot-request") EXCEPT !.kind = kind]>> ELSE <<>>
         IN /\ swap => f = Top /\ ~early
            /\ docs' = [g \in Frames |-> IF g = f THEN Loading(id, kind)
                                         ELSE IF g \in below THEN NoDocument ELSE docs[g]]
            /\ wire' = IF at = "closed" THEN wire
                       ELSE wire \o Each("detached", below)
                                 \o (IF swap THEN <<Message("cleared", f, 0, "")>> ELSE gone)
                                 \o (IF early THEN <<created, moved>> ELSE <<moved, created>>) \o request
  BY DEF Navigate
<1> DEFINE moved   == [Message("navigated", f, 0, "") EXCEPT !.kind = kind]
           created == [Message("created", f, id, "") EXCEPT !.kind = kind]
           asked   == [Message("message", f, id, "boot-request") EXCEPT !.kind = kind]
           cleared == Message("cleared", f, 0, "")
           a == Each("detached", below)
           b == IF swap THEN <<cleared>> ELSE Each("destroyed", Live({f}))
           c == IF early THEN <<created, moved>> ELSE <<moved, created>>
           d == IF asks THEN <<asked>> ELSE <<>>
<1>3. docs \in [Frames -> Document] /\ wire \in Seq(Event) /\ orders \in Seq(Command)
  BY Parts
<1>4. kind \in AnyKind /\ id \in Nat /\ Below[f] \in SUBSET Frames
  BY HostSessionAssumption DEF AnyKind
<1>5. docs' \in [Frames -> Document]
  <2>1. Loading(id, kind) \in Document /\ NoDocument \in Document
    BY LoadingType, NoDocumentType
  <2>. HIDE DEF below
  <2>. QED
    BY <1>2, <1>3, <2>1
<1>6. moved \in Event /\ created \in Event /\ asked \in Event /\ cleared \in Event
  <2>1. /\ Message("navigated", f, 0, "") \in Event /\ Message("created", f, id, "") \in Event
        /\ Message("message", f, id, "boot-request") \in Event /\ cleared \in Event
    BY <1>3, <1>4, MessageType DEF EventType
  <2>2. ASSUME NEW e \in Event PROVE [e EXCEPT !.kind = kind] \in Event
    BY <1>4 DEF Event
  <2>. QED
    BY <2>1, <2>2
<1>7. a \in Seq(Event) /\ Each("destroyed", Live({f})) \in Seq(Event)
  BY <1>3, <1>4, EachType DEF EventType
<1>8. b \in Seq(Event) /\ c \in Seq(Event) /\ d \in Seq(Event)
  <2>. HIDE DEF moved, created, asked, cleared
  <2>. QED
    BY <1>6, <1>7
<1>9. wire' = IF at = "closed" THEN wire ELSE wire \o a \o b \o c \o d
  BY <1>2
<1>10. wire' \in Seq(Event)
  <2>. HIDE DEF a, b, c, d
  <2>. QED
    BY <1>3, <1>7, <1>8, <1>9
<1>. QED
  BY <1>1, <1>3, <1>5, <1>10, Parts, PageStep

LEMMA RemoveFrameStep == ASSUME IInv, NEW f \in Frames, RemoveFrame(f) PROVE IInv'
<1> DEFINE x == Each("detached", Live(Below[f]))
<1>1. /\ moves' = moves + 1 /\ UNCHANGED <<orders, session, at, task, settings, ensure, missed, faults>>
      /\ docs' = [g \in Frames |-> IF g \in Below[f] THEN NoDocument ELSE docs[g]]
      /\ wire' = IF at = "closed" THEN wire ELSE wire \o x
  BY DEF RemoveFrame
<1>2. docs \in [Frames -> Document] /\ wire \in Seq(Event) /\ orders \in Seq(Command)
  BY Parts
<1>3. docs' \in [Frames -> Document]
  BY <1>1, <1>2, NoDocumentType
<1>4. x \in Seq(Event)
  <2>1. Below[f] \in SUBSET Frames
    BY HostSessionAssumption
  <2>. QED
    BY <1>2, <2>1, EachType DEF EventType
<1>5. wire' \in Seq(Event)
  <2>. HIDE DEF x
  <2>. QED
    BY <1>1, <1>2, <1>4
<1>6. UNCHANGED <<session, at, task, settings, ensure, missed>> /\ orders' \in Seq(Command)
  BY <1>1, <1>2
<1>7. moves' \in Nat /\ faults' \in Nat
  <2>1. moves' = moves + 1 /\ faults' = faults
    BY <1>1
  <2>. QED
    BY <2>1, Parts
<1>. QED
  BY <1>3, <1>5, <1>6, <1>7, PageStep

LEMMA NoteType ==
  ASSUME docs \in [Frames -> Document], NEW f \in Frames, NEW note \in {"ready", "disabled"}
  PROVE  Note(f, note) \in Event
  BY DocumentId, MessageType DEF Note, EventType

LEMMA LoadedStep == ASSUME IInv, NEW f \in Frames, Loaded(f) PROVE IInv'
<1>1. /\ UNCHANGED <<orders, session, at, task, settings, ensure, missed, moves, faults>>
      /\ docs' = [docs EXCEPT ![f].loading = FALSE, ![f].due = FALSE]
      /\ wire' = IF docs[f].due /\ at # "closed" THEN Append(wire, Note(f, "ready")) ELSE wire
  BY DEF Loaded
<1>2. docs \in [Frames -> Document] /\ wire \in Seq(Event) /\ orders \in Seq(Command)
  BY Parts
<1>3. docs' \in [Frames -> Document]
  <2> DEFINE new == [docs[f] EXCEPT !.loading = FALSE, !.due = FALSE]
  <2>1. docs[f] \in Document
    BY <1>2
  <2>2. new \in Document
    BY <2>1 DEF Document
  <2>3. docs' = [docs EXCEPT ![f] = new]
    BY <1>1, <1>2
  <2>. HIDE DEF new
  <2>. QED
    BY <1>2, <2>2, <2>3
<1>4. wire' \in Seq(Event)
  <2>1. Note(f, "ready") \in Event
    BY <1>2, NoteType
  <2>. QED
    BY <1>1, <1>2, <2>1
<1>. QED
  BY <1>1, <1>2, <1>3, <1>4, Parts, PageStep

LEMMA ReplyType ==
  ASSUME docs \in [Frames -> Document], NEW n \in Nat, NEW ok \in BOOLEAN
  PROVE  Reply(n, ok) \in Event
<1>1. Top \in Frames /\ "reply" \in EventType
  BY HostSessionAssumption DEF EventType
<1>2. \A note \in {"ok", "failed"} : Message("reply", Top, n, note) \in Event
  BY <1>1, MessageType
<1>. QED
  BY <1>2 DEF Reply

LEMMA ExecuteStep == ASSUME IInv, Execute PROVE IInv'
<1> DEFINE c      == Head(orders)
           target == {f \in Frames : IF c.id = 0 THEN f = Top ELSE docs[f].id = c.id}
<1>1. /\ orders # <<>> /\ orders' = Tail(orders)
      /\ UNCHANGED <<session, at, task, settings, ensure, missed, moves>>
  BY DEF Execute
<1>2. docs \in [Frames -> Document] /\ wire \in Seq(Event) /\ orders \in Seq(Command) /\ faults \in Nat
  BY Parts
<1>3. c \in Command /\ orders' \in Seq(Command)
  BY <1>1, <1>2
<1>4. c.number \in Nat
  BY <1>3 DEF Command
<1>. HIDE DEF c
<1>5. Reply(c.number, FALSE) \in Event /\ \A f \in Frames : Reply(c.number, Accepted(docs[f], c)) \in Event
  <2>1. ASSUME NEW f \in Frames PROVE Accepted(docs[f], c) \in BOOLEAN
    BY DEF Accepted
  <2>. QED
    BY <1>2, <1>4, <2>1, ReplyType
<1>6. CASE docs' \in [Frames -> Document] /\ wire' = Append(wire, Reply(c.number, FALSE)) /\ faults' \in {faults, faults + 1}
  <2>1. wire' \in Seq(Event) /\ docs' \in [Frames -> Document] /\ faults' \in Nat /\ moves' \in Nat
    <3> DEFINE m == Reply(c.number, FALSE)
    <3>1. wire' = Append(wire, m)
      BY <1>6
    <3>2. m \in Event
      BY <1>5
    <3>. HIDE DEF m
    <3>3. wire' \in Seq(Event)
      BY <1>2, <3>1, <3>2
    <3>4. docs' \in [Frames -> Document] /\ faults' \in Nat /\ moves' \in Nat
      BY <1>1, <1>2, <1>6, Parts
    <3>. QED
      BY <3>3, <3>4
  <2>. QED
    BY <1>1, <1>3, <2>1, PageStep
<1>7. ASSUME NEW f \in Frames, docs' = [docs EXCEPT ![f] = AfterScript(docs[f], c)],
             NEW says \in {<<>>} \cup {<<Note(f, n)>> : n \in Says(docs[f], c)},
             wire' = wire \o says \o <<Reply(c.number, Accepted(docs[f], c))>>, faults' = faults
      PROVE  IInv'
  <2>1. docs' \in [Frames -> Document]
    <3>1. AfterScript(docs[f], c) \in Document
      BY <1>2, <1>3, AfterScriptType
    <3>. QED
      BY <1>2, <1>7, <3>1
  <2>2. Says(docs[f], c) \subseteq {"ready", "disabled"}
    BY DEF Says
  <2>3. says \in Seq(Event)
    <3>1. ASSUME NEW n \in Says(docs[f], c) PROVE <<Note(f, n)>> \in Seq(Event)
      <4>1. Note(f, n) \in Event
        BY <1>2, <2>2, NoteType
      <4>. QED
        BY <4>1
    <3>2. CASE says = <<>>
      BY <3>2
    <3>3. CASE says \in {<<Note(f, n)>> : n \in Says(docs[f], c)}
      BY <3>1, <3>3
    <3>. QED
      BY <3>2, <3>3
  <2>4. <<Reply(c.number, Accepted(docs[f], c))>> \in Seq(Event)
    BY <1>5
  <2>5. wire' \in Seq(Event)
    BY <1>2, <1>7, <2>3, <2>4
  <2>6. faults' \in Nat /\ moves' \in Nat
    BY <1>1, <1>2, <1>7, Parts
  <2>. QED
    BY <1>1, <1>3, <2>1, <2>5, <2>6, PageStep
<1>8. \/ docs' \in [Frames -> Document] /\ wire' = Append(wire, Reply(c.number, FALSE)) /\ faults' \in {faults, faults + 1}
      \/ \E f \in Frames : \E says \in {<<>>} \cup {<<Note(f, n)>> : n \in Says(docs[f], c)} :
            /\ docs' = [docs EXCEPT ![f] = AfterScript(docs[f], c)]
            /\ wire' = wire \o says \o <<Reply(c.number, Accepted(docs[f], c))>> /\ faults' = faults
  <2>1. CASE target = {} /\ wire' = Append(wire, Reply(c.number, FALSE)) /\ UNCHANGED <<docs, faults>>
    BY <1>2, <2>1
  <2>2. CASE /\ Room /\ faults' = faults + 1 /\ wire' = Append(wire, Reply(c.number, FALSE))
             /\ \/ UNCHANGED docs
                \/ \E f \in target : docs' = [docs EXCEPT ![f] = Torn(docs[f])]
    <3>1. ASSUME NEW f \in Frames, docs' = [docs EXCEPT ![f] = Torn(docs[f])] PROVE docs' \in [Frames -> Document]
      <4>1. Torn(docs[f]) \in Document
        BY <1>2, TornType
      <4>. QED
        BY <1>2, <3>1, <4>1
    <3>. QED
      BY <1>2, <2>2, <3>1
  <2>3. ASSUME NEW f \in target, docs' = [docs EXCEPT ![f] = AfterScript(docs[f], c)],
               \E says \in {<<>>} \cup {<<Note(f, n)>> : n \in Says(docs[f], c)} :
                   /\ (says = <<>>) = (Says(docs[f], c) = {})
                   /\ wire' = wire \o says \o <<Reply(c.number, Accepted(docs[f], c))>>,
               UNCHANGED faults
        PROVE \E g \in Frames : \E says \in {<<>>} \cup {<<Note(g, n)>> : n \in Says(docs[g], c)} :
            /\ docs' = [docs EXCEPT ![g] = AfterScript(docs[g], c)]
            /\ wire' = wire \o says \o <<Reply(c.number, Accepted(docs[g], c))>> /\ faults' = faults
    <3>1. PICK says \in {<<>>} \cup {<<Note(f, n)>> : n \in Says(docs[f], c)} :
             wire' = wire \o says \o <<Reply(c.number, Accepted(docs[f], c))>>
      BY <2>3
    <3>2. f \in Frames
      OBVIOUS
    <3>. QED
      BY <2>3, <3>1, <3>2
  <2>. QED
    BY <2>1, <2>2, <2>3 DEF Execute, c
<1>. QED
  BY <1>6, <1>7, <1>8

-----------------------------------------------------------------------------
(* The invariant                                                           *)

LEMMA InitInvariant == Init => IInv
<1> SUFFICES ASSUME Init PROVE IInv
  OBVIOUS
<1>1. PICK kind \in Kinds, id \in Ids :
          docs = [f \in Frames |-> IF f = Top THEN Loading(id, kind) ELSE NoDocument]
  BY DEF Init
<1>2. docs \in [Frames -> Document]
  <2>1. Loading(id, kind) \in Document /\ NoDocument \in Document
    BY LoadingType, NoDocumentType
  <2>. QED
    BY <1>1, <2>1
<1>3. /\ orders = <<>> /\ wire = <<>> /\ settings \in [version : {1}, on : BOOLEAN]
      /\ session = NewSession(settings.on, FALSE) /\ at = "closed" /\ task = NoTask /\ ensure = "off"
      /\ missed = {} /\ moves = 0 /\ faults = 0
  BY DEF Init
<1>4. settings \in [version : Nat, on : BOOLEAN] /\ settings.on \in BOOLEAN
  BY <1>3
<1>5. Good(session) /\ Backed(session.context, FALSE, task)
  BY <1>2, <1>3, <1>4, NewSessionGood
<1>6. session \in Session
  BY <1>5 DEF Good
<1>7. orders \in Seq(Command) /\ wire \in Seq(Event) /\ missed \subseteq Slots
  BY <1>3
<1>8. TypeOK
  BY <1>2, <1>3, <1>4, <1>6, <1>7, NoTaskType DEF TypeOK
<1>9. Backed(session.context, at = "task", task) /\ InStep
  BY <1>3, <1>5 DEF InStep
<1>. QED
  BY <1>5, <1>8, <1>9 DEF IInv

LEMMA StepInvariant == IInv /\ [Next]_vars => IInv'
<1> SUFFICES ASSUME IInv, [Next]_vars PROVE IInv'
  OBVIOUS
<1>1. CASE Open
  BY <1>1, OpenStep
<1>2. CASE Turn
  BY <1>2, TurnStep
<1>3. CASE ReadEvent
  BY <1>3, Dispatched DEF ReadEvent
<1>4. CASE ReadEnd
  <2>1. /\ at = "read" /\ at' = "tasks"
        /\ UNCHANGED <<docs, orders, wire, session, task, settings, ensure, missed, moves, faults>>
    BY <1>4 DEF ReadEnd
  <2>2. Backed(session'.context, FALSE, task')
    BY <2>1, Parts
  <2>. QED
    BY <2>1, <2>2, Parts, Primed
<1>5. CASE Ensure
  BY <1>5, EnsureStep
<1>6. CASE NextTask
  BY <1>6, NextTaskStep
<1>7. CASE Send
  BY <1>7, SendStep
<1>8. CASE Abandon
  BY <1>8, AbandonStep
<1>9. CASE Wait
  BY <1>9, WaitStep
<1>10. CASE Execute
  BY <1>10, ExecuteStep
<1>11. ASSUME NEW f \in Frames, Loaded(f) PROVE IInv'
  BY <1>11, LoadedStep
<1>12. CASE Close
  BY <1>12, CloseStep
<1>13. CASE Timeout
  BY <1>13, TimeoutStep
<1>14. ASSUME NEW f \in Frames, Navigate(f) PROVE IInv'
  BY <1>14, NavigateStep
<1>15. ASSUME NEW f \in Frames, RemoveFrame(f) PROVE IInv'
  BY <1>15, RemoveFrameStep
<1>16. CASE UNCHANGED vars
  <2>1. UNCHANGED <<docs, orders, wire, session, at, task, settings, ensure, missed, moves, faults>>
    BY <1>16 DEF vars
  <2>. QED
    BY <2>1, Parts, PageStep
<1>. QED
  BY <1>1, <1>2, <1>3, <1>4, <1>5, <1>6, <1>7, <1>8, <1>9, <1>10, <1>11, <1>12, <1>13, <1>14, <1>15, <1>16
     DEF Next, Host, Page

\* The table of the session stays well formed, and a task is in flight in it
\* only while the host carries it out, from the first event to the last.
THEOREM HostSessionInvariant == Spec => []IInv
<1>1. Init => IInv
  BY InitInvariant
<1>2. IInv /\ [Next]_vars => IInv'
  BY StepInvariant
<1>. QED
  BY <1>1, <1>2, PTL DEF Spec

\* Every variable of HostSession keeps its type.
THEOREM HostSessionTypeCorrect == Spec => []TypeOK
<1>1. IInv => TypeOK
  BY DEF IInv
<1>. QED
  BY <1>1, HostSessionInvariant, PTL

\* The counter of contexts counts the table, whatever order contexts are
\* created, navigated, detached and cleared in, and no context is kept from its
\* next task by one that the host has dropped.
THEOREM HostSessionTable == Spec => []TableSound
<1>1. IInv => TableSound
  <2> SUFFICES ASSUME IInv PROVE TableSound
    OBVIOUS
  <2>1. ContextsCounted
    BY Parts DEF Good, ContextsCounted, Counted
  <2>2. TokenBacked
    BY Parts DEF Backed, TokenBacked
  <2>. QED
    BY <2>1, <2>2 DEF TableSound
<1>. QED
  BY <1>1, HostSessionInvariant, PTL

\* An execution context that both sides can name is one slot of the table: an
\* event for it can never be credited to two.
OneSlotEach == \A id \in Ids : \A i, j \in SlotOf(session, id) : i = j
THEOREM HostSessionOneSlotEach == Spec => []OneSlotEach
<1>1. IInv => OneSlotEach
  <2> SUFFICES ASSUME IInv PROVE OneSlotEach
    OBVIOUS
  <2>1. WellFormed(session.context)
    BY Parts DEF Good
  <2>. QED
    BY <2>1 DEF WellFormed, OneSlotEach, SlotOf
<1>. QED
  BY <1>1, HostSessionInvariant, PTL

\* The evaluations of the bundle in a document that began: those that threw and,
\* once the mark is set, one more.
Evaluations(d) == d.runs = d.thrown + (IF d.loaded THEN 1 ELSE 0)
BundleCounted  == \A f \in Frames : Evaluations(docs[f])

\* A document evaluates the bundle again only after an evaluation that threw, also
\* when it is sent again after a lost reply, a timeout or a reconnection
\* (h_bundle_source and h_inject_asset).
THEOREM HostSessionRunsOnce == Spec => []BundleRunsOnce
<1>1. Init => BundleCounted
  <2> SUFFICES ASSUME Init, NEW f \in Frames PROVE Evaluations(docs[f])
    BY DEF BundleCounted
  <2>1. \E kind \in Kinds, id \in Ids :
           docs = [g \in Frames |-> IF g = Top THEN Loading(id, kind) ELSE NoDocument]
    BY DEF Init
  <2>. QED
    BY <2>1 DEF Loading, NoDocument, Evaluations
<1>2. IInv /\ BundleCounted /\ [Next]_vars => BundleCounted'
  <2> SUFFICES ASSUME IInv, BundleCounted, [Next]_vars, NEW f \in Frames PROVE Evaluations(docs'[f])
    BY DEF BundleCounted
  <2>1. docs \in [Frames -> Document] /\ \A g \in Frames : Evaluations(docs[g])
    BY Parts DEF BundleCounted
  <2>2. CASE docs' = docs
    BY <2>1, <2>2
  <2>3. ASSUME NEW g \in Frames, Navigate(g) PROVE Evaluations(docs'[f])
    <3>1. \E id \in Ids, kind \in Kinds :
             docs' = [h \in Frames |-> IF h = g THEN Loading(id, kind)
                                       ELSE IF h \in Live(Below[g] \ {g}) THEN NoDocument ELSE docs[h]]
      BY <2>3 DEF Navigate
    <3>. QED
      BY <2>1, <3>1 DEF Loading, NoDocument, Evaluations
  <2>4. ASSUME NEW g \in Frames, RemoveFrame(g) PROVE Evaluations(docs'[f])
    <3>1. docs' = [h \in Frames |-> IF h \in Below[g] THEN NoDocument ELSE docs[h]]
      BY <2>4 DEF RemoveFrame
    <3>. QED
      BY <2>1, <3>1 DEF NoDocument, Evaluations
  <2>5. ASSUME NEW g \in Frames, Loaded(g) PROVE Evaluations(docs'[f])
    <3>1. docs' = [docs EXCEPT ![g].loading = FALSE, ![g].due = FALSE]
      BY <2>5 DEF Loaded
    <3>2. docs'[f].runs = docs[f].runs /\ docs'[f].thrown = docs[f].thrown /\ docs'[f].loaded = docs[f].loaded
      BY <2>1, <3>1 DEF Document
    <3>. QED
      BY <2>1, <3>2 DEF Evaluations
  <2>6. CASE Execute
    <3>1. \/ docs' = docs
          \/ \E g \in Frames : docs' = [docs EXCEPT ![g] = AfterScript(docs[g], Head(orders))]
          \/ \E g \in Frames : ~docs[g].loaded /\ docs' = [docs EXCEPT ![g] = Torn(docs[g])]
      BY <2>6 DEF Execute
    <3>2. ASSUME NEW d \in Document, NEW c, Evaluations(d) PROVE Evaluations(AfterScript(d, c))
      <4>1. d.runs \in Nat /\ d.thrown \in Nat /\ d.loaded \in BOOLEAN
        BY DEF Document
      <4>2. CASE c.script = "bundle" /\ ~d.loaded
        <5> DEFINE e == AfterScript(d, c)
        <5>1. e.runs = d.runs + 1 /\ e.thrown = d.thrown /\ e.loaded
          BY <4>2 DEF AfterScript, Document
        <5>2. d.runs = d.thrown
          BY <3>2, <4>1, <4>2 DEF Evaluations
        <5>. HIDE DEF e
        <5>3. Evaluations(e)
          BY <4>1, <5>1, <5>2 DEF Evaluations
        <5>. QED
          BY <5>3 DEF e
      <4>3. CASE ~(c.script = "bundle" /\ ~d.loaded)
        <5> DEFINE e == AfterScript(d, c)
        <5>1. e.runs = d.runs /\ e.thrown = d.thrown /\ e.loaded = d.loaded
          BY <4>3 DEF AfterScript, Document
        <5>. HIDE DEF e
        <5>2. Evaluations(e)
          BY <3>2, <5>1 DEF Evaluations
        <5>. QED
          BY <5>2 DEF e
      <4>. QED
        BY <4>2, <4>3
    <3>3. ASSUME NEW d \in Document, ~d.loaded, Evaluations(d) PROVE Evaluations(Torn(d))
      <4>1. d.runs \in Nat /\ d.thrown \in Nat
        BY DEF Document
      <4>. QED
        BY <3>3, <4>1, TornType DEF Evaluations
    <3>. QED
      BY <2>1, <3>1, <3>2, <3>3
  <2>7. CASE Open \/ Turn \/ ReadEvent \/ ReadEnd \/ Ensure \/ NextTask \/ Send \/ Abandon \/ Wait
    <3>1. docs' = docs
      BY <2>7 DEF Open, Turn, ReadEvent, ReadEnd, Ensure, NextTask, Send, Abandon, Wait
    <3>. QED
      BY <2>1, <3>1
  <2>8. CASE Close \/ Timeout \/ UNCHANGED vars
    <3>1. docs' = docs
      BY <2>8 DEF Close, Timeout, vars
    <3>. QED
      BY <2>1, <3>1
  <2>. QED
    BY <2>3, <2>4, <2>5, <2>6, <2>7, <2>8 DEF Next, Host, Page
<1>3. IInv /\ BundleCounted => BundleRunsOnce
  <2> SUFFICES ASSUME IInv, BundleCounted, NEW f \in Frames PROVE docs[f].runs <= docs[f].thrown + 1
    BY DEF BundleRunsOnce
  <2>1. docs[f] \in Document /\ Evaluations(docs[f])
    BY Parts DEF BundleCounted
  <2>2. docs[f].thrown \in Nat
    BY <2>1 DEF Document
  <2>. QED
    BY <2>1, <2>2 DEF Evaluations
<1>. QED
  BY <1>1, <1>2, <1>3, HostSessionInvariant, PTL DEF Spec

-----------------------------------------------------------------------------
(* What the host holds of a document, against the document.  Between the   *)
(* two lie the queues: what an entry of the table claims may be out of date *)
(* only while the event that takes it back is still on the wire.           *)

\* An event that ends the document id of the frame f
Ends(e, f, id) == \/ e.type = "cleared"
                  \/ e.type = "destroyed" /\ e.id = id
                  \/ e.type = "detached" /\ e.frame = f

\* An event that takes the entry i, which is c, out of the table; one that
\* takes its claims back.
Drops(e, i, c)  == IF i = 0 THEN e.type = "cleared" ELSE Ends(e, c.frame, c.id)
Place(i, c)     == IF i = 0 THEN Top ELSE c.frame
Resets(e, i, c) == Drops(e, i, c) \/ (e.type = "navigated" /\ e.frame = Place(i, c))

Dropped(w, i, c) == \E p \in DOMAIN w : Drops(w[p], i, c)
Left(w, i, c)    == \E p \in DOMAIN w : Resets(w[p], i, c)

\* An entry is of a document that its frame shows, or one that is to be dropped.
Found(i, c, dd, w) == i # 0 => c.frame \in Frames /\ (Dropped(w, i, c) \/ dd[c.frame].id = c.id)

\* The same of an entry that is still to be made.
Shown(p, dd, w)  == \/ dd[w[p].frame].id = w[p].id
                    \/ \E q \in DOMAIN w : q > p /\ Ends(w[q], w[p].frame, w[p].id)
Announced(dd, w) == \A p \in DOMAIN w : w[p].type = "created" => Shown(p, dd, w)

\* The frame f shows the settings v, and no command on its way changes that.
Aims(c, f, dd)       == IF c.id = 0 THEN f = Top ELSE dd[f].id = c.id
Settled(f, dd, o, v) == \A p \in DOMAIN o :
                           o[p].script \in {"settings", "notify"} /\ Aims(o[p], f, dd) => o[p].settings = v
Shows(f, dd, o, v)   == dd[f].settings = v /\ Settled(f, dd, o, v)

Credit(i, c, dd, w) == ~Left(w, i, c) => /\ c.bootstrapped => dd[Place(i, c)].booted
                                         /\ c.bundled => dd[Place(i, c)].loaded

\* What a script that has run has left behind
Effect(script, d, v) == /\ script \in {"settings", "notify"} => d.settings = v
                        /\ script = "bootstrap" => d.booted
                        /\ script = "bundle" => d.loaded
Now(k)       == Steps(k.type)[k.step]
Answer(e, k) == e.type = "reply" /\ e.id = k.waits
Success(w, k) == \E p \in DOMAIN w : Answer(w[p], k) /\ w[p].note = "ok"

\* What the steps of the task k have done so far
Underway(i, c, dd, w, o, v, k) ==
    c.token[k.type] # 0 /\ ~Left(w, i, c) =>
        /\ k.type = "bootstrap" /\ k.step >= 3 => dd[Place(i, c)].booted
        /\ k.type = "bootstrap" /\ k.step >= 2 => Shows(Place(i, c), dd, o, v)
        /\ k.waits # 0 /\ Success(w, k) => Effect(Now(k), dd[Place(i, c)], v)

Queued(c) == "config" \in c.queued \/ "bootstrap" \in c.queued
Busy(c)   == c.token["config"] # 0 \/ c.token["bootstrap"] # 0
Informed(i, c, dd, w, o, v) ==
    c.bootstrapped /\ ~Left(w, i, c) => Queued(c) \/ Busy(c) \/ Shows(Place(i, c), dd, o, v)

Entry(i, c, dd, w, o, v, k, told) ==
    c.used => /\ Found(i, c, dd, w) /\ Credit(i, c, dd, w)
              /\ Underway(i, c, dd, w, o, v, k)
              /\ told => Informed(i, c, dd, w, o, v)

Distinct(dd) == \A f, g \in Frames : dd[f].id # 0 /\ dd[f].id = dd[g].id => f = g

\* A command that is waited for is the last one sent, and its reply the last one due.
Last(p, o, k, v) == p = Len(o) /\ o[p].id = k.id /\ o[p].script = Now(k) /\ o[p].settings = v
Answered(w, k)   == \E q \in DOMAIN w : Answer(w[q], k)
Numbered(k, w, o, v) ==
    k.waits # 0 => /\ \A p \in DOMAIN o : o[p].number = k.waits => Last(p, o, k, v) /\ ~Answered(w, k)
                   /\ Answered(w, k) => o = <<>>

Traces(c, dd, w, o, v, k, m) ==
    /\ Distinct(dd) /\ Announced(dd, w) /\ Numbered(k, w, o, v)
    /\ \A i \in Slots : Entry(i, c[i], dd, w, o, v, k, i \notin m)

\* A page that is closed has nothing on the way and no entry; between tasks
\* there is none.
Closed == at = "closed" => wire = <<>> /\ orders = <<>> /\ \A i \in Slots : ~session.context[i].used
Rests  == at # "task" => task = NoTask

Traced == /\ Closed /\ Rests
          /\ Traces(session.context, docs, wire, orders, settings.version, task, missed)

-----------------------------------------------------------------------------
(* Queues                                                                  *)

LEMMA TailEvents ==
  ASSUME NEW S, NEW w \in Seq(S), w # <<>>
  PROVE  /\ Tail(w) \in Seq(S) /\ 1 \in DOMAIN w /\ w[1] = Head(w) /\ Head(w) \in S
         /\ \A p \in DOMAIN Tail(w) : p + 1 \in DOMAIN w /\ Tail(w)[p] = w[p + 1]
         /\ \A p \in DOMAIN w : p # 1 => p - 1 \in DOMAIN Tail(w) /\ Tail(w)[p - 1] = w[p]
  OBVIOUS

LEMMA AddedEvents ==
  ASSUME NEW S, NEW w \in Seq(S), NEW x \in Seq(S)
  PROVE  /\ w \o x \in Seq(S)
         /\ \A p \in DOMAIN w : p \in DOMAIN (w \o x) /\ (w \o x)[p] = w[p]
         /\ \A p \in DOMAIN x : /\ Len(w) + p \in DOMAIN (w \o x) /\ (w \o x)[Len(w) + p] = x[p]
                                /\ \A q \in DOMAIN w : q < Len(w) + p
         /\ \A r \in DOMAIN (w \o x) : r \in DOMAIN w \/ \E p \in DOMAIN x : r = Len(w) + p
<1>1. /\ w \o x \in Seq(S) /\ Len(w \o x) = Len(w) + Len(x) /\ Len(w) \in Nat /\ Len(x) \in Nat
      /\ DOMAIN (w \o x) = 1..Len(w) + Len(x) /\ DOMAIN w = 1..Len(w) /\ DOMAIN x = 1..Len(x)
  OBVIOUS
<1>2. \A p \in 1..Len(w) + Len(x) : (w \o x)[p] = IF p <= Len(w) THEN w[p] ELSE x[p - Len(w)]
  OBVIOUS
<1>3. ASSUME NEW r \in DOMAIN (w \o x), r \notin DOMAIN w PROVE \E p \in DOMAIN x : r = Len(w) + p
  <2>1. r - Len(w) \in DOMAIN x /\ r = Len(w) + (r - Len(w))
    BY <1>1, <1>3
  <2>. QED
    BY <2>1
<1>4. ASSUME NEW p \in DOMAIN x
      PROVE  /\ Len(w) + p \in DOMAIN (w \o x) /\ (w \o x)[Len(w) + p] = x[p]
             /\ \A q \in DOMAIN w : q < Len(w) + p
  <2>1. p \in Nat /\ p >= 1 /\ Len(w) + p \in 1..Len(w) + Len(x) /\ ~(Len(w) + p <= Len(w))
        /\ (Len(w) + p) - Len(w) = p
    BY <1>1
  <2>. QED
    BY <1>1, <1>2, <2>1
<1>5. ASSUME NEW p \in DOMAIN w PROVE p \in DOMAIN (w \o x) /\ (w \o x)[p] = w[p]
  BY <1>1, <1>2
<1>. QED
  BY <1>1, <1>3, <1>4, <1>5

LEMMA OneEvent ==
  ASSUME NEW S, NEW e \in S
  PROVE  <<e>> \in Seq(S) /\ DOMAIN <<e>> = {1} /\ <<e>>[1] = e
  OBVIOUS

LEMMA NoEvent ==
  ASSUME NEW S
  PROVE  <<>> \in Seq(S) /\ DOMAIN <<>> = {} /\ \A w \in Seq(S) : w \o <<>> = w
  OBVIOUS

\* What is in a queue that is longer
LEMMA AddedMeaning ==
  ASSUME NEW w \in Seq(Event), NEW x \in Seq(Event), NEW i, NEW c
  PROVE  /\ Left(w \o x, i, c) <=> Left(w, i, c) \/ Left(x, i, c)
         /\ Dropped(w \o x, i, c) <=> Dropped(w, i, c) \/ Dropped(x, i, c)
<1> DEFINE y == w \o x
<1>1. /\ \A p \in DOMAIN w : p \in DOMAIN y /\ y[p] = w[p]
      /\ \A p \in DOMAIN x : Len(w) + p \in DOMAIN y /\ y[Len(w) + p] = x[p]
      /\ \A r \in DOMAIN y : r \in DOMAIN w \/ \E p \in DOMAIN x : r = Len(w) + p
  BY AddedEvents
<1>. HIDE DEF y
<1>2. Left(y, i, c) <=> Left(w, i, c) \/ Left(x, i, c)
  BY <1>1 DEF Left
<1>3. Dropped(y, i, c) <=> Dropped(w, i, c) \/ Dropped(x, i, c)
  BY <1>1 DEF Dropped
<1>. QED
  BY <1>2, <1>3 DEF y

LEMMA AddedReplies ==
  ASSUME NEW w \in Seq(Event), NEW x \in Seq(Event), NEW k
  PROVE  /\ Success(w \o x, k) <=> Success(w, k) \/ Success(x, k)
         /\ Answered(w \o x, k) <=> Answered(w, k) \/ Answered(x, k)
<1> DEFINE y == w \o x
<1>1. /\ \A p \in DOMAIN w : p \in DOMAIN y /\ y[p] = w[p]
      /\ \A p \in DOMAIN x : Len(w) + p \in DOMAIN y /\ y[Len(w) + p] = x[p]
      /\ \A r \in DOMAIN y : r \in DOMAIN w \/ \E p \in DOMAIN x : r = Len(w) + p
  BY AddedEvents
<1>. HIDE DEF y
<1>2. Success(y, k) <=> Success(w, k) \/ Success(x, k)
  BY <1>1 DEF Success
<1>3. Answered(y, k) <=> Answered(w, k) \/ Answered(x, k)
  BY <1>1 DEF Answered
<1>. QED
  BY <1>2, <1>3 DEF y

\* What is in a queue whose first event has been read
LEMMA ReadMeaning ==
  ASSUME NEW w \in Seq(Event), w # <<>>, NEW i, NEW c
  PROVE  /\ Left(w, i, c) <=> Resets(Head(w), i, c) \/ Left(Tail(w), i, c)
         /\ Dropped(w, i, c) <=> Drops(Head(w), i, c) \/ Dropped(Tail(w), i, c)
<1> DEFINE y == Tail(w)
           e == Head(w)
<1>1. /\ 1 \in DOMAIN w /\ w[1] = e
      /\ \A p \in DOMAIN y : p + 1 \in DOMAIN w /\ y[p] = w[p + 1]
      /\ \A p \in DOMAIN w : p # 1 => p - 1 \in DOMAIN y /\ y[p - 1] = w[p]
  BY TailEvents
<1>. HIDE DEF y, e
<1>2. Left(w, i, c) <=> Resets(e, i, c) \/ Left(y, i, c)
  BY <1>1 DEF Left
<1>3. Dropped(w, i, c) <=> Drops(e, i, c) \/ Dropped(y, i, c)
  BY <1>1 DEF Dropped
<1>. QED
  BY <1>2, <1>3 DEF y, e

LEMMA ReadReplies ==
  ASSUME NEW w \in Seq(Event), w # <<>>, NEW k
  PROVE  /\ Success(Tail(w), k) => Success(w, k)
         /\ Answered(Tail(w), k) => Answered(w, k)
         /\ Answer(Head(w), k) => Answered(w, k)
         /\ Answer(Head(w), k) /\ Head(w).note = "ok" => Success(w, k)
<1> DEFINE y == Tail(w)
           e == Head(w)
<1>1. /\ 1 \in DOMAIN w /\ w[1] = e
      /\ \A p \in DOMAIN y : p + 1 \in DOMAIN w /\ y[p] = w[p + 1]
  BY TailEvents
<1>. HIDE DEF y, e
<1>2. Success(y, k) => Success(w, k)
  BY <1>1 DEF Success
<1>3. Answered(y, k) => Answered(w, k)
  BY <1>1 DEF Answered
<1>4. Answer(e, k) => Answered(w, k)
  BY <1>1 DEF Answered
<1>5. Answer(e, k) /\ e.note = "ok" => Success(w, k)
  BY <1>1 DEF Success
<1>. QED
  BY <1>2, <1>3, <1>4, <1>5 DEF y, e

LEMMA ReadAnnounced ==
  ASSUME NEW w \in Seq(Event), w # <<>>, NEW dd, Announced(dd, w)
  PROVE  Announced(dd, Tail(w))
<1> DEFINE y == Tail(w)
<1>1. /\ \A p \in DOMAIN y : p + 1 \in DOMAIN w /\ y[p] = w[p + 1]
      /\ \A p \in DOMAIN w : p # 1 => p - 1 \in DOMAIN y /\ y[p - 1] = w[p]
      /\ DOMAIN y \subseteq Nat /\ DOMAIN w \subseteq Nat
  BY TailEvents
<1>. HIDE DEF y
<1> SUFFICES ASSUME NEW p \in DOMAIN y, y[p].type = "created" PROVE Shown(p, dd, y)
  BY DEF Announced, y
<1>2. p + 1 \in DOMAIN w /\ w[p + 1] = y[p] /\ p \in Nat
  BY <1>1
<1>3. Shown(p + 1, dd, w)
  BY <1>2 DEF Announced
<1>4. CASE dd[w[p + 1].frame].id = w[p + 1].id
  BY <1>2, <1>4 DEF Shown
<1>5. ASSUME NEW q \in DOMAIN w, q > p + 1, Ends(w[q], w[p + 1].frame, w[p + 1].id) PROVE Shown(p, dd, y)
  <2>1. q \in Nat /\ q # 1 /\ q - 1 > p
    BY <1>1, <1>2, <1>5
  <2>2. q - 1 \in DOMAIN y /\ y[q - 1] = w[q]
    BY <1>1, <2>1
  <2>. QED
    BY <1>2, <1>5, <2>1, <2>2 DEF Shown
<1>. QED
  BY <1>3, <1>4, <1>5 DEF Shown

-----------------------------------------------------------------------------
(* Entries of the table, one at a time                                     *)

\* A document that stays: what it has done is not undone.
Keeping(d, e) == /\ e.id = d.id /\ e.settings = d.settings
                 /\ d.booted => e.booted
                 /\ d.loaded => e.loaded

\* Events that tell of every document that does not stay
Reported(dd, dn, x) ==
    \A g \in Frames :
        \/ Keeping(dd[g], dn[g])
        \/ /\ dd[g].id # 0 => \E q \in DOMAIN x : Ends(x[q], g, dd[g].id)
           /\ g = Top => \E q \in DOMAIN x : x[q].type = "navigated" /\ x[q].frame = Top
Silent(x) == \A p \in DOMAIN x : x[p].type # "reply"

LEMMA SilentReplies ==
  ASSUME NEW x, Silent(x), NEW k PROVE ~Answered(x, k) /\ ~Success(x, k)
  BY DEF Silent, Answered, Success, Answer

LEMMA PlaceFrame ==
  ASSUME NEW i, NEW c, NEW dd, NEW w, Found(i, c, dd, w) PROVE Place(i, c) \in Frames
  BY HostSessionAssumption DEF Found, Place

LEMMA SettledKept ==
  ASSUME NEW f, NEW dd, NEW dn, dn[f].id = dd[f].id, NEW o, NEW v, Settled(f, dd, o, v)
  PROVE  Settled(f, dn, o, v)
  BY DEF Settled, Aims

LEMMA EffectKept ==
  ASSUME NEW script, NEW d, NEW e, Keeping(d, e), NEW v, Effect(script, d, v) PROVE Effect(script, e, v)
  BY DEF Effect, Keeping

\* Documents come and go, and the host will hear of it.
LEMMA EntryReported ==
  ASSUME NEW i \in Slots, NEW c, c.used => (c.id = 0) = (i = 0),
         NEW dd, NEW dn, NEW w \in Seq(Event), NEW x \in Seq(Event), NEW o, NEW v, NEW k, NEW told,
         Entry(i, c, dd, w, o, v, k, told), Reported(dd, dn, x), Silent(x)
  PROVE  Entry(i, c, dn, w \o x, o, v, k, told)
<1> DEFINE y == w \o x
           f == Place(i, c)
<1>1. /\ Left(y, i, c) <=> Left(w, i, c) \/ Left(x, i, c)
      /\ Dropped(y, i, c) <=> Dropped(w, i, c) \/ Dropped(x, i, c)
      /\ Success(y, k) <=> Success(w, k)
  BY AddedMeaning, AddedReplies, SilentReplies
<1>. HIDE DEF y
<1> SUFFICES ASSUME c.used PROVE Entry(i, c, dn, y, o, v, k, told)
  BY DEF Entry, y
<1>2. /\ Found(i, c, dd, w) /\ Credit(i, c, dd, w) /\ Underway(i, c, dd, w, o, v, k)
      /\ told => Informed(i, c, dd, w, o, v)
  BY DEF Entry
<1>3. f \in Frames
  BY <1>2, PlaceFrame
<1>4. Dropped(w, i, c) => Left(w, i, c)
  BY DEF Dropped, Left, Resets
<1>5. CASE ~Left(y, i, c)
  <2>1. ~Left(w, i, c) /\ ~Left(x, i, c) /\ ~Dropped(w, i, c)
    BY <1>1, <1>4, <1>5
  <2>2. i # 0 => c.frame = f /\ dd[f].id = c.id /\ c.id # 0
    BY <1>2, <2>1 DEF Found, Place
  <2>3. Keeping(dd[f], dn[f])
    <3>1. ASSUME dd[f].id # 0 => \E q \in DOMAIN x : Ends(x[q], f, dd[f].id), i # 0 PROVE FALSE
      <4>1. PICK q \in DOMAIN x : Ends(x[q], f, dd[f].id)
        BY <2>2, <3>1
      <4>2. Resets(x[q], i, c)
        BY <2>2, <3>1, <4>1 DEF Resets, Drops
      <4>. QED
        BY <2>1, <4>2 DEF Left
    <3>2. ASSUME f = Top => \E q \in DOMAIN x : x[q].type = "navigated" /\ x[q].frame = Top, i = 0 PROVE FALSE
      <4>1. f = Top
        BY <3>2 DEF Place
      <4>2. PICK q \in DOMAIN x : x[q].type = "navigated" /\ x[q].frame = Top
        BY <3>2, <4>1
      <4>3. Resets(x[q], i, c)
        BY <4>1, <4>2 DEF Resets
      <4>. QED
        BY <2>1, <4>3 DEF Left
    <3>. QED
      BY <1>3, <3>1, <3>2 DEF Reported
  <2>4. dn[f].id = dd[f].id /\ dn[f].settings = dd[f].settings
    BY <2>3 DEF Keeping
  <2>5. Found(i, c, dn, y)
    BY <1>3, <2>2, <2>4 DEF Found
  <2>6. Credit(i, c, dn, y)
    BY <1>2, <2>1, <2>3 DEF Credit, Keeping
  <2>7. Shows(f, dd, o, v) => Shows(f, dn, o, v)
    BY <2>4, SettledKept DEF Shows
  <2>8. Underway(i, c, dn, y, o, v, k)
    <3>1. Effect(Now(k), dd[f], v) => Effect(Now(k), dn[f], v)
      BY <2>3, EffectKept
    <3>2. dd[f].booted => dn[f].booted
      BY <2>3 DEF Keeping
    <3>. QED
      BY <1>1, <1>2, <2>1, <2>7, <3>1, <3>2 DEF Underway
  <2>9. told => Informed(i, c, dn, y, o, v)
    BY <1>2, <2>1, <2>7 DEF Informed
  <2>. QED
    BY <2>5, <2>6, <2>8, <2>9 DEF Entry
<1>6. CASE Left(y, i, c)
  <2>1. Credit(i, c, dn, y) /\ Underway(i, c, dn, y, o, v, k) /\ Informed(i, c, dn, y, o, v)
    BY <1>6 DEF Credit, Underway, Informed
  <2>2. Found(i, c, dn, y)
    <3>1. SUFFICES ASSUME i # 0, ~Dropped(y, i, c) PROVE dn[c.frame].id = c.id
      BY <1>2 DEF Found
    <3>2. c.frame \in Frames /\ dd[c.frame].id = c.id /\ c.id # 0
      BY <1>1, <1>2, <3>1 DEF Found
    <3>3. ASSUME NEW q \in DOMAIN x, Ends(x[q], c.frame, dd[c.frame].id) PROVE FALSE
      <4>1. Drops(x[q], i, c)
        BY <3>1, <3>2, <3>3 DEF Drops
      <4>. QED
        BY <1>1, <3>1, <4>1 DEF Dropped
    <3>4. Keeping(dd[c.frame], dn[c.frame])
      BY <3>2, <3>3 DEF Reported
    <3>. QED
      BY <3>2, <3>4 DEF Keeping
  <2>. QED
    BY <2>1, <2>2 DEF Entry
<1>. QED
  BY <1>5, <1>6

LEMMA AnnouncedReported ==
  ASSUME NEW dd \in [Frames -> Document], NEW dn, NEW w \in Seq(Event), NEW x \in Seq(Event),
         Announced(dd, w), Reported(dd, dn, x),
         \A p \in DOMAIN x : x[p].type = "created" => dn[x[p].frame].id = x[p].id
  PROVE  Announced(dn, w \o x)
<1> DEFINE y == w \o x
<1>1. /\ \A p \in DOMAIN w : p \in DOMAIN y /\ y[p] = w[p]
      /\ \A p \in DOMAIN x : /\ Len(w) + p \in DOMAIN y /\ y[Len(w) + p] = x[p]
                             /\ \A q \in DOMAIN w : q < Len(w) + p
      /\ \A r \in DOMAIN y : r \in DOMAIN w \/ \E p \in DOMAIN x : r = Len(w) + p
  BY AddedEvents
<1>. HIDE DEF y
<1> SUFFICES ASSUME NEW r \in DOMAIN y, y[r].type = "created" PROVE Shown(r, dn, y)
  BY DEF Announced, y
<1>2. CASE r \in DOMAIN w
  <2> DEFINE g  == w[r].frame
             id == w[r].id
  <2>1. y[r] = w[r] /\ Shown(r, dd, w)
    BY <1>1, <1>2 DEF Announced
  <2>2. g \in Frames /\ id \in Ids /\ id # 0
    <3>1. w[r] \in Event /\ w[r].type = "created"
      BY <1>2, <2>1
    <3>. QED
      BY <3>1, EventFields, Constants
  <2>3. ASSUME NEW q \in DOMAIN w, q > r, Ends(w[q], g, id) PROVE Shown(r, dn, y)
    BY <1>1, <2>1, <2>3 DEF Shown
  <2>4. ASSUME NEW q \in DOMAIN x, Ends(x[q], g, id) PROVE Shown(r, dn, y)
    <3>1. Len(w) + q \in DOMAIN y /\ y[Len(w) + q] = x[q] /\ r < Len(w) + q
      BY <1>1, <1>2
    <3>2. Len(w) + q > r
      <4>1. r \in Nat /\ Len(w) \in Nat /\ q \in Nat
        BY <1>2
      <4>. QED
        BY <3>1, <4>1
    <3>. QED
      BY <2>1, <2>4, <3>1, <3>2 DEF Shown
  <2>5. CASE dd[g].id = id
    <3>1. Keeping(dd[g], dn[g]) \/ \E q \in DOMAIN x : Ends(x[q], g, id)
      BY <2>2, <2>5 DEF Reported
    <3>2. Keeping(dd[g], dn[g]) => Shown(r, dn, y)
      BY <2>1, <2>5 DEF Keeping, Shown
    <3>. QED
      BY <2>4, <3>1, <3>2
  <2>. QED
    BY <2>1, <2>3, <2>5 DEF Shown
<1>3. ASSUME NEW p \in DOMAIN x, r = Len(w) + p PROVE Shown(r, dn, y)
  BY <1>1, <1>3 DEF Shown
<1>. QED
  BY <1>1, <1>2, <1>3

LEMMA NumberedSilent ==
  ASSUME NEW k, NEW w \in Seq(Event), NEW x \in Seq(Event), Silent(x), NEW o, NEW v, Numbered(k, w, o, v)
  PROVE  Numbered(k, w \o x, o, v)
<1>1. Answered(w \o x, k) <=> Answered(w, k)
  BY AddedReplies, SilentReplies
<1>. QED
  BY <1>1 DEF Numbered

\* The table, while documents come and go
LEMMA TracesReported ==
  ASSUME NEW c, WellFormed(c), NEW dd \in [Frames -> Document], NEW dn, NEW w \in Seq(Event), NEW x \in Seq(Event),
         NEW o, NEW v, NEW k, NEW m, Traces(c, dd, w, o, v, k, m), Distinct(dn),
         Reported(dd, dn, x), Silent(x), \A p \in DOMAIN x : x[p].type = "created" => dn[x[p].frame].id = x[p].id
  PROVE  Traces(c, dn, w \o x, o, v, k, m)
<1>1. ASSUME NEW i \in Slots PROVE Entry(i, c[i], dn, w \o x, o, v, k, i \notin m)
  <2>1. c[i].used => (c[i].id = 0) = (i = 0)
    BY DEF WellFormed
  <2>2. Entry(i, c[i], dd, w, o, v, k, i \notin m)
    BY DEF Traces
  <2>. QED
    BY <2>1, <2>2, EntryReported
<1>2. Announced(dn, w \o x)
  BY AnnouncedReported DEF Traces
<1>3. Numbered(k, w \o x, o, v)
  BY NumberedSilent DEF Traces
<1>. QED
  BY <1>1, <1>2, <1>3 DEF Traces


-----------------------------------------------------------------------------
(* The browser's steps                                                     *)

In(e, x) == \E q \in DOMAIN x : x[q] = e

LEMMA InAdded ==
  ASSUME NEW a \in Seq(Event), NEW b \in Seq(Event), NEW e
  PROVE  In(e, a \o b) <=> In(e, a) \/ In(e, b)
<1> DEFINE y == a \o b
<1>1. /\ \A p \in DOMAIN a : p \in DOMAIN y /\ y[p] = a[p]
      /\ \A p \in DOMAIN b : Len(a) + p \in DOMAIN y /\ y[Len(a) + p] = b[p]
      /\ \A r \in DOMAIN y : r \in DOMAIN a \/ \E p \in DOMAIN b : r = Len(a) + p
  BY AddedEvents
<1>. HIDE DEF y
<1>2. In(e, y) <=> In(e, a) \/ In(e, b)
  BY <1>1 DEF In
<1>. QED
  BY <1>2 DEF y

\* What the browser reports of each of some frames
LEMMA EachMeaning ==
  ASSUME docs \in [Frames -> Document], NEW type \in EventType, NEW frames \in SUBSET Frames
  PROVE  /\ \A e : In(e, Each(type, Live(frames))) => e.type = type
         /\ \A g \in frames : docs[g].id # 0 => In(Message(type, g, docs[g].id, ""), Each(type, Live(frames)))
         /\ \A e : In(e, Each(type, Live(frames))) => e.frame \in Frames /\ e.id = docs[e.frame].id
<1> DEFINE live == Live(frames)
           n    == Cardinality(live)
           q    == Listed(live)
           m(i) == Message(type, q[i], docs[q[i]].id, "")
           x    == [i \in 1..n |-> m(i)]
<1>1. live \in SUBSET Frames /\ IsFiniteSet(live) /\ \A g \in frames : docs[g].id # 0 => g \in live
  BY HostSessionAssumption, FS_Subset DEF Live
<1>. HIDE DEF live
<1>2. n \in Nat /\ q \in [1..n -> live] /\ \A f \in live : \E i \in 1..n : q[i] = f
  <2>1. Cardinality(live) \in Nat /\ ExistsBijection(1..Cardinality(live), live)
    BY <1>1, FS_CardinalityType
  <2>2. \E s \in [1..Cardinality(live) -> live] : \A f \in live : \E i \in DOMAIN s : s[i] = f
    BY <2>1 DEF ExistsBijection, Bijection, Surjection
  <2>3. Listed(live) \in [1..Cardinality(live) -> live] /\ \A f \in live : \E i \in DOMAIN Listed(live) : Listed(live)[i] = f
    BY <2>2 DEF Listed
  <2>. QED
    BY <2>1, <2>3
<1>. HIDE DEF n, q
<1>3. Each(type, live) = x
  BY DEF Each, n, q
<1>4. DOMAIN x = 1..n /\ \A i \in 1..n : x[i] = m(i)
  OBVIOUS
<1>5. ASSUME NEW i \in 1..n
      PROVE  /\ m(i).type = type /\ m(i).frame = q[i] /\ m(i).id = docs[q[i]].id /\ q[i] \in Frames
  BY <1>1, <1>2 DEF Message
<1>. HIDE DEF x
<1>6. ASSUME NEW e, In(e, x) PROVE e.type = type /\ e.frame \in Frames /\ e.id = docs[e.frame].id
  <2>1. PICK i \in 1..n : e = m(i)
    BY <1>4, <1>6 DEF In
  <2>. HIDE DEF m
  <2>. QED
    BY <1>5, <2>1
<1>7. ASSUME NEW g \in frames, docs[g].id # 0 PROVE In(Message(type, g, docs[g].id, ""), x)
  <2>1. PICK i \in 1..n : q[i] = g
    BY <1>1, <1>2, <1>7
  <2>2. x[i] = Message(type, g, docs[g].id, "")
    BY <1>4, <2>1
  <2>. QED
    BY <1>4, <2>2 DEF In
<1>. QED
  BY <1>3, <1>6, <1>7 DEF live

\* The invariants by their parts
LEMMA TracedParts ==
  ASSUME IInv, Traced
  PROVE  /\ Traces(session.context, docs, wire, orders, settings.version, task, missed)
         /\ WellFormed(session.context) /\ Distinct(docs)
         /\ at = "closed" => wire = <<>> /\ orders = <<>> /\ \A i \in Slots : ~session.context[i].used
         /\ at # "task" => task = NoTask
         /\ settings.version \in Nat
  BY Parts DEF Traced, Closed, Rests, Good, Traces

\* A table without an entry
LEMMA EmptyTraces ==
  ASSUME NEW c, \A i \in Slots : ~c[i].used, NEW dd, Distinct(dd), NEW w, Announced(dd, w), NEW o, NEW v, NEW m
  PROVE  Traces(c, dd, w, o, v, NoTask, m)
  BY DEF Traces, Entry, Numbered, NoTask

LEMMA NothingAnnounced == ASSUME NEW dd PROVE Announced(dd, <<>>)
  BY DEF Announced

\* Steps of the browser that the host has no part in
LEMMA PageTraced ==
  ASSUME IInv, Traced, UNCHANGED <<orders, session, at, task, settings, missed>>,
         docs' \in [Frames -> Document], Distinct(docs'),
         NEW x \in Seq(Event), wire' = IF at = "closed" THEN wire ELSE wire \o x,
         Reported(docs, docs', x), Silent(x),
         \A p \in DOMAIN x : x[p].type = "created" => docs'[x[p].frame].id = x[p].id
  PROVE  Traced'
<1>1. /\ Traces(session.context, docs, wire, orders, settings.version, task, missed) /\ WellFormed(session.context)
      /\ at = "closed" => wire = <<>> /\ orders = <<>> /\ \A i \in Slots : ~session.context[i].used
      /\ at # "task" => task = NoTask
      /\ docs \in [Frames -> Document] /\ wire \in Seq(Event)
  BY TracedParts, Parts
<1>2. Traces(session.context, docs', wire', orders, settings.version, task, missed)
  <2>1. CASE at = "closed"
    BY <1>1, <2>1, NothingAnnounced, EmptyTraces
  <2>2. CASE at # "closed"
    BY <1>1, <2>2, TracesReported
  <2>. QED
    BY <2>1, <2>2
<1>3. Traces(session.context, docs, wire, orders, settings.version, task, missed)'
  BY <1>2
<1>. QED
  BY <1>1, <1>3 DEF Traced, Closed, Rests

\* Queues, one after the other
Queue        == Seq(Event)
Joined(s, t) == s \o t

LEMMA JoinedQueue == ASSUME NEW s \in Queue, NEW t \in Queue PROVE Joined(s, t) \in Queue
  BY DEF Joined, Queue

LEMMA JoinedGroups ==
  ASSUME NEW s \in Queue, NEW t \in Queue, NEW u \in Queue
  PROVE  Joined(Joined(s, t), u) = Joined(s, Joined(t, u))
<1>1. (s \o t) \o u = s \o (t \o u)
  BY ConcatAssociative DEF Queue
<1>. QED
  BY <1>1 DEF Joined

LEMMA JoinedParts ==
  ASSUME NEW s \in Queue, NEW t \in Queue PROVE \A e : In(e, Joined(s, t)) <=> In(e, s) \/ In(e, t)
  BY InAdded DEF Queue, Joined

\* Four queues that follow the first are one that does.
Following(w, a, b, c, d) ==
    \E x \in Queue : /\ (((w \o a) \o b) \o c) \o d = w \o x
                     /\ \A e : In(e, x) <=> In(e, a) \/ In(e, b) \/ In(e, c) \/ In(e, d)

LEMMA FourQueues ==
  ASSUME NEW w \in Queue, NEW a \in Queue, NEW b \in Queue, NEW c \in Queue, NEW d \in Queue
  PROVE  Following(w, a, b, c, d)
<1>1. PICK q \in Queue : q = Joined(c, d)
  BY JoinedQueue
<1>2. PICK r \in Queue : r = Joined(b, q)
  BY JoinedQueue
<1>3. PICK x \in Queue : x = Joined(a, r)
  BY JoinedQueue
<1>4. PICK p \in Queue : p = Joined(w, a)
  BY JoinedQueue
<1>5. PICK m \in Queue : m = Joined(p, b)
  BY JoinedQueue
<1>6. Joined(Joined(m, c), d) = Joined(m, q)
  BY <1>1, JoinedGroups
<1>7. Joined(m, q) = Joined(p, r)
  BY <1>2, <1>5, JoinedGroups
<1>8. Joined(p, r) = Joined(w, x)
  BY <1>3, <1>4, JoinedGroups
<1>9. \A e : In(e, q) <=> In(e, c) \/ In(e, d)
  BY <1>1, JoinedParts
<1>10. \A e : In(e, r) <=> In(e, b) \/ In(e, q)
  BY <1>2, JoinedParts
<1>11. \A e : In(e, x) <=> In(e, a) \/ In(e, r)
  BY <1>3, JoinedParts
<1>12. Joined(Joined(Joined(Joined(w, a), b), c), d) = Joined(w, x)
  BY <1>4, <1>5, <1>6, <1>7, <1>8
<1>13. (((w \o a) \o b) \o c) \o d = w \o x
  BY <1>12 DEF Joined
<1>14. \A e : In(e, x) <=> In(e, a) \/ In(e, b) \/ In(e, c) \/ In(e, d)
  BY <1>9, <1>10, <1>11
<1>. QED
  BY <1>13, <1>14, Zenon DEF Following

LEMMA NavigateTraced == ASSUME IInv, Traced, NEW f \in Frames, Navigate(f) PROVE Traced'
<1> DEFINE below == Live(Below[f] \ {f})
<1>1. UNCHANGED <<orders, session, at, task, settings, missed>>
  BY DEF Navigate
<1>2. PICK id \in Ids \ (IF Reused THEN {docs[g].id : g \in Live(Frames \ Below[f])} ELSE Remembered),
           kind \in Kinds, swap \in BOOLEAN, early \in BOOLEAN, asks \in BOOLEAN :
         LET gone    == Each("destroyed", Live({f}))
             moved   == [Message("navigated", f, 0, "") EXCEPT !.kind = kind]
             created == [Message("created", f, id, "") EXCEPT !.kind = kind]
             request == IF asks THEN <<[Message("message", f, id, "boot-request") EXCEPT !.kind = kind]>> ELSE <<>>
         IN /\ swap => f = Top /\ ~early
            /\ docs' = [g \in Frames |-> IF g = f THEN Loading(id, kind)
                                         ELSE IF g \in below THEN NoDocument ELSE docs[g]]
            /\ wire' = IF at = "closed" THEN wire
                       ELSE wire \o Each("detached", below)
                                 \o (IF swap THEN <<Message("cleared", f, 0, "")>> ELSE gone)
                                 \o (IF early THEN <<created, moved>> ELSE <<moved, created>>) \o request
  BY DEF Navigate
<1> DEFINE moved   == [Message("navigated", f, 0, "") EXCEPT !.kind = kind]
           created == [Message("created", f, id, "") EXCEPT !.kind = kind]
           asked   == [Message("message", f, id, "boot-request") EXCEPT !.kind = kind]
           cleared == Message("cleared", f, 0, "")
           a == Each("detached", below)
           g1 == Each("destroyed", Live({f}))
           b == IF swap THEN <<cleared>> ELSE g1
           c == IF early THEN <<created, moved>> ELSE <<moved, created>>
           d == IF asks THEN <<asked>> ELSE <<>>
<1>3. docs \in [Frames -> Document] /\ wire \in Seq(Event) /\ Distinct(docs)
  BY Parts, TracedParts
<1>4. /\ kind \in AnyKind /\ id \in Nat /\ id \in Ids /\ id # 0
      /\ Below[f] \ {f} \in SUBSET Frames /\ {f} \in SUBSET Frames
  BY HostSessionAssumption, Constants DEF AnyKind
<1>5. /\ moved \in Event /\ created \in Event /\ asked \in Event /\ cleared \in Event
      /\ moved.type = "navigated" /\ moved.frame = f
      /\ created.type = "created" /\ created.frame = f /\ created.id = id
      /\ asked.type = "message" /\ cleared.type = "cleared"
  <2>1. /\ Message("navigated", f, 0, "") \in Event /\ Message("created", f, id, "") \in Event
        /\ Message("message", f, id, "boot-request") \in Event /\ cleared \in Event
    BY <1>3, <1>4, MessageType DEF EventType
  <2>2. ASSUME NEW e \in Event
        PROVE  /\ [e EXCEPT !.kind = kind] \in Event /\ [e EXCEPT !.kind = kind].type = e.type
               /\ [e EXCEPT !.kind = kind].frame = e.frame /\ [e EXCEPT !.kind = kind].id = e.id
    BY <1>4 DEF Event
  <2>3. /\ Message("navigated", f, 0, "").type = "navigated" /\ Message("navigated", f, 0, "").frame = f
        /\ Message("created", f, id, "").type = "created" /\ Message("created", f, id, "").frame = f
        /\ Message("created", f, id, "").id = id
        /\ Message("message", f, id, "boot-request").type = "message" /\ cleared.type = "cleared"
    BY DEF Message
  <2>. QED
    BY <2>1, <2>2, <2>3
<1>6. /\ a \in Seq(Event) /\ g1 \in Seq(Event)
      /\ \A e : In(e, a) => e.type = "detached"
      /\ \A e : In(e, g1) => e.type = "destroyed"
      /\ \A g \in below : In(Message("detached", g, docs[g].id, ""), a)
      /\ docs[f].id # 0 => In(Message("destroyed", f, docs[f].id, ""), g1)
  <2>1. a \in Seq(Event) /\ g1 \in Seq(Event)
    BY <1>3, <1>4, EachType DEF EventType
  <2>2. /\ \A e : In(e, a) => e.type = "detached"
        /\ \A g \in Below[f] \ {f} : docs[g].id # 0 => In(Message("detached", g, docs[g].id, ""), a)
    BY <1>3, <1>4, EachMeaning DEF EventType
  <2>3. /\ \A e : In(e, g1) => e.type = "destroyed"
        /\ \A g \in {f} : docs[g].id # 0 => In(Message("destroyed", g, docs[g].id, ""), g1)
    BY <1>3, <1>4, EachMeaning DEF EventType
  <2>. QED
    BY <2>1, <2>2, <2>3 DEF Live
<1>. HIDE DEF moved, created, asked, cleared
<1>7. /\ b \in Seq(Event) /\ c \in Seq(Event) /\ d \in Seq(Event)
      /\ \A e : In(e, b) => e.type \in {"cleared", "destroyed"}
      /\ IF swap THEN In(cleared, b) ELSE docs[f].id # 0 => In(Message("destroyed", f, docs[f].id, ""), b)
      /\ \A e : In(e, c) <=> e \in {moved, created}
      /\ \A e : In(e, d) => e = asked
  <2>1. ASSUME NEW e \in Event
        PROVE  <<e>> \in Seq(Event) /\ \A n : In(n, <<e>>) <=> n = e
    BY OneEvent DEF In
  <2>2. ASSUME NEW e \in Event, NEW n \in Event
        PROVE  <<e, n>> \in Seq(Event) /\ \A o : In(o, <<e, n>>) <=> o \in {e, n}
    BY DEF In
  <2>3. <<>> \in Seq(Event) /\ \A e : ~In(e, <<>>)
    BY NoEvent DEF In
  <2>. HIDE DEF g1
  <2>4. /\ b \in Seq(Event) /\ \A e : In(e, b) => e.type \in {"cleared", "destroyed"}
        /\ IF swap THEN In(cleared, b) ELSE docs[f].id # 0 => In(Message("destroyed", f, docs[f].id, ""), b)
    BY <1>5, <1>6, <2>1
  <2>5. c \in Seq(Event) /\ \A e : In(e, c) <=> e \in {moved, created}
    BY <1>5, <2>2
  <2>6. d \in Seq(Event) /\ \A e : In(e, d) => e = asked
    BY <1>5, <2>1, <2>3
  <2>. QED
    BY <2>4, <2>5, <2>6
<1>. HIDE DEF a, g1, b, c, d
<1>8. PICK x \in Seq(Event) :
         /\ wire' = IF at = "closed" THEN wire ELSE wire \o x
         /\ \A e : In(e, x) <=> In(e, a) \/ In(e, b) \/ In(e, c) \/ In(e, d)
  <2>1. wire' = IF at = "closed" THEN wire ELSE ((((wire \o a) \o b) \o c) \o d)
    BY <1>2 DEF a, g1, b, c, d, moved, created, asked, cleared
  <2>2. a \in Queue /\ b \in Queue /\ c \in Queue /\ d \in Queue /\ wire \in Queue
    BY <1>3, <1>6, <1>7 DEF Queue
  <2>3. Following(wire, a, b, c, d)
    BY <2>2, FourQueues
  <2>. QED
    BY <2>1, <2>3, Zenon DEF Queue, Following
<1>10. /\ docs' = [g \in Frames |-> IF g = f THEN Loading(id, kind)
                                    ELSE IF g \in below THEN NoDocument ELSE docs[g]]
       /\ swap => f = Top
  BY <1>2
<1>11. docs' \in [Frames -> Document]
  <2>1. Loading(id, kind) \in Document /\ NoDocument \in Document
    BY <1>4, LoadingType, NoDocumentType
  <2>. HIDE DEF below
  <2>. QED
    BY <1>3, <1>10, <2>1
<1>12. Loading(id, kind).id = id /\ NoDocument.id = 0
  BY DEF Loading, NoDocument
<1>13. Distinct(docs')
  <2>1. \A g \in Frames \ {f} : docs'[g].id # 0 => docs'[g] = docs[g] /\ g \notin Below[f]
    BY <1>10, <1>12 DEF Live
  <2>2. ASSUME NEW g \in Frames \ {f}, docs'[g].id # 0 PROVE docs'[g].id # id
    <3>1. docs'[g] = docs[g] /\ g \in Live(Frames \ Below[f])
      BY <2>1, <2>2 DEF Live
    <3>2. docs[g].id \in {docs[h].id : h \in Live(Frames \ Below[f])} /\ docs[g].id \in Remembered
      BY <3>1 DEF Remembered
    <3>. QED
      BY <3>1, <3>2
  <2>3. docs'[f].id = id
    BY <1>10, <1>12
  <2>. QED
    BY <1>3, <2>1, <2>2, <2>3 DEF Distinct
<1>14. Reported(docs, docs', x)
  <2> SUFFICES ASSUME NEW g \in Frames
               PROVE  \/ Keeping(docs[g], docs'[g])
                      \/ /\ docs[g].id # 0 => \E q \in DOMAIN x : Ends(x[q], g, docs[g].id)
                         /\ g = Top => \E q \in DOMAIN x : x[q].type = "navigated" /\ x[q].frame = Top
    BY DEF Reported
  <2>1. CASE g = f
    <3>1. docs[g].id # 0 => \E e : In(e, x) /\ Ends(e, g, docs[g].id)
      <4>1. CASE swap
        BY <1>5, <1>7, <1>8, <4>1 DEF Ends
      <4>2. CASE ~swap
        <5>1. docs[f].id # 0 => In(Message("destroyed", f, docs[f].id, ""), x)
          BY <1>7, <1>8, <4>2
        <5>2. Ends(Message("destroyed", f, docs[f].id, ""), f, docs[f].id)
          BY DEF Ends, Message
        <5>. QED
          BY <2>1, <5>1, <5>2
      <4>. QED
        BY <4>1, <4>2
    <3>2. In(moved, x) /\ moved.type = "navigated" /\ moved.frame = f
      BY <1>5, <1>7, <1>8
    <3>. QED
      BY <2>1, <3>1, <3>2 DEF In
  <2>2. CASE g # f /\ g \in below
    <3>1. In(Message("detached", g, docs[g].id, ""), x) /\ Ends(Message("detached", g, docs[g].id, ""), g, docs[g].id)
      BY <1>6, <1>8, <2>2 DEF Ends, Message
    <3>2. g # Top
      BY <2>2, HostSessionAssumption DEF Live
    <3>. QED
      BY <3>1, <3>2 DEF In
  <2>3. CASE g # f /\ g \notin below
    <3>1. docs'[g] = docs[g]
      BY <1>10, <2>3
    <3>. QED
      BY <3>1 DEF Keeping
  <2>. QED
    BY <2>1, <2>2, <2>3
<1>15. ASSUME NEW e, In(e, x) PROVE e.type # "reply" /\ (e.type = "created" => e = created)
  BY <1>5, <1>6, <1>7, <1>8, <1>15
<1>16. ASSUME NEW p \in DOMAIN x PROVE x[p].type # "reply" /\ (x[p].type = "created" => docs'[x[p].frame].id = x[p].id)
  <2>1. In(x[p], x)
    BY DEF In
  <2>2. docs'[f].id = id
    BY <1>10, <1>12
  <2>. QED
    BY <1>5, <1>15, <2>1, <2>2
<1>17. Silent(x)
  BY <1>16 DEF Silent
<1>. QED
  BY <1>1, <1>8, <1>11, <1>13, <1>14, <1>16, <1>17, PageTraced

LEMMA RemoveFrameTraced == ASSUME IInv, Traced, NEW f \in Frames, RemoveFrame(f) PROVE Traced'
<1> DEFINE x == Each("detached", Live(Below[f]))
<1>1. /\ UNCHANGED <<orders, session, at, task, settings, missed>> /\ f # Top
      /\ docs' = [g \in Frames |-> IF g \in Below[f] THEN NoDocument ELSE docs[g]]
      /\ wire' = IF at = "closed" THEN wire ELSE wire \o x
  BY DEF RemoveFrame
<1>2. docs \in [Frames -> Document] /\ Distinct(docs) /\ Below[f] \in SUBSET Frames
  BY Parts, TracedParts, HostSessionAssumption
<1>3. docs' \in [Frames -> Document]
  BY <1>1, <1>2, NoDocumentType
<1>4. Distinct(docs')
  <2>1. \A g \in Frames : docs'[g].id # 0 => docs'[g] = docs[g]
    BY <1>1 DEF NoDocument
  <2>. QED
    BY <1>2, <2>1 DEF Distinct
<1>5. /\ x \in Seq(Event)
      /\ \A e : In(e, x) => e.type = "detached"
      /\ \A g \in Below[f] : docs[g].id # 0 => In(Message("detached", g, docs[g].id, ""), x)
  BY <1>2, EachType, EachMeaning DEF EventType
<1>. HIDE DEF x
<1>6. Reported(docs, docs', x)
  <2> SUFFICES ASSUME NEW g \in Frames
               PROVE  \/ Keeping(docs[g], docs'[g])
                      \/ /\ docs[g].id # 0 => \E q \in DOMAIN x : Ends(x[q], g, docs[g].id)
                         /\ g = Top => \E q \in DOMAIN x : x[q].type = "navigated" /\ x[q].frame = Top
    BY DEF Reported
  <2>1. CASE g \in Below[f]
    <3>1. docs[g].id # 0 => In(Message("detached", g, docs[g].id, ""), x)
      BY <1>5, <2>1
    <3>2. Ends(Message("detached", g, docs[g].id, ""), g, docs[g].id)
      BY DEF Ends, Message
    <3>3. g # Top
      BY <1>1, <2>1, HostSessionAssumption
    <3>. QED
      BY <3>1, <3>2, <3>3 DEF In
  <2>2. CASE g \notin Below[f]
    BY <1>1, <2>2 DEF Keeping
  <2>. QED
    BY <2>1, <2>2
<1>7. ASSUME NEW p \in DOMAIN x PROVE x[p].type = "detached"
  BY <1>5 DEF In
<1>8. Silent(x)
  BY <1>7 DEF Silent
<1>. QED
  BY <1>1, <1>3, <1>4, <1>5, <1>6, <1>7, <1>8, PageTraced

LEMMA LoadedTraced == ASSUME IInv, Traced, NEW f \in Frames, Loaded(f) PROVE Traced'
<1> DEFINE x == IF docs[f].due THEN <<Note(f, "ready")>> ELSE <<>>
<1>1. /\ UNCHANGED <<orders, session, at, task, settings, missed>>
      /\ docs' = [docs EXCEPT ![f].loading = FALSE, ![f].due = FALSE]
      /\ wire' = IF docs[f].due /\ at # "closed" THEN Append(wire, Note(f, "ready")) ELSE wire
  BY DEF Loaded
<1>2. docs \in [Frames -> Document] /\ Distinct(docs) /\ wire \in Seq(Event)
  BY Parts, TracedParts
<1>3. docs' \in [Frames -> Document] /\ \A g \in Frames : Keeping(docs[g], docs'[g])
  <2> DEFINE new == [docs[f] EXCEPT !.loading = FALSE, !.due = FALSE]
  <2>1. docs[f] \in Document
    BY <1>2
  <2>2. new \in Document /\ Keeping(docs[f], new)
    BY <2>1 DEF Document, Keeping
  <2>3. docs' = [docs EXCEPT ![f] = new]
    BY <1>1, <1>2
  <2>. HIDE DEF new
  <2>. QED
    BY <1>2, <2>2, <2>3 DEF Keeping
<1>4. Distinct(docs')
  BY <1>2, <1>3 DEF Distinct, Keeping
<1>5. Note(f, "ready") \in Event /\ Note(f, "ready").type = "message"
  BY <1>2, NoteType DEF Note, Message
<1>6. /\ x \in Seq(Event) /\ wire' = IF at = "closed" THEN wire ELSE wire \o x
      /\ \A p \in DOMAIN x : x[p].type = "message"
  <2> DEFINE e == Note(f, "ready")
  <2>1. e \in Event /\ e.type = "message"
    BY <1>5
  <2>. HIDE DEF e
  <2>2. Append(wire, e) = wire \o <<e>> /\ wire \o <<>> = wire
    BY <1>2, <2>1
  <2>3. <<e>> \in Seq(Event) /\ DOMAIN <<e>> = {1} /\ <<e>>[1] = e /\ <<>> \in Seq(Event) /\ DOMAIN <<>> = {}
    BY <2>1, OneEvent, NoEvent
  <2>4. x = IF docs[f].due THEN <<e>> ELSE <<>>
    BY DEF e
  <2>5. wire' = IF docs[f].due /\ at # "closed" THEN Append(wire, e) ELSE wire
    BY <1>1 DEF e
  <2>. HIDE DEF x
  <2>. QED
    BY <2>1, <2>2, <2>3, <2>4, <2>5
<1>. HIDE DEF x
<1>7. Reported(docs, docs', x) /\ Silent(x)
  BY <1>3, <1>6 DEF Reported, Silent
<1>. QED
  BY <1>1, <1>3, <1>4, <1>6, <1>7, PageTraced


-----------------------------------------------------------------------------
(* A command is carried out                                                *)

\* Events that take nothing back
Harmless(x) == \A p \in DOMAIN x : x[p].type \in {"message", "reply"}

LEMMA HarmlessMeaning ==
  ASSUME NEW w \in Seq(Event), NEW x \in Seq(Event), Harmless(x), NEW i, NEW c
  PROVE  /\ Left(w \o x, i, c) <=> Left(w, i, c)
         /\ Dropped(w \o x, i, c) <=> Dropped(w, i, c)
<1>1. ~Left(x, i, c) /\ ~Dropped(x, i, c)
  BY DEF Harmless, Left, Dropped, Resets, Drops, Ends
<1>. QED
  BY <1>1, AddedMeaning

\* What a command makes of the documents
Executed(c, f, dd, dn) ==
    /\ Aims(c, f, dd)
    /\ \A g \in Frames : /\ dn[g].id = dd[g].id
                         /\ g # f => dn[g] = dd[g]
    /\ dd[f].booted => dn[f].booted
    /\ dd[f].loaded => dn[f].loaded
    /\ IF c.script \in {"settings", "notify"} THEN dn[f].settings = c.settings ELSE dn[f].settings = dd[f].settings
    /\ Effect(c.script, dn[f], c.settings)

\* What the host is concerned with stays as it is.
Same(dd, dn) == \A g \in Frames : /\ dn[g].id = dd[g].id /\ dn[g].settings = dd[g].settings
                                  /\ dn[g].booted = dd[g].booted /\ dn[g].loaded = dd[g].loaded

LEMMA ScriptExecuted ==
  ASSUME NEW dd \in [Frames -> Document], NEW f \in Frames, NEW c \in Command, Aims(c, f, dd),
         NEW dn, dn = [dd EXCEPT ![f] = AfterScript(dd[f], c)]
  PROVE  Executed(c, f, dd, dn)
<1> DEFINE d == dd[f]
           e == AfterScript(d, c)
<1>1. d \in Document
  OBVIOUS
<1>. HIDE DEF d
<1>2. /\ e.id = d.id /\ (d.booted => e.booted) /\ (d.loaded => e.loaded)
      /\ IF c.script \in {"settings", "notify"} THEN e.settings = c.settings ELSE e.settings = d.settings
      /\ c.script = "bootstrap" => e.booted
      /\ c.script = "bundle" => e.loaded
  <2>1. d.loaded \in BOOLEAN /\ c.script \in Scripts
    BY <1>1 DEF Document, Command
  <2>2. CASE c.script = "settings"
    BY <1>1, <2>2 DEF AfterScript, Document
  <2>3. CASE c.script = "bootstrap"
    BY <1>1, <2>3 DEF AfterScript, Document
  <2>4. CASE c.script = "ask"
    BY <1>1, <2>4 DEF AfterScript, Document
  <2>5. CASE c.script = "bundle"
    BY <1>1, <2>1, <2>5 DEF AfterScript, Document
  <2>6. CASE c.script = "notify"
    BY <1>1, <2>6 DEF AfterScript, Document
  <2>. QED
    BY <2>1, <2>2, <2>3, <2>4, <2>5, <2>6 DEF Scripts
<1>3. dn[f] = e /\ \A g \in Frames : g # f => dn[g] = dd[g]
  BY DEF d
<1>. HIDE DEF e
<1>. QED
  BY <1>2, <1>3 DEF Executed, Effect, d

\* The reply that tells how a command went is on the wire once it has run, and
\* the only one for its number.
Told(w, y, number, ok, k) ==
    /\ Answered(y, k) <=> Answered(w, k) \/ number = k.waits
    /\ Success(y, k) <=> Success(w, k) \/ (number = k.waits /\ ok)

LEMMA NumberedExecuted ==
  ASSUME NEW k, NEW w, NEW y, NEW o \in Seq(Command), o # <<>>, NEW v, Numbered(k, w, o, v),
         NEW ok, Told(w, y, Head(o).number, ok, k)
  PROVE  Numbered(k, y, Tail(o), v)
<1> DEFINE q == Tail(o)
<1>1. /\ 1 \in DOMAIN o /\ o[1] = Head(o)
      /\ \A p \in DOMAIN q : p + 1 \in DOMAIN o /\ q[p] = o[p + 1]
  BY TailEvents
<1>2. Len(q) = Len(o) - 1 /\ Len(o) \in Nat /\ (Len(o) = 1 => q = <<>>) /\ DOMAIN q \subseteq Nat \ {0}
      /\ DOMAIN q = 1..Len(q)
  <2>1. Len(o) \in Nat /\ Len(o) # 0 /\ q \in Seq(Command) /\ Len(q) = Len(o) - 1
    BY HeadTailProperties
  <2>2. \A s \in Seq(Command) : /\ Len(s) = 0 => s = <<>>
                               /\ DOMAIN s = 1..Len(s) /\ DOMAIN s \subseteq Nat \ {0}
    OBVIOUS
  <2>. HIDE DEF q
  <2>. QED
    BY <2>1, <2>2
<1>. HIDE DEF q
<1> SUFFICES ASSUME k.waits # 0
             PROVE  /\ \A p \in DOMAIN q : q[p].number = k.waits => Last(p, q, k, v) /\ ~Answered(y, k)
                    /\ Answered(y, k) => q = <<>>
  BY DEF Numbered, q
<1>3. /\ \A p \in DOMAIN o : o[p].number = k.waits => Last(p, o, k, v) /\ ~Answered(w, k)
      /\ ~Answered(w, k)
  BY DEF Numbered
<1>4. Head(o).number = k.waits => q = <<>>
  BY <1>1, <1>2, <1>3 DEF Last
<1>5. ASSUME NEW p \in DOMAIN q, q[p].number = k.waits PROVE Last(p, q, k, v) /\ ~Answered(y, k)
  <2>1. Last(p + 1, o, k, v) /\ q[p] = o[p + 1]
    BY <1>1, <1>3, <1>5
  <2>2. p = Len(q) /\ q # <<>>
    BY <1>2, <1>5, <2>1 DEF Last
  <2>. QED
    BY <1>3, <1>4, <2>1, <2>2 DEF Last, Told
<1>. QED
  BY <1>3, <1>4, <1>5 DEF Told

\* The queues, when a command has run
Ran(w, y, k, number, ok) ==
    /\ \A i, c : Left(y, i, c) <=> Left(w, i, c)
    /\ \A i, c : Dropped(y, i, c) <=> Dropped(w, i, c)
    /\ Told(w, y, number, ok, k)

LEMMA EntryExecuted ==
  ASSUME NEW i \in Slots, NEW c, c.used => (c.id = 0) = (i = 0), NEW dd, NEW dn, Distinct(dd), NEW w, NEW y,
         NEW o \in Seq(Command), o # <<>>, NEW v, NEW k, NEW told,
         c.token[k.type] # 0 => k.id = c.id,
         Numbered(k, w, o, v), Entry(i, c, dd, w, o, v, k, told),
         NEW f \in Frames, NEW ok, Ran(w, y, k, Head(o).number, ok),
         (Same(dd, dn) /\ ~ok) \/ Executed(Head(o), f, dd, dn)
  PROVE  Entry(i, c, dn, y, Tail(o), v, k, told)
<1> DEFINE g == Place(i, c)
           q == Tail(o)
           h == Head(o)
<1> SUFFICES ASSUME c.used PROVE Entry(i, c, dn, y, q, v, k, told)
  BY DEF Entry
<1>1. /\ 1 \in DOMAIN o /\ o[1] = h
      /\ \A p \in DOMAIN q : p + 1 \in DOMAIN o /\ q[p] = o[p + 1]
  BY TailEvents
<1>2. /\ Found(i, c, dd, w) /\ Credit(i, c, dd, w) /\ Underway(i, c, dd, w, o, v, k)
      /\ told => Informed(i, c, dd, w, o, v)
  BY DEF Entry
<1>3. g \in Frames
  BY <1>2, PlaceFrame
<1>4. /\ \A j \in Frames : dn[j].id = dd[j].id
      /\ dd[g].booted => dn[g].booted
      /\ dd[g].loaded => dn[g].loaded
  BY <1>3 DEF Executed, Same
<1>5. /\ Left(y, i, c) <=> Left(w, i, c)
      /\ Dropped(y, i, c) <=> Dropped(w, i, c)
      /\ Told(w, y, h.number, ok, k)
  BY DEF Ran
<1>. HIDE DEF q, h, g
<1>6. Found(i, c, dn, y)
  BY <1>2, <1>4, <1>5 DEF Found
<1>7. Credit(i, c, dn, y)
  BY <1>2, <1>4, <1>5 DEF Credit, g
<1>8. ASSUME Shows(g, dd, o, v) PROVE Shows(g, dn, q, v)
  <2>1. Settled(g, dn, q, v)
    BY <1>1, <1>3, <1>4, <1>8 DEF Shows, Settled, Aims
  <2>2. dn[g].settings = v
    <3>1. CASE dn[g].settings = dd[g].settings
      BY <1>8, <3>1 DEF Shows
    <3>2. CASE g = f /\ Executed(h, f, dd, dn)
      <4>1. h.script \in {"settings", "notify"} => h.settings = v
        BY <1>1, <1>8, <3>2 DEF Shows, Settled, Executed
      <4>. QED
        BY <1>8, <3>2, <4>1 DEF Executed, Shows
    <3>. QED
      BY <1>3, <3>1, <3>2 DEF Executed, Same, h
  <2>. QED
    BY <2>1, <2>2 DEF Shows
<1>9. told => Informed(i, c, dn, y, q, v)
  BY <1>2, <1>5, <1>8 DEF Informed, g
<1>10. Dropped(w, i, c) => Left(w, i, c)
  BY DEF Dropped, Left, Resets
<1>11. ASSUME c.token[k.type] # 0, ~Left(w, i, c), k.waits # 0, Success(y, k) PROVE Effect(Now(k), dn[g], v)
  <2>1. Success(w, k) => Answered(w, k)
    BY DEF Success, Answered
  <2>2. ~Answered(w, k)
    BY <1>1, <1>11 DEF Numbered
  <2>3. h.number = k.waits /\ ok
    BY <1>5, <1>11, <2>1, <2>2 DEF Told
  <2>4. h.id = k.id /\ h.script = Now(k) /\ h.settings = v
    BY <1>1, <1>11, <2>3 DEF Numbered, Last
  <2>5. Executed(h, f, dd, dn)
    BY <2>3 DEF h
  <2>6. g = f
    <3>1. CASE i = 0
      BY <1>11, <2>4, <2>5, <3>1 DEF Executed, Aims, g, Place
    <3>2. CASE i # 0
      <4>1. dd[f].id = c.id /\ c.id # 0 /\ dd[c.frame].id = c.id /\ c.frame = g
        BY <1>2, <1>10, <1>11, <2>4, <2>5, <3>2 DEF Executed, Aims, Found, g, Place
      <4>. QED
        BY <1>3, <4>1 DEF Distinct
    <3>. QED
      BY <3>1, <3>2
  <2>. QED
    BY <2>4, <2>5, <2>6 DEF Executed
<1>12. Underway(i, c, dn, y, q, v, k)
  BY <1>2, <1>4, <1>5, <1>8, <1>11 DEF Underway, g
<1>. QED
  BY <1>6, <1>7, <1>9, <1>12 DEF Entry


LEMMA AnnouncedIds ==
  ASSUME NEW dd, NEW dn, NEW w \in Seq(Event), \A f \in Frames : dn[f].id = dd[f].id, Announced(dd, w)
  PROVE  Announced(dn, w)
<1> SUFFICES ASSUME NEW p \in DOMAIN w, w[p].type = "created" PROVE Shown(p, dn, w)
  BY DEF Announced
<1>1. w[p].frame \in Frames
  <2>1. w[p] \in Event
    OBVIOUS
  <2>. QED
    BY <2>1, EventFields
<1>. QED
  BY <1>1 DEF Announced, Shown

LEMMA AnnouncedHarmless ==
  ASSUME NEW dd \in [Frames -> Document], NEW w \in Seq(Event), NEW x \in Seq(Event), Harmless(x), Announced(dd, w)
  PROVE  Announced(dd, w \o x)
<1>1. Reported(dd, dd, x)
  BY DEF Reported, Keeping
<1>2. \A p \in DOMAIN x : x[p].type # "created"
  BY DEF Harmless
<1>. QED
  BY <1>1, <1>2, AnnouncedReported

\* The message a command may send, and its reply
LEMMA ExecutedEvents ==
  ASSUME NEW dd \in [Frames -> Document], NEW w \in Seq(Event), Announced(dd, w),
         NEW says \in Seq(Event), \A p \in DOMAIN says : says[p].type = "message",
         NEW r \in Event, r.type = "reply", NEW ok, ok <=> r.note = "ok", NEW k
  PROVE  /\ (w \o says) \o <<r>> \in Seq(Event)
         /\ Announced(dd, (w \o says) \o <<r>>)
         /\ Ran(w, (w \o says) \o <<r>>, k, r.id, ok)
<1> DEFINE y == w \o says
           x == <<r>>
<1>1. Harmless(says) /\ Silent(says)
  BY DEF Harmless, Silent
<1>2. x \in Seq(Event) /\ DOMAIN x = {1} /\ x[1] = r
  BY OneEvent
<1>. HIDE DEF x
<1>3. Harmless(x)
  BY <1>2 DEF Harmless
<1>4. y \in Seq(Event) /\ Announced(dd, y)
  BY <1>1, AnnouncedHarmless
<1>5. /\ \A i, c : Left(y, i, c) <=> Left(w, i, c)
      /\ \A i, c : Dropped(y, i, c) <=> Dropped(w, i, c)
  BY <1>1, HarmlessMeaning
<1>6. (Answered(y, k) <=> Answered(w, k)) /\ (Success(y, k) <=> Success(w, k))
  BY <1>1, AddedReplies, SilentReplies
<1>. HIDE DEF y
<1>7. /\ \A i, c : Left(y \o x, i, c) <=> Left(y, i, c)
      /\ \A i, c : Dropped(y \o x, i, c) <=> Dropped(y, i, c)
  BY <1>2, <1>3, <1>4, HarmlessMeaning
<1>8. /\ Answered(x, k) <=> r.id = k.waits
      /\ Success(x, k) <=> r.id = k.waits /\ ok
  BY <1>2 DEF Answered, Success, Answer
<1>9. Told(w, y \o x, r.id, ok, k)
  BY <1>2, <1>4, <1>6, <1>8, AddedReplies DEF Told
<1>10. y \o x \in Seq(Event) /\ Announced(dd, y \o x)
  BY <1>2, <1>3, <1>4, AnnouncedHarmless
<1>. QED
  BY <1>5, <1>7, <1>9, <1>10 DEF Ran, x, y

LEMMA TracesExecuted ==
  ASSUME NEW c, WellFormed(c), NEW dd, NEW dn, NEW w, NEW y \in Seq(Event),
         NEW o \in Seq(Command), o # <<>>, NEW v, NEW k, NEW m, Traces(c, dd, w, o, v, k, m),
         NEW some, Backed(c, some, k), k.type \in TaskType,
         Announced(dd, y), NEW f \in Frames, NEW ok, Ran(w, y, k, Head(o).number, ok),
         (Same(dd, dn) /\ ~ok) \/ Executed(Head(o), f, dd, dn)
  PROVE  Traces(c, dn, y, Tail(o), v, k, m)
<1>1. Distinct(dd) /\ Numbered(k, w, o, v) /\ \A i \in Slots : Entry(i, c[i], dd, w, o, v, k, i \notin m)
  BY DEF Traces
<1>2. \A g \in Frames : dn[g].id = dd[g].id
  BY DEF Executed, Same
<1>3. ASSUME NEW i \in Slots PROVE Entry(i, c[i], dn, y, Tail(o), v, k, i \notin m)
  <2>1. c[i].used => (c[i].id = 0) = (i = 0)
    BY DEF WellFormed
  <2>2. c[i].token[k.type] # 0 => k.id = c[i].id
    BY DEF Backed
  <2>3. Entry(i, c[i], dd, w, o, v, k, i \notin m)
    BY <1>1
  <2> DEFINE told == i \notin m
             e    == c[i]
  <2>. HIDE DEF told, e
  <2>4. e.used => (e.id = 0) = (i = 0)
    BY <2>1 DEF e
  <2>5. e.token[k.type] # 0 => k.id = e.id
    BY <2>2 DEF e
  <2>6. Entry(i, e, dd, w, o, v, k, told)
    BY <2>3 DEF e, told
  <2>7. Entry(i, e, dn, y, Tail(o), v, k, told)
    BY <1>1, <2>4, <2>5, <2>6, EntryExecuted
  <2>. QED
    BY <2>7 DEF e, told
<1>4. Distinct(dn)
  BY <1>1, <1>2 DEF Distinct
<1>5. Announced(dn, y)
  BY <1>2, AnnouncedIds
<1>6. Numbered(k, y, Tail(o), v)
  <2>1. Told(w, y, Head(o).number, ok, k)
    BY DEF Ran
  <2>. QED
    BY <1>1, <2>1, NumberedExecuted
<1>. QED
  BY <1>3, <1>4, <1>5, <1>6 DEF Traces

\* The ways a command can go
LEMMA ExecuteCases ==
  ASSUME IInv, Execute
  PROVE  \E says \in Seq(Event), f \in Frames, ok \in BOOLEAN :
            /\ \A p \in DOMAIN says : says[p].type = "message"
            /\ wire' = (wire \o says) \o <<Reply(Head(orders).number, ok)>>
            /\ (Same(docs, docs') /\ ~ok) \/ Executed(Head(orders), f, docs, docs')
<1> DEFINE c      == Head(orders)
           target == {f \in Frames : IF c.id = 0 THEN f = Top ELSE docs[f].id = c.id}
           failed == Reply(c.number, FALSE)
<1>1. docs \in [Frames -> Document] /\ wire \in Seq(Event) /\ orders \in Seq(Command) /\ orders # <<>>
  BY Parts DEF Execute
<1>2. c \in Command /\ Top \in Frames
  BY <1>1, HostSessionAssumption
<1>3. c.number \in Nat
  BY <1>2 DEF Command
<1>4. failed \in Event
  BY <1>1, <1>3, ReplyType
<1>5. CASE Same(docs, docs') /\ wire' = Append(wire, failed)
  <2>1. Append(wire, failed) = (wire \o <<>>) \o <<failed>> /\ <<>> \in Seq(Event) /\ DOMAIN <<>> = {}
    <3>. HIDE DEF failed
    <3>. QED
      BY <1>1, <1>4
  <2>. HIDE DEF c
  <2>2. wire' = (wire \o <<>>) \o <<Reply(c.number, FALSE)>>
    BY <1>5, <2>1
  <2>. QED
    BY <1>2, <1>5, <2>1, <2>2 DEF c
<1>6. ASSUME NEW f \in target, docs' = [docs EXCEPT ![f] = AfterScript(docs[f], c)],
             NEW says \in {<<>>} \cup {<<Note(f, n)>> : n \in Says(docs[f], c)},
             wire' = wire \o says \o <<Reply(c.number, Accepted(docs[f], c))>>
      PROVE  \E s \in Seq(Event), g \in Frames, ok \in BOOLEAN :
                /\ \A p \in DOMAIN s : s[p].type = "message"
                /\ wire' = (wire \o s) \o <<Reply(c.number, ok)>>
                /\ (Same(docs, docs') /\ ~ok) \/ Executed(c, g, docs, docs')
  <2>1. says \in Seq(Event) /\ \A p \in DOMAIN says : says[p].type = "message"
    <3>1. ASSUME NEW n \in Says(docs[f], c), says = <<Note(f, n)>>
          PROVE  says \in Seq(Event) /\ \A p \in DOMAIN says : says[p].type = "message"
      <4>1. n \in {"ready", "disabled"}
        BY <3>1 DEF Says
      <4>2. Note(f, n) \in Event /\ Note(f, n).type = "message"
        BY <1>1, <4>1, NoteType DEF Note, Message
      <4>. QED
        BY <3>1, <4>2, OneEvent
    <3>2. CASE says = <<>>
      BY <3>2
    <3>. QED
      BY <3>1, <3>2
  <2>2. Accepted(docs[f], c) \in BOOLEAN
    BY DEF Accepted
  <2>3. Aims(c, f, docs) /\ f \in Frames
    BY DEF Aims
  <2>4. Executed(c, f, docs, docs')
    <3>. HIDE DEF c
    <3>. QED
      BY <1>1, <1>2, <1>6, <2>3, ScriptExecuted
  <2>. HIDE DEF c
  <2>. QED
    BY <1>6, <2>1, <2>2, <2>3, <2>4
<1>7. \/ Same(docs, docs') /\ wire' = Append(wire, failed)
      \/ \E f \in target : \E says \in {<<>>} \cup {<<Note(f, n)>> : n \in Says(docs[f], c)} :
            /\ docs' = [docs EXCEPT ![f] = AfterScript(docs[f], c)]
            /\ wire' = wire \o says \o <<Reply(c.number, Accepted(docs[f], c))>>
  <2>1. CASE docs' = docs
    BY <2>1 DEF Execute, Same
  <2>2. ASSUME NEW f \in target, docs' = [docs EXCEPT ![f] = Torn(docs[f])] PROVE Same(docs, docs')
    <3>1. \A g \in Frames : docs'[g] = IF g = f THEN Torn(docs[g]) ELSE docs[g]
      BY <1>1, <2>2
    <3>. QED
      BY <1>1, <3>1, TornType DEF Same
  <2>. QED
    BY <2>1, <2>2 DEF Execute
<1>. QED
  BY <1>5, <1>6, <1>7

LEMMA ExecuteTraced == ASSUME IInv, Traced, Execute PROVE Traced'
<1> DEFINE h == Head(orders)
<1>1. /\ orders # <<>> /\ orders' = Tail(orders) /\ UNCHANGED <<session, at, task, settings, missed>>
  BY DEF Execute
<1>2. PICK says \in Seq(Event), f \in Frames, ok \in BOOLEAN :
            /\ \A p \in DOMAIN says : says[p].type = "message"
            /\ wire' = (wire \o says) \o <<Reply(h.number, ok)>>
            /\ (Same(docs, docs') /\ ~ok) \/ Executed(h, f, docs, docs')
  BY ExecuteCases
<1>3. /\ docs \in [Frames -> Document] /\ wire \in Seq(Event) /\ orders \in Seq(Command)
      /\ task \in Task /\ Backed(session.context, at = "task", task)
  BY Parts
<1>4. /\ Traces(session.context, docs, wire, orders, settings.version, task, missed) /\ WellFormed(session.context)
      /\ at # "closed" /\ Rests /\ Announced(docs, wire)
  BY <1>1, TracedParts DEF Rests, Traces
<1>5. h \in Command
  BY <1>1, <1>3
<1>6. h.number \in Nat
  BY <1>5 DEF Command
<1> DEFINE r == Reply(h.number, ok)
           y == (wire \o says) \o <<r>>
<1>7. r \in Event /\ r.type = "reply" /\ r.id = h.number /\ (ok <=> r.note = "ok")
  BY <1>3, <1>6, ReplyType DEF Reply, Message
<1>. HIDE DEF r
<1>8. y \in Seq(Event) /\ Announced(docs, y) /\ Ran(wire, y, task, h.number, ok)
  BY <1>2, <1>3, <1>4, <1>7, ExecutedEvents
<1>9. wire' = y
  BY <1>2 DEF r
<1>. HIDE DEF y
<1>10. task.type \in TaskType
  BY <1>3, TaskFields
<1>11. Traces(session.context, docs', y, Tail(orders), settings.version, task, missed)
  BY <1>1, <1>2, <1>3, <1>4, <1>8, <1>10, TracesExecuted
<1>12. Traces(session.context, docs, wire, orders, settings.version, task, missed)'
  BY <1>1, <1>9, <1>11
<1>. QED
  BY <1>1, <1>4, <1>12 DEF Traced, Closed, Rests


-----------------------------------------------------------------------------
(* An event is read                                                        *)

\* What an entry claims stays the same.
Stays(c, d) == /\ d.used = c.used /\ d.id = c.id /\ d.frame = c.frame /\ d.token = c.token
               /\ d.bootstrapped = c.bootstrapped /\ d.bundled = c.bundled
               /\ Queued(c) => Queued(d)
\* An entry that claims nothing
Anew(d) == ~d.bootstrapped /\ ~d.bundled /\ d.token = NoTokens

\* An event takes back what it makes untrue.
Follows(e, i, c, d) ==
    \/ ~d.used
    \/ Stays(c, d) /\ d.generation = c.generation /\ ~Resets(e, i, c)
    \/ Anew(d) /\ \/ i = 0
                  \/ c.used /\ d.id = c.id /\ d.frame = c.frame /\ ~Drops(e, i, c)
                  \/ e.type = "created" /\ d.id = e.id /\ d.frame = e.frame

\* The place and the queues of an entry that stays are those it had.
LEMMA StaysMeaning ==
  ASSUME NEW i, NEW c, NEW d, d.id = c.id, d.frame = c.frame, NEW w
  PROVE  /\ Left(w, i, d) <=> Left(w, i, c)
         /\ Dropped(w, i, d) <=> Dropped(w, i, c)
         /\ Place(i, d) = Place(i, c)
<1>1. Place(i, d) = Place(i, c)
  BY DEF Place
<1>2. \A e : (Drops(e, i, d) <=> Drops(e, i, c)) /\ (Resets(e, i, d) <=> Resets(e, i, c))
  BY <1>1 DEF Drops, Resets
<1>. QED
  BY <1>1, <1>2 DEF Left, Dropped

\* An entry that stays, and the task k that goes on or is over
LEMMA EntryStays ==
  ASSUME NEW i, NEW c, NEW d, Stays(c, d), NEW dd, NEW w, NEW y, Left(y, i, c) <=> Left(w, i, c),
         Dropped(y, i, c) <=> Dropped(w, i, c), NEW o, NEW v, NEW k, Success(y, k) => Success(w, k),
         NEW told, Entry(i, c, dd, w, o, v, k, told), NEW told2, told2 => told
  PROVE  Entry(i, d, dd, y, o, v, k, told2)
<1>1. /\ Left(y, i, d) <=> Left(w, i, c)
      /\ Dropped(y, i, d) <=> Dropped(w, i, c)
      /\ Place(i, d) = Place(i, c)
  BY StaysMeaning DEF Stays
<1> SUFFICES ASSUME d.used PROVE Entry(i, d, dd, y, o, v, k, told2)
  BY DEF Entry
<1>2. /\ Found(i, c, dd, w) /\ Credit(i, c, dd, w) /\ Underway(i, c, dd, w, o, v, k)
      /\ told => Informed(i, c, dd, w, o, v)
  BY DEF Entry, Stays
<1>3. Found(i, d, dd, y)
  BY <1>1, <1>2 DEF Found, Stays
<1>4. Credit(i, d, dd, y)
  BY <1>1, <1>2 DEF Credit, Stays
<1>5. Underway(i, d, dd, y, o, v, k)
  BY <1>1, <1>2 DEF Underway, Stays
<1>6. told => Informed(i, d, dd, y, o, v)
  BY <1>1, <1>2 DEF Informed, Stays, Busy
<1>. QED
  BY <1>3, <1>4, <1>5, <1>6 DEF Entry

LEMMA EntryAnew ==
  ASSUME NEW i, NEW d, Anew(d), NEW dd, NEW y, Found(i, d, dd, y), NEW o, NEW v, NEW k, k.type \in TaskType, NEW told
  PROVE  Entry(i, d, dd, y, o, v, k, told)
<1>1. d.token[k.type] = 0
  BY DEF Anew, NoTokens
<1>. QED
  BY <1>1 DEF Anew, Entry, Credit, Underway, Informed

LEMMA EntryHeard ==
  ASSUME NEW i \in Slots, NEW c, NEW d, NEW dd, NEW w \in Seq(Event), w # <<>>, Announced(dd, w),
         NEW o, NEW v, NEW k, k.type \in TaskType, NEW told, Entry(i, c, dd, w, o, v, k, told),
         Follows(Head(w), i, c, d), NEW told2, d.generation = c.generation /\ told2 => told
  PROVE  Entry(i, d, dd, Tail(w), o, v, k, told2)
<1> DEFINE e == Head(w)
           y == Tail(w)
<1>1. /\ Left(w, i, c) <=> Resets(e, i, c) \/ Left(y, i, c)
      /\ Dropped(w, i, c) <=> Drops(e, i, c) \/ Dropped(y, i, c)
  BY ReadMeaning
<1>2. Success(y, k) => Success(w, k)
  BY ReadReplies
<1>3. Drops(e, i, c) => Resets(e, i, c)
  BY DEF Resets
<1>4. e \in Event /\ 1 \in DOMAIN w /\ w[1] = e /\ DOMAIN w \subseteq Nat
      /\ \A p \in DOMAIN w : p # 1 => p - 1 \in DOMAIN y /\ y[p - 1] = w[p]
  BY TailEvents
<1>. HIDE DEF e, y
<1>5. CASE ~d.used
  BY <1>5 DEF Entry, y
<1>6. CASE Stays(c, d) /\ d.generation = c.generation /\ ~Resets(e, i, c)
  <2>1. (Left(y, i, c) <=> Left(w, i, c)) /\ (Dropped(y, i, c) <=> Dropped(w, i, c)) /\ (told2 => told) /\ Stays(c, d)
    BY <1>1, <1>3, <1>6
  <2>2. Entry(i, d, dd, y, o, v, k, told2)
    BY <1>2, <2>1, EntryStays
  <2>. QED
    BY <2>2 DEF y
<1>7. CASE Anew(d) /\ i = 0
  <2>1. Found(i, d, dd, y)
    BY <1>7 DEF Found
  <2>. QED
    BY <1>7, <2>1, EntryAnew DEF y
<1>8. CASE Anew(d) /\ c.used /\ d.id = c.id /\ d.frame = c.frame /\ ~Drops(e, i, c)
  <2>1. Found(i, c, dd, w)
    BY <1>8 DEF Entry
  <2>2. Dropped(y, i, d) <=> Dropped(y, i, c)
    BY <1>8, StaysMeaning
  <2>3. Found(i, d, dd, y)
    BY <1>1, <1>8, <2>1, <2>2 DEF Found
  <2>. QED
    BY <1>8, <2>3, EntryAnew DEF y
<1>9. CASE Anew(d) /\ i # 0 /\ e.type = "created" /\ d.id = e.id /\ d.frame = e.frame
  <2>1. Shown(1, dd, w) /\ e.frame \in Frames
    BY <1>4, <1>9, EventFields DEF Announced
  <2>2. CASE dd[e.frame].id = e.id
    BY <1>9, <2>1, <2>2, EntryAnew DEF Found, y
  <2>3. ASSUME NEW q \in DOMAIN w, q > 1, Ends(w[q], e.frame, e.id) PROVE Found(i, d, dd, y)
    <3>1. q - 1 \in DOMAIN y /\ y[q - 1] = w[q]
      BY <1>4, <2>3
    <3>2. Drops(y[q - 1], i, d)
      BY <1>9, <2>3, <3>1 DEF Drops
    <3>. QED
      BY <1>9, <2>1, <3>1, <3>2 DEF Found, Dropped
  <2>4. Found(i, d, dd, y)
    BY <1>4, <1>9, <2>1, <2>3 DEF Shown, Found
  <2>. QED
    BY <1>9, <2>4, EntryAnew DEF y
<1>. QED
  BY <1>5, <1>6, <1>7, <1>8, <1>9 DEF Follows, e

-----------------------------------------------------------------------------
(* What the session makes of an event                                      *)

LEMMA AnewReset == ASSUME NEW c \in Context, NEW g PROVE Anew(Reset(c, g)) /\ Reset(c, g).frame = c.frame /\ Reset(c, g).id = c.id
  BY DEF Reset, Anew, Context

\* An entry that an event leaves alone
LEMMA SameFollows ==
  ASSUME NEW e, NEW i, NEW c, c.used => ~Resets(e, i, c) PROVE Follows(e, i, c, c)
  BY DEF Follows, Stays

LEMMA CreatedFollows ==
  ASSUME NEW s, Good(s), NEW e \in Event, e.type = "created", NEW j \in Slots
  PROVE  Follows(e, j, s.context[j], ContextCreated(s, e).context[j])
<1> DEFINE old  == SlotOf(s, e.id)
           free == {i \in 1..MaxContexts : ~s.context[i].used}
           gone == IF s.top \in {NoFrame, e.frame} THEN {0} ELSE {}
           b    == Drop(s, gone)
           entered == [Unused EXCEPT !.used = TRUE, !.id = e.id, !.frame = e.frame, !.kind = e.kind]
           new  == Reset(entered, Serial(s.generation))
           Put(i) == [b EXCEPT !.generation = Serial(@), !.context[i] = new,
                               !.contexts = IF old = {} THEN @ + 1 ELSE @]
<1>1. e.id \in Ids /\ e.frame \in Frames /\ e.kind \in AnyKind
  BY EventFields
<1>2. Anew(new) /\ new.id = e.id /\ new.frame = e.frame
  <2>1. entered \in Context /\ entered.id = e.id /\ entered.frame = e.frame
    <3> DEFINE id == e.id
               f  == e.frame
               k  == e.kind
               c  == [Unused EXCEPT !.used = TRUE, !.id = id, !.frame = f, !.kind = k]
    <3>1. id \in Ids \cup {0} /\ f \in Frames \cup {NoFrame} /\ k \in AnyKind
      BY <1>1
    <3>. HIDE DEF id, f, k
    <3>2. c \in Context /\ c.id = id
      BY ZenonT(60), <3>1, EnteredType
    <3>3. c.frame = f
      BY DEF Unused
    <3>. QED
      BY <3>2, <3>3 DEF id, f, k
  <2>. HIDE DEF entered
  <2>. QED
    BY <2>1, AnewReset
<1>. HIDE DEF new, entered
<1>3. s.context \in [Slots -> Context] /\ 0 \in Slots
  BY SessionFields, Constants DEF Good
<1>4. \A i \in Slots : b.context[i] = (IF i \in gone THEN Unused ELSE s.context[i])
  <2>1. b \in Session
    <3>1. gone \in SUBSET Slots /\ \A i \in gone \ {0} : s.context[i].used
      BY Constants
    <3>. HIDE DEF gone
    <3>. QED
      BY <3>1, DropGood DEF Good
  <2>2. gone \in SUBSET Slots /\ \A i \in gone \ {0} : s.context[i].used
    BY Constants
  <2>. HIDE DEF gone
  <2>. QED
    BY <2>2, DropGood
<1>5. b \in Session
  <2>1. gone \in SUBSET Slots /\ \A i \in gone \ {0} : s.context[i].used
    BY Constants
  <2>. HIDE DEF gone
  <2>. QED
    BY <2>1, DropGood DEF Good
<1>6. Follows(e, j, s.context[j], s.context[j])
  <2>1. ~Resets(e, j, s.context[j])
    BY DEF Resets, Drops, Ends
  <2>. QED
    BY <2>1, SameFollows
<1>7. ~Unused.used
  BY UnusedType
<1>8. ASSUME NEW i \in 1..MaxContexts PROVE Follows(e, j, s.context[j], Put(i).context[j])
  <2>1. b.context \in [Slots -> Context]
    BY <1>5, SessionFields
  <2>2. Put(i).context = [b.context EXCEPT ![i] = new]
    <3>. HIDE DEF b, new
    <3>. QED
      BY <1>5 DEF Session
  <2>3. Put(i).context[j] = (IF j = i THEN new ELSE b.context[j])
    BY <2>1, <2>2
  <2>. HIDE DEF Put, b
  <2>4. CASE j = i
    <3>1. Follows(e, j, s.context[j], new)
      BY <1>2 DEF Follows
    <3>. QED
      BY <2>3, <2>4, <3>1
  <2>5. CASE j # i /\ j \in gone
    <3>1. Follows(e, j, s.context[j], Unused)
      BY <1>7 DEF Follows
    <3>. QED
      BY <1>4, <2>3, <2>5, <3>1
  <2>6. CASE j # i /\ j \notin gone
    BY <1>4, <1>6, <2>3, <2>6
  <2>. QED
    BY <2>4, <2>5, <2>6
<1>9. old \subseteq 1..MaxContexts
  BY <1>1, Constants DEF Good, WellFormed, SlotOf
<1>10. ContextCreated(s, e) = CASE \E i \in old : s.context[i].frame = e.frame /\ s.context[i].kind = e.kind -> s
         [] old # {} /\ \A i \in old : s.context[i].frame # e.frame \/ s.context[i].kind # e.kind
              -> Put(CHOOSE i \in old : TRUE)
         [] old = {} /\ free # {} -> Put(CHOOSE i \in free : \A k \in free : i <= k)
         [] OTHER -> s
  BY DEF ContextCreated, new, entered
<1>. HIDE DEF Put, old, b
<1>11. CASE old # {} /\ ~\E i \in old : s.context[i].frame = e.frame /\ s.context[i].kind = e.kind
  <2>1. (CHOOSE i \in old : TRUE) \in 1..MaxContexts
    BY <1>9, <1>11
  <2>. QED
    BY <1>8, <1>10, <1>11, <2>1
<1>12. CASE old = {} /\ free # {}
  <2>1. \E i \in free : \A k \in free : i <= k
    BY <1>12, FirstAndLast, Constants
  <2>2. (CHOOSE i \in free : \A k \in free : i <= k) \in free
    BY <2>1
  <2>. QED
    BY <1>8, <1>10, <1>12, <2>2
<1>. QED
  BY <1>6, <1>10, <1>11, <1>12


\* Entries that are dropped
LEMMA DropFollows ==
  ASSUME NEW s, Good(s), NEW gone \in SUBSET Slots, \A i \in gone \ {0} : s.context[i].used,
         NEW e, NEW j \in Slots, j \in gone \/ Follows(e, j, s.context[j], s.context[j])
  PROVE  Follows(e, j, s.context[j], Drop(s, gone).context[j])
<1> DEFINE b == Drop(s, gone)
<1>1. b.context[j] = IF j \in gone THEN Unused ELSE s.context[j]
  BY DEF Drop, Good, Session
<1>. HIDE DEF b
<1>2. j \in gone => Follows(e, j, s.context[j], b.context[j])
  BY <1>1, UnusedType DEF Follows
<1>. QED
  BY <1>1, <1>2 DEF b

LEMMA NavigatedFollows ==
  ASSUME NEW s, Good(s), NEW e \in Event, e.type = "navigated", NEW j \in Slots
  PROVE  Follows(e, j, s.context[j], FrameNavigated(s, e).context[j])
<1> DEFINE d == [i \in Slots |-> IF i # 0 /\ s.context[i].used /\ s.context[i].frame = e.frame
                                 THEN Reset(s.context[i], Serial(s.generation)) ELSE s.context[i]]
           n == [s.known EXCEPT ![e.frame] = e.kind]
           known == [WithFrame(s, e.frame, e.kind) EXCEPT !.generation = Serial(@), !.context = d]
<1>1. s \in Session /\ s.context \in [Slots -> Context]
  BY SessionFields DEF Good
<1>2. known = [s EXCEPT !.known = n, !.generation = Serial(s.generation), !.context = d]
  BY <1>1 DEF WithFrame, Session
<1>3. known.context = d
  <2>. HIDE DEF d, n
  <2>. QED
    BY <1>1, <1>2 DEF Session
<1>4. FrameNavigated(s, e).context = IF e.frame # Top THEN d ELSE [i \in Slots |-> IF i \in {0} THEN Unused ELSE d[i]]
  <2>1. FrameNavigated(s, e) = IF e.frame # Top THEN known
                               ELSE [Drop(known, {0}) EXCEPT !.top = Top, !.target = e.kind]
    BY DEF FrameNavigated
  <2>2. Drop(known, {0}) = [known EXCEPT !.context = [i \in Slots |-> IF i \in {0} THEN Unused ELSE d[i]],
                                         !.contexts = known.contexts - Cardinality({0} \ {0})]
    BY <1>3 DEF Drop
  <2> DEFINE u == [i \in Slots |-> IF i \in {0} THEN Unused ELSE d[i]]
             m == known.contexts - Cardinality({0} \ {0})
             b == [known EXCEPT !.context = u, !.contexts = m]
  <2>3. [b EXCEPT !.top = Top, !.target = e.kind].context = u
    <3>1. known.context = d /\ DOMAIN known = DOMAIN s
      BY <1>2, <1>3
    <3>2. "context" \in DOMAIN s
      BY <1>1 DEF Session
    <3>. HIDE DEF known, u, m, d
    <3>. QED
      BY <3>1, <3>2
  <2>. HIDE DEF known, d
  <2>. QED
    BY <1>3, <2>1, <2>2, <2>3
<1>5. CASE j # 0 /\ s.context[j].used /\ s.context[j].frame = e.frame
  <2>1. FrameNavigated(s, e).context[j] = Reset(s.context[j], Serial(s.generation))
    BY <1>4, <1>5
  <2>2. s.context[j] \in Context
    BY <1>1
  <2>3. ~Drops(e, j, s.context[j])
    BY <1>5 DEF Drops, Ends
  <2>. QED
    BY <1>5, <2>1, <2>2, <2>3, AnewReset DEF Follows
<1>6. CASE ~(j # 0 /\ s.context[j].used /\ s.context[j].frame = e.frame)
  <2>1. CASE j = 0 /\ e.frame = Top
    <3>1. FrameNavigated(s, e).context[j] = Unused
      BY <1>4, <2>1
    <3>. QED
      BY <3>1, UnusedType DEF Follows
  <2>2. CASE ~(j = 0 /\ e.frame = Top)
    <3>1. FrameNavigated(s, e).context[j] = s.context[j]
      BY <1>4, <1>6, <2>2
    <3>2. s.context[j].used => ~Resets(e, j, s.context[j])
      BY <1>6, <2>2 DEF Resets, Drops, Ends, Place
    <3>. QED
      BY <3>1, <3>2, SameFollows
  <2>. QED
    BY <2>1, <2>2
<1>. QED
  BY <1>5, <1>6

LEMMA DetachedFollows ==
  ASSUME NEW s, Good(s), NEW e \in Event, e.type = "detached", NEW j \in Slots
  PROVE  Follows(e, j, s.context[j], FrameDetached(s, e).context[j])
<1> DEFINE gone  == {g \in Below[e.frame] : \A h \in Below[e.frame] : g \in Below[h] => s.known[h] # "unknown"}
                    \cup {e.frame}
           slots == {i \in Slots \ {0} : s.context[i].used /\ s.context[i].frame \in gone}
                    \cup (IF s.top = e.frame THEN {0} ELSE {})
           b     == Drop(s, slots)
           n     == [f \in Frames |-> IF f \in gone THEN "unknown" ELSE s.known[f]]
<1>1. slots \in SUBSET Slots /\ \A i \in slots \ {0} : s.context[i].used
  BY Constants
<1>2. b \in Session
  <2>. HIDE DEF slots
  <2>. QED
    BY <1>1, DropGood DEF Good
<1>3. FrameDetached(s, e).context = b.context
  <2>1. FrameDetached(s, e) = [b EXCEPT !.known = n]
    BY DEF FrameDetached
  <2>. HIDE DEF b, n
  <2>. QED
    BY <1>2, <2>1 DEF Session
<1>4. j \in slots \/ Follows(e, j, s.context[j], s.context[j])
  <2>1. e.frame \in gone
    OBVIOUS
  <2>. HIDE DEF gone
  <2>2. j \notin slots => (s.context[j].used => ~Resets(e, j, s.context[j]))
    BY <2>1 DEF Resets, Drops, Ends
  <2>. QED
    BY <2>2, SameFollows
<1>. HIDE DEF slots
<1>5. Follows(e, j, s.context[j], b.context[j])
  BY <1>1, <1>4, DropFollows
<1>. QED
  BY <1>3, <1>5

LEMMA MessageFollows ==
  ASSUME NEW s, Good(s), NEW e \in Event, e.type = "message", NEW j \in Slots
  PROVE  Follows(e, j, s.context[j], PageMessage(s, e).context[j])
<1> DEFINE Heard(c) ==
            CASE e.note = "ready" ->
                    [c EXCEPT !.ready = TRUE,
                              !.queued = @ \cup (IF c.bundled \/ c.token["bundle"] # 0 THEN {} ELSE {"bundle"})]
              [] e.note = "boot-request" ->
                    [c EXCEPT !.queued = @ \cup (IF c.bootstrapped THEN {} ELSE {"bootstrap"})]
              [] e.note = "disabled" -> [c EXCEPT !.disabled = TRUE, !.queued = @ \ {"bundle"}]
              [] OTHER -> c
           d == [i \in Slots |-> IF i \in SlotOf(s, e.id) THEN Heard(s.context[i]) ELSE s.context[i]]
           c == s.context[j]
<1>1. s \in Session /\ c \in Context
  BY SessionFields DEF Good
<1>2. ~Resets(e, j, c)
  BY DEF Resets, Drops, Ends
<1>3. Stays(c, Heard(c)) /\ Heard(c).generation = c.generation
  <2>. HIDE DEF c
  <2>1. CASE e.note = "ready"
    BY <1>1, <2>1 DEF Stays, Queued, Context
  <2>2. CASE e.note = "boot-request"
    BY <1>1, <2>2 DEF Stays, Queued, Context
  <2>3. CASE e.note = "disabled"
    BY <1>1, <2>3 DEF Stays, Queued, Context
  <2>4. CASE e.note \notin {"ready", "boot-request", "disabled"}
    <3>1. Heard(c) = c
      BY <2>4
    <3>. QED
      BY <3>1 DEF Stays
  <2>. QED
    BY <2>1, <2>2, <2>3, <2>4
<1>4. PageMessage(s, e).context = d
  <2>1. PageMessage(s, e) = [s EXCEPT !.context = d]
    BY DEF PageMessage
  <2>. HIDE DEF d
  <2>. QED
    BY <1>1, <2>1 DEF Session
<1>5. d[j] = IF j \in SlotOf(s, e.id) THEN Heard(c) ELSE c
  OBVIOUS
<1>. HIDE DEF d, Heard, c
<1>6. Follows(e, j, c, d[j])
  BY <1>2, <1>3, <1>5, SameFollows DEF Follows
<1>. QED
  BY <1>4, <1>6 DEF c

\* cx_session_feed(): an event that takes back what an entry claims is heard.
LEMMA FedFollows ==
  ASSUME NEW s, Good(s), NEW e \in Event, NEW j \in Slots
  PROVE  Follows(e, j, s.context[j], Fed(s, e).context[j])
<1>1. CASE e.type = "created"
  BY <1>1, CreatedFollows DEF Fed
<1>2. CASE e.type = "destroyed"
  <2> DEFINE gone == SlotOf(s, e.id) \ {0}
  <2>1. gone \in SUBSET Slots /\ \A i \in gone \ {0} : s.context[i].used
    BY DEF SlotOf
  <2>2. Fed(s, e) = Drop(s, gone)
    BY <1>2 DEF Fed
  <2>3. j \in gone \/ Follows(e, j, s.context[j], s.context[j])
    <3>1. j \notin gone => (s.context[j].used => ~Resets(e, j, s.context[j]))
      BY <1>2 DEF Resets, Drops, Ends, SlotOf
    <3>. QED
      BY <3>1, SameFollows
  <2>. HIDE DEF gone
  <2>. QED
    BY <2>1, <2>2, <2>3, DropFollows
<1>3. CASE e.type = "cleared"
  <2> DEFINE d == [i \in Slots |-> Unused]
  <2>1. Fed(s, e) = [s EXCEPT !.context = d, !.contexts = 0]
    BY <1>3 DEF Fed
  <2>2. s \in Session
    BY DEF Good
  <2>3. Fed(s, e).context = d
    <3>. HIDE DEF d
    <3>. QED
      BY <2>1, <2>2 DEF Session
  <2>. QED
    BY <2>3, UnusedType DEF Follows
<1>4. CASE e.type = "navigated"
  BY <1>4, NavigatedFollows DEF Fed
<1>5. CASE e.type = "detached"
  BY <1>5, DetachedFollows DEF Fed
<1>6. CASE e.type = "message"
  BY <1>6, MessageFollows DEF Fed
<1>7. CASE e.type = "reply"
  <2>1. Fed(s, e) = s
    BY <1>7 DEF Fed
  <2>2. ~Resets(e, j, s.context[j])
    BY <1>7 DEF Resets, Drops, Ends
  <2>. QED
    BY <2>1, <2>2, SameFollows
<1>. QED
  BY <1>1, <1>2, <1>3, <1>4, <1>5, <1>6, <1>7 DEF Event, EventType

LEMMA NumberedRead ==
  ASSUME NEW k, NEW w \in Seq(Event), w # <<>>, NEW o, NEW v, Numbered(k, w, o, v)
  PROVE  Numbered(k, Tail(w), o, v)
<1>1. Answered(Tail(w), k) => Answered(w, k)
  BY ReadReplies
<1>. QED
  BY <1>1 DEF Numbered

\* The table, when an event is read
LEMMA TracesHeard ==
  ASSUME NEW c, NEW d, NEW dd, NEW w \in Seq(Event), w # <<>>, NEW o, NEW v, NEW k, k.type \in TaskType,
         NEW m, Traces(c, dd, w, o, v, k, m), \A i \in Slots : Follows(Head(w), i, c[i], d[i]),
         NEW n, n = {i \in m : d[i].generation = c[i].generation}
  PROVE  Traces(d, dd, Tail(w), o, v, k, n)
<1>1. Announced(dd, w) /\ Numbered(k, w, o, v) /\ Distinct(dd)
  BY DEF Traces
<1>2. Announced(dd, Tail(w)) /\ Numbered(k, Tail(w), o, v)
  BY <1>1, ReadAnnounced, NumberedRead
<1>3. ASSUME NEW i \in Slots PROVE Entry(i, d[i], dd, Tail(w), o, v, k, i \notin n)
  <2> DEFINE a == c[i]
             b == d[i]
             told  == i \notin m
             told2 == i \notin n
  <2>1. /\ Entry(i, a, dd, w, o, v, k, told) /\ Follows(Head(w), i, a, b)
        /\ b.generation = a.generation /\ told2 => told
    BY DEF Traces
  <2>. HIDE DEF a, b, told, told2
  <2>2. Entry(i, b, dd, Tail(w), o, v, k, told2)
    BY <1>1, <2>1, EntryHeard
  <2>. QED
    BY <2>2 DEF b, told2
<1>. QED
  BY <1>1, <1>2, <1>3 DEF Traces

LEMMA DispatchTraced ==
  ASSUME IInv, Traced, wire # <<>>, Dispatch, UNCHANGED <<docs, orders, at, task, settings>>
  PROVE  Traced'
<1> DEFINE c == session.context
           d == Fed(session, Head(wire)).context
<1>1. wire' = Tail(wire) /\ session'.context = d /\ missed' = {i \in missed : d[i].generation = c[i].generation}
  BY DEF Dispatch
<1>2. wire \in Seq(Event) /\ Head(wire) \in Event /\ task \in Task /\ Good(session)
  BY Parts
<1>3. task.type \in TaskType
  BY <1>2, TaskFields
<1>4. \A i \in Slots : Follows(Head(wire), i, c[i], d[i])
  BY <1>2, FedFollows
<1>5. Traces(c, docs, wire, orders, settings.version, task, missed) /\ at # "closed" /\ Rests
  BY TracedParts DEF Rests
<1>. HIDE DEF c, d
<1>6. Traces(d, docs, Tail(wire), orders, settings.version, task, missed')
  BY <1>1, <1>2, <1>3, <1>4, <1>5, TracesHeard
<1>7. Traces(session.context, docs, wire, orders, settings.version, task, missed)'
  BY <1>1, <1>6
<1>. QED
  BY <1>5, <1>7 DEF Traced, Closed, Rests


-----------------------------------------------------------------------------
(* The task goes on, or is over                                            *)

\* Queues that take back the same
Alike(w, y) == /\ \A i, c : Left(y, i, c) <=> Left(w, i, c)
               /\ \A i, c : Dropped(y, i, c) <=> Dropped(w, i, c)

LEMMA AlikeReply ==
  ASSUME NEW w \in Seq(Event), w # <<>>, Head(w).type = "reply" PROVE Alike(w, Tail(w))
<1>1. \A i, c : ~Resets(Head(w), i, c) /\ ~Drops(Head(w), i, c)
  BY DEF Resets, Drops, Ends
<1>2. ASSUME NEW i, NEW c
      PROVE  /\ Left(Tail(w), i, c) <=> Left(w, i, c)
             /\ Dropped(Tail(w), i, c) <=> Dropped(w, i, c)
  BY <1>1, ReadMeaning
<1>. QED
  BY <1>2 DEF Alike

\* The task k has had its reply, and it was a success.
Succeeded(w, o, k) == k.waits # 0 /\ Success(w, k) /\ o = <<>>

LEMMA SuccessAlone ==
  ASSUME NEW w, NEW o, NEW k, NEW v, Numbered(k, w, o, v), k.waits # 0, Success(w, k) PROVE Succeeded(w, o, k)
<1>1. Answered(w, k)
  BY DEF Success, Answered
<1>. QED
  BY <1>1 DEF Numbered, Succeeded

\* The next command of the same task, or the same once more
GoesFurther(k, l, w, o) == /\ l.type = k.type /\ l.waits = 0
                           /\ l.step = k.step \/ (l.step = k.step + 1 /\ Succeeded(w, o, k))

LEMMA EntryFurther ==
  ASSUME NEW i, NEW c, NEW dd, NEW w, NEW y, Alike(w, y), NEW o, NEW v, NEW k, k.step \in Nat, k.step > 0,
         NEW told, Entry(i, c, dd, w, o, v, k, told), NEW l, GoesFurther(k, l, w, o)
  PROVE  Entry(i, c, dd, y, o, v, l, told)
<1>1. (Left(y, i, c) <=> Left(w, i, c)) /\ (Dropped(y, i, c) <=> Dropped(w, i, c))
  BY DEF Alike
<1> SUFFICES ASSUME c.used PROVE Entry(i, c, dd, y, o, v, l, told)
  BY DEF Entry
<1>2. /\ Found(i, c, dd, w) /\ Credit(i, c, dd, w) /\ Underway(i, c, dd, w, o, v, k)
      /\ told => Informed(i, c, dd, w, o, v)
  BY DEF Entry
<1>3. Found(i, c, dd, y) /\ Credit(i, c, dd, y) /\ (told => Informed(i, c, dd, y, o, v))
  BY <1>1, <1>2 DEF Found, Credit, Informed
<1> DEFINE f == Place(i, c)
<1>4. ASSUME c.token[k.type] # 0, ~Left(w, i, c), k.type = "bootstrap"
      PROVE  /\ l.step >= 3 => dd[f].booted
             /\ l.step >= 2 => Shows(f, dd, o, v)
  <2>1. /\ k.step >= 3 => dd[f].booted
        /\ k.step >= 2 => Shows(f, dd, o, v)
        /\ Succeeded(w, o, k) => Effect(Now(k), dd[f], v)
    BY <1>2, <1>4 DEF Underway, Succeeded
  <2>2. CASE l.step = k.step
    BY <2>1, <2>2
  <2>3. CASE l.step = k.step + 1 /\ Succeeded(w, o, k)
    <3>1. Steps("bootstrap")[1] = "settings" /\ Steps("bootstrap")[2] = "bootstrap"
      BY DEF Steps
    <3>2. k.step = 1 => Shows(f, dd, o, v)
      BY <1>4, <2>1, <2>3, <3>1 DEF Now, Effect, Shows, Settled, Succeeded
    <3>3. k.step = 2 => dd[f].booted
      BY <1>4, <2>1, <2>3, <3>1 DEF Now, Effect
    <3>. QED
      BY <2>1, <2>3, <3>2, <3>3
  <2>. QED
    BY <2>2, <2>3 DEF GoesFurther
<1>5. Underway(i, c, dd, y, o, v, l)
  BY <1>1, <1>4 DEF Underway, GoesFurther
<1>. QED
  BY <1>3, <1>5 DEF Entry

LEMMA TracesFurther ==
  ASSUME NEW c, NEW dd, NEW w, NEW y, Alike(w, y), Announced(dd, y), NEW o, NEW v, NEW k, k.step \in Nat, k.step > 0,
         NEW m, Traces(c, dd, w, o, v, k, m), NEW l, GoesFurther(k, l, w, o)
  PROVE  Traces(c, dd, y, o, v, l, m)
<1>1. ASSUME NEW i \in Slots PROVE Entry(i, c[i], dd, y, o, v, l, i \notin m)
  <2> DEFINE a == c[i]
             told == i \notin m
  <2>1. Entry(i, a, dd, w, o, v, k, told)
    BY DEF Traces
  <2>. HIDE DEF a, told
  <2>2. Entry(i, a, dd, y, o, v, l, told)
    BY <2>1, EntryFurther
  <2>. QED
    BY <2>2 DEF a, told
<1>2. Numbered(l, y, o, v)
  BY DEF Numbered, GoesFurther
<1>. QED
  BY <1>1, <1>2 DEF Traces

\* What the end of the task k leaves of the entry it was for
Credits(k, ok, c, d) ==
    /\ d.used = c.used /\ d.id = c.id /\ d.frame = c.frame
    /\ d.bootstrapped <=> c.bootstrapped \/ (k.type = "bootstrap" /\ ok)
    /\ d.bundled <=> c.bundled \/ (k.type = "bundle" /\ ok)
    /\ Queued(d) <=> Queued(c)
    /\ \A t \in TaskType : t # k.type => d.token[t] = c.token[t]

\* A task that ends well has carried out its last command.
EndsWell(k, w, o) == Succeeded(w, o, k) /\ k.step = Len(Steps(k.type))

LEMMA UnderwayRests == ASSUME NEW i, NEW c, NEW dd, NEW w, NEW o, NEW v PROVE Underway(i, c, dd, w, o, v, NoTask)
  BY DEF Underway, NoTask

LEMMA EntryCredited ==
  ASSUME NEW i, NEW c, NEW d, NEW dd, NEW w, NEW y, Alike(w, y), NEW o, NEW v, NEW k, k.type \in TaskType,
         NEW told, Entry(i, c, dd, w, o, v, k, told), c.token[k.type] # 0,
         NEW ok, ok => EndsWell(k, w, o), Credits(k, ok, c, d),
         NEW told2, told2 => IF k.type = "bundle" THEN told ELSE ok
  PROVE  Entry(i, d, dd, y, o, v, NoTask, told2)
<1>1. /\ Left(y, i, d) <=> Left(w, i, c)
      /\ Dropped(y, i, d) <=> Dropped(w, i, c)
      /\ Place(i, d) = Place(i, c)
  <2>1. /\ Left(y, i, d) <=> Left(y, i, c)
        /\ Dropped(y, i, d) <=> Dropped(y, i, c)
        /\ Place(i, d) = Place(i, c)
    BY StaysMeaning DEF Credits
  <2>. QED
    BY <2>1 DEF Alike
<1> SUFFICES ASSUME d.used PROVE Entry(i, d, dd, y, o, v, NoTask, told2)
  BY DEF Entry
<1>2. /\ Found(i, c, dd, w) /\ Credit(i, c, dd, w) /\ Underway(i, c, dd, w, o, v, k)
      /\ told => Informed(i, c, dd, w, o, v)
  BY DEF Entry, Credits
<1> DEFINE f == Place(i, c)
<1>3. ASSUME ok, ~Left(w, i, c)
      PROVE  /\ k.type = "bootstrap" => dd[f].booted /\ Shows(f, dd, o, v)
             /\ k.type = "bundle" => dd[f].loaded
             /\ k.type = "config" => Shows(f, dd, o, v)
  <2>1. /\ Succeeded(w, o, k) /\ k.step = Len(Steps(k.type)) /\ Effect(Now(k), dd[f], v)
        /\ k.type = "bootstrap" /\ k.step >= 3 => dd[f].booted
        /\ k.type = "bootstrap" /\ k.step >= 2 => Shows(f, dd, o, v)
    BY <1>2, <1>3 DEF Underway, Succeeded, EndsWell
  <2>2. /\ Len(Steps("bootstrap")) = 3
        /\ Len(Steps("bundle")) = 1 /\ Steps("bundle")[1] = "bundle"
        /\ Len(Steps("config")) = 1 /\ Steps("config")[1] = "notify"
    BY DEF Steps
  <2>3. k.type = "bootstrap" => dd[f].booted /\ Shows(f, dd, o, v)
    <3>1. k.type = "bootstrap" => k.step = 3
      BY <2>1, <2>2
    <3>2. 3 >= 3 /\ 3 >= 2
      OBVIOUS
    <3>. QED
      BY <2>1, <3>1, <3>2, Zenon
  <2>4. k.type = "bundle" => dd[f].loaded
    BY <2>1, <2>2 DEF Effect, Now
  <2>5. k.type = "config" => Shows(f, dd, o, v)
    BY <2>1, <2>2 DEF Effect, Now, Shows, Settled, Succeeded
  <2>. QED
    BY <2>3, <2>4, <2>5
<1>4. Found(i, d, dd, y)
  BY <1>1, <1>2 DEF Found, Credits
<1>5. Credit(i, d, dd, y)
  BY <1>1, <1>2, <1>3 DEF Credit, Credits
<1>6. ASSUME told2 PROVE Informed(i, d, dd, y, o, v)
  <2>1. CASE k.type = "bundle"
    <3>1. Informed(i, c, dd, w, o, v) /\ (Queued(d) <=> Queued(c)) /\ (d.bootstrapped <=> c.bootstrapped)
      BY <1>2, <1>6, <2>1 DEF Credits
    <3>2. Busy(d) <=> Busy(c)
      BY <2>1 DEF Busy, Credits, TaskType
    <3>. QED
      BY <1>1, <3>1, <3>2 DEF Informed
  <2>2. CASE k.type \in {"bootstrap", "config"}
    BY <1>1, <1>3, <1>6, <2>2 DEF Informed
  <2>. QED
    BY <2>1, <2>2 DEF TaskType
<1>7. Underway(i, d, dd, y, o, v, NoTask)
  BY UnderwayRests
<1>. QED
  BY <1>4, <1>5, <1>6, <1>7 DEF Entry

LEMMA EntryRests ==
  ASSUME NEW i, NEW c, NEW dd, NEW w, NEW y, Alike(w, y), NEW o, NEW v, NEW k,
         NEW told, Entry(i, c, dd, w, o, v, k, told), NEW told2, told2 => told
  PROVE  Entry(i, c, dd, y, o, v, NoTask, told2)
<1>1. (Left(y, i, c) <=> Left(w, i, c)) /\ (Dropped(y, i, c) <=> Dropped(w, i, c))
  BY DEF Alike
<1>2. Underway(i, c, dd, y, o, v, NoTask)
  BY UnderwayRests
<1>. QED
  BY <1>1, <1>2 DEF Entry, Found, Credit, Informed

\* The end of a task, entry by entry
Concludes(k, ok, i, c, d, m, n) ==
    \/ d = c /\ (i \notin n => i \notin m)
    \/ /\ c.token[k.type] # 0 /\ Credits(k, ok, c, d)
       /\ i \notin n => IF k.type = "bundle" THEN i \notin m ELSE ok

LEMMA TracesOver ==
  ASSUME NEW c, NEW d, NEW dd, NEW w, NEW y, Alike(w, y), Announced(dd, y), NEW o, NEW v, NEW k, k.type \in TaskType,
         NEW m, Traces(c, dd, w, o, v, k, m), NEW ok, ok => EndsWell(k, w, o),
         NEW n, \A i \in Slots : Concludes(k, ok, i, c[i], d[i], m, n)
  PROVE  Traces(d, dd, y, o, v, NoTask, n)
<1>1. ASSUME NEW i \in Slots PROVE Entry(i, d[i], dd, y, o, v, NoTask, i \notin n)
  <2> DEFINE a == c[i]
             b == d[i]
             told  == i \notin m
             told2 == i \notin n
  <2>1. Entry(i, a, dd, w, o, v, k, told)
    BY DEF Traces
  <2>2. \/ b = a /\ (told2 => told)
        \/ a.token[k.type] # 0 /\ Credits(k, ok, a, b) /\ (told2 => IF k.type = "bundle" THEN told ELSE ok)
    BY DEF Concludes
  <2>. HIDE DEF a, b, told, told2
  <2>3. CASE b = a /\ (told2 => told)
    <3>1. Entry(i, a, dd, y, o, v, NoTask, told2)
      BY <2>1, <2>3, EntryRests
    <3>. QED
      BY <2>3, <3>1 DEF b, told2
  <2>4. CASE a.token[k.type] # 0 /\ Credits(k, ok, a, b) /\ (told2 => IF k.type = "bundle" THEN told ELSE ok)
    <3>1. Entry(i, b, dd, y, o, v, NoTask, told2)
      BY <2>1, <2>4, EntryCredited
    <3>. QED
      BY <3>1 DEF b, told2
  <2>. QED
    BY <2>2, <2>3, <2>4
<1>2. Numbered(NoTask, y, o, v)
  BY DEF Numbered, NoTask
<1>. QED
  BY <1>1, <1>2 DEF Traces


LEMMA CompletedCredits ==
  ASSUME NEW s, Good(s), NEW k, k.type \in TaskType, NEW ok \in BOOLEAN, NEW i \in SlotOf(s, k.id)
  PROVE  Credits(k, ok, s.context[i], Completed(s, k, ok).context[i])
<1> DEFINE Credited(c) == CASE k.type = "bootstrap" -> [c EXCEPT !.token["bootstrap"] = 0, !.bootstrapped = @ \/ ok]
                            [] k.type = "bundle" -> [c EXCEPT !.token["bundle"] = 0, !.bundled = @ \/ ok,
                                                              !.queued = IF ok THEN @ \ {"bundle"} ELSE @]
                            [] k.type = "config" -> [c EXCEPT !.token["config"] = 0]
           d == [j \in Slots |-> IF j \in SlotOf(s, k.id) THEN Credited(s.context[j]) ELSE s.context[j]]
           c == s.context[i]
<1>1. s \in Session /\ i \in Slots /\ c \in Context
  BY SessionFields DEF Good, SlotOf
<1>2. Completed(s, k, ok).context = d
  <2>1. Completed(s, k, ok) = [s EXCEPT !.context = d]
    BY DEF Completed
  <2>. HIDE DEF d
  <2>. QED
    BY <1>1, <2>1 DEF Session
<1>3. d[i] = Credited(c)
  BY <1>1
<1>. HIDE DEF d, c
<1>4. c.token \in [TaskType -> Numbers] /\ c.bootstrapped \in BOOLEAN /\ c.bundled \in BOOLEAN
  BY <1>1 DEF Context
<1> DEFINE n == [c.token EXCEPT ![k.type] = 0]
<1>5. \A t \in TaskType : t # k.type => n[t] = c.token[t]
  BY <1>4
<1>6. ASSUME k.type = "bootstrap" PROVE Credits(k, ok, c, d[i])
  <2> DEFINE b == c.bootstrapped \/ ok
             x == [c EXCEPT !.token = n, !.bootstrapped = b]
  <2>1. d[i] = x
    BY <1>3, <1>6
  <2>. HIDE DEF n, b, Credited
  <2>2. /\ x.used = c.used /\ x.id = c.id /\ x.frame = c.frame /\ x.token = n
        /\ x.bootstrapped = b /\ x.bundled = c.bundled /\ x.queued = c.queued
    BY <1>1 DEF Context
  <2>. HIDE DEF x
  <2>3. x.bootstrapped <=> c.bootstrapped \/ (k.type = "bootstrap" /\ ok)
    BY <1>6, <2>2 DEF b
  <2>4. x.bundled <=> c.bundled \/ (k.type = "bundle" /\ ok)
    <3>1. k.type # "bundle"
      BY <1>6
    <3>. QED
      BY <2>2, <3>1, Zenon
  <2>. QED
    BY <1>5, <2>1, <2>2, <2>3, <2>4 DEF Credits, Queued
<1>7. ASSUME k.type = "bundle" PROVE Credits(k, ok, c, d[i])
  <2> DEFINE b == c.bundled \/ ok
             q == IF ok THEN c.queued \ {"bundle"} ELSE c.queued
             x == [c EXCEPT !.token = n, !.bundled = b, !.queued = q]
  <2>1. d[i] = x
    BY <1>3, <1>7
  <2>2. /\ "config" \in q <=> "config" \in c.queued
        /\ "bootstrap" \in q <=> "bootstrap" \in c.queued
    OBVIOUS
  <2>. HIDE DEF n, b, q, Credited
  <2>3. /\ x.used = c.used /\ x.id = c.id /\ x.frame = c.frame /\ x.token = n
        /\ x.bootstrapped = c.bootstrapped /\ x.bundled = b /\ x.queued = q
    BY <1>1 DEF Context
  <2>. HIDE DEF x
  <2>4. x.bundled <=> c.bundled \/ (k.type = "bundle" /\ ok)
    BY <1>7, <2>3 DEF b
  <2>5. x.bootstrapped <=> c.bootstrapped \/ (k.type = "bootstrap" /\ ok)
    <3>1. k.type # "bootstrap"
      BY <1>7
    <3>. QED
      BY <2>3, <3>1, Zenon
  <2>. QED
    BY <1>5, <2>1, <2>2, <2>3, <2>4, <2>5 DEF Credits, Queued
<1>8. ASSUME k.type = "config" PROVE Credits(k, ok, c, d[i])
  <2> DEFINE x == [c EXCEPT !.token = n]
  <2>1. d[i] = x
    BY <1>3, <1>8
  <2>. HIDE DEF n, Credited
  <2>2. /\ x.used = c.used /\ x.id = c.id /\ x.frame = c.frame /\ x.token = n
        /\ x.bootstrapped = c.bootstrapped /\ x.bundled = c.bundled /\ x.queued = c.queued
    BY <1>1 DEF Context
  <2>. HIDE DEF x
  <2>3. k.type # "bundle" /\ k.type # "bootstrap"
    BY <1>8
  <2>4. /\ x.bundled <=> c.bundled \/ (k.type = "bundle" /\ ok)
        /\ x.bootstrapped <=> c.bootstrapped \/ (k.type = "bootstrap" /\ ok)
    BY <2>2, <2>3, Zenon
  <2>. QED
    BY <1>5, <2>1, <2>2, <2>4 DEF Credits, Queued
<1>9. Credits(k, ok, c, d[i])
  <2>1. k.type \in {"bootstrap", "bundle", "config"}
    BY DEF TaskType
  <2>. HIDE DEF n, Credited
  <2>. QED
    BY <1>6, <1>7, <1>8, <2>1
<1>. QED
  BY <1>2, <1>9 DEF c

LEMMA CompletedOthers ==
  ASSUME NEW s, Good(s), NEW k, NEW ok, NEW i \in Slots, i \notin SlotOf(s, k.id)
  PROVE  Completed(s, k, ok).context[i] = s.context[i]
<1> DEFINE Credited(c) == CASE k.type = "bootstrap" -> [c EXCEPT !.token["bootstrap"] = 0, !.bootstrapped = @ \/ ok]
                            [] k.type = "bundle" -> [c EXCEPT !.token["bundle"] = 0, !.bundled = @ \/ ok,
                                                              !.queued = IF ok THEN @ \ {"bundle"} ELSE @]
                            [] k.type = "config" -> [c EXCEPT !.token["config"] = 0]
           d == [j \in Slots |-> IF j \in SlotOf(s, k.id) THEN Credited(s.context[j]) ELSE s.context[j]]
<1>1. s \in Session
  BY DEF Good
<1>2. Completed(s, k, ok) = [s EXCEPT !.context = d]
  BY DEF Completed
<1>3. d[i] = s.context[i]
  OBVIOUS
<1>. HIDE DEF d
<1>. QED
  BY <1>1, <1>2, <1>3 DEF Session

\* The wire, when the host does not read it or drops a reply
Quiet == /\ Alike(wire, wire') /\ Announced(docs, wire')
         /\ UNCHANGED <<docs, orders, settings>>

LEMMA FinishTraced ==
  ASSUME IInv, Traced, at = "task", NEW ok \in BOOLEAN, Finish(ok), Quiet,
         ok => Active(session, task) /\ EndsWell(task, wire, orders)
  PROVE  Traced'
<1> DEFINE c == session.context
           d == session'.context
           mine == SlotOf(session, task.id)
<1>1. /\ at' = "tasks" /\ task' = NoTask
      /\ session' = IF Active(session, task) THEN Completed(session, task, ok) ELSE session
      /\ missed' = IF ~Active(session, task) \/ task.type = "bundle" THEN missed
                   ELSE IF ok THEN missed \ mine ELSE missed \cup mine
  BY DEF Finish
<1>2. task \in Task /\ Good(session) /\ task.type \in TaskType
  BY Parts, TaskFields
<1>3. Traces(c, docs, wire, orders, settings.version, task, missed)
  BY TracedParts
<1>4. ASSUME NEW i \in Slots PROVE Concludes(task, ok, i, c[i], d[i], missed, missed')
  <2>1. CASE ~Active(session, task)
    BY <1>1, <2>1 DEF Concludes
  <2>2. CASE Active(session, task) /\ i \notin mine
    <3>1. d[i] = c[i]
      BY <1>1, <1>2, <2>2, CompletedOthers
    <3>2. i \notin missed' => i \notin missed
      BY <1>1, <2>2
    <3>. QED
      BY <3>1, <3>2 DEF Concludes
  <2>3. CASE Active(session, task) /\ i \in mine
    <3>1. Credits(task, ok, c[i], d[i])
      BY <1>1, <1>2, <2>3, CompletedCredits
    <3>2. c[i].token[task.type] # 0
      <4>1. PICK j \in mine : task.token # 0 /\ c[j].token[task.type] = task.token
        BY <2>3 DEF Active
      <4>2. i = j
        BY <1>2, <2>3 DEF Good, WellFormed, SlotOf
      <4>. QED
        BY <4>1, <4>2
    <3>3. i \notin missed' => IF task.type = "bundle" THEN i \notin missed ELSE ok
      BY <1>1, <2>3
    <3>. QED
      BY <3>1, <3>2, <3>3 DEF Concludes
  <2>. QED
    BY <2>1, <2>2, <2>3
<1>5. Alike(wire, wire') /\ Announced(docs, wire') /\ UNCHANGED <<docs, orders, settings>>
  BY DEF Quiet
<1>. HIDE DEF c, d
<1>6. Traces(d, docs, wire', orders, settings.version, NoTask, missed')
  BY <1>2, <1>3, <1>4, <1>5, TracesOver
<1>7. Traces(session.context, docs, wire, orders, settings.version, task, missed)'
  BY <1>1, <1>5, <1>6 DEF d
<1>. QED
  BY <1>1, <1>7 DEF Traced, Closed, Rests

LEMMA FurtherTraced ==
  ASSUME IInv, Traced, at = "task", Quiet, UNCHANGED <<session, at, missed>>, GoesFurther(task, task', wire, orders)
  PROVE  Traced'
<1>1. Traces(session.context, docs, wire, orders, settings.version, task, missed)
  BY TracedParts
<1>2. Alike(wire, wire') /\ Announced(docs, wire') /\ UNCHANGED <<docs, orders, settings>>
  BY DEF Quiet
<1>3. task.step \in Nat /\ task.step > 0
  BY Parts
<1>4. Traces(session.context, docs, wire', orders, settings.version, task', missed)
  BY <1>1, <1>2, <1>3, TracesFurther
<1>5. Traces(session.context, docs, wire, orders, settings.version, task, missed)'
  BY <1>2, <1>4
<1>. QED
  BY <1>5 DEF Traced, Closed, Rests

LEMMA FailedTraced == ASSUME IInv, Traced, at = "task", Failed, Quiet PROVE Traced'
<1>1. CASE Script \in Injected /\ task.tries > 1
  <2>1. task' = [task EXCEPT !.tries = task.tries - 1, !.waits = 0] /\ UNCHANGED <<session, at, missed>>
    BY <1>1 DEF Failed
  <2>2. task \in Task
    BY Parts
  <2>3. GoesFurther(task, task', wire, orders)
    BY <2>1, <2>2 DEF GoesFurther, Task
  <2>. QED
    BY <2>1, <2>3, FurtherTraced
<1>2. CASE ~(Script \in Injected /\ task.tries > 1)
  <2>1. Finish(FALSE)
    BY <1>2 DEF Failed
  <2>. QED
    BY <2>1, FinishTraced
<1>. QED
  BY <1>1, <1>2

LEMMA SteppedTraced ==
  ASSUME IInv, Traced, at = "task", Stepped, Quiet, Active(session, task), task.waits # 0, Success(wire, task)
  PROVE  Traced'
<1>1. Succeeded(wire, orders, task)
  BY TracedParts, SuccessAlone DEF Traces
<1>2. CASE task.step < Len(Steps(task.type))
  <2>1. task' = [task EXCEPT !.step = task.step + 1, !.tries = Tries, !.waits = 0] /\ UNCHANGED <<session, at, missed>>
    BY <1>2 DEF Stepped
  <2>2. task \in Task
    BY Parts
  <2>3. GoesFurther(task, task', wire, orders)
    BY <1>1, <2>1, <2>2 DEF GoesFurther, Task
  <2>. QED
    BY <2>1, <2>3, FurtherTraced
<1>3. CASE ~(task.step < Len(Steps(task.type)))
  <2>1. Finish(TRUE)
    BY <1>3 DEF Stepped
  <2>2. task.step \in 1..Len(Steps(task.type)) /\ task.type \in TaskType
    BY Parts, TaskFields
  <2>3. task.step = Len(Steps(task.type))
    BY <1>3, <2>2, StepsType
  <2>4. EndsWell(task, wire, orders)
    BY <1>1, <2>3 DEF EndsWell
  <2>. QED
    BY <2>1, <2>4, FinishTraced
<1>. QED
  BY <1>2, <1>3

LEMMA WaitTraced == ASSUME IInv, Traced, Wait PROVE Traced'
<1>1. at = "task" /\ wire # <<>> /\ task.waits # 0 /\ Active(session, task) /\ UNCHANGED <<docs, orders, settings>>
  BY DEF Wait
<1>2. wire \in Seq(Event) /\ Announced(docs, wire)
  BY Parts, TracedParts DEF Traces
<1>3. CASE Head(wire).type = "reply"
  <2>1. wire' = Tail(wire)
    BY <1>3 DEF Wait
  <2>2. Alike(wire, Tail(wire)) /\ Announced(docs, Tail(wire))
    BY <1>1, <1>2, <1>3, AlikeReply, ReadAnnounced
  <2>3. Quiet
    BY <1>1, <2>1, <2>2 DEF Quiet
  <2>4. CASE Head(wire).id # task.waits
    <3>1. UNCHANGED <<session, at, task, missed>>
      BY <1>3, <2>4 DEF Wait
    <3>2. Traces(session.context, docs, wire, orders, settings.version, task, missed) /\ Good(session) /\ task \in Task
      BY TracedParts, Parts
    <3>3. \A i \in Slots : Follows(Head(wire), i, session.context[i], session.context[i])
      <4>1. \A i, c : ~Resets(Head(wire), i, c)
        BY <1>3 DEF Resets, Drops, Ends
      <4>. QED
        BY <4>1, SameFollows
    <3>4. missed = {i \in missed : session.context[i].generation = session.context[i].generation}
      OBVIOUS
    <3>5. task.type \in TaskType
      BY <3>2, TaskFields
    <3>6. Traces(session.context, docs, Tail(wire), orders, settings.version, task, missed)
      BY <1>1, <1>2, <3>2, <3>3, <3>4, <3>5, TracesHeard
    <3>7. Traces(session.context, docs, wire, orders, settings.version, task, missed)'
      BY <1>1, <2>1, <3>1, <3>6
    <3>. QED
      BY <1>1, <3>1, <3>7 DEF Traced, Closed, Rests
  <2>5. CASE Head(wire).id = task.waits /\ Head(wire).note = "ok"
    <3>1. Stepped
      BY <1>3, <2>5 DEF Wait
    <3>2. Success(wire, task)
      BY <1>1, <1>2, <1>3, <2>5, ReadReplies DEF Answer
    <3>. QED
      BY <1>1, <2>3, <3>1, <3>2, SteppedTraced
  <2>6. CASE Head(wire).id = task.waits /\ Head(wire).note # "ok"
    <3>1. Failed
      BY <1>3, <2>6 DEF Wait
    <3>. QED
      BY <1>1, <2>3, <3>1, FailedTraced
  <2>. QED
    BY <2>4, <2>5, <2>6
<1>4. CASE Head(wire).type # "reply"
  <2>1. Dispatch /\ UNCHANGED <<at, task>>
    BY <1>4 DEF Wait
  <2>. QED
    BY <1>1, <2>1, DispatchTraced
<1>. QED
  BY <1>3, <1>4

\* The wire is not touched.
LEMMA QuietStands ==
  ASSUME Traced, UNCHANGED <<docs, orders, settings, wire>> PROVE Quiet
  BY DEF Quiet, Alike, Traced, Traces

LEMMA TimeoutTraced == ASSUME IInv, Traced, Timeout PROVE Traced'
<1>1. at = "task" /\ Failed /\ UNCHANGED <<docs, orders, settings, wire>>
  BY DEF Timeout
<1>. QED
  BY <1>1, QuietStands, FailedTraced

LEMMA AbandonTraced == ASSUME IInv, Traced, Abandon PROVE Traced'
<1>1. at = "task" /\ Finish(FALSE) /\ UNCHANGED <<docs, orders, settings, wire>>
  BY DEF Abandon
<1>. QED
  BY <1>1, QuietStands, FinishTraced


-----------------------------------------------------------------------------
(* The loop of the host between its tasks                                  *)

\* An entry that goes on to claim what it did, or is to be told; whether the
\* settings are the same.
Restates(c, d, same) ==
    /\ d.used = c.used /\ d.id = c.id /\ d.frame = c.frame
    /\ d.bootstrapped = c.bootstrapped /\ d.bundled = c.bundled
    /\ d.used /\ d.bootstrapped => Queued(d) \/ Busy(d) \/ (same /\ ~Queued(c) /\ ~Busy(c))

\* A task that has not begun
Begins(l) == l.step \in {0, 1} /\ l.waits = 0 /\ l.type \in TaskType

LEMMA NoTaskBegins == Begins(NoTask)
  BY DEF Begins, NoTask, TaskType

LEMMA EntryRestated ==
  ASSUME NEW i, NEW c, NEW d, NEW dd, NEW w, NEW o, NEW v, NEW u, NEW k, NEW told, Entry(i, c, dd, w, o, v, k, told),
         Restates(c, d, u = v), NEW l, Begins(l)
  PROVE  Entry(i, d, dd, w, o, u, l, told)
<1>1. /\ Left(w, i, d) <=> Left(w, i, c)
      /\ Dropped(w, i, d) <=> Dropped(w, i, c)
      /\ Place(i, d) = Place(i, c)
  BY StaysMeaning DEF Restates
<1> SUFFICES ASSUME d.used PROVE Entry(i, d, dd, w, o, u, l, told)
  BY DEF Entry
<1>2. /\ Found(i, c, dd, w) /\ Credit(i, c, dd, w)
      /\ told => Informed(i, c, dd, w, o, v)
  BY DEF Entry, Restates
<1>3. Found(i, d, dd, w)
  BY <1>1, <1>2 DEF Found, Restates
<1>4. Credit(i, d, dd, w)
  BY <1>1, <1>2 DEF Credit, Restates
<1>5. Underway(i, d, dd, w, o, u, l)
  BY DEF Underway, Begins
<1>6. told => Informed(i, d, dd, w, o, u)
  BY <1>1, <1>2 DEF Informed, Restates
<1>. QED
  BY <1>3, <1>4, <1>5, <1>6 DEF Entry

LEMMA TracesRestated ==
  ASSUME NEW c, NEW d, NEW dd, NEW w, NEW o, NEW v, NEW u, NEW k, NEW m, Traces(c, dd, w, o, v, k, m),
         NEW l, Begins(l), \A i \in Slots : Restates(c[i], d[i], u = v) \/ (i = 0 /\ Anew(d[i]))
  PROVE  Traces(d, dd, w, o, u, l, m)
<1>1. ASSUME NEW i \in Slots PROVE Entry(i, d[i], dd, w, o, u, l, i \notin m)
  <2> DEFINE a == c[i]
             b == d[i]
             told == i \notin m
  <2>1. Entry(i, a, dd, w, o, v, k, told) /\ (Restates(a, b, u = v) \/ (i = 0 /\ Anew(b)))
    BY DEF Traces
  <2>. HIDE DEF a, b, told
  <2>2. CASE Restates(a, b, u = v)
    <3>1. Entry(i, b, dd, w, o, u, l, told)
      BY <2>1, <2>2, EntryRestated
    <3>. QED
      BY <3>1 DEF b, told
  <2>3. CASE i = 0 /\ Anew(b)
    <3>1. Found(i, b, dd, w) /\ l.type \in TaskType
      BY <2>3 DEF Found, Begins
    <3>2. Entry(i, b, dd, w, o, u, l, told)
      BY <2>3, <3>1, EntryAnew
    <3>. QED
      BY <3>2 DEF b, told
  <2>. QED
    BY <2>1, <2>2, <2>3
<1>2. Numbered(l, w, o, u)
  BY DEF Numbered, Begins
<1>. QED
  BY <1>1, <1>2 DEF Traces

\* cx_session_next(): a context that is taken a task from has it in flight.
LEMMA ScannedRestates ==
  ASSUME NEW s, Good(s), NEW before, Backed(s.context, FALSE, before), NEW i \in Slots, NEW same, same
  PROVE  Restates(s.context[i], Scanned(s).context[i], same)
<1> DEFINE c == s.context
           kind(j) == Due(c[j])
           Refuse(j) == [c[j] EXCEPT !.queued = @ \ {"bundle"}]
           Take(j) == [c[j] EXCEPT !.queued = @ \ {kind(j)}, !.token[kind(j)] = Serial(s.serial)]
           d == [j \in Slots |-> CASE j \in Refused(s) -> Refuse(j)
                                  [] j \in Chosen(s) -> Take(j)
                                  [] OTHER -> c[j]]
           n == IF Chosen(s) = {} THEN s.serial ELSE Serial(s.serial)
           a == c[i]
           b == d[i]
<1>1. /\ s \in Session /\ a \in Context /\ s.serial \in Numbers
      /\ Serial(s.serial) \in Numbers /\ Serial(s.serial) # 0
  BY SessionFields, Constants DEF Good
<1>2. Scanned(s).context = d
  <2>1. Scanned(s) = [s EXCEPT !.serial = n, !.context = d]
    BY DEF Scanned
  <2>. HIDE DEF n, d
  <2>. QED
    BY <1>1, <2>1 DEF Session
<1>3. a.token \in [TaskType -> Numbers] /\ (\A t \in TaskType : a.token[t] = 0) /\ ~Busy(a)
  <2>1. \A t \in TaskType : a.token[t] = 0
    BY DEF Backed
  <2>. QED
    BY <1>1, <2>1 DEF Busy, TaskType, Context
<1>4. CASE i \in Refused(s)
  <2> DEFINE q == a.queued \ {"bundle"}
  <2>0. i \notin Chosen(s)
    <3>1. \A j \in Chosen(s) : Rank(i) < Rank(j)
      BY <1>4 DEF Refused
    <3>2. Rank(i) \in Int
      BY Constants DEF Rank, Slots
    <3>. QED
      BY <3>1, <3>2
  <2>1. b = [a EXCEPT !.queued = q]
    BY <1>4, <2>0
  <2>2. /\ "config" \in q <=> "config" \in a.queued
        /\ "bootstrap" \in q <=> "bootstrap" \in a.queued
    OBVIOUS
  <2>. HIDE DEF q, a, b
  <2>3. /\ b.used = a.used /\ b.id = a.id /\ b.frame = a.frame /\ b.queued = q
        /\ b.bootstrapped = a.bootstrapped /\ b.bundled = a.bundled
    BY <1>1, <2>1 DEF Context
  <2>4. Queued(b) <=> Queued(a)
    BY <2>2, <2>3 DEF Queued
  <2>5. Restates(a, b, same)
    BY <1>3, <2>3, <2>4 DEF Restates
  <2>. QED
    BY <1>2, <2>5 DEF a, b
<1>5. CASE i \in Chosen(s) /\ i \notin Refused(s)
  <2> DEFINE t == Due(a)
             m == Serial(s.serial)
             q == a.queued \ {t}
             k == [a.token EXCEPT ![t] = m]
  <2>1. b = [a EXCEPT !.queued = q, !.token = k]
    BY <1>5
  <2>2. t \in TaskType
    <3>1. Due(s.context[i]) # "none"
      BY <1>5 DEF Chosen, Startable
    <3>. QED
      BY <3>1, DueType
  <2>3. m # 0
    BY <1>1
  <2>. HIDE DEF a, b, t, m
  <2>4. /\ t = "bootstrap" => k["bootstrap"] # 0
        /\ t = "config" => k["config"] # 0
    BY <1>3, <2>2, <2>3 DEF TaskType
  <2>5. /\ t = "bundle" /\ "config" \in a.queued => "config" \in q
        /\ t = "bundle" /\ "bootstrap" \in a.queued => "bootstrap" \in q
    OBVIOUS
  <2>. HIDE DEF q, k
  <2>6. /\ b.used = a.used /\ b.id = a.id /\ b.frame = a.frame /\ b.queued = q /\ b.token = k
        /\ b.bootstrapped = a.bootstrapped /\ b.bundled = a.bundled
    BY <1>1, <2>1 DEF Context
  <2>7. Busy(b) \/ (Queued(a) => Queued(b))
    BY <2>2, <2>4, <2>5, <2>6 DEF Busy, Queued, TaskType
  <2>8. Restates(a, b, same)
    BY <1>3, <2>6, <2>7 DEF Restates
  <2>. QED
    BY <1>2, <2>8 DEF a, b
<1>6. CASE i \notin Chosen(s) /\ i \notin Refused(s)
  <2>1. b = a
    BY <1>6
  <2>. HIDE DEF a, b
  <2>2. Restates(a, b, same)
    BY <1>3, <2>1 DEF Restates
  <2>. QED
    BY <1>2, <2>2 DEF a, b
<1>. QED
  BY <1>4, <1>5, <1>6

LEMMA NextTaskTraced == ASSUME IInv, Traced, NextTask PROVE Traced'
<1> DEFINE c == session.context
           d == Scanned(session).context
<1>1. /\ at = "tasks" /\ session' = Scanned(session) /\ UNCHANGED <<docs, orders, wire, settings, missed>>
  BY DEF NextTask
<1>2. Good(session) /\ Backed(c, FALSE, task)
  BY <1>1, Parts
<1>3. Traces(c, docs, wire, orders, settings.version, task, missed) /\ task = NoTask
  BY <1>1, TracedParts
<1>4. Begins(task') /\ Closed' /\ Rests'
  <2>1. CASE at' = "top" /\ UNCHANGED task
    BY <1>3, <2>1, NoTaskBegins DEF Closed, Rests
  <2>2. ASSUME NEW i \in Chosen(session), at' = "task",
               task' = [NoTask EXCEPT !.type = Due(session.context[i]), !.id = session.context[i].id,
                                      !.generation = session.context[i].generation,
                                      !.token = Serial(session.serial), !.step = 1, !.tries = Tries]
        PROVE  Begins(task') /\ Closed' /\ Rests'
    <3>1. Due(session.context[i]) \in TaskType
      BY DueType DEF Chosen, Startable
    <3>2. task'.step = 1 /\ task'.waits = 0 /\ task'.type = Due(session.context[i])
      BY <2>2 DEF NoTask
    <3>. QED
      BY <2>2, <3>1, <3>2 DEF Begins, Closed, Rests
  <2>. QED
    BY <2>1, <2>2 DEF NextTask
<1>5. \A i \in Slots : Restates(c[i], d[i], settings.version = settings.version)
  BY <1>2, ScannedRestates
<1>. HIDE DEF c, d
<1>6. Traces(d, docs, wire, orders, settings.version, task', missed)
  BY <1>3, <1>4, <1>5, TracesRestated
<1>7. Traces(session.context, docs, wire, orders, settings.version, task, missed)'
  BY <1>1, <1>6 DEF d
<1>. QED
  BY <1>4, <1>7 DEF Traced

\* cx_session_update_config(): a context that may show the settings is queued to
\* be told the new ones.
LEMMA UpdatedRestates ==
  ASSUME NEW s, Good(s), NEW before, Backed(s.context, FALSE, before), NEW on \in BOOLEAN, NEW i \in Slots, NEW same
  PROVE  Restates(s.context[i], ConfigUpdated(s, on).context[i], same)
<1> DEFINE q(c) == c.queued \cup (IF c.bootstrapped \/ c.token["bootstrap"] # 0 THEN {"config"} ELSE {})
                            \cup (IF on /\ c.ready /\ ~c.bundled /\ c.token["bundle"] = 0 THEN {"bundle"} ELSE {})
           n(c) == IF c.bootstrapped \/ c.token["bootstrap"] # 0 THEN 0 ELSE c.token["config"]
           GivenSettings(c) == [c EXCEPT !.disabled = FALSE, !.queued = q(c), !.token = [c.token EXCEPT !["config"] = n(c)]]
           d == [j \in Slots |-> IF s.context[j].used THEN GivenSettings(s.context[j]) ELSE s.context[j]]
           a == s.context[i]
           b == d[i]
<1>1. s \in Session /\ a \in Context
  BY SessionFields DEF Good
<1>2. ConfigUpdated(s, on).context = d
  <2>1. ConfigUpdated(s, on) = [s EXCEPT !.enabled = on, !.context = d]
    BY DEF ConfigUpdated
  <2>. HIDE DEF d
  <2>. QED
    BY <1>1, <2>1 DEF Session
<1>3. CASE ~a.used
  <2>1. b = a
    BY <1>3
  <2>. HIDE DEF a, b
  <2>2. Restates(a, b, same)
    BY <1>3, <2>1 DEF Restates
  <2>. QED
    BY <1>2, <2>2 DEF a, b
<1>4. CASE a.used
  <2> DEFINE p == q(a)
             m == [a.token EXCEPT !["config"] = n(a)]
  <2>1. b = [a EXCEPT !.disabled = FALSE, !.queued = p, !.token = m]
    BY <1>4
  <2>2. a.bootstrapped => "config" \in p
    OBVIOUS
  <2>. HIDE DEF p, m, a, b
  <2>3. /\ b.used = a.used /\ b.id = a.id /\ b.frame = a.frame /\ b.queued = p
        /\ b.bootstrapped = a.bootstrapped /\ b.bundled = a.bundled
    BY <1>1, <2>1 DEF Context
  <2>4. Restates(a, b, same)
    BY <2>2, <2>3 DEF Restates, Queued
  <2>. QED
    BY <1>2, <2>4 DEF a, b
<1>. QED
  BY <1>3, <1>4

LEMMA TurnTraced == ASSUME IInv, Traced, Turn PROVE Traced'
<1> DEFINE c == session.context
           d == session'.context
<1>1. at = "top" /\ at' = "read" /\ UNCHANGED <<docs, orders, wire, task, missed>>
  BY DEF Turn
<1>2. Good(session) /\ Backed(c, FALSE, task)
  BY <1>1, Parts
<1>3. Traces(c, docs, wire, orders, settings.version, task, missed) /\ task = NoTask
  BY <1>1, TracedParts
<1>4. CASE UNCHANGED <<session, settings>>
  <2>1. Traces(session.context, docs, wire, orders, settings.version, task, missed)'
    BY <1>1, <1>3, <1>4
  <2>. QED
    BY <1>1, <1>3, <2>1 DEF Traced, Closed, Rests
<1>5. ASSUME NEW on \in BOOLEAN, session' = ConfigUpdated(session, on) PROVE Traced'
  <2>1. \A i \in Slots : Restates(c[i], d[i], settings'.version = settings.version)
    BY <1>2, <1>5, UpdatedRestates
  <2>. HIDE DEF c, d
  <2>2. Traces(d, docs, wire, orders, settings'.version, NoTask, missed)
    BY <1>3, <2>1, NoTaskBegins, TracesRestated
  <2>3. Traces(session.context, docs, wire, orders, settings.version, task, missed)'
    BY <1>1, <1>3, <2>2 DEF d
  <2>. QED
    BY <1>1, <1>3, <2>3 DEF Traced, Closed, Rests
<1>. QED
  BY <1>4, <1>5 DEF Turn

\* cx_session_request_top_ensure(): what a context is given once more does not
\* change what it is.
LEMMA EnsuredRestates ==
  ASSUME NEW s, Good(s), NEW before, Backed(s.context, FALSE, before), NEW i \in Slots, NEW same, same
  PROVE  Restates(s.context[i], TopEnsured(s).context[i], same) \/ (i = 0 /\ Anew(TopEnsured(s).context[i]))
<1> DEFINE tops == {j \in 1..MaxContexts : s.context[j].used /\ s.top \in {NoFrame, s.context[j].frame}}
           slot == IF tops = {} THEN 0 ELSE CHOOSE j \in tops : \A g \in tops : g <= j
           new  == slot = 0 /\ ~s.context[0].used
           made == [Unused EXCEPT !.used = TRUE, !.frame = s.top, !.kind = s.target]
           base == IF new THEN Reset(made, Serial(s.generation)) ELSE s.context[slot]
           told == [base EXCEPT !.queued = @ \cup {"bootstrap", "bundle"}, !.ready = TRUE]
           d    == [s.context EXCEPT ![slot] = told]
           g    == IF new THEN Serial(s.generation) ELSE s.generation
           a    == s.context[i]
           b    == d[i]
<1>1. /\ s \in Session /\ a \in Context /\ s.context \in [Slots -> Context]
      /\ s.top \in Frames \cup {NoFrame} /\ s.target \in AnyKind /\ Serial(s.generation) \in Numbers
  BY SessionFields, Constants DEF Good
<1>2. TopEnsured(s).context = d
  <2>1. TopEnsured(s) = [s EXCEPT !.context = d, !.generation = g]
    BY DEF TopEnsured
  <2>. HIDE DEF d, g
  <2>. QED
    BY <1>1, <2>1 DEF Session
<1>3. ~Busy(a)
  BY DEF Backed, Busy, TaskType
<1>4. CASE i # slot
  <2>1. b = a
    BY <1>1, <1>4
  <2>. HIDE DEF a, b
  <2>2. Restates(a, b, same)
    BY <1>3, <2>1 DEF Restates
  <2>. QED
    BY <1>2, <2>2 DEF a, b
<1>5. CASE i = slot /\ ~new
  <2> DEFINE q == a.queued \cup {"bootstrap", "bundle"}
  <2>1. b = [a EXCEPT !.queued = q, !.ready = TRUE]
    <3>1. b = told
      <4>. HIDE DEF told, slot
      <4>. QED
        BY <1>1, <1>5
    <3>2. base = a
      <4>. HIDE DEF slot, new
      <4>. QED
        BY <1>5
    <3>. HIDE DEF base, b
    <3>. QED
      BY <3>1, <3>2
  <2>2. "bootstrap" \in q
    OBVIOUS
  <2>. HIDE DEF a, b, q
  <2>3. /\ b.used = a.used /\ b.id = a.id /\ b.frame = a.frame /\ b.queued = q
        /\ b.bootstrapped = a.bootstrapped /\ b.bundled = a.bundled
    BY <1>1, <2>1 DEF Context
  <2>4. Restates(a, b, same)
    BY <2>2, <2>3 DEF Restates, Queued
  <2>. QED
    BY <1>2, <2>4 DEF a, b
<1>6. CASE i = slot /\ new
  <2>1. made \in Context
    BY <1>1, UnusedType DEF Context, Unused
  <2> DEFINE r == Reset(made, Serial(s.generation))
             q == r.queued \cup {"bootstrap", "bundle"}
  <2>2. r \in Context /\ Anew(r)
    <3>. HIDE DEF made
    <3>. QED
      BY <1>1, <2>1, ResetType, AnewReset
  <2>3. b = [r EXCEPT !.queued = q, !.ready = TRUE]
    BY <1>1, <1>6
  <2>. HIDE DEF b, r, q
  <2>4. Anew(b)
    BY <2>2, <2>3 DEF Anew, Context
  <2>5. i = 0
    BY <1>6
  <2>. QED
    BY <1>2, <2>4, <2>5 DEF b
<1>. QED
  BY <1>4, <1>5, <1>6

LEMMA EnsureTraced == ASSUME IInv, Traced, Ensure PROVE Traced'
<1> DEFINE c == session.context
           d == session'.context
<1>1. /\ at = "read" /\ at' = "tasks" /\ session' = TopEnsured(session)
      /\ UNCHANGED <<docs, orders, wire, task, settings, missed>>
  BY DEF Ensure
<1>2. Good(session) /\ Backed(c, FALSE, task)
  BY <1>1, Parts
<1>3. Traces(c, docs, wire, orders, settings.version, task, missed) /\ task = NoTask
  BY <1>1, TracedParts
<1>4. \A i \in Slots : Restates(c[i], d[i], settings.version = settings.version) \/ (i = 0 /\ Anew(d[i]))
  BY <1>1, <1>2, EnsuredRestates
<1>. HIDE DEF c, d
<1>5. Traces(d, docs, wire, orders, settings.version, NoTask, missed)
  BY <1>3, <1>4, NoTaskBegins, TracesRestated
<1>6. Traces(session.context, docs, wire, orders, settings.version, task, missed)'
  BY <1>1, <1>3, <1>5 DEF d
<1>. QED
  BY <1>1, <1>3, <1>6 DEF Traced, Closed, Rests


-----------------------------------------------------------------------------
(* A command is sent                                                       *)

LEMMA SentMeaning ==
  ASSUME NEW o \in Seq(Command), NEW x \in Command
  PROVE  /\ Len(Append(o, x)) = Len(o) + 1 /\ Len(o) + 1 \in DOMAIN Append(o, x) /\ Append(o, x)[Len(o) + 1] = x
         /\ \A p \in DOMAIN o : Append(o, x)[p] = o[p]
         /\ \A p \in DOMAIN Append(o, x) : p \in DOMAIN o \/ p = Len(o) + 1
  OBVIOUS

LEMMA SettledSent ==
  ASSUME NEW f, NEW dd, NEW o \in Seq(Command), NEW v, Settled(f, dd, o, v), NEW x \in Command, x.settings = v
  PROVE  Settled(f, dd, Append(o, x), v)
  BY SentMeaning DEF Settled

LEMMA EntrySent ==
  ASSUME NEW i, NEW c, NEW dd, NEW w, NEW o \in Seq(Command), NEW v, NEW k, NEW told, Entry(i, c, dd, w, o, v, k, told),
         NEW x \in Command, x.settings = v, NEW l, l.type = k.type, l.step = k.step, ~Success(w, l)
  PROVE  Entry(i, c, dd, w, Append(o, x), v, l, told)
<1> DEFINE p == Append(o, x)
           f == Place(i, c)
<1>1. Shows(f, dd, o, v) => Shows(f, dd, p, v)
  BY SettledSent DEF Shows
<1>. HIDE DEF p
<1> SUFFICES ASSUME c.used PROVE Entry(i, c, dd, w, p, v, l, told)
  BY DEF Entry, p
<1>2. /\ Found(i, c, dd, w) /\ Credit(i, c, dd, w) /\ Underway(i, c, dd, w, o, v, k)
      /\ told => Informed(i, c, dd, w, o, v)
  BY DEF Entry
<1>3. Underway(i, c, dd, w, p, v, l)
  BY <1>1, <1>2 DEF Underway
<1>4. told => Informed(i, c, dd, w, p, v)
  BY <1>1, <1>2 DEF Informed
<1>. QED
  BY <1>2, <1>3, <1>4 DEF Entry

LEMMA TracesSent ==
  ASSUME NEW c, NEW dd, NEW w, NEW o \in Seq(Command), NEW v, NEW k, NEW m, Traces(c, dd, w, o, v, k, m),
         NEW x \in Command, x.settings = v, NEW l, l.type = k.type, l.step = k.step, ~Success(w, l),
         Numbered(l, w, Append(o, x), v)
  PROVE  Traces(c, dd, w, Append(o, x), v, l, m)
<1>1. ASSUME NEW i \in Slots PROVE Entry(i, c[i], dd, w, Append(o, x), v, l, i \notin m)
  <2> DEFINE a == c[i]
             told == i \notin m
  <2>1. Entry(i, a, dd, w, o, v, k, told)
    BY DEF Traces
  <2>. HIDE DEF a, told
  <2>2. Entry(i, a, dd, w, Append(o, x), v, l, told)
    BY <2>1, EntrySent
  <2>. QED
    BY <2>2 DEF a, told
<1>. QED
  BY <1>1 DEF Traces

LEMMA SendTraced == ASSUME IInv, Traced, Send PROVE Traced'
<1>1. PICK n \in Fresh :
          /\ orders' = Append(orders, [number |-> n, id |-> task.id, script |-> Script,
                                       settings |-> settings.version, on |-> settings.on])
          /\ task' = [task EXCEPT !.waits = n]
  BY DEF Send
<1>2. at = "task" /\ UNCHANGED <<docs, wire, session, at, settings, missed>>
  BY DEF Send
<1> DEFINE x == [number |-> n, id |-> task.id, script |-> Script, settings |-> settings.version, on |-> settings.on]
<1>3. /\ task \in Task /\ orders \in Seq(Command) /\ wire \in Seq(Event)
      /\ Traces(session.context, docs, wire, orders, settings.version, task, missed)
  BY Parts, TracedParts
<1>4. /\ task'.type = task.type /\ task'.step = task.step /\ task'.id = task.id /\ task'.waits = n
  BY <1>1, <1>3 DEF Task
<1>5. x \in Command
  <2>1. task.step \in 1..Len(Steps(task.type)) /\ task.type \in TaskType
    BY <1>2, <1>3, Parts, TaskFields
  <2>2. Script \in Scripts
    BY <2>1, StepsType DEF Script
  <2>3. n \in Nat
    BY DEF Fresh
  <2>. QED
    BY <1>3, <2>2, <2>3, Parts, TaskFields DEF Command
<1>6. x.number = n /\ x.id = task'.id /\ x.script = Now(task') /\ x.settings = settings.version
  BY <1>4 DEF Script, Now
<1>7. /\ n \notin {orders[p].number : p \in DOMAIN orders}
      /\ n \notin {wire[q].id : q \in {r \in DOMAIN wire : wire[r].type = "reply"}}
  BY DEF Fresh, Pending
<1>8. ~Answered(wire, task') /\ ~Success(wire, task')
  BY <1>4, <1>7 DEF Answered, Success, Answer
<1>. HIDE DEF x
<1> DEFINE o == Append(orders, x)
<1>9. orders' = o
  BY <1>1 DEF x
<1>10. Numbered(task', wire, o, settings.version)
  <2>1. ASSUME NEW p \in DOMAIN o, o[p].number = n PROVE Last(p, o, task', settings.version)
    <3>1. p \notin DOMAIN orders
      BY <1>3, <1>5, <1>7, <2>1, SentMeaning
    <3>2. p = Len(o) /\ o[p] = x
      BY <1>3, <1>5, <3>1, SentMeaning
    <3>. HIDE DEF o
    <3>. QED
      BY <1>6, <3>2 DEF Last
  <2>. HIDE DEF o
  <2>. QED
    BY <1>4, <1>8, <2>1 DEF Numbered
<1>11. Traces(session.context, docs, wire, o, settings.version, task', missed)
  BY <1>3, <1>4, <1>5, <1>6, <1>8, <1>10, TracesSent
<1>12. Traces(session.context, docs, wire, orders, settings.version, task, missed)'
  BY <1>2, <1>9, <1>11
<1>. QED
  BY <1>2, <1>12 DEF Traced, Closed, Rests

-----------------------------------------------------------------------------
(* The page is opened and closed                                           *)

LEMMA NewSessionEmpty == ASSUME NEW enabled, NEW tree, NEW i \in Slots PROVE ~NewSession(enabled, tree).context[i].used
  BY DEF NewSession, Unused

LEMMA OpenTraced == ASSUME IInv, Traced, Open PROVE Traced'
<1>1. PICK tree \in BOOLEAN : session' = NewSession(settings.on, tree)
  BY DEF Open
<1>2. /\ at' = "top" /\ wire' = Each("created", Live(Frames)) /\ orders' = <<>> /\ task' = NoTask
      /\ UNCHANGED <<docs, settings>>
  BY DEF Open
<1>3. docs \in [Frames -> Document] /\ Distinct(docs)
  BY Parts, TracedParts
<1>4. \A i \in Slots : ~session'.context[i].used
  BY <1>1, NewSessionEmpty
<1>5. Announced(docs, wire')
  <2>1. \A e : In(e, wire') => docs[e.frame].id = e.id
    <3>1. "created" \in EventType /\ Frames \in SUBSET Frames
      BY DEF EventType
    <3>2. \A e : In(e, Each("created", Live(Frames))) => e.frame \in Frames /\ e.id = docs[e.frame].id
      BY <1>3, <3>1, EachMeaning
    <3>. QED
      BY <1>2, <3>2
  <2>2. \A p \in DOMAIN wire' : In(wire'[p], wire')
    BY DEF In
  <2>. QED
    BY <2>1, <2>2 DEF Announced, Shown
<1>6. Traces(session'.context, docs, wire', orders', settings.version, NoTask, missed')
  BY <1>3, <1>4, <1>5, EmptyTraces
<1>7. Traces(session.context, docs, wire, orders, settings.version, task, missed)'
  BY <1>2, <1>6
<1>. QED
  BY <1>2, <1>7 DEF Traced, Closed, Rests

LEMMA CloseTraced == ASSUME IInv, Traced, Close PROVE Traced'
<1>1. /\ at' = "closed" /\ wire' = <<>> /\ orders' = <<>> /\ task' = NoTask /\ UNCHANGED <<docs, settings>>
      /\ session' = NewSession(settings.on, FALSE)
  BY DEF Close
<1>2. \A i \in Slots : ~session'.context[i].used
  BY <1>1, NewSessionEmpty
<1>3. Distinct(docs) /\ Announced(docs, wire')
  BY <1>1, TracedParts, NothingAnnounced
<1>4. Traces(session'.context, docs, wire', orders', settings.version, NoTask, missed')
  BY <1>2, <1>3, EmptyTraces
<1>5. Traces(session.context, docs, wire, orders, settings.version, task, missed)'
  BY <1>1, <1>4
<1>. QED
  BY <1>1, <1>2, <1>5 DEF Traced, Closed, Rests

LEMMA InitTraced == Init => Traced
<1> SUFFICES ASSUME Init PROVE Traced
  OBVIOUS
<1>1. /\ orders = <<>> /\ wire = <<>> /\ session = NewSession(settings.on, FALSE) /\ at = "closed" /\ task = NoTask
      /\ \E kind \in Kinds, id \in Ids : docs = [f \in Frames |-> IF f = Top THEN Loading(id, kind) ELSE NoDocument]
  BY DEF Init
<1>2. \A i \in Slots : ~session.context[i].used
  BY <1>1, NewSessionEmpty
<1>3. Distinct(docs) /\ Announced(docs, wire)
  <2>1. NoDocument.id = 0
    BY DEF NoDocument
  <2>. QED
    BY <1>1, <2>1, NothingAnnounced DEF Distinct
<1>4. Traces(session.context, docs, wire, orders, settings.version, task, missed)
  BY <1>1, <1>2, <1>3, EmptyTraces
<1>. QED
  BY <1>1, <1>2, <1>4 DEF Traced, Closed, Rests

-----------------------------------------------------------------------------
(* What the host holds                                                     *)

LEMMA StepTraced == IInv /\ Traced /\ [Next]_vars => Traced'
<1> SUFFICES ASSUME IInv, Traced, [Next]_vars PROVE Traced'
  OBVIOUS
<1>1. CASE Open
  BY <1>1, OpenTraced
<1>2. CASE Turn
  BY <1>2, TurnTraced
<1>3. CASE ReadEvent
  BY <1>3, DispatchTraced DEF ReadEvent
<1>4. CASE ReadEnd
  <2>1. /\ at = "read" /\ at' = "tasks" /\ UNCHANGED <<docs, orders, wire, session, task, settings, missed>>
    BY <1>4 DEF ReadEnd
  <2>2. Traces(session.context, docs, wire, orders, settings.version, task, missed)'
    BY <2>1, TracedParts
  <2>. QED
    BY <2>1, <2>2, TracedParts DEF Traced, Closed, Rests
<1>5. CASE Ensure
  BY <1>5, EnsureTraced
<1>6. CASE NextTask
  BY <1>6, NextTaskTraced
<1>7. CASE Send
  BY <1>7, SendTraced
<1>8. CASE Abandon
  BY <1>8, AbandonTraced
<1>9. CASE Wait
  BY <1>9, WaitTraced
<1>10. CASE Execute
  BY <1>10, ExecuteTraced
<1>11. ASSUME NEW f \in Frames, Loaded(f) PROVE Traced'
  BY <1>11, LoadedTraced
<1>12. CASE Close
  BY <1>12, CloseTraced
<1>13. CASE Timeout
  BY <1>13, TimeoutTraced
<1>14. ASSUME NEW f \in Frames, Navigate(f) PROVE Traced'
  BY <1>14, NavigateTraced
<1>15. ASSUME NEW f \in Frames, RemoveFrame(f) PROVE Traced'
  BY <1>15, RemoveFrameTraced
<1>16. CASE UNCHANGED vars
  BY <1>16 DEF vars, Traced, Closed, Rests
<1>. QED
  BY <1>1, <1>2, <1>3, <1>4, <1>5, <1>6, <1>7, <1>8, <1>9, <1>10, <1>11, <1>12, <1>13, <1>14, <1>15, <1>16
     DEF Next, Host, Page

\* What an entry of the table claims of its document is so, as long as no event
\* that takes the claim back is on its way; what the commands of the task under
\* way have done is there, and what they are about to do is in the orders.
THEOREM HostSessionTraced == Spec => []Traced
<1>1. Init => Traced
  BY InitTraced
<1>2. IInv /\ Traced /\ [Next]_vars => Traced'
  BY StepTraced
<1>. QED
  BY <1>1, <1>2, HostSessionInvariant, PTL DEF Spec

\* With nothing on the wire the entries are of the documents shown.
LEMMA NothingOnTheWire == ASSUME IInv, Traced, wire = <<>>, NEW i \in Slots, session.context[i].used
  PROVE  LET c == session.context[i]
         IN /\ ~Left(wire, i, c) /\ Place(i, c) \in FrameOf(i)
            /\ Credit(i, c, docs, wire) /\ (i \notin missed => Informed(i, c, docs, wire, orders, settings.version))
            /\ \A f \in FrameOf(i) : f = Place(i, c)
<1> DEFINE c == session.context[i]
<1>1. /\ Traces(session.context, docs, wire, orders, settings.version, task, missed) /\ WellFormed(session.context)
      /\ Distinct(docs) /\ docs \in [Frames -> Document]
  BY TracedParts, Parts
<1>2. /\ Found(i, c, docs, wire) /\ Credit(i, c, docs, wire)
      /\ i \notin missed => Informed(i, c, docs, wire, orders, settings.version)
  BY <1>1 DEF Traces, Entry
<1>3. ~Left(wire, i, c) /\ ~Dropped(wire, i, c)
  BY DEF Left, Dropped
<1>4. i # 0 => c.id # 0
  BY <1>1 DEF WellFormed
<1>5. Place(i, c) \in FrameOf(i)
  BY <1>2, <1>3 DEF Found, Place, FrameOf
<1>6. \A f \in FrameOf(i) : f = Place(i, c)
  <2>1. CASE i = 0
    BY <2>1 DEF FrameOf, Place
  <2>2. ASSUME i # 0, NEW f \in Frames, docs[f].id = c.id PROVE f = Place(i, c)
    <3>1. c.frame \in Frames /\ docs[c.frame].id = c.id
      BY <1>2, <1>3, <2>2 DEF Found
    <3>. QED
      BY <1>1, <1>4, <2>2, <3>1 DEF Distinct, Place
  <2>. QED
    BY <2>1, <2>2 DEF FrameOf
<1>. QED
  BY <1>2, <1>3, <1>5, <1>6

\* A result is credited to the document that produced it, whatever navigated,
\* was destroyed or reused its identifier between the evaluation and its reply.
THEOREM HostSessionCreditIsDue == Spec => []CreditIsDue
<1>1. IInv /\ Traced => CreditIsDue
  <2> SUFFICES ASSUME IInv, Traced, wire = <<>>, NEW i \in Slots, session.context[i].used
               PROVE  \E f \in FrameOf(i) : /\ session.context[i].bootstrapped => docs[f].booted
                                            /\ session.context[i].bundled => docs[f].loaded
    BY DEF CreditIsDue
  <2> DEFINE g == Place(i, session.context[i])
  <2>1. /\ session.context[i].bootstrapped => docs[g].booted
        /\ session.context[i].bundled => docs[g].loaded
    BY NothingOnTheWire DEF Credit
  <2>2. g \in FrameOf(i)
    BY NothingOnTheWire
  <2>. QED
    BY <2>1, <2>2
<1>. QED
  BY <1>1, HostSessionInvariant, HostSessionTraced, PTL

\* Settings reach every context: one that is bootstrapped shows them, is queued
\* to be told them, or is one whose delivery failed.
THEOREM HostSessionSettingsReach == Spec => []SettingsReach
<1>1. IInv /\ Traced => SettingsReach
  <2> SUFFICES ASSUME IInv, Traced, at \in {"read", "tasks", "top"}, wire = <<>>, NEW i \in Slots \ missed,
                      session.context[i].bootstrapped, session.context[i].used
               PROVE  \/ "config" \in session.context[i].queued \/ "bootstrap" \in session.context[i].queued
                      \/ \A f \in FrameOf(i) : docs[f].settings = settings.version
    BY DEF SettingsReach
  <2> DEFINE c == session.context[i]
  <2>1. /\ ~Left(wire, i, c) /\ Informed(i, c, docs, wire, orders, settings.version)
        /\ \A f \in FrameOf(i) : f = Place(i, c)
    BY NothingOnTheWire
  <2>2. ~Busy(c)
    BY Parts DEF Backed, Busy, TaskType
  <2>3. Queued(c) \/ Shows(Place(i, c), docs, orders, settings.version)
    BY <2>1, <2>2 DEF Informed
  <2>. QED
    BY <2>1, <2>3 DEF Queued, Shows
<1>. QED
  BY <1>1, HostSessionInvariant, HostSessionTraced, PTL
=============================================================================
