--------------------------- MODULE TabPauseProofs ---------------------------
(***************************************************************************)
(* Proofs about TabPause, for any frames and any number of documents,      *)
(* calls, restarts and faults.                                             *)
(***************************************************************************)
EXTENDS TabPause, FunctionTheorems, FiniteSetTheorems, SequenceTheorems, TLAPS

-----------------------------------------------------------------------------
(* How many elements of a sequence are in a set                            *)

Places(s, S) == {i \in 1..Len(s) : s[i] \in S}
Count(s, S)  == Cardinality(Places(s, S))

LEMMA CountType ==
  ASSUME NEW s, Len(s) \in Nat, NEW S
  PROVE  IsFiniteSet(Places(s, S)) /\ Count(s, S) \in Nat
<1>2. IsFiniteSet(1..Len(s))
  BY FS_Interval
<1>3. IsFiniteSet(Places(s, S))
  BY <1>2, FS_Subset DEF Places
<1>. QED
  BY <1>3, FS_CardinalityType DEF Count

LEMMA CountEmpty ==
  ASSUME NEW S
  PROVE  Count(<<>>, S) = 0
<1>1. Places(<<>>, S) = {}
  BY DEF Places
<1>. QED
  BY <1>1, FS_EmptySet DEF Count

\* u is s followed by t.
Joined(u, s, t) ==
    /\ Len(s) \in Nat /\ Len(t) \in Nat /\ Len(u) = Len(s) + Len(t)
    /\ \A i \in 1..Len(s) : u[i] = s[i]
    /\ \A j \in 1..Len(t) : u[Len(s) + j] = t[j]

\* The places of the second part are those of the part itself, moved on.
LEMMA CountSplit ==
  ASSUME NEW u, NEW s, NEW t, NEW S, Joined(u, s, t)
  PROVE  Count(u, S) = Count(s, S) + Count(t, S)
<1> DEFINE n == Len(s)
           m == Len(t)
           A == Places(s, S)
           B == Places(t, S)
           C == {i \in (n + 1)..(n + m) : u[i] \in S}
<1>1. n \in Nat /\ m \in Nat /\ Len(u) = n + m
      /\ (\A i \in 1..n : u[i] = s[i]) /\ (\A j \in 1..m : u[n + j] = t[j])
  BY DEF Joined
<1>2. Places(u, S) = A \cup C /\ A \cap C = {}
  <2>1. ASSUME NEW i PROVE i \in Places(u, S) <=> i \in A \cup C
    <3>1. i \in Places(u, S) <=> i \in 1..(n + m) /\ u[i] \in S
      BY <1>1 DEF Places
    <3>2. i \in A <=> i \in 1..n /\ u[i] \in S
      BY <1>1 DEF Places
    <3>3. i \in 1..(n + m) <=> i \in 1..n \/ i \in (n + 1)..(n + m)
      BY <1>1
    <3>. QED
      BY <3>1, <3>2, <3>3
  <2>2. ASSUME NEW i \in A, i \in C PROVE FALSE
    <3>1. i \in 1..n /\ i \in (n + 1)..(n + m)
      BY <2>2 DEF Places
    <3>. QED
      BY <1>1, <3>1
  <2>. HIDE DEF A, C
  <2>. QED
    BY <2>1, <2>2
<1>3. IsFiniteSet(A) /\ IsFiniteSet(B) /\ Count(s, S) \in Nat /\ Count(t, S) \in Nat
  BY <1>1, CountType
<1> DEFINE f == [j \in B |-> n + j]
<1>4. f \in [B -> C]
  BY <1>1 DEF Places
<1>5. \A a, b \in B : f[a] = f[b] => a = b
  BY <1>1 DEF Places
<1>6. \A c \in C : \E b \in B : f[b] = c
  <2>1. ASSUME NEW c \in C PROVE c - n \in B /\ n + (c - n) = c
    <3>1. c \in (n + 1)..(n + m) /\ u[c] \in S /\ c \in Int
      BY <1>1
    <3>2. c - n \in 1..m /\ n + (c - n) = c
      BY <1>1, <3>1
    <3>3. u[n + (c - n)] = t[c - n]
      BY <1>1, <3>2
    <3>4. t[c - n] \in S
      BY <3>1, <3>2, <3>3
    <3>. QED
      BY <3>2, <3>4 DEF Places
  <2>. QED
    BY <2>1
<1>7. ExistsBijection(B, C)
  <2>. HIDE DEF B, C, f
  <2>1. f \in Injection(B, C)
    BY <1>4, <1>5, Fun_IsInj
  <2>2. f \in Surjection(B, C)
    BY <1>4, <1>6, Fun_IsSurj
  <2>. QED
    BY <2>1, <2>2 DEF ExistsBijection, Bijection
<1>8. IsFiniteSet(C) /\ Cardinality(C) = Cardinality(B)
  <2>. HIDE DEF B, C
  <2>. QED
    BY <1>3, <1>7, FS_Bijection
<1>. HIDE DEF A, B, C
<1>9. Cardinality(A \cup C) = Cardinality(A) + Cardinality(C) - Cardinality(A \cap C)
  BY <1>3, <1>8, FS_Union
<1>10. Cardinality(A \cap C) = 0
  BY <1>2, FS_EmptySet
<1>11. Count(s, S) = Cardinality(A) /\ Count(t, S) = Cardinality(B) /\ Count(u, S) = Cardinality(A \cup C)
  BY <1>2 DEF Count, A, B
<1>. QED
  BY <1>3, <1>8, <1>9, <1>10, <1>11

LEMMA CountOne ==
  ASSUME NEW x, NEW S
  PROVE  Count(<<x>>, S) = IF x \in S THEN 1 ELSE 0
<1>1. Places(<<x>>, S) = IF x \in S THEN {1} ELSE {}
  BY DEF Places
<1>. QED
  BY <1>1, FS_EmptySet, FS_Singleton DEF Count

LEMMA CountAppend ==
  ASSUME NEW T, NEW s \in Seq(T), NEW x \in T, NEW S
  PROVE  Count(Append(s, x), S) = Count(s, S) + (IF x \in S THEN 1 ELSE 0)
<1>1. /\ Append(s, x) \in Seq(T) /\ <<x>> \in Seq(T) /\ Len(<<x>>) = 1 /\ Len(s) \in Nat
      /\ Len(Append(s, x)) = Len(s) + Len(<<x>>)
      /\ \A i \in 1..Len(s) : Append(s, x)[i] = s[i]
      /\ \A j \in 1..Len(<<x>>) : Append(s, x)[Len(s) + j] = <<x>>[j]
  OBVIOUS
<1>2. Joined(Append(s, x), s, <<x>>)
  BY <1>1 DEF Joined
<1>3. Count(Append(s, x), S) = Count(s, S) + Count(<<x>>, S)
  BY <1>2, CountSplit
<1>. QED
  BY <1>3, CountOne

LEMMA CountTail ==
  ASSUME NEW T, NEW s \in Seq(T), s # <<>>, NEW S
  PROVE  Count(s, S) = (IF Head(s) \in S THEN 1 ELSE 0) + Count(Tail(s), S)
<1>1. Head(s) \in T /\ Tail(s) \in Seq(T) /\ Len(Tail(s)) = Len(s) - 1 /\ Len(s) \in Nat \ {0}
      /\ \A i \in 1..Len(Tail(s)) : Tail(s)[i] = s[i + 1]
  BY HeadTailProperties, EmptySeq
<1> DEFINE h == <<Head(s)>>
<1>2. h \in Seq(T) /\ Len(h) = 1 /\ h[1] = s[1]
  BY <1>1
<1>. HIDE DEF h
<1>3. Joined(s, h, Tail(s))
  BY <1>1, <1>2 DEF Joined
<1>4. Count(s, S) = Count(h, S) + Count(Tail(s), S)
  BY <1>3, CountSplit
<1>. QED
  BY <1>4, CountOne DEF h

LEMMA CountConcat ==
  ASSUME NEW T, NEW s \in Seq(T), NEW t \in Seq(T), NEW S
  PROVE  Count(s \o t, S) = Count(s, S) + Count(t, S)
<1>1. /\ s \o t \in Seq(T) /\ Len(s \o t) = Len(s) + Len(t) /\ Len(s) \in Nat /\ Len(t) \in Nat
      /\ \A i \in 1..Len(s) + Len(t) : (s \o t)[i] = IF i <= Len(s) THEN s[i] ELSE t[i - Len(s)]
  BY ConcatProperties
<1>2. \A i \in 1..Len(s) : (s \o t)[i] = s[i]
  BY <1>1
<1>3. \A j \in 1..Len(t) : (s \o t)[Len(s) + j] = t[j]
  BY <1>1
<1>4. Joined(s \o t, s, t)
  BY <1>1, <1>2, <1>3 DEF Joined
<1>. QED
  BY <1>4, CountSplit

\* What has been dropped from the front was counted.
LEMMA CountRest ==
  ASSUME NEW T, NEW s \in Seq(T), NEW n \in 0..Len(s), NEW S
  PROVE  Count(s, S) = Cardinality({i \in 1..n : s[i] \in S}) + Count(SubSeq(s, n + 1, Len(s)), S)
<1> DEFINE a == SubSeq(s, 1, n)
           b == SubSeq(s, n + 1, Len(s))
<1>1. Len(s) \in Nat /\ n \in Nat /\ n <= Len(s) /\ \A i \in 1..Len(s) : s[i] \in T
  OBVIOUS
<1>2. a \in Seq(T) /\ Len(a) = n /\ \A i \in 1..n : a[i] = s[i]
  BY <1>1
<1>3. b \in Seq(T) /\ Len(b) = Len(s) - n /\ \A j \in 1..Len(b) : b[j] = s[n + j]
  BY <1>1
<1>. HIDE DEF a, b
<1>4. Len(s) = Len(a) + Len(b) /\ Len(a) \in Nat /\ Len(b) \in Nat
  BY <1>1, <1>2, <1>3
<1>5. Joined(s, a, b)
  BY <1>2, <1>3, <1>4 DEF Joined
<1>6. Count(s, S) = Count(a, S) + Count(b, S)
  BY <1>5, CountSplit
<1>7. Count(a, S) = Cardinality({i \in 1..n : s[i] \in S})
  <2>1. Places(a, S) = {i \in 1..n : s[i] \in S}
    BY <1>2 DEF Places
  <2>. QED
    BY <2>1 DEF Count
<1>. QED
  BY <1>6, <1>7 DEF b

LEMMA CountNone ==
  ASSUME NEW s, NEW S, \A i \in 1..Len(s) : s[i] \notin S
  PROVE  Count(s, S) = 0
<1>1. Places(s, S) = {}
  BY DEF Places
<1>. QED
  BY <1>1, FS_EmptySet DEF Count

\* What is counted is there.
LEMMA CountSome ==
  ASSUME NEW s, NEW S, Count(s, S) # 0
  PROVE  \E i \in 1..Len(s) : s[i] \in S
<1>. QED
  BY CountNone

-----------------------------------------------------------------------------
(* Requests and messages                                                   *)

\* The writes of the document d of frame f, and their answers.
Writes(f, d) == {r \in Request : r.frame = f /\ r.document = d /\ r.operation = "write"}
Receipts     == {m \in Message : m.kind = "write"}

Newest(s)   == s[Len(s)]
Answered(s) == \A i \in 1..Len(s) : s[i].kind = "broadcast" => s[i].answered

LEMMA UnderWayCounts ==
  ASSUME NEW q \in Seq(Request), NEW s \in Seq(Message), NEW f, NEW d
  PROVE  /\ Cardinality({i \in DOMAIN q : q[i].frame = f /\ q[i].document = d /\ q[i].operation = "write"})
            = Count(q, Writes(f, d))
         /\ Cardinality({i \in DOMAIN s : s[i].kind = "write"}) = Count(s, Receipts)
         /\ Count(q, Writes(f, d)) \in Nat /\ Count(s, Receipts) \in Nat
<1>1. DOMAIN q = 1..Len(q) /\ DOMAIN s = 1..Len(s) /\ Len(q) \in Nat /\ Len(s) \in Nat
      /\ (\A i \in 1..Len(q) : q[i] \in Request) /\ (\A i \in 1..Len(s) : s[i] \in Message)
  OBVIOUS
<1>2. Places(q, Writes(f, d)) =
        {i \in DOMAIN q : q[i].frame = f /\ q[i].document = d /\ q[i].operation = "write"}
  BY <1>1 DEF Places, Writes
<1>3. Places(s, Receipts) = {i \in DOMAIN s : s[i].kind = "write"}
  BY <1>1 DEF Places, Receipts
<1>. QED
  BY <1>1, <1>2, <1>3, CountType DEF Count

\* One more message in a box
LEMMA BoxAppend ==
  ASSUME NEW s \in Seq(Message), NEW m \in Message, Answered(s), m.answered
  PROVE  /\ Append(s, m) \in Seq(Message) /\ Append(s, m) # <<>>
         /\ Newest(Append(s, m)) = m /\ Answered(Append(s, m))
         /\ Count(Append(s, m), Receipts) = Count(s, Receipts) + (IF m.kind = "write" THEN 1 ELSE 0)
<1>1. /\ Append(s, m) \in Seq(Message) /\ Append(s, m) # <<>> /\ Len(s) \in Nat
      /\ Len(Append(s, m)) = Len(s) + 1 /\ Append(s, m)[Len(s) + 1] = m
      /\ \A i \in 1..Len(s) : Append(s, m)[i] = s[i]
  OBVIOUS
<1>2. \A i \in 1..Len(Append(s, m)) : i \in 1..Len(s) \/ i = Len(s) + 1
  BY <1>1
<1>3. m \in Receipts <=> m.kind = "write"
  BY DEF Receipts
<1>. QED
  BY <1>1, <1>2, <1>3, CountAppend DEF Newest, Answered

\* The first message of a box is taken out.
LEMMA BoxTail ==
  ASSUME NEW s \in Seq(Message), s # <<>>, Answered(s)
  PROVE  /\ Head(s) \in Message /\ Tail(s) \in Seq(Message) /\ Answered(Tail(s))
         /\ Tail(s) # <<>> => Newest(Tail(s)) = Newest(s)
         /\ Tail(s) = <<>> => Newest(s) = Head(s) /\ Count(Tail(s), Receipts) = 0
         /\ Head(s).kind = "broadcast" => Head(s).answered
         /\ Count(s, Receipts) = (IF Head(s).kind = "write" THEN 1 ELSE 0) + Count(Tail(s), Receipts)
         /\ Count(Tail(s), Receipts) \in Nat
<1>1. /\ Head(s) \in Message /\ Head(s) = s[1] /\ Tail(s) \in Seq(Message)
      /\ Len(Tail(s)) = Len(s) - 1 /\ Len(s) \in Nat \ {0}
      /\ \A i \in 1..Len(Tail(s)) : Tail(s)[i] = s[i + 1]
  BY HeadTailProperties, EmptySeq
<1>2. Answered(Tail(s)) /\ (Head(s).kind = "broadcast" => Head(s).answered)
  BY <1>1 DEF Answered
<1>3. ASSUME Tail(s) # <<>> PROVE Newest(Tail(s)) = Newest(s)
  <2>1. Len(Tail(s)) # 0
    BY <1>1, <1>3, EmptySeq
  <2>. QED
    BY <1>1, <2>1 DEF Newest
<1>4. ASSUME Tail(s) = <<>> PROVE Newest(s) = Head(s) /\ Count(Tail(s), Receipts) = 0
  <2>1. Len(s) = 1
    BY <1>1, <1>4
  <2>. QED
    BY <1>1, <1>4, <2>1, CountEmpty DEF Newest
<1>5. Head(s) \in Receipts <=> Head(s).kind = "write"
  BY <1>1 DEF Receipts
<1>6. Count(s, Receipts) = (IF Head(s) \in Receipts THEN 1 ELSE 0) + Count(Tail(s), Receipts)
  BY CountTail
<1>7. Count(Tail(s), Receipts) \in Nat
  <2>1. Len(Tail(s)) \in Nat
    BY <1>1
  <2>. QED
    BY <2>1, CountType
<1>. QED
  BY <1>1, <1>2, <1>3, <1>4, <1>5, <1>6, <1>7

-----------------------------------------------------------------------------
(* The inductive invariant                                                 *)

FrameTypes ==
    /\ paused \in [Frames -> BOOLEAN]
    /\ ready \in [Frames -> {"none", "extension", "memory", "unavailable"}]
    /\ pending \in [Frames -> 0..MaxSets]
    /\ timers \in [Frames -> 0..MaxSets + 1]
    /\ injected \in [Frames -> BOOLEAN]
    /\ document \in [Frames -> 0..MaxLoads]
    /\ cached \subseteq Frames
LinkTypes == inbox \in [Frames -> Seq(Message)] /\ queue \in Seq(Request)
WorkerTypes ==
    /\ tab \in {"open", "closed", "cleaned", "kept", "forgotten"}
    /\ step \in {"queued", "reading", "writing"}
    /\ removed \in BOOLEAN /\ known \in BOOLEAN /\ value \in BOOLEAN
    /\ durable \in BOOLEAN /\ stored \in BOOLEAN
    /\ strayed \in BOOLEAN /\ choice \in {"none", "paused", "running"}
BoundTypes ==
    sets \in 0..MaxSets /\ loads \in 0..MaxLoads /\ restarts \in 0..MaxRestarts /\ faults \in 0..MaxFaults
Types == FrameTypes /\ LinkTypes /\ WorkerTypes /\ BoundTypes

\* Bounds, the documents of the requests, and what a frame without document shows
Known ==
    /\ \A f \in Frames : pending[f] <= sets /\ timers[f] <= sets + 1 /\ document[f] <= loads
    /\ \A i \in 1..Len(queue) : queue[i].document <= document[queue[i].frame]
    /\ \A f \in Frames : document[f] = 0 =>
          /\ ready[f] = "none" /\ timers[f] = 0 /\ ~injected[f] /\ f \notin cached
          /\ inbox[f] = <<>> /\ pending[f] = 0

InWorker ==
    /\ step # "queued" => queue # <<>>
    /\ step = "reading" => ~known
    /\ step = "writing" => known /\ Head(queue).operation = "write" /\ value = Head(queue).paused
    /\ known /\ durable /\ step # "writing" => value = stored
    /\ tab = "open" => ~removed
    /\ removed /\ tab # "closed" => ~known /\ step = "queued" /\ (tab = "cleaned" => ~stored)

Boxes ==
    /\ tab # "open" => \A f \in Frames : inbox[f] = <<>>
    /\ \A f \in Frames : Answered(inbox[f])

\* The state of the tab, as far as it is settled
Shows(p) == p = stored /\ (known /\ step # "writing" => p = value)

\* The document of f waits for the worker,
Asked(f) == \E i \in 1..Len(queue) : queue[i].frame = f /\ queue[i].document = document[f]

\* or its newest message, or else what it shows, is right or not called durable.
Coming(f) ==
    IF inbox[f] = <<>> THEN ready[f] = "extension" => Shows(paused[f])
    ELSE Newest(inbox[f]).answered /\ Newest(inbox[f]).durable => Shows(Newest(inbox[f]).paused)

OnItsWay == tab = "open" /\ ~strayed => \A f \in Frames \ cached : Asked(f) \/ Coming(f)

IInv == Types /\ Known /\ InWorker /\ Boxes /\ OnItsWay /\ PendingUnderWay

LEMMA InitInv == Init => IInv
<1>. SUFFICES ASSUME Init PROVE IInv
  OBVIOUS
<1>. USE TabPauseAssumption
<1>1. Types
  <2>1. FrameTypes
    BY DEF Init, FrameTypes
  <2>2. inbox \in [Frames -> Seq(Message)] /\ queue \in Seq(Request)
    <3>1. <<>> \in Seq(Message) /\ <<>> \in Seq(Request)
      OBVIOUS
    <3>. QED
      BY <3>1 DEF Init
  <2>3. WorkerTypes
    BY DEF Init, WorkerTypes
  <2>4. BoundTypes
    BY DEF Init, BoundTypes
  <2>. QED
    BY <2>1, <2>2, <2>3, <2>4 DEF LinkTypes, Types
<1>2. Known /\ InWorker /\ Boxes
  BY DEF Init, Known, InWorker, Boxes, Answered
<1>3. OnItsWay
  BY DEF Init, OnItsWay, Coming
<1>4. PendingUnderWay
  <2>. SUFFICES ASSUME NEW f \in Frames PROVE Unheard(f, "write") = 0
    BY DEF Init, PendingUnderWay
  <2>1. {i \in DOMAIN queue : /\ queue[i].frame = f /\ queue[i].document = document[f]
                              /\ queue[i].operation = "write"} = {}
    BY DEF Init
  <2>2. {i \in DOMAIN inbox[f] : inbox[f][i].kind = "write"} = {}
    BY DEF Init
  <2>. QED
    BY <2>1, <2>2, FS_EmptySet DEF Unheard
<1>. QED
  BY <1>1, <1>2, <1>3, <1>4 DEF IInv

LEMMA PendingCounts ==
  ASSUME IInv, tab = "open", NEW f \in Frames
  PROVE  /\ pending[f] = Count(queue, Writes(f, document[f])) + Count(inbox[f], Receipts)
         /\ Count(queue, Writes(f, document[f])) \in Nat /\ Count(inbox[f], Receipts) \in Nat
<1>1. queue \in Seq(Request) /\ inbox[f] \in Seq(Message) /\ pending[f] = Unheard(f, "write")
  BY DEF IInv, Types, LinkTypes, PendingUnderWay
<1>. QED
  BY <1>1, UnderWayCounts DEF Unheard

LEMMA PendingByCount ==
  ASSUME LinkTypes',
         \A f \in Frames : tab' = "open" =>
            pending'[f] = Count(queue', Writes(f, document'[f])) + Count(inbox'[f], Receipts)
  PROVE  PendingUnderWay'
<1>1. ASSUME NEW f \in Frames, tab' = "open" PROVE pending'[f] = Unheard(f, "write")'
  <2>1. queue' \in Seq(Request) /\ inbox'[f] \in Seq(Message)
    BY DEF LinkTypes
  <2>2. pending'[f] = Count(queue', Writes(f, document'[f])) + Count(inbox'[f], Receipts)
    BY <1>1
  <2>. QED
    BY <2>1, <2>2, UnderWayCounts DEF Unheard
<1>. QED
  BY <1>1 DEF PendingUnderWay

\* Who waits for the worker and is not the document of the request is pending there.
LEMMA PendingAsked ==
  ASSUME IInv, NEW f \in Frames, Count(queue, Writes(f, document[f])) # 0
  PROVE  Asked(f)
<1>1. PICK i \in 1..Len(queue) : queue[i] \in Writes(f, document[f])
  BY CountSome
<1>. QED
  BY <1>1 DEF Asked, Writes

-----------------------------------------------------------------------------
(* The steps of the frames                                                 *)

\* A request is put at the end of the queue.
LEMMA SendRequest ==
  ASSUME IInv, NEW r \in Request, queue' = Append(queue, r)
  PROVE  /\ queue' \in Seq(Request) /\ queue' # <<>> /\ Len(queue') = Len(queue) + 1 /\ Len(queue) \in Nat
         /\ queue'[Len(queue) + 1] = r /\ \A i \in 1..Len(queue) : queue'[i] = queue[i]
         /\ queue # <<>> => Head(queue') = Head(queue)
         /\ \A f, d : Count(queue', Writes(f, d)) = Count(queue, Writes(f, d))
                        + (IF r.frame = f /\ r.document = d /\ r.operation = "write" THEN 1 ELSE 0)
<1>1. queue \in Seq(Request)
  BY DEF IInv, Types, LinkTypes
<1>2. /\ queue' \in Seq(Request) /\ queue' # <<>> /\ Len(queue') = Len(queue) + 1 /\ Len(queue) \in Nat
      /\ queue'[Len(queue) + 1] = r /\ \A i \in 1..Len(queue) : queue'[i] = queue[i]
  BY <1>1
<1>3. queue # <<>> => Head(queue') = Head(queue)
  BY <1>1
<1>4. ASSUME NEW f, NEW d
      PROVE  Count(queue', Writes(f, d)) = Count(queue, Writes(f, d))
                + (IF r.frame = f /\ r.document = d /\ r.operation = "write" THEN 1 ELSE 0)
  <2>1. r \in Writes(f, d) <=> r.frame = f /\ r.document = d /\ r.operation = "write"
    BY DEF Writes
  <2>. QED
    BY <1>1, <2>1, CountAppend
<1>. QED
  BY <1>2, <1>3, <1>4

LEMMA LoadStep ==
  ASSUME IInv, NEW f \in Frames, Load(f)
  PROVE  IInv'
<1> DEFINE r == ReadRequest(f, document[f] + 1)
<1>0. /\ document[f] \in Nat /\ document[f] + 1 <= loads' /\ loads' \in 0..MaxLoads /\ document[f] + 1 \in 1..MaxLoads
      /\ loads' = loads + 1 /\ loads \in Nat
  BY TabPauseAssumption DEF IInv, Known, Types, FrameTypes, BoundTypes, Load
<1>1. r \in Request /\ r.frame = f /\ r.document = document[f] + 1 /\ r.operation = "read"
  BY <1>0 DEF ReadRequest, Request
<1>2. queue' = Append(queue, r)
  BY DEF Load
<1>. HIDE DEF r
<1>3. /\ queue' \in Seq(Request) /\ queue' # <<>> /\ Len(queue') = Len(queue) + 1 /\ Len(queue) \in Nat
      /\ queue'[Len(queue) + 1] = r /\ \A i \in 1..Len(queue) : queue'[i] = queue[i]
      /\ queue # <<>> => Head(queue') = Head(queue)
  BY <1>1, <1>2, SendRequest
<1>4. \A g, d : Count(queue', Writes(g, d)) = Count(queue, Writes(g, d))
  <2>. TAKE g, d
  <2>1. Len(queue) \in Nat /\ Count(queue, Writes(g, d)) \in Nat
    BY CountType DEF IInv, Types, LinkTypes
  <2>. QED
    BY <1>1, <1>2, <2>1, SendRequest
<1>5. Types'
  <2>1. FrameTypes'
    <3>1. /\ paused' \in [Frames -> BOOLEAN] /\ pending' \in [Frames -> 0..MaxSets]
          /\ ready' \in [Frames -> {"none", "extension", "memory", "unavailable"}]
          /\ timers' \in [Frames -> 0..MaxSets + 1] /\ injected' \in [Frames -> BOOLEAN]
          /\ cached' \subseteq Frames
      <4>1. 1 \in 0..MaxSets + 1 /\ 0 \in 0..MaxSets
        BY TabPauseAssumption
      <4>. QED
        BY <4>1 DEF IInv, Types, FrameTypes, Load
    <3>2. document[f] + 1 \in 0..MaxLoads
      BY <1>0
    <3>3. document' \in [Frames -> 0..MaxLoads]
      BY <3>2 DEF IInv, Types, FrameTypes, Load
    <3>. QED
      BY <3>1, <3>3 DEF FrameTypes
  <2>2. LinkTypes'
    <3>1. <<>> \in Seq(Message)
      OBVIOUS
    <3>. QED
      BY <1>3, <3>1 DEF IInv, Types, LinkTypes, Load
  <2>. QED
    BY <1>0, <2>1, <2>2 DEF IInv, Types, WorkerTypes, BoundTypes, Load, workerVars, history
<1>6. \A g \in Frames : g # f => /\ document'[g] = document[g] /\ inbox'[g] = inbox[g] /\ pending'[g] = pending[g]
                                 /\ paused'[g] = paused[g] /\ ready'[g] = ready[g]
                                 /\ timers'[g] = timers[g] /\ injected'[g] = injected[g]
                                 /\ (g \in cached' <=> g \in cached)
  BY DEF IInv, Types, FrameTypes, LinkTypes, Load
<1>7. document'[f] = document[f] + 1 /\ inbox'[f] = <<>> /\ pending'[f] = 0 /\ timers'[f] = 1
  BY DEF IInv, Types, FrameTypes, LinkTypes, Load
<1>8. UNCHANGED <<tab, step, removed, known, value, durable, stored, strayed, choice, sets>>
  BY DEF Load, workerVars, history
<1>9. Known'
  <2>1. \A g \in Frames : pending'[g] <= sets' /\ timers'[g] <= sets' + 1 /\ document'[g] <= loads'
    <3>. TAKE g \in Frames
    <3>1. /\ pending[g] <= sets /\ timers[g] <= sets + 1 /\ document[g] <= loads
          /\ document[g] \in Nat /\ sets \in Nat
      BY TabPauseAssumption DEF IInv, Known, Types, FrameTypes, BoundTypes
    <3>. QED
      BY <3>1, <1>0, <1>6, <1>7, <1>8
  <2>2. \A i \in 1..Len(queue') : queue'[i].document <= document'[queue'[i].frame]
    <3>. TAKE i \in 1..Len(queue')
    <3>1. CASE i = Len(queue) + 1
      BY <3>1, <1>0, <1>1, <1>3, <1>7
    <3>2. CASE i \in 1..Len(queue)
      <4>1. queue[i] \in Request /\ queue[i].document <= document[queue[i].frame] /\ queue'[i] = queue[i]
        BY <3>2, <1>3 DEF IInv, Types, LinkTypes, Known
      <4>2. queue[i].frame \in Frames /\ queue[i].document \in Nat
        BY <4>1 DEF Request
      <4>. QED
        BY <4>1, <4>2, <1>0, <1>6, <1>7
    <3>. QED
      BY <3>1, <3>2, <1>3
  <2>3. \A g \in Frames : document'[g] = 0 =>
          ready'[g] = "none" /\ timers'[g] = 0 /\ g \notin cached' /\ ~injected'[g] /\ inbox'[g] = <<>> /\ pending'[g] = 0
    BY <1>0, <1>6, <1>7 DEF IInv, Known
  <2>. QED
    BY <2>1, <2>2, <2>3 DEF Known
<1>10. InWorker'
  BY <1>3, <1>8 DEF IInv, InWorker
<1>11. Boxes'
  <2>1. \A g \in Frames : inbox'[g] = <<>> \/ inbox'[g] = inbox[g]
    BY <1>6, <1>7
  <2>2. Answered(<<>>)
    BY DEF Answered
  <2>. QED
    BY <1>8, <2>1, <2>2 DEF IInv, Boxes, Load
<1>12. OnItsWay'
  <2>. SUFFICES ASSUME tab = "open", ~strayed, NEW g \in Frames \ cached'
                PROVE  Asked(g)' \/ Coming(g)'
    BY <1>8 DEF OnItsWay
  <2>1. CASE g = f
    BY <2>1, <1>1, <1>3, <1>7 DEF Asked
  <2>2. CASE g # f
    <3>1. Asked(g) => Asked(g)'
      BY <2>2, <1>3, <1>6 DEF Asked
    <3>2. Coming(g) => Coming(g)'
      BY <2>2, <1>6, <1>8 DEF Coming, Shows
    <3>3. g \in Frames \ cached
      BY <2>2, <1>6
    <3>. QED
      BY <3>1, <3>2, <3>3 DEF IInv, OnItsWay
  <2>. QED
    BY <2>1, <2>2
<1>13. PendingUnderWay'
  <2>1. \A g \in Frames : tab' = "open" =>
          pending'[g] = Count(queue', Writes(g, document'[g])) + Count(inbox'[g], Receipts)
    <3>. SUFFICES ASSUME NEW g \in Frames
                  PROVE  pending'[g] = Count(queue', Writes(g, document'[g])) + Count(inbox'[g], Receipts)
      OBVIOUS
    <3>1. CASE g # f
      <4>1. pending[g] = Count(queue, Writes(g, document[g])) + Count(inbox[g], Receipts)
        BY PendingCounts DEF Load
      <4>. QED
        BY <3>1, <4>1, <1>4, <1>6
    <3>2. CASE g = f
      <4>1. ASSUME NEW i \in 1..Len(queue) PROVE queue[i] \notin Writes(f, document[f] + 1)
        <5>1. queue[i].document <= document[queue[i].frame]
          BY DEF IInv, Known
        <5>. QED
          BY <5>1, <1>0 DEF Writes
      <4>2. Count(queue, Writes(f, document[f] + 1)) = 0
        BY <4>1, CountNone
      <4>3. Count(inbox'[f], Receipts) = 0
        BY <1>7, CountEmpty
      <4>. QED
        BY <3>2, <4>2, <4>3, <1>4, <1>7
    <3>. QED
      BY <3>1, <3>2
  <2>. QED
    BY <1>5, <2>1, PendingByCount DEF Types
<1>. QED
  BY <1>5, <1>9, <1>10, <1>11, <1>12, <1>13 DEF IInv

\* A document asks the worker for something, and nothing changes there.
LEMMA AskStep ==
  ASSUME IInv, NEW f \in Frames, NEW r \in Request, r.frame = f, r.document = document[f],
         queue' = Append(queue, r),
         UNCHANGED <<tab, step, removed, known, value, durable, stored, document, loads>>
  PROVE  /\ queue' \in Seq(Request)
         /\ \A i \in 1..Len(queue') : queue'[i].document <= document'[queue'[i].frame]
         /\ InWorker' /\ Asked(f)' /\ \A g \in Frames : Asked(g) => Asked(g)'
         /\ \A g \in Frames : Count(queue', Writes(g, document'[g])) = Count(queue, Writes(g, document[g]))
                                 + (IF g = f /\ r.operation = "write" THEN 1 ELSE 0)
<1>1. document[f] \in Nat
  BY TabPauseAssumption DEF IInv, Types, FrameTypes
<1>2. queue' = Append(queue, r)
  OBVIOUS
<1>3. /\ queue' \in Seq(Request) /\ queue' # <<>> /\ Len(queue') = Len(queue) + 1 /\ Len(queue) \in Nat
      /\ queue'[Len(queue) + 1] = r /\ \A i \in 1..Len(queue) : queue'[i] = queue[i]
      /\ queue # <<>> => Head(queue') = Head(queue)
  BY <1>1, <1>2, SendRequest
<1>4. \A g \in Frames : Count(queue', Writes(g, document'[g])) = Count(queue, Writes(g, document[g]))
                                 + (IF g = f /\ r.operation = "write" THEN 1 ELSE 0)
  <2>. TAKE g \in Frames
  <2>. QED
    BY <1>1, <1>2, SendRequest
<1>5. \A i \in 1..Len(queue') : queue'[i].document <= document'[queue'[i].frame]
  <2>. TAKE i \in 1..Len(queue')
  <2>1. i \in 1..Len(queue) \/ i = Len(queue) + 1
    BY <1>3
  <2>. QED
    BY <2>1, <1>1, <1>3 DEF IInv, Known
<1>6. InWorker'
  BY <1>3 DEF IInv, InWorker
<1>7. Asked(f)' /\ \A g \in Frames : Asked(g) => Asked(g)'
  BY <1>1, <1>3 DEF Asked
<1>. QED
  BY <1>3, <1>4, <1>5, <1>6, <1>7

LEMMA RestoreStep ==
  ASSUME IInv, NEW f \in Frames, Restore(f)
  PROVE  IInv'
<1> DEFINE r == ReadRequest(f, document[f])
<1>1. document[f] # 0 /\ document[f] \in 0..MaxLoads
  BY DEF IInv, Known, Types, FrameTypes, Restore
<1>2. /\ queue' = Append(queue, r) /\ tab = "open"
      /\ UNCHANGED <<tab, step, removed, known, value, durable, stored, strayed, choice, document, loads>>
      /\ UNCHANGED <<ready, pending, injected, inbox, restarts, faults>>
      /\ sets' = sets + 1 /\ sets < MaxSets /\ cached' = cached \ {f}
  BY DEF Restore, workerVars, history
<1>3. r \in Request /\ r.frame = f /\ r.document = document[f] /\ r.operation = "read"
  BY <1>1, TabPauseAssumption DEF ReadRequest, Request
<1>. HIDE DEF r
<1>4. /\ queue' \in Seq(Request)
      /\ \A i \in 1..Len(queue') : queue'[i].document <= document'[queue'[i].frame]
      /\ InWorker' /\ Asked(f)' /\ \A g \in Frames : Asked(g) => Asked(g)'
      /\ \A g \in Frames : Count(queue', Writes(g, document'[g])) = Count(queue, Writes(g, document[g]))
                              + (IF g = f /\ r.operation = "write" THEN 1 ELSE 0)
  BY <1>2, <1>3, AskStep
<1>5. sets \in Nat /\ sets' \in 0..MaxSets /\ sets <= sets' /\ timers[f] \in Nat /\ timers[f] + 1 <= sets' + 1
      /\ timers[f] + 1 \in 0..MaxSets + 1
  BY <1>2, TabPauseAssumption DEF IInv, Types, FrameTypes, BoundTypes, Known
<1>6. /\ paused' \in [Frames -> BOOLEAN] /\ timers' \in [Frames -> 0..MaxSets + 1]
      /\ timers'[f] = timers[f] + 1
      /\ \A g \in Frames : g # f => paused'[g] = paused[g] /\ timers'[g] = timers[g]
  BY <1>5 DEF IInv, Types, FrameTypes, Restore
<1>7. Types'
  <2>1. FrameTypes'
    BY <1>2, <1>6 DEF IInv, Types, FrameTypes
  <2>2. LinkTypes' /\ WorkerTypes' /\ BoundTypes'
    BY <1>2, <1>4, <1>5 DEF IInv, Types, LinkTypes, WorkerTypes, BoundTypes
  <2>. QED
    BY <2>1, <2>2 DEF Types
<1>8. Known'
  <2>1. \A g \in Frames : pending'[g] <= sets' /\ timers'[g] <= sets' + 1 /\ document'[g] <= loads'
    <3>. TAKE g \in Frames
    <3>1. /\ pending[g] <= sets /\ timers[g] <= sets + 1 /\ document[g] <= loads
          /\ pending[g] \in Nat /\ timers[g] \in Nat
      BY TabPauseAssumption DEF IInv, Known, Types, FrameTypes
    <3>2. sets' = sets + 1 /\ loads' = loads /\ pending'[g] = pending[g] /\ document'[g] = document[g]
      BY <1>2
    <3>3. timers'[g] = timers[g] \/ (g = f /\ timers'[g] = timers[g] + 1)
      BY <1>6
    <3>. QED
      BY <3>1, <3>2, <3>3, <1>5
  <2>2. \A g \in Frames : document'[g] = 0 =>
          ready'[g] = "none" /\ timers'[g] = 0 /\ g \notin cached' /\ ~injected'[g] /\ inbox'[g] = <<>> /\ pending'[g] = 0
    BY <1>1, <1>2, <1>6 DEF IInv, Known
  <2>. QED
    BY <1>4, <2>1, <2>2 DEF Known
<1>9. Boxes'
  BY <1>2 DEF IInv, Boxes
<1>10. OnItsWay'
  <2>1. \A g \in Frames : g # f /\ Coming(g) => Coming(g)'
    BY <1>2, <1>6 DEF Coming, Shows
  <2>. QED
    BY <1>2, <1>4, <2>1 DEF IInv, OnItsWay
<1>11. PendingUnderWay'
  <2>1. \A g \in Frames : tab' = "open" =>
          pending'[g] = Count(queue', Writes(g, document'[g])) + Count(inbox'[g], Receipts)
    <3>. TAKE g \in Frames
    <3>1. /\ pending[g] = Count(queue, Writes(g, document[g])) + Count(inbox[g], Receipts)
          /\ Count(queue, Writes(g, document[g])) \in Nat /\ Count(inbox[g], Receipts) \in Nat
      BY <1>2, PendingCounts
    <3>2. Count(queue', Writes(g, document'[g])) = Count(queue, Writes(g, document[g]))
      BY <1>3, <1>4, <3>1
    <3>. QED
      BY <3>1, <3>2, <1>2
  <2>. QED
    BY <1>7, <2>1, PendingByCount DEF Types
<1>. QED
  BY <1>4, <1>7, <1>8, <1>9, <1>10, <1>11 DEF IInv

LEMMA FreezeStep ==
  ASSUME IInv, NEW f \in Frames, Freeze(f)
  PROVE  IInv'
<1>1. UNCHANGED <<paused, ready, pending, timers, injected, document, inbox, tab, queue, step, removed, known,
                  value, durable, stored, strayed, choice, sets, loads, restarts, faults>>
      /\ document[f] # 0 /\ cached' = cached \cup {f}
  BY DEF Freeze, workerVars, history, bounds
<1>2. Types' /\ Known'
  BY <1>1 DEF IInv, Types, FrameTypes, LinkTypes, WorkerTypes, BoundTypes, Known
<1>3. OnItsWay'
  <2>1. \A g \in Frames : (Asked(g) => Asked(g)') /\ (Coming(g) => Coming(g)')
    BY <1>1 DEF Asked, Coming, Shows
  <2>. QED
    BY <1>1, <2>1 DEF IInv, OnItsWay
<1>. QED
  BY <1>1, <1>2, <1>3 DEF IInv, InWorker, Boxes, PendingUnderWay, Unheard

LEMMA MissStep ==
  ASSUME IInv, NEW f \in Frames, Miss(f)
  PROVE  IInv'
<1> DEFINE box == inbox[f]
<1>1. /\ UNCHANGED <<paused, ready, pending, timers, injected, document, cached, tab, queue, step, removed, known,
                     value, durable, stored, strayed, choice, sets, loads, restarts, faults>>
      /\ f \in cached /\ box # <<>> /\ Head(box).kind = "broadcast" /\ inbox' = [inbox EXCEPT ![f] = Tail(box)]
  BY DEF Miss, frameVars, workerVars, history, bounds
<1>2. box \in Seq(Message) /\ Answered(box)
  BY DEF IInv, Types, LinkTypes, Boxes
<1>3. Tail(box) \in Seq(Message) /\ Answered(Tail(box)) /\ Count(Tail(box), Receipts) = Count(box, Receipts)
  BY <1>1, <1>2, BoxTail
<1>4. /\ inbox' \in [Frames -> Seq(Message)] /\ inbox'[f] = Tail(box)
      /\ \A g \in Frames : g # f => inbox'[g] = inbox[g]
  BY <1>1, <1>3 DEF IInv, Types, LinkTypes
<1>. HIDE DEF box
<1>5. Types'
  BY <1>1, <1>4 DEF IInv, Types, FrameTypes, LinkTypes, WorkerTypes, BoundTypes
<1>6. Known' /\ InWorker' /\ Boxes'
  <2>1. tab = "open" /\ document[f] # 0
    BY <1>1 DEF IInv, Known, Boxes, Types, WorkerTypes, box
  <2>. QED
    BY <1>1, <1>3, <1>4, <2>1 DEF IInv, Known, InWorker, Boxes
<1>7. OnItsWay'
  <2>1. \A g \in Frames : (Asked(g) => Asked(g)') /\ (g # f /\ Coming(g) => Coming(g)')
    BY <1>1, <1>4 DEF Asked, Coming, Shows
  <2>. QED
    BY <1>1, <2>1 DEF IInv, OnItsWay
<1>8. PendingUnderWay'
  <2>1. \A g \in Frames : tab' = "open" =>
          pending'[g] = Count(queue', Writes(g, document'[g])) + Count(inbox'[g], Receipts)
    BY <1>1, <1>3, <1>4, PendingCounts DEF box
  <2>. QED
    BY <1>5, <2>1, PendingByCount DEF Types
<1>. QED
  BY <1>5, <1>6, <1>7, <1>8 DEF IInv

LEMMA SetPausedStep ==
  ASSUME IInv, NEW f \in Frames, NEW p \in BOOLEAN, SetPaused(f, p)
  PROVE  IInv'
<1>1. document[f] # 0
  BY DEF IInv, Known, SetPaused
<1>2. /\ tab = "open" /\ UNCHANGED <<tab, step, removed, known, value, durable, stored, strayed, document, loads>>
      /\ UNCHANGED <<timers, injected, cached, inbox, restarts>>
      /\ sets' = sets + 1 /\ sets < MaxSets
  BY DEF SetPaused, workerVars, history
<1>3. paused' \in [Frames -> BOOLEAN] /\ \A g \in Frames : g # f => paused'[g] = paused[g]
  BY DEF IInv, Types, FrameTypes, SetPaused
<1>4. sets \in Nat /\ sets' \in 0..MaxSets /\ sets <= sets'
      /\ choice' \in {"none", "paused", "running"}
      /\ \A g \in Frames : /\ pending[g] \in Nat /\ pending[g] <= sets /\ document[g] <= loads
                           /\ timers[g] \in Nat /\ timers[g] <= sets' + 1
  <2>1. choice' \in {"none", "paused", "running"}
    BY DEF IInv, Types, WorkerTypes, SetPaused
  <2>. QED
    BY <1>2, <2>1, TabPauseAssumption DEF IInv, Types, FrameTypes, BoundTypes, Known
<1>5. CASE /\ pending' = [pending EXCEPT ![f] = @ + 1]
           /\ queue' = Append(queue, WriteRequest(f, p))
           /\ UNCHANGED <<ready, faults>>
  <2> DEFINE r == WriteRequest(f, p)
  <2>0. r \in Request /\ r.frame = f /\ r.document = document[f] /\ r.operation = "write"
    BY <1>1, TabPauseAssumption DEF WriteRequest, Request, IInv, Types, FrameTypes
  <2>. HIDE DEF r
  <2>1. /\ queue' \in Seq(Request)
        /\ \A i \in 1..Len(queue') : queue'[i].document <= document'[queue'[i].frame]
        /\ InWorker' /\ Asked(f)' /\ \A g \in Frames : Asked(g) => Asked(g)'
        /\ \A g \in Frames : Count(queue', Writes(g, document'[g])) = Count(queue, Writes(g, document[g]))
                                + (IF g = f /\ r.operation = "write" THEN 1 ELSE 0)
    <3>1. queue' = Append(queue, r)
      BY <1>5 DEF r
    <3>. QED
      BY <1>2, <2>0, <3>1, AskStep
  <2>2. pending' \in [Frames -> 0..MaxSets]
        /\ \A g \in Frames : pending'[g] = IF g = f THEN pending[g] + 1 ELSE pending[g]
    <3>1. pending[f] + 1 \in 0..MaxSets
      BY <1>2, <1>4, TabPauseAssumption
    <3>. QED
      BY <1>5, <3>1 DEF IInv, Types, FrameTypes
  <2>3. Types'
    <3>1. FrameTypes'
      BY <1>2, <1>3, <1>5, <2>2 DEF IInv, Types, FrameTypes
    <3>2. LinkTypes' /\ WorkerTypes' /\ BoundTypes'
      BY <1>2, <1>4, <1>5, <2>1 DEF IInv, Types, LinkTypes, WorkerTypes, BoundTypes
    <3>. QED
      BY <3>1, <3>2 DEF Types
  <2>4. Known'
    <3>1. \A g \in Frames : pending'[g] <= sets' /\ timers'[g] <= sets' + 1 /\ document'[g] <= loads'
      BY <1>2, <1>4, <2>2
    <3>2. \A g \in Frames : document'[g] = 0 =>
            ready'[g] = "none" /\ timers'[g] = 0 /\ g \notin cached' /\ ~injected'[g] /\ inbox'[g] = <<>> /\ pending'[g] = 0
      BY <1>1, <1>2, <1>5, <2>2 DEF IInv, Known
    <3>. QED
      BY <2>1, <3>1, <3>2 DEF Known
  <2>5. Boxes'
    BY <1>2 DEF IInv, Boxes
  <2>6. OnItsWay'
    <3>1. \A g \in Frames : g # f /\ Coming(g) => Coming(g)'
      BY <1>2, <1>3, <1>5 DEF Coming, Shows
    <3>. QED
      BY <1>2, <2>1, <3>1 DEF IInv, OnItsWay
  <2>7. PendingUnderWay'
    <3>1. \A g \in Frames : tab' = "open" =>
            pending'[g] = Count(queue', Writes(g, document'[g])) + Count(inbox'[g], Receipts)
      <4>. TAKE g \in Frames
      <4>1. /\ pending[g] = Count(queue, Writes(g, document[g])) + Count(inbox[g], Receipts)
            /\ Count(queue, Writes(g, document[g])) \in Nat /\ Count(inbox[g], Receipts) \in Nat
        BY <1>2, PendingCounts
      <4>. QED
        BY <4>1, <1>2, <2>0, <2>1, <2>2
    <3>. QED
      BY <2>3, <3>1, PendingByCount DEF Types
  <2>. QED
    BY <2>1, <2>3, <2>4, <2>5, <2>6, <2>7 DEF IInv
<1>6. CASE /\ faults < MaxFaults /\ faults' = faults + 1
           /\ ready' = [ready EXCEPT ![f] = "unavailable"]
           /\ UNCHANGED <<pending, queue>>
  <2>1. faults' \in 0..MaxFaults
    BY <1>6, TabPauseAssumption DEF IInv, Types, BoundTypes
  <2>2. ready' \in [Frames -> {"none", "extension", "memory", "unavailable"}] /\ ready'[f] = "unavailable"
        /\ \A g \in Frames : g # f => ready'[g] = ready[g]
    BY <1>6 DEF IInv, Types, FrameTypes
  <2>3. Types'
    <3>1. FrameTypes'
      BY <1>2, <1>3, <1>6, <2>2 DEF IInv, Types, FrameTypes
    <3>2. LinkTypes' /\ WorkerTypes' /\ BoundTypes'
      BY <1>2, <1>4, <1>6, <2>1 DEF IInv, Types, LinkTypes, WorkerTypes, BoundTypes
    <3>. QED
      BY <3>1, <3>2 DEF Types
  <2>4. Known'
    <3>1. \A g \in Frames : pending'[g] <= sets' /\ timers'[g] <= sets' + 1 /\ document'[g] <= loads'
      BY <1>2, <1>4, <1>6
    <3>2. \A g \in Frames : document'[g] = 0 =>
            ready'[g] = "none" /\ timers'[g] = 0 /\ g \notin cached' /\ ~injected'[g] /\ inbox'[g] = <<>> /\ pending'[g] = 0
      BY <1>1, <1>2, <1>6, <2>2 DEF IInv, Known
    <3>. QED
      BY <1>2, <1>6, <3>1, <3>2 DEF IInv, Known
  <2>5. InWorker' /\ Boxes'
    BY <1>2, <1>6 DEF IInv, InWorker, Boxes
  <2>6. OnItsWay'
    <3>1. \A g \in Frames : Coming(g) => Coming(g)'
      BY <1>2, <1>3, <2>2 DEF Coming, Shows
    <3>2. \A g \in Frames : Asked(g) => Asked(g)'
      BY <1>2, <1>6 DEF Asked
    <3>. QED
      BY <1>2, <3>1, <3>2 DEF IInv, OnItsWay
  <2>7. PendingUnderWay'
    BY <1>2, <1>6 DEF IInv, PendingUnderWay, Unheard
  <2>. QED
    BY <2>3, <2>4, <2>5, <2>6, <2>7 DEF IInv
<1>. QED
  BY <1>5, <1>6 DEF SetPaused

LEMMA TimeoutStep ==
  ASSUME IInv, NEW f \in Frames, HydrationTimesOut(f)
  PROVE  IInv'
<1>1. UNCHANGED <<paused, pending, document, cached, inbox, tab, queue, step, removed, known, value, durable,
                  stored, strayed, choice, sets, loads, restarts, faults>>
  BY DEF HydrationTimesOut, workerVars, history, bounds
<1>0. timers[f] \in Nat /\ timers[f] - 1 \in 0..MaxSets + 1 /\ timers[f] - 1 <= sets + 1 /\ timers[f] # 0
  BY TabPauseAssumption DEF IInv, Types, FrameTypes, BoundTypes, Known, HydrationTimesOut
<1>2. /\ ready' \in [Frames -> {"none", "extension", "memory", "unavailable"}] /\ ready'[f] = "unavailable"
      /\ timers' \in [Frames -> 0..MaxSets + 1] /\ injected' \in [Frames -> BOOLEAN]
      /\ timers'[f] = timers[f] - 1
      /\ \A g \in Frames : g # f => ready'[g] = ready[g] /\ timers'[g] = timers[g] /\ injected'[g] = injected[g]
  BY <1>0 DEF IInv, Types, FrameTypes, HydrationTimesOut
<1>3. document[f] # 0
  BY <1>0 DEF IInv, Known
<1>4. Types'
  BY <1>1, <1>2 DEF IInv, Types, FrameTypes, LinkTypes, WorkerTypes, BoundTypes
<1>5. Known' /\ InWorker' /\ Boxes'
  <2>1. Known'
    BY <1>0, <1>1, <1>2, <1>3 DEF IInv, Known
  <2>. QED
    BY <1>1, <2>1 DEF IInv, InWorker, Boxes
<1>6. OnItsWay'
  <2>1. \A g \in Frames : Coming(g) => Coming(g)'
    BY <1>1, <1>2 DEF Coming, Shows
  <2>2. \A g \in Frames : Asked(g) => Asked(g)'
    BY <1>1 DEF Asked
  <2>. QED
    BY <1>1, <2>1, <2>2 DEF IInv, OnItsWay
<1>7. PendingUnderWay'
  BY <1>1 DEF IInv, PendingUnderWay, Unheard
<1>. QED
  BY <1>4, <1>5, <1>6, <1>7 DEF IInv

\* While an answer to a read is on its way, nobody has heard it.
LEMMA SomeUnheard ==
  ASSUME IInv, NEW f \in Frames, inbox[f] # <<>>, Head(inbox[f]).kind = "read"
  PROVE  Unheard(f, "read") \in Nat \ {0}
<1> DEFINE A == {i \in DOMAIN queue : /\ queue[i].frame = f /\ queue[i].document = document[f]
                                      /\ queue[i].operation = "read"}
           B == {i \in DOMAIN inbox[f] : inbox[f][i].kind = "read"}
<1>1. queue \in Seq(Request) /\ inbox[f] \in Seq(Message)
  BY DEF IInv, Types, LinkTypes
<1>2. DOMAIN queue = 1..Len(queue) /\ DOMAIN inbox[f] = 1..Len(inbox[f]) /\ Len(queue) \in Nat /\ Len(inbox[f]) \in Nat
      /\ Head(inbox[f]) = inbox[f][1] /\ 1 \in DOMAIN inbox[f]
  BY <1>1, EmptySeq
<1>3. IsFiniteSet(1..Len(queue)) /\ IsFiniteSet(1..Len(inbox[f]))
  BY <1>2, FS_Interval
<1>4. IsFiniteSet(A) /\ IsFiniteSet(B)
  BY <1>2, <1>3, FS_Subset
<1>5. B # {}
  BY <1>2
<1>6. Unheard(f, "read") = Cardinality(A) + Cardinality(B)
  BY DEF Unheard
<1>. HIDE DEF A, B
<1>7. Cardinality(A) \in Nat /\ Cardinality(B) \in Nat /\ Cardinality(B) # 0
  BY <1>4, <1>5, FS_CardinalityType, FS_EmptySet
<1>. QED
  BY <1>6, <1>7

LEMMA DeliverStep ==
  ASSUME IInv, NEW f \in Frames, Deliver(f)
  PROVE  IInv'
<1> DEFINE box == inbox[f]
           m == Head(box)
<1>1. /\ UNCHANGED <<document, cached, tab, queue, step, removed, known, value, durable, stored,
                     strayed, choice, sets, loads, restarts, faults>>
      /\ box # <<>> /\ f \notin cached /\ inbox' = [inbox EXCEPT ![f] = Tail(box)]
      /\ HearBroadcast(f, m) \/ HearReceipt(f, m) \/ HearHydration(f, m)
  BY DEF Deliver, workerVars, history, bounds
<1>2. box \in Seq(Message) /\ Answered(box) /\ tab = "open"
  BY <1>1 DEF IInv, Types, LinkTypes, Boxes, WorkerTypes
<1>3. /\ m \in Message /\ Tail(box) \in Seq(Message) /\ Answered(Tail(box))
      /\ Tail(box) # <<>> => Newest(Tail(box)) = Newest(box)
      /\ Tail(box) = <<>> => Newest(box) = m /\ Count(Tail(box), Receipts) = 0
      /\ m.kind = "broadcast" => m.answered
      /\ Count(box, Receipts) = (IF m.kind = "write" THEN 1 ELSE 0) + Count(Tail(box), Receipts)
      /\ Count(Tail(box), Receipts) \in Nat
  BY <1>1, <1>2, BoxTail
<1>4. /\ pending[f] = Count(queue, Writes(f, document[f])) + Count(box, Receipts)
      /\ Count(queue, Writes(f, document[f])) \in Nat
      /\ pending[f] \in 0..MaxSets
  BY <1>2, PendingCounts DEF IInv, Types, FrameTypes
<1>0. m.kind = "read" /\ timers[f] = Unheard(f, "read") => timers[f] # 0
  BY <1>1, SomeUnheard
<1>. HIDE DEF m
<1>5. /\ inbox' \in [Frames -> Seq(Message)] /\ inbox'[f] = Tail(box)
      /\ \A g \in Frames : g # f => inbox'[g] = inbox[g]
  BY <1>1, <1>3 DEF IInv, Types, LinkTypes
<1>. HIDE DEF box
<1>6. m.answered \in BOOLEAN /\ m.paused \in BOOLEAN /\ m.durable \in BOOLEAN
  BY <1>3 DEF Message
<1>7. pending' = [pending EXCEPT ![f] = IF m.kind = "write" THEN @ - 1 ELSE @]
  <2>1. CASE HearBroadcast(f, m)
    BY <2>1 DEF HearBroadcast, IInv, Types, FrameTypes
  <2>2. CASE HearReceipt(f, m)
    BY <2>2 DEF HearReceipt
  <2>3. CASE HearHydration(f, m)
    BY <2>3 DEF HearHydration, IInv, Types, FrameTypes
  <2>. QED
    BY <1>1, <2>1, <2>2, <2>3
<1>8. m.kind = "write" => pending[f] - 1 \in 0..MaxSets
  BY <1>3, <1>4, TabPauseAssumption
<1>9. /\ pending' \in [Frames -> 0..MaxSets]
      /\ pending'[f] = IF m.kind = "write" THEN pending[f] - 1 ELSE pending[f]
      /\ \A g \in Frames : g # f => pending'[g] = pending[g]
  BY <1>7, <1>8 DEF IInv, Types, FrameTypes
<1>10. /\ pending[f] = (IF m.kind = "write" THEN 1 ELSE 0) \/ m.kind = "read" => ApplyAnswer(f, m)
       /\ ApplyAnswer(f, m) \/ Keep
  <2>1. CASE HearBroadcast(f, m)
    <3>1. m.answered /\ m.kind = "broadcast"
      BY <1>3, <2>1 DEF HearBroadcast
    <3>2. Apply(f, m) => ApplyAnswer(f, m)
      BY <3>1 DEF ApplyAnswer
    <3>3. pending[f] = 0 => Apply(f, m)
      BY <2>1 DEF HearBroadcast
    <3>4. Apply(f, m) \/ Keep
      BY <2>1 DEF HearBroadcast
    <3>. QED
      BY <3>1, <3>2, <3>3, <3>4
  <2>2. CASE HearReceipt(f, m)
    <3>1. m.kind = "write"
      BY <2>2 DEF HearReceipt
    <3>2. pending[f] = 1 => ApplyAnswer(f, m)
      BY <2>2 DEF HearReceipt
    <3>3. ApplyAnswer(f, m) \/ Keep
      BY <2>2 DEF HearReceipt
    <3>. QED
      BY <3>1, <3>2, <3>3
  <2>3. CASE HearHydration(f, m)
    BY <2>3 DEF HearHydration
  <2>. QED
    BY <1>1, <2>1, <2>2, <2>3
<1>11. /\ paused' \in [Frames -> BOOLEAN]
       /\ ready' \in [Frames -> {"none", "extension", "memory", "unavailable"}]
       /\ \A g \in Frames : g # f => paused'[g] = paused[g] /\ ready'[g] = ready[g]
  BY <1>6, <1>10 DEF ApplyAnswer, Keep, Apply, Unavailable, IInv, Types, FrameTypes
<1>12. /\ timers' \in [Frames -> 0..MaxSets + 1] /\ injected' \in [Frames -> BOOLEAN]
       /\ \A g \in Frames : g # f => timers'[g] = timers[g] /\ injected'[g] = injected[g]
       /\ \A g \in Frames : timers'[g] <= timers[g]
  <2>1. /\ timers \in [Frames -> 0..MaxSets + 1] /\ injected \in [Frames -> BOOLEAN]
        /\ \A g \in Frames : timers[g] \in Nat
    BY TabPauseAssumption DEF IInv, Types, FrameTypes
  <2>2. CASE UNCHANGED <<timers, injected>>
    BY <2>1, <2>2
  <2>3. CASE HearHydration(f, m) /\ timers[f] # Unheard(f, "read")
    <3>1. UNCHANGED timers
      BY <2>1, <2>3 DEF HearHydration
    <3>. QED
      BY <2>1, <2>3, <3>1 DEF HearHydration
  <2>4. CASE HearHydration(f, m) /\ timers[f] = Unheard(f, "read")
    <3>1. timers[f] - 1 \in 0..MaxSets + 1
      BY <1>0, <2>1, <2>4, TabPauseAssumption DEF HearHydration
    <3>2. timers' = [timers EXCEPT ![f] = timers[f] - 1] /\ injected' = [injected EXCEPT ![f] = TRUE]
      BY <2>4 DEF HearHydration
    <3>. QED
      BY <2>1, <3>1, <3>2
  <2>. QED
    BY <1>1, <2>2, <2>3, <2>4 DEF HearBroadcast, HearReceipt
<1>13. document[f] # 0
  BY <1>1 DEF IInv, Known, box
<1>14. Types'
  <2>1. FrameTypes'
    BY <1>1, <1>9, <1>11, <1>12 DEF IInv, Types, FrameTypes
  <2>2. LinkTypes' /\ WorkerTypes' /\ BoundTypes'
    BY <1>1, <1>5 DEF IInv, Types, LinkTypes, WorkerTypes, BoundTypes
  <2>. QED
    BY <2>1, <2>2 DEF Types
<1>15. Known'
  <2>1. \A g \in Frames : pending'[g] <= sets' /\ timers'[g] <= sets' + 1 /\ document'[g] <= loads'
    <3>. TAKE g \in Frames
    <3>1. /\ pending[g] <= sets /\ timers[g] <= sets + 1 /\ document[g] <= loads
          /\ pending[g] \in Nat /\ timers[g] \in Nat /\ timers'[g] \in Nat /\ sets \in Nat
      BY <1>12, TabPauseAssumption DEF IInv, Known, Types, FrameTypes, BoundTypes
    <3>2. sets' = sets /\ loads' = loads /\ document'[g] = document[g] /\ timers'[g] <= timers[g]
      BY <1>1, <1>12
    <3>3. pending'[g] <= pending[g] /\ pending'[g] \in Nat
      BY <3>1, <1>9
    <3>. QED
      BY <3>1, <3>2, <3>3
  <2>2. \A g \in Frames : document'[g] = 0 =>
          ready'[g] = "none" /\ timers'[g] = 0 /\ g \notin cached' /\ ~injected'[g] /\ inbox'[g] = <<>> /\ pending'[g] = 0
    <3>. SUFFICES ASSUME NEW g \in Frames, document'[g] = 0
                  PROVE  /\ ready'[g] = "none" /\ timers'[g] = 0 /\ g \notin cached' /\ ~injected'[g]
                         /\ inbox'[g] = <<>> /\ pending'[g] = 0
      OBVIOUS
    <3>1. document[g] = 0 /\ g # f
      BY <1>1, <1>13
    <3>2. /\ ready[g] = "none" /\ timers[g] = 0 /\ ~injected[g] /\ g \notin cached
          /\ inbox[g] = <<>> /\ pending[g] = 0
      BY <3>1 DEF IInv, Known
    <3>. QED
      BY <3>1, <3>2, <1>1, <1>5, <1>9, <1>11, <1>12
  <2>. QED
    BY <1>1, <2>1, <2>2 DEF IInv, Known
<1>16. InWorker' /\ Boxes'
  BY <1>1, <1>2, <1>3, <1>5 DEF IInv, InWorker, Boxes
<1>17. OnItsWay'
  <2>. SUFFICES ASSUME ~strayed, NEW g \in Frames \ cached PROVE Asked(g)' \/ Coming(g)'
    BY <1>1 DEF OnItsWay
  <2>1. Asked(g) => Asked(g)'
    BY <1>1 DEF Asked
  <2>2. Asked(g) \/ Coming(g)
    BY <1>2 DEF IInv, OnItsWay
  <2>3. CASE g # f
    BY <2>1, <2>2, <2>3, <1>1, <1>5, <1>11 DEF Coming, Shows
  <2>4. CASE g = f /\ Tail(box) # <<>>
    <3>1. Coming(f) => Coming(f)'
      BY <2>4, <1>1, <1>3, <1>5 DEF Coming, Shows, box
    <3>. QED
      BY <2>1, <2>2, <2>4, <3>1
  <2>5. CASE g = f /\ Tail(box) = <<>> /\ ~Asked(f)
    <3>1. m.answered /\ m.durable => Shows(m.paused)
      BY <2>2, <2>5, <1>1, <1>3 DEF Coming, box
    <3>2. Count(queue, Writes(f, document[f])) = 0
      BY <2>5, PendingAsked
    <3>3. pending[f] = IF m.kind = "write" THEN 1 ELSE 0
      BY <2>5, <3>2, <1>3, <1>4
    <3>4. ApplyAnswer(f, m)
      BY <1>10, <3>3
    <3>5. ready'[f] = "extension" => m.answered /\ m.durable /\ paused'[f] = m.paused
      BY <3>4 DEF ApplyAnswer, Apply, Unavailable, IInv, Types, FrameTypes
    <3>6. ready'[f] = "extension" => Shows(paused'[f])
      BY <3>1, <3>5
    <3>. QED
      BY <2>5, <3>6, <1>1, <1>5 DEF Coming, Shows
  <2>. QED
    BY <2>1, <2>3, <2>4, <2>5
<1>18. PendingUnderWay'
  <2>1. \A g \in Frames : tab' = "open" =>
          pending'[g] = Count(queue', Writes(g, document'[g])) + Count(inbox'[g], Receipts)
    <3>. TAKE g \in Frames
    <3>1. CASE g = f
      BY <3>1, <1>1, <1>3, <1>4, <1>5, <1>9
    <3>2. CASE g # f
      <4>1. pending[g] = Count(queue, Writes(g, document[g])) + Count(inbox[g], Receipts)
        BY <1>2, PendingCounts
      <4>. QED
        BY <3>2, <4>1, <1>1, <1>5, <1>9
    <3>. QED
      BY <3>1, <3>2
  <2>. QED
    BY <1>14, <2>1, PendingByCount DEF Types
<1>. QED
  BY <1>14, <1>15, <1>16, <1>17, <1>18 DEF IInv

-----------------------------------------------------------------------------
(* The tab is closed                                                       *)

LEMMA FaultyBound ==
  ASSUME IInv, NEW n \in Nat, Faulty(n)
  PROVE  faults' \in 0..MaxFaults
<1>. QED
  BY TabPauseAssumption DEF IInv, Types, BoundTypes, Faulty

LEMMA CloseStep ==
  ASSUME IInv, CloseTab
  PROVE  IInv'
<1>1. UNCHANGED <<paused, ready, pending, timers, injected, document, cached, queue, step, known, value, durable,
                  stored, strayed, choice, sets, loads, restarts, faults>>
      /\ tab' = "closed" /\ removed' = TRUE /\ inbox' = [f \in Frames |-> <<>>]
  BY DEF CloseTab, frameVars, workerVars, history, bounds
<1>2. Types'
  <2>1. <<>> \in Seq(Message)
    OBVIOUS
  <2>. QED
    BY <1>1, <2>1 DEF IInv, Types, FrameTypes, LinkTypes, WorkerTypes, BoundTypes
<1>3. Known' /\ InWorker'
  BY <1>1 DEF IInv, Known, InWorker
<1>4. Boxes'
  BY <1>1 DEF Boxes, Answered
<1>. QED
  BY <1>1, <1>2, <1>3, <1>4 DEF IInv, OnItsWay, PendingUnderWay

LEMMA CleanupStep ==
  ASSUME IInv, NEW failed \in BOOLEAN, Cleanup(failed)
  PROVE  IInv'
<1>1. UNCHANGED <<paused, ready, pending, timers, injected, document, cached, inbox, queue, step, removed,
                  strayed, choice, sets, loads, restarts>>
      /\ tab = "closed" /\ step = "queued" /\ tab' = (IF failed THEN "kept" ELSE "cleaned")
      /\ known' = FALSE /\ value' = FALSE /\ durable' = FALSE /\ stored' = (stored /\ failed)
      /\ Faulty(IF failed THEN 1 ELSE 0)
  BY DEF Cleanup, frameVars, history
<1>0. faults' \in 0..MaxFaults
  BY <1>1, FaultyBound
<1>2. Types'
  BY <1>0, <1>1 DEF IInv, Types, FrameTypes, LinkTypes, WorkerTypes, BoundTypes
<1>3. Known'
  BY <1>1 DEF IInv, Known
<1>4. InWorker'
  BY <1>1 DEF InWorker
<1>5. Boxes'
  BY <1>1 DEF IInv, Boxes
<1>6. tab' # "open"
  BY <1>1
<1>. QED
  BY <1>2, <1>3, <1>4, <1>5, <1>6 DEF IInv, OnItsWay, PendingUnderWay

-----------------------------------------------------------------------------
(* The steps of the worker                                                 *)

\* The newest message of the box says p, and calls it durable only if d.
Heard(s, p, d) == s # <<>> /\ Newest(s).answered /\ Newest(s).paused = p /\ (Newest(s).durable => d)

\* What a frame shows rightly stays right.
Kept == \A p \in BOOLEAN : Shows(p) => Shows(p)'

Mine(f, r) == f = r.frame /\ r.document = document[f]

\* The pages are told p, if sent, and the first request is answered.
Sends(p, d, sent, e) ==
    inbox' = Respond(IF sent THEN Broadcast(inbox, p, d) ELSE inbox, Head(queue), Answer(Head(queue), TRUE, p, e))

LEMMA FinishBoxes ==
  ASSUME IInv, queue # <<>>, tab = "open", NEW p \in BOOLEAN, NEW d \in BOOLEAN, NEW sent \in BOOLEAN,
         NEW e \in BOOLEAN, e => d, Sends(p, d, sent, e)
  PROVE  /\ inbox' \in [Frames -> Seq(Message)]
         /\ \A f \in Frames :
               /\ Answered(inbox'[f])
               /\ document[f] = 0 => inbox'[f] = inbox[f]
               /\ inbox'[f] = inbox[f] \/ Heard(inbox'[f], p, d)
               /\ Mine(f, Head(queue)) => Heard(inbox'[f], p, d)
               /\ sent /\ document[f] # 0 => Heard(inbox'[f], p, d)
               /\ Count(inbox'[f], Receipts) = Count(inbox[f], Receipts)
                     + (IF Mine(f, Head(queue)) /\ Head(queue).operation = "write" THEN 1 ELSE 0)
<1> DEFINE r == Head(queue)
           told == [kind |-> "broadcast", answered |-> TRUE, paused |-> p, durable |-> d]
           ans == Answer(r, TRUE, p, e)
<1>1. r \in Request /\ r.operation \in {"read", "write"} /\ r.document \in 1..MaxLoads
  <2>1. Head(queue) \in Request
    BY HeadTailProperties DEF IInv, Types, LinkTypes
  <2>. QED
    BY <2>1 DEF Request
<1>2. told \in Message /\ told.kind = "broadcast" /\ told.answered /\ told.paused = p /\ told.durable = d
  BY DEF Message
<1>3. ans \in Message /\ ans.kind = r.operation /\ ans.answered /\ ans.paused = p /\ ans.durable = e
  BY <1>1 DEF Message, Answer
<1>4. inbox' = Respond(IF sent THEN Broadcast(inbox, p, d) ELSE inbox, r, ans)
  BY DEF Sends
<1>. HIDE DEF r, told, ans
<1>5. ASSUME NEW f \in Frames
      PROVE  LET box == IF sent /\ document[f] # 0 THEN Append(inbox[f], told) ELSE inbox[f]
             IN  inbox'[f] = IF Mine(f, r) THEN Append(box, ans) ELSE box
  BY <1>4 DEF Respond, Broadcast, Mine, told
<1>6. ASSUME NEW f \in Frames
      PROVE  /\ inbox'[f] \in Seq(Message)
             /\ Answered(inbox'[f])
             /\ document[f] = 0 => inbox'[f] = inbox[f]
             /\ inbox'[f] = inbox[f] \/ Heard(inbox'[f], p, d)
             /\ Mine(f, r) => Heard(inbox'[f], p, d)
             /\ sent /\ document[f] # 0 => Heard(inbox'[f], p, d)
             /\ Count(inbox'[f], Receipts) = Count(inbox[f], Receipts)
                   + (IF Mine(f, r) /\ r.operation = "write" THEN 1 ELSE 0)
  <2> DEFINE box == IF sent /\ document[f] # 0 THEN Append(inbox[f], told) ELSE inbox[f]
  <2>1. inbox[f] \in Seq(Message) /\ Answered(inbox[f])
    BY DEF IInv, Types, LinkTypes, Boxes
  <2>2. Count(inbox[f], Receipts) \in Nat
    <3>1. Len(inbox[f]) \in Nat
      BY <2>1
    <3>. QED
      BY <3>1, CountType
  <2>3. /\ Append(inbox[f], told) \in Seq(Message) /\ Answered(Append(inbox[f], told))
        /\ Append(inbox[f], told) # <<>> /\ Newest(Append(inbox[f], told)) = told
        /\ Count(Append(inbox[f], told), Receipts) = Count(inbox[f], Receipts)
    BY <1>2, <2>1, <2>2, BoxAppend
  <2>4. /\ box \in Seq(Message) /\ Answered(box) /\ Count(box, Receipts) = Count(inbox[f], Receipts)
        /\ box = inbox[f] \/ Heard(box, p, d)
        /\ sent /\ document[f] # 0 => Heard(box, p, d)
        /\ document[f] = 0 => box = inbox[f]
    BY <1>2, <2>1, <2>3 DEF Heard
  <2>5. inbox'[f] = IF Mine(f, r) THEN Append(box, ans) ELSE box
    BY <1>5
  <2>. HIDE DEF box
  <2>6. /\ Append(box, ans) \in Seq(Message) /\ Answered(Append(box, ans)) /\ Heard(Append(box, ans), p, d)
        /\ Count(Append(box, ans), Receipts) = Count(box, Receipts) + (IF r.operation = "write" THEN 1 ELSE 0)
    BY <1>3, <2>4, BoxAppend DEF Heard
  <2>7. CASE Mine(f, r)
    <3>1. document[f] # 0
      BY <1>1, <2>7 DEF Mine
    <3>. QED
      BY <2>4, <2>5, <2>6, <2>7, <3>1
  <2>8. CASE ~Mine(f, r)
    BY <2>2, <2>4, <2>5, <2>8
  <2>. QED
    BY <2>7, <2>8
<1>7. inbox' \in [Frames -> Seq(Message)]
  <2>1. inbox' = [f \in Frames |-> inbox'[f]]
    BY <1>4 DEF Respond
  <2>. QED
    BY <1>6, <2>1
<1>. QED
  BY <1>6, <1>7 DEF r

\* The first request leaves the queue.
LEMMA NextInQueue ==
  ASSUME IInv, queue # <<>>, queue' = Tail(queue), UNCHANGED document
  PROVE  /\ queue' \in Seq(Request)
         /\ \A i \in 1..Len(queue') : queue'[i].document <= document'[queue'[i].frame]
         /\ \A f \in Frames : Asked(f) => Asked(f)' \/ Mine(f, Head(queue))
         /\ \A f \in Frames : /\ Count(queue', Writes(f, document'[f])) \in Nat
                              /\ Count(queue, Writes(f, document[f])) = Count(queue', Writes(f, document'[f]))
                                   + (IF Mine(f, Head(queue)) /\ Head(queue).operation = "write" THEN 1 ELSE 0)
<1>1. /\ queue \in Seq(Request) /\ Head(queue) \in Request /\ Head(queue) = queue[1] /\ queue' \in Seq(Request)
      /\ Len(queue') = Len(queue) - 1 /\ Len(queue) \in Nat \ {0}
      /\ \A i \in 1..Len(queue') : queue'[i] = queue[i + 1]
  BY HeadTailProperties, EmptySeq DEF IInv, Types, LinkTypes
<1>2. \A i \in 1..Len(queue') : queue'[i].document <= document'[queue'[i].frame]
  BY <1>1 DEF IInv, Known
<1>3. ASSUME NEW f \in Frames, Asked(f) PROVE Asked(f)' \/ Mine(f, Head(queue))
  <2>1. PICK i \in 1..Len(queue) : queue[i].frame = f /\ queue[i].document = document[f]
    BY <1>3 DEF Asked
  <2>2. CASE i = 1
    BY <1>1, <2>1, <2>2 DEF Mine
  <2>3. CASE i # 1
    <3>1. i - 1 \in 1..Len(queue') /\ queue'[i - 1] = queue[i]
      BY <1>1, <2>3
    <3>. QED
      BY <2>1, <3>1 DEF Asked
  <2>. QED
    BY <2>2, <2>3
<1>4. ASSUME NEW f \in Frames
      PROVE  /\ Count(queue', Writes(f, document'[f])) \in Nat
             /\ Count(queue, Writes(f, document[f])) = Count(queue', Writes(f, document'[f]))
                  + (IF Mine(f, Head(queue)) /\ Head(queue).operation = "write" THEN 1 ELSE 0)
  <2>1. Head(queue) \in Writes(f, document[f]) <=> Mine(f, Head(queue)) /\ Head(queue).operation = "write"
    BY <1>1 DEF Writes, Mine
  <2>2. Len(queue') \in Nat
    BY <1>1
  <2>3. Count(queue', Writes(f, document[f])) \in Nat
    BY <2>2, CountType
  <2>4. Count(queue, Writes(f, document[f])) = (IF Head(queue) \in Writes(f, document[f]) THEN 1 ELSE 0)
                                               + Count(Tail(queue), Writes(f, document[f]))
    BY <1>1, CountTail
  <2>. QED
    BY <2>1, <2>3, <2>4
<1>. QED
  BY <1>1, <1>2, <1>3, <1>4

\* Bounds and documents, whatever the worker does with the queue
LEMMA WorkerKeepsKnown ==
  ASSUME IInv, UNCHANGED frameVars, UNCHANGED <<sets, loads>>,
         \A i \in 1..Len(queue') : queue'[i].document <= document'[queue'[i].frame],
         \A f \in Frames : document[f] = 0 => inbox'[f] = inbox[f]
  PROVE  Known'
<1>. QED
  BY DEF IInv, Known, frameVars

LEMMA StaysRight ==
  ASSUME IInv, NEW f \in Frames, UNCHANGED frameVars, inbox'[f] = inbox[f], Kept, Coming(f)
  PROVE  Coming(f)'
<1>1. UNCHANGED <<paused, ready>>
  BY DEF frameVars
<1>2. inbox[f] \in Seq(Message) /\ paused[f] \in BOOLEAN
  BY DEF IInv, Types, LinkTypes, FrameTypes
<1>3. CASE inbox[f] = <<>>
  <2>1. Shows(paused[f]) => Shows(paused[f])'
    BY <1>1, <1>2 DEF Kept, Shows
  <2>. QED
    BY <1>1, <1>3, <2>1 DEF Coming
<1>4. CASE inbox[f] # <<>>
  <2> DEFINE q == Newest(inbox[f]).paused
  <2>1. Len(inbox[f]) \in 1..Len(inbox[f])
    BY <1>2, <1>4, EmptySeq
  <2>2. Newest(inbox[f]) \in Message
    BY <1>2, <2>1 DEF Newest
  <2>3. q \in BOOLEAN
    BY <2>2 DEF Message
  <2>4. Shows(q) => Shows(q)'
    BY <2>3 DEF Kept, Shows
  <2>. QED
    BY <1>4, <2>4 DEF Coming
<1>. QED
  BY <1>3, <1>4

\* The worker has done the first request of an open tab: if what it says is
\* right (or not called durable), and all are told or what was right stays so,
\* nothing is lost.
LEMMA FinishStep ==
  ASSUME IInv, queue # <<>>, tab = "open", NEW p \in BOOLEAN, NEW d \in BOOLEAN, NEW sent \in BOOLEAN,
         NEW e \in BOOLEAN, e => d, Sends(p, d, sent, e), NextRequest,
         UNCHANGED frameVars, UNCHANGED <<tab, sets, loads>>,
         ~strayed' /\ d => Shows(p)',
         ~strayed' /\ ~sent => ~strayed /\ Kept
  PROVE  LinkTypes' /\ Known' /\ Boxes' /\ OnItsWay' /\ PendingUnderWay'
<1>1. /\ inbox' \in [Frames -> Seq(Message)]
      /\ \A f \in Frames :
            /\ Answered(inbox'[f])
            /\ document[f] = 0 => inbox'[f] = inbox[f]
            /\ inbox'[f] = inbox[f] \/ Heard(inbox'[f], p, d)
            /\ Mine(f, Head(queue)) => Heard(inbox'[f], p, d)
            /\ sent /\ document[f] # 0 => Heard(inbox'[f], p, d)
            /\ Count(inbox'[f], Receipts) = Count(inbox[f], Receipts)
                  + (IF Mine(f, Head(queue)) /\ Head(queue).operation = "write" THEN 1 ELSE 0)
  BY FinishBoxes
<1>2. queue' = Tail(queue) /\ step' = "queued"
  BY DEF NextRequest
<1>3. UNCHANGED <<paused, ready, pending, timers, injected, document, cached>>
  BY DEF frameVars
<1>4. /\ queue' \in Seq(Request)
      /\ \A i \in 1..Len(queue') : queue'[i].document <= document'[queue'[i].frame]
      /\ \A f \in Frames : Asked(f) => Asked(f)' \/ Mine(f, Head(queue))
      /\ \A f \in Frames : /\ Count(queue', Writes(f, document'[f])) \in Nat
                           /\ Count(queue, Writes(f, document[f])) = Count(queue', Writes(f, document'[f]))
                                + (IF Mine(f, Head(queue)) /\ Head(queue).operation = "write" THEN 1 ELSE 0)
  BY <1>2, <1>3, NextInQueue
<1>5. LinkTypes'
  BY <1>1, <1>4 DEF LinkTypes
<1>6. Known'
  BY <1>1, <1>4, WorkerKeepsKnown
<1>7. Boxes'
  BY <1>1 DEF Boxes
<1>8. OnItsWay'
  <2>. SUFFICES ASSUME ~strayed', NEW f \in Frames \ cached PROVE Asked(f)' \/ Coming(f)'
    BY <1>3 DEF OnItsWay
  <2>1. CASE Heard(inbox'[f], p, d)
    BY <2>1 DEF Heard, Coming
  <2>2. CASE ~Heard(inbox'[f], p, d) /\ sent
    <3>1. document[f] = 0 /\ inbox'[f] = inbox[f]
      BY <1>1, <2>2
    <3>2. ready'[f] = "none" /\ inbox'[f] = <<>>
      BY <1>3, <3>1 DEF IInv, Known
    <3>. QED
      BY <3>2 DEF Coming
  <2>3. CASE ~Heard(inbox'[f], p, d) /\ ~sent
    <3>1. inbox'[f] = inbox[f] /\ (Asked(f) => Asked(f)')
      BY <1>1, <1>4, <2>3
    <3>2. Asked(f) \/ Coming(f)
      BY <2>3 DEF IInv, OnItsWay
    <3>3. Coming(f) => Coming(f)'
      BY <2>3, <3>1, StaysRight
    <3>. QED
      BY <3>1, <3>2, <3>3
  <2>. QED
    BY <2>1, <2>2, <2>3
<1>9. PendingUnderWay'
  <2>1. \A f \in Frames : tab' = "open" =>
          pending'[f] = Count(queue', Writes(f, document'[f])) + Count(inbox'[f], Receipts)
    <3>. TAKE f \in Frames
    <3>1. /\ pending[f] = Count(queue, Writes(f, document[f])) + Count(inbox[f], Receipts)
          /\ Count(queue, Writes(f, document[f])) \in Nat /\ Count(inbox[f], Receipts) \in Nat
      BY PendingCounts
    <3>2. Count(inbox'[f], Receipts) = Count(inbox[f], Receipts)
            + (IF Mine(f, Head(queue)) /\ Head(queue).operation = "write" THEN 1 ELSE 0)
      BY <1>1
    <3>3. /\ Count(queue', Writes(f, document'[f])) \in Nat
          /\ Count(queue, Writes(f, document[f])) = Count(queue', Writes(f, document'[f]))
               + (IF Mine(f, Head(queue)) /\ Head(queue).operation = "write" THEN 1 ELSE 0)
      BY <1>4
    <3>4. pending'[f] = pending[f]
      BY <1>3
    <3>. QED
      BY <3>1, <3>2, <3>3, <3>4
  <2>. QED
    BY <1>5, <2>1, PendingByCount
<1>. QED
  BY <1>5, <1>6, <1>7, <1>8, <1>9

\* The worker goes on with the first request.
LEMMA WorkOnStep ==
  ASSUME IInv, UNCHANGED frameVars, UNCHANGED <<tab, queue, inbox, sets, loads>>,
         strayed => strayed', ~strayed' => Kept
  PROVE  LinkTypes' /\ Known' /\ Boxes' /\ OnItsWay' /\ PendingUnderWay'
<1>1. UNCHANGED <<paused, ready, pending, timers, injected, document, cached>>
  BY DEF frameVars
<1>2. LinkTypes' /\ Known' /\ Boxes'
  BY <1>1 DEF IInv, Types, LinkTypes, Known, Boxes
<1>3. PendingUnderWay'
  BY <1>1 DEF IInv, PendingUnderWay, Unheard
<1>4. OnItsWay'
  <2>. SUFFICES ASSUME tab = "open", ~strayed', NEW f \in Frames \ cached PROVE Asked(f)' \/ Coming(f)'
    BY <1>1 DEF OnItsWay
  <2>1. Asked(f) \/ Coming(f)
    BY DEF IInv, OnItsWay
  <2>2. Asked(f) => Asked(f)'
    BY <1>1 DEF Asked
  <2>3. Coming(f) => Coming(f)'
    BY StaysRight
  <2>. QED
    BY <2>1, <2>2, <2>3
<1>. QED
  BY <1>2, <1>3, <1>4

\* The request of a tab that is gone is dropped.
LEMMA DropStep ==
  ASSUME IInv, queue # <<>>, tab # "open", queue' = Tail(queue), UNCHANGED frameVars,
         UNCHANGED <<tab, inbox, sets, loads>>
  PROVE  LinkTypes' /\ Known' /\ Boxes' /\ OnItsWay' /\ PendingUnderWay'
<1>1. UNCHANGED document
  BY DEF frameVars
<1>2. /\ queue' \in Seq(Request)
      /\ \A i \in 1..Len(queue') : queue'[i].document <= document'[queue'[i].frame]
  BY <1>1, NextInQueue
<1>3. LinkTypes'
  BY <1>2 DEF IInv, Types, LinkTypes
<1>4. Known'
  BY <1>2, WorkerKeepsKnown
<1>5. Boxes'
  BY DEF IInv, Boxes
<1>. QED
  BY <1>3, <1>4, <1>5 DEF OnItsWay, PendingUnderWay

\* The handler ends, by its tail or its .catch.
LEMMA FinishInv ==
  ASSUME IInv, queue # <<>>, NEW p \in BOOLEAN, NEW d \in BOOLEAN, NEW n \in Nat,
         Finish(Head(queue), p, d, n),
         UNCHANGED frameVars, UNCHANGED <<tab, removed, sets, loads, restarts>>, stored' \in BOOLEAN,
         d => p = stored', ~removed \/ tab = "closed",
         Head(queue).operation = "write" /\ ~removed => p = Head(queue).paused,
         Head(queue).operation = "read" /\ n = 0 =>
            stored' = stored /\ (p = stored \/ (known /\ step # "writing" /\ p = value))
  PROVE  IInv'
<1> DEFINE r == Head(queue)
<1>1. UNCHANGED <<paused, ready, pending, timers, injected, document, cached>>
  BY DEF frameVars
<1>2. r \in Request /\ r.operation \in {"read", "write"} /\ r.paused \in BOOLEAN
  <2>1. Head(queue) \in Request
    BY HeadTailProperties DEF IInv, Types, LinkTypes
  <2>. QED
    BY <2>1 DEF Request
<1>3. queue' = Tail(queue) /\ step' = "queued" /\ NextRequest
  BY DEF Finish, NextRequest
<1>4. PICK k \in {n, n + 1}, q \in BOOLEAN, e \in BOOLEAN, sent \in BOOLEAN :
        /\ Faulty(k) /\ Holds(q, e) /\ (e => d)
        /\ (~strayed' /\ d) \/ e => q = stored'
        /\ strayed' \in BOOLEAN /\ choice' \in {"none", choice}
        /\ tab # "open" => inbox' = inbox
        /\ tab = "open" => Sends(q, d, sent, e)
        /\ tab = "open" /\ ~strayed' /\ ~sent => ~strayed /\ q = p /\ r.operation = "read" /\ n = 0
  <2>1. CASE /\ Tell(r, p, d) /\ Faulty(n)
             /\ strayed' = (r.operation = "read" /\ (strayed \/ n > 0))
             /\ choice' = IF r.operation = "read" /\ n > 0 THEN "none" ELSE choice
    <3> DEFINE w == r.operation = "write"
    <3>1. Holds(p, d) /\ (tab # "open" => inbox' = inbox) /\ (tab = "open" => Sends(p, d, w, d)) /\ w \in BOOLEAN
      BY <2>1 DEF Tell, Sends
    <3>2. strayed' \in BOOLEAN /\ choice' \in {"none", choice}
      BY <2>1
    <3>3. ~strayed' /\ ~w => ~strayed /\ r.operation = "read" /\ n = 0
      <4>1. ASSUME ~strayed', ~w PROVE ~strayed /\ r.operation = "read" /\ ~(n > 0)
        <5>1. r.operation = "read"
          BY <1>2, <4>1
        <5>2. strayed' = (r.operation = "read" /\ (strayed \/ n > 0))
          BY <2>1
        <5>. HIDE DEF r, w
        <5>. QED
          BY <4>1, <5>1, <5>2, Zenon
      <4>. QED
        BY <4>1
    <3>. HIDE DEF w, r
    <3>. QED
      BY <2>1, <3>1, <3>2, <3>3
  <2>2. ASSUME NEW sent \in {r.operation = "write", FALSE}, Catch(r, sent, d), Faulty(n + 1), strayed' = ~sent,
               choice' = IF r.operation = "read" THEN "none" ELSE choice
        PROVE  \E k \in {n, n + 1}, q \in BOOLEAN, e \in BOOLEAN, s \in BOOLEAN :
                 /\ Faulty(k) /\ Holds(q, e) /\ (e => d)
                 /\ (~strayed' /\ d) \/ e => q = stored'
                 /\ strayed' \in BOOLEAN /\ choice' \in {"none", choice}
                 /\ tab # "open" => inbox' = inbox
                 /\ tab = "open" => Sends(q, d, s, e)
                 /\ tab = "open" /\ ~strayed' /\ ~s => ~strayed /\ q = p /\ r.operation = "read" /\ n = 0
    <3> DEFINE q == r.operation = "write" /\ r.paused
    <3>1. Holds(q, FALSE) /\ (tab # "open" => inbox' = inbox) /\ (tab = "open" => Sends(q, d, sent, FALSE))
      BY <2>2 DEF Catch, Sends
    <3>2. strayed' \in BOOLEAN /\ choice' \in {"none", choice} /\ sent \in BOOLEAN
      BY <2>2
    <3>3. q \in BOOLEAN /\ (r.operation = "write" => q = p)
      BY <1>2, <2>2 DEF Catch
    <3>4. CASE r.operation = "write"
      <4>1. q = p
        BY <3>3, <3>4
      <4>. HIDE DEF q, r
      <4>. QED
        BY <2>2, <3>1, <3>2, <4>1
    <3>5. CASE r.operation = "read"
      <4>1. q = FALSE /\ sent = FALSE
        BY <2>2, <3>5
      <4>2. strayed'
        BY <2>2, <4>1
      <4>. HIDE DEF q, r
      <4>. QED
        BY <2>2, <3>1, <3>2, <3>3, <4>1, <4>2
    <3>. QED
      BY <1>2, <3>4, <3>5
  <2>. QED
    BY <2>1, <2>2 DEF Finish
<1>5. known' = TRUE /\ value' = q /\ durable' = e
  BY <1>4 DEF Holds
<1>6. LinkTypes' /\ Known' /\ Boxes' /\ OnItsWay' /\ PendingUnderWay'
  <2>1. CASE tab # "open"
    BY <1>3, <1>4, <2>1, DropStep
  <2>2. CASE tab = "open"
    <3>1. ~strayed' /\ d => Shows(q)'
      BY <1>4, <1>5 DEF Shows
    <3>2. ~strayed' /\ ~sent => ~strayed /\ Kept
      <4>1. ASSUME ~strayed', ~sent PROVE ~strayed /\ Kept
        <5>1. ~strayed /\ q = p /\ stored' = stored /\ (p = stored \/ (known /\ step # "writing" /\ p = value))
          BY <1>4, <2>2, <4>1 DEF r
        <5>. QED
          BY <1>5, <5>1 DEF Kept, Shows
      <4>. QED
        BY <4>1
    <3>. QED
      BY <1>3, <1>4, <2>2, <3>1, <3>2, FinishStep
  <2>. QED
    BY <2>1, <2>2
<1>7. InWorker'
  <2>1. e => q = stored'
    BY <1>4
  <2>. QED
    BY <1>3, <1>5, <2>1 DEF IInv, InWorker
<1>8. Types'
  <2>1. faults' \in 0..MaxFaults
    BY <1>4, FaultyBound
  <2>2. choice' \in {"none", "paused", "running"}
    BY <1>4 DEF IInv, Types, WorkerTypes
  <2>. QED
    BY <1>1, <1>3, <1>4, <1>5, <1>6, <2>1, <2>2 DEF IInv, Types, FrameTypes, WorkerTypes, BoundTypes
<1>. QED
  BY <1>6, <1>7, <1>8 DEF IInv

LEMMA BeginStep ==
  ASSUME IInv, BeginRequest
  PROVE  IInv'
<1> DEFINE r == Head(queue)
<1>1. /\ UNCHANGED frameVars /\ UNCHANGED <<tab, removed, stored, sets, loads, restarts>>
      /\ queue # <<>> /\ step = "queued"
  BY DEF BeginRequest
<1>2. UNCHANGED <<paused, ready, pending, timers, injected, document, cached>>
  BY <1>1 DEF frameVars
<1>3. r \in Request /\ r.operation \in {"read", "write"} /\ r.paused \in BOOLEAN
  <2>1. Head(queue) \in Request
    BY <1>1, HeadTailProperties DEF IInv, Types, LinkTypes
  <2>. QED
    BY <2>1 DEF Request
<1>. HIDE DEF r
<1>4. \/ removed /\ NextRequest /\ UNCHANGED <<known, value, durable, inbox, history, faults>>
      \/ ~removed /\ ~known /\ step' = "reading" /\ UNCHANGED <<queue, known, value, durable, inbox, history, faults>>
      \/ ~removed /\ known /\ r.operation = "write" /\ StartWrite(r)
         /\ UNCHANGED <<queue, durable, inbox, history, faults>>
      \/ ~removed /\ known /\ r.operation = "read" /\ Finish(r, value, durable, 0)
  BY DEF BeginRequest, r
<1>5. ASSUME known' \in BOOLEAN, value' \in BOOLEAN, durable' \in BOOLEAN, UNCHANGED <<history, faults>>,
             step' \in {"queued", "reading", "writing"}, LinkTypes'
      PROVE  Types'
  BY <1>1, <1>2, <1>5 DEF IInv, Types, FrameTypes, WorkerTypes, BoundTypes, history
<1>6. known \in BOOLEAN /\ value \in BOOLEAN /\ durable \in BOOLEAN
  BY DEF IInv, Types, WorkerTypes
<1>7. CASE removed /\ NextRequest /\ UNCHANGED <<known, value, durable, inbox, history, faults>>
  <2>0. tab # "open"
    BY <1>7 DEF IInv, InWorker
  <2>1. LinkTypes' /\ Known' /\ Boxes' /\ OnItsWay' /\ PendingUnderWay'
    BY <1>1, <1>7, <2>0, DropStep DEF NextRequest
  <2>2. InWorker'
    BY <1>1, <1>7 DEF NextRequest, IInv, InWorker
  <2>3. Types'
    BY <1>5, <1>6, <1>7, <2>1 DEF NextRequest
  <2>. QED
    BY <2>1, <2>2, <2>3 DEF IInv
<1>8. CASE ~removed /\ ~known /\ step' = "reading" /\ UNCHANGED <<queue, known, value, durable, inbox, history, faults>>
  <2>1. Kept
    BY <1>1, <1>8 DEF Kept, Shows
  <2>2. LinkTypes' /\ Known' /\ Boxes' /\ OnItsWay' /\ PendingUnderWay'
    BY <1>1, <1>8, <2>1, WorkOnStep DEF history
  <2>3. InWorker'
    BY <1>1, <1>8 DEF IInv, InWorker
  <2>4. Types'
    BY <1>5, <1>6, <1>8, <2>2
  <2>. QED
    BY <2>2, <2>3, <2>4 DEF IInv
<1>9. CASE ~removed /\ known /\ r.operation = "write" /\ StartWrite(r) /\ UNCHANGED <<queue, durable, inbox, history, faults>>
  <2>1. Kept
    BY <1>1, <1>9 DEF Kept, Shows, StartWrite
  <2>2. LinkTypes' /\ Known' /\ Boxes' /\ OnItsWay' /\ PendingUnderWay'
    BY <1>1, <1>9, <2>1, WorkOnStep DEF history
  <2>3. InWorker'
    BY <1>1, <1>9 DEF IInv, InWorker, StartWrite, r
  <2>4. Types'
    BY <1>3, <1>5, <1>6, <1>9, <2>2 DEF StartWrite
  <2>. QED
    BY <2>2, <2>3, <2>4 DEF IInv
<1>10. CASE ~removed /\ known /\ r.operation = "read" /\ Finish(r, value, durable, 0)
  <2>1. durable => value = stored'
    BY <1>1, <1>10 DEF IInv, InWorker
  <2>2. Finish(Head(queue), value, durable, 0) /\ Head(queue).operation = "read"
    BY <1>10 DEF r
  <2>3. stored' \in BOOLEAN
    BY <1>1 DEF IInv, Types, WorkerTypes
  <2>4. ASSUME NEW p \in BOOLEAN, p = value, NEW d \in BOOLEAN, d = durable PROVE IInv'
    BY <1>1, <1>10, <2>1, <2>2, <2>3, <2>4, FinishInv
  <2>. QED
    BY <1>6, <2>4
<1>. QED
  BY <1>4, <1>7, <1>8, <1>9, <1>10

LEMMA ReadStep ==
  ASSUME IInv, NEW failed \in BOOLEAN, ReadDone(failed)
  PROVE  IInv'
<1> DEFINE r == Head(queue)
           n == IF failed THEN 1 ELSE 0
<1>1. /\ UNCHANGED frameVars /\ UNCHANGED <<tab, removed, stored, sets, loads, restarts>>
      /\ queue # <<>> /\ step = "reading" /\ ~known
  BY DEF ReadDone, IInv, InWorker
<1>2. UNCHANGED <<paused, ready, pending, timers, injected, document, cached>>
  BY <1>1 DEF frameVars
<1>3. r \in Request /\ r.operation \in {"read", "write"} /\ r.paused \in BOOLEAN
  <2>1. Head(queue) \in Request
    BY <1>1, HeadTailProperties DEF IInv, Types, LinkTypes
  <2>. QED
    BY <2>1 DEF Request
<1>4. stored \in BOOLEAN /\ n \in Nat /\ (n = 0 <=> ~failed)
  BY DEF IInv, Types, WorkerTypes
<1>5. CASE removed \/ r.operation = "read"
  <2>1. Finish(Head(queue), stored /\ ~failed, ~failed, n)
    BY <1>5 DEF ReadDone
  <2>. HIDE DEF n
  <2>2. ASSUME NEW p \in BOOLEAN, p = (stored /\ ~failed), NEW d \in BOOLEAN, d = ~failed PROVE IInv'
    <3>1. Finish(Head(queue), p, d, n)
      BY <2>1, <2>2
    <3>2. (d => p = stored') /\ stored' \in BOOLEAN /\ (n = 0 => p = stored)
      BY <1>1, <1>4, <2>2
    <3>3. ~removed \/ tab = "closed"
      BY <1>1 DEF IInv, InWorker
    <3>4. ~(Head(queue).operation = "write" /\ ~removed)
      BY <1>5
    <3>. QED
      BY <1>1, <1>4, <3>1, <3>2, <3>3, <3>4, FinishInv
  <2>. QED
    BY <2>2
<1>6. CASE ~removed /\ r.operation = "write"
  <2>1. /\ StartWrite(r) /\ durable' = ~failed /\ Faulty(n)
        /\ strayed' = (strayed \/ failed) /\ UNCHANGED <<queue, inbox, choice>>
    BY <1>6 DEF ReadDone
  <2>. HIDE DEF r
  <2>2. Kept
    BY <1>1, <2>1 DEF Kept, Shows, StartWrite
  <2>3. LinkTypes' /\ Known' /\ Boxes' /\ OnItsWay' /\ PendingUnderWay'
    BY <1>1, <2>1, <2>2, WorkOnStep
  <2>4. InWorker'
    BY <1>1, <1>6, <2>1 DEF IInv, InWorker, StartWrite, r
  <2>5. Types'
    <3>1. faults' \in 0..MaxFaults
      BY <1>4, <2>1, FaultyBound
    <3>2. strayed' \in BOOLEAN /\ choice' = choice
      BY <2>1
    <3>. QED
      BY <1>1, <1>2, <1>3, <2>1, <2>3, <3>1, <3>2 DEF IInv, Types, FrameTypes, WorkerTypes, BoundTypes, StartWrite
  <2>. QED
    BY <2>3, <2>4, <2>5 DEF IInv
<1>. QED
  BY <1>3, <1>5, <1>6

LEMMA WriteStep ==
  ASSUME IInv, NEW failed \in BOOLEAN, WriteDone(failed)
  PROVE  IInv'
<1> DEFINE n == IF failed THEN 1 ELSE 0
<1>1. /\ UNCHANGED frameVars /\ UNCHANGED <<tab, removed, sets, loads, restarts>>
      /\ queue # <<>> /\ step = "writing" /\ stored' = (IF failed THEN stored ELSE value)
      /\ Finish(Head(queue), value, ~failed, n)
  BY DEF WriteDone
<1>2. n \in Nat /\ value \in BOOLEAN /\ stored' \in BOOLEAN
  BY <1>1 DEF IInv, Types, WorkerTypes
<1>. HIDE DEF n
<1>3. Head(queue).operation = "write" /\ value = Head(queue).paused /\ (~removed \/ tab = "closed")
  BY <1>1 DEF IInv, InWorker
<1>4. ASSUME NEW p \in BOOLEAN, p = value, NEW d \in BOOLEAN, d = ~failed PROVE IInv'
  BY <1>1, <1>2, <1>3, <1>4, FinishInv
<1>. QED
  BY <1>2, <1>4

\* The places of the requests of the document of f among the first n
Lost(f, n, op) ==
    {i \in 1..n : queue[i].frame = f /\ queue[i].document = document[f] /\ queue[i].operation = op}

\* The messages for closed ports are one for each request that was lost.
LEMMA ClosedPorts ==
  ASSUME NEW f, NEW n \in Nat, NEW op \in {"read", "write"}
  PROVE  /\ Closed(f, n, op) \in Seq(Message) /\ Cardinality(Lost(f, n, op)) \in Nat
         /\ \A j \in 1..Len(Closed(f, n, op)) :
               Closed(f, n, op)[j].kind = op /\ ~Closed(f, n, op)[j].answered
         /\ Count(Closed(f, n, op), Receipts) = IF op = "write" THEN Cardinality(Lost(f, n, op)) ELSE 0
         /\ Closed(f, n, op) = <<>> <=> Lost(f, n, op) = {}
<1> DEFINE lost == Lost(f, n, op)
           k == Cardinality(lost)
           m == [kind |-> op, answered |-> FALSE, paused |-> FALSE, durable |-> FALSE]
           s == Closed(f, n, op)
<1>1. IsFiniteSet(lost) /\ k \in Nat
  <2>1. IsFiniteSet(1..n)
    BY FS_Interval
  <2>2. IsFiniteSet(lost)
    BY <2>1, FS_Subset DEF Lost
  <2>. HIDE DEF lost
  <2>. QED
    BY <2>2, FS_CardinalityType
<1>2. s = [j \in 1..k |-> m]
  BY DEF Closed, Lost
<1>3. m \in Message /\ m.kind = op /\ ~m.answered
  BY DEF Message
<1>4. k = 0 <=> lost = {}
  <2>. HIDE DEF lost
  <2>. QED
    BY <1>1, FS_EmptySet
<1>. HIDE DEF k, m, s
<1>5. s \in Seq(Message) /\ Len(s) = k /\ \A j \in 1..Len(s) : s[j] = m
  BY <1>1, <1>2, <1>3
<1>6. s = <<>> <=> k = 0
  BY <1>5, EmptySeq
<1>7. Count(s, Receipts) = IF op = "write" THEN k ELSE 0
  <2>1. CASE op = "write"
    <3>1. Places(s, Receipts) = 1..k
      BY <1>1, <1>3, <1>5, <2>1 DEF Places, Receipts
    <3>2. Cardinality(1..k) = k
      BY <1>1, FS_Interval
    <3>. QED
      BY <2>1, <3>1, <3>2 DEF Count
  <2>2. CASE op # "write"
    <3>1. \A j \in 1..Len(s) : s[j] \notin Receipts
      BY <1>3, <1>5, <2>2 DEF Receipts
    <3>. QED
      BY <2>2, <3>1, CountNone
  <2>. QED
    BY <2>1, <2>2
<1>. QED
  BY <1>1, <1>3, <1>4, <1>5, <1>6, <1>7 DEF s, k

\* Only messages for closed ports
Closing(s) == \A j \in 1..Len(s) : s[j].kind # "broadcast" /\ ~s[j].answered

\* They come after what was under way.
LEMMA BoxConcat ==
  ASSUME NEW s \in Seq(Message), NEW t \in Seq(Message), Answered(s), Closing(t)
  PROVE  /\ s \o t \in Seq(Message) /\ Answered(s \o t)
         /\ t = <<>> => s \o t = s
         /\ t # <<>> => s \o t # <<>> /\ ~Newest(s \o t).answered
         /\ Count(s \o t, Receipts) = Count(s, Receipts) + Count(t, Receipts)
<1>1. /\ s \o t \in Seq(Message) /\ Len(s \o t) = Len(s) + Len(t) /\ Len(s) \in Nat /\ Len(t) \in Nat
      /\ \A i \in 1..Len(s) + Len(t) : (s \o t)[i] = IF i <= Len(s) THEN s[i] ELSE t[i - Len(s)]
  BY ConcatProperties
<1>2. \A i \in 1..Len(s) + Len(t) : i \in 1..Len(s) \/ (i - Len(s) \in 1..Len(t) /\ ~(i <= Len(s)))
  <2>1. ASSUME NEW a \in Nat, NEW b \in Nat, NEW i \in 1..a + b PROVE i \in 1..a \/ (i - a \in 1..b /\ ~(i <= a))
    OBVIOUS
  <2>. QED
    BY <1>1, <2>1
<1>3. Answered(s \o t)
  BY <1>1, <1>2 DEF Answered, Closing
<1>4. t = <<>> => s \o t = s
  BY <1>1
<1>5. ASSUME t # <<>> PROVE s \o t # <<>> /\ ~Newest(s \o t).answered
  <2>1. Len(t) \in 1..Len(t)
    BY <1>1, <1>5, EmptySeq
  <2>2. Len(s) + Len(t) \in 1..Len(s) + Len(t) /\ ~(Len(s) + Len(t) <= Len(s)) /\ (Len(s) + Len(t)) - Len(s) = Len(t)
    BY <1>1, <2>1
  <2>3. Newest(s \o t) = t[Len(t)]
    BY <1>1, <2>2 DEF Newest
  <2>4. Len(s \o t) # 0
    BY <1>1, <2>1
  <2>. QED
    BY <2>1, <2>3, <2>4 DEF Closing
<1>. QED
  BY <1>1, <1>3, <1>4, <1>5, CountConcat

LEMMA RestartOpen ==
  ASSUME IInv, NEW n \in 0..Len(queue), Restart(n), tab = "open"
  PROVE  IInv'
<1>1. /\ UNCHANGED frameVars /\ UNCHANGED <<sets, loads, faults>>
      /\ restarts < MaxRestarts /\ restarts' = restarts + 1 /\ n <= Len(queue)
      /\ removed' = FALSE /\ known' = FALSE /\ value' = FALSE /\ durable' = FALSE /\ step' = "queued"
      /\ tab' = "open"
      /\ queue' = SubSeq(queue, n + 1, Len(queue))
      /\ stored' \in (IF step = "writing" THEN {stored, value} ELSE {stored})
      /\ strayed' = (strayed \/ step = "writing") /\ choice' \in {"none", choice}
      /\ inbox' = [f \in Frames |-> inbox[f] \o (Closed(f, n, "read") \o Closed(f, n, "write"))]
  BY DEF Restart
<1>2. UNCHANGED <<paused, ready, pending, timers, injected, document, cached>>
  BY <1>1 DEF frameVars
<1>3. queue \in Seq(Request) /\ Len(queue) \in Nat /\ n \in Nat
  BY DEF IInv, Types, LinkTypes
<1>4. /\ queue' \in Seq(Request) /\ Len(queue') = Len(queue) - n
      /\ \A i \in 1..Len(queue') : queue'[i] = queue[n + i] /\ n + i \in 1..Len(queue)
  BY <1>1, <1>3
<1> DEFINE Ports(f) == Closed(f, n, "read") \o Closed(f, n, "write")
<1>5. ASSUME NEW f \in Frames
      PROVE  /\ Ports(f) \in Seq(Message)
             /\ Closing(Ports(f))
             /\ Count(Ports(f), Receipts) = Cardinality(Lost(f, n, "write"))
             /\ Ports(f) = <<>> <=> Lost(f, n, "read") = {} /\ Lost(f, n, "write") = {}
  <2> DEFINE s == Closed(f, n, "read")
             t == Closed(f, n, "write")
  <2>1. /\ s \in Seq(Message) /\ \A j \in 1..Len(s) : s[j].kind = "read" /\ ~s[j].answered
        /\ Count(s, Receipts) = 0 /\ (s = <<>> <=> Lost(f, n, "read") = {})
    BY <1>3, ClosedPorts
  <2>2. /\ t \in Seq(Message) /\ \A j \in 1..Len(t) : t[j].kind = "write" /\ ~t[j].answered
        /\ Count(t, Receipts) = Cardinality(Lost(f, n, "write")) /\ (t = <<>> <=> Lost(f, n, "write") = {})
    BY <1>3, ClosedPorts
  <2>. HIDE DEF s, t
  <2>3. Answered(s)
    BY <2>1 DEF Answered
  <2>4. Closing(t)
    BY <2>2 DEF Closing
  <2>5. /\ s \o t \in Seq(Message) /\ (t = <<>> => s \o t = s) /\ (t # <<>> => s \o t # <<>>)
        /\ Count(s \o t, Receipts) = Count(s, Receipts) + Count(t, Receipts)
    BY <2>1, <2>2, <2>3, <2>4, BoxConcat
  <2>6. /\ Len(s \o t) = Len(s) + Len(t) /\ Len(s) \in Nat /\ Len(t) \in Nat
        /\ \A i \in 1..Len(s) + Len(t) : (s \o t)[i] = IF i <= Len(s) THEN s[i] ELSE t[i - Len(s)]
    BY <2>1, <2>2, ConcatProperties
  <2>7. Closing(s \o t)
    <3>1. ASSUME NEW a \in Nat, NEW b \in Nat, NEW i \in 1..a + b PROVE i \in 1..a \/ (i - a \in 1..b /\ ~(i <= a))
      OBVIOUS
    <3>2. \A i \in 1..Len(s) + Len(t) : i \in 1..Len(s) \/ (i - Len(s) \in 1..Len(t) /\ ~(i <= Len(s)))
      BY <2>6, <3>1
    <3>. QED
      BY <2>1, <2>2, <2>6, <3>2 DEF Closing
  <2>8. Len(t) \in Nat /\ Count(t, Receipts) \in Nat /\ (s \o t = <<>> <=> s = <<>> /\ t = <<>>)
    BY <2>5, <2>6, CountType
  <2>9. Ports(f) = s \o t
    BY DEF s, t
  <2>. HIDE DEF Ports
  <2>. QED
    BY <2>1, <2>2, <2>5, <2>7, <2>8, <2>9
<1>6. \A f \in Frames : inbox'[f] = inbox[f] \o Ports(f)
  BY <1>1
<1>. HIDE DEF Ports
<1>7. ASSUME NEW f \in Frames
      PROVE  /\ inbox'[f] \in Seq(Message) /\ Answered(inbox'[f])
             /\ Ports(f) = <<>> => inbox'[f] = inbox[f]
             /\ Ports(f) # <<>> => inbox'[f] # <<>> /\ ~Newest(inbox'[f]).answered
             /\ Count(inbox'[f], Receipts) = Count(inbox[f], Receipts) + Cardinality(Lost(f, n, "write"))
  <2>1. inbox[f] \in Seq(Message) /\ Answered(inbox[f])
    BY DEF IInv, Types, LinkTypes, Boxes
  <2> DEFINE s == inbox[f]
             t == Ports(f)
  <2>2. /\ t \in Seq(Message) /\ Closing(t) /\ Count(t, Receipts) = Cardinality(Lost(f, n, "write"))
        /\ s \in Seq(Message) /\ Answered(s) /\ inbox'[f] = s \o t
    BY <1>5, <1>6, <2>1
  <2>. HIDE DEF s, t
  <2>3. /\ s \o t \in Seq(Message) /\ Answered(s \o t)
        /\ t = <<>> => s \o t = s
        /\ t # <<>> => s \o t # <<>> /\ ~Newest(s \o t).answered
        /\ Count(s \o t, Receipts) = Count(s, Receipts) + Count(t, Receipts)
    BY <2>2, BoxConcat
  <2>. QED
    BY <2>2, <2>3 DEF s, t
<1>8. ASSUME NEW f \in Frames, document[f] = 0 PROVE inbox'[f] = inbox[f]
  <2>1. \A i \in 1..n : queue[i].document # 0
    <3>1. \A i \in 1..n : queue[i] \in Request
      BY <1>3
    <3>. QED
      BY <3>1 DEF Request
  <2>2. Lost(f, n, "read") = {} /\ Lost(f, n, "write") = {}
    BY <1>8, <2>1 DEF Lost
  <2>3. Ports(f) = <<>>
    BY <1>5, <2>2
  <2>. QED
    BY <1>7, <2>3
<1>9. LinkTypes'
  <2>1. inbox' = [f \in Frames |-> inbox'[f]]
    BY <1>1
  <2>. QED
    BY <1>4, <1>7, <2>1 DEF LinkTypes
<1>10. Types'
  <2>1. restarts' \in 0..MaxRestarts
    BY <1>1, TabPauseAssumption DEF IInv, Types, BoundTypes
  <2>2. stored' \in BOOLEAN /\ strayed' \in BOOLEAN /\ choice' \in {"none", "paused", "running"}
    BY <1>1 DEF IInv, Types, WorkerTypes
  <2>. QED
    BY <1>1, <1>2, <1>9, <2>1, <2>2 DEF IInv, Types, FrameTypes, WorkerTypes, BoundTypes
<1>11. Known'
  <2>1. \A i \in 1..Len(queue') : queue'[i].document <= document'[queue'[i].frame]
    BY <1>2, <1>4 DEF IInv, Known
  <2>. QED
    BY <1>1, <1>8, <2>1, WorkerKeepsKnown
<1>12. InWorker' /\ Boxes'
  BY <1>1, <1>7 DEF InWorker, Boxes
<1>13. OnItsWay'
  <2>. SUFFICES ASSUME ~strayed', NEW f \in Frames \ cached PROVE Asked(f)' \/ Coming(f)'
    BY <1>2 DEF OnItsWay
  <2>1. ~strayed /\ step # "writing" /\ stored' = stored
    BY <1>1
  <2>2. CASE Ports(f) # <<>>
    BY <1>7, <2>2 DEF Coming
  <2>3. CASE Ports(f) = <<>>
    <3>1. Asked(f) \/ Coming(f)
      BY <1>1, <2>1 DEF IInv, OnItsWay
    <3>2. Kept
      BY <1>1, <2>1 DEF Kept, Shows
    <3>3. Coming(f) => Coming(f)'
      BY <1>1, <1>7, <2>3, <3>2, StaysRight
    <3>4. ASSUME Asked(f) PROVE Asked(f)'
      <4>1. PICK i \in 1..Len(queue) : queue[i].frame = f /\ queue[i].document = document[f]
        BY <3>4 DEF Asked
      <4>2. ~(i \in 1..n)
        <5>1. queue[i].operation \in {"read", "write"}
          <6>1. queue[i] \in Request
            BY <1>3
          <6>. QED
            BY <6>1 DEF Request
        <5>. QED
          BY <1>5, <2>3, <4>1, <5>1 DEF Lost
      <4>3. i - n \in 1..Len(queue') /\ queue'[i - n] = queue[i]
        <5>1. i - n \in 1..(Len(queue) - n) /\ n + (i - n) = i
          BY <1>3, <4>2
        <5>. QED
          BY <1>4, <5>1
      <4>. QED
        BY <1>2, <4>1, <4>3 DEF Asked
    <3>. QED
      BY <3>1, <3>3, <3>4
  <2>. QED
    BY <2>2, <2>3
<1>14. PendingUnderWay'
  <2>1. ASSUME NEW f \in Frames
        PROVE  pending'[f] = Count(queue', Writes(f, document'[f])) + Count(inbox'[f], Receipts)
    <3>1. /\ pending[f] = Count(queue, Writes(f, document[f])) + Count(inbox[f], Receipts)
          /\ Count(queue, Writes(f, document[f])) \in Nat /\ Count(inbox[f], Receipts) \in Nat
      BY <1>1, PendingCounts
    <3>2. Lost(f, n, "write") = {i \in 1..n : queue[i] \in Writes(f, document[f])}
      <4>1. \A i \in 1..n : queue[i] \in Request
        BY <1>3
      <4>. QED
        BY <4>1 DEF Writes, Lost
    <3>3. IsFiniteSet(Lost(f, n, "write")) /\ Cardinality(Lost(f, n, "write")) \in Nat
      <4>1. IsFiniteSet(1..n)
        BY <1>3, FS_Interval
      <4>2. IsFiniteSet(Lost(f, n, "write"))
        BY <4>1, FS_Subset DEF Lost
      <4>. QED
        BY <4>2, FS_CardinalityType
    <3>4. Count(queue, Writes(f, document[f])) = Cardinality(Lost(f, n, "write")) + Count(queue', Writes(f, document[f]))
      BY <1>1, <1>3, <3>2, CountRest
    <3>5. Count(queue', Writes(f, document[f])) \in Nat
      <4>1. Len(queue') \in Nat
        BY <1>4
      <4>. QED
        BY <4>1, CountType
    <3>6. Count(inbox'[f], Receipts) = Count(inbox[f], Receipts) + Cardinality(Lost(f, n, "write"))
      BY <1>7
    <3>. QED
      BY <1>2, <3>1, <3>3, <3>4, <3>5, <3>6
  <2>. QED
    BY <1>9, <2>1, PendingByCount
<1>. QED
  BY <1>10, <1>11, <1>12, <1>13, <1>14 DEF IInv

LEMMA RestartStep ==
  ASSUME IInv, NEW n \in 0..Len(queue), Restart(n)
  PROVE  IInv'
<1>1. CASE tab = "open"
  BY <1>1, RestartOpen
<1>2. CASE tab # "open"
  <2>1. /\ UNCHANGED frameVars /\ UNCHANGED <<inbox, sets, loads, faults>>
        /\ restarts < MaxRestarts /\ restarts' = restarts + 1
        /\ removed' = FALSE /\ known' = FALSE /\ value' = FALSE /\ durable' = FALSE /\ step' = "queued"
        /\ tab' = (IF tab = "closed" THEN "forgotten" ELSE tab) /\ tab' # "open"
        /\ queue' = SubSeq(queue, n + 1, Len(queue))
        /\ stored' \in (IF step = "writing" THEN {stored, value} ELSE {stored})
        /\ strayed' = (strayed \/ step = "writing") /\ choice' \in {"none", choice}
    BY <1>2 DEF Restart
  <2>2. UNCHANGED <<paused, ready, pending, timers, injected, document, cached>>
    BY <2>1 DEF frameVars
  <2>3. queue \in Seq(Request) /\ Len(queue) \in Nat /\ n \in Nat
    BY DEF IInv, Types, LinkTypes
  <2>4. /\ queue' \in Seq(Request) /\ Len(queue') = Len(queue) - n
        /\ \A i \in 1..Len(queue') : queue'[i] = queue[n + i] /\ n + i \in 1..Len(queue)
    BY <2>1, <2>3
  <2>5. Types'
    <3>1. restarts' \in 0..MaxRestarts
      BY <2>1, TabPauseAssumption DEF IInv, Types, BoundTypes
    <3>2. stored' \in BOOLEAN /\ strayed' \in BOOLEAN /\ choice' \in {"none", "paused", "running"}
      BY <2>1 DEF IInv, Types, WorkerTypes
    <3>3. tab' \in {"open", "closed", "cleaned", "kept", "forgotten"}
      BY <2>1 DEF IInv, Types, WorkerTypes
    <3>. QED
      BY <2>1, <2>2, <2>4, <3>1, <3>2, <3>3 DEF IInv, Types, FrameTypes, LinkTypes, WorkerTypes, BoundTypes
  <2>6. Known'
    <3>1. \A i \in 1..Len(queue') : queue'[i].document <= document'[queue'[i].frame]
      BY <2>2, <2>4 DEF IInv, Known
    <3>. QED
      BY <2>1, <3>1, WorkerKeepsKnown
  <2>7. InWorker' /\ Boxes'
    BY <1>2, <2>1 DEF IInv, InWorker, Boxes
  <2>. QED
    BY <2>1, <2>5, <2>6, <2>7 DEF IInv, OnItsWay, PendingUnderWay
<1>. QED
  BY <1>1, <1>2

LEMMA NextInv == IInv /\ [Next]_vars => IInv'
<1>. SUFFICES ASSUME IInv, [Next]_vars PROVE IInv'
  OBVIOUS
<1>1. CASE Worker
  <2>1. CASE BeginRequest
    BY <2>1, BeginStep
  <2>2. ASSUME NEW failed \in BOOLEAN, ReadDone(failed) PROVE IInv'
    BY <2>2, ReadStep
  <2>3. ASSUME NEW failed \in BOOLEAN, WriteDone(failed) PROVE IInv'
    BY <2>3, WriteStep
  <2>4. ASSUME NEW failed \in BOOLEAN, Cleanup(failed) PROVE IInv'
    BY <2>4, CleanupStep
  <2>. QED
    BY <1>1, <2>1, <2>2, <2>3, <2>4 DEF Worker
<1>2. ASSUME NEW f \in Frames, Load(f) PROVE IInv'
  BY <1>2, LoadStep
<1>3. ASSUME NEW f \in Frames, Restore(f) PROVE IInv'
  BY <1>3, RestoreStep
<1>4. ASSUME NEW f \in Frames, HydrationTimesOut(f) PROVE IInv'
  BY <1>4, TimeoutStep
<1>5. ASSUME NEW f \in Frames, Deliver(f) PROVE IInv'
  BY <1>5, DeliverStep
<1>6. ASSUME NEW f \in Frames, NEW p \in BOOLEAN, SetPaused(f, p) PROVE IInv'
  BY <1>6, SetPausedStep
<1>7. ASSUME NEW n \in 0..Len(queue), Restart(n) PROVE IInv'
  BY <1>7, RestartStep
<1>8. CASE CloseTab
  BY <1>8, CloseStep
<1>10. ASSUME NEW f \in Frames, Freeze(f) PROVE IInv'
  BY <1>10, FreezeStep
<1>11. ASSUME NEW f \in Frames, Miss(f) PROVE IInv'
  BY <1>11, MissStep
<1>9. CASE UNCHANGED vars
  <2>1. UNCHANGED frameVars /\ UNCHANGED inbox /\ UNCHANGED <<tab, queue>> /\ UNCHANGED workerVars
        /\ UNCHANGED history /\ UNCHANGED bounds
    BY <1>9 DEF vars
  <2>2. Kept
    BY <2>1 DEF workerVars, Kept, Shows
  <2>3. Known' /\ Boxes' /\ OnItsWay' /\ PendingUnderWay'
    BY <2>1, <2>2, WorkOnStep DEF workerVars, history, bounds
  <2>4. InWorker'
    BY <2>1 DEF workerVars, IInv, InWorker
  <2>5. Types'
    BY <2>1 DEF frameVars, workerVars, history, bounds, IInv, Types, FrameTypes, LinkTypes, WorkerTypes, BoundTypes
  <2>. QED
    BY <2>3, <2>4, <2>5 DEF IInv
<1>. QED
  BY <1>1, <1>2, <1>3, <1>4, <1>5, <1>6, <1>7, <1>8, <1>9, <1>10, <1>11 DEF Next

-----------------------------------------------------------------------------
(* The last choice                                                         *)

AllRead(s) == \A i \in 1..Len(s) : s[i].operation = "read"

\* The last write of s is one of c.
LastWrite(s, c) ==
    \E k \in 1..Len(s) : /\ s[k].operation = "write" /\ s[k].paused = c
                         /\ \A i \in 1..Len(s) : i > k => s[i].operation = "read"

Chosen(c) == LastWrite(queue, c) \/ (AllRead(queue) /\ StateOfTab = c)

\* The choice waits for the worker as the last write, or is the state of the tab.
ChoiceAhead == tab = "open" /\ choice # "none" => Chosen(choice = "paused")

LEMMA QueueAppend ==
  ASSUME NEW s \in Seq(Request), NEW r \in Request, NEW c \in BOOLEAN
  PROVE  /\ r.operation = "read" => /\ AllRead(s) => AllRead(Append(s, r))
                                    /\ LastWrite(s, c) => LastWrite(Append(s, r), c)
         /\ r.operation = "write" => LastWrite(Append(s, r), r.paused)
<1>1. /\ Len(s) \in Nat /\ Len(Append(s, r)) = Len(s) + 1 /\ Append(s, r)[Len(s) + 1] = r
      /\ \A i \in 1..Len(s) : Append(s, r)[i] = s[i]
  BY AppendProperties
<1>2. ASSUME r.operation = "read", AllRead(s) PROVE AllRead(Append(s, r))
  BY <1>1, <1>2 DEF AllRead
<1>3. ASSUME r.operation = "read", LastWrite(s, c) PROVE LastWrite(Append(s, r), c)
  <2>1. PICK k \in 1..Len(s) : /\ s[k].operation = "write" /\ s[k].paused = c
                               /\ \A i \in 1..Len(s) : i > k => s[i].operation = "read"
    BY <1>3 DEF LastWrite
  <2>2. k \in 1..Len(Append(s, r)) /\ Append(s, r)[k] = s[k]
    BY <1>1
  <2>3. \A i \in 1..Len(Append(s, r)) : i > k => Append(s, r)[i].operation = "read"
    BY <1>1, <1>3, <2>1
  <2>. QED
    BY <2>1, <2>2, <2>3 DEF LastWrite
<1>4. ASSUME r.operation = "write" PROVE LastWrite(Append(s, r), r.paused)
  <2>1. Len(s) + 1 \in 1..Len(Append(s, r)) /\ \A i \in 1..Len(Append(s, r)) : ~(i > Len(s) + 1)
    BY <1>1
  <2>. QED
    BY <1>1, <1>4, <2>1 DEF LastWrite
<1>. QED
  BY <1>2, <1>3, <1>4

LEMMA QueueTail ==
  ASSUME NEW s \in Seq(Request), s # <<>>, NEW c \in BOOLEAN
  PROVE  /\ AllRead(s) => AllRead(Tail(s)) /\ Head(s).operation = "read"
         /\ LastWrite(s, c) => \/ LastWrite(Tail(s), c)
                               \/ Head(s).operation = "write" /\ Head(s).paused = c /\ AllRead(Tail(s))
<1>1. /\ Len(s) \in Nat \ {0} /\ Len(Tail(s)) = Len(s) - 1 /\ Head(s) = s[1]
      /\ \A i \in 1..Len(Tail(s)) : Tail(s)[i] = s[i + 1]
  BY HeadTailProperties, EmptySeq
<1>2. ASSUME AllRead(s) PROVE AllRead(Tail(s)) /\ Head(s).operation = "read"
  BY <1>1, <1>2 DEF AllRead
<1>3. ASSUME LastWrite(s, c)
      PROVE  \/ LastWrite(Tail(s), c)
             \/ Head(s).operation = "write" /\ Head(s).paused = c /\ AllRead(Tail(s))
  <2>1. PICK k \in 1..Len(s) : /\ s[k].operation = "write" /\ s[k].paused = c
                               /\ \A i \in 1..Len(s) : i > k => s[i].operation = "read"
    BY <1>3 DEF LastWrite
  <2>2. CASE k = 1
    BY <1>1, <2>1, <2>2 DEF AllRead
  <2>3. CASE k # 1
    <3>1. k - 1 \in 1..Len(Tail(s)) /\ Tail(s)[k - 1] = s[k]
      BY <1>1, <2>3
    <3>2. \A i \in 1..Len(Tail(s)) : i > k - 1 => Tail(s)[i].operation = "read"
      BY <1>1, <2>1
    <3>. QED
      BY <2>1, <3>1, <3>2 DEF LastWrite
  <2>. QED
    BY <2>2, <2>3
<1>. QED
  BY <1>2, <1>3

LEMMA QueueRest ==
  ASSUME NEW s \in Seq(Request), NEW n \in 0..Len(s), NEW c \in BOOLEAN
  PROVE  LET rest == SubSeq(s, n + 1, Len(s))
         IN  /\ AllRead(s) => AllRead(rest)
             /\ LastWrite(s, c) /\ (\A i \in 1..n : s[i].operation # "write") => LastWrite(rest, c)
<1> DEFINE rest == SubSeq(s, n + 1, Len(s))
<1>1. /\ Len(s) \in Nat /\ n \in Nat /\ Len(rest) = Len(s) - n
      /\ \A i \in 1..Len(rest) : rest[i] = s[n + i]
  <2>1. Len(s) \in Nat
    OBVIOUS
  <2>2. n + 1 \in 1..Len(s) + 1 /\ Len(s) \in n..Len(s)
    BY <2>1
  <2>. QED
    BY <2>1, <2>2, SubSeqProperties
<1>. HIDE DEF rest
<1>2. ASSUME AllRead(s) PROVE AllRead(rest)
  BY <1>1, <1>2 DEF AllRead
<1>3. ASSUME LastWrite(s, c), \A i \in 1..n : s[i].operation # "write" PROVE LastWrite(rest, c)
  <2>1. PICK k \in 1..Len(s) : /\ s[k].operation = "write" /\ s[k].paused = c
                               /\ \A i \in 1..Len(s) : i > k => s[i].operation = "read"
    BY <1>3 DEF LastWrite
  <2>2. k - n \in 1..Len(rest)
    BY <1>1, <1>3, <2>1
  <2>3. rest[k - n] = s[k] /\ \A i \in 1..Len(rest) : i > k - n => rest[i].operation = "read"
    BY <1>1, <2>1, <2>2
  <2>. QED
    BY <2>1, <2>2, <2>3 DEF LastWrite
<1>. QED
  BY <1>2, <1>3 DEF rest

LEMMA ChoiceKept ==
  ASSUME IInv, ChoiceAhead, UNCHANGED <<queue, choice, known, value, stored>>, tab' = "open" => tab = "open"
  PROVE  ChoiceAhead'
<1>. QED
  BY DEF ChoiceAhead, Chosen, StateOfTab

LEMMA ChoiceFinish ==
  ASSUME IInv, ChoiceAhead, queue # <<>>, tab = "open", NEW p \in BOOLEAN, NEW d, NEW n,
         Finish(Head(queue), p, d, n),
         Head(queue).operation = "write" => p = Head(queue).paused,
         Head(queue).operation = "read" /\ ~(n > 0) => p = StateOfTab
  PROVE  ChoiceAhead'
<1> DEFINE r == Head(queue)
<1>. SUFFICES ASSUME choice' # "none" PROVE Chosen(choice = "paused")' /\ choice' = choice
  BY DEF ChoiceAhead
<1>1. queue' = Tail(queue) /\ known' = TRUE /\ queue \in Seq(Request) /\ (choice = "paused") \in BOOLEAN
  BY DEF Finish, NextRequest, Tell, Catch, Holds, IInv, Types, LinkTypes
<1>2. r.operation \in {"read", "write"} /\ r.paused \in BOOLEAN
  <2>1. Head(queue) \in Request
    BY HeadTailProperties DEF IInv, Types, LinkTypes
  <2>. QED
    BY <2>1 DEF Request
<1>3. choice' = choice /\ (r.operation = "read" => value' = StateOfTab) /\ (r.operation = "write" => value' = r.paused)
  <2>1. CASE /\ Tell(r, p, d) /\ choice' = IF r.operation = "read" /\ n > 0 THEN "none" ELSE choice
    <3>1. value' = p
      BY <2>1 DEF Tell, Holds
    <3>2. choice' = choice /\ ~(r.operation = "read" /\ n > 0)
      BY <2>1
    <3>. QED
      BY <3>1, <3>2
  <2>2. CASE \E sent \in {r.operation = "write", FALSE} :
               Catch(r, sent, d) /\ choice' = IF r.operation = "read" THEN "none" ELSE choice
    <3>1. r.operation = "write" /\ choice' = choice
      BY <1>2, <2>2
    <3>2. value' = r.paused
      BY <1>2, <2>2, <3>1 DEF Catch, Holds
    <3>. QED
      BY <3>1, <3>2
  <2>. QED
    BY <2>1, <2>2 DEF Finish
<1>4. StateOfTab' = value'
  BY <1>1 DEF StateOfTab
<1>5. Chosen(choice = "paused")
  BY <1>3 DEF ChoiceAhead
<1>. HIDE DEF r
<1>6. CASE LastWrite(queue, choice = "paused")
  <2>1. LastWrite(queue', choice = "paused")
        \/ (r.operation = "write" /\ r.paused = (choice = "paused") /\ AllRead(queue'))
    BY <1>1, <1>6, QueueTail DEF r
  <2>. QED
    BY <1>3, <1>4, <2>1 DEF Chosen
<1>7. CASE AllRead(queue) /\ StateOfTab = (choice = "paused")
  <2>1. AllRead(queue') /\ r.operation = "read"
    BY <1>1, <1>7, QueueTail DEF r
  <2>. QED
    BY <1>3, <1>4, <1>7, <2>1 DEF Chosen
<1>. QED
  BY <1>5, <1>6, <1>7 DEF Chosen

LEMMA ChoiceWorker ==
  ASSUME IInv, ChoiceAhead, tab = "open", Worker
  PROVE  ChoiceAhead'
<1>1. ~removed /\ (choice = "paused") \in BOOLEAN /\ stored \in BOOLEAN /\ value \in BOOLEAN /\ durable \in BOOLEAN
  BY DEF IInv, InWorker, Types, WorkerTypes
<1>2. ASSUME BeginRequest PROVE ChoiceAhead'
  <2>1. queue # <<>> /\ step = "queued" /\ UNCHANGED stored
    BY <1>2 DEF BeginRequest
  <2>2. CASE UNCHANGED <<queue, known, value, history>>
    BY <2>1, <2>2, ChoiceKept, <1>2 DEF BeginRequest, history
  <2>3. CASE known /\ Head(queue).operation = "write" /\ StartWrite(Head(queue)) /\ UNCHANGED <<queue, history>>
    <3>1. ~AllRead(queue)
      <4>1. queue \in Seq(Request)
        BY DEF IInv, Types, LinkTypes
      <4>. QED
        BY <2>1, <2>3, <4>1, QueueTail
    <3>. QED
      BY <2>3, <3>1 DEF ChoiceAhead, Chosen, history, BeginRequest
  <2>4. CASE known /\ Head(queue).operation = "read" /\ Finish(Head(queue), value, durable, 0)
    <3>1. StateOfTab = value
      BY <2>4 DEF StateOfTab
    <3>. QED
      BY <1>1, <2>1, <2>4, <3>1, ChoiceFinish
  <2>. QED
    BY <1>1, <1>2, <2>2, <2>3, <2>4 DEF BeginRequest
<1>3. ASSUME NEW failed \in BOOLEAN, ReadDone(failed) PROVE ChoiceAhead'
  <2> DEFINE n == IF failed THEN 1 ELSE 0
  <2>1. queue # <<>> /\ step = "reading" /\ UNCHANGED <<tab, stored>> /\ ~known
    BY <1>3 DEF ReadDone, IInv, InWorker
  <2>2. CASE Head(queue).operation = "read"
    <3>1. Finish(Head(queue), stored /\ ~failed, ~failed, n)
      BY <1>3, <2>2 DEF ReadDone
    <3>2. ~(n > 0) => ~failed
      OBVIOUS
    <3>. HIDE DEF n
    <3>3. ASSUME NEW p \in BOOLEAN, p = (stored /\ ~failed) PROVE ChoiceAhead'
      <4>1. Finish(Head(queue), p, ~failed, n)
        BY <3>1, <3>3
      <4>2. ~(n > 0) => p = StateOfTab
        <5>. SUFFICES ASSUME ~(n > 0) PROVE p = StateOfTab
          OBVIOUS
        <5>1. p = stored
          BY <1>1, <3>2, <3>3
        <5>. QED
          BY <2>1, <5>1 DEF StateOfTab
      <4>3. Head(queue).operation # "write"
        BY <2>2
      <4>. QED
        BY <2>1, <4>1, <4>2, <4>3, ChoiceFinish
    <3>. QED
      BY <3>3
  <2>3. CASE Head(queue).operation # "read"
    <3>1. UNCHANGED <<queue, choice>>
      BY <1>1, <1>3, <2>3 DEF ReadDone
    <3>2. ~AllRead(queue)
      <4>1. queue \in Seq(Request)
        BY DEF IInv, Types, LinkTypes
      <4>. QED
        BY <2>1, <2>3, <4>1, QueueTail
    <3>. QED
      BY <2>1, <3>1, <3>2 DEF ChoiceAhead, Chosen
  <2>. QED
    BY <2>2, <2>3
<1>4. ASSUME NEW failed \in BOOLEAN, WriteDone(failed) PROVE ChoiceAhead'
  <2> DEFINE n == IF failed THEN 1 ELSE 0
  <2>1. /\ queue # <<>> /\ Head(queue).operation = "write" /\ value = Head(queue).paused
        /\ Finish(Head(queue), value, ~failed, n)
    BY <1>4 DEF WriteDone, IInv, InWorker
  <2>. HIDE DEF n
  <2>. QED
    BY <1>1, <2>1, ChoiceFinish
<1>5. ASSUME NEW failed \in BOOLEAN, Cleanup(failed) PROVE ChoiceAhead'
  BY <1>5 DEF Cleanup
<1>. QED
  BY <1>2, <1>3, <1>4, <1>5 DEF Worker

LEMMA ChoiceRestart ==
  ASSUME IInv, ChoiceAhead, tab = "open", NEW n \in 0..Len(queue), Restart(n)
  PROVE  ChoiceAhead'
<1>. SUFFICES ASSUME choice' # "none" PROVE Chosen(choice = "paused")' /\ choice' = choice
  BY DEF ChoiceAhead
<1>1. /\ choice' = choice /\ ~(known /\ ~durable) /\ \A i \in 1..n : queue[i].operation # "write"
      /\ queue' = SubSeq(queue, n + 1, Len(queue)) /\ known' = FALSE /\ (step # "queued" => n > 0)
      /\ stored' \in IF step = "writing" THEN {stored, value} ELSE {stored}
  BY DEF Restart
<1>2. queue \in Seq(Request) /\ (choice = "paused") \in BOOLEAN /\ Len(queue) \in Nat
  BY DEF IInv, Types, LinkTypes
<1>3. step # "writing"
  <2>. SUFFICES ASSUME step = "writing" PROVE FALSE
    OBVIOUS
  <2>1. Head(queue).operation = "write" /\ queue # <<>> /\ n > 0
    BY <1>1 DEF IInv, InWorker
  <2>2. Head(queue) = queue[1] /\ 1 \in 1..n
    BY <1>2, <2>1, HeadTailProperties
  <2>. QED
    BY <1>1, <2>1, <2>2
<1>4. StateOfTab' = StateOfTab
  BY <1>1, <1>3 DEF IInv, InWorker, StateOfTab
<1>5. Chosen(choice = "paused")
  BY <1>1 DEF ChoiceAhead
<1>6. /\ AllRead(queue) => AllRead(queue')
      /\ LastWrite(queue, choice = "paused") => LastWrite(queue', choice = "paused")
  BY <1>1, <1>2, QueueRest
<1>. QED
  BY <1>1, <1>4, <1>5, <1>6 DEF Chosen

LEMMA ChoiceRead ==
  ASSUME IInv, ChoiceAhead, NEW r \in Request, r.operation = "read", queue' = Append(queue, r),
         UNCHANGED <<tab, workerVars, history>>
  PROVE  ChoiceAhead'
<1>1. queue \in Seq(Request) /\ (choice = "paused") \in BOOLEAN
  BY DEF IInv, Types, LinkTypes
<1>2. /\ AllRead(queue) => AllRead(queue')
      /\ LastWrite(queue, choice = "paused") => LastWrite(queue', choice = "paused")
  BY <1>1, QueueAppend
<1>. QED
  BY <1>2 DEF ChoiceAhead, Chosen, StateOfTab, workerVars, history

LEMMA ChoiceNext == IInv /\ IInv' /\ ChoiceAhead /\ [Next]_vars => ChoiceAhead'
<1>. SUFFICES ASSUME IInv, IInv', ChoiceAhead, [Next]_vars PROVE ChoiceAhead'
  OBVIOUS
<1>. USE DEF workerVars, history
<1>1. CASE Worker
  <2>1. UNCHANGED tab \/ tab' # "open"
    BY <1>1 DEF Worker, BeginRequest, ReadDone, WriteDone, Cleanup
  <2>2. CASE tab # "open"
    BY <2>1, <2>2 DEF ChoiceAhead
  <2>. QED
    BY <1>1, <2>2, ChoiceWorker
<1>2. ASSUME NEW f \in Frames, Load(f) PROVE ChoiceAhead'
  <2> DEFINE r == ReadRequest(f, document[f] + 1)
  <2>1. r.operation = "read" /\ queue' = Append(queue, r)
    BY <1>2 DEF Load, ReadRequest
  <2>2. r \in Request
    BY <1>2 DEF Load, ReadRequest, Request, IInv, Types, FrameTypes, BoundTypes, Known
  <2>. HIDE DEF r
  <2>. QED
    BY <1>2, <2>1, <2>2, ChoiceRead DEF Load
<1>3. ASSUME NEW f \in Frames, Restore(f) PROVE ChoiceAhead'
  <2> DEFINE r == ReadRequest(f, document[f])
  <2>1. r.operation = "read" /\ queue' = Append(queue, r)
    BY <1>3 DEF Restore, ReadRequest
  <2>2. r \in Request
    <3>1. document[f] \in 1..MaxLoads
      BY <1>3 DEF Restore, IInv, Types, FrameTypes, Known
    <3>. QED
      BY <3>1 DEF ReadRequest, Request
  <2>. HIDE DEF r
  <2>. QED
    BY <1>3, <2>1, <2>2, ChoiceRead DEF Restore
<1>4. ASSUME NEW f \in Frames, HydrationTimesOut(f) PROVE ChoiceAhead'
  BY <1>4, ChoiceKept DEF HydrationTimesOut
<1>5. ASSUME NEW f \in Frames, Deliver(f) PROVE ChoiceAhead'
  BY <1>5, ChoiceKept DEF Deliver
<1>6. ASSUME NEW f \in Frames, NEW p \in BOOLEAN, SetPaused(f, p) PROVE ChoiceAhead'
  <2>1. CASE UNCHANGED <<queue, choice>>
    BY <1>6, <2>1, ChoiceKept DEF SetPaused
  <2>2. CASE queue' = Append(queue, WriteRequest(f, p)) /\ choice' = (IF p THEN "paused" ELSE "running")
    <3>1. document[f] \in 1..MaxLoads
      BY <1>6 DEF SetPaused, IInv, Types, FrameTypes, Known
    <3>2. WriteRequest(f, p) \in Request /\ WriteRequest(f, p).operation = "write" /\ WriteRequest(f, p).paused = p
      BY <3>1 DEF WriteRequest, Request
    <3>3. queue \in Seq(Request)
      BY DEF IInv, Types, LinkTypes
    <3>4. LastWrite(queue', p)
      BY <2>2, <3>2, <3>3, QueueAppend
    <3>5. (choice' = "paused") = p
      BY <2>2
    <3>. QED
      BY <3>4, <3>5 DEF ChoiceAhead, Chosen
  <2>. QED
    BY <1>6, <2>1, <2>2 DEF SetPaused
<1>7. ASSUME NEW n \in 0..Len(queue), Restart(n) PROVE ChoiceAhead'
  <2>1. CASE tab # "open"
    BY <1>7, <2>1 DEF Restart, ChoiceAhead
  <2>. QED
    BY <1>7, <2>1, ChoiceRestart
<1>8. CASE CloseTab
  BY <1>8 DEF CloseTab, ChoiceAhead
<1>9. ASSUME NEW f \in Frames, Freeze(f) PROVE ChoiceAhead'
  BY <1>9, ChoiceKept DEF Freeze
<1>10. ASSUME NEW f \in Frames, Miss(f) PROVE ChoiceAhead'
  BY <1>10, ChoiceKept DEF Miss
<1>11. CASE UNCHANGED vars
  BY <1>11, ChoiceKept DEF vars
<1>. QED
  BY <1>1, <1>2, <1>3, <1>4, <1>5, <1>6, <1>7, <1>8, <1>9, <1>10, <1>11 DEF Next

-----------------------------------------------------------------------------
(* The theorems                                                            *)

\* The invariant of the tab, its pages and the worker holds in every state, for
\* any number of frames, documents, calls, restarts and faults.
THEOREM Invariant == Spec => []IInv
<1>. QED
  BY InitInv, NextInv, PTL DEF Spec

\* Every variable keeps to its values (extension-entry.js, extension-tab-pause.js).
THEOREM TypeCorrect == Spec => []TypeOK
<1>1. IInv => TypeOK
  BY DEF IInv, Types, FrameTypes, LinkTypes, WorkerTypes, BoundTypes, TypeOK
<1>. QED
  BY <1>1, Invariant, PTL

\* Once nothing is under way, the frames that count as backed by the extension
\* show what the worker holds and what is stored (onMessage, read and write).
THEOREM FramesConverge == Spec => []Converged
<1>1. IInv => Converged
  <2>. SUFFICES ASSUME IInv, Quiescent, ~strayed, NEW f \in Frames \ cached, ready[f] = "extension"
                PROVE  paused[f] = StateOfTab /\ paused[f] = stored
    BY DEF Converged
  <2>1. ~Asked(f) /\ inbox[f] = <<>> /\ step = "queued"
    BY DEF Quiescent, Asked, IInv, InWorker
  <2>2. Shows(paused[f])
    BY <2>1 DEF Quiescent, IInv, OnItsWay, Coming
  <2>. QED
    BY <2>1, <2>2 DEF Shows, StateOfTab
<1>. QED
  BY <1>1, Invariant, PTL

\* Once nothing is under way, the state of the tab is the last choice made in any
\* of its pages, but for the losses the property names (read, write and onMessage).
THEOREM ChoiceStands == Spec => []LastChoiceStands
<1>1. Init => ChoiceAhead
  BY DEF Init, ChoiceAhead
<1>2. Spec => []ChoiceAhead
  BY <1>1, Invariant, ChoiceNext, PTL DEF Spec
<1>3. ChoiceAhead => LastChoiceStands
  <2>. SUFFICES ASSUME ChoiceAhead, Quiescent, choice # "none" PROVE StateOfTab = (choice = "paused")
    BY DEF LastChoiceStands
  <2>1. Chosen(choice = "paused") /\ Len(queue) = 0
    BY DEF ChoiceAhead, Quiescent
  <2>. QED
    BY <2>1 DEF Chosen, LastWrite
<1>. QED
  BY <1>2, <1>3, PTL

\* Every request a page counts as pending is still with the worker or its answer
\* is on its way, restarts included (the listener of extension-entry.js).  The
\* worker that saw the tab removed holds nothing of it after the clean-up, and
\* nothing stays stored unless session.remove failed (onRemoved and its cleanup).
THEOREM NothingIsLeft == Spec => []NothingLeftOver
<1>1. IInv => PendingUnderWay
  BY DEF IInv
<1>2. IInv => RemovedLeavesNothing
  BY DEF IInv, InWorker, RemovedLeavesNothing
<1>. QED
  BY <1>1, <1>2, Invariant, TypeCorrect, PTL DEF NothingLeftOver
=============================================================================
