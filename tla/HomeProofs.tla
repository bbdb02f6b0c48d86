----------------------------- MODULE HomeProofs -----------------------------
(***************************************************************************)
(* Proofs about Home and its browser sessions, for any number of sessions, *)
(* slots and settings.                                                     *)
(***************************************************************************)
EXTENDS Home, FunctionTheorems, FiniteSetTheorems, SequenceTheorems, TLAPS

-----------------------------------------------------------------------------
(* The list is some order of the slots that are taken.                     *)

LEMMA Least ==
  ASSUME NEW S \in SUBSET Nat, S # {}
  PROVE  \E i \in S : \A j \in S : i <= j
<1> DEFINE T == {0..i : i \in S}
<1>1. ASSUME NEW i \in S PROVE 0..i \in FiniteSubsetsOf(Nat)
  <2>1. i \in Nat
    OBVIOUS
  <2>2. IsFiniteSet(0..i)
    BY <2>1, FS_Interval
  <2>. QED
    BY <2>1, <2>2 DEF FiniteSubsetsOf
<1>2. T # {} /\ T \subseteq FiniteSubsetsOf(Nat)
  BY <1>1
<1>3. \E x \in T : \A y \in T : ~ (<<y, x>> \in StrictSubsetOrdering(Nat))
  <2>. HIDE DEF T
  <2>. QED
    BY <1>2, FS_StrictSubsetOrderingWellFounded, WFMin
<1>4. PICK x \in T : \A y \in T : ~ (<<y, x>> \in StrictSubsetOrdering(Nat))
  BY <1>3
<1>5. PICK i \in S : x = 0..i
  OBVIOUS
<1>6. ASSUME NEW j \in S, j < i PROVE FALSE
  <2>1. i \in Nat /\ j \in Nat
    OBVIOUS
  <2>2. 0..j \subseteq 0..i
    BY <2>1, <1>6
  <2>3. i \in 0..i /\ i \notin 0..j
    BY <2>1, <1>6
  <2>4. <<0..j, 0..i>> \in StrictSubsetOrdering(Nat)
    <3>1. 0..j \in SUBSET Nat /\ 0..i \in SUBSET Nat /\ 0..j # 0..i
      BY <2>1, <2>3
    <3>. QED
      BY <2>2, <3>1 DEF StrictSubsetOrdering
  <2>5. 0..j \in T
    OBVIOUS
  <2>. QED
    BY <1>4, <1>5, <2>4, <2>5
<1>. QED
  BY <1>6

Increasing(S, l) == l \in [1..Cardinality(S) -> S] /\ \A i, j \in DOMAIN l : i < j => l[i] < l[j]

\* The least member comes before an order of the others.
LEMMA Enumerable ==
  ASSUME NEW S \in SUBSET Nat, IsFiniteSet(S)
  PROVE  \E l : Increasing(S, l)
<1> DEFINE T == {X \in FiniteSubsetsOf(Nat) : ~\E l : Increasing(X, l)}
<1>1. SUFFICES ASSUME T # {} PROVE FALSE
  <2>1. S \in FiniteSubsetsOf(Nat)
    BY DEF FiniteSubsetsOf
  <2>. QED
    BY <2>1
<1>2. T \subseteq FiniteSubsetsOf(Nat)
  OBVIOUS
<1>3. \E x \in T : \A y \in T : ~ (<<y, x>> \in StrictSubsetOrdering(Nat))
  <2>. HIDE DEF T
  <2>. QED
    BY <1>1, <1>2, FS_StrictSubsetOrderingWellFounded, WFMin
<1>4. PICK X \in T : \A y \in T : ~ (<<y, X>> \in StrictSubsetOrdering(Nat))
  BY <1>3
<1>5. X \in SUBSET Nat /\ IsFiniteSet(X) /\ ~\E l : Increasing(X, l)
  BY DEF FiniteSubsetsOf
<1>6. X # {}
  <2>1. SUFFICES ASSUME X = {} PROVE FALSE
    OBVIOUS
  <2>2. Cardinality(X) = 0
    BY <2>1, FS_EmptySet
  <2>3. Increasing(X, [i \in 1..0 |-> 0])
    BY <2>1, <2>2 DEF Increasing
  <2>. QED
    BY <1>5, <2>3
<1>7. PICK m \in X : \A j \in X : m <= j
  BY <1>5, <1>6, Least
<1> DEFINE Y == X \ {m}
           n == Cardinality(Y)
<1>8. IsFiniteSet(Y) /\ n \in Nat /\ Cardinality(X) = n + 1
  <2>1. IsFiniteSet(Y) /\ Cardinality(Y) = Cardinality(X) - 1
    BY <1>5, FS_RemoveElement
  <2>2. Cardinality(X) \in Nat /\ Cardinality(Y) \in Nat
    BY <1>5, <2>1, FS_CardinalityType
  <2>. QED
    BY <2>1, <2>2
<1>9. \E l : Increasing(Y, l)
  <2>1. Y \in FiniteSubsetsOf(Nat)
    BY <1>5, <1>8 DEF FiniteSubsetsOf
  <2>2. <<Y, X>> \in StrictSubsetOrdering(Nat)
    <3>1. Y \subseteq X /\ Y # X /\ Y \in SUBSET Nat /\ X \in SUBSET Nat
      BY <1>5
    <3>. QED
      BY <3>1 DEF StrictSubsetOrdering
  <2>3. Y \notin T
    BY <1>4, <2>2
  <2>. QED
    BY <2>1, <2>3
<1>10. PICK l : Increasing(Y, l)
  BY <1>9
<1>11. l \in [1..n -> Y] /\ \A i, j \in 1..n : i < j => l[i] < l[j]
  BY <1>10 DEF Increasing
<1> DEFINE k == [i \in 1..n + 1 |-> IF i = 1 THEN m ELSE l[i - 1]]
<1>12. \A i \in 1..n + 1 : i # 1 => i - 1 \in 1..n
  BY <1>8
<1>13. k \in [1..n + 1 -> X]
  BY <1>11, <1>12
<1>14. ASSUME NEW i \in 1..n + 1, NEW j \in 1..n + 1, i < j PROVE k[i] < k[j]
  <2>. HIDE DEF n, Y
  <2>1. j # 1 /\ j - 1 \in 1..n /\ k[j] = l[j - 1]
    BY <1>8, <1>12, <1>14
  <2>2. CASE i = 1
    <3>1. k[i] = m /\ k[j] \in X /\ k[j] # m
      BY <1>11, <2>1, <2>2 DEF Y
    <3>2. m \in Nat /\ k[j] \in Nat /\ m <= k[j]
      BY <1>5, <1>7, <3>1
    <3>. QED
      BY <3>1, <3>2
  <2>3. CASE i # 1
    <3>1. i - 1 \in 1..n /\ k[i] = l[i - 1] /\ i - 1 < j - 1
      BY <1>8, <1>12, <1>14, <2>3
    <3>. QED
      BY <1>11, <2>1, <3>1
  <2>. QED
    BY <2>2, <2>3
<1>15. Increasing(X, k)
  <2>1. DOMAIN k = 1..n + 1
    OBVIOUS
  <2>. HIDE DEF k, n
  <2>. QED
    BY <1>8, <1>13, <1>14, <2>1 DEF Increasing
<1>. QED
  BY <1>5, <1>15

\* An order of a set leaves no member out.
LEMMA IncreasingAll ==
  ASSUME NEW S \in SUBSET Nat, IsFiniteSet(S), NEW l, Increasing(S, l)
  PROVE  /\ l \in Seq(S) /\ Len(l) = Cardinality(S) /\ DOMAIN l = 1..Len(l)
         /\ \A x \in S : \E i \in DOMAIN l : l[i] = x
<1> DEFINE n == Cardinality(S)
<1>1. n \in Nat
  BY FS_CardinalityType
<1>2. l \in [1..n -> S] /\ \A i, j \in 1..n : i < j => l[i] < l[j]
  BY DEF Increasing
<1>3. IsFiniteSet(1..n) /\ Cardinality(1..n) = n
  BY <1>1, FS_Interval
<1>. HIDE DEF n
<1>4. ASSUME NEW i \in 1..n, NEW j \in 1..n, l[i] = l[j] PROVE i = j
  <2>1. l[i] \in Nat /\ l[j] \in Nat /\ i \in Nat /\ j \in Nat
    <3>1. l[i] \in S /\ l[j] \in S
      BY <1>2
    <3>2. \A x \in S : x \in Nat
      OBVIOUS
    <3>3. i \in Nat /\ j \in Nat
      BY <1>1
    <3>. QED
      BY <3>1, <3>2, <3>3
  <2>2. ~(l[i] < l[j]) /\ ~(l[j] < l[i])
    BY <1>4, <2>1
  <2>3. ~(i < j) /\ ~(j < i)
    BY <1>2, <2>2
  <2>. QED
    BY <2>1, <2>3
<1>5. l \in Injection(1..n, S)
  BY <1>2, <1>4, Fun_IsInj
<1>6. l \in Surjection(1..n, S)
  BY <1>3, <1>5, FS_Injection DEF n
<1>7. \A x \in S : \E i \in 1..n : l[i] = x
  BY <1>6 DEF Surjection
<1>. QED
  BY <1>1, <1>2, <1>7 DEF n

-----------------------------------------------------------------------------
(* The invariant                                                           *)

Places == {"none", "prepare", "launch", "started", "ask", "wait", "kill", "killed", "clean", "closed"}
Names  == {"version", "load", "target", "attach", "context", "settings", "navigate", "blank"}

Browser == [open : BOOLEAN, procs : SUBSET Processes, dying : BOOLEAN, ready : BOOLEAN,
            dir : {"none", "whole", "torn"}, owed : SUBSET (Names \cup {"quit"}),
            pipe : Seq([id : Names \cup {"event"}, ok : BOOLEAN]), done : SUBSET {"settings", "navigate"}]
Function == [op : {"none", "start", "close"}, s : Sessions \cup {0}, at : Places \cup Names, ok : BOOLEAN,
             settings : SUBSET Settings]
Operation == [op : {"none", "open", "update", "close", "exit"}, slot : Slots \cup {0}, settings : SUBSET Settings,
              at : {"none", "go", "call", "posted"}, ok : BOOLEAN, s : Sessions \cup {0},
              todo : SUBSET (Slots \cup {0})]

Types ==
    /\ browser \in [Sessions -> Browser] /\ call \in Function
    /\ slots \in [Slots -> Sessions \cup {0}]
    /\ list \in Seq(Slots) /\ cursor \in 0..Len(list)
    /\ ui \in {"home", "settings", "separate", "account", "exam", "gone"}
    /\ config \in Settings /\ work \in Operation /\ closing \in BOOLEAN

\* A process has its directory, and the first page waits for the settings: the
\* command is not sent before they have been confirmed.
Sound(b) ==
    /\ b.procs # {} => b.open /\ b.dir = "whole"
    /\ "navigate" \in b.owed \cup b.done => "settings" \in b.done
    /\ \A i \in DOMAIN b.pipe : b.pipe[i].id = "settings" /\ b.pipe[i].ok => "settings" \in b.done

Holds(s) == (\E i \in Slots : slots[i] = s) \/ call.s = s \/ work.s = s

\* The sessions that are open are those that a slot or the worker has, and each
\* is in one slot at most.
Held ==
    /\ \A s \in Sessions : browser[s].open <=> Holds(s)
    /\ \A i, j \in Slots : slots[i] # 0 /\ slots[i] = slots[j] => i = j

\* What the function under way may rely on: nobody else changes its session.
CallSound ==
    /\ call.op = "none" => call = Idle
    /\ call.op # "none" => call.s \in Sessions /\ work.at = "call"
    /\ call.op = "start" => /\ work.op = "open" /\ call.settings = asked
                            /\ \A i \in Slots : slots[i] # call.s
    /\ call.op = "close" => /\ work.op \in {"close", "exit"} /\ work.slot \in Slots
                            /\ slots[work.slot] = call.s
    /\ call.at = "started" => call.op = "start"
    /\ call.at = "launch" => browser[call.s].dir = "whole"
    /\ call.at = "clean" => browser[call.s].procs = {}

\* The same of the operation.  One that opens has its slot and its settings; one
\* that ends the window has every session before it or closed.  None is under way
\* while a dialog is open.
WorkSound ==
    /\ work.op = "none" => work = Resting
    /\ work.op = "open" => /\ work.slot \in Slots /\ slots[work.slot] = 0
                           /\ asked = work.settings /\ \A c, d \in asked : c = d
    /\ work.s # 0 => /\ work.op = "open" /\ work.at = "posted"
                     /\ \A i \in Slots : slots[i] # work.s
    /\ work.op \in {"close", "exit"} => work.todo \subseteq Slots
    /\ work.op = "exit" /\ work.ok =>
         \A i \in Slots : slots[i] # 0 =>
            work.at # "posted" /\ (i \in work.todo \/ (work.at = "call" /\ i = work.slot))
    /\ ui # "home" => work.op = "none"
    /\ ui = "gone" => \A i \in Slots : slots[i] = 0

IInv == Types /\ (\A s \in Sessions : Sound(browser[s])) /\ Held /\ CallSound /\ WorkSound

LEMMA Constants == 0 \notin Sessions /\ Slots \subseteq Nat /\ 0 \notin Slots /\ IsFiniteSet(Slots)
  BY BrowserAssumption, HomeAssumption

-----------------------------------------------------------------------------
(* The commands and their order                                            *)

LEMMA CommandsAre ==
  /\ DOMAIN Commands = 1..8 /\ CommandNames = Names
  /\ Commands[1] = "version" /\ Commands[2] = "load" /\ Commands[3] = "target" /\ Commands[4] = "attach"
  /\ Commands[5] = "context" /\ Commands[6] = "settings" /\ Commands[7] = "navigate" /\ Commands[8] = "blank"
<1>1. DOMAIN Commands = 1..8
  BY DEF Commands
<1>2. /\ Commands[1] = "version" /\ Commands[2] = "load" /\ Commands[3] = "target" /\ Commands[4] = "attach"
      /\ Commands[5] = "context" /\ Commands[6] = "settings" /\ Commands[7] = "navigate" /\ Commands[8] = "blank"
  BY DEF Commands
<1>3. CommandNames \subseteq Names
  <2>1. ASSUME NEW i \in 1..8 PROVE Commands[i] \in Names
    <3>1. i = 1 \/ i = 2 \/ i = 3 \/ i = 4 \/ i = 5 \/ i = 6 \/ i = 7 \/ i = 8
      OBVIOUS
    <3>. QED
      BY <1>2, <3>1 DEF Names
  <2>. QED
    BY <1>1, <2>1 DEF CommandNames
<1>4. Names \subseteq CommandNames
  <2>1. \A i \in 1..8 : Commands[i] \in CommandNames
    BY <1>1 DEF CommandNames
  <2>2. 1 \in 1..8 /\ 2 \in 1..8 /\ 3 \in 1..8 /\ 4 \in 1..8 /\ 5 \in 1..8 /\ 6 \in 1..8 /\ 7 \in 1..8 /\ 8 \in 1..8
    OBVIOUS
  <2>. QED
    BY <1>2, <2>1, <2>2 DEF Names
<1>. QED
  BY <1>1, <1>2, <1>3, <1>4

\* The first page comes after the settings and after nothing else.
LEMMA AfterCommand ==
  ASSUME NEW c \in Names
  PROVE  /\ After(c) \in Names \cup {"started"}
         /\ After(c) = "navigate" => c = "settings"
<1> DEFINE i == CHOOSE i \in DOMAIN Commands : Commands[i] = c
           next == Append(Commands, "started")
<1>1. \E k \in DOMAIN Commands : Commands[k] = c
  <2>1. c \in CommandNames
    BY CommandsAre
  <2>. QED
    BY <2>1 DEF CommandNames
<1>2. i \in 1..8 /\ Commands[i] = c
  BY <1>1, CommandsAre
<1>3. /\ next[2] = "load" /\ next[3] = "target" /\ next[4] = "attach" /\ next[5] = "context"
      /\ next[6] = "settings" /\ next[7] = "navigate" /\ next[8] = "blank" /\ next[9] = "started"
  BY DEF Commands
<1>4. After(c) = next[i + 1]
  BY DEF After
<1>. HIDE DEF i, next
<1>5. i = 1 \/ i = 2 \/ i = 3 \/ i = 4 \/ i = 5 \/ i = 6 \/ i = 7 \/ i = 8
  BY <1>2
<1>6. After(c) \in {next[2], next[3], next[4], next[5], next[6], next[7], next[8], next[9]}
  BY <1>4, <1>5
<1>7. next[i + 1] = "navigate" => i = 6
  BY <1>3, <1>5
<1>. QED
  BY <1>2, <1>3, <1>4, <1>6, <1>7, CommandsAre DEF Names

-----------------------------------------------------------------------------
(* Steps of the browsers and inside the functions                          *)

\* A step that changes one session and leaves it open or not, as it was, and
\* goes on with the function under way.
LEMMA InsideStep ==
  ASSUME IInv, UNCHANGED homeVars, NEW s \in Sessions, NEW b \in Browser,
         browser' = [browser EXCEPT ![s] = b],
         b.open = browser[s].open, Sound(b),
         call' \in Function, call'.op = call.op, call'.s = call.s, call'.settings = call.settings,
         call.op = "none" => call' = call,
         call'.at = "started" => call.op = "start",
         call'.at = "launch" /\ call.s \in Sessions => browser'[call.s].dir = "whole",
         call'.at = "clean" /\ call.s \in Sessions => browser'[call.s].procs = {}
  PROVE  IInv'
<1>1. Types /\ Types'
  <2>1. Types
    BY DEF IInv
  <2>2. browser' \in [Sessions -> Browser]
    BY <2>1 DEF Types
  <2>. QED
    BY <2>1, <2>2 DEF Types, homeVars
<1>2. browser'[s] = b /\ \A t \in Sessions : t # s => browser'[t] = browser[t]
  BY <1>1 DEF Types
<1>3. (\A t \in Sessions : Sound(browser[t]))'
  <2>. SUFFICES ASSUME NEW t \in Sessions PROVE Sound(browser'[t])
    BY DEF Sound
  <2>. QED
    BY <1>2 DEF IInv
<1>4. Held'
  BY <1>2 DEF IInv, Held, Holds, homeVars
<1>5. CallSound'
  <2>1. CallSound /\ call \in Function /\ call' \in Function
    BY <1>1 DEF IInv, Types
  <2>2. call.op = "none" => call' = Idle /\ call'.at # "launch" /\ call'.at # "clean"
    BY <2>1 DEF CallSound, Idle
  <2>3. call.op # "none" => call.s \in Sessions
    BY <2>1 DEF CallSound
  <2>. QED
    BY <2>1, <2>2, <2>3 DEF CallSound, homeVars
<1>6. WorkSound'
  BY DEF IInv, WorkSound, homeVars
<1>. QED
  BY <1>1, <1>3, <1>4, <1>5, <1>6 DEF IInv

\* The same, when the function does not go on
LEMMA OutsideStep ==
  ASSUME IInv, UNCHANGED homeVars, UNCHANGED call, NEW s \in Sessions, NEW b \in Browser,
         browser' = [browser EXCEPT ![s] = b],
         b.open = browser[s].open, Sound(b), b.dir = browser[s].dir,
         browser[s].procs = {} => b.procs = {}
  PROVE  IInv'
<1>1. Types /\ CallSound
  BY DEF IInv
<1>2. browser'[s] = b /\ \A t \in Sessions : t # s => browser'[t] = browser[t]
  BY <1>1 DEF Types
<1>3. call' \in Function
  BY <1>1 DEF Types
<1>4. /\ call'.at = "launch" /\ call.s \in Sessions => browser'[call.s].dir = "whole"
      /\ call'.at = "clean" /\ call.s \in Sessions => browser'[call.s].procs = {}
      /\ call'.at = "started" => call.op = "start"
  BY <1>1, <1>2 DEF CallSound
<1>. QED
  BY <1>3, <1>4, InsideStep

LEMMA Session ==
  ASSUME IInv, NEW s \in Sessions
  PROVE  /\ browser[s] \in Browser /\ Sound(browser[s])
         /\ browser \in [Sessions -> Browser] /\ call \in Function /\ CallSound
         /\ call.s = s => call.op # "none" /\ browser[s].open
<1>1. call \in Function /\ CallSound /\ Held /\ browser \in [Sessions -> Browser]
  BY DEF IInv, Types
<1>2. call.s = s => call.op # "none" /\ browser[s].open
  BY <1>1, Constants DEF CallSound, Idle, Held, Holds
<1>. QED
  BY <1>1, <1>2 DEF IInv

LEMMA PrepareStep ==
  ASSUME IInv, UNCHANGED homeVars, NEW s \in Sessions, Prepare(s)
  PROVE  IInv'
<1> DEFINE b == [browser[s] EXCEPT !.dir = "whole"]
<1>1. b \in Browser /\ b.open = browser[s].open /\ Sound(b) /\ b.dir = "whole"
  <2>1. browser[s] \in Browser /\ Sound(browser[s])
    BY Session
  <2>2. b \in Browser /\ b.open = browser[s].open /\ b.dir = "whole" /\ b.procs = browser[s].procs
        /\ b.owed = browser[s].owed /\ b.done = browser[s].done /\ b.pipe = browser[s].pipe
    BY <2>1 DEF Browser
  <2>. QED
    BY <2>1, <2>2 DEF Sound
<1>2. browser[s] \in Browser /\ Sound(browser[s]) /\ browser \in [Sessions -> Browser] /\ call \in Function
      /\ call.op = "start" /\ call.s = s
  BY Session DEF Prepare
<1>3. CASE browser' = [browser EXCEPT ![s].dir = "whole"] /\ (At("launch") \/ StartFails(s))
  <2>1. browser' = [browser EXCEPT ![s] = b] /\ browser'[s] = b
    BY <1>2, <1>3
  <2>2. call' \in Function /\ call'.op = "start" /\ call'.s = s /\ call'.settings = call.settings
        /\ call'.at \in {"launch", "ask"}
    BY <1>2, <1>3 DEF At, StartFails, Function, Places
  <2>. HIDE DEF b
  <2>. QED
    BY <1>1, <1>2, <2>1, <2>2, InsideStep
<1>4. CASE UNCHANGED browser /\ StartFails(s)
  <2>1. browser' = [browser EXCEPT ![s] = browser[s]]
    BY <1>2, <1>4
  <2>2. call' \in Function /\ call'.op = "start" /\ call'.s = s /\ call'.settings = call.settings
        /\ call'.at = "ask"
    BY <1>2, <1>4 DEF StartFails, Function, Places
  <2>. QED
    BY <1>2, <2>1, <2>2, InsideStep
<1>. QED
  BY <1>3, <1>4 DEF Prepare

LEMMA LaunchStep ==
  ASSUME IInv, UNCHANGED homeVars, NEW s \in Sessions, Launch(s)
  PROVE  IInv'
<1> DEFINE b == [browser[s] EXCEPT !.procs = {"main"}, !.owed = {"version"}]
<1>1. browser[s] \in Browser /\ Sound(browser[s]) /\ browser \in [Sessions -> Browser] /\ call \in Function
      /\ call.op = "start" /\ call.s = s /\ browser[s].open /\ browser[s].dir = "whole"
  BY Session DEF Launch, CallSound
<1>2. b \in Browser /\ b.open = browser[s].open /\ Sound(b)
  <2>1. b \in Browser /\ b.open = browser[s].open
    BY <1>1 DEF Browser, Names, Processes
  <2>2. b.dir = "whole" /\ b.owed = {"version"} /\ b.done = browser[s].done /\ b.pipe = browser[s].pipe
    BY <1>1 DEF Browser
  <2>. QED
    BY <1>1, <2>1, <2>2 DEF Sound
<1>3. CASE /\ browser' = [browser EXCEPT ![s].procs = {"main"}, ![s].owed = {"version"}]
           /\ At("version")
  <2>1. browser' = [browser EXCEPT ![s] = b]
    BY <1>1, <1>3
  <2>2. call' \in Function /\ call'.op = "start" /\ call'.s = s /\ call'.settings = call.settings
        /\ call'.at = "version"
    BY <1>1, <1>3 DEF At, Function, Names
  <2>. HIDE DEF b
  <2>. QED
    BY <1>1, <1>2, <2>1, <2>2, InsideStep
<1>4. CASE UNCHANGED browser /\ StartFails(s)
  <2>1. browser' = [browser EXCEPT ![s] = browser[s]]
    BY <1>1, <1>4
  <2>2. call' \in Function /\ call'.op = "start" /\ call'.s = s /\ call'.settings = call.settings
        /\ call'.at = "ask"
    BY <1>1, <1>4 DEF StartFails, Function, Places
  <2>. QED
    BY <1>1, <2>1, <2>2, InsideStep
<1>. QED
  BY <1>3, <1>4 DEF Launch

\* What is behind an answer in the pipe was in it before.
LEMMA Rest ==
  ASSUME NEW S, NEW p \in Seq(S), NEW i \in DOMAIN p
  PROVE  /\ SubSeq(p, i + 1, Len(p)) \in Seq(S)
         /\ \A j \in DOMAIN SubSeq(p, i + 1, Len(p)) :
              \E k \in DOMAIN p : SubSeq(p, i + 1, Len(p))[j] = p[k]
<1> DEFINE q == SubSeq(p, i + 1, Len(p))
<1>1. i \in 1..Len(p) /\ Len(p) \in Nat /\ DOMAIN p = 1..Len(p)
  OBVIOUS
<1>2. q \in Seq(S)
  BY <1>1
<1>3. ASSUME NEW j \in DOMAIN q PROVE q[j] = p[i + j] /\ i + j \in DOMAIN p
  <2>1. Len(q) = Len(p) - i /\ DOMAIN q = 1..Len(q)
    BY <1>1
  <2>2. i \in Nat /\ j \in 1..(Len(p) - i)
    BY <1>1, <2>1
  <2>3. q[j] = p[(i + 1) + j - 1]
    BY <1>1, <2>2
  <2>. QED
    BY <1>1, <2>2, <2>3
<1>. QED
  BY <1>2, <1>3

LEMMA CommandStep ==
  ASSUME IInv, UNCHANGED homeVars, NEW s \in Sessions, Command(s)
  PROVE  IInv'
<1>1. browser[s] \in Browser /\ Sound(browser[s]) /\ browser \in [Sessions -> Browser] /\ call \in Function
      /\ call.op = "start" /\ call.s = s /\ call.at \in Names
  BY Session, CommandsAre DEF Command
<1>2. PICK i \in Received(s, call.at) :
        /\ browser[s].pipe[i].ok
        /\ browser' = [browser EXCEPT ![s].pipe = SubSeq(@, i + 1, Len(@)), ![s].ready = TRUE,
                                      ![s].owed = @ \cup ({After(call.at)} \ {"started"})]
  BY DEF Command
<1> DEFINE p == SubSeq(browser[s].pipe, i + 1, Len(browser[s].pipe))
           o == browser[s].owed \cup ({After(call.at)} \ {"started"})
           b == [browser[s] EXCEPT !.pipe = p, !.ready = TRUE, !.owed = o]
<1>3. i \in DOMAIN browser[s].pipe /\ browser[s].pipe[i].id = call.at
  BY DEF Received
<1>4. /\ p \in Seq([id : Names \cup {"event"}, ok : BOOLEAN])
      /\ \A j \in DOMAIN p : \E k \in DOMAIN browser[s].pipe : p[j] = browser[s].pipe[k]
  <2>1. browser[s].pipe \in Seq([id : Names \cup {"event"}, ok : BOOLEAN])
    BY <1>1 DEF Browser
  <2>. QED
    BY <1>3, <2>1, Rest
<1>5. /\ After(call.at) \in Names \cup {"started"}
      /\ After(call.at) = "navigate" => "settings" \in browser[s].done
  <2>1. After(call.at) \in Names \cup {"started"} /\ (After(call.at) = "navigate" => call.at = "settings")
    BY <1>1, AfterCommand
  <2>2. call.at = "settings" => "settings" \in browser[s].done
    BY <1>1, <1>2, <1>3 DEF Sound
  <2>. QED
    BY <2>1, <2>2
<1>6. o \in SUBSET (Names \cup {"quit"}) /\ ("navigate" \in o => "settings" \in browser[s].done)
  <2>1. browser[s].owed \in SUBSET (Names \cup {"quit"})
    BY <1>1 DEF Browser
  <2>. QED
    BY <1>1, <1>5, <2>1 DEF Sound
<1>7. browser' = [browser EXCEPT ![s] = b]
  BY <1>1, <1>2
<1>. HIDE DEF p, o
<1>8. /\ b \in Browser /\ b.open = browser[s].open /\ b.procs = browser[s].procs /\ b.dir = browser[s].dir
      /\ b.owed = o /\ b.pipe = p /\ b.done = browser[s].done
  BY <1>1, <1>4, <1>6 DEF Browser
<1>. HIDE DEF b
<1>9. Sound(b)
  BY <1>1, <1>4, <1>6, <1>8 DEF Sound
<1>10. call' \in Function /\ call'.op = "start" /\ call'.s = s /\ call'.settings = call.settings
       /\ call'.at \in Names \cup {"started"}
  <2>1. call' = [call EXCEPT !.at = After(call.at)]
    BY DEF Command, At
  <2>. QED
    BY <1>1, <1>5, <2>1 DEF Function, Places
<1>11. call'.at # "launch" /\ call'.at # "clean"
  BY <1>10 DEF Names
<1>. QED
  BY <1>1, <1>7, <1>8, <1>9, <1>10, <1>11, InsideStep

\* A step at which only the place of the function changes
LEMMA PlaceStep ==
  ASSUME IInv, UNCHANGED homeVars, UNCHANGED browser, NEW s \in Sessions, call.s = s,
         NEW place \in Places \cup Names, NEW ok \in BOOLEAN, call' = [call EXCEPT !.at = place, !.ok = ok],
         place \notin {"started", "launch"}, place = "clean" => browser[s].procs = {}
  PROVE  IInv'
<1>1. /\ browser[s] \in Browser /\ Sound(browser[s]) /\ browser \in [Sessions -> Browser]
      /\ call \in Function /\ call.op # "none"
  BY Session
<1>2. browser' = [browser EXCEPT ![s] = browser[s]]
  BY <1>1
<1>3. call' \in Function /\ call'.op = call.op /\ call'.s = s /\ call'.settings = call.settings /\ call'.at = place
  BY <1>1 DEF Function
<1>. QED
  BY <1>1, <1>2, <1>3, InsideStep

LEMMA CommandFailsStep ==
  ASSUME IInv, UNCHANGED homeVars, NEW s \in Sessions, CommandFails(s)
  PROVE  IInv'
<1>1. call.s = s /\ call' = [call EXCEPT !.at = "ask", !.ok = FALSE] /\ UNCHANGED browser
  BY DEF CommandFails, StartFails
<1>2. "ask" \in Places \cup Names
  BY DEF Places
<1>. QED
  BY <1>1, <1>2, PlaceStep

LEMMA WaitStep ==
  ASSUME IInv, UNCHANGED homeVars, NEW s \in Sessions, Wait(s)
  PROVE  IInv'
<1> DEFINE place == IF JobEmpty(s) THEN "clean" ELSE "kill"
<1>1. call \in Function
  BY Session
<1>2. call.s = s /\ call' = [call EXCEPT !.at = place] /\ UNCHANGED browser
  BY DEF Wait, At
<1>3. call.ok \in BOOLEAN /\ call' = [call EXCEPT !.at = place, !.ok = call.ok]
  BY <1>1, <1>2 DEF Function
<1>4. place \in Places \cup Names /\ place \notin {"started", "launch"}
      /\ (place = "clean" => browser[s].procs = {})
  BY DEF Places, JobEmpty
<1>. HIDE DEF place
<1>. QED
  BY <1>2, <1>3, <1>4, PlaceStep

LEMMA KilledStep ==
  ASSUME IInv, UNCHANGED homeVars, NEW s \in Sessions, Killed(s)
  PROVE  IInv'
<1> DEFINE place == IF JobEmpty(s) THEN "clean" ELSE "closed"
           ok == IF JobEmpty(s) THEN call.ok ELSE FALSE
<1>1. call \in Function
  BY Session
<1>2. call.s = s /\ UNCHANGED browser
  BY DEF Killed
<1>3. ok \in BOOLEAN /\ call' = [call EXCEPT !.at = place, !.ok = ok]
  BY <1>1 DEF Function, Killed, At
<1>4. place \in Places \cup Names /\ place \notin {"started", "launch"}
      /\ (place = "clean" => browser[s].procs = {})
  BY DEF Places, JobEmpty
<1>. HIDE DEF place, ok
<1>. QED
  BY <1>2, <1>3, <1>4, PlaceStep

LEMMA AskStep ==
  ASSUME IInv, UNCHANGED homeVars, NEW s \in Sessions, Ask(s)
  PROVE  IInv'
<1> DEFINE o == IF browser[s].ready /\ "main" \in browser[s].procs THEN {"quit"} ELSE {}
           b == [browser[s] EXCEPT !.pipe = <<>>, !.owed = o]
<1>1. /\ browser[s] \in Browser /\ Sound(browser[s]) /\ browser \in [Sessions -> Browser]
      /\ call \in Function /\ call.s = s /\ call.op # "none"
  BY Session DEF Ask
<1>2. browser' = [browser EXCEPT ![s] = b]
  BY <1>1 DEF Ask
<1>3. o \in SUBSET (Names \cup {"quit"}) /\ "navigate" \notin o
  OBVIOUS
<1>. HIDE DEF o
<1>4. /\ b \in Browser /\ b.open = browser[s].open /\ b.procs = browser[s].procs /\ b.dir = browser[s].dir
      /\ b.owed = o /\ b.pipe = <<>> /\ b.done = browser[s].done
  <2>1. <<>> \in Seq([id : Names \cup {"event"}, ok : BOOLEAN])
    OBVIOUS
  <2> DEFINE empty == <<>>
  <2>2. b = [browser[s] EXCEPT !.pipe = empty, !.owed = o]
    OBVIOUS
  <2>3. empty \in Seq([id : Names \cup {"event"}, ok : BOOLEAN])
    BY <2>1
  <2>. HIDE DEF empty
  <2>4. b \in Browser /\ b.open = browser[s].open /\ b.procs = browser[s].procs /\ b.dir = browser[s].dir
        /\ b.owed = o /\ b.pipe = empty /\ b.done = browser[s].done
    BY <1>1, <1>3, <2>2, <2>3 DEF Browser
  <2>. QED
    BY <2>4 DEF empty
<1>. HIDE DEF b
<1>5. Sound(b)
  BY <1>1, <1>3, <1>4 DEF Sound
<1>6. call' \in Function /\ call'.op = call.op /\ call'.s = s /\ call'.settings = call.settings /\ call'.at = "wait"
  BY <1>1 DEF Ask, At, Function, Places
<1>. QED
  BY <1>1, <1>2, <1>4, <1>5, <1>6, InsideStep

LEMMA KillStep ==
  ASSUME IInv, UNCHANGED homeVars, NEW s \in Sessions, Kill(s)
  PROVE  IInv'
<1> DEFINE d == browser[s].procs # {}
           b == [browser[s] EXCEPT !.dying = d, !.procs = {}]
<1>1. /\ browser[s] \in Browser /\ Sound(browser[s]) /\ browser \in [Sessions -> Browser]
      /\ call \in Function /\ call.s = s /\ call.op # "none"
  BY Session DEF Kill
<1>2. browser' = [browser EXCEPT ![s] = b]
  BY <1>1 DEF Kill
<1>3. d \in BOOLEAN
  OBVIOUS
<1>. HIDE DEF d
<1>4. /\ b \in Browser /\ b.open = browser[s].open /\ b.procs = {} /\ b.owed = browser[s].owed
      /\ b.pipe = browser[s].pipe /\ b.done = browser[s].done
  BY <1>1, <1>3 DEF Browser
<1>. HIDE DEF b
<1>5. Sound(b)
  BY <1>1, <1>4 DEF Sound
<1>6. call' \in Function /\ call'.op = call.op /\ call'.s = s /\ call'.settings = call.settings /\ call'.at = "killed"
  BY <1>1 DEF Kill, At, Function, Places
<1>. QED
  BY <1>1, <1>2, <1>4, <1>5, <1>6, InsideStep

LEMMA CleanStep ==
  ASSUME IInv, UNCHANGED homeVars, NEW s \in Sessions, Clean(s)
  PROVE  IInv'
<1>1. /\ browser[s] \in Browser /\ Sound(browser[s]) /\ browser \in [Sessions -> Browser]
      /\ call \in Function /\ call.s = s /\ call.op # "none" /\ browser[s].procs = {}
  BY Session DEF Clean, CallSound
<1>2. PICK dir \in {"none", "torn"} : browser' = [browser EXCEPT ![s].dir = dir]
  BY DEF Clean, Removed
<1> DEFINE b == [browser[s] EXCEPT !.dir = dir]
<1>3. browser' = [browser EXCEPT ![s] = b]
  BY <1>1, <1>2
<1>4. /\ b \in Browser /\ b.open = browser[s].open /\ b.procs = {} /\ b.owed = browser[s].owed
      /\ b.pipe = browser[s].pipe /\ b.done = browser[s].done
  BY <1>1 DEF Browser
<1>. HIDE DEF b
<1>5. Sound(b)
  BY <1>1, <1>4 DEF Sound
<1>6. call' \in Function /\ call'.op = call.op /\ call'.s = s /\ call'.settings = call.settings /\ call'.at = "closed"
  <2> DEFINE ok == call.ok /\ browser'[s].dir = "none"
  <2>1. call' = [call EXCEPT !.at = "closed", !.ok = ok] /\ ok \in BOOLEAN
    BY DEF Clean
  <2>. HIDE DEF ok
  <2>. QED
    BY <1>1, <2>1 DEF Function, Places
<1>. QED
  BY <1>1, <1>3, <1>4, <1>5, <1>6, InsideStep

\* A command that is confirmed has been carried out, and the settings before the page.
LEMMA AnswerStep ==
  ASSUME IInv, UNCHANGED homeVars, NEW s \in Sessions, Answer(s)
  PROVE  IInv'
<1>1. /\ browser[s] \in Browser /\ Sound(browser[s]) /\ browser \in [Sessions -> Browser]
      /\ UNCHANGED call
  BY Session DEF Answer
<1>2. PICK command \in browser[s].owed, ok \in BOOLEAN :
        browser' = [browser EXCEPT
            ![s].owed = @ \ {command},
            ![s].pipe = IF command = "quit" THEN @ ELSE Append(@, [id |-> command, ok |-> ok]),
            ![s].procs = IF command = "quit" /\ ok THEN {} ELSE @,
            ![s].done = IF ok THEN @ \cup ({command} \cap {"settings", "navigate"}) ELSE @]
  BY DEF Answer
<1> DEFINE o == browser[s].owed \ {command}
           old == browser[s].pipe
           p == IF command = "quit" THEN old ELSE Append(old, [id |-> command, ok |-> ok])
           r == IF command = "quit" /\ ok THEN {} ELSE browser[s].procs
           d == IF ok THEN browser[s].done \cup ({command} \cap {"settings", "navigate"}) ELSE browser[s].done
           b == [browser[s] EXCEPT !.owed = o, !.pipe = p, !.procs = r, !.done = d]
           Message == [id : Names \cup {"event"}, ok : BOOLEAN]
<1>3. browser' = [browser EXCEPT ![s] = b]
  BY <1>1, <1>2
<1>4. command \in Names \cup {"quit"} /\ old \in Seq(Message)
  BY <1>1 DEF Browser
<1>5. p \in Seq(Message) /\ \A i \in DOMAIN p : \/ i \in DOMAIN old /\ p[i] = old[i]
                                                \/ p[i] = [id |-> command, ok |-> ok]
  <2>1. CASE command = "quit"
    BY <1>4, <2>1
  <2>2. CASE command # "quit"
    <3>1. [id |-> command, ok |-> ok] \in Message
      BY <1>4, <2>2
    <3> DEFINE m == [id |-> command, ok |-> ok]
    <3>2. p = Append(old, m)
      BY <2>2
    <3>. HIDE DEF m, p, old, Message
    <3>. QED
      BY <1>4, <3>1, <3>2 DEF m
  <2>. QED
    BY <2>1, <2>2
<1>6. r \in SUBSET Processes /\ (r # {} => r = browser[s].procs)
  BY <1>1 DEF Browser
<1>7. /\ d \in SUBSET {"settings", "navigate"} /\ browser[s].done \subseteq d
      /\ ok /\ command = "settings" => "settings" \in d
      /\ "navigate" \in d => "navigate" \in browser[s].done \/ command = "navigate"
  BY <1>1 DEF Browser
<1>8. o \in SUBSET (Names \cup {"quit"}) /\ o \subseteq browser[s].owed
  BY <1>1 DEF Browser
<1>. HIDE DEF o, p, r, d
<1>9. /\ b \in Browser /\ b.open = browser[s].open /\ b.procs = r /\ b.dir = browser[s].dir
      /\ b.owed = o /\ b.pipe = p /\ b.done = d
  BY <1>1, <1>5, <1>6, <1>7, <1>8 DEF Browser
<1>. HIDE DEF b
<1>10. Sound(b)
  <2>1. "navigate" \in o \cup d => "settings" \in d
    BY <1>1, <1>7, <1>8 DEF Sound
  <2>2. ASSUME NEW i \in DOMAIN p, p[i].id = "settings", p[i].ok PROVE "settings" \in d
    BY <1>1, <1>5, <1>7, <2>2 DEF Sound
  <2>. QED
    BY <1>1, <1>6, <1>9, <2>1, <2>2 DEF Sound
<1>11. browser[s].procs = {} => b.procs = {}
  BY <1>6, <1>9
<1>. QED
  BY <1>1, <1>3, <1>9, <1>10, <1>11, OutsideStep

LEMMA EventStep ==
  ASSUME IInv, UNCHANGED homeVars, NEW s \in Sessions, Event(s)
  PROVE  IInv'
<1> DEFINE p == <<[id |-> "event", ok |-> TRUE]>>
           b == [browser[s] EXCEPT !.pipe = p]
<1>1. /\ browser[s] \in Browser /\ Sound(browser[s]) /\ browser \in [Sessions -> Browser]
      /\ UNCHANGED call
  BY Session DEF Event
<1>2. browser' = [browser EXCEPT ![s] = b]
  BY <1>1 DEF Event
<1>3. p \in Seq([id : Names \cup {"event"}, ok : BOOLEAN]) /\ \A i \in DOMAIN p : p[i].id = "event"
  OBVIOUS
<1>. HIDE DEF p
<1>4. /\ b \in Browser /\ b.open = browser[s].open /\ b.procs = browser[s].procs /\ b.dir = browser[s].dir
      /\ b.owed = browser[s].owed /\ b.pipe = p /\ b.done = browser[s].done
  BY <1>1, <1>3 DEF Browser
<1>. HIDE DEF b
<1>5. Sound(b)
  BY <1>1, <1>3, <1>4 DEF Sound
<1>. QED
  BY <1>1, <1>2, <1>4, <1>5, OutsideStep

LEMMA ProcsStep ==
  ASSUME IInv, UNCHANGED homeVars, NEW s \in Sessions, Spawn(s) \/ Exit(s)
  PROVE  IInv'
<1>1. /\ browser[s] \in Browser /\ Sound(browser[s]) /\ browser \in [Sessions -> Browser]
      /\ UNCHANGED call
  BY Session DEF Spawn, Exit
<1>2. CASE browser[s].procs # {}
           /\ \E r \in SUBSET Processes : browser' = [browser EXCEPT ![s].procs = r]
  <2>1. PICK r \in SUBSET Processes : browser' = [browser EXCEPT ![s].procs = r]
    BY <1>2
  <2> DEFINE b == [browser[s] EXCEPT !.procs = r]
  <2>2. browser' = [browser EXCEPT ![s] = b]
    BY <1>1, <2>1
  <2>3. /\ b \in Browser /\ b.open = browser[s].open /\ b.procs = r /\ b.dir = browser[s].dir
        /\ b.owed = browser[s].owed /\ b.pipe = browser[s].pipe /\ b.done = browser[s].done
    BY <1>1 DEF Browser
  <2>. HIDE DEF b
  <2>4. Sound(b)
    BY <1>1, <1>2, <2>3 DEF Sound
  <2>. QED
    BY <1>1, <1>2, <2>2, <2>3, <2>4, OutsideStep
<1>3. CASE browser' = [browser EXCEPT ![s].dying = FALSE]
  <2> DEFINE b == [browser[s] EXCEPT !.dying = FALSE]
  <2>2. browser' = [browser EXCEPT ![s] = b]
    BY <1>1, <1>3
  <2>3. /\ b \in Browser /\ b.open = browser[s].open /\ b.procs = browser[s].procs /\ b.dir = browser[s].dir
        /\ b.owed = browser[s].owed /\ b.pipe = browser[s].pipe /\ b.done = browser[s].done
    BY <1>1 DEF Browser
  <2>. HIDE DEF b
  <2>4. Sound(b)
    BY <1>1, <2>3 DEF Sound
  <2>. QED
    BY <1>1, <2>2, <2>3, <2>4, OutsideStep
<1>4. Spawn(s) => browser[s].procs # {} /\ \E r \in SUBSET Processes : browser' = [browser EXCEPT ![s].procs = r]
  BY DEF Spawn
<1>5. ASSUME NEW q \in browser[s].procs, browser' = [browser EXCEPT ![s].procs = @ \ {q}]
      PROVE  browser[s].procs # {} /\ \E r \in SUBSET Processes : browser' = [browser EXCEPT ![s].procs = r]
  <2>1. browser[s].procs \ {q} \in SUBSET Processes
    BY <1>1 DEF Browser
  <2>2. browser' = [browser EXCEPT ![s].procs = browser[s].procs \ {q}]
    BY <1>1, <1>5
  <2>. QED
    BY <2>1, <2>2
<1>. QED
  BY <1>2, <1>3, <1>4, <1>5 DEF Exit

-----------------------------------------------------------------------------
(* Steps of the window                                                     *)

LEMMA RefreshList ==
  ASSUME NEW f \in [Slots -> Sessions \cup {0}], Refresh(f)
  PROVE  /\ list' \in Seq(Slots) /\ cursor' \in 0..Len(list')
         /\ Types /\ cursor # 0 /\ list[cursor] \in Full(f) =>
              cursor' \in DOMAIN list' /\ list'[cursor'] = list[cursor]
<1> DEFINE F == Full(f)
           new == CHOOSE l \in [1..Cardinality(F) -> F] : \A i, j \in DOMAIN l : i < j => l[i] < l[j]
           kept == {i \in DOMAIN new : cursor # 0 /\ new[i] = list[cursor]}
<1>1. /\ list' = new
      /\ cursor' = IF kept # {} THEN CHOOSE i \in kept : TRUE ELSE IF new = <<>> THEN 0 ELSE 1
  BY DEF Refresh
<1>2. F \in SUBSET Slots /\ F \in SUBSET Nat
  BY Constants DEF Full
<1>3. IsFiniteSet(F)
  BY <1>2, Constants, FS_Subset
<1>4. \E l \in [1..Cardinality(F) -> F] : \A i, j \in DOMAIN l : i < j => l[i] < l[j]
  <2>. HIDE DEF F
  <2>. QED
    BY <1>2, <1>3, Enumerable DEF Increasing
<1>5. Increasing(F, new)
  <2>. HIDE DEF F
  <2>. QED
    BY <1>4 DEF Increasing
<1>. HIDE DEF F, new
<1>6. /\ new \in Seq(F) /\ DOMAIN new = 1..Len(new)
      /\ \A x \in F : \E i \in DOMAIN new : new[i] = x
  BY <1>2, <1>3, <1>5, IncreasingAll
<1>7. new \in Seq(Slots) /\ Len(new) \in Nat /\ (new # <<>> => 1 \in 1..Len(new))
  <2>1. new \in Seq(Slots) /\ Len(new) \in Nat
    <3>1. Len(new) \in Nat /\ new \in [1..Len(new) -> F]
      BY <1>6
    <3>2. new \in [1..Len(new) -> Slots]
      BY <1>2, <3>1
    <3>. QED
      BY <3>1, <3>2, SeqDef
  <2>2. new # <<>> => Len(new) # 0
    BY <2>1, EmptySeq
  <2>. QED
    BY <2>1, <2>2
<1>8. kept # {} => cursor' \in DOMAIN new /\ new[cursor'] = list[cursor]
  <2>1. SUFFICES ASSUME kept # {} PROVE cursor' \in kept
    OBVIOUS
  <2>. HIDE DEF kept
  <2>. QED
    BY <1>1, <2>1
<1>9. cursor' \in 0..Len(new)
  BY <1>1, <1>6, <1>7, <1>8
<1>10. cursor # 0 /\ list[cursor] \in F => kept # {}
  BY <1>6
<1>. HIDE DEF kept
<1>. QED
  BY <1>1, <1>7, <1>8, <1>9, <1>10 DEF F

LEMMA NotWorking ==
  ASSUME IInv, ~Working
  PROVE  work = Resting /\ call = Idle
<1>1. work = Resting
  BY DEF IInv, WorkSound, Working
<1>. QED
  BY <1>1 DEF IInv, CallSound, Resting

\* An operation begins, or does not.
Begun(o, f) ==
    \/ o = Resting
    \/ /\ o \in Operation /\ o.op # "none" /\ o.s = 0 /\ o.at = "go" /\ o.ok = TRUE
       /\ o.op = "open" => o.slot \in Slots /\ f[o.slot] = 0 /\ \A c, d \in o.settings : c = d
       /\ o.op \in {"close", "exit"} => o.todo \subseteq Slots
       /\ o.op = "exit" => \A i \in Slots : f[i] # 0 => i \in o.todo

LEMMA RestingType == Resting \in Operation
  BY DEF Resting, Operation

LEMMA ThreadBegun ==
  ASSUME NEW op \in {"open", "update", "close", "exit"}, NEW slot \in Slots \cup {0},
         NEW settings \in SUBSET Settings, NEW f \in [Slots -> Sessions \cup {0}],
         op = "open" => slot \in Slots /\ f[slot] = 0 /\ \A c, d \in settings : c = d,
         op = "close" => slot \in Slots,
         Thread(op, slot, settings, f)
  PROVE  Begun(work', f) /\ work'.op = op /\ work'.settings = settings /\ work' # Resting
<1> DEFINE t == IF op = "exit" THEN Full(f) ELSE {slot}
<1>1. work' = [Resting EXCEPT !.op = op, !.slot = slot, !.settings = settings, !.at = "go", !.todo = t]
  BY DEF Thread
<1>2. t \in SUBSET (Slots \cup {0}) /\ (op \in {"close", "exit"} => t \subseteq Slots) /\ (op = "exit" => \A i \in Slots : f[i] # 0 => i \in t)
  BY DEF Full
<1>. HIDE DEF t
<1>3. work' \in Operation /\ work'.op = op /\ work'.slot = slot /\ work'.settings = settings /\ work'.at = "go"
      /\ work'.todo = t /\ work'.s = 0 /\ work'.ok = TRUE
  BY <1>1, <1>2, RestingType DEF Operation, Resting
<1>. QED
  BY <1>2, <1>3 DEF Begun, Resting

\* A step of the window that leaves the sessions as they are
LEMMA WindowStep ==
  ASSUME IInv, ~Working, UNCHANGED <<browser, call, slots, list>>,
         cursor' \in 0..Len(list), ui \in {"home", "settings", "separate", "account", "exam"},
         ui' \in {"home", "settings", "separate", "account", "exam"}, ui' # "home" => work' = Resting,
         config' \in Settings, closing' \in BOOLEAN, Begun(work', slots),
         work'.op = "open" => asked' = work'.settings
  PROVE  IInv'
<1>1. work = Resting /\ call = Idle
  BY NotWorking
<1>2. work' \in Operation /\ work'.s = 0
  <2>1. Resting \in Operation /\ Resting.s = 0
    BY RestingType DEF Resting
  <2>. QED
    BY <2>1 DEF Begun
<1>3. Types'
  BY <1>2 DEF IInv, Types
<1>4. (\A s \in Sessions : Sound(browser[s]))'
  BY DEF IInv, Sound
<1>5. Held'
  BY <1>1, <1>2 DEF IInv, Held, Holds, Resting
<1>6. CallSound'
  BY <1>1 DEF CallSound, Idle
<1>7. WorkSound'
  BY <1>2 DEF WorkSound, Begun, Resting
<1>. QED
  BY <1>3, <1>4, <1>5, <1>6, <1>7 DEF IInv

LEMMA OpenBegun ==
  ASSUME IInv, NEW c \in Settings, Open(c)
  PROVE  Begun(work', slots) /\ closing' \in BOOLEAN /\ (work'.op = "open" => asked' = work'.settings)
<1>1. PICK i \in FreeSlot : Begin("open", i, {c})
  BY DEF Open
<1>2. i \in Slots /\ slots[i] = 0 /\ slots \in [Slots -> Sessions \cup {0}] /\ closing \in BOOLEAN
      /\ asked' = {c} /\ {c} \in SUBSET Settings
  BY DEF FreeSlot, IInv, Types, Open
<1>3. CASE Thread("open", i, {c}, slots) /\ UNCHANGED closing
  BY <1>2, <1>3, ThreadBegun
<1>4. CASE NoThread
  BY <1>4 DEF NoThread, Begun, Resting
<1>. QED
  BY <1>1, <1>3, <1>4 DEF Begin

LEMMA IdleWindow ==
  ASSUME IInv, NewSession \/ Update \/ CloseSelected \/ (~Working /\ CloseWindow) \/ Dialog \/ DialogEnds
  PROVE  IInv'
<1>1. Types /\ WorkSound
  BY DEF IInv
<1>2. cursor \in 0..Len(list) /\ slots \in [Slots -> Sessions \cup {0}] /\ closing \in BOOLEAN /\ config \in Settings
      /\ \A i \in DOMAIN list : list[i] \in Slots
  BY <1>1 DEF Types
<1>3. CASE NewSession
  BY <1>2, <1>3, OpenBegun, WindowStep DEF NewSession
<1>4. CASE Update
  <2>1. CASE Thread("update", 0, {config}, slots) /\ UNCHANGED closing
    <3>1. Begun(work', slots) /\ work'.op = "update"
      BY <1>2, <2>1, ThreadBegun
    <3>. QED
      BY <1>2, <1>4, <2>1, <3>1, WindowStep DEF Update
  <2>2. CASE NoThread
    <3>1. Begun(work', slots) /\ work'.op = "none" /\ closing' \in BOOLEAN
      BY <2>2 DEF NoThread, Begun, Resting
    <3>. QED
      BY <1>2, <1>4, <3>1, WindowStep DEF Update
  <2>. QED
    BY <1>4, <2>1, <2>2 DEF Update, Begin
<1>5. CASE CloseSelected
  <2>1. list[cursor] \in Slots
    BY <1>1, <1>2, <1>5 DEF CloseSelected, Types
  <2>2. CASE Thread("close", list[cursor], {}, slots) /\ UNCHANGED closing
    <3>1. Begun(work', slots) /\ work'.op = "close"
      BY <1>2, <2>1, <2>2, ThreadBegun
    <3>. QED
      BY <1>2, <1>5, <2>2, <3>1, WindowStep DEF CloseSelected
  <2>3. CASE NoThread
    <3>1. Begun(work', slots) /\ work'.op = "none" /\ closing' \in BOOLEAN
      BY <2>3 DEF NoThread, Begun, Resting
    <3>. QED
      BY <1>2, <1>5, <3>1, WindowStep DEF CloseSelected
  <2>. QED
    BY <1>5, <2>2, <2>3 DEF CloseSelected, Begin
<1>6. CASE ~Working /\ CloseWindow
  <2>1. CASE Thread("exit", 0, {}, slots) /\ closing' = TRUE
    <3>1. Begun(work', slots) /\ work'.op = "exit"
      BY <1>2, <2>1, ThreadBegun
    <3>. QED
      BY <1>2, <1>6, <2>1, <3>1, WindowStep DEF CloseWindow
  <2>2. CASE NoThread
    <3>1. Begun(work', slots) /\ work'.op = "none" /\ closing' \in BOOLEAN
      BY <2>2 DEF NoThread, Begun, Resting
    <3>. QED
      BY <1>2, <1>6, <3>1, WindowStep DEF CloseWindow
  <2>. QED
    BY <1>6, <2>1, <2>2 DEF CloseWindow
<1>7. CASE Dialog
  <2>1. work = Resting /\ work' = work
    BY <1>7, NotWorking DEF Dialog
  <2>2. Begun(work', slots) /\ work'.op = "none"
    BY <2>1 DEF Begun, Resting
  <2>. QED
    BY <1>2, <1>7, <2>1, <2>2, WindowStep DEF Dialog, browserVars
<1>8. CASE DialogEnds
  <2>1. ~Working
    BY <1>1, <1>8 DEF DialogEnds, WorkSound, Working
  <2>2. CASE UNCHANGED <<work, closing, asked, troubles>> /\ config' \in Settings
    <3>1. Begun(work', slots) /\ work'.op = "none"
      BY <2>1, <2>2, NotWorking DEF Begun, Resting
    <3>. QED
      BY <1>2, <1>8, <2>1, <2>2, <3>1, WindowStep DEF DialogEnds
  <2>3. CASE \E c \in Settings : Open(c) /\ UNCHANGED config
    BY <1>2, <1>8, <2>1, <2>3, OpenBegun, WindowStep DEF DialogEnds
  <2>. QED
    BY <1>2, <1>8, <2>2, <2>3 DEF DialogEnds
<1>. QED
  BY <1>3, <1>4, <1>5, <1>6, <1>7, <1>8

\* Moving the selection, and the wish to leave while an operation is under way
LEMMA WishStep ==
  ASSUME IInv, Select \/ (Working /\ CloseWindow)
  PROVE  IInv'
<1>1. /\ UNCHANGED <<browser, call, slots, list, ui, config, work, asked>>
      /\ cursor' \in 0..Len(list) /\ closing' \in BOOLEAN
  <2>1. Types
    BY DEF IInv
  <2>2. DOMAIN list = 1..Len(list) /\ Len(list) \in Nat
    BY <2>1 DEF Types
  <2>3. CASE Select
    BY <2>1, <2>2, <2>3 DEF Types, Select, browserVars
  <2>4. CASE Working /\ CloseWindow
    <3>1. UNCHANGED <<browser, call, slots, list, ui, config, work, asked, cursor>> /\ closing' = TRUE
      BY <2>4 DEF CloseWindow
    <3>. QED
      BY <2>1, <3>1 DEF Types
  <2>. QED
    BY <2>3, <2>4
<1>2. Types'
  BY <1>1 DEF IInv, Types
<1>3. (\A s \in Sessions : Sound(browser[s]))' /\ Held' /\ CallSound' /\ WorkSound'
  BY <1>1 DEF IInv, Sound, Held, Holds, CallSound, WorkSound
<1>. QED
  BY <1>2, <1>3 DEF IInv

LEMMA PollStep ==
  ASSUME IInv, Poll
  PROVE  IInv' /\ \A i \in Slots : slots'[i] \in {0, slots[i]}
<1>1. Types /\ Held /\ work = Resting /\ call = Idle /\ UNCHANGED <<call, ui, config, work, closing, asked>>
  BY NotWorking DEF IInv, Poll
<1>2. PICK held \in SUBSET {i \in Ended : browser[slots[i]].dir # "none"} :
        /\ browser' = [s \in Sessions |-> IF s \notin {slots[i] : i \in Ended} THEN browser[s]
                                          ELSE IF s \in {slots[i] : i \in held} THEN [browser[s] EXCEPT !.dir = "torn"]
                                          ELSE NoSession]
        /\ slots' = [i \in Slots |-> IF i \in Ended \ held THEN 0 ELSE slots[i]]
  BY DEF Poll, PollSlots
<1>3. held \subseteq Ended /\ Ended \subseteq Slots
      /\ \A i \in Ended : slots[i] \in Sessions /\ browser[slots[i]].procs = {}
  BY <1>1 DEF Ended, JobEmpty, Types
<1>4. slots' \in [Slots -> Sessions \cup {0}]
  BY <1>1, <1>2 DEF Types
<1>5. ASSUME NEW s \in Sessions
      PROVE  browser'[s] \in Browser /\ Sound(browser'[s])
  <2>1. browser[s] \in Browser /\ Sound(browser[s])
    BY <1>1 DEF Types, IInv
  <2>2. CASE s \notin {slots[i] : i \in Ended}
    BY <1>2, <2>1, <2>2
  <2>3. CASE s \in {slots[i] : i \in Ended} /\ s \in {slots[i] : i \in held}
    <3> DEFINE b == [browser[s] EXCEPT !.dir = "torn"]
    <3>1. browser'[s] = b /\ browser[s].procs = {}
      BY <1>2, <1>3, <2>3
    <3>2. /\ b \in Browser /\ b.procs = browser[s].procs /\ b.owed = browser[s].owed
          /\ b.pipe = browser[s].pipe /\ b.done = browser[s].done
      BY <2>1 DEF Browser
    <3>. HIDE DEF b
    <3>. QED
      BY <2>1, <3>1, <3>2 DEF Sound
  <2>4. CASE s \in {slots[i] : i \in Ended} /\ s \notin {slots[i] : i \in held}
    <3>1. browser'[s] = NoSession
      BY <1>2, <2>4
    <3>2. NoSession \in Browser /\ Sound(NoSession)
      BY DEF NoSession, Browser, Sound
    <3>. QED
      BY <3>1, <3>2
  <2>. QED
    BY <2>2, <2>3, <2>4
<1>6. Types'
  <2>1. browser' \in [Sessions -> Browser]
    BY <1>2, <1>5
  <2>2. list' \in Seq(Slots) /\ cursor' \in 0..Len(list')
    BY <1>4, RefreshList DEF Poll
  <2>. QED
    BY <1>1, <1>4, <2>1, <2>2 DEF Types
<1>7. Held'
  <2>1. ASSUME NEW s \in Sessions PROVE (browser[s].open <=> Holds(s))'
    <3>1. browser[s].open <=> \E i \in Slots : slots[i] = s
      BY <1>1, Constants DEF Held, Holds, Resting, Idle
    <3>2. Holds(s)' <=> \E i \in Slots : slots'[i] = s
      BY <1>1, Constants DEF Holds, Resting, Idle
    <3>3. CASE s \notin {slots[i] : i \in Ended}
      <4>1. browser'[s] = browser[s]
        BY <1>2, <3>3
      <4>2. \A i \in Slots : slots'[i] = s <=> slots[i] = s
        BY <1>2, <3>3, Constants
      <4>. QED
        BY <3>1, <3>2, <4>1, <4>2
    <3>4. CASE s \in {slots[i] : i \in Ended} /\ s \in {slots[i] : i \in held}
      <4>1. PICK i \in held : s = slots[i]
        BY <3>4
      <4>2. slots'[i] = s /\ i \in Slots
        BY <1>2, <1>3, <4>1
      <4>3. browser'[s].open = browser[s].open
        <5>1. browser[s] \in Browser
          BY <1>1 DEF Types
        <5>2. browser'[s] = [browser[s] EXCEPT !.dir = "torn"]
          BY <1>2, <3>4
        <5>. QED
          BY <5>1, <5>2 DEF Browser
      <4>. QED
        BY <3>1, <3>2, <4>1, <4>2, <4>3
    <3>5. CASE s \in {slots[i] : i \in Ended} /\ s \notin {slots[i] : i \in held}
      <4>1. PICK i \in Ended : s = slots[i]
        BY <3>5
      <4>2. browser'[s].open = FALSE
        BY <1>2, <3>5 DEF NoSession
      <4>3. ASSUME NEW j \in Slots, slots'[j] = s PROVE FALSE
        <5>1. slots[j] = s /\ s # 0 /\ j = i
          BY <1>1, <1>2, <1>3, <4>1, <4>3, Constants DEF Held
        <5>2. i \notin held
          BY <3>5, <4>1
        <5>. QED
          BY <1>2, <4>3, <5>1, <5>2
      <4>. QED
        BY <3>2, <4>2, <4>3
    <3>. QED
      BY <3>3, <3>4, <3>5
  <2>2. \A i, j \in Slots : slots'[i] # 0 /\ slots'[i] = slots'[j] => i = j
    BY <1>1, <1>2 DEF Held
  <2>. QED
    BY <2>1, <2>2 DEF Held
<1>8. CallSound' /\ WorkSound'
  <2>1. CallSound'
    BY <1>1 DEF CallSound, Idle
  <2>2. ui' # "gone" /\ work' = Resting
    BY <1>1 DEF Poll
  <2>3. WorkSound'
    BY <2>2 DEF WorkSound, Resting
  <2>. QED
    BY <2>1, <2>3
<1>9. \A i \in Slots : slots'[i] \in {0, slots[i]}
  BY <1>2
<1>. QED
  BY <1>5, <1>6, <1>7, <1>8, <1>9 DEF IInv, Sound

\* The session that was opened is handed over to the slot that was kept for it.
LEMMA OperationDoneStep ==
  ASSUME IInv, OperationDone
  PROVE  /\ IInv'
         /\ \A i \in Slots : slots'[i] = slots[i] \/ (slots[i] = 0 /\ \A j \in Slots : slots[j] # slots'[i])
<1>1. /\ Types /\ Held /\ WorkSound /\ call = Idle /\ work.op # "none" /\ ui = "home"
      /\ UNCHANGED <<browser, call, config>>
  <2>1. Types /\ Held /\ WorkSound /\ CallSound
    BY DEF IInv
  <2>2. work.op # "none"
    BY <2>1 DEF OperationDone, WorkSound, Resting
  <2>. QED
    BY <2>1, <2>2 DEF OperationDone, WorkSound, CallSound
<1>2. slots' = IF work.s # 0 THEN [slots EXCEPT ![work.slot] = work.s] ELSE slots
  BY DEF OperationDone
<1>3. /\ slots \in [Slots -> Sessions \cup {0}] /\ work \in Operation /\ work.s \in Sessions \cup {0}
      /\ work.s # 0 => /\ work.slot \in Slots /\ slots[work.slot] = 0 /\ work.op = "open"
                       /\ \A i \in Slots : slots[i] # work.s
  BY <1>1 DEF Types, WorkSound, Operation
<1>4. slots' \in [Slots -> Sessions \cup {0}]
  BY <1>2, <1>3
<1>5. \A i \in Slots : slots'[i] = IF work.s # 0 /\ i = work.slot THEN work.s ELSE slots[i]
  BY <1>2, <1>3
<1>6. list' \in Seq(Slots) /\ cursor' \in 0..Len(list')
  BY <1>4, RefreshList DEF OperationDone
<1>7. /\ Begun(work', slots') /\ work'.op # "open" /\ closing' \in BOOLEAN /\ ui' \in {"home", "gone"}
      /\ ui' = "gone" => work' = Resting /\ work.op = "exit" /\ work.ok
  <2>1. CASE work.op = "exit"
    <3>1. work' = Resting
      BY <2>1 DEF OperationDone
    <3>. QED
      BY <1>1, <2>1, <3>1 DEF OperationDone, Types, Begun, Resting
  <2>2. CASE work.op # "exit" /\ closing /\ Thread("exit", 0, {}, slots') /\ UNCHANGED closing
    <3>1. Begun(work', slots') /\ work'.op = "exit"
      BY <1>4, <2>2, ThreadBegun
    <3>. QED
      BY <1>1, <2>2, <3>1 DEF OperationDone, Types
  <2>3. CASE work.op # "exit" /\ closing /\ NoThread
    BY <1>1, <2>3 DEF OperationDone, NoThread, Types, Begun, Resting
  <2>4. CASE work.op # "exit" /\ ~closing
    <3>1. work' = Resting /\ UNCHANGED <<closing, ui>>
      BY <2>4 DEF OperationDone
    <3>. QED
      BY <1>1, <2>4, <3>1 DEF Types, Begun, Resting
  <2>. QED
    BY <2>1, <2>2, <2>3, <2>4 DEF OperationDone
<1>8. work' \in Operation /\ work'.s = 0
  <2>1. Resting \in Operation /\ Resting.s = 0
    BY RestingType DEF Resting
  <2>. QED
    BY <1>7, <2>1 DEF Begun
<1>9. Types'
  BY <1>1, <1>4, <1>6, <1>7, <1>8 DEF Types
<1>10. (\A s \in Sessions : Sound(browser[s]))'
  BY <1>1 DEF IInv, Sound
<1>11. Held'
  <2>1. ASSUME NEW s \in Sessions PROVE (browser[s].open <=> Holds(s))'
    <3>1. s # 0 /\ (browser[s].open <=> (\E i \in Slots : slots[i] = s) \/ work.s = s)
      BY <1>1, Constants DEF Held, Holds, Idle
    <3>2. Holds(s)' <=> \E i \in Slots : slots'[i] = s
      BY <1>1, <1>8, Constants DEF Holds, Idle
    <3>3. (\E i \in Slots : slots'[i] = s) <=> (\E i \in Slots : slots[i] = s) \/ work.s = s
      BY <1>3, <1>5, <3>1
    <3>. QED
      BY <1>1, <3>1, <3>2, <3>3
  <2>2. \A i, j \in Slots : slots'[i] # 0 /\ slots'[i] = slots'[j] => i = j
    BY <1>1, <1>3, <1>5 DEF Held
  <2>. QED
    BY <2>1, <2>2 DEF Held
<1>12. CallSound'
  BY <1>1 DEF CallSound, Idle
<1>13. WorkSound'
  <2>1. ui' = "gone" => \A i \in Slots : slots'[i] = 0
    BY <1>1, <1>3, <1>5, <1>7 DEF WorkSound, OperationDone
  <2>2. ui' # "home" => work' = Resting
    BY <1>7
  <2>. QED
    BY <1>7, <1>8, <2>1, <2>2 DEF WorkSound, Begun, Resting
<1>14. \A i \in Slots : slots'[i] = slots[i] \/ (slots[i] = 0 /\ \A j \in Slots : slots[j] # slots'[i])
  BY <1>3, <1>5
<1>. QED
  BY <1>9, <1>10, <1>11, <1>12, <1>13, <1>14 DEF IInv

-----------------------------------------------------------------------------
(* Steps of the worker thread                                              *)

\* The operation has nothing more to do.
LEMMA DoneStep ==
  ASSUME IInv, UNCHANGED <<browserVars, slots, list, cursor, ui, config, closing, asked>>,
         work.at = "go", NEW ok \in BOOLEAN, Done(ok),
         work.op = "exit" => ok = work.ok /\ \A i \in work.todo \cap Slots : slots[i] = 0
  PROVE  IInv'
<1>1. Types /\ Held /\ WorkSound /\ CallSound /\ work \in Operation
  BY DEF IInv, Types
<1>2. /\ work' \in Operation /\ work'.op = work.op /\ work'.slot = work.slot /\ work'.settings = work.settings
      /\ work'.at = "posted" /\ work'.ok = ok /\ work'.s = work.s /\ work'.todo = work.todo
  BY <1>1 DEF Done, Operation
<1>3. call.op = "none" /\ work.s = 0 /\ work.op # "none" /\ UNCHANGED <<browser, call>>
  BY <1>1 DEF CallSound, WorkSound, Resting, browserVars
<1>4. Types'
  BY <1>1, <1>2, <1>3 DEF Types
<1>5. (\A s \in Sessions : Sound(browser[s]))' /\ Held'
  BY <1>1, <1>2, <1>3 DEF IInv, Sound, Held, Holds
<1>6. CallSound'
  BY <1>1, <1>2, <1>3 DEF CallSound, Idle
<1>7. WorkSound'
  BY <1>1, <1>2, <1>3 DEF WorkSound
<1>. QED
  BY <1>4, <1>5, <1>6, <1>7 DEF IInv

LEMMA FetchStep ==
  ASSUME IInv, Fetch
  PROVE  IInv'
<1>1. Types /\ Held /\ WorkSound /\ CallSound /\ work \in Operation /\ call.op = "none" /\ call = Idle
      /\ UNCHANGED <<slots, list, cursor, ui, config, closing, asked>> /\ work.s = 0
  BY DEF IInv, Types, Fetch, CallSound, WorkSound
<1>2. CASE \E ok \in BOOLEAN : Done(ok) /\ UNCHANGED browserVars
  BY <1>1, <1>2, DoneStep DEF Fetch
<1>3. CASE /\ work.op = "open" /\ work' = [work EXCEPT !.at = "call"]
           /\ \E c \in work.settings : Fresh # {} /\ StartBegins(CHOOSE s \in Fresh : TRUE, c)
  <2>1. PICK c \in work.settings : Fresh # {} /\ StartBegins(CHOOSE s \in Fresh : TRUE, c)
    BY <1>3
  <2> DEFINE s == CHOOSE s \in Fresh : TRUE
  <2>2. s \in Sessions /\ browser[s] = NoSession
    <3>1. s \in Fresh
      BY <2>1
    <3>. HIDE DEF s
    <3>. QED
      BY <3>1 DEF Fresh, Unused
  <2>3. /\ browser' = [browser EXCEPT ![s].open = TRUE]
        /\ call' = [op |-> "start", s |-> s, at |-> "prepare", ok |-> TRUE, settings |-> {c}]
    BY <2>1 DEF StartBegins
  <2>. HIDE DEF s
  <2>4. c \in Settings
    BY <1>1, <2>1 DEF Operation
  <2>5. /\ call' \in Function /\ call'.op = "start" /\ call'.s = s /\ call'.at = "prepare" /\ call'.settings = {c}
    BY <2>2, <2>3, <2>4 DEF Function, Places
  <2> DEFINE b == [browser[s] EXCEPT !.open = TRUE]
  <2>6. browser' = [browser EXCEPT ![s] = b] /\ browser'[s] = b /\ browser' \in [Sessions -> Browser]
        /\ \A t \in Sessions : t # s => browser'[t] = browser[t]
    <3>1. browser \in [Sessions -> Browser] /\ browser[s] \in Browser
      BY <1>1, <2>2 DEF Types
    <3>2. b \in Browser
      BY <3>1 DEF Browser
    <3>3. browser' = [browser EXCEPT ![s] = b]
      BY <2>2, <2>3, <3>1
    <3>. HIDE DEF b
    <3>. QED
      BY <2>2, <3>1, <3>2, <3>3
  <2>7. b.open /\ Sound(b) /\ ~browser[s].open
    BY <2>2 DEF NoSession, Sound
  <2>. HIDE DEF b
  <2>8. /\ work' \in Operation /\ work'.op = "open" /\ work'.slot = work.slot /\ work'.settings = work.settings
        /\ work'.at = "call" /\ work'.s = 0
    BY <1>1, <1>3 DEF Operation
  <2>9. ~Holds(s) /\ work.settings = asked
    BY <1>1, <1>3, <2>2, <2>7 DEF Held, WorkSound
  <2>10. Types'
    BY <1>1, <2>5, <2>6, <2>8 DEF Types
  <2>11. (\A t \in Sessions : Sound(browser[t]))'
    BY <2>6, <2>7 DEF IInv, Sound
  <2>12. Held'
    <3>1. ASSUME NEW t \in Sessions PROVE (browser[t].open <=> Holds(t))'
      <4>1. Holds(t)' <=> Holds(t) \/ t = s
        BY <1>1, <2>5, <2>8, Constants DEF Holds, Idle
      <4>. QED
        BY <1>1, <2>6, <2>7, <4>1 DEF Held
    <3>. QED
      BY <1>1, <3>1 DEF Held
  <2>13. asked = {c}
    <3>1. asked = work.settings /\ \A d, e \in asked : d = e
      BY <1>1, <1>3 DEF WorkSound
    <3>. QED
      BY <2>1, <3>1
  <2>14. CallSound'
    BY <1>1, <2>2, <2>5, <2>8, <2>9, <2>13 DEF CallSound, Holds
  <2>15. WorkSound'
    BY <1>1, <1>3, <2>8 DEF WorkSound
  <2>. QED
    BY <2>10, <2>11, <2>12, <2>14, <2>15 DEF IInv
<1>. QED
  BY <1>2, <1>3 DEF Fetch

LEMMA DestroyedSession ==
  ASSUME NEW dir \in {"none", "torn"}
  PROVE  /\ [NoSession EXCEPT !.dir = dir] \in Browser
         /\ ~[NoSession EXCEPT !.dir = dir].open /\ Sound([NoSession EXCEPT !.dir = dir])
<1> DEFINE b == [NoSession EXCEPT !.dir = dir]
<1>1. NoSession \in Browser
  BY DEF NoSession, Browser
<1>2. ~NoSession.open /\ NoSession.procs = {} /\ NoSession.owed = {} /\ NoSession.pipe = <<>> /\ NoSession.done = {}
  BY DEF NoSession
<1>3. /\ b \in Browser /\ b.open = NoSession.open /\ b.procs = NoSession.procs /\ b.owed = NoSession.owed
      /\ b.pipe = NoSession.pipe /\ b.done = NoSession.done
  BY <1>1 DEF Browser
<1>4. DOMAIN NoSession.pipe = {}
  BY <1>2
<1>. HIDE DEF b
<1>5. ~b.open /\ Sound(b)
  BY <1>2, <1>3, <1>4 DEF Sound
<1>. QED
  BY <1>3, <1>5 DEF b

LEMMA StartedStep ==
  ASSUME IInv, Started
  PROVE  IInv'
<1>1. /\ Types /\ Held /\ WorkSound /\ CallSound /\ work \in Operation /\ browser \in [Sessions -> Browser]
      /\ UNCHANGED <<slots, list, cursor, ui, config, closing, asked>> /\ work.s = 0 /\ call' = Idle
  BY DEF IInv, Types, Started, WorkSound
<1>2. call.op = "start" /\ call.s \in Sessions /\ call.s # 0 /\ \A i \in Slots : slots[i] # call.s
  <2>1. call.op # "none"
    <3>1. call.at \in {"started", "closed"}
      BY DEF Started
    <3>. QED
      BY <1>1, <3>1 DEF CallSound, Idle
  <2>2. call.op # "close"
    BY <1>1 DEF Started, CallSound
  <2>3. call.op \in {"none", "start", "close"}
    BY <1>1 DEF Types, Function
  <2>. QED
    BY <1>1, <2>1, <2>2, <2>3, Constants DEF CallSound
<1>3. CallSound'
  BY <1>1 DEF CallSound, Idle
<1>4. Idle \in Function
  BY DEF Idle, Function, Places
<1>5. CASE UNCHANGED browser /\ work' = [work EXCEPT !.at = "posted", !.s = call.s]
  <2>1. /\ work' \in Operation /\ work'.op = work.op /\ work'.slot = work.slot /\ work'.settings = work.settings
        /\ work'.at = "posted" /\ work'.ok = work.ok /\ work'.s = call.s /\ work'.todo = work.todo
    BY <1>1, <1>2, <1>5 DEF Operation
  <2>2. Types'
    BY <1>1, <1>4, <1>5, <2>1 DEF Types
  <2>3. (\A t \in Sessions : Sound(browser[t]))'
    BY <1>5 DEF IInv, Sound
  <2>4. Held'
    BY <1>1, <1>2, <1>5, <2>1, Constants DEF Held, Holds, Idle
  <2>5. WorkSound'
    BY <1>1, <1>2, <2>1 DEF WorkSound, Started
  <2>. QED
    BY <1>3, <2>2, <2>3, <2>4, <2>5 DEF IInv
<1>6. CASE Destroyed(call.s) /\ Done(FALSE)
  <2>1. PICK dir \in {"none", "torn"} :
          browser' = [browser EXCEPT ![call.s] = [NoSession EXCEPT !.dir = dir]]
    BY <1>6 DEF Destroyed
  <2> DEFINE b == [NoSession EXCEPT !.dir = dir]
  <2>2. b \in Browser /\ ~b.open /\ Sound(b)
    BY DestroyedSession
  <2>. HIDE DEF b
  <2>3. /\ browser' \in [Sessions -> Browser] /\ browser'[call.s] = b
        /\ \A t \in Sessions : t # call.s => browser'[t] = browser[t]
    BY <1>1, <1>2, <2>1, <2>2 DEF b
  <2>4. /\ work' \in Operation /\ work'.op = work.op /\ work'.slot = work.slot /\ work'.settings = work.settings
        /\ work'.at = "posted" /\ work'.ok = FALSE /\ work'.s = 0 /\ work'.todo = work.todo
    BY <1>1, <1>6 DEF Operation, Done
  <2>5. Types'
    BY <1>1, <1>4, <2>3, <2>4 DEF Types
  <2>6. (\A t \in Sessions : Sound(browser[t]))'
    BY <2>2, <2>3 DEF IInv, Sound
  <2>7. Held'
    <3>1. ASSUME NEW t \in Sessions PROVE (browser[t].open <=> Holds(t))'
      <4>1. t # 0 /\ (Holds(t)' <=> Holds(t) /\ t # call.s)
        BY <1>1, <1>2, <2>4, Constants DEF Holds, Idle
      <4>. QED
        BY <1>1, <2>2, <2>3, <4>1 DEF Held
    <3>. QED
      BY <1>1, <3>1 DEF Held
  <2>8. WorkSound'
    BY <1>1, <2>4 DEF WorkSound, Started
  <2>. QED
    BY <1>3, <2>5, <2>6, <2>7, <2>8 DEF IInv
<1>. QED
  BY <1>5, <1>6 DEF Started

LEMMA CloseNextStep ==
  ASSUME IInv, CloseNext
  PROVE  IInv'
<1>1. /\ Types /\ Held /\ WorkSound /\ CallSound /\ work \in Operation /\ call = Idle /\ work.s = 0
      /\ UNCHANGED <<slots, list, cursor, ui, config, closing, asked>> /\ work.todo \subseteq Slots
  BY DEF IInv, Types, CloseNext, WorkSound, CallSound
<1>2. CASE \E i \in work.todo : slots[i] # 0
  <2>1. PICK i \in work.todo : /\ slots[i] # 0 /\ CloseBegins(slots[i]) /\ UNCHANGED <<browser, troubles>>
                               /\ work' = [work EXCEPT !.at = "call", !.todo = @ \ {i}, !.slot = i]
    BY <1>2 DEF CloseNext
  <2>2. i \in Slots /\ slots[i] \in Sessions
    BY <1>1, <2>1 DEF Types
  <2>3. /\ call' \in Function /\ call'.op = "close" /\ call'.s = slots[i] /\ call'.at = "ask"
    BY <2>1, <2>2 DEF CloseBegins, Idle, Function, Places
  <2>4. /\ work' \in Operation /\ work'.op = work.op /\ work'.slot = i /\ work'.settings = work.settings
        /\ work'.at = "call" /\ work'.ok = work.ok /\ work'.s = 0
        /\ work'.todo = work.todo \ {i}
    BY <1>1, <2>1, <2>2 DEF Operation
  <2>5. Types'
    BY <1>1, <2>1, <2>3, <2>4 DEF Types
  <2>6. (\A t \in Sessions : Sound(browser[t]))'
    BY <2>1 DEF IInv, Sound
  <2>7. Held'
    <3>1. ASSUME NEW t \in Sessions PROVE Holds(t)' <=> Holds(t)
      BY <1>1, <2>2, <2>3, <2>4, Constants DEF Holds, Idle
    <3>. QED
      BY <1>1, <2>1, <3>1 DEF Held
  <2>8. CallSound'
    BY <1>1, <2>2, <2>3, <2>4 DEF CallSound, CloseNext
  <2>9. WorkSound'
    BY <1>1, <2>2, <2>4 DEF WorkSound, CloseNext
  <2>. QED
    BY <2>5, <2>6, <2>7, <2>8, <2>9 DEF IInv
<1>3. CASE ~\E i \in work.todo : slots[i] # 0
  <2>1. Done(work.ok) /\ UNCHANGED browserVars /\ work.ok \in BOOLEAN /\ work.at = "go"
    BY <1>1, <1>3 DEF CloseNext, Operation
  <2>2. UNCHANGED <<browserVars, slots, list, cursor, ui, config, closing, asked>>
    BY <1>1, <2>1
  <2>. QED
    BY <1>3, <2>1, <2>2, DoneStep
<1>. QED
  BY <1>2, <1>3

LEMMA ClosedStep ==
  ASSUME IInv, Closed
  PROVE  IInv' /\ \A i \in Slots : slots'[i] \in {0, slots[i]}
<1>1. /\ Types /\ Held /\ WorkSound /\ CallSound /\ work \in Operation /\ browser \in [Sessions -> Browser]
      /\ slots \in [Slots -> Sessions \cup {0}]
      /\ UNCHANGED <<list, cursor, ui, config, closing, asked>> /\ work.s = 0 /\ call' = Idle
      /\ work.op \in {"close", "exit"} /\ work.at = "call"
  BY DEF IInv, Types, Closed, WorkSound
<1>2. call.op = "close" /\ call.s \in Sessions /\ call.s # 0 /\ work.slot \in Slots /\ slots[work.slot] = call.s
      /\ call.ok \in BOOLEAN
  <2>1. call.op # "none"
    BY <1>1 DEF Closed, CallSound, Idle
  <2>2. call.op # "start"
    BY <1>1 DEF CallSound
  <2>3. call.op \in {"none", "start", "close"} /\ call.ok \in BOOLEAN
    BY <1>1 DEF Types, Function
  <2>. QED
    BY <1>1, <2>1, <2>2, <2>3, Constants DEF CallSound
<1>3. CallSound'
  BY <1>1 DEF CallSound, Idle
<1>4. Idle \in Function
  BY DEF Idle, Function, Places
<1>5. /\ work' \in Operation /\ work'.op = work.op /\ work'.slot = work.slot /\ work'.settings = work.settings
      /\ work'.at = "go" /\ work'.s = 0 /\ work'.todo = work.todo
      /\ work'.ok => work.ok /\ call.ok
  <2> DEFINE ok == work.ok /\ call.ok
  <2>1. ok \in BOOLEAN /\ work' = [work EXCEPT !.at = "go", !.ok = ok]
    BY <1>1, <1>2 DEF Operation, Closed
  <2>2. ok => work.ok /\ call.ok
    OBVIOUS
  <2>. HIDE DEF ok
  <2>. QED
    BY <1>1, <2>1, <2>2 DEF Operation
<1>6. CASE ~call.ok
  <2>1. UNCHANGED <<browser, slots>>
    BY <1>6 DEF Closed
  <2>2. Types'
    BY <1>1, <1>4, <1>5, <2>1 DEF Types
  <2>3. (\A t \in Sessions : Sound(browser[t]))'
    BY <2>1 DEF IInv, Sound
  <2>4. Held'
    <3>1. ASSUME NEW t \in Sessions PROVE Holds(t)' <=> Holds(t)
      BY <1>1, <1>2, <1>5, <2>1, Constants DEF Holds, Idle
    <3>. QED
      BY <1>1, <2>1, <3>1 DEF Held
  <2>5. WorkSound'
    BY <1>1, <1>5, <1>6, <2>1 DEF WorkSound
  <2>. QED
    BY <1>3, <2>1, <2>2, <2>3, <2>4, <2>5 DEF IInv
<1>7. CASE call.ok
  <2>1. slots' = [slots EXCEPT ![work.slot] = 0] /\ Destroyed(call.s)
    BY <1>7 DEF Closed
  <2>2. PICK dir \in {"none", "torn"} :
          browser' = [browser EXCEPT ![call.s] = [NoSession EXCEPT !.dir = dir]]
    BY <2>1 DEF Destroyed
  <2> DEFINE b == [NoSession EXCEPT !.dir = dir]
  <2>3. b \in Browser /\ ~b.open /\ Sound(b)
    BY DestroyedSession
  <2>. HIDE DEF b
  <2>4. /\ browser' \in [Sessions -> Browser] /\ browser'[call.s] = b
        /\ \A t \in Sessions : t # call.s => browser'[t] = browser[t]
    BY <1>1, <1>2, <2>2, <2>3 DEF b
  <2>5. slots' \in [Slots -> Sessions \cup {0}]
        /\ \A i \in Slots : slots'[i] = IF i = work.slot THEN 0 ELSE slots[i]
    BY <1>1, <1>2, <2>1
  <2>6. Types'
    BY <1>1, <1>4, <1>5, <2>4, <2>5 DEF Types
  <2>7. (\A t \in Sessions : Sound(browser[t]))'
    BY <2>3, <2>4 DEF IInv, Sound
  <2>8. Held'
    <3>1. ASSUME NEW t \in Sessions PROVE (browser[t].open <=> Holds(t))'
      <4>1. t # 0 /\ (Holds(t)' <=> \E i \in Slots : slots'[i] = t)
        BY <1>1, <1>5, Constants DEF Holds, Idle
      <4>2. (\E i \in Slots : slots'[i] = t) <=> (\E i \in Slots : slots[i] = t) /\ t # call.s
        <5>1. \A i \in Slots : slots[i] = call.s => i = work.slot
          BY <1>1, <1>2 DEF Held
        <5>. QED
          BY <1>2, <2>5, <4>1, <5>1
      <4>3. Holds(t) /\ t # call.s <=> (\E i \in Slots : slots[i] = t) /\ t # call.s
        BY <1>1, <4>1 DEF Holds
      <4>. QED
        BY <1>1, <2>3, <2>4, <4>1, <4>2, <4>3 DEF Held
    <3>2. \A i, j \in Slots : slots'[i] # 0 /\ slots'[i] = slots'[j] => i = j
      BY <1>1, <2>5 DEF Held
    <3>. QED
      BY <3>1, <3>2 DEF Held
  <2>9. WorkSound'
    BY <1>1, <1>2, <1>5, <2>5 DEF WorkSound
  <2>10. \A i \in Slots : slots'[i] \in {0, slots[i]}
    BY <2>5
  <2>. QED
    BY <1>3, <2>6, <2>7, <2>8, <2>9, <2>10 DEF IInv
<1>. QED
  BY <1>2, <1>6, <1>7

-----------------------------------------------------------------------------
(* The specification                                                       *)

LEMMA InitInv == Init => IInv
<1>. SUFFICES ASSUME Init PROVE IInv
  OBVIOUS
<1>1. /\ browser = [s \in Sessions |-> NoSession] /\ call = Idle /\ slots = [i \in Slots |-> 0]
      /\ list = <<>> /\ cursor = 0 /\ ui = "home" /\ config \in Settings /\ work = Resting /\ closing = FALSE
  BY DEF Init, BrowserInit
<1>2. NoSession \in Browser /\ Sound(NoSession) /\ ~NoSession.open
  BY DEF NoSession, Browser, Sound
<1>3. Idle \in Function /\ Resting \in Operation
  BY RestingType DEF Idle, Function, Places
<1>4. list \in Seq(Slots) /\ cursor \in 0..Len(list)
  BY <1>1
<1>5. browser \in [Sessions -> Browser] /\ slots \in [Slots -> Sessions \cup {0}]
  BY <1>1, <1>2
<1>6. Types
  BY <1>1, <1>3, <1>4, <1>5 DEF Types
<1>7. (\A s \in Sessions : Sound(browser[s])) /\ Held
  BY <1>1, <1>2, Constants DEF Held, Holds, Idle, Resting
<1>8. CallSound
  BY <1>1 DEF CallSound, Idle
<1>9. WorkSound
  BY <1>1 DEF WorkSound, Resting
<1>. QED
  BY <1>6, <1>7, <1>8, <1>9 DEF IInv

LEMMA WorkerInv == IInv /\ Worker => IInv'
<1>1. IInv /\ (Fetch \/ Started \/ CloseNext \/ Closed) => IInv'
  BY FetchStep, StartedStep, CloseNextStep, ClosedStep
<1>2. ASSUME IInv, NEW s \in Sessions, UNCHANGED homeVars,
             Prepare(s) \/ Launch(s) \/ Command(s) \/ CommandFails(s)
             \/ Ask(s) \/ Wait(s) \/ Kill(s) \/ Killed(s) \/ Clean(s)
      PROVE  IInv'
  BY <1>2, PrepareStep, LaunchStep, CommandStep, CommandFailsStep, AskStep, WaitStep, KillStep, KilledStep,
     CleanStep
<1>. QED
  BY <1>1, <1>2 DEF Worker

LEMMA WindowInv == IInv /\ Window => IInv'
<1>1. IInv /\ Window /\ Working /\ CloseWindow => IInv'
  BY WishStep
<1>2. IInv /\ (NewSession \/ Update \/ CloseSelected \/ (~Working /\ CloseWindow) \/ Dialog \/ DialogEnds) => IInv'
  BY IdleWindow
<1>3. IInv /\ Select => IInv'
  BY WishStep
<1>4. IInv /\ (Poll \/ OperationDone) => IInv'
  BY PollStep, OperationDoneStep
<1>. QED
  BY <1>1, <1>2, <1>3, <1>4 DEF Window

LEMMA BrowsersInv == IInv /\ Browsers => IInv'
<1>1. ASSUME IInv, NEW s \in Sessions, UNCHANGED homeVars, Answer(s) \/ Event(s) \/ Spawn(s) \/ Exit(s)
      PROVE  IInv'
  BY <1>1, AnswerStep, EventStep, ProcsStep
<1>. QED
  BY <1>1 DEF Browsers

LEMMA NextInv == IInv /\ [Next]_vars => IInv'
<1>1. IInv /\ UNCHANGED vars => IInv'
  BY DEF IInv, Types, Sound, Held, Holds, CallSound, WorkSound, vars, browserVars, homeVars
<1>. QED
  BY <1>1, WorkerInv, WindowInv, BrowsersInv DEF Next, Gone

\* The invariant holds in every run.
THEOREM Invariant == Spec => []IInv
<1>. QED
  BY InitInv, NextInv, PTL DEF Spec

\* What the window, the worker and the sessions keep has its type.
THEOREM TypeCorrect == Spec => []TypeOK
<1>1. IInv => TypeOK
  <2>. SUFFICES ASSUME IInv PROVE TypeOK
    OBVIOUS
  <2>1. Types /\ browser \in [Sessions -> Browser] /\ call \in Function /\ work \in Operation /\ list \in Seq(Slots)
    BY DEF IInv, Types
  <2>2. BrowserTypeOK
    <3>1. \A s \in Sessions : browser[s].procs \subseteq Processes /\ browser[s].dir \in {"none", "whole", "torn"}
      BY <2>1 DEF Browser
    <3>. QED
      BY <2>1, <3>1 DEF BrowserTypeOK, Function
  <2>3. \A i \in DOMAIN list : list[i] \in Slots
    BY <2>1
  <2>. QED
    BY <2>1, <2>2, <2>3 DEF TypeOK, Types, Operation
<1>. QED
  BY <1>1, Invariant, PTL

\* However slow or faulty the browsers are and whatever the user does meanwhile,
\* no session is lost and none is used after its end (home_work, home_poll_sessions,
\* HOME_OPERATION_DONE), and the profile stays while a process runs in it
\* (bs_cleanup).
THEOREM NoneLost == Spec => []SessionsHeld
<1>1. IInv => SessionsHeld
  <2>. SUFFICES ASSUME IInv PROVE SessionsHeld
    OBVIOUS
  <2>1. Types /\ Held /\ WorkSound /\ CallSound /\ \A s \in Sessions : Sound(browser[s])
    BY DEF IInv
  <2>2. ProfileOutlivesBrowser
    BY <2>1 DEF ProfileOutlivesBrowser, Sound
  <2>3. NoBrowserLost
    <3>1. ASSUME NEW s \in Sessions, browser[s].procs # {} \/ browser[s].open
          PROVE  /\ ui # "gone"
                 /\ s \in {slots[i] : i \in Slots} \cup {call.s, work.s}
      <4>1. Holds(s)
        BY <2>1, <3>1 DEF Sound, Held
      <4>2. ui # "gone"
        BY <2>1, <4>1, Constants DEF Holds, WorkSound, CallSound, Resting, Idle
      <4>. QED
        BY <4>1, <4>2 DEF Holds
    <3>. QED
      BY <3>1 DEF NoBrowserLost
  <2>4. UsesOnlyOpen
    <3>1. ASSUME NEW s \in {call.s, work.s} \cup {slots[i] : i \in Slots}, s # 0 PROVE browser[s].open
      <4>1. s \in Sessions
        BY <2>1, <3>1 DEF Types, Function, Operation
      <4>. QED
        BY <2>1, <4>1 DEF Held, Holds
    <3>. QED
      BY <2>1, <3>1 DEF UsesOnlyOpen, Held
  <2>. QED
    BY <2>2, <2>3, <2>4 DEF SessionsHeld
<1>. QED
  BY <1>1, Invariant, PTL

\* A session starts with the settings it was asked for with, whatever was changed
\* in the window since (home_begin), and its extension has them before the first
\* page is opened (cx_browser_start).
THEOREM SettingsKept == Spec => []SettingsAsAsked
<1>1. IInv => SettingsAsAsked
  BY DEF IInv, CallSound, Sound, SettingsAsAsked, SettingsInPlace
<1>. QED
  BY <1>1, Invariant, PTL

\* The list is filled again by a poll or at the end of an operation.
LEMMA ListFilled ==
  ASSUME IInv, [Next]_vars, list' # list
  PROVE  Poll \/ OperationDone
  BY DEF Next, Worker, Window, Browsers, Gone, Fetch, Started, CloseNext, Closed, NewSession, Update,
         CloseSelected, Select, CloseWindow, Dialog, DialogEnds, vars, homeVars

\* The selection stays with its session however the list moves (home_refresh_list):
\* "close the selected session" closes the one the user has chosen.
THEOREM SelectionStays == Spec => SelectionKept
<1>1. ASSUME IInv, [Next]_vars, list' # list, Selected # 0, Selected \in {slots'[i] : i \in Slots}
      PROVE  Selected' = Selected
  <2>1. /\ Types /\ Held /\ slots' \in [Slots -> Sessions \cup {0}] /\ Refresh(slots')
        /\ \/ \A i \in Slots : slots'[i] \in {0, slots[i]}
           \/ \A i \in Slots : slots'[i] = slots[i] \/ (slots[i] = 0 /\ \A j \in Slots : slots[j] # slots'[i])
    <3>1. Poll \/ OperationDone
      BY <1>1, ListFilled
    <3>2. IInv'
      BY <1>1, NextInv
    <3>3. slots' \in [Slots -> Sessions \cup {0}]
      BY <3>2 DEF IInv, Types
    <3>4. Refresh(slots')
      BY <3>1 DEF Poll, OperationDone
    <3>. QED
      BY <1>1, <3>1, <3>3, <3>4, PollStep, OperationDoneStep DEF IInv
  <2>2. cursor # 0 /\ cursor \in DOMAIN list /\ list[cursor] \in Slots /\ Selected = slots[list[cursor]]
    <3>1. cursor # 0
      BY <1>1 DEF Selected
    <3>2. list \in Seq(Slots) /\ cursor \in 0..Len(list)
      BY <2>1 DEF Types
    <3>. QED
      BY <3>1, <3>2 DEF Selected
  <2>3. PICK j \in Slots : slots'[j] = slots[list[cursor]]
    BY <1>1, <2>2
  <2>4. slots[j] = slots[list[cursor]]
    BY <1>1, <2>1, <2>2, <2>3
  <2>5. j = list[cursor]
    BY <1>1, <2>1, <2>2, <2>4 DEF Held
  <2>6. list[cursor] \in Full(slots')
    BY <1>1, <2>1, <2>2, <2>3, <2>5 DEF Full
  <2>7. cursor' \in DOMAIN list' /\ list'[cursor'] = list[cursor] /\ list' \in Seq(Slots)
    BY <2>1, <2>2, <2>6, RefreshList
  <2>8. cursor' # 0
    BY <2>7
  <2>. QED
    BY <2>2, <2>3, <2>5, <2>7, <2>8 DEF Selected
<1>2. IInv /\ [Next]_vars =>
        [list' # list /\ Selected # 0 /\ Selected \in {slots'[i] : i \in Slots} => Selected' = Selected]_vars
  BY <1>1
<1>. QED
  BY <1>2, Invariant, PTL DEF Spec, SelectionKept
=============================================================================
