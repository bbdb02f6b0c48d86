--------------------------- MODULE OwnedProcesses ---------------------------
(***************************************************************************)
(* The processes the host takes for its own (process.c).  The host keeps a *)
(* table of the clients it launched; before it trusts a listener or ends a *)
(* client it walks a snapshot of all processes and adopts the children of  *)
(* those it knows.  Windows gives the number of a process that ended to a  *)
(* new one, so the table holds an open handle, with times of creation and  *)
(* exit, for each process seen.  Nothing holds a process of the snapshot   *)
(* until it is opened by its number: one that ends in between and leaves   *)
(* its number to another is adopted in the place of the one listed.        *)
(*                                                                         *)
(* A process is its number and the time it was born; "tree" is what really *)
(* happened: the launch it descends from.                                  *)
(***************************************************************************)
EXTENDS Integers, Sequences, FiniteSets, SequencesExt

CONSTANTS
    Pids,          \* process numbers
    Slots,         \* PROC_ROOT_LIMIT slots
    MaxSeen,       \* PROC_SEEN_LIMIT
    MaxTime        \* bound: after this many births and exits none is born

VARIABLES
    live,          \* the processes that run
    clock,
    roots,         \* roots: the table of owned launches
    call,          \* the call that has the lock, and where it is
    ended          \* history: processes the host ended, and their entries

None == [born |-> 0, parent |-> 0, tree |-> 0, client |-> FALSE]
Runs(p) == live[p] # None
Now == clock + 1

\* SeenProcess: its handle tells when the process exits (0: it runs).  History:
\* "listed", that it is the process that the list meant, and so are those it
\* was found through.
Seen(p, born, listed) == [pid |-> p, born |-> born, died |-> 0, listed |-> listed]
FreeSlot == [pid |-> 0, seen |-> <<>>]
Idle == [name |-> "idle", slot |-> 0, at |-> "", nodes |-> {}, left |-> {}, changed |-> FALSE, found |-> 0]

ProcTypeOK ==
    /\ live \in [Pids -> [born : 0..MaxTime, parent : Pids \cup {0}, tree : 0..MaxTime, client : BOOLEAN]]
    /\ clock \in 0..(MaxTime + Cardinality(Pids))
    /\ \A s \in Slots : /\ roots[s].pid \in Pids \cup {0} /\ Len(roots[s].seen) <= MaxSeen
                        /\ roots[s].seen # <<>> => roots[s].seen[1].pid = roots[s].pid
    /\ call.name \in {"idle", "launch", "owner", "stop"}

ProcInit ==
    /\ live = [p \in Pids |-> None] /\ clock = 0
    /\ roots = [s \in Slots |-> FreeSlot]
    /\ call = Idle /\ ended = {}

-----------------------------------------------------------------------------
(* The machine                                                             *)

Born(p, process) == live' = [live EXCEPT ![p] = process] /\ clock' = Now

\* A process starts another one, or the user starts a client.
Spawn ==
    /\ clock < MaxTime
    /\ \E p \in Pids, parent \in Pids \cup {0}, client \in BOOLEAN :
        /\ ~Runs(p) /\ (parent # 0 => Runs(parent)) /\ (client => parent = 0)
        /\ Born(p, [born |-> Now, parent |-> parent, client |-> client,
                    tree |-> IF parent = 0 THEN 0 ELSE live[parent].tree])
    /\ UNCHANGED <<roots, call, ended>>

\* The handle of a process that ends keeps its time of exit.
Marked(p) ==
    [s \in Slots |-> [roots[s] EXCEPT !.seen = [i \in DOMAIN @ |->
        IF @[i].pid = p /\ @[i].born = live[p].born /\ @[i].died = 0 THEN [@[i] EXCEPT !.died = Now] ELSE @[i]]]]
Gone(p) ==
    live' = [live EXCEPT ![p] = None] /\ clock' = Now

ProcessExits ==
    /\ \E p \in Pids : Runs(p) /\ Gone(p) /\ roots' = Marked(p)
    /\ UNCHANGED <<call, ended>>

-----------------------------------------------------------------------------
(* proc_launch_core                                                        *)

\* p_instances: the client's own path is not running
Instances == {p \in Pids : Runs(p) /\ live[p].client}

LaunchCheck ==
    /\ call = Idle /\ Instances = {}
    /\ call' = [Idle EXCEPT !.name = "launch"]
    /\ UNCHANGED <<live, clock, roots, ended>>

\* A slot without a process is taken; there may be none.  If the ownership
\* cannot be kept the new process is ended by its handle.
LaunchCreate ==
    /\ call.name = "launch" /\ call' = Idle
    /\ \/ /\ clock < MaxTime
          /\ \E s \in Slots, p \in Pids :
               /\ roots[s].pid = 0 /\ \A r \in Slots : r < s => roots[r].pid # 0
               /\ ~Runs(p)
               /\ Born(p, [born |-> Now, parent |-> 0, tree |-> Now, client |-> TRUE])
               /\ roots' = [roots EXCEPT ![s] = [pid |-> p, seen |-> <<Seen(p, Now, TRUE)>>]]
       \/ UNCHANGED <<live, clock, roots>>
    /\ UNCHANGED ended

-----------------------------------------------------------------------------
(* p_refresh                                                               *)

\* p_known
Entries(s, p, born) == {i \in DOMAIN roots[s].seen : roots[s].seen[i].pid = p /\ roots[s].seen[i].born = born}
Known(s, p, born) == Entries(s, p, born) # {}

\* p_parent_owned: the parent that ran when the child was born was seen
Owners(s, parent, born) ==
    {i \in DOMAIN roots[s].seen :
        LET seen == roots[s].seen[i] IN
        seen.pid = parent /\ born >= seen.born /\ (seen.died = 0 \/ born <= seen.died)}
ParentOwned(s, parent, born) == Owners(s, parent, born) # {}

Snapshot == {[pid |-> p, parent |-> live[p].parent] : p \in {q \in Pids : Runs(q)}}

\* The lock is taken for a root that is in the table, and the processes listed.
Begin(name, s, found) ==
    call' = [Idle EXCEPT !.name = name, !.slot = s, !.at = "scan", !.nodes = Snapshot, !.left = Snapshot, !.found = found]

\* A process listens on the debug port: which, the list of listeners said before.
OwnerBegin ==
    /\ call = Idle
    /\ \E s \in Slots, found \in Pids : roots[s].pid # 0 /\ Runs(found) /\ Begin("owner", s, found)
    /\ UNCHANGED <<live, clock, roots, ended>>

StopBegin ==
    /\ call = Idle
    /\ \E s \in Slots : roots[s].pid # 0 /\ Begin("stop", s, 0)
    /\ UNCHANGED <<live, clock, roots, ended>>

\* History: what has the number n.pid now is the child that the list tells of, of
\* a parent that is itself such a child.
IsListed(s, n) ==
    live[n.pid].parent = n.parent
    /\ \A i \in Owners(s, n.parent, live[n.pid].born) : roots[s].seen[i].listed

\* One process of the list: whatever has its number now is opened, if it may be,
\* and adopted as a child of the parent the list says, if that ran when it was
\* born.  A full table ends the walk, and what listens is not verified then.
Visit ==
    /\ call.at = "scan"
    /\ \E n \in call.left :
        LET s == call.slot
            child == /\ Runs(n.pid) /\ ~Known(s, n.pid, live[n.pid].born)
                     /\ ParentOwned(s, n.parent, live[n.pid].born)
            full == Len(roots[s].seen) = MaxSeen
            rest == [call EXCEPT !.left = @ \ {n}]
        IN \/ UNCHANGED roots /\ call' = rest
           \/ /\ child /\ ~full /\ call' = [rest EXCEPT !.changed = TRUE]
              /\ roots' = [roots EXCEPT ![s].seen = Append(@, Seen(n.pid, live[n.pid].born, IsListed(s, n)))]
           \/ /\ child /\ full /\ UNCHANGED roots
              /\ call' = IF call.name = "owner" THEN Idle ELSE [call EXCEPT !.at = "scanned", !.nodes = {}, !.left = {}, !.changed = FALSE]
    /\ UNCHANGED <<live, clock, ended>>

\* Another pass while the last one found a child
Pass ==
    /\ call.at = "scan" /\ call.left = {}
    /\ call' = IF call.changed THEN [call EXCEPT !.left = call.nodes, !.changed = FALSE]
               ELSE [call EXCEPT !.at = "scanned", !.nodes = {}]
    /\ UNCHANGED <<live, clock, roots, ended>>

-----------------------------------------------------------------------------
(* proc_port_owner_ex and proc_stop_owned, after the refresh               *)

Verified == Runs(call.found) /\ Known(call.slot, call.found, live[call.found].born)
OwnerEnd ==
    /\ call.name = "owner" /\ call.at = "scanned" /\ call' = Idle
    /\ UNCHANGED <<live, clock, roots, ended>>

\* Defect: a process is ended by its number
Same_number(p, seen) == TRUE
\* the process that has the number is the one that was seen
Same(p, seen) == live[p].born = seen.born

\* The processes seen are ended, the last one first, and the slot is free again.
StopOne ==
    /\ call.name = "stop" /\ call.at = "scanned"
    /\ LET s == call.slot
           seen == roots[s].seen
           last == seen[Len(seen)]
       IN IF seen = <<>>
          THEN /\ roots' = [roots EXCEPT ![s] = FreeSlot] /\ call' = Idle
               /\ UNCHANGED <<live, clock, ended>>
          ELSE /\ call' = call
               /\ IF Runs(last.pid) /\ Same(last.pid, last)
                  THEN /\ Gone(last.pid)
                       /\ ended' = ended \cup {[tree |-> live[last.pid].tree, launch |-> seen[1].born, listed |-> last.listed]}
                       /\ roots' = [Marked(last.pid) EXCEPT ![s].seen = Front(@)]
                  ELSE /\ roots' = [roots EXCEPT ![s].seen = Front(@)]
                       /\ UNCHANGED <<live, clock, ended>>

\* proc_alive of an owned client
Alive(s) == roots[s].seen[1].died = 0

-----------------------------------------------------------------------------
ProcNext ==
    \/ Spawn \/ ProcessExits \/ LaunchCheck \/ LaunchCreate
    \/ OwnerBegin \/ StopBegin \/ Visit \/ Pass \/ OwnerEnd \/ StopOne

\* What is ended descends from the launch that is stopped, whatever numbers have
\* been given away since it was seen.  The exception is a process adopted under a
\* number that another gave up within the very scan, and what was found through it.
EndsOnlyDescendants == \A e \in ended : e.listed => e.tree = e.launch

\* A listener that is verified descends from the client this host launched, with
\* the same exception.
VerifiedDescends ==
    call.name = "owner" /\ call.at = "scanned" /\ Verified =>
        \A i \in Entries(call.slot, call.found, live[call.found].born) :
            roots[call.slot].seen[i].listed => live[call.found].tree = roots[call.slot].seen[1].born

\* proc_alive means the client that was launched, not the process that has its number now.
AliveIsTheClient ==
    \A s \in Slots : roots[s].pid # 0 /\ call.name # "stop" =>
        (Alive(s) <=> live[roots[s].pid].born = roots[s].seen[1].born)

=============================================================================
