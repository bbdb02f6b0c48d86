----------------------------- MODULE Discovery -----------------------------
(***************************************************************************)
(* The search for installed clients (discovery.c, discovery-cache.inc): a  *)
(* shallow walk over the usual places, a walk over the whole disk when     *)
(* that finds nothing or is asked for, and a file that remembers what the  *)
(* shallow walk found for five minutes.  Clients are installed, replaced,  *)
(* removed and locked while it walks, and between two runs.                *)
(*                                                                         *)
(* A place is a directory.  Found is a function from places to machines:   *)
(* the order of the list is left out.                                      *)
(***************************************************************************)
EXTENDS Integers, Sequences, FiniteSets

CONSTANTS
    CommonOrder,  \* the places of the shallow walk, in its order
    FullOrder,    \* those of the whole disk
    MaxFound,     \* CX_DISCOVERY_MAX_CANDIDATES
    MaxChanges,   \* bound: changes of the disk
    MaxErrors     \* bound: directories that cannot be read

VARIABLES
    disk,         \* the client at a place: machine and identity of the file
    locked,       \* places whose client cannot be opened
    os32,         \* the system runs 32-bit programs only
    cache,        \* native-scan-cache-v1.bin
    scan,         \* D_CONTEXT and the options of the call
    result,       \* CX_DISCOVERY_RESULT
    touched,      \* history: places that changed or were locked during the scan
    sinceFill,    \* history: the same, since the scan that filled the cache began
    changes, errors

PlacesOf(order) == {order[i] : i \in 1..Len(order)}
Places == PlacesOf(CommonOrder) \cup PlacesOf(FullOrder)
NoFile == [machine |-> "none", stamp |-> 0]
NoCache == [found |-> [p \in {} |-> NoFile], fresh |-> FALSE]
\* d_result_reset
NoResult == [found |-> [p \in {} |-> "x86"], commonScanned |-> FALSE, fallbackScanned |-> FALSE,
             stoppedOnX86 |-> FALSE, truncated |-> FALSE, cacheHit |-> FALSE, cancelled |-> FALSE]
NoScan == [at |-> "idle", mode |-> "common", enumerateAll |-> FALSE, cached |-> FALSE,
           cancellable |-> FALSE, i |-> 1, complete |-> TRUE, stopOnX86 |-> FALSE, stopped |-> FALSE]

Runs(machine) == machine # "none" /\ ~(os32 /\ machine = "x64")
Listed == DOMAIN result.found

DiscoveryTypeOK ==
    /\ disk \in [Places -> [machine : {"none", "x86", "x64"}, stamp : 0..MaxChanges]]
    /\ Listed \subseteq Places /\ Cardinality(Listed) <= MaxFound
    /\ scan.at \in {"idle", "common", "full", "done"} /\ changes \in 0..MaxChanges

DiscoveryInit ==
    /\ disk \in [Places -> {NoFile, [machine |-> "x86", stamp |-> 0], [machine |-> "x64", stamp |-> 0]}]
    /\ locked = {} /\ os32 \in BOOLEAN
    /\ cache = NoCache /\ scan = NoScan /\ result = NoResult 
    /\ touched = {} /\ sinceFill = {} /\ changes = 0 /\ errors = 0

-----------------------------------------------------------------------------
(* One directory                                                           *)

\* d_add_file, d_add_candidate: a file that cannot be opened is no candidate
Added(r, p) ==
    IF ~Runs(disk[p].machine) \/ p \in locked \/ p \in DOMAIN r.found THEN r
    ELSE IF Cardinality(DOMAIN r.found) >= MaxFound THEN [r EXCEPT !.truncated = TRUE]
    ELSE [r EXCEPT !.found = [q \in DOMAIN @ \cup {p} |-> IF q = p THEN disk[p].machine ELSE @[q]],
                   !.stoppedOnX86 = @ \/ (scan.stopOnX86 /\ disk[p].machine = "x86")]

Order == IF scan.at = "common" THEN CommonOrder ELSE FullOrder
Walking == scan.at \in {"common", "full"} /\ scan.i <= Len(Order) /\ ~scan.stopped

\* Defect: a directory that cannot be read is passed over
Unreadable_ignored ==
    Walking /\ errors < MaxErrors /\ errors' = errors + 1 /\ scan' = [scan EXCEPT !.i = @ + 1] /\ UNCHANGED result

\* d_entries_read, d_visit: an error other than not found
Unreadable ==
    /\ Walking /\ errors < MaxErrors /\ errors' = errors + 1
    /\ scan' = [scan EXCEPT !.i = @ + 1, !.complete = FALSE]
    /\ UNCHANGED result

\* d_visit, without an error
Visit ==
    /\ Walking
    /\ result' = Added(result, Order[scan.i])
    /\ scan' = [scan EXCEPT !.i = @ + 1, !.stopped = result'.stoppedOnX86]
    /\ UNCHANGED errors

\* d_progress_cancelled: the user cancelled; looked at before every directory
CancelSeen ==
    /\ Walking /\ scan.cancellable
    /\ scan' = [scan EXCEPT !.stopped = TRUE] /\ result' = [result EXCEPT !.cancelled = TRUE]
    /\ UNCHANGED errors

-----------------------------------------------------------------------------
(* cx_discovery_scan                                                       *)

\* d_cache_write gives up when a client has gone meanwhile
Writable(r) ==
    /\ DOMAIN r.found # {} /\ ~r.truncated /\ ~r.fallbackScanned /\ ~r.stoppedOnX86
    /\ \A p \in DOMAIN r.found : disk[p].machine # "none"

\* Defect: what an interrupted walk found is remembered
Remember_partial ==
    IF scan.cached /\ Writable(result)
    THEN /\ cache' = [found |-> [p \in Listed |-> [machine |-> result.found[p], stamp |-> disk[p].stamp]], fresh |-> TRUE]
         /\ sinceFill' = touched
    ELSE UNCHANGED <<cache, sinceFill>>

\* The file identity that is stored is the one of this moment, the machine the
\* one that was read during the walk.
Remember ==
    IF scan.complete /\ scan.cached /\ Writable(result)
    THEN /\ cache' = [found |-> [p \in Listed |-> [machine |-> result.found[p], stamp |-> disk[p].stamp]], fresh |-> TRUE]
         /\ sinceFill' = touched
    ELSE UNCHANGED <<cache, sinceFill>>

\* d_cache_read: every client of the cache is still the same file, and runs here
Trusted ==
    /\ cache.fresh /\ DOMAIN cache.found # {}
    /\ \A p \in DOMAIN cache.found : p \notin locked /\ disk[p] = cache.found[p] /\ Runs(disk[p].machine)

\* The host's search (host.c): its mode and switches; the picker's is the whole
\* disk, everything listed, no cache, and the only one the user can cancel.
Start ==
    /\ scan.at \in {"idle", "done"}
    /\ \E mode \in {"common", "fallback", "all"}, enumerate, cached, rescan, picker \in BOOLEAN :
        /\ picker => mode = "all" /\ enumerate /\ ~cached
        /\ cached => mode # "all"
        /\ rescan => cached
        /\ IF cached /\ ~rescan /\ Trusted
           THEN /\ result' = [NoResult EXCEPT !.found = [p \in DOMAIN cache.found |-> cache.found[p].machine],
                                             !.commonScanned = TRUE, !.cacheHit = TRUE]
                /\ scan' = [NoScan EXCEPT !.at = "done", !.mode = mode]
           ELSE /\ result' = [NoResult EXCEPT !.commonScanned = mode # "all", !.fallbackScanned = mode = "all"]
                /\ scan' = [NoScan EXCEPT !.at = IF mode = "all" THEN "full" ELSE "common", !.mode = mode,
                              !.enumerateAll = enumerate, !.cached = cached, !.cancellable = picker]
    /\ touched' = locked
    /\ UNCHANGED <<disk, locked, os32, cache, sinceFill, changes, errors>>

Step == (Visit \/ Unreadable \/ CancelSeen)
    /\ UNCHANGED <<disk, locked, os32, cache, touched, sinceFill, changes>>

CommonEnds ==
    /\ scan.at = "common" /\ ~Walking
    /\ \/ /\ Listed # {} /\ Remember
          /\ scan' = [scan EXCEPT !.at = "done"] /\ UNCHANGED result
       \/ /\ Listed = {} /\ scan.mode = "common"
          /\ scan' = [scan EXCEPT !.at = "done"] /\ UNCHANGED <<result, cache, sinceFill>>
       \/ /\ Listed = {} /\ scan.mode = "fallback"
          /\ scan' = [scan EXCEPT !.at = "full", !.i = 1, !.stopped = FALSE,
                         !.stopOnX86 = ~scan.enumerateAll]
          /\ result' = [NoResult EXCEPT !.commonScanned = TRUE, !.fallbackScanned = TRUE]
          /\ UNCHANGED <<cache, sinceFill>>
    /\ UNCHANGED <<disk, locked, os32, touched, changes, errors>>

FullEnds ==
    /\ scan.at = "full" /\ ~Walking
    /\ scan' = [scan EXCEPT !.at = "done"]
    /\ UNCHANGED <<disk, locked, os32, cache, result, touched, sinceFill, changes, errors>>

-----------------------------------------------------------------------------
(* The others                                                              *)

Touch(p) == touched' = touched \cup {p} /\ sinceFill' = sinceFill \cup {p}

\* A client is installed, replaced or removed
Change(p) ==
    /\ changes < MaxChanges /\ changes' = changes + 1
    /\ \E m \in {"none", "x86", "x64"} \ (IF disk[p].machine = "none" THEN {"none"} ELSE {}) :
        disk' = [disk EXCEPT ![p] = IF m = "none" THEN NoFile ELSE [machine |-> m, stamp |-> changes + 1]]
    /\ Touch(p) /\ UNCHANGED <<locked, os32, cache, scan, result, errors>>

\* Another program holds the file, or lets it go
Lock(p) ==
    /\ changes < MaxChanges /\ changes' = changes + 1
    /\ locked' = IF p \in locked THEN locked \ {p} ELSE locked \cup {p}
    /\ Touch(p) /\ UNCHANGED <<disk, os32, cache, scan, result, errors>>

\* Five minutes pass, or the roots of the search are others
Expire ==
    /\ cache.fresh /\ cache' = [cache EXCEPT !.fresh = FALSE]
    /\ UNCHANGED <<disk, locked, os32, scan, result, touched, sinceFill, changes, errors>>

DiscoveryNext ==
    \/ Start \/ Step \/ CommonEnds \/ FullEnds \/ Expire
    \/ \E p \in Places : Change(p) \/ Lock(p)

-----------------------------------------------------------------------------

Scope == PlacesOf(IF result.fallbackScanned THEN FullOrder ELSE CommonOrder)

\* A search that was not cut short lists every client that was there, the same
\* and unlocked, from its beginning to its end; when the host then says that
\* there is no client, none is on the disk.
NothingMissed ==
    scan.at = "done" /\ ~result.cacheHit /\ scan.complete
        /\ ~result.truncated /\ ~result.cancelled /\ ~result.stoppedOnX86
    => /\ {p \in Scope \ touched : Runs(disk[p].machine)} \subseteq Listed
       /\ Listed = {} /\ scan.mode # "common" => \A p \in PlacesOf(FullOrder) \ touched : ~Runs(disk[p].machine)

\* The cache never stands for more than it knows: a list taken from it holds
\* every client of the usual places that nobody touched since the walk that
\* filled it began.
HitComplete ==
    scan.at = "done" /\ result.cacheHit
    => {p \in PlacesOf(CommonOrder) \ sinceFill : Runs(disk[p].machine)} \subseteq Listed

\* What a search lists runs on this system and is what was there, wherever
\* nobody touched the place since the search began: also when the list is five
\* minutes old.
ListTrue ==
    scan.at = "done" => \A p \in Listed : Runs(result.found[p]) /\ (p \in touched \/ disk[p].machine = result.found[p])

=============================================================================
