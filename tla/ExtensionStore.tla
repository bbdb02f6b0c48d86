--------------------------- MODULE ExtensionStore ---------------------------
(***************************************************************************)
(* Where the extension package of a session comes from (adapter-account.c, *)
(* and home_work of home.c): the configured service, or a cache file that  *)
(* all host processes of the user share, whatever service each of them is  *)
(* set to.  Services publish new releases at any time; a host may end at   *)
(* any step; the cache file is damaged, held open or removed by others.    *)
(*                                                                         *)
(* A package is the service that published it, its release and whether it  *)
(* passes cx_browser_extension_verify; its hash stands for all of it.      *)
(***************************************************************************)
EXTENDS Naturals

CONSTANTS
    Hosts,
    Services,       \* what cx_extension_service_identity tells apart
    MaxTroubles     \* bound: publications, damages and faults

VARIABLES
    latest,         \* what each service publishes
    cache,          \* <source>.crxcache
    op,             \* the operation of each host
    troubles

Package == [by : Services, release : 0..MaxTroubles, sound : BOOLEAN]
None    == [by |-> 0, release |-> 0, sound |-> FALSE]
NoFile  == [state |-> "none", identity |-> 0, package |-> None]
File    == [state : {"part", "whole"}, identity : Services, package : Package]
Idle    == [at |-> "idle", service |-> 0, force |-> FALSE, again |-> FALSE, disk |-> TRUE, saw |-> 0,
            advertised |-> None, got |-> None, from |-> "none"]

StoreTypeOK ==
    /\ latest \in [Services -> Package]
    /\ cache \in File \cup {NoFile}
    /\ \A h \in Hosts : op[h].got \in Package \cup {None} /\ op[h].service \in Services \cup {0}

StoreInit ==
    /\ latest \in {f \in [Services -> Package] : \A s \in Services : f[s].by = s /\ f[s].release = 0}
    /\ cache = NoFile
    /\ op = [h \in Hosts |-> Idle]
    /\ troubles = 0

Trouble == troubles < MaxTroubles /\ troubles' = troubles + 1
At(h, place) == op' = [op EXCEPT ![h].at = place]
Fails(h) == At(h, "failed")

-----------------------------------------------------------------------------
(* home_work: the operation                                                *)

\* A session is opened, or HOME_UPDATE checks what is published.
Begin(h) ==
    /\ op[h].at = "idle"
    /\ \E s \in Services, update \in BOOLEAN, disk \in BOOLEAN :
        op' = [op EXCEPT ![h] = [Idle EXCEPT !.at = "fetch", !.service = s, !.force = update,
                                             !.again = update, !.disk = disk,
                                             !.saw = IF update THEN latest[s].release ELSE 0]]
    /\ UNCHANGED <<latest, cache, troubles>>

\* Defect: what the file was fetched from is not looked at
Valid_any(file, service) == file.state = "whole"

\* cx_cache_header_valid and the hash of the package
Valid(file, service) == file.state = "whole" /\ file.identity = service

MayUseCache(h) == op[h].disk /\ ~op[h].force

\* cx_adapter_extension_fetch_cached: the cache, when it may be used and is valid
Fetch(h) ==
    /\ op[h].at = "fetch"
    /\ op' = [op EXCEPT ![h] = IF MayUseCache(h) /\ Valid(cache, op[h].service)
                               THEN [@ EXCEPT !.at = "verify", !.got = cache.package, !.from = "cache"]
                               ELSE [@ EXCEPT !.at = "latest"]]
    /\ UNCHANGED <<latest, cache, troubles>>

\* cx_adapter_extension_fetch_online: what is published ...
Latest(h) ==
    /\ op[h].at = "latest"
    /\ \/ op' = [op EXCEPT ![h].at = "download", ![h].advertised = latest[op[h].service]] /\ UNCHANGED troubles
       \/ Trouble /\ Fails(h)
    /\ UNCHANGED <<latest, cache>>

\* ... and the package with the advertised hash.  One that has been replaced
\* meanwhile may be gone; anything else that comes is refused.
Download(h) ==
    /\ op[h].at = "download"
    /\ \/ op' = [op EXCEPT ![h].at = IF op[h].disk THEN "write" ELSE "verify", ![h].got = op[h].advertised, ![h].advertised = None, ![h].from = "online"]
          /\ UNCHANGED troubles
       \/ op[h].advertised # latest[op[h].service] /\ Fails(h) /\ UNCHANGED troubles
       \/ Trouble /\ Fails(h)
    /\ UNCHANGED <<latest, cache>>

\* One that does not pass is fetched once more, from the service.
Verify(h) ==
    /\ op[h].at = "verify"
    /\ IF op[h].got.sound THEN At(h, "used")
       ELSE IF op[h].again THEN At(h, "bad")
       ELSE op' = [op EXCEPT ![h].at = "fetch", ![h].force = TRUE, ![h].again = TRUE]
    /\ UNCHANGED <<latest, cache, troubles>>

End(h) ==
    /\ op[h].at \in {"used", "bad", "failed"}
    /\ op' = [op EXCEPT ![h] = Idle]
    /\ UNCHANGED <<latest, cache, troubles>>

-----------------------------------------------------------------------------
(* cx_extension_cache_write: nothing that goes wrong in it is reported     *)

\* Header and package are written to a temporary file of this process's own and
\* flushed; what cannot be written whole is deleted.
Write(h) ==
    /\ op[h].at = "write"
    /\ \/ At(h, "move") /\ UNCHANGED troubles
       \/ Trouble /\ At(h, "verify")
    /\ UNCHANGED <<latest, cache>>

\* It takes the place of the cache file, which others may hold open.
Move(h) ==
    /\ op[h].at = "move"
    /\ \/ /\ cache' = [state |-> "whole", identity |-> op[h].service, package |-> op[h].got]
          /\ UNCHANGED troubles
       \/ Trouble /\ UNCHANGED cache
    /\ At(h, "verify")
    /\ UNCHANGED latest

-----------------------------------------------------------------------------
(* The others                                                              *)

\* A host process ends; its temporary file stays behind, and no one reads it.
Crash(h) ==
    /\ op[h].at \notin {"idle", "used", "bad", "failed"} /\ Trouble
    /\ op' = [op EXCEPT ![h] = Idle]
    /\ UNCHANGED <<latest, cache>>

Publish ==
    /\ Trouble
    /\ \E s \in Services, sound \in BOOLEAN :
        latest' = [latest EXCEPT ![s] = [by |-> s, release |-> @.release + 1, sound |-> sound]]
    /\ UNCHANGED <<cache, op>>

Damage ==
    /\ Trouble /\ cache # NoFile
    /\ cache' \in {NoFile, [cache EXCEPT !.state = "part"]}
    /\ UNCHANGED <<latest, op>>

StoreNext ==
    \/ \E h \in Hosts : \/ Begin(h) \/ Fetch(h) \/ Latest(h) \/ Download(h) \/ Verify(h) \/ End(h)
                        \/ Write(h) \/ Move(h) \/ Crash(h)
    \/ Publish \/ Damage

-----------------------------------------------------------------------------
\* A session gets a package of the service the host is set to, whatever the
\* other hosts of the user are set to and have put into the shared cache.
UsedIsOurs == \A h \in Hosts : op[h].at = "used" => op[h].got.sound /\ op[h].got.by = op[h].service

\* The user hears of a bad package only when the service publishes it: one in
\* the cache is replaced.
BadCacheHeals == \A h \in Hosts : op[h].at \in {"bad", "failed"} /\ op[h].got # None /\ ~op[h].got.sound
                     => op[h].from = "online" \/ op[h].force

\* An update reports what was published while it ran, not what was cached.
UpdateIsFresh == \A h \in Hosts : op[h].at = "used" /\ op[h].force => op[h].got.release >= op[h].saw
=============================================================================
