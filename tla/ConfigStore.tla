----------------------------- MODULE ConfigStore -----------------------------
(***************************************************************************)
(* The configuration file that hosts write page settings back to           *)
(* (config-store.c).  A host reads the file, puts a patch over its         *)
(* settings, writes the whole to a temporary file of its own and moves it  *)
(* over the old one.  Others read the file meanwhile, other hosts write    *)
(* it, a disk is full, a host ends.                                        *)
(*                                                                         *)
(* A document is its other roots and its settings, both functions.         *)
(***************************************************************************)
EXTENDS Naturals, Functions, Layers

CONSTANTS
    Hosts,
    SharedKeys,      \* settings that shared_key lets through
    OtherKeys,       \* settings that it does not
    MaxFaults

VARIABLES
    file,            \* what the path names
    readers,         \* whether someone else holds it open
    op,              \* cx_config_patch_file of each host
    temporary,       \* the temporary files there are: whose, and how much of what
    first,           \* history: the file as it was at the start
    touched,         \* history: the settings that patches have reached the file with
    faults

Contents == {"old", "new"}
NoSettings == [k \in {} |-> "old"]
NoFile == [state |-> "none", roots |-> NoSettings, settings |-> NoSettings]
Document(roots, settings) == [state |-> "whole", roots |-> roots, settings |-> settings]
Idle == [at |-> "idle", patch |-> NoSettings, read |-> NoFile]
Written == Document([port |-> "old"], [k \in SharedKeys \cup OtherKeys |-> "old"])

ConfigTypeOK ==
    /\ file.state \in {"none", "whole", "part"}
    /\ \A h \in Hosts : op[h].at \in {"idle", "read", "merge", "write", "flush", "move"}
    /\ DOMAIN temporary \subseteq Hosts /\ touched \subseteq SharedKeys

ConfigInit ==
    /\ file \in {NoFile, Written} /\ first = file
    /\ readers = FALSE /\ op = [h \in Hosts |-> Idle]
    /\ temporary = [h \in {} |-> NoFile] /\ touched = {} /\ faults = 0

Fault == faults < MaxFaults /\ faults' = faults + 1
At(h, place) == op' = [op EXCEPT ![h].at = place]
\* done: what is left of the temporary file is deleted
Fails(h) ==
    /\ op' = [op EXCEPT ![h] = Idle]
    /\ temporary' = Restrict(temporary, DOMAIN temporary \ {h})

\* add_object with sharedOnly
Shared(settings) == Restrict(settings, DOMAIN settings \cap SharedKeys)

-----------------------------------------------------------------------------
\* A patch without a shared key leaves the file alone.
Begin(h) ==
    /\ op[h].at = "idle"
    /\ \E keys \in SUBSET SharedKeys \ {{}}, v \in Contents :
        op' = [op EXCEPT ![h] = [Idle EXCEPT !.at = "read", !.patch = [k \in keys |-> v]]]
    /\ UNCHANGED <<file, readers, temporary, first, touched, faults>>

\* The file is read whole while no one can write it; one that is missing is
\* empty, and one that cannot be parsed is left as it is.
Read(h) ==
    /\ op[h].at = "read"
    /\ \/ file.state # "part" /\ op' = [op EXCEPT ![h].at = "merge", ![h].read = file] /\ UNCHANGED faults
       \/ file.state = "part" /\ op' = [op EXCEPT ![h] = Idle] /\ UNCHANGED faults
       \/ Fault /\ op' = [op EXCEPT ![h] = Idle]
    /\ UNCHANGED <<file, readers, temporary, first, touched>>

\* Defect: the settings of the file are not read
Merged_patch(h) == Document(op[h].read.roots, op[h].patch)
\* The other roots stay, and the shared settings that are not patched.
Merged(h) == Document(op[h].read.roots, op[h].patch ++ Shared(op[h].read.settings))

\* A name no one else has; CREATE_NEW
Create(h) ==
    /\ op[h].at = "merge"
    /\ \/ /\ temporary' = [g \in {h} |-> [NoFile EXCEPT !.state = "part"]] ++ temporary /\ At(h, "write") /\ UNCHANGED faults
       \/ Fault /\ op' = [op EXCEPT ![h] = Idle] /\ UNCHANGED temporary
    /\ UNCHANGED <<file, readers, first, touched>>

Write(h) ==
    /\ op[h].at = "write"
    /\ \/ At(h, "flush") /\ temporary' = [temporary EXCEPT ![h] = Merged(h)] /\ UNCHANGED faults
       \/ Fault /\ Fails(h)
    /\ UNCHANGED <<file, readers, first, touched>>

Flush(h) ==
    /\ op[h].at = "flush"
    /\ \/ At(h, "move") /\ UNCHANGED <<temporary, faults>>
       \/ Fault /\ Fails(h)
    /\ UNCHANGED <<file, readers, first, touched>>

\* Defect: the old file goes first
Move_delete(h) ==
    /\ op[h].at = "move" /\ ~readers
    /\ \/ file' = NoFile /\ file # NoFile /\ UNCHANGED <<op, temporary, touched, faults>>
       \/ /\ file = NoFile /\ file' = temporary[h] /\ Fails(h)
          /\ touched' = touched \cup DOMAIN op[h].patch /\ UNCHANGED faults
       \/ Fault /\ Fails(h) /\ UNCHANGED <<file, touched>>
    /\ UNCHANGED <<readers, first>>

\* MoveFileEx replaces the file, unless another holds it open.
Move(h) ==
    /\ op[h].at = "move"
    /\ \/ /\ ~readers /\ file' = temporary[h] /\ Fails(h) /\ UNCHANGED faults
          /\ touched' = touched \cup DOMAIN op[h].patch
       \/ readers /\ Fails(h) /\ UNCHANGED <<file, touched, faults>>
       \/ Fault /\ Fails(h) /\ UNCHANGED <<file, touched>>
    /\ UNCHANGED <<readers, first>>

-----------------------------------------------------------------------------
(* The others                                                              *)

Hold == readers' = ~readers /\ UNCHANGED <<file, op, temporary, first, touched, faults>>

\* The host process ends.  Its temporary file stays, and no one reads it: the
\* name has the process and the time in it.
Crash(h) ==
    /\ op[h].at # "idle" /\ Fault /\ Fails(h)
    /\ UNCHANGED <<file, readers, first, touched>>

ConfigNext ==
    \/ \E h \in Hosts : Begin(h) \/ Read(h) \/ Create(h) \/ Write(h) \/ Flush(h) \/ Move(h) \/ Crash(h)
    \/ Hold

-----------------------------------------------------------------------------
\* What no one asked to change is as it was: a write puts back all the rest of
\* the file that it may keep.
UnpatchedKept ==
    file.state = "whole" /\ first.state = "whole" =>
        /\ file.roots = first.roots
        /\ \A k \in SharedKeys \ touched : k \in DOMAIN file.settings /\ file.settings[k] = first.settings[k]

\* A call that has ended has taken its temporary file away.
NoLitter == \A h \in DOMAIN temporary : op[h].at \in {"write", "flush", "move"}

=============================================================================
