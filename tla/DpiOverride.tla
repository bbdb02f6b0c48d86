---------------------------- MODULE DpiOverride ----------------------------
(***************************************************************************)
(* The DPI compatibility setting of a client (dpi.c): a registry value of  *)
(* the user that the host changes before a launch and puts back after it.  *)
(* Instances of the host take turns by a mutex; Windows itself and other   *)
(* programs write the value whenever they like, and the registry has no    *)
(* compare-and-swap.  A host may be killed at any step.                    *)
(*                                                                         *)
(* A value is its type and its set of tokens.                              *)
(***************************************************************************)
EXTENDS Integers, FiniteSets

CONSTANTS
    Hosts,
    Values,      \* what others write
    MaxWrites    \* bound: writes of others, kills and errors

VARIABLES
    reg,         \* the value in the registry
    mutex,       \* the host that owns it; an owner that was killed leaves it abandoned
    s,           \* CX_DPI_OVERRIDE of each host, and where the host is
    meant,       \* history: the value as everyone but these hosts wants it
    spoiled,     \* history: meant is out of the code's reach
    trouble

dpiVars == <<reg, mutex, s, meant, spoiled, trouble>>

Absent == [type |-> "none", tokens |-> {}]
Aware(v) == "HIGHDPIAWARE" \in v.tokens /\ v.tokens \cap {"DPIUNAWARE", "GDIDPISCALING"} = {}

\* d_prepare: the other tokens stay, and HIGHDPIAWARE is the only one about DPI
Kept(v) == v.tokens \ {"HIGHDPIAWARE", "DPIUNAWARE", "GDIDPISCALING"}
Valid(v) == v.type # "binary"
Temporary(v) ==
    [type |-> "text", tokens |-> (IF Kept(v) = {} THEN {"~"} ELSE Kept(v)) \cup {"HIGHDPIAWARE"}]

Nothing == [at |-> "out", original |-> Absent, changed |-> FALSE, attempt |-> 0]
Inside(h) == s[h].at \in {"begun", "restore", "put"}

DpiTypeOK ==
    /\ mutex \in Hosts \cup {0, -1}
    /\ \A h \in Hosts : s[h].at \in {"out", "read", "observe", "set", "begun", "restore", "put"}
    /\ reg.type \in {"none", "text", "expand", "binary"} /\ trouble \in 0..MaxWrites

DpiInit ==
    /\ reg \in Values /\ meant = reg
    /\ mutex = 0 /\ s = [h \in Hosts |-> Nothing]
    /\ spoiled = FALSE /\ trouble = 0

Trouble == trouble < MaxWrites /\ trouble' = trouble + 1
At(h, place) == s' = [s EXCEPT ![h].at = place]
\* d_free
Leave(h) == s' = [s EXCEPT ![h] = Nothing] /\ mutex' = 0

-----------------------------------------------------------------------------
(* cx_dpi_begin                                                            *)

\* The mutex is awaited, ten seconds at most; one that was abandoned is given
\* back and the call fails.
Acquire(h) ==
    /\ s[h].at = "out"
    /\ \/ mutex = 0 /\ mutex' = h /\ At(h, "read")
       \/ mutex = -1 /\ mutex' = 0 /\ UNCHANGED s
    /\ UNCHANGED <<reg, meant, spoiled, trouble>>

\* A value that cannot be read, like one of another kind, ends the call.
Read(h) ==
    /\ s[h].at = "read"
    /\ \/ ((~Valid(reg) /\ UNCHANGED trouble) \/ Trouble) /\ Leave(h)
       \/ /\ Valid(reg)
          /\ s' = [s EXCEPT ![h] = [@ EXCEPT !.at = IF Aware(reg) THEN "begun" ELSE "observe",
                                             !.original = reg, !.changed = ~Aware(reg)]]
          /\ UNCHANGED <<mutex, trouble>>
    /\ UNCHANGED <<reg, meant, spoiled>>

\* Defect: the value is not read again before it is changed
Observe_not(h) == s[h].at = "observe" /\ At(h, "set") /\ UNCHANGED <<reg, mutex, meant, spoiled, trouble>>

\* The value is read again: it may have changed while the temporary one was prepared.
Observe(h) ==
    /\ s[h].at = "observe"
    /\ \/ reg = s[h].original /\ At(h, "set") /\ UNCHANGED <<mutex, trouble>>
       \/ ((reg # s[h].original /\ UNCHANGED trouble) \/ Trouble) /\ Leave(h)
    /\ UNCHANGED <<reg, meant, spoiled>>

Set(h) ==
    /\ s[h].at = "set"
    /\ \/ reg' = Temporary(s[h].original) /\ At(h, "begun") /\ UNCHANGED <<mutex, trouble>>
       \/ Trouble /\ Leave(h) /\ UNCHANGED reg
    /\ UNCHANGED <<meant, spoiled>>

-----------------------------------------------------------------------------
(* cx_dpi_restore                                                          *)

\* The client is launched, or is not.  The original is put back over the
\* temporary value only; a value that is neither is left alone.  When the value
\* cannot be read there is no second attempt: the call fails, and what is there stays.
Restore(h) ==
    /\ s[h].at \in {"begun", "restore"}
    /\ \/ (~s[h].changed \/ reg = s[h].original) /\ Leave(h) /\ UNCHANGED <<spoiled, trouble>>
       \/ /\ s[h].changed /\ reg = Temporary(s[h].original)
          /\ At(h, "put") /\ UNCHANGED <<mutex, spoiled, trouble>>
       \/ /\ s[h].changed /\ reg \notin {s[h].original, Temporary(s[h].original)}
          /\ Leave(h) /\ UNCHANGED <<spoiled, trouble>>
       \/ /\ s[h].changed /\ Trouble /\ Leave(h)
          /\ spoiled' = (spoiled \/ reg = Temporary(s[h].original))
    /\ UNCHANGED <<reg, meant>>

\* Three attempts
Put(h) ==
    /\ s[h].at = "put"
    /\ \/ reg' = s[h].original /\ Leave(h) /\ UNCHANGED <<spoiled, trouble>>
       \/ s[h].attempt < 2 /\ Trouble
          /\ s' = [s EXCEPT ![h].at = "restore", ![h].attempt = @ + 1] /\ UNCHANGED <<reg, mutex, spoiled>>
       \/ s[h].attempt = 2 /\ Trouble /\ Leave(h) /\ spoiled' = TRUE /\ UNCHANGED reg
    /\ UNCHANGED meant

-----------------------------------------------------------------------------
(* The others                                                              *)

\* A write between a comparison and the write that follows it is lost; so is
\* one of the temporary value, which cannot be told from the host's own.
Write ==
    /\ Trouble
    /\ \E v \in Values \cup {Temporary(w) : w \in {x \in Values : Valid(x)}} :
        /\ v # reg /\ reg' = v /\ meant' = v
        /\ spoiled' = (spoiled \/ \E h \in Hosts : s[h].at \in {"set", "put"}
                                     \/ (Inside(h) /\ s[h].changed /\ v = Temporary(s[h].original)))
    /\ UNCHANGED <<mutex, s>>

Kill(h) ==
    /\ s[h].at # "out" /\ Trouble
    /\ s' = [s EXCEPT ![h] = Nothing] /\ mutex' = IF mutex = h THEN -1 ELSE mutex
    /\ spoiled' = (spoiled \/ (Inside(h) /\ s[h].changed))
    /\ UNCHANGED <<reg, meant>>

DpiNext ==
    \/ \E h \in Hosts : Acquire(h) \/ Read(h) \/ Observe(h) \/ Set(h) \/ Restore(h) \/ Put(h) \/ Kill(h)
    \/ Write

\* When no host is inside, the value is what everyone else wants it to be: a
\* temporary value is put back, and what others wrote meanwhile is not lost,
\* unless a host was killed, a write of others met one of the host's, or the
\* restore itself failed at its read or at three writes and said so.
MeantIsKept == (\A h \in Hosts : ~Inside(h)) /\ ~spoiled => reg = meant

\* While a host launches its client the setting is in effect, unless it was
\* written by others: no other instance puts it back.
InEffect == \A h \in Hosts : s[h].at = "begun" /\ ~spoiled => Aware(reg) \/ reg = meant

=============================================================================
