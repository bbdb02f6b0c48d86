--------------------------- MODULE MCClientPicker ---------------------------
(* A packed x86 client, a plain one and one that is not x86.               *)
EXTENDS ClientPicker

Trait(p, x, w, i) == [packed |-> p, x86 |-> x, writable |-> w, imports |-> i]
MCTraits == [packed |-> Trait(TRUE, TRUE, TRUE, {"winmm"}),
             plain  |-> Trait(FALSE, TRUE, TRUE, {"version", "kernel32"}),
             wide   |-> Trait(FALSE, FALSE, TRUE, {"winmm"})]

Spec == PickerInit /\ [][PickerNext]_pickerVars
=============================================================================
