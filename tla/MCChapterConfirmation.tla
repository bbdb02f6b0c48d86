----------------------- MODULE MCChapterConfirmation -----------------------
(* Two answer frames under one parent page, and one submission attempt of  *)
(* each, repeated without end.                                             *)
EXTENDS ChapterConfirmation

CONSTANTS cards, frameA, frameB, a, b

MCSessions == {a, b}
MCWindows  == {cards, frameA, frameB}
MCAbove    == [w \in MCWindows |-> IF w = cards THEN {} ELSE {cards}]
MCFrame    == [s \in MCSessions |-> IF s = b THEN frameB ELSE frameA]
MCForeign  == [s \in MCSessions |-> IF s = b THEN {frameA} ELSE {frameB}]
MCTagged   == [s \in MCSessions |-> {MCFrame[s]}]
=============================================================================
