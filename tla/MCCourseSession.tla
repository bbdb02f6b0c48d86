-------------------------- MODULE MCCourseSession --------------------------
(* Instances of CourseSession for TLC.                                     *)
EXTENDS CourseSession

CONSTANTS A, B, caller1, caller2

MCScopes  == {A, B}
MCCallers == {caller1, caller2}
=============================================================================
