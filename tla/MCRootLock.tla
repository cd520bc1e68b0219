------------------------------ MODULE MCRootLock ------------------------------
(***************************************************************************)
(* Instances of RootLock for TLC.                                          *)
(***************************************************************************)
EXTENDS RootLock

CONSTANTS p1, p2, p3, n1, n2, n3, n4

ThreePrograms == {p1, p2, p3}
FourInodes    == {n1, n2, n3, n4}
OneProgram    == {p1}
===============================================================================
