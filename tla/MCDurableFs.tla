------------------------------ MODULE MCDurableFs ------------------------------
(***************************************************************************)
(* Instances of DurableHistory for TLC.                                    *)
(***************************************************************************)
EXTENDS DurableHistory

CONSTANTS c1, c2

OneContent  == {c1}
TwoContents == {c1, c2}
===============================================================================
