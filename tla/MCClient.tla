-------------------------------- MODULE MCClient -------------------------------
(***************************************************************************)
(* Instances of Client for TLC.                                            *)
(***************************************************************************)
EXTENDS Client, TLC

CONSTANTS u1, i1, i2, dialog, kcm

OneUnit   == {u1}
TwoIds    == {i1, i2}
NoId      == {}
OneDialog == {dialog}
OneKcm    == {kcm}

IdSymmetry == Permutations(TwoIds)

\* An armed share nobody has entered yet.
ArmedRuntime ==
    {[automount |-> "Active", mount |-> "Absent", verification |-> "NotApplicable", trust |-> "Trusted"]}
===============================================================================
