----------------------------- MODULE MCOperations -----------------------------
(***************************************************************************)
(* Instances of Operations for TLC: the sets the .cfg files choose from.   *)
(***************************************************************************)
EXTENDS Operations

CONSTANTS u1, u2, i1, i2, i3

OneUnit  == {u1}
TwoUnits == {u1, u2}
NoUnit   == {}
TwoIds   == {i1, i2}
ThreeIds == {i1, i2, i3}
GuestIds == {i2}
AllStrays == {Alien, Broken}
NoStrays  == {}
===============================================================================
