-------------------------------- MODULE MCPurge --------------------------------
(***************************************************************************)
(* Instances of Purge and PackageGuard for TLC: two in one run.  In the    *)
(* behaviours in which the removal of the package is never asked for,      *)
(* calls have failing steps and two shares are live; in those in which it  *)
(* may be, any program goes on or is killed between any two steps of the   *)
(* guard, a stray unit may be there, no step fails, the mount points stay  *)
(* where they are and one share is there at a time.                        *)
(***************************************************************************)
EXTENDS PackageGuard, FiniteSets, TLC

CONSTANTS u1, u2, i1, i2

TwoUnits == {u1, u2}
NoUnit   == {}
TwoIds   == {i1, i2}
NoGuests == {}
AnAlien  == {Alien}
DefineAndRemove == {"define", "remove"}
Symmetry == Permutations(TwoUnits) \cup Permutations(TwoIds)

VARIABLE removable   \* whether the removal of the package may be asked for

UsedIds == creds \cup {mountHalf[u] : u \in Units} \cup {autoHalf[u] : u \in Units} \cup {loaded[u] : u \in Units} \cup {call.id}

\* What bounds the behaviours with a guard, and those without.
GuardedBound ==
    /\ call.hits = 0 /\ nextInst <= 3 /\ Cardinality(UsedIds \cap Ids) <= 1
    /\ \A u \in Units : dir[u]
PlainBound   == call.op \in {"none", "define", "purge"}

MCInit ==
    /\ GuardedInit
    /\ removable \in BOOLEAN
    /\ removable => \A u \in Units : dir[u]
    /\ Cardinality({half \in Halves : Content(half) # NoFile}) <= IF removable THEN 1 ELSE 0

MCNext ==
    /\ UNCHANGED removable
    /\ \/ removable /\ GuardedNext /\ GuardedBound'
       \/ ~removable /\ PurgeNext /\ PlainBound' /\ UNCHANGED guardVars

MCSpec == MCInit /\ [][MCNext]_<<guardedVars, removable>>
===============================================================================
