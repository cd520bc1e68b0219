---------------------------- MODULE HelperPromise -----------------------------
(***************************************************************************)
(* What callers of nasmount-helper may count on about the unit files, and  *)
(* no more: one call at a time, one half of one share after the other, in  *)
(* this order, and success only when both are done.  Operations and Purge, *)
(* where a call is made of many more steps, implement it; Client is built  *)
(* on it.                                                                  *)
(***************************************************************************)
EXTENDS Verify

CONSTANT Units   \* mount points

VARIABLES mountHalf, autoHalf,   \* [Units -> FileContent]: the unit files
          helper                 \* the call nasmount-helper has accepted

promiseVars == <<mountHalf, autoHalf, helper>>

NoUnit == "no unit"

\* A call: how far it has come, and the id a define gives.
Job(op, pc, u, id) == [op |-> op, pc |-> pc, u |-> u, id |-> id]
NoJob == Job("none", "idle", NoUnit, NoFile)

Definition(u) == InspectDefinition(mountHalf[u], autoHalf[u])
Managed(u)    == Definition(u) \in {"Pair", "Partial"}
Marked(u)     == {mountHalf[u], autoHalf[u]} \cap Ids # {}
IdOf(u)       == MarkerId(mountHalf[u], autoHalf[u])

\* "sent": nothing has changed; "automount": the mount half is done, and
\* "finish": so is the automount half; "failed": a define takes back.
PromiseInit ==
    /\ mountHalf \in [Units -> {NoFile, Alien, Broken}]
    /\ autoHalf \in [Units -> {NoFile, Alien, Broken}]
    /\ helper = NoJob

\* definesystem and undefinesystem name a mount point, purge none.
Accept(op, u) ==
    /\ helper.pc = "idle"
    /\ helper' = Job(op, "sent", u, NoFile)
    /\ UNCHANGED <<mountHalf, autoHalf>>

\* A call that has failed: a removal stops where it is and is over.
Failed == IF helper.op = "define" THEN Job("define", "failed", helper.u, NoFile) ELSE NoJob

\* A step that fails may have taken effect.
Onward(pc, u, id) == helper' \in {Job(helper.op, pc, u, id), Failed}

\* The mount half goes down over nothing, with an id no unit claims.
DefineMount(i) ==
    /\ helper.op = "define" /\ helper.pc = "sent"
    /\ Definition(helper.u) = "None" /\ \A u \in Units : i \notin {mountHalf[u], autoHalf[u]}
    /\ mountHalf' = [mountHalf EXCEPT ![helper.u] = i]
    /\ Onward("automount", helper.u, i)
    /\ UNCHANGED autoHalf

DefineAutomount ==
    /\ helper.op = "define" /\ helper.pc = "automount"
    /\ autoHalf' = [autoHalf EXCEPT ![helper.u] = helper.id]
    /\ Onward("finish", helper.u, helper.id)
    /\ UNCHANGED mountHalf

\* Whatever owned definition is at the path goes.
UndefineMount ==
    /\ helper.op = "undefine" /\ helper.pc = "sent"
    /\ helper.u \in Units /\ Managed(helper.u)
    /\ mountHalf' = [mountHalf EXCEPT ![helper.u] = NoFile]
    /\ Onward("automount", helper.u, NoFile)
    /\ UNCHANGED autoHalf

UndefineAutomount ==
    /\ helper.op = "undefine" /\ helper.pc = "automount"
    /\ autoHalf' = [autoHalf EXCEPT ![helper.u] = NoFile]
    /\ Onward("finish", helper.u, helper.id)
    /\ UNCHANGED mountHalf

\* Every owned definition goes, one after the other, unless one is damaged.
PurgeMount(u) ==
    /\ helper.op = "purge" /\ helper.pc = "sent"
    /\ Managed(u) /\ \A v \in Units : Marked(v) => Managed(v)
    /\ mountHalf' = [mountHalf EXCEPT ![u] = NoFile]
    /\ Onward("automount", u, NoFile)
    /\ UNCHANGED autoHalf

PurgeAutomount ==
    /\ helper.op = "purge" /\ helper.pc = "automount"
    /\ autoHalf' = [autoHalf EXCEPT ![helper.u] = NoFile]
    /\ Onward("sent", NoUnit, NoFile)
    /\ UNCHANGED mountHalf

PurgeDone ==
    /\ helper.op = "purge" /\ helper.pc = "sent"
    /\ \A u \in Units : ~Marked(u)
    /\ helper' = Job("purge", "finish", NoUnit, NoFile)
    /\ UNCHANGED <<mountHalf, autoHalf>>

Fail ==
    /\ helper.op = "define" /\ helper.pc \in {"sent", "automount", "finish"}
    /\ helper' = Failed
    /\ UNCHANGED <<mountHalf, autoHalf>>

\* Cleanup goes on whatever it cannot take back.
TakeBack ==
    /\ helper.op = "define" /\ helper.pc = "failed"
    /\ \/ autoHalf' = [autoHalf EXCEPT ![helper.u] = NoFile] /\ UNCHANGED mountHalf
       \/ mountHalf' = [mountHalf EXCEPT ![helper.u] = NoFile] /\ UNCHANGED autoHalf
    /\ UNCHANGED helper

\* The reply, which is a success only at "finish"; or the helper is killed.
End ==
    /\ helper.pc # "idle"
    /\ helper' = NoJob
    /\ UNCHANGED <<mountHalf, autoHalf>>

\* Steps that change nothing are left to the stuttering of Promise.
PromiseNext ==
    /\ promiseVars' # promiseVars
    /\ \/ Accept("purge", NoUnit) \/ \E u \in Units : Accept("define", u) \/ Accept("undefine", u)
       \/ (\E i \in Ids : DefineMount(i)) \/ DefineAutomount \/ Fail \/ TakeBack
       \/ UndefineMount \/ UndefineAutomount
       \/ (\E u \in Units : PurgeMount(u)) \/ PurgeAutomount \/ PurgeDone
       \/ End

Promise == PromiseInit /\ [][PromiseNext]_promiseVars
===============================================================================
