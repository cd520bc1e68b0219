----------------------------- MODULE ArmingProofs -----------------------------
(***************************************************************************)
(* What safeStop, armShare and their callers keep of PID 1's triggers and  *)
(* mounts, for every set of mount points and ids, every number of failures *)
(* and every interleaving with PID 1, the kernel, users and the            *)
(* administrator.  Three inductive invariants, each on top of the last:    *)
(* RuntimeInv without any restriction, QuietInv where no start job         *)
(* outlives its systemctl, TrustInv where also nobody enters the path      *)
(* between the start and the id record.                                    *)
(***************************************************************************)
EXTENDS OperationsProofs

-------------------------------------------------------------------------------
(* RuntimeInv: what the programs know of the runtime while they act on it. *)

\* Mount ids grow: whatever was ever recorded, read or handed out is below
\* the next one.
InstancesBelow ==
    /\ nextInst > UnderId
    /\ call.started < nextInst
    /\ \A v \in Units : trig[v].id < nextInst /\ over[v].id < nextInst /\ idRec[v] < nextInst

\* A trigger is live exactly when somebody started it; a mount has an id.
RuntimeShape ==
    \A v \in Units : /\ trig[v].by = "nobody" <=> trig[v].id = 0
                     /\ Occupied(v) => over[v].id # 0

\* Nothing at v but a trigger nasmount started and the share behind it.
OnlyOurs(v) ==
    /\ trig[v].by # "admin"
    /\ Occupied(v) => over[v].fs = "cifs" /\ trig[v].by = "tool"

\* From the walk that found nothing on the path to the end of compensation.
AfterWalk ==
    \/ pc \in {"start", "statStarted", "recordId", "decideRecheck", "statAppeared",
               "compensate", "stopStarted", "forgetId"}
    \/ pc \in InspectPcs /\ call.site = "decideRecheck"

OwnAfterWalk == AfterWalk => OnlyOurs(call.u)

\* A record names an instance nasmount started, or the share behind one.
RecordsOurs ==
    \A v \in Units : /\ Armed(v) /\ idRec[v] = trig[v].id => trig[v].by = "tool"
                     /\ Occupied(v) /\ idRec[v] = over[v].id => OnlyOurs(v)

\* What the four reads of inspectRuntime said that is still so, though PID
\* 1 and users went on in between.
Decides    == {"decideStop", "decideArm", "decideRecheck"}
MountKnown == {"readIds"} \cup Decides
MountRead  == {"showMount"} \cup MountKnown
Seen       == {"readMountinfo"} \cup MountRead

SnapshotTrue ==
    /\ pc \in Seen /\ call.snap.automount = "Active" => Armed(call.u)
    /\ pc \in MountRead /\ call.snap.mount = "Present" => ~Armed(call.u) /\ Occupied(call.u)
    /\ pc \in MountRead /\ call.snap.mount = "Present" /\ call.snap.verification = "Match" =>
           over[call.u].fs = "cifs" /\ over[call.u].src = call.what
    /\ pc \in MountRead /\ call.snap.mount = "Absent" /\ Occupied(call.u) => Armed(call.u)
    /\ pc \in MountKnown /\ call.snap.mount = "Absent" /\ Occupied(call.u) => over[call.u].fs = "cifs"
    /\ pc \in Decides /\ call.snap.trust = "Trusted" => trig[call.u].by = "tool"

\* A call none of whose steps failed knows both axes, or sees the trigger.
FaultlessSnapshot ==
    call.hits = 0 =>
        /\ pc \in Seen => call.snap.automount # "Indeterminate"
        /\ pc = "showMount" => call.snap.mount # "Indeterminate"
        /\ pc \in MountKnown /\ call.snap.mount = "Indeterminate" => Armed(call.u)

\* safeStop goes on only over what it may stop.
StopOurs ==
    pc \in {"stopMount", "stopAutomount"} =>
        /\ trig[call.u].by # "admin"
        /\ Occupied(call.u) => /\ over[call.u].fs = "cifs"
                               /\ over[call.u].src = call.what \/ trig[call.u].by = "tool"

\* A start that succeeded left a trigger, unless the directory was missing
\* when PID 1 looked.
StartedOrMissing == pc \in {"statStarted", "recordId", "armed"} => Armed(call.u) \/ call.missing

\* safeStop runs for a removal or a purge, armShare for a define or the boot
\* pass.
Stopping == {"remove", "purge"}

RoutinesMatchCall ==
    /\ pc \in StopPcs => call.op \in Stopping
    /\ pc \in ArmPcs => call.op \in {"define", "boot"}
    /\ pc \in InspectPcs => (call.site = "decideStop") = (call.op \in Stopping)
    /\ pc \in InspectPcs => call.op # "none"

\* armShare is about a complete definition with the call's id.
HalvesWritten ==
    /\ pc \in {"writeAutomount", "writeCredential", "reload"} => mountHalf[call.u] = call.id
    /\ pc \in {"writeCredential", "reload"} => autoHalf[call.u] = call.id
    /\ pc \in SubroutinePcs /\ call.op \in {"define", "boot"} =>
           call.id \in Ids /\ mountHalf[call.u] = call.id /\ autoHalf[call.u] = call.id

\* armShare looks at the runtime again only after a step failed.
RecheckAfterFault ==
    \/ pc \in {"decideRecheck", "statAppeared", "stopStarted", "forgetId"}
    \/ pc \in InspectPcs /\ call.site = "decideRecheck"
    => call.hits > 0

\* Where there is nothing left for a boot pass to arm.
Booted ==
    {v \in Units : /\ Definition(v) = "Pair"
                   /\ (mountHalf[v] \in creds) <=> (mountHalf[v] \notin Guests)
                   => Armed(v) \/ Occupied(v)}

\* The boot pass is done with what it has behind it.
BootProgress ==
    call.op = "boot" =>
        /\ \A v \in Units \ (call.hit \cup call.todo) : pc = "bootNext" \/ v # call.u => v \in Booted
        /\ pc # "bootNext" => call.u \notin call.todo
        /\ call.hits = 0 /\ pc \in {"compensate", "needsAttention"} => call.u \in Booted \/ call.missing

\* What StatStarted found nothing for, Compensate leaves alone.
NothingStarted == pc = "compensate" /\ call.hits = 0 => call.started = 0

RuntimeOK ==
    /\ InstancesBelow /\ RuntimeShape /\ RecordsOurs /\ OwnAfterWalk
    /\ SnapshotTrue /\ FaultlessSnapshot /\ RecheckAfterFault
    /\ StopOurs /\ StartedOrMissing /\ RoutinesMatchCall /\ HalvesWritten
    /\ NothingStarted /\ BootProgress

RuntimeInv == PromiseInv /\ RuntimeOK

-------------------------------------------------------------------------------
(* QuietInv: without late jobs, what was seen stopped stays stopped.       *)

Quiet(v) == ~Armed(v) /\ ~Occupied(v)

NoJobs == \A v \in Units : ~job[v]

InactiveStays == pc \in Seen /\ call.snap.automount = "Inactive" => ~Armed(call.u)

StopIsKnown ==
    /\ call.mountStopped => pc \in {"stopAutomount", "stopped", "refused", "reply"} \cup RemovePcs \cup PurgePcs
    /\ pc = "stopAutomount" /\ call.mountStopped /\ Occupied(call.u) => Armed(call.u)

QuietRemoval == pc \in {"stopped"} \cup RemovePcs => Quiet(call.u)

\* How far a removal has come.
RemoveProgress ==
    /\ pc \in {"removeMount", "removeAutomount", "removeId", "removeReload"} => call.id \notin creds
    /\ pc \in {"removeAutomount", "removeId", "removeReload"} => mountHalf[call.u] = NoFile
    /\ pc \in {"removeId", "removeReload"} => autoHalf[call.u] = NoFile
    /\ pc = "removeReload" => idRec[call.u] = 0

CleanPcs == {"cleanCredential", "cleanAutomount", "cleanMount", "cleanId", "cleanReload"}

\* Before its start, and once it takes back what it wrote, define has
\* nothing live.
NotYetArmed ==
    call.op = "define" =>
        /\ pc \in {"writeMount", "writeAutomount", "writeCredential", "reload"} \cup CleanPcs => Quiet(call.u)
        /\ pc \in {"decideArm", "checkCredential", "walk", "start", "forgetId"} => Quiet(call.u)
        /\ pc \in InspectPcs /\ call.site = "decideArm" => Quiet(call.u)
        /\ pc = "needsAttention" /\ call.safe => Quiet(call.u)

\* The credential is there when armShare begins, and only for a share that
\* needs one.
SecretDecided ==
    call.op = "define" /\ pc \in {"reload"} \cup SubroutinePcs =>
        ((call.id \in creds) <=> (call.id \notin Guests))

\* PID 1 runs, or would start, the definition just written.
WellLoaded ==
    call.op = "define" /\ pc \in SubroutinePcs =>
        /\ loaded[call.u] \in {NoFile, call.id}
        /\ Armed(call.u) => trig[call.u].share = call.id

\* Cleanup begins after a fault; without a second one it takes back all.
CleanupProgress ==
    call.op = "define" =>
        /\ pc \in CleanPcs => call.hits > 0
        /\ pc = "needsAttention" /\ call.safe => call.hits > 0
        /\ ~call.mayRemoveUnits => call.hits > 1
        /\ pc \in {"cleanMount", "cleanId", "cleanReload"} /\ call.hits < 2 => autoHalf[call.u] = NoFile
        /\ pc \in {"cleanId", "cleanReload"} /\ call.hits < 2 =>
               mountHalf[call.u] = NoFile /\ call.id \notin creds

QuietOK ==
    /\ ~LateJobs /\ NoJobs /\ InactiveStays /\ StopIsKnown /\ QuietRemoval /\ RemoveProgress
    /\ NotYetArmed /\ SecretDecided /\ WellLoaded /\ CleanupProgress
    /\ DefinitionOutlivesTrigger /\ DefineComplete /\ DefineAtomic /\ RemoveComplete

QuietInv == RuntimeInv /\ QuietOK

-------------------------------------------------------------------------------
(* TrustInv: the id on record is the trigger's.                            *)

TrustOK ==
    /\ ~EagerCross
    /\ \A v \in Units : Occupied(v) => idRec[v] # over[v].id
    /\ pc = "start" => Quiet(call.u)
    /\ pc \in {"statStarted", "recordId"} => ~Occupied(call.u)
    /\ pc = "recordId" => call.started = IF Armed(call.u) THEN trig[call.u].id ELSE UnderId
    /\ pc \in Decides /\ call.snap.trust = "Trusted" => idRec[call.u] = trig[call.u].id
    /\ ArmedIsTrusted

TrustInv == QuietInv /\ TrustOK

-------------------------------------------------------------------------------
(* Steps that leave PID 1's triggers and mounts alone.                     *)

CalmPcs == {"idle", "reply", "bootNext", "showAutomount"} \cup DefinePcs \cup RemovePcs

\* Define's, a removal's and the boot pass's own steps, and what begins and
\* ends a call.
LEMMA CalmStep ==
    ASSUME TypeOK, StepsMatchCall, Define \/ Remove \/ Boot \/ Reply \/ Crash \/ Begin
    PROVE  /\ UNCHANGED <<trig, over, job, nextInst>>
           /\ \A v \in Units : idRec'[v] \in {idRec[v], 0}
           /\ call'.started \in {call.started, 0}
           /\ pc' \in CalmPcs
           /\ pc' = "showAutomount" =>
                \/ call'.op = "remove" /\ call'.site = "decideStop"
                \/ call'.op \in {"define", "boot"} /\ call'.site = "decideArm"
  <1> USE DEF TypeOK, HostTypeOK, Call, CalmPcs, StepsMatchCall, DefinePcs, RemovePcs
  <1>1. CASE Define
    <2>1. CASE WriteMount \/ WriteAutomount \/ WriteCredential \/ AssertNoCredential
      BY <2>1 DEF WriteMount, WriteAutomount, WriteCredential, AssertNoCredential, Proceed, FailTo, systemdVars, hostVars
    <2>2. CASE Reload \/ DefineArmed \/ DefineNotArmed
      BY <2>2 DEF Reload, ReloadEffect, DefineArmed, DefineNotArmed, Proceed, FailTo, EnterArmShare, systemdVars, hostVars
    <2>3. CASE CleanCredential \/ CleanAutomount \/ CleanMount
      BY <2>3 DEF CleanCredential, CleanAutomount, CleanMount, Proceed, FailTo, systemdVars
    <2>4. CASE CleanId \/ CleanReload
      BY <2>4 DEF CleanId, CleanReload, ReloadEffect, Replace, Proceed, FailTo, systemdVars
    <2> QED
      BY <1>1, <2>1, <2>2, <2>3, <2>4 DEF Define
  <1>2. CASE Remove
    BY <1>2 DEF Remove, RemoveRefused, RemoveStopped, RemoveCredential, RemoveMount, RemoveAutomount, RemoveId,
                RemoveReload, ReloadEffect, Replace, Proceed, FailTo, systemdVars, hostVars
  <1>3. CASE Boot
    <2>1. ASSUME NEW u \in Units, BootArm(u)
          PROVE  /\ UNCHANGED hostVars /\ call'.started \in {call.started, 0} /\ pc' \in CalmPcs
                 /\ pc' = "showAutomount" => call'.op = "boot" /\ call'.site = "decideArm"
      BY <2>1 DEF BootArm, EnterArmShare
    <2>2. CASE BootArmed \/ BootEnd
      BY <2>2 DEF BootArmed, BootEnd, NoCall, hostVars, systemdVars
    <2> QED
      BY <1>3, <2>1, <2>2 DEF Boot, hostVars, systemdVars
  <1>4. CASE Reply \/ Crash
    BY <1>4 DEF Reply, Crash, NoCall, hostVars, systemdVars
  <1>5. CASE Begin
    <2>1. UNCHANGED <<idRec, trig, over, job, nextInst>>
      BY <1>5 DEF Begin, DefineBegin, DefineRefused, RemoveBegin, BootBegin, hostVars, systemdVars
    <2>2. ASSUME NEW u \in Units, RemoveBegin(u)
          PROVE  /\ call'.started = 0 /\ pc' = "showAutomount"
                 /\ call'.op = "remove" /\ call'.site = "decideStop"
      BY <2>2 DEF RemoveBegin, NoCall, EnterSafeStop
    <2>3. ASSUME NEW u \in Units, NEW i \in Ids, DefineBegin(u, i)
          PROVE  call'.started = 0 /\ pc' = "writeMount"
      BY <2>3 DEF DefineBegin, NoCall
    <2>4. ASSUME NEW u \in Units, DefineRefused(u) PROVE UNCHANGED call /\ pc' = "idle"
      BY <2>4 DEF DefineRefused, armVars
    <2>5. BootBegin => call'.started = 0 /\ pc' = "bootNext"
      BY DEF BootBegin, NoCall
    <2> QED
      BY <1>5, <2>1, <2>2, <2>3, <2>4, <2>5 DEF Begin
  <1> QED
    BY <1>1, <1>2, <1>3, <1>4, <1>5

\* They keep what is known of the runtime.
LEMMA RuntimeCalm ==
    ASSUME RuntimeInv, Define \/ Remove \/ Boot \/ Reply \/ Crash \/ Begin
    PROVE  /\ InstancesBelow' /\ RuntimeShape' /\ RecordsOurs' /\ OwnAfterWalk'
           /\ SnapshotTrue' /\ FaultlessSnapshot' /\ RecheckAfterFault'
           /\ StopOurs' /\ StartedOrMissing' /\ NothingStarted'
  <1>1. /\ UNCHANGED <<trig, over, job, nextInst>>
        /\ \A v \in Units : idRec'[v] \in {idRec[v], 0}
        /\ call'.started \in {call.started, 0}
        /\ pc' \in CalmPcs
        /\ pc' = "showAutomount" => call'.site # "decideRecheck"
    BY CalmStep DEF RuntimeInv, PromiseInv, FilesConsistent
  <1>2. nextInst \in Nat
    BY DEF RuntimeInv, PromiseInv, FilesConsistent, TypeOK, HostTypeOK
  <1>3. InstancesBelow' /\ RuntimeShape'
    BY <1>1, <1>2 DEF RuntimeInv, RuntimeOK, InstancesBelow, RuntimeShape, Occupied, UnderId
  <1>4. RecordsOurs'
    BY <1>1 DEF RuntimeInv, RuntimeOK, RecordsOurs, RuntimeShape, OnlyOurs, Armed, Occupied
  <1>5. pc' \notin Seen /\ pc' \notin ArmPcs /\ pc' \notin StopPcs
    BY <1>1 DEF CalmPcs, DefinePcs, RemovePcs, Seen, MountRead, MountKnown, Decides, ArmPcs, StopPcs
  <1>6. OwnAfterWalk' /\ RecheckAfterFault'
    BY <1>1, <1>5 DEF OwnAfterWalk, AfterWalk, RecheckAfterFault, InspectPcs, Seen, MountRead, MountKnown, ArmPcs
  <1>7. SnapshotTrue' /\ FaultlessSnapshot' /\ StopOurs' /\ StartedOrMissing' /\ NothingStarted'
    BY <1>5 DEF SnapshotTrue, FaultlessSnapshot, StopOurs, StartedOrMissing, NothingStarted, Seen, MountRead,
                MountKnown, ArmPcs, StopPcs
  <1> QED
    BY <1>3, <1>4, <1>6, <1>7

\* They call a routine for the right operation, and armShare over a complete
\* definition.
LEMMA RoutinesCalm ==
    ASSUME RuntimeInv, Define \/ Remove \/ Boot \/ Reply \/ Crash \/ Begin
    PROVE  RoutinesMatchCall' /\ HalvesWritten'
  <1> USE DEF RuntimeInv, PromiseInv, FilesConsistent
  <1>1. /\ pc' \in CalmPcs
        /\ pc' = "showAutomount" =>
             \/ call'.op = "remove" /\ call'.site = "decideStop"
             \/ call'.op \in {"define", "boot"} /\ call'.site = "decideArm"
    BY CalmStep
  <1>2. RoutinesMatchCall'
    BY <1>1 DEF RoutinesMatchCall, Stopping, CalmPcs, DefinePcs, RemovePcs, StopPcs, ArmPcs, InspectPcs
  <1>3. pc' \in SubroutinePcs => pc' = "showAutomount"
    BY <1>1 DEF CalmPcs, DefinePcs, RemovePcs, SubroutinePcs, StopPcs, ArmPcs, InspectPcs
  <1>4. HalvesWritten'
    <2>1. CASE Define
      <3>1. call.op = "define" /\ call'.op = "define" /\ call'.u = call.u /\ call'.id = call.id
        BY <2>1, DefineStep
      <3>2. call.u \in Units /\ call.id \in Ids
        BY <3>1, OwnHalves
      <3>3. mountHalf \in [Units -> FileContent] /\ autoHalf \in [Units -> FileContent]
        BY DEF TypeOK, HostTypeOK
      <3>4. CASE WriteMount
        BY <3>1, <3>2, <3>3, <3>4 DEF WriteMount, Replace, Proceed, FailTo, HalvesWritten, SubroutinePcs, StopPcs,
                                      ArmPcs, InspectPcs
      <3>5. CASE WriteAutomount
        BY <3>1, <3>2, <3>3, <3>5 DEF WriteAutomount, Replace, Proceed, FailTo, RuntimeOK, HalvesWritten,
                                      SubroutinePcs, StopPcs, ArmPcs, InspectPcs
      <3>6. CASE WriteCredential \/ AssertNoCredential \/ Reload
        <4>1. UNCHANGED <<mountHalf, autoHalf>>
          BY <3>6 DEF WriteCredential, AssertNoCredential, Reload, hostVars, durableVars
        <4>2. pc \in {"writeCredential", "reload"} /\ pc' \in {"reload", "cleanCredential", "showAutomount"}
          BY <3>6 DEF WriteCredential, AssertNoCredential, Reload, Proceed, FailTo
        <4> QED
          BY <3>1, <3>2, <4>1, <4>2 DEF RuntimeOK, HalvesWritten, SubroutinePcs, StopPcs, ArmPcs, InspectPcs
      <3>7. CASE \/ DefineArmed \/ DefineNotArmed
                 \/ CleanCredential \/ CleanAutomount \/ CleanMount \/ CleanId \/ CleanReload
        <4>1. pc' \in {"reply"} \cup CleanPcs
          BY <3>7 DEF DefineArmed, DefineNotArmed, CleanCredential, CleanAutomount, CleanMount, CleanId, CleanReload,
                      Proceed, FailTo, CleanPcs
        <4> QED
          BY <1>3, <4>1 DEF HalvesWritten, CleanPcs
      <3> QED
        BY <2>1, <3>4, <3>5, <3>6, <3>7 DEF Define
    <2>2. CASE Remove
      BY <2>2, <1>3, RemoveStep DEF HalvesWritten, RemovePcs
    <2>3. ASSUME NEW u \in Units, BootArm(u) PROVE HalvesWritten'
      <3>1. UNCHANGED <<mountHalf, autoHalf>> /\ pc' \in {"bootNext", "showAutomount"}
        BY <2>3 DEF BootArm, hostVars, durableVars
      <3>2. CASE pc' = "showAutomount"
        <4>1. Definition(u) = "Pair" /\ call'.u = u /\ call'.id = mountHalf[u]
          BY <2>3, <3>2 DEF BootArm, EnterArmShare, TypeOK, Call
        <4>2. mountHalf[u] = autoHalf[u] /\ mountHalf[u] \in Ids
          BY <4>1, InspectVerdicts, ContentAssumption DEF Definition, TypeOK, HostTypeOK, FileContent
        <4> QED
          BY <3>1, <3>2, <4>1, <4>2 DEF HalvesWritten
      <3> QED
        BY <1>3, <3>1, <3>2 DEF HalvesWritten
    <2>4. CASE BootArmed \/ BootEnd \/ Reply \/ Crash
      BY <2>4, <1>3 DEF BootArmed, BootEnd, Reply, Crash, HalvesWritten
    <2>5. CASE Begin
      <3>1. pc' \in {"writeMount", "showAutomount", "bootNext", "idle"} /\ (pc' = "showAutomount" => call'.op = "remove")
        BY <2>5, BeginStep DEF Begin, DefineBegin, DefineRefused, RemoveBegin, BootBegin, armVars
      <3> QED
        BY <1>3, <3>1 DEF HalvesWritten
    <2> QED
      BY <2>1, <2>2, <2>3, <2>4, <2>5 DEF Boot
  <1> QED
    BY <1>2, <1>4

\* The boot pass leaves behind it only what is armed, or met a failure.
LEMMA BootCalm ==
    ASSUME RuntimeInv, Define \/ Remove \/ Boot \/ Reply \/ Crash \/ Begin
    PROVE  BootProgress'
  <1> USE DEF RuntimeInv, PromiseInv, FilesConsistent
  <1>1. CASE Define \/ Remove
    BY <1>1, DefineStep, RemoveStep DEF BootProgress
  <1>2. CASE Reply \/ Crash \/ BootEnd
    BY <1>2 DEF Reply, Crash, BootEnd, NoCall, BootProgress
  <1>3. UNCHANGED hostVars => Booted' = Booted
    BY DEF Booted, Definition, Armed, Occupied, hostVars, durableVars, systemdVars
  <1>4. ASSUME NEW u \in Units, BootArm(u) PROVE BootProgress'
    <2>1. call.op = "boot" /\ pc = "bootNext" /\ UNCHANGED hostVars
      BY <1>4 DEF BootArm, StepsMatchCall
    <2>2. \A v \in Units \ (call.hit \cup call.todo) : v \in Booted'
      BY <1>3, <2>1 DEF RuntimeOK, BootProgress
    <2>3. CASE pc' = "bootNext"
      <3>1. call'.todo = call.todo \ {u} /\ call'.hit = call.hit \cup {u}
        BY <1>4, <2>3 DEF BootArm, TypeOK, Call
      <3> QED
        BY <2>2, <2>3, <3>1 DEF BootProgress
    <2>4. CASE pc' = "showAutomount"
      <3>1. call'.todo = call.todo \ {u} /\ call'.hit = call.hit /\ call'.u = u
        BY <1>4, <2>1, <2>4 DEF BootArm, EnterArmShare, TypeOK, Call
      <3> QED
        BY <2>2, <2>4, <3>1 DEF BootProgress
    <2> QED
      BY <1>4, <2>1, <2>3, <2>4 DEF BootArm
  <1>5. CASE BootArmed
    <2>1. /\ call.op = "boot" /\ pc' = "bootNext" /\ UNCHANGED hostVars
          /\ call'.todo = call.todo
          /\ call'.hit = IF MetFailure THEN call.hit \cup {call.u} ELSE call.hit
      BY <1>5 DEF BootArmed, TypeOK, Call
    <2>2. \A v \in Units \ (call.hit \cup call.todo) : v # call.u => v \in Booted'
      BY <1>3, <2>1 DEF RuntimeOK, BootProgress
    <2>3. call.hits = 0 /\ pc = "needsAttention" => call.u \in Booted \/ call.missing
      BY <2>1 DEF RuntimeOK, BootProgress
    <2>4. pc = "armed" => call.u \in Booted \/ call.missing
      BY DEF RuntimeOK, StartedOrMissing, Booted, TypeOK, Call
    <2>5. ~MetFailure => call.u \in Booted'
      <3>1. ~MetFailure => call.hits = 0 /\ ~call.missing
        BY DEF MetFailure, TypeOK, Call
      <3> QED
        BY <1>3, <1>5, <2>1, <2>3, <2>4, <3>1 DEF BootArmed
    <2> QED
      BY <2>1, <2>2, <2>5 DEF BootProgress
  <1>6. CASE Begin
    <2>1. ASSUME BootBegin PROVE BootProgress'
      <3>1. /\ call'.todo = {u \in Units : Definition(u) = "Pair"} /\ pc' = "bootNext" /\ UNCHANGED hostVars
        BY <2>1 DEF BootBegin, NoCall
      <3>2. \A v \in Units \ call'.todo : v \in Booted'
        BY <3>1 DEF Booted, Definition, hostVars, durableVars
      <3>3. call'.hits = 0 /\ call'.op = "boot"
        BY <2>1 DEF BootBegin, NoCall
      <3> QED
        BY <3>1, <3>2, <3>3 DEF BootProgress
    <2>2. ASSUME ~BootBegin PROVE call'.op # "boot"
      <3>1. CASE UNCHANGED <<pc, call>>
        BY <1>6, <2>2, <3>1 DEF Begin, DefineBegin, DefineRefused, RemoveBegin, IdleIsNone
      <3> QED
        BY <1>6, <2>2, <3>1, BeginStep
    <2> QED
      BY <1>6, <2>1, <2>2 DEF BootProgress
  <1> QED
    BY <1>1, <1>2, <1>4, <1>5, <1>6 DEF Boot

-------------------------------------------------------------------------------
(* What happens by itself.                                                 *)

\* While a call runs, PID 1, the kernel and users arm nothing but what a
\* start job of nasmount's asked for, stop no trigger, and mount nothing but
\* a share behind a live trigger.
LEMMA Drift ==
    ASSUME TypeOK, Environment, pc # "idle", NEW v \in Units
    PROVE  /\ UNCHANGED <<mountHalf, autoHalf, creds, idRec, pc, call>>
           /\ nextInst' \in {nextInst, nextInst + 1}
           /\ job'[v] => job[v]
           /\ loaded'[v] \in {loaded[v], NoFile} \/ job[v]
           /\ \/ trig'[v] = trig[v]
              \/ /\ ~Armed(v) /\ ~Occupied(v) /\ job[v] /\ over'[v] = over[v]
                 /\ trig'[v].by = "tool" /\ trig'[v].id = nextInst /\ nextInst' = nextInst + 1
           /\ \/ over'[v] = over[v]
              \/ over'[v] = NoMount /\ Armed(v) /\ trig'[v] = trig[v]
              \/ /\ Armed(v) /\ trig'[v] = trig[v] /\ ~Occupied(v)
                 /\ over'[v].fs = "cifs" /\ over'[v].src = trig[v].share
                 /\ over'[v].id = nextInst /\ nextInst' = nextInst + 1
                 /\ EagerCross \/ pc \notin ArmWindow
  <1> USE DEF TypeOK, HostTypeOK
  <1>1. PICK u \in Units : Ambient(u)
    BY DEF Environment
  <1>2. UNCHANGED <<pc, call>>
    BY DEF Environment, armVars
  <1>3. CASE CrossTrigger(u) /\ (EagerCross \/ pc \notin ArmWindow)
    BY <1>2, <1>3 DEF CrossTrigger, durableVars
  <1>4. CASE Expire(u)
    BY <1>2, <1>4 DEF Expire, durableVars
  <1>5. CASE RemoveDirectory(u) \/ MakeDirectory(u)
    BY <1>2, <1>5 DEF RemoveDirectory, MakeDirectory, systemdVars
  <1>6. CASE RunJob(u)
    BY <1>2, <1>6 DEF RunJob, StartEffect, StartSucceeds, StartTakesEffect, durableVars
  <1>7. CASE CollectUnit(u)
    BY <1>2, <1>7 DEF CollectUnit, durableVars
  <1> QED
    BY <1>1, <1>3, <1>4, <1>5, <1>6, <1>7 DEF Ambient

\* Between calls the administrator may also stop, start, mount and unmount.
LEMMA IdleDrift ==
    ASSUME TypeOK, Environment, pc = "idle", NEW v \in Units
    PROVE  /\ UNCHANGED <<mountHalf, autoHalf, creds, idRec, pc, call>>
           /\ nextInst' \in {nextInst, nextInst + 1}
           /\ job'[v] => job[v]
           /\ \/ trig'[v] = trig[v]
              \/ trig'[v] = NoTrigger /\ over'[v] = NoMount
              \/ /\ ~Armed(v) /\ ~Occupied(v) /\ over'[v] = over[v]
                 /\ trig'[v].by = "admin" \/ (job[v] /\ trig'[v].by = "tool")
                 /\ trig'[v].id = nextInst /\ nextInst' = nextInst + 1
           /\ \/ over'[v] = over[v]
              \/ over'[v] = NoMount
              \/ /\ trig'[v] = trig[v] /\ ~Occupied(v) /\ over'[v].fs # "none"
                 /\ over'[v].id = nextInst /\ nextInst' = nextInst + 1
  <1> USE DEF TypeOK, HostTypeOK
  <1>1. PICK u \in Units : Ambient(u) \/ Admin(u)
    BY OperationsAssumption DEF Environment
  <1>2. UNCHANGED <<pc, call>>
    BY DEF Environment, armVars
  <1>3. CASE CrossTrigger(u) \/ Expire(u) \/ RemoveDirectory(u) \/ MakeDirectory(u) \/ CollectUnit(u)
    BY <1>2, <1>3 DEF CrossTrigger, Expire, RemoveDirectory, MakeDirectory, CollectUnit, durableVars, systemdVars
  <1>4. CASE RunJob(u)
    BY <1>2, <1>4 DEF RunJob, StartEffect, StartSucceeds, StartTakesEffect, durableVars
  <1>5. CASE AdminStart(u)
    BY <1>2, <1>5 DEF AdminStart, StartEffect, StartSucceeds, StartTakesEffect, durableVars
  <1>6. CASE AdminStop(u) \/ AdminUnmount(u)
    BY <1>2, <1>6 DEF AdminStop, AdminUnmount, StopAutomountEffect, StopMountEffect, durableVars
  <1>7. CASE AdminMount(u)
    BY <1>2, <1>7 DEF AdminMount, durableVars
  <1> QED
    BY <1>1, <1>3, <1>4, <1>5, <1>6, <1>7 DEF Ambient, Admin

\* All of it keeps ids growing and records honest.
LEMMA RuntimeDriftHost ==
    ASSUME RuntimeInv, Environment
    PROVE  InstancesBelow' /\ RuntimeShape' /\ RecordsOurs'
  <1> USE DEF RuntimeInv, PromiseInv, FilesConsistent
  <1>1. \A v \in Units :
          /\ UNCHANGED <<idRec, pc, call>>
          /\ nextInst' \in {nextInst, nextInst + 1}
          /\ \/ trig'[v] = trig[v]
             \/ trig'[v] = NoTrigger /\ over'[v] = NoMount
             \/ /\ ~Armed(v) /\ ~Occupied(v) /\ over'[v] = over[v]
                /\ trig'[v].by \in {"admin", "tool"}
                /\ trig'[v].id = nextInst /\ nextInst' = nextInst + 1
          /\ \/ over'[v] = over[v]
             \/ over'[v] = NoMount
             \/ /\ trig'[v] = trig[v] /\ ~Occupied(v)
                /\ over'[v].id = nextInst /\ nextInst' = nextInst + 1
    <2>1. CASE pc = "idle"
      BY <2>1, IdleDrift
    <2>2. CASE pc # "idle"
      BY <2>2, Drift
    <2> QED
      BY <2>1, <2>2
  <1>2. /\ nextInst \in Nat /\ nextInst > UnderId /\ call.started < nextInst /\ call.started \in Nat
        /\ \A v \in Units : /\ trig[v].id \in Nat /\ over[v].id \in Nat /\ idRec[v] \in Nat
                            /\ trig[v].id < nextInst /\ over[v].id < nextInst /\ idRec[v] < nextInst
    BY DEF TypeOK, HostTypeOK, Trigger, Mount, Call, RuntimeOK, InstancesBelow
  <1>3. PICK w \in Units : TRUE
    BY HostAssumption
  <1>4. nextInst' \in {nextInst, nextInst + 1} /\ UNCHANGED <<idRec, pc, call>>
    BY <1>1, <1>3
  <1>5. ASSUME NEW v \in Units
        PROVE  trig'[v].id < nextInst' /\ over'[v].id < nextInst' /\ idRec'[v] < nextInst'
    BY <1>1, <1>2, <1>4 DEF NoTrigger, NoMount, UnderId
  <1>6. InstancesBelow'
    BY <1>2, <1>4, <1>5 DEF InstancesBelow, UnderId
  <1>7. RuntimeShape'
    BY <1>1, <1>2 DEF RuntimeOK, RuntimeShape, Armed, Occupied, NoTrigger, NoMount, UnderId
  <1>8. ASSUME NEW v \in Units
        PROVE  /\ trig'[v].id # 0 /\ idRec[v] = trig'[v].id => trig'[v].by = "tool"
               /\ over'[v].fs # "none" /\ idRec[v] = over'[v].id =>
                    /\ trig'[v].by # "admin"
                    /\ over'[v].fs # "none" => over'[v].fs = "cifs" /\ trig'[v].by = "tool"
    <2>1. /\ trig[v].id # 0 /\ idRec[v] = trig[v].id => trig[v].by = "tool"
          /\ over[v].fs # "none" /\ idRec[v] = over[v].id =>
               /\ trig[v].by # "admin"
               /\ over[v].fs # "none" => over[v].fs = "cifs" /\ trig[v].by = "tool"
      BY DEF RuntimeOK, RecordsOurs, OnlyOurs, Armed, Occupied
    <2>2. idRec[v] < nextInst /\ idRec[v] \in Nat /\ nextInst \in Nat
      BY <1>2
    <2> QED
      BY <1>1, <2>1, <2>2 DEF NoTrigger, NoMount, Occupied
  <1>9. RecordsOurs'
    BY <1>4, <1>8 DEF RecordsOurs, OnlyOurs, Armed, Occupied
  <1> QED
    BY <1>6, <1>7, <1>9

\* And it leaves true what the call under way has seen or done.
LEMMA RuntimeDriftCall ==
    ASSUME RuntimeInv, Environment
    PROVE  /\ OwnAfterWalk' /\ SnapshotTrue' /\ FaultlessSnapshot' /\ RecheckAfterFault'
           /\ StopOurs' /\ StartedOrMissing' /\ RoutinesMatchCall' /\ HalvesWritten'
           /\ NothingStarted' /\ BootProgress'
  <1> USE DEF RuntimeInv, PromiseInv, FilesConsistent
  <1>1. CASE pc = "idle"
    <2>1. UNCHANGED <<pc, call>>
      BY DEF Environment, armVars
    <2>2. pc' \notin SubroutinePcs \cup DefinePcs \cup RemovePcs \cup {"bootNext"} /\ call'.op = "none"
      BY <1>1, <2>1 DEF IdleIsNone, SubroutinePcs, InspectPcs, StopPcs, ArmPcs, DefinePcs, RemovePcs
    <2> QED
      BY <2>2 DEF OwnAfterWalk, AfterWalk, SnapshotTrue, FaultlessSnapshot, RecheckAfterFault, StopOurs, StartedOrMissing,
                  RoutinesMatchCall, Stopping, HalvesWritten, NothingStarted, BootProgress, Seen, MountRead, MountKnown, Decides,
                  SubroutinePcs, InspectPcs, StopPcs, ArmPcs, DefinePcs, RemovePcs
  <1>2. CASE pc # "idle"
    <2> DEFINE u == call.u
    <2>1. /\ UNCHANGED <<mountHalf, autoHalf, creds, idRec, pc, call>>
          /\ \/ trig'[u] = trig[u]
             \/ ~Armed(u) /\ ~Occupied(u) /\ over'[u] = over[u] /\ trig'[u].by = "tool" /\ trig'[u].id = nextInst
          /\ \/ over'[u] = over[u]
             \/ over'[u] = NoMount /\ Armed(u) /\ trig'[u] = trig[u]
             \/ Armed(u) /\ trig'[u] = trig[u] /\ ~Occupied(u) /\ over'[u].fs = "cifs"
      BY <1>2, Drift DEF TypeOK, Call
    <2>2. nextInst # 0 /\ (Armed(u) => trig[u].by \in {"tool", "admin"})
      BY DEF RuntimeOK, InstancesBelow, RuntimeShape, Armed, TypeOK, HostTypeOK, Trigger, Call, UnderId
    <2>3. OwnAfterWalk'
      BY <2>1, <2>2 DEF RuntimeOK, OwnAfterWalk, AfterWalk, OnlyOurs, Armed, Occupied, NoMount
    <2>4. SnapshotTrue' /\ FaultlessSnapshot'
      BY <2>1, <2>2 DEF RuntimeOK, SnapshotTrue, FaultlessSnapshot, Armed, Occupied, NoMount
    <2>5. StopOurs' /\ StartedOrMissing'
      BY <2>1, <2>2 DEF RuntimeOK, StopOurs, StartedOrMissing, Armed, Occupied, NoMount
    <2>6. RecheckAfterFault' /\ RoutinesMatchCall' /\ HalvesWritten' /\ NothingStarted'
      BY <2>1 DEF RuntimeOK, RecheckAfterFault, RoutinesMatchCall, Stopping, HalvesWritten, NothingStarted
    <2>7. \A v \in Booted : v \in Booted'
      <3> SUFFICES ASSUME NEW v \in Booted PROVE v \in Booted'
        OBVIOUS
      <3>1. v \in Units
        BY DEF Booted
      <3>2. /\ UNCHANGED <<mountHalf, autoHalf, creds>>
            /\ Armed(v) => trig'[v] = trig[v]
            /\ Occupied(v) => over'[v] = over[v] \/ Armed(v)
        BY <1>2, <3>1, Drift
      <3> QED
        BY <3>1, <3>2 DEF Booted, Definition, Armed, Occupied
    <2>8. BootProgress'
      BY <2>1, <2>7 DEF RuntimeOK, BootProgress
    <2> QED
      BY <2>3, <2>4, <2>5, <2>6, <2>8
  <1> QED
    BY <1>1, <1>2

-------------------------------------------------------------------------------
(* The four reads of inspectRuntime.                                       *)

\* A read changes the snapshot only, and may count a failure.
LEMMA InspectLocals ==
    ASSUME TypeOK, InspectRuntime
    PROVE  /\ UNCHANGED hostVars
           /\ pc \in InspectPcs /\ pc' \in {"readMountinfo", "showMount", "readIds", call.site}
           /\ call'.op = call.op /\ call'.u = call.u /\ call'.id = call.id /\ call'.what = call.what
           /\ call'.site = call.site /\ call'.started = call.started /\ call'.safe = call.safe
           /\ call'.mountStopped = call.mountStopped /\ call'.mayRemoveUnits = call.mayRemoveUnits
           /\ call'.todo = call.todo /\ call'.hit = call.hit /\ call'.ok = call.ok
           /\ call'.missing = call.missing
           /\ call'.hits \in {call.hits, call.hits + 1}
  <1> USE DEF TypeOK, Call, InspectPcs
  <1>1. CASE ShowAutomount
    BY <1>1 DEF ShowAutomount
  <1>2. CASE ReadMountinfo
    BY <1>2 DEF ReadMountinfo
  <1>3. CASE ShowMount
    BY <1>3 DEF ShowMount
  <1>4. CASE ReadIds
    BY <1>4 DEF ReadIds
  <1> QED
    BY <1>1, <1>2, <1>3, <1>4 DEF InspectRuntime

\* A call's snapshot is one.
LEMMA SnapType == ASSUME TypeOK PROVE call \in Call /\ call.snap \in RuntimeSnapshot
  BY DEF TypeOK, Call

\* What each read puts in the snapshot.
LEMMA AutomountSeen ==
    ASSUME TypeOK, ShowAutomount
    PROVE  /\ pc = "showAutomount" /\ pc' = "readMountinfo"
           /\ \/ call'.snap.automount = IF Armed(call.u) THEN "Active" ELSE "Inactive"
              \/ call'.snap.automount = "Indeterminate" /\ call'.hits = call.hits + 1
  <1>1. AutomountAxis("active") = "Active" /\ AutomountAxis("inactive") = "Inactive"
    BY DEF AutomountAxis
  <1>2. AutomountAxis(AutomountActiveState(call.u)) = IF Armed(call.u) THEN "Active" ELSE "Inactive"
    BY <1>1 DEF AutomountActiveState
  <1> QED
    BY <1>2 DEF ShowAutomount, TypeOK, Call, RuntimeSnapshot

\* mountinfo.
LEMMA MountSeen ==
    ASSUME TypeOK, ReadMountinfo
    PROVE  /\ pc = "readMountinfo" /\ call'.snap.automount = call.snap.automount
           /\ \/ /\ pc' = "showMount"
                 /\ LET c == ClassifyMountEntries(MountinfoEntries(call.u), call.what)
                    IN  call'.snap.mount = c.mount /\ call'.snap.verification = c.verification
              \/ /\ pc' = "readIds"
                 /\ call'.snap.mount = "Indeterminate" /\ call'.hits = call.hits + 1
  <1> DEFINE c == ClassifyMountEntries(MountinfoEntries(call.u), call.what)
             m == c.mount
             w == c.verification
  <1> HIDE DEF m, w
  <1>1. \/ pc' = "showMount" /\ call' = [call EXCEPT !.snap.mount = m, !.snap.verification = w]
        \/ /\ pc' = "readIds"
           /\ call' = [call EXCEPT !.snap.mount = "Indeterminate", !.snap.verification = "Indeterminate",
                                   !.hits = call.hits + 1]
    BY DEF ReadMountinfo, m, w
  <1>2. /\ call'.snap.automount = call.snap.automount
        /\ \/ pc' = "showMount" /\ call'.snap.mount = m /\ call'.snap.verification = w
           \/ pc' = "readIds" /\ call'.snap.mount = "Indeterminate" /\ call'.hits = call.hits + 1
    <2>1. \/ pc' = "showMount" /\ call'.snap = [call.snap EXCEPT !.mount = m, !.verification = w]
          \/ /\ pc' = "readIds"
             /\ call'.snap = [call.snap EXCEPT !.mount = "Indeterminate", !.verification = "Indeterminate"]
             /\ call'.hits = call.hits + 1
      BY <1>1, SnapType DEF Call
    <2> QED
      BY <2>1, SnapType DEF RuntimeSnapshot
  <1> QED
    BY <1>2 DEF ReadMountinfo, m, w

\* PID 1's view of the mount.
LEMMA MountConfirmed ==
    ASSUME TypeOK, ShowMount
    PROVE  /\ pc = "showMount" /\ pc' = "readIds" /\ call'.snap.automount = call.snap.automount
           /\ \/ IF Occupied(call.u) <=> call.snap.mount = "Present"
                 THEN /\ call'.snap.mount = call.snap.mount
                      /\ call'.snap.verification = call.snap.verification
                 ELSE call'.snap.mount = "Indeterminate"
              \/ call'.snap.mount = "Indeterminate" /\ call'.hits = call.hits + 1
  <1> DEFINE s == [mount |-> call.snap.mount, verification |-> call.snap.verification]
             c == MountAxis(s, MountActiveState(call.u))
             m == c.mount
             w == c.verification
  <1>1. IF Occupied(call.u) <=> call.snap.mount = "Present"
        THEN m = call.snap.mount /\ w = call.snap.verification
        ELSE m = "Indeterminate"
    <2>1. MountActiveState(call.u) = IF Occupied(call.u) THEN "active" ELSE "inactive"
      BY DEF MountActiveState
    <2>2. c = IF Occupied(call.u) <=> call.snap.mount = "Present" THEN s ELSE Unknown
      BY <2>1 DEF MountAxis
    <2> QED
      BY <2>2 DEF Unknown
  <1>2. /\ pc = "showMount" /\ pc' = "readIds"
        /\ \/ call' = [call EXCEPT !.snap.mount = m, !.snap.verification = w]
           \/ call' = [call EXCEPT !.snap.mount = "Indeterminate", !.snap.verification = "Indeterminate",
                                   !.hits = call.hits + 1]
    BY DEF ShowMount
  <1> HIDE DEF m, w
  <1>3. /\ call'.snap.automount = call.snap.automount
        /\ \/ call'.snap.mount = m /\ call'.snap.verification = w
           \/ call'.snap.mount = "Indeterminate" /\ call'.hits = call.hits + 1
    <2>1. \/ call'.snap = [call.snap EXCEPT !.mount = m, !.verification = w]
          \/ /\ call'.snap = [call.snap EXCEPT !.mount = "Indeterminate", !.verification = "Indeterminate"]
             /\ call'.hits = call.hits + 1
      BY <1>2, SnapType DEF Call
    <2> QED
      BY <2>1, SnapType DEF RuntimeSnapshot
  <1> QED
    BY <1>1, <1>2, <1>3

\* The id on record compared with the topmost mount's.
LEMMA TrustSeen ==
    ASSUME TypeOK, ReadIds
    PROVE  /\ pc = "readIds" /\ pc' = call.site /\ call'.snap.automount = call.snap.automount
           /\ call'.snap.mount = call.snap.mount /\ call'.snap.verification = call.snap.verification
           /\ call'.snap.trust = "Trusted" =>
                 call.snap.automount = "Active" /\ idRec[call.u] # 0 /\ idRec[call.u] = UniqueMountId(call.u)
  <1>1. PICK n \in {UniqueMountId(call.u), 0} :
           LET t == ActivationTrust(call.snap.automount, idRec[call.u], n)
           IN  \/ call' = [call EXCEPT !.snap.trust = t]
               \/ call' = [call EXCEPT !.snap.trust = t, !.hits = call.hits + 1]
    BY DEF ReadIds
  <1> DEFINE t == ActivationTrust(call.snap.automount, idRec[call.u], n)
  <1>2. t = "Trusted" =>
          call.snap.automount = "Active" /\ idRec[call.u] # 0 /\ idRec[call.u] = UniqueMountId(call.u)
    BY <1>1 DEF ActivationTrust
  <1>3. \/ call' = [call EXCEPT !.snap.trust = t]
        \/ call' = [call EXCEPT !.snap.trust = t, !.hits = call.hits + 1]
    BY <1>1
  <1> HIDE DEF t
  <1>4. /\ call'.snap.automount = call.snap.automount /\ call'.snap.mount = call.snap.mount
        /\ call'.snap.verification = call.snap.verification /\ call'.snap.trust = t
    <2>1. call'.snap = [call.snap EXCEPT !.trust = t]
      BY <1>3, SnapType DEF Call
    <2> QED
      BY <2>1, SnapType DEF RuntimeSnapshot
  <1> QED
    BY <1>2, <1>4 DEF ReadIds

\* What mountinfo shows: the oldest entry at the path.
LEMMA MountinfoVerdicts ==
    ASSUME TypeOK, NEW u \in Units, NEW what
    PROVE  LET c == ClassifyMountEntries(MountinfoEntries(u), what)
           IN  /\ \/ c.mount = "Absent" /\ (Occupied(u) => Armed(u))
                  \/ c.mount = "Present" /\ ~Armed(u) /\ Occupied(u)
               /\ c.mount = "Present" /\ c.verification = "Match" => over[u].fs = "cifs" /\ over[u].src = what
  <1> DEFINE e == MountinfoEntries(u)
             c == ClassifyMountEntries(e, what)
  <1>1. CASE Armed(u)
    <2>1. e # <<>> /\ Head(e).fs = "autofs"
      BY <1>1 DEF MountinfoEntries
    <2> QED
      BY <1>1, <2>1 DEF ClassifyMountEntries, Unmounted
  <1>2. CASE ~Armed(u) /\ ~Occupied(u)
    <2>1. e = <<>>
      BY <1>2 DEF MountinfoEntries
    <2> QED
      BY <1>2, <2>1 DEF ClassifyMountEntries, Unmounted
  <1>3. CASE ~Armed(u) /\ Occupied(u)
    <2>1. e # <<>> /\ Head(e).fs = over[u].fs /\ Head(e).src = over[u].src
      BY <1>3 DEF MountinfoEntries
    <2>2. over[u].fs # "autofs"
      BY DEF TypeOK, HostTypeOK, Mount
    <2> QED
      BY <1>3, <2>1, <2>2 DEF ClassifyMountEntries, Unmounted, Mounted
  <1> QED
    BY <1>1, <1>2, <1>3

\* So what the snapshot says of the runtime is true when it is read.
LEMMA RuntimeInspectSnapshot ==
    ASSUME RuntimeInv, InspectRuntime
    PROVE  SnapshotTrue' /\ FaultlessSnapshot'
  <1> USE DEF RuntimeInv, PromiseInv, FilesConsistent
  <1> DEFINE u == call.u
  <1>1. /\ UNCHANGED hostVars /\ u \in Units
        /\ call'.u = u /\ call'.what = call.what /\ call'.site = call.site
        /\ call'.hits \in {call.hits, call.hits + 1} /\ call.hits \in Nat
        /\ call.site \in Decides
    BY InspectLocals DEF TypeOK, Call, Decides
  <1>2. /\ UNCHANGED <<trig, over, idRec>>
        /\ Armed(u)' = Armed(u) /\ Occupied(u)' = Occupied(u)
    BY <1>1 DEF hostVars, systemdVars, Armed, Occupied
  <1>3. CASE ShowAutomount
    <2>1. /\ pc' = "readMountinfo"
          /\ \/ call'.snap.automount = IF Armed(u) THEN "Active" ELSE "Inactive"
             \/ call'.snap.automount = "Indeterminate" /\ call'.hits = call.hits + 1
      BY <1>3, AutomountSeen
    <2> QED
      BY <1>1, <1>2, <2>1 DEF SnapshotTrue, FaultlessSnapshot, Seen, MountRead, MountKnown, Decides, Armed
  <1>4. CASE ReadMountinfo
    <2> DEFINE c == ClassifyMountEntries(MountinfoEntries(u), call.what)
               m == c.mount
               w == c.verification
    <2>1. /\ pc = "readMountinfo" /\ call'.snap.automount = call.snap.automount
          /\ \/ pc' = "showMount" /\ call'.snap.mount = m /\ call'.snap.verification = w
             \/ pc' = "readIds" /\ call'.snap.mount = "Indeterminate" /\ call'.hits = call.hits + 1
      BY <1>4, MountSeen
    <2>2. /\ \/ m = "Absent" /\ (Occupied(u) => Armed(u))
             \/ m = "Present" /\ ~Armed(u) /\ Occupied(u)
          /\ m = "Present" /\ w = "Match" => over[u].fs = "cifs" /\ over[u].src = call.what
      BY <1>1, MountinfoVerdicts
    <2> HIDE DEF m, w
    <2>3. call.snap.automount = "Active" => Armed(u)
      BY <2>1 DEF RuntimeOK, SnapshotTrue, Seen
    <2>4. call.hits = 0 => call.snap.automount # "Indeterminate"
      BY <2>1 DEF RuntimeOK, FaultlessSnapshot, Seen
    <2> QED
      BY <1>1, <1>2, <2>1, <2>2, <2>3, <2>4
      DEF SnapshotTrue, FaultlessSnapshot, Seen, MountRead, MountKnown, Decides, Armed, Occupied
  <1>5. CASE ShowMount
    <2>1. /\ pc = "showMount" /\ pc' = "readIds" /\ call'.snap.automount = call.snap.automount
          /\ \/ IF Occupied(u) <=> call.snap.mount = "Present"
                THEN /\ call'.snap.mount = call.snap.mount
                     /\ call'.snap.verification = call.snap.verification
                ELSE call'.snap.mount = "Indeterminate"
             \/ call'.snap.mount = "Indeterminate" /\ call'.hits = call.hits + 1
      BY <1>5, MountConfirmed
    <2>2. /\ call.snap.automount = "Active" => Armed(u)
          /\ call.snap.mount = "Present" => ~Armed(u) /\ Occupied(u)
          /\ call.snap.mount = "Present" /\ call.snap.verification = "Match" =>
               over[u].fs = "cifs" /\ over[u].src = call.what
          /\ call.snap.mount = "Absent" /\ Occupied(u) => Armed(u)
      BY <2>1 DEF RuntimeOK, SnapshotTrue, Seen, MountRead
    <2>3. call.hits = 0 => call.snap.automount # "Indeterminate" /\ call.snap.mount # "Indeterminate"
      BY <2>1 DEF RuntimeOK, FaultlessSnapshot, Seen, MountRead
    <2>4. call.snap.mount \in {"Present", "Absent", "Indeterminate"}
      BY SnapType DEF RuntimeSnapshot, MountStates
    <2> QED
      BY <1>1, <1>2, <2>1, <2>2, <2>3, <2>4
      DEF SnapshotTrue, FaultlessSnapshot, Seen, MountRead, MountKnown, Decides, Armed, Occupied
  <1>6. CASE ReadIds
    <2>1. /\ pc = "readIds" /\ pc' = call.site /\ call'.snap.automount = call.snap.automount
          /\ call'.snap.mount = call.snap.mount /\ call'.snap.verification = call.snap.verification
          /\ call'.snap.trust = "Trusted" =>
               call.snap.automount = "Active" /\ idRec[u] # 0 /\ idRec[u] = UniqueMountId(u)
      BY <1>6, TrustSeen
    <2>2. /\ call.snap.automount = "Active" => Armed(u)
          /\ call.snap.mount = "Present" => ~Armed(u) /\ Occupied(u)
          /\ call.snap.mount = "Present" /\ call.snap.verification = "Match" =>
               over[u].fs = "cifs" /\ over[u].src = call.what
          /\ call.snap.mount = "Absent" /\ Occupied(u) => Armed(u) /\ over[u].fs = "cifs"
      BY <2>1 DEF RuntimeOK, SnapshotTrue, Seen, MountRead, MountKnown
    <2>3. call.hits = 0 => /\ call.snap.automount # "Indeterminate"
                           /\ call.snap.mount = "Indeterminate" => Armed(u)
      BY <2>1 DEF RuntimeOK, FaultlessSnapshot, Seen, MountRead, MountKnown
    <2>4. Armed(u) /\ idRec[u] = UniqueMountId(u) => trig[u].by = "tool"
      <3>1. /\ Armed(u) /\ idRec[u] = trig[u].id => trig[u].by = "tool"
            /\ Occupied(u) /\ idRec[u] = over[u].id => OnlyOurs(u)
        BY <1>1 DEF RuntimeOK, RecordsOurs
      <3>2. CASE Occupied(u)
        BY <3>1, <3>2 DEF UniqueMountId, OnlyOurs
      <3>3. CASE ~Occupied(u) /\ Armed(u)
        BY <3>1, <3>3 DEF UniqueMountId
      <3> QED
        BY <3>2, <3>3
    <2>5. call'.hits = 0 => call.hits = 0
      BY <1>1
    <2> QED
      BY <1>1, <1>2, <2>1, <2>2, <2>3, <2>4
      DEF SnapshotTrue, FaultlessSnapshot, Seen, MountRead, MountKnown, Decides, Armed, Occupied
  <1> QED
    BY <1>3, <1>4, <1>5, <1>6 DEF InspectRuntime

\* And the reads disturb nothing else.
LEMMA RuntimeInspect == ASSUME RuntimeInv, InspectRuntime PROVE RuntimeOK'
  <1> USE DEF RuntimeInv, PromiseInv, FilesConsistent
  <1>1. /\ UNCHANGED hostVars
        /\ pc \in InspectPcs /\ pc' \in {"readMountinfo", "showMount", "readIds", call.site}
        /\ call'.op = call.op /\ call'.u = call.u /\ call'.id = call.id /\ call'.what = call.what
        /\ call'.site = call.site /\ call'.started = call.started
        /\ call'.todo = call.todo /\ call'.hit = call.hit
        /\ call'.hits \in {call.hits, call.hits + 1} /\ call.hits \in Nat
    BY InspectLocals DEF TypeOK, Call
  <1>2. call.site \in {"decideStop", "decideArm", "decideRecheck"}
        /\ call.op \in {"none", "define", "remove", "boot", "purge"}
    BY DEF TypeOK, Call
  <1>3. InstancesBelow' /\ RuntimeShape' /\ RecordsOurs'
    BY <1>1 DEF RuntimeOK, InstancesBelow, RuntimeShape, RecordsOurs, OnlyOurs, Armed, Occupied, hostVars, systemdVars
  <1>4. OwnAfterWalk' /\ RecheckAfterFault'
    BY <1>1, <1>2 DEF RuntimeOK, OwnAfterWalk, AfterWalk, RecheckAfterFault, OnlyOurs, Armed, Occupied, InspectPcs,
                      hostVars, systemdVars
  <1>5. StopOurs' /\ StartedOrMissing' /\ NothingStarted'
    BY <1>1, <1>2 DEF StopOurs, StartedOrMissing, NothingStarted
  <1>6. RoutinesMatchCall'
    BY <1>1, <1>2 DEF RuntimeOK, RoutinesMatchCall, Stopping, InspectPcs, StopPcs, ArmPcs
  <1>7. HalvesWritten'
    BY <1>1, <1>2 DEF RuntimeOK, HalvesWritten, SubroutinePcs, InspectPcs, hostVars, durableVars
  <1>8. Booted' = Booted
    BY <1>1 DEF Booted, Definition, Armed, Occupied, hostVars, durableVars, systemdVars
  <1>9. BootProgress'
    BY <1>1, <1>2, <1>8 DEF RuntimeOK, BootProgress, InspectPcs
  <1> QED
    BY <1>3, <1>4, <1>5, <1>6, <1>7, <1>9, RuntimeInspectSnapshot DEF RuntimeOK

-------------------------------------------------------------------------------
(* safeStop.                                                               *)

\* Taking instances away, a trigger never without the mount behind it, keeps
\* ids and records in order.
LEMMA FewerInstances ==
    ASSUME RuntimeInv, nextInst' = nextInst, call'.started \in Nat, call'.started < nextInst,
           \A v \in Units : /\ trig'[v] \in {trig[v], NoTrigger} /\ over'[v] \in {over[v], NoMount}
                            /\ idRec'[v] \in {idRec[v], 0}
                            /\ trig'[v] # trig[v] /\ Armed(v) => over'[v] = NoMount
    PROVE  InstancesBelow' /\ RuntimeShape' /\ RecordsOurs'
  <1> USE DEF RuntimeInv, PromiseInv, FilesConsistent
  <1>1. /\ nextInst \in Nat /\ nextInst > UnderId
        /\ \A v \in Units : /\ trig[v].id < nextInst /\ over[v].id < nextInst /\ idRec[v] < nextInst
                            /\ trig[v].by = "nobody" <=> trig[v].id = 0
                            /\ Occupied(v) => over[v].id # 0
    BY DEF TypeOK, HostTypeOK, RuntimeOK, InstancesBelow, RuntimeShape
  <1>2. InstancesBelow'
    BY <1>1 DEF InstancesBelow, NoTrigger, NoMount, UnderId
  <1>3. RuntimeShape'
    BY <1>1 DEF RuntimeShape, Occupied, NoTrigger, NoMount
  <1>4. ASSUME NEW v \in Units
        PROVE  /\ trig'[v].id # 0 /\ idRec'[v] = trig'[v].id => trig'[v].by = "tool"
               /\ over'[v].fs # "none" /\ idRec'[v] = over'[v].id =>
                    /\ trig'[v].by # "admin"
                    /\ over'[v].fs # "none" => over'[v].fs = "cifs" /\ trig'[v].by = "tool"
    <2>1. /\ trig[v].id # 0 /\ idRec[v] = trig[v].id => trig[v].by = "tool"
          /\ over[v].fs # "none" /\ idRec[v] = over[v].id =>
               /\ trig[v].by # "admin"
               /\ over[v].fs # "none" => over[v].fs = "cifs" /\ trig[v].by = "tool"
      BY DEF RuntimeOK, RecordsOurs, OnlyOurs, Armed, Occupied
    <2> QED
      BY <1>1, <2>1 DEF NoTrigger, NoMount, Occupied, Armed
  <1>5. RecordsOurs'
    BY <1>4 DEF RecordsOurs, OnlyOurs, Armed, Occupied
  <1> QED
    BY <1>2, <1>3, <1>5

\* What a stop's verdict says.
LEMMA StopVerdict ==
    ASSUME NEW s \in RuntimeSnapshot
    PROVE  /\ EvaluateStopPrecheck(s) = "ShouldStop" =>
                \/ s.mount = "Present" /\ s.verification = "Match"
                \/ s.mount = "Absent" /\ s.trust = "Trusted"
           /\ EvaluateStopPrecheck(s) = "AlreadyInactive" => s.mount = "Absent" /\ s.automount = "Inactive"
  BY DEF EvaluateStopPrecheck, RuntimeSnapshot, MountStates

\* What safeStop's own steps change.
LEMMA StopLocals ==
    ASSUME TypeOK, SafeStop
    PROVE  /\ pc \in {"decideStop", "stopMount", "stopAutomount"}
           /\ pc' \in {"stopMount", "stopAutomount", "stopped", "refused"}
           /\ UNCHANGED <<durableVars, idRec, loaded, nextInst>>
           /\ call'.op = call.op /\ call'.u = call.u /\ call'.id = call.id /\ call'.what = call.what
           /\ call'.site = call.site /\ call'.started = call.started
           /\ call'.mountStopped = call.mountStopped \/ pc = "stopMount"
           /\ call'.todo = call.todo /\ call'.hit = call.hit /\ call'.ok = call.ok
           /\ \A v \in Units : /\ trig'[v] \in {trig[v], NoTrigger} /\ over'[v] \in {over[v], NoMount}
                               /\ job'[v] => job[v]
                               /\ trig'[v] # trig[v] /\ Armed(v) => over'[v] = NoMount
  <1> USE DEF TypeOK, HostTypeOK, Call, durableVars
  <1>1. CASE DecideStop
    BY <1>1 DEF DecideStop, hostVars, systemdVars
  <1>2. CASE StopMount
    BY <1>2 DEF StopMount, StopMountEffect, systemdVars
  <1>3. CASE StopAutomount
    BY <1>3 DEF StopAutomount, StopAutomountEffect, systemdVars
  <1> QED
    BY <1>1, <1>2, <1>3 DEF SafeStop

\* safeStop stops only what nasmount started, and unmounts only the share.
LEMMA RuntimeStop == ASSUME RuntimeInv, SafeStop PROVE RuntimeOK'
  <1> USE DEF RuntimeInv, PromiseInv, FilesConsistent
  <1> DEFINE u == call.u
  <1>1. /\ pc \in {"decideStop", "stopMount", "stopAutomount"}
        /\ pc' \in {"stopMount", "stopAutomount", "stopped", "refused"}
        /\ UNCHANGED <<durableVars, idRec, nextInst>>
        /\ call'.op = call.op /\ call'.u = u /\ call'.id = call.id /\ call'.what = call.what
        /\ call'.started = call.started
        /\ \A v \in Units : /\ trig'[v] \in {trig[v], NoTrigger} /\ over'[v] \in {over[v], NoMount}
                            /\ trig'[v] # trig[v] /\ Armed(v) => over'[v] = NoMount
    BY StopLocals
  <1>2. call.op \in Stopping /\ u \in Units /\ call.started \in Nat /\ call.started < nextInst
    BY <1>1 DEF RuntimeOK, RoutinesMatchCall, Stopping, InstancesBelow, StopPcs, TypeOK, Call
  <1>3. InstancesBelow' /\ RuntimeShape' /\ RecordsOurs'
    BY <1>1, <1>2, FewerInstances
  <1>4. /\ OwnAfterWalk' /\ SnapshotTrue' /\ FaultlessSnapshot' /\ RecheckAfterFault'
        /\ StartedOrMissing' /\ NothingStarted'
    BY <1>1 DEF OwnAfterWalk, AfterWalk, SnapshotTrue, FaultlessSnapshot, RecheckAfterFault, StartedOrMissing,
                NothingStarted, InspectPcs, Seen, MountRead, MountKnown, Decides
  <1>5. RoutinesMatchCall' /\ HalvesWritten' /\ BootProgress'
    BY <1>1, <1>2 DEF RoutinesMatchCall, Stopping, HalvesWritten, BootProgress, InspectPcs, StopPcs, ArmPcs
  <1>6. StopOurs'
    <2>1. CASE DecideStop
      <3>1. SUFFICES ASSUME pc' = "stopMount" PROVE StopOurs'
        BY <2>1 DEF DecideStop, StopOurs
      <3>2. EvaluateStopPrecheck(call.snap) = "ShouldStop" /\ pc = "decideStop" /\ UNCHANGED <<call, hostVars>>
        BY <2>1, <3>1 DEF DecideStop
      <3>3. \/ call.snap.mount = "Present" /\ call.snap.verification = "Match"
            \/ call.snap.mount = "Absent" /\ call.snap.trust = "Trusted"
        BY <3>2, SnapType, StopVerdict
      <3>4. /\ call.snap.mount = "Present" => ~Armed(u)
            /\ call.snap.mount = "Present" /\ call.snap.verification = "Match" =>
                 over[u].fs = "cifs" /\ over[u].src = call.what
            /\ call.snap.mount = "Absent" /\ Occupied(u) => over[u].fs = "cifs"
            /\ call.snap.trust = "Trusted" => trig[u].by = "tool"
        BY <3>2 DEF RuntimeOK, SnapshotTrue, MountRead, MountKnown, Decides
      <3>5. ~Armed(u) => trig[u].by = "nobody"
        BY <1>2 DEF RuntimeOK, RuntimeShape, Armed
      <3> QED
        BY <3>2, <3>3, <3>4, <3>5 DEF StopOurs, Armed, Occupied, hostVars, systemdVars
    <2>2. CASE StopMount
      <3>1. pc = "stopMount" /\ UNCHANGED trig
        BY <2>2 DEF StopMount, StopMountEffect, systemdVars
      <3> QED
        BY <1>1, <1>2, <3>1 DEF RuntimeOK, StopOurs, Occupied, NoMount
    <2>3. CASE StopAutomount
      <3>1. pc' \in {"stopped", "refused"}
        BY <2>3 DEF StopAutomount
      <3> QED
        BY <3>1 DEF StopOurs
    <2> QED
      BY <2>1, <2>2, <2>3 DEF SafeStop
  <1> QED
    BY <1>3, <1>4, <1>5, <1>6 DEF RuntimeOK

-------------------------------------------------------------------------------
(* armShare.                                                               *)

\* What armShare's own steps change: nothing at another mount point, no file
\* of a definition, and of the call its locals.
LEMMA ArmLocals ==
    ASSUME TypeOK, ArmShare
    PROVE  /\ pc \in ArmPcs /\ pc' \in ArmPcs \cup {"showAutomount"}
           /\ pc' = "showAutomount" => call'.site = "decideRecheck" /\ call'.hits = call.hits + 1
           /\ UNCHANGED <<mountHalf, autoHalf, creds>>
           /\ \A v \in Units \ {call.u} : /\ trig'[v] = trig[v] /\ over'[v] = over[v] /\ dir'[v] = dir[v]
                                          /\ idRec'[v] = idRec[v] /\ loaded'[v] = loaded[v] /\ job'[v] = job[v]
           /\ call'.op = call.op /\ call'.u = call.u /\ call'.id = call.id /\ call'.what = call.what
           /\ call'.mountStopped = call.mountStopped /\ call'.mayRemoveUnits = call.mayRemoveUnits
           /\ call'.todo = call.todo /\ call'.hit = call.hit /\ call'.ok = call.ok
           /\ call'.hits \in {call.hits, call.hits + 1}
  <1> USE DEF TypeOK, HostTypeOK, Call, ArmPcs
  <1>1. CASE DecideArm \/ CheckCredential \/ WalkExisting \/ StatStarted \/ DecideRecheck \/ StatAppeared \/ Compensate
    <2>1. UNCHANGED hostVars
      BY <1>1 DEF DecideArm, CheckCredential, WalkExisting, StatStarted, DecideRecheck, StatAppeared, Compensate
    <2>2. CASE DecideArm \/ CheckCredential \/ WalkExisting
      BY <2>1, <2>2 DEF DecideArm, CheckCredential, WalkExisting, hostVars, durableVars, systemdVars
    <2>3. CASE StatStarted \/ DecideRecheck
      BY <2>1, <2>3 DEF StatStarted, DecideRecheck, hostVars, durableVars, systemdVars
    <2>4. CASE StatAppeared \/ Compensate
      BY <2>1, <2>4 DEF StatAppeared, Compensate, hostVars, durableVars, systemdVars
    <2> QED
      BY <1>1, <2>2, <2>3, <2>4
  <1>2. CASE WalkCreating
    BY <1>2 DEF WalkCreating, systemdVars
  <1>3. CASE Start
    <2>1. \/ UNCHANGED systemdVars
          \/ StartEffect(call.u, "tool") /\ UNCHANGED job
          \/ job' = [job EXCEPT ![call.u] = TRUE] /\ UNCHANGED <<loaded, trig, over, nextInst>>
      BY <1>3 DEF Start
    <2>2. /\ pc' \in {"statStarted", "showAutomount"} /\ UNCHANGED <<durableVars, idRec>>
          /\ \/ /\ pc' = "statStarted"
                /\ call' = [call EXCEPT !.missing = ~Armed(call.u) /\ ~dir[call.u]]
             \/ /\ pc' = "showAutomount"
                /\ call' = [call EXCEPT !.site = "decideRecheck", !.snap = NoSnapshot, !.hits = call.hits + 1]
      BY <1>3 DEF Start
    <2>3. \A v \in Units \ {call.u} : trig'[v] = trig[v] /\ over'[v] = over[v] /\ loaded'[v] = loaded[v] /\ job'[v] = job[v]
      BY <2>1 DEF StartEffect, systemdVars
    <2>4. pc = "start"
      BY <1>3 DEF Start
    <2> QED
      BY <2>2, <2>3, <2>4 DEF durableVars
  <1>4. CASE RecordId \/ ForgetId
    BY <1>4 DEF RecordId, ForgetId, durableVars, systemdVars
  <1>5. CASE StopStarted
    BY <1>5 DEF StopStarted, StopAutomountEffect, durableVars, systemdVars
  <1> QED
    BY <1>1, <1>2, <1>3, <1>4, <1>5 DEF ArmShare

\* The topmost mount's id is below the next one.
LEMMA UniqueMountIdBelow ==
    ASSUME TypeOK, InstancesBelow, NEW u \in Units
    PROVE  UniqueMountId(u) \in Nat /\ UniqueMountId(u) < nextInst
  <1>1. /\ nextInst \in Nat /\ nextInst > UnderId
        /\ trig[u].id \in Nat /\ over[u].id \in Nat
        /\ trig[u].id < nextInst /\ over[u].id < nextInst
    BY DEF TypeOK, HostTypeOK, Trigger, Mount, InstancesBelow
  <1> QED
    BY <1>1 DEF UniqueMountId, UnderId

\* A start leaves the path as it is, or adds a trigger of nasmount's.
LEMMA StartShape ==
    ASSUME TypeOK, Start
    PROVE  /\ UNCHANGED <<durableVars, idRec>> /\ pc = "start" /\ UNCHANGED over
           /\ call'.started = call.started
           /\ \/ UNCHANGED <<trig, nextInst>> /\ (pc' = "statStarted" => Armed(call.u) \/ call'.missing)
              \/ /\ nextInst' = nextInst + 1 /\ ~Armed(call.u)
                 /\ trig'[call.u].id = nextInst /\ trig'[call.u].by = "tool"
                 /\ trig'[call.u].share = Startable(call.u)
  <1> USE DEF TypeOK, HostTypeOK, Call
  <1>1. UNCHANGED <<durableVars, idRec>> /\ pc = "start"
    BY DEF Start
  <1>2. \/ /\ pc' = "statStarted"
           /\ call' = [call EXCEPT !.missing = ~Armed(call.u) /\ ~dir[call.u]]
        \/ /\ pc' = "showAutomount"
           /\ call' = [call EXCEPT !.site = "decideRecheck", !.snap = NoSnapshot, !.hits = call.hits + 1]
    BY DEF Start
  <1>3. call'.started = call.started
    BY <1>2
  <1>6. pc' = "statStarted" => Armed(call.u) \/ dir[call.u] \/ call'.missing
    BY <1>2
  <1>4. CASE StartSucceeds(call.u) /\ StartEffect(call.u, "tool")
    BY <1>1, <1>3, <1>4, <1>6 DEF StartEffect, StartTakesEffect
  <1>5. CASE UNCHANGED <<trig, over, nextInst>> /\ pc' = "showAutomount"
    BY <1>1, <1>3, <1>5
  <1> QED
    BY <1>4, <1>5 DEF Start, systemdVars

\* armShare keeps ids growing and records honest: what it records it found
\* where nothing but its own trigger can be.
LEMMA RuntimeArmHost == ASSUME RuntimeInv, ArmShare PROVE InstancesBelow' /\ RuntimeShape' /\ RecordsOurs'
  <1> USE DEF RuntimeInv, PromiseInv, FilesConsistent
  <1> DEFINE u == call.u
  <1>1. /\ u \in Units /\ call.started \in Nat /\ call.started < nextInst /\ nextInst \in Nat
        /\ nextInst > UnderId
    BY DEF TypeOK, HostTypeOK, Call, RuntimeOK, InstancesBelow
  <1>2. CASE DecideArm \/ CheckCredential \/ WalkCreating \/ WalkExisting \/ DecideRecheck \/ Compensate
    <2>1. UNCHANGED <<idRec, trig, over, nextInst>> /\ call'.started = call.started
      <3>1. CASE DecideArm \/ CheckCredential \/ WalkCreating \/ WalkExisting
        BY <3>1 DEF DecideArm, CheckCredential, WalkCreating, WalkExisting, hostVars, systemdVars, TypeOK, Call
      <3>2. CASE DecideRecheck \/ Compensate
        BY <3>2 DEF DecideRecheck, Compensate, hostVars, systemdVars, TypeOK, Call
      <3> QED
        BY <1>2, <3>1, <3>2
    <2> QED
      BY <1>1, <2>1, FewerInstances
  <1>3. CASE StatStarted \/ StatAppeared
    <2>1. UNCHANGED <<idRec, trig, over, nextInst>> /\ call'.started \in {call.started, UniqueMountId(u)}
      BY <1>3 DEF StatStarted, StatAppeared, hostVars, systemdVars, TypeOK, Call
    <2>2. UniqueMountId(u) \in Nat /\ UniqueMountId(u) < nextInst
      BY <1>1, UniqueMountIdBelow DEF RuntimeOK
    <2> QED
      BY <1>1, <2>1, <2>2, FewerInstances
  <1>4. CASE ForgetId
    <2>1. UNCHANGED <<trig, over, nextInst>> /\ call'.started = call.started
          /\ \A v \in Units : idRec'[v] \in {idRec[v], 0}
      BY <1>1, <1>4 DEF ForgetId, systemdVars, TypeOK, HostTypeOK, Call
    <2> QED
      BY <1>1, <2>1, FewerInstances
  <1>5. CASE StopStarted
    <2>1. UNCHANGED <<idRec, nextInst>> /\ call'.started = call.started
      BY <1>5 DEF StopStarted, StopAutomountEffect, systemdVars, TypeOK, Call
    <2>2. \A v \in Units : /\ trig'[v] \in {trig[v], NoTrigger} /\ over'[v] \in {over[v], NoMount}
                           /\ trig'[v] # trig[v] /\ Armed(v) => over'[v] = NoMount
      BY <1>1, <1>5 DEF StopStarted, StopAutomountEffect, systemdVars, TypeOK, HostTypeOK
    <2> QED
      BY <1>1, <2>1, <2>2, FewerInstances
  <1>6. CASE RecordId
    <2>1. /\ UNCHANGED <<trig, over, nextInst>> /\ call'.started = call.started
          /\ idRec'[u] \in {idRec[u], call.started} /\ \A v \in Units \ {u} : idRec'[v] = idRec[v]
      BY <1>1, <1>6 DEF RecordId, systemdVars, TypeOK, HostTypeOK, Call
    <2>2. OnlyOurs(u)
      BY <1>6 DEF RecordId, RuntimeOK, OwnAfterWalk, AfterWalk
    <2>3. trig[u].by # "nobody" <=> Armed(u)
      BY <1>1 DEF RuntimeOK, RuntimeShape, Armed
    <2>4. trig[u].by \in {"nobody", "tool", "admin"}
      BY <1>1 DEF TypeOK, HostTypeOK, Trigger
    <2>5. InstancesBelow' /\ RuntimeShape'
      BY <1>1, <2>1 DEF RuntimeOK, InstancesBelow, RuntimeShape, Occupied
    <2>6. RecordsOurs'
      BY <1>1, <2>1, <2>2, <2>3, <2>4 DEF RuntimeOK, RecordsOurs, OnlyOurs, Armed, Occupied
    <2> QED
      BY <2>5, <2>6
  <1>7. CASE Start
    <2>1. /\ UNCHANGED <<idRec, over>> /\ call'.started = call.started
          /\ \/ UNCHANGED <<trig, nextInst>>
             \/ /\ nextInst' = nextInst + 1
                /\ trig'[u].id = nextInst /\ trig'[u].by = "tool"
          /\ \A v \in Units \ {u} : trig'[v] = trig[v]
      BY <1>7, StartShape, ArmLocals DEF ArmShare
    <2>2. CASE UNCHANGED <<trig, nextInst>>
      BY <1>1, <2>1, <2>2, FewerInstances
    <2>3. CASE nextInst' = nextInst + 1 /\ trig'[u].id = nextInst /\ trig'[u].by = "tool"
      <3>1. \A v \in Units : /\ trig[v].id \in Nat /\ over[v].id \in Nat /\ idRec[v] \in Nat
                             /\ trig[v].id < nextInst /\ over[v].id < nextInst /\ idRec[v] < nextInst
        BY DEF TypeOK, HostTypeOK, Trigger, Mount, RuntimeOK, InstancesBelow
      <3>2. InstancesBelow'
        BY <1>1, <2>1, <2>3, <3>1 DEF InstancesBelow, UnderId
      <3>3. RuntimeShape'
        BY <1>1, <2>1, <2>3 DEF RuntimeOK, RuntimeShape, Occupied, UnderId
      <3>4. ASSUME NEW v \in Units
            PROVE  /\ trig'[v].id # 0 /\ idRec[v] = trig'[v].id => trig'[v].by = "tool"
                   /\ over[v].fs # "none" /\ idRec[v] = over[v].id =>
                        /\ trig'[v].by # "admin"
                        /\ over[v].fs # "none" => over[v].fs = "cifs" /\ trig'[v].by = "tool"
        <4>1. /\ trig[v].id # 0 /\ idRec[v] = trig[v].id => trig[v].by = "tool"
              /\ over[v].fs # "none" /\ idRec[v] = over[v].id =>
                   /\ trig[v].by # "admin"
                   /\ over[v].fs # "none" => over[v].fs = "cifs" /\ trig[v].by = "tool"
          BY DEF RuntimeOK, RecordsOurs, OnlyOurs, Armed, Occupied
        <4>2. idRec[v] # nextInst
          BY <1>1, <3>1
        <4> QED
          BY <2>1, <2>3, <4>1, <4>2
      <3>5. RecordsOurs'
        BY <2>1, <3>4 DEF RecordsOurs, OnlyOurs, Armed, Occupied
      <3> QED
        BY <3>2, <3>3, <3>5
    <2> QED
      BY <2>1, <2>2, <2>3
  <1> QED
    BY <1>2, <1>3, <1>4, <1>5, <1>6, <1>7 DEF ArmShare

\* What an arm precheck's verdict says.
LEMMA ArmVerdict ==
    ASSUME NEW s \in RuntimeSnapshot
    PROVE  /\ EvaluateArmPrecheck(s) = "AlreadyArmed" =>
                s.mount = "Absent" /\ s.automount = "Active" /\ s.trust = "Trusted"
           /\ EvaluateArmPrecheck(s) = "ReadyToArm" => s.mount = "Absent" /\ s.automount = "Inactive"
           /\ EvaluateArmPrecheck(s) \notin {"AlreadyArmed", "ReadyToArm"} =>
                \/ s.automount \in {"Active", "Indeterminate"}
                \/ s.mount \in {"Present", "Indeterminate"}
  BY DEF EvaluateArmPrecheck, RuntimeSnapshot, MountStates, AutomountStates

\* Once the walk found nothing, only nasmount's own trigger and share appear.
LEMMA ArmOwnAfterWalk == ASSUME RuntimeInv, ArmShare PROVE OwnAfterWalk'
  <1> USE DEF RuntimeInv, PromiseInv, FilesConsistent
  <1> DEFINE u == call.u
  <1>1. u \in Units /\ call'.u = u /\ (~Armed(u) => trig[u].by = "nobody")
        /\ trig \in [Units -> Trigger] /\ over \in [Units -> Mount]
    BY ArmLocals DEF TypeOK, HostTypeOK, Call, RuntimeOK, RuntimeShape, Armed
  <1>2. CASE DecideArm \/ CheckCredential
    <2>1. pc' \in {"armed", "checkCredential", "walk", "needsAttention"}
      BY <1>2 DEF DecideArm, CheckCredential
    <2> QED
      BY <2>1 DEF OwnAfterWalk, AfterWalk, InspectPcs
  <1>3. CASE WalkCreating \/ WalkExisting
    <2>1. pc' = "needsAttention" \/ (~Armed(u) /\ ~Occupied(u) /\ UNCHANGED <<trig, over>> /\ pc' = "start")
      BY <1>3 DEF WalkCreating, WalkExisting, hostVars, systemdVars
    <2> QED
      BY <1>1, <2>1 DEF OwnAfterWalk, AfterWalk, OnlyOurs, Occupied, InspectPcs
  <1>4. CASE Start
    <2>1. /\ UNCHANGED over
          /\ \/ UNCHANGED trig
             \/ trig'[u].by = "tool"
      BY <1>4, StartShape
    <2>2. OnlyOurs(u)
      BY <1>4 DEF Start, RuntimeOK, OwnAfterWalk, AfterWalk
    <2> QED
      BY <1>1, <2>1, <2>2 DEF OwnAfterWalk, OnlyOurs, Occupied
  <1>5. CASE StatStarted \/ RecordId \/ DecideRecheck \/ StatAppeared \/ Compensate \/ ForgetId
    <2>1. UNCHANGED <<trig, over>>
      BY <1>5 DEF StatStarted, RecordId, DecideRecheck, StatAppeared, Compensate, ForgetId, hostVars, systemdVars
    <2>2. OnlyOurs(u)
      BY <1>5 DEF StatStarted, RecordId, DecideRecheck, StatAppeared, Compensate, ForgetId,
                  RuntimeOK, OwnAfterWalk, AfterWalk
    <2> QED
      BY <1>1, <2>1, <2>2 DEF OwnAfterWalk, OnlyOurs, Occupied
  <1>6. CASE StopStarted
    <2>1. OnlyOurs(u)
      BY <1>6 DEF StopStarted, RuntimeOK, OwnAfterWalk, AfterWalk
    <2>2. CASE UNCHANGED systemdVars
      BY <1>1, <2>1, <2>2 DEF OwnAfterWalk, OnlyOurs, Occupied, systemdVars
    <2>3. CASE StopAutomountEffect(u)
      <3>1. trig'[u] = NoTrigger /\ over'[u] = IF Armed(u) THEN NoMount ELSE over[u]
        BY <1>1, <2>3 DEF StopAutomountEffect
      <3>2. Occupied(u) => Armed(u)
        BY <1>1, <2>1 DEF OnlyOurs
      <3> QED
        BY <1>1, <3>1, <3>2 DEF OwnAfterWalk, OnlyOurs, Occupied, NoTrigger, NoMount
    <2> QED
      BY <1>6, <2>2, <2>3 DEF StopStarted
  <1> QED
    BY <1>2, <1>3, <1>4, <1>5, <1>6 DEF ArmShare

\* A start that is reported to have happened has, unless there was nothing
\* to start the trigger on.
LEMMA ArmStarted == ASSUME RuntimeInv, ArmShare PROVE StartedOrMissing'
  <1> USE DEF RuntimeInv, PromiseInv, FilesConsistent
  <1> DEFINE u == call.u
  <1>1. u \in Units /\ call'.u = u
    BY ArmLocals DEF TypeOK, Call
  <1>2. CASE Start
    <2>1. pc' \in {"statStarted", "showAutomount"}
      BY <1>2 DEF Start
    <2>2. pc' = "statStarted" => Armed(u)' \/ call'.missing
      BY <1>1, <1>2, StartShape DEF Armed, RuntimeOK, InstancesBelow, UnderId, TypeOK, HostTypeOK
    <2> QED
      BY <1>1, <2>1, <2>2 DEF StartedOrMissing, Armed
  <1>3. CASE StatStarted
    <2>1. UNCHANGED hostVars /\ pc = "statStarted" /\ call'.missing = call.missing
      BY <1>3 DEF StatStarted, TypeOK, Call
    <2> QED
      BY <1>1, <2>1 DEF RuntimeOK, StartedOrMissing, Armed, hostVars, systemdVars
  <1>4. CASE RecordId
    <2>1. UNCHANGED trig /\ pc = "recordId" /\ pc' \in {"armed", "compensate"} /\ call'.missing = call.missing
      BY <1>4 DEF RecordId, systemdVars, TypeOK, Call
    <2> QED
      BY <1>1, <2>1 DEF RuntimeOK, StartedOrMissing, Armed
  <1>5. CASE DecideArm
    <2>1. UNCHANGED trig /\ pc = "decideArm" /\ pc' \in {"armed", "checkCredential", "needsAttention"}
          /\ (pc' = "armed" => call.snap.automount = "Active")
      BY <1>5, ArmVerdict, SnapType DEF DecideArm, hostVars, systemdVars
    <2> QED
      BY <1>1, <2>1 DEF RuntimeOK, StartedOrMissing, SnapshotTrue, Seen, MountRead, MountKnown, Decides, Armed
  <1>6. CASE ~(Start \/ StatStarted \/ RecordId \/ DecideArm)
    <2>1. pc' \notin {"statStarted", "recordId", "armed"}
      BY <1>6 DEF ArmShare, CheckCredential, WalkCreating, WalkExisting, DecideRecheck, StatAppeared, Compensate,
                  StopStarted, ForgetId
    <2> QED
      BY <2>1 DEF StartedOrMissing
  <1> QED
    BY <1>2, <1>3, <1>4, <1>5, <1>6

\* A second look, and what follows it, only ever comes after a failure.
LEMMA ArmFaults == ASSUME RuntimeInv, ArmShare PROVE RecheckAfterFault' /\ NothingStarted'
  <1> USE DEF RuntimeInv, PromiseInv, FilesConsistent
  <1>1. /\ call.hits \in Nat /\ call'.hits \in {call.hits, call.hits + 1}
        /\ pc' \in ArmPcs \cup {"showAutomount"}
        /\ pc' = "showAutomount" => call'.hits = call.hits + 1
    BY ArmLocals DEF TypeOK, Call
  <1>2. RecheckAfterFault'
    <2>1. pc' \in {"decideRecheck", "statAppeared", "stopStarted", "forgetId"} => call.hits > 0
      <3>1. CASE DecideArm \/ CheckCredential \/ WalkCreating \/ WalkExisting \/ Start
        BY <3>1 DEF DecideArm, CheckCredential, WalkCreating, WalkExisting, Start
      <3>2. CASE StatStarted \/ RecordId \/ StatAppeared \/ ForgetId
        BY <3>2 DEF StatStarted, RecordId, StatAppeared, ForgetId
      <3>3. CASE DecideRecheck
        BY <3>3 DEF DecideRecheck, RuntimeOK, RecheckAfterFault
      <3>4. CASE Compensate
        <4>1. pc = "compensate" /\ (pc' = "stopStarted" => call.started # 0) /\ pc' \in {"stopStarted", "needsAttention"}
          BY <3>4 DEF Compensate
        <4> QED
          BY <1>1, <4>1 DEF RuntimeOK, NothingStarted
      <3>5. CASE StopStarted
        BY <3>5 DEF StopStarted, RuntimeOK, RecheckAfterFault
      <3> QED
        BY <3>1, <3>2, <3>3, <3>4, <3>5 DEF ArmShare
    <2> QED
      BY <1>1, <2>1 DEF RecheckAfterFault, InspectPcs, ArmPcs
  <1>3. NothingStarted'
    <2>1. CASE StatStarted
      BY <1>1, <2>1 DEF StatStarted, NothingStarted, TypeOK, Call
    <2>2. CASE RecordId
      BY <1>1, <2>2 DEF RecordId, NothingStarted, TypeOK, Call
    <2>3. CASE StatAppeared
      <3>1. call.hits > 0
        BY <2>3 DEF StatAppeared, RuntimeOK, RecheckAfterFault
      <3> QED
        BY <1>1, <3>1 DEF NothingStarted
    <2>4. CASE ~(StatStarted \/ RecordId \/ StatAppeared)
      <3>1. pc' # "compensate"
        BY <2>4 DEF ArmShare, DecideArm, CheckCredential, WalkCreating, WalkExisting, Start, DecideRecheck, Compensate,
                    StopStarted, ForgetId
      <3> QED
        BY <3>1 DEF NothingStarted
    <2> QED
      BY <2>1, <2>2, <2>3, <2>4
  <1> QED
    BY <1>2, <1>3

\* A share the boot pass did not arm, though nothing failed, was mounted or
\* armed already, or had no directory when looked at or no proper credential.
LEMMA ArmBoot == ASSUME RuntimeInv, ArmShare PROVE BootProgress'
  <1> USE DEF RuntimeInv, PromiseInv, FilesConsistent
  <1> DEFINE u == call.u
  <1>1. /\ pc \in ArmPcs /\ pc' \in ArmPcs \cup {"showAutomount"}
        /\ UNCHANGED <<mountHalf, autoHalf, creds>>
        /\ \A v \in Units \ {u} : trig'[v] = trig[v] /\ over'[v] = over[v] /\ dir'[v] = dir[v]
        /\ call'.op = call.op /\ call'.u = u /\ call'.todo = call.todo /\ call'.hit = call.hit
        /\ call'.hits \in {call.hits, call.hits + 1} /\ call.hits \in Nat /\ u \in Units
    BY ArmLocals DEF TypeOK, Call
  <1>2. SUFFICES ASSUME call.op = "boot" PROVE BootProgress'
    BY <1>1 DEF BootProgress
  <1>3. \A v \in Units \ {u} : v \in Booted => v \in Booted'
    BY <1>1 DEF Booted, Definition, Armed, Occupied
  <1>4. pc # "bootNext" /\ pc' # "bootNext"
    BY <1>1 DEF ArmPcs
  <1>5. UNCHANGED hostVars => Booted' = Booted
    BY DEF Booted, Definition, Armed, Occupied, hostVars, durableVars, systemdVars
  <1>6. Armed(u) \/ Occupied(u) => u \in Booted
    BY <1>1 DEF Booted
  <1>7. ASSUME call'.hits = 0, pc' \in {"compensate", "needsAttention"}
        PROVE  UNCHANGED hostVars /\ (u \in Booted \/ call'.missing)
    <2>1. call.hits = 0
      BY <1>1, <1>7
    <2>2. CASE DecideArm
      <3>1. /\ UNCHANGED <<call, hostVars>> /\ pc = "decideArm"
            /\ EvaluateArmPrecheck(call.snap) \notin {"AlreadyArmed", "ReadyToArm"}
        BY <1>7, <2>2 DEF DecideArm
      <3>2. \/ call.snap.automount \in {"Active", "Indeterminate"}
            \/ call.snap.mount \in {"Present", "Indeterminate"}
        BY <3>1, ArmVerdict, SnapType
      <3>3. Armed(u) \/ Occupied(u)
        BY <2>1, <3>1, <3>2 DEF RuntimeOK, SnapshotTrue, FaultlessSnapshot, Seen, MountRead, MountKnown, Decides
      <3> QED
        BY <1>6, <3>1, <3>3
    <2>3. CASE CheckCredential
      <3>1. /\ UNCHANGED hostVars /\ pc = "checkCredential"
            /\ ~((call.id \in creds) <=> (call.id \notin Guests))
        BY <1>7, <2>1, <2>3 DEF CheckCredential, TypeOK, Call
      <3>2. mountHalf[u] = call.id
        BY <1>2, <3>1 DEF RuntimeOK, HalvesWritten, SubroutinePcs, ArmPcs
      <3>3. u \in Booted
        BY <1>1, <3>1, <3>2 DEF Booted
      <3> QED
        BY <3>1, <3>3
    <2>4. CASE WalkExisting
      <3>1. /\ UNCHANGED hostVars
            /\ \/ ~dir[u] /\ call' = [call EXCEPT !.missing = ~dir[u]]
               \/ Armed(u) \/ Occupied(u)
               \/ call' = [call EXCEPT !.hits = call.hits + 1]
        BY <1>7, <2>4 DEF WalkExisting
      <3>2. call' # [call EXCEPT !.hits = call.hits + 1]
        BY <1>7, <2>1 DEF TypeOK, Call
      <3>3. ~dir[u] /\ call' = [call EXCEPT !.missing = ~dir[u]] => call'.missing
        BY DEF TypeOK, Call
      <3> QED
        BY <1>6, <3>1, <3>2, <3>3
    <2>5. CASE StatStarted
      <3>1. UNCHANGED hostVars /\ pc = "statStarted" /\ call'.missing = call.missing
        BY <2>5 DEF StatStarted, TypeOK, Call
      <3>2. Armed(u) \/ call'.missing
        BY <3>1 DEF RuntimeOK, StartedOrMissing
      <3> QED
        BY <1>6, <3>1, <3>2
    <2>6. CASE Compensate
      <3>1. UNCHANGED hostVars /\ pc = "compensate" /\ call'.missing = call.missing
        BY <2>6 DEF Compensate, TypeOK, Call
      <3> QED
        BY <1>2, <2>1, <3>1 DEF RuntimeOK, BootProgress
    <2>7. CASE Start \/ RecordId
      <3>1. pc' # "needsAttention" /\ (pc' = "compensate" => call'.hits = call.hits + 1)
        BY <2>7 DEF Start, RecordId, TypeOK, Call
      <3> QED
        BY <1>1, <1>7, <2>1, <3>1
    <2>8. CASE DecideRecheck \/ StatAppeared \/ StopStarted \/ ForgetId
      BY <2>1, <2>8 DEF DecideRecheck, StatAppeared, StopStarted, ForgetId, RuntimeOK, RecheckAfterFault
    <2>9. CASE WalkCreating
      BY <1>2, <2>9 DEF WalkCreating
    <2> QED
      BY <2>2, <2>3, <2>4, <2>5, <2>6, <2>7, <2>8, <2>9 DEF ArmShare
  <1>8. \A v \in Units \ (call.hit \cup call.todo) : v # u => v \in Booted'
    BY <1>2, <1>3 DEF RuntimeOK, BootProgress
  <1>9. u \notin call.todo
    BY <1>2, <1>4 DEF RuntimeOK, BootProgress
  <1> QED
    BY <1>1, <1>4, <1>5, <1>7, <1>8, <1>9 DEF BootProgress

\* Every step of armShare keeps what is known of the runtime.
LEMMA RuntimeArm == ASSUME RuntimeInv, ArmShare PROVE RuntimeOK'
  <1> USE DEF RuntimeInv, PromiseInv, FilesConsistent
  <1>1. /\ pc \in ArmPcs /\ pc' \in ArmPcs \cup {"showAutomount"}
        /\ pc' = "showAutomount" => call'.site = "decideRecheck"
        /\ UNCHANGED <<mountHalf, autoHalf, creds>>
        /\ call'.op = call.op /\ call'.u = call.u /\ call'.id = call.id
    BY ArmLocals
  <1>2. call.op \in {"define", "boot"}
    BY <1>1 DEF RuntimeOK, RoutinesMatchCall
  <1>3. SnapshotTrue' /\ FaultlessSnapshot'
    <2>1. pc' \notin Seen
      <3>1. CASE DecideArm \/ CheckCredential \/ WalkCreating \/ WalkExisting \/ Start \/ StatStarted
        BY <3>1 DEF DecideArm, CheckCredential, WalkCreating, WalkExisting, Start, StatStarted,
                    Seen, MountRead, MountKnown, Decides
      <3>2. CASE RecordId \/ DecideRecheck \/ StatAppeared \/ Compensate \/ StopStarted \/ ForgetId
        BY <3>2 DEF RecordId, DecideRecheck, StatAppeared, Compensate, StopStarted, ForgetId,
                    Seen, MountRead, MountKnown, Decides
      <3> QED
        BY <3>1, <3>2 DEF ArmShare
    <2> QED
      BY <2>1 DEF SnapshotTrue, FaultlessSnapshot, Seen, MountRead, MountKnown
  <1>4. StopOurs'
    BY <1>1 DEF StopOurs, ArmPcs
  <1>5. RoutinesMatchCall' /\ HalvesWritten'
    BY <1>1, <1>2 DEF RuntimeOK, RoutinesMatchCall, Stopping, HalvesWritten, SubroutinePcs, InspectPcs, StopPcs, ArmPcs
  <1> QED
    BY <1>3, <1>4, <1>5, RuntimeArmHost, ArmOwnAfterWalk, ArmStarted, ArmFaults, ArmBoot DEF RuntimeOK

-------------------------------------------------------------------------------
(* RuntimeInv is inductive.                                                *)

\* A reboot leaves nothing live, nothing recorded and no call.
LEMMA RuntimeReboot == ASSUME Reboot PROVE RuntimeOK'
  <1>1. /\ pc' = "idle" /\ call'.op = "none" /\ call'.started = 0 /\ nextInst' = 2
        /\ \A v \in Units : trig'[v] = NoTrigger /\ over'[v] = NoMount /\ idRec'[v] = 0
    BY DEF Reboot, HostReboot, NoCall, UnderId
  <1>2. InstancesBelow' /\ RuntimeShape' /\ RecordsOurs'
    BY <1>1 DEF InstancesBelow, RuntimeShape, RecordsOurs, OnlyOurs, Armed, Occupied, NoTrigger, NoMount, UnderId
  <1> QED
    BY <1>1, <1>2
    DEF RuntimeOK, OwnAfterWalk, AfterWalk, SnapshotTrue, FaultlessSnapshot, RecheckAfterFault, StopOurs, StartedOrMissing,
        RoutinesMatchCall, Stopping, HalvesWritten, NothingStarted, BootProgress, Seen, MountRead, MountKnown, Decides,
        SubroutinePcs, InspectPcs, StopPcs, ArmPcs

\* At the start there is nothing to know.
LEMMA RuntimeInit == Init => RuntimeInv
  <1> SUFFICES ASSUME Init PROVE RuntimeInv
    OBVIOUS
  <1>1. /\ pc = "idle" /\ call.op = "none" /\ call.started = 0 /\ nextInst = 2
        /\ \A v \in Units : trig[v] = NoTrigger /\ over[v] = NoMount /\ idRec[v] = 0
    BY DEF Init, HostInit, NoCall, UnderId
  <1>2. InstancesBelow /\ RuntimeShape /\ RecordsOurs
    BY <1>1 DEF InstancesBelow, RuntimeShape, RecordsOurs, OnlyOurs, Armed, Occupied, NoTrigger, NoMount, UnderId
  <1>3. RuntimeOK
    BY <1>1, <1>2
    DEF RuntimeOK, OwnAfterWalk, AfterWalk, SnapshotTrue, FaultlessSnapshot, RecheckAfterFault, StopOurs, StartedOrMissing,
        RoutinesMatchCall, Stopping, HalvesWritten, NothingStarted, BootProgress, Seen, MountRead, MountKnown, Decides,
        SubroutinePcs, InspectPcs, StopPcs, ArmPcs
  <1> QED
    BY <1>3, FilesInit, HalvesLeftInit DEF RuntimeInv, PromiseInv, FilesInv

\* Where nothing changes, nothing is forgotten.
LEMMA RuntimeStutter == ASSUME RuntimeInv, UNCHANGED vars PROVE RuntimeOK'
  <1>1. InstancesBelow' /\ RuntimeShape' /\ RecordsOurs' /\ OwnAfterWalk' /\ SnapshotTrue'
    BY DEF RuntimeInv, RuntimeOK, InstancesBelow, RuntimeShape, RecordsOurs, OwnAfterWalk, AfterWalk, SnapshotTrue,
           OnlyOurs, Armed, Occupied, vars, hostVars, armVars, systemdVars
  <1>2. FaultlessSnapshot' /\ RecheckAfterFault' /\ StopOurs' /\ StartedOrMissing' /\ RoutinesMatchCall'
    BY DEF RuntimeInv, RuntimeOK, FaultlessSnapshot, RecheckAfterFault, StopOurs, StartedOrMissing, RoutinesMatchCall, Stopping,
           Armed, Occupied, vars, hostVars, armVars, durableVars, systemdVars
  <1>3. HalvesWritten' /\ NothingStarted' /\ BootProgress'
    BY DEF RuntimeInv, RuntimeOK, HalvesWritten, NothingStarted, BootProgress, Booted, Definition, Armed, Occupied,
           vars, hostVars, armVars, durableVars, systemdVars
  <1> QED
    BY <1>1, <1>2, <1>3 DEF RuntimeOK

\* Every step keeps it.
LEMMA RuntimeStep == ASSUME RuntimeInv, [Next]_vars PROVE RuntimeInv'
  <1>1. PromiseInv'
    BY ConsistentStep, HalvesLeftStep, DoneIsLastStep, IdleIsNoneStep DEF RuntimeInv, PromiseInv
  <1>2. CASE Define \/ Remove \/ Boot \/ Reply \/ Crash \/ Begin
    BY <1>1, <1>2, RuntimeCalm, RoutinesCalm, BootCalm DEF RuntimeInv, RuntimeOK
  <1>3. CASE Environment
    BY <1>1, <1>3, RuntimeDriftHost, RuntimeDriftCall DEF RuntimeInv, RuntimeOK
  <1>4. CASE InspectRuntime \/ SafeStop \/ ArmShare \/ Reboot \/ UNCHANGED vars
    BY <1>1, <1>4, RuntimeInspect, RuntimeStop, RuntimeArm, RuntimeReboot, RuntimeStutter DEF RuntimeInv
  <1> QED
    BY <1>2, <1>3, <1>4 DEF Next, Step

\* The first invariant: whatever runs, fails or is killed, and whatever PID
\* 1, users and the administrator do, what a call knows of the runtime is
\* so, and every record is of an instance nasmount started.
THEOREM RuntimeInvariant == Spec => []RuntimeInv
  BY RuntimeInit, RuntimeStep, PTL DEF Spec

\* An id on record that is a live trigger's was recorded for a trigger
\* nasmount started: armShare never takes over an administrator's automount.
THEOREM TrustIsEarned == Spec => []TrustedIsOurs
  <1>1. RuntimeInv => TrustedIsOurs
    BY DEF RuntimeInv, RuntimeOK, RecordsOurs, TrustedIsOurs
  <1> QED
    BY <1>1, RuntimeInvariant, PTL

\* nasmount-boot's loop reaches every pair: at its end each is armed or
\* mounted unless its directory or credential was not right or it met a
\* failure of its own.
THEOREM BootReachesTheRest == Spec => []BootArmsTheRest
  <1>1. RuntimeInv => BootArmsTheRest
    <2> SUFFICES ASSUME RuntimeInv, pc = "bootNext", call.todo = {}, NEW u \in Units \ call.hit
                 PROVE  u \in Booted
      BY DEF BootArmsTheRest, Booted
    <2>1. call.op = "boot"
      BY DEF RuntimeInv, PromiseInv, FilesConsistent, StepsMatchCall
    <2> QED
      BY <2>1 DEF RuntimeInv, RuntimeOK, BootProgress
  <1> QED
    BY <1>1, RuntimeInvariant, PTL

\* One mount point, before and after a step of a program.
OwnStop(u) ==
    /\ Armed(u) /\ ~(Armed(u))' => trig[u].by = "tool"
    /\ Occupied(u) /\ ~(Occupied(u))' => over[u].fs = "cifs" /\ (over[u].src = call.what \/ trig[u].by = "tool")

\* A stop acts on the call's mount point, where StopOurs or OwnAfterWalk
\* says whose the trigger and the mount are; no other step takes one away.
LEMMA StopsOwnStep == ASSUME RuntimeInv, Step, NEW v \in Units PROVE OwnStop(v)
  <1> USE DEF RuntimeInv, PromiseInv, FilesConsistent
  <1> DEFINE u == call.u
  <1>1. u \in Units /\ trig \in [Units -> Trigger] /\ over \in [Units -> Mount]
    BY DEF TypeOK, HostTypeOK, Call
  <1>2. Armed(v) => trig[v].by # "nobody"
    BY DEF RuntimeOK, RuntimeShape, Armed
  <1>3. trig[v].by \in {"nobody", "tool", "admin"}
    BY <1>1 DEF Trigger
  <1>4. CASE StopMount
    <2>1. /\ UNCHANGED trig /\ \A w \in Units \ {u} : over'[w] = over[w]
          /\ pc = "stopMount"
      BY <1>1, <1>4 DEF StopMount, StopMountEffect, systemdVars
    <2> QED
      BY <1>1, <1>2, <1>3, <2>1 DEF RuntimeOK, StopOurs, OwnStop, Armed, Occupied
  <1>5. CASE StopAutomount
    <2>1. /\ \A w \in Units \ {u} : over'[w] = over[w] /\ trig'[w] = trig[w]
          /\ pc = "stopAutomount"
      BY <1>1, <1>5 DEF StopAutomount, StopAutomountEffect, systemdVars
    <2> QED
      BY <1>1, <1>2, <1>3, <2>1 DEF RuntimeOK, StopOurs, OwnStop, Armed, Occupied
  <1>6. CASE StopStarted
    <2>1. /\ \A w \in Units \ {u} : over'[w] = over[w] /\ trig'[w] = trig[w]
          /\ OnlyOurs(u)
      BY <1>1, <1>6 DEF StopStarted, StopAutomountEffect, systemdVars, RuntimeOK, OwnAfterWalk, AfterWalk
    <2> QED
      BY <1>1, <1>2, <1>3, <2>1 DEF OnlyOurs, OwnStop, Armed, Occupied
  <1>7. CASE Start
    <2>1. UNCHANGED over /\ (trig'[u] = trig[u] \/ ~Armed(u)) /\ \A w \in Units \ {u} : trig'[w] = trig[w]
      BY <1>1, <1>7, StartShape, ArmLocals DEF ArmShare
    <2> QED
      BY <1>1, <2>1 DEF OwnStop, Armed, Occupied
  <1>8. ASSUME UNCHANGED <<trig, over>> PROVE OwnStop(v)
    BY <1>8 DEF OwnStop, Armed, Occupied
  <1>9. CASE InspectRuntime \/ DecideStop
    BY <1>8, <1>9, InspectLocals DEF DecideStop, hostVars, systemdVars
  <1>10. CASE DecideArm \/ CheckCredential \/ WalkCreating \/ WalkExisting \/ StatStarted \/ RecordId
    BY <1>8, <1>10 DEF DecideArm, CheckCredential, WalkCreating, WalkExisting, StatStarted, RecordId,
                       hostVars, systemdVars
  <1>11. CASE DecideRecheck \/ StatAppeared \/ Compensate \/ ForgetId
    BY <1>8, <1>11 DEF DecideRecheck, StatAppeared, Compensate, ForgetId, hostVars, systemdVars
  <1>12. CASE Define \/ Remove \/ Boot \/ Reply
    BY <1>8, <1>12, CalmStep
  <1> QED
    BY <1>4, <1>5, <1>6, <1>7, <1>9, <1>10, <1>11, <1>12 DEF Step, SafeStop, ArmShare

\* The programs stop no trigger but their own and unmount only the CIFS
\* share they were asked about, or one behind their own trigger: neither an
\* administrator's automount nor a mount by hand is taken down.
THEOREM StopsOwnOnly == Spec => StopsOnlyItsOwn
  <1>1. RuntimeInv /\ [Next]_vars =>
          [Step => \A u \in Units :
             /\ Armed(u) /\ ~(Armed(u))' => trig[u].by = "tool"
             /\ Occupied(u) /\ ~(Occupied(u))' =>
                  over[u].fs = "cifs" /\ (over[u].src = call.what \/ trig[u].by = "tool")]_vars
    BY StopsOwnStep DEF OwnStop
  <1> QED
    BY <1>1, RuntimeInvariant, PTL DEF Spec, StopsOnlyItsOwn

-------------------------------------------------------------------------------
(* QuietInv: what happens outside the routines.                            *)

\* Nothing live means nobody's trigger.
LEMMA QuietIsNobodys ==
    ASSUME RuntimeInv, NEW u \in Units, Quiet(u)
    PROVE  trig[u].by = "nobody" /\ ~Armed(u) /\ ~Occupied(u)
  BY DEF RuntimeInv, RuntimeOK, RuntimeShape, Quiet, Armed

\* A complete definition is a pair.
LEMMA SameIdIsPair ==
    ASSUME NEW u \in Units, NEW i \in Ids, mountHalf[u] = i, autoHalf[u] = i
    PROVE  Definition(u) = "Pair"
  BY InspectVerdicts, ContentAssumption DEF Definition

\* Between calls the invariant says only that no trigger lacks its
\* definition.
LEMMA QuietBetweenCalls ==
    ASSUME QuietInv, pc' \in {"idle", "bootNext"}, call'.op \notin {"define", "remove"}, ~call'.mountStopped,
           NoJobs', DefinitionOutlivesTrigger'
    PROVE  QuietOK'
  <1>1. InactiveStays' /\ StopIsKnown' /\ QuietRemoval' /\ RemoveProgress'
    BY DEF InactiveStays, StopIsKnown, QuietRemoval, RemoveProgress, Seen, MountRead, MountKnown, Decides, RemovePcs
  <1>2. NotYetArmed' /\ SecretDecided' /\ WellLoaded' /\ CleanupProgress'
    BY DEF NotYetArmed, SecretDecided, WellLoaded, CleanupProgress
  <1>3. DefineComplete' /\ DefineAtomic' /\ RemoveComplete'
    BY DEF DefineComplete, DefineAtomic, RemoveComplete
  <1> QED
    BY <1>1, <1>2, <1>3 DEF QuietInv, QuietOK

\* A call that has ended.
LEMMA QuietEnds == ASSUME QuietInv, Reply \/ Crash \/ BootEnd \/ Reboot PROVE QuietOK'
  <1>1. pc' = "idle" /\ call'.op = "none" /\ ~call'.mountStopped
    BY DEF Reply, Crash, BootEnd, Reboot, NoCall
  <1>2. NoJobs' /\ DefinitionOutlivesTrigger'
    <2>1. CASE Reboot
      BY <2>1 DEF Reboot, HostReboot, NoJobs, DefinitionOutlivesTrigger, NoTrigger
    <2>2. CASE UNCHANGED hostVars
      BY <2>2 DEF QuietInv, QuietOK, NoJobs, DefinitionOutlivesTrigger, Definition, hostVars, durableVars, systemdVars
    <2> QED
      BY <2>1, <2>2 DEF Reply, Crash, BootEnd
  <1> QED
    BY <1>1, <1>2, QuietBetweenCalls

\* PID 1, the kernel, users and the administrator.
LEMMA QuietDrift == ASSUME QuietInv, Environment PROVE QuietOK'
  <1> USE DEF QuietInv, RuntimeInv, PromiseInv, FilesConsistent
  <1>1. CASE pc = "idle"
    <2>1. UNCHANGED <<pc, call>> /\ call.op = "none" /\ ~call.mountStopped
      BY <1>1 DEF Environment, armVars, IdleIsNone, QuietOK, StopIsKnown, RemovePcs, PurgePcs, DeletePcs
    <2>2. \A v \in Units : /\ job'[v] => job[v]
                           /\ UNCHANGED <<mountHalf, autoHalf>>
                           /\ trig'[v].by = "tool" => trig[v].by = "tool"
      BY <1>1, IdleDrift DEF QuietOK, NoJobs, NoTrigger
    <2>3. NoJobs' /\ DefinitionOutlivesTrigger'
      BY <2>2 DEF QuietOK, NoJobs, DefinitionOutlivesTrigger, Definition
    <2> QED
      BY <1>1, <2>1, <2>3, QuietBetweenCalls
  <1>2. CASE pc # "idle"
    <2> DEFINE u == call.u
    <2>1. u \in Units
      BY DEF TypeOK, Call
    <2>2. \A v \in Units :
            /\ UNCHANGED <<mountHalf, autoHalf, creds, idRec, pc, call>>
            /\ ~job'[v] /\ trig'[v] = trig[v] /\ loaded'[v] \in {loaded[v], NoFile}
            /\ over'[v] = over[v] \/ Armed(v)
      BY <1>2, Drift DEF QuietOK, NoJobs
    <2>3. UNCHANGED <<mountHalf, autoHalf, creds, idRec, pc, call>> /\ trig'[u] = trig[u]
          /\ (Armed(u)' <=> Armed(u)) /\ (Quiet(u) => Quiet(u)')
          /\ (Definition(u))' = Definition(u)
      BY <2>1, <2>2 DEF Armed, Occupied, Quiet, Definition
    <2>4. NoJobs' /\ DefinitionOutlivesTrigger'
      BY <2>2 DEF QuietOK, NoJobs, DefinitionOutlivesTrigger, Definition
    <2>5. InactiveStays' /\ StopIsKnown' /\ QuietRemoval' /\ RemoveProgress'
      BY <2>1, <2>2, <2>3 DEF QuietOK, InactiveStays, StopIsKnown, QuietRemoval, RemoveProgress, Quiet, Armed, Occupied
    <2>6. NotYetArmed' /\ SecretDecided' /\ CleanupProgress'
      BY <2>3 DEF QuietOK, NotYetArmed, SecretDecided, CleanupProgress, Quiet, Armed, Occupied
    <2>7. WellLoaded'
      BY <2>1, <2>2, <2>3 DEF QuietOK, WellLoaded, Armed
    <2>8. DefineComplete' /\ DefineAtomic'
      BY <2>3 DEF QuietOK, DefineComplete, NeverStarted, DefineAtomic, Definition, Armed
    <2>9. RemoveComplete'
      BY <2>1, <2>2, <2>3 DEF QuietOK, RemoveComplete, Definition, Armed
    <2> QED
      BY <2>4, <2>5, <2>6, <2>7, <2>8, <2>9 DEF QuietOK
  <1> QED
    BY <1>1, <1>2

\* A call that begins.
LEMMA QuietBegins == ASSUME QuietInv, Begin PROVE QuietOK'
  <1> USE DEF QuietInv, RuntimeInv, PromiseInv, FilesConsistent
  <1>1. UNCHANGED <<mountHalf, autoHalf, systemdVars>>
    BY DEF Begin, DefineBegin, DefineRefused, RemoveBegin, BootBegin, hostVars, durableVars
  <1>2. NoJobs' /\ DefinitionOutlivesTrigger'
    BY <1>1 DEF QuietOK, NoJobs, DefinitionOutlivesTrigger, Definition, systemdVars
  <1>3. CASE BootBegin
    <2>1. pc' = "bootNext" /\ call'.op = "boot" /\ ~call'.mountStopped
      BY <1>3 DEF BootBegin, NoCall
    <2> QED
      BY <1>2, <2>1, QuietBetweenCalls
  <1>4. ASSUME NEW u \in Units, DefineRefused(u) PROVE QuietOK'
    <2>1. pc = "idle" /\ UNCHANGED <<pc, call>>
      BY <1>4 DEF DefineRefused, armVars
    <2>2. pc' = "idle" /\ call'.op = "none" /\ ~call'.mountStopped
      BY <2>1 DEF IdleIsNone, QuietOK, StopIsKnown, RemovePcs, PurgePcs, DeletePcs
    <2> QED
      BY <1>2, <2>2, QuietBetweenCalls
  <1>5. ASSUME NEW u \in Units, RemoveBegin(u) PROVE QuietOK'
    <2>1. pc' = "showAutomount" /\ call'.op = "remove" /\ ~call'.mountStopped
      BY <1>5 DEF RemoveBegin, EnterSafeStop, NoCall
    <2>2. InactiveStays' /\ StopIsKnown' /\ QuietRemoval' /\ RemoveProgress'
      BY <2>1 DEF InactiveStays, StopIsKnown, QuietRemoval, RemoveProgress, Seen, MountRead, MountKnown, Decides, RemovePcs
    <2>3. NotYetArmed' /\ SecretDecided' /\ WellLoaded' /\ CleanupProgress'
      BY <2>1 DEF NotYetArmed, SecretDecided, WellLoaded, CleanupProgress
    <2> QED
      BY <1>2, <2>1, <2>2, <2>3 DEF QuietOK, DefineComplete, NeverStarted, DefineAtomic, RemoveComplete
  <1>6. ASSUME NEW u \in Units, NEW i \in Ids, DefineBegin(u, i) PROVE QuietOK'
    <2>1. /\ pc' = "writeMount" /\ call'.op = "define" /\ call'.u = u /\ ~call'.mountStopped /\ call'.mayRemoveUnits
          /\ Quiet(u)
      BY <1>6 DEF DefineBegin, NoCall, Quiet
    <2>2. InactiveStays' /\ StopIsKnown' /\ QuietRemoval' /\ RemoveProgress'
      BY <2>1 DEF InactiveStays, StopIsKnown, QuietRemoval, RemoveProgress, Seen, MountRead, MountKnown, Decides, RemovePcs
    <2>3. NotYetArmed'
      BY <1>1, <2>1 DEF NotYetArmed, Quiet, Armed, Occupied, systemdVars, InspectPcs, CleanPcs
    <2>4. SecretDecided' /\ WellLoaded' /\ CleanupProgress'
      BY <2>1 DEF SecretDecided, WellLoaded, CleanupProgress, CleanPcs, SubroutinePcs, InspectPcs, StopPcs, ArmPcs
    <2> QED
      BY <1>2, <2>1, <2>2, <2>3, <2>4 DEF QuietOK, DefineComplete, NeverStarted, DefineAtomic, RemoveComplete
  <1> QED
    BY <1>3, <1>4, <1>5, <1>6 DEF Begin

\* The boot pass between two shares.
LEMMA QuietBoot == ASSUME QuietInv, (\E u \in Units : BootArm(u)) \/ BootArmed PROVE QuietOK'
  <1> USE DEF QuietInv, RuntimeInv, PromiseInv, FilesConsistent, TypeOK, Call
  <1>1. /\ UNCHANGED hostVars /\ call'.op = "boot" /\ call'.mountStopped = call.mountStopped
        /\ pc \in {"bootNext", "armed", "needsAttention"} /\ pc' \in {"bootNext", "showAutomount"}
    BY DEF BootArm, BootArmed, EnterArmShare, StepsMatchCall
  <1>2. ~call'.mountStopped
    BY <1>1 DEF QuietOK, StopIsKnown, RemovePcs, PurgePcs, DeletePcs
  <1>3. NoJobs' /\ DefinitionOutlivesTrigger'
    BY <1>1 DEF QuietOK, NoJobs, DefinitionOutlivesTrigger, Definition, hostVars, durableVars, systemdVars
  <1>4. InactiveStays' /\ StopIsKnown' /\ QuietRemoval' /\ RemoveProgress'
    BY <1>1, <1>2
    DEF InactiveStays, StopIsKnown, QuietRemoval, RemoveProgress, Seen, MountRead, MountKnown, Decides, RemovePcs
  <1>5. NotYetArmed' /\ SecretDecided' /\ WellLoaded' /\ CleanupProgress'
    BY <1>1 DEF NotYetArmed, SecretDecided, WellLoaded, CleanupProgress
  <1> QED
    BY <1>1, <1>3, <1>4, <1>5 DEF QuietOK, DefineComplete, DefineAtomic, RemoveComplete

-------------------------------------------------------------------------------
(* QuietInv: inspectRuntime and safeStop.                                  *)

\* An automount seen inactive stays so: there is no job to start it.
LEMMA QuietInspect == ASSUME QuietInv, InspectRuntime PROVE QuietOK'
  <1> USE DEF QuietInv, RuntimeInv, PromiseInv, FilesConsistent
  <1>1. /\ UNCHANGED hostVars
        /\ pc \in InspectPcs /\ pc' \in {"readMountinfo", "showMount", "readIds", call.site}
        /\ call'.op = call.op /\ call'.u = call.u /\ call'.id = call.id /\ call'.site = call.site
        /\ call'.safe = call.safe /\ call'.mountStopped = call.mountStopped
        /\ call'.mayRemoveUnits = call.mayRemoveUnits
        /\ call'.hits \in {call.hits, call.hits + 1} /\ call.hits \in Nat
        /\ call.site \in Decides
    BY InspectLocals DEF TypeOK, Call, Decides
  <1>2. /\ UNCHANGED <<mountHalf, autoHalf, creds, loaded, job>>
        /\ \A v \in Units : trig'[v] = trig[v] /\ over'[v] = over[v]
    BY <1>1 DEF hostVars, durableVars, systemdVars
  <1>3. pc' \in Seen
    BY <1>1 DEF Seen, MountRead, MountKnown
  <1>4. call.u \in Units
    BY DEF TypeOK, Call
  <1>5. InactiveStays'
    <2>1. CASE ShowAutomount
      <3>1. \/ call'.snap.automount = IF Armed(call.u) THEN "Active" ELSE "Inactive"
            \/ call'.snap.automount = "Indeterminate"
        BY <2>1, AutomountSeen
      <3> QED
        BY <1>1, <1>2, <1>4, <3>1 DEF InactiveStays, Armed
    <2>2. CASE ReadMountinfo \/ ShowMount \/ ReadIds
      <3>1. pc \in Seen /\ call'.snap.automount = call.snap.automount
        BY <2>2, MountSeen, MountConfirmed, TrustSeen DEF Seen, MountRead, MountKnown
      <3> QED
        BY <1>1, <1>2, <1>4, <3>1 DEF QuietOK, InactiveStays, Armed
    <2> QED
      BY <2>1, <2>2 DEF InspectRuntime
  <1>6. NoJobs' /\ DefinitionOutlivesTrigger'
    BY <1>2 DEF QuietOK, NoJobs, DefinitionOutlivesTrigger, Definition
  <1>7. StopIsKnown' /\ QuietRemoval' /\ RemoveProgress'
    BY <1>1, <1>3
    DEF QuietOK, StopIsKnown, QuietRemoval, RemoveProgress, InspectPcs, Seen, MountRead, MountKnown, Decides, RemovePcs,
        PurgePcs, DeletePcs
  <1>8. NotYetArmed'
    <2>1. CASE pc' = "decideArm"
      <3>1. pc \in InspectPcs /\ call.site = "decideArm"
        BY <1>1, <2>1
      <3> QED
        BY <1>1, <1>2, <1>4, <2>1, <3>1 DEF QuietOK, NotYetArmed, Quiet, Armed, Occupied, InspectPcs, CleanPcs
    <2>2. CASE pc' # "decideArm"
      BY <1>1, <1>2, <1>3, <1>4, <2>2
      DEF QuietOK, NotYetArmed, Quiet, Armed, Occupied, InspectPcs, CleanPcs, Decides
    <2> QED
      BY <2>1, <2>2
  <1>9. SecretDecided' /\ WellLoaded' /\ CleanupProgress'
    <2>1. pc \in SubroutinePcs /\ pc' \notin CleanPcs \cup {"needsAttention"}
      BY <1>1 DEF SubroutinePcs, Decides, CleanPcs
    <2> QED
      BY <1>1, <1>2, <1>4, <2>1 DEF QuietOK, SecretDecided, WellLoaded, CleanupProgress, Armed, CleanPcs
  <1>10. DefineComplete' /\ DefineAtomic' /\ RemoveComplete'
    BY <1>1 DEF DefineComplete, DefineAtomic, RemoveComplete, Decides
  <1> QED
    BY <1>5, <1>6, <1>7, <1>8, <1>9, <1>10 DEF QuietOK

\* safeStop reports stopped only when both units are.
LEMMA QuietStop == ASSUME QuietInv, SafeStop PROVE QuietOK'
  <1> USE DEF QuietInv, RuntimeInv, PromiseInv, FilesConsistent
  <1> DEFINE u == call.u
  <1>1. /\ pc \in {"decideStop", "stopMount", "stopAutomount"}
        /\ pc' \in {"stopMount", "stopAutomount", "stopped", "refused"}
        /\ UNCHANGED <<durableVars, idRec, loaded, nextInst>>
        /\ call'.op = call.op /\ call'.u = u /\ call'.id = call.id
        /\ \A v \in Units : /\ trig'[v] \in {trig[v], NoTrigger} /\ over'[v] \in {over[v], NoMount}
                            /\ job'[v] => job[v]
    BY StopLocals
  <1>2. call.op \in Stopping /\ u \in Units
    BY <1>1 DEF RuntimeOK, RoutinesMatchCall, Stopping, StopPcs, TypeOK, Call
  <1>3. NoJobs' /\ DefinitionOutlivesTrigger'
    BY <1>1 DEF QuietOK, NoJobs, DefinitionOutlivesTrigger, Definition, NoTrigger, durableVars
  <1>4. StopIsKnown' /\ QuietRemoval'
    <2>1. CASE DecideStop
      <3>1. /\ UNCHANGED <<call, hostVars>> /\ pc = "decideStop" /\ pc' # "stopAutomount"
            /\ pc' = "stopped" => EvaluateStopPrecheck(call.snap) = "AlreadyInactive"
        BY <2>1 DEF DecideStop
      <3>2. ~call.mountStopped
        BY <3>1 DEF QuietOK, StopIsKnown, RemovePcs, PurgePcs, DeletePcs
      <3>3. pc' = "stopped" => Quiet(u)
        <4>1. pc' = "stopped" => call.snap.mount = "Absent" /\ call.snap.automount = "Inactive"
          BY <3>1, StopVerdict, SnapType
        <4> QED
          BY <3>1, <4>1 DEF QuietOK, InactiveStays, RuntimeOK, SnapshotTrue, Seen, MountRead, MountKnown, Decides, Quiet
      <3> QED
        BY <1>1, <3>1, <3>2, <3>3
        DEF StopIsKnown, QuietRemoval, RemovePcs, Quiet, Armed, Occupied, hostVars, systemdVars
    <2>2. CASE StopMount
      <3>1. /\ pc = "stopMount" /\ pc' = "stopAutomount"
            /\ \/ StopMountEffect(u)
               \/ call'.mountStopped = call.mountStopped
        BY <2>2 DEF StopMount, TypeOK, Call
      <3>2. ~call.mountStopped
        BY <3>1 DEF QuietOK, StopIsKnown, RemovePcs, PurgePcs, DeletePcs
      <3>3. StopMountEffect(u) => ~(Occupied(u))'
        BY <1>1, <1>2 DEF StopMountEffect, TypeOK, HostTypeOK, Occupied, NoMount
      <3> QED
        BY <1>1, <3>1, <3>2, <3>3 DEF StopIsKnown, QuietRemoval, RemovePcs, Occupied
    <2>3. CASE StopAutomount
      <3>1. /\ pc = "stopAutomount" /\ pc' \in {"stopped", "refused"} /\ call'.mountStopped = call.mountStopped
            /\ pc' = "stopped" => StopAutomountEffect(u) /\ call.mountStopped
        BY <2>3 DEF StopAutomount, TypeOK, Call
      <3>2. pc' = "stopped" => Quiet(u)'
        <4>1. pc' = "stopped" => trig'[u] = NoTrigger /\ over'[u] = IF Armed(u) THEN NoMount ELSE over[u]
          BY <1>2, <3>1 DEF StopAutomountEffect, TypeOK, HostTypeOK
        <4>2. pc' = "stopped" => (Occupied(u) => Armed(u))
          BY <3>1 DEF QuietOK, StopIsKnown
        <4> QED
          BY <1>1, <4>1, <4>2 DEF Quiet, Armed, Occupied, NoTrigger, NoMount
      <3> QED
        BY <1>1, <3>1, <3>2 DEF StopIsKnown, QuietRemoval, RemovePcs, Quiet, Armed, Occupied
    <2> QED
      BY <2>1, <2>2, <2>3 DEF SafeStop
  <1>5. InactiveStays' /\ RemoveProgress'
    BY <1>1 DEF InactiveStays, RemoveProgress, Seen, MountRead, MountKnown, Decides
  <1>6. NotYetArmed' /\ SecretDecided' /\ WellLoaded' /\ CleanupProgress'
    BY <1>1, <1>2 DEF Stopping, NotYetArmed, SecretDecided, WellLoaded, CleanupProgress
  <1>7. DefineComplete' /\ DefineAtomic' /\ RemoveComplete'
    BY <1>1 DEF DefineComplete, DefineAtomic, RemoveComplete
  <1> QED
    BY <1>3, <1>4, <1>5, <1>6, <1>7 DEF QuietOK

-------------------------------------------------------------------------------
(* QuietInv: armShare.                                                     *)

\* PID 1 starts the definition define just wrote; a stop leaves nothing.
LEMMA ArmWellLoaded == ASSUME QuietInv, ArmShare PROVE WellLoaded' /\ DefinitionOutlivesTrigger' /\ NoJobs'
  <1> USE DEF QuietInv, RuntimeInv, PromiseInv, FilesConsistent
  <1> DEFINE u == call.u
  <1>1. /\ pc \in ArmPcs /\ UNCHANGED <<mountHalf, autoHalf>>
        /\ \A v \in Units \ {u} : trig'[v] = trig[v] /\ loaded'[v] = loaded[v] /\ job'[v] = job[v]
        /\ call'.op = call.op /\ call'.u = u /\ call'.id = call.id /\ u \in Units
    BY ArmLocals DEF TypeOK, Call
  <1>2. pc \in SubroutinePcs /\ call.op \in {"define", "boot"}
    BY <1>1 DEF RuntimeOK, RoutinesMatchCall, Stopping, SubroutinePcs
  <1>3. call.id \in Ids /\ mountHalf[u] = call.id /\ autoHalf[u] = call.id
    BY <1>2 DEF RuntimeOK, HalvesWritten
  <1>4. trig \in [Units -> Trigger] /\ loaded \in [Units -> FileContent] /\ job \in [Units -> BOOLEAN]
    BY DEF TypeOK, HostTypeOK
  <1>5. /\ ~job'[u]
        /\ \/ trig'[u] = trig[u]
           \/ trig'[u] = NoTrigger
           \/ trig'[u].share = Startable(u)
        /\ loaded'[u] \in {loaded[u], Startable(u)}
    <2>1. CASE Start
      <3>1. \/ UNCHANGED systemdVars
            \/ StartEffect(u, "tool") /\ UNCHANGED job
        BY <2>1 DEF Start, QuietOK
      <3>2. ~job'[u] /\ loaded'[u] \in {loaded[u], Startable(u)}
        BY <1>1, <1>4, <3>1 DEF StartEffect, systemdVars, QuietOK, NoJobs
      <3>3. trig'[u] = trig[u] \/ trig'[u].share = Startable(u)
        BY <2>1, StartShape
      <3> QED
        BY <3>2, <3>3
    <2>2. CASE StopStarted
      BY <1>1, <1>4, <2>2 DEF StopStarted, StopAutomountEffect, systemdVars, QuietOK, NoJobs
    <2>3. CASE DecideArm \/ CheckCredential \/ WalkCreating \/ WalkExisting \/ StatStarted \/ RecordId
      BY <1>1, <2>3 DEF DecideArm, CheckCredential, WalkCreating, WalkExisting, StatStarted, RecordId,
                        hostVars, systemdVars, QuietOK, NoJobs
    <2>4. CASE DecideRecheck \/ StatAppeared \/ Compensate \/ ForgetId
      BY <1>1, <2>4 DEF DecideRecheck, StatAppeared, Compensate, ForgetId, hostVars, systemdVars, QuietOK, NoJobs
    <2> QED
      BY <2>1, <2>2, <2>3, <2>4 DEF ArmShare
  <1>6. NoJobs'
    BY <1>1, <1>5 DEF QuietOK, NoJobs
  <1>7. DefinitionOutlivesTrigger'
    <2> SUFFICES ASSUME NEW v \in Units, trig'[v].by = "tool" PROVE (Definition(v))' = "Pair"
      BY DEF DefinitionOutlivesTrigger
    <2>1. (Definition(v))' = Definition(v)
      BY <1>1 DEF Definition
    <2>2. CASE v = u
      BY <1>3, <2>1, <2>2, SameIdIsPair, <1>1
    <2>3. CASE v # u
      BY <1>1, <2>1, <2>3 DEF QuietOK, DefinitionOutlivesTrigger
    <2> QED
      BY <2>2, <2>3
  <1>8. WellLoaded'
    <2> SUFFICES ASSUME call.op = "define"
                 PROVE  /\ loaded'[u] \in {NoFile, call.id}
                        /\ trig'[u].id # 0 => trig'[u].share = call.id
      BY <1>1 DEF WellLoaded, Armed
    <2>1. /\ loaded[u] \in {NoFile, call.id}
          /\ trig[u].id # 0 => trig[u].share = call.id
      BY <1>2 DEF QuietOK, WellLoaded, Armed
    <2>2. Startable(u) = call.id
      BY <1>3, <2>1 DEF Startable
    <2> QED
      BY <1>5, <2>1, <2>2 DEF NoTrigger
  <1> QED
    BY <1>6, <1>7, <1>8

\* Where define ends up once it has nothing live.
Unarmed == {"decideArm", "checkCredential", "walk", "start", "forgetId"}

\* Up to its start, and once compensation has stopped what it started,
\* define has nothing live; it gives up safely only so, and after a fault.
LEMMA ArmNotYet == ASSUME QuietInv, ArmShare PROVE NotYetArmed' /\ CleanupProgress'
  <1> USE DEF QuietInv, RuntimeInv, PromiseInv, FilesConsistent
  <1> DEFINE u == call.u
  <1>1. /\ pc \in ArmPcs /\ pc' \in ArmPcs \cup {"showAutomount"}
        /\ pc' = "showAutomount" => call'.site = "decideRecheck"
        /\ call'.op = call.op /\ call'.u = u /\ u \in Units /\ call'.mayRemoveUnits = call.mayRemoveUnits
        /\ call'.hits \in {call.hits, call.hits + 1} /\ call.hits \in Nat
    BY ArmLocals DEF TypeOK, Call
  <1>2. SUFFICES ASSUME call.op = "define" PROVE NotYetArmed' /\ CleanupProgress'
    BY <1>1 DEF NotYetArmed, CleanupProgress
  <1>3. ~call.mayRemoveUnits => call.hits > 1
    BY <1>2 DEF QuietOK, CleanupProgress
  <1>4. SUFFICES /\ pc' \in Unarmed => Quiet(u)'
                 /\ pc' = "needsAttention" /\ call'.safe => Quiet(u)' /\ call'.hits > 0
    BY <1>1, <1>2, <1>3
    DEF NotYetArmed, CleanupProgress, Unarmed, Quiet, Armed, Occupied, ArmPcs, InspectPcs, CleanPcs
  <1>5. UNCHANGED <<trig, over>> => (Quiet(u) <=> Quiet(u)')
    BY <1>1 DEF Quiet, Armed, Occupied
  <1>6. pc \in Unarmed => Quiet(u)
    BY <1>2 DEF QuietOK, NotYetArmed, Unarmed
  <1>7. CASE DecideArm
    <2>1. /\ pc = "decideArm" /\ UNCHANGED <<call, trig, over>> /\ pc' \in {"armed", "checkCredential", "needsAttention"}
          /\ pc' = "needsAttention" => EvaluateArmPrecheck(call.snap) \notin {"AlreadyArmed", "ReadyToArm"}
      BY <1>7 DEF DecideArm, hostVars, systemdVars
    <2>2. Quiet(u)
      BY <1>6, <2>1 DEF Unarmed
    <2>3. pc' = "needsAttention" => call.hits # 0
      <3> SUFFICES ASSUME pc' = "needsAttention", call.hits = 0 PROVE FALSE
        OBVIOUS
      <3>1. \/ call.snap.automount \in {"Active", "Indeterminate"}
            \/ call.snap.mount \in {"Present", "Indeterminate"}
        BY <2>1, ArmVerdict, SnapType
      <3>2. Armed(u) \/ Occupied(u)
        BY <2>1, <3>1 DEF RuntimeOK, SnapshotTrue, FaultlessSnapshot, Seen, MountRead, MountKnown, Decides
      <3> QED
        BY <2>2, <3>2 DEF Quiet
    <2> QED
      BY <1>1, <1>5, <2>1, <2>2, <2>3
  <1>8. CASE CheckCredential
    <2>1. /\ pc = "checkCredential" /\ UNCHANGED <<trig, over>> /\ pc' \in {"walk", "needsAttention"}
          /\ \/ pc' = IF (call.id \in creds) <=> (call.id \notin Guests) THEN "walk" ELSE "needsAttention"
             \/ call'.hits = call.hits + 1
      BY <1>8 DEF CheckCredential, hostVars, systemdVars, TypeOK, Call
    <2>2. ((call.id \in creds) <=> (call.id \notin Guests))
      BY <1>2, <2>1 DEF QuietOK, SecretDecided, SubroutinePcs, ArmPcs
    <2>3. Quiet(u)
      BY <1>6, <2>1 DEF Unarmed
    <2>4. pc' = "needsAttention" => call'.hits = call.hits + 1
      BY <2>1, <2>2
    <2> QED
      BY <1>1, <1>5, <2>1, <2>3, <2>4
  <1>9. CASE WalkCreating
    <2>1. pc = "walk" /\ UNCHANGED <<trig, over>> /\ pc' \in {"start", "needsAttention"}
      BY <1>9 DEF WalkCreating, systemdVars
    <2>2. Quiet(u)
      BY <1>6, <2>1 DEF Unarmed
    <2>3. pc' = "needsAttention" => call'.hits = call.hits + 1
      BY <1>9, <2>2 DEF WalkCreating, Quiet, TypeOK, Call
    <2> QED
      BY <1>1, <1>5, <2>1, <2>2, <2>3
  <1>10. CASE WalkExisting
    BY <1>2, <1>10 DEF WalkExisting
  <1>11. CASE Start \/ StatStarted \/ RecordId \/ StatAppeared
    BY <1>11 DEF Start, StatStarted, RecordId, StatAppeared, Unarmed
  <1>12. CASE DecideRecheck
    <2>1. /\ pc = "decideRecheck" /\ UNCHANGED <<trig, over>> /\ pc' \in {"statAppeared", "needsAttention"}
          /\ pc' = "needsAttention" /\ call'.safe => call.snap.automount = "Inactive" /\ call.snap.mount = "Absent"
      BY <1>12 DEF DecideRecheck, hostVars, systemdVars, TypeOK, Call
    <2>2. call.hits > 0
      BY <2>1 DEF RuntimeOK, RecheckAfterFault
    <2>3. pc' = "needsAttention" /\ call'.safe => Quiet(u)
      BY <2>1 DEF QuietOK, InactiveStays, RuntimeOK, SnapshotTrue, Seen, MountRead, MountKnown, Decides, Quiet
    <2> QED
      BY <1>1, <1>5, <2>1, <2>2, <2>3 DEF Unarmed
  <1>13. CASE Compensate
    <2>1. pc' \in {"stopStarted", "needsAttention"} /\ (pc' = "needsAttention" => ~call'.safe)
      BY <1>13 DEF Compensate, TypeOK, Call
    <2> QED
      BY <2>1 DEF Unarmed
  <1>14. CASE StopStarted
    <2>1. /\ pc' = "needsAttention" => ~call'.safe
          /\ pc' \in {"forgetId", "needsAttention"}
          /\ pc' = "forgetId" => StopAutomountEffect(u)
      BY <1>14 DEF StopStarted, TypeOK, Call
    <2>2. Occupied(u) => Armed(u)
      BY <1>14 DEF StopStarted, RuntimeOK, OwnAfterWalk, AfterWalk, OnlyOurs, RuntimeShape, Armed, TypeOK, Call
    <2>3. StopAutomountEffect(u) => trig'[u] = NoTrigger /\ over'[u] = IF Armed(u) THEN NoMount ELSE over[u]
      BY <1>1 DEF StopAutomountEffect, TypeOK, HostTypeOK
    <2>4. StopAutomountEffect(u) => Quiet(u)'
      BY <1>1, <2>2, <2>3 DEF Quiet, Armed, Occupied, NoTrigger, NoMount
    <2> QED
      BY <2>1, <2>4 DEF Unarmed
  <1>15. CASE ForgetId
    <2>1. pc = "forgetId" /\ UNCHANGED <<trig, over>> /\ pc' = "needsAttention"
      BY <1>15 DEF ForgetId, systemdVars
    <2>2. Quiet(u) /\ call.hits > 0
      BY <1>6, <2>1 DEF Unarmed, RuntimeOK, RecheckAfterFault
    <2> QED
      BY <1>1, <1>5, <2>1, <2>2 DEF Unarmed
  <1> QED
    BY <1>7, <1>8, <1>9, <1>10, <1>11, <1>12, <1>13, <1>14, <1>15 DEF ArmShare

\* Every step of armShare keeps it.
LEMMA QuietArm == ASSUME QuietInv, ArmShare PROVE QuietOK'
  <1> USE DEF QuietInv, RuntimeInv, PromiseInv, FilesConsistent
  <1>1. /\ pc \in ArmPcs /\ pc' \in ArmPcs \cup {"showAutomount"}
        /\ UNCHANGED creds
        /\ call'.op = call.op /\ call'.id = call.id /\ call'.mountStopped = call.mountStopped
    BY ArmLocals
  <1>2. call.op \in {"define", "boot"} /\ ~call.mountStopped
    BY <1>1 DEF RuntimeOK, RoutinesMatchCall, Stopping, QuietOK, StopIsKnown, ArmPcs, RemovePcs, PurgePcs, DeletePcs
  <1>3. InactiveStays'
    <2>1. pc' \notin Seen
      <3>1. CASE DecideArm \/ CheckCredential \/ WalkCreating \/ WalkExisting \/ Start \/ StatStarted
        BY <3>1 DEF DecideArm, CheckCredential, WalkCreating, WalkExisting, Start, StatStarted,
                    Seen, MountRead, MountKnown, Decides
      <3>2. CASE RecordId \/ DecideRecheck \/ StatAppeared \/ Compensate \/ StopStarted \/ ForgetId
        BY <3>2 DEF RecordId, DecideRecheck, StatAppeared, Compensate, StopStarted, ForgetId,
                    Seen, MountRead, MountKnown, Decides
      <3> QED
        BY <3>1, <3>2 DEF ArmShare
    <2> QED
      BY <2>1 DEF InactiveStays
  <1>4. StopIsKnown' /\ QuietRemoval' /\ RemoveProgress'
    BY <1>1, <1>2 DEF StopIsKnown, QuietRemoval, RemoveProgress, ArmPcs, RemovePcs
  <1>5. SecretDecided'
    BY <1>1 DEF QuietOK, SecretDecided, SubroutinePcs, ArmPcs
  <1>6. DefineComplete' /\ DefineAtomic' /\ RemoveComplete'
    BY <1>1 DEF DefineComplete, DefineAtomic, RemoveComplete, ArmPcs
  <1> QED
    BY <1>3, <1>4, <1>5, <1>6, ArmWellLoaded, ArmNotYet DEF QuietOK

-------------------------------------------------------------------------------
(* QuietInv: define and undefine.                                          *)

\* Where define's own steps lead, what they leave alone, and what they add.
LEMMA DefineLocals ==
    ASSUME TypeOK, StepsMatchCall, Define
    PROVE  /\ pc \in DefinePcs \cup {"armed", "needsAttention"} /\ pc' \in DefinePcs \cup {"showAutomount", "reply"}
           /\ UNCHANGED <<trig, over, job>>
           /\ \A v \in Units \ {call.u} : mountHalf'[v] = mountHalf[v] /\ autoHalf'[v] = autoHalf[v]
           /\ call.op = "define" /\ call'.op = "define" /\ call'.u = call.u /\ call'.id = call.id
           /\ call'.mountStopped = call.mountStopped
           /\ call'.ok = (call.ok \/ pc = "armed")
           /\ call'.hits \in {call.hits, call.hits + 1}
           /\ pc' = "showAutomount" => call'.site = "decideArm"
           /\ call'.mayRemoveUnits = call.mayRemoveUnits \/ (pc = "cleanCredential" /\ pc' = "cleanId" /\ call'.hits = call.hits + 1)
  <1> USE DEF TypeOK, HostTypeOK, Call, DefinePcs
  <1>1. call.op = "define" /\ call'.op = "define" /\ call'.u = call.u /\ call'.id = call.id
    BY DefineStep
  <1>2. UNCHANGED <<trig, over, job>>
    BY CalmStep
  <1>3. CASE WriteMount \/ WriteAutomount
    BY <1>1, <1>2, <1>3 DEF WriteMount, WriteAutomount, Proceed, FailTo, Replace
  <1>4. CASE WriteCredential \/ AssertNoCredential
    BY <1>1, <1>2, <1>4 DEF WriteCredential, AssertNoCredential, Proceed, FailTo, hostVars, durableVars
  <1>5. CASE Reload
    BY <1>1, <1>2, <1>5 DEF Reload, EnterArmShare, FailTo, durableVars
  <1>6. CASE DefineArmed \/ DefineNotArmed
    BY <1>1, <1>2, <1>6 DEF DefineArmed, DefineNotArmed, Proceed, hostVars, durableVars
  <1>7. CASE CleanCredential
    BY <1>1, <1>2, <1>7 DEF CleanCredential, Proceed
  <1>8. CASE CleanAutomount \/ CleanMount
    BY <1>1, <1>2, <1>8 DEF CleanAutomount, CleanMount, Proceed, FailTo, Replace
  <1>9. CASE CleanId
    BY <1>1, <1>2, <1>9 DEF CleanId, Proceed, FailTo, durableVars
  <1>10. CASE CleanReload
    BY <1>1, <1>2, <1>10 DEF CleanReload, Proceed, FailTo, durableVars
  <1> QED
    BY <1>3, <1>4, <1>5, <1>6, <1>7, <1>8, <1>9, <1>10 DEF Define

\* While define writes, and while it takes back, nothing is live there.
LEMMA DefineQuiet == ASSUME QuietInv, Define PROVE NotYetArmed' /\ DefinitionOutlivesTrigger'
  <1> USE DEF QuietInv, RuntimeInv, PromiseInv, FilesConsistent
  <1> DEFINE u == call.u
  <1>1. /\ pc \in DefinePcs \cup {"armed", "needsAttention"} /\ pc' \in DefinePcs \cup {"showAutomount", "reply"}
        /\ UNCHANGED <<trig, over>>
        /\ \A v \in Units \ {u} : mountHalf'[v] = mountHalf[v] /\ autoHalf'[v] = autoHalf[v]
        /\ call.op = "define" /\ call'.op = "define" /\ call'.u = u /\ u \in Units
        /\ pc' = "showAutomount" => call'.site = "decideArm"
    BY DefineLocals DEF TypeOK, Call
  <1>2. Quiet(u) <=> Quiet(u)'
    BY <1>1 DEF Quiet, Armed, Occupied
  <1>3. pc \in DefinePcs \/ (pc = "needsAttention" /\ call.safe) => Quiet(u)
    BY <1>1 DEF QuietOK, NotYetArmed, DefinePcs, CleanPcs
  <1>4. pc' # "reply" => pc \in DefinePcs \/ (pc = "needsAttention" /\ call.safe)
    <2>1. CASE pc \in {"armed", "needsAttention"}
      <3>1. DefineArmed \/ DefineNotArmed
        BY <2>1 DEF Define, WriteMount, WriteAutomount, WriteCredential, AssertNoCredential, Reload,
                    CleanCredential, CleanAutomount, CleanMount, CleanId, CleanReload
      <3> QED
        BY <3>1 DEF DefineArmed, DefineNotArmed, Proceed
    <2> QED
      BY <1>1, <2>1
  <1>5. NotYetArmed'
    <2>1. pc' # "reply" => Quiet(u)'
      BY <1>2, <1>3, <1>4
    <2> QED
      BY <1>1, <2>1 DEF NotYetArmed, DefinePcs, InspectPcs, CleanPcs, Quiet, Armed, Occupied
  <1>6. DefinitionOutlivesTrigger'
    <2> SUFFICES ASSUME NEW v \in Units, trig[v].by = "tool" PROVE (Definition(v))' = "Pair"
      BY <1>1 DEF DefinitionOutlivesTrigger
    <2>1. Definition(v) = "Pair"
      BY DEF QuietOK, DefinitionOutlivesTrigger
    <2>2. CASE v # u
      BY <1>1, <2>1, <2>2 DEF Definition
    <2>3. CASE v = u
      <3>1. ~Quiet(u)
        BY <1>1, <2>3, QuietIsNobodys
      <3>2. pc \notin DefinePcs
        BY <1>3, <3>1
      <3>3. UNCHANGED <<mountHalf, autoHalf>>
        BY <3>2 DEF Define, WriteMount, WriteAutomount, WriteCredential, AssertNoCredential, Reload, DefineArmed,
                    DefineNotArmed, CleanCredential, CleanAutomount, CleanMount, CleanId, CleanReload, DefinePcs,
                    hostVars, durableVars
      <3> QED
        BY <2>1, <3>3 DEF Definition
    <2> QED
      BY <2>2, <2>3
  <1> QED
    BY <1>5, <1>6

\* armShare begins with the credential decided and the definition loaded.
LEMMA DefineReady == ASSUME QuietInv, Define PROVE SecretDecided' /\ WellLoaded'
  <1> USE DEF QuietInv, RuntimeInv, PromiseInv, FilesConsistent
  <1> DEFINE u == call.u
  <1>1. /\ pc' \in DefinePcs \cup {"showAutomount", "reply"} /\ UNCHANGED trig
        /\ call'.op = "define" /\ call.op = "define" /\ call'.u = u /\ call'.id = call.id /\ u \in Units
    BY DefineLocals DEF TypeOK, Call
  <1>2. CASE WriteCredential
    <2>1. pc' = "reload" => call.id \in creds' /\ call.id \notin Guests
      BY <1>2 DEF WriteCredential
    <2>2. pc' \in {"reload", "cleanCredential"}
      BY <1>2 DEF WriteCredential
    <2> QED
      BY <1>1, <2>1, <2>2 DEF SecretDecided, WellLoaded, SubroutinePcs, InspectPcs, StopPcs, ArmPcs
  <1>3. CASE AssertNoCredential
    <2>1. pc' = "reload" => call.id \notin creds /\ call.id \in Guests
      BY <1>3 DEF AssertNoCredential, FailTo
    <2>2. pc' \in {"reload", "cleanCredential"} /\ UNCHANGED creds
      BY <1>3 DEF AssertNoCredential, FailTo, Proceed, hostVars, durableVars
    <2> QED
      BY <1>1, <2>1, <2>2 DEF SecretDecided, WellLoaded, SubroutinePcs, InspectPcs, StopPcs, ArmPcs
  <1>4. CASE Reload
    <2>1. /\ pc = "reload" /\ pc' \in {"showAutomount", "cleanCredential"} /\ UNCHANGED <<creds, autoHalf>>
          /\ pc' = "showAutomount" => ReloadEffect
      BY <1>4 DEF Reload, FailTo, durableVars
    <2>2. ((call.id \in creds) <=> (call.id \notin Guests)) /\ autoHalf[u] = call.id /\ call.id # NoFile /\ ~Armed(u)
      BY <1>1, <2>1, OwnHalves DEF QuietOK, SecretDecided, NotYetArmed, RuntimeOK, HalvesWritten, Quiet
    <2>3. ReloadEffect => loaded'[u] = call.id
      BY <1>1, <2>2 DEF ReloadEffect
    <2>4. ~(Armed(u))'
      BY <1>1, <2>2 DEF Armed
    <2> QED
      BY <1>1, <2>1, <2>2, <2>3, <2>4
      DEF SecretDecided, WellLoaded, SubroutinePcs, InspectPcs, StopPcs, ArmPcs, Armed
  <1>5. CASE WriteMount \/ WriteAutomount \/ DefineArmed \/ DefineNotArmed
    <2>1. pc' \in {"writeAutomount", "writeCredential", "cleanCredential", "reply"}
      BY <1>5 DEF WriteMount, WriteAutomount, DefineArmed, DefineNotArmed, Proceed, FailTo
    <2> QED
      BY <2>1 DEF SecretDecided, WellLoaded, SubroutinePcs, InspectPcs, StopPcs, ArmPcs
  <1>6. CASE CleanCredential \/ CleanAutomount \/ CleanMount \/ CleanId \/ CleanReload
    <2>1. pc' \in {"cleanAutomount", "cleanMount", "cleanId", "cleanReload", "reply"}
      BY <1>6 DEF CleanCredential, CleanAutomount, CleanMount, CleanId, CleanReload, Proceed, FailTo
    <2> QED
      BY <2>1 DEF SecretDecided, WellLoaded, SubroutinePcs, InspectPcs, StopPcs, ArmPcs
  <1> QED
    BY <1>2, <1>3, <1>4, <1>5, <1>6 DEF Define

\* Cleanup takes back both halves and the credential, or counts a second
\* fault.
LEMMA DefineCleans == ASSUME QuietInv, Define PROVE CleanupProgress'
  <1> USE DEF QuietInv, RuntimeInv, PromiseInv, FilesConsistent
  <1> DEFINE u == call.u
  <1>1. /\ pc' \in DefinePcs \cup {"showAutomount", "reply"}
        /\ call.op = "define" /\ call'.op = "define" /\ call'.u = u /\ call'.id = call.id /\ u \in Units
        /\ call'.hits \in {call.hits, call.hits + 1} /\ call.hits \in Nat
        /\ \/ call'.mayRemoveUnits = call.mayRemoveUnits
           \/ pc = "cleanCredential" /\ pc' = "cleanId" /\ call'.hits = call.hits + 1
    BY DefineLocals DEF TypeOK, Call
  <1>2. /\ pc \in CleanPcs \/ (pc = "needsAttention" /\ call.safe) => call.hits > 0
        /\ ~call.mayRemoveUnits => call.hits > 1
        /\ pc \in {"cleanMount", "cleanId", "cleanReload"} /\ call.hits < 2 => autoHalf[u] = NoFile
        /\ pc \in {"cleanId", "cleanReload"} /\ call.hits < 2 => mountHalf[u] = NoFile /\ call.id \notin creds
    BY <1>1 DEF QuietOK, CleanupProgress
  <1>3. ~call'.mayRemoveUnits => call'.hits > 1
    BY <1>1, <1>2 DEF CleanPcs
  <1>4. SUFFICES /\ pc' \in CleanPcs => call'.hits > 0
                 /\ pc' \in {"cleanMount", "cleanId", "cleanReload"} /\ call'.hits < 2 => autoHalf'[u] = NoFile
                 /\ pc' \in {"cleanId", "cleanReload"} /\ call'.hits < 2 =>
                      mountHalf'[u] = NoFile /\ call.id \notin creds'
    BY <1>1, <1>3 DEF CleanupProgress, DefinePcs
  <1>5. autoHalf \in [Units -> FileContent] /\ mountHalf \in [Units -> FileContent] /\ call \in Call
    BY DEF TypeOK, HostTypeOK
  <1>6. CASE WriteMount \/ WriteAutomount \/ WriteCredential \/ AssertNoCredential \/ Reload
    <2>1. /\ pc' \in {"writeAutomount", "writeCredential", "reload", "showAutomount", "cleanCredential"}
          /\ pc' = "cleanCredential" => call'.hits = call.hits + 1
      <3>1. CASE WriteMount \/ WriteAutomount
        BY <1>5, <3>1 DEF WriteMount, WriteAutomount, Proceed, FailTo, Call
      <3>2. CASE WriteCredential \/ AssertNoCredential \/ Reload
        BY <1>5, <3>2 DEF WriteCredential, AssertNoCredential, Reload, Proceed, FailTo, Call
      <3> QED
        BY <1>6, <3>1, <3>2
    <2> QED
      BY <1>1, <2>1 DEF CleanPcs
  <1>7. CASE DefineArmed \/ DefineNotArmed
    <2>1. /\ pc' \in {"cleanCredential", "reply"}
          /\ pc' = "cleanCredential" => pc = "needsAttention" /\ call.safe
      BY <1>7 DEF DefineArmed, DefineNotArmed, Proceed
    <2> QED
      BY <1>1, <1>2, <2>1 DEF CleanPcs
  <1>8. CASE CleanCredential
    <2>1. pc = "cleanCredential" /\ (pc' = "cleanAutomount" \/ (pc' = "cleanId" /\ call'.hits = call.hits + 1))
      BY <1>5, <1>8 DEF CleanCredential, Proceed, Call
    <2> QED
      BY <1>1, <1>2, <2>1 DEF CleanPcs
  <1>9. CASE CleanAutomount
    <2>1. /\ pc = "cleanAutomount" /\ pc' = "cleanMount"
          /\ call'.hits = call.hits + 1 \/ autoHalf'[u] = NoFile
      BY <1>1, <1>5, <1>9 DEF CleanAutomount, Proceed, FailTo, Replace, Call
    <2> QED
      BY <1>1, <1>2, <2>1 DEF CleanPcs
  <1>10. CASE CleanMount
    <2>1. /\ pc = "cleanMount" /\ pc' = "cleanId" /\ UNCHANGED <<autoHalf, creds>>
          /\ call'.hits = call.hits + 1 \/ mountHalf'[u] = NoFile
      BY <1>1, <1>5, <1>10 DEF CleanMount, Proceed, FailTo, Replace, Call
    <2>2. call.id \notin creds
      BY <2>1 DEF SecretWithinUnits
    <2> QED
      BY <1>1, <1>2, <2>1, <2>2 DEF CleanPcs
  <1>11. CASE CleanId \/ CleanReload
    <2>1. pc \in {"cleanId", "cleanReload"} /\ pc' \in {"cleanReload", "reply"} /\ UNCHANGED <<mountHalf, autoHalf, creds>>
      BY <1>11 DEF CleanId, CleanReload, Proceed, FailTo, durableVars
    <2> QED
      BY <1>1, <1>2, <2>1 DEF CleanPcs
  <1> QED
    BY <1>6, <1>7, <1>8, <1>9, <1>10, <1>11 DEF Define

\* What define reports is so.
LEMMA DefineReports == ASSUME QuietInv, Define PROVE DefineComplete' /\ DefineAtomic'
  <1> USE DEF QuietInv, RuntimeInv, PromiseInv, FilesConsistent
  <1> DEFINE u == call.u
  <1>1. /\ pc \in DefinePcs \cup {"armed", "needsAttention"} /\ pc' \in DefinePcs \cup {"showAutomount", "reply"}
        /\ UNCHANGED <<trig, over>>
        /\ call.op = "define" /\ call'.op = "define" /\ call'.u = u /\ call'.id = call.id /\ u \in Units
        /\ call'.ok = (call.ok \/ pc = "armed")
        /\ call'.hits \in {call.hits, call.hits + 1} /\ call.hits \in Nat
    BY DefineLocals DEF TypeOK, Call
  <1>2. ~call.ok
    BY <1>1 DEF DoneIsLast, DefinePcs
  <1>3. SUFFICES ASSUME pc' = "reply" PROVE DefineComplete' /\ DefineAtomic'
    BY DEF DefineComplete, DefineAtomic
  <1>4. /\ mountHalf[u] = call.id /\ autoHalf[u] = call.id => Definition(u) = "Pair"
        /\ mountHalf[u] = NoFile /\ autoHalf[u] = NoFile => Definition(u) = "None"
    BY <1>1, OwnHalves, SameIdIsPair, InspectVerdicts DEF Definition
  <1>5. CASE pc \in {"armed", "needsAttention"}
    <2>1. UNCHANGED <<mountHalf, autoHalf, creds>>
      BY <1>5 DEF Define, WriteMount, WriteAutomount, WriteCredential, AssertNoCredential, Reload, DefineArmed,
                  DefineNotArmed, CleanCredential, CleanAutomount, CleanMount, CleanId, CleanReload, hostVars, durableVars
    <2>2. /\ mountHalf[u] = call.id /\ autoHalf[u] = call.id
          /\ (call.id \in creds) <=> (call.id \notin Guests)
          /\ Armed(u) => trig[u].share = call.id
      BY <1>1, <1>5 DEF RuntimeOK, HalvesWritten, QuietOK, SecretDecided, WellLoaded, SubroutinePcs, ArmPcs
    <2>3. pc = "armed" => Armed(u) \/ call.missing
      BY DEF RuntimeOK, StartedOrMissing
    <2>4. (Definition(u))' = "Pair" /\ (Armed(u))' = Armed(u)
      BY <1>1, <1>4, <2>1, <2>2 DEF Definition, Armed
    <2>5. DefineComplete'
      <3>1. SUFFICES ASSUME call'.ok PROVE DefineComplete'
        BY DEF DefineComplete
      <3>2. pc = "armed" /\ call'.missing = call.missing
        BY <1>2, <1>5, <3>1 DEF Define, WriteMount, WriteAutomount, WriteCredential, AssertNoCredential, Reload,
                                DefineArmed, DefineNotArmed, CleanCredential, CleanAutomount, CleanMount, CleanId,
                                CleanReload, Proceed, TypeOK, Call
      <3>3. (NeverStarted)' \/ ((Armed(u))' /\ trig'[u].share = call.id)
        BY <1>1, <2>1, <2>2, <2>3, <2>4, <3>2 DEF NeverStarted
      <3> QED
        BY <1>1, <2>1, <2>2, <2>4, <3>3 DEF DefineComplete
    <2>6. DefineAtomic'
      BY <1>1, <2>1, <2>2, <2>4 DEF DefineAtomic
    <2> QED
      BY <2>5, <2>6
  <1>6. CASE CleanId \/ CleanReload
    <2>1. /\ pc \in {"cleanId", "cleanReload"} /\ UNCHANGED <<mountHalf, autoHalf, creds>>
          /\ pc = "cleanId" => ~call.mayRemoveUnits
      BY <1>3, <1>6 DEF CleanId, CleanReload, Proceed, FailTo, durableVars
    <2>2. ~call'.ok
      BY <1>1, <1>2, <2>1
    <2>3. call'.hits < 2 => /\ mountHalf[u] = NoFile /\ autoHalf[u] = NoFile /\ call.id \notin creds
                            /\ pc = "cleanReload"
      BY <1>1, <2>1 DEF QuietOK, CleanupProgress
    <2>4. trig[u].by # "tool"
      BY <1>1, <2>1, QuietIsNobodys DEF QuietOK, NotYetArmed, CleanPcs
    <2>5. (Definition(u))' = Definition(u)
      BY <1>1, <2>1 DEF Definition
    <2> QED
      BY <1>1, <1>4, <2>1, <2>2, <2>3, <2>4, <2>5 DEF DefineComplete, NeverStarted, DefineAtomic
  <1>7. pc \in {"armed", "needsAttention"} \/ CleanId \/ CleanReload
    BY <1>3 DEF Define, WriteMount, WriteAutomount, WriteCredential, AssertNoCredential, Reload, DefineArmed,
                DefineNotArmed, CleanCredential, CleanAutomount, CleanMount, Proceed, FailTo
  <1> QED
    BY <1>5, <1>6, <1>7

\* Every step of define keeps the invariant.
LEMMA QuietDefine == ASSUME QuietInv, Define PROVE QuietOK'
  <1> USE DEF QuietInv, RuntimeInv, PromiseInv, FilesConsistent
  <1>1. /\ pc \in DefinePcs \cup {"armed", "needsAttention"} /\ pc' \in DefinePcs \cup {"showAutomount", "reply"}
        /\ UNCHANGED job /\ call'.op = "define" /\ call'.mountStopped = call.mountStopped
    BY DefineLocals
  <1>2. ~call.mountStopped
    BY <1>1 DEF QuietOK, StopIsKnown, DefinePcs, RemovePcs, PurgePcs, DeletePcs
  <1>3. NoJobs' /\ InactiveStays' /\ StopIsKnown' /\ QuietRemoval' /\ RemoveProgress'
    BY <1>1, <1>2 DEF QuietOK, NoJobs, InactiveStays, StopIsKnown, QuietRemoval, RemoveProgress, DefinePcs, RemovePcs,
                      Seen, MountRead, MountKnown, Decides
  <1>4. RemoveComplete'
    BY <1>1 DEF RemoveComplete
  <1> QED
    BY <1>3, <1>4, DefineQuiet, DefineReady, DefineCleans, DefineReports DEF QuietOK

\* A removal deletes over a quiet path, and has deleted what it says.
LEMMA QuietRemove == ASSUME QuietInv, Remove PROVE QuietOK'
  <1> USE DEF QuietInv, RuntimeInv, PromiseInv, FilesConsistent
  <1> DEFINE u == call.u
  <1>1. /\ call.op = "remove" /\ call'.op = "remove" /\ call'.u = u /\ call'.id = call.id /\ u \in Units
        /\ pc' \in RemovePcs \cup {"reply"} /\ UNCHANGED <<trig, over, job>>
    BY RemoveStep, CalmStep DEF TypeOK, Call
  <1>2. /\ mountHalf \in [Units -> FileContent] /\ autoHalf \in [Units -> FileContent]
        /\ idRec \in [Units -> Nat] /\ call \in Call
    BY DEF TypeOK, HostTypeOK
  <1>3. pc \in {"stopped", "refused"} \cup RemovePcs /\ (pc = "refused" => pc' = "reply" /\ UNCHANGED <<call, hostVars>>)
    BY DEF Remove, RemoveRefused, RemoveStopped, RemoveCredential, RemoveMount, RemoveAutomount, RemoveId, RemoveReload,
           RemovePcs, Proceed
  <1>4. pc # "refused" => Quiet(u) /\ trig[u].by = "nobody"
    BY <1>1, <1>3, QuietIsNobodys DEF QuietOK, QuietRemoval
  <1>5. Quiet(u) <=> Quiet(u)'
    BY <1>1 DEF Quiet, Armed, Occupied
  <1>6. NoJobs' /\ StopIsKnown' /\ QuietRemoval'
    BY <1>1, <1>3, <1>4, <1>5 DEF QuietOK, NoJobs, StopIsKnown, QuietRemoval, RemovePcs, Quiet, Armed, Occupied
  <1>7. InactiveStays' /\ NotYetArmed' /\ SecretDecided' /\ WellLoaded' /\ CleanupProgress' /\ DefineComplete' /\ DefineAtomic'
    BY <1>1 DEF InactiveStays, NotYetArmed, SecretDecided, WellLoaded, CleanupProgress, DefineComplete, DefineAtomic,
                Seen, MountRead, MountKnown, Decides, RemovePcs
  <1>8. DefinitionOutlivesTrigger'
    <2>1. \A v \in Units \ {u} : mountHalf'[v] = mountHalf[v] /\ autoHalf'[v] = autoHalf[v]
      BY <1>2 DEF Remove, RemoveRefused, RemoveStopped, RemoveCredential, RemoveMount, RemoveAutomount, RemoveId,
                  RemoveReload, Replace, hostVars, durableVars
    <2> SUFFICES ASSUME NEW v \in Units, trig[v].by = "tool" PROVE (Definition(v))' = "Pair"
      BY <1>1 DEF DefinitionOutlivesTrigger
    <2>2. Definition(v) = "Pair"
      BY DEF QuietOK, DefinitionOutlivesTrigger
    <2>3. CASE v # u
      BY <2>1, <2>2, <2>3 DEF Definition
    <2>4. CASE v = u
      BY <1>3, <1>4, <2>2, <2>4 DEF Definition, hostVars, durableVars
    <2> QED
      BY <2>3, <2>4
  <1>9. RemoveProgress'
    <2>1. CASE RemoveRefused \/ RemoveStopped
      <3>1. pc' \in {"reply", "removeCredential"}
        BY <2>1 DEF RemoveRefused, RemoveStopped, Proceed
      <3> QED
        BY <3>1 DEF RemoveProgress
    <2>2. CASE RemoveCredential
      <3>1. pc' \in {"reply", "removeMount"} /\ (pc' = "removeMount" => call.id \notin creds')
        BY <2>2 DEF RemoveCredential, Proceed, FailTo
      <3> QED
        BY <1>1, <3>1 DEF RemoveProgress
    <2>3. CASE RemoveMount
      <3>1. /\ pc = "removeMount" /\ pc' \in {"reply", "removeAutomount"} /\ UNCHANGED creds
            /\ pc' = "removeAutomount" => mountHalf'[u] = NoFile
        BY <1>1, <1>2, <2>3 DEF RemoveMount, Proceed, FailTo, Replace
      <3> QED
        BY <1>1, <3>1 DEF QuietOK, RemoveProgress
    <2>4. CASE RemoveAutomount
      <3>1. /\ pc = "removeAutomount" /\ pc' \in {"reply", "removeId"} /\ UNCHANGED <<creds, mountHalf>>
            /\ pc' = "removeId" => autoHalf'[u] = NoFile
        BY <1>1, <1>2, <2>4 DEF RemoveAutomount, Proceed, FailTo, Replace
      <3> QED
        BY <1>1, <3>1 DEF QuietOK, RemoveProgress
    <2>5. CASE RemoveId
      <3>1. /\ pc = "removeId" /\ pc' \in {"reply", "removeReload"} /\ UNCHANGED <<creds, mountHalf, autoHalf>>
            /\ pc' = "removeReload" => idRec'[u] = 0
        BY <1>1, <1>2, <2>5 DEF RemoveId, Proceed, FailTo, Replace, durableVars
      <3> QED
        BY <1>1, <3>1 DEF QuietOK, RemoveProgress
    <2>6. CASE RemoveReload
      <3>1. pc' = "reply"
        BY <2>6 DEF RemoveReload, FailTo
      <3> QED
        BY <3>1 DEF RemoveProgress
    <2> QED
      BY <2>1, <2>2, <2>3, <2>4, <2>5, <2>6 DEF Remove
  <1>10. RemoveComplete'
    <2>1. ~call.ok
      BY <1>3 DEF DoneIsLast, RemovePcs
    <2>2. CASE RemoveReload
      <3>1. pc = "removeReload" /\ UNCHANGED <<mountHalf, autoHalf, creds, idRec>> /\ (call'.ok => ReloadEffect)
        BY <1>2, <2>1, <2>2 DEF RemoveReload, FailTo, durableVars, Call
      <3>2. mountHalf[u] = NoFile /\ autoHalf[u] = NoFile /\ call.id \notin creds /\ idRec[u] = 0
        BY <3>1 DEF QuietOK, RemoveProgress
      <3>3. ~Armed(u) /\ ~(Armed(u))'
        BY <1>1, <1>4, <3>1 DEF Quiet, Armed
      <3>4. (Definition(u))' = "None"
        BY <1>1, <3>1, <3>2, InspectVerdicts DEF Definition
      <3>5. ReloadEffect => loaded'[u] = NoFile
        BY <1>1, <3>2, <3>3 DEF ReloadEffect
      <3> QED
        BY <1>1, <3>1, <3>2, <3>3, <3>4, <3>5 DEF RemoveComplete
    <2>3. CASE ~RemoveReload
      <3>1. ~call'.ok
        BY <1>2, <2>1, <2>3 DEF Remove, RemoveRefused, RemoveStopped, RemoveCredential, RemoveMount, RemoveAutomount,
                                RemoveId, Proceed, FailTo, Call
      <3> QED
        BY <3>1 DEF RemoveComplete
    <2> QED
      BY <2>2, <2>3
  <1> QED
    BY <1>6, <1>7, <1>8, <1>9, <1>10 DEF QuietInv, QuietOK

-------------------------------------------------------------------------------
(* QuietInv is inductive.                                                  *)

\* Where nothing changes.
LEMMA QuietStutter == ASSUME QuietInv, UNCHANGED vars PROVE QuietOK'
  <1>1. NoJobs' /\ InactiveStays' /\ StopIsKnown' /\ QuietRemoval' /\ RemoveProgress'
    BY DEF QuietInv, QuietOK, NoJobs, InactiveStays, StopIsKnown, QuietRemoval, RemoveProgress, Quiet, Armed, Occupied,
           vars, hostVars, armVars, durableVars, systemdVars
  <1>2. NotYetArmed' /\ SecretDecided' /\ WellLoaded' /\ CleanupProgress'
    BY DEF QuietInv, QuietOK, NotYetArmed, SecretDecided, WellLoaded, CleanupProgress, Quiet, Armed, Occupied,
           vars, hostVars, armVars, durableVars, systemdVars
  <1>3. DefinitionOutlivesTrigger' /\ DefineComplete' /\ DefineAtomic' /\ RemoveComplete'
    BY DEF QuietInv, QuietOK, DefinitionOutlivesTrigger, DefineComplete, NeverStarted, DefineAtomic, RemoveComplete, Definition, Armed,
           vars, hostVars, armVars, durableVars, systemdVars
  <1> QED
    BY <1>1, <1>2, <1>3 DEF QuietInv, QuietOK

\* Every step keeps it.
LEMMA QuietStep == ASSUME QuietInv, [Next]_vars PROVE QuietInv'
  <1>1. RuntimeInv'
    BY RuntimeStep DEF QuietInv
  <1>2. QuietOK'
    BY QuietInspect, QuietStop, QuietArm, QuietDefine, QuietRemove, QuietBoot, QuietEnds, QuietBegins, QuietDrift,
       QuietStutter
    DEF Next, Step, Boot
  <1> QED
    BY <1>1, <1>2 DEF QuietInv

\* It holds at the start.
LEMMA QuietInit == ASSUME ~LateJobs, Init PROVE QuietInv
  <1>1. /\ pc = "idle" /\ call.op = "none" /\ ~call.mountStopped
        /\ \A v \in Units : trig[v].by = "nobody" /\ ~job[v]
    BY DEF Init, HostInit, NoCall, NoTrigger
  <1>2. NoJobs /\ InactiveStays /\ StopIsKnown /\ QuietRemoval /\ RemoveProgress
    BY <1>1 DEF NoJobs, InactiveStays, StopIsKnown, QuietRemoval, RemoveProgress, Seen, MountRead, MountKnown, Decides,
                RemovePcs
  <1>3. NotYetArmed /\ SecretDecided /\ WellLoaded /\ CleanupProgress
    BY <1>1 DEF NotYetArmed, SecretDecided, WellLoaded, CleanupProgress
  <1>4. DefinitionOutlivesTrigger /\ DefineComplete /\ DefineAtomic /\ RemoveComplete
    BY <1>1 DEF DefinitionOutlivesTrigger, DefineComplete, DefineAtomic, RemoveComplete
  <1> QED
    BY <1>2, <1>3, <1>4, RuntimeInit DEF QuietInv, QuietOK

\* The second invariant: where no start job outlives its systemctl, what
\* safeStop and armShare saw stopped is stopped until they start it.
THEOREM QuietInvariant == ~LateJobs /\ Spec => []QuietInv
  <1>1. ~LateJobs /\ Init => QuietInv
    BY QuietInit
  <1>2. QuietInv /\ [Next]_vars => QuietInv'
    BY QuietStep
  <1> QED
    BY <1>1, <1>2, PTL DEF Spec

\* While a removal deletes, nothing is live at its mount point: no trigger
\* and no mount is left behind without its definition.
THEOREM RemovalStaysQuiet == ~LateJobs /\ Spec => []RemovalIsQuiet
  <1>1. QuietInv => RemovalIsQuiet
    BY DEF QuietInv, QuietOK, QuietRemoval, Quiet, RemovalIsQuiet
  <1> QED
    BY <1>1, QuietInvariant, PTL

\* A removal reported successful left no half, no credential, no record, no
\* loaded unit and no trigger.
THEOREM RemovalIsComplete == ~LateJobs /\ Spec => []RemoveComplete
  <1>1. QuietInv => RemoveComplete
    BY DEF QuietInv, QuietOK
  <1> QED
    BY <1>1, QuietInvariant, PTL

\* A trigger nasmount started always has its complete definition on disk.
THEOREM TriggersAreDefined == ~LateJobs /\ Spec => []DefinitionOutlivesTrigger
  <1>1. QuietInv => DefinitionOutlivesTrigger
    BY DEF QuietInv, QuietOK
  <1> QED
    BY <1>1, QuietInvariant, PTL

\* A define reported successful left both halves, the credential exactly if
\* it needs one, and a trigger that runs this definition.
THEOREM DefineIsComplete == ~LateJobs /\ Spec => []DefineComplete
  <1>1. QuietInv => DefineComplete
    BY DEF QuietInv, QuietOK
  <1> QED
    BY <1>1, QuietInvariant, PTL

\* A define that failed on one fault left nothing, or a whole definition.
THEOREM DefineIsAtomic == ~LateJobs /\ Spec => []DefineAtomic
  <1>1. QuietInv => DefineAtomic
    BY DEF QuietInv, QuietOK
  <1> QED
    BY <1>1, QuietInvariant, PTL

-------------------------------------------------------------------------------
(* TrustInv is inductive.                                                  *)

\* Outside the routines only the records and the mounts matter.
LEMMA TrustElsewhere ==
    ASSUME TrustInv, pc' \in CalmPcs, \A v \in Units : (Occupied(v))' => idRec'[v] # over'[v].id
    PROVE  TrustOK'
  BY DEF TrustInv, TrustOK, ArmedIsTrusted, CalmPcs, DefinePcs, RemovePcs, Decides

\* Define's, a removal's and the boot pass's own steps.
LEMMA TrustCalm == ASSUME TrustInv, Define \/ Remove \/ Boot \/ Reply \/ Crash \/ Begin \/ Reboot PROVE TrustOK'
  <1> USE DEF TrustInv, QuietInv, RuntimeInv, PromiseInv, FilesConsistent
  <1>1. CASE Define \/ Remove \/ Boot \/ Reply \/ Crash \/ Begin
    <2>1. /\ UNCHANGED <<trig, over>> /\ pc' \in CalmPcs
          /\ \A v \in Units : idRec'[v] \in {idRec[v], 0}
      BY <1>1, CalmStep
    <2>2. \A v \in Units : Occupied(v) => over[v].id # 0 /\ idRec[v] # over[v].id
      BY DEF RuntimeOK, RuntimeShape, TrustOK
    <2> QED
      BY <2>1, <2>2, TrustElsewhere DEF Occupied
  <1>2. CASE Reboot
    <2>1. pc' = "idle" /\ \A v \in Units : over'[v] = NoMount
      BY <1>2 DEF Reboot, HostReboot
    <2> QED
      BY <2>1, TrustElsewhere DEF Occupied, NoMount, CalmPcs
  <1> QED
    BY <1>1, <1>2

\* Nobody enters the path between the start and its record, and a mount made
\* later has an id no record has.
LEMMA TrustDrift == ASSUME TrustInv, Environment PROVE TrustOK'
  <1> USE DEF TrustInv, QuietInv, RuntimeInv, PromiseInv, FilesConsistent
  <1>1. \A v \in Units : idRec[v] \in Nat /\ idRec[v] < nextInst /\ (Occupied(v) => idRec[v] # over[v].id)
    BY DEF RuntimeOK, InstancesBelow, TrustOK, TypeOK, HostTypeOK
  <1>2. nextInst \in Nat
    BY DEF TypeOK, HostTypeOK
  <1>3. \A v \in Units : (Occupied(v))' => idRec'[v] # over'[v].id
    <2> SUFFICES ASSUME NEW v \in Units PROVE (Occupied(v))' => idRec'[v] # over'[v].id
      OBVIOUS
    <2>1. /\ UNCHANGED idRec
          /\ over'[v] = over[v] \/ over'[v] = NoMount \/ over'[v].id = nextInst
      BY IdleDrift, Drift
    <2> QED
      BY <1>1, <1>2, <2>1 DEF Occupied, NoMount
  <1>4. CASE pc = "idle"
    <2>1. pc' = "idle"
      BY <1>4, EnvironmentType DEF TypeOK, Environment, armVars
    <2> QED
      BY <1>3, <2>1, TrustElsewhere DEF CalmPcs
  <1>5. CASE pc # "idle"
    <2> DEFINE u == call.u
    <2>1. /\ UNCHANGED <<idRec, pc, call>> /\ trig'[u] = trig[u]
          /\ \/ over'[u] = over[u]
             \/ over'[u] = NoMount
             \/ Armed(u) /\ pc \notin ArmWindow
      BY <1>5, Drift DEF TypeOK, Call, QuietOK, NoJobs, TrustOK
    <2>2. ArmedIsTrusted'
      BY <2>1 DEF TrustOK, ArmedIsTrusted, NeverStarted, Armed
    <2>3. pc' = "start" => Quiet(u)'
      BY <2>1 DEF TrustOK, Quiet, Armed, Occupied, NoMount
    <2>4. pc' \in {"statStarted", "recordId"} => ~(Occupied(u))'
      BY <2>1 DEF TrustOK, ArmWindow, Occupied, NoMount
    <2> QED
      BY <1>3, <2>1, <2>2, <2>3, <2>4 DEF TrustOK, Armed
  <1> QED
    BY <1>4, <1>5

\* What is found trusted is trusted.
LEMMA TrustInspect == ASSUME TrustInv, InspectRuntime PROVE TrustOK'
  <1> USE DEF TrustInv, QuietInv, RuntimeInv, PromiseInv, FilesConsistent
  <1> DEFINE u == call.u
  <1>1. /\ UNCHANGED hostVars /\ call'.u = u /\ u \in Units /\ call.site \in Decides
        /\ pc' \in {"readMountinfo", "showMount", "readIds", call.site}
    BY InspectLocals DEF TypeOK, Call, Decides
  <1>2. UNCHANGED <<idRec, trig, over>>
    BY <1>1 DEF hostVars, systemdVars
  <1>3. pc' \in Decides => ReadIds
    <2>1. ShowAutomount => pc' = "readMountinfo"
      BY DEF ShowAutomount
    <2>2. ReadMountinfo => pc' \in {"showMount", "readIds"}
      BY DEF ReadMountinfo
    <2>3. ShowMount => pc' = "readIds"
      BY DEF ShowMount
    <2> QED
      BY <2>1, <2>2, <2>3 DEF InspectRuntime, Decides
  <1>4. pc' \in Decides /\ call'.snap.trust = "Trusted" => idRec[u] = trig[u].id
    <2> SUFFICES ASSUME pc' \in Decides, call'.snap.trust = "Trusted" PROVE idRec[u] = trig[u].id
      OBVIOUS
    <2>1. pc = "readIds" /\ call.snap.automount = "Active" /\ idRec[u] = UniqueMountId(u)
      BY <1>3, TrustSeen
    <2>2. Armed(u)
      BY <2>1 DEF RuntimeOK, SnapshotTrue, Seen, MountRead, MountKnown
    <2>3. ~Occupied(u)
      BY <1>1, <2>1 DEF TrustOK, UniqueMountId
    <2> QED
      BY <2>1, <2>2, <2>3 DEF UniqueMountId
  <1> QED
    BY <1>1, <1>2, <1>4 DEF TrustOK, ArmedIsTrusted, NeverStarted, Quiet, Armed, Occupied, Decides

\* A stop takes mounts away.
LEMMA TrustStop == ASSUME TrustInv, SafeStop PROVE TrustOK'
  <1>1. /\ pc' \in {"stopMount", "stopAutomount", "stopped", "refused"} /\ UNCHANGED idRec
        /\ \A v \in Units : over'[v] \in {over[v], NoMount}
    BY StopLocals DEF TrustInv, QuietInv, RuntimeInv, PromiseInv, FilesConsistent
  <1> QED
    BY <1>1 DEF TrustInv, TrustOK, ArmedIsTrusted, Decides, Occupied, NoMount

\* What armShare records is the id of the trigger it started: there is
\* nothing else at the path.
LEMMA TrustArm == ASSUME TrustInv, ArmShare PROVE TrustOK'
  <1> USE DEF TrustInv, QuietInv, RuntimeInv, PromiseInv, FilesConsistent
  <1> DEFINE u == call.u
  <1>1. /\ pc \in ArmPcs /\ pc' \in ArmPcs \cup {"showAutomount"}
        /\ \A v \in Units \ {u} : trig'[v] = trig[v] /\ over'[v] = over[v] /\ idRec'[v] = idRec[v]
        /\ call'.u = u /\ u \in Units
    BY ArmLocals DEF TypeOK, Call
  <1>2. /\ trig \in [Units -> Trigger] /\ over \in [Units -> Mount] /\ idRec \in [Units -> Nat] /\ call \in Call
    BY DEF TypeOK, HostTypeOK
  <1>3. Occupied(u) => over[u].id # 0 /\ idRec[u] # over[u].id
    BY <1>1 DEF RuntimeOK, RuntimeShape, TrustOK
  <1>4. SUFFICES /\ over'[u].fs # "none" => idRec'[u] # over'[u].id
                 /\ pc' = "start" => Quiet(u)'
                 /\ pc' \in {"statStarted", "recordId"} => ~(Occupied(u))'
                 /\ pc' = "recordId" => call'.started = IF (Armed(u))' THEN trig'[u].id ELSE UnderId
                 /\ pc' \notin Decides
                 /\ pc' = "armed" => IF call'.missing /\ ~(Armed(u))' THEN idRec'[u] = UnderId
                                     ELSE (Armed(u))' /\ idRec'[u] = trig'[u].id
    BY <1>1 DEF TrustInv, TrustOK, ArmedIsTrusted, NeverStarted, Quiet, Armed, Occupied
  <1>5. CASE DecideArm
    <2>1. /\ pc = "decideArm" /\ UNCHANGED <<call, idRec, trig, over>>
          /\ pc' \in {"armed", "checkCredential", "needsAttention"}
          /\ pc' = "armed" => EvaluateArmPrecheck(call.snap) = "AlreadyArmed"
      BY <1>5 DEF DecideArm, hostVars, systemdVars
    <2>2. pc' = "armed" => call.snap.automount = "Active" /\ call.snap.trust = "Trusted"
      BY <2>1, ArmVerdict, SnapType
    <2>3. pc' = "armed" => Armed(u) /\ idRec[u] = trig[u].id
      BY <2>1, <2>2 DEF TrustOK, RuntimeOK, SnapshotTrue, Seen, MountRead, MountKnown, Decides
    <2> QED
      BY <1>1, <1>3, <2>1, <2>3 DEF Decides, Armed, Occupied
  <1>6. CASE CheckCredential \/ DecideRecheck \/ StatAppeared \/ Compensate
    <2>1. /\ UNCHANGED <<idRec, trig, over>>
          /\ pc' \in {"walk", "needsAttention", "statAppeared", "compensate", "stopStarted"}
      BY <1>6 DEF CheckCredential, DecideRecheck, StatAppeared, Compensate, hostVars, systemdVars
    <2> QED
      BY <1>1, <1>3, <2>1 DEF Decides, Occupied
  <1>7. CASE WalkCreating \/ WalkExisting
    <2>1. /\ UNCHANGED <<idRec, trig, over>> /\ pc' \in {"start", "needsAttention"}
          /\ pc' = "start" => ~Armed(u) /\ ~Occupied(u)
      BY <1>7 DEF WalkCreating, WalkExisting, hostVars, systemdVars
    <2> QED
      BY <1>1, <1>3, <2>1 DEF Decides, Quiet, Armed, Occupied
  <1>8. CASE Start
    <2>1. UNCHANGED <<idRec, over>> /\ pc = "start" /\ pc' \in {"statStarted", "showAutomount"}
      BY <1>8, StartShape DEF Start
    <2>2. ~Occupied(u)
      BY <2>1 DEF TrustOK, Quiet
    <2> QED
      BY <1>1, <1>3, <2>1, <2>2 DEF Decides, Occupied
  <1>9. CASE StatStarted
    <2>1. /\ pc = "statStarted" /\ UNCHANGED <<idRec, trig, over>> /\ pc' \in {"recordId", "compensate"}
          /\ pc' = "recordId" => call'.started = UniqueMountId(u) /\ UniqueMountId(u) # 0
      BY <1>2, <1>9 DEF StatStarted, hostVars, systemdVars, Call
    <2>2. ~Occupied(u)
      BY <2>1 DEF TrustOK
    <2>3. UniqueMountId(u) # 0 => UniqueMountId(u) = IF Armed(u) THEN trig[u].id ELSE UnderId
      BY <2>2 DEF UniqueMountId
    <2> QED
      BY <1>1, <1>3, <2>1, <2>2, <2>3 DEF Decides, Armed, Occupied
  <1>10. CASE RecordId
    <2>1. /\ pc = "recordId" /\ UNCHANGED <<trig, over>> /\ pc' \in {"armed", "compensate"}
          /\ pc' = "armed" => idRec'[u] = call.started
          /\ call'.missing = call.missing
      BY <1>1, <1>2, <1>10 DEF RecordId, systemdVars, Call
    <2>2. /\ ~Occupied(u)
          /\ call.started = IF Armed(u) THEN trig[u].id ELSE UnderId
          /\ Armed(u) \/ call.missing
      BY <2>1 DEF TrustOK, RuntimeOK, StartedOrMissing
    <2> QED
      BY <1>1, <2>1, <2>2 DEF Decides, Armed, Occupied
  <1>11. CASE StopStarted
    <2>1. UNCHANGED idRec /\ pc' \in {"forgetId", "needsAttention"} /\ over'[u] \in {over[u], NoMount}
      BY <1>1, <1>2, <1>11 DEF StopStarted, StopAutomountEffect, systemdVars
    <2> QED
      BY <1>3, <2>1 DEF Decides, Occupied, NoMount
  <1>12. CASE ForgetId
    <2>1. UNCHANGED over /\ pc' = "needsAttention" /\ idRec'[u] \in {idRec[u], 0}
      BY <1>1, <1>2, <1>12 DEF ForgetId, systemdVars
    <2> QED
      BY <1>3, <2>1 DEF Decides, Occupied
  <1> QED
    BY <1>5, <1>6, <1>7, <1>8, <1>9, <1>10, <1>11, <1>12 DEF ArmShare

\* Every step keeps it.
LEMMA TrustStep == ASSUME TrustInv, [Next]_vars PROVE TrustInv'
  <1>1. QuietInv'
    BY QuietStep DEF TrustInv
  <1>2. CASE Next
    BY <1>1, <1>2, TrustCalm, TrustDrift, TrustInspect, TrustStop, TrustArm DEF Next, Step, TrustInv
  <1>3. CASE UNCHANGED vars
    <2>1. TrustOK'
      BY <1>3 DEF TrustInv, TrustOK, ArmedIsTrusted, NeverStarted, Quiet, Armed, Occupied, vars, hostVars, armVars, systemdVars
    <2> QED
      BY <1>1, <2>1 DEF TrustInv
  <1> QED
    BY <1>2, <1>3

\* It holds at the start.
LEMMA TrustInit == ASSUME ~LateJobs, ~EagerCross, Init PROVE TrustInv
  <1>1. pc = "idle" /\ \A v \in Units : ~Occupied(v)
    BY DEF Init, HostInit, Occupied, NoMount
  <1>2. TrustOK
    BY <1>1 DEF TrustOK, ArmedIsTrusted, Decides
  <1> QED
    BY <1>2, QuietInit DEF TrustInv

\* armShare reports Armed or AlreadyArmed only over a live trigger whose own
\* id is the one on record, so a later stop or boot pass recognises it, or
\* over a directory that was not there when PID 1 looked, with an id on record
\* that no trigger has.
THEOREM ArmedMeansTrusted == ~LateJobs /\ ~EagerCross /\ Spec => []ArmedIsTrusted
  <1>1. ~LateJobs /\ ~EagerCross /\ Init => TrustInv
    BY TrustInit
  <1>2. TrustInv /\ [Next]_vars => TrustInv'
    BY TrustStep
  <1>3. TrustInv => ArmedIsTrusted
    BY DEF TrustInv, TrustOK
  <1> QED
    BY <1>1, <1>2, <1>3, PTL DEF Spec

===============================================================================
