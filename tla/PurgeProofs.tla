------------------------------ MODULE PurgeProofs ------------------------------
(***************************************************************************)
(* What purge and the package guard keep, for every set of mount points    *)
(* and ids, every number of failures, every mix of the other programs and  *)
(* every interleaving, where no start job outlives its systemctl.  QuietInv*)
(* is invariant next to a purge as well, whose safeStop is the one of a    *)
(* removal; PurgeInv adds how far a purge has come and what the three      *)
(* directories say of the rest, and GuardInv what the package guard has    *)
(* seen of them.                                                           *)
(***************************************************************************)
EXTENDS PackageGuard, ArmingProofs

-------------------------------------------------------------------------------
(* The invariant.                                                          *)

PurgeTypeOK ==
    /\ roots \subseteq Roots
    /\ validated \subseteq Units

Purging == call.op = "purge"

\* The steps of purge run on its behalf.
PurgeStepsMatch ==
    /\ pc \in PurgePcs => Purging
    /\ Purging => call.todo \subseteq validated
    /\ pc \in {"purgeMount", "purgeAutomount", "purgeId", "purgeCredential"} => call.u \in validated \ call.todo

\* What purge has still to delete.
Pending ==
    IF pc = "purgeMount" THEN call.todo \cup {call.u}
    ELSE IF pc \in DeletePcs THEN call.todo
    ELSE IF pc = "reply" THEN {}
    ELSE validated

\* It is what it was when it was validated, and there is nothing else.
StillValid ==
    Purging /\ (pc = "reply" => call.ok) =>
        /\ \A u \in Pending : Managed(u)
        /\ \A u \in Units : Marked(u) => u \in Pending \/ (pc = "purgeAutomount" /\ u = call.u)
        /\ pc = "purgeAutomount" => mountHalf[call.u] = NoFile
        /\ pc \in {"purgeReload", "purgeEtc", "purgeIds", "purgeRun"} => call.todo = {}

\* What safeStop is done with is quiet.
StoppedSoFar ==
    Purging /\ pc \notin {"refused", "reply"} =>
        \A u \in validated :
            \/ Quiet(u)
            \/ pc \notin DeletePcs /\ u \in call.todo
            \/ pc \notin DeletePcs \cup {"purgeStop", "stopped"} /\ u = call.u

Done(pcs) == pc \in pcs \/ (pc = "reply" /\ Purging /\ call.ok)

\* PID 1 has forgotten every share, and one directory after the other goes.
WhatIsGone ==
    /\ Done({"purgeEtc", "purgeIds", "purgeRun"}) => \A u \in Units : loaded[u] \in Ids => trig[u].by = "admin"
    /\ Done({"purgeIds", "purgeRun"}) => creds = {} /\ "etc" \notin roots
    /\ Done({"purgeRun"}) => "ids" \notin roots /\ \A u \in Units : idRec[u] = 0
    /\ Done({}) => "run" \notin roots

\* Secrets, records and a program at work have their directory.
RootsTell ==
    /\ creds # {} => "etc" \in roots
    /\ \A u \in Units : idRec[u] # 0 => "ids" \in roots
    /\ pc \notin {"idle", "reply"} => "run" \in roots

PurgeProgress == PurgeStepsMatch /\ StillValid /\ StoppedSoFar /\ WhatIsGone

PurgeOK == PurgeTypeOK /\ PurgeProgress /\ RootsTell

PurgeInv == QuietInv /\ PurgeOK

-------------------------------------------------------------------------------
(* Purge's own steps, next to what the other programs rely on.             *)

PurgeOwn == PurgeBegin \/ PurgeShares \/ PurgeRoots

\* Purge keeps the type of its locals.
LEMMA PurgeCallType == ASSUME call \in Call, HostTypeOK, PurgeTypeOK, PurgeOwn PROVE call' \in Call
  <1> USE DEF Call
  <1>1. CASE PurgeBegin
    BY <1>1, NoCallType DEF PurgeBegin
  <1>2. ASSUME NEW u \in Units, PurgeStop(u) PROVE call' \in Call
    <2> DEFINE c == [call EXCEPT !.u = u, !.what = mountHalf[u], !.todo = @ \ {u}]
    <2>1. c \in Call
      BY DEF HostTypeOK
    <2>2. call' = EnterSafeStop(c)
      BY <1>2 DEF PurgeStop
    <2> HIDE DEF c
    <2> QED
      BY <2>1, <2>2, EnterTypes
  <1>3. ASSUME NEW u \in Units, PurgeDelete(u) PROVE call' \in Call
    <2>1. MarkerId(mountHalf[u], autoHalf[u]) \in FileContent
      BY DEF MarkerId, HostTypeOK
    <2> QED
      BY <1>3, <2>1 DEF PurgeDelete
  <1>4. CASE PurgeDeleteAll
    BY <1>4, FailedHits DEF PurgeDeleteAll, FailTo, PurgeTypeOK
  <1>5. CASE PurgeRun
    <2>1. [call EXCEPT !.ok = TRUE] \in Call
      OBVIOUS
    <2>2. [call EXCEPT !.hits = @ + 1] \in Call
      BY FailedHits
    <2> QED
      BY <1>5, <2>1, <2>2 DEF PurgeRun, FailTo
  <1>6. CASE PurgeStopped \/ PurgeRefused \/ PurgeMount \/ PurgeAutomount \/ PurgeId \/ PurgeCredential
    BY <1>6, FailedHits DEF PurgeStopped, PurgeRefused, PurgeMount, PurgeAutomount, PurgeId, PurgeCredential, Proceed, FailTo
  <1>7. CASE PurgeDeleted \/ PurgeReload \/ PurgeEtc \/ PurgeIds
    BY <1>7, FailedHits DEF PurgeDeleted, PurgeReload, PurgeEtc, PurgeIds, Proceed, FailTo
  <1> QED
    BY <1>1, <1>2, <1>3, <1>4, <1>5, <1>6, <1>7 DEF PurgeOwn, PurgeShares, PurgeRoots

\* Purge takes files, records and PID 1's memory of a unit away, and starts
\* and stops nothing.
LEMMA PurgeHost ==
    ASSUME HostTypeOK, PurgeOwn
    PROVE  /\ UNCHANGED <<dir, trig, over, job, nextInst>>
           /\ \A v \in Units : mountHalf'[v] \in {mountHalf[v], NoFile} /\ autoHalf'[v] \in {autoHalf[v], NoFile}
           /\ \A v \in Units : idRec'[v] \in {idRec[v], 0}
           /\ creds' \subseteq creds
           /\ HostTypeOK'
  <1> USE DEF HostTypeOK
  <1>1. CASE UNCHANGED hostVars
    BY <1>1 DEF hostVars, durableVars, systemdVars
  <1>2. CASE PurgeMount \/ PurgeAutomount
    BY <1>2 DEF PurgeMount, PurgeAutomount, Replace, systemdVars, FileContent
  <1>3. CASE PurgeId \/ PurgeCredential
    BY <1>3 DEF PurgeId, PurgeCredential, Replace, durableVars, systemdVars
  <1>4. CASE PurgeReload
    <2>1. UNCHANGED <<durableVars, idRec, trig, over, job, nextInst>> /\ (ReloadEffect \/ UNCHANGED systemdVars)
      BY <1>4 DEF PurgeReload, ReloadEffect, systemdVars
    <2>2. HostTypeOK'
      BY <2>1, ReloadType, SystemdUnchanged, OnlySystemd
    <2> QED
      BY <2>1, <2>2 DEF durableVars
  <1>5. CASE PurgeEtc \/ PurgeIds
    BY <1>5 DEF PurgeEtc, PurgeIds, durableVars, systemdVars
  <1> QED
    BY <1>1, <1>2, <1>3, <1>4, <1>5
    DEF PurgeOwn, PurgeShares, PurgeRoots, PurgeBegin, PurgeStop, PurgeStopped, PurgeRefused, PurgeDeleteAll,
        PurgeDelete, PurgeDeleted, PurgeRun

\* The halves change only where nothing is live.
LEMMA PurgeHalves ==
    ASSUME PurgeInv, PurgeOwn, NEW v \in Units
    PROVE  UNCHANGED <<mountHalf[v], autoHalf[v]>> \/ Quiet(v)
  <1>1. CASE PurgeMount \/ PurgeAutomount
    <2>1. pc \in {"purgeMount", "purgeAutomount"} /\ (v # call.u => UNCHANGED <<mountHalf[v], autoHalf[v]>>)
      BY <1>1 DEF PurgeMount, PurgeAutomount, Replace, PurgeInv, QuietInv, RuntimeInv, PromiseInv, FilesConsistent, TypeOK,
                  HostTypeOK
    <2>2. Quiet(call.u)
      BY <2>1 DEF PurgeInv, PurgeOK, PurgeProgress, PurgeStepsMatch, StoppedSoFar, PurgePcs, DeletePcs
    <2> QED
      BY <2>1, <2>2
  <1>2. CASE UNCHANGED <<mountHalf, autoHalf>>
    BY <1>2
  <1> QED
    BY <1>1, <1>2
    DEF PurgeOwn, PurgeShares, PurgeRoots, PurgeBegin, PurgeStop, PurgeStopped, PurgeRefused, PurgeDeleteAll,
        PurgeDelete, PurgeId, PurgeCredential, PurgeDeleted, PurgeReload, PurgeEtc, PurgeIds, PurgeRun, hostVars, durableVars

\* It goes on with its own steps, into safeStop or to the reply.
LEMMA PurgeGoesOn ==
    ASSUME TypeOK, PurgeStepsMatch, PurgeOwn
    PROVE  /\ call'.op = "purge" /\ call'.started \in {call.started, 0}
           /\ pc' \in {"showAutomount", "reply"} \cup PurgePcs
           /\ pc' = "showAutomount" => call'.site = "decideStop" /\ call'.mountStopped = FALSE
           /\ call'.ok => call.ok \/ pc' = "reply"
           /\ pc # "reply"
  <1> USE DEF TypeOK, Call, PurgeStepsMatch, Purging, PurgePcs, DeletePcs
  <1>1. CASE PurgeBegin
    BY <1>1 DEF PurgeBegin, NoCall
  <1>2. ASSUME NEW u \in Units, PurgeStop(u) \/ PurgeDelete(u)
        PROVE  /\ call'.op = "purge" /\ call'.started \in {call.started, 0}
               /\ pc' \in {"showAutomount", "reply"} \cup PurgePcs
               /\ pc' = "showAutomount" => call'.site = "decideStop" /\ call'.mountStopped = FALSE
               /\ call'.ok => call.ok \/ pc' = "reply"
               /\ pc # "reply"
    BY <1>2 DEF PurgeStop, PurgeDelete, EnterSafeStop
  <1>3. CASE PurgeStopped \/ PurgeRefused \/ PurgeDeleteAll \/ PurgeMount \/ PurgeAutomount
    BY <1>3 DEF PurgeStopped, PurgeRefused, PurgeDeleteAll, PurgeMount, PurgeAutomount, Proceed, FailTo
  <1>4. CASE PurgeId \/ PurgeCredential \/ PurgeDeleted \/ PurgeReload \/ PurgeEtc \/ PurgeIds \/ PurgeRun
    BY <1>4 DEF PurgeId, PurgeCredential, PurgeDeleted, PurgeReload, PurgeEtc, PurgeIds, PurgeRun, Proceed, FailTo
  <1> QED
    BY <1>1, <1>2, <1>3, <1>4 DEF PurgeOwn, PurgeShares, PurgeRoots

\* Purge keeps what the other programs' calls rely on.
LEMMA PurgePromiseInv == ASSUME PurgeInv, PurgeOwn PROVE PromiseInv'
  <1> USE DEF PurgeInv, QuietInv, RuntimeInv, PromiseInv, FilesConsistent, PurgeOK, PurgeProgress
  <1>1. /\ call'.op = "purge" /\ pc' \in {"showAutomount", "reply"} \cup PurgePcs
        /\ call'.ok => pc' = "reply"
    BY PurgeGoesOn DEF DoneIsLast
  <1>2. TypeOK'
    <2>1. HostTypeOK' /\ call' \in Call
      BY PurgeHost, PurgeCallType DEF TypeOK
    <2> QED
      BY <1>1, <2>1 DEF TypeOK, Pcs, SubroutinePcs, InspectPcs
  <1>3. StepsMatchCall' /\ SecretWithinUnits' /\ HalvesAreTheCalls' /\ NewIdIsFresh'
    BY <1>1 DEF StepsMatchCall, SecretWithinUnits, HalvesAreTheCalls, NewIdIsFresh, DefinePcs, RemovePcs, PurgePcs, DeletePcs
  <1>4. NeverSelfTampered'
    BY PurgeHost, FewerHalves DEF TypeOK
  <1>5. HalvesLeft' /\ DoneIsLast' /\ IdleIsNone'
    BY <1>1 DEF HalvesLeft, DoneIsLast, IdleIsNone, PurgePcs, DeletePcs
  <1> QED
    BY <1>2, <1>3, <1>4, <1>5

\* And what is known of the runtime, and what was stopped.
LEMMA PurgeQuiet == ASSUME PurgeInv, PurgeOwn PROVE QuietInv'
  <1> USE DEF PurgeInv, QuietInv, RuntimeInv, PromiseInv, FilesConsistent, PurgeOK, PurgeProgress
  <1>1. /\ call'.op = "purge" /\ call'.started \in {call.started, 0}
        /\ pc' \in {"showAutomount", "reply"} \cup PurgePcs
        /\ pc' = "showAutomount" => call'.site = "decideStop" /\ call'.mountStopped = FALSE
    BY PurgeGoesOn
  <1>2. /\ UNCHANGED <<dir, trig, over, job, nextInst>>
        /\ \A v \in Units : idRec'[v] \in {idRec[v], 0}
    BY PurgeHost DEF TypeOK
  <1>3. nextInst \in Nat
    BY DEF TypeOK, HostTypeOK
  <1>4. pc' \notin Seen /\ pc' \notin ArmPcs /\ pc' \notin StopPcs /\ pc' \notin RemovePcs
    BY <1>1 DEF PurgePcs, DeletePcs, RemovePcs, Seen, MountRead, MountKnown, Decides, ArmPcs, StopPcs
  <1>5. InstancesBelow' /\ RuntimeShape'
    BY <1>1, <1>2, <1>3 DEF RuntimeOK, InstancesBelow, RuntimeShape, Occupied, UnderId
  <1>6. RecordsOurs'
    BY <1>2 DEF RuntimeOK, RecordsOurs, RuntimeShape, OnlyOurs, Armed, Occupied
  <1>7. OwnAfterWalk' /\ RecheckAfterFault'
    BY <1>1, <1>4 DEF OwnAfterWalk, AfterWalk, RecheckAfterFault, InspectPcs, Seen, MountRead, MountKnown, ArmPcs
  <1>8. SnapshotTrue' /\ FaultlessSnapshot' /\ StopOurs' /\ StartedOrMissing' /\ NothingStarted'
    BY <1>4 DEF SnapshotTrue, FaultlessSnapshot, StopOurs, StartedOrMissing, NothingStarted, Seen, MountRead,
                MountKnown, ArmPcs, StopPcs
  <1>9. RoutinesMatchCall' /\ HalvesWritten' /\ BootProgress'
    BY <1>1, <1>4 DEF RoutinesMatchCall, HalvesWritten, BootProgress, Stopping, InspectPcs, Seen, MountRead, MountKnown,
                      PurgePcs, DeletePcs
  <1>10. NoJobs' /\ InactiveStays' /\ StopIsKnown' /\ QuietRemoval' /\ RemoveProgress'
    BY <1>1, <1>2, <1>4 DEF QuietOK, NoJobs, InactiveStays, StopIsKnown, QuietRemoval, RemoveProgress, StopPcs, RemovePcs
  <1>11. /\ NotYetArmed' /\ SecretDecided' /\ WellLoaded' /\ CleanupProgress'
         /\ DefineComplete' /\ DefineAtomic' /\ RemoveComplete'
    BY <1>1 DEF NotYetArmed, SecretDecided, WellLoaded, CleanupProgress, DefineComplete, DefineAtomic, RemoveComplete
  <1>12. DefinitionOutlivesTrigger'
    <2> SUFFICES ASSUME NEW v \in Units, trig'[v].by = "tool" PROVE (Definition(v))' = "Pair"
      BY DEF DefinitionOutlivesTrigger
    <2>1. trig[v].by = "tool" /\ ~Quiet(v)
      BY <1>2, QuietIsNobodys
    <2>2. UNCHANGED <<mountHalf[v], autoHalf[v]>>
      BY <2>1, PurgeHalves
    <2> QED
      BY <2>1, <2>2 DEF QuietOK, DefinitionOutlivesTrigger, Definition
  <1> QED
    BY <1>5, <1>6, <1>7, <1>8, <1>9, <1>10, <1>11, <1>12, PurgePromiseInv DEF RuntimeOK, QuietOK

-------------------------------------------------------------------------------
(* How far a purge has come: the steps of the others.                      *)

\* A step of a call that is no purge shows nothing of one.
LEMMA NoProgress == ASSUME call'.op # "purge", pc' \notin PurgePcs PROVE PurgeProgress'
  BY DEF PurgeProgress, PurgeStepsMatch, StillValid, StoppedSoFar, WhatIsGone, Purging, Done, PurgePcs, DeletePcs

\* No other call turns into a purge.
LEMMA OthersGoOn ==
    ASSUME PurgeInv, call.op # "purge", Step \/ Crash \/ Reboot \/ (Begin /\ pc = "idle")
    PROVE  call'.op # "purge" /\ pc' \notin PurgePcs
  <1> USE DEF PurgeInv, QuietInv, RuntimeInv, PromiseInv, FilesConsistent
  <1>1. CASE InspectRuntime \/ SafeStop \/ ArmShare
    BY <1>1, SubroutineStep DEF SubroutinePcs, InspectPcs, StopPcs, ArmPcs, PurgePcs, DeletePcs
  <1>2. CASE Define
    BY <1>2, DefineStep DEF DefinePcs, PurgePcs, DeletePcs
  <1>3. CASE Remove
    BY <1>3, RemoveStep DEF RemovePcs, PurgePcs, DeletePcs
  <1>4. CASE Boot \/ Reply \/ Crash \/ Reboot
    BY <1>4, BootStep DEF PurgePcs, DeletePcs
  <1>5. CASE Begin /\ pc = "idle"
    BY <1>5, BeginStep DEF PurgePcs, DeletePcs
  <1> QED
    BY <1>1, <1>2, <1>3, <1>4, <1>5 DEF Step

\* Of the other programs' steps a purge takes those of safeStop.
LEMMA PurgeTakes ==
    ASSUME PurgeInv, Purging, Step
    PROVE  InspectRuntime \/ SafeStop \/ Reply
  <1> USE DEF PurgeInv, QuietInv, RuntimeInv, PromiseInv, FilesConsistent, Purging
  <1>1. ~ArmShare
    BY ArmLocals DEF RuntimeOK, RoutinesMatchCall
  <1>2. ~Define /\ ~Remove
    BY DefineStep, RemoveStep
  <1>3. ~Boot
    BY DEF Boot, BootArm, BootArmed, BootEnd, StepsMatchCall
  <1> QED
    BY <1>1, <1>2, <1>3 DEF Step

\* While safeStop is at work on one share, those behind it stay quiet.
LEMMA StopProgress ==
    ASSUME PurgeInv, QuietInv', Purging, InspectRuntime \/ SafeStop, UNCHANGED validated
    PROVE  PurgeProgress'
  <1> USE DEF PurgeInv, QuietInv, RuntimeInv, PromiseInv, FilesConsistent, PurgeOK, PurgeProgress, Purging
  <1>1. /\ call'.op = "purge" /\ call'.u = call.u /\ call'.todo = call.todo
        /\ UNCHANGED <<mountHalf, autoHalf>>
        /\ pc \in InspectPcs \cup {"decideStop", "stopMount", "stopAutomount"}
        /\ pc' \in SubroutinePcs
    BY InspectLocals, StopLocals, SubroutineStep
  <1>2. \A v \in Units : Quiet(v) => (Quiet(v))'
    <2>1. CASE InspectRuntime
      BY <2>1, InspectLocals DEF Quiet, Armed, Occupied, hostVars, systemdVars
    <2>2. CASE SafeStop
      BY <2>2, StopLocals DEF Quiet, Armed, Occupied, NoTrigger, NoMount
    <2> QED
      BY <2>1, <2>2
  <1>3. /\ pc' \notin PurgePcs /\ pc' # "reply" /\ pc \notin PurgePcs
        /\ pc \notin {"stopped", "reply", "refused"}
    BY <1>1 DEF SubroutinePcs, InspectPcs, StopPcs, ArmPcs, PurgePcs, DeletePcs
  <1>4. PurgeStepsMatch'
    BY <1>1, <1>3 DEF PurgeStepsMatch, PurgePcs, DeletePcs
  <1>5. StillValid'
    BY <1>1, <1>3 DEF StillValid, Pending, Managed, Marked, Definition, PurgePcs, DeletePcs
  <1>6. StoppedSoFar'
    <2>1. pc' = "stopped" => (Quiet(call.u))'
      BY <1>1 DEF QuietOK, QuietRemoval
    <2> QED
      BY <1>1, <1>2, <1>3, <2>1 DEF StoppedSoFar, PurgeTypeOK, PurgePcs
  <1>7. WhatIsGone'
    BY <1>3 DEF WhatIsGone, Done, PurgePcs, DeletePcs
  <1> QED
    BY <1>4, <1>5, <1>6, <1>7

\* What PID 1, the kernel and users do undoes nothing of a purge.
LEMMA DriftProgress ==
    ASSUME PurgeInv, Environment, UNCHANGED <<roots, validated>>
    PROVE  PurgeProgress'
  <1> USE DEF PurgeInv, QuietInv, RuntimeInv, PromiseInv, FilesConsistent, PurgeOK, PurgeProgress
  <1>1. UNCHANGED <<pc, call, mountHalf, autoHalf, creds>>
    BY EnvironmentType DEF TypeOK
  <1>2. CASE pc = "idle"
    BY <1>1, <1>2, NoProgress DEF IdleIsNone, PurgePcs, DeletePcs
  <1>3. CASE pc # "idle"
    <2>1. \A v \in Units :
            /\ idRec'[v] = idRec[v] /\ trig'[v] = trig[v] /\ loaded'[v] \in {loaded[v], NoFile}
            /\ over'[v] = over[v] \/ Armed(v)
      BY <1>3, Drift DEF QuietOK, NoJobs
    <2>2. PurgeStepsMatch'
      BY <1>1 DEF PurgeStepsMatch, Purging
    <2>3. StillValid'
      BY <1>1 DEF StillValid, Pending, Managed, Marked, Definition, Purging
    <2>4. StoppedSoFar'
      BY <1>1, <2>1 DEF StoppedSoFar, PurgeTypeOK, Quiet, Armed, Occupied, Purging
    <2>5. WhatIsGone'
      BY <1>1, <2>1, ContentAssumption DEF WhatIsGone, Done, Purging
    <2> QED
      BY <2>2, <2>3, <2>4, <2>5
  <1> QED
    BY <1>2, <1>3

-------------------------------------------------------------------------------
(* How far a purge has come: its own steps.                                *)

\* A purge that fails says nothing more of itself.
LEMMA FailedProgress ==
    ASSUME call'.op = "purge", call'.todo \subseteq validated', pc' = "reply", call'.ok = FALSE
    PROVE  PurgeProgress'
  BY DEF PurgeProgress, PurgeStepsMatch, StillValid, StoppedSoFar, WhatIsGone, Purging, Done, PurgePcs, DeletePcs

\* The first pass, in which no file changes.
LEMMA FirstPass ==
    ASSUME PurgeInv,
           PurgeBegin \/ (\E u \in Units : PurgeStop(u)) \/ PurgeStopped \/ PurgeRefused \/ PurgeDeleteAll
    PROVE  PurgeProgress'
  <1> USE DEF PurgeInv, QuietInv, RuntimeInv, PromiseInv, FilesConsistent, TypeOK, Call, PurgeOK, PurgeProgress, PurgePcs,
              DeletePcs, Purging
  <1>1. UNCHANGED <<mountHalf, autoHalf, trig, over>>
    BY DEF PurgeBegin, PurgeStop, PurgeStopped, PurgeRefused, PurgeDeleteAll, hostVars, durableVars, systemdVars
  <1>2. \A v \in Units : (Quiet(v)' <=> Quiet(v)) /\ (Managed(v)' <=> Managed(v)) /\ (Marked(v)' <=> Marked(v))
    BY <1>1 DEF Quiet, Armed, Occupied, Managed, Marked, Definition
  <1>3. CASE PurgeBegin
    <2>1. /\ call'.op = "purge" /\ call'.todo = validated' /\ pc' = "purgeStop"
          /\ validated' = {u \in Units : Marked(u)} /\ \A u \in Units : Marked(u) => Managed(u)
      BY <1>3 DEF PurgeBegin, NoCall
    <2> QED
      BY <1>2, <2>1 DEF PurgeStepsMatch, StillValid, StoppedSoFar, WhatIsGone, Done, Pending
  <1>4. ASSUME NEW u \in Units, PurgeStop(u) PROVE PurgeProgress'
    <2>1. /\ pc = "purgeStop" /\ pc' = "showAutomount" /\ UNCHANGED validated
          /\ call.op = "purge" /\ call'.op = "purge" /\ call'.u = u /\ call'.todo = call.todo \ {u}
      BY <1>4 DEF PurgeStop, EnterSafeStop, PurgeStepsMatch
    <2>2. PurgeStepsMatch' /\ WhatIsGone'
      BY <2>1 DEF PurgeStepsMatch, WhatIsGone, Done
    <2>3. StillValid'
      BY <1>1, <2>1 DEF StillValid, Pending, Managed, Marked, Definition
    <2>4. StoppedSoFar'
      BY <1>2, <2>1 DEF StoppedSoFar, PurgeTypeOK
    <2> QED
      BY <2>2, <2>3, <2>4
  <1>5. CASE PurgeStopped
    <2>1. /\ pc = "stopped" /\ pc' = "purgeStop" /\ UNCHANGED <<call, validated>> /\ call.op = "purge"
      BY <1>5 DEF PurgeStopped, Proceed
    <2>2. PurgeStepsMatch' /\ WhatIsGone'
      BY <2>1 DEF PurgeStepsMatch, WhatIsGone, Done
    <2>3. StillValid'
      BY <1>1, <2>1 DEF StillValid, Pending, Managed, Marked, Definition
    <2>4. StoppedSoFar'
      BY <1>2, <2>1 DEF StoppedSoFar, PurgeTypeOK
    <2> QED
      BY <2>2, <2>3, <2>4
  <1>6. CASE PurgeRefused
    <2>1. /\ pc = "refused" /\ pc' = "reply" /\ UNCHANGED <<call, validated>> /\ call.op = "purge" /\ call.ok = FALSE
      BY <1>6 DEF PurgeRefused, Proceed, DoneIsLast
    <2> QED
      BY <2>1, FailedProgress DEF PurgeStepsMatch
  <1>7. CASE PurgeDeleteAll
    <2>1. /\ pc = "purgeStop" /\ UNCHANGED validated /\ call.todo = {} /\ call.op = "purge" /\ call'.op = "purge"
          /\ call.ok = FALSE /\ call'.ok = FALSE
          /\ \/ pc' = "purgeNext" /\ call'.todo = validated
             \/ pc' = "reply" /\ call'.todo = {}
      BY <1>7 DEF PurgeDeleteAll, FailTo, PurgeStepsMatch, DoneIsLast
    <2>2. CASE pc' = "reply"
      BY <2>1, <2>2, FailedProgress
    <2>3. CASE pc' = "purgeNext"
      <3>1. PurgeStepsMatch' /\ WhatIsGone'
        BY <2>1, <2>3 DEF PurgeStepsMatch, WhatIsGone, Done
      <3>2. StillValid'
        BY <1>1, <2>1, <2>3 DEF StillValid, Pending, Managed, Marked, Definition
      <3>3. StoppedSoFar'
        BY <1>2, <2>1, <2>3 DEF StoppedSoFar, PurgeTypeOK
      <3> QED
        BY <3>1, <3>2, <3>3
    <2> QED
      BY <2>1, <2>2, <2>3
  <1> QED
    BY <1>3, <1>4, <1>5, <1>6, <1>7

\* The second pass: one validated share after the other.
LEMMA SecondPass ==
    ASSUME PurgeInv,
           (\E u \in Units : PurgeDelete(u)) \/ PurgeMount \/ PurgeAutomount \/ PurgeId \/ PurgeCredential
    PROVE  PurgeProgress'
  <1> USE DEF PurgeInv, QuietInv, RuntimeInv, PromiseInv, FilesConsistent, TypeOK, Call, PurgeOK, PurgeProgress, PurgePcs,
              DeletePcs, Purging
  <1>1. UNCHANGED <<trig, over, validated>> /\ pc \in DeletePcs /\ call.op = "purge" /\ call.ok = FALSE
    BY DEF PurgeDelete, PurgeMount, PurgeAutomount, PurgeId, PurgeCredential, hostVars, systemdVars, PurgeStepsMatch, DoneIsLast
  <1>2. \A v \in validated : (Quiet(v))'
    BY <1>1 DEF StoppedSoFar, PurgeTypeOK, Quiet, Armed, Occupied
  <1>3. ASSUME NEW u \in Units, PurgeDelete(u) PROVE PurgeProgress'
    <2>1. /\ pc = "purgeNext" /\ pc' = "purgeMount" /\ UNCHANGED <<mountHalf, autoHalf>> /\ u \in call.todo
          /\ call'.op = "purge" /\ call'.u = u /\ call'.todo = call.todo \ {u}
      BY <1>1, <1>3 DEF PurgeDelete, hostVars, durableVars
    <2>2. PurgeStepsMatch' /\ WhatIsGone' /\ StoppedSoFar'
      BY <1>1, <1>2, <2>1 DEF PurgeStepsMatch, WhatIsGone, Done, StoppedSoFar
    <2>3. Pending' = Pending
      BY <2>1 DEF Pending
    <2>4. StillValid'
      BY <1>1, <2>1, <2>3 DEF StillValid, Managed, Marked, Definition
    <2> QED
      BY <2>2, <2>4
  <1>4. CASE pc' = "reply"
    <2>1. call'.op = "purge" /\ call'.todo = call.todo /\ call'.ok = FALSE
      BY <1>1, <1>3, <1>4 DEF PurgeMount, PurgeAutomount, PurgeId, PurgeCredential, PurgeDelete, Proceed, FailTo
    <2> QED
      BY <1>1, <1>4, <2>1, FailedProgress DEF PurgeStepsMatch
  <1>5. ASSUME pc' # "reply", PurgeMount \/ PurgeAutomount \/ PurgeId \/ PurgeCredential
        PROVE  PurgeProgress'
    <2> DEFINE u == call.u
    <2>1. /\ UNCHANGED call /\ u \in validated \ call.todo
          /\ \/ /\ pc = "purgeMount" /\ pc' = "purgeAutomount"
                /\ mountHalf' = [mountHalf EXCEPT ![u] = NoFile] /\ UNCHANGED autoHalf
             \/ /\ pc = "purgeAutomount" /\ pc' = "purgeId"
                /\ autoHalf' = [autoHalf EXCEPT ![u] = NoFile] /\ UNCHANGED mountHalf
             \/ /\ pc = "purgeId" /\ pc' = "purgeCredential" /\ UNCHANGED <<mountHalf, autoHalf>>
             \/ /\ pc = "purgeCredential" /\ pc' = "purgeNext" /\ UNCHANGED <<mountHalf, autoHalf>>
      BY <1>5 DEF PurgeMount, PurgeAutomount, PurgeId, PurgeCredential, Replace, Proceed, FailTo, durableVars, PurgeStepsMatch
    <2>2. PurgeStepsMatch' /\ WhatIsGone' /\ StoppedSoFar'
      BY <1>1, <1>2, <2>1 DEF PurgeStepsMatch, WhatIsGone, Done, StoppedSoFar
    <2>3. call.todo \subseteq Units /\ u \in Units
      BY <2>1 DEF PurgeTypeOK
    <2>4. \A v \in Units \ {u} : mountHalf'[v] = mountHalf[v] /\ autoHalf'[v] = autoHalf[v]
      BY <2>1 DEF HostTypeOK
    <2>5. \A v \in Units \ {u} : (Managed(v)' <=> Managed(v)) /\ (Marked(v)' <=> Marked(v))
      BY <2>4 DEF Managed, Marked, Definition
    <2>6. \A v \in call.todo : (Managed(v))'
      BY <1>1, <2>1, <2>3, <2>5 DEF StillValid, Pending
    <2>7. \A v \in Units \ {u} : (Marked(v))' => v \in call.todo
      BY <1>1, <2>1, <2>5 DEF StillValid, Pending
    <2>8. pc' = "purgeAutomount" => mountHalf'[u] = NoFile
      BY <2>1, <2>3 DEF HostTypeOK
    <2>9. pc' # "purgeAutomount" => ~(Marked(u))'
      <3>1. CASE pc = "purgeAutomount"
        BY <1>1, <2>1, <2>3, <3>1, ContentAssumption DEF HostTypeOK, StillValid, Marked
      <3>2. CASE pc \in {"purgeId", "purgeCredential"}
        BY <1>1, <2>1, <2>3, <3>2 DEF StillValid, Pending, Marked
      <3> QED
        BY <2>1, <3>1, <3>2
    <2>10. Pending' = call.todo
      BY <2>1 DEF Pending
    <2>11. StillValid'
      BY <2>1, <2>6, <2>7, <2>8, <2>9, <2>10 DEF StillValid
    <2> QED
      BY <2>2, <2>11
  <1> QED
    BY <1>3, <1>4, <1>5

\* A trigger nasmount started has its marker on disk.
LEMMA ToolIsMarked ==
    ASSUME QuietInv, NEW v \in Units, trig[v].by = "tool"
    PROVE  Marked(v)
  <1>1. mountHalf[v] = autoHalf[v] /\ mountHalf[v] \notin {NoFile, Alien, Broken}
    BY InspectVerdicts DEF QuietInv, QuietOK, DefinitionOutlivesTrigger, Definition
  <1> QED
    BY <1>1 DEF Marked, QuietInv, RuntimeInv, PromiseInv, FilesConsistent, TypeOK, HostTypeOK, FileContent

\* The end: PID 1 forgets the shares, and the directories go.
LEMMA LastSteps ==
    ASSUME PurgeInv, PurgeDeleted \/ PurgeReload \/ PurgeRoots, roots' \subseteq roots
    PROVE  PurgeProgress'
  <1> USE DEF PurgeInv, QuietInv, RuntimeInv, PromiseInv, FilesConsistent, TypeOK, Call, PurgeOK, PurgeProgress, PurgePcs,
              DeletePcs, Purging
  <1>1. /\ UNCHANGED <<mountHalf, autoHalf, trig, over, validated>> /\ call.op = "purge" /\ call.ok = FALSE
        /\ pc \in {"purgeNext", "purgeReload", "purgeEtc", "purgeIds", "purgeRun"} /\ call.todo = {}
        /\ call'.op = "purge" /\ call'.todo = call.todo /\ call'.u = call.u
    <2>1. CASE PurgeDeleted \/ PurgeReload
      BY <2>1 DEF PurgeDeleted, PurgeReload, ReloadEffect, hostVars, durableVars, systemdVars, Proceed, FailTo, StillValid,
                  PurgeStepsMatch, DoneIsLast
    <2>2. CASE PurgeRoots
      BY <2>2 DEF PurgeRoots, PurgeEtc, PurgeIds, PurgeRun, hostVars, durableVars, systemdVars, Proceed, FailTo, StillValid,
                  PurgeStepsMatch, DoneIsLast
    <2> QED
      BY <2>1, <2>2
  <1>2. \A v \in Units : ~Marked(v) /\ ~(Marked(v))'
    BY <1>1 DEF StillValid, Pending, Marked
  <1>3. CASE pc' = "reply" /\ ~call'.ok
    <2>1. call'.ok = FALSE /\ call'.todo \subseteq validated'
      BY <1>1, <1>3 DEF PurgeDeleted, PurgeReload, PurgeRoots, PurgeEtc, PurgeIds, PurgeRun, Proceed, FailTo
    <2> QED
      BY <1>1, <1>3, <2>1, FailedProgress
  <1>4. CASE ~(pc' = "reply" /\ ~call'.ok)
    <2>1. \/ pc = "purgeNext" /\ pc' = "purgeReload" /\ PurgeDeleted
          \/ pc = "purgeReload" /\ pc' = "purgeEtc" /\ ReloadEffect /\ PurgeReload
          \/ /\ pc = "purgeEtc" /\ pc' = "purgeIds" /\ UNCHANGED <<loaded, idRec>>
             /\ creds' = {} /\ roots' = roots \ {"etc"}
          \/ /\ pc = "purgeIds" /\ pc' = "purgeRun" /\ UNCHANGED <<loaded, creds>>
             /\ idRec' = [u \in Units |-> 0] /\ roots' = roots \ {"ids"}
          \/ /\ pc = "purgeRun" /\ pc' = "reply" /\ call'.ok /\ UNCHANGED <<loaded, creds, idRec>>
             /\ roots' = roots \ {"run"}
      <3>1. CASE PurgeDeleted \/ PurgeReload
        BY <1>1, <1>4, <3>1 DEF PurgeDeleted, PurgeReload, Proceed, FailTo
      <3>2. CASE PurgeEtc \/ PurgeIds
        BY <1>1, <1>4, <3>2 DEF PurgeEtc, PurgeIds, Proceed, FailTo, durableVars, systemdVars
      <3>3. CASE PurgeRun
        BY <1>1, <1>4, <3>3 DEF PurgeRun, FailTo, hostVars, durableVars, systemdVars
      <3> QED
        BY <3>1, <3>2, <3>3 DEF PurgeRoots
    <2>2. pc' \in {"purgeReload", "purgeEtc", "purgeIds", "purgeRun", "reply"}
      BY <2>1
    <2>3. PurgeStepsMatch' /\ StillValid'
      BY <1>1, <1>2, <2>2 DEF PurgeStepsMatch, StillValid, Pending
    <2>4. StoppedSoFar'
      BY <1>1, <2>2 DEF StoppedSoFar, PurgeTypeOK, Quiet, Armed, Occupied
    <2>5. ReloadEffect => \A u \in Units : loaded'[u] \in Ids => trig'[u].by = "admin"
      <3> SUFFICES ASSUME ReloadEffect, NEW u \in Units, loaded'[u] \in Ids PROVE trig[u].by = "admin"
        BY <1>1
      <3>1. autoHalf[u] \notin Ids
        BY <1>2 DEF Marked
      <3>2. Armed(u)
        BY <3>1 DEF ReloadEffect
      <3>3. trig[u].by # "tool" /\ trig[u].by # "nobody"
        BY <1>2, <3>2, ToolIsMarked DEF RuntimeOK, RuntimeShape, Armed
      <3> QED
        BY <3>3 DEF HostTypeOK, Trigger
    <2>6. WhatIsGone'
      BY <1>1, <2>1, <2>5 DEF WhatIsGone, Done
    <2> QED
      BY <2>3, <2>4, <2>6
  <1> QED
    BY <1>3, <1>4

-------------------------------------------------------------------------------
(* The directories.                                                        *)

\* A step makes the directory it is about to write into.
LEMMA TouchedFor ==
    /\ Touched \subseteq Roots
    /\ pc = "writeCredential" => "etc" \in Touched
    /\ pc = "recordId" => "ids" \in Touched
  BY DEF Touched, Roots

\* Secrets appear only where a define writes one, records only where armShare
\* does.
LEMMA OnlyWritersAdd ==
    ASSUME TypeOK, StepsMatchCall, Step
    PROVE  /\ creds' \subseteq creds \/ pc = "writeCredential"
           /\ (\A v \in Units : idRec'[v] \in {idRec[v], 0}) \/ pc = "recordId"
  <1> USE DEF TypeOK, HostTypeOK
  <1>1. CASE InspectRuntime
    BY <1>1, InspectLocals DEF hostVars, durableVars
  <1>2. CASE SafeStop
    BY <1>2, StopLocals DEF durableVars
  <1>3. CASE ArmShare
    <2>1. UNCHANGED creds
      BY <1>3, ArmLocals
    <2>2. CASE ForgetId
      BY <2>1, <2>2 DEF ForgetId
    <2>3. UNCHANGED idRec \/ RecordId \/ ForgetId
      BY <1>3 DEF ArmShare, DecideArm, CheckCredential, WalkCreating, WalkExisting, Start, StatStarted, DecideRecheck,
                  StatAppeared, Compensate, StopStarted, hostVars
    <2> QED
      BY <2>1, <2>2, <2>3 DEF RecordId
  <1>4. CASE Define \/ Remove \/ Boot \/ Reply
    <2>1. \A v \in Units : idRec'[v] \in {idRec[v], 0}
      BY <1>4, CalmStep
    <2>2. CASE Define
      BY <2>1, <2>2 DEF Define, WriteMount, WriteAutomount, WriteCredential, AssertNoCredential, Reload, DefineArmed,
             DefineNotArmed, CleanCredential, CleanAutomount, CleanMount, CleanId, CleanReload, hostVars, durableVars
    <2>3. CASE Remove
      BY <2>1, <2>3 DEF Remove, RemoveRefused, RemoveStopped, RemoveCredential, RemoveMount, RemoveAutomount, RemoveId,
             RemoveReload, hostVars, durableVars
    <2>4. CASE Boot \/ Reply
      BY <2>1, <2>4, BootStep
    <2> QED
      BY <1>4, <2>2, <2>3, <2>4
  <1> QED
    BY <1>1, <1>2, <1>3, <1>4 DEF Step

\* A program between idle and its reply is at work; the reply ends it.
LEMMA AtWork == ASSUME Step PROVE pc # "idle" /\ (pc = "reply" => Reply)
  <1>1. CASE InspectRuntime \/ SafeStop
    BY <1>1 DEF InspectRuntime, SafeStop, ShowAutomount, ReadMountinfo, ShowMount, ReadIds, DecideStop, StopMount, StopAutomount
  <1>2. CASE ArmShare
    BY <1>2 DEF ArmShare, DecideArm, CheckCredential, WalkCreating, WalkExisting, Start, StatStarted, RecordId, DecideRecheck,
                StatAppeared, Compensate, StopStarted, ForgetId
  <1>3. CASE Define \/ Remove
    BY <1>3 DEF Define, WriteMount, WriteAutomount, WriteCredential, AssertNoCredential, Reload, DefineArmed,
           DefineNotArmed, CleanCredential, CleanAutomount, CleanMount, CleanId, CleanReload, Remove, RemoveRefused,
           RemoveStopped, RemoveCredential, RemoveMount, RemoveAutomount, RemoveId, RemoveReload
  <1>4. CASE Boot \/ Reply
    BY <1>4 DEF Boot, BootArm, BootArmed, BootEnd, Reply
  <1> QED
    BY <1>1, <1>2, <1>3, <1>4 DEF Step

\* Nothing else adds any.
LEMMA OthersAddNone ==
    ASSUME TypeOK, StepsMatchCall, Begin \/ Crash \/ Environment \/ Reboot
    PROVE  creds' \subseteq creds /\ \A v \in Units : idRec'[v] \in {idRec[v], 0}
  <1>1. CASE Begin
    BY <1>1 DEF Begin, DefineBegin, DefineRefused, RemoveBegin, BootBegin, hostVars, durableVars
  <1>2. CASE Crash
    BY <1>2 DEF Crash, hostVars, durableVars
  <1>3. CASE Environment
    <2>1. UNCHANGED creds
      BY <1>3, EnvironmentType DEF TypeOK
    <2>2. \A v \in Units : idRec'[v] = idRec[v]
      BY <1>3, IdleDrift, Drift
    <2> QED
      BY <2>1, <2>2
  <1>4. CASE Reboot
    BY <1>4 DEF Reboot, HostReboot, durableVars
  <1> QED
    BY <1>1, <1>2, <1>3, <1>4

\* The programs besides purge, as PurgeNext has them.
OtherStep ==
    \/ Step /\ roots' = roots \cup Touched
    \/ PeerBegin /\ roots' = roots \cup {"run"}
    \/ Crash /\ UNCHANGED roots
    \/ Environment /\ UNCHANGED roots

\* They keep what the directories tell.
LEMMA OthersTell == ASSUME PurgeInv, OtherStep PROVE RootsTell'
  <1> USE DEF PurgeInv, QuietInv, RuntimeInv, PromiseInv, FilesConsistent, PurgeOK
  <1>1. /\ creds' \subseteq creds \/ (pc = "writeCredential" /\ "etc" \in roots')
        /\ (\A v \in Units : idRec'[v] \in {idRec[v], 0}) \/ (pc = "recordId" /\ "ids" \in roots')
    <2>1. CASE Step /\ roots' = roots \cup Touched
      BY <2>1, OnlyWritersAdd, TouchedFor
    <2>2. CASE Begin \/ Crash \/ Environment
      BY <2>2, OthersAddNone
    <2> QED
      BY <2>1, <2>2 DEF OtherStep, PeerBegin
  <1>2. roots \subseteq roots'
    BY DEF OtherStep
  <1>3. pc' \notin {"idle", "reply"} => "run" \in roots'
    <2>1. CASE Step
      <3>1. pc \notin {"idle", "reply"} \/ pc' = "idle"
        BY <2>1, AtWork DEF Reply
      <3> QED
        BY <1>2, <3>1 DEF RootsTell
    <2>2. CASE Crash \/ Environment
      <3>1. pc' = "idle" \/ pc' = pc
        BY <2>2 DEF Crash, Environment, armVars
      <3> QED
        BY <1>2, <3>1 DEF RootsTell
    <2> QED
      BY <2>1, <2>2 DEF OtherStep
  <1> QED
    BY <1>1, <1>2, <1>3 DEF RootsTell

\* Purge's own steps, as PurgeNext has them.
OwnStep ==
    \/ PurgeBegin /\ roots' = roots \cup {"run"}
    \/ PurgeShares /\ roots' = roots \cup Touched
    \/ PurgeRoots

\* Where they start.
LEMMA OwnAtWork ==
    ASSUME PurgeInv, PurgeShares \/ PurgeRoots
    PROVE  pc \notin {"idle", "reply"} /\ "run" \in roots
  <1> USE DEF PurgeInv, PurgeOK
  <1>1. pc \notin {"idle", "reply"}
    BY DEF PurgeShares, PurgeRoots, PurgeStop, PurgeStopped, PurgeRefused, PurgeDeleteAll, PurgeDelete, PurgeMount,
           PurgeAutomount, PurgeId, PurgeCredential, PurgeDeleted, PurgeReload, PurgeEtc, PurgeIds, PurgeRun
  <1> QED
    BY <1>1 DEF RootsTell

\* They take a directory away only when it is empty.
LEMMA OwnTell == ASSUME PurgeInv, OwnStep PROVE RootsTell'
  <1> USE DEF PurgeInv, QuietInv, RuntimeInv, PromiseInv, FilesConsistent, PurgeOK
  <1>1. creds' \subseteq creds /\ \A v \in Units : idRec'[v] \in {idRec[v], 0}
    BY PurgeHost DEF TypeOK, OwnStep, PurgeOwn
  <1>2. CASE PurgeBegin /\ roots' = roots \cup {"run"}
    BY <1>1, <1>2 DEF RootsTell
  <1>3. CASE PurgeShares /\ roots' = roots \cup Touched
    BY <1>1, <1>3, OwnAtWork DEF RootsTell
  <1>4. CASE PurgeEtc
    <2>1. "run" \in roots
      BY <1>4 DEF PurgeEtc, RootsTell
    <2>2. UNCHANGED idRec /\ ((creds' = {} /\ roots' = roots \ {"etc"}) \/ UNCHANGED roots)
      BY <1>4 DEF PurgeEtc
    <2> QED
      BY <1>1, <2>1, <2>2 DEF RootsTell
  <1>5. CASE PurgeIds
    <2>1. "run" \in roots
      BY <1>5 DEF PurgeIds, RootsTell
    <2>2. (idRec' = [u \in Units |-> 0] /\ roots' = roots \ {"ids"}) \/ UNCHANGED roots
      BY <1>5 DEF PurgeIds
    <2> QED
      BY <1>1, <2>1, <2>2 DEF RootsTell
  <1>6. CASE PurgeRun
    <2>1. pc' = "reply" /\ roots' \in {roots, roots \ {"run"}}
      BY <1>6 DEF PurgeRun, FailTo
    <2> QED
      BY <1>1, <2>1 DEF RootsTell
  <1> QED
    BY <1>2, <1>3, <1>4, <1>5, <1>6 DEF OwnStep, PurgeRoots

-------------------------------------------------------------------------------
(* PurgeInv is inductive.                                                  *)

\* Every step keeps the types.
LEMMA PurgeTypes == ASSUME PurgeTypeOK, PurgeNext PROVE PurgeTypeOK'
  <1> USE DEF PurgeTypeOK, Roots
  <1>1. Touched \subseteq Roots
    BY TouchedFor
  <1>2. PurgeShares \/ PurgeRoots \/ PurgeBegin => validated' \subseteq Units
    BY DEF PurgeShares, PurgeRoots, PurgeBegin, PurgeStop, PurgeStopped, PurgeRefused, PurgeDeleteAll, PurgeDelete,
           PurgeMount, PurgeAutomount, PurgeId, PurgeCredential, PurgeDeleted, PurgeReload, PurgeEtc, PurgeIds, PurgeRun
  <1>3. PurgeRoots => roots' \subseteq roots
    BY DEF PurgeRoots, PurgeEtc, PurgeIds, PurgeRun
  <1>4. RefusedOrInventory => roots' \subseteq Roots /\ UNCHANGED validated
    BY DEF RefusedOrInventory
  <1> QED
    BY <1>1, <1>2, <1>3, <1>4 DEF PurgeNext, AnyBegin, WorkOn, PurgeReboot

\* What purge does itself.
LEMMA OwnKeeps == ASSUME PurgeInv, OwnStep PROVE PurgeProgress' /\ RootsTell' /\ QuietInv'
  <1>1. RootsTell'
    BY OwnTell
  <1>2. QuietInv'
    BY PurgeQuiet DEF OwnStep, PurgeOwn
  <1>3. CASE PurgeDeleted \/ PurgeReload \/ PurgeRoots
    <2>1. roots' \subseteq roots
      BY <1>3 DEF OwnStep, PurgeRoots, PurgeEtc, PurgeIds, PurgeRun, PurgeDeleted, PurgeReload, PurgeBegin, Touched
    <2> QED
      BY <1>1, <1>2, <1>3, <2>1, LastSteps
  <1> QED
    BY <1>1, <1>2, <1>3, FirstPass, SecondPass DEF OwnStep, PurgeShares

\* What the other programs and the world around them do.
LEMMA OthersKeep ==
    ASSUME PurgeInv, OtherStep,
           \/ Step /\ validated' = IF pc' = "idle" THEN {} ELSE validated
           \/ PeerBegin /\ UNCHANGED validated
           \/ Crash
           \/ Environment /\ UNCHANGED <<roots, validated>>
    PROVE  PurgeProgress' /\ RootsTell' /\ QuietInv'
  <1>1. RootsTell'
    BY OthersTell
  <1>2. QuietInv'
    BY QuietStep DEF PurgeInv, OtherStep, PeerBegin, Next
  <1> SUFFICES PurgeProgress'
    BY <1>1, <1>2
  <1>3. CASE Environment /\ UNCHANGED <<roots, validated>>
    BY <1>3, DriftProgress
  <1>4. CASE call.op # "purge" /\ (Step \/ PeerBegin \/ Crash)
    <2>1. PeerBegin => Begin /\ call'.op # "none"
      BY PurgeAssumption DEF PeerBegin
    <2>2. Begin => pc = "idle"
      BY DEF Begin, DefineBegin, DefineRefused, RemoveBegin, BootBegin
    <2> QED
      BY <1>4, <2>1, <2>2, OthersGoOn, NoProgress
  <1>5. CASE Purging /\ Step /\ validated' = IF pc' = "idle" THEN {} ELSE validated
    <2>1. CASE Reply
      BY <2>1, NoProgress DEF Reply, NoCall, PurgePcs, DeletePcs
    <2>2. CASE InspectRuntime \/ SafeStop
      <3>1. pc' # "idle"
        BY <2>2, SubroutineStep DEF PurgeInv, QuietInv, RuntimeInv, PromiseInv, FilesConsistent, SubroutinePcs, InspectPcs,
                                    StopPcs, ArmPcs
      <3> QED
        BY <1>2, <1>5, <2>2, <3>1, StopProgress
    <2> QED
      BY <1>5, <2>1, <2>2, PurgeTakes
  <1>6. CASE Purging /\ (Crash \/ PeerBegin)
    <2>1. ~PeerBegin
      BY <1>6 DEF PeerBegin, Begin, DefineBegin, DefineRefused, RemoveBegin, BootBegin, PurgeInv, QuietInv, RuntimeInv,
                  PromiseInv, IdleIsNone, Purging
    <2> QED
      BY <1>6, <2>1, NoProgress DEF Crash, NoCall, PurgePcs, DeletePcs
  <1> QED
    BY <1>3, <1>4, <1>5, <1>6 DEF Purging

\* A refused call and a reboot.
LEMMA RestKeeps ==
    ASSUME PurgeInv, RefusedOrInventory \/ PurgeReboot \/ UNCHANGED allVars
    PROVE  PurgeProgress' /\ RootsTell' /\ QuietInv'
  <1> USE DEF PurgeInv, QuietInv, RuntimeInv, PromiseInv, FilesConsistent, PurgeOK
  <1>1. QuietInv'
    BY QuietStep DEF RefusedOrInventory, PurgeReboot, allVars, Next
  <1>2. CASE PurgeReboot
    <2>1. pc' = "idle" /\ call' = NoCall /\ UNCHANGED creds /\ \A v \in Units : idRec'[v] = 0
      BY <1>2 DEF PurgeReboot, Reboot, HostReboot, durableVars
    <2>2. PurgeProgress'
      BY <2>1, NoProgress DEF NoCall, PurgePcs, DeletePcs
    <2>3. RootsTell'
      BY <1>2, <2>1 DEF RootsTell, PurgeReboot
    <2> QED
      BY <1>1, <2>2, <2>3
  <1>3. CASE RefusedOrInventory \/ UNCHANGED allVars
    <2>1. /\ UNCHANGED <<pc, call, mountHalf, autoHalf, creds, idRec, loaded, trig, over, validated>>
          /\ pc = "idle" \/ UNCHANGED roots
          /\ roots \subseteq roots'
      BY <1>3 DEF RefusedOrInventory, allVars, purgeVars, vars, hostVars, durableVars, systemdVars, armVars
    <2>2. PurgeStepsMatch' /\ StillValid' /\ StoppedSoFar'
      BY <2>1 DEF PurgeProgress, PurgeStepsMatch, StillValid, StoppedSoFar, Pending, Managed, Marked, Definition, Quiet,
                  Armed, Occupied, Purging
    <2>3. WhatIsGone'
      BY <2>1 DEF PurgeProgress, WhatIsGone, Done, Purging
    <2>4. RootsTell'
      BY <2>1 DEF RootsTell
    <2> QED
      BY <1>1, <2>2, <2>3, <2>4 DEF PurgeProgress
  <1> QED
    BY <1>2, <1>3

\* Every step keeps the invariant.
LEMMA PurgeStep == ASSUME PurgeInv, [PurgeNext]_allVars PROVE PurgeInv'
  <1>1. CASE PurgeNext
    <2>1. PurgeTypeOK'
      BY <1>1, PurgeTypes DEF PurgeInv, PurgeOK
    <2>2. PurgeProgress' /\ RootsTell' /\ QuietInv'
      BY <1>1, OwnKeeps, OthersKeep, RestKeeps DEF PurgeNext, AnyBegin, WorkOn, OwnStep, OtherStep
    <2> QED
      BY <2>1, <2>2 DEF PurgeInv, PurgeOK
  <1>2. CASE UNCHANGED allVars
    <2>1. PurgeTypeOK'
      BY <1>2 DEF PurgeInv, PurgeOK, PurgeTypeOK, allVars, purgeVars
    <2>2. PurgeProgress' /\ RootsTell' /\ QuietInv'
      BY <1>2, RestKeeps
    <2> QED
      BY <2>1, <2>2 DEF PurgeInv, PurgeOK
  <1> QED
    BY <1>1, <1>2

\* It holds at the start.
LEMMA PurgeInitially == ASSUME ~LateJobs, PurgeInit PROVE PurgeInv
  <1>1. QuietInv
    BY QuietInit DEF PurgeInit
  <1>2. /\ roots = {} /\ validated = {}
        /\ pc = "idle" /\ call.op = "none" /\ creds = {} /\ \A v \in Units : idRec[v] = 0
    BY DEF PurgeInit, Init, HostInit, NoCall
  <1>3. PurgeTypeOK /\ RootsTell
    BY <1>2 DEF PurgeTypeOK, RootsTell
  <1>4. PurgeProgress
    BY <1>2 DEF PurgeProgress, PurgeStepsMatch, StillValid, StoppedSoFar, WhatIsGone, Purging, Done, PurgePcs, DeletePcs
  <1> QED
    BY <1>1, <1>3, <1>4 DEF PurgeInv, PurgeOK

\* The invariant of purge among the other programs.
THEOREM PurgeInvariant == ~LateJobs /\ PurgeSpec => []PurgeInv
  <1>1. ~LateJobs /\ PurgeInit => PurgeInv
    BY PurgeInitially
  <1>2. PurgeInv /\ [PurgeNext]_allVars => PurgeInv'
    BY PurgeStep
  <1> QED
    BY <1>1, <1>2, PTL DEF PurgeSpec

\* A purge that was reported successful left nothing of nasmount's behind but
\* what the administrator started.
THEOREM PurgeIsComplete == ~LateJobs /\ PurgeSpec => []PurgeComplete
  <1>1. PurgeInv => PurgeComplete
    <2> SUFFICES ASSUME PurgeInv, pc = "reply", call.op = "purge", call.ok
                 PROVE  /\ creds = {} /\ roots = {}
                        /\ \A u \in Units : /\ ~Marked(u) /\ idRec[u] = 0 /\ trig[u].by # "tool"
                                            /\ loaded[u] \in Ids => trig[u].by = "admin"
      BY DEF PurgeComplete
    <2> USE DEF PurgeInv, PurgeOK, PurgeProgress
    <2>1. \A u \in Units : ~Marked(u)
      BY DEF StillValid, Pending, Purging, DeletePcs
    <2>2. \A u \in Units : trig[u].by # "tool"
      BY <2>1, ToolIsMarked
    <2>3. /\ creds = {} /\ \A u \in Units : idRec[u] = 0 /\ (loaded[u] \in Ids => trig[u].by = "admin")
          /\ "etc" \notin roots /\ "ids" \notin roots /\ "run" \notin roots
      BY DEF WhatIsGone, Done, Purging
    <2>4. roots = {}
      BY <2>3 DEF PurgeTypeOK, Roots
    <2> QED
      BY <2>1, <2>2, <2>3, <2>4
  <1> QED
    BY <1>1, PurgeInvariant, PTL

\* From its first deletion to its last nothing is live at any mount point a
\* purge is about.
THEOREM PurgeStaysQuiet == ~LateJobs /\ PurgeSpec => []PurgeIsQuiet
  <1>1. PurgeInv => PurgeIsQuiet
    BY DEF PurgeInv, PurgeOK, PurgeProgress, PurgeStepsMatch, StoppedSoFar, PurgeIsQuiet, Quiet, PurgePcs, DeletePcs
  <1> QED
    BY <1>1, PurgeInvariant, PTL

-------------------------------------------------------------------------------
(* Purge keeps the promise of the helper, next to the other calls.         *)

\* A step of the promise as the callers of purge see it, or none.
PurgePromiseStep == PP!PromiseNext \/ UNCHANGED PP!promiseVars

\* What is no purge looks as it does without purge.
LEMMA OthersPromise ==
    ASSUME PromiseStep, PurgeView = HelperView, PurgeView' = HelperView'
    PROVE  PurgePromiseStep
  <1>1. CASE UNCHANGED HP!promiseVars
    BY <1>1 DEF HP!promiseVars, PP!promiseVars, PurgePromiseStep
  <1>2. CASE HP!PromiseNext
    <2>1. HP!Failed = PP!Failed
      BY DEF HP!Failed, PP!Failed, HP!Job, PP!Job, HP!NoJob, PP!NoJob, HP!NoUnit, PP!NoUnit
    <2>2. \A stage, u, i : HP!Onward(stage, u, i) <=> PP!Onward(stage, u, i)
      BY <2>1 DEF HP!Onward, PP!Onward, HP!Job, PP!Job
    <2>3. \A op, u : HP!Accept(op, u) <=> PP!Accept(op, u)
      BY DEF HP!Accept, PP!Accept, HP!Job, PP!Job
    <2>4. /\ \A u : HP!Definition(u) = PP!Definition(u)
          /\ \A u : HP!Managed(u) <=> PP!Managed(u)
          /\ \A u : HP!Marked(u) <=> PP!Marked(u)
      BY DEF HP!Definition, PP!Definition, HP!Managed, PP!Managed, HP!Marked, PP!Marked, HP!InspectDefinition,
             PP!InspectDefinition
    <2>5. /\ \A i : HP!DefineMount(i) <=> PP!DefineMount(i)
          /\ HP!DefineAutomount <=> PP!DefineAutomount
      BY <2>2, <2>4 DEF HP!DefineMount, PP!DefineMount, HP!DefineAutomount, PP!DefineAutomount
    <2>6. /\ HP!UndefineMount <=> PP!UndefineMount
          /\ HP!UndefineAutomount <=> PP!UndefineAutomount
      BY <2>2, <2>4 DEF HP!UndefineMount, PP!UndefineMount, HP!UndefineAutomount, PP!UndefineAutomount
    <2>7. /\ \A u : HP!PurgeMount(u) <=> PP!PurgeMount(u)
          /\ HP!PurgeAutomount <=> PP!PurgeAutomount
          /\ HP!PurgeDone <=> PP!PurgeDone
      BY <2>2, <2>4 DEF HP!PurgeMount, PP!PurgeMount, HP!PurgeAutomount, PP!PurgeAutomount, HP!PurgeDone, PP!PurgeDone,
                        HP!Job, PP!Job, HP!NoUnit, PP!NoUnit
    <2>8. /\ HP!Fail <=> PP!Fail
          /\ HP!TakeBack <=> PP!TakeBack
          /\ HP!End <=> PP!End
      BY <2>1 DEF HP!Fail, PP!Fail, HP!TakeBack, PP!TakeBack, HP!End, PP!End, HP!NoJob, PP!NoJob, HP!Job, PP!Job,
                  HP!NoUnit, PP!NoUnit
    <2>9. HP!promiseVars' # HP!promiseVars => PP!promiseVars' # PP!promiseVars
      BY DEF HP!promiseVars, PP!promiseVars
    <2> QED
      BY <1>2, <2>3, <2>5, <2>6, <2>7, <2>8, <2>9
      DEF HP!PromiseNext, PP!PromiseNext, PurgePromiseStep, HP!NoUnit, PP!NoUnit
  <1> QED
    BY <1>1, <1>2 DEF PromiseStep

\* The view of a purge in this state.
LEMMA PurgeViews ==
    /\ call.op # "purge" => PurgeView = HelperView
    /\ call.op = "purge" /\ (pc # "reply" \/ call.ok) /\ pc # "purgeAutomount" =>
         PurgeView = Job("purge", IF pc = "reply" THEN "finish" ELSE "sent", "no unit", NoFile)
    /\ call.op = "purge" /\ pc = "purgeAutomount" => PurgeView = Job("purge", "automount", call.u, NoFile)
    /\ call.op = "purge" /\ pc = "reply" /\ ~call.ok => PurgeView = NoJob
  BY DEF PurgeView, PurgeStage

\* The view of the next.
LEMMA NextPurgeViews ==
    /\ call'.op # "purge" => PurgeView' = HelperView'
    /\ call'.op = "purge" /\ (pc' # "reply" \/ call'.ok) /\ pc' # "purgeAutomount" =>
         PurgeView' = Job("purge", IF pc' = "reply" THEN "finish" ELSE "sent", "no unit", NoFile)
    /\ call'.op = "purge" /\ pc' = "purgeAutomount" => PurgeView' = Job("purge", "automount", call'.u, NoFile)
    /\ call'.op = "purge" /\ pc' = "reply" /\ ~call'.ok => PurgeView' = NoJob
  BY DEF PurgeView, PurgeStage, NoJob, Job

\* The two modules describe a purge in the same way.
LEMMA SamePurge ==
    /\ \A op, stage, u, i : PP!Job(op, stage, u, i) = Job(op, stage, u, i)
    /\ PP!NoJob = NoJob /\ PP!NoUnit = "no unit"
    /\ \A u : (PP!Managed(u) <=> Managed(u)) /\ (PP!Marked(u) <=> Marked(u))
  BY DEF PP!Job, PP!NoJob, PP!NoUnit, Job, NoJob, PP!Managed, Managed, PP!Marked, Marked, PP!Definition, Definition,
         PP!InspectDefinition, InspectDefinition

\* The end of a purge, for whatever reason, in which no file changes.
LEMMA PurgeEnds ==
    ASSUME Purging, PurgeView' = NoJob, UNCHANGED <<mountHalf, autoHalf>>
    PROVE  PurgePromiseStep
  <1>1. CASE pc = "reply" /\ ~call.ok
    BY <1>1, PurgeViews DEF PurgePromiseStep, PP!promiseVars, Purging
  <1>2. CASE pc # "reply" \/ call.ok
    <2>1. PurgeView.pc # "idle"
      <3>1. CASE pc = "purgeAutomount"
        BY <3>1, PurgeViews DEF Purging, Job
      <3>2. CASE pc = "reply"
        <4>1. PurgeView = Job("purge", "finish", "no unit", NoFile)
          BY <1>2, <3>2, PurgeViews DEF Purging
        <4> QED
          BY <4>1 DEF Job
      <3>3. CASE pc \notin {"purgeAutomount", "reply"}
        <4>1. PurgeView = Job("purge", "sent", "no unit", NoFile)
          BY <3>3, PurgeViews DEF Purging
        <4> QED
          BY <4>1 DEF Job
      <3> QED
        BY <3>1, <3>2, <3>3
    <2>2. PP!End
      BY <2>1, SamePurge DEF PP!End
    <2> QED
      BY <2>2 DEF PurgePromiseStep, PP!PromiseNext
  <1> QED
    BY <1>1, <1>2

\* While no half changes and the call goes on, a purge looks the same.
LEMMA PurgeSilent ==
    ASSUME Purging, call'.op = "purge", {pc, pc'} \cap {"reply", "purgeAutomount"} = {}, UNCHANGED <<mountHalf, autoHalf>>
    PROVE  PurgePromiseStep
  <1>1. PurgeView' = PurgeView
    BY PurgeViews, NextPurgeViews DEF Purging
  <1> QED
    BY <1>1 DEF PurgePromiseStep, PP!promiseVars

\* The mount half of the next owned definition goes, when nothing damaged is
\* among those left.
LEMMA PurgeMountPromise == ASSUME PurgeInv, PurgeMount PROVE PurgePromiseStep
  <1> USE DEF PurgeInv, QuietInv, RuntimeInv, PromiseInv, FilesConsistent, PurgeOK, PurgeProgress
  <1> DEFINE u == call.u
  <1>1. /\ pc = "purgeMount" /\ Purging /\ u \in Units /\ UNCHANGED autoHalf
        /\ call'.op = "purge" /\ call'.u = u /\ call.ok = FALSE
        /\ \/ pc' = "purgeAutomount"
           \/ pc' = "reply" /\ call'.ok = FALSE
    BY DEF PurgeMount, Proceed, FailTo, PurgeStepsMatch, Purging, PurgePcs, DeletePcs, TypeOK, Call, DoneIsLast
  <1>2. CASE UNCHANGED mountHalf /\ pc' = "reply"
    BY <1>1, <1>2, PurgeEnds, NextPurgeViews
  <1>3. CASE mountHalf' = [mountHalf EXCEPT ![u] = NoFile]
    <2>1. Managed(u) /\ \A v \in Units : Marked(v) => Managed(v)
      BY <1>1 DEF StillValid, Pending
    <2>2. PurgeView = Job("purge", "sent", "no unit", NoFile)
      BY <1>1, PurgeViews DEF Purging
    <2>3. PurgeView.op = "purge" /\ PurgeView.pc = "sent"
      BY <2>2 DEF Job
    <2>4. PurgeView' = Job("purge", "automount", u, NoFile) \/ PurgeView' = NoJob
      BY <1>1, NextPurgeViews
    <2>5. PP!Onward("automount", u, NoFile)
      BY <2>3, <2>4, SamePurge DEF PP!Onward, PP!Failed
    <2>6. PP!PurgeMount(u)
      BY <1>1, <1>3, <2>1, <2>3, <2>5, SamePurge DEF PP!PurgeMount
    <2> QED
      BY <1>1, <2>6 DEF PurgePromiseStep, PP!PromiseNext
  <1> QED
    BY <1>1, <1>2, <1>3 DEF PurgeMount, Replace, FailTo

\* Then its automount half.
LEMMA PurgeAutomountPromise == ASSUME PurgeInv, PurgeAutomount PROVE PurgePromiseStep
  <1> USE DEF PurgeInv, QuietInv, RuntimeInv, PromiseInv, FilesConsistent, PurgeOK, PurgeProgress
  <1> DEFINE u == call.u
  <1>1. /\ pc = "purgeAutomount" /\ Purging /\ UNCHANGED mountHalf
        /\ call'.op = "purge" /\ call.ok = FALSE
        /\ \/ pc' = "purgeId"
           \/ pc' = "reply" /\ call'.ok = FALSE
    BY DEF PurgeAutomount, Proceed, FailTo, PurgeStepsMatch, Purging, PurgePcs, DeletePcs, TypeOK, Call, DoneIsLast
  <1>2. CASE UNCHANGED autoHalf /\ pc' = "reply"
    BY <1>1, <1>2, PurgeEnds, NextPurgeViews
  <1>3. CASE autoHalf' = [autoHalf EXCEPT ![u] = NoFile]
    <2>1. PurgeView = Job("purge", "automount", u, NoFile)
      BY <1>1, PurgeViews DEF Purging
    <2>2. PurgeView.op = "purge" /\ PurgeView.pc = "automount" /\ PurgeView.u = u
      BY <2>1, SameJob
    <2>3. PurgeView' = Job("purge", "sent", "no unit", NoFile) \/ PurgeView' = NoJob
      BY <1>1, NextPurgeViews
    <2>4. PP!Onward("sent", PP!NoUnit, NoFile)
      BY <2>2, <2>3, SamePurge DEF PP!Onward, PP!Failed
    <2>5. PP!PurgeAutomount
      BY <1>1, <1>3, <2>2, <2>4 DEF PP!PurgeAutomount
    <2> QED
      BY <2>5 DEF PurgePromiseStep, PP!PromiseNext
  <1> QED
    BY <1>1, <1>2, <1>3 DEF PurgeAutomount, Replace, FailTo

\* It reports success when there is none left.
LEMMA PurgeDonePromise == ASSUME PurgeInv, PurgeRun PROVE PurgePromiseStep
  <1> USE DEF PurgeInv, QuietInv, RuntimeInv, PromiseInv, FilesConsistent, PurgeOK, PurgeProgress
  <1>1. /\ pc = "purgeRun" /\ pc' = "reply" /\ Purging /\ UNCHANGED <<mountHalf, autoHalf>> /\ call'.op = "purge"
    BY DEF PurgeRun, FailTo, PurgeStepsMatch, Purging, PurgePcs, DeletePcs, TypeOK, Call, hostVars, durableVars
  <1>2. CASE ~call'.ok
    BY <1>1, <1>2, PurgeEnds, NextPurgeViews
  <1>3. CASE call'.ok
    <2>1. PurgeView = Job("purge", "sent", "no unit", NoFile)
      BY <1>1, PurgeViews DEF Purging
    <2>2. PurgeView.op = "purge" /\ PurgeView.pc = "sent"
      BY <2>1 DEF Job
    <2>3. PurgeView' = Job("purge", "finish", "no unit", NoFile)
      BY <1>1, <1>3, NextPurgeViews
    <2>4. \A u \in Units : ~Marked(u)
      BY <1>1 DEF StillValid, Pending, DeletePcs
    <2>5. PP!PurgeDone
      BY <1>1, <2>2, <2>3, <2>4, SamePurge DEF PP!PurgeDone
    <2> QED
      BY <2>5 DEF PurgePromiseStep, PP!PromiseNext
  <1> QED
    BY <1>2, <1>3

\* It is accepted when no call is under way.
LEMMA PurgeBeginPromise == ASSUME PurgeInv, PurgeBegin PROVE PurgePromiseStep
  <1>1. /\ pc = "idle" /\ pc' = "purgeStop" /\ call'.op = "purge" /\ UNCHANGED <<mountHalf, autoHalf>>
    BY DEF PurgeBegin, NoCall, hostVars, durableVars
  <1>2. PurgeView = NoJob
    <2>1. call.op = "none"
      BY <1>1 DEF PurgeInv, QuietInv, RuntimeInv, PromiseInv, IdleIsNone
    <2> QED
      BY <2>1, Views, PurgeViews
  <1>3. PurgeView.pc = "idle"
    BY <1>2 DEF NoJob, Job
  <1>4. PurgeView' = Job("purge", "sent", "no unit", NoFile)
    BY <1>1, NextPurgeViews
  <1>5. PP!Accept("purge", PP!NoUnit)
    BY <1>1, <1>3, <1>4, SamePurge DEF PP!Accept
  <1> QED
    BY <1>5 DEF PurgePromiseStep, PP!PromiseNext

\* Its other steps are not seen, unless they end it.
LEMMA PurgeOtherPromise ==
    ASSUME PurgeInv,
           \/ (\E u \in Units : PurgeStop(u) \/ PurgeDelete(u)) \/ PurgeStopped \/ PurgeRefused \/ PurgeDeleteAll
           \/ PurgeId \/ PurgeCredential \/ PurgeDeleted \/ PurgeReload \/ PurgeEtc \/ PurgeIds
    PROVE  PurgePromiseStep
  <1> USE DEF PurgeInv, QuietInv, RuntimeInv, PromiseInv, FilesConsistent, PurgeOK, PurgeProgress
  <1>1. PurgeOwn
    BY DEF PurgeOwn, PurgeShares, PurgeRoots
  <1>2. /\ UNCHANGED <<mountHalf, autoHalf>> /\ Purging /\ pc \notin {"reply", "purgeAutomount"}
        /\ pc' = "reply" => call'.ok = call.ok
    <2>1. CASE (\E u \in Units : PurgeStop(u) \/ PurgeDelete(u)) \/ PurgeStopped \/ PurgeRefused \/ PurgeDeleteAll
      BY <2>1 DEF PurgeStop, PurgeDelete, PurgeStopped, PurgeRefused, PurgeDeleteAll, Proceed, FailTo, hostVars, durableVars,
                  PurgeStepsMatch, Purging, PurgePcs, DeletePcs, TypeOK, Call
    <2>2. CASE PurgeId \/ PurgeCredential \/ PurgeDeleted \/ PurgeReload \/ PurgeEtc \/ PurgeIds
      BY <2>2 DEF PurgeId, PurgeCredential, PurgeDeleted, PurgeReload, PurgeEtc, PurgeIds, Proceed, FailTo, hostVars,
                  durableVars, PurgeStepsMatch, Purging, PurgePcs, DeletePcs, TypeOK, Call
    <2> QED
      BY <2>1, <2>2
  <1>3. call'.op = "purge" /\ pc' # "purgeAutomount" /\ ~call.ok
    <2>1. call'.op = "purge" /\ ~call.ok
      BY <1>1, <1>2, PurgeGoesOn DEF DoneIsLast
    <2>2. pc' # "purgeAutomount"
      BY DEF PurgeStop, PurgeDelete, PurgeStopped, PurgeRefused, PurgeDeleteAll, PurgeId, PurgeCredential, PurgeDeleted,
             PurgeReload, PurgeEtc, PurgeIds, Proceed, FailTo
    <2> QED
      BY <2>1, <2>2
  <1>4. CASE pc' = "reply"
    BY <1>2, <1>3, <1>4, PurgeEnds, NextPurgeViews
  <1>5. CASE pc' # "reply"
    BY <1>2, <1>3, <1>5, PurgeSilent
  <1> QED
    BY <1>4, <1>5

\* The steps it shares with other calls, and what goes on around it.
LEMMA PurgeSharedPromise ==
    ASSUME PurgeInv, Purging, Step \/ Crash \/ Reboot \/ Environment \/ UNCHANGED vars
    PROVE  PurgePromiseStep
  <1> USE DEF PurgeInv, QuietInv, RuntimeInv, PromiseInv, FilesConsistent, PurgeOK, PurgeProgress
  <1>1. CASE InspectRuntime \/ SafeStop
    <2>1. /\ UNCHANGED <<mountHalf, autoHalf>> /\ call'.op = "purge" /\ pc' \in SubroutinePcs
      BY <1>1, SubroutineStep DEF Purging
    <2>2. pc \in InspectPcs \cup StopPcs
      BY <1>1, InspectLocals, StopLocals DEF StopPcs
    <2> QED
      BY <2>1, <2>2, PurgeSilent DEF SubroutinePcs, InspectPcs, StopPcs, ArmPcs
  <1>2. CASE Reply \/ Crash \/ Reboot
    <2>1. call'.op = "none" /\ UNCHANGED <<mountHalf, autoHalf>>
      BY <1>2 DEF Reply, Crash, Reboot, HostReboot, NoCall, hostVars, durableVars
    <2> QED
      BY <2>1, NextViews, NextPurgeViews, PurgeEnds
  <1>3. CASE Environment \/ UNCHANGED vars
    <2>1. UNCHANGED <<mountHalf, autoHalf, pc, call>>
      BY <1>3, EnvironmentType DEF TypeOK, vars, hostVars, durableVars, armVars
    <2> QED
      BY <2>1 DEF PurgePromiseStep, PP!promiseVars, PurgeView, PurgeStage, HelperView, DefineStage, RemoveStage
  <1> QED
    BY <1>1, <1>2, <1>3, PurgeTakes

\* A purge, next to every define and removal, does to the unit files what
\* HelperPromise says, and no more.
THEOREM PurgeKeepsItsPromise == ~LateJobs /\ PurgeSpec => PurgeKeepsPromise
  <1>1. PurgeInit => PP!PromiseInit
    <2> SUFFICES ASSUME PurgeInit PROVE PP!PromiseInit
      OBVIOUS
    <2>1. PurgeView = NoJob
      BY Views, PurgeViews DEF PurgeInit, Init, NoCall
    <2> QED
      BY <2>1, SamePurge, HostAssumption DEF PP!PromiseInit, PurgeInit, Init, HostInit
  <1>2. PurgeInv /\ [PurgeNext]_allVars => [PP!PromiseNext]_(PP!promiseVars)
    <2> SUFFICES ASSUME PurgeInv, [PurgeNext]_allVars PROVE PurgePromiseStep
      BY DEF PurgePromiseStep
    <2>1. CASE PurgeOwn
      BY <2>1, PurgeBeginPromise, PurgeMountPromise, PurgeAutomountPromise, PurgeDonePromise, PurgeOtherPromise
      DEF PurgeOwn, PurgeShares, PurgeRoots
    <2>2. CASE Step \/ PeerBegin \/ Crash \/ Reboot \/ Environment \/ UNCHANGED vars
      <3>1. CASE Purging
        <4>1. ~PeerBegin
          BY <3>1 DEF PeerBegin, Begin, DefineBegin, DefineRefused, RemoveBegin, BootBegin, PurgeInv, QuietInv, RuntimeInv,
                      PromiseInv, IdleIsNone, Purging
        <4> QED
          BY <2>2, <3>1, <4>1, PurgeSharedPromise
      <3>2. CASE ~Purging
        <4>1. call'.op # "purge"
          <5>1. CASE Step \/ Crash \/ Reboot
            BY <5>1, <3>2, OthersGoOn DEF Purging, PurgeInv
          <5>2. CASE PeerBegin
            BY <5>2, PurgeAssumption DEF PeerBegin
          <5>3. CASE Environment \/ UNCHANGED vars
            <6>1. UNCHANGED call
              BY <5>3, EnvironmentType DEF PurgeInv, QuietInv, RuntimeInv, PromiseInv, FilesConsistent, TypeOK, vars, armVars
            <6> QED
              BY <3>2, <6>1 DEF Purging
          <5> QED
            BY <2>2, <5>1, <5>2, <5>3
        <4>2. PromiseStep
          BY <2>2, StepsArePromised DEF PurgeInv, QuietInv, RuntimeInv, PeerBegin, Next
        <4> QED
          BY <3>2, <4>1, <4>2, PurgeViews, NextPurgeViews, OthersPromise DEF Purging
      <3> QED
        BY <3>1, <3>2
    <2> QED
      BY <2>1, <2>2 DEF PurgeNext, AnyBegin, WorkOn, PurgeReboot, PurgeOwn, RefusedOrInventory, allVars
  <1> QED
    BY <1>1, <1>2, PurgeInvariant, PTL DEF PurgeSpec, PurgeKeepsPromise, PP!Promise

-------------------------------------------------------------------------------
(* The package guard.                                                      *)

Scanning == guard \in {"units", "etc", "run"}
Looked   == guard \in {"ids", "allowed", "removed"}

\* What it has seen stays so unless /run/nasmount, at which it has still to
\* look, says otherwise.
ScanHolds ==
    Scanning =>
        /\ late = {}
        /\ guard # "units" => unread = {}
        /\ "run" \notin roots => \A half \in Halves \ unread : Content(half) \notin Ids
        /\ guard = "run" /\ "run" \notin roots => "etc" \notin roots

\* After that look nothing comes but from the late.
LookHolds ==
    Looked =>
        /\ \A u \in Units \ late : ~Marked(u)
        /\ pc \notin {"idle", "reply"} => /\ call.op = "purge" => validated \subseteq late
                                          /\ call.op \in {"define", "remove"} => call.u \in late
        /\ late = {} => "etc" \notin roots
        /\ guard # "ids" => /\ late = {} => "ids" \notin roots
                            /\ \A u \in Units \ late : idRec[u] = 0

GuardOK == GuardTypeOK /\ ScanHolds /\ LookHolds

GuardInv == PurgeInv /\ GuardOK

\* Among the steps of the calls only a define writes a half, at its own
\* mount point.
LEMMA OnlyDefineMarks ==
    ASSUME PurgeInv, Step, NEW v \in Units
    PROVE  \/ mountHalf'[v] \in {mountHalf[v], NoFile} /\ autoHalf'[v] \in {autoHalf[v], NoFile}
           \/ pc \notin {"idle", "reply"} /\ call.op = "define" /\ call.u = v
  <1> USE DEF PurgeInv, QuietInv, RuntimeInv, PromiseInv, FilesConsistent, TypeOK, HostTypeOK
  <1>1. CASE InspectRuntime \/ SafeStop \/ ArmShare
    BY <1>1, SubroutineStep
  <1>2. CASE Boot \/ Reply
    BY <1>2, BootStep
  <1>3. CASE Remove
    BY <1>3 DEF Remove, RemoveRefused, RemoveStopped, RemoveCredential, RemoveMount, RemoveAutomount, RemoveId,
           RemoveReload, hostVars, durableVars, Replace
  <1>4. CASE Define
    <2>1. call.op = "define" /\ pc \notin {"idle", "reply"}
      BY <1>4, DefineStep DEF Define, WriteMount, WriteAutomount, WriteCredential, AssertNoCredential, Reload, DefineArmed,
             DefineNotArmed, CleanCredential, CleanAutomount, CleanMount, CleanId, CleanReload
    <2>2. CASE WriteMount \/ WriteAutomount \/ CleanAutomount \/ CleanMount
      BY <2>1, <2>2 DEF WriteMount, WriteAutomount, CleanAutomount, CleanMount, Replace
    <2>3. CASE ~(WriteMount \/ WriteAutomount \/ CleanAutomount \/ CleanMount)
      BY <1>4, <2>3 DEF Define, WriteCredential, AssertNoCredential, Reload, DefineArmed, DefineNotArmed,
             CleanCredential, CleanId, CleanReload, hostVars, durableVars
    <2> QED
      BY <2>2, <2>3
  <1> QED
    BY <1>1, <1>2, <1>3, <1>4 DEF Step

\* Where the step at hand makes a directory, its share has a marker, or is
\* that of a define, a removal or a purge.
LEMMA TouchesItsShare ==
    ASSUME PurgeInv, Touched # {}
    PROVE  /\ pc \notin {"idle", "reply"} /\ call.u \in Units
           /\ \/ Marked(call.u)
              \/ call.op \in {"define", "remove"}
              \/ call.op = "purge" /\ call.u \in validated
  <1> USE DEF PurgeInv, QuietInv, RuntimeInv, PromiseInv, FilesConsistent, RuntimeOK, PurgeOK, PurgeProgress
  <1>1. /\ pc \in {"writeCredential", "removeCredential", "checkCredential", "purgeCredential", "cleanCredential",
                   "recordId", "forgetId", "cleanId", "removeId", "purgeId"}
        /\ call.u \in Units
    BY DEF Touched, TypeOK, Call
  <1>2. CASE pc \in {"writeCredential", "removeCredential", "cleanCredential", "cleanId", "removeId"}
    BY <1>1, <1>2 DEF StepsMatchCall, DefinePcs, RemovePcs
  <1>3. CASE pc \in {"purgeCredential", "purgeId"}
    BY <1>1, <1>3 DEF PurgeStepsMatch, Purging, PurgePcs, DeletePcs
  <1>4. CASE pc \in {"checkCredential", "recordId", "forgetId"}
    <2>1. call.op \in {"define", "boot"} /\ pc \in SubroutinePcs
      BY <1>4 DEF RoutinesMatchCall, SubroutinePcs, ArmPcs
    <2> QED
      BY <1>1, <1>4, <2>1 DEF HalvesWritten, Marked
  <1> QED
    BY <1>1, <1>2, <1>3, <1>4

\* While /run/nasmount is missing no file changes, unless a purge has just
\* ended there.
LEMMA NothingUnseen ==
    ASSUME PurgeInv, AnyBegin \/ WorkOn, "run" \notin roots'
    PROVE  \/ "run" \notin roots /\ UNCHANGED <<mountHalf, autoHalf, roots>>
           \/ "etc" \notin roots' /\ \A half \in Halves : (Content(half))' \notin Ids
  <1> USE DEF PurgeInv, QuietInv, RuntimeInv, PromiseInv, FilesConsistent, PurgeOK, PurgeProgress
  <1>1. WorkOn
    BY DEF AnyBegin, RefusedOrInventory
  <1>2. CASE PurgeRun
    <2>1. \A v \in Units : ~Marked(v)
      BY <1>2 DEF PurgeRun, StillValid, PurgeStepsMatch, Pending, PurgePcs, DeletePcs
    <2>2. "etc" \notin roots
      BY <1>2 DEF PurgeRun, WhatIsGone, Done
    <2>3. UNCHANGED <<mountHalf, autoHalf>> /\ roots' \subseteq roots
      BY <1>2 DEF PurgeRun, hostVars, durableVars
    <2> QED
      BY <2>1, <2>2, <2>3 DEF Halves, Content, Marked
  <1>3. CASE (PurgeShares /\ roots' = roots \cup Touched) \/ PurgeEtc \/ PurgeIds
    <2>1. "run" \in roots
      BY <1>3, OwnAtWork DEF PurgeRoots
    <2>2. "run" \in roots'
      BY <1>3, <2>1 DEF PurgeEtc, PurgeIds
    <2> QED
      BY <2>2
  <1>4. CASE (Crash \/ Environment) /\ UNCHANGED roots
    <2>1. UNCHANGED <<mountHalf, autoHalf>>
      BY <1>4, EnvironmentType DEF TypeOK, Crash, hostVars, durableVars
    <2> QED
      BY <1>4, <2>1
  <1>5. CASE Step /\ roots' = roots \cup Touched
    <2>1. pc \in {"idle", "reply"}
      BY <1>5 DEF RootsTell
    <2>2. Reply /\ Touched = {}
      BY <1>5, <2>1, AtWork, TouchesItsShare
    <2> QED
      BY <1>5, <2>2 DEF Reply, hostVars, durableVars
  <1> QED
    BY <1>1, <1>2, <1>3, <1>4, <1>5 DEF WorkOn, PurgeRoots

\* What has been seen survives whatever begins or goes on.
LEMMA ScanKept == ASSUME GuardInv, GuardedBegin \/ (WorkOn /\ UNCHANGED guardVars) PROVE ScanHolds'
  <1> SUFFICES ASSUME Scanning PROVE ScanHolds'
    BY DEF GuardedBegin, guardVars, ScanHolds, Scanning
  <1>1. UNCHANGED guardVars /\ PurgeInv
    BY DEF GuardedBegin, guardVars, GuardInv, Scanning
  <1>2. late' = {} /\ (guard' # "units" => unread' = {})
    BY <1>1 DEF guardVars, GuardInv, GuardOK, ScanHolds
  <1>3. ASSUME "run" \notin roots'
        PROVE  /\ \A half \in Halves \ unread' : (Content(half))' \notin Ids
               /\ guard' = "run" => "etc" \notin roots'
    <2>1. CASE "run" \notin roots /\ UNCHANGED <<mountHalf, autoHalf, roots>>
      <3>1. \A half \in Halves : (Content(half))' = Content(half)
        BY <2>1 DEF Content
      <3> QED
        BY <1>1, <2>1, <3>1 DEF guardVars, GuardInv, GuardOK, ScanHolds
    <2>2. CASE "etc" \notin roots' /\ \A half \in Halves : (Content(half))' \notin Ids
      BY <2>2
    <2> QED
      BY <1>1, <1>3, <2>1, <2>2, NothingUnseen DEF GuardedBegin
  <1> QED
    BY <1>2, <1>3 DEF ScanHolds

\* After the look, a program that begins is late, or finds nothing but the late.
LEMMA LookedBegin == ASSUME GuardInv, GuardedBegin PROVE LookHolds'
  <1> USE DEF GuardInv, GuardOK, PurgeInv, QuietInv, RuntimeInv, PromiseInv
  <1> SUFFICES ASSUME Looked, guard' = guard PROVE LookHolds'
    BY DEF GuardedBegin, LookHolds, Looked
  <1>1. guard \in {"ids", "allowed"} /\ late \subseteq late'
    BY DEF GuardedBegin, Looked
  <1>2. UNCHANGED <<mountHalf, autoHalf>> /\ (pc = "idle" /\ \A v \in Units : idRec'[v] \in {idRec[v], 0})
    <2>1. CASE Begin
      BY <2>1, OthersAddNone
      DEF FilesConsistent, Begin, DefineBegin, DefineRefused, RemoveBegin, BootBegin, hostVars, durableVars
    <2>2. CASE PurgeBegin \/ RefusedOrInventory
      BY <2>2 DEF PurgeBegin, RefusedOrInventory, vars, hostVars, durableVars
    <2> QED
      BY <2>1, <2>2 DEF GuardedBegin, AnyBegin, PeerBegin
  <1>3. \A u \in Units \ late' : ~Marked(u) /\ ~(Marked(u))'
    BY <1>1, <1>2 DEF LookHolds, Marked
  <1>4. late' = {} => roots' \subseteq roots \cup {"run"}
    <2> SUFFICES ASSUME late' = {} PROVE roots' \subseteq roots \cup {"run"}
      OBVIOUS
    <2>1. \A u \in Units : ~Marked(u)
      BY <1>3
    <2> QED
      BY <2>1 DEF GuardedBegin, AnyBegin, RefusedOrInventory
  <1>5. pc' \notin {"idle", "reply"} => /\ call'.op = "purge" => validated' \subseteq late'
                                        /\ call'.op \in {"define", "remove"} => call'.u \in late'
    <2>1. CASE RefusedOrInventory
      BY <1>2, <2>1 DEF RefusedOrInventory, vars, armVars
    <2>2. CASE PurgeBegin
      BY <1>3, <2>2 DEF PurgeBegin, NoCall
    <2>3. CASE PeerBegin
      <3>1. call'.op # "purge"
        BY <2>3, PurgeAssumption DEF PeerBegin
      <3>2. call'.op = "define" => call'.u \in late'
        BY <1>1 DEF GuardedBegin
      <3>3. call'.op = "remove" => call'.u \in late'
        <4> SUFFICES ASSUME call'.op = "remove" PROVE call'.u \in late'
          OBVIOUS
        <4>1. PICK u \in Units : RemoveBegin(u)
          BY <1>2, <2>3 DEF PeerBegin, Begin, DefineBegin, DefineRefused, BootBegin, NoCall, IdleIsNone, armVars
        <4>2. call'.u = u
          BY <4>1 DEF RemoveBegin, EnterSafeStop, NoCall
        <4>3. Marked(u)
          <5>1. /\ mountHalf[u] \notin {Alien, Broken} /\ autoHalf[u] \notin {Alien, Broken}
                /\ mountHalf[u] # NoFile \/ autoHalf[u] # NoFile
            BY <4>1, InspectVerdicts DEF RemoveBegin, Managed, Definition
          <5> QED
            BY <5>1 DEF Marked, FilesConsistent, TypeOK, HostTypeOK, FileContent
        <4> QED
          BY <1>3, <4>2, <4>3
      <3> QED
        BY <3>1, <3>2, <3>3
    <2> QED
      BY <2>1, <2>2, <2>3 DEF GuardedBegin, AnyBegin
  <1>6. late' = {} => late = {}
    BY <1>1
  <1>7. guard # "ids" => \A u \in Units \ late' : idRec'[u] = 0
    BY <1>1, <1>2 DEF LookHolds
  <1> QED
    BY <1>3, <1>4, <1>5, <1>6, <1>7 DEF LookHolds

\* A call goes on as what it is and, if it is a define or a removal, where
\* it is.
LEMMA CallsKeepTheirPlace ==
    ASSUME PurgeInv, Step
    PROVE  \/ pc' = "idle"
           \/ pc \notin {"idle", "reply"} /\ call'.op = call.op
              /\ (call.op \in {"define", "remove"} => call'.u = call.u)
  <1> USE DEF PurgeInv, QuietInv, RuntimeInv, PromiseInv, FilesConsistent
  <1>1. CASE InspectRuntime \/ SafeStop \/ ArmShare
    BY <1>1, SubroutineStep, InspectLocals, StopLocals, ArmLocals DEF InspectPcs, ArmPcs
  <1>2. CASE Define \/ Remove
    <2>1. pc \notin {"idle", "reply"}
      BY <1>2 DEF Define, WriteMount, WriteAutomount, WriteCredential, AssertNoCredential, Reload, DefineArmed,
             DefineNotArmed, CleanCredential, CleanAutomount, CleanMount, CleanId, CleanReload, Remove, RemoveRefused,
             RemoveStopped, RemoveCredential, RemoveMount, RemoveAutomount, RemoveId, RemoveReload
    <2> QED
      BY <1>2, <2>1, DefineStep, RemoveStep
  <1>3. CASE Boot
    <2>1. call.op = "boot" /\ pc \notin {"idle", "reply"}
      BY <1>3 DEF Boot, BootArm, BootArmed, BootEnd, StepsMatchCall
    <2>2. pc' = "idle" \/ call'.op = "boot"
      BY <1>3, <2>1 DEF Boot, BootArm, BootArmed, BootEnd, EnterArmShare, TypeOK, Call
    <2> QED
      BY <2>1, <2>2
  <1>4. CASE Reply
    BY <1>4 DEF Reply
  <1> QED
    BY <1>1, <1>2, <1>3, <1>4 DEF Step

\* After the look, what a call at work writes, makes or records is late.
LEMMA LookedStep ==
    ASSUME GuardInv, Looked, UNCHANGED guardVars, Step, roots' = roots \cup Touched,
           validated' = IF pc' = "idle" THEN {} ELSE validated
    PROVE  LookHolds'
  <1> USE DEF GuardInv, GuardOK, PurgeInv, QuietInv, RuntimeInv, PromiseInv
  <1>1. UNCHANGED <<guard, late>>
    BY DEF guardVars
  <1>2. \A u \in Units \ late : ~(Marked(u))'
    <2> SUFFICES ASSUME NEW u \in Units \ late PROVE ~(Marked(u))'
      OBVIOUS
    <2>1. ~Marked(u)
      BY DEF LookHolds
    <2>2. ~(pc \notin {"idle", "reply"} /\ call.op = "define" /\ call.u = u)
      BY DEF LookHolds
    <2>3. mountHalf'[u] \in {mountHalf[u], NoFile} /\ autoHalf'[u] \in {autoHalf[u], NoFile}
      BY <2>2, OnlyDefineMarks
    <2> QED
      BY <2>1, <2>3, ContentAssumption DEF Marked
  <1>3. pc' \notin {"idle", "reply"} => /\ call'.op = "purge" => validated' \subseteq late'
                                        /\ call'.op \in {"define", "remove"} => call'.u \in late'
    BY <1>1, CallsKeepTheirPlace DEF LookHolds
  <1>4. Touched # {} => call.u \in late
    BY TouchesItsShare DEF LookHolds
  <1>5. late = {} => UNCHANGED roots
    BY <1>4
  <1>6. \A u \in Units \ late : idRec'[u] \in {idRec[u], 0}
    <2>1. CASE pc = "recordId"
      <3>1. call.u \in late
        BY <1>4, <2>1, TouchedFor
      <3>2. ArmShare
        BY <2>1 DEF Step, InspectRuntime, ShowAutomount, ReadMountinfo, ShowMount, ReadIds, SafeStop, DecideStop, StopMount,
               StopAutomount, Define, WriteMount, WriteAutomount, WriteCredential, AssertNoCredential, Reload, DefineArmed,
               DefineNotArmed, CleanCredential, CleanAutomount, CleanMount, CleanId, CleanReload, Remove, RemoveRefused,
               RemoveStopped, RemoveCredential, RemoveMount, RemoveAutomount, RemoveId, RemoveReload, Boot, BootArm,
               BootArmed, BootEnd, Reply
      <3> QED
        BY <3>1, <3>2, ArmLocals DEF FilesConsistent
    <2>2. CASE pc # "recordId"
      BY <2>2, OnlyWritersAdd DEF FilesConsistent
    <2> QED
      BY <2>1, <2>2
  <1> QED
    BY <1>1, <1>2, <1>3, <1>5, <1>6 DEF LookHolds, Looked

\* A purge takes away, and makes no more than the directories of the late.
LEMMA LookedPurge ==
    ASSUME GuardInv, Looked, UNCHANGED guardVars, (PurgeShares /\ roots' = roots \cup Touched) \/ PurgeRoots
    PROVE  LookHolds'
  <1> USE DEF GuardInv, GuardOK, PurgeInv, QuietInv, RuntimeInv, PromiseInv, PurgeOK, PurgeProgress
  <1>1. UNCHANGED <<guard, late>>
    BY DEF guardVars
  <1>2. PurgeOwn
    BY DEF PurgeOwn
  <1>3. /\ \A v \in Units : mountHalf'[v] \in {mountHalf[v], NoFile} /\ autoHalf'[v] \in {autoHalf[v], NoFile}
        /\ \A v \in Units : idRec'[v] \in {idRec[v], 0}
    BY <1>2, PurgeHost DEF FilesConsistent, TypeOK
  <1>4. \A u \in Units \ late : ~(Marked(u))'
    BY <1>3, ContentAssumption DEF LookHolds, Marked
  <1>5. pc \notin {"idle", "reply"} /\ call.op = "purge" /\ call'.op = "purge" /\ UNCHANGED validated
    <2>1. call'.op = "purge"
      BY <1>2, PurgeGoesOn DEF FilesConsistent
    <2>2. UNCHANGED validated /\ pc \in PurgePcs \cup {"stopped", "refused"}
          /\ (pc \in {"stopped", "refused"} => call.op = "purge")
      BY DEF PurgeShares, PurgeRoots, PurgeStop, PurgeStopped, PurgeRefused, PurgeDeleteAll, PurgeDelete, PurgeMount,
             PurgeAutomount, PurgeId, PurgeCredential, PurgeDeleted, PurgeReload, PurgeEtc, PurgeIds, PurgeRun, PurgePcs,
             DeletePcs
    <2> QED
      BY <2>1, <2>2 DEF PurgeStepsMatch, Purging, PurgePcs, DeletePcs
  <1>6. late = {} => roots' \subseteq roots
    <2>1. CASE PurgeShares /\ roots' = roots \cup Touched
      <3>1. late = {} => Touched = {}
        BY <1>5, TouchesItsShare DEF LookHolds
      <3> QED
        BY <2>1, <3>1
    <2>2. CASE PurgeRoots
      BY <2>2 DEF PurgeRoots, PurgeEtc, PurgeIds, PurgeRun
    <2> QED
      BY <2>1, <2>2
  <1> QED
    BY <1>1, <1>3, <1>4, <1>5, <1>6 DEF LookHolds, Looked

\* And after the look nothing else adds anything.
LEMMA LookedWork == ASSUME GuardInv, WorkOn /\ UNCHANGED guardVars PROVE LookHolds'
  <1> SUFFICES ASSUME Looked PROVE LookHolds'
    BY DEF guardVars, LookHolds, Looked
  <1>1. CASE (Crash \/ Environment) /\ UNCHANGED roots
    <2> USE DEF GuardInv, GuardOK, PurgeInv, QuietInv, RuntimeInv, PromiseInv
    <2>1. UNCHANGED <<mountHalf, autoHalf>> /\ (pc' = "idle" \/ UNCHANGED <<pc, call>>)
      BY <1>1, EnvironmentType DEF FilesConsistent, TypeOK, Crash, hostVars, durableVars
    <2>2. \A v \in Units : idRec'[v] \in {idRec[v], 0}
      BY <1>1, OthersAddNone DEF FilesConsistent
    <2>3. UNCHANGED <<guard, late>>
      BY DEF guardVars
    <2>4. pc' # "idle" => UNCHANGED validated
      BY DEF WorkOn, Crash, PurgeShares, PurgeRoots, PurgeStop, PurgeStopped, PurgeRefused, PurgeDeleteAll, PurgeDelete,
             PurgeMount, PurgeAutomount, PurgeId, PurgeCredential, PurgeDeleted, PurgeReload, PurgeEtc, PurgeIds, PurgeRun
    <2> QED
      BY <1>1, <2>1, <2>2, <2>3, <2>4 DEF LookHolds, Marked
  <1> QED
    BY <1>1, LookedStep, LookedPurge DEF WorkOn

\* The guard's own steps.
LEMMA GuardLooks == ASSUME GuardInv, Guard /\ UNCHANGED allVars PROVE GuardOK'
  <1> USE DEF GuardInv, GuardOK, GuardTypeOK
  <1>1. UNCHANGED <<pc, call, mountHalf, autoHalf, creds, idRec, roots, validated>>
    BY DEF allVars, purgeVars, vars, hostVars, durableVars, armVars
  <1>2. CASE GuardListUnits
    BY <1>1, <1>2, ContentAssumption DEF GuardListUnits, ScanHolds, LookHolds, Scanning, Looked, Content
  <1>3. ASSUME NEW half \in Halves, GuardReadUnit(half) PROVE GuardOK'
    <2>1. Content(half) \notin Ids
      BY <1>3, ContentAssumption DEF GuardReadUnit
    <2> QED
      BY <1>1, <1>3, <2>1 DEF GuardReadUnit, ScanHolds, LookHolds, Scanning, Looked, Content
  <1>4. CASE GuardReadAll
    BY <1>1, <1>4 DEF GuardReadAll, ScanHolds, LookHolds, Scanning, Looked, Content, Roots
  <1>5. CASE GuardRefuses
    BY <1>5 DEF GuardRefuses, ScanHolds, LookHolds, Scanning, Looked
  <1>6. CASE RemovePrograms
    BY <1>1, <1>6 DEF RemovePrograms, ScanHolds, LookHolds, Scanning, Looked, Marked
  <1>7. CASE GuardCheckRoot
    <2>1. CASE guard \in roots
      BY <1>7, <2>1 DEF GuardCheckRoot, ScanHolds, LookHolds, Scanning, Looked
    <2>2. CASE guard = "etc" /\ "etc" \notin roots
      BY <1>1, <1>7, <2>2 DEF GuardCheckRoot, ScanHolds, LookHolds, Scanning, Looked, Content, Roots
    <2>3. CASE guard = "run" /\ "run" \notin roots
      <3>1. guard' = "ids" /\ late' = {} /\ late = {}
        BY <1>7, <2>3 DEF GuardCheckRoot, ScanHolds, Scanning
      <3>2. \A u \in Units : ~Marked(u)
        <4>1. \A half \in Halves : Content(half) \notin Ids
          BY <2>3 DEF ScanHolds, Scanning
        <4>2. \A u \in Units : <<"mount", u>> \in Halves /\ <<"automount", u>> \in Halves
          BY DEF Halves
        <4>3. \A u \in Units : Content(<<"mount", u>>) = mountHalf[u] /\ Content(<<"automount", u>>) = autoHalf[u]
          BY DEF Content
        <4> QED
          BY <4>1, <4>2, <4>3 DEF Marked
      <3>3. "etc" \notin roots /\ pc \in {"idle", "reply"}
        BY <2>3 DEF ScanHolds, Scanning, PurgeInv, PurgeOK, RootsTell
      <3>4. LookHolds'
        BY <1>1, <3>1, <3>2, <3>3 DEF LookHolds, Marked
      <3> QED
        BY <1>7, <3>1, <3>4 DEF GuardCheckRoot, ScanHolds, Scanning, Roots
    <2>4. CASE guard = "ids" /\ "ids" \notin roots
      <3>1. guard' = "allowed" /\ UNCHANGED <<unread, late>>
        BY <1>7, <2>4 DEF GuardCheckRoot
      <3>2. \A u \in Units : idRec[u] = 0
        BY <2>4 DEF PurgeInv, PurgeOK, RootsTell
      <3>3. LookHolds'
        BY <1>1, <2>4, <3>1, <3>2 DEF LookHolds, Looked, Marked
      <3> QED
        BY <3>1, <3>3 DEF ScanHolds, Scanning, Roots
    <2> QED
      BY <1>7, <2>1, <2>2, <2>3, <2>4 DEF GuardCheckRoot, Roots
  <1> QED
    BY <1>2, <1>3, <1>4, <1>5, <1>6, <1>7 DEF Guard

\* A reboot ends it, or leaves what was removed as it is.
LEMMA GuardReboots == ASSUME GuardInv, GuardedReboot PROVE GuardOK'
  <1> USE DEF GuardInv, GuardOK, GuardTypeOK
  <1>1. /\ UNCHANGED <<mountHalf, autoHalf>> /\ pc' = "idle" /\ roots' \subseteq roots
        /\ \A u \in Units : idRec'[u] = 0
    BY DEF GuardedReboot, PurgeReboot, Reboot, HostReboot, durableVars
  <1>2. CASE guard = "removed" /\ UNCHANGED guardVars
    BY <1>1, <1>2 DEF guardVars, ScanHolds, LookHolds, Scanning, Looked, Marked
  <1>3. CASE guard' = "idle" /\ unread' = {} /\ late' = {}
    BY <1>3 DEF ScanHolds, LookHolds, Scanning, Looked
  <1> QED
    BY <1>2, <1>3 DEF GuardedReboot

\* To the programs and the files the guard is not there.
LEMMA GuardTakesNothing == GuardedSpec => PurgeSpec
  <1>1. GuardedInit => PurgeInit
    BY DEF GuardedInit
  <1>2. [GuardedNext]_guardedVars => [PurgeNext]_allVars
    BY DEF GuardedNext, GuardedBegin, GuardedReboot, PurgeNext, guardedVars
  <1> QED
    BY <1>1, <1>2, PTL DEF GuardedSpec, PurgeSpec

\* The invariant of the guard among the programs.
THEOREM GuardInvariant == ~LateJobs /\ GuardedSpec => []GuardInv
  <1>1. GuardedInit => GuardOK
    BY DEF GuardedInit, GuardOK, GuardTypeOK, ScanHolds, LookHolds, Scanning, Looked
  <1>2. PurgeInv /\ GuardOK /\ [GuardedNext]_guardedVars => GuardOK'
    <2> SUFFICES ASSUME GuardInv, [GuardedNext]_guardedVars PROVE GuardOK'
      BY DEF GuardInv
    <2>1. CASE GuardedBegin \/ (WorkOn /\ UNCHANGED guardVars)
      <3>1. ScanHolds' /\ LookHolds'
        BY <2>1, ScanKept, LookedBegin, LookedWork
      <3>2. GuardTypeOK'
        <4>1. GuardedBegin => late' \subseteq Units
          <5>1. GuardedBegin /\ call'.op = "define" => call'.u \in Units
            BY BeginStep DEF GuardedBegin, AnyBegin, PeerBegin, PurgeBegin, RefusedOrInventory, NoCall, GuardInv, PurgeInv,
               QuietInv, RuntimeInv, PromiseInv, FilesConsistent, TypeOK, Call, vars, armVars
          <5> QED
            BY <5>1 DEF GuardedBegin, GuardInv, GuardOK, GuardTypeOK
        <4> QED
          BY <2>1, <4>1 DEF GuardedBegin, guardVars, GuardInv, GuardOK, GuardTypeOK, Halves
      <3> QED
        BY <3>1, <3>2 DEF GuardOK
    <2>2. CASE GuardedReboot
      BY <2>2, GuardReboots
    <2>3. CASE Guard /\ UNCHANGED allVars
      BY <2>3, GuardLooks
    <2>4. CASE UNCHANGED guardedVars
      <3>1. UNCHANGED <<guard, unread, late, pc, call, mountHalf, autoHalf, idRec, roots, validated>>
        BY <2>4 DEF guardedVars, guardVars, allVars, purgeVars, vars, hostVars, durableVars, armVars
      <3> QED
        BY <3>1 DEF GuardInv, GuardOK, GuardTypeOK, ScanHolds, LookHolds, Scanning, Looked, Content, Halves, Marked
    <2> QED
      BY <2>1, <2>2, <2>3, <2>4 DEF GuardedNext
  <1> QED
    BY <1>1, <1>2, GuardTakesNothing, PurgeInvariant, PTL DEF GuardedSpec, GuardInv

\* What the guard's successive looks amount to: when the package may go, and
\* after it went, nothing of nasmount's is left behind but for shares whose
\* define began after the look for /run/nasmount.
THEOREM RemovalOrphansNone == ~LateJobs /\ GuardedSpec => []RemovalOrphansNothing
  <1>1. GuardInv => RemovalOrphansNothing
    <2> SUFFICES ASSUME GuardInv, guard \in {"allowed", "removed"} PROVE RemovalOrphansNothing
      BY DEF RemovalOrphansNothing
    <2> USE DEF GuardInv, GuardOK, PurgeInv, PurgeOK
    <2>1. \A u \in Units \ late : ~Marked(u) /\ idRec[u] = 0 /\ trig[u].by # "tool"
      BY ToolIsMarked DEF LookHolds, Looked
    <2>2. late = {} => creds = {} /\ roots \subseteq {"run"}
      BY DEF LookHolds, Looked, RootsTell, PurgeTypeOK, Roots
    <2>3. call.op = "define" /\ pc # "reply" => call.u \in late
      BY DEF LookHolds, Looked, QuietInv, RuntimeInv, PromiseInv, IdleIsNone
    <2> QED
      BY <2>1, <2>2, <2>3 DEF RemovalOrphansNothing
  <1> QED
    BY <1>1, GuardInvariant, PTL
===============================================================================
