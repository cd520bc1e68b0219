--------------------------- MODULE OperationsProofs ---------------------------
(***************************************************************************)
(* What the operations keep of the files, for every set of mount points    *)
(* and ids, every number of failures and every interleaving: the state is  *)
(* well typed, no secret without a unit that names it, no definition       *)
(* nasmount itself would refuse, no file touched that is not nasmount's.   *)
(* The last three from one inductive invariant, FilesInv.  Then that every *)
(* step is one that module HelperPromise allows.                           *)
(***************************************************************************)
EXTENDS Operations, TLAPS

USE DEF FileContent

-------------------------------------------------------------------------------
(* Types of the verdicts and of the effects on PID 1.                      *)

\* What inspectRuntime finds out is always one of the snapshot's values.
LEMMA AxisTypes ==
    /\ \A s : AutomountAxis(s) \in AutomountStates
    /\ \A e, w : ClassifyMountEntries(e, w) \in [mount : MountStates, verification : VerificationStates]
    /\ \A s : \A c \in [mount : MountStates, verification : VerificationStates] :
           MountAxis(c, s) \in [mount : MountStates, verification : VerificationStates]
    /\ \A a, r, n : ActivationTrust(a, r, n) \in TrustStates
  BY DEF AutomountAxis, AutomountStates, ClassifyMountEntries, MountStates, VerificationStates,
         Unmounted, Mounted, Unknown, MountAxis, ActivationTrust, TrustStates

\* A mount id read from the kernel is a number.
LEMMA UniqueMountIdType == ASSUME HostTypeOK, NEW u \in Units PROVE UniqueMountId(u) \in Nat
  BY DEF HostTypeOK, UniqueMountId, Trigger, Mount, UnderId

SystemdTypeOK ==
    /\ loaded \in [Units -> FileContent]
    /\ trig \in [Units -> Trigger]
    /\ over \in [Units -> Mount]
    /\ job \in [Units -> BOOLEAN]
    /\ nextInst \in Nat

\* A start that takes effect, or none, leaves PID 1 in a proper state.
LEMMA StartType ==
    ASSUME HostTypeOK, NEW u \in Units, NEW by \in {"tool", "admin"}, StartEffect(u, by), job' \in [Units -> BOOLEAN]
    PROVE  SystemdTypeOK'
  <1>1. Startable(u) \in FileContent
    BY DEF Startable, HostTypeOK
  <1>2. [id |-> nextInst, share |-> Startable(u), by |-> by] \in Trigger
    BY <1>1 DEF Trigger, HostTypeOK
  <1>3. loaded' \in [Units -> FileContent] /\ over' \in [Units -> Mount]
    BY <1>1 DEF StartEffect, HostTypeOK
  <1>4. CASE StartTakesEffect(u)
    BY <1>2, <1>3, <1>4 DEF StartEffect, SystemdTypeOK, HostTypeOK
  <1>5. CASE ~StartTakesEffect(u)
    BY <1>3, <1>5 DEF StartEffect, SystemdTypeOK, HostTypeOK
  <1> QED
    BY <1>4, <1>5

\* So do stopping a mount and stopping an automount.
LEMMA StopTypes ==
    ASSUME HostTypeOK, NEW u \in Units, StopMountEffect(u) \/ StopAutomountEffect(u)
    PROVE  SystemdTypeOK'
  <1>1. NoTrigger \in Trigger /\ NoMount \in Mount
    BY DEF NoTrigger, Trigger, NoMount, Mount
  <1> QED
    BY <1>1 DEF StopMountEffect, StopAutomountEffect, SystemdTypeOK, HostTypeOK

\* And so does daemon-reload.
LEMMA ReloadType == ASSUME HostTypeOK, ReloadEffect PROVE SystemdTypeOK'
  BY DEF ReloadEffect, SystemdTypeOK, HostTypeOK

-------------------------------------------------------------------------------
(* Types of the call's updates and of the steps.                           *)

\* Updating one field gives a call again.
LEMMA HitsType == ASSUME NEW c \in Call PROVE c.hits + 1 \in Nat /\ c.u \in Units
  BY DEF Call

\* The count of failing steps.
LEMMA UpdateHits == ASSUME NEW c \in Call, NEW n \in Nat PROVE [c EXCEPT !.hits = n] \in Call
  BY DEF Call

\* The snapshot.
LEMMA UpdateSnap == ASSUME NEW c \in Call, NEW s \in RuntimeSnapshot PROVE [c EXCEPT !.snap = s] \in Call
  BY DEF Call

\* The Boolean locals and the outcome.
LEMMA UpdateFlags ==
    ASSUME NEW c \in Call, NEW b \in BOOLEAN
    PROVE  /\ [c EXCEPT !.mountStopped = b] \in Call
           /\ [c EXCEPT !.safe = b] \in Call
           /\ [c EXCEPT !.credMayExist = b] \in Call
           /\ [c EXCEPT !.mayRemoveUnits = b] \in Call
           /\ [c EXCEPT !.ok = b] \in Call
  BY DEF Call

\* The id of the instance armShare started.
LEMMA UpdateStarted == ASSUME NEW c \in Call, NEW n \in Nat PROVE [c EXCEPT !.started = n] \in Call
  BY DEF Call

\* One axis of the snapshot.
LEMMA UpdateSnapFields ==
    ASSUME NEW c \in Call
    PROVE  /\ \A x \in AutomountStates : [c EXCEPT !.snap.automount = x] \in Call
           /\ \A x \in MountStates : [c EXCEPT !.snap.mount = x] \in Call
           /\ \A x \in VerificationStates : [c EXCEPT !.snap.verification = x] \in Call
           /\ \A x \in TrustStates : [c EXCEPT !.snap.trust = x] \in Call
  <1>1. c.snap \in RuntimeSnapshot
    BY DEF Call
  <1>2. \A x \in AutomountStates : [c.snap EXCEPT !.automount = x] \in RuntimeSnapshot
    BY <1>1 DEF RuntimeSnapshot
  <1>3. \A x \in MountStates : [c.snap EXCEPT !.mount = x] \in RuntimeSnapshot
    BY <1>1 DEF RuntimeSnapshot
  <1>4. \A x \in VerificationStates : [c.snap EXCEPT !.verification = x] \in RuntimeSnapshot
    BY <1>1 DEF RuntimeSnapshot
  <1>5. \A x \in TrustStates : [c.snap EXCEPT !.trust = x] \in RuntimeSnapshot
    BY <1>1 DEF RuntimeSnapshot
  <1> QED
    BY <1>2, <1>3, <1>4, <1>5, UpdateSnap

\* The two fields mountinfo decides.
LEMMA UpdateSnapPair ==
    ASSUME NEW c \in Call, NEW x \in MountStates, NEW y \in VerificationStates
    PROVE  /\ [c EXCEPT !.snap.mount = x, !.snap.verification = y] \in Call
           /\ [c EXCEPT !.snap.mount = x, !.snap.verification = y, !.hits = c.hits + 1] \in Call
  <1>1. [c EXCEPT !.snap.mount = x, !.snap.verification = y] \in Call
    BY UpdateSnapFields, Zenon
  <1> QED
    BY <1>1, HitsType, UpdateHits, Zenon

\* What stands for no call at all is a call.
LEMMA NoCallType == NoCall \in Call /\ NoSnapshot \in RuntimeSnapshot
  BY HostAssumption DEF NoCall, NoSnapshot, Call, RuntimeSnapshot, AutomountStates, MountStates,
                        VerificationStates, TrustStates

\* A step that leaves the host alone keeps its type.
LEMMA HostUnchanged == ASSUME HostTypeOK, UNCHANGED hostVars PROVE HostTypeOK'
  BY DEF HostTypeOK, hostVars, durableVars, systemdVars

\* A step that only drives systemd has only its state to answer for.
LEMMA OnlySystemd == ASSUME HostTypeOK, SystemdTypeOK', UNCHANGED <<durableVars, idRec>> PROVE HostTypeOK'
  BY DEF HostTypeOK, SystemdTypeOK, durableVars

\* The other way round: systemd untouched.
LEMMA SystemdUnchanged == ASSUME HostTypeOK, UNCHANGED systemdVars PROVE SystemdTypeOK'
  BY DEF HostTypeOK, SystemdTypeOK, systemdVars

\* inspectRuntime keeps the types.
LEMMA InspectType == ASSUME TypeOK, InspectRuntime PROVE TypeOK'
  <1> USE DEF TypeOK
  <1>1. HostTypeOK'
    BY HostUnchanged DEF InspectRuntime, ShowAutomount, ReadMountinfo, ShowMount, ReadIds
  <1>2. pc' \in Pcs
    BY DEF InspectRuntime, ShowAutomount, ReadMountinfo, ShowMount, ReadIds, Call, Pcs, SubroutinePcs,
           InspectPcs, StopPcs, ArmPcs
  <1>3. "Indeterminate" \in AutomountStates /\ "Indeterminate" \in MountStates
        /\ "Indeterminate" \in VerificationStates
    BY DEF AutomountStates, MountStates, VerificationStates
  <1>4. CASE ShowAutomount
    <2>1. PICK x \in AutomountStates :
             \/ call' = [call EXCEPT !.snap.automount = x]
             \/ call' = [call EXCEPT !.snap.automount = x, !.hits = call.hits + 1]
      BY <1>3, <1>4, AxisTypes DEF ShowAutomount
    <2>2. [call EXCEPT !.snap.automount = x] \in Call
      BY UpdateSnapFields
    <2>3. [call EXCEPT !.snap.automount = x, !.hits = call.hits + 1] \in Call
      BY <2>2, HitsType, UpdateHits
    <2> QED
      BY <1>1, <1>2, <2>1, <2>2, <2>3
  <1>5. CASE ReadMountinfo
    <2> DEFINE c == ClassifyMountEntries(MountinfoEntries(call.u), call.what)
    <2>1. c.mount \in MountStates /\ c.verification \in VerificationStates
      BY AxisTypes
    <2>2. \/ call' = [call EXCEPT !.snap.mount = c.mount, !.snap.verification = c.verification]
          \/ call' = [call EXCEPT !.snap.mount = "Indeterminate",
                                  !.snap.verification = "Indeterminate", !.hits = call.hits + 1]
      BY <1>5 DEF ReadMountinfo
    <2> QED
      BY <1>1, <1>2, <1>3, <2>1, <2>2, UpdateSnapPair, Zenon
  <1>6. CASE ShowMount
    <2> DEFINE s == [mount |-> call.snap.mount, verification |-> call.snap.verification]
               c == MountAxis(s, MountActiveState(call.u))
    <2>1. s \in [mount : MountStates, verification : VerificationStates]
      BY DEF Call, RuntimeSnapshot
    <2>2. c.mount \in MountStates /\ c.verification \in VerificationStates
      BY <2>1, AxisTypes
    <2>3. \/ call' = [call EXCEPT !.snap.mount = c.mount, !.snap.verification = c.verification]
          \/ call' = [call EXCEPT !.snap.mount = "Indeterminate",
                                  !.snap.verification = "Indeterminate", !.hits = call.hits + 1]
      BY <1>6 DEF ShowMount
    <2> QED
      BY <1>1, <1>2, <1>3, <2>2, <2>3, UpdateSnapPair, Zenon
  <1>7. CASE ReadIds
    <2>1. PICK n \in {UniqueMountId(call.u), 0} :
             LET t == ActivationTrust(call.snap.automount, idRec[call.u], n)
             IN  \/ call' = [call EXCEPT !.snap.trust = t]
                 \/ call' = [call EXCEPT !.snap.trust = t, !.hits = call.hits + 1]
      BY <1>7 DEF ReadIds
    <2>2. \A t \in TrustStates : /\ [call EXCEPT !.snap.trust = t] \in Call
                                 /\ [call EXCEPT !.snap.trust = t, !.hits = call.hits + 1] \in Call
      BY HitsType, UpdateSnapFields, UpdateHits, Zenon
    <2> QED
      BY <1>1, <1>2, <2>1, <2>2, AxisTypes, Zenon
  <1> QED
    BY <1>4, <1>5, <1>6, <1>7 DEF InspectRuntime

\* safeStop keeps the types.
LEMMA SafeStopType == ASSUME TypeOK, SafeStop PROVE TypeOK'
  <1> USE DEF TypeOK
  <1>1. pc' \in Pcs
    BY DEF SafeStop, DecideStop, StopMount, StopAutomount, Pcs, SubroutinePcs, StopPcs
  <1>2. call' \in Call
    <2>1. \/ UNCHANGED call
          \/ call' = [call EXCEPT !.mountStopped = TRUE]
          \/ call' = [call EXCEPT !.hits = call.hits + 1]
      BY DEF SafeStop, DecideStop, StopMount, StopAutomount
    <2> QED
      BY <2>1, HitsType, UpdateHits, UpdateFlags, Zenon
  <1>3. CASE DecideStop
    BY <1>1, <1>2, <1>3, HostUnchanged DEF DecideStop
  <1>4. CASE StopMount
    BY <1>1, <1>2, <1>4, StopTypes, OnlySystemd, SystemdUnchanged, HitsType DEF StopMount
  <1>5. CASE StopAutomount
    BY <1>1, <1>2, <1>5, StopTypes, OnlySystemd, SystemdUnchanged, HitsType DEF StopAutomount
  <1> QED
    BY <1>3, <1>4, <1>5 DEF SafeStop

\* A failing step counted against the bound.
LEMMA FailedHits == ASSUME NEW c \in Call PROVE [c EXCEPT !.hits = @ + 1] \in Call
  BY DEF Call

\* So is a directory found missing.
LEMMA MissingType == ASSUME NEW c \in Call, NEW b \in BOOLEAN PROVE [c EXCEPT !.missing = b] \in Call
  BY DEF Call

\* armShare keeps the type of its locals.
LEMMA ArmCallType == ASSUME call \in Call, HostTypeOK, ArmShare PROVE call' \in Call
  <1>1. CASE DecideArm \/ CheckCredential \/ WalkCreating \/ WalkExisting
    <2>1. \/ UNCHANGED call
          \/ call' = [call EXCEPT !.missing = ~dir[call.u]]
          \/ call' = [call EXCEPT !.hits = @ + 1]
      BY <1>1 DEF DecideArm, CheckCredential, WalkCreating, WalkExisting
    <2>2. [call EXCEPT !.missing = ~dir[call.u]] \in Call
      BY MissingType DEF HostTypeOK, Call
    <2> QED
      BY <2>1, <2>2, FailedHits, Zenon
  <1>2. CASE Start
    <2>1. \/ UNCHANGED call
          \/ \E b \in BOOLEAN : call' = [call EXCEPT !.missing = b]
          \/ call' = [call EXCEPT !.site = "decideRecheck", !.snap = NoSnapshot, !.hits = @ + 1]
      BY <1>2 DEF Start
    <2>2. [call EXCEPT !.site = "decideRecheck"] \in Call
      BY DEF Call
    <2>3. [call EXCEPT !.site = "decideRecheck", !.snap = NoSnapshot] \in Call
      BY <2>2, NoCallType, UpdateSnap, Zenon
    <2> QED
      BY <2>1, <2>3, MissingType, FailedHits, Zenon
  <1>3. CASE StatStarted \/ StatAppeared
    <2>1. \/ call' = [call EXCEPT !.started = UniqueMountId(call.u)]
          \/ call' = [call EXCEPT !.hits = @ + 1]
      BY <1>3 DEF StatStarted, StatAppeared
    <2>2. UniqueMountId(call.u) \in Nat
      BY HitsType, UniqueMountIdType
    <2> QED
      BY <2>1, <2>2, UpdateStarted, FailedHits, Zenon
  <1>4. CASE RecordId \/ ForgetId
    BY <1>4, FailedHits, Zenon DEF RecordId, ForgetId
  <1>5. CASE DecideRecheck \/ Compensate \/ StopStarted
    <2>1. \/ UNCHANGED call
          \/ \E b \in BOOLEAN : call' = [call EXCEPT !.safe = b]
          \/ call' = [call EXCEPT !.safe = FALSE, !.hits = @ + 1]
      BY <1>5 DEF DecideRecheck, Compensate, StopStarted
    <2>2. [call EXCEPT !.safe = FALSE] \in Call
      BY DEF Call
    <2>3. [call EXCEPT !.safe = FALSE, !.hits = @ + 1] \in Call
      BY <2>2, FailedHits, Zenon
    <2> QED
      BY <2>1, <2>3, UpdateFlags, Zenon
  <1> QED
    BY <1>1, <1>2, <1>3, <1>4, <1>5 DEF ArmShare

\* armShare keeps the type of what it acts on.
LEMMA ArmHostType == ASSUME call \in Call, HostTypeOK, ArmShare PROVE HostTypeOK'
  <1>1. call.u \in Units /\ call.started \in Nat
    BY DEF Call
  <1>2. CASE DecideArm \/ CheckCredential \/ WalkExisting \/ StatStarted \/ DecideRecheck \/ StatAppeared \/ Compensate
    BY <1>2, HostUnchanged DEF DecideArm, CheckCredential, WalkExisting, StatStarted, DecideRecheck, StatAppeared,
                               Compensate
  <1>3. CASE WalkCreating
    BY <1>1, <1>3 DEF WalkCreating, HostTypeOK, systemdVars
  <1>4. CASE Start
    <2>1. SystemdTypeOK'
      <3>1. CASE StartEffect(call.u, "tool") /\ UNCHANGED job
        BY <1>1, <3>1, StartType DEF HostTypeOK
      <3>2. CASE UNCHANGED systemdVars
        BY <3>2, SystemdUnchanged
      <3>3. CASE job' = [job EXCEPT ![call.u] = TRUE] /\ UNCHANGED <<loaded, trig, over, nextInst>>
        BY <3>3 DEF HostTypeOK, SystemdTypeOK
      <3> QED
        BY <1>4, <3>1, <3>2, <3>3 DEF Start
    <2> QED
      BY <1>4, <2>1, OnlySystemd DEF Start
  <1>5. CASE RecordId \/ ForgetId
    BY <1>1, <1>5 DEF RecordId, ForgetId, HostTypeOK, durableVars, systemdVars
  <1>6. CASE StopStarted
    BY <1>1, <1>6, StopTypes, OnlySystemd, SystemdUnchanged DEF StopStarted
  <1> QED
    BY <1>2, <1>3, <1>4, <1>5, <1>6 DEF ArmShare

\* armShare keeps the types.
LEMMA ArmType == ASSUME TypeOK, ArmShare PROVE TypeOK'
  <1>1. pc' \in Pcs
    BY DEF ArmShare, DecideArm, CheckCredential, WalkCreating, WalkExisting, Start, StatStarted, RecordId, DecideRecheck,
           StatAppeared, Compensate, StopStarted, ForgetId, Pcs, SubroutinePcs, ArmPcs, InspectPcs
  <1> QED
    BY <1>1, ArmCallType, ArmHostType DEF TypeOK

\* Entering a subroutine resets its locals to proper values.
LEMMA EnterTypes == ASSUME NEW c \in Call PROVE EnterArmShare(c) \in Call /\ EnterSafeStop(c) \in Call
  <1>1. /\ [c EXCEPT !.site = "decideArm"] \in Call
        /\ [c EXCEPT !.site = "decideStop"] \in Call
    BY DEF Call
  <1>2. /\ [c EXCEPT !.site = "decideArm", !.snap = NoSnapshot] \in Call
        /\ [c EXCEPT !.site = "decideStop", !.snap = NoSnapshot] \in Call
    BY <1>1, NoCallType, UpdateSnap, Zenon
  <1>3. FALSE \in BOOLEAN /\ TRUE \in BOOLEAN /\ 0 \in Nat
    OBVIOUS
  <1>4. [c EXCEPT !.site = "decideArm", !.snap = NoSnapshot, !.started = 0] \in Call
    BY <1>2, <1>3, UpdateStarted, Zenon
  <1>5. [c EXCEPT !.site = "decideArm", !.snap = NoSnapshot, !.started = 0, !.safe = TRUE] \in Call
    BY <1>3, <1>4, UpdateFlags, Zenon
  <1> QED
    BY <1>2, <1>3, <1>5, UpdateFlags, MissingType, Zenon DEF EnterArmShare, EnterSafeStop

\* Define keeps the type of its locals.
LEMMA DefineCallType == ASSUME call \in Call, Define PROVE call' \in Call
  <1>1. TRUE \in BOOLEAN /\ FALSE \in BOOLEAN
    OBVIOUS
  <1>2. CASE WriteCredential
    <2>1. \/ call' = [call EXCEPT !.credMayExist = TRUE]
          \/ call' = [call EXCEPT !.credMayExist = TRUE, !.hits = @ + 1]
      BY <1>2 DEF WriteCredential
    <2>2. [call EXCEPT !.credMayExist = TRUE] \in Call
      BY DEF Call
    <2> QED
      BY <2>1, <2>2, FailedHits, Zenon
  <1>3. CASE CleanCredential
    <2>1. \/ UNCHANGED call
          \/ call' = [call EXCEPT !.mayRemoveUnits = FALSE, !.hits = @ + 1]
      BY <1>3 DEF CleanCredential, Proceed
    <2>2. [call EXCEPT !.mayRemoveUnits = FALSE] \in Call
      BY DEF Call
    <2> QED
      BY <2>1, <2>2, FailedHits, Zenon
  <1>4. CASE DefineArmed
    BY <1>1, <1>4, UpdateFlags, Zenon DEF DefineArmed
  <1>5. CASE Reload
    BY <1>5, EnterTypes, FailedHits, Zenon DEF Reload, FailTo
  <1>6. CASE WriteMount \/ WriteAutomount \/ AssertNoCredential \/ DefineNotArmed
    BY <1>6, FailedHits, Zenon
       DEF WriteMount, WriteAutomount, AssertNoCredential, DefineNotArmed, Proceed, FailTo
  <1>7. CASE CleanAutomount \/ CleanMount \/ CleanId \/ CleanReload
    BY <1>7, FailedHits, Zenon DEF CleanAutomount, CleanMount, CleanId, CleanReload, Proceed, FailTo
  <1> QED
    BY <1>2, <1>3, <1>4, <1>5, <1>6, <1>7 DEF Define

\* Define writes nothing but ids of shares into unit files.
LEMMA DefineHostType == ASSUME call \in Call, HostTypeOK, StepsMatchCall, Define PROVE HostTypeOK'
  <1>1. call.u \in Units /\ call.id \in FileContent /\ NoFile \in FileContent
    BY DEF Call
  <1>2. CASE WriteMount \/ WriteAutomount \/ CleanAutomount \/ CleanMount
    BY <1>1, <1>2 DEF WriteMount, WriteAutomount, CleanAutomount, CleanMount, Replace, HostTypeOK, systemdVars
  <1>3. CASE WriteCredential \/ CleanCredential
    <2>1. creds' \in SUBSET Ids
      BY <1>3 DEF WriteCredential, CleanCredential, HostTypeOK, StepsMatchCall, DefinePcs
    <2> QED
      BY <1>3, <2>1 DEF WriteCredential, CleanCredential, HostTypeOK, systemdVars
  <1>4. CASE AssertNoCredential \/ DefineArmed \/ DefineNotArmed
    BY <1>4, HostUnchanged DEF AssertNoCredential, DefineArmed, DefineNotArmed
  <1>5. CASE Reload \/ CleanReload
    <2>1. SystemdTypeOK'
      BY <1>5, ReloadType, SystemdUnchanged DEF Reload, CleanReload
    <2> QED
      BY <1>5, <2>1, OnlySystemd DEF Reload, CleanReload
  <1>6. CASE CleanId
    BY <1>1, <1>6 DEF CleanId, Replace, HostTypeOK, durableVars, systemdVars
  <1> QED
    BY <1>2, <1>3, <1>4, <1>5, <1>6 DEF Define

\* Define keeps the types.
LEMMA DefineType == ASSUME TypeOK, StepsMatchCall, Define PROVE TypeOK'
  <1>1. pc' \in Pcs
    BY DEF Define, WriteMount, WriteAutomount, WriteCredential, AssertNoCredential, Reload, DefineArmed,
           DefineNotArmed, CleanCredential, CleanAutomount, CleanMount, CleanId, CleanReload, Proceed, FailTo,
           Pcs, DefinePcs, SubroutinePcs, InspectPcs
  <1> QED
    BY <1>1, DefineCallType, DefineHostType DEF TypeOK

\* A removal keeps the types.
LEMMA RemoveType == ASSUME TypeOK, Remove PROVE TypeOK'
  <1>1. pc' \in Pcs
    BY DEF Remove, RemoveRefused, RemoveStopped, RemoveCredential, RemoveMount, RemoveAutomount, RemoveId,
           RemoveReload, Proceed, FailTo, Pcs, RemovePcs
  <1>2. call' \in Call
    <2>1. \/ UNCHANGED call
          \/ call' = [call EXCEPT !.ok = TRUE]
          \/ call' = [call EXCEPT !.hits = @ + 1]
      BY DEF Remove, RemoveRefused, RemoveStopped, RemoveCredential, RemoveMount, RemoveAutomount, RemoveId,
             RemoveReload, Proceed, FailTo
    <2>2. [call EXCEPT !.ok = TRUE] \in Call
      BY DEF TypeOK, Call
    <2> QED
      BY <2>1, <2>2, FailedHits, Zenon DEF TypeOK
  <1>3. HostTypeOK'
    <2>1. call.u \in Units /\ NoFile \in FileContent /\ HostTypeOK
      BY DEF TypeOK, Call
    <2>2. CASE RemoveRefused \/ RemoveStopped
      BY <2>1, <2>2, HostUnchanged DEF RemoveRefused, RemoveStopped
    <2>3. CASE RemoveCredential
      BY <2>1, <2>3 DEF RemoveCredential, HostTypeOK, systemdVars
    <2>4. CASE RemoveMount \/ RemoveAutomount
      BY <2>1, <2>4 DEF RemoveMount, RemoveAutomount, Replace, HostTypeOK, systemdVars
    <2>5. CASE RemoveId
      BY <2>1, <2>5 DEF RemoveId, Replace, HostTypeOK, durableVars, systemdVars
    <2>6. CASE RemoveReload
      BY <2>1, <2>6, ReloadType, SystemdUnchanged, OnlySystemd DEF RemoveReload
    <2> QED
      BY <2>2, <2>3, <2>4, <2>5, <2>6 DEF Remove
  <1> QED
    BY <1>1, <1>2, <1>3 DEF TypeOK

\* The boot pass and the reply keep the types.
LEMMA BootType == ASSUME TypeOK, Boot \/ Reply PROVE TypeOK'
  <1>1. HostTypeOK'
    BY HostUnchanged DEF TypeOK, Boot, BootArm, BootArmed, BootEnd, Reply
  <1>2. pc' \in Pcs
    BY DEF TypeOK, Boot, BootArm, BootArmed, BootEnd, Reply, Pcs, SubroutinePcs, InspectPcs
  <1>3. call' \in Call
    <2>1. CASE BootEnd \/ Reply
      BY <2>1, NoCallType DEF BootEnd, Reply
    <2>2. CASE BootArmed
      BY <2>2 DEF BootArmed, TypeOK, Call
    <2>3. ASSUME NEW u \in Units, BootArm(u) PROVE call' \in Call
      <3> DEFINE c == [call EXCEPT !.u = u, !.id = mountHalf[u], !.what = mountHalf[u],
                                   !.todo = @ \ {u}, !.hits = 0]
      <3>1. c \in Call
        BY DEF TypeOK, HostTypeOK, Call
      <3>2. EnterArmShare(c) \in Call
        BY <3>1, EnterTypes
      <3>3. [call EXCEPT !.todo = @ \ {u}, !.hit = @ \cup {u}] \in Call
        BY DEF TypeOK, Call
      <3>4. \/ call' = EnterArmShare(c)
            \/ call' = [call EXCEPT !.todo = @ \ {u}, !.hit = @ \cup {u}]
        BY <2>3, Zenon DEF BootArm
      <3> QED
        BY <3>2, <3>3, <3>4, Zenon
    <2> QED
      BY <2>1, <2>2, <2>3 DEF Boot
  <1> QED
    BY <1>1, <1>2, <1>3 DEF TypeOK

\* What each verdict of inspectDefinition says of the two halves.
LEMMA InspectVerdicts ==
    ASSUME NEW m, NEW a
    PROVE  /\ InspectDefinition(m, a) = "None" <=> (m = NoFile /\ a = NoFile)
           /\ InspectDefinition(m, a) \in {"Pair", "Partial"} =>
                 /\ m # Broken /\ a # Broken /\ m # Alien /\ a # Alien
                 /\ m # NoFile \/ a # NoFile
                 /\ m # NoFile /\ a # NoFile => m = a
           /\ InspectDefinition(m, a) = "Pair" <=> (m = a /\ m \notin {NoFile, Alien, Broken})
  <1> DEFINE V == InspectDefinition(m, a)
  <1>1. NoFile # Alien /\ NoFile # Broken /\ Alien # Broken
    BY ContentAssumption
  <1>2. CASE m = Broken \/ a = Broken
    <2>1. V = "Tampered"
      BY <1>2 DEF InspectDefinition
    <2> QED
      BY <1>1, <1>2, <2>1
  <1>3. CASE m # Broken /\ a # Broken /\ m = NoFile /\ a = NoFile
    <2>1. V = "None"
      BY <1>3 DEF InspectDefinition
    <2> QED
      BY <1>1, <1>3, <2>1
  <1>4. CASE m # Broken /\ a # Broken /\ ~(m = NoFile /\ a = NoFile)
    <2>1. V = IF m = Alien \/ a = Alien THEN "NotOurs"
              ELSE IF m = NoFile \/ a = NoFile THEN "Partial"
              ELSE IF m # a THEN "Tampered" ELSE "Pair"
      BY <1>4 DEF InspectDefinition
    <2> QED
      BY <1>1, <1>4, <2>1
  <1> QED
    BY <1>2, <1>3, <1>4

\* The id a removal takes from an owned definition is a share's id.
LEMMA MarkerIdType ==
    ASSUME HostTypeOK, NEW u \in Units, Managed(u)
    PROVE  /\ MarkerId(mountHalf[u], autoHalf[u]) \in Ids
           /\ {mountHalf[u], autoHalf[u]} \subseteq {NoFile, MarkerId(mountHalf[u], autoHalf[u])}
  <1> DEFINE m == mountHalf[u]
             a == autoHalf[u]
  <1>1. m \in FileContent /\ a \in FileContent
    BY DEF HostTypeOK
  <1>2. /\ m # Broken /\ a # Broken /\ m # Alien /\ a # Alien
        /\ m # NoFile \/ a # NoFile
        /\ m # NoFile /\ a # NoFile => m = a
    BY InspectVerdicts DEF Managed, Definition
  <1> QED
    BY <1>1, <1>2, ContentAssumption DEF MarkerId

\* Every call begins with proper arguments.
LEMMA BeginType == ASSUME TypeOK, Begin PROVE TypeOK'
  <1>1. ASSUME NEW u \in Units, NEW i \in Ids, DefineBegin(u, i) PROVE TypeOK'
    <2>1. HostTypeOK' /\ pc' \in Pcs
      BY <1>1 DEF DefineBegin, TypeOK, HostTypeOK, systemdVars, Pcs, DefinePcs
    <2>2. call' \in Call
      BY <1>1, NoCallType DEF DefineBegin, Call
    <2> QED
      BY <2>1, <2>2 DEF TypeOK
  <1>2. ASSUME NEW u \in Units, RemoveBegin(u) PROVE TypeOK'
    <2>1. HostTypeOK' /\ pc' \in Pcs
      BY <1>2, HostUnchanged DEF RemoveBegin, TypeOK, Pcs, SubroutinePcs, InspectPcs
    <2> DEFINE c == [NoCall EXCEPT !.op = "remove", !.u = u,
                                   !.id = MarkerId(mountHalf[u], autoHalf[u]), !.what = mountHalf[u]]
    <2>2. c \in Call
      BY <1>2, NoCallType, MarkerIdType DEF RemoveBegin, TypeOK, HostTypeOK, Call
    <2>3. call' = EnterSafeStop(c)
      BY <1>2, Zenon DEF RemoveBegin
    <2> QED
      BY <2>1, <2>2, <2>3, EnterTypes DEF TypeOK
  <1>3. CASE BootBegin
    <2>1. HostTypeOK' /\ pc' \in Pcs
      BY <1>3, HostUnchanged DEF BootBegin, TypeOK, Pcs
    <2>2. call' \in Call
      BY <1>3, NoCallType DEF BootBegin, Call
    <2> QED
      BY <2>1, <2>2 DEF TypeOK
  <1>4. ASSUME NEW u \in Units, DefineRefused(u) PROVE TypeOK'
    BY <1>4 DEF DefineRefused, TypeOK, HostTypeOK, systemdVars, armVars
  <1> QED
    BY <1>1, <1>2, <1>3, <1>4 DEF Begin

\* What the environment does is well typed, and leaves the unit files and
\* the credentials alone.
LEMMA EnvironmentType ==
    ASSUME HostTypeOK, Environment
    PROVE  HostTypeOK' /\ UNCHANGED <<mountHalf, autoHalf, creds, pc, call>>
  <1>1. UNCHANGED <<mountHalf, autoHalf, creds, pc, call>>
    BY DEF Environment, Ambient, Admin, CrossTrigger, Expire, RemoveDirectory, MakeDirectory, RunJob, CollectUnit,
           AdminStart, AdminStop, AdminMount, AdminUnmount, durableVars, armVars
  <1>2. NoMount \in Mount /\ NoFile \in FileContent /\ Alien \in FileContent
    BY DEF NoMount, Mount
  <1>3. ASSUME NEW u \in Units, Ambient(u) PROVE HostTypeOK'
    <2>1. CASE CrossTrigger(u)
      <3>1. [fs |-> "cifs", id |-> nextInst, src |-> trig[u].share] \in Mount
        BY DEF HostTypeOK, Mount, Trigger
      <3> QED
        BY <2>1, <3>1 DEF CrossTrigger, HostTypeOK, durableVars
    <2>2. CASE Expire(u)
      BY <1>2, <2>2 DEF Expire, HostTypeOK, durableVars
    <2>3. CASE RemoveDirectory(u) \/ MakeDirectory(u)
      BY <2>3 DEF RemoveDirectory, MakeDirectory, HostTypeOK, systemdVars
    <2>4. CASE RunJob(u)
      <3>1. job' \in [Units -> BOOLEAN]
        BY <2>4 DEF RunJob, HostTypeOK
      <3>2. SystemdTypeOK'
        BY <2>4, <3>1, StartType DEF RunJob, HostTypeOK, SystemdTypeOK
      <3> QED
        BY <2>4, <3>2, OnlySystemd DEF RunJob
    <2>5. CASE CollectUnit(u)
      BY <1>2, <2>5 DEF CollectUnit, HostTypeOK, durableVars
    <2> QED
      BY <1>3, <2>1, <2>2, <2>3, <2>4, <2>5 DEF Ambient
  <1>4. ASSUME NEW u \in Units, Admin(u) PROVE HostTypeOK'
    <2>1. CASE AdminStart(u)
      <3>1. SystemdTypeOK'
        BY <2>1, StartType DEF AdminStart, HostTypeOK
      <3> QED
        BY <2>1, <3>1, OnlySystemd DEF AdminStart
    <2>2. CASE AdminStop(u)
      BY <2>2, StopTypes, OnlySystemd DEF AdminStop
    <2>3. CASE AdminMount(u)
      <3>1. PICK m \in [fs : {"cifs"}, src : {Alien} \cup ({mountHalf[u]} \cap Ids)]
                          \cup {[fs |-> "other", src |-> NoFile]} :
               over' = [over EXCEPT ![u] = [fs |-> m.fs, id |-> nextInst, src |-> m.src]]
        BY <2>3 DEF AdminMount
      <3>2. [fs |-> m.fs, id |-> nextInst, src |-> m.src] \in Mount
        BY <1>2, <3>1 DEF HostTypeOK, Mount
      <3> QED
        BY <2>3, <3>1, <3>2 DEF AdminMount, HostTypeOK, durableVars
    <2>4. CASE AdminUnmount(u)
      BY <2>4, StopTypes, OnlySystemd DEF AdminUnmount
    <2> QED
      BY <1>4, <2>1, <2>2, <2>3, <2>4 DEF Admin
  <1> QED
    BY <1>1, <1>3, <1>4, OperationsAssumption DEF Environment

\* A kill and a reboot keep the types.
LEMMA KillType == ASSUME TypeOK, Crash \/ Reboot PROVE TypeOK'
  <1>1. CASE Crash
    BY <1>1, NoCallType, HostUnchanged DEF Crash, TypeOK, Pcs
  <1>2. CASE Reboot
    <2>1. HostTypeOK'
      BY <1>2 DEF Reboot, HostReboot, TypeOK, HostTypeOK, NoTrigger, Trigger, NoMount, Mount, UnderId, durableVars
    <2> QED
      BY <1>2, <2>1, NoCallType DEF Reboot, TypeOK, Pcs
  <1> QED
    BY <1>1, <1>2

-------------------------------------------------------------------------------
(* Calls and their steps.                                                  *)

\* The routines define, removal and boot share change neither a file of a
\* definition, nor whose call it is and what it is about.
LEMMA SubroutineStep ==
    ASSUME TypeOK, InspectRuntime \/ SafeStop \/ ArmShare
    PROVE  /\ UNCHANGED <<mountHalf, autoHalf, creds>>
           /\ call'.op = call.op /\ call'.u = call.u /\ call'.id = call.id
           /\ call'.credMayExist = call.credMayExist
           /\ pc' \in SubroutinePcs
  <1> USE DEF TypeOK, Call, SubroutinePcs, InspectPcs, StopPcs, ArmPcs
  <1>1. CASE InspectRuntime
    BY <1>1 DEF InspectRuntime, ShowAutomount, ReadMountinfo, ShowMount, ReadIds, hostVars, durableVars
  <1>2. CASE SafeStop
    BY <1>2 DEF SafeStop, DecideStop, StopMount, StopAutomount, hostVars, durableVars
  <1>3. CASE ArmShare
    BY <1>3 DEF ArmShare, DecideArm, CheckCredential, WalkCreating, WalkExisting, Start, StatStarted, RecordId, DecideRecheck,
                StatAppeared, Compensate, StopStarted, ForgetId, hostVars, durableVars
  <1> QED
    BY <1>1, <1>2, <1>3

\* A step of define goes on with the same call, into define's own steps or
\* into armShare.
LEMMA DefineStep ==
    ASSUME TypeOK, StepsMatchCall, Define
    PROVE  /\ call.op = "define" /\ call'.op = "define"
           /\ call'.u = call.u /\ call'.id = call.id
           /\ pc' \in DefinePcs \cup {"showAutomount", "reply"}
  <1> USE DEF TypeOK, Call, StepsMatchCall, DefinePcs
  <1>1. CASE WriteMount \/ WriteAutomount \/ WriteCredential \/ AssertNoCredential
    BY <1>1 DEF WriteMount, WriteAutomount, WriteCredential, AssertNoCredential, Proceed, FailTo
  <1>2. CASE Reload \/ DefineArmed \/ DefineNotArmed
    BY <1>2 DEF Reload, DefineArmed, DefineNotArmed, Proceed, FailTo, EnterArmShare
  <1>3. CASE CleanCredential \/ CleanAutomount \/ CleanMount \/ CleanId \/ CleanReload
    BY <1>3 DEF CleanCredential, CleanAutomount, CleanMount, CleanId, CleanReload, Proceed, FailTo
  <1> QED
    BY <1>1, <1>2, <1>3 DEF Define

\* A step of a removal goes on with the same call, into its own next step.
LEMMA RemoveStep ==
    ASSUME TypeOK, StepsMatchCall, Remove
    PROVE  /\ call.op = "remove" /\ call'.op = "remove"
           /\ call'.u = call.u /\ call'.id = call.id
           /\ pc' \in RemovePcs \cup {"reply"}
  BY DEF TypeOK, Call, StepsMatchCall, RemovePcs, Remove, RemoveRefused, RemoveStopped, RemoveCredential,
         RemoveMount, RemoveAutomount, RemoveId, RemoveReload, Proceed, FailTo

\* The boot pass, and whatever ends a call, touches no file of a definition.
LEMMA BootStep ==
    ASSUME TypeOK, StepsMatchCall, Boot \/ Reply \/ Crash \/ Reboot
    PROVE  /\ UNCHANGED <<mountHalf, autoHalf, creds>>
           /\ call'.op \in {"none", "boot"}
           /\ pc' = "bootNext" => call'.op = "boot"
           /\ pc' \in {"idle", "bootNext", "showAutomount"}
  <1> USE DEF TypeOK, Call, StepsMatchCall
  <1>1. CASE BootEnd \/ Reply \/ Crash \/ Reboot
    BY <1>1 DEF BootEnd, Reply, Crash, Reboot, HostReboot, NoCall, hostVars, durableVars
  <1>2. CASE BootArmed
    BY <1>2 DEF BootArmed, hostVars, durableVars
  <1>3. ASSUME NEW u \in Units, BootArm(u)
        PROVE  /\ UNCHANGED <<mountHalf, autoHalf, creds>>
               /\ call'.op = "boot" /\ pc' \in {"bootNext", "showAutomount"}
    BY <1>3 DEF BootArm, EnterArmShare, hostVars, durableVars
  <1> QED
    BY <1>1, <1>2, <1>3 DEF Boot

\* What a call starts with.
LEMMA BeginStep ==
    ASSUME TypeOK, Begin
    PROVE  \/ \E u \in Units, i \in Ids :
                /\ DefineBegin(u, i) /\ pc' = "writeMount"
                /\ call'.op = "define" /\ call'.u = u /\ call'.id = i
           \/ \E u \in Units :
                /\ RemoveBegin(u) /\ pc' = "showAutomount"
                /\ call'.op = "remove" /\ call'.u = u
                /\ call'.id = MarkerId(mountHalf[u], autoHalf[u])
           \/ BootBegin /\ pc' = "bootNext" /\ call'.op = "boot"
           \/ UNCHANGED <<pc, call>>
  <1>1. ASSUME NEW u \in Units, NEW i \in Ids, DefineBegin(u, i)
        PROVE  pc' = "writeMount" /\ call'.op = "define" /\ call'.u = u /\ call'.id = i
    BY <1>1 DEF DefineBegin, NoCall
  <1>2. ASSUME NEW u \in Units, RemoveBegin(u)
        PROVE  /\ pc' = "showAutomount" /\ call'.op = "remove" /\ call'.u = u
               /\ call'.id = MarkerId(mountHalf[u], autoHalf[u])
    BY <1>2 DEF RemoveBegin, NoCall, EnterSafeStop
  <1>3. ASSUME BootBegin PROVE pc' = "bootNext" /\ call'.op = "boot"
    BY <1>3 DEF BootBegin, NoCall
  <1>4. ASSUME NEW u \in Units, DefineRefused(u) PROVE UNCHANGED <<pc, call>>
    BY <1>4 DEF DefineRefused, armVars
  <1> QED
    BY <1>1, <1>2, <1>3, <1>4 DEF Begin

\* No step runs on behalf of a call of another kind.
LEMMA StepsMatchStep == ASSUME TypeOK, StepsMatchCall, Next PROVE StepsMatchCall'
  <1> USE DEF StepsMatchCall, DefinePcs, RemovePcs
  <1>1. CASE InspectRuntime \/ SafeStop \/ ArmShare
    BY <1>1, SubroutineStep DEF SubroutinePcs, InspectPcs, StopPcs, ArmPcs
  <1>2. CASE Define
    BY <1>2, DefineStep
  <1>3. CASE Remove
    BY <1>3, RemoveStep
  <1>4. CASE Boot \/ Reply \/ Crash \/ Reboot
    BY <1>4, BootStep
  <1>5. CASE Begin
    BY <1>5, BeginStep, MarkerIdType DEF RemoveBegin, TypeOK
  <1>6. CASE Environment
    BY <1>6, EnvironmentType DEF TypeOK
  <1> QED
    BY <1>1, <1>2, <1>3, <1>4, <1>5, <1>6 DEF Next, Step

\* Every step keeps the types.
LEMMA TypeStep == ASSUME TypeOK, StepsMatchCall, Next PROVE TypeOK'
  <1>1. CASE Environment
    BY <1>1, EnvironmentType DEF TypeOK
  <1> QED
    BY <1>1, InspectType, SafeStopType, ArmType, DefineType, RemoveType, BootType, BeginType, KillType
    DEF Next, Step

\* The types hold at the start.
LEMMA InitType == Init => TypeOK /\ StepsMatchCall
  <1> SUFFICES ASSUME Init PROVE TypeOK /\ StepsMatchCall
    OBVIOUS
  <1>1. HostTypeOK
    BY HostAssumption DEF Init, HostInit, HostTypeOK, NoTrigger, Trigger, NoMount, Mount, UnderId
  <1>2. pc \in Pcs /\ call \in Call
    BY NoCallType DEF Init, Pcs
  <1>3. StepsMatchCall
    BY DEF Init, NoCall, StepsMatchCall, DefinePcs, RemovePcs
  <1> QED
    BY <1>1, <1>2, <1>3 DEF TypeOK

\* And when nothing happens.
LEMMA StutterType == ASSUME TypeOK, StepsMatchCall, UNCHANGED vars PROVE TypeOK' /\ StepsMatchCall'
  BY HostUnchanged DEF TypeOK, StepsMatchCall, vars, armVars

\* Every variable keeps its type: in particular each unit file on disk is a
\* share's, an administrator's or a damaged one, and no credential ever
\* carries anything but a share's id.
THEOREM TypeCorrect == Spec => []TypeOK
  <1>1. Init => TypeOK /\ StepsMatchCall
    BY InitType
  <1>2. TypeOK /\ StepsMatchCall /\ [Next]_vars => (TypeOK /\ StepsMatchCall)'
    BY TypeStep, StepsMatchStep, StutterType
  <1>3. TypeOK /\ StepsMatchCall => TypeOK
    OBVIOUS
  <1> QED
    BY <1>1, <1>2, <1>3, PTL DEF Spec

-------------------------------------------------------------------------------
(* The two halves of one mount point.                                      *)

\* The conjuncts of FilesConsistent about the files, to be shown after each
\* step.
FilesOK == HalvesAreTheCalls /\ NewIdIsFresh /\ SecretWithinUnits /\ NeverSelfTampered

\* A call's id is no stranger's file.
LEMMA OwnHalves ==
    ASSUME TypeOK, StepsMatchCall, HalvesAreTheCalls, call.op \in {"define", "remove"}
    PROVE  /\ call.u \in Units /\ call.id \in Ids /\ call.id \notin {NoFile, Alien, Broken}
           /\ mountHalf[call.u] \in {NoFile, call.id} /\ autoHalf[call.u] \in {NoFile, call.id}
  BY ContentAssumption DEF TypeOK, Call, StepsMatchCall, HalvesAreTheCalls

\* Unit files that do not change are as consistent as before.
LEMMA SameFiles ==
    ASSUME UNCHANGED <<mountHalf, autoHalf>>, NeverSelfTampered
    PROVE  NeverSelfTampered'
  BY DEF NeverSelfTampered

\* Only the halves at the call's mount point change, to the call's id or to
\* nothing, and no other mount point has that id.
LEMMA OneMountPoint ==
    ASSUME TypeOK, NeverSelfTampered, NEW x \in Units, NEW i \in Ids,
           \A v \in Units \ {x} : /\ mountHalf'[v] = mountHalf[v] /\ autoHalf'[v] = autoHalf[v]
                                  /\ i \notin {mountHalf[v], autoHalf[v]},
           {mountHalf'[x], autoHalf'[x]} \subseteq {NoFile, i}
    PROVE  NeverSelfTampered'
  <1> SUFFICES ASSUME NEW u \in Units, NEW v \in Units,
                      NEW j \in {mountHalf'[u], autoHalf'[u]} \cap Ids,
                      NEW k \in {mountHalf'[v], autoHalf'[v]} \cap Ids
               PROVE  (u = v) <=> (j = k)
    BY DEF NeverSelfTampered
  <1>1. NoFile \notin Ids
    BY ContentAssumption
  <1>2. u = x => j = i
    BY <1>1
  <1>3. v = x => k = i
    BY <1>1
  <1>4. u # x => j # i /\ j \in {mountHalf[u], autoHalf[u]} \cap Ids
    OBVIOUS
  <1>5. v # x => k # i /\ k \in {mountHalf[v], autoHalf[v]} \cap Ids
    OBVIOUS
  <1>6. CASE u = x \/ v = x
    BY <1>2, <1>3, <1>4, <1>5, <1>6
  <1>7. CASE u # x /\ v # x
    BY <1>4, <1>5, <1>7 DEF NeverSelfTampered
  <1> QED
    BY <1>6, <1>7

\* A half that is unlinked takes nothing's definition away from others.
LEMMA FewerHalves ==
    ASSUME NeverSelfTampered,
           \A v \in Units : /\ mountHalf'[v] \in {mountHalf[v], NoFile}
                            /\ autoHalf'[v] \in {autoHalf[v], NoFile}
    PROVE  NeverSelfTampered'
  <1> SUFFICES ASSUME NEW u \in Units, NEW v \in Units,
                      NEW j \in {mountHalf'[u], autoHalf'[u]} \cap Ids,
                      NEW k \in {mountHalf'[v], autoHalf'[v]} \cap Ids
               PROVE  (u = v) <=> (j = k)
    BY DEF NeverSelfTampered
  <1>1. NoFile \notin Ids
    BY ContentAssumption
  <1>2. j \in {mountHalf[u], autoHalf[u]} \cap Ids
    BY <1>1
  <1>3. k \in {mountHalf[v], autoHalf[v]} \cap Ids
    BY <1>1
  <1> QED
    BY <1>2, <1>3 DEF NeverSelfTampered

\* Unlinking the call's halves, or replacing them by its id, leaves every
\* other share's credential indexed.
LEMMA OthersIndexed ==
    ASSUME TypeOK, CredentialIndexed, NEW x \in Units, NEW i \in Ids,
           {mountHalf[x], autoHalf[x]} \subseteq {NoFile, i},
           \A v \in Units \ {x} : mountHalf'[v] = mountHalf[v] /\ autoHalf'[v] = autoHalf[v],
           \A c \in creds' : c \in creds \/ c = i,
           i \in creds' => i \in {mountHalf'[x], autoHalf'[x]}
    PROVE  CredentialIndexed'
  <1> SUFFICES ASSUME NEW c \in creds', c # i
               PROVE  \E u \in Units : c \in {mountHalf'[u], autoHalf'[u]}
    BY DEF CredentialIndexed
  <1>1. c \in creds /\ c \in Ids /\ NoFile \notin Ids
    BY ContentAssumption DEF TypeOK, HostTypeOK
  <1>2. PICK u \in Units : c \in {mountHalf[u], autoHalf[u]}
    BY <1>1 DEF CredentialIndexed
  <1>3. u # x
    BY <1>1, <1>2
  <1> QED
    BY <1>2, <1>3

-------------------------------------------------------------------------------
(* Each kind of step.                                                      *)

\* While a subroutine runs, the files and the call they belong to stand still.
LEMMA SubroutineFiles ==
    ASSUME FilesConsistent, InspectRuntime \/ SafeStop \/ ArmShare
    PROVE  FilesOK'
  <1>1. UNCHANGED <<mountHalf, autoHalf, creds>> /\ pc' \in SubroutinePcs
        /\ call'.op = call.op /\ call'.u = call.u /\ call'.id = call.id
        /\ call'.credMayExist = call.credMayExist
    BY SubroutineStep DEF FilesConsistent
  <1>2. NeverSelfTampered'
    BY <1>1, SameFiles DEF FilesConsistent
  <1>3. HalvesAreTheCalls' /\ NewIdIsFresh'
    BY <1>1 DEF FilesConsistent, HalvesAreTheCalls, NewIdIsFresh
  <1>4. SecretWithinUnits'
    BY <1>1 DEF FilesConsistent, SecretWithinUnits, SubroutinePcs, InspectPcs, StopPcs, ArmPcs
  <1> QED
    BY <1>2, <1>3, <1>4 DEF FilesOK

\* A write or an unlink of one half by define: only the call's id and
\* nothing else ever appears there.
LEMMA DefineHalves ==
    ASSUME FilesConsistent, WriteMount \/ WriteAutomount \/ CleanAutomount \/ CleanMount
    PROVE  FilesOK'
  <1> DEFINE x == call.u
             i == call.id
  <1>1. /\ call.op = "define" /\ call'.op = "define" /\ call'.u = x /\ call'.id = i
        /\ call'.credMayExist = call.credMayExist
    <2>1. call.op = "define" /\ call'.op = "define" /\ call'.u = x /\ call'.id = i
      BY DefineStep DEF FilesConsistent, Define
    <2>2. call'.credMayExist = call.credMayExist
      BY DEF WriteMount, WriteAutomount, CleanAutomount, CleanMount, Proceed, FailTo, FilesConsistent, TypeOK, Call
    <2> QED
      BY <2>1, <2>2
  <1>2. /\ x \in Units /\ i \in Ids /\ i # NoFile
        /\ mountHalf[x] \in {NoFile, i} /\ autoHalf[x] \in {NoFile, i}
    BY <1>1, OwnHalves DEF FilesConsistent
  <1>3. mountHalf \in [Units -> FileContent] /\ autoHalf \in [Units -> FileContent]
    BY DEF FilesConsistent, TypeOK, HostTypeOK
  <1>4. /\ creds' = creds
        /\ \A v \in Units \ {x} : mountHalf'[v] = mountHalf[v] /\ autoHalf'[v] = autoHalf[v]
        /\ mountHalf'[x] \in {NoFile, i} /\ autoHalf'[x] \in {NoFile, i}
    BY <1>2, <1>3 DEF WriteMount, WriteAutomount, CleanAutomount, CleanMount, Replace
  <1>5. HalvesAreTheCalls' /\ NewIdIsFresh'
    BY <1>1, <1>4 DEF FilesConsistent, HalvesAreTheCalls, NewIdIsFresh
  <1>6. NeverSelfTampered'
    BY <1>1, <1>2, <1>4, OneMountPoint DEF FilesConsistent, NewIdIsFresh
  <1>9. SecretWithinUnits'
    <2>1. pc' = "writeCredential" => autoHalf'[x] = i
      BY <1>2, <1>3 DEF WriteMount, WriteAutomount, CleanAutomount, CleanMount, Replace, Proceed, FailTo
    <2>2. pc' \in {"cleanAutomount", "cleanMount", "removeMount", "removeAutomount"} => i \notin creds
      BY DEF WriteMount, WriteAutomount, CleanAutomount, CleanMount, Proceed, FailTo, FilesConsistent, SecretWithinUnits
    <2> QED
      BY <1>1, <1>4, <2>1, <2>2 DEF FilesConsistent, SecretWithinUnits
  <1> QED
    BY <1>5, <1>6, <1>9 DEF FilesOK

\* The credential is written when both halves name it, and its removal is
\* certain before a half goes.
LEMMA DefineSecret ==
    ASSUME FilesConsistent, WriteCredential \/ CleanCredential
    PROVE  FilesOK'
  <1> DEFINE x == call.u
             i == call.id
  <1>1. call.op = "define" /\ call'.op = "define" /\ call'.u = x /\ call'.id = i
    BY DefineStep DEF FilesConsistent, Define
  <1>2. /\ x \in Units /\ i \in Ids
        /\ mountHalf[x] \in {NoFile, i} /\ autoHalf[x] \in {NoFile, i}
    BY <1>1, OwnHalves DEF FilesConsistent
  <1>3. UNCHANGED <<mountHalf, autoHalf>>
    BY DEF WriteCredential, CleanCredential
  <1>4. HalvesAreTheCalls' /\ NewIdIsFresh' /\ NeverSelfTampered'
    BY <1>1, <1>3 DEF FilesConsistent, HalvesAreTheCalls, NewIdIsFresh, NeverSelfTampered
  <1>5. CASE WriteCredential
    <2>1. autoHalf[x] = i /\ creds' \in {creds, creds \cup {i}}
      BY <1>5 DEF WriteCredential, FilesConsistent, SecretWithinUnits
    <2>3. call'.credMayExist /\ pc' \in {"reload", "cleanCredential"}
      BY <1>5 DEF WriteCredential, FilesConsistent, TypeOK, Call
    <2> QED
      BY <1>4, <2>3 DEF FilesOK, SecretWithinUnits
  <1>6. CASE CleanCredential
    <2>1. creds' \in {creds, creds \ {i}} /\ call'.credMayExist = call.credMayExist
      BY <1>6 DEF CleanCredential, Proceed, FilesConsistent, TypeOK, Call
    <2>3. \/ pc' = "cleanId"
          \/ pc' = "cleanAutomount" /\ creds' = IF call.credMayExist THEN creds \ {i} ELSE creds
      BY <1>6 DEF CleanCredential, Proceed
    <2>4. SecretWithinUnits'
      BY <1>1, <2>1, <2>3 DEF FilesConsistent, SecretWithinUnits
    <2> QED
      BY <1>4, <2>4 DEF FilesOK
  <1> QED
    BY <1>5, <1>6

\* Define's other steps change no file.
LEMMA DefineOther ==
    ASSUME FilesConsistent, AssertNoCredential \/ Reload \/ DefineArmed \/ DefineNotArmed \/ CleanId \/ CleanReload
    PROVE  FilesOK'
  <1>1. call.op = "define" /\ call'.op = "define" /\ call'.u = call.u /\ call'.id = call.id
    BY DefineStep DEF FilesConsistent, Define
  <1>2. UNCHANGED <<mountHalf, autoHalf, creds>>
    BY DEF AssertNoCredential, Reload, DefineArmed, DefineNotArmed, CleanId, CleanReload, hostVars, durableVars
  <1>3. call'.credMayExist = call.credMayExist
        /\ pc' \notin {"writeCredential", "cleanAutomount", "cleanMount", "removeMount", "removeAutomount"}
    BY DEF AssertNoCredential, Reload, DefineArmed, DefineNotArmed, CleanId, CleanReload, Proceed, FailTo,
           EnterArmShare, FilesConsistent, TypeOK, Call
  <1>4. NeverSelfTampered'
    BY <1>2, SameFiles DEF FilesConsistent
  <1>5. HalvesAreTheCalls' /\ NewIdIsFresh' /\ SecretWithinUnits'
    BY <1>1, <1>2, <1>3 DEF FilesConsistent, HalvesAreTheCalls, NewIdIsFresh, SecretWithinUnits
  <1> QED
    BY <1>4, <1>5 DEF FilesOK

\* A removal takes the credential first, then the halves.
LEMMA RemoveFiles ==
    ASSUME FilesConsistent, Remove
    PROVE  FilesOK'
  <1> DEFINE x == call.u
             i == call.id
  <1>1. call.op = "remove" /\ call'.op = "remove" /\ call'.u = x /\ call'.id = i
    BY RemoveStep DEF FilesConsistent
  <1>2. /\ x \in Units /\ i \in Ids /\ {mountHalf[x], autoHalf[x]} \subseteq {NoFile, i}
    BY <1>1, OwnHalves DEF FilesConsistent
  <1>3. mountHalf \in [Units -> FileContent] /\ autoHalf \in [Units -> FileContent]
    BY DEF FilesConsistent, TypeOK, HostTypeOK
  <1>4. /\ creds' \in {creds, creds \ {i}}
        /\ \A v \in Units \ {x} : mountHalf'[v] = mountHalf[v] /\ autoHalf'[v] = autoHalf[v]
        /\ mountHalf'[x] \in {mountHalf[x], NoFile} /\ autoHalf'[x] \in {autoHalf[x], NoFile}
    BY <1>2, <1>3 DEF Remove, RemoveRefused, RemoveStopped, RemoveCredential, RemoveMount, RemoveAutomount,
                      RemoveId, RemoveReload, Replace, hostVars, durableVars
  <1>5. HalvesAreTheCalls' /\ NewIdIsFresh'
    BY <1>1, <1>2, <1>4 DEF HalvesAreTheCalls, NewIdIsFresh
  <1>6. NeverSelfTampered'
    BY <1>4, FewerHalves DEF FilesConsistent
  <1>8. SecretWithinUnits'
    <2>1. pc' \in {"cleanAutomount", "cleanMount", "removeMount", "removeAutomount"} => i \notin creds'
      BY DEF Remove, RemoveRefused, RemoveStopped, RemoveCredential, RemoveMount, RemoveAutomount, RemoveId,
             RemoveReload, Proceed, FailTo, FilesConsistent, SecretWithinUnits
    <2>2. pc' # "writeCredential"
      BY RemoveStep DEF FilesConsistent, RemovePcs
    <2> QED
      BY <1>1, <2>1, <2>2 DEF SecretWithinUnits
  <1> QED
    BY <1>5, <1>6, <1>8 DEF FilesOK

\* The boot pass and the end of a call leave the files as they are.
LEMMA BootFiles ==
    ASSUME FilesConsistent, Boot \/ Reply \/ Crash \/ Reboot
    PROVE  FilesOK'
  <1>1. /\ UNCHANGED <<mountHalf, autoHalf, creds>>
        /\ call'.op \in {"none", "boot"} /\ pc' \in {"idle", "bootNext", "showAutomount"}
    BY BootStep DEF FilesConsistent
  <1>2. NeverSelfTampered'
    BY <1>1, SameFiles DEF FilesConsistent
  <1> QED
    BY <1>1, <1>2 DEF FilesOK, HalvesAreTheCalls, NewIdIsFresh, SecretWithinUnits

\* A call begins over nothing with an id nobody has, or over a definition
\* that is all its own.
LEMMA BeginFiles ==
    ASSUME FilesConsistent, Begin
    PROVE  FilesOK'
  <1>1. UNCHANGED <<mountHalf, autoHalf, creds>>
    BY DEF Begin, DefineBegin, DefineRefused, RemoveBegin, BootBegin, hostVars, durableVars
  <1>2. NeverSelfTampered'
    BY <1>1, SameFiles DEF FilesConsistent
  <1>3. ASSUME NEW u \in Units, NEW i \in Ids, DefineBegin(u, i),
               pc' = "writeMount", call'.op = "define", call'.u = u, call'.id = i
        PROVE  HalvesAreTheCalls' /\ NewIdIsFresh' /\ SecretWithinUnits'
    <2>1. mountHalf[u] = NoFile /\ autoHalf[u] = NoFile
      BY <1>3, InspectVerdicts DEF DefineBegin, Definition
    <2>2. i \notin creds /\ \A v \in Units : i \notin {mountHalf[v], autoHalf[v]}
      BY <1>3 DEF DefineBegin, ShareIdInUse
    <2> QED
      BY <1>1, <1>3, <2>1, <2>2 DEF HalvesAreTheCalls, NewIdIsFresh, SecretWithinUnits
  <1>4. ASSUME NEW u \in Units, RemoveBegin(u), pc' = "showAutomount", call'.op = "remove", call'.u = u,
               call'.id = MarkerId(mountHalf[u], autoHalf[u])
        PROVE  HalvesAreTheCalls' /\ NewIdIsFresh' /\ SecretWithinUnits'
    <2>1. {mountHalf[u], autoHalf[u]} \subseteq {NoFile, call'.id}
      BY <1>4, MarkerIdType DEF RemoveBegin, FilesConsistent, TypeOK
    <2> QED
      BY <1>1, <1>4, <2>1 DEF HalvesAreTheCalls, NewIdIsFresh, SecretWithinUnits
  <1>5. ASSUME pc' = "bootNext", call'.op = "boot"
        PROVE  HalvesAreTheCalls' /\ NewIdIsFresh' /\ SecretWithinUnits'
    BY <1>5 DEF HalvesAreTheCalls, NewIdIsFresh, SecretWithinUnits
  <1>6. ASSUME UNCHANGED <<pc, call>>
        PROVE  HalvesAreTheCalls' /\ NewIdIsFresh' /\ SecretWithinUnits'
    BY <1>1, <1>6 DEF FilesConsistent, HalvesAreTheCalls, NewIdIsFresh, SecretWithinUnits
  <1>7. HalvesAreTheCalls' /\ NewIdIsFresh' /\ SecretWithinUnits'
    BY <1>3, <1>4, <1>5, <1>6, BeginStep DEF FilesConsistent
  <1> QED
    BY <1>2, <1>7 DEF FilesOK

\* PID 1, the kernel, users and the administrator change no file, and no
\* variable of the call; nor does a stuttering step.
LEMMA EnvironmentFiles ==
    ASSUME FilesConsistent, Environment \/ UNCHANGED vars
    PROVE  FilesOK'
  <1>1. UNCHANGED <<mountHalf, autoHalf, creds, pc, call>>
    BY EnvironmentType DEF FilesConsistent, TypeOK, vars, hostVars, durableVars, armVars
  <1> QED
    BY <1>1 DEF FilesConsistent, FilesOK, HalvesAreTheCalls, NewIdIsFresh, SecretWithinUnits, NeverSelfTampered

-------------------------------------------------------------------------------
(* The theorems.                                                           *)

\* Every step keeps the unit files consistent.
LEMMA ConsistentStep == ASSUME FilesConsistent, [Next]_vars PROVE FilesConsistent'
  <1>1. TypeOK' /\ StepsMatchCall'
    BY TypeStep, StepsMatchStep, StutterType DEF FilesConsistent
  <1>2. FilesOK'
    BY SubroutineFiles, DefineHalves, DefineSecret, DefineOther, RemoveFiles, BootFiles, BeginFiles,
       EnvironmentFiles
    DEF Next, Step, Define
  <1> QED
    BY <1>1, <1>2 DEF FilesConsistent, FilesOK

\* And every secret named: a half goes, or is written, only where the secret
\* is not, and a secret comes only where both halves are.
LEMMA IndexedStep == ASSUME FilesInv, [Next]_vars PROVE CredentialIndexed'
  <1> USE DEF FilesInv, FilesConsistent
  <1> DEFINE x == call.u
             i == call.id
  <1>1. CASE \/ WriteMount \/ WriteAutomount \/ CleanAutomount \/ CleanMount
             \/ RemoveMount \/ RemoveAutomount
    <2>1. call.op \in {"define", "remove"} /\ call.u \in Units
      BY <1>1, DefineStep, RemoveStep, OwnHalves DEF Define, Remove
    <2>2. /\ i \in Ids /\ i # NoFile
          /\ mountHalf[x] \in {NoFile, i} /\ autoHalf[x] \in {NoFile, i}
      BY <2>1, OwnHalves
    <2>3. mountHalf \in [Units -> FileContent] /\ autoHalf \in [Units -> FileContent]
      BY DEF TypeOK, HostTypeOK
    <2>4. /\ creds' = creds
          /\ \A v \in Units \ {x} : mountHalf'[v] = mountHalf[v] /\ autoHalf'[v] = autoHalf[v]
          /\ mountHalf'[x] \in {NoFile, i} /\ autoHalf'[x] \in {NoFile, i}
      BY <1>1, <2>1, <2>2, <2>3 DEF WriteMount, WriteAutomount, CleanAutomount, CleanMount, RemoveMount,
                                    RemoveAutomount, Replace
    <2>5. i \in creds => i \in {mountHalf'[x], autoHalf'[x]}
      <3>1. CASE CleanAutomount \/ CleanMount \/ RemoveMount \/ RemoveAutomount
        BY <3>1 DEF CleanAutomount, CleanMount, RemoveMount, RemoveAutomount, SecretWithinUnits
      <3>2. CASE WriteMount \/ WriteAutomount
        <4>1. i \in creds => i \in {mountHalf[x], autoHalf[x]}
          BY <2>1, <3>2, DefineStep DEF Define, CredentialIndexed, NewIdIsFresh
        <4>2. mountHalf'[x] \in {mountHalf[x], i} /\ autoHalf'[x] \in {autoHalf[x], i}
          BY <2>1, <2>3, <3>2 DEF WriteMount, WriteAutomount, Replace
        <4> QED
          BY <4>1, <4>2
      <3> QED
        BY <1>1, <3>1, <3>2
    <2> QED
      BY <2>1, <2>2, <2>4, <2>5, OthersIndexed
  <1>2. CASE WriteCredential
    <2>1. autoHalf[x] = i /\ creds' \in {creds, creds \cup {i}} /\ UNCHANGED <<mountHalf, autoHalf>>
      BY <1>2 DEF WriteCredential, SecretWithinUnits
    <2>2. x \in Units
      BY DEF TypeOK, Call
    <2> QED
      BY <2>1, <2>2 DEF CredentialIndexed
  <1>3. CASE UNCHANGED <<mountHalf, autoHalf>> /\ creds' \subseteq creds
    BY <1>3 DEF CredentialIndexed
  <1>4. CASE InspectRuntime \/ SafeStop \/ ArmShare
    BY <1>3, <1>4, SubroutineStep
  <1>5. CASE AssertNoCredential \/ Reload \/ DefineArmed \/ DefineNotArmed \/ CleanCredential \/ CleanId \/ CleanReload
    BY <1>3, <1>5 DEF AssertNoCredential, Reload, DefineArmed, DefineNotArmed, CleanCredential, CleanId, CleanReload,
                      hostVars, durableVars
  <1>6. CASE RemoveRefused \/ RemoveStopped \/ RemoveCredential \/ RemoveId \/ RemoveReload
    BY <1>3, <1>6 DEF RemoveRefused, RemoveStopped, RemoveCredential, RemoveId, RemoveReload, hostVars, durableVars
  <1>7. CASE Boot \/ Reply \/ Crash \/ Reboot
    BY <1>3, <1>7, BootStep
  <1>8. CASE Begin
    BY <1>3, <1>8 DEF Begin, DefineBegin, DefineRefused, RemoveBegin, BootBegin, hostVars, durableVars
  <1>9. CASE Environment \/ UNCHANGED vars
    BY <1>3, <1>9, EnvironmentType DEF TypeOK, vars, hostVars, durableVars
  <1> QED
    BY <1>1, <1>2, <1>4, <1>5, <1>6, <1>7, <1>8, <1>9 DEF Next, Step, Define, Remove

\* Every step keeps the inductive invariant.
LEMMA FilesStep == ASSUME FilesInv, [Next]_vars PROVE FilesInv'
  BY ConsistentStep, IndexedStep DEF FilesInv

\* It holds before nasmount first runs: there is no credential and no id.
LEMMA FilesInit == Init => FilesInv
  <1> SUFFICES ASSUME Init PROVE FilesInv
    OBVIOUS
  <1>1. \A u \in Units : mountHalf[u] \notin Ids /\ autoHalf[u] \notin Ids
    BY HostAssumption, ContentAssumption DEF Init, HostInit
  <1>2. call.op = "none" /\ pc = "idle" /\ creds = {}
    BY DEF Init, HostInit, NoCall
  <1> QED
    BY <1>1, <1>2, InitType
    DEF FilesInv, FilesConsistent, HalvesAreTheCalls, NewIdIsFresh, SecretWithinUnits, CredentialIndexed,
        NeverSelfTampered

\* The inductive invariant: through every failure, kill and reboot the files
\* and the call under way fit together.
THEOREM FilesInvariant == Spec => []FilesInv
  BY FilesInit, FilesStep, PTL DEF Spec

\* No secret is ever left on disk without a unit that names it, whatever
\* fails and wherever a define or a removal is cut off.
THEOREM SecretsIndexed == Spec => []CredentialIndexed
  <1>1. FilesInv => CredentialIndexed
    BY DEF FilesInv
  <1> QED
    BY <1>1, FilesInvariant, PTL

\* Nothing nasmount wrote ever becomes Tampered, which no operation of the
\* tool could remove: half-written definitions stay Partial, ids unique.
THEOREM DefinitionsConsistent == Spec => []NeverSelfTampered
  <1>1. FilesInv => NeverSelfTampered
    BY DEF FilesInv, FilesConsistent
  <1> QED
    BY <1>1, FilesInvariant, PTL

\* One mount point's files, before and after a step.
HalvesUntouched(u) ==
    /\ mountHalf[u] \in {Alien, Broken} => mountHalf'[u] = mountHalf[u]
    /\ autoHalf[u] \in {Alien, Broken} => autoHalf'[u] = autoHalf[u]

\* No step replaces or unlinks a half nasmount did not write.
LEMMA ForeignStep == ASSUME FilesConsistent, [Next]_vars PROVE \A u \in Units : HalvesUntouched(u)
  <1> SUFFICES ASSUME NEW u \in Units PROVE HalvesUntouched(u)
    OBVIOUS
  <1>1. CASE WriteMount \/ WriteAutomount \/ CleanAutomount \/ CleanMount \/ RemoveMount \/ RemoveAutomount
    <2>1. call.op \in {"define", "remove"}
      BY <1>1, DefineStep, RemoveStep DEF FilesConsistent, Define, Remove
    <2>2. call.u \in Units /\ {mountHalf[call.u], autoHalf[call.u]} \cap {Alien, Broken} = {}
      BY <2>1, OwnHalves, ContentAssumption DEF FilesConsistent
    <2>3. u # call.u => mountHalf'[u] = mountHalf[u] /\ autoHalf'[u] = autoHalf[u]
      BY <1>1, <2>2 DEF WriteMount, WriteAutomount, CleanAutomount, CleanMount, RemoveMount, RemoveAutomount,
                        Replace, FilesConsistent, TypeOK, HostTypeOK
    <2> QED
      BY <2>2, <2>3 DEF HalvesUntouched
  <1>2. CASE ~(WriteMount \/ WriteAutomount \/ CleanAutomount \/ CleanMount \/ RemoveMount \/ RemoveAutomount)
    <2>1. UNCHANGED <<mountHalf, autoHalf>>
      <3>1. CASE InspectRuntime \/ SafeStop \/ ArmShare
        BY <3>1, SubroutineStep DEF FilesConsistent
      <3>2. CASE Define \/ Remove
        BY <1>2, <3>2 DEF Define, Remove, WriteCredential, AssertNoCredential, Reload, DefineArmed,
             DefineNotArmed, CleanCredential, CleanId, CleanReload, RemoveRefused, RemoveStopped,
             RemoveCredential, RemoveId, RemoveReload, hostVars, durableVars
      <3>3. CASE Boot \/ Reply \/ Crash \/ Reboot
        BY <3>3, BootStep DEF FilesConsistent
      <3>4. CASE Begin
        BY <3>4 DEF Begin, DefineBegin, DefineRefused, RemoveBegin, BootBegin, hostVars, durableVars
      <3>5. CASE Environment \/ UNCHANGED vars
        BY <3>5, EnvironmentType DEF FilesConsistent, TypeOK, vars, hostVars, durableVars
      <3> QED
        BY <3>1, <3>2, <3>3, <3>4, <3>5 DEF Next, Step
    <2> QED
      BY <2>1 DEF HalvesUntouched
  <1> QED
    BY <1>1, <1>2

\* No step of any program replaces or unlinks a unit file that nasmount did
\* not write.
THEOREM StrangersUntouched == Spec => ForeignUntouched
  <1>1. FilesInv /\ [Next]_vars =>
          [\A u \in Units : /\ mountHalf[u] \in {Alien, Broken} => mountHalf'[u] = mountHalf[u]
                            /\ autoHalf[u] \in {Alien, Broken} => autoHalf'[u] = autoHalf[u]]_vars
    BY ForeignStep DEF HalvesUntouched, FilesInv
  <1> QED
    BY <1>1, FilesInvariant, PTL DEF Spec, ForeignUntouched

-------------------------------------------------------------------------------
(* Operations implements HelperPromise, for every set of mount points and  *)
(* ids: what module Client is built on is what the helper does.            *)

\* A define starts over nothing; a removal that has unlinked nothing yet is
\* about a definition.
HalvesLeft ==
    /\ pc = "writeMount" => mountHalf[call.u] = NoFile /\ autoHalf[call.u] = NoFile
    /\ call.op = "remove" /\ pc \in SubroutinePcs \cup {"removeCredential", "removeMount"} =>
           call.id \in {mountHalf[call.u], autoHalf[call.u]}

\* A call that will be reported successful has nothing left to do.
DoneIsLast == call.ok => pc = "reply"

\* Between calls there is none.
IdleIsNone == pc = "idle" => call.op = "none"

PromiseInv == FilesConsistent /\ HalvesLeft /\ DoneIsLast /\ IdleIsNone

-------------------------------------------------------------------------------
(* The strengthened invariant.                                             *)

\* It holds at the start.
LEMMA HalvesLeftInit == Init => HalvesLeft /\ DoneIsLast /\ IdleIsNone
  BY DEF Init, NoCall, HalvesLeft, DoneIsLast, IdleIsNone

\* While define is not about to begin, nor a removal before its first
\* unlink, there is nothing to show.
LEMMA HalvesLeftElsewhere ==
    ASSUME pc' # "writeMount",
           call'.op # "remove" \/ pc' \notin SubroutinePcs \cup {"removeCredential", "removeMount"}
    PROVE  HalvesLeft'
  BY DEF HalvesLeft

\* Every step keeps it.
LEMMA HalvesLeftStep == ASSUME PromiseInv, [Next]_vars PROVE HalvesLeft'
  <1> USE DEF PromiseInv
  <1>1. CASE InspectRuntime \/ SafeStop \/ ArmShare
    <2>1. /\ UNCHANGED <<mountHalf, autoHalf>> /\ pc' \in SubroutinePcs
          /\ call'.op = call.op /\ call'.u = call.u /\ call'.id = call.id
      BY <1>1, SubroutineStep DEF FilesConsistent
    <2>2. pc \in SubroutinePcs
      BY <1>1 DEF InspectRuntime, SafeStop, ArmShare, ShowAutomount, ReadMountinfo, ShowMount, ReadIds,
                  DecideStop, StopMount, StopAutomount, DecideArm, CheckCredential, WalkCreating, WalkExisting,
                  Start, StatStarted, RecordId, DecideRecheck, StatAppeared, Compensate, StopStarted, ForgetId,
                  SubroutinePcs, InspectPcs, StopPcs, ArmPcs
    <2>3. pc' # "writeMount"
      BY <2>1 DEF SubroutinePcs, InspectPcs, StopPcs, ArmPcs
    <2> QED
      BY <2>1, <2>2, <2>3 DEF HalvesLeft
  <1>2. CASE Define
    <2>1. call'.op = "define" /\ pc' # "writeMount"
      <3>1. call'.op = "define"
        BY <1>2, DefineStep DEF FilesConsistent
      <3>2. pc' # "writeMount"
        BY <1>2 DEF Define, WriteMount, WriteAutomount, WriteCredential, AssertNoCredential, Reload, DefineArmed,
                    DefineNotArmed, CleanCredential, CleanAutomount, CleanMount, CleanId, CleanReload, Proceed, FailTo
      <3> QED
        BY <3>1, <3>2
    <2> QED
      BY <2>1, HalvesLeftElsewhere
  <1>3. CASE Remove
    <2>1. /\ call.op = "remove" /\ call'.u = call.u /\ call'.id = call.id /\ pc' \in RemovePcs \cup {"reply"}
      BY <1>3, RemoveStep DEF FilesConsistent
    <2>2. \/ pc \in {"stopped", "removeCredential"} /\ UNCHANGED <<mountHalf, autoHalf>>
          \/ pc' \notin {"removeCredential", "removeMount"}
      BY <1>3 DEF Remove, RemoveRefused, RemoveStopped, RemoveCredential, RemoveMount, RemoveAutomount, RemoveId,
                  RemoveReload, Proceed, FailTo, hostVars, durableVars
    <2>3. pc' # "writeMount" /\ pc' \notin SubroutinePcs
      BY <2>1 DEF RemovePcs, SubroutinePcs, InspectPcs, StopPcs, ArmPcs
    <2>4. "stopped" \in SubroutinePcs
      BY DEF SubroutinePcs, StopPcs
    <2> QED
      BY <2>1, <2>2, <2>3, <2>4 DEF HalvesLeft
  <1>4. CASE Boot \/ Reply \/ Crash \/ Reboot
    <2>1. call'.op \in {"none", "boot"} /\ pc' \in {"idle", "bootNext", "showAutomount"}
      BY <1>4, BootStep DEF FilesConsistent
    <2> QED
      BY <2>1, HalvesLeftElsewhere
  <1>5. CASE Begin
    <2>1. ASSUME NEW u \in Units, NEW i \in Ids, DefineBegin(u, i), call'.op = "define", call'.u = u
          PROVE  HalvesLeft'
      BY <2>1, InspectVerdicts DEF DefineBegin, Definition, HalvesLeft
    <2>2. ASSUME NEW u \in Units, RemoveBegin(u), pc' = "showAutomount", call'.op = "remove", call'.u = u,
                 call'.id = MarkerId(mountHalf[u], autoHalf[u])
          PROVE  HalvesLeft'
      <3>1. UNCHANGED <<mountHalf, autoHalf>>
        BY <2>2 DEF RemoveBegin, hostVars, durableVars
      <3>2. mountHalf[u] = call'.id \/ autoHalf[u] = call'.id
        BY <2>2, MarkerIdType, InspectVerdicts, ContentAssumption
        DEF RemoveBegin, Managed, Definition, FilesConsistent, TypeOK, MarkerId
      <3> QED
        BY <2>2, <3>1, <3>2 DEF HalvesLeft
    <2>3. ASSUME pc' = "bootNext", call'.op = "boot" PROVE HalvesLeft'
      BY <2>3, HalvesLeftElsewhere
    <2>4. ASSUME UNCHANGED <<pc, call>> PROVE HalvesLeft'
      <3>1. UNCHANGED <<mountHalf, autoHalf>>
        BY <1>5 DEF Begin, DefineBegin, DefineRefused, RemoveBegin, BootBegin, hostVars, durableVars
      <3> QED
        BY <2>4, <3>1 DEF HalvesLeft
    <2> QED
      BY <1>5, <2>1, <2>2, <2>3, <2>4, BeginStep DEF FilesConsistent
  <1>6. CASE Environment \/ UNCHANGED vars
    <2>1. UNCHANGED <<mountHalf, autoHalf, pc, call>>
      BY <1>6, EnvironmentType DEF FilesConsistent, TypeOK, vars, hostVars, durableVars, armVars
    <2> QED
      BY <2>1 DEF HalvesLeft
  <1> QED
    BY <1>1, <1>2, <1>3, <1>4, <1>5, <1>6 DEF Next, Step

\* No routine is ever entered with a success, and none reports one.
LEMMA DoneIsLastStep == ASSUME PromiseInv, [Next]_vars PROVE DoneIsLast'
  <1> USE DEF PromiseInv, DoneIsLast, FilesConsistent, TypeOK, Call
  <1>1. CASE InspectRuntime
    BY <1>1 DEF InspectRuntime, ShowAutomount, ReadMountinfo, ShowMount, ReadIds
  <1>2. CASE SafeStop
    BY <1>2 DEF SafeStop, DecideStop, StopMount, StopAutomount
  <1>3. CASE ArmShare
    BY <1>3 DEF ArmShare, DecideArm, CheckCredential, WalkCreating, WalkExisting, Start, StatStarted, RecordId,
                DecideRecheck, StatAppeared, Compensate, StopStarted, ForgetId
  <1>4. CASE Define
    BY <1>4 DEF Define, WriteMount, WriteAutomount, WriteCredential, AssertNoCredential, Reload, DefineArmed,
                DefineNotArmed, CleanCredential, CleanAutomount, CleanMount, CleanId, CleanReload, Proceed, FailTo,
                EnterArmShare
  <1>5. CASE Remove
    BY <1>5 DEF Remove, RemoveRefused, RemoveStopped, RemoveCredential, RemoveMount, RemoveAutomount, RemoveId,
                RemoveReload, Proceed, FailTo
  <1>6. CASE Boot \/ Reply \/ Crash \/ Reboot
    <2>1. ASSUME NEW u \in Units, BootArm(u) PROVE ~call'.ok
      BY <2>1 DEF BootArm, EnterArmShare
    <2>2. CASE BootArmed \/ BootEnd \/ Reply \/ Crash \/ Reboot
      BY <2>2 DEF BootArmed, BootEnd, Reply, Crash, Reboot, NoCall
    <2> QED
      BY <1>6, <2>1, <2>2 DEF Boot
  <1>7. CASE Begin
    BY <1>7 DEF Begin, DefineBegin, DefineRefused, RemoveBegin, BootBegin, NoCall, EnterSafeStop, armVars
  <1>8. CASE Environment \/ UNCHANGED vars
    BY <1>8 DEF Environment, vars, armVars
  <1> QED
    BY <1>1, <1>2, <1>3, <1>4, <1>5, <1>6, <1>7, <1>8 DEF Next, Step

\* A call leaves nothing behind it.
LEMMA IdleIsNoneStep == ASSUME PromiseInv, [Next]_vars PROVE IdleIsNone'
  <1> USE DEF PromiseInv, FilesConsistent, IdleIsNone
  <1>1. CASE InspectRuntime \/ SafeStop \/ ArmShare
    BY <1>1, SubroutineStep DEF SubroutinePcs, InspectPcs, StopPcs, ArmPcs
  <1>2. CASE Define \/ Remove
    BY <1>2, DefineStep, RemoveStep DEF DefinePcs, RemovePcs
  <1>3. CASE Boot \/ Reply \/ Crash \/ Reboot
    <2>1. ASSUME NEW u \in Units, BootArm(u) PROVE pc' # "idle"
      BY <2>1 DEF BootArm
    <2>2. CASE BootArmed \/ BootEnd \/ Reply \/ Crash \/ Reboot
      BY <2>2 DEF BootArmed, BootEnd, Reply, Crash, Reboot, NoCall
    <2> QED
      BY <1>3, <2>1, <2>2 DEF Boot
  <1>4. CASE Begin
    BY <1>4, BeginStep
  <1>5. CASE Environment \/ UNCHANGED vars
    BY <1>5 DEF Environment, vars, armVars
  <1> QED
    BY <1>1, <1>2, <1>3, <1>4, <1>5 DEF Next, Step

\* The strengthened invariant is one.
LEMMA PromiseInvariant == Spec => []PromiseInv
  <1>1. Init => PromiseInv
    BY FilesInit, HalvesLeftInit DEF PromiseInv, FilesInv
  <1>2. PromiseInv /\ [Next]_vars => PromiseInv'
    BY ConsistentStep, HalvesLeftStep, DoneIsLastStep, IdleIsNoneStep DEF PromiseInv
  <1> QED
    BY <1>1, <1>2, PTL DEF Spec

-------------------------------------------------------------------------------
(* What the caller of each kind of call sees.                              *)

\* Only a define that is under way has an id.
IdAt(stage, i) == IF stage \in {"automount", "finish"} THEN i ELSE NoFile

\* The two modules describe a call in the same way.
LEMMA SameJob ==
    ASSUME NEW op, NEW stage, NEW u, NEW i
    PROVE  /\ HP!Job(op, stage, u, i) = Job(op, stage, u, i) /\ HP!NoJob = NoJob
           /\ Job(op, stage, u, i).op = op /\ Job(op, stage, u, i).pc = stage
           /\ Job(op, stage, u, i).u = u /\ Job(op, stage, u, i).id = i
  BY DEF HP!Job, HP!NoJob, HP!NoUnit, Job, NoJob

\* The verdict the promise goes by is the one the helper goes by.
LEMMA SameVerdict ==
    ASSUME NEW u
    PROVE  HP!Definition(u) = Definition(u) /\ (HP!Managed(u) <=> Managed(u))
  <1>1. HP!Definition(u) = Definition(u)
    BY DEF HP!Definition, HP!InspectDefinition, Definition, InspectDefinition
  <1> QED
    BY <1>1 DEF HP!Managed, Managed

\* The view of this state.
LEMMA Views ==
    /\ call.op = "define" /\ (pc # "reply" \/ call.ok) =>
         HelperView = Job("define", DefineStage, call.u, IdAt(DefineStage, call.id))
    /\ call.op = "remove" /\ (pc # "reply" \/ call.ok) =>
         HelperView = Job("undefine", RemoveStage, call.u, NoFile)
    /\ call.op \notin {"define", "remove"} \/ (pc = "reply" /\ ~call.ok) => HelperView = NoJob
  BY DEF HelperView, IdAt

\* The view of the next.
LEMMA NextViews ==
    /\ call'.op = "define" /\ (pc' # "reply" \/ call'.ok) =>
         HelperView' = Job("define", DefineStage', call'.u, IdAt(DefineStage', call'.id))
    /\ call'.op = "remove" /\ (pc' # "reply" \/ call'.ok) =>
         HelperView' = Job("undefine", RemoveStage', call'.u, NoFile)
    /\ call'.op \notin {"define", "remove"} \/ (pc' = "reply" /\ ~call'.ok) => HelperView' = NoJob
  BY DEF HelperView, IdAt, NoJob, Job

\* A step of the promise, or none.
PromiseStep == HP!PromiseNext \/ UNCHANGED HP!promiseVars

\* A routine that inspects, stops or arms is not seen.
LEMMA SubroutinePromise ==
    ASSUME PromiseInv, InspectRuntime \/ SafeStop \/ ArmShare
    PROVE  PromiseStep
  <1>1. /\ UNCHANGED <<mountHalf, autoHalf>> /\ pc' \in SubroutinePcs
        /\ call'.op = call.op /\ call'.u = call.u /\ call'.id = call.id
    BY SubroutineStep DEF PromiseInv, FilesConsistent
  <1>2. pc \in SubroutinePcs
    BY DEF InspectRuntime, SafeStop, ArmShare, ShowAutomount, ReadMountinfo, ShowMount, ReadIds,
           DecideStop, StopMount, StopAutomount, DecideArm, CheckCredential, WalkCreating, WalkExisting,
           Start, StatStarted, RecordId, DecideRecheck, StatAppeared, Compensate, StopStarted, ForgetId,
           SubroutinePcs, InspectPcs, StopPcs, ArmPcs
  <1>3. /\ pc # "reply" /\ pc' # "reply"
        /\ DefineStage = "finish" /\ DefineStage' = "finish"
        /\ RemoveStage = "sent" /\ RemoveStage' = "sent"
    BY <1>1, <1>2 DEF SubroutinePcs, InspectPcs, StopPcs, ArmPcs, DefineStage, RemoveStage
  <1>4. HelperView' = HelperView
    BY <1>1, <1>3, Views, NextViews
  <1> QED
    BY <1>1, <1>4 DEF PromiseStep, HP!promiseVars

\* What a step of define starts from and ends in.
LEMMA DefineContext ==
    ASSUME PromiseInv, Define
    PROVE  /\ call.op = "define" /\ call.u \in Units /\ call.id \in Ids
           /\ HelperView = Job("define", DefineStage, call.u, IdAt(DefineStage, call.id))
           /\ pc' # "reply" \/ call'.ok =>
                HelperView' = Job("define", DefineStage', call.u, IdAt(DefineStage', call.id))
           /\ pc' = "reply" /\ ~call'.ok => HelperView' = NoJob
           /\ ~call.ok
  <1>1. call.op = "define" /\ call'.op = "define" /\ call'.u = call.u /\ call'.id = call.id
    BY DefineStep DEF PromiseInv, FilesConsistent
  <1>2. call.u \in Units /\ call.id \in Ids
    BY <1>1, OwnHalves DEF PromiseInv, FilesConsistent
  <1>3. pc # "reply" /\ ~call.ok
    BY DEF PromiseInv, DoneIsLast, Define, WriteMount, WriteAutomount, WriteCredential, AssertNoCredential, Reload,
           DefineArmed, DefineNotArmed, CleanCredential, CleanAutomount, CleanMount, CleanId, CleanReload
  <1> QED
    BY <1>1, <1>2, <1>3, Views, NextViews

\* A define that fails while it is not yet taking back.
LEMMA DefineFails ==
    ASSUME PromiseInv, Define, DefineStage \in {"sent", "automount", "finish"}, pc' = "cleanCredential"
    PROVE  /\ HelperView' = HP!Failed
           /\ UNCHANGED <<mountHalf, autoHalf>> => PromiseStep
  <1>1. HelperView' = Job("define", "failed", call.u, NoFile)
    <2>1. DefineStage' = "failed"
      BY DEF DefineStage
    <2> QED
      BY <2>1, DefineContext DEF IdAt
  <1>2. HelperView = Job("define", DefineStage, call.u, IdAt(DefineStage, call.id))
    BY DefineContext
  <1>3. HelperView.op = "define" /\ HelperView.pc = DefineStage /\ HelperView.u = call.u
    BY <1>2, SameJob
  <1>5. HelperView' = HP!Failed
    BY <1>1, <1>3, SameJob DEF HP!Failed
  <1> QED
    BY <1>3, <1>5 DEF HP!Fail, HP!PromiseNext, PromiseStep

\* The mount half is written over nothing, with an id no unit claims.
LEMMA WriteMountPromise == ASSUME PromiseInv, WriteMount PROVE PromiseStep
  <1> DEFINE x == call.u
             i == call.id
  <1>1. Define /\ DefineStage = "sent"
    BY DEF Define, WriteMount, DefineStage
  <1>2. HelperView = Job("define", "sent", x, NoFile) /\ x \in Units /\ i \in Ids
    BY <1>1, DefineContext DEF IdAt
  <1>3. HelperView.op = "define" /\ HelperView.pc = "sent" /\ HelperView.u = x
    BY <1>2, SameJob
  <1>4. HP!Definition(x) = "None" /\ \A u \in Units : i \notin {mountHalf[u], autoHalf[u]}
    <2>1. mountHalf[x] = NoFile /\ autoHalf[x] = NoFile
      BY DEF PromiseInv, HalvesLeft, WriteMount
    <2>2. i \notin {mountHalf[x], autoHalf[x]}
      BY <1>2, <2>1, ContentAssumption
    <2>3. \A u \in Units \ {x} : i \notin {mountHalf[u], autoHalf[u]}
      BY <1>1, DefineContext DEF PromiseInv, FilesConsistent, NewIdIsFresh
    <2>4. Definition(x) = "None"
      BY <2>1, InspectVerdicts DEF Definition
    <2> QED
      BY <2>2, <2>3, <2>4, SameVerdict
  <1>5. CASE mountHalf' = [mountHalf EXCEPT ![x] = i]
    <2>1. HelperView' = HP!Job("define", "automount", x, i) \/ HelperView' = HP!Failed
      <3>1. pc' = "cleanCredential" \/ pc' = "writeAutomount"
        BY DEF WriteMount, Proceed, FailTo
      <3>2. CASE pc' = "writeAutomount"
        <4>1. DefineStage' = "automount"
          BY <3>2 DEF DefineStage
        <4>2. HelperView' = Job("define", "automount", x, i)
          BY <1>1, <3>2, <4>1, DefineContext DEF IdAt
        <4> QED
          BY <1>2, <4>2, SameJob
      <3> QED
        BY <1>1, <3>1, <3>2, DefineFails
    <2>2. HP!DefineMount(i)
      BY <1>2, <1>3, <1>4, <1>5, <2>1 DEF HP!DefineMount, HP!Onward, WriteMount
    <2> QED
      BY <1>2, <2>2 DEF PromiseStep, HP!PromiseNext
  <1>6. CASE UNCHANGED mountHalf /\ pc' = "cleanCredential"
    BY <1>1, <1>6, DefineFails DEF WriteMount
  <1> QED
    BY <1>5, <1>6 DEF WriteMount, Replace, FailTo

\* Then the automount half.
LEMMA WriteAutomountPromise == ASSUME PromiseInv, WriteAutomount PROVE PromiseStep
  <1> DEFINE x == call.u
             i == call.id
  <1>1. Define /\ DefineStage = "automount"
    BY DEF Define, WriteAutomount, DefineStage
  <1>2. HelperView = Job("define", "automount", x, i) /\ x \in Units /\ i \in Ids
    BY <1>1, DefineContext DEF IdAt
  <1>3. HelperView.op = "define" /\ HelperView.pc = "automount" /\ HelperView.u = x /\ HelperView.id = i
    BY <1>2, SameJob
  <1>4. CASE autoHalf' = [autoHalf EXCEPT ![x] = i]
    <2>1. HelperView' = HP!Job("define", "finish", x, i) \/ HelperView' = HP!Failed
      <3>1. pc' = "cleanCredential" \/ pc' = "writeCredential"
        BY DEF WriteAutomount, Proceed, FailTo
      <3>2. CASE pc' = "writeCredential"
        <4>1. DefineStage' = "finish"
          BY <3>2 DEF DefineStage
        <4>2. HelperView' = Job("define", "finish", x, i)
          BY <1>1, <3>2, <4>1, DefineContext DEF IdAt
        <4> QED
          BY <4>2, SameJob
      <3> QED
        BY <1>1, <3>1, <3>2, DefineFails
    <2>2. HP!DefineAutomount
      BY <1>3, <1>4, <2>1 DEF HP!DefineAutomount, HP!Onward, WriteAutomount
    <2> QED
      BY <2>2 DEF PromiseStep, HP!PromiseNext
  <1>5. CASE UNCHANGED autoHalf /\ pc' = "cleanCredential"
    BY <1>1, <1>5, DefineFails DEF WriteAutomount
  <1> QED
    BY <1>4, <1>5 DEF WriteAutomount, Replace, FailTo

\* A call is over for its caller.
LEMMA Ends ==
    ASSUME NEW op, NEW stage, NEW u, NEW i, HelperView = Job(op, stage, u, i), stage # "idle",
           HelperView' = NoJob, UNCHANGED <<mountHalf, autoHalf>>
    PROVE  PromiseStep
  <1>1. HelperView.pc # "idle"
    BY SameJob
  <1>2. HP!End
    BY <1>1, SameJob DEF HP!End
  <1> QED
    BY <1>2 DEF PromiseStep, HP!PromiseNext

\* Define's steps between the units and its report.
LEMMA DefineGoesOn ==
    ASSUME PromiseInv, WriteCredential \/ AssertNoCredential \/ Reload \/ DefineArmed \/ DefineNotArmed
    PROVE  PromiseStep
  <1>1. Define /\ DefineStage = "finish" /\ UNCHANGED <<mountHalf, autoHalf>>
    BY DEF Define, WriteCredential, AssertNoCredential, Reload, DefineArmed, DefineNotArmed, DefineStage,
           hostVars, durableVars
  <1>2. HelperView = Job("define", "finish", call.u, call.id)
    BY <1>1, DefineContext DEF IdAt
  <1>3. \/ pc' \in {"reload", "showAutomount"}
        \/ pc' = "reply" /\ call'.ok
        \/ pc' = "cleanCredential"
        \/ pc' = "reply" /\ call' = call
    BY DEF WriteCredential, AssertNoCredential, Reload, DefineArmed, DefineNotArmed, Proceed, FailTo,
           PromiseInv, FilesConsistent, TypeOK, Call
  <1>4. CASE pc' \in {"reload", "showAutomount"} \/ (pc' = "reply" /\ call'.ok)
    <2>1. DefineStage' = "finish"
      BY <1>4 DEF DefineStage
    <2>2. HelperView' = HelperView
      BY <1>1, <1>2, <1>4, <2>1, DefineContext DEF IdAt
    <2> QED
      BY <1>1, <2>2 DEF PromiseStep, HP!promiseVars
  <1>5. CASE pc' = "cleanCredential"
    BY <1>1, <1>5, DefineFails
  <1>6. CASE pc' = "reply" /\ call' = call
    <2>1. HelperView' = NoJob
      BY <1>1, <1>6, DefineContext
    <2> QED
      BY <1>1, <1>2, <2>1, Ends
  <1> QED
    BY <1>3, <1>4, <1>5, <1>6

\* Cleanup takes back a half at a time, or nothing, and then it is over.
LEMMA CleanPromise ==
    ASSUME PromiseInv, CleanCredential \/ CleanAutomount \/ CleanMount \/ CleanId \/ CleanReload
    PROVE  PromiseStep
  <1> DEFINE x == call.u
  <1>1. Define /\ DefineStage = "failed"
    BY DEF Define, CleanCredential, CleanAutomount, CleanMount, CleanId, CleanReload, DefineStage
  <1>2. HelperView = Job("define", "failed", x, NoFile)
    BY <1>1, DefineContext DEF IdAt
  <1>3. HelperView.op = "define" /\ HelperView.pc = "failed" /\ HelperView.u = x
    BY <1>2, SameJob
  <1>4. \/ UNCHANGED <<mountHalf, autoHalf>>
        \/ pc' # "reply" /\ UNCHANGED mountHalf /\ autoHalf' = [autoHalf EXCEPT ![x] = NoFile]
        \/ pc' # "reply" /\ UNCHANGED autoHalf /\ mountHalf' = [mountHalf EXCEPT ![x] = NoFile]
    BY DEF CleanCredential, CleanAutomount, CleanMount, CleanId, CleanReload, Replace, Proceed, FailTo, durableVars
  <1>5. CASE pc' # "reply"
    <2>1. DefineStage' = "failed"
      <3>1. pc' \in {"cleanAutomount", "cleanMount", "cleanId", "cleanReload"}
        BY <1>5 DEF CleanCredential, CleanAutomount, CleanMount, CleanId, CleanReload, Proceed, FailTo
      <3> QED
        BY <3>1 DEF DefineStage
    <2>2. HelperView' = HelperView
      BY <1>1, <1>2, <1>5, <2>1, DefineContext DEF IdAt
    <2>3. HP!TakeBack \/ UNCHANGED <<mountHalf, autoHalf>>
      BY <1>3, <1>4, <2>2 DEF HP!TakeBack
    <2> QED
      BY <2>2, <2>3 DEF PromiseStep, HP!PromiseNext, HP!promiseVars
  <1>6. CASE pc' = "reply"
    <2>1. ~call'.ok
      BY <1>1, <1>6, DefineContext DEF CleanCredential, CleanAutomount, CleanMount, CleanId, CleanReload, Proceed,
             FailTo, PromiseInv, FilesConsistent, TypeOK, Call
    <2>2. HelperView' = NoJob
      BY <1>1, <1>6, <2>1, DefineContext
    <2> QED
      BY <1>2, <1>4, <1>6, <2>2, Ends
  <1> QED
    BY <1>5, <1>6

\* A removal unlinks the halves of an owned definition, the mount half first.
LEMMA RemovePromise == ASSUME PromiseInv, Remove PROVE PromiseStep
  <1> DEFINE x == call.u
  <1>1. /\ call.op = "remove" /\ call'.op = "remove" /\ call'.u = x /\ x \in Units
        /\ call.id \in Ids /\ mountHalf[x] \in {NoFile, call.id} /\ autoHalf[x] \in {NoFile, call.id}
    <2>1. call.op = "remove" /\ call'.op = "remove" /\ call'.u = x
      BY RemoveStep DEF PromiseInv, FilesConsistent
    <2> QED
      BY <2>1, OwnHalves DEF PromiseInv, FilesConsistent
  <1>2. pc # "reply" /\ ~call.ok
    BY DEF PromiseInv, DoneIsLast, Remove, RemoveRefused, RemoveStopped, RemoveCredential, RemoveMount,
           RemoveAutomount, RemoveId, RemoveReload
  <1>3. HelperView = Job("undefine", RemoveStage, x, NoFile)
    BY <1>1, <1>2, Views
  <1>4. HelperView.op = "undefine" /\ HelperView.pc = RemoveStage /\ HelperView.u = x
    BY <1>3, SameJob
  <1>5. pc' = "reply" /\ ~call'.ok => HelperView' = NoJob /\ HelperView' = HP!Failed
    BY <1>1, <1>4, NextViews, SameJob DEF HP!Failed
  <1>6. pc' # "reply" \/ call'.ok => HelperView' = Job("undefine", RemoveStage', x, NoFile)
    BY <1>1, NextViews
  <1>7. RemoveStage # "idle"
    BY DEF RemoveStage
  <1>8. CASE RemoveRefused \/ RemoveStopped \/ RemoveCredential \/ RemoveId \/ RemoveReload
    <2>1. UNCHANGED <<mountHalf, autoHalf>>
      BY <1>8 DEF RemoveRefused, RemoveStopped, RemoveCredential, RemoveId, RemoveReload, hostVars, durableVars
    <2>2. \/ pc' = "reply" /\ ~call'.ok
          \/ /\ pc' # "reply" \/ call'.ok
             /\ RemoveStage' = RemoveStage
      BY <1>2, <1>8 DEF RemoveRefused, RemoveStopped, RemoveCredential, RemoveId, RemoveReload, Proceed, FailTo,
             RemoveStage, PromiseInv, FilesConsistent, TypeOK, Call
    <2>3. CASE pc' = "reply" /\ ~call'.ok
      BY <1>3, <1>5, <1>7, <2>1, <2>3, Ends
    <2>4. CASE (pc' # "reply" \/ call'.ok) /\ RemoveStage' = RemoveStage
      <3>1. HelperView' = HelperView
        BY <1>3, <1>6, <2>4
      <3> QED
        BY <2>1, <3>1 DEF PromiseStep, HP!promiseVars
    <2> QED
      BY <2>2, <2>3, <2>4
  <1>9. CASE RemoveMount
    <2>1. HelperView.pc = "sent"
      BY <1>4, <1>9 DEF RemoveMount, RemoveStage
    <2>2. HP!Managed(x)
      <3>1. call.id \in {mountHalf[x], autoHalf[x]}
        BY <1>1, <1>9 DEF PromiseInv, HalvesLeft, RemoveMount
      <3>2. InspectDefinition(mountHalf[x], autoHalf[x]) \in {"Pair", "Partial"}
        BY <1>1, <3>1, ContentAssumption DEF InspectDefinition
      <3> QED
        BY <3>2, SameVerdict DEF Managed, Definition
    <2>3. \/ pc' = "removeAutomount"
          \/ pc' = "reply" /\ ~call'.ok
      BY <1>2, <1>9 DEF RemoveMount, Proceed, FailTo, PromiseInv, FilesConsistent, TypeOK, Call
    <2>4. HelperView' = HP!Job("undefine", "automount", x, NoFile) \/ HelperView' = HP!Failed
      <3>1. CASE pc' = "removeAutomount"
        <4>1. RemoveStage' = "automount"
          BY <3>1 DEF RemoveStage
        <4> QED
          BY <1>6, <3>1, <4>1, SameJob
      <3> QED
        BY <1>5, <2>3, <3>1
    <2>5. CASE mountHalf' = [mountHalf EXCEPT ![x] = NoFile]
      <3>1. HP!UndefineMount
        BY <1>1, <1>4, <1>9, <2>1, <2>2, <2>4, <2>5 DEF HP!UndefineMount, HP!Onward, RemoveMount
      <3> QED
        BY <3>1 DEF PromiseStep, HP!PromiseNext
    <2>6. CASE UNCHANGED mountHalf /\ pc' = "reply"
      <3>1. ~call'.ok /\ UNCHANGED <<mountHalf, autoHalf>>
        BY <1>9, <2>3, <2>6 DEF RemoveMount
      <3> QED
        BY <1>3, <1>5, <1>7, <2>6, <3>1, Ends
    <2> QED
      BY <1>9, <2>5, <2>6 DEF RemoveMount, Replace, FailTo
  <1>10. CASE RemoveAutomount
    <2>1. HelperView.pc = "automount"
      BY <1>4, <1>10 DEF RemoveAutomount, RemoveStage
    <2>2. \/ pc' = "removeId"
          \/ pc' = "reply" /\ ~call'.ok
      BY <1>2, <1>10 DEF RemoveAutomount, Proceed, FailTo, PromiseInv, FilesConsistent, TypeOK, Call
    <2>3. HelperView' = HP!Job("undefine", "finish", x, HelperView.id) \/ HelperView' = HP!Failed
      <3>1. CASE pc' = "removeId"
        <4>1. RemoveStage' = "finish"
          BY <3>1 DEF RemoveStage
        <4>2. HelperView.id = NoFile
          BY <1>3, SameJob
        <4> QED
          BY <1>6, <3>1, <4>1, <4>2, SameJob
      <3> QED
        BY <1>5, <2>2, <3>1
    <2>4. CASE autoHalf' = [autoHalf EXCEPT ![x] = NoFile]
      <3>1. HP!UndefineAutomount
        BY <1>4, <1>10, <2>1, <2>3, <2>4 DEF HP!UndefineAutomount, HP!Onward, RemoveAutomount
      <3> QED
        BY <3>1 DEF PromiseStep, HP!PromiseNext
    <2>5. CASE UNCHANGED autoHalf /\ pc' = "reply"
      <3>1. ~call'.ok /\ UNCHANGED <<mountHalf, autoHalf>>
        BY <1>10, <2>2, <2>5 DEF RemoveAutomount
      <3> QED
        BY <1>3, <1>5, <1>7, <2>5, <3>1, Ends
    <2> QED
      BY <1>10, <2>4, <2>5 DEF RemoveAutomount, Replace, FailTo
  <1> QED
    BY <1>8, <1>9, <1>10 DEF Remove

\* The reply, a kill and a reboot end a call; the boot pass is none.
LEMMA BootPromise == ASSUME PromiseInv, Boot \/ Reply \/ Crash \/ Reboot PROVE PromiseStep
  <1>1. UNCHANGED <<mountHalf, autoHalf>> /\ HelperView' = NoJob
    BY BootStep, NextViews DEF PromiseInv, FilesConsistent
  <1>2. CASE HelperView = NoJob
    BY <1>1, <1>2 DEF PromiseStep, HP!promiseVars
  <1>3. CASE HelperView # NoJob
    <2>1. \/ HelperView = Job("define", DefineStage, call.u, IdAt(DefineStage, call.id))
          \/ HelperView = Job("undefine", RemoveStage, call.u, NoFile)
      BY <1>3, Views
    <2>2. DefineStage # "idle" /\ RemoveStage # "idle"
      BY DEF DefineStage, RemoveStage
    <2> QED
      BY <1>1, <2>1, <2>2, Ends
  <1> QED
    BY <1>2, <1>3

\* A call begins when none is under way.
LEMMA BeginPromise == ASSUME PromiseInv, Begin PROVE PromiseStep
  <1>1. UNCHANGED <<mountHalf, autoHalf>>
    BY DEF Begin, DefineBegin, DefineRefused, RemoveBegin, BootBegin, hostVars, durableVars
  <1>2. ASSUME NEW op \in {"define", "undefine"}, NEW u \in Units,
               HelperView = NoJob, HelperView' = Job(op, "sent", u, NoFile)
        PROVE  PromiseStep
    <2>1. HelperView.pc = "idle"
      <3>1. HelperView = Job("none", "idle", "no unit", NoFile)
        BY <1>2 DEF NoJob
      <3> QED
        BY <3>1 DEF Job
    <2>2. HP!Accept(op, u)
      BY <1>1, <1>2, <2>1, SameJob DEF HP!Accept
    <2> QED
      BY <2>2 DEF PromiseStep, HP!PromiseNext
  <1>3. pc = "idle" /\ call.op \notin {"define", "remove"} => HelperView = NoJob
    BY Views
  <1>4. pc = "idle" => call.op \notin {"define", "remove"}
    BY DEF PromiseInv, IdleIsNone
  <1>5. ASSUME NEW u \in Units, NEW i \in Ids, DefineBegin(u, i), pc' = "writeMount", call'.op = "define", call'.u = u
        PROVE  PromiseStep
    <2>1. DefineStage' = "sent"
      BY <1>5 DEF DefineStage
    <2>2. HelperView' = Job("define", "sent", u, NoFile)
      BY <1>5, <2>1, NextViews DEF IdAt
    <2>3. pc = "idle"
      BY <1>5 DEF DefineBegin
    <2> QED
      BY <1>2, <1>3, <1>4, <2>2, <2>3
  <1>6. ASSUME NEW u \in Units, RemoveBegin(u), pc' = "showAutomount", call'.op = "remove", call'.u = u
        PROVE  PromiseStep
    <2>1. RemoveStage' = "sent"
      BY <1>6 DEF RemoveStage
    <2>2. HelperView' = Job("undefine", "sent", u, NoFile)
      BY <1>6, <2>1, NextViews
    <2>3. pc = "idle"
      BY <1>6 DEF RemoveBegin
    <2> QED
      BY <1>2, <1>3, <1>4, <2>2, <2>3
  <1>7. ASSUME BootBegin, call'.op = "boot" PROVE PromiseStep
    <2>1. pc = "idle"
      BY <1>7 DEF BootBegin
    <2> QED
      BY <1>1, <1>3, <1>4, <1>7, <2>1, NextViews DEF PromiseStep, HP!promiseVars
  <1>8. ASSUME UNCHANGED <<pc, call>> PROVE PromiseStep
    BY <1>1, <1>8 DEF PromiseStep, HP!promiseVars, HelperView, DefineStage, RemoveStage
  <1> QED
    BY <1>5, <1>6, <1>7, <1>8, BeginStep DEF PromiseInv, FilesConsistent

\* The world around the programs is nothing a caller sees.
LEMMA EnvironmentPromise == ASSUME PromiseInv, Environment \/ UNCHANGED vars PROVE PromiseStep
  <1>1. UNCHANGED <<mountHalf, autoHalf, pc, call>>
    BY EnvironmentType DEF PromiseInv, FilesConsistent, TypeOK, vars, hostVars, durableVars, armVars
  <1> QED
    BY <1>1 DEF PromiseStep, HP!promiseVars, HelperView, DefineStage, RemoveStage

\* Every step is one of the promise, or none.
LEMMA StepsArePromised == ASSUME PromiseInv, [Next]_vars PROVE PromiseStep
  BY SubroutinePromise, WriteMountPromise, WriteAutomountPromise, DefineGoesOn, CleanPromise, RemovePromise,
     BootPromise, BeginPromise, EnvironmentPromise
  DEF Next, Step, Define

-------------------------------------------------------------------------------
(* The theorem.                                                            *)

\* Every define and every removal, whatever fails, is killed or boots in
\* between, does to the unit files what HelperPromise says, and no more.
THEOREM OperationsKeepPromise == Spec => KeepsPromise
  <1>1. Init => HP!PromiseInit
    <2> SUFFICES ASSUME Init PROVE HP!PromiseInit
      OBVIOUS
    <2>1. HelperView = NoJob
      BY Views DEF Init, NoCall
    <2> QED
      BY <2>1, SameJob, HostAssumption DEF HP!PromiseInit, Init, HostInit
  <1>2. PromiseInv /\ [Next]_vars => [HP!PromiseNext]_(HP!promiseVars)
    BY StepsArePromised DEF PromiseStep
  <1> QED
    BY <1>1, <1>2, PromiseInvariant, PTL DEF Spec, KeepsPromise, HP!Promise

===============================================================================
