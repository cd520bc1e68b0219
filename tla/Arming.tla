-------------------------------- MODULE Arming --------------------------------
(***************************************************************************)
(* safeStop() and armShare() of src/src/root/arming.cpp, with              *)
(* Verify::inspectRuntime() as the subroutine both call, one action per    *)
(* read or command so that PID 1, the kernel and users act in between.     *)
(* The caller sets call and jumps to EnterSafeStop / EnterArmShare; the    *)
(* routines come back at pc "stopped"/"refused" or "armed"/                *)
(* "needsAttention".                                                       *)
(***************************************************************************)
EXTENDS Host

CONSTANTS MaxHits,   \* bound on the failing steps of one call
          LateJobs   \* whether a start job may outlive its killed systemctl

ASSUME ArmingAssumption == MaxHits \in Nat /\ LateJobs \in BOOLEAN

VARIABLES pc,     \* where the root program that holds the root lock is
          call    \* its arguments and local variables; call.missing is auxiliary:
                  \* boot's walk, or PID 1 at the start, found no directory

armVars == <<pc, call>>

InspectPcs == {"showAutomount", "readMountinfo", "showMount", "readIds"}
StopPcs    == {"decideStop", "stopMount", "stopAutomount", "stopped", "refused"}
ArmPcs     == {"decideArm", "checkCredential", "walk", "start", "statStarted", "recordId",
               "decideRecheck", "statAppeared", "compensate", "stopStarted", "forgetId",
               "armed", "needsAttention"}

\* From start's return until the id is on record, and until compensation
\* has compared it.
ArmWindow == {"statStarted", "recordId", "statAppeared", "compensate", "stopStarted"}

SubroutinePcs == InspectPcs \cup StopPcs \cup ArmPcs

\* One step of the current call fails: it counts against the bound.
CanFail == call.hits < MaxHits

\* Entry points: what the routine's own locals start as.
EnterSafeStop(c) == [c EXCEPT !.site = "decideStop", !.snap = NoSnapshot, !.mountStopped = FALSE]
EnterArmShare(c) == [c EXCEPT !.site = "decideArm", !.snap = NoSnapshot,
                              !.started = 0, !.safe = TRUE, !.missing = FALSE]

-------------------------------------------------------------------------------
(* Verify::inspectRuntime: four reads, none atomic with another.           *)

ShowAutomount ==
    /\ pc = "showAutomount"
    /\ pc' = "readMountinfo"
    /\ \/ call' = [call EXCEPT !.snap.automount = AutomountAxis(AutomountActiveState(call.u))]
       \/ CanFail /\ call' = [call EXCEPT !.snap.automount = "Indeterminate", !.hits = @ + 1]
    /\ UNCHANGED hostVars

ReadMountinfo ==
    /\ pc = "readMountinfo"
    /\ \/ /\ LET c == ClassifyMountEntries(MountinfoEntries(call.u), call.what)
             IN  call' = [call EXCEPT !.snap.mount = c.mount, !.snap.verification = c.verification]
          /\ pc' = "showMount"
       \/ /\ CanFail
          /\ call' = [call EXCEPT !.snap.mount = "Indeterminate",
                                  !.snap.verification = "Indeterminate", !.hits = @ + 1]
          /\ pc' = "readIds"
    /\ UNCHANGED hostVars

ShowMount ==
    /\ pc = "showMount"
    /\ pc' = "readIds"
    /\ \/ LET c == MountAxis([mount |-> call.snap.mount, verification |-> call.snap.verification],
                             MountActiveState(call.u))
          IN  call' = [call EXCEPT !.snap.mount = c.mount, !.snap.verification = c.verification]
       \/ /\ CanFail
          /\ call' = [call EXCEPT !.snap.mount = "Indeterminate",
                                  !.snap.verification = "Indeterminate", !.hits = @ + 1]
    /\ UNCHANGED hostVars

ReadIds ==
    /\ pc = "readIds"
    /\ pc' = call.site
    /\ \/ call' = [call EXCEPT !.snap.trust =
                     ActivationTrust(call.snap.automount, idRec[call.u], UniqueMountId(call.u))]
       \/ /\ CanFail
          /\ call' = [call EXCEPT !.snap.trust = ActivationTrust(call.snap.automount, idRec[call.u], 0),
                                  !.hits = @ + 1]
    /\ UNCHANGED hostVars

-------------------------------------------------------------------------------
(* safeStop                                                                *)

\* Mutant: an undecided runtime is inspected again until it is decided.
DecideStopRetrying ==
    /\ pc = "decideStop"
    /\ LET verdict == EvaluateStopPrecheck(call.snap)
       IN  pc' = CASE verdict = "ShouldStop"      -> "stopMount"
                   [] verdict = "AlreadyInactive" -> "stopped"
                   [] verdict = "Indeterminate"   -> "showAutomount"
                   [] OTHER                       -> "refused"
    /\ UNCHANGED <<call, hostVars>>

DecideStop ==
    /\ pc = "decideStop"
    /\ LET verdict == EvaluateStopPrecheck(call.snap)
       IN  pc' = CASE verdict = "ShouldStop"      -> "stopMount"
                   [] verdict = "AlreadyInactive" -> "stopped"
                   [] OTHER                       -> "refused"
    /\ UNCHANGED <<call, hostVars>>

\* systemctl stop <base>.mount; the automount is stopped whatever it says.
StopMount ==
    /\ pc = "stopMount"
    /\ pc' = "stopAutomount"
    /\ \/ StopMountEffect(call.u) /\ call' = [call EXCEPT !.mountStopped = TRUE]
       \/ CanFail /\ UNCHANGED systemdVars /\ call' = [call EXCEPT !.hits = @ + 1]
    /\ UNCHANGED <<durableVars, idRec>>

\* Mutant: only the .mount stop is checked.
StopAutomountUnchecked ==
    /\ pc = "stopAutomount"
    /\ pc' = IF call.mountStopped THEN "stopped" ELSE "refused"
    /\ \/ StopAutomountEffect(call.u) /\ UNCHANGED call
       \/ CanFail /\ UNCHANGED systemdVars /\ call' = [call EXCEPT !.hits = @ + 1]
    /\ UNCHANGED <<durableVars, idRec>>

StopAutomount ==
    /\ pc = "stopAutomount"
    /\ \/ /\ StopAutomountEffect(call.u)
          /\ pc' = IF call.mountStopped THEN "stopped" ELSE "refused"
          /\ UNCHANGED call
       \/ /\ CanFail
          /\ StopAutomountEffect(call.u) \/ UNCHANGED systemdVars
          /\ pc' = "refused"
          /\ call' = [call EXCEPT !.hits = @ + 1]
    /\ UNCHANGED <<durableVars, idRec>>

-------------------------------------------------------------------------------
(* armShare                                                                *)

DecideArm ==
    /\ pc = "decideArm"
    /\ LET verdict == EvaluateArmPrecheck(call.snap)
       IN  pc' = CASE verdict = "AlreadyArmed" -> "armed"
                   [] verdict = "ReadyToArm"   -> "checkCredential"
                   [] OTHER                    -> "needsAttention"
    /\ UNCHANGED <<call, hostVars>>

\* Healthy for an authenticated share, absent for a guest one; never written.
CheckCredential ==
    /\ pc = "checkCredential"
    /\ \/ /\ pc' = IF (call.id \in creds) <=> (call.id \notin Guests) THEN "walk" ELSE "needsAttention"
          /\ UNCHANGED call
       \/ CanFail /\ pc' = "needsAttention" /\ call' = [call EXCEPT !.hits = @ + 1]
    /\ UNCHANGED hostVars

\* openMountpointNoFollow: creates what is missing, refuses a mount that is
\* at the path already.
WalkCreating ==
    /\ pc = "walk" /\ call.op = "define"
    /\ \/ /\ ~Armed(call.u) /\ ~Occupied(call.u)
          /\ dir' = [dir EXCEPT ![call.u] = TRUE]
          /\ pc' = "start" /\ UNCHANGED call
       \/ /\ Armed(call.u) \/ Occupied(call.u)
          /\ pc' = "needsAttention" /\ UNCHANGED <<call, dir>>
       \/ /\ CanFail /\ dir' \in {dir, [dir EXCEPT ![call.u] = TRUE]}
          /\ pc' = "needsAttention" /\ call' = [call EXCEPT !.hits = @ + 1]
    /\ UNCHANGED <<mountHalf, autoHalf, creds, idRec, systemdVars>>

\* openMountpointNoCreate (boot): refuses a missing directory as well.
WalkExisting ==
    /\ pc = "walk" /\ call.op # "define"
    /\ \/ /\ dir[call.u] /\ ~Armed(call.u) /\ ~Occupied(call.u)
          /\ pc' = "start" /\ UNCHANGED call
       \/ /\ ~dir[call.u] \/ Armed(call.u) \/ Occupied(call.u)
          /\ pc' = "needsAttention" /\ call' = [call EXCEPT !.missing = ~dir[call.u]]
       \/ CanFail /\ pc' = "needsAttention" /\ call' = [call EXCEPT !.hits = @ + 1]
    /\ UNCHANGED hostVars

\* systemctl start <base>.automount.  A failed command proves nothing about
\* PID 1: the trigger may be up, or, with LateJobs, come up later.  One
\* that succeeded proves no more: the condition on the directory was false.
Start ==
    /\ pc = "start"
    /\ \/ /\ StartSucceeds(call.u) /\ StartEffect(call.u, "tool") /\ UNCHANGED job
          /\ pc' = "statStarted"
          /\ call' = [call EXCEPT !.missing = ~Armed(call.u) /\ ~dir[call.u]]
       \/ /\ ~StartSucceeds(call.u) \/ CanFail
          /\ \/ UNCHANGED systemdVars
             \/ StartSucceeds(call.u) /\ StartEffect(call.u, "tool") /\ UNCHANGED job
             \/ /\ LateJobs /\ StartSucceeds(call.u) /\ ~Armed(call.u)
                /\ job' = [job EXCEPT ![call.u] = TRUE]
                /\ UNCHANGED <<loaded, trig, over, nextInst>>
          /\ pc' = "showAutomount"
          /\ call' = [call EXCEPT !.site = "decideRecheck", !.snap = NoSnapshot,
                                  !.hits = @ + 1]
    /\ UNCHANGED <<durableVars, idRec>>

\* Verify::uniqueMountId right after start returned: of whatever is at the
\* path, the trigger or the file system of a directory made meanwhile.
StatStarted ==
    /\ pc = "statStarted"
    /\ \/ /\ call' = [call EXCEPT !.started = UniqueMountId(call.u)]
          /\ pc' = IF UniqueMountId(call.u) = 0 THEN "compensate" ELSE "recordId"
       \/ CanFail /\ call' = [call EXCEPT !.hits = @ + 1] /\ pc' = "compensate"
    /\ UNCHANGED hostVars

\* Mutant: the id record is best effort.
RecordIdUnchecked ==
    /\ pc = "recordId" /\ pc' = "armed"
    /\ \/ idRec' = [idRec EXCEPT ![call.u] = call.started] /\ UNCHANGED call
       \/ CanFail /\ UNCHANGED idRec /\ call' = [call EXCEPT !.hits = @ + 1]
    /\ UNCHANGED <<durableVars, systemdVars>>

\* durableReplace can fail before or after its rename.
RecordId ==
    /\ pc = "recordId"
    /\ \/ /\ idRec' = [idRec EXCEPT ![call.u] = call.started]
          /\ pc' = "armed" /\ UNCHANGED call
       \/ /\ CanFail
          /\ idRec' \in {idRec, [idRec EXCEPT ![call.u] = call.started]}
          /\ pc' = "compensate" /\ call' = [call EXCEPT !.hits = @ + 1]
    /\ UNCHANGED <<durableVars, systemdVars>>

\* The snapshot taken after a failed start.
DecideRecheck ==
    /\ pc = "decideRecheck"
    /\ LET appeared == call.snap.automount = "Active" /\ call.snap.mount = "Absent"
           inactive == call.snap.automount = "Inactive" /\ call.snap.mount = "Absent"
       IN  /\ pc' = IF appeared THEN "statAppeared" ELSE "needsAttention"
           /\ call' = [call EXCEPT !.safe = appeared \/ inactive]
    /\ UNCHANGED hostVars

StatAppeared ==
    /\ pc = "statAppeared"
    /\ pc' = "compensate"
    /\ \/ call' = [call EXCEPT !.started = UniqueMountId(call.u)]
       \/ CanFail /\ call' = [call EXCEPT !.hits = @ + 1]
    /\ UNCHANGED hostVars

\* stopStartedAutomount: only the instance this call saw may be stopped.
Compensate ==
    /\ pc = "compensate"
    /\ LET same == call.started # 0 /\ UniqueMountId(call.u) = call.started
       IN  \/ /\ pc' = IF same THEN "stopStarted" ELSE "needsAttention"
              /\ call' = [call EXCEPT !.safe = same]
           \/ /\ CanFail
              /\ pc' = "needsAttention"
              /\ call' = [call EXCEPT !.safe = FALSE, !.hits = @ + 1]
    /\ UNCHANGED hostVars

StopStarted ==
    /\ pc = "stopStarted"
    /\ \/ StopAutomountEffect(call.u) /\ pc' = "forgetId" /\ UNCHANGED call
       \/ /\ CanFail
          /\ StopAutomountEffect(call.u) \/ UNCHANGED systemdVars
          /\ pc' = "needsAttention"
          /\ call' = [call EXCEPT !.safe = FALSE, !.hits = @ + 1]
    /\ UNCHANGED <<durableVars, idRec>>

ForgetId ==
    /\ pc = "forgetId"
    /\ pc' = "needsAttention"
    /\ \/ idRec' = [idRec EXCEPT ![call.u] = 0] /\ UNCHANGED call
       \/ /\ CanFail
          /\ idRec' \in {idRec, [idRec EXCEPT ![call.u] = 0]}
          /\ call' = [call EXCEPT !.hits = @ + 1]
    /\ UNCHANGED <<durableVars, systemdVars>>

InspectRuntime == ShowAutomount \/ ReadMountinfo \/ ShowMount \/ ReadIds
SafeStop == DecideStop \/ StopMount \/ StopAutomount
ArmShare ==
    \/ DecideArm \/ CheckCredential \/ WalkCreating \/ WalkExisting \/ Start \/ StatStarted \/ RecordId
    \/ DecideRecheck \/ StatAppeared \/ Compensate \/ StopStarted \/ ForgetId
===============================================================================
