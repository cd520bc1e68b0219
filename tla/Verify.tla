-------------------------------- MODULE Verify --------------------------------
(***************************************************************************)
(* The pure decisions of src/src/core/verify.cpp and src/src/root/         *)
(* arming.cpp: what a pair of unit files is, what a runtime snapshot says, *)
(* and what may be started or stopped on the strength of it.  No state.    *)
(***************************************************************************)
EXTENDS Naturals, Sequences

CONSTANTS Ids,      \* share ids the helper can allocate; a managed unit half is its id
          Guests,   \* the ids whose marker says authentication=guest
          NoFile,   \* there is no file
          Alien,    \* a unit file that carries no nasmount marker
          Broken    \* an unsafe file, a drop-in, a bad marker or body, another owner

ASSUME ContentAssumption ==
    /\ Guests \subseteq Ids
    /\ {NoFile, Alien, Broken} \cap Ids = {}
    /\ NoFile # Alien /\ NoFile # Broken /\ Alien # Broken

\* What a unit file name in /etc/systemd/system can hold.
FileContent == Ids \cup {NoFile, Alien, Broken}

Definitions == {"None", "Pair", "Partial", "Tampered", "NotOurs"}

\* Mutant: a half without a marker is not told apart from a managed one.
InspectDefinitionUnmarked(mount, automount) ==
    LET halves == {mount, automount}
    IN  IF Broken \in halves THEN "Tampered"
        ELSE IF halves = {NoFile} THEN "None"
        ELSE IF NoFile \in halves THEN "Partial"
        ELSE IF mount # automount THEN "Tampered"
        ELSE "Pair"

\* The verdict on the two halves of one mount point.
InspectDefinition(mount, automount) ==
    LET halves == {mount, automount}
    IN  IF Broken \in halves THEN "Tampered"
        ELSE IF halves = {NoFile} THEN "None"
        ELSE IF Alien \in halves THEN "NotOurs"
        ELSE IF NoFile \in halves THEN "Partial"
        ELSE IF mount # automount THEN "Tampered"
        ELSE "Pair"

\* The marker of an owned Pair or Partial definition.
MarkerId(mount, automount) == IF mount \in Ids THEN mount ELSE automount

-------------------------------------------------------------------------------
(* Runtime classification.                                                 *)

AutomountStates     == {"Active", "Inactive", "Indeterminate"}
MountStates         == {"Present", "Absent", "Indeterminate"}
VerificationStates  == {"Match", "Mismatch", "NotApplicable", "Indeterminate"}
TrustStates         == {"Trusted", "Untrusted", "NotApplicable"}

RuntimeSnapshot == [automount : AutomountStates, mount : MountStates,
                    verification : VerificationStates, trust : TrustStates]

\* The default-constructed RuntimeSnapshot.
NoSnapshot == [automount |-> "Indeterminate", mount |-> "Indeterminate",
               verification |-> "NotApplicable", trust |-> "NotApplicable"]

Unmounted          == [mount |-> "Absent", verification |-> "NotApplicable"]
Mounted(verdict)   == [mount |-> "Present", verification |-> verdict]
Unknown            == [mount |-> "Indeterminate", verification |-> "Indeterminate"]

\* The mountinfo entries of one path, oldest first: the loop returns on the
\* first one, so whatever is stacked above it is never looked at.
ClassifyMountEntries(entries, what) ==
    IF entries = <<>> \/ Head(entries).fs = "autofs" THEN Unmounted
    ELSE IF Head(entries).fs = "cifs" /\ Head(entries).src = what THEN Mounted("Match")
    ELSE Mounted("Mismatch")

\* systemctl show ActiveState of the .automount unit.
AutomountAxis(activeState) ==
    CASE activeState = "active"                 -> "Active"
      [] activeState \in {"inactive", "failed"} -> "Inactive"
      [] OTHER                                  -> "Indeterminate"

\* mountinfo cross-checked with PID 1's ActiveState of the .mount unit.
MountAxis(classification, activeState) ==
    IF /\ activeState \in {"active", "inactive", "failed"}
       /\ (activeState = "active") <=> (classification.mount = "Present")
    THEN classification
    ELSE Unknown

ActivationTrust(automount, recorded, current) ==
    IF automount # "Active" THEN "NotApplicable"
    ELSE IF recorded # 0 /\ recorded = current THEN "Trusted"
    ELSE "Untrusted"

-------------------------------------------------------------------------------
(* The two gates every start and every stop passes.                        *)

\* Mutant: an active automount is stopped by name, recorded or not.
EvaluateStopPrecheckByName(snap) ==
    IF "Indeterminate" \in {snap.mount, snap.automount} THEN "Indeterminate"
    ELSE IF snap.mount = "Present" /\ snap.verification # "Match" THEN "CorrelationMismatch"
    ELSE IF snap.mount = "Present" \/ snap.automount = "Active" THEN "ShouldStop"
    ELSE "AlreadyInactive"

\* What runs is stopped only when it is known to be the share asked about.
EvaluateStopPrecheck(snap) ==
    LET ours == IF snap.mount = "Present" THEN snap.verification = "Match"
                                          ELSE snap.trust = "Trusted"
    IN  IF "Indeterminate" \in {snap.mount, snap.automount} THEN "Indeterminate"
        ELSE IF snap.mount = "Absent" /\ snap.automount = "Inactive" THEN "AlreadyInactive"
        ELSE IF ours THEN "ShouldStop"
        ELSE "CorrelationMismatch"

\* An active automount is taken over only when its instance id is on record.
EvaluateArmPrecheck(snap) ==
    IF "Indeterminate" \in {snap.mount, snap.automount} \/ snap.mount = "Present" THEN "Blocked"
    ELSE IF snap.automount = "Inactive" THEN "ReadyToArm"
    ELSE IF snap.trust = "Trusted" THEN "AlreadyArmed"
    ELSE "Blocked"

===============================================================================
