------------------------------ MODULE Operations ------------------------------
(***************************************************************************)
(* The root programs: nasmount-helper's definesystem and undefinesystem    *)
(* (src/src/helper/helper.cpp over src/src/root/operations.cpp) and        *)
(* nasmount-boot (src/src/boot/main.cpp).  Each holds the root lock from   *)
(* its first step to its reply, so at most one is between idle and reply;  *)
(* module RootLock is about that lock.  Any of them may be killed at any   *)
(* step, the machine may reboot at any step, and PID 1, the kernel, users  *)
(* and the administrator act in between.                                   *)
(***************************************************************************)
EXTENDS Arming, FiniteSets

CONSTANTS EagerCross,  \* whether a user may enter the path between start and the id record
          AdminUnits   \* the mount points the administrator handles by hand as well

ASSUME OperationsAssumption == EagerCross \in BOOLEAN /\ AdminUnits \subseteq Units

vars == <<hostVars, armVars>>

DefinePcs == {"writeMount", "writeAutomount", "writeCredential", "reload",
              "cleanCredential", "cleanAutomount", "cleanMount", "cleanId", "cleanReload"}
RemovePcs == {"removeCredential", "removeMount", "removeAutomount", "removeId", "removeReload"}

\* The steps of purge, which are in module Purge.
DeletePcs == {"purgeNext", "purgeMount", "purgeAutomount", "purgeId", "purgeCredential",
              "purgeReload", "purgeEtc", "purgeIds", "purgeRun"}
PurgePcs  == {"purgeStop"} \cup DeletePcs

Pcs == {"idle", "reply", "bootNext"} \cup DefinePcs \cup RemovePcs \cup PurgePcs \cup SubroutinePcs

Call == [op : {"none", "define", "remove", "boot", "purge"}, u : Units, id : FileContent, what : FileContent,
         site : {"decideStop", "decideArm", "decideRecheck"}, snap : RuntimeSnapshot,
         mountStopped : BOOLEAN, started : Nat, safe : BOOLEAN, missing : BOOLEAN,
         credMayExist : BOOLEAN, mayRemoveUnits : BOOLEAN,
         todo : SUBSET Units, hit : SUBSET Units, ok : BOOLEAN, hits : Nat]

NoCall == [op |-> "none", u |-> CHOOSE u \in Units : TRUE, id |-> NoFile, what |-> NoFile,
           site |-> "decideStop", snap |-> NoSnapshot,
           mountStopped |-> FALSE, started |-> 0, safe |-> TRUE, missing |-> FALSE,
           credMayExist |-> FALSE, mayRemoveUnits |-> TRUE,
           todo |-> {}, hit |-> {}, ok |-> FALSE, hits |-> 0]

TypeOK ==
    /\ HostTypeOK
    /\ pc \in Pcs
    /\ call \in Call

Init == HostInit /\ pc = "idle" /\ call = NoCall

-------------------------------------------------------------------------------
(* Helpers.                                                                *)

Managed(u) == Definition(u) \in {"Pair", "Partial"}

\* Mutant: only the credential namespace is searched.
ShareIdHasCredential(i) == i \in creds

\* shareIdInUse: a credential file or a unit marker claims the id.
ShareIdInUse(i) == i \in creds \/ \E u \in Units : i \in {mountHalf[u], autoHalf[u]}

\* A durable file operation that fails may or may not have happened.
Replace(file, u, content) == file' = [file EXCEPT ![u] = content]

\* The continuation of a step that succeeded, or failed, with its effect.
Proceed(label) == pc' = label /\ UNCHANGED call
FailTo(label)  == CanFail /\ pc' = label /\ call' = [call EXCEPT !.hits = @ + 1]

-------------------------------------------------------------------------------
(* define                                                                  *)

\* doDefine up to Operations::define's first write: only over nothing, and
\* only after the descriptor walk, which creates the directory.
DefineBegin(u, i) ==
    /\ pc = "idle"
    /\ Definition(u) = "None" /\ ~Armed(u) /\ ~Occupied(u) /\ ~ShareIdInUse(i)
    /\ dir' = [dir EXCEPT ![u] = TRUE]
    /\ call' = [NoCall EXCEPT !.op = "define", !.u = u, !.id = i, !.what = i]
    /\ pc' = "writeMount"
    /\ UNCHANGED <<mountHalf, autoHalf, creds, idRec, systemdVars>>

\* doDefine gives up after the walk: no id could be allocated, or the unit
\* directory could not be opened.  The directory it created stays.
DefineRefused(u) ==
    /\ pc = "idle"
    /\ Definition(u) = "None" /\ ~Armed(u) /\ ~Occupied(u) /\ ~dir[u]
    /\ dir' = [dir EXCEPT ![u] = TRUE]
    /\ UNCHANGED <<mountHalf, autoHalf, creds, idRec, systemdVars, armVars>>

WriteMount ==
    /\ pc = "writeMount"
    /\ \/ Replace(mountHalf, call.u, call.id) /\ Proceed("writeAutomount")
       \/ Replace(mountHalf, call.u, call.id) /\ FailTo("cleanCredential")
       \/ UNCHANGED mountHalf /\ FailTo("cleanCredential")
    /\ UNCHANGED <<autoHalf, creds, dir, idRec, systemdVars>>

\* Mutant: a failed second write just returns.
WriteAutomountNoCleanup ==
    /\ pc = "writeAutomount"
    /\ \/ Replace(autoHalf, call.u, call.id) /\ Proceed("writeCredential")
       \/ UNCHANGED autoHalf /\ FailTo("reply")
    /\ UNCHANGED <<mountHalf, creds, dir, idRec, systemdVars>>

WriteAutomount ==
    /\ pc = "writeAutomount"
    /\ \/ Replace(autoHalf, call.u, call.id) /\ Proceed("writeCredential")
       \/ Replace(autoHalf, call.u, call.id) /\ FailTo("cleanCredential")
       \/ UNCHANGED autoHalf /\ FailTo("cleanCredential")
    /\ UNCHANGED <<mountHalf, creds, dir, idRec, systemdVars>>

WriteCredential ==
    /\ pc = "writeCredential" /\ call.id \notin Guests
    /\ \/ /\ creds' = creds \cup {call.id} /\ pc' = "reload"
          /\ call' = [call EXCEPT !.credMayExist = TRUE]
       \/ /\ CanFail
          /\ creds' \in {creds, creds \cup {call.id}} /\ pc' = "cleanCredential"
          /\ call' = [call EXCEPT !.credMayExist = TRUE, !.hits = @ + 1]
    /\ UNCHANGED <<mountHalf, autoHalf, dir, idRec, systemdVars>>

AssertNoCredential ==
    /\ pc = "writeCredential" /\ call.id \in Guests
    /\ \/ call.id \notin creds /\ Proceed("reload")
       \/ FailTo("cleanCredential")
    /\ UNCHANGED hostVars

\* Mutant: systemd is not reloaded before the start.
ReloadSkipped ==
    /\ pc = "reload"
    /\ UNCHANGED systemdVars /\ pc' = "showAutomount" /\ call' = EnterArmShare(call)
    /\ UNCHANGED <<durableVars, idRec>>

\* daemon-reload, then armShare.
Reload ==
    /\ pc = "reload"
    /\ \/ ReloadEffect /\ pc' = "showAutomount" /\ call' = EnterArmShare(call)
       \/ (ReloadEffect \/ UNCHANGED systemdVars) /\ FailTo("cleanCredential")
    /\ UNCHANGED <<durableVars, idRec>>

DefineArmed ==
    /\ pc = "armed" /\ call.op = "define"
    /\ pc' = "reply" /\ call' = [call EXCEPT !.ok = TRUE]
    /\ UNCHANGED hostVars

\* Mutant: definitionCleanupSafe is not looked at.
DefineNotArmedAlwaysCleans ==
    /\ pc = "needsAttention" /\ call.op = "define"
    /\ Proceed("cleanCredential")
    /\ UNCHANGED hostVars

DefineNotArmed ==
    /\ pc = "needsAttention" /\ call.op = "define"
    /\ Proceed(IF call.safe THEN "cleanCredential" ELSE "reply")
    /\ UNCHANGED hostVars

\* Mutant: a credential that could not be removed does not keep the units.
CleanCredentialBestEffort ==
    /\ pc = "cleanCredential"
    /\ \/ creds' = creds \ {call.id} /\ Proceed("cleanAutomount")
       \/ UNCHANGED creds /\ FailTo("cleanAutomount")
    /\ UNCHANGED <<mountHalf, autoHalf, dir, idRec, systemdVars>>

\* cleanup(): a credential that may survive keeps the units that index it.
CleanCredential ==
    /\ pc = "cleanCredential"
    /\ \/ /\ creds' = IF call.credMayExist THEN creds \ {call.id} ELSE creds
          /\ Proceed("cleanAutomount")
       \/ /\ call.credMayExist /\ CanFail
          /\ creds' \in {creds, creds \ {call.id}} /\ pc' = "cleanId"
          /\ call' = [call EXCEPT !.mayRemoveUnits = FALSE, !.hits = @ + 1]
    /\ UNCHANGED <<mountHalf, autoHalf, dir, idRec, systemdVars>>

\* Cleanup goes on after a failed removal.
CleanAutomount ==
    /\ pc = "cleanAutomount"
    /\ \/ Replace(autoHalf, call.u, NoFile) /\ (Proceed("cleanMount") \/ FailTo("cleanMount"))
       \/ UNCHANGED autoHalf /\ FailTo("cleanMount")
    /\ UNCHANGED <<mountHalf, creds, dir, idRec, systemdVars>>

CleanMount ==
    /\ pc = "cleanMount"
    /\ \/ Replace(mountHalf, call.u, NoFile) /\ (Proceed("cleanId") \/ FailTo("cleanId"))
       \/ UNCHANGED mountHalf /\ FailTo("cleanId")
    /\ UNCHANGED <<autoHalf, creds, dir, idRec, systemdVars>>

CleanId ==
    /\ pc = "cleanId"
    /\ LET next == IF call.mayRemoveUnits THEN "cleanReload" ELSE "reply"
       IN  \/ Replace(idRec, call.u, 0) /\ (Proceed(next) \/ FailTo(next))
           \/ UNCHANGED idRec /\ FailTo(next)
    /\ UNCHANGED <<durableVars, systemdVars>>

CleanReload ==
    /\ pc = "cleanReload"
    /\ \/ ReloadEffect /\ (Proceed("reply") \/ FailTo("reply"))
       \/ UNCHANGED systemdVars /\ FailTo("reply")
    /\ UNCHANGED <<durableVars, idRec>>

Define ==
    \/ WriteMount \/ WriteAutomount \/ WriteCredential \/ AssertNoCredential \/ Reload
    \/ DefineArmed \/ DefineNotArmed
    \/ CleanCredential \/ CleanAutomount \/ CleanMount \/ CleanId \/ CleanReload

-------------------------------------------------------------------------------
(* undefine                                                                *)

\* doUndefine: an owned Pair or Partial; What= is the mount half's, empty
\* when only the automount half is left.
RemoveBegin(u) ==
    /\ pc = "idle"
    /\ Managed(u)
    /\ call' = EnterSafeStop([NoCall EXCEPT !.op = "remove", !.u = u,
                                !.id = MarkerId(mountHalf[u], autoHalf[u]), !.what = mountHalf[u]])
    /\ pc' = "showAutomount"
    /\ UNCHANGED hostVars

RemoveRefused ==
    /\ pc = "refused" /\ call.op = "remove"
    /\ Proceed("reply")
    /\ UNCHANGED hostVars

RemoveStopped ==
    /\ pc = "stopped" /\ call.op = "remove"
    /\ Proceed("removeCredential")
    /\ UNCHANGED hostVars

\* Mutant: the credential's removal is best effort.
RemoveCredentialBestEffort ==
    /\ pc = "removeCredential"
    /\ \/ creds' = creds \ {call.id} /\ Proceed("removeMount")
       \/ UNCHANGED creds /\ FailTo("removeMount")
    /\ UNCHANGED <<mountHalf, autoHalf, dir, idRec, systemdVars>>

RemoveCredential ==
    /\ pc = "removeCredential"
    /\ \/ creds' = creds \ {call.id} /\ (Proceed("removeMount") \/ FailTo("reply"))
       \/ UNCHANGED creds /\ FailTo("reply")
    /\ UNCHANGED <<mountHalf, autoHalf, dir, idRec, systemdVars>>

\* Mutant: a mount half that could not be unlinked does not stop the removal.
RemoveMountBestEffort ==
    /\ pc = "removeMount"
    /\ \/ Replace(mountHalf, call.u, NoFile) /\ Proceed("removeAutomount")
       \/ UNCHANGED mountHalf /\ FailTo("removeAutomount")
    /\ UNCHANGED <<autoHalf, creds, dir, idRec, systemdVars>>

RemoveMount ==
    /\ pc = "removeMount"
    /\ \/ Replace(mountHalf, call.u, NoFile) /\ (Proceed("removeAutomount") \/ FailTo("reply"))
       \/ UNCHANGED mountHalf /\ FailTo("reply")
    /\ UNCHANGED <<autoHalf, creds, dir, idRec, systemdVars>>

RemoveAutomount ==
    /\ pc = "removeAutomount"
    /\ \/ Replace(autoHalf, call.u, NoFile) /\ (Proceed("removeId") \/ FailTo("reply"))
       \/ UNCHANGED autoHalf /\ FailTo("reply")
    /\ UNCHANGED <<mountHalf, creds, dir, idRec, systemdVars>>

RemoveId ==
    /\ pc = "removeId"
    /\ \/ Replace(idRec, call.u, 0) /\ (Proceed("removeReload") \/ FailTo("reply"))
       \/ UNCHANGED idRec /\ FailTo("reply")
    /\ UNCHANGED <<durableVars, systemdVars>>

RemoveReload ==
    /\ pc = "removeReload"
    /\ \/ ReloadEffect /\ pc' = "reply" /\ call' = [call EXCEPT !.ok = TRUE]
       \/ (ReloadEffect \/ UNCHANGED systemdVars) /\ FailTo("reply")
    /\ UNCHANGED <<durableVars, idRec>>

Remove ==
    \/ RemoveRefused \/ RemoveStopped
    \/ RemoveCredential \/ RemoveMount \/ RemoveAutomount \/ RemoveId \/ RemoveReload

-------------------------------------------------------------------------------
(* nasmount-boot                                                           *)

BootBegin ==
    /\ pc = "idle"
    /\ call' = [NoCall EXCEPT !.op = "boot", !.todo = {u \in Units : Definition(u) = "Pair"}]
    /\ pc' = "bootNext"
    /\ UNCHANGED hostVars

\* armOneShare: the next pair, validated again; one that fails validation
\* is logged and skipped.
BootArm(u) ==
    /\ pc = "bootNext" /\ u \in call.todo
    /\ \/ /\ Definition(u) = "Pair"
          /\ call' = EnterArmShare([call EXCEPT !.u = u, !.id = mountHalf[u], !.what = mountHalf[u],
                                                !.todo = @ \ {u}, !.hits = 0])
          /\ pc' = "showAutomount"
       \/ call' = [call EXCEPT !.todo = @ \ {u}, !.hit = @ \cup {u}] /\ UNCHANGED pc
    /\ UNCHANGED hostVars

\* The share just dealt with met a failure of its own, or was no directory
\* when looked at.
MetFailure == call.hits > 0 \/ call.missing

\* Mutant: the first share that cannot be armed ends the pass.
BootArmedFailFast ==
    /\ pc \in {"armed", "needsAttention"} /\ call.op = "boot"
    /\ pc' = "bootNext"
    /\ call' = [call EXCEPT !.hit = IF MetFailure THEN @ \cup {call.u} ELSE @,
                            !.todo = IF pc = "armed" THEN @ ELSE {}]
    /\ UNCHANGED hostVars

\* Whatever armShare reports, the loop goes on.
BootArmed ==
    /\ pc \in {"armed", "needsAttention"} /\ call.op = "boot"
    /\ pc' = "bootNext"
    /\ call' = [call EXCEPT !.hit = IF MetFailure THEN @ \cup {call.u} ELSE @]
    /\ UNCHANGED hostVars

BootEnd ==
    /\ pc = "bootNext" /\ call.todo = {}
    /\ pc' = "idle" /\ call' = NoCall
    /\ UNCHANGED hostVars

Boot == (\E u \in Units : BootArm(u)) \/ BootArmed \/ BootEnd

-------------------------------------------------------------------------------
(* The whole.                                                              *)

Reply ==
    /\ pc = "reply"
    /\ pc' = "idle" /\ call' = NoCall
    /\ UNCHANGED hostVars

\* The next step of the program that runs.
Step == InspectRuntime \/ SafeStop \/ ArmShare \/ Define \/ Remove \/ Boot \/ Reply

Begin ==
    \/ \E u \in Units, i \in Ids : DefineBegin(u, i)
    \/ \E u \in Units : DefineRefused(u) \/ RemoveBegin(u)
    \/ BootBegin

\* The program is killed: by the user's session ending, by the oneshot's
\* TimeoutStartSec=, or by a fault of its own.  The kernel drops its lock.
Crash ==
    /\ pc # "idle"
    /\ pc' = "idle" /\ call' = NoCall
    /\ UNCHANGED hostVars

Reboot == HostReboot /\ pc' = "idle" /\ call' = NoCall

\* What PID 1, the kernel and unprivileged users do at any time.
Ambient(u) ==
    \/ (EagerCross \/ pc \notin ArmWindow) /\ CrossTrigger(u)
    \/ Expire(u) \/ RemoveDirectory(u) \/ MakeDirectory(u) \/ RunJob(u) \/ CollectUnit(u)

\* The administrator leaves a path alone while a root program works on it.
Admin(u) == AdminStart(u) \/ AdminStop(u) \/ AdminMount(u) \/ AdminUnmount(u)

Environment ==
    /\ \/ \E u \in Units : Ambient(u)
       \/ pc = "idle" /\ \E u \in AdminUnits : Admin(u)
    /\ UNCHANGED armVars

Next == Step \/ Begin \/ Crash \/ Reboot \/ Environment

Spec == Init /\ [][Next]_vars

\* A program that runs takes its next step: nothing it waits for is unbounded.
FairSpec == Spec /\ WF_vars(Step)

-------------------------------------------------------------------------------
(* Properties.                                                             *)

\* No secret is ever left where no unit names it: each credential file's id
\* is in the marker of a unit half on disk, at every step of every define
\* and removal, whatever fails and wherever it is killed (operations.cpp
\* writes units first and removes the credential first).
CredentialIndexed == \A i \in creds : \E u \in Units : i \in {mountHalf[u], autoHalf[u]}

\* However calls fail or are killed, no two halves left on disk disagree and
\* no id is claimed at two mount points, so nothing nasmount wrote is ever
\* classified Tampered, which no action of the tool can remove.
NeverSelfTampered ==
    \A u, v \in Units :
        \A i \in {mountHalf[u], autoHalf[u]} \cap Ids, j \in {mountHalf[v], autoHalf[v]} \cap Ids :
            (u = v) <=> (i = j)

\* A trigger nasmount started is never alive without a complete definition
\* at its mount point, so an armed share can always be seen and removed
\* (define's compensation and remove's stop-before-unlink).
DefinitionOutlivesTrigger == \A u \in Units : trig[u].by = "tool" => Definition(u) = "Pair"

\* Whatever recorded id matches the live trigger was recorded for an
\* instance nasmount itself started: no crash, retry or reboot makes an
\* administrator's automount look trusted (evaluateArmPrecheck's refusal to
\* bless, records kept in /run).
TrustedIsOurs ==
    \A u \in Units : Armed(u) /\ idRec[u] = trig[u].id => trig[u].by = "tool"

\* PID 1 found no directory to start the trigger on, called that a success,
\* and nothing came up.
NeverStarted == call.missing /\ ~Armed(call.u)

\* When armShare reports Armed or AlreadyArmed the trigger is live and the id
\* on record is its id (arming.h: success never without the id recorded).  One
\* exception: the owner removed the mount point after the walk and made it
\* again before statx; the record is then the id of the file system below,
\* which no trigger ever has, so it vouches for none.
ArmedIsTrusted ==
    pc = "armed" =>
        IF NeverStarted THEN idRec[call.u] = UnderId
                        ELSE Armed(call.u) /\ idRec[call.u] = trig[call.u].id

\* A definition that was reported created is whole: both halves, the
\* credential iff authenticated, and PID 1 running this definition unless
\* its mount point was missing when PID 1 looked.
DefineComplete ==
    pc = "reply" /\ call.op = "define" /\ call.ok =>
        /\ Definition(call.u) = "Pair" /\ mountHalf[call.u] = call.id
        /\ (call.id \in creds) <=> (call.id \notin Guests)
        /\ NeverStarted \/ (Armed(call.u) /\ trig[call.u].share = call.id)

\* A define that failed on one fault took back all it wrote, or kept the
\* whole definition because its trigger could not be proven stopped.
DefineAtomic ==
    pc = "reply" /\ call.op = "define" /\ ~call.ok /\ call.hits < 2 =>
        \/ /\ Definition(call.u) = "None" /\ call.id \notin creds
           /\ trig[call.u].by # "tool"
        \/ /\ Definition(call.u) = "Pair" /\ mountHalf[call.u] = call.id
           /\ (call.id \in creds) <=> (call.id \notin Guests)

\* From the moment removal starts deleting until it replies, nothing is
\* live at the mount point, so no mount is ever left without its definition.
RemovalIsQuiet == pc \in RemovePcs => ~Armed(call.u) /\ ~Occupied(call.u)

\* A removal reported successful left nothing behind.
RemoveComplete ==
    pc = "reply" /\ call.op = "remove" /\ call.ok =>
        /\ Definition(call.u) = "None" /\ call.id \notin creds
        /\ idRec[call.u] = 0 /\ loaded[call.u] = NoFile /\ ~Armed(call.u)

\* When the boot pass is over every complete pair is armed whose credential
\* is healthy and which met no failure of its own, the directory found missing
\* by the walk or by PID 1 included: one share's failure never costs another
\* its trigger.
BootArmsTheRest ==
    pc = "bootNext" /\ call.todo = {} =>
        \A u \in Units \ call.hit :
            /\ Definition(u) = "Pair"
            /\ (mountHalf[u] \in creds) <=> (mountHalf[u] \notin Guests)
            => Armed(u) \/ Occupied(u)

\* The programs stop no trigger but one nasmount started, and unmount
\* nothing but a CIFS mount: of the share they were asked about, or made
\* through a trigger nasmount started.
StopsOnlyItsOwn ==
    [][Step => \A u \in Units :
         /\ Armed(u) /\ ~(Armed(u))' => trig[u].by = "tool"
         /\ Occupied(u) /\ ~(Occupied(u))' => over[u].fs = "cifs" /\ (over[u].src = call.what \/ trig[u].by = "tool")]_vars

\* A unit file nasmount did not write is never replaced or unlinked.
ForeignUntouched ==
    [][\A u \in Units : /\ mountHalf[u] \in {Alien, Broken} => mountHalf'[u] = mountHalf[u]
                        /\ autoHalf[u] \in {Alien, Broken} => autoHalf'[u] = autoHalf[u]]_vars

\* Every call returns and releases the root lock.
CallsReturn == pc # "idle" ~> pc = "idle"

-------------------------------------------------------------------------------
(* What callers of the helper see of all this: HelperPromise.              *)

\* How far the call under way has come with the two unit halves.
DefineStage ==
    CASE pc = "writeMount"     -> "sent"
      [] pc = "writeAutomount" -> "automount"
      [] pc \in {"cleanCredential", "cleanAutomount", "cleanMount", "cleanId", "cleanReload"} -> "failed"
      [] OTHER                 -> "finish"

RemoveStage ==
    CASE pc = "removeAutomount" -> "automount"
      [] pc \in {"removeId", "removeReload", "reply"} -> "finish"
      [] OTHER                  -> "sent"

Job(op, stage, u, id) == [op |-> op, pc |-> stage, u |-> u, id |-> id]
NoJob == Job("none", "idle", "no unit", NoFile)

\* A call that will not be reported successful any more has ended for its
\* caller; nasmount-boot is nobody's call.
HelperView ==
    IF pc = "reply" /\ ~call.ok THEN NoJob
    ELSE CASE call.op = "define" ->
                  Job("define", DefineStage, call.u, IF DefineStage \in {"automount", "finish"} THEN call.id ELSE NoFile)
           [] call.op = "remove" -> Job("undefine", RemoveStage, call.u, NoFile)
           [] OTHER -> NoJob

HP == INSTANCE HelperPromise WITH helper <- HelperView

\* Whatever fails, is killed or boots in between, a define and a removal change
\* the two halves of their own share only, one after the other, over nothing
\* or over what nasmount owns, and report success only after both.
KeepsPromise == HP!Promise

-------------------------------------------------------------------------------
(* What a call that is under way relies on: with these conjuncts the       *)
(* invariants on the files are inductive (module OperationsProofs).        *)

\* Steps of define, of remove and of the boot pass run only on their behalf.
StepsMatchCall ==
    /\ pc \in DefinePcs => call.op = "define"
    /\ pc \in RemovePcs => call.op = "remove"
    /\ pc = "bootNext" => call.op = "boot"
    /\ call.op \in {"define", "remove"} => call.id \in Ids

\* At its mount point there is nothing but what carries the call's id.
HalvesAreTheCalls ==
    call.op \in {"define", "remove"} =>
        {mountHalf[call.u], autoHalf[call.u]} \subseteq {NoFile, call.id}

\* A new id is claimed nowhere else.
NewIdIsFresh ==
    call.op = "define" =>
        \A v \in Units \ {call.u} : call.id \notin {mountHalf[v], autoHalf[v]}

\* The secret comes after the units and goes before them.
SecretWithinUnits ==
    /\ pc = "writeCredential" => autoHalf[call.u] = call.id
    /\ call.op = "define" /\ ~call.credMayExist => call.id \notin creds
    /\ pc \in {"cleanAutomount", "cleanMount", "removeMount", "removeAutomount"} =>
           call.id \notin creds

\* Whatever a call does, and wherever it is cut off, the unit files stay
\* consistent: inductive by itself, also next to purge.
FilesConsistent ==
    /\ TypeOK
    /\ StepsMatchCall /\ HalvesAreTheCalls /\ NewIdIsFresh /\ SecretWithinUnits
    /\ NeverSelfTampered

\* The inductive invariant of the files, secrets included.  A killed purge
\* may leave a secret that no unit names, until the next one.
FilesInv == FilesConsistent /\ CredentialIndexed

-------------------------------------------------------------------------------
\* What the operations do not keep, stated as the repository states it.

\* kcm/ui/main.qml to the user: "If it is currently mounted, it will be
\* disarmed and unmounted first", which needs the mounted share to be seen.
MountedIsSeen ==
    \A u \in Units : over[u].fs = "cifs" /\ over[u].src = mountHalf[u] /\ Managed(u) =>
        ClassifyMountEntries(MountinfoEntries(u), mountHalf[u]) = Mounted("Match")
===============================================================================
