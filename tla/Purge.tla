--------------------------------- MODULE Purge ---------------------------------
(***************************************************************************)
(* Uninstalling: Operations::purge (src/src/root/operations.cpp) among the *)
(* other root programs of module Operations.  Besides the files of module  *)
(* Host it watches the three directories that the programs make on demand  *)
(* and purge removes.  PackageGuard adds nasmount-package-guard.           *)
(***************************************************************************)
EXTENDS Operations

CONSTANT Peers   \* the operations that run besides purge

ASSUME PurgeAssumption == Peers \subseteq {"define", "remove", "boot"}

VARIABLES roots,      \* which of /etc/nasmount, /run/nasmount, /run/nasmount-ids are there
          validated   \* the mount points the purge under way has validated

purgeVars == <<roots, validated>>
allVars   == <<vars, purgeVars>>

Roots == {"etc", "run", "ids"}

PurgeInit == Init /\ roots = {} /\ validated = {}

-------------------------------------------------------------------------------
(* purge.                                                                  *)

\* Some half at the mount point carries a well-formed marker.
Marked(u) == {mountHalf[u], autoHalf[u]} \cap Ids # {}

\* All or nothing: each marked definition is a valid Pair or Partial.
PurgeBegin ==
    /\ pc = "idle"
    /\ \A u \in Units : Marked(u) => Managed(u)
    /\ validated' = {u \in Units : Marked(u)}
    /\ call' = [NoCall EXCEPT !.op = "purge", !.todo = validated']
    /\ pc' = "purgeStop"
    /\ UNCHANGED hostVars

\* The first pass: safeStop of every definition.
PurgeStop(u) ==
    /\ pc = "purgeStop" /\ u \in call.todo
    /\ call' = EnterSafeStop([call EXCEPT !.u = u, !.what = mountHalf[u], !.todo = @ \ {u}])
    /\ pc' = "showAutomount"
    /\ UNCHANGED <<hostVars, validated>>

\* Mutant: a single pass, each share deleted as soon as it is stopped.
PurgeStoppedOnePass ==
    /\ pc = "stopped" /\ call.op = "purge"
    /\ pc' = "purgeNext" /\ call' = [call EXCEPT !.todo = validated]
    /\ UNCHANGED <<hostVars, validated>>

PurgeStopped ==
    /\ pc = "stopped" /\ call.op = "purge"
    /\ Proceed("purgeStop")
    /\ UNCHANGED <<hostVars, validated>>

PurgeRefused ==
    /\ pc = "refused" /\ call.op = "purge"
    /\ Proceed("reply")
    /\ UNCHANGED <<hostVars, validated>>

\* The second pass begins; the unit directory may fail to open.
PurgeDeleteAll ==
    /\ pc = "purgeStop" /\ call.todo = {}
    /\ \/ pc' = "purgeNext" /\ call' = [call EXCEPT !.todo = validated]
       \/ FailTo("reply")
    /\ UNCHANGED <<hostVars, validated>>

PurgeDelete(u) ==
    /\ pc = "purgeNext" /\ u \in call.todo
    /\ pc' = "purgeMount"
    /\ call' = [call EXCEPT !.u = u, !.id = MarkerId(mountHalf[u], autoHalf[u]), !.todo = @ \ {u}]
    /\ UNCHANGED <<hostVars, validated>>

PurgeMount ==
    /\ pc = "purgeMount"
    /\ \/ Replace(mountHalf, call.u, NoFile) /\ (Proceed("purgeAutomount") \/ FailTo("reply"))
       \/ UNCHANGED mountHalf /\ FailTo("reply")
    /\ UNCHANGED <<autoHalf, creds, dir, idRec, systemdVars, validated>>

\* Mutant: an automount half that could not be unlinked does not stop the purge.
PurgeAutomountBestEffort ==
    /\ pc = "purgeAutomount"
    /\ \/ Replace(autoHalf, call.u, NoFile) /\ Proceed("purgeId")
       \/ UNCHANGED autoHalf /\ FailTo("purgeId")
    /\ UNCHANGED <<mountHalf, creds, dir, idRec, systemdVars, validated>>

PurgeAutomount ==
    /\ pc = "purgeAutomount"
    /\ \/ Replace(autoHalf, call.u, NoFile) /\ (Proceed("purgeId") \/ FailTo("reply"))
       \/ UNCHANGED autoHalf /\ FailTo("reply")
    /\ UNCHANGED <<mountHalf, creds, dir, idRec, systemdVars, validated>>

PurgeId ==
    /\ pc = "purgeId"
    /\ \/ Replace(idRec, call.u, 0) /\ (Proceed("purgeCredential") \/ FailTo("reply"))
       \/ UNCHANGED idRec /\ FailTo("reply")
    /\ UNCHANGED <<durableVars, systemdVars, validated>>

PurgeCredential ==
    /\ pc = "purgeCredential"
    /\ \/ creds' = creds \ {call.id} /\ (Proceed("purgeNext") \/ FailTo("reply"))
       \/ UNCHANGED creds /\ FailTo("reply")
    /\ UNCHANGED <<mountHalf, autoHalf, dir, idRec, systemdVars, validated>>

PurgeDeleted ==
    /\ pc = "purgeNext" /\ call.todo = {}
    /\ Proceed("purgeReload")
    /\ UNCHANGED <<hostVars, validated>>

PurgeReload ==
    /\ pc = "purgeReload"
    /\ \/ ReloadEffect /\ Proceed("purgeEtc")
       \/ (ReloadEffect \/ UNCHANGED systemdVars) /\ FailTo("reply")
    /\ UNCHANGED <<durableVars, idRec, validated>>

\* The steps up to here touch no root but through Touched below.
PurgeShares ==
    \/ (\E u \in Units : PurgeStop(u) \/ PurgeDelete(u)) \/ PurgeStopped \/ PurgeRefused
    \/ PurgeDeleteAll \/ PurgeMount \/ PurgeAutomount \/ PurgeId \/ PurgeCredential
    \/ PurgeDeleted \/ PurgeReload

\* Mutant: the credential directory is removed only with shares in it.
PurgeEtcWithShares ==
    /\ pc = "purgeEtc"
    /\ \/ /\ creds' = IF validated = {} THEN creds ELSE {}
          /\ roots' = IF validated = {} THEN roots ELSE roots \ {"etc"}
          /\ Proceed("purgeIds")
       \/ UNCHANGED <<creds, roots>> /\ FailTo("reply")
    /\ UNCHANGED <<mountHalf, autoHalf, dir, idRec, systemdVars, validated>>

\* durableRemoveTree: entry by entry, then the directory; a failure keeps
\* the directory with what is left in it, or comes after its rmdir.
PurgeEtc ==
    /\ pc = "purgeEtc"
    /\ \/ creds' = {} /\ roots' = roots \ {"etc"} /\ (Proceed("purgeIds") \/ FailTo("reply"))
       \/ creds' \in SUBSET creds /\ UNCHANGED roots /\ FailTo("reply")
    /\ UNCHANGED <<mountHalf, autoHalf, dir, idRec, systemdVars, validated>>

PurgeIds ==
    /\ pc = "purgeIds"
    /\ \/ /\ idRec' = [u \in Units |-> 0] /\ roots' = roots \ {"ids"}
          /\ Proceed("purgeRun") \/ FailTo("reply")
       \/ /\ \E U \in SUBSET Units : idRec' = [u \in Units |-> IF u \in U THEN 0 ELSE idRec[u]]
          /\ UNCHANGED roots /\ FailTo("reply")
    /\ UNCHANGED <<durableVars, systemdVars, validated>>

PurgeRun ==
    /\ pc = "purgeRun"
    /\ \/ roots' = roots \ {"run"} /\ pc' = "reply" /\ call' = [call EXCEPT !.ok = TRUE]
       \/ roots' \in {roots, roots \ {"run"}} /\ FailTo("reply")
    /\ UNCHANGED <<hostVars, validated>>

PurgeRoots == PurgeEtc \/ PurgeIds \/ PurgeRun

-------------------------------------------------------------------------------
(* The directories the other steps make on demand.                         *)

\* createAndVerifyDir comes first in every step on a credential or a record.
Touched ==
    CASE pc \in {"writeCredential", "removeCredential", "checkCredential", "purgeCredential"} -> {"etc"}
      [] pc = "cleanCredential" /\ call.credMayExist -> {"etc"}
      [] pc \in {"recordId", "forgetId", "cleanId", "removeId", "purgeId"} -> {"ids"}
      [] OTHER -> {}

\* A call the helper refuses, or inventory, which asks after the health of
\* the credentials: no more than the directories it makes in passing.
RefusedOrInventory ==
    /\ pc = "idle"
    /\ \/ roots' = roots \cup {"run"}
       \/ (\E u \in Units : Marked(u)) /\ roots' = roots \cup {"run", "etc"}
    /\ UNCHANGED <<vars, validated>>

-------------------------------------------------------------------------------
PeerBegin == Begin /\ call'.op \in Peers

\* A root program begins: it makes the directory of the lock first.
AnyBegin ==
    \/ PeerBegin /\ roots' = roots \cup {"run"} /\ UNCHANGED validated
    \/ PurgeBegin /\ roots' = roots \cup {"run"}
    \/ RefusedOrInventory

\* It goes on or is killed, or something happens around it.
WorkOn ==
    \/ Step /\ roots' = roots \cup Touched /\ validated' = IF pc' = "idle" THEN {} ELSE validated
    \/ PurgeShares /\ roots' = roots \cup Touched
    \/ PurgeRoots
    \/ Crash /\ validated' = {} /\ UNCHANGED roots
    \/ Environment /\ UNCHANGED <<roots, validated>>

PurgeReboot == Reboot /\ roots' = roots \ {"run", "ids"} /\ validated' = {}

PurgeNext == AnyBegin \/ WorkOn \/ PurgeReboot

PurgeSpec == PurgeInit /\ [][PurgeNext]_allVars

-------------------------------------------------------------------------------
(* What callers of the helper see, purge included.                         *)

PurgeStage ==
    CASE pc = "purgeAutomount" -> "automount"
      [] pc = "reply"          -> "finish"
      [] OTHER                 -> "sent"

PurgeView ==
    IF call.op # "purge" THEN HelperView
    ELSE IF pc = "reply" /\ ~call.ok THEN NoJob
    ELSE Job("purge", PurgeStage, IF pc = "purgeAutomount" THEN call.u ELSE "no unit", NoFile)

PP == INSTANCE HelperPromise WITH helper <- PurgeView

-------------------------------------------------------------------------------
(* Properties.                                                             *)

\* A purge that was reported successful left nothing of nasmount's behind,
\* whatever earlier calls, and earlier purges, had failed or been killed in
\* the middle: no unit half, secret, record or directory, and nothing live
\* or in PID 1's memory but what the administrator started.
PurgeComplete ==
    pc = "reply" /\ call.op = "purge" /\ call.ok =>
        /\ creds = {} /\ roots = {}
        /\ \A u \in Units : /\ ~Marked(u) /\ idRec[u] = 0 /\ trig[u].by # "tool"
                            /\ loaded[u] \in Ids => trig[u].by = "admin"

\* From the first deletion to the last nothing is live at any mount point
\* the purge is about, not only at the one whose files it deletes.
PurgeIsQuiet ==
    pc \in DeletePcs => \A u \in validated : ~Armed(u) /\ ~Occupied(u)

\* A purge, too, takes the halves of one owned share after the other, only
\* when nothing nasmount cannot vouch for is among them, and reports success
\* only when none is left.
PurgeKeepsPromise == PP!Promise
===============================================================================
