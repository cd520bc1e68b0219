------------------------------ MODULE PackageGuard ------------------------------
(***************************************************************************)
(* nasmount-package-guard (src/src/core/packagestate.cpp and               *)
(* src/src/packageguard/main.cpp) among the root programs of module Purge. *)
(* It takes no lock.  It reads the unit files one after the other and      *)
(* looks for the three directories one after the other, and says with its  *)
(* exit status whether the package may go; the programs go later, when the *)
(* package manager gets to it, and until then helpers still start.  A call *)
(* under way then runs on.                                                 *)
(***************************************************************************)
EXTENDS Purge

VARIABLES guard,   \* where the guard is: idle, at the unit files, at the next directory, ...
          unread,  \* the unit files it has listed and not read yet
          late     \* auxiliary: where a define began since it looked for the lock's directory

guardVars   == <<guard, unread, late>>
guardedVars == <<allVars, guardVars>>

Halves == {"mount", "automount"} \X Units

Content(half) == IF half[1] = "mount" THEN mountHalf[half[2]] ELSE autoHalf[half[2]]

GuardedInit == PurgeInit /\ guard = "idle" /\ unread = {} /\ late = {}

-------------------------------------------------------------------------------
(* PackageState::classify.                                                 *)

\* QDir::entryInfoList: the names that are there now.
GuardListUnits ==
    /\ guard = "idle" /\ guard' = "units"
    /\ unread' = {half \in Halves : Content(half) # NoFile}
    /\ late' = {}

\* A file without a marker is passed over; a damaged one may have lost it.
GuardReadUnit(half) ==
    /\ guard = "units" /\ half \in unread
    /\ Content(half) \in {Alien, Broken}
    /\ unread' = unread \ {half}
    /\ UNCHANGED <<guard, late>>

GuardReadAll ==
    /\ guard = "units" /\ unread = {} /\ guard' = "etc"
    /\ UNCHANGED <<unread, late>>

\* Mutant: the volatile directory with the lock is no state.
GuardCheckRootNotTheLock ==
    /\ guard \in Roots
    /\ guard' = IF guard \in roots \ {"run"} THEN "idle" ELSE [etc |-> "run", run |-> "ids", ids |-> "allowed"][guard]
    /\ UNCHANGED <<unread, late>>

\* One stat: the directory is there and the guard refuses, or the next one.
GuardCheckRoot ==
    /\ guard \in Roots
    /\ guard' = IF guard \in roots THEN "idle" ELSE [etc |-> "run", run |-> "ids", ids |-> "allowed"][guard]
    /\ UNCHANGED <<unread, late>>

\* A marker, a damaged or large file, one that cannot be read or is gone; or
\* the package manager does not go on.
GuardRefuses ==
    /\ guard \notin {"idle", "removed"} /\ guard' = "idle"
    /\ UNCHANGED <<unread, late>>

\* The package manager, after exit status 0.
RemovePrograms ==
    /\ guard = "allowed" /\ guard' = "removed"
    /\ UNCHANGED <<unread, late>>

Guard ==
    GuardListUnits \/ (\E half \in Halves : GuardReadUnit(half)) \/ GuardReadAll \/ GuardCheckRoot
    \/ GuardRefuses \/ RemovePrograms

-------------------------------------------------------------------------------
\* A program begins while it is installed; where a define does so behind the
\* guard's back is remembered.
GuardedBegin ==
    /\ guard # "removed" /\ AnyBegin
    /\ late' = IF guard \in {"ids", "allowed"} /\ call'.op = "define" THEN late \cup {call'.u} ELSE late
    /\ UNCHANGED <<guard, unread>>

\* The guard does not outlive a reboot; what was removed stays removed.
GuardedReboot ==
    /\ PurgeReboot
    /\ IF guard = "removed" THEN UNCHANGED guardVars ELSE guard' = "idle" /\ unread' = {} /\ late' = {}

GuardedNext ==
    \/ GuardedBegin
    \/ WorkOn /\ UNCHANGED guardVars
    \/ GuardedReboot
    \/ Guard /\ UNCHANGED allVars

GuardedSpec == GuardedInit /\ [][GuardedNext]_guardedVars

-------------------------------------------------------------------------------
(* Properties.                                                             *)

GuardTypeOK ==
    /\ guard \in {"idle", "units", "allowed", "removed"} \cup Roots
    /\ unread \subseteq Halves
    /\ late \subseteq Units

\* What the guard's successive looks amount to, although anything may run
\* between them and until the programs are gone: but for shares whose define
\* began after the look for /run/nasmount, nothing of nasmount's is left
\* behind, on disk, on record or live, and no define is at work.  (Calls are
\* taken one after the other here; one that waits for the lock while a purge
\* unlinks the lock's directory is the matter of RootLock.)
RemovalOrphansNothing ==
    guard \in {"allowed", "removed"} =>
        /\ \A u \in Units \ late : ~Marked(u) /\ idRec[u] = 0 /\ trig[u].by # "tool"
        /\ late = {} => creds = {} /\ roots \subseteq {"run"}
        /\ call.op = "define" /\ pc # "reply" => call.u \in late
===============================================================================
