---------------------------- MODULE RootLockProofs ----------------------------
(***************************************************************************)
(* What the root lock does for any number of programs and inodes: it       *)
(* implements module Mutex among those that found the same file, and       *)
(* nothing but a purge takes it from a holder; so without a purge, and     *)
(* only then (run lock_purged), no two operations interleave.              *)
(***************************************************************************)
EXTENDS RootLock, TLAPS

\* A holder's flock() is on the file it has open, and only purgers purge.
LockInv ==
    /\ TypeOK
    /\ \A p \in Programs : pc[p] \in Holding => flocked[fd[p]] = p
    /\ \A p \in Programs : pc[p] \in Holding \ {"holds"} => p \in Purgers

\* One step of the lock is one of the mutex's or none.
LockStepOK ==
    /\ LockInv'
    /\ [LockMutex!Next]_Inside
    /\ \A p \in Inside \ Inside' : p \notin Holders' \/ \E q \in Purgers : pc[q] = "unlinkFile"

\* Before anything runs.
LEMMA LockInit == Init => LockInv /\ Inside = {}
  BY DEF Init, LockInv, TypeOK, Pcs, Holding, Inside, Holders

\* One program inside at a time.
LEMMA InsideUnique == LockInv => \A p, q \in Inside : p = q
  BY DEF LockInv, Inside, Holders

\* A file's flock() is granted to a program only when nobody has it.
LEMMA FlockStep == ASSUME LockInv, NEW p \in Programs, Flock(p) PROVE LockStepOK
  <1> USE RootLockAssumption DEF LockInv, TypeOK, Pcs, Holding
  <1>1. /\ pc[p] = "flock" /\ fd[p] \in Inodes /\ flocked[fd[p]] = Nobody
        /\ flocked' = [flocked EXCEPT ![fd[p]] = p] /\ pc' = [pc EXCEPT ![p] = "holds"]
        /\ UNCHANGED <<directory, lockFile, dirFd, fd>>
    BY DEF Flock, Goto, fsVars
  <1>2. LockInv'
    BY <1>1
  <1>3. Holders' = Holders \cup {p} /\ p \notin Holders
    BY <1>1 DEF Holders
  <1>4. CASE fd[p] = lockFile
    <2>1. Inside = {} /\ Inside' = {p}
      BY <1>1, <1>3, <1>4 DEF Inside, Holders
    <2> QED
      BY <1>2, <2>1 DEF LockStepOK, LockMutex!Next, LockMutex!Enter
  <1>5. CASE fd[p] # lockFile
    <2>1. Inside' = Inside
      BY <1>1, <1>3, <1>5 DEF Inside
    <2> QED
      BY <1>2, <2>1 DEF LockStepOK
  <1> QED
    BY <1>4, <1>5

\* Opening the directory or the file lets nobody in, and puts no file in
\* the place of one that is there.
LEMMA OpenStep ==
    ASSUME LockInv, NEW p \in Programs, OpenDirectory(p) \/ OpenLockFile(p)
    PROVE  LockStepOK
  <1> USE RootLockAssumption DEF LockInv, TypeOK, Pcs, Holding, Goto, Free, fsVars
  <1>1. CASE OpenDirectory(p)
    <2>1. directory' \in Inodes /\ LockInv'
      BY <1>1 DEF OpenDirectory
    <2>2. Inside' = Inside
      BY <1>1 DEF OpenDirectory, Inside, Holders
    <2> QED
      BY <2>1, <2>2 DEF LockStepOK
  <1>2. CASE OpenLockFile(p)
    <2>1. lockFile' \in Inodes /\ (lockFile # NoInode => lockFile' = lockFile)
      BY <1>2 DEF OpenLockFile
    <2>2. LockInv'
      BY <1>2, <2>1 DEF OpenLockFile
    <2>3. Holders' = Holders /\ \A q \in Holders : fd'[q] = fd[q]
      BY <1>2 DEF OpenLockFile, Holders
    <2>4. lockFile = NoInode => \A q \in Programs : fd[q] # lockFile'
      BY <1>2 DEF OpenLockFile
    <2>5. Inside' = Inside
      BY <2>1, <2>3, <2>4 DEF Inside, Holders
    <2> QED
      BY <2>2, <2>5 DEF LockStepOK
  <1> QED
    BY <1>1, <1>2

\* Whichever way a program ends, only its own lock goes.
LEMMA ExitStep == ASSUME LockInv, NEW p \in Programs, Exit(p) PROVE LockStepOK
  <1> USE RootLockAssumption DEF LockInv, TypeOK, Pcs, Holding, Goto, fsVars
  <1>1. /\ pc' = [pc EXCEPT ![p] = "idle"] /\ UNCHANGED <<directory, lockFile>>
        /\ \A q \in Programs \ {p} : dirFd'[q] = dirFd[q] /\ fd'[q] = fd[q]
        /\ \A n \in Inodes : flocked[n] # p => flocked'[n] = flocked[n]
    BY DEF Exit
  <1>2. TypeOK'
    BY DEF Exit
  <1>3. LockInv'
    BY <1>1, <1>2
  <1>4. Holders' = Holders \ {p}
    BY <1>1 DEF Holders
  <1>5. Inside' = Inside \ {p}
    BY <1>1, <1>4 DEF Inside, Holders
  <1>6. CASE p \in Inside
    <2>1. Inside = {p} /\ Inside' = {}
      BY <1>5, <1>6, InsideUnique
    <2> QED
      BY <1>3, <1>4, <1>5, <2>1 DEF LockStepOK, LockMutex!Next, LockMutex!Leave
  <1>7. CASE p \notin Inside
    BY <1>3, <1>5, <1>7 DEF LockStepOK
  <1> QED
    BY <1>6, <1>7

\* A purge's unlink leaves its own lock, and everybody's, on a file nobody
\* will find: the one inside counts as having left.
LEMMA PurgeStep == ASSUME LockInv, NEW p \in Programs, Purge(p) PROVE LockStepOK
  <1> USE RootLockAssumption DEF LockInv, TypeOK, Pcs, Holding, Goto, fsVars
  <1>1. Holders' = Holders /\ UNCHANGED <<flocked, fd>>
    BY DEF Purge, OpenTree, UnlinkFile, RemoveDir, Holders
  <1>2. LockInv'
    BY DEF Purge, OpenTree, UnlinkFile, RemoveDir
  <1>3. CASE lockFile' = lockFile
    <2>1. Inside' = Inside
      BY <1>1, <1>3 DEF Inside
    <2> QED
      BY <1>2, <2>1 DEF LockStepOK
  <1>4. CASE lockFile' # lockFile
    <2>1. p \in Purgers /\ pc[p] = "unlinkFile" /\ lockFile' = NoInode
      <3>1. UnlinkFile(p)
        BY <1>4 DEF Purge, OpenTree, RemoveDir
      <3> QED
        BY <3>1, <1>4 DEF UnlinkFile
    <2>2. Inside' = {}
      BY <1>1, <2>1 DEF Inside, Holders
    <2>3. Inside = {} \/ \E q \in Programs : Inside = {q}
      BY InsideUnique DEF Inside, Holders
    <2> QED
      BY <1>2, <2>1, <2>2, <2>3 DEF LockStepOK, LockMutex!Next, LockMutex!Leave
  <1> QED
    BY <1>3, <1>4

\* Every step.
LEMMA LockStep == ASSUME LockInv, [Next]_vars PROVE LockStepOK
  <1>1. CASE UNCHANGED vars
    BY <1>1 DEF LockStepOK, LockInv, TypeOK, vars, fsVars, Inside, Holders
  <1>2. ASSUME NEW p \in Programs, Acquire(p) PROVE LockStepOK
    BY <1>2, FlockStep, OpenStep DEF Acquire
  <1>3. ASSUME NEW p \in Programs, Fail(p) \/ Release(p) \/ Crash(p) PROVE LockStepOK
    BY <1>3, ExitStep DEF Fail, Release, Crash
  <1>4. ASSUME NEW p \in Programs, Purge(p) PROVE LockStepOK
    BY <1>4, PurgeStep
  <1> QED
    BY <1>1, <1>2, <1>3, <1>4 DEF Next

\* The inductive invariant holds throughout.
LEMMA LockInvariant == Spec => []LockInv
  <1>1. Init => LockInv
    BY LockInit
  <1>2. LockInv /\ [Next]_vars => LockInv'
    BY LockStep DEF LockStepOK
  <1> QED
    BY <1>1, <1>2, PTL DEF Spec

\* The lock implements the mutual exclusion that module Operations builds
\* on: a program enters only when none is inside, and they leave one by one.
THEOREM LockRefinesMutex == Spec => RefinesMutex
  <1>1. Init => LockMutex!Init
    BY LockInit DEF LockMutex!Init
  <1>2. LockInv /\ [Next]_vars => [LockMutex!Next]_Inside
    BY LockStep DEF LockStepOK
  <1> QED
    BY <1>1, <1>2, LockInvariant, PTL DEF Spec, RefinesMutex, LockMutex!Spec

\* Only a purge takes the lock file from under its holder.
THEOREM LockHeld == Spec => LockKept
  <1>1. LockInv /\ [Next]_vars =>
          [\A p \in Inside \ Inside' :
               p \notin Holders' \/ \E q \in Purgers : pc[q] = "unlinkFile"]_vars
    BY LockStep DEF LockStepOK
  <1> QED
    BY <1>1, LockInvariant, PTL DEF Spec, LockKept

-------------------------------------------------------------------------------
(* Nobody purges.                                                          *)

\* Every program past open() has the one lock file open.
SameFile ==
    /\ \A p \in Programs : pc[p] \in {"idle", "openFile", "flock", "holds"}
    /\ \A p \in Programs : pc[p] \in {"flock", "holds"} => fd[p] = lockFile /\ lockFile \in Inodes

\* Without an unlink the file a program opened stays the file.
LEMMA SameFileStep == ASSUME Purgers = {}, LockInv, SameFile, [Next]_vars PROVE SameFile'
  <1> USE RootLockAssumption DEF LockInv, TypeOK, SameFile, Goto, fsVars
  <1>1. CASE UNCHANGED vars
    BY <1>1 DEF vars
  <1>2. ASSUME NEW p \in Programs, Acquire(p) PROVE SameFile'
    <2>1. CASE OpenDirectory(p)
      BY <2>1 DEF OpenDirectory
    <2>2. CASE OpenLockFile(p)
      <3>1. lockFile' \in Inodes /\ (lockFile # NoInode => lockFile' = lockFile)
        BY <2>2 DEF OpenLockFile, Free
      <3> QED
        BY <2>2, <3>1 DEF OpenLockFile
    <2>3. CASE Flock(p)
      BY <2>3 DEF Flock
    <2> QED
      BY <1>2, <2>1, <2>2, <2>3 DEF Acquire
  <1>3. ASSUME NEW p \in Programs, Fail(p) \/ Release(p) \/ Crash(p) PROVE SameFile'
    BY <1>3 DEF Fail, Release, Crash, Exit
  <1>4. ASSUME NEW p \in Programs, Purge(p) PROVE FALSE
    BY <1>4 DEF Purge, OpenTree, UnlinkFile, RemoveDir
  <1> QED
    BY <1>1, <1>2, <1>3, <1>4 DEF Next

\* No two privileged operations are ever under way at once when none of
\* them is a purge.
THEOREM LockExcludes == ASSUME Purgers = {} PROVE Spec => []NeverInterleave
  <1>1. Init => SameFile
    BY DEF Init, SameFile
  <1>2. LockInv /\ SameFile /\ [Next]_vars => SameFile'
    BY SameFileStep
  <1>3. LockInv /\ SameFile => NeverInterleave
    BY DEF LockInv, SameFile, NeverInterleave, Holding
  <1> QED
    BY <1>1, <1>2, <1>3, LockInvariant, PTL DEF Spec
===============================================================================
