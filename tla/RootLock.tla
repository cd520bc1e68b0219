------------------------------- MODULE RootLock -------------------------------
(***************************************************************************)
(* The lock every privileged program takes: src/src/root/rootlock.cpp, an  *)
(* flock() on /run/nasmount/helper.lock, whose directory any of them       *)
(* creates on demand (durablefs.cpp) and a purge removes while it holds    *)
(* the lock (operations.cpp).  One action per system call.                 *)
(***************************************************************************)
CONSTANTS Programs,   \* concurrent invocations of nasmount-helper and nasmount-boot
          Purgers,    \* those of them that run Operations::purge
          Nobody,     \* not a program
          Inodes,     \* of the tmpfs /run, free ones being used again
          NoInode

ASSUME RootLockAssumption ==
    /\ Purgers \subseteq Programs /\ Nobody \notin Programs
    /\ NoInode \notin Inodes

VARIABLES directory,   \* inode of /run/nasmount, or NoInode
          lockFile,    \* inode of helper.lock in it, or NoInode
          flocked,     \* [inodes -> the program whose flock() is on it]
          pc,          \* [Programs -> where the program is]
          dirFd,       \* [Programs -> inode its directory descriptor is open on]
          fd           \* [Programs -> inode its lock descriptor is open on]

fsVars == <<directory, lockFile>>
vars   == <<fsVars, flocked, pc, dirFd, fd>>

Holding == {"holds", "unlinkFile", "removeDir", "purged"}
Pcs     == {"idle", "openFile", "flock"} \cup Holding

TypeOK ==
    /\ {directory, lockFile} \subseteq Inodes \cup {NoInode}
    /\ flocked \in [Inodes -> Programs \cup {Nobody}]
    /\ pc \in [Programs -> Pcs]
    /\ dirFd \in [Programs -> Inodes \cup {NoInode}]
    /\ fd \in [Programs -> Inodes \cup {NoInode}]
    /\ \A p \in Programs : /\ pc[p] = "openFile" => dirFd[p] \in Inodes
                          /\ pc[p] \in {"flock"} \cup Holding => fd[p] \in Inodes

\* /run is a tmpfs: nothing is there when the machine comes up.
Init ==
    /\ directory = NoInode /\ lockFile = NoInode
    /\ flocked = [n \in Inodes |-> Nobody]
    /\ pc = [p \in Programs |-> "idle"]
    /\ dirFd = [p \in Programs |-> NoInode] /\ fd = [p \in Programs |-> NoInode]

\* An inode lives while a name or a descriptor refers to it.
Free == {n \in Inodes : /\ n \notin {directory, lockFile}
                        /\ \A p \in Programs : n \notin {dirFd[p], fd[p]}}

Goto(p, label) == pc' = [pc EXCEPT ![p] = label]

-------------------------------------------------------------------------------
(* RootLock::acquire.                                                      *)

\* createAndVerifyDir: mkdirat, EEXIST is fine, then open what is there.
OpenDirectory(p) ==
    /\ pc[p] = "idle"
    /\ IF directory = NoInode THEN directory' \in Free ELSE UNCHANGED directory
    /\ dirFd' = [dirFd EXCEPT ![p] = directory']
    /\ Goto(p, "openFile")
    /\ UNCHANGED <<lockFile, flocked, fd>>

\* Mutant: each program installs a lock file of its own.
OpenLockFileAnew(p) ==
    /\ pc[p] = "openFile" /\ dirFd[p] = directory
    /\ lockFile' \in Free
    /\ fd' = [fd EXCEPT ![p] = lockFile']
    /\ Goto(p, "flock")
    /\ UNCHANGED <<directory, flocked, dirFd>>

\* openat(O_CREAT) fails in a directory that was removed meanwhile.
OpenLockFile(p) ==
    /\ pc[p] = "openFile" /\ dirFd[p] = directory
    /\ IF lockFile = NoInode THEN lockFile' \in Free ELSE UNCHANGED lockFile
    /\ fd' = [fd EXCEPT ![p] = lockFile']
    /\ Goto(p, "flock")
    /\ UNCHANGED <<directory, flocked, dirFd>>

\* Mutant: a failing flock() goes unnoticed.
FlockUnchecked(p) ==
    /\ pc[p] = "flock"
    /\ flocked' = [flocked EXCEPT ![fd[p]] = IF @ = Nobody THEN p ELSE @]
    /\ Goto(p, "holds")
    /\ UNCHANGED <<fsVars, dirFd, fd>>

\* flock(LOCK_EX) blocks on the inode, whatever name it still has.
Flock(p) ==
    /\ pc[p] = "flock" /\ flocked[fd[p]] = Nobody
    /\ flocked' = [flocked EXCEPT ![fd[p]] = p]
    /\ Goto(p, "holds")
    /\ UNCHANGED <<fsVars, dirFd, fd>>

\* The program is done, or one of acquire()'s system calls failed.
Exit(p) ==
    /\ flocked' = [n \in Inodes |-> IF flocked[n] = p THEN Nobody ELSE flocked[n]]
    /\ Goto(p, "idle")
    /\ dirFd' = [dirFd EXCEPT ![p] = NoInode] /\ fd' = [fd EXCEPT ![p] = NoInode]
    /\ UNCHANGED fsVars

Fail(p) == pc[p] \in {"openFile", "flock"} /\ Exit(p)

\* Mutant: the helper, which goes on serving calls, does not unlock.
ReleaseLeaking(p) ==
    /\ pc[p] \in {"holds", "purged"}
    /\ Goto(p, "idle")
    /\ UNCHANGED <<fsVars, flocked, dirFd, fd>>

\* ~RootLock: LOCK_UN and close at the end of the operation.
Release(p) == pc[p] \in {"holds", "purged"} /\ Exit(p)

-------------------------------------------------------------------------------
(* The end of Operations::purge: durableRemoveTree(/run, "nasmount").      *)

OpenTree(p) ==
    /\ p \in Purgers /\ pc[p] = "holds" /\ directory # NoInode
    /\ dirFd' = [dirFd EXCEPT ![p] = directory]
    /\ Goto(p, "unlinkFile")
    /\ UNCHANGED <<fsVars, flocked, fd>>

\* The readdir loop removes every entry, the lock file included.
UnlinkFile(p) ==
    /\ pc[p] = "unlinkFile"
    /\ lockFile' = IF dirFd[p] = directory THEN NoInode ELSE lockFile
    /\ Goto(p, "removeDir")
    /\ UNCHANGED <<directory, flocked, dirFd, fd>>

\* rmdir by name fails when an entry has appeared again.
RemoveDir(p) ==
    /\ pc[p] = "removeDir"
    /\ directory' = IF lockFile = NoInode THEN NoInode ELSE directory
    /\ Goto(p, "purged")
    /\ UNCHANGED <<lockFile, flocked, dirFd, fd>>

-------------------------------------------------------------------------------
\* Killed at any point: the kernel closes its descriptors.
Crash(p) == pc[p] # "idle" /\ Exit(p)

Acquire(p) == OpenDirectory(p) \/ OpenLockFile(p) \/ Flock(p)
Purge(p)   == OpenTree(p) \/ UnlinkFile(p) \/ RemoveDir(p)

Next == \E p \in Programs : Acquire(p) \/ Fail(p) \/ Release(p) \/ Purge(p) \/ Crash(p)

Spec == Init /\ [][Next]_vars

\* A program that has begun goes on, and an operation ends (module
\* Operations, CallsReturn).
FairSpec ==
    /\ Spec
    /\ \A p \in Programs : /\ WF_vars(OpenLockFile(p) \/ Flock(p))
                           /\ WF_vars(Release(p) \/ UnlinkFile(p) \/ RemoveDir(p))

-------------------------------------------------------------------------------
(* Properties.                                                             *)

Holders == {p \in Programs : pc[p] \in Holding}

\* The holders of the file the next program will find.
Inside == {p \in Holders : fd[p] = lockFile}

\* The lock implements the mutual exclusion module Operations takes for
\* granted, purges or not, among the programs that found the same file: one
\* enters only when nobody is inside, one leaves at a time (rootlock.h).
LockMutex == INSTANCE Mutex WITH inside <- Inside
RefinesMutex == LockMutex!Spec

\* Nothing but a purge's unlink takes the lock from under a program that
\* holds it (rootlock.cpp never replaces the file).
LockKept ==
    [][\A p \in Inside \ Inside' :
           p \notin Holders' \/ \E q \in Purgers : pc[q] = "unlinkFile"]_vars

\* rootlock.h, with a purge among the callers: "a boot arming pass and a
\* helper call can never interleave".
NeverInterleave == \A p, q \in Programs : pc[p] = "holds" /\ pc[q] = "holds" => p = q

\* A program killed while it holds the lock does not lock the others out:
\* whenever one waits, it or another is let in, or gives up.
WaiterNotStuck ==
    \A p \in Programs : pc[p] = "flock" ~> (Holders # {} \/ pc[p] # "flock")
===============================================================================
