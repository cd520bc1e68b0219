------------------------------- MODULE DurableFs -------------------------------
(***************************************************************************)
(* The crash-durable primitives of src/src/root/durablefs.cpp as           *)
(* credentialstore.cpp and runtimefiles.cpp use them: one private          *)
(* directory that is created on demand, one file name in it, one caller at *)
(* a time (module RootLock).  One action per system call that changes      *)
(* something; the program may be killed and the machine lose power at any  *)
(* point.  External, as POSIX has it: what has not been fsynced may or may *)
(* not survive, and a file's data is its own matter.                       *)
(***************************************************************************)
EXTENDS Integers

CONSTANTS Contents,   \* what callers write under the name
          Missing,    \* no such file
          Torn,       \* a file whose data did not reach the disk
          MaxTemps    \* bound on the temporary files left behind

ASSUME DurableFsAssumption ==
    /\ {Missing, Torn} \cap Contents = {} /\ Missing # Torn
    /\ MaxTemps \in Nat \ {0}

VARIABLES dir,        \* whether the directory exists
          dirOnDisk,  \* whether it may, and may not, exist after a power loss
          file,       \* what the name holds
          fileOnDisk, \* what the name may hold after a power loss
          temps,      \* number of temporary files with data in them
          tempsOnDisk, \* how many of them a power loss may leave
          pc,
          call        \* operation, argument, whether its own data is synced, outcome

diskVars == <<dir, dirOnDisk, file, fileOnDisk, temps, tempsOnDisk>>
vars     == <<diskVars, pc, call>>

OpenPcs    == {"mkdir", "syncParent", "open"}
ReplacePcs == {"createTemp", "write", "syncTemp", "rename", "abandon"}
TreePcs    == {"clear", "syncCleared", "rmdir", "syncRemoved"}
Pcs        == {"idle", "unlink", "syncDir", "reply"} \cup OpenPcs \cup ReplacePcs \cup TreePcs

FileStates == Contents \cup {Missing, Torn}

NoCall == [op |-> "none", arg |-> Missing, synced |-> FALSE, ok |-> FALSE]

TypeOK ==
    /\ dir \in BOOLEAN /\ dirOnDisk \in SUBSET BOOLEAN
    /\ file \in FileStates /\ fileOnDisk \in SUBSET FileStates
    /\ temps \in 0..MaxTemps /\ tempsOnDisk \in 0..MaxTemps
    /\ pc \in Pcs
    /\ call \in [op : {"none", "replace", "unlink", "removeTree"}, arg : Contents \cup {Missing},
                 synced : BOOLEAN, ok : BOOLEAN]

Init ==
    /\ dir = FALSE /\ dirOnDisk = {FALSE}
    /\ file = Missing /\ fileOnDisk = {Missing}
    /\ temps = 0 /\ tempsOnDisk = 0
    /\ pc = "idle" /\ call = NoCall

Goto(label) == pc' = label /\ UNCHANGED call
Return(ok)  == pc' = "reply" /\ call' = [call EXCEPT !.ok = ok]

-------------------------------------------------------------------------------
(* Calls.                                                                  *)

BeginReplace(c) ==
    /\ pc = "idle" /\ pc' = "mkdir"
    /\ call' = [NoCall EXCEPT !.op = "replace", !.arg = c]
    /\ UNCHANGED diskVars

BeginUnlink ==
    /\ pc = "idle" /\ pc' = "mkdir"
    /\ call' = [NoCall EXCEPT !.op = "unlink"]
    /\ UNCHANGED diskVars

\* durableRemoveTree opens what is there; an absent directory is success.
BeginRemoveTree ==
    /\ pc = "idle"
    /\ pc' = IF dir THEN "clear" ELSE "reply"
    /\ call' = [NoCall EXCEPT !.op = "removeTree", !.ok = ~dir]
    /\ UNCHANGED diskVars

-------------------------------------------------------------------------------
(* createAndVerifyDir, which every replace and unlink goes through.        *)

\* Mutant: the parent is not synced.
MakeDirectoryUnsynced ==
    /\ pc = "mkdir"
    /\ \/ ~dir /\ dir' = TRUE /\ dirOnDisk' = dirOnDisk \cup {TRUE} /\ Goto("open")
       \/ dir /\ UNCHANGED <<dir, dirOnDisk>> /\ Goto("open")
       \/ UNCHANGED <<dir, dirOnDisk>> /\ Return(FALSE)
    /\ UNCHANGED <<file, fileOnDisk, temps, tempsOnDisk>>

MakeDirectory ==
    /\ pc = "mkdir"
    /\ \/ /\ ~dir
          /\ dir' = TRUE /\ dirOnDisk' = dirOnDisk \cup {TRUE}
          /\ Goto("syncParent")
       \/ dir /\ UNCHANGED <<dir, dirOnDisk>> /\ Goto("open")
       \/ UNCHANGED <<dir, dirOnDisk>> /\ Return(FALSE)
    /\ UNCHANGED <<file, fileOnDisk, temps, tempsOnDisk>>

\* fsync of the parent, only when this call made the directory.
SyncParent ==
    /\ pc = "syncParent"
    /\ \/ dirOnDisk' = {dir} /\ Goto("open")
       \/ UNCHANGED dirOnDisk /\ Return(FALSE)
    /\ UNCHANGED <<dir, file, fileOnDisk, temps, tempsOnDisk>>

Open ==
    /\ pc = "open"
    /\ \/ Goto(IF call.op = "replace" THEN "createTemp" ELSE "unlink")
       \/ Return(FALSE)
    /\ UNCHANGED diskVars

-------------------------------------------------------------------------------
(* durableReplace.                                                         *)

CreateTemp ==
    /\ pc = "createTemp"
    /\ \/ temps < MaxTemps /\ tempsOnDisk < MaxTemps /\ Goto("write")
       \/ Return(FALSE)
    /\ UNCHANGED diskVars

Write ==
    /\ pc = "write"
    /\ temps' = temps + 1 /\ tempsOnDisk' = tempsOnDisk + 1
    /\ Goto("syncTemp") \/ Goto("abandon")
    /\ UNCHANGED <<dir, dirOnDisk, file, fileOnDisk>>

\* Mutant: the data is left to the page cache.
SyncTempSkipped ==
    /\ pc = "syncTemp"
    /\ Goto("rename")
    /\ UNCHANGED diskVars

SyncTemp ==
    /\ pc = "syncTemp"
    /\ \/ pc' = "rename" /\ call' = [call EXCEPT !.synced = TRUE]
       \/ Goto("abandon")
    /\ UNCHANGED diskVars

Rename ==
    /\ pc = "rename"
    /\ \/ /\ file' = call.arg
          /\ fileOnDisk' = fileOnDisk \cup {IF call.synced THEN call.arg ELSE Torn}
          /\ temps' = temps - 1
          /\ Goto("syncDir")
       \/ UNCHANGED <<file, fileOnDisk, temps>> /\ Goto("abandon")
    /\ UNCHANGED <<dir, dirOnDisk, tempsOnDisk>>

\* Nobody looks at what this unlink returns.
Abandon ==
    /\ pc = "abandon"
    /\ temps' \in {temps, temps - 1}
    /\ Return(FALSE)
    /\ UNCHANGED <<dir, dirOnDisk, file, fileOnDisk, tempsOnDisk>>

\* Mutant: a failed fsync of the directory goes unnoticed.
SyncDirUnchecked ==
    /\ pc = "syncDir"
    /\ fileOnDisk' \in {{file}, fileOnDisk} /\ Return(TRUE)
    /\ UNCHANGED <<dir, dirOnDisk, file, temps, tempsOnDisk>>

\* fsync of the directory after the rename or the unlink.
SyncDir ==
    /\ pc = "syncDir"
    /\ \/ fileOnDisk' = {file} /\ tempsOnDisk' = temps /\ Return(TRUE)
       \/ UNCHANGED <<fileOnDisk, tempsOnDisk>> /\ Return(FALSE)
    /\ UNCHANGED <<dir, dirOnDisk, file, temps>>

-------------------------------------------------------------------------------
(* durableUnlink, always called with allowMissing.                         *)

Unlink ==
    /\ pc = "unlink"
    /\ \/ /\ file # Missing
          /\ file' = Missing /\ fileOnDisk' = fileOnDisk \cup {Missing}
          /\ Goto("syncDir")
       \/ file = Missing /\ UNCHANGED <<file, fileOnDisk>> /\ Return(TRUE)
       \/ UNCHANGED <<file, fileOnDisk>> /\ Return(FALSE)
    /\ UNCHANGED <<dir, dirOnDisk, temps, tempsOnDisk>>

-------------------------------------------------------------------------------
(* durableRemoveTree.                                                      *)

\* One entry at a time, in whatever order readdir lists them.
ClearEntry ==
    /\ pc = "clear"
    /\ \/ /\ file # Missing
          /\ file' = Missing /\ fileOnDisk' = fileOnDisk \cup {Missing}
          /\ UNCHANGED <<temps, pc, call>>
       \/ /\ temps > 0
          /\ temps' = temps - 1
          /\ UNCHANGED <<file, fileOnDisk, pc, call>>
       \/ file = Missing /\ temps = 0 /\ Goto("syncCleared") /\ UNCHANGED <<file, fileOnDisk, temps>>
       \/ Return(FALSE) /\ UNCHANGED <<file, fileOnDisk, temps>>
    /\ UNCHANGED <<dir, dirOnDisk, tempsOnDisk>>

\* Mutant: the cleared directory is not synced before it is unlinked.
SyncClearedSkipped ==
    /\ pc = "syncCleared"
    /\ Goto("rmdir")
    /\ UNCHANGED diskVars

SyncCleared ==
    /\ pc = "syncCleared"
    /\ \/ fileOnDisk' = {file} /\ tempsOnDisk' = temps /\ Goto("rmdir")
       \/ UNCHANGED <<fileOnDisk, tempsOnDisk>> /\ Return(FALSE)
    /\ UNCHANGED <<dir, dirOnDisk, file, temps>>

RemoveDirectory ==
    /\ pc = "rmdir"
    /\ \/ dir' = FALSE /\ dirOnDisk' = dirOnDisk \cup {FALSE} /\ Goto("syncRemoved")
       \/ UNCHANGED <<dir, dirOnDisk>> /\ Return(FALSE)
    /\ UNCHANGED <<file, fileOnDisk, temps, tempsOnDisk>>

SyncRemoved ==
    /\ pc = "syncRemoved"
    /\ \/ dirOnDisk' = {dir} /\ Return(TRUE)
       \/ UNCHANGED dirOnDisk /\ Return(FALSE)
    /\ UNCHANGED <<dir, file, fileOnDisk, temps, tempsOnDisk>>

-------------------------------------------------------------------------------
Reply == pc = "reply" /\ pc' = "idle" /\ call' = NoCall /\ UNCHANGED diskVars

Crash == pc # "idle" /\ pc' = "idle" /\ call' = NoCall /\ UNCHANGED diskVars

\* Each name is found again in one of the states it may have on disk.
PowerLoss ==
    /\ pc' = "idle" /\ call' = NoCall
    /\ dir' \in dirOnDisk /\ dirOnDisk' = {dir'}
    /\ file' \in (IF dir' THEN fileOnDisk ELSE {Missing}) /\ fileOnDisk' = {file'}
    /\ temps' \in (IF dir' THEN 0..tempsOnDisk ELSE {0}) /\ tempsOnDisk' = temps'

CreateAndVerifyDir == MakeDirectory \/ SyncParent \/ Open
DurableReplace     == CreateTemp \/ Write \/ SyncTemp \/ Rename \/ Abandon
DurableUnlink      == Unlink
DurableRemoveTree  == ClearEntry \/ SyncCleared \/ RemoveDirectory \/ SyncRemoved

Step ==
    \/ (\E c \in Contents : BeginReplace(c)) \/ BeginUnlink \/ BeginRemoveTree
    \/ CreateAndVerifyDir \/ DurableReplace \/ SyncDir \/ DurableUnlink \/ DurableRemoveTree

Next == Step \/ Reply \/ Crash \/ PowerLoss

Spec == Init /\ [][Next]_vars

-------------------------------------------------------------------------------
(* Properties.                                                             *)

\* Neither the name nor its state on disk is ever anything but one caller's
\* whole content or nothing, however the machine goes down.
NeverTorn == file # Torn /\ Torn \notin fileOnDisk

\* A replace that returned true put its content where a power loss cannot
\* take it back from the directory.
ReplaceDurable == pc = "reply" /\ call.op = "replace" /\ call.ok => fileOnDisk = {call.arg}

\* A cleared tree does not come back with a file in it: from the rmdir on
\* there is nothing left that a power loss could bring back.
TreeStaysEmpty == ~dir \/ pc = "rmdir" => fileOnDisk = {Missing} /\ tempsOnDisk = 0
===============================================================================
