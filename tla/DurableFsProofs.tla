--------------------------- MODULE DurableFsProofs ---------------------------
(***************************************************************************)
(* What the durable primitives keep, for any contents and any number of    *)
(* temporary files: no torn file, no lost replacement, no revived tree,    *)
(* through every failed system call, kill and power loss.                  *)
(***************************************************************************)
EXTENDS DurableHistory, TLAPS

\* Where a call is says what it is, what it has done and what is there.
CallOK ==
    /\ pc \in ReplacePcs => call.op = "replace"
    /\ pc \in OpenPcs \cup {"syncDir"} => call.op \in {"replace", "unlink"}
    /\ pc = "unlink" => call.op = "unlink"
    /\ pc \in TreePcs => call.op = "removeTree"
    /\ call.op = "replace" => call.arg \in Contents
    /\ pc = "rename" => call.synced
    /\ pc = "syncDir" /\ call.op = "replace" => file = call.arg

PlaceOK ==
    /\ pc \in {"syncParent", "open", "unlink", "syncDir", "clear", "syncCleared", "rmdir"} \cup ReplacePcs => dir
    /\ pc = "syncRemoved" => ~dir
    /\ pc \in {"syncCleared", "rmdir"} => file = Missing /\ temps = 0
    /\ pc = "write" => temps < MaxTemps /\ tempsOnDisk < MaxTemps
    /\ pc \in {"syncTemp", "rename", "abandon"} => temps > 0

\* The inductive invariant.
DiskInv == TypeOK /\ CallOK /\ PlaceOK /\ NeverTorn /\ ReplaceDurable /\ TreeStaysEmpty

\* What nothing that runs looks like.
LEMMA NoCallType ==
    /\ NoCall \in [op : {"none", "replace", "unlink", "removeTree"}, arg : Contents \cup {Missing},
                   synced : BOOLEAN, ok : BOOLEAN]
    /\ NoCall.op = "none" /\ ~NoCall.ok
  BY DEF NoCall

\* Before anything is there.
LEMMA DiskInit == Init => DiskInv
  <1> SUFFICES ASSUME Init PROVE DiskInv
    OBVIOUS
  <1>1. TypeOK
    <2>1. dir \in BOOLEAN /\ dirOnDisk \in SUBSET BOOLEAN
      BY Zenon DEF Init
    <2>2. 0 \in 0..MaxTemps
      BY DurableFsAssumption
    <2>3. file \in FileStates /\ fileOnDisk \in SUBSET FileStates /\ pc \in Pcs
      BY DEF Init, FileStates, Pcs
    <2> QED
      BY <2>1, <2>2, <2>3, NoCallType DEF Init, TypeOK
  <1>2. CallOK /\ PlaceOK
    BY NoCallType DEF Init, CallOK, PlaceOK, OpenPcs, ReplacePcs, TreePcs
  <1>3. NeverTorn /\ ReplaceDurable /\ TreeStaysEmpty
    BY DurableFsAssumption DEF Init, NeverTorn, ReplaceDurable, TreeStaysEmpty
  <1> QED
    BY <1>1, <1>2, <1>3 DEF DiskInv

\* An operation begins.
LEMMA BeginStep ==
    ASSUME DiskInv, (\E c \in Contents : BeginReplace(c)) \/ BeginUnlink \/ BeginRemoveTree
    PROVE  DiskInv'
  <1> USE DurableFsAssumption
      DEF DiskInv, TypeOK, CallOK, PlaceOK, NeverTorn, ReplaceDurable, TreeStaysEmpty, NoCall, FileStates,
          Pcs, OpenPcs, ReplacePcs, TreePcs, diskVars
  <1>1. ASSUME NEW c \in Contents, BeginReplace(c) PROVE DiskInv'
    BY <1>1 DEF BeginReplace
  <1>2. CASE BeginUnlink
    BY <1>2 DEF BeginUnlink
  <1>3. CASE BeginRemoveTree
    BY <1>3 DEF BeginRemoveTree
  <1> QED
    BY <1>1, <1>2, <1>3

\* createAndVerifyDir: everything after it happens in a directory.
LEMMA OpenStep == ASSUME DiskInv, CreateAndVerifyDir PROVE DiskInv'
  <1> USE DurableFsAssumption
      DEF DiskInv, TypeOK, CallOK, PlaceOK, NeverTorn, ReplaceDurable, TreeStaysEmpty, FileStates,
          Pcs, OpenPcs, ReplacePcs, TreePcs, diskVars, Goto, Return
  <1>1. CASE MakeDirectory
    BY <1>1 DEF MakeDirectory
  <1>2. CASE SyncParent
    BY <1>2 DEF SyncParent
  <1>3. CASE Open
    BY <1>3 DEF Open
  <1> QED
    BY <1>1, <1>2, <1>3 DEF CreateAndVerifyDir

\* durableReplace renames only what it has synced.
LEMMA ReplaceStep == ASSUME DiskInv, DurableReplace \/ SyncDir PROVE DiskInv'
  <1> USE DurableFsAssumption
      DEF DiskInv, TypeOK, CallOK, PlaceOK, NeverTorn, ReplaceDurable, TreeStaysEmpty, FileStates,
          Pcs, OpenPcs, ReplacePcs, TreePcs, diskVars, Goto, Return
  <1>1. CASE CreateTemp
    BY <1>1 DEF CreateTemp
  <1>2. CASE Write
    BY <1>2 DEF Write
  <1>3. CASE SyncTemp
    BY <1>3 DEF SyncTemp
  <1>4. CASE Rename
    BY <1>4 DEF Rename
  <1>5. CASE Abandon
    <2>1. temps' \in 0..MaxTemps
      BY <1>5 DEF Abandon
    <2> QED
      BY <1>5, <2>1 DEF Abandon
  <1>6. CASE SyncDir
    BY <1>6 DEF SyncDir
  <1> QED
    BY <1>1, <1>2, <1>3, <1>4, <1>5, <1>6 DEF DurableReplace

\* durableUnlink and durableRemoveTree: the tree is empty, on disk too,
\* before its name goes.
LEMMA RemoveStep == ASSUME DiskInv, DurableUnlink \/ DurableRemoveTree PROVE DiskInv'
  <1> USE DurableFsAssumption
      DEF DiskInv, TypeOK, CallOK, PlaceOK, NeverTorn, ReplaceDurable, TreeStaysEmpty, FileStates,
          Pcs, OpenPcs, ReplacePcs, TreePcs, diskVars, Goto, Return
  <1>1. CASE Unlink
    BY <1>1 DEF Unlink
  <1>2. CASE ClearEntry
    <2>1. temps' \in 0..MaxTemps
      BY <1>2 DEF ClearEntry
    <2>2. TypeOK'
      BY <1>2, <2>1 DEF ClearEntry
    <2>3. CallOK' /\ PlaceOK'
      BY <1>2 DEF ClearEntry
    <2>4. NeverTorn' /\ ReplaceDurable' /\ TreeStaysEmpty'
      BY <1>2 DEF ClearEntry
    <2> QED
      BY <2>2, <2>3, <2>4
  <1>3. CASE SyncCleared
    BY <1>3 DEF SyncCleared
  <1>4. CASE RemoveDirectory
    BY <1>4 DEF RemoveDirectory
  <1>5. CASE SyncRemoved
    BY <1>5 DEF SyncRemoved
  <1> QED
    BY <1>1, <1>2, <1>3, <1>4, <1>5 DEF DurableUnlink, DurableRemoveTree

\* The call ends, the program is killed, or the power goes.
LEMMA EndStep == ASSUME DiskInv, Reply \/ Crash \/ PowerLoss \/ UNCHANGED vars PROVE DiskInv'
  <1> USE DurableFsAssumption
      DEF DiskInv, TypeOK, CallOK, PlaceOK, NeverTorn, ReplaceDurable, TreeStaysEmpty, FileStates,
          Pcs, OpenPcs, ReplacePcs, TreePcs, diskVars
  <1>1. CASE Reply \/ Crash
    BY <1>1, NoCallType DEF Reply, Crash
  <1>2. CASE PowerLoss
    BY <1>2, NoCallType DEF PowerLoss
  <1>3. CASE UNCHANGED vars
    BY <1>3 DEF vars
  <1> QED
    BY <1>1, <1>2, <1>3

\* The invariant holds throughout.
LEMMA DiskInvariant == Spec => []DiskInv
  <1>1. DiskInv /\ [Next]_vars => DiskInv'
    BY BeginStep, OpenStep, ReplaceStep, RemoveStep, EndStep DEF Next, Step
  <1> QED
    BY <1>1, DiskInit, PTL DEF Spec

\* A reader never finds half a file, and neither does the next boot.
THEOREM FilesWhole == Spec => []NeverTorn
  <1>1. DiskInv => NeverTorn
    BY DEF DiskInv
  <1> QED
    BY <1>1, DiskInvariant, PTL

\* What durableReplace reported written is what a power loss leaves.
THEOREM ReplacementsLast == Spec => []ReplaceDurable
  <1>1. DiskInv => ReplaceDurable
    BY DEF DiskInv
  <1> QED
    BY <1>1, DiskInvariant, PTL

\* A directory tree that was removed comes back empty if at all.
THEOREM RemovedTreesEmpty == Spec => []TreeStaysEmpty
  <1>1. DiskInv => TreeStaysEmpty
    BY DEF DiskInv
  <1> QED
    BY <1>1, DiskInvariant, PTL

-------------------------------------------------------------------------------
(* What a caller may take for certain.                                     *)

FailedReply == pc = "reply" /\ ~call.ok

\* While nothing has gone wrong, what is not yet certain is what the call
\* under way is still going to sync, or to report.
CleanInv ==
    clean =>
        /\ pc \in {"syncParent", "syncRemoved"} \/ FailedReply \/ dirOnDisk = {dir}
        /\ pc \in {"syncDir", "clear", "syncCleared"} \/ FailedReply \/ fileOnDisk = {file}
        /\ \/ pc \in {"syncTemp", "rename", "abandon", "syncDir", "clear", "syncCleared"}
           \/ FailedReply \/ tempsOnDisk = 0
        /\ pc \in {"syncTemp", "rename", "abandon"} \/ FailedReply \/ temps = 0
        /\ pc \in {"syncTemp", "rename"} => temps = 1

\* The steps of a call, apart from its end.
LEMMA CleanCall == ASSUME DiskInv, CleanInv, Step, UNCHANGED clean PROVE CleanInv'
  <1> USE DurableFsAssumption DEF CleanInv, FailedReply, diskVars, Goto, Return, NoCall
  <1>1. ASSUME NEW c \in Contents, BeginReplace(c) PROVE CleanInv'
    BY <1>1 DEF BeginReplace
  <1>2. CASE BeginUnlink \/ BeginRemoveTree
    BY <1>2 DEF BeginUnlink, BeginRemoveTree
  <1>3. CASE CreateAndVerifyDir
    <2>1. CASE MakeDirectory
      BY <2>1 DEF MakeDirectory, DiskInv, TypeOK
    <2>2. CASE SyncParent
      BY <2>2 DEF SyncParent, DiskInv, TypeOK
    <2>3. CASE Open
      BY <2>3 DEF Open, DiskInv, TypeOK
    <2> QED
      BY <1>3, <2>1, <2>2, <2>3 DEF CreateAndVerifyDir
  <1>4. CASE DurableReplace
    <2>1. CASE CreateTemp \/ Write
      BY <2>1 DEF CreateTemp, Write, DiskInv, TypeOK
    <2>2. CASE SyncTemp \/ Rename
      BY <2>2 DEF SyncTemp, Rename, DiskInv, TypeOK
    <2>3. CASE Abandon
      BY <2>3 DEF Abandon, DiskInv, TypeOK
    <2> QED
      BY <1>4, <2>1, <2>2, <2>3 DEF DurableReplace
  <1>5. CASE SyncDir
    BY <1>5 DEF SyncDir, DiskInv, TypeOK
  <1>6. CASE DurableUnlink
    BY <1>6 DEF DurableUnlink, Unlink, DiskInv, TypeOK
  <1>7. CASE DurableRemoveTree
    <2>1. CASE ClearEntry
      BY <2>1 DEF ClearEntry, DiskInv, TypeOK
    <2>2. CASE SyncCleared
      BY <2>2 DEF SyncCleared, DiskInv, TypeOK, PlaceOK
    <2>3. CASE RemoveDirectory \/ SyncRemoved
      BY <2>3 DEF RemoveDirectory, SyncRemoved, DiskInv, TypeOK
    <2> QED
      BY <1>7, <2>1, <2>2, <2>3 DEF DurableRemoveTree
  <1> QED
    BY <1>1, <1>2, <1>3, <1>4, <1>5, <1>6, <1>7 DEF Step

\* Every step of a call keeps CleanInv.
LEMMA CleanStep == ASSUME DiskInv, CleanInv, HNext PROVE CleanInv'
  <1>1. CASE Step /\ UNCHANGED clean
    BY <1>1, CleanCall
  <1>2. CASE Reply /\ clean' = (clean /\ call.ok)
    BY <1>2, NoCallType DEF Reply, CleanInv, FailedReply, diskVars, DiskInv, CallOK
  <1>3. CASE Crash /\ clean' = FALSE
    BY <1>3 DEF CleanInv
  <1>4. CASE PowerLoss /\ clean' = (temps' = 0)
    BY <1>4 DEF PowerLoss, CleanInv
  <1> QED
    BY <1>1, <1>2, <1>3, <1>4 DEF HNext

\* Between calls, what a power loss could undo was reported: a directory, a
\* replacement or an unlink that is not durable, and a copy of a secret that is
\* left behind, follow a call that failed or was killed (durablefs.cpp).
THEOREM NothingUnreported == HSpec => []DurableUnlessReported
  <1>1. HInit => DiskInv /\ CleanInv
    BY DiskInit DEF HInit, Init, CleanInv
  <1>2. DiskInv /\ CleanInv /\ [HNext]_history => DiskInv' /\ CleanInv'
    <2>1. ASSUME DiskInv, CleanInv, HNext PROVE DiskInv' /\ CleanInv'
      BY <2>1, CleanStep, BeginStep, OpenStep, ReplaceStep, RemoveStep, EndStep DEF HNext, Step
    <2>2. ASSUME DiskInv, CleanInv, UNCHANGED history PROVE DiskInv' /\ CleanInv'
      BY <2>2, EndStep DEF history, CleanInv, FailedReply, vars, diskVars
    <2> QED
      BY <2>1, <2>2
  <1>3. CleanInv => DurableUnlessReported
    BY DEF CleanInv, FailedReply, DurableUnlessReported
  <1> QED
    BY <1>1, <1>2, <1>3, PTL DEF HSpec
===============================================================================
