---------------------------- MODULE MountWalkProofs ----------------------------
(***************************************************************************)
(* What the walks do as root, for any tree, any path, any number of walks  *)
(* and anything others do meanwhile; and that the two walks agree about    *)
(* what nobody touched.                                                    *)
(***************************************************************************)
EXTENDS MountWalk, WellFoundedInduction, TLAPS

Pcs == {"idle", "make", "open", "own", "check", "empty", "take", "restrict", "failed", "succeeded"}

\* Names and suffixes are whatever Clean makes of the path.
NodeOf(N) ==
    [kind : {"none", "dir", "other"}, dir : Nodes \cup {Nowhere}, name : N,
     owner : Users, group : Users, private : BOOLEAN, mnt : {Root} \cup FsRoots]

TreeShape == \E N : Names \subseteq N /\ tree \in [Nodes -> NodeOf(N)]

WalkShape ==
    \E S : walk \in [pc : Pcs, creating : BOOLEAN, suffix : S, i : Nat,
                     fd : Nodes, child : Nodes, created : BOOLEAN]

\* File system roots stay, and only directories are mounted over.
MountsOK ==
    /\ over \in [Nodes -> FsRoots \cup {Nowhere}]
    /\ tree[Root].mnt = Root
    /\ \A d \in {Root} \cup FsRoots : tree[d].kind = "dir"
    /\ \A n \in Nodes : over[n] # Nowhere => tree[n].kind = "dir"

MadeOK == made \subseteq Nodes \ FsRoots /\ \A n \in made : tree[n].kind = "dir"

\* The descriptors: where the walk stands is the root or the caller's, and so
\* is what it has checked.
DescriptorsOK ==
    /\ tree[walk.fd].kind = "dir" /\ tree[walk.child].kind = "dir"
    /\ walk.fd = Root \/ (tree[walk.fd].owner = Caller /\ tree[walk.fd].mnt = Root)
    /\ walk.pc = "check" /\ walk.created => tree[walk.child].owner = Caller
    /\ walk.pc \in {"empty", "take"} => tree[walk.child].owner = Caller

Pinned(m) == EntryAt(walk.fd, Component) = {m} /\ over[m] = Nowhere

\* What is opened or owned as if mkdirat had made it has been made by a walk or
\* was put there meanwhile; what was made and not touched is pinned.
FreshOK ==
    /\ walk.pc = "make" \/ walk.created => walk.creating
    /\ walk.pc = "own" => walk.created /\ walk.child \in made \cup swapped
    /\ Stands \subseteq made \cup swapped
    /\ walk.pc = "open" /\ walk.created => \A m \in (Stands \cap made) \ swapped : Pinned(m)

\* The inductive invariant.
WalkInv == TreeShape /\ WalkShape /\ MountsOK /\ MadeOK /\ DescriptorsOK /\ FreshOK /\ NothingLeftForeign

\* It holds of every tree before the first walk.
LEMMA InitInv == Init => WalkInv
  <1> SUFFICES ASSUME Init PROVE WalkInv
    OBVIOUS
  <1> USE WalkAssumption
  <1>1. TreeShape
    <2>1. tree \in [Nodes -> NodeOf(Names)]
      BY DEF Init, Node, NodeOf
    <2> QED
      BY <2>1 DEF TreeShape
  <1>2. WalkShape
    <2>1. walk \in [pc : Pcs, creating : BOOLEAN, suffix : {<<>>}, i : Nat,
                    fd : Nodes, child : Nodes, created : BOOLEAN]
      BY DEF Init, NoWalk, Pcs
    <2> QED
      BY <2>1 DEF WalkShape
  <1>3. MountsOK /\ MadeOK
    BY DEF Init, MountsOK, MadeOK
  <1>4. DescriptorsOK /\ FreshOK /\ NothingLeftForeign
    BY DEF Init, NoWalk, DescriptorsOK, FreshOK, NothingLeftForeign, Stands
  <1> QED
    BY <1>1, <1>2, <1>3, <1>4 DEF WalkInv

-------------------------------------------------------------------------------
(* What becomes of the tree.                                               *)

\* The owner of one directory is set.
LEMMA Chown ==
    ASSUME TreeShape, NEW d \in Nodes, SetOwner(d, Caller)
    PROVE  /\ TreeShape'
           /\ \A n \in Nodes : /\ tree'[n].kind = tree[n].kind /\ tree'[n].dir = tree[n].dir
                              /\ tree'[n].name = tree[n].name /\ tree'[n].mnt = tree[n].mnt
                              /\ tree'[n].owner = IF n = d THEN Caller ELSE tree[n].owner
  <1>1. PICK N : Names \subseteq N /\ tree \in [Nodes -> NodeOf(N)]
    BY DEF TreeShape
  <1>2. tree' \in [Nodes -> NodeOf(N)]
    <2>1. tree[d] \in NodeOf(N)
      BY <1>1
    <2>2. tree' = [tree EXCEPT ![d] = [tree[d] EXCEPT !.owner = Caller, !.group = Caller]]
      BY <1>1, <2>1 DEF SetOwner, NodeOf
    <2>3. [tree[d] EXCEPT !.owner = Caller, !.group = Caller] \in NodeOf(N)
      BY <2>1 DEF NodeOf, Users
    <2> QED
      BY <1>1, <2>2, <2>3
  <1>3. TreeShape'
    BY <1>1, <1>2 DEF TreeShape
  <1> QED
    BY <1>1, <1>3 DEF SetOwner, NodeOf

\* A node that was free becomes an entry.
LEMMA NewEntry ==
    ASSUME TreeShape, Free # {}, NEW name, NEW new \in NodeOf({name}),
           tree' = [tree EXCEPT ![NextFree] = new]
    PROVE  /\ TreeShape'
           /\ NextFree \in Nodes /\ tree[NextFree].kind = "none" /\ tree'[NextFree] = new
           /\ \A n \in Nodes \ {NextFree} : tree'[n] = tree[n]
  <1>1. PICK N : Names \subseteq N /\ tree \in [Nodes -> NodeOf(N)]
    BY DEF TreeShape
  <1>2. NextFree \in Nodes /\ tree[NextFree].kind = "none"
    BY DEF NextFree, Free
  <1> HIDE DEF NextFree
  <1> DEFINE M == N \cup {name}
  <1>3. new \in NodeOf(M) /\ tree \in [Nodes -> NodeOf(M)]
    BY <1>1 DEF NodeOf
  <1>4. Names \subseteq M
    BY <1>1
  <1> HIDE DEF M
  <1>5. tree' \in [Nodes -> NodeOf(M)]
    BY <1>2, <1>3
  <1>6. TreeShape'
    BY <1>4, <1>5 DEF TreeShape
  <1> QED
    BY <1>2, <1>3, <1>6

\* The mount point is closed to others.
LEMMA Chmod ==
    ASSUME TreeShape, NEW d \in Nodes, tree' = [tree EXCEPT ![d].private = TRUE]
    PROVE  /\ TreeShape'
           /\ \A n \in Nodes : /\ tree'[n].kind = tree[n].kind /\ tree'[n].dir = tree[n].dir
                              /\ tree'[n].name = tree[n].name /\ tree'[n].mnt = tree[n].mnt
                              /\ tree'[n].owner = tree[n].owner
  <1>1. PICK N : Names \subseteq N /\ tree \in [Nodes -> NodeOf(N)]
    BY DEF TreeShape
  <1>2. tree' \in [Nodes -> NodeOf(N)]
    BY <1>1 DEF NodeOf
  <1>3. TreeShape'
    BY <1>1, <1>2 DEF TreeShape
  <1> QED
    BY <1>1, <1>3 DEF NodeOf

-------------------------------------------------------------------------------
(* The walk's steps.                                                       *)

\* A walk begins at the root, with nothing made.
LEMMA BeginKeeps ==
    ASSUME WalkInv, NEW path, NEW creating \in BOOLEAN, Begin(path, creating)
    PROVE  WalkInv'
  <1> USE WalkAssumption DEF WalkInv
  <1>1. walk' = [pc |-> IF creating THEN "make" ELSE "open", creating |-> creating,
                 suffix |-> Suffix(path), i |-> 1, fd |-> Root, child |-> Root, created |-> FALSE]
    BY DEF Begin, NoWalk
  <1>2. WalkShape'
    <2>1. walk' \in [pc : Pcs, creating : BOOLEAN, suffix : {Suffix(path)}, i : Nat,
                     fd : Nodes, child : Nodes, created : BOOLEAN]
      BY <1>1 DEF Pcs
    <2> QED
      BY <2>1 DEF WalkShape
  <1>3. TreeShape' /\ MountsOK' /\ MadeOK'
    BY DEF Begin, TreeShape, MountsOK, MadeOK, treeVars
  <1>4. DescriptorsOK' /\ FreshOK'
    BY <1>1, <1>3 DEF DescriptorsOK, FreshOK, MountsOK, Stands
  <1>5. NothingLeftForeign'
    BY DEF Begin, NothingLeftForeign, Unowned, treeVars
  <1> QED
    BY <1>2, <1>3, <1>4, <1>5

\* What mkdirat makes is pinned: its name stands for it alone.
LEMMA MakeDirectoryKeeps == ASSUME WalkInv, MakeDirectory PROVE WalkInv'
  <1> USE WalkAssumption DEF WalkInv
  <1>1. PICK S : walk \in [pc : Pcs, creating : BOOLEAN, suffix : S, i : Nat,
                           fd : Nodes, child : Nodes, created : BOOLEAN]
    BY DEF WalkShape
  <1>2. PICK new \in BOOLEAN : walk' = [walk EXCEPT !.pc = "open", !.created = new]
    BY DEF MakeDirectory
  <1>3. WalkShape'
    <2>1. walk' \in [pc : Pcs, creating : BOOLEAN, suffix : S, i : Nat,
                     fd : Nodes, child : Nodes, created : BOOLEAN]
      BY <1>1, <1>2 DEF Pcs
    <2> QED
      BY <2>1 DEF WalkShape
  <1>4. walk'.fd = walk.fd /\ walk'.child = walk.child /\ Component' = Component
        /\ walk'.pc = "open" /\ walk'.created = new /\ walk'.creating
    BY <1>1, <1>2 DEF Component, MakeDirectory, FreshOK
  <1>5. CASE ~new
    <2>1. UNCHANGED <<tree, over, made, cut, swapped>>
      BY <1>1, <1>4, <1>5 DEF MakeDirectory
    <2> QED
      BY <1>1, <1>3, <1>4, <1>5, <2>1
      DEF TreeShape, MountsOK, MadeOK, DescriptorsOK, FreshOK, NothingLeftForeign, Unowned, Stands, MakeDirectory
  <1>6. CASE new
    <2>1. /\ EntryAt(walk.fd, Component) = {} /\ Free # {}
          /\ tree' = [tree EXCEPT ![NextFree] = NewDirectory(walk.fd, Component, Superuser)]
          /\ made' = made \cup {NextFree}
          /\ UNCHANGED <<over, cut, swapped>>
      BY <1>1, <1>4, <1>6 DEF MakeDirectory
    <2>2. NewDirectory(walk.fd, Component, Superuser) \in NodeOf({Component})
      <3>1. PICK N : tree \in [Nodes -> NodeOf(N)]
        BY DEF TreeShape
      <3> QED
        BY <1>1, <3>1 DEF NewDirectory, NodeOf, Users
    <2>3. /\ TreeShape'
          /\ NextFree \in Nodes /\ tree[NextFree].kind = "none"
          /\ tree'[NextFree] = NewDirectory(walk.fd, Component, Superuser)
          /\ \A n \in Nodes \ {NextFree} : tree'[n] = tree[n]
      BY <2>1, <2>2, NewEntry
    <2>9. tree'[NextFree].kind = "dir" /\ tree'[NextFree].dir = walk.fd /\ tree'[NextFree].name = Component
      BY <2>3 DEF NewDirectory
    <2> HIDE DEF NextFree
    <2>4. MountsOK' /\ MadeOK'
      BY <2>1, <2>3, <2>9 DEF MountsOK, MadeOK
    <2>5. DescriptorsOK'
      BY <1>1, <1>4, <2>3, <2>9 DEF DescriptorsOK
    <2>6. EntryAt(walk.fd, Component)' = {NextFree} /\ over'[NextFree] = Nowhere
      <3>1. over'[NextFree] = Nowhere
        BY <2>1, <2>3, <2>9 DEF MountsOK
      <3>2. \A n \in Nodes \ {NextFree} : n \notin EntryAt(walk.fd, Component)'
        BY <1>4, <2>1, <2>3, <2>9 DEF EntryAt, Entries
      <3>3. NextFree \in EntryAt(walk.fd, Component)'
        BY <1>4, <2>3, <2>9 DEF EntryAt, Entries
      <3> QED
        BY <3>1, <3>2, <3>3 DEF EntryAt, Entries
    <2>7. FreshOK'
      <3>1. Stands' = {NextFree}
        BY <1>4, <1>6, <2>6 DEF Stands, Top
      <3> QED
        BY <1>4, <2>1, <2>6, <3>1 DEF FreshOK, Pinned
    <2>8. NothingLeftForeign'
      BY <1>4, <1>6, <2>1, <2>3, <2>9, <2>6 DEF NothingLeftForeign, Unowned, MakeDirectory, MadeOK
    <2> QED
      BY <1>3, <2>3, <2>4, <2>5, <2>7, <2>8
  <1> QED
    BY <1>5, <1>6

\* openat finds what mkdirat made, or something to be checked.
LEMMA OpenKeeps == ASSUME WalkInv, OpenComponent PROVE WalkInv'
  <1> USE WalkAssumption DEF WalkInv
  <1>1. PICK S : walk \in [pc : Pcs, creating : BOOLEAN, suffix : S, i : Nat,
                           fd : Nodes, child : Nodes, created : BOOLEAN]
    BY DEF WalkShape
  <1>2. PICK n \in EntryAt(walk.fd, Component) :
          /\ tree[n].kind = "dir"
          /\ walk' = [walk EXCEPT !.pc = IF walk.created THEN "own" ELSE "check", !.child = Top(n)]
    BY DEF OpenComponent
  <1>3. Top(n) \in Nodes /\ tree[Top(n)].kind = "dir" /\ n \in Nodes
    BY <1>2 DEF Top, MountsOK, EntryAt, Entries
  <1>4. WalkShape'
    <2>1. walk' \in [pc : Pcs, creating : BOOLEAN, suffix : S, i : Nat,
                     fd : Nodes, child : Nodes, created : BOOLEAN]
      BY <1>1, <1>2, <1>3 DEF Pcs
    <2> QED
      BY <2>1 DEF WalkShape
  <1>5. /\ walk'.fd = walk.fd /\ walk'.child = Top(n) /\ Component' = Component
        /\ walk'.pc = (IF walk.created THEN "own" ELSE "check")
        /\ walk'.created = walk.created /\ walk'.creating = walk.creating /\ walk.pc = "open"
    BY <1>1, <1>2 DEF Component, OpenComponent
  <1>6. UNCHANGED <<tree, over, made, cut, swapped>>
    BY DEF OpenComponent, treeVars, auxVars
  <1>7. EntryAt(walk.fd, Component)' = EntryAt(walk.fd, Component)
    BY <1>5, <1>6 DEF EntryAt, Entries
  <1>8. TreeShape' /\ MountsOK' /\ MadeOK'
    BY <1>6 DEF TreeShape, MountsOK, MadeOK
  <1>9. DescriptorsOK'
    BY <1>3, <1>5, <1>6 DEF DescriptorsOK
  <1>12. walk.created => n \in Stands /\ Top(n) \in Stands
    BY <1>2, <1>5 DEF Stands
  <1>10. FreshOK'
    <2>1. Stands' = {}
      BY <1>5 DEF Stands
    <2> QED
      BY <1>5, <1>6, <1>12, <2>1 DEF FreshOK
  <1>11. NothingLeftForeign'
    <2> SUFFICES ASSUME NEW m \in made, tree[m].owner # Caller, m \notin cut \cup swapped PROVE m \in Unowned'
      BY <1>6 DEF NothingLeftForeign
    <2>1. walk.created /\ m \in EntryAt(walk.fd, Component)
      BY <1>5 DEF NothingLeftForeign, Unowned
    <2>2. m \in Stands
      BY <1>5, <2>1 DEF Stands
    <2>3. Pinned(m)
      BY <1>5, <2>1, <2>2 DEF FreshOK
    <2>4. Top(n) = m
      BY <1>2, <2>3 DEF Pinned, Top
    <2> QED
      BY <1>5, <1>6, <2>1, <2>4 DEF Unowned
  <1> QED
    BY <1>4, <1>8, <1>9, <1>10, <1>11

\* The first fchown is of a directory the walk has made.
LEMMA OwnKeeps == ASSUME WalkInv, OwnCreated PROVE WalkInv'
  <1> USE WalkAssumption DEF WalkInv
  <1>1. PICK S : walk \in [pc : Pcs, creating : BOOLEAN, suffix : S, i : Nat,
                           fd : Nodes, child : Nodes, created : BOOLEAN]
    BY DEF WalkShape
  <1>2. walk' = [walk EXCEPT !.pc = "check"] /\ SetOwner(walk.child, Caller)
        /\ UNCHANGED <<over, made, cut, swapped>>
    BY DEF OwnCreated, auxVars
  <1>3. WalkShape'
    <2>1. walk' \in [pc : Pcs, creating : BOOLEAN, suffix : S, i : Nat,
                     fd : Nodes, child : Nodes, created : BOOLEAN]
      BY <1>1, <1>2 DEF Pcs
    <2> QED
      BY <2>1 DEF WalkShape
  <1>4. /\ TreeShape'
        /\ \A n \in Nodes : /\ tree'[n].kind = tree[n].kind /\ tree'[n].mnt = tree[n].mnt
                           /\ tree'[n].owner = IF n = walk.child THEN Caller ELSE tree[n].owner
    BY <1>1, <1>2, Chown
  <1>5. /\ walk'.fd = walk.fd /\ walk'.child = walk.child /\ walk'.pc = "check" /\ walk.pc = "own"
        /\ walk'.created = walk.created /\ walk'.creating = walk.creating
    BY <1>1, <1>2 DEF OwnCreated
  <1>6. MountsOK' /\ MadeOK'
    BY <1>2, <1>4 DEF MountsOK, MadeOK
  <1>7. DescriptorsOK' /\ FreshOK'
    BY <1>1, <1>4, <1>5 DEF DescriptorsOK, FreshOK, Stands
  <1>8. NothingLeftForeign'
    BY <1>1, <1>2, <1>4, <1>5 DEF NothingLeftForeign, Unowned, FreshOK, MadeOK
  <1> QED
    BY <1>3, <1>4, <1>6, <1>7, <1>8

\* What passes is the caller's and on the mount of its parent.
LEMMA CheckKeeps == ASSUME WalkInv, CheckComponent \/ CheckEmpty PROVE WalkInv'
  <1> USE WalkAssumption DEF WalkInv
  <1>1. PICK S : walk \in [pc : Pcs, creating : BOOLEAN, suffix : S, i : Nat,
                           fd : Nodes, child : Nodes, created : BOOLEAN]
    BY DEF WalkShape
  <1>2. UNCHANGED <<tree, over, made, cut, swapped>>
    BY DEF CheckComponent, CheckEmpty, treeVars, auxVars
  <1>3. TreeShape' /\ MountsOK' /\ MadeOK'
    BY <1>2 DEF TreeShape, MountsOK, MadeOK
  <1>4. WalkShape'
    <2>1. CASE CheckEmpty
      <3>1. walk' = [walk EXCEPT !.pc = IF walk.creating THEN "take" ELSE "succeeded"]
        BY <2>1 DEF CheckEmpty
      <3>2. walk' \in [pc : Pcs, creating : BOOLEAN, suffix : S, i : Nat,
                       fd : Nodes, child : Nodes, created : BOOLEAN]
        BY <1>1, <3>1 DEF Pcs
      <3> QED
        BY <3>2 DEF WalkShape
    <2>2. CASE CheckComponent
      <3>1. \/ walk' = [walk EXCEPT !.pc = "empty"]
            \/ walk' = [walk EXCEPT !.pc = IF walk.creating THEN "make" ELSE "open",
                                    !.i = @ + 1, !.fd = walk.child]
        BY <2>2 DEF CheckComponent
      <3>2. walk.i + 1 \in Nat
        BY <1>1
      <3>3. walk' \in [pc : Pcs, creating : BOOLEAN, suffix : S, i : Nat,
                       fd : Nodes, child : Nodes, created : BOOLEAN]
        BY <1>1, <3>1, <3>2 DEF Pcs
      <3> QED
        BY <3>3 DEF WalkShape
    <2> QED
      BY <2>1, <2>2
  <1>5. tree[walk.child].owner = Caller
    BY DEF CheckComponent, CheckEmpty, Passes, Belongs, DescriptorsOK
  <1>6. CASE CheckComponent
    <2>1. tree[walk.child].mnt = Root
      BY <1>6 DEF CheckComponent, Passes, CrossesMount, DescriptorsOK, MountsOK
    <2>2. \/ /\ walk'.pc = "empty" /\ walk'.fd = walk.fd
          \/ /\ walk'.pc = (IF walk.creating THEN "make" ELSE "open") /\ walk'.fd = walk.child
      BY <1>1, <1>6 DEF CheckComponent
    <2>3. /\ walk'.child = walk.child /\ walk'.created = walk.created
          /\ walk'.creating = walk.creating /\ walk.pc = "check"
      BY <1>1, <1>6 DEF CheckComponent
    <2>4. DescriptorsOK' /\ FreshOK'
      <3>1. walk.created => walk.creating
        BY DEF FreshOK
      <3>2. Stands' = {}
        BY <1>1, <2>2, <2>3, <3>1 DEF Stands
      <3> QED
        BY <1>1, <1>2, <1>5, <2>1, <2>2, <2>3, <3>1, <3>2 DEF DescriptorsOK, FreshOK
    <2>5. NothingLeftForeign'
      BY <1>1, <1>2, <2>2, <2>3 DEF NothingLeftForeign, Unowned, FreshOK
    <2> QED
      BY <1>3, <1>4, <2>4, <2>5
  <1>7. CASE CheckEmpty
    <2>1. /\ walk'.child = walk.child /\ walk'.created = walk.created /\ walk'.fd = walk.fd
          /\ walk'.creating = walk.creating /\ walk.pc = "empty" /\ walk'.pc \in {"take", "succeeded"}
      BY <1>1, <1>7 DEF CheckEmpty
    <2>2. DescriptorsOK' /\ FreshOK' /\ NothingLeftForeign'
      BY <1>1, <1>2, <1>5, <2>1 DEF DescriptorsOK, FreshOK, NothingLeftForeign, Unowned, Stands
    <2> QED
      BY <1>3, <1>4, <2>2
  <1> QED
    BY <1>6, <1>7

\* The second fchown is of what has been checked.
LEMMA TakeKeeps == ASSUME WalkInv, TakeMountPoint \/ Restrict PROVE WalkInv'
  <1> USE WalkAssumption DEF WalkInv
  <1>1. PICK S : walk \in [pc : Pcs, creating : BOOLEAN, suffix : S, i : Nat,
                           fd : Nodes, child : Nodes, created : BOOLEAN]
    BY DEF WalkShape
  <1>2. PICK label \in {"restrict", "succeeded"} : walk' = [walk EXCEPT !.pc = label]
    BY DEF TakeMountPoint, Restrict
  <1>3. WalkShape'
    <2>1. walk' \in [pc : Pcs, creating : BOOLEAN, suffix : S, i : Nat,
                     fd : Nodes, child : Nodes, created : BOOLEAN]
      BY <1>1, <1>2 DEF Pcs
    <2> QED
      BY <2>1 DEF WalkShape
  <1>4. /\ TreeShape'
        /\ \A n \in Nodes : /\ tree'[n].kind = tree[n].kind /\ tree'[n].mnt = tree[n].mnt
                           /\ tree'[n].owner = tree[n].owner
    <2>1. CASE TakeMountPoint
      BY <1>1, <2>1, Chown DEF TakeMountPoint, DescriptorsOK
    <2>2. CASE Restrict
      BY <1>1, <2>2, Chmod DEF Restrict
    <2> QED
      BY <2>1, <2>2
  <1>5. UNCHANGED <<over, made, cut, swapped>>
    BY DEF TakeMountPoint, Restrict, auxVars
  <1>6. /\ walk'.fd = walk.fd /\ walk'.child = walk.child /\ walk'.pc \in {"restrict", "succeeded"}
        /\ walk'.created = walk.created /\ walk'.creating = walk.creating /\ walk.pc \in {"take", "restrict"}
    BY <1>1, <1>2 DEF TakeMountPoint, Restrict
  <1>7. MountsOK' /\ MadeOK'
    BY <1>4, <1>5 DEF MountsOK, MadeOK
  <1>8. DescriptorsOK' /\ FreshOK'
    BY <1>1, <1>4, <1>6 DEF DescriptorsOK, FreshOK, Stands
  <1>9. NothingLeftForeign'
    BY <1>4, <1>5, <1>6 DEF NothingLeftForeign, Unowned, MadeOK
  <1> QED
    BY <1>3, <1>4, <1>7, <1>8, <1>9

\* A walk that ends before fchown says so in cut.
LEMMA StopKeeps == ASSUME WalkInv, Stop PROVE WalkInv'
  <1> USE WalkAssumption DEF WalkInv
  <1>1. walk' = [pc |-> "failed", creating |-> FALSE, suffix |-> <<>>, i |-> 1,
                 fd |-> Root, child |-> Root, created |-> FALSE]
    BY DEF Stop, Fail, NoWalk
  <1>2. WalkShape'
    <2>1. walk' \in [pc : Pcs, creating : BOOLEAN, suffix : {<<>>}, i : Nat,
                     fd : Nodes, child : Nodes, created : BOOLEAN]
      BY <1>1 DEF Pcs
    <2> QED
      BY <2>1 DEF WalkShape
  <1>3. TreeShape' /\ MountsOK' /\ MadeOK'
    BY DEF Stop, Fail, TreeShape, MountsOK, MadeOK, treeVars
  <1>4. DescriptorsOK' /\ FreshOK'
    BY <1>1, <1>3 DEF DescriptorsOK, FreshOK, MountsOK, Stands
  <1>5. NothingLeftForeign'
    BY DEF Stop, Fail, NothingLeftForeign, treeVars
  <1> QED
    BY <1>2, <1>3, <1>4, <1>5

-------------------------------------------------------------------------------
(* What others do.  No directory changes its owner or its mount, and what   *)
(* they do to the name mkdirat has just used is on record in swapped.        *)

Swaps == swapped' = IF Stands' = Stands THEN swapped ELSE swapped \cup Stands \cup Stands'

\* What a step of others has to leave alone.
LEMMA EnvironmentKeeps ==
    ASSUME WalkInv, UNCHANGED <<walk, made, cut>>, Swaps, TreeShape',
           over' \in [Nodes -> FsRoots \cup {Nowhere}],
           \A n \in Nodes : over'[n] # Nowhere => tree'[n].kind = "dir",
           \A n \in Nodes : tree[n].kind = "dir" =>
               /\ tree'[n].kind = "dir" /\ tree'[n].mnt = tree[n].mnt
               /\ tree'[n].owner = tree[n].owner
    PROVE  WalkInv'
  <1> USE WalkAssumption DEF WalkInv
  <1>1. PICK S : walk \in [pc : Pcs, creating : BOOLEAN, suffix : S, i : Nat,
                           fd : Nodes, child : Nodes, created : BOOLEAN]
    BY DEF WalkShape
  <1>2. WalkShape'
    BY DEF WalkShape
  <1>3. MountsOK' /\ MadeOK'
    BY DEF MountsOK, MadeOK
  <1>4. DescriptorsOK'
    BY <1>1 DEF DescriptorsOK
  <1> DEFINE at == EntryAt(walk.fd, Component)
  <1>5. ASSUME walk.pc = "open", walk.created
        PROVE  /\ Stands = at \cup {Top(n) : n \in at}
               /\ Stands' = at' \cup {Top(n) : n \in at}'
               /\ at \subseteq Nodes /\ at' \subseteq Nodes
    BY <1>5 DEF Stands, EntryAt, Entries
  <1>6. ASSUME NEW m \in made, m \in Stands', m \notin swapped', walk.pc = "open", walk.created
        PROVE  Pinned(m)' /\ m \in at'
    <2>1. Stands' = Stands /\ m \notin swapped
      BY <1>6 DEF Swaps
    <2>2. Pinned(m)
      BY <1>6, <2>1 DEF FreshOK
    <2>3. Stands = {m}
      BY <1>5, <1>6, <2>2 DEF Pinned, Top
    <2>4. m \in Nodes \ FsRoots
      BY DEF MadeOK
    <2>5. ASSUME NEW k \in at' PROVE k = m /\ over'[m] = Nowhere
      <3>1. k = m /\ Top(k)' = m
        BY <1>5, <1>6, <2>1, <2>3, <2>5
      <3> QED
        BY <2>4, <3>1 DEF Top
    <2>6. at' # {}
      BY <1>5, <1>6
    <2> QED
      BY <2>5, <2>6 DEF Pinned
  <1>7. FreshOK'
    <2>1. Stands' \subseteq made' \cup swapped'
      BY DEF FreshOK, Swaps
    <2>2. swapped \subseteq swapped'
      BY DEF Swaps
    <2> QED
      BY <1>6, <2>1, <2>2 DEF FreshOK
  <1>8. NothingLeftForeign'
    <2> SUFFICES ASSUME NEW n \in made, tree[n].owner # Caller, n \notin cut \cup swapped' PROVE n \in Unowned'
      BY DEF NothingLeftForeign, MadeOK
    <2>1. n \in Unowned /\ walk.created /\ walk.pc \in {"open", "own"}
      BY DEF NothingLeftForeign, Unowned, Swaps
    <2>2. CASE walk.pc = "own"
      BY <2>1, <2>2 DEF Unowned
    <2>3. CASE walk.pc = "open"
      <3>1. n \in at
        BY <2>1, <2>3 DEF Unowned
      <3>2. n \in Stands
        BY <1>5, <2>1, <2>3, <3>1
      <3>3. n \in Stands'
        BY <3>2 DEF Swaps
      <3>4. n \in at'
        BY <1>6, <2>1, <2>3, <3>3
      <3> QED
        BY <2>1, <2>3, <3>4 DEF Unowned
    <2> QED
      BY <2>1, <2>2, <2>3
  <1> QED
    BY <1>2, <1>3, <1>4, <1>7, <1>8

\* A new entry changes no other.
LEMMA CreateKeeps ==
    ASSUME WalkInv, NEW d \in Nodes, NEW name \in Names, NEW user \in {Caller, Stranger},
           NEW kind \in {"dir", "other"}, Others(Create(d, name, user, kind))
    PROVE  WalkInv'
  <1> USE WalkAssumption DEF WalkInv
  <1> DEFINE new == [NewDirectory(d, name, user) EXCEPT !.kind = kind]
  <1>1. /\ EntryAt(d, name) = {} /\ Free # {} /\ tree' = [tree EXCEPT ![NextFree] = new]
        /\ UNCHANGED <<over, walk, made, cut>>
    BY DEF Others, Create
  <1>2. new \in NodeOf({name}) /\ new.dir = d /\ new.name = name
    <2>1. PICK N : tree \in [Nodes -> NodeOf(N)]
      BY DEF TreeShape
    <2> QED
      BY <2>1 DEF NewDirectory, NodeOf, Users
  <1> HIDE DEF new
  <1>3. /\ TreeShape'
        /\ NextFree \in Nodes /\ tree[NextFree].kind = "none" /\ tree'[NextFree] = new
        /\ \A n \in Nodes \ {NextFree} : tree'[n] = tree[n]
    BY <1>1, <1>2, NewEntry
  <1> HIDE DEF NextFree
  <1>5. \A n \in Nodes : over'[n] # Nowhere => tree'[n].kind = "dir"
    BY <1>1, <1>3 DEF MountsOK
  <1>6. \A n \in Nodes : tree[n].kind = "dir" => tree'[n] = tree[n]
    BY <1>3
  <1> QED
    BY <1>1, <1>3, <1>5, <1>6, EnvironmentKeeps DEF MountsOK, Others, Swaps

\* An entry moves to a free name, or to no name at all.
LEMMA MoveKeeps ==
    ASSUME WalkInv, NEW n \in Nodes, NEW d \in Nodes \cup {Nowhere}, NEW name,
           over[n] = Nowhere,
           \E N : tree \in [Nodes -> NodeOf(N)] /\ name \in N /\ Names \subseteq N,
           tree' = [tree EXCEPT ![n].dir = d, ![n].name = name],
           UNCHANGED <<over, walk, made, cut>>, Swaps
    PROVE  WalkInv'
  <1> USE WalkAssumption DEF WalkInv
  <1>1. PICK N : tree \in [Nodes -> NodeOf(N)] /\ name \in N /\ Names \subseteq N
    OBVIOUS
  <1>2. tree' \in [Nodes -> NodeOf(N)]
    <2>1. [tree[n] EXCEPT !.dir = d, !.name = name] \in NodeOf(N)
      <3>1. tree[n] \in NodeOf(N)
        BY <1>1
      <3> QED
        BY <1>1, <3>1 DEF NodeOf
    <2>2. tree' = [tree EXCEPT ![n] = [tree[n] EXCEPT !.dir = d, !.name = name]]
      BY <1>1 DEF NodeOf
    <2> QED
      BY <1>1, <2>1, <2>2
  <1>3. TreeShape'
    BY <1>1, <1>2 DEF TreeShape
  <1>4. \A k \in Nodes : /\ tree'[k].kind = tree[k].kind /\ tree'[k].owner = tree[k].owner
                        /\ tree'[k].mnt = tree[k].mnt
    BY <1>1 DEF NodeOf
  <1>5. /\ \A k \in Nodes \ {n} : tree'[k] = tree[k]
        /\ tree'[n].dir = d /\ tree'[n].name = name
    BY <1>1 DEF NodeOf
  <1>7. \A k \in Nodes : over'[k] # Nowhere => tree'[k].kind = "dir"
    BY <1>4 DEF MountsOK
  <1> QED
    BY <1>3, <1>4, <1>7, EnvironmentKeeps DEF MountsOK

\* Removing is moving to no name.
LEMMA RemoveKeeps ==
    ASSUME WalkInv, NEW n \in Nodes, NEW user \in {Caller, Stranger},
           Others(Remove(n, user))
    PROVE  WalkInv'
  <1>1. PICK N : tree \in [Nodes -> NodeOf(N)] /\ Names \subseteq N
    BY DEF WalkInv, TreeShape
  <1>2. /\ over[n] = Nowhere /\ UNCHANGED <<over, walk, made, cut>> /\ Swaps
        /\ tree' = [tree EXCEPT ![n].dir = Nowhere]
    BY DEF Others, Remove, Swaps
  <1>3. tree' = [tree EXCEPT ![n].dir = Nowhere, ![n].name = tree[n].name]
    BY <1>1, <1>2 DEF NodeOf
  <1>4. tree[n].name \in N
    BY <1>1 DEF NodeOf
  <1> QED
    BY <1>1, <1>2, <1>3, <1>4, MoveKeeps

\* Renaming is moving to a free name.
LEMMA RenameKeeps ==
    ASSUME WalkInv, NEW n \in Nodes, NEW d \in Nodes, NEW name \in Names,
           NEW user \in {Caller, Stranger}, Others(Rename(n, d, name, user))
    PROVE  WalkInv'
  <1>1. PICK N : tree \in [Nodes -> NodeOf(N)] /\ Names \subseteq N
    BY DEF WalkInv, TreeShape
  <1>2. /\ over[n] = Nowhere /\ UNCHANGED <<over, walk, made, cut>> /\ Swaps
        /\ tree' = [tree EXCEPT ![n].dir = d, ![n].name = name]
    BY DEF Others, Rename, Swaps
  <1> QED
    BY <1>1, <1>2, MoveKeeps

\* Groups, modes and mounts leave every entry where it is.
LEMMA LoosenMountKeeps ==
    ASSUME WalkInv, NEW n \in Nodes,
           Others(Loosen(n)) \/ Others(Unmount(n)) \/ \E f \in FsRoots : Others(MountOver(n, f))
    PROVE  WalkInv'
  <1> USE WalkAssumption DEF WalkInv
  <1>1. PICK N : tree \in [Nodes -> NodeOf(N)] /\ Names \subseteq N
    BY DEF TreeShape
  <1>2. tree' \in [Nodes -> NodeOf(N)]
    <2>1. \/ tree' = tree
          \/ tree' = [tree EXCEPT ![n].group = Stranger]
          \/ tree' = [tree EXCEPT ![n].private = FALSE]
      BY DEF Others, Loosen, MountOver, Unmount
    <2>2. /\ [tree[n] EXCEPT !.group = Stranger] \in NodeOf(N)
          /\ [tree[n] EXCEPT !.private = FALSE] \in NodeOf(N)
      <3>1. tree[n] \in NodeOf(N)
        BY <1>1
      <3> QED
        BY <3>1 DEF NodeOf, Users
    <2> QED
      BY <1>1, <2>1, <2>2
  <1>3. TreeShape'
    BY <1>1, <1>2 DEF TreeShape
  <1>4. \A k \in Nodes : /\ tree'[k].kind = tree[k].kind /\ tree'[k].owner = tree[k].owner
                        /\ tree'[k].mnt = tree[k].mnt /\ tree'[k].dir = tree[k].dir
                        /\ tree'[k].name = tree[k].name
    BY <1>1 DEF Others, Loosen, MountOver, Unmount, NodeOf
  <1>5. /\ UNCHANGED <<walk, made, cut>> /\ over' \in [Nodes -> FsRoots \cup {Nowhere}]
        /\ \A k \in Nodes : over'[k] # Nowhere => over[k] # Nowhere \/ (k = n /\ tree[n].kind = "dir")
        /\ Swaps
    BY DEF Swaps, Others, Loosen, MountOver, Unmount, MountsOK
  <1>7. \A k \in Nodes : over'[k] # Nowhere => tree'[k].kind = "dir"
    BY <1>4, <1>5 DEF MountsOK
  <1> QED
    BY <1>3, <1>4, <1>5, <1>7, EnvironmentKeeps

-------------------------------------------------------------------------------
(* The theorems.                                                           *)

\* A step that changes nothing.
LEMMA StutterKeeps == ASSUME WalkInv, UNCHANGED vars PROVE WalkInv'
  BY DEF vars, treeVars, WalkInv, TreeShape, WalkShape, MountsOK, MadeOK, DescriptorsOK, FreshOK,
         Pinned, EntryAt, Entries, Component, NothingLeftForeign, Unowned, Stands, Top, auxVars

\* Every step keeps it.
LEMMA NextKeeps == ASSUME WalkInv, [Next]_vars PROVE WalkInv'
  <1>1. CASE Walk
    BY <1>1, BeginKeeps, MakeDirectoryKeeps, OpenKeeps, OwnKeeps, CheckKeeps, TakeKeeps, StopKeeps DEF Walk
  <1>2. CASE Environment
    <2>1. ASSUME NEW d \in Nodes, NEW name \in Names, NEW user \in {Caller, Stranger},
                 NEW kind \in {"dir", "other"}, Others(Create(d, name, user, kind))
          PROVE WalkInv'
      BY <2>1, CreateKeeps
    <2>2. ASSUME NEW n \in Nodes, NEW user \in {Caller, Stranger}, Others(Remove(n, user))
          PROVE WalkInv'
      BY <2>2, RemoveKeeps
    <2>3. ASSUME NEW n \in Nodes, NEW d \in Nodes, NEW name \in Names, NEW user \in {Caller, Stranger},
                 Others(Rename(n, d, name, user))
          PROVE WalkInv'
      BY <2>3, RenameKeeps
    <2>4. ASSUME NEW n \in Nodes,
                 Others(Loosen(n)) \/ Others(Unmount(n)) \/ \E f \in FsRoots : Others(MountOver(n, f))
          PROVE WalkInv'
      BY <2>4, LoosenMountKeeps
    <2> QED
      BY <1>2, <2>1, <2>2, <2>3, <2>4 DEF Environment
  <1>3. CASE UNCHANGED vars
    BY <1>3, StutterKeeps
  <1> QED
    BY <1>1, <1>2, <1>3 DEF Next, Refuse

\* The inductive invariant holds throughout.
LEMMA WalkInvariant == Spec => []WalkInv
  <1>1. Init => WalkInv
    BY InitInv
  <1>2. WalkInv /\ [Next]_vars => WalkInv'
    BY NextKeeps
  <1> QED
    BY <1>1, <1>2, PTL DEF Spec

\* Whatever others do, every directory a walk makes as root ends up with the
\* caller, unless the walk is cut short before the fchown of that directory or
\* somebody changes what its name stands for before the walk opens it.
THEOREM EveryDirectoryHandedOver == Spec => []NothingLeftForeign
  <1>1. WalkInv => NothingLeftForeign
    BY DEF WalkInv
  <1> QED
    BY <1>1, WalkInvariant, PTL

\* Only the two fchowns give a directory another owner.
LEMMA OwnersChange ==
    ASSUME WalkInv, [Next]_vars, NEW n \in Nodes, tree[n].kind = "dir", tree'[n].owner # tree[n].owner
    PROVE  n \in made \cup swapped
  <1> USE WalkAssumption
  <1>1. PICK N : tree \in [Nodes -> NodeOf(N)] /\ Names \subseteq N
    BY DEF WalkInv, TreeShape
  <1>2. walk.child \in Nodes /\ walk.fd \in Nodes
    BY DEF WalkInv, WalkShape
  <1>3. CASE OwnCreated
    <2>1. SetOwner(walk.child, Caller) /\ walk.pc = "own"
      BY <1>3 DEF OwnCreated
    <2>2. n = walk.child
      BY <1>1, <1>2, <2>1, Chown DEF WalkInv
    <2> QED
      BY <2>1, <2>2 DEF WalkInv, FreshOK, Pinned
  <1>4. CASE TakeMountPoint
    <2>1. SetOwner(walk.child, Caller) /\ tree[walk.child].owner = Caller
      BY <1>4 DEF TakeMountPoint, WalkInv, DescriptorsOK
    <2> QED
      BY <1>1, <1>2, <2>1, Chown DEF WalkInv
  <1>5. CASE Restrict
    BY <1>1, <1>2, <1>5, Chmod DEF Restrict, WalkInv
  <1>6. ASSUME NEW k \in Nodes, NEW new, tree' = [tree EXCEPT ![k] = new], tree[k].kind = "none"
        PROVE FALSE
    BY <1>1, <1>6
  <1>7. Free # {} => NextFree \in Nodes /\ tree[NextFree].kind = "none"
    BY DEF Free, NextFree
  <1>8. CASE MakeDirectory
    <2>1. \/ tree' = tree
          \/ Free # {} /\ tree' = [tree EXCEPT ![NextFree] = NewDirectory(walk.fd, Component, Superuser)]
      BY <1>8 DEF MakeDirectory
    <2> HIDE DEF NextFree
    <2> QED
      BY <1>6, <1>7, <2>1
  <1>9. CASE Environment
    <2>1. ASSUME NEW d \in Nodes, NEW name \in Names, NEW user \in {Caller, Stranger},
                 NEW kind \in {"dir", "other"}, Others(Create(d, name, user, kind))
          PROVE FALSE
      <3>1. Free # {} /\ tree' = [tree EXCEPT ![NextFree] = [NewDirectory(d, name, user) EXCEPT !.kind = kind]]
        BY <2>1 DEF Others, Create
      <3> HIDE DEF NextFree
      <3> QED
        BY <1>6, <1>7, <3>1
    <2>2. ASSUME NEW k \in Nodes, NEW user \in {Caller, Stranger}, Others(Remove(k, user)) PROVE FALSE
      BY <1>1, <2>2 DEF Others, Remove, NodeOf
    <2>3. ASSUME NEW k \in Nodes, NEW d \in Nodes, NEW name \in Names, NEW user \in {Caller, Stranger},
                 Others(Rename(k, d, name, user))
          PROVE FALSE
      BY <1>1, <2>3 DEF Others, Rename, NodeOf
    <2>4. ASSUME NEW k \in Nodes, Others(Loosen(k)) PROVE FALSE
      BY <1>1, <2>4 DEF Others, Loosen, NodeOf
    <2>5. CASE \/ \E k \in Nodes : Others(Unmount(k))
               \/ \E k \in Nodes, f \in FsRoots : Others(MountOver(k, f))
      BY <2>5 DEF Others, Unmount, MountOver
    <2> QED
      BY <1>9, <2>1, <2>2, <2>3, <2>4, <2>5 DEF Environment
  <1>10. CASE UNCHANGED tree
    BY <1>10
  <1> QED
    BY <1>3, <1>4, <1>5, <1>8, <1>9, <1>10
    DEF Next, Walk, Begin, OpenComponent, CheckComponent, CheckEmpty, Stop, Fail, Refuse, vars, treeVars

\* Whatever is renamed or mounted meanwhile, no directory becomes the caller's
\* that a walk has not made, but what somebody put under the name of one between
\* its mkdirat and its openat.
THEOREM OnlyItsOwnHandedOver == Spec => HandsOverOnlyItsOwn
  <1>1. WalkInv /\ [Next]_vars =>
            [\A n \in Nodes : tree[n].kind = "dir" /\ tree'[n].owner # tree[n].owner
                                  => n \in made \cup swapped]_vars
    BY OwnersChange
  <1> QED
    BY <1>1, WalkInvariant, PTL DEF Spec, HandsOverOnlyItsOwn

\* mkdirat happens in the directory the walk stands on.
LEMMA GroundIsOwn ==
    ASSUME WalkInv, [Next]_vars, NEW n \in made' \ made
    PROVE  LET ground == tree'[n].dir
           IN  ground = Root \/ (tree[ground].owner = Caller /\ tree[ground].mnt = Root)
  <1>1. MakeDirectory /\ made' = made \cup {NextFree} /\ Free # {}
        /\ tree' = [tree EXCEPT ![NextFree] = NewDirectory(walk.fd, Component, Superuser)]
    BY DEF Next, Walk, Environment, Others, Begin, MakeDirectory, OpenComponent, OwnCreated, CheckComponent,
           CheckEmpty, TakeMountPoint, Restrict, Stop, Fail, Refuse, vars, auxVars
  <1>2. NextFree \in Nodes
    BY <1>1 DEF Free, NextFree
  <1> HIDE DEF NextFree
  <1>3. PICK N : tree \in [Nodes -> NodeOf(N)]
    BY DEF WalkInv, TreeShape
  <1>4. tree'[n].dir = walk.fd
    BY <1>1, <1>2, <1>3 DEF NewDirectory
  <1> QED
    BY <1>4 DEF WalkInv, DescriptorsOK

\* The root makes directories in the authorized root, or in what is the
\* caller's on the same mount.
THEOREM NoForeignGround == Spec => BuildsOnOwnGround
  <1>1. WalkInv /\ [Next]_vars =>
            [\A n \in made' \ made :
                 LET ground == tree'[n].dir
                 IN  ground = Root \/ (tree[ground].owner = Caller /\ tree[ground].mnt = Root)]_vars
    BY GroundIsOwn
  <1> QED
    BY <1>1, WalkInvariant, PTL DEF Spec, BuildsOnOwnGround

-------------------------------------------------------------------------------
(* The two walks agree.  What define's walk has gone through so far is a   *)
(* trail that boot's walk would find, whatever others did before it.       *)

\* The variables have the shape they are declared with, and the walk stands on
\* a component of its path.
WalkTyped ==
    /\ WalkTypeOK
    /\ walk \in [pc : Pcs, creating : BOOLEAN, suffix : Seq(Names), i : Nat \ {0},
                 fd : Nodes, child : Nodes, created : BOOLEAN]
    /\ walk.pc \notin {"idle", "failed"} => walk.i <= Len(walk.suffix)
    /\ walk.pc \in {"take", "restrict"} => walk.creating

\* A name stands for one node, and the root of a file system has none.
NamesOK ==
    /\ \A d \in {Root} \cup FsRoots : tree[d].dir = Nowhere
    /\ \A m, n \in Nodes :
           /\ tree[m].kind # "none" /\ tree[n].kind # "none"
           /\ tree[m].dir = tree[n].dir /\ tree[m].dir # Nowhere /\ tree[m].name = tree[n].name
           => m = n

Found(d, name) == {Top(n) : n \in EntryAt(d, name)}

\* What define's walk accepts on the way.
Accepted(d) == tree[d].kind = "dir" /\ tree[d].mnt = Root /\ tree[d].owner = Caller

Trails == [0..(walk.i - 1) -> Nodes]

IsTrail(t) ==
    /\ t[0] = Root /\ t[walk.i - 1] = walk.fd
    /\ \A k \in 1..(walk.i - 1) : Found(t[k - 1], walk.suffix[k]) = {t[k]} /\ Accepted(t[k])

\* Where a walk that nobody disturbs has come to.
OnTrail ==
    walk.creating /\ quiet =>
        /\ \E t \in Trails : IsTrail(t)
        /\ walk.pc \in {"own", "check", "empty", "take", "restrict", "succeeded"} =>
               Found(walk.fd, Component) = {walk.child} /\ tree[walk.child].kind = "dir"
        /\ walk.pc = "check" /\ walk.created => tree[walk.child].owner = Caller
        /\ walk.pc \in {"empty", "take", "restrict", "succeeded"} => Accepted(walk.child) /\ IsLast
        /\ walk.pc \in {"take", "restrict", "succeeded"} => Entries(walk.child) = {}
        /\ walk.pc \in {"restrict", "succeeded"} => tree[walk.child].group = Caller

\* The second inductive invariant; it needs no assumption about others.
TrailInv == WalkTyped /\ MountsOK /\ NamesOK /\ OnTrail

\* It holds of every tree a walk may find.
LEMMA TrailInit == Init => TrailInv
  <1> SUFFICES ASSUME Init PROVE TrailInv
    OBVIOUS
  <1> USE WalkAssumption
  <1>1. WalkTyped
    <2>1. walk = [pc |-> "idle", creating |-> FALSE, suffix |-> <<>>, i |-> 1,
                  fd |-> Root, child |-> Root, created |-> FALSE]
      BY DEF Init, NoWalk
    <2>2. WalkTypeOK
      BY <2>1 DEF Init, WalkTypeOK
    <2> QED
      BY <2>1, <2>2 DEF WalkTyped, Pcs
  <1>2. MountsOK
    BY DEF Init, MountsOK
  <1>3. NamesOK
    BY TreesAssumption DEF Init, NamesOK
  <1>4. OnTrail
    BY DEF Init, NoWalk, OnTrail
  <1> QED
    BY <1>1, <1>2, <1>3, <1>4 DEF TrailInv

\* Steps after which lookups find what they found before.
LEMMA SameFound ==
    ASSUME tree \in [Nodes -> Node], UNCHANGED over,
           \A n \in Nodes : tree'[n].kind = tree[n].kind /\ tree'[n].dir = tree[n].dir /\ tree'[n].name = tree[n].name
    PROVE  /\ \A d, name : Found(d, name)' = Found(d, name)
           /\ \A d : Entries(d)' = Entries(d)
  <1>1. \A d : Entries(d)' = Entries(d)
    BY DEF Entries
  <1>2. \A d, name : EntryAt(d, name)' = EntryAt(d, name)
    BY <1>1 DEF EntryAt, Entries
  <1>3. \A n : Top(n)' = Top(n)
    BY DEF Top
  <1> QED
    BY <1>1, <1>2, <1>3 DEF Found

\* Owner, group and mode: nothing else of any node changes.
LEMMA SetAttributes ==
    ASSUME tree \in [Nodes -> Node], NEW d \in Nodes,
           \/ SetOwner(d, Caller)
           \/ tree' \in {[tree EXCEPT ![d].group = Stranger], [tree EXCEPT ![d].private = FALSE],
                         [tree EXCEPT ![d].private = TRUE]}
    PROVE  /\ tree' \in [Nodes -> Node]
           /\ \A n \in Nodes : /\ tree'[n].kind = tree[n].kind /\ tree'[n].dir = tree[n].dir
                              /\ tree'[n].name = tree[n].name /\ tree'[n].mnt = tree[n].mnt
                              /\ tree'[n].owner \in {tree[n].owner, Caller}
           /\ \A n \in Nodes \ {d} : tree'[n] = tree[n]
  <1>1. tree[d] \in Node
    OBVIOUS
  <1>2. PICK o, g \in Users, p \in BOOLEAN :
            /\ tree' = [tree EXCEPT ![d] = [tree[d] EXCEPT !.owner = o, !.group = g, !.private = p]]
            /\ o \in {tree[d].owner, Caller}
    <2>1. CASE SetOwner(d, Caller)
      <3>1. tree' = [tree EXCEPT ![d] = [tree[d] EXCEPT !.owner = Caller, !.group = Caller, !.private = tree[d].private]]
        BY <1>1, <2>1 DEF SetOwner, Node
      <3> QED
        BY <1>1, <3>1 DEF Node, Users
    <2>2. CASE tree' = [tree EXCEPT ![d].group = Stranger]
      <3>1. tree' = [tree EXCEPT ![d] = [tree[d] EXCEPT !.owner = tree[d].owner, !.group = Stranger,
                                                        !.private = tree[d].private]]
        BY <1>1, <2>2 DEF Node
      <3> QED
        BY <1>1, <3>1 DEF Node, Users
    <2>3. ASSUME NEW p \in BOOLEAN, tree' = [tree EXCEPT ![d].private = p]
          PROVE  \E o, g \in Users, q \in BOOLEAN :
                     /\ tree' = [tree EXCEPT ![d] = [tree[d] EXCEPT !.owner = o, !.group = g, !.private = q]]
                     /\ o \in {tree[d].owner, Caller}
      <3>1. tree' = [tree EXCEPT ![d] = [tree[d] EXCEPT !.owner = tree[d].owner, !.group = tree[d].group,
                                                        !.private = p]]
        BY <1>1, <2>3 DEF Node
      <3> QED
        BY <1>1, <2>3, <3>1 DEF Node
    <2> QED
      BY <2>1, <2>2, <2>3
  <1>3. [tree[d] EXCEPT !.owner = o, !.group = g, !.private = p] \in Node
    BY <1>1 DEF Node
  <1> QED
    BY <1>1, <1>2, <1>3 DEF Node

\* The owner and group of one directory become the caller's.
LEMMA GivenAway ==
    ASSUME tree \in [Nodes -> Node], NEW d \in Nodes, SetOwner(d, Caller)
    PROVE  tree'[d].owner = Caller /\ tree'[d].group = Caller
  <1>1. tree[d] \in Node
    OBVIOUS
  <1> QED
    BY <1>1 DEF SetOwner, Node

\* A free node becomes an entry under a name that was free.
LEMMA EntryMade ==
    ASSUME WalkTyped, MountsOK, NamesOK, Free # {}, NEW d \in Nodes, NEW name \in Names, NEW new \in Node,
           new.dir = d, new.name = name, EntryAt(d, name) = {}, UNCHANGED over,
           tree' = [tree EXCEPT ![NextFree] = new]
    PROVE  /\ tree' \in [Nodes -> Node]
           /\ MountsOK' /\ NamesOK'
           /\ NextFree \in Nodes /\ tree[NextFree].kind = "none" /\ tree'[NextFree] = new
           /\ \A n \in Nodes \ {NextFree} : tree'[n] = tree[n]
  <1> DEFINE f == NextFree
  <1>1. f \in Nodes /\ tree[f].kind = "none"
    BY DEF NextFree, Free
  <1>2. tree \in [Nodes -> Node]
    BY DEF WalkTyped, WalkTypeOK
  <1>3. tree' = [tree EXCEPT ![f] = new]
    OBVIOUS
  <1> HIDE DEF f
  <1>4. tree' \in [Nodes -> Node] /\ tree'[f] = new /\ \A n \in Nodes \ {f} : tree'[n] = tree[n]
    <2>1. f \in Nodes /\ new \in Node
      BY <1>1
    <2>2. tree' \in [Nodes -> Node]
      BY <1>2, <1>3, <2>1
    <2>3. tree'[f] = new
      BY <1>2, <1>3, <2>1
    <2>4. \A n \in Nodes \ {f} : tree'[n] = tree[n]
      BY <1>2, <1>3, <2>1
    <2> QED
      BY <2>2, <2>3, <2>4
  <1> USE WalkAssumption
  <1>5. MountsOK'
    BY <1>1, <1>4 DEF MountsOK
  <1>6. \A e \in {Root} \cup FsRoots : tree'[e].dir = Nowhere
    <2> TAKE e \in {Root} \cup FsRoots
    <2>1. e \in Nodes /\ e # f
      BY <1>1 DEF MountsOK
    <2> QED
      BY <1>4, <2>1 DEF NamesOK
  <1>7. ASSUME NEW m \in Nodes, tree'[m].kind # "none", tree'[m].dir = d, tree'[m].name = name PROVE m = f
    BY <1>4, <1>7 DEF EntryAt, Entries
  <1>8. NamesOK'
    <2> SUFFICES ASSUME NEW m \in Nodes, NEW n \in Nodes, tree'[m].kind # "none", tree'[n].kind # "none",
                        tree'[m].dir = tree'[n].dir, tree'[m].dir # Nowhere, tree'[m].name = tree'[n].name
                 PROVE  m = n
      BY <1>6 DEF NamesOK
    <2>1. CASE m = f \/ n = f
      BY <1>4, <1>7, <2>1
    <2>2. CASE m # f /\ n # f
      BY <1>4, <2>2 DEF NamesOK
    <2> QED
      BY <2>1, <2>2
  <1> QED
    BY <1>1, <1>4, <1>5, <1>8 DEF f

\* Paths lead below the root.
LEMMA BeginTrail ==
    ASSUME TrailInv, NEW path \in Paths, NEW creating \in BOOLEAN, Begin(path, creating)
    PROVE  TrailInv'
  <1> USE WalkAssumption DEF TrailInv
  <1> DEFINE suffix == Suffix(path)
  <1>1. walk' = [pc |-> IF creating THEN "make" ELSE "open", creating |-> creating,
                 suffix |-> suffix, i |-> 1, fd |-> Root, child |-> Root, created |-> FALSE]
    BY DEF Begin, NoWalk
  <1>2. suffix \in Seq(Names) /\ Len(suffix) \in Nat \ {0}
    <2>1. suffix \in Seq(Names) /\ suffix # <<>>
      BY PathAssumption DEF Begin
    <2> HIDE DEF suffix
    <2> QED
      BY <2>1
  <1> HIDE DEF suffix
  <1>3. UNCHANGED <<tree, over, made, cut, swapped, moves>> /\ walks' = walks + 1 /\ quiet' = TRUE
    BY DEF Begin, treeVars
  <1>4. WalkTyped'
    <2>1. WalkTypeOK'
      BY <1>1, <1>3 DEF WalkTyped, WalkTypeOK
    <2> QED
      BY <1>1, <1>2, <2>1 DEF WalkTyped, Pcs
  <1>5. MountsOK' /\ NamesOK'
    BY <1>3 DEF MountsOK, NamesOK
  <1>6. creating => \E t \in Trails' : IsTrail(t)'
    <2> DEFINE t == [k \in 0..0 |-> Root]
    <2>1. t \in Trails' /\ IsTrail(t)'
      BY <1>1 DEF Trails, IsTrail
    <2> QED
      BY <2>1
  <1>7. OnTrail'
    BY <1>1, <1>6 DEF OnTrail
  <1> QED
    BY <1>4, <1>5, <1>7

\* What mkdirat makes is under a name the trail has not gone through.
LEMMA MakeTrail == ASSUME TrailInv, MakeDirectory PROVE TrailInv'
  <1> USE WalkAssumption DEF TrailInv
  <1>0. walk \in [pc : Pcs, creating : BOOLEAN, suffix : Seq(Names), i : Nat \ {0},
                  fd : Nodes, child : Nodes, created : BOOLEAN]
        /\ walk.pc = "make" /\ walk.i \in 1..Len(walk.suffix) /\ Component \in Names
    <2>1. walk.pc = "make"
      BY DEF MakeDirectory
    <2> QED
      BY <2>1 DEF WalkTyped, Component
  <1>1. UNCHANGED <<over, cut, swapped, quiet, moves, walks>>
    BY DEF MakeDirectory, boundVars
  <1>2. PICK c \in BOOLEAN : walk' = [walk EXCEPT !.pc = "open", !.created = c]
    BY DEF MakeDirectory
  <1>3. walk'.suffix = walk.suffix /\ walk'.i = walk.i /\ walk'.fd = walk.fd /\ walk'.pc = "open"
        /\ walk'.creating = walk.creating
    BY <1>0, <1>2
  <1>4. CASE EntryAt(walk.fd, Component) # {} /\ UNCHANGED <<tree, made>>
    <2>1. WalkTyped'
      BY <1>0, <1>1, <1>2, <1>4 DEF WalkTyped, WalkTypeOK, Pcs
    <2>2. MountsOK' /\ NamesOK'
      BY <1>1, <1>4 DEF MountsOK, NamesOK
    <2>3. (\A d, name : Found(d, name)' = Found(d, name)) /\ (\A d : Accepted(d)' = Accepted(d))
      BY <1>1, <1>4 DEF Found, EntryAt, Entries, Top, Accepted
    <2>4. ASSUME NEW t \in Trails, IsTrail(t) PROVE IsTrail(t)' /\ t \in Trails'
      BY <1>3, <2>3, <2>4 DEF Trails, IsTrail
    <2>5. OnTrail'
      BY <1>1, <1>3, <2>4 DEF OnTrail
    <2> QED
      BY <2>1, <2>2, <2>5
  <1>5. CASE /\ EntryAt(walk.fd, Component) = {} /\ Free # {}
             /\ tree' = [tree EXCEPT ![NextFree] = NewDirectory(walk.fd, Component, Superuser)]
             /\ made' = made \cup {NextFree}
    <2> DEFINE f == NextFree
    <2> DEFINE new == NewDirectory(walk.fd, Component, Superuser)
    <2>1. tree[walk.fd] \in Node /\ walk.fd \in Nodes
      BY <1>0 DEF WalkTyped, WalkTypeOK
    <2>2. new \in Node /\ new.dir = walk.fd /\ new.name = Component
      BY <1>0, <2>1 DEF NewDirectory, Node, Users
    <2> HIDE DEF new
    <2>3. /\ tree' \in [Nodes -> Node] /\ MountsOK' /\ NamesOK'
          /\ f \in Nodes /\ tree[f].kind = "none"
          /\ tree'[f].dir = walk.fd /\ tree'[f].name = Component
          /\ \A n \in Nodes \ {f} : tree'[n] = tree[n]
      <3> DEFINE d == walk.fd
                 name == Component
      <3>1. /\ tree' = [tree EXCEPT ![NextFree] = new] /\ Free # {} /\ EntryAt(d, name) = {} /\ UNCHANGED over
            /\ new.dir = d /\ new.name = name /\ d \in Nodes /\ name \in Names /\ new \in Node
        BY <1>0, <1>1, <1>5, <2>1, <2>2 DEF new
      <3>2. WalkTyped /\ MountsOK /\ NamesOK
        OBVIOUS
      <3> HIDE DEF d, name, TrailInv
      <3>3. /\ tree' \in [Nodes -> Node] /\ MountsOK' /\ NamesOK'
            /\ NextFree \in Nodes /\ tree[NextFree].kind = "none" /\ tree'[NextFree] = new
            /\ \A n \in Nodes \ {NextFree} : tree'[n] = tree[n]
        BY <3>1, <3>2, EntryMade
      <3> QED
        BY <3>1, <3>3 DEF d, name
    <2>4. made' = made \cup {f}
      BY <1>5
    <2> HIDE DEF f
    <2>5. WalkTyped'
      BY <1>0, <1>1, <1>2, <2>3, <2>4 DEF WalkTyped, WalkTypeOK, Pcs
    <2>6. ASSUME NEW d \in Nodes, NEW name, Found(d, name) # {} PROVE Found(d, name)' = Found(d, name)
      <3>1. ~(d = walk.fd /\ name = Component)
        BY <1>5, <2>6 DEF Found
      <3>2. EntryAt(d, name)' = EntryAt(d, name)
        BY <2>3, <3>1 DEF EntryAt, Entries
      <3> QED
        BY <1>1, <3>2 DEF Found, Top
    <2>7. ASSUME NEW t \in Trails, IsTrail(t) PROVE IsTrail(t)' /\ t \in Trails'
      <3>1. t \in Trails' /\ t[0] = Root /\ t[walk'.i - 1] = walk'.fd
        BY <1>3, <2>7 DEF Trails, IsTrail
      <3>2. ASSUME NEW k \in 1..(walk.i - 1)
            PROVE  (Found(t[k - 1], walk.suffix[k]) = {t[k]})' /\ Accepted(t[k])'
        <4>1. t[k - 1] \in Nodes /\ t[k] \in Nodes
          BY <1>0, <2>7 DEF Trails
        <4>2. Found(t[k - 1], walk.suffix[k]) = {t[k]} /\ Accepted(t[k])
          BY <2>7 DEF IsTrail
        <4> DEFINE d == t[k - 1]
                   name == walk.suffix[k]
        <4>3. Found(d, name)' = Found(d, name)
          <5>1. Found(d, name) # {}
            BY <4>2
          <5> HIDE DEF d, name
          <5>2. d \in Nodes
            BY <4>1 DEF d
          <5>3. d' = d /\ name' = name
            BY <1>3 DEF d, name
          <5> QED
            BY <2>6, <5>1, <5>2, <5>3
        <4>4. Accepted(t[k])'
          BY <2>3, <4>1, <4>2 DEF Accepted
        <4> QED
          BY <1>3, <4>2, <4>3, <4>4
      <3> QED
        BY <1>3, <3>1, <3>2 DEF IsTrail
    <2>8. OnTrail'
      BY <1>1, <1>3, <2>7 DEF OnTrail
    <2> QED
      BY <2>3, <2>5, <2>8
  <1> QED
    BY <1>4, <1>5 DEF MakeDirectory

\* Where a step leaves the walk where it is and every lookup alike, the trail
\* stays one.
LEMMA TrailStays ==
    ASSUME WalkTyped, UNCHANGED over, tree' \in [Nodes -> Node],
           \A n \in Nodes : /\ tree'[n].kind = tree[n].kind /\ tree'[n].dir = tree[n].dir
                            /\ tree'[n].name = tree[n].name /\ tree'[n].mnt = tree[n].mnt
                            /\ tree'[n].owner \in {tree[n].owner, Caller},
           walk'.suffix = walk.suffix, walk'.i = walk.i, walk'.fd = walk.fd
    PROVE  /\ \A t \in Trails : IsTrail(t) => t \in Trails' /\ IsTrail(t)'
           /\ Found(walk.fd, Component)' = Found(walk.fd, Component)
           /\ \A n \in Nodes : (Accepted(n) => Accepted(n)') /\ Entries(n)' = Entries(n)
  <1>1. tree \in [Nodes -> Node]
    BY DEF WalkTyped, WalkTypeOK
  <1>2. (\A d, name : Found(d, name)' = Found(d, name)) /\ (\A d : Entries(d)' = Entries(d))
    BY <1>1, SameFound
  <1>3. \A n \in Nodes : Accepted(n) => Accepted(n)'
    BY DEF Accepted
  <1>4. ASSUME NEW t \in Trails, IsTrail(t) PROVE t \in Trails' /\ IsTrail(t)'
    <2>1. \A k \in 1..(walk.i - 1) : t[k] \in Nodes
      BY <1>4 DEF Trails, WalkTyped
    <2> QED
      BY <1>2, <1>3, <1>4, <2>1 DEF Trails, IsTrail
  <1>5. Found(walk.fd, Component)' = Found(walk.fd, Component)
    BY <1>2 DEF Component
  <1> QED
    BY <1>2, <1>3, <1>4, <1>5

\* Steps that change no file.
LEMMA LookingOn ==
    ASSUME TrailInv, UNCHANGED <<tree, over, made, swapped, quiet, moves, walks>>, cut' \subseteq made,
           walk' \in [pc : Pcs, creating : BOOLEAN, suffix : Seq(Names), i : Nat \ {0},
                      fd : Nodes, child : Nodes, created : BOOLEAN],
           walk'.pc \notin {"idle", "failed"} => walk'.i <= Len(walk'.suffix),
           walk'.pc \in {"take", "restrict"} => walk'.creating
    PROVE  WalkTyped' /\ MountsOK' /\ NamesOK'
  <1> USE DEF TrailInv
  <1>1. WalkTypeOK'
    BY DEF WalkTyped, WalkTypeOK, Pcs
  <1> QED
    BY <1>1 DEF WalkTyped, MountsOK, NamesOK

\* A name stands for one node, the one that is opened.
LEMMA OpenTrail == ASSUME TrailInv, OpenComponent PROVE TrailInv'
  <1> USE WalkAssumption DEF TrailInv
  <1>1. /\ walk.pc = "open" /\ UNCHANGED <<tree, over, made, cut, swapped, quiet, moves, walks>>
        /\ walk \in [pc : Pcs, creating : BOOLEAN, suffix : Seq(Names), i : Nat \ {0},
                     fd : Nodes, child : Nodes, created : BOOLEAN]
        /\ walk.i <= Len(walk.suffix)
    BY DEF OpenComponent, treeVars, auxVars, boundVars, WalkTyped
  <1>2. PICK n \in EntryAt(walk.fd, Component) :
            /\ tree[n].kind = "dir"
            /\ walk' = [walk EXCEPT !.pc = IF walk.created THEN "own" ELSE "check", !.child = Top(n)]
    BY DEF OpenComponent
  <1>3. n \in Nodes /\ Top(n) \in Nodes /\ tree[Top(n)].kind = "dir"
    BY <1>2 DEF EntryAt, Entries, Top, MountsOK
  <1>4. /\ walk'.suffix = walk.suffix /\ walk'.i = walk.i /\ walk'.fd = walk.fd /\ walk'.child = Top(n)
        /\ walk'.pc = IF walk.created THEN "own" ELSE "check"
        /\ walk'.creating = walk.creating /\ walk'.created = walk.created
        /\ walk' \in [pc : Pcs, creating : BOOLEAN, suffix : Seq(Names), i : Nat \ {0},
                      fd : Nodes, child : Nodes, created : BOOLEAN]
    BY <1>1, <1>2, <1>3 DEF Pcs
  <1>5. WalkTyped' /\ MountsOK' /\ NamesOK'
    <2>1. cut' \subseteq made
      BY <1>1 DEF WalkTyped, WalkTypeOK
    <2> QED
      BY <1>1, <1>4, <2>1, LookingOn
  <1>6. EntryAt(walk.fd, Component) = {n}
    <2>1. \A m \in EntryAt(walk.fd, Component) : m = n
      BY <1>1, <1>2 DEF EntryAt, Entries, NamesOK
    <2> QED
      BY <1>2, <2>1
  <1>7. Found(walk.fd, Component) = {Top(n)}
    BY <1>6 DEF Found
  <1>8. /\ \A t \in Trails : IsTrail(t) => t \in Trails' /\ IsTrail(t)'
        /\ Found(walk.fd, Component)' = Found(walk.fd, Component)
    <2>1. tree' \in [Nodes -> Node]
      BY <1>1 DEF WalkTyped, WalkTypeOK
    <2> QED
      BY <1>1, <1>4, <2>1, TrailStays
  <1>9. OnTrail'
    <2> SUFFICES ASSUME walk.creating, quiet
                 PROVE  /\ \E t \in Trails' : IsTrail(t)'
                        /\ (Found(walk.fd, Component) = {walk.child})' /\ tree'[walk'.child].kind = "dir"
                        /\ walk'.pc = "check" => ~walk'.created
      BY <1>1, <1>4 DEF OnTrail
    <2>1. \E t \in Trails : IsTrail(t)
      BY DEF OnTrail
    <2>2. (Found(walk.fd, Component) = {walk.child})'
      BY <1>4, <1>7, <1>8
    <2> QED
      BY <1>1, <1>3, <1>4, <1>8, <2>1, <2>2
  <1> QED
    BY <1>5, <1>9

\* fchown and fchmod of the child.
LEMMA ChildTrail == ASSUME TrailInv, OwnCreated \/ TakeMountPoint \/ Restrict PROVE TrailInv'
  <1> USE WalkAssumption DEF TrailInv
  <1>1. /\ walk.pc \in {"own", "take", "restrict"} /\ UNCHANGED <<over, made, cut, swapped, quiet, moves, walks>>
        /\ walk \in [pc : Pcs, creating : BOOLEAN, suffix : Seq(Names), i : Nat \ {0},
                     fd : Nodes, child : Nodes, created : BOOLEAN]
        /\ walk.i <= Len(walk.suffix) /\ tree \in [Nodes -> Node]
    BY DEF OwnCreated, TakeMountPoint, Restrict, auxVars, boundVars, WalkTyped, WalkTypeOK
  <1>2. PICK pc \in {"check", "restrict", "succeeded"} :
            /\ walk' = [walk EXCEPT !.pc = pc]
            /\ walk.pc = "own" => pc = "check" /\ SetOwner(walk.child, Caller)
            /\ walk.pc = "take" => pc = "restrict" /\ SetOwner(walk.child, Caller)
            /\ walk.pc = "restrict" => pc = "succeeded" /\ tree' = [tree EXCEPT ![walk.child].private = TRUE]
    BY DEF OwnCreated, TakeMountPoint, Restrict
  <1>3. /\ walk'.suffix = walk.suffix /\ walk'.i = walk.i /\ walk'.fd = walk.fd /\ walk'.child = walk.child
        /\ walk'.creating = walk.creating /\ walk'.created = walk.created /\ walk'.pc = pc
        /\ walk' \in [pc : Pcs, creating : BOOLEAN, suffix : Seq(Names), i : Nat \ {0},
                      fd : Nodes, child : Nodes, created : BOOLEAN]
    BY <1>1, <1>2 DEF Pcs
  <1>4. /\ tree' \in [Nodes -> Node]
        /\ \A n \in Nodes : /\ tree'[n].kind = tree[n].kind /\ tree'[n].dir = tree[n].dir
                            /\ tree'[n].name = tree[n].name /\ tree'[n].mnt = tree[n].mnt
                            /\ tree'[n].owner \in {tree[n].owner, Caller}
    BY <1>1, <1>2, SetAttributes
  <1>5. /\ walk.pc \in {"own", "take"} => tree'[walk.child].owner = Caller /\ tree'[walk.child].group = Caller
        /\ walk.pc = "restrict" => tree'[walk.child].group = tree[walk.child].group
    <2>1. walk.pc \in {"own", "take"} => tree'[walk.child].owner = Caller /\ tree'[walk.child].group = Caller
      BY <1>1, <1>2, GivenAway
    <2>2. tree[walk.child] \in Node
      BY <1>1
    <2>3. walk.pc = "restrict" => tree'[walk.child].group = tree[walk.child].group
      BY <1>1, <1>2, <2>2 DEF Node
    <2> QED
      BY <2>1, <2>3
  <1>6. WalkTyped'
    <2>1. WalkTypeOK'
      BY <1>1, <1>3, <1>4 DEF WalkTyped, WalkTypeOK, Pcs
    <2> QED
      BY <1>1, <1>2, <1>3, <2>1 DEF WalkTyped
  <1>7. MountsOK' /\ NamesOK'
    <2>1. \A d \in {Root} \cup FsRoots : d \in Nodes
      OBVIOUS
    <2>2. MountsOK'
      BY <1>1, <1>4, <2>1 DEF MountsOK
    <2>3. NamesOK'
      BY <1>4, <2>1 DEF NamesOK
    <2> QED
      BY <2>2, <2>3
  <1>8. /\ \A t \in Trails : IsTrail(t) => t \in Trails' /\ IsTrail(t)'
        /\ Found(walk.fd, Component)' = Found(walk.fd, Component)
        /\ \A n \in Nodes : (Accepted(n) => Accepted(n)') /\ Entries(n)' = Entries(n)
    BY <1>1, <1>3, <1>4, TrailStays
  <1>9. OnTrail'
    <2> SUFFICES ASSUME walk.creating, quiet
                 PROVE  /\ \E t \in Trails' : IsTrail(t)'
                        /\ (Found(walk.fd, Component) = {walk.child})' /\ tree'[walk'.child].kind = "dir"
                        /\ walk'.pc = "check" => tree'[walk'.child].owner = Caller
                        /\ walk'.pc \in {"restrict", "succeeded"} =>
                               /\ Accepted(walk.child)' /\ IsLast' /\ Entries(walk.child)' = {}
                               /\ tree'[walk'.child].group = Caller
      BY <1>1, <1>2, <1>3 DEF OnTrail
    <2>1. /\ \E t \in Trails : IsTrail(t)
          /\ Found(walk.fd, Component) = {walk.child} /\ tree[walk.child].kind = "dir"
          /\ walk.pc \in {"take", "restrict"} => Accepted(walk.child) /\ IsLast /\ Entries(walk.child) = {}
          /\ walk.pc = "restrict" => tree[walk.child].group = Caller
      BY <1>1 DEF OnTrail
    <2>2. walk'.pc \in {"restrict", "succeeded"} => walk.pc \in {"take", "restrict"}
      BY <1>1, <1>2, <1>3
    <2>3. walk'.pc \in {"restrict", "succeeded"} =>
              /\ Accepted(walk.child)' /\ IsLast' /\ Entries(walk.child)' = {}
      <3>1. Accepted(walk.child) => Accepted(walk.child)'
        BY <1>1, <1>3, <1>8 DEF Accepted
      <3>2. Entries(walk.child)' = Entries(walk.child)
        BY <1>1, <1>3, <1>8 DEF Entries
      <3> QED
        BY <1>3, <2>1, <2>2, <3>1, <3>2 DEF IsLast
    <2>4. tree'[walk'.child].kind = "dir" /\ (Found(walk.fd, Component) = {walk.child})'
      BY <1>1, <1>3, <1>4, <1>8, <2>1
    <2>5. walk'.pc = "check" => walk.pc = "own"
      BY <1>1, <1>2, <1>3
    <2>6. walk'.pc \in {"restrict", "succeeded"} => tree'[walk'.child].group = Caller
      BY <1>1, <1>3, <1>5, <2>1, <2>2
    <2> QED
      BY <1>3, <1>5, <1>8, <2>1, <2>3, <2>4, <2>5, <2>6
  <1> QED
    BY <1>6, <1>7, <1>9

\* A component that passes becomes the next step of the trail, or its end.
LEMMA CheckTrail == ASSUME TrailInv, CheckComponent PROVE TrailInv'
  <1> USE WalkAssumption DEF TrailInv
  <1>1. /\ walk.pc = "check" /\ Passes /\ UNCHANGED <<tree, over, made, cut, swapped, quiet, moves, walks>>
        /\ walk \in [pc : Pcs, creating : BOOLEAN, suffix : Seq(Names), i : Nat \ {0},
                     fd : Nodes, child : Nodes, created : BOOLEAN]
        /\ walk.i <= Len(walk.suffix) /\ Len(walk.suffix) \in Nat
    BY DEF CheckComponent, treeVars, auxVars, boundVars, WalkTyped
  <1>2. walk' = IF IsLast THEN [walk EXCEPT !.pc = "empty"]
                ELSE [walk EXCEPT !.pc = IF walk.creating THEN "make" ELSE "open",
                                  !.i = walk.i + 1, !.fd = walk.child]
    BY DEF CheckComponent
  <1>3. walk' \in [pc : Pcs, creating : BOOLEAN, suffix : Seq(Names), i : Nat \ {0},
                   fd : Nodes, child : Nodes, created : BOOLEAN]
    <2>1. CASE IsLast
      BY <1>1, <1>2, <2>1 DEF Pcs
    <2>2. CASE ~IsLast
      <3>1. walk.i + 1 \in Nat \ {0}
        BY <1>1
      <3>2. walk' = [walk EXCEPT !.pc = "make", !.i = walk.i + 1, !.fd = walk.child]
            \/ walk' = [walk EXCEPT !.pc = "open", !.i = walk.i + 1, !.fd = walk.child]
        BY <1>2, <2>2
      <3> QED
        BY <1>1, <3>1, <3>2 DEF Pcs
    <2> QED
      BY <2>1, <2>2
  <1>4. WalkTyped' /\ MountsOK' /\ NamesOK'
    <2>1. cut' \subseteq made
      BY <1>1 DEF WalkTyped, WalkTypeOK
    <2>2. walk'.i <= Len(walk'.suffix)
      BY <1>1, <1>2 DEF IsLast
    <2>3. walk'.pc \notin {"take", "restrict"}
      BY <1>1, <1>2
    <2> QED
      BY <1>1, <1>3, <2>1, <2>2, <2>3, LookingOn
  <1>5. (\A d, name : Found(d, name)' = Found(d, name)) /\ (\A d : Accepted(d)' = Accepted(d))
    BY <1>1 DEF Found, EntryAt, Entries, Top, Accepted
  <1>6. OnTrail'
    <2> SUFFICES ASSUME walk.creating, quiet PROVE OnTrail'
      BY <1>1, <1>2 DEF OnTrail
    <2>1. Found(walk.fd, Component) = {walk.child} /\ tree[walk.child].kind = "dir"
      BY <1>1 DEF OnTrail
    <2>2. PICK t \in Trails : IsTrail(t)
      BY DEF OnTrail
    <2>3. Accepted(walk.child)
      <3>1. tree[walk.child].owner = Caller
        BY <1>1 DEF Passes, Belongs, OnTrail
      <3>2. tree[walk.fd].mnt = Root
        <4>1. CASE walk.i = 1
          BY <2>2, <4>1 DEF IsTrail, MountsOK
        <4>2. CASE walk.i # 1
          <5>1. walk.i - 1 \in 1..(walk.i - 1)
            BY <1>1, <4>2
          <5> QED
            BY <2>2, <5>1 DEF IsTrail, Accepted
        <4> QED
          BY <4>1, <4>2
      <3> QED
        BY <1>1, <2>1, <3>1, <3>2 DEF Passes, CrossesMount, Accepted
    <2>4. CASE IsLast
      <3>1. walk' = [walk EXCEPT !.pc = "empty"]
        BY <1>2, <2>4
      <3>2. /\ walk'.suffix = walk.suffix /\ walk'.i = walk.i /\ walk'.fd = walk.fd /\ walk'.child = walk.child
            /\ walk'.pc = "empty"
        BY <1>1, <3>1
      <3>3. t \in Trails' /\ IsTrail(t)'
        BY <1>5, <2>2, <3>2 DEF Trails, IsTrail
      <3>4. (Found(walk.fd, Component) = {walk.child})' /\ Accepted(walk.child)' /\ IsLast'
        BY <1>5, <2>1, <2>3, <2>4, <3>2 DEF Component, IsLast
      <3> QED
        BY <2>1, <1>1, <3>2, <3>3, <3>4 DEF OnTrail
    <2>5. CASE ~IsLast
      <3>1. /\ walk'.suffix = walk.suffix /\ walk'.i = walk.i + 1 /\ walk'.fd = walk.child
            /\ walk'.pc = "make"
        BY <1>1, <1>2, <2>5
      <3>2. t \in [0..(walk.i - 1) -> Nodes]
        BY <2>2 DEF Trails
      <3>3. PICK s \in [0..walk.i -> Nodes] : s[walk.i] = walk.child /\ \A k \in 0..(walk.i - 1) : s[k] = t[k]
        <4> DEFINE longer == [k \in 0..walk.i |-> IF k = walk.i THEN walk.child ELSE t[k]]
        <4>1. /\ longer \in [0..walk.i -> Nodes] /\ longer[walk.i] = walk.child
              /\ \A k \in 0..(walk.i - 1) : longer[k] = t[k]
          BY <1>1, <3>2
        <4> QED
          BY <4>1
      <3>4. s \in Trails'
        BY <1>1, <3>1, <3>3 DEF Trails
      <3>5. ASSUME NEW k \in 1..walk.i PROVE Found(s[k - 1], walk.suffix[k]) = {s[k]} /\ Accepted(s[k])
        <4>1. CASE k = walk.i
          <5>1. s[k - 1] = walk.fd
            BY <1>1, <2>2, <3>3, <4>1 DEF IsTrail
          <5> QED
            BY <2>1, <2>3, <3>3, <4>1, <5>1 DEF Component
        <4>2. CASE k # walk.i
          <5>1. k \in 1..(walk.i - 1) /\ k - 1 \in 0..(walk.i - 1) /\ k \in 0..(walk.i - 1)
            BY <1>1, <4>2
          <5> QED
            BY <2>2, <3>3, <5>1 DEF IsTrail
        <4> QED
          BY <4>1, <4>2
      <3>6. IsTrail(s)'
        <4>1. s[0] = Root /\ s[walk'.i - 1] = walk'.fd
          BY <1>1, <2>2, <3>1, <3>3 DEF IsTrail
        <4>2. walk'.i - 1 = walk.i
          BY <1>1, <3>1
        <4> QED
          BY <1>5, <3>1, <3>5, <4>1, <4>2 DEF IsTrail
      <3> QED
        BY <3>1, <3>4, <3>6 DEF OnTrail
    <2> QED
      BY <2>4, <2>5
  <1> QED
    BY <1>4, <1>6

\* An empty directory is one for boot's walk as well.
LEMMA EmptyTrail == ASSUME TrailInv, CheckEmpty PROVE TrailInv'
  <1> USE WalkAssumption DEF TrailInv
  <1>1. /\ walk.pc = "empty" /\ Entries(walk.child) = {} /\ UNCHANGED <<tree, over, made, cut, swapped, quiet, moves, walks>>
        /\ walk \in [pc : Pcs, creating : BOOLEAN, suffix : Seq(Names), i : Nat \ {0},
                     fd : Nodes, child : Nodes, created : BOOLEAN]
        /\ walk.i <= Len(walk.suffix)
    BY DEF CheckEmpty, treeVars, auxVars, boundVars, WalkTyped
  <1>2. walk' = [walk EXCEPT !.pc = IF walk.creating THEN "take" ELSE "succeeded"]
    BY DEF CheckEmpty
  <1>3. /\ walk' \in [pc : Pcs, creating : BOOLEAN, suffix : Seq(Names), i : Nat \ {0},
                      fd : Nodes, child : Nodes, created : BOOLEAN]
        /\ walk'.suffix = walk.suffix /\ walk'.i = walk.i /\ walk'.fd = walk.fd /\ walk'.child = walk.child
        /\ walk'.creating = walk.creating /\ walk'.pc = IF walk.creating THEN "take" ELSE "succeeded"
    BY <1>1, <1>2 DEF Pcs
  <1>4. WalkTyped' /\ MountsOK' /\ NamesOK'
    <2>1. cut' \subseteq made
      BY <1>1 DEF WalkTyped, WalkTypeOK
    <2> QED
      BY <1>1, <1>3, <2>1, LookingOn
  <1>5. (\A d, name : Found(d, name)' = Found(d, name)) /\ (\A d : Accepted(d)' = Accepted(d))
        /\ (\A d : Entries(d)' = Entries(d))
    BY <1>1 DEF Found, EntryAt, Entries, Top, Accepted
  <1>6. OnTrail'
    <2> SUFFICES ASSUME walk.creating, quiet PROVE OnTrail'
      BY <1>1, <1>3 DEF OnTrail
    <2>1. PICK t \in Trails : IsTrail(t)
      BY DEF OnTrail
    <2>2. t \in Trails' /\ IsTrail(t)'
      BY <1>3, <1>5, <2>1 DEF Trails, IsTrail
    <2>3. Found(walk.fd, Component) = {walk.child} /\ tree[walk.child].kind = "dir"
          /\ Accepted(walk.child) /\ IsLast
      BY <1>1 DEF OnTrail
    <2>4. (Found(walk.fd, Component) = {walk.child})' /\ Accepted(walk.child)' /\ IsLast'
          /\ Entries(walk.child)' = {}
      BY <1>1, <1>3, <1>5, <2>3 DEF Component, IsLast
    <2> QED
      BY <1>1, <1>3, <2>2, <2>3, <2>4 DEF OnTrail
  <1> QED
    BY <1>4, <1>6

\* A walk that ends keeps nothing.
LEMMA StopTrail == ASSUME TrailInv, Stop PROVE TrailInv'
  <1> USE WalkAssumption DEF TrailInv
  <1>1. walk' = [pc |-> "failed", creating |-> FALSE, suffix |-> <<>>, i |-> 1,
                 fd |-> Root, child |-> Root, created |-> FALSE]
        /\ UNCHANGED <<tree, over, made, swapped, quiet, moves, walks>>
    BY DEF Stop, Fail, NoWalk, treeVars, auxVars, boundVars
  <1>2. cut' \subseteq made
    BY DEF Stop, Fail, Unowned, WalkTyped, WalkTypeOK
  <1>3. WalkTyped' /\ MountsOK' /\ NamesOK'
    BY <1>1, <1>2, LookingOn DEF Pcs
  <1> QED
    BY <1>1, <1>3 DEF OnTrail

\* After a step of somebody else's only the shape of things has to hold.
LEMMA Disturbed ==
    ASSUME TrailInv, UNCHANGED <<walk, made, cut, walks>>, moves' = moves + 1, quiet' = FALSE,
           Swaps, tree' \in [Nodes -> Node], MountsOK', NamesOK'
    PROVE  TrailInv'
  <1>1. WalkTypeOK'
    <2>1. WalkTypeOK
      BY DEF TrailInv, WalkTyped
    <2>2. over' \in [Nodes -> FsRoots \cup {Nowhere}]
      BY DEF MountsOK
    <2>3. walk' = walk /\ made' = made /\ cut' = cut /\ walks' = walks
      OBVIOUS
    <2>4. moves' \in Nat
      <3>1. moves \in Nat
        BY <2>1 DEF WalkTypeOK
      <3> QED
        BY <3>1
    <2>5. quiet' \in BOOLEAN
      OBVIOUS
    <2>6. swapped' \subseteq Nodes
      <3>1. \A n \in EntryAt(walk.fd, Component) : n \in Nodes /\ Top(n) \in Nodes
        BY <2>1, WalkAssumption DEF WalkTypeOK, EntryAt, Entries, Top
      <3>2. \A n \in EntryAt(walk.fd, Component)' : n \in Nodes /\ Top(n)' \in Nodes
        BY <2>2, WalkAssumption DEF EntryAt, Entries, Top
      <3>3. Stands \subseteq Nodes /\ Stands' \subseteq Nodes
        BY <3>1, <3>2 DEF Stands
      <3> QED
        BY <2>1, <3>3 DEF Swaps, WalkTypeOK
    <2> QED
      BY <2>1, <2>2, <2>3, <2>4, <2>5, <2>6 DEF WalkTypeOK
  <1>2. WalkTyped'
    BY <1>1 DEF TrailInv, WalkTyped
  <1>3. OnTrail'
    BY DEF OnTrail
  <1> QED
    BY <1>2, <1>3 DEF TrailInv

\* An entry of somebody else's under a free name.
LEMMA CreateTrail ==
    ASSUME TrailInv, NEW d \in Nodes, NEW name \in Names, NEW user \in {Caller, Stranger},
           NEW kind \in {"dir", "other"}, Others(Create(d, name, user, kind))
    PROVE  TrailInv'
  <1> USE DEF TrailInv
  <1> DEFINE new == [NewDirectory(d, name, user) EXCEPT !.kind = kind]
  <1>1. /\ EntryAt(d, name) = {} /\ Free # {} /\ tree' = [tree EXCEPT ![NextFree] = new]
        /\ UNCHANGED <<over, walk, made, cut, walks>> /\ moves' = moves + 1 /\ quiet' = FALSE /\ Swaps
    BY DEF Others, Create, Swaps
  <1>2. new \in Node /\ new.dir = d /\ new.name = name
    <2>1. tree[d].mnt \in {Root} \cup FsRoots
      BY DEF WalkTyped, WalkTypeOK, Node
    <2> QED
      BY <2>1 DEF NewDirectory, Node, Users
  <1> HIDE DEF new
  <1>3. tree' \in [Nodes -> Node] /\ MountsOK' /\ NamesOK'
    BY <1>1, <1>2, EntryMade
  <1> QED
    BY <1>1, <1>3, Disturbed

\* Names stay unique when an entry moves to a free name, or to none at all.
LEMMA MovedNames ==
    ASSUME TrailInv, NEW n \in Nodes, NEW d \in Nodes \cup {Nowhere}, NEW name \in Names,
           tree[n].dir # Nowhere, d # Nowhere => EntryAt(d, name) = {}, UNCHANGED over,
           \A k \in Nodes \ {n} : tree'[k] = tree[k],
           tree'[n].dir = d, tree'[n].name = name, tree'[n].kind = tree[n].kind
    PROVE  MountsOK' /\ NamesOK'
  <1> USE WalkAssumption DEF TrailInv
  <1>1. \A e \in {Root} \cup FsRoots : e \in Nodes /\ e # n /\ tree'[e] = tree[e]
    BY DEF NamesOK
  <1>2. MountsOK'
    <2>1. \A k \in Nodes : tree'[k].kind = tree[k].kind
      OBVIOUS
    <2> QED
      BY <1>1, <2>1 DEF MountsOK
  <1>3. ASSUME NEW k \in Nodes, k # n, tree'[k].kind # "none", tree'[k].dir = d, tree'[k].name = name, d # Nowhere
        PROVE  FALSE
    BY <1>3 DEF EntryAt, Entries
  <1>4. NamesOK'
    <2> SUFFICES ASSUME NEW m \in Nodes, NEW k \in Nodes, tree'[m].kind # "none", tree'[k].kind # "none",
                        tree'[m].dir = tree'[k].dir, tree'[m].dir # Nowhere, tree'[m].name = tree'[k].name
                 PROVE  m = k
      BY <1>1 DEF NamesOK
    <2>1. CASE m = n \/ k = n
      BY <1>3, <2>1
    <2>2. CASE m # n /\ k # n
      BY <2>2 DEF NamesOK
    <2> QED
      BY <2>1, <2>2
  <1> QED
    BY <1>2, <1>4

\* An entry moves to a free name, or to no name at all.
LEMMA MoveTrail ==
    ASSUME TrailInv, NEW n \in Nodes, NEW d \in Nodes \cup {Nowhere}, NEW name \in Names,
           tree[n].dir # Nowhere, d # Nowhere => EntryAt(d, name) = {},
           tree' = [tree EXCEPT ![n].dir = d, ![n].name = name], UNCHANGED over
    PROVE  tree' \in [Nodes -> Node] /\ MountsOK' /\ NamesOK'
  <1>1. tree \in [Nodes -> Node]
    BY DEF TrailInv, WalkTyped, WalkTypeOK
  <1>2. tree[n] \in Node
    BY <1>1
  <1>3. tree' = [tree EXCEPT ![n] = [tree[n] EXCEPT !.dir = d, !.name = name]]
    BY <1>1 DEF Node
  <1>4. [tree[n] EXCEPT !.dir = d, !.name = name] \in Node
    BY <1>2 DEF Node
  <1>5. tree' \in [Nodes -> Node]
    BY <1>1, <1>3, <1>4
  <1>6. /\ \A k \in Nodes \ {n} : tree'[k] = tree[k]
        /\ tree'[n].dir = d /\ tree'[n].name = name /\ tree'[n].kind = tree[n].kind
    BY <1>1, <1>2, <1>3 DEF Node
  <1>7. MountsOK' /\ NamesOK'
    BY <1>6, MovedNames
  <1> QED
    BY <1>5, <1>7

\* An entry is removed or renamed.
LEMMA RenameTrail ==
    ASSUME TrailInv, NEW n \in Nodes, NEW user \in {Caller, Stranger},
           \/ Others(Remove(n, user))
           \/ \E d \in Nodes, name \in Names : Others(Rename(n, d, name, user))
    PROVE  TrailInv'
  <1>1. tree \in [Nodes -> Node] /\ tree[n] \in Node
    BY DEF TrailInv, WalkTyped, WalkTypeOK
  <1>2. PICK d \in Nodes \cup {Nowhere}, name \in Names :
            /\ tree' = [tree EXCEPT ![n].dir = d, ![n].name = name]
            /\ d # Nowhere => EntryAt(d, name) = {}
    <2>1. CASE Others(Remove(n, user))
      <3>1. tree' = [tree EXCEPT ![n].dir = Nowhere]
        BY <2>1 DEF Others, Remove
      <3>2. tree' = [tree EXCEPT ![n].dir = Nowhere, ![n].name = tree[n].name] /\ tree[n].name \in Names
        BY <1>1, <3>1 DEF Node
      <3> QED
        BY <3>2
    <2>2. CASE \E d \in Nodes, name \in Names : Others(Rename(n, d, name, user))
      BY <2>2 DEF Others, Rename
    <2> QED
      BY <2>1, <2>2
  <1>3. /\ tree[n].dir # Nowhere /\ UNCHANGED <<over, walk, made, cut, walks>>
        /\ moves' = moves + 1 /\ quiet' = FALSE /\ Swaps
    BY DEF Others, Remove, Rename, Swaps
  <1>4. tree' \in [Nodes -> Node] /\ MountsOK' /\ NamesOK'
    BY <1>2, <1>3, MoveTrail
  <1> QED
    BY <1>3, <1>4, Disturbed

\* Groups, modes and mounts leave every entry where it is.
LEMMA LoosenMountTrail ==
    ASSUME TrailInv, NEW n \in Nodes,
           Others(Loosen(n)) \/ Others(Unmount(n)) \/ \E f \in FsRoots : Others(MountOver(n, f))
    PROVE  TrailInv'
  <1> USE WalkAssumption
  <1>1. tree \in [Nodes -> Node] /\ MountsOK /\ NamesOK
    BY DEF TrailInv, WalkTyped, WalkTypeOK
  <1>2. UNCHANGED <<walk, made, cut, walks>> /\ moves' = moves + 1 /\ quiet' = FALSE /\ Swaps
    BY DEF Others, Swaps
  <1>3. /\ tree' \in [Nodes -> Node]
        /\ \A k \in Nodes : /\ tree'[k].kind = tree[k].kind /\ tree'[k].dir = tree[k].dir
                            /\ tree'[k].name = tree[k].name /\ tree'[k].mnt = tree[k].mnt
    <2>1. CASE Others(Loosen(n))
      <3>1. tree' \in {[tree EXCEPT ![n].group = Stranger], [tree EXCEPT ![n].private = FALSE],
                       [tree EXCEPT ![n].private = TRUE]}
        BY <2>1 DEF Others, Loosen
      <3> QED
        BY <1>1, <3>1, SetAttributes
    <2>2. CASE Others(Unmount(n)) \/ \E f \in FsRoots : Others(MountOver(n, f))
      BY <1>1, <2>2 DEF Others, Unmount, MountOver
    <2> QED
      BY <2>1, <2>2
  <1>4. /\ over' \in [Nodes -> FsRoots \cup {Nowhere}]
        /\ \A k \in Nodes : over'[k] # Nowhere => tree[k].kind = "dir"
    BY <1>1 DEF Others, Loosen, Unmount, MountOver, MountsOK
  <1>5. MountsOK' /\ NamesOK'
    <2>1. \A d \in {Root} \cup FsRoots : d \in Nodes
      OBVIOUS
    <2>2. MountsOK'
      BY <1>1, <1>3, <1>4, <2>1 DEF MountsOK
    <2>3. NamesOK'
      BY <1>1, <1>3, <2>1 DEF NamesOK
    <2> QED
      BY <2>2, <2>3
  <1> QED
    BY <1>2, <1>3, <1>5, Disturbed

\* A step of nobody's.
LEMMA StutterTrail == ASSUME TrailInv, UNCHANGED vars PROVE TrailInv'
  <1> USE DEF TrailInv
  <1>1. UNCHANGED <<tree, over, walk, made, cut, swapped, quiet, moves, walks>>
    BY DEF vars, treeVars, auxVars, boundVars
  <1>2. WalkTyped' /\ MountsOK' /\ NamesOK'
    BY <1>1 DEF WalkTyped, WalkTypeOK, MountsOK, NamesOK
  <1>3. (\A d, name : Found(d, name)' = Found(d, name)) /\ (\A d : Accepted(d)' = Accepted(d))
        /\ (\A d : Entries(d)' = Entries(d)) /\ Component' = Component /\ IsLast' = IsLast
    BY <1>1 DEF Found, EntryAt, Entries, Top, Accepted, Component, IsLast
  <1>4. Trails' = Trails /\ \A t : IsTrail(t)' = IsTrail(t)
    BY <1>1, <1>3 DEF Trails, IsTrail
  <1>5. OnTrail'
    BY <1>1, <1>3, <1>4 DEF OnTrail
  <1> QED
    BY <1>2, <1>5

\* Every step keeps it.
LEMMA TrailStep == ASSUME TrailInv, [Next]_vars PROVE TrailInv'
  <1>1. CASE Walk
    BY <1>1, BeginTrail, MakeTrail, OpenTrail, ChildTrail, CheckTrail, EmptyTrail, StopTrail DEF Walk
  <1>2. CASE Environment
    <2>1. ASSUME NEW d \in Nodes, NEW name \in Names, NEW user \in {Caller, Stranger},
                 NEW kind \in {"dir", "other"}, Others(Create(d, name, user, kind))
          PROVE TrailInv'
      BY <2>1, CreateTrail
    <2>2. ASSUME NEW n \in Nodes, NEW user \in {Caller, Stranger}, Others(Remove(n, user))
          PROVE TrailInv'
      BY <2>2, RenameTrail
    <2>3. ASSUME NEW n \in Nodes, NEW d \in Nodes, NEW name \in Names, NEW user \in {Caller, Stranger},
                 Others(Rename(n, d, name, user))
          PROVE TrailInv'
      BY <2>3, RenameTrail
    <2>4. ASSUME NEW n \in Nodes,
                 Others(Loosen(n)) \/ Others(Unmount(n)) \/ \E f \in FsRoots : Others(MountOver(n, f))
          PROVE TrailInv'
      BY <2>4, LoosenMountTrail
    <2> QED
      BY <1>2, <2>1, <2>2, <2>3, <2>4 DEF Environment
  <1>3. CASE UNCHANGED vars
    BY <1>3, StutterTrail
  <1> QED
    BY <1>1, <1>2, <1>3 DEF Next, Refuse

\* The trail invariant holds throughout.
LEMMA TrailInvariant == Spec => []TrailInv
  <1>1. TrailInv /\ [Next]_vars => TrailInv'
    BY TrailStep
  <1> QED
    BY <1>1, TrailInit, PTL DEF Spec

\* Every variable keeps its type: nodes are only moved between known
\* directories and names, and a walk's descriptors are nodes.
THEOREM WalkTypes == Spec => []WalkTypeOK
  <1>1. TrailInv => WalkTypeOK
    BY DEF TrailInv, WalkTyped
  <1> QED
    BY <1>1, TrailInvariant, PTL

-------------------------------------------------------------------------------
(* At the end of the trail: boot's walk finds what define's walk found.    *)

\* What BootAccepts calls "at" is a function that satisfies this equation.
IsFinding(at, path) ==
    at = [k \in 0..Len(path) |->
              IF k = 0 THEN {Root} ELSE {Top(n) : n \in UNION {EntryAt(d, path[k]) : d \in at[k - 1]}}]

LedBy(s, path) ==
    /\ s \in [0..Len(path) -> Nodes] /\ s[0] = Root
    /\ \A k \in 1..Len(path) : Found(s[k - 1], path[k]) = {s[k]}

\* A set of natural numbers that is not empty has a least element.
LEMMA Least == ASSUME NEW T \in SUBSET Nat, T # {} PROVE \E m \in T : \A k \in T : ~(k < m)
  <1>1. PICK m \in T : \A k \in T : ~(<<k, m>> \in OpToRel(<, Nat))
    BY NatLessThanWellFounded, WFMin
  <1> QED
    BY <1>1 DEF OpToRel

\* Looking up the names of a set of one directory.
LEMMA OneStep ==
    ASSUME NEW d, NEW name, NEW D, D = {d}
    PROVE  {Top(n) : n \in UNION {EntryAt(e, name) : e \in D}} = Found(d, name)
  <1>1. UNION {EntryAt(e, name) : e \in {d}} = EntryAt(d, name)
    OBVIOUS
  <1> QED
    BY <1>1 DEF Found

\* There is one way to follow a path whose names each stand for one node.
LEMMA OneFinding ==
    ASSUME NEW path, Len(path) \in Nat, NEW s, LedBy(s, path), NEW at, IsFinding(at, path)
    PROVE  \A k \in 0..Len(path) : at[k] = {s[k]}
  <1> DEFINE bad == {k \in 0..Len(path) : at[k] # {s[k]}}
  <1> SUFFICES ASSUME bad # {} PROVE FALSE
    OBVIOUS
  <1>1. bad \in SUBSET Nat
    OBVIOUS
  <1>2. PICK m \in bad : \A k \in bad : ~(k < m)
    <2> HIDE DEF bad
    <2> QED
      BY <1>1, Least
  <1>3. at[0] = {s[0]}
    BY DEF IsFinding, LedBy
  <1>4. m \in 1..Len(path) /\ m - 1 \in 0..Len(path) /\ m - 1 < m
    BY <1>2, <1>3
  <1>5. at[m - 1] = {s[m - 1]}
    BY <1>2, <1>4
  <1>6. at[m] = {Top(n) : n \in UNION {EntryAt(d, path[m]) : d \in at[m - 1]}}
    <2>1. m \in 0..Len(path) /\ m # 0
      BY <1>4
    <2> QED
      BY <2>1 DEF IsFinding
  <1>7. at[m] = Found(s[m - 1], path[m])
    BY <1>5, <1>6, OneStep
  <1> QED
    BY <1>2, <1>4, <1>7 DEF LedBy

\* There is one.
LEMMA SomeFinding ==
    ASSUME NEW path, Len(path) \in Nat, NEW s, LedBy(s, path)
    PROVE  \E at : IsFinding(at, path)
  <1> DEFINE at == [k \in 0..Len(path) |-> {s[k]}]
  <1>1. ASSUME NEW k \in 0..Len(path)
        PROVE  {s[k]} = IF k = 0 THEN {Root}
                        ELSE {Top(n) : n \in UNION {EntryAt(d, path[k]) : d \in at[k - 1]}}
    <2>1. CASE k = 0
      BY <2>1 DEF LedBy
    <2>2. CASE k # 0
      <3>1. k \in 1..Len(path) /\ k - 1 \in 0..Len(path)
        BY <2>2
      <3>2. at[k - 1] = {s[k - 1]}
        BY <3>1
      <3> HIDE DEF at
      <3>3. {Top(n) : n \in UNION {EntryAt(d, path[k]) : d \in at[k - 1]}} = Found(s[k - 1], path[k])
        BY <3>2, OneStep
      <3> QED
        BY <2>2, <3>1, <3>3 DEF LedBy
    <2> QED
      BY <2>1, <2>2
  <1>2. IsFinding(at, path)
    BY <1>1 DEF IsFinding
  <1> QED
    BY <1>2

\* So boot accepts a path whose components all stand up to its checks.
LEMMA BootFollows ==
    ASSUME NEW path, Len(path) \in Nat, NEW s, LedBy(s, path),
           \A k \in 1..Len(path) : Accepted(s[k]) /\ tree[s[k]].group = Caller,
           Entries(s[Len(path)]) = {}
    PROVE  BootAccepts(path)
  <1> DEFINE at == CHOOSE at : IsFinding(at, path)
  <1>1. IsFinding(at, path)
    BY SomeFinding
  <1>2. \A k \in 0..Len(path) : at[k] = {s[k]}
    BY <1>1, OneFinding
  <1>3. \A k \in 1..Len(path) : \E n \in at[k] : /\ tree[n].kind = "dir" /\ tree[n].mnt = Root
                                                 /\ tree[n].owner = Caller /\ tree[n].group = Caller
    <2> HIDE DEF at
    <2> TAKE k \in 1..Len(path)
    <2>1. at[k] = {s[k]}
      BY <1>2
    <2> QED
      BY <2>1 DEF Accepted
  <1>4. \A n \in at[Len(path)] : Entries(n) = {}
    <2> HIDE DEF at
    <2>1. at[Len(path)] = {s[Len(path)]}
      BY <1>2
    <2> QED
      BY <2>1
  <1> QED
    BY <1>3, <1>4, Zenon DEF BootAccepts, IsFinding

\* At the end of a walk that nobody disturbed.
LEMMA TrailEnds == ASSUME TrailInv PROVE WalksAgree
  <1> USE WalkAssumption DEF TrailInv
  <1> SUFFICES ASSUME walk.pc = "succeeded", walk.creating, quiet, GroupsAgree PROVE BootAccepts(walk.suffix)
    BY DEF WalksAgree
  <1> DEFINE path == walk.suffix
  <1>1. Len(path) \in Nat /\ walk.i \in 1..Len(path)
    BY DEF WalkTyped
  <1>2. PICK t \in Trails : IsTrail(t)
    BY DEF OnTrail
  <1>3. /\ Found(walk.fd, Component) = {walk.child} /\ Accepted(walk.child) /\ walk.i = Len(path)
        /\ Entries(walk.child) = {} /\ tree[walk.child].group = Caller
    BY DEF OnTrail, IsLast
  <1> HIDE DEF path
  <1>4. t \in [0..(Len(path) - 1) -> Nodes] /\ walk.child \in Nodes
    BY <1>2, <1>3 DEF Trails, WalkTyped
  <1>5. PICK s \in [0..Len(path) -> Nodes] : s[Len(path)] = walk.child /\ \A k \in 0..(Len(path) - 1) : s[k] = t[k]
    <2> DEFINE longer == [k \in 0..Len(path) |-> IF k = Len(path) THEN walk.child ELSE t[k]]
    <2>1. /\ longer \in [0..Len(path) -> Nodes] /\ longer[Len(path)] = walk.child
          /\ \A k \in 0..(Len(path) - 1) : longer[k] = t[k]
      BY <1>1, <1>4
    <2> QED
      BY <2>1
  <1>6. ASSUME NEW k \in 1..Len(path) PROVE Found(s[k - 1], path[k]) = {s[k]} /\ Accepted(s[k])
    <2>1. CASE k = Len(path)
      <3>1. s[k - 1] = walk.fd
        BY <1>1, <1>2, <1>3, <1>5, <2>1 DEF IsTrail
      <3> QED
        BY <1>3, <1>5, <2>1, <3>1 DEF Component, path
    <2>2. CASE k # Len(path)
      <3>1. k \in 1..(walk.i - 1) /\ k - 1 \in 0..(Len(path) - 1) /\ k \in 0..(Len(path) - 1)
        BY <1>1, <1>3, <2>2
      <3>2. Found(t[k - 1], walk.suffix[k]) = {t[k]} /\ Accepted(t[k])
        BY <1>2, <3>1 DEF IsTrail
      <3> QED
        BY <1>5, <3>1, <3>2 DEF path
    <2> QED
      BY <2>1, <2>2
  <1>7. LedBy(s, path)
    <2>1. s[0] = Root
      BY <1>1, <1>2, <1>3, <1>5 DEF IsTrail
    <2> QED
      BY <1>5, <1>6, <2>1 DEF LedBy
  <1>8. ASSUME NEW k \in 1..Len(path) PROVE tree[s[k]].group = Caller
    <2>1. CASE k = Len(path)
      BY <1>3, <1>5, <2>1
    <2>2. CASE k # Len(path)
      <3>1. k + 1 \in 1..Len(path) /\ k \in 0..Len(path) /\ (k + 1) - 1 = k
        BY <1>1, <2>2
      <3>2. Found(s[k], path[k + 1]) # {}
        BY <1>6, <3>1
      <3>3. Entries(s[k]) # {}
        BY <3>2 DEF Found, EntryAt
      <3>4. s[k] # Root
        <4>0. s[k] \in Found(s[k - 1], path[k])
          BY <1>6
        <4>1. PICK n \in EntryAt(s[k - 1], path[k]) : Top(n) = s[k]
          BY <4>0 DEF Found
        <4>2. k - 1 \in 0..Len(path)
          BY <1>1
        <4>3. n \in Nodes /\ tree[n].dir # Nowhere
          BY <1>5, <4>1, <4>2 DEF EntryAt, Entries
        <4>4. n # Root /\ over[n] # Root
          BY <4>3 DEF NamesOK, MountsOK
        <4> QED
          BY <4>1, <4>4 DEF Top
      <3>5. s[k] \in Nodes /\ tree[s[k]].kind = "dir" /\ tree[s[k]].owner = Caller
        BY <1>5, <1>6, <3>1 DEF Accepted
      <3> QED
        BY <3>3, <3>4, <3>5 DEF GroupsAgree
    <2> QED
      BY <2>1, <2>2
  <1>9. BootAccepts(path)
    BY <1>1, <1>3, <1>5, <1>6, <1>7, <1>8, BootFollows
  <1> QED
    BY <1>9 DEF path

\* A mount point that define has just made or accepted is one that boot
\* accepts, if nobody touched it and the directories on the way have the
\* caller's group.
THEOREM DefineAndBootAgree == Spec => []WalksAgree
  <1>1. TrailInv => WalksAgree
    BY TrailEnds
  <1> QED
    BY <1>1, TrailInvariant, PTL
=============================================================================
