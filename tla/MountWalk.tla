------------------------------ MODULE MountWalk -------------------------------
(***************************************************************************)
(* The two walks from an authorized root down to a mount point             *)
(* (src/src/core/unitspec.cpp): openMountpointNoFollow, which makes what   *)
(* is missing, and openMountpointNoCreate, which boot uses.  One action    *)
(* per system call that somebody else's rename, mount or mkdir can come    *)
(* between.  Descriptors hold on to nodes, names are looked up anew.       *)
(***************************************************************************)
EXTENDS Naturals, Sequences, FiniteSets

CONSTANTS Nodes,      \* directories and other files there can be
          Root,       \* the authorized root that a walk starts from
          FsRoots,    \* roots of other file systems, mounted now and then
          Nowhere,    \* the directory of a node that has no name
          Names,      \* names of directory entries
          Caller, Superuser, Stranger,
          Paths,      \* the paths callers ask for, as sequences of components
          Home,       \* the path of Root
          Trees,      \* the trees a walk may find
          MaxMoves,   \* bound: what others do
          MaxWalks    \* bound: walks

Users == {Caller, Superuser, Stranger}

Node == [kind : {"none", "dir", "other"}, dir : Nodes \cup {Nowhere}, name : Names,
         owner : Users, group : Users, private : BOOLEAN, mnt : {Root} \cup FsRoots]

ASSUME WalkAssumption ==
    /\ Root \in Nodes /\ FsRoots \subseteq Nodes \ {Root} /\ Nowhere \notin Nodes
    /\ Superuser # Caller /\ Stranger # Caller
    /\ Trees \subseteq [Nodes -> Node]
    /\ \A t \in Trees : t[Root].mnt = Root /\ \A d \in {Root} \cup FsRoots : t[d].kind = "dir"
    /\ MaxMoves \in Nat /\ MaxWalks \in Nat

\* The root of a file system is no entry of it, and a name stands for one node.
ASSUME TreesAssumption ==
    \A t \in Trees :
        /\ \A d \in {Root} \cup FsRoots : t[d].dir = Nowhere
        /\ \A m, n \in {k \in Nodes : t[k].kind # "none" /\ t[k].dir # Nowhere} :
               t[m].dir = t[n].dir /\ t[m].name = t[n].name => m = n

VARIABLES tree,    \* every node; those of kind "none" are free
          over,    \* the file system root mounted over a directory
          walk,    \* the walk: where it is, its descriptors, whether it made the last component
          made,    \* auxiliary: the directories walks have made
          cut,     \* auxiliary: those whose walk ended before they were handed over
          swapped, \* auxiliary: what stood under the name of a directory before and after others
                   \*   changed it, if that was between its mkdirat and its openat
          quiet,   \* auxiliary: nobody has done anything since the walk began
          moves, walks

treeVars  == <<tree, over>>
boundVars == <<moves, walks>>
auxVars   == <<made, cut, swapped, quiet>>
vars      == <<treeVars, walk, auxVars, boundVars>>

NoWalk == [pc |-> "idle", creating |-> FALSE, suffix |-> <<>>, i |-> 1,
           fd |-> Root, child |-> Root, created |-> FALSE]

Init ==
    /\ tree \in Trees
    /\ over = [n \in Nodes |-> Nowhere]
    /\ walk = NoWalk
    /\ made = {} /\ cut = {} /\ swapped = {} /\ quiet = TRUE
    /\ moves = 0 /\ walks = 0

-------------------------------------------------------------------------------
(* validateMountpoint: lexical, nothing is resolved.                       *)

\* QDir::cleanPath: ".." takes the component before it away, if there is one.
Clean(path) ==
    LET upTo[k \in 0..Len(path)] ==
            IF k = 0 THEN <<>>
            ELSE LET done == upTo[k - 1]
                 IN  IF path[k] # ".." \/ done = <<>> \/ done[Len(done)] = ".."
                     THEN Append(done, path[k])
                     ELSE SubSeq(done, 1, Len(done) - 1)
    IN  upTo[Len(path)]

\* The components strictly below the root, none if the path is not below it.
Suffix(path) ==
    LET clean == Clean(path)
    IN  IF /\ Len(clean) > Len(Home) /\ SubSeq(clean, 1, Len(Home)) = Home
           /\ \A k \in (Len(Home) + 1)..Len(clean) : clean[k] # ".."
        THEN SubSeq(clean, Len(Home) + 1, Len(clean))
        ELSE <<>>

\* Names has every name a walk is sent through.
ASSUME PathAssumption == \A path \in Paths : Suffix(path) \in Seq(Names)

-------------------------------------------------------------------------------
(* What the kernel makes of names and descriptors.                         *)

Entries(d) == {n \in Nodes : tree[n].kind # "none" /\ tree[n].dir = d}

EntryAt(d, name) == {n \in Entries(d) : tree[n].name = name}

\* What a lookup finds: the file system mounted over a directory, if any.
Top(n) == IF over[n] = Nowhere THEN n ELSE over[n]

\* A directory that was removed while a descriptor is open takes no entries.
Linked(d) == d \in {Root} \cup FsRoots \/ tree[d].dir # Nowhere

Free == {n \in Nodes : tree[n].kind = "none"}

\* Which of the free nodes a new entry gets makes no difference.
NextFree == CHOOSE n \in Free : TRUE

NewDirectory(d, name, user) ==
    [kind |-> "dir", dir |-> d, name |-> name, owner |-> user, group |-> user,
     private |-> TRUE, mnt |-> tree[d].mnt]

-------------------------------------------------------------------------------
(* The walks.                                                              *)

Component == walk.suffix[walk.i]
IsLast    == walk.i = Len(walk.suffix)

\* A directory this walk has just made and not yet given to the caller.
Unowned == IF ~walk.created THEN {}
           ELSE IF walk.pc = "open" THEN EntryAt(walk.fd, Component) \cap made
           ELSE IF walk.pc = "own" THEN {walk.child} \cap made ELSE {}

Fail ==
    /\ walk' = [NoWalk EXCEPT !.pc = "failed"]
    /\ cut' = cut \cup Unowned
    /\ UNCHANGED <<treeVars, made, swapped, quiet, boundVars>>

\* Mutant: the walk starts one component too early.
BeginEarly(path, creating) ==
    /\ walk.pc \in {"idle", "failed", "succeeded"} /\ walks < MaxWalks
    /\ Suffix(path) # <<>>
    /\ walk' = [NoWalk EXCEPT !.pc = IF creating THEN "make" ELSE "open", !.i = 0,
                              !.creating = creating, !.suffix = Suffix(path)]
    /\ quiet' = TRUE /\ walks' = walks + 1
    /\ UNCHANGED <<treeVars, made, cut, swapped, moves>>

\* Paths that are not strictly below the root are refused before any walk.
Begin(path, creating) ==
    /\ walk.pc \in {"idle", "failed", "succeeded"} /\ walks < MaxWalks
    /\ Suffix(path) # <<>>
    /\ walk' = [NoWalk EXCEPT !.pc = IF creating THEN "make" ELSE "open",
                              !.creating = creating, !.suffix = Suffix(path)]
    /\ quiet' = TRUE /\ walks' = walks + 1
    /\ UNCHANGED <<treeVars, made, cut, swapped, moves>>

\* mkdirat of one component; EEXIST is as good.
MakeDirectory ==
    /\ walk.pc = "make"
    /\ \/ /\ EntryAt(walk.fd, Component) # {}
          /\ walk' = [walk EXCEPT !.pc = "open", !.created = FALSE]
          /\ UNCHANGED <<tree, made>>
       \/ /\ EntryAt(walk.fd, Component) = {} /\ Linked(walk.fd)
          /\ Free # {}
          /\ tree' = [tree EXCEPT ![NextFree] = NewDirectory(walk.fd, Component, Superuser)]
          /\ made' = made \cup {NextFree}
          /\ walk' = [walk EXCEPT !.pc = "open", !.created = TRUE]
    /\ UNCHANGED <<over, cut, swapped, quiet, boundVars>>

\* openat with O_NOFOLLOW: the name may stand for something else by now.
OpenComponent ==
    /\ walk.pc = "open"
    /\ \E n \in EntryAt(walk.fd, Component) :
         /\ tree[n].kind = "dir"
         /\ walk' = [walk EXCEPT !.pc = IF walk.created THEN "own" ELSE "check", !.child = Top(n)]
    /\ UNCHANGED <<treeVars, auxVars, boundVars>>

SetOwner(d, user) == tree' = [tree EXCEPT ![d].owner = user, ![d].group = user]

\* Mutant: only the mount point itself is given to the caller.
OwnCreatedLast ==
    /\ walk.pc = "own"
    /\ IF IsLast THEN SetOwner(walk.child, Caller) ELSE UNCHANGED tree
    /\ walk' = [walk EXCEPT !.pc = "check"]
    /\ UNCHANGED <<over, auxVars, boundVars>>

\* fchown of a component that mkdirat made.
OwnCreated ==
    /\ walk.pc = "own"
    /\ SetOwner(walk.child, Caller)
    /\ walk' = [walk EXCEPT !.pc = "check"]
    /\ UNCHANGED <<over, auxVars, boundVars>>

\* Mutant: intermediate components may be on another mount.
CrossesMountLast(child, parent) == IsLast /\ tree[child].mnt # tree[parent].mnt

\* Mount ids: the child is on the mount of the directory it was found in.
CrossesMount(child, parent) == tree[child].mnt # tree[parent].mnt

\* Mutant: define's walk accepts what somebody else owns.
BelongsUnchecked(d) == walk.creating \/ (tree[d].owner = Caller /\ tree[d].group = Caller)

\* The caller owns it, or the walk has made it; boot wants the group as well.
Belongs(d) ==
    IF walk.creating THEN walk.created \/ tree[d].owner = Caller
    ELSE tree[d].owner = Caller /\ tree[d].group = Caller

Passes == Belongs(walk.child) /\ ~CrossesMount(walk.child, walk.fd)

\* fstat and statx of both descriptors; an intermediate component is entered.
CheckComponent ==
    /\ walk.pc = "check" /\ Passes
    /\ walk' = IF IsLast THEN [walk EXCEPT !.pc = "empty"]
               ELSE [walk EXCEPT !.pc = IF walk.creating THEN "make" ELSE "open",
                                 !.i = @ + 1, !.fd = walk.child]
    /\ UNCHANGED <<treeVars, auxVars, boundVars>>

\* directoryIsEmpty; boot is done with that.
CheckEmpty ==
    /\ walk.pc = "empty" /\ Entries(walk.child) = {}
    /\ walk' = [walk EXCEPT !.pc = IF walk.creating THEN "take" ELSE "succeeded"]
    /\ UNCHANGED <<treeVars, auxVars, boundVars>>

\* Mutant: the owner and group are set on directories the walk made only.
TakeCreated ==
    /\ walk.pc = "take"
    /\ IF walk.created THEN SetOwner(walk.child, Caller) ELSE UNCHANGED tree
    /\ walk' = [walk EXCEPT !.pc = "restrict"]
    /\ UNCHANGED <<over, auxVars, boundVars>>

\* fchown and then fchmod of the mount point.
TakeMountPoint ==
    /\ walk.pc = "take"
    /\ SetOwner(walk.child, Caller)
    /\ walk' = [walk EXCEPT !.pc = "restrict"]
    /\ UNCHANGED <<over, auxVars, boundVars>>

Restrict ==
    /\ walk.pc = "restrict"
    /\ tree' = [tree EXCEPT ![walk.child].private = TRUE]
    /\ walk' = [walk EXCEPT !.pc = "succeeded"]
    /\ UNCHANGED <<over, auxVars, boundVars>>

Walking == walk.pc \notin {"idle", "failed", "succeeded"}

\* A check that refuses, a name that is gone or no directory, a system call
\* that fails, a kill: whatever was made so far stays.
Stop == Walking /\ Fail

Walk ==
    \/ \E path \in Paths, creating \in BOOLEAN : Begin(path, creating)
    \/ MakeDirectory \/ OpenComponent \/ OwnCreated \/ CheckComponent
    \/ CheckEmpty \/ TakeMountPoint \/ Restrict \/ Stop

-------------------------------------------------------------------------------
(* Everybody else.                                                         *)

Writable(d, user) == /\ tree[d].kind = "dir" /\ Linked(d)
                     /\ tree[d].owner = user \/ ~tree[d].private

\* What stands under the name of a directory that mkdirat has made and openat
\* has not opened yet, and what is mounted over it.
Stands == LET at == EntryAt(walk.fd, Component)
          IN  IF walk.created /\ walk.pc = "open" THEN at \cup {Top(n) : n \in at} ELSE {}

Others(action) ==
    /\ Walking /\ moves < MaxMoves /\ action
    /\ moves' = moves + 1 /\ quiet' = FALSE
    /\ UNCHANGED <<walk, made, cut, walks>>
    /\ swapped' = IF Stands' = Stands THEN swapped ELSE swapped \cup Stands \cup Stands'

\* A directory, or something that is none, under a free name.
Create(d, name, user, kind) ==
    /\ Writable(d, user) /\ EntryAt(d, name) = {} /\ Free # {}
    /\ tree' = [tree EXCEPT ![NextFree] = [NewDirectory(d, name, user) EXCEPT !.kind = kind]]
    /\ UNCHANGED over

\* Gone from its directory; descriptors keep it.
Remove(n, user) ==
    /\ tree[n].kind # "none" /\ tree[n].dir # Nowhere /\ Writable(tree[n].dir, user)
    /\ over[n] = Nowhere /\ Entries(n) = {}
    /\ tree' = [tree EXCEPT ![n].dir = Nowhere]
    /\ UNCHANGED over

Rename(n, d, name, user) ==
    /\ tree[n].kind # "none" /\ tree[n].dir # Nowhere /\ Writable(tree[n].dir, user)
    /\ over[n] = Nowhere
    /\ Writable(d, user) /\ EntryAt(d, name) = {} /\ tree[d].mnt = tree[n].mnt
    /\ d # tree[n].dir => /\ tree[n].owner = user \/ ~tree[n].private
                          /\ Entries(n) = {} /\ d # n
    /\ tree' = [tree EXCEPT ![n].dir = d, ![n].name = name]
    /\ UNCHANGED over

\* chgrp and chmod by the owner.
Loosen(n) ==
    /\ tree[n].kind = "dir" /\ tree[n].owner = Caller
    /\ tree' \in {[tree EXCEPT ![n].group = Stranger], [tree EXCEPT ![n].private = FALSE]}
    /\ UNCHANGED over

MountOver(n, f) ==
    /\ tree[n].kind = "dir" /\ tree[n].dir # Nowhere
    /\ over[n] = Nowhere /\ \A d \in Nodes : over[d] # f
    /\ over' = [over EXCEPT ![n] = f]
    /\ UNCHANGED tree

Unmount(n) ==
    /\ over[n] # Nowhere
    /\ over' = [over EXCEPT ![n] = Nowhere]
    /\ UNCHANGED tree

Environment ==
    \/ \E d \in Nodes, name \in Names, user \in {Caller, Stranger}, kind \in {"dir", "other"} :
           Others(Create(d, name, user, kind))
    \/ \E n \in Nodes, user \in {Caller, Stranger} : Others(Remove(n, user))
    \/ \E n, d \in Nodes, name \in Names, user \in {Caller, Stranger} : Others(Rename(n, d, name, user))
    \/ \E n \in Nodes : Others(Loosen(n))
    \/ \E n \in Nodes, f \in FsRoots : Others(MountOver(n, f))
    \/ \E n \in Nodes : Others(Unmount(n))

\* A request for a path outside the root changes nothing.
Refuse(path) ==
    /\ ~Walking /\ Suffix(path) = <<>>
    /\ UNCHANGED vars

Next == Walk \/ Environment \/ \E path \in Paths : Refuse(path)

Spec == Init /\ [][Next]_vars

-------------------------------------------------------------------------------
(* Properties.                                                             *)

WalkTypeOK ==
    /\ tree \in [Nodes -> Node]
    /\ over \in [Nodes -> FsRoots \cup {Nowhere}]
    /\ walk.pc \in {"idle", "make", "open", "own", "check", "empty", "take", "restrict",
                    "failed", "succeeded"}
    /\ walk.creating \in BOOLEAN /\ walk.created \in BOOLEAN
    /\ walk.fd \in Nodes /\ walk.child \in Nodes /\ walk.i \in Nat \ {0}
    /\ made \subseteq Nodes /\ cut \subseteq made /\ swapped \subseteq Nodes /\ quiet \in BOOLEAN
    /\ moves \in Nat /\ walks \in Nat

\* A walk makes nobody the owner of a directory but of one that a walk has made
\* or that was the caller's already - whatever is renamed or mounted meanwhile,
\* but for what others put under the very name mkdirat has just used, before
\* openat: the code takes what it finds there for what it has made.
HandsOverOnlyItsOwn ==
    [][\A n \in Nodes : tree[n].kind = "dir" /\ tree'[n].owner # tree[n].owner
                            => n \in made \cup swapped]_vars

\* Root makes directories in the authorized root and in directories of the
\* caller's on the same mount, never on somebody else's ground.
BuildsOnOwnGround ==
    [][\A n \in made' \ made :
           LET ground == tree'[n].dir
           IN  ground = Root \/ (tree[ground].owner = Caller /\ tree[ground].mnt = Root)]_vars

\* Every directory a walk makes ends up with the caller, whether the walk
\* succeeds, is refused further down or killed, unless it is cut short
\* between mkdirat and fchown of that very directory, or others take the
\* directory away from under its name, or mount over it, before openat.  (One
\* that is left with root makes every later walk fail.)
NothingLeftForeign ==
    \A n \in made : tree[n].owner = Caller \/ n \in cut \cup Unowned \cup swapped

\* What boot's walk would find on this path, component by component.
BootAccepts(path) ==
    LET at[k \in 0..Len(path)] ==
            IF k = 0 THEN {Root} ELSE {Top(n) : n \in UNION {EntryAt(d, path[k]) : d \in at[k - 1]}}
    IN  /\ \A k \in 1..Len(path) : \E n \in at[k] : /\ tree[n].kind = "dir" /\ tree[n].mnt = Root
                                                   /\ tree[n].owner = Caller /\ tree[n].group = Caller
        /\ \A n \in at[Len(path)] : Entries(n) = {}

\* The intermediate components all have the caller's own group.
GroupsAgree == \A n \in Nodes : tree[n].kind = "dir" /\ tree[n].owner = Caller /\ Entries(n) # {}
                                    => n = Root \/ tree[n].group = Caller

\* A mount point that define's walk has just made or accepted is one that boot
\* will arm after a reboot, if nobody touches it and if no directory on the
\* way has another group (boot checks it, define does not set it).
WalksAgree ==
    walk.pc = "succeeded" /\ walk.creating /\ quiet /\ GroupsAgree => BootAccepts(walk.suffix)
===============================================================================
