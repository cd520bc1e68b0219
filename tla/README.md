# Verification of nasmount

nasmount gives the desktop user of a Linux machine SMB shares that mount on first access. A service-menu
dialog and a System Settings module run unprivileged; everything that changes the machine is done by a KAuth
helper running as root, which writes a pair of systemd units per share (`<base>.mount` and
`<base>.automount`), a credential file, and starts the automount. A boot-time oneshot arms all shares again.

This directory models that program in TLA+. TLC checks the models on small instances, and TLAPS proves the
theorems listed below for every value of the constants. Paths like `root/arming.cpp` are relative to
`src/src/`; the design documents are in `src/docs/`.

    tlc -workers 2 -config Core.cfg MCOperations     # one run; PROJECT.json lists them all
    tlapm OperationsProofs.tla                       # one proof module

`PROJECT.json` maps every definition to the source lines it stands for, names for every checked property a
mutation of the code that violates it, and lists the hazards the properties are for.

## 1. Inventory

| Component | State | Operations | Modelled in |
|---|---|---|---|
| `core/verify` | none (reads units, mountinfo, systemctl, statx) | `inspectDefinition`, `inspectRuntime`, `classifyMountEntries`, `pairScannedHalves` | Verify, Arming, Client; their text in UnitFile |
| `core/unitvalue` | none | encoding and decoding of unit values | UnitFile |
| `core/unitspec` | none | markers, the two unit bodies and their validation; the walks to a mount point | UnitFile, MountWalk |
| `root/durablefs` | a private directory and its files | `createAndVerifyDir`, `durableReplace`, `durableUnlink`, `durableRemoveTree` | DurableFs |
| `root/credentialstore` | `/etc/nasmount/<id>.cred` | `write`, `remove`, `healthy`, `assertAbsent` | Operations, Arming, Purge |
| `root/runtimefiles` | `/run/nasmount-ids/<base>`: mount id of the trigger nasmount started | write, read, remove | Arming, Operations, Purge |
| `root/systemdops` | PID 1 | `start`, `stop`, `daemonReload` through `systemctl` with a timeout | Host, Arming |
| `root/rootlock` | `/run/nasmount/helper.lock` | acquire, release | RootLock, Mutex |
| `root/arming` | none of its own | `safeStop`, `armShare` with compensation | Arming |
| `root/operations` | the two unit files, credential, record | `define`, `remove`, `purge` | Operations, Purge |
| `root/inventory` | none | the listing for the settings module | Purge (its side effect), Client (its answer) |
| `helper` | none | `definesystem`, `undefinesystem`, `inventory`, `purge` | Operations, Purge; as callers see it: Client |
| `boot` | none | one pass over all complete pairs | Operations |
| `core/packagestate`, `packageguard` | none | refuses a package removal | PackageGuard |
| `session` MountActions, Store, UserLock, helperinvoke | the per-user Store, a lock file in the user's runtime directory | `addShare`, `deleteShare`, `removeOrphanedRecord`, `removeOrphanByPath` | Client |
| `session` MountModel | the rows shown | `refresh`, `classifyRow` | Client |
| `dialog`, `kcm` | none that lasts | front ends over the two above | Client (their verbs) |
| `session/cleanupvalidation`, `cleanup` | the user's own files | per-user uninstall | Client, from the user lock on |
| packaging, install scripts, service menu | files | install, remove | not modelled |

**How they interact.** Front ends call `MountActions` on a worker thread; each operation takes the per-user
lock, calls the helper through KAuth/D-Bus and then changes the Store. The helper and the boot oneshot take
the root lock and then read and write unit files, credentials and records, and run `systemctl`. The helper
has no memory: after a kill the next call starts from what is on disk, in `/run` and in PID 1. The settings
module builds its rows from four reads - unit files, Store, runtime, inventory - that no lock makes atomic.
The package guard reads unit files and directories under no lock at all, and the package manager acts on its
exit status later.

**What is hard.**

- *Failure in the middle.* `define` has six writes and a start; `remove` two stops, four deletions and a
  reload; `purge` all of it for every share. Any step can fail before or after taking effect, and the program can be
  killed between any two. What is left must be visible, removable and never an unindexed secret.
- *The environment moves.* PID 1 starts, stops and collects units, a process entering the path mounts the share at
  any moment, the mount expires, an administrator uses the same names, directories vanish, machines reboot.
  The decision to stop or start rests on four reads that are not atomic.
- *Identity.* A live trigger may be stopped or taken over only when it is the one nasmount started, which it
  knows by a mount id recorded after the start.
- *The lock* lives in a directory that one of its holders removes.
- *Lost replies.* The client may not conclude from a lost reply that a call did nothing, nor that it did.
- *Power loss* between the system calls of a replace, unlink or tree removal.
- *Directories.* The helper makes and hands over directories as root in a tree whose owner renames, replaces and
  mounts over them in the meantime; boot walks the same path later by stricter rules.
- *Text.* Four readers take the same two files apart - the validators, the listing, systemd, and the
  kernel's mountinfo for what systemd made of them - and an administrator may edit them.

**What makes each part correct.**

- *define*: success means a whole, armed, recorded definition; failure means nothing is left or all of it is
  (`DefineComplete`, `DefineAtomic`, `ArmedIsTrusted`); no live trigger without its definition
  (`DefinitionOutlivesTrigger`).
- *remove*: nothing is live from the first deletion on and nothing left after success (`RemovalIsQuiet`, `RemoveComplete`).
- *files*: no secret without units, no halves that disagree, foreign units untouched (`CredentialIndexed`,
  `NeverSelfTampered`, `ForeignUntouched`).
- *identity*: `TrustedIsOurs`, `StopsOnlyItsOwn`.
- *boot*: one share's failure costs no other its trigger (`BootArmsTheRest`); *all calls* return (`CallsReturn`).
- *helper calls*: their callers see the halves of one share change in a fixed order, and success only after both
  (`KeepsPromise`, `PurgeKeepsPromise`).
- *purge*: `PurgeComplete`, `PurgeIsQuiet`; *package guard*: what it lets go leaves no share behind but one whose
  `define` began behind its back (`RemovalOrphansNothing`).
- *lock*: `RefinesMutex`, `LockKept`, `WaiterNotStuck`. *Disk*: `NeverTorn`, `ReplaceDurable`, `TreeStaysEmpty`,
  and what a power loss can undo was reported to somebody (`DurableUnlessReported`).
- *walks*: root creates on the caller's ground only (`BuildsOnOwnGround`), gives away only what it created
  or found under the name it had just created (`HandsOverOnlyItsOwn`), leaves none of it behind as root's (`NothingLeftForeign`), and what `define` accepts boot
  accepts (`WalksAgree`).
- *unit files*: written and read back by everybody alike (`RoundTrips`); a trusted definition is the template
  (`TrustedIsTemplate`), and the one that is listed (`TrustedIsListed`).
- *client*: `RecordKeptWhileDefined`, `AddedIsRecorded`, `CurrentRowsAreTrue`, `OwnEffectsShown`.

## 2. Modules

    Verify ── Host ── Arming ── Operations ── Purge ── PackageGuard   (EXTENDS, left to right)
       │                            ┊           ┊                     (INSTANCE: both implement
       └───── HelperPromise ┄┄┄┄┄┄┄┄┴┄┄┄┄┄┄┄┄┄┄┄┘                      HelperPromise)
                   └───── Client                 RootLock ┄┄ Mutex
    DurableFs ── DurableHistory                  MountWalk      UnitFile

### Verify - the pure decisions

A unit half is reduced to what `inspectDefinition` tells apart: no file, a file without a marker (`Alien`), a
damaged or unsafe one (`Broken`), or a managed half, which is represented by the share id in its marker.
Two halves with the same id agree in every field, because one call of `define` wrote both; two halves with
different ids disagree. `RuntimeSnapshot` has the four axes of the code. `ClassifyMountEntries` returns on the
first entry of the path, as the loop in `verify.cpp` does.

### Host - what the root programs act on

Per mount point: the two halves, the directory, the id record, what PID 1 has loaded, the live autofs trigger, what is
mounted over it, and a start job PID 1 has accepted but not run. `creds` is the set of ids with a credential.
PID 1, autofs and the kernel are external and modelled as the code uses them: `start` needs a loaded
definition and the directory (`ConditionPathIsDirectory=`; a false condition lets `start` succeed and do
nothing), `stop` of a `.mount` takes the mount away, entering the trigger mounts the share, an idle mount
expires. Mount ids are handed out in increasing order and start over at a reboot, where `/run` and every mount go too.
`MountinfoEntries` lists the trigger before the mount stacked on it, as the kernel does. The owner removes the mount
point and makes it again at any moment (`RemoveDirectory`, `MakeDirectory`); `UniqueMountId` of a path with nothing mounted
at it is the id of the file system below (`UnderId`).

### Arming - safeStop and armShare

One action per read or system call, so that everything in the environment can happen in between.
`inspectRuntime` is four actions (`ShowAutomount`, `ReadMountinfo`, `ShowMount`, `ReadIds`), used by stop, arm
and the recheck after a failed start; `call.site` says where to go on. `armShare` compensates a start it
could not record (`Compensate`, `StopStarted`, `ForgetId`). Every step may fail; `MaxHits` bounds the failures
of a call, and a failing `systemctl` or write may have taken effect or not. `call.missing` is auxiliary: the
mount point was not there when PID 1 came to the start, or boot's walk to the path.

### Operations - define, remove, boot pass

One action per write, with `define`'s cleanup. `pc` is where the program is, `call` its local variables. One
program runs at a time: that is what RootLock is about. `Crash` can happen at any step. `Environment` interleaves
with everything; the administrator acts on the same paths while no call is under way.

### Purge - uninstalling

`purge` in two passes (stop every share, then delete) followed by the three tree removals, among the
operations named by `Peers`. `roots` is the set of state directories that exist; the steps that go through
`createAndVerifyDir` create them (`Touched`), and every program makes `/run/nasmount` before anything else.

### PackageGuard - what refuses a package removal

The guard among all programs of Purge, without a lock: the listing of the unit directory, the reading of each file, the
look at each of the three directories and the exit are one action each, and the removal of the programs is a later step,
of the package manager. Programs begin between any two of these, until the programs are gone. `unread` is the rest of the listing;
`late` is auxiliary, the mount points at which a `define` began after the look for `/run/nasmount`.

### RootLock, Mutex - the lock

One action per system call of `acquire`, release, and purge's removal of the lock's directory, for any number of programs. Inodes
are reused once free. `Mutex` is the abstract promise; `RefinesMutex` states that `RootLock` implements it with
`inside <- Inside`, the holders of the file the next program will find.

### DurableFs, DurableHistory - what a power loss leaves

A directory, a name in it, temporary files; `dirOnDisk` and `fileOnDisk` are the sets of states each may be
found in after a power loss, so an `fsync` makes the set a singleton. POSIX only: data not synced may be
absent even where the rename survived. DurableHistory adds one history variable, `clean`: every call since the
disk was last certain has returned true. It changes no action.

### MountWalk - the walks to a mount point

`openMountpointNoFollow` (the helper, which creates what is missing) and `openMountpointNoCreate` (boot), one
action per system call. A directory is a node with its parent, name, owner, group, whether others may write to it, and the
mount it is on; `over` says what is mounted on it. `walk.fd` and `walk.child` are the two descriptors: they stay
with the node, while every name is looked up anew (`EntryAt`, `Top`). `validateMountpoint` is `Suffix`, which
resolves `..` lexically. Between any two system calls the owner and others create, remove, rename, `chgrp`, mount and unmount
(`Environment`), also under the very name that was just made. `made`, `cut` and `swapped` are auxiliary: the directories walks
have made, those whose walk ended between `mkdirat` and `fchown`, and those that others took from under the name
of a new directory, or put there, before the walk had it open (`Stands` is what the name stands for by then).

### UnitFile - the text of a share's two units

A value is a sequence of pieces: the characters the conversions treat specially one by one, everything else in blocks. A line is
a record of its kind, key and value. `MountUnit` and `AutomountUnit` are the bodies `unitspec.cpp` builds, `Doubled`, `Undoubled`
and `Unescaped` the conversions; `Verdict` is `inspectDefinition` on the text, `Listed` is `scanManagedHalves` with
`pairScannedHalves`, `Reads` is what systemd takes from the file (blanks at either end taken off, `Stripped`) and `Recognised` what mountinfo then shows of it. The
state machine writes a pair and lets an administrator delete lines, insert blocks and change values. `Pieces` and `Words` are what
text and keys are made of, `Literals` and `Keys` those that the code and systemd put in themselves; `TextAssumption` says
that requests, ids, digits and inserted lines are made of `Pieces` and `Words`, that a marker's uid and gid are numbers of 32 bits and its uid is the caller's.

### HelperPromise - what callers of the helper may count on

The two halves of every share and one call at a time, which changes the halves of one share after the other in a fixed
order, over nothing or over what nasmount owns, and is successful only when both are done; a failed `define` takes
back what it can, a failed removal stops where it is, and any step that fails may have taken effect. It is the abstract
specification of `Operations` (through `HelperView`) and of `Purge` (through `PurgeView`), where the
same calls are some fifty actions against a moving host, and it is what `Client` is built on.
So what Client assumes of the helper is shown of the helper. A call that can only fail any more has ended for its caller
(`HelperView` is then `NoJob`); the boot pass is nobody's call and changes no unit file.

### Client - dialog, settings module, Store

The operations of `MountActions` under the user lock, the Store keyed by id, and the helper of HelperPromise;
`caller` is who waits for its reply. The reply may be
lost (`GiveUp`) while the call goes on; helper, dialog and settings module may be killed. An operation starts when it gets the
user lock (`UserLockFree`), as none of them reads or changes anything before; only a delete is chosen earlier, in the rows or when the dialog
opens, and waits at `"lock"` while the user confirms it and others work. `CleanUp` is
`nasmount-cleanup`: a purge call under the user lock, and the removal of the Store only on a confirmed success. `MountModel` is a refresh of
separate reads (`ReadUnits`, `ReadStore`, `InspectStored`, `ReadInventory`, `Deliver`); a newer refresh replaces an
older one, as `QFutureWatcher` does. A row is reduced to what identifies it and the verbs it offers.

## 3. Runs

| Run | Instance | Question |
|---|---|---|
| `core` | 1 mount point, 3 ids (1 guest), stray units, 2 failures per call | Do `define`, `remove` and `boot` do what they report, and return? |
| `hostile` | the same with late start jobs and users in the arm window | What holds even then? |
| `two_units` | 2 mount points, 2 ids, 1 failure | Ids across shares; one share's failure in a boot pass; do `define` and `remove` implement HelperPromise? |
| `lock` | 3 programs, 1 purger, 4 inodes | What does the lock keep around a purge? |
| `disk` | 2 contents, 2 temporary files | What do the durable primitives keep through power losses? |
| `walk` | 5 nodes, 4 paths, 28 trees, 2 walks, 2 moves of others | What does root make and hand over, and where? |
| `units` | 6 requests, 12 blocks of lines, 2 edits | Do writer, validators, listing, systemd and mountinfo agree? |
| `purge` | 2 mount points, 2 ids, both symmetric; without the guard `define` besides, 1 failure; with it `define` and `remove` besides, no failure | Does a purge leave nothing and implement HelperPromise, and the guard orphan nothing? |
| `client` | 1 mount point, 2 ids, a dialog or cleanup, and the settings module | Do records and definitions stay reachable, are the rows true? |
| `crossed`, `mounted`, `lock_purged` | as small as shows it | Sentences of the repository that do not hold (section 6). |

**Why the bounds are enough.**

- *Mount points.* The root programs touch one mount point per call, except for the allocation of ids, the boot pass and
  the purge; these have the runs with two. Two are enough to have one share fail and the other not.
- *Ids.* Three with one mount point: an old definition, a new one, and one more that must not be taken for
  either; one of them is a guest id, for which no credential may exist. In `client` either of two ids may be
  recorded from before, and the other is handed out.
- *Failures (`MaxHits`).* Two per call is one more than `DefineAtomic` forgives: an operation and its
  compensation can both fail. Across calls the number is unbounded. With two mount points it is one.
- *Mount ids (`MaxInst`).* Bounds the ids of one boot; a reboot starts them over, so that a recorded id
  is met again. Each run allows at least a trigger and the mount over it; with two mount points, two triggers as well.
- *Temporary files, inodes.* Two files left by kills and one more inode than programs, so that one is always
  free and freed ones are reused.
- *Walks.* A path of one and of two components, one that `..` leads out of the home and one that it leads back to it;
  five nodes are a root, another file system and three more, so that a walk can make every component of the longest path
  while one is renamed away. `Trees0` has them absent, the caller's, a stranger's or with another group. Two walks, so that one
  meets what the other left; two moves (`MaxMoves`) are a swap, or a mount and an unmount.
- *Edits (`MaxEdits`).* Two, because every way found of making two readers disagree needs at most a section header and
  a line below it; each block is one kind of change: a second assignment, another value, a header, an indented
  header, a blank behind the name, a marker field. The six requests hold every character a conversion treats specially, and sequences that look
  like the result of one (`%%`, `\040`).
- *Symmetry* is used for the mount points and ids of `purge` and the ids of `client`, which no definition tells apart
  (`Guests` is empty in both; guest shares, which have no credential, are in `core`, `hostile` and `two_units`), and in
  no run with a liveness property.
- *The two instances of `purge`* (module MCPurge). Where no removal of the package is asked for: two live shares, a failing step per call, `define`
  and purge. Where one is: any program between any two steps of the guard, kills and reboots, a stray unit file, one share at a
  time, no failing step, and the mount points stay where they are: the guard reads only what a call leaves on disk, and a call that
  fails leaves what a killed one does. What a failing step adds to a purge is asked where there is no guard.
- *Sizes.* The largest runs reach between one and five million states, in one to three minutes each.
- *Runtime* in `client` is one snapshot, an armed share; the agreement of the rows' verbs with the precheck for every
  snapshot is a theorem (section 5).

**Assumptions that differ between runs.**

- `EagerCross` (a process enters the path between `systemctl start` and the record) is FALSE in `core`,
  `two_units` and `purge`, because `crossed` shows what it breaks, and TRUE in `hostile`.
- `LateJobs` (PID 1 runs a job after its `systemctl` was given up on and the recheck was made) is TRUE only in
  `hostile`; it breaks `DefinitionOutlivesTrigger`, see section 6.
- In `purge` no program waits on the lock across the unlink of the lock file (that is `lock_purged`). Besides the purge
  only `define` runs in the instance without the guard: the boot pass writes nothing but a record, which `define` writes as well, and what
  a killed removal leaves - a pair without its credential, one half, a record alone - a killed `define` or purge leaves too.
- The administrator leaves a path alone while a root program works on it: what a decision that rests on several reads does
  to an administrator's trigger started in between is not checked. Users and PID 1 do not wait.

**Fairness.** `core` assumes `WF_vars(Step)`: a program that runs takes its next step. No step waits for
something unbounded: `systemctl` is run with a timeout (`systemdops.cpp`), no step loops, and the lock is
already held. Nothing is assumed of users, PID 1 or failures. `lock` assumes that a program takes
its next system call when it can and that an operation ends, which is what `CallsReturn` shows; that a *waiter*
eventually gets in is not claimed - `flock` is not fair - only that it is never locked out by a holder that
is gone.

No run disables the deadlock check: some process can always begin an operation.

## 4. What the runs show

- A `define` that reports success left both halves, the credential if and only if the share has one, PID 1
  running this definition and its trigger's id on record - unless the owner took the mount point away before the
  start and made it again before `statx`: then nothing is live, and the id on record vouches for no trigger. One that fails on one fault left nothing, or the
  whole definition because its trigger could not be proven stopped. One that fails twice may leave a half
  and its secret, but still indexed and removable (`CredentialIndexed`, `NeverSelfTampered`).
- `define`, `remove` and `purge`, with every failure, kill and reboot in between, do to the unit files what
  HelperPromise says and no more (`KeepsPromise`, `PurgeKeepsPromise`), so what `client` shows about records and rows holds
  of the helper there is, not of one that was assumed.
- No sequence of failed and killed calls leaves a credential that no unit names, two halves that disagree, or
  one id at two mount points - the states that no operation of the tool can repair.
- A trigger is stopped only if nasmount started it, and the record in `/run` never makes an administrator's
  automount look like nasmount's, reboots included. (That a trigger nasmount started is always recognised as its own is not
  so: `crossed`.)
- From its first deletion on, a removal is alone at its mount point, and a purge at all of them.
- A purge that reports success left nothing, even after earlier ones were killed between the units and the
  credential: the tree removal takes what no unit names any more. What the package guard lets go, it lets go with nothing of
  nasmount's left behind but the shares whose `define` began after its look for `/run/nasmount`, although it looks at one
  thing after the other and locks nothing.
- The lock implements a mutex among programs that found the same file; a killed holder never blocks others.
- A durable replace is atomic and lasting under power loss, and a removed tree does not come back with a file in it.
  Whatever a power loss can still undo between calls, and every leftover copy of a secret, is owed to a call that was
  killed or that reported failure.
- Whatever the owner does to the tree meanwhile, a walk creates directories only in the authorized root or in
  directories of the caller's on its mount, and changes the owner only of directories walks have made. They all end up with the caller,
  on every early return, but for the one that a kill catches between its `mkdirat` and its `fchown`. Both with one exception: what others
  put under a name between the `mkdirat` that made it and the `openat` that opens it is taken for what was made. What
  `define` accepts and nobody touches, boot accepts, if the group of the directories on the way is the caller's.
- What `define` writes is read back alike by all, for percent signs, blanks and backslashes and what looks like
  their escapes. After two edits, what is still trusted is what systemd runs and what the listing shows, but for the
  exceptions named in section 6.
- A client, `nasmount-cleanup` included, drops a record only when its definition is gone, whatever replies were lost; an add it reports left a definition and
  a record that agree; rows computed without disturbance show every definition and every record under its own id, and
  offer no removal that the helper's precheck would refuse; after the settings module's own operations, the rows shown are newer than what they changed.

## 5. Proofs

TLAPS checks these for every value of the constants allowed by the named assumptions (`ContentAssumption`,
`HostAssumption`, `ArmingAssumption`, `OperationsAssumption`, `PurgeAssumption`, `ClientAssumption`, `RootLockAssumption`,
`DurableFsAssumption`, `WalkAssumption`, `TreesAssumption`, `PathAssumption`, `TextAssumption`); `PROJECT.json` lists them. No proof bounds the number of mount points, ids, failures,
programs or walks, the length of a text or a file, or how often anything happens.

- **OperationsProofs**: `TypeCorrect` (`Spec => []TypeOK`), inductive together with `StepsMatchCall`
  (steps of an operation run only on its behalf): the id a step of `define` writes into a unit is an id
  only because of that. `FilesInvariant`, and from it `SecretsIndexed`, `DefinitionsConsistent` and
  `StrangersUntouched`. `CredentialIndexed` is not inductive: that a removal of the credential and then the units never
  leaves a secret depends on where the call is. `FilesConsistent` adds what a call relies on: there is nothing
  at its mount point but what carries its id (`HalvesAreTheCalls`), a new id is claimed nowhere else
  (`NewIdIsFresh`), and the secret comes after the units and goes before them (`SecretWithinUnits`). `FilesInv` is
  `FilesConsistent` and `CredentialIndexed`; they are two because a purge deletes the units first, and one that is killed then does leave a secret
  that no unit names. Everything that must hold next to a purge rests on `FilesConsistent` alone. The `hostile` run checks
  `FilesInv` as an invariant. Each operation has its lemma, with one step per action; the environment, kills
  and reboots touch no file and keep it because they only drop the call.
  `OperationsKeepPromise` is `KeepsPromise`: every step of Operations maps to a step of HelperPromise or
  to none. The invariant `PromiseInv` is `FilesConsistent` and what the mapping relies on besides: a `define` that is about to write its first half has nothing
  under it, and a removal that has not unlinked yet is about a half that carries its id (`HalvesLeft`); a call is marked successful only
  when nothing is left to do (`DoneIsLast`); between calls there is none (`IdleIsNone`).
- **ArmingProofs**, in three invariants, each on top of the one before it and of `PromiseInv`:
  - `RuntimeInv`, without any restriction: what a call has seen of the runtime and what can still happen behind its back.
    The axes of a snapshot stay true in one direction only (`SnapshotTrue`: a mount that was absent may be there now, but then it is the share behind a live trigger),
    a recorded id is that of an instance nasmount started or of the share behind one
    (`RecordsOurs`, with `InstancesBelow`: ids grow within a boot), between the walk and the end of compensation nobody else's trigger is at
    the path (`OwnAfterWalk`), once a start has succeeded its trigger is live unless the mount point was missing when PID 1 looked
    (`StartedOrMissing`), and a boot pass has armed all that is behind it (`BootProgress`). From it `TrustIsEarned`,
    `StopsOwnOnly` and `BootReachesTheRest`, which therefore hold with late jobs and crossings of the arm window too.
  - `QuietInv`, where `~LateJobs`: what was stopped stays stopped until the call starts it. It says how far a removal
    (`RemoveProgress`) and the cleanup of a `define` (`CleanupProgress`, which counts the faults) have come, and that nothing is live before the start
    and while what was written is taken back (`NotYetArmed`). From it `TriggersAreDefined`, `DefineIsComplete`,
    `DefineIsAtomic`, `RemovalStaysQuiet` and `RemovalIsComplete`. Late jobs break them (section 6).
  - `TrustInv`, where also `~EagerCross`: the id that is read after the start is the trigger's own, or that of the file system below where no trigger came up. `ArmedMeansTrusted`
    needs that, as `crossed` shows.
- **PurgeProofs**: `PurgeIsComplete`, `PurgeStaysQuiet`, `RemovalOrphansNone` and `PurgeKeepsItsPromise`, where `~LateJobs`, for every mix of
  the other programs (`Peers`; the run has only `define`). `QuietInv` holds next to a purge too, because its first pass is the `safeStop` of a removal
  and the lemmas about that routine say only that the call is one or the other (`Stopping`). `PurgeInv` adds that what is still to be deleted
  (`Pending`) is what it was when it was validated and nothing else is marked (`StillValid`), that all mount points `safeStop` is done with are quiet, not only the
  last (`StoppedSoFar`), which directory and which memory of PID 1 is gone by when (`WhatIsGone`), that secrets, records and a program at work
  have their directories (`RootsTell`). `RemovalOrphansNone` is about `GuardedSpec`, every step of which is one of Purge or none (`GuardTakesNothing`); `GuardInv`
  adds two parts. Up to the look for `/run/nasmount`, what the guard has seen is what is there, unless that look will tell (`ScanHolds`): whoever begins
  makes the directory, and only a purge takes it away, with all there is. After it, nothing is marked, at work or on record but what the late ones bring (`LookHolds`),
  since a removal and a purge find nothing else to work on.
- **ClientProofs**: `OffersWhatPrecheckAllows` and `WithholdsWhatPrecheckRefuses`: `classifyRow` in the settings
  module and `evaluateStopPrecheck` in the helper are two pieces of code that must agree; they do for every row and
  snapshot. `ClientTypes`, `AddsAreRecorded` and `RecordsAreKept` come from `ClientInv`: at most one worker holds the user lock (`OneHolder`), whoever waits for
  the reply asked for what the helper does (`CallersCall`), how far a call has come shows in the unit files (`HelperHalves`), an id names one mount
  point for good, and what a reply has told stays true while the lock is held - which is what makes dropping a record after a confirmed removal safe,
  and is not so after a lost one. `OwnEffectsAreShown` is inductive on top of it. `CurrentRowsTrue` comes from `RowsInv`: each stage of a refresh that nothing has
  disturbed is right about the sources it has read (`Undisturbed`, with `ScannedRow`, `UnitRow`, `RecordRow`), and
  unit files with a marker are an owned definition (`MarkedIsManaged`), since only the helper writes them. These hold for any number of dialogs, settings modules,
  mount points and ids, where the `client` run has one of each and two ids. `ClientAssumption` keeps the values that stand for no worker, no mount point and no record
  apart from those that are one.
- **RootLockProofs**: `LockRefinesMutex` (every step is a step of `Mutex` or none, from `LockInv`: a holder's
  `flock` is on the inode it has open), `LockHeld` (only a purge's unlink takes the lock from under a holder) and `LockExcludes` (no two operations at
  once, when nobody purges: every program past `open` has the same file, which nothing unlinks).
- **DurableFsProofs**: `FilesWhole`, `ReplacementsLast`, `RemovedTreesEmpty`, from `DiskInv`, which says for
  each place in a call what has been done so far (before a rename the data are synced; a cleared directory is empty).
  `NothingUnreported` is `DurableUnlessReported`, from `CleanInv`: in a call that has not failed
  nothing but its own last step is uncertain.
- **MountWalkProofs**: `EveryDirectoryHandedOver`, `OnlyItsOwnHandedOver` and `NoForeignGround`, for any tree, path, number
  of walks and moves. None of the three is inductive. `WalkInv` adds what the walk knows without
  looking: file system roots stay and only directories are mounted over (`MountsOK`), what walks made are directories
  (`MadeOK`), the descriptor the walk stands on is the root or a directory of the caller's on the root's mount, and the child it has checked is the
  caller's (`DescriptorsOK`), and what stands under a name from its
  `mkdirat` on is what was made or what others put there (`FreshOK`), which is where the exception comes from. `TreeShape` and `WalkShape` say as much about types as these need.
  `WalkTypes` and `DefineAndBootAgree` come from `TrailInv`: names are unique and file system roots have none
  (`NamesOK`), and while nobody has done anything since `define`'s walk began there is a trail from the root to the directory it
  stands on, each step of it the one node its name stands for and acceptable on the way (`OnTrail`). `TreesAssumption` (what the kernel guarantees
  of any tree: one node per name, no name for a file system's root) and `PathAssumption` (`Names` has the components of `Paths`) are for these. At the end the trail is what `BootAccepts` finds: its recursive function has one
  solution along a trail (`SomeFinding`, `OneFinding`, by the least component at which two could differ, since the induction theorems are out of reach).
- **UnitFileProofs**: `TrustedMeansTemplate`, `TrustedMeansListed` and `WrittenIsUnderstood`, for text and files of any length. Each conversion is a
  recursive function over positions, so what it does for every text needs an induction. It is done without the induction theorems: a set of positions
  that is closed from one to the next has no least counterexample (`Least`, with `Climb` upwards and `Descend` downwards). `Joined` and `Rest` are the
  two shapes these functions have, from the left over pieces (`Doubled`, `Escaped`) and from the right over characters (`Replaced`,
  `Expanded`); such functions exist (`JoinedExists`, `RestExists`), so the definitions by recursion are
  such functions (`JoinedIs`, `RestIs`). `Translate` is the step that all round trips share: a
  reader that takes each piece of a text off and puts what it stands for there turns the joined pieces into the joined meanings. What is
  left for each pair is what happens at one piece: `UndoubledDoubled`, `ExpandedDoubled`, and `UnescapedEscaped` in the two passes of the code (`BlankStep`, `BackslashStep`), where the
  order of the passes is what makes the second one safe. For the files, `UnitTypes` (lines of text, through
  every edit) is inductive and enough for the first two: a section that parses has one line per key, and that is the one systemd, the validators and the scan read
  (`ReadsPlace`, `InMountPlace`, `ExtractedPlace`). The third needs `Written` as well: the files that nobody has edited are the two bodies for a UNC that is
  valid and normalised once and for all (`NormalisedTwice`).

A wrong first guess is worth noting: that a successful purge leaves nothing loaded in PID 1 is not so where the administrator has started a stale unit
that the purge's own reload then keeps; `PurgeComplete` makes that exception.

**Only model-checked.** The temporal properties `CallsReturn` and `WaiterNotStuck` (liveness under fairness
and ENABLED are out of TLAPS's reach). The type
invariants of RootLock and DurableFs are no properties of the runs: they are part of the inductive invariants proved there.
No module uses RECURSIVE.

## 6. Where the code and the repository's words differ

Shown by a run:

- `crossed` - the id recorded after a start is that of whatever `statx` finds on top
  (`root/arming.cpp:195`), which is the CIFS mount if a process entered the path in between; the trigger is
  then untrusted once the mount is gone. `docs/credential-modes-design.md:116` calls the identity exact.
- `mounted` - `classifyMountEntries` (`core/verify.cpp:465`) returns on the trigger's entry, which the kernel
  lists first, so a mounted share counts as not mounted, disagrees with PID 1 and is Indeterminate; its removal is refused,
  while `kcm/ui/main.qml:224` promises that it will be unmounted first.
- `lock_purged` - a purge unlinks the lock file it holds the lock on (`root/operations.cpp:455`); a waiter on
  the old inode and a newcomer both get in, while `rootlock.h:9` says operations can never interleave.

Met while modelling, without a run of their own:

- A start job PID 1 runs after the one recheck brings the trigger up when `define` has taken the
  definition back (`root/arming.cpp:187`; `docs/credential-modes-design.md:259` says a trigger that
  cannot be proven stopped keeps its definition). `core` therefore has `LateJobs = FALSE`.
- `systemctl start` succeeds when `ConditionPathIsDirectory=` is false, and `statx` gives the id of whatever the path is on by
  then (`root/arming.cpp:193`). Where the owner removes the mount point between the walk and the start and makes it again before
  `statx`, `define` replies success with nothing live, while `docs/credential-modes-design.md:165` says "System Add succeeds
  only after the new automount is active". `ArmedIsTrusted` and `DefineComplete` name the exception (`NeverStarted`).
- A helper call that begins after the package guard's look for `/run/nasmount` (`core/packagestate.cpp:101`), or between its exit and
  the removal of the programs, goes unseen and leaves its share to nobody, while `core/packagestate.h:9` says "removal is permitted only
  when the host is provably empty". `RemovalOrphansNothing` names the exception (`late`). Calls go one after the other there: one that waits on the lock while a purge
  unlinks it (`lock_purged`) has made `/run/nasmount` before the guard looked and is a second way past it, which PackageGuard does not have.
- Names are looked up again between `mkdirat`, `openat` and `fchown` (`core/unitspec.cpp:214`), with no check that it is what was
  made. What the directory's owner puts there in between is taken over; `HandsOverOnlyItsOwn` and `NothingLeftForeign` name it (`swapped`).
- A removal that fails after both unlinks (`root/operations.cpp:311`) cannot be retried: `undefinesystem`
  refuses a path without a definition, while `operations.h:110` calls the remaining steps safe to retry.
- The `fsync` of a new directory's parent is not repeated by a call that finds the directory there
  (`root/durablefs.cpp:127`, `:133`). A retried unlink takes ENOENT for success without the `fsync` that failed
  the first time (`root/durablefs.cpp:277`; `durablefs.h:123` promises "unlinkat() then fsync the directory"). `DurableUnlessReported`
  says how far that goes: the first call reported a failure.
- A kill between the temporary file and the rename leaves a copy of the secret under a temporary name until
  the next purge (`root/durablefs.cpp:217`).
- `deleteShare(id)` passes the helper only a path (`session/mountactions.cpp:182`); retried after its
  definition is gone, it removes the definition of the share added there since, although
  `docs/credential-modes-design.md:219` merges Store and definitions only by stable id.
- `#` in a UNC is shown as `\043` in mountinfo and not decoded (`core/verify.cpp` decodes `\040` and `\134`):
  such a mount is not recognised as the share's. `RoundTrips` names the exception.
- A percent sign that is not doubled in `What=` or `Where=` of the mount half passes `validateMountUnitBody`
  (`core/unitspec.cpp:626`, `:631` compare decoded values; the automount half compares encoded ones, `:702`), and
  systemd expands it. A blank behind `What=` of the mount half stays part of the name there (`:52` and `:631` ask only for some UNC), while systemd
  takes it off. An indented section header is one for systemd and a stray line for the validators. `unitspec.h:122` has any functional
  deviation be a damaged definition; `TrustedIsTemplate` names the three.
- A `What=` or `Where=` in a section other than the functional one counts for the listing (`core/verify.cpp:364`
  takes the last of the file) and not for `inspectDefinition`; `TrustedIsListed` names it.
- `define`'s walk checks the owner of the directories on the way, boot's walk owner and group (`core/unitspec.cpp:267`, `:369`): with
  another group on one, a share that `define` accepted is not armed at boot. `WalksAgree` names it.
- A refresh that overlaps an add can have read the units before and the Store after it: the
  record is then shown as drifted, because ids are not compared (`session/mountmodel.cpp:522`), and its removal is offered.
  `CurrentRowsAreTrue` is about refreshes nothing disturbed.
- An inventory or a refused call after a purge makes `/run/nasmount` again, and the package guard refuses
  until the next reboot or purge.

## 7. Not modelled

Text other than that of the unit files: the syntax of credentials, hosts and UNC names beyond what `ValidUnc` keeps, malformed
mountinfo lines, JSON. Ownership and modes of files, symbolic links, drop-ins beyond `Broken`. More than one user of the helper (foreign owners count as `Broken`).
Polkit and KAuth beyond a rejected, busy or lost call. In
`client`: damaged records that still have a mount point, foreign CIFS mounts and the boot health banner, the detail texts and
display states that do not change what a row offers, several operations of the settings module at a time.
The validation of the install manifest by the cleanup, which is a pattern match on a file; the packaging scripts, the
install scripts and the user interface, which keep no state of the system's.

## 8. Plan

Written, in this order: Verify, Host, Arming, Operations (the core), RootLock and Mutex, DurableFs, Purge,
Client, the proofs of the first, second and third; then MountWalk with its proofs, DurableHistory with its, UnitFile, the
cleanup in Client, and HelperPromise, which Client was rebuilt on, with the proof that Operations implements it; then the proofs about
arming, purge and the package guard, Client, the agreement of the two walks, and the text of the units; then PackageGuard as a module of
its own, one action per look.

Next:

1. Two mount points, several operations of the settings module and several users in Client; MountWalk as the first
   steps of `define` and `boot` in Operations, which now take their outcome as given.
