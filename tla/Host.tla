--------------------------------- MODULE Host ---------------------------------
(***************************************************************************)
(* What the root programs act on: the artifacts nasmount owns on disk and  *)
(* in /run, and, external to the repository, PID 1 and the kernel as the   *)
(* code uses them (systemctl start/stop/daemon-reload, mountinfo, statx).  *)
(***************************************************************************)
EXTENDS Verify

CONSTANTS Units,     \* mount points, each with its .mount/.automount base name
          Strays,    \* unit files that may be there before nasmount ever runs
          MaxInst    \* bound on the unique mount ids one boot hands out

ASSUME HostAssumption ==
    /\ Units # {}
    /\ Strays \subseteq {Alien, Broken}
    /\ MaxInst \in Nat /\ MaxInst > 1

VARIABLES mountHalf,   \* [Units -> FileContent]: <base>.mount
          autoHalf,    \* [Units -> FileContent]: <base>.automount
          creds,       \* the ids with a file /etc/nasmount/<id>.cred
          dir,         \* whether the mount-point directory exists
          idRec,       \* /run/nasmount-ids/<base>; 0: no record
          loaded,      \* the definition PID 1 has in memory for the pair
          trig,        \* the live autofs trigger; id 0: none
          over,        \* what is mounted at the path itself, above the trigger
          job,         \* a start job PID 1 accepted and has not run yet
          nextInst     \* the next unique mount id

durableVars == <<mountHalf, autoHalf, creds, dir>>
systemdVars == <<loaded, trig, over, job, nextInst>>
hostVars    == <<durableVars, idRec, systemdVars>>

\* The mount id of the file system the mount-point directory itself is on.
UnderId == 1

Trigger == [id : Nat, share : FileContent, by : {"nobody", "tool", "admin"}]
NoTrigger == [id |-> 0, share |-> NoFile, by |-> "nobody"]

Mount == [fs : {"none", "cifs", "other"}, id : Nat, src : FileContent]
NoMount == [fs |-> "none", id |-> 0, src |-> NoFile]

HostTypeOK ==
    /\ mountHalf \in [Units -> FileContent]
    /\ autoHalf \in [Units -> FileContent]
    /\ creds \in SUBSET Ids
    /\ dir \in [Units -> BOOLEAN]
    /\ idRec \in [Units -> Nat]
    /\ loaded \in [Units -> FileContent]
    /\ trig \in [Units -> Trigger]
    /\ over \in [Units -> Mount]
    /\ job \in [Units -> BOOLEAN]
    /\ nextInst \in Nat

\* Before nasmount runs the administrator may already have units of their
\* own, or damaged ones, at a mount point's base name.
HostInit ==
    /\ mountHalf \in [Units -> {NoFile} \cup Strays]
    /\ autoHalf \in [Units -> {NoFile} \cup Strays]
    /\ creds = {}
    /\ dir \in [Units -> BOOLEAN]
    /\ idRec = [u \in Units |-> 0]
    /\ loaded = [u \in Units |-> NoFile]
    /\ trig = [u \in Units |-> NoTrigger]
    /\ over = [u \in Units |-> NoMount]
    /\ job = [u \in Units |-> FALSE]
    /\ nextInst = UnderId + 1

-------------------------------------------------------------------------------
(* What the programs can observe.                                          *)

Definition(u) == InspectDefinition(mountHalf[u], autoHalf[u])

Armed(u) == trig[u].id # 0
Occupied(u) == over[u].fs # "none"

\* The lines of /proc/self/mountinfo whose mount point is u's, in kernel
\* order: crossing the trigger adds the CIFS entry behind the autofs one.
MountinfoEntries(u) ==
    (IF Armed(u) THEN <<[fs |-> "autofs", src |-> NoFile]>> ELSE <<>>)
    \o (IF Occupied(u) THEN <<[fs |-> over[u].fs, src |-> over[u].src]>> ELSE <<>>)

AutomountActiveState(u) == IF Armed(u) THEN "active" ELSE "inactive"

\* PID 1 ignores autofs entries when it tracks .mount units.
MountActiveState(u) == IF Occupied(u) THEN "active" ELSE "inactive"

\* Mutant: a failed statx is passed on as its -1.
UniqueMountIdRaw(u) ==
    CASE Occupied(u) -> over[u].id
      [] ~Occupied(u) /\ Armed(u) -> trig[u].id
      [] ~Occupied(u) /\ ~Armed(u) /\ dir[u] -> UnderId
      [] OTHER -> 0 - 1

\* statx(AT_NO_AUTOMOUNT): the id of the topmost mount at the path.
UniqueMountId(u) ==
    CASE Occupied(u) -> over[u].id
      [] ~Occupied(u) /\ Armed(u) -> trig[u].id
      [] ~Occupied(u) /\ ~Armed(u) /\ dir[u] -> UnderId
      [] OTHER -> 0

-------------------------------------------------------------------------------
(* Effects of systemctl, used by the programs' own steps.                  *)

\* The unit PID 1 would start: the one in memory, else the file on disk.
Startable(u) == IF loaded[u] # NoFile THEN loaded[u] ELSE autoHalf[u]

\* Starting an active automount is a no-op that succeeds; a false
\* ConditionPathIsDirectory= also succeeds and starts nothing; a path that
\* is a mount point already is refused.
StartSucceeds(u) == /\ Startable(u) # NoFile
                    /\ Armed(u) \/ (~Occupied(u) /\ nextInst <= MaxInst)

StartTakesEffect(u) == StartSucceeds(u) /\ ~Armed(u) /\ dir[u]

StartEffect(u, by) ==
    /\ loaded' = [loaded EXCEPT ![u] = Startable(u)]
    /\ IF StartTakesEffect(u)
       THEN /\ trig' = [trig EXCEPT ![u] = [id |-> nextInst, share |-> Startable(u), by |-> by]]
            /\ nextInst' = nextInst + 1
       ELSE UNCHANGED <<trig, nextInst>>
    /\ UNCHANGED over

StopMountEffect(u) ==
    /\ over' = [over EXCEPT ![u] = NoMount]
    /\ UNCHANGED <<loaded, trig, job, nextInst>>

\* Stopping the automount detaches everything stacked on it and cancels a
\* start job that is still queued.
StopAutomountEffect(u) ==
    /\ trig' = [trig EXCEPT ![u] = NoTrigger]
    /\ over' = [over EXCEPT ![u] = IF Armed(u) THEN NoMount ELSE @]
    /\ job' = [job EXCEPT ![u] = FALSE]
    /\ UNCHANGED <<loaded, nextInst>>

\* An active unit whose file is gone stays in memory.
ReloadEffect ==
    /\ loaded' = [u \in Units |->
                    IF autoHalf[u] = NoFile /\ Armed(u) THEN loaded[u] ELSE autoHalf[u]]
    /\ UNCHANGED <<trig, over, job, nextInst>>

-------------------------------------------------------------------------------
(* The environment.                                                        *)

\* Some process enters the path: the kernel asks PID 1, which mounts the
\* share if mount.cifs finds the credential its unit names.
CrossTrigger(u) ==
    /\ Armed(u) /\ ~Occupied(u) /\ trig[u].share \in creds \cup Guests
    /\ nextInst <= MaxInst
    /\ over' = [over EXCEPT ![u] = [fs |-> "cifs", id |-> nextInst, src |-> trig[u].share]]
    /\ nextInst' = nextInst + 1
    /\ UNCHANGED <<durableVars, idRec, loaded, trig, job>>

\* TimeoutIdleSec= of the automount unit unmounts an idle share.
Expire(u) ==
    /\ Armed(u) /\ over[u].fs = "cifs"
    /\ over' = [over EXCEPT ![u] = NoMount]
    /\ UNCHANGED <<durableVars, idRec, loaded, trig, job, nextInst>>

\* The owner removes the mount-point directory while nothing is on it.
RemoveDirectory(u) ==
    /\ dir[u] /\ ~Armed(u) /\ ~Occupied(u)
    /\ dir' = [dir EXCEPT ![u] = FALSE]
    /\ UNCHANGED <<mountHalf, autoHalf, creds, idRec, systemdVars>>

\* The owner makes it, for the first time or again.
MakeDirectory(u) ==
    /\ ~dir[u]
    /\ dir' = [dir EXCEPT ![u] = TRUE]
    /\ UNCHANGED <<mountHalf, autoHalf, creds, idRec, systemdVars>>

\* PID 1 gets to a start job whose systemctl client was killed meanwhile.
RunJob(u) ==
    /\ job[u]
    /\ job' = [job EXCEPT ![u] = FALSE]
    /\ IF StartSucceeds(u) THEN StartEffect(u, "tool") ELSE UNCHANGED <<loaded, trig, over, nextInst>>
    /\ UNCHANGED <<durableVars, idRec>>

\* PID 1 drops an inactive unit from memory and reads its file when it is
\* next named.
CollectUnit(u) ==
    /\ ~Armed(u) /\ ~job[u] /\ loaded[u] # NoFile
    /\ loaded' = [loaded EXCEPT ![u] = NoFile]
    /\ UNCHANGED <<durableVars, idRec, trig, over, job, nextInst>>

\* The administrator starts or stops the automount, mounts the share, another
\* share (Alien) or something else by hand, or releases such a mount.
AdminStart(u) ==
    /\ StartTakesEffect(u) /\ StartEffect(u, "admin")
    /\ UNCHANGED <<durableVars, idRec, job>>

AdminStop(u) ==
    /\ Armed(u) /\ StopAutomountEffect(u)
    /\ UNCHANGED <<durableVars, idRec>>

AdminMount(u) ==
    /\ ~Occupied(u) /\ dir[u] /\ nextInst <= MaxInst
    /\ \E m \in [fs : {"cifs"}, src : {Alien} \cup ({mountHalf[u]} \cap Ids)]
              \cup {[fs |-> "other", src |-> NoFile]} :
         over' = [over EXCEPT ![u] = [fs |-> m.fs, id |-> nextInst, src |-> m.src]]
    /\ nextInst' = nextInst + 1
    /\ UNCHANGED <<durableVars, idRec, loaded, trig, job>>

AdminUnmount(u) ==
    /\ Occupied(u) /\ StopMountEffect(u)
    /\ UNCHANGED <<durableVars, idRec>>

\* Mutant: the id records live where they survive a reboot.
HostRebootKeepingRecords ==
    /\ loaded' = [u \in Units |-> NoFile]
    /\ trig' = [u \in Units |-> NoTrigger]
    /\ over' = [u \in Units |-> NoMount]
    /\ job' = [u \in Units |-> FALSE]
    /\ nextInst' = UnderId + 1
    /\ UNCHANGED <<durableVars, idRec>>

\* The records are kept in /run, a tmpfs; nothing is mounted and mount ids
\* start over.
HostReboot ==
    /\ idRec' = [u \in Units |-> 0]
    /\ loaded' = [u \in Units |-> NoFile]
    /\ trig' = [u \in Units |-> NoTrigger]
    /\ over' = [u \in Units |-> NoMount]
    /\ job' = [u \in Units |-> FALSE]
    /\ nextInst' = UnderId + 1
    /\ UNCHANGED durableVars
===============================================================================
