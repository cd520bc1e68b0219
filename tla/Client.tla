-------------------------------- MODULE Client ---------------------------------
(***************************************************************************)
(* The unprivileged side: the operations of Session::MountActions on the   *)
(* Store under the per-user lock, the rows Session::MountModel computes    *)
(* for the settings module, and between them the calls to nasmount-helper, *)
(* whose reply may be lost while the call goes on (src/src/session).  Of   *)
(* the helper there is only what module HelperPromise says of it.          *)
(***************************************************************************)
EXTENDS HelperPromise, FiniteSets

CONSTANTS Dialogs,    \* other programs of the user: a service-menu dialog that adds a share or
                      \* removes its existing one, or nasmount-cleanup
          Kcms,       \* operations the settings module can have under way at a time
          OldIds,     \* ids the Store may have a record of, right or damaged, to start with
          Runtimes,   \* the runtime snapshots a refresh may take
          LostCalls   \* whether the reply to a helper call may be lost

Workers == Dialogs \cup Kcms
Nobody  == "nobody"         \* what caller holds when nobody waits

NoRecord == "no record"
Corrupt  == "corrupt"       \* a group without a UNC or a mount point

ASSUME ClientAssumption ==
    /\ Runtimes \subseteq RuntimeSnapshot /\ Runtimes # {}
    /\ OldIds \subseteq Ids /\ Dialogs \cap Kcms = {} /\ LostCalls \in BOOLEAN
    /\ Nobody \notin Workers /\ {NoUnit, NoRecord, Corrupt} \cap Units = {}

VARIABLES caller,     \* who waits for the reply of the helper's call
          used,       \* the ids handed out so far: an id is never handed out twice
          store,      \* [Ids -> the record's mount point, NoRecord or Corrupt]
          worker,     \* the operation of each dialog and of the settings module
          refresh,    \* the refresh the model's watcher is assigned to
          display,    \* the rows shown, and the snapshot they were computed with
          unseen      \* whose changes the rows shown, or being computed, may miss

unitVars   == <<mountHalf, autoHalf, used>>
actionVars == <<helper, caller, worker>>
modelVars  == <<refresh, display>>
vars       == <<unitVars, store, actionVars, modelVars, unseen>>

NoWork == [op |-> "none", pc |-> "idle", u |-> NoUnit, id |-> NoFile, ok |-> FALSE]

Row == [id : Ids \cup {NoFile}, u : Units \cup {NoUnit}, def : Definitions, record : BOOLEAN,
        corrupt : BOOLEAN, drift : BOOLEAN,
        offers : SUBSET {"definition", "record", "administrator"}]

ClientTypeOK ==
    /\ mountHalf \in [Units -> FileContent] /\ autoHalf \in [Units -> FileContent]
    /\ used \subseteq Ids
    /\ store \in [Ids -> Units \cup {NoRecord, Corrupt}]
    /\ helper \in [op : {"none", "define", "undefine", "purge"},
                   pc : {"idle", "sent", "automount", "finish", "failed"},
                   u : Units \cup {NoUnit, Corrupt}, id : Ids \cup {NoFile}]
    /\ caller \in Workers \cup {Nobody}
    /\ worker \in [Workers ->
                   [op : {"none", "add", "delete", "removeRecord", "removeOrphan", "cleanup"},
                    pc : {"idle", "lock", "wait", "store", "finish"},
                    u : Units \cup {NoUnit, Corrupt}, id : Ids \cup {NoFile}, ok : BOOLEAN]]
    /\ refresh.pc \in {"idle", "units", "store", "inspect", "inventory", "done"}
    /\ refresh.rows \subseteq Row /\ refresh.todo \subseteq Ids \X (Units \cup {Corrupt})
    /\ display.rows \subseteq Row
    /\ {refresh.rt, display.rt} \subseteq RuntimeSnapshot
    /\ unseen \subseteq {"own", "other"}

\* A refresh begins with nothing read.
EmptyRefresh == [pc |-> "units", rows |-> {}, todo |-> {}, rt |-> NoSnapshot]

\* The account may start with records of shares that are long gone, or
\* damaged ones, and with the administrator's own units.
ClientInit ==
    /\ mountHalf \in [Units -> {NoFile, Alien}] /\ autoHalf = mountHalf
    /\ Cardinality({u \in Units : mountHalf[u] = Alien}) <= 1
    /\ used \in SUBSET OldIds
    /\ store \in [Ids -> Units \cup {NoRecord, Corrupt}]
    /\ \A i \in Ids : i \in used <=> store[i] # NoRecord
    /\ helper = NoJob /\ caller = Nobody
    /\ worker = [w \in Workers |-> NoWork]
    /\ refresh = EmptyRefresh
    /\ display = [rows |-> {}, rt |-> NoSnapshot]
    /\ unseen = {}

\* A step on w's behalf changes what a refresh reads.
Unseen(w) == unseen' = unseen \cup {IF w \in Kcms THEN "own" ELSE "other"}

-------------------------------------------------------------------------------
(* nasmount-helper as its callers see it.                                  *)

\* An operation is over; nasmount-cleanup exits.
Ended(work, ok) ==
    IF work.op = "cleanup" THEN NoWork ELSE [work EXCEPT !.pc = "finish", !.ok = ok]

\* Mutant: an outcome that is not a confirmed failure counts as success.
AnsweredHopefully(work, outcome) ==
    IF outcome # "failure" /\ work.op \in {"add", "delete", "cleanup"}
       /\ (work.op = "add" => work.id # NoFile)
    THEN [work EXCEPT !.pc = "store"]
    ELSE Ended(work, outcome = "success")

\* The rest of an operation once the outcome of its call is known: only a
\* confirmed success goes on to the Store.
Answered(work, outcome) ==
    IF outcome = "success" /\ work.op \in {"add", "delete", "cleanup"}
    THEN [work EXCEPT !.pc = "store"]
    ELSE Ended(work, outcome = "success")

\* KAuth turns a call down before the helper sees it, or while it is busy
\* with another one; otherwise the call is on its way.
Invoke(w, op, work) ==
    \/ /\ Accept(op, work.u) /\ caller' = w
       /\ worker' = [worker EXCEPT ![w] = [work EXCEPT !.pc = "wait"]]
    \/ /\ UNCHANGED <<helper, caller>>
       /\ worker' = [worker EXCEPT ![w] = Answered(work, "failure")]

\* The reply reaches the caller that still waits for it.
Answer(outcome) ==
    /\ caller' = Nobody
    /\ worker' = [w \in Workers |->
          IF w # caller THEN worker[w]
          ELSE IF helper.op = "define" /\ outcome = "success"
               THEN Answered([worker[w] EXCEPT !.id = helper.id], outcome)
               ELSE Answered(worker[w], outcome)]

\* An id is never handed out twice: that would take a repeated random number.
HelperDefineMount == \E i \in Ids \ used : DefineMount(i) /\ used' = used \cup {i}

HelperChanges ==
    /\ \/ HelperDefineMount
       \/ /\ \/ DefineAutomount \/ UndefineMount \/ UndefineAutomount \/ TakeBack
             \/ (\E u \in Units : PurgeMount(u)) \/ PurgeAutomount
          /\ UNCHANGED used
    /\ Unseen(caller)
    /\ IF helper'.pc = "idle" THEN Answer("failure") ELSE UNCHANGED <<worker, caller>>

HelperGoesOn ==
    /\ (Fail /\ Marked(helper.u)) \/ PurgeDone
    /\ UNCHANGED <<used, unseen, worker, caller>>

\* A call may be refused, or fail, at any point.
HelperReplies ==
    /\ End
    /\ Answer("failure") \/ (helper.pc = "finish" /\ Answer("success"))
    /\ UNCHANGED <<used, unseen>>

Helper == (HelperChanges \/ HelperGoesOn \/ HelperReplies) /\ UNCHANGED <<store, modelVars>>

\* The helper is killed: nobody is told.
HelperCrash ==
    /\ LostCalls /\ End /\ caller' = Nobody
    /\ UNCHANGED <<used, store, worker, modelVars, unseen>>

\* The call goes on, but those who made it no longer wait for it.
Abandoned(ws) == caller' = (IF caller \in ws THEN Nobody ELSE caller) /\ UNCHANGED helper

\* The connection is lost or times out; the call, if accepted, goes on.
GiveUp(w) ==
    /\ LostCalls /\ worker[w].pc = "wait"
    /\ worker' = [worker EXCEPT ![w] = Answered(@, "unknown")]
    /\ Abandoned({w})
    /\ UNCHANGED <<unitVars, store, modelVars, unseen>>

-------------------------------------------------------------------------------
(* MountActions: each operation runs on a worker thread under UserLock.    *)

HoldsUserLock(w) == worker[w].pc \notin {"idle", "lock"}

\* Mutant: the lock is taken shared.
UserLockShared == TRUE

\* UserLock::acquire blocks until nobody holds the lock.
UserLockFree == \A w \in Workers : ~HoldsUserLock(w)

\* The rows the settings module offers a verb on (kcm/ui/main.qml).
Offered(verb, recorded) == {r \in display.rows : verb \in r.offers /\ r.record = recorded}

EndWith(w, ok) == worker' = [worker EXCEPT ![w] = Ended(@, ok)]

\* Before it makes its call an operation changes nothing, so it starts when
\* it gets the lock; one that does not get it ends as after a failed call.
Begin(w) ==
    /\ worker[w].pc = "idle" /\ UserLockFree
    /\ UNCHANGED <<unitVars, store, modelVars, unseen>>

AddShare(w) == Begin(w) /\ \E u \in Units : Invoke(w, "define", [NoWork EXCEPT !.op = "add", !.u = u])

CleanUp(w) == Begin(w) /\ w \in Dialogs /\ Invoke(w, "purge", [NoWork EXCEPT !.op = "cleanup"])

RemoveOrphanedRecord(w) ==
    /\ Begin(w) /\ w \in Kcms
    /\ \E r \in Offered("record", TRUE) :
         worker' = [worker EXCEPT ![w] = [NoWork EXCEPT !.op = "removeRecord", !.pc = "store", !.id = r.id]]
    /\ UNCHANGED <<helper, caller>>

\* The row may be stale: the definition is looked at again under the lock.
RemoveOrphanByPath(w) ==
    /\ Begin(w) /\ w \in Kcms
    /\ \E r \in Offered("definition", FALSE) :
         LET work == [NoWork EXCEPT !.op = "removeOrphan", !.u = r.u]
         IN  \/ Managed(r.u) /\ Invoke(w, "undefine", work)
             \/ worker' = [worker EXCEPT ![w] = Ended(work, FALSE)] /\ UNCHANGED <<helper, caller>>

\* A record to delete is chosen in the rows, or when the dialog opens, and
\* then the user is asked to confirm.
DeleteShare(w) ==
    /\ worker[w].pc = "idle"
    /\ \E i \in IF w \in Kcms THEN {r.id : r \in Offered("definition", TRUE)}
              ELSE {j \in Ids : store[j] \in Units} :
         worker' = [worker EXCEPT ![w] = [NoWork EXCEPT !.op = "delete", !.pc = "lock", !.id = i]]
    /\ UNCHANGED <<unitVars, store, helper, caller, modelVars, unseen>>

\* Mutant: a delete does not ask whether the record is still there.
DeleteConfirmedUnchecked(w) ==
    /\ worker[w].pc = "lock" /\ UserLockFree
    /\ Invoke(w, "undefine", [worker[w] EXCEPT !.u = store[worker[w].id]])
    /\ UNCHANGED <<unitVars, store, modelVars, unseen>>

\* Under the lock the mount point is the record's, if there still is one.
DeleteConfirmed(w) ==
    /\ worker[w].pc = "lock" /\ UserLockFree
    /\ LET u == store[worker[w].id]
       IN  \/ u # NoRecord /\ Invoke(w, "undefine", [worker[w] EXCEPT !.u = u])
           \/ u = NoRecord /\ EndWith(w, FALSE) /\ UNCHANGED <<helper, caller>>
    /\ UNCHANGED <<unitVars, store, modelVars, unseen>>

\* commitShare and removeShare: re-read, compare, write, sync; a sync that
\* fails is tried again when the configuration is closed.  A cleanup removes
\* the whole file.
Commit(w) ==
    /\ worker[w].pc = "store"
    /\ LET i == worker[w].id
           content == IF worker[w].op = "add" THEN worker[w].u ELSE NoRecord
           conflict == worker[w].op = "add" /\ store[i] # NoRecord
           written  == IF worker[w].op = "cleanup" THEN [j \in Ids |-> NoRecord]
                       ELSE [store EXCEPT ![i] = content]
       IN  \/ ~conflict /\ store' = written /\ (EndWith(w, TRUE) \/ EndWith(w, FALSE))
           \/ UNCHANGED store /\ EndWith(w, FALSE)
    /\ Unseen(w)
    /\ UNCHANGED <<unitVars, helper, caller, modelVars>>

StartRefresh ==
    /\ refresh' = EmptyRefresh
    /\ unseen' = {}
    /\ UNCHANGED display

\* Mutant: the list is read again only after a success.
FinishRefreshingOnSuccess(w) ==
    /\ worker[w].pc = "finish"
    /\ worker' = [worker EXCEPT ![w] = NoWork]
    /\ IF w \in Kcms /\ worker[w].ok THEN StartRefresh ELSE UNCHANGED <<modelVars, unseen>>
    /\ UNCHANGED <<unitVars, store, helper, caller>>

\* finished(): the settings module re-reads what actually happened.
Finish(w) ==
    /\ worker[w].pc = "finish"
    /\ worker' = [worker EXCEPT ![w] = NoWork]
    /\ IF w \in Kcms THEN StartRefresh ELSE UNCHANGED <<modelVars, unseen>>
    /\ UNCHANGED <<unitVars, store, helper, caller>>

\* The process is killed, its call goes on; a new one opens in its place.
CrashDialog(d) ==
    /\ worker[d].pc # "idle"
    /\ worker' = [worker EXCEPT ![d] = NoWork]
    /\ Abandoned({d})
    /\ UNCHANGED <<unitVars, store, modelVars, unseen>>

CrashKcm ==
    /\ \E w \in Kcms : worker[w].pc # "idle"
    /\ worker' = [w \in Workers |-> IF w \in Kcms THEN NoWork ELSE worker[w]]
    /\ display' = [rows |-> {}, rt |-> NoSnapshot]
    /\ refresh' = EmptyRefresh
    /\ unseen' = {}
    /\ Abandoned(Kcms)
    /\ UNCHANGED <<unitVars, store>>

Operate(w) ==
    \/ AddShare(w) \/ DeleteShare(w) \/ RemoveOrphanedRecord(w) \/ RemoveOrphanByPath(w) \/ CleanUp(w)
    \/ DeleteConfirmed(w) \/ GiveUp(w) \/ Commit(w) \/ Finish(w)

-------------------------------------------------------------------------------
(* MountModel: what a refresh makes of four reads, none atomic with        *)
(* another and none under the user lock.                                   *)

\* classifyRow: the verbs a row offers.
ClassifyRow(row, rt) ==
    LET owned   == row.def \in {"Pair", "Partial"}
        muddled == row.drift \/ row.corrupt
        known   == "Indeterminate" \notin {rt.mount, rt.automount}
        foreign == rt.mount = "Present" /\ rt.verification # "Match"
        stray   == rt.mount # "Present" /\ rt.automount = "Active" /\ rt.trust # "Trusted"
        clean   == owned /\ ~muddled /\ known
    IN  {v \in {"definition", "record", "administrator"} :
            \/ v = "definition" /\ clean /\ ~foreign /\ ~stray
            \/ v = "record" /\ (IF owned THEN muddled ELSE row.record)
            \/ v = "administrator" /\ (row.def \in {"Tampered", "NotOurs"} \/ (clean /\ stray))}

\* Mutant: only the .mount halves are scanned.
PairScannedMounts ==
    {[u |-> u, id |-> mountHalf[u], def |-> IF autoHalf[u] = mountHalf[u] THEN "Pair" ELSE "Partial"] :
        u \in {v \in Units : mountHalf[v] \in Ids}}

\* Every managed half, with its other half if that is managed as well; an id
\* claimed at two mount points is nobody's.
PairScannedHalves ==
    LET halves(u)   == {mountHalf[u], autoHalf[u]}
        claimed(u)  == \E v \in Units \ {u} : halves(u) \cap halves(v) \cap Ids # {}
        state(u)    == IF Cardinality(halves(u) \cap Ids) = 2 \/ claimed(u) THEN "Tampered"
                       ELSE IF Cardinality(halves(u)) = 1 THEN "Pair" ELSE "Partial"
    IN  {[def |-> state(u), id |-> IF state(u) = "Tampered" THEN NoFile ELSE IdOf(u),
          u |-> IF Cardinality(halves(u) \cap Ids) = 2 THEN NoUnit ELSE u] :
            u \in {v \in Units : Marked(v)}}

Classified(row, rt) == [row EXCEPT !.offers = ClassifyRow(row, rt)]

NewRow(id, u) == [id |-> id, u |-> u, def |-> "None", record |-> FALSE,
                  corrupt |-> FALSE, drift |-> FALSE, offers |-> {}]

\* Source 2: the owned units and their runtime.
ReadUnits ==
    /\ refresh.pc = "units"
    /\ \E rt \in Runtimes :
         refresh' = [refresh EXCEPT !.pc = "store", !.rt = rt,
             !.rows = {Classified([NewRow(unit.id, unit.u) EXCEPT !.def = unit.def], rt) :
                          unit \in PairScannedHalves}]
    /\ UNCHANGED <<unitVars, store, actionVars, display, unseen>>

\* Source 1: records merge with the row of their own id only.
ReadStore ==
    /\ refresh.pc = "store"
    /\ LET merged(row) ==
             IF row.id = NoFile \/ store[row.id] = NoRecord THEN row
             ELSE LET r == [row EXCEPT !.record = TRUE, !.corrupt = store[row.id] = Corrupt,
                                       !.drift = store[row.id] \notin {Corrupt, row.u}]
                  IN  IF r.corrupt \/ r.drift THEN Classified(r, NoSnapshot) ELSE r
       IN  refresh' = [refresh EXCEPT !.pc = "inspect",
               !.rows = {merged(row) : row \in @},
               !.todo = {<<i, store[i]>> : i \in {j \in Ids : store[j] # NoRecord}
                                                 \ {row.id : row \in refresh.rows}}]
    /\ UNCHANGED <<unitVars, store, actionVars, display, unseen>>

\* A record without a row: what is at its mount point by now?
InspectStored(i, u) ==
    /\ refresh.pc = "inspect" /\ <<i, u>> \in refresh.todo
    /\ LET def   == IF u \in Units THEN Definition(u) ELSE "None"
           row   == [NewRow(i, IF u \in Units THEN u ELSE NoUnit) EXCEPT
                        !.def = def, !.record = TRUE, !.corrupt = u = Corrupt,
                        !.drift = def \in {"Pair", "Partial"}]
       IN  refresh' = [refresh EXCEPT !.todo = @ \ {<<i, u>>}, !.rows = @ \cup {Classified(row, NoSnapshot)}]
    /\ UNCHANGED <<unitVars, store, actionVars, display, unseen>>

\* Source 3: the helper's inventory; every authenticated share it names is
\* classified again, from all but its Store record.
ReadInventory ==
    /\ refresh.pc = "inspect" /\ refresh.todo = {}
    /\ LET known == {unit.id : unit \in PairScannedHalves} \ (Guests \cup {NoFile})
           again(row) == IF row.id \in known /\ ~row.corrupt /\ ~row.drift
                         THEN [row EXCEPT !.offers = ClassifyRow([row EXCEPT !.record = FALSE], refresh.rt)]
                         ELSE row
       IN  \/ helper.pc = "idle"
              /\ refresh' = [refresh EXCEPT !.pc = "done", !.rows = {again(row) : row \in @}]
           \/ refresh' = [refresh EXCEPT !.pc = "done"]
    /\ UNCHANGED <<unitVars, store, actionVars, display, unseen>>

\* The watcher delivers the refresh it is assigned to and no other.
Deliver ==
    /\ refresh.pc = "done"
    /\ display' = [rows |-> refresh.rows, rt |-> refresh.rt]
    /\ refresh' = [EmptyRefresh EXCEPT !.pc = "idle"]
    /\ UNCHANGED <<unitVars, store, actionVars, unseen>>

Model ==
    \/ ReadUnits \/ ReadStore \/ ReadInventory \/ Deliver
    \/ \E i \in Ids, u \in Units \cup {Corrupt} : InspectStored(i, u)

-------------------------------------------------------------------------------
Next ==
    \/ Helper \/ HelperCrash
    \/ \E w \in Workers : Operate(w)
    \/ \E d \in Dialogs : CrashDialog(d)
    \/ CrashKcm
    \/ StartRefresh /\ UNCHANGED <<unitVars, store, actionVars>>
    \/ Model

Spec == ClientInit /\ [][Next]_vars

-------------------------------------------------------------------------------
(* Properties.                                                             *)

\* A delete, or a cleanup, drops a local record only when no unit half carries
\* the share's id any more, whatever replies were lost: the record is what leads
\* back to the definition (deleteShare after an unknown outcome; nasmount-cleanup
\* after a purge that was not confirmed).
RecordKeptWhileDefined ==
    [][\A w \in Workers, i \in Ids :
         worker[w].op \in {"delete", "cleanup"} /\ worker[w].pc = "store" /\ store'[i] # store[i] =>
             \A u \in Units : i \notin {mountHalf[u], autoHalf[u]}]_vars

\* An add reported successful left a whole definition and a record that
\* agree, although helper and Store are two separate writes and other
\* operations look for definitions without a record to remove.
AddedIsRecorded ==
    \A w \in Workers :
        worker[w].pc = "finish" /\ worker[w].op = "add" /\ worker[w].ok =>
            /\ store[worker[w].id] = worker[w].u
            /\ Definition(worker[w].u) = "Pair" /\ IdOf(worker[w].u) = worker[w].id

\* The rows shown miss nothing: nothing changed since they began to be read.
Current == refresh.pc = "idle" /\ unseen = {}

\* Rows of a refresh nothing disturbed are the truth, and no row is a dead end:
\* every definition and every record has a row under its own id; the removal
\* of the definition is offered only where the helper's precheck would go on
\* with it, and a row offers nothing only where the precheck would not; a
\* record is never offered for removal while it leads to its definition.
CurrentRowsAreTrue ==
    Current =>
        /\ \A u \in Units : Marked(u) =>
             \E r \in display.rows : r.u = u /\ r.id = IdOf(u) /\ (r.record <=> store[r.id] # NoRecord)
        /\ \A i \in Ids : store[i] # NoRecord => \E r \in display.rows : r.id = i /\ r.record
        /\ \A r \in display.rows :
             /\ "definition" \in r.offers =>
                  Managed(r.u) /\ EvaluateStopPrecheck(display.rt) \in {"ShouldStop", "AlreadyInactive"}
             /\ "record" \in r.offers => store[r.id] # r.u \/ ~Marked(r.u) \/ IdOf(r.u) # r.id
             /\ r.offers = {} =>
                  Managed(r.u) /\ EvaluateStopPrecheck(display.rt) \in {"Indeterminate", "CorrelationMismatch"}

\* What the settings module's own operations did is on display, or being
\* read, as soon as they are over, failed or not; only what others, and
\* calls whose reply was lost, did since may be missing.
OwnEffectsShown == (\A w \in Kcms : worker[w].pc = "idle") => "own" \notin unseen
===============================================================================
