----------------------------- MODULE ClientProofs ------------------------------
(***************************************************************************)
(* What holds of the clients of nasmount-helper, for every set of dialogs, *)
(* mount points and ids.  First the agreement of classifyRow with          *)
(* evaluateStopPrecheck; then ClientInv, about the operations, the helper  *)
(* and the Store; then RowsInv, about what MountModel shows.               *)
(***************************************************************************)
EXTENDS Client, FiniteSetTheorems, TLAPS

\* A row offers the removal of a definition only where the precheck of
\* safeStop goes on with it (mountmodel.cpp, classifyRow, against arming.cpp).
THEOREM OffersWhatPrecheckAllows ==
    ASSUME NEW row \in Row, NEW rt \in RuntimeSnapshot,
           "definition" \in ClassifyRow(row, rt)
    PROVE  /\ row.def \in {"Pair", "Partial"}
           /\ EvaluateStopPrecheck(rt) \in {"ShouldStop", "AlreadyInactive"}
  BY DEF Row, RuntimeSnapshot, ClassifyRow, EvaluateStopPrecheck, Definitions,
         MountStates, AutomountStates, VerificationStates, TrustStates

\* Nor is a removal withheld that the helper would carry out: an owned
\* definition without it has a record to clear first, or is one whose
\* precheck refuses.
THEOREM WithholdsWhatPrecheckRefuses ==
    ASSUME NEW row \in Row, NEW rt \in RuntimeSnapshot, row.def \in {"Pair", "Partial"},
           "definition" \notin ClassifyRow(row, rt)
    PROVE  \/ row.drift \/ row.corrupt
           \/ EvaluateStopPrecheck(rt) \in {"Indeterminate", "CorrelationMismatch"}
  BY DEF Row, RuntimeSnapshot, ClassifyRow, EvaluateStopPrecheck, Definitions,
         MountStates, AutomountStates, VerificationStates, TrustStates
-------------------------------------------------------------------------------
(* The invariant: who holds the user lock, whose call the helper is busy   *)
(* with and how far it has come, and what that says of the Store.          *)

Refreshes == [pc : {"idle", "units", "store", "inspect", "inventory", "done"},
              rows : SUBSET Row, todo : SUBSET (Ids \X (Units \cup {Corrupt})),
              rt : RuntimeSnapshot]

\* ClientTypeOK, and that what the model holds are records of these fields.
RecordsTyped ==
    /\ ClientTypeOK
    /\ refresh \in Refreshes
    /\ display \in [rows : SUBSET Row, rt : RuntimeSnapshot]

\* A row with a record has the record's id.
RecordRows == \A r \in refresh.rows \cup display.rows : r.record => r.id \in Ids

\* UserLock is exclusive.
OneHolder == \A v, w \in Workers : HoldsUserLock(v) /\ HoldsUserLock(w) => v = w

\* What a worker carries from step to step: a delete its record, whose mount
\* point nobody changes while it holds the lock.
WorkInHand ==
    \A w \in Workers :
        LET work == worker[w]
        IN  /\ work.pc = "lock" => work.op = "delete"
            /\ work.op = "delete" => work.id \in Ids
            /\ work.op = "cleanup" => w \in Dialogs
            /\ work.op = "delete" /\ work.pc = "wait" => store[work.id] = work.u /\ work.u # NoRecord

\* Whoever waits for the reply asked for what the helper does.
CallersCall ==
    caller # Nobody =>
        LET work == worker[caller]
        IN  /\ caller \in Workers /\ work.pc = "wait" /\ helper.pc # "idle"
            /\ <<work.op, helper.op>> \in {<<"add", "define">>, <<"delete", "undefine">>,
                                          <<"removeOrphan", "undefine">>, <<"cleanup", "purge">>}
            /\ helper.op # "purge" => helper.u = work.u

\* How far a call has come shows in the unit files.
HelperHalves ==
    /\ helper.op = "define" =>
           /\ helper.u \in Units
           /\ helper.pc \in {"automount", "finish"} => helper.id \in Ids /\ mountHalf[helper.u] = helper.id
           /\ helper.pc = "finish" => autoHalf[helper.u] = helper.id
    /\ helper.op = "undefine" =>
           /\ helper.pc \in {"automount", "finish"} => helper.u \in Units /\ mountHalf[helper.u] = NoFile
           /\ helper.pc = "finish" => autoHalf[helper.u] = NoFile
    /\ helper.op = "purge" =>
           /\ helper.pc = "automount" => helper.u \in Units
           /\ helper.pc = "finish" => \A u \in Units : ~Marked(u)

Halves(u) == {mountHalf[u], autoHalf[u]}

\* An id names one mount point for good, and a record of it that one.
OneMountPoint ==
    /\ \A i \in Ids : store[i] # NoRecord => i \in used
    /\ \A u \in Units : \A i \in Halves(u) \cap Ids :
           /\ i \in used /\ store[i] \in {NoRecord, u}
           /\ \A v \in Units : i \in Halves(v) => v = u

\* A definition a worker has just been told of.
DefinedAs(u, i) == i \in Ids /\ u \in Units /\ Halves(u) = {i}

\* Between the reply and the end of the operation: the lock keeps the helper
\* idle, so what the reply said stays true.
Told ==
    \A w \in Workers :
        LET work == worker[w]
        IN  /\ work.pc = "store" /\ work.op # "removeRecord" => helper.pc = "idle"
            /\ work.pc = "store" /\ work.op = "add" => DefinedAs(work.u, work.id)
            /\ work.pc = "store" /\ work.op = "delete" => \A u \in Units : work.id \notin Halves(u)
            /\ work.pc = "store" /\ work.op = "cleanup" => \A u \in Units : ~Marked(u)
            /\ work.pc = "finish" /\ work.op = "add" /\ work.ok =>
                  helper.pc = "idle" /\ DefinedAs(work.u, work.id) /\ store[work.id] = work.u

ClientInv ==
    /\ RecordsTyped /\ RecordRows /\ OneHolder /\ WorkInHand /\ CallersCall
    /\ HelperHalves /\ OneMountPoint /\ Told

-------------------------------------------------------------------------------
(* Types.                                                                  *)

Works == [op : {"none", "add", "delete", "removeRecord", "removeOrphan", "cleanup"},
          pc : {"idle", "lock", "wait", "store", "finish"},
          u : Units \cup {NoUnit, Corrupt}, id : Ids \cup {NoFile}, ok : BOOLEAN]

\* A refresh begins, and a settings module opens, with well-formed state.
LEMMA StartsTyped ==
    /\ EmptyRefresh \in Refreshes
    /\ [EmptyRefresh EXCEPT !.pc = "idle"] \in Refreshes
    /\ [rows |-> {}, rt |-> NoSnapshot] \in [rows : SUBSET Row, rt : RuntimeSnapshot]
    /\ NoWork \in Works
  BY DEF EmptyRefresh, Refreshes, NoSnapshot, RuntimeSnapshot, NoWork, Works, AutomountStates,
         MountStates, VerificationStates, TrustStates

\* The end of an operation leaves a finished one, or a fresh process.
LEMMA EndedWork ==
    ASSUME NEW work \in Works, NEW ok \in BOOLEAN
    PROVE  /\ Ended(work, ok) \in Works
           /\ work.op = "cleanup" => Ended(work, ok) = NoWork
           /\ work.op # "cleanup" =>
                 /\ Ended(work, ok).op = work.op /\ Ended(work, ok).id = work.id /\ Ended(work, ok).u = work.u
                 /\ Ended(work, ok).pc = "finish" /\ Ended(work, ok).ok = ok
  <1>1. CASE work.op = "cleanup"
    BY <1>1, StartsTyped DEF Ended
  <1>2. CASE work.op # "cleanup"
    <2>1. Ended(work, ok) = [work EXCEPT !.pc = "finish", !.ok = ok]
      BY <1>2 DEF Ended
    <2> QED
      BY <1>2, <2>1 DEF Works
  <1> QED
    BY <1>1, <1>2

\* An answer ends an operation unless it confirms what the Store is to record.
LEMMA AnsweredWork ==
    ASSUME NEW work \in Works, NEW outcome \in {"success", "failure", "unknown"}
    PROVE  /\ Answered(work, outcome) \in Works
           /\ outcome = "success" /\ work.op \in {"add", "delete", "cleanup"} =>
                 Answered(work, outcome) = [work EXCEPT !.pc = "store"]
           /\ ~(outcome = "success" /\ work.op \in {"add", "delete", "cleanup"}) =>
                 Answered(work, outcome) = Ended(work, outcome = "success")
  BY EndedWork DEF Answered, Works

\* The rows of a refresh are rows whatever is classified.
LEMMA ClassifiedRow ==
    ASSUME NEW row \in Row, NEW rt
    PROVE  /\ Classified(row, rt) \in Row
           /\ Classified(row, rt).id = row.id /\ Classified(row, rt).record = row.record
           /\ Classified(row, rt).u = row.u /\ Classified(row, rt).def = row.def
           /\ Classified(row, rt).corrupt = row.corrupt /\ Classified(row, rt).drift = row.drift
           /\ Classified(row, rt).offers = ClassifyRow(row, rt)
  <1>1. ClassifyRow(row, rt) \in SUBSET {"definition", "record", "administrator"}
    BY DEF ClassifyRow
  <1> QED
    BY <1>1 DEF Classified, Row

\* What the scan of the unit files says of a unit.
LEMMA ScannedUnits ==
    ASSUME RecordsTyped, NEW unit \in PairScannedHalves
    PROVE  /\ unit.def \in {"Pair", "Partial", "Tampered"}
           /\ unit.id \in Ids \cup {NoFile} /\ unit.u \in Units \cup {NoUnit}
  <1> DEFINE halves(u)  == {mountHalf[u], autoHalf[u]}
             claimed(u) == \E v \in Units \ {u} : halves(u) \cap halves(v) \cap Ids # {}
             two(u)     == Cardinality(halves(u) \cap Ids) = 2
             state(u)   == IF two(u) \/ claimed(u) THEN "Tampered"
                           ELSE IF Cardinality(halves(u)) = 1 THEN "Pair" ELSE "Partial"
  <1>1. PICK u \in {v \in Units : Marked(v)} :
            unit = [def |-> state(u), id |-> IF state(u) = "Tampered" THEN NoFile ELSE IdOf(u),
                    u |-> IF two(u) THEN NoUnit ELSE u]
    BY ZenonT(30) DEF PairScannedHalves
  <1> HIDE DEF two, claimed
  <1>2. IdOf(u) \in Ids
    BY <1>1 DEF Marked, IdOf, MarkerId
  <1> QED
    BY <1>1, <1>2

\* A new row is one.
LEMMA NewRows ==
    ASSUME NEW i \in Ids \cup {NoFile}, NEW u \in Units \cup {NoUnit}
    PROVE  NewRow(i, u) \in Row /\ ~NewRow(i, u).record
  BY DEF NewRow, Row, Definitions

\* What inspecting a unit says of it.
LEMMA DefinitionTyped == ASSUME NEW u \in Units PROVE Definition(u) \in Definitions
  BY DEF Definition, InspectDefinition, Definitions

\* Reading the units keeps the rows well-formed.
LEMMA ReadUnitsTyped ==
    ASSUME RecordsTyped, RecordRows, ReadUnits
    PROVE  refresh' \in Refreshes /\ \A r \in refresh'.rows : ~r.record
  <1> USE DEF RecordsTyped
  <1>1. PICK rt \in Runtimes :
          refresh' = [refresh EXCEPT !.pc = "store", !.rt = rt,
             !.rows = {Classified([NewRow(unit.id, unit.u) EXCEPT !.def = unit.def], rt) :
                          unit \in PairScannedHalves}]
    BY DEF ReadUnits
  <1>2. \A unit \in PairScannedHalves :
            LET r == Classified([NewRow(unit.id, unit.u) EXCEPT !.def = unit.def], rt)
            IN  r \in Row /\ ~r.record
    <2> TAKE unit \in PairScannedHalves
    <2>1. /\ NewRow(unit.id, unit.u) \in Row /\ ~NewRow(unit.id, unit.u).record
          /\ unit.def \in Definitions
      BY ScannedUnits, NewRows DEF Definitions
    <2> DEFINE r == [NewRow(unit.id, unit.u) EXCEPT !.def = unit.def]
    <2>2. r \in Row /\ ~r.record
      BY <2>1 DEF Row
    <2> QED
      BY <2>2, ClassifiedRow
  <1>3. refresh'.rows \subseteq Row /\ \A r \in refresh'.rows : ~r.record
    BY <1>1, <1>2 DEF Refreshes
  <1>4. rt \in RuntimeSnapshot
    BY ClientAssumption
  <1> QED
    BY <1>1, <1>3, <1>4 DEF Refreshes

\* A record with a mount point the Store can name.
LEMMA StoreTyped ==
    ASSUME RecordsTyped, NEW i \in Ids
    PROVE  store[i] \in Units \cup {NoRecord, Corrupt}
  BY DEF RecordsTyped, ClientTypeOK

\* Reading the Store does.
LEMMA ReadStoreTyped ==
    ASSUME RecordsTyped, RecordRows, ReadStore
    PROVE  refresh' \in Refreshes /\ \A r \in refresh'.rows : r.record => r.id \in Ids
  <1> USE DEF RecordsTyped
  <1> DEFINE with(row) == [row EXCEPT !.record = TRUE, !.corrupt = store[row.id] = Corrupt,
                                      !.drift = store[row.id] \notin {Corrupt, row.u}]
             merged(row) == IF row.id = NoFile \/ store[row.id] = NoRecord THEN row
                            ELSE LET r == with(row)
                                 IN  IF r.corrupt \/ r.drift THEN Classified(r, NoSnapshot) ELSE r
             rest == {<<i, store[i]>> : i \in {j \in Ids : store[j] # NoRecord} \ {row.id : row \in refresh.rows}}
  <1>1. refresh' = [refresh EXCEPT !.pc = "inspect", !.rows = {merged(row) : row \in refresh.rows}, !.todo = rest]
    BY DEF ReadStore, Refreshes
  <1>2. \A row \in refresh.rows : merged(row) \in Row /\ (merged(row).record => merged(row).id \in Ids)
    <2> TAKE row \in refresh.rows
    <2>1. row \in Row /\ (row.record => row.id \in Ids)
      BY DEF Refreshes, RecordRows
    <2>2. CASE row.id = NoFile \/ store[row.id] = NoRecord
      BY <2>1, <2>2
    <2>3. CASE row.id # NoFile /\ store[row.id] # NoRecord
      <3>1. row.id \in Ids
        BY <2>1, <2>3 DEF Row
      <3>2. with(row) \in Row /\ with(row).id = row.id
        BY <2>1 DEF Row
      <3>3. merged(row) \in {with(row), Classified(with(row), NoSnapshot)}
        BY <2>3
      <3> HIDE DEF with, merged
      <3> QED
        BY <3>1, <3>2, <3>3, ClassifiedRow
    <2> QED
      BY <2>2, <2>3
  <1>3. rest \in SUBSET (Ids \X (Units \cup {Corrupt}))
    BY StoreTyped
  <1> HIDE DEF merged, rest
  <1>4. {merged(row) : row \in refresh.rows} \in SUBSET Row
    BY <1>2
  <1>5. refresh'.rows = {merged(row) : row \in refresh.rows}
    BY <1>1 DEF Refreshes
  <1> QED
    BY <1>1, <1>2, <1>3, <1>4, <1>5 DEF Refreshes

\* Inspecting what a record leads to does.
LEMMA InspectStoredTyped ==
    ASSUME RecordsTyped, RecordRows, NEW i \in Ids, NEW u \in Units \cup {Corrupt}, InspectStored(i, u)
    PROVE  refresh' \in Refreshes /\ \A r \in refresh'.rows : r.record => r.id \in Ids
  <1> USE DEF RecordsTyped
  <1> DEFINE def == IF u \in Units THEN Definition(u) ELSE "None"
             row == [NewRow(i, IF u \in Units THEN u ELSE NoUnit) EXCEPT
                        !.def = def, !.record = TRUE, !.corrupt = u = Corrupt, !.drift = def \in {"Pair", "Partial"}]
  <1>1. refresh' = [refresh EXCEPT !.todo = @ \ {<<i, u>>}, !.rows = @ \cup {Classified(row, NoSnapshot)}]
    BY DEF InspectStored
  <1>2. row \in Row /\ row.id = i
    <2>1. def \in Definitions
      BY DefinitionTyped DEF Definitions
    <2> DEFINE at  == IF u \in Units THEN u ELSE NoUnit
               new == NewRow(i, at)
    <2>2. new \in Row /\ new.id = i
      BY NewRows DEF NewRow
    <2> HIDE DEF def, new
    <2> DEFINE corrupt == u = Corrupt
               drift   == def \in {"Pair", "Partial"}
    <2>3. row = [new EXCEPT !.def = def, !.record = TRUE, !.corrupt = corrupt, !.drift = drift]
      BY DEF new
    <2>4. corrupt \in BOOLEAN /\ drift \in BOOLEAN
      OBVIOUS
    <2> HIDE DEF row, corrupt, drift
    <2> QED
      BY <2>1, <2>2, <2>3, <2>4 DEF Row
  <1> HIDE DEF row
  <1>3. Classified(row, NoSnapshot) \in Row /\ Classified(row, NoSnapshot).id = i
    BY <1>2, ClassifiedRow
  <1>4. refresh'.rows = refresh.rows \cup {Classified(row, NoSnapshot)}
    BY <1>1 DEF Refreshes
  <1> QED
    BY <1>1, <1>3, <1>4 DEF Refreshes, RecordRows

\* The helper's inventory does.
LEMMA ReadInventoryTyped ==
    ASSUME RecordsTyped, RecordRows, ReadInventory
    PROVE  refresh' \in Refreshes /\ \A r \in refresh'.rows : r.record => r.id \in Ids
  <1> USE DEF RecordsTyped
  <1> DEFINE known == {unit.id : unit \in PairScannedHalves} \ (Guests \cup {NoFile})
             fresh(row) == [row EXCEPT !.offers = ClassifyRow([row EXCEPT !.record = FALSE], refresh.rt)]
             again(row) == IF row.id \in known /\ ~row.corrupt /\ ~row.drift THEN fresh(row) ELSE row
  <1>1. refresh' \in {[refresh EXCEPT !.pc = "done", !.rows = {again(row) : row \in @}],
                      [refresh EXCEPT !.pc = "done"]}
    BY DEF ReadInventory
  <1>2. \A row \in refresh.rows : again(row) \in Row /\ again(row).id = row.id /\ again(row).record = row.record
    <2> TAKE row \in refresh.rows
    <2>1. row \in Row
      BY DEF Refreshes
    <2>2. ClassifyRow([row EXCEPT !.record = FALSE], refresh.rt) \in SUBSET {"definition", "record", "administrator"}
      BY DEF ClassifyRow
    <2>3. fresh(row) \in Row /\ fresh(row).id = row.id /\ fresh(row).record = row.record
      BY <2>1, <2>2 DEF Row
    <2> HIDE DEF known, fresh
    <2> QED
      BY <2>1, <2>3
  <1> HIDE DEF again
  <1>3. refresh'.rows \in {refresh.rows, {again(row) : row \in refresh.rows}}
    BY <1>1 DEF Refreshes
  <1>4. refresh'.rows \subseteq Row /\ \A r \in refresh'.rows : r.record => r.id \in Ids
    BY <1>2, <1>3 DEF Refreshes, RecordRows
  <1> QED
    BY <1>1, <1>3, <1>4 DEF Refreshes

\* Every step of the model does, and so does a new refresh.
LEMMA ModelTyped ==
    ASSUME RecordsTyped, RecordRows, Model \/ (StartRefresh /\ UNCHANGED <<unitVars, store, actionVars>>)
    PROVE  RecordsTyped' /\ RecordRows'
  <1> USE DEF RecordsTyped
  <1>1. UNCHANGED <<unitVars, store, actionVars>> /\ unseen' \in {unseen, {}}
    BY DEF Model, ReadUnits, ReadStore, InspectStored, ReadInventory, Deliver, StartRefresh
  <1>2. CASE UNCHANGED display /\ refresh' \in Refreshes /\ \A r \in refresh'.rows : r.record => r.id \in Ids
    BY <1>1, <1>2 DEF RecordRows, ClientTypeOK, Refreshes, unitVars, actionVars
  <1>3. CASE ReadUnits \/ ReadStore \/ ReadInventory \/ \E i \in Ids, u \in Units \cup {Corrupt} : InspectStored(i, u)
    <2>1. UNCHANGED display
      BY <1>3 DEF ReadUnits, ReadStore, ReadInventory, InspectStored
    <2> QED
      BY <1>2, <1>3, <2>1, ReadUnitsTyped, ReadStoreTyped, ReadInventoryTyped, InspectStoredTyped
  <1>4. CASE StartRefresh
    BY <1>2, <1>4, StartsTyped DEF StartRefresh, EmptyRefresh
  <1>5. CASE Deliver
    <2>1. /\ refresh' = [EmptyRefresh EXCEPT !.pc = "idle"] /\ refresh'.rows = {}
          /\ display' = [rows |-> refresh.rows, rt |-> refresh.rt]
      BY <1>5 DEF Deliver, EmptyRefresh
    <2>2. refresh' \in Refreshes /\ display' \in [rows : SUBSET Row, rt : RuntimeSnapshot]
      BY <2>1, StartsTyped DEF Refreshes
    <2> QED
      BY <1>1, <2>1, <2>2 DEF RecordRows, ClientTypeOK, Refreshes, unitVars, actionVars
  <1> QED
    BY <1>3, <1>4, <1>5 DEF Model

-------------------------------------------------------------------------------
(* Operations start under the user lock.                                   *)

Matching == {<<"add", "define">>, <<"delete", "undefine">>, <<"removeOrphan", "undefine">>, <<"cleanup", "purge">>}

\* The work an operation starts with, and the call it makes for it.
WellStarted(w, op, work) ==
    /\ work \in Works /\ <<work.op, op>> \in Matching
    /\ work.op = "cleanup" => w \in Dialogs
    /\ work.op = "delete" => work.id \in Ids /\ store[work.id] = work.u /\ work.u # NoRecord
    /\ op = "define" => work.u \in Units

\* What a step does that takes the lock: it calls the helper, or ends, or goes
\* to the Store.
TakesLock(w) ==
    /\ UserLockFree /\ ~HoldsUserLock(w)
    /\ UNCHANGED <<unitVars, store, modelVars, unseen>>
    /\ \/ \E op \in {"define", "undefine", "purge"}, work \in Works :
             /\ WellStarted(w, op, work)
             /\ helper.pc = "idle" /\ helper' = Job(op, "sent", work.u, NoFile) /\ caller' = w
             /\ worker' = [worker EXCEPT ![w] = [work EXCEPT !.pc = "wait"]]
       \/ /\ UNCHANGED <<helper, caller>>
          /\ \E work \in Works :
                /\ work.op = "cleanup" => w \in Dialogs
                /\ work.op = "delete" => work.id \in Ids
                /\ worker' = [worker EXCEPT ![w] = Ended(work, FALSE)]
       \/ /\ UNCHANGED <<helper, caller>>
          /\ \E work \in Works :
                work.op = "removeRecord" /\ worker' = [worker EXCEPT ![w] = [work EXCEPT !.pc = "store"]]

\* A call, once made, is on its way or was turned down.
LEMMA InvokeTakesLock ==
    ASSUME NEW w \in Workers, NEW op \in {"define", "undefine", "purge"}, NEW work \in Works,
           UserLockFree, ~HoldsUserLock(w), WellStarted(w, op, work),
           Invoke(w, op, work), UNCHANGED <<unitVars, store, modelVars, unseen>>
    PROVE  TakesLock(w)
  <1>1. CASE Accept(op, work.u) /\ caller' = w /\ worker' = [worker EXCEPT ![w] = [work EXCEPT !.pc = "wait"]]
    BY <1>1 DEF TakesLock, Accept
  <1>2. CASE UNCHANGED <<helper, caller>> /\ worker' = [worker EXCEPT ![w] = Answered(work, "failure")]
    BY <1>2, AnsweredWork DEF TakesLock, WellStarted
  <1> QED
    BY <1>1, <1>2 DEF Invoke

\* The rows an operation is started from are rows.
LEMMA OfferedRows ==
    ASSUME RecordsTyped, RecordRows, NEW verb, NEW recorded, NEW r \in Offered(verb, recorded)
    PROVE  r \in Row /\ r.record = recorded /\ (r.record => r.id \in Ids)
  BY DEF RecordsTyped, RecordRows, Offered

\* Every operation takes it.
LEMMA OperationsTakeLock ==
    ASSUME RecordsTyped, RecordRows, WorkInHand, NEW w \in Workers,
           AddShare(w) \/ CleanUp(w) \/ RemoveOrphanedRecord(w) \/ RemoveOrphanByPath(w) \/ DeleteConfirmed(w)
    PROVE  TakesLock(w)
  <1>1. UserLockFree /\ ~HoldsUserLock(w) /\ UNCHANGED <<unitVars, store, modelVars, unseen>>
    BY DEF AddShare, CleanUp, RemoveOrphanedRecord, RemoveOrphanByPath, DeleteConfirmed, Begin, HoldsUserLock
  <1>2. CASE AddShare(w)
    <2>1. PICK u \in Units : Invoke(w, "define", [NoWork EXCEPT !.op = "add", !.u = u])
      BY <1>2 DEF AddShare
    <2>2. WellStarted(w, "define", [NoWork EXCEPT !.op = "add", !.u = u])
      BY DEF WellStarted, NoWork, Works, Matching
    <2> QED
      BY <1>1, <2>1, <2>2, InvokeTakesLock DEF WellStarted
  <1>3. CASE CleanUp(w)
    <2>1. w \in Dialogs /\ Invoke(w, "purge", [NoWork EXCEPT !.op = "cleanup"])
      BY <1>3 DEF CleanUp
    <2>2. WellStarted(w, "purge", [NoWork EXCEPT !.op = "cleanup"])
      BY <2>1 DEF WellStarted, NoWork, Works, Matching
    <2> QED
      BY <1>1, <2>1, <2>2, InvokeTakesLock DEF WellStarted
  <1>4. CASE RemoveOrphanedRecord(w)
    <2>1. PICK r \in Offered("record", TRUE) :
              worker' = [worker EXCEPT ![w] = [NoWork EXCEPT !.op = "removeRecord", !.pc = "store", !.id = r.id]]
      BY <1>4 DEF RemoveOrphanedRecord
    <2> DEFINE work == [NoWork EXCEPT !.op = "removeRecord", !.id = r.id]
    <2>2. work \in Works /\ work.op = "removeRecord" /\ worker' = [worker EXCEPT ![w] = [work EXCEPT !.pc = "store"]]
      BY <2>1, OfferedRows DEF Row, Works, NoWork
    <2>3. UNCHANGED <<helper, caller>>
      BY <1>4 DEF RemoveOrphanedRecord
    <2> HIDE DEF work
    <2> QED
      BY <1>1, <2>2, <2>3 DEF TakesLock
  <1>5. CASE RemoveOrphanByPath(w)
    <2>1. PICK r \in Offered("definition", FALSE) :
              LET work == [NoWork EXCEPT !.op = "removeOrphan", !.u = r.u]
              IN  \/ Managed(r.u) /\ Invoke(w, "undefine", work)
                  \/ worker' = [worker EXCEPT ![w] = Ended(work, FALSE)] /\ UNCHANGED <<helper, caller>>
      BY <1>5 DEF RemoveOrphanByPath
    <2> DEFINE work == [NoWork EXCEPT !.op = "removeOrphan", !.u = r.u]
    <2>0. r \in Row
      BY OfferedRows
    <2>2. WellStarted(w, "undefine", work) /\ work \in Works
      BY <2>0 DEF Row, WellStarted, NoWork, Works, Matching
    <2> HIDE DEF work
    <2>3. CASE Invoke(w, "undefine", work)
      BY <1>1, <2>2, <2>3, InvokeTakesLock
    <2>4. CASE worker' = [worker EXCEPT ![w] = Ended(work, FALSE)] /\ UNCHANGED <<helper, caller>>
      BY <1>1, <2>2, <2>4 DEF TakesLock, WellStarted
    <2> QED
      BY <2>1, <2>3, <2>4 DEF work
  <1>6. CASE DeleteConfirmed(w)
    <2> DEFINE u    == store[worker[w].id]
               work == [worker[w] EXCEPT !.u = u]
    <2>1. worker[w] \in Works /\ worker[w].op = "delete" /\ worker[w].id \in Ids
      BY <1>6 DEF DeleteConfirmed, WorkInHand, RecordsTyped, ClientTypeOK, Works
    <2>2. CASE u # NoRecord /\ Invoke(w, "undefine", work)
      <3>1. u \in Units \cup {Corrupt}
        BY <2>1, <2>2, StoreTyped
      <3> HIDE DEF u
      <3>2. work \in Works /\ work.op = "delete" /\ work.id = worker[w].id /\ work.u = u
        BY <2>1, <3>1 DEF Works
      <3> HIDE DEF work
      <3>3. WellStarted(w, "undefine", work)
        BY <2>1, <2>2, <3>2 DEF WellStarted, Matching, u
      <3> QED
        BY <1>1, <2>2, <3>2, <3>3, InvokeTakesLock
    <2>3. CASE EndWith(w, FALSE) /\ UNCHANGED <<helper, caller>>
      <3>1. worker' = [worker EXCEPT ![w] = Ended(worker[w], FALSE)]
        BY <2>1, <2>3 DEF EndWith, RecordsTyped, ClientTypeOK
      <3> QED
        BY <1>1, <2>1, <2>3, <3>1 DEF TakesLock
    <2> QED
      BY <1>6, <2>2, <2>3 DEF DeleteConfirmed
  <1> QED
    BY <1>2, <1>3, <1>4, <1>5, <1>6

-------------------------------------------------------------------------------
(* The steps of the workers keep the invariant.                            *)

\* Nothing but the model's rows is disturbed by a refresh.
LEMMA ModelStep ==
    ASSUME ClientInv, Model \/ (StartRefresh /\ UNCHANGED <<unitVars, store, actionVars>>)
    PROVE  ClientInv'
  <1> USE DEF ClientInv
  <1>1. RecordsTyped' /\ RecordRows'
    BY ModelTyped
  <1>2. UNCHANGED <<unitVars, store, actionVars>>
    BY DEF Model, ReadUnits, ReadStore, InspectStored, ReadInventory, Deliver
  <1>3. OneHolder' /\ WorkInHand' /\ CallersCall'
    BY <1>2 DEF OneHolder, WorkInHand, CallersCall, HoldsUserLock, actionVars
  <1>4. HelperHalves' /\ OneMountPoint' /\ Told'
    BY <1>2 DEF HelperHalves, OneMountPoint, Told, Halves, DefinedAs, Marked, actionVars, unitVars
  <1> QED
    BY <1>1, <1>3, <1>4

\* One worker's operation stays an operation.
LEMMA WorkerTyped ==
    ASSUME ClientTypeOK, NEW w \in Workers, NEW work \in Works, worker' = [worker EXCEPT ![w] = work]
    PROVE  /\ worker' \in [Workers -> Works]
           /\ worker'[w] = work /\ \A v \in Workers \ {w} : worker'[v] = worker[v]
  BY DEF ClientTypeOK, Works

\* Taking the lock, whatever becomes of the call, keeps the invariant.
LEMMA TakesLockStep == ASSUME ClientInv, NEW w \in Workers, TakesLock(w) PROVE ClientInv'
  <1> USE DEF ClientInv
  <1>1. /\ UNCHANGED <<mountHalf, autoHalf, used, store, refresh, display, unseen>>
        /\ \A v \in Workers : worker[v].pc \in {"idle", "lock"}
    BY DEF TakesLock, UserLockFree, HoldsUserLock, unitVars, modelVars
  <1>2. caller = Nobody
    BY <1>1 DEF CallersCall
  <1>3. HelperHalves' /\ caller' \in {Nobody, w} /\ OneMountPoint'
    <2>1. OneMountPoint'
      BY <1>1 DEF OneMountPoint, Halves
    <2>2. CASE helper' = helper
      BY <1>1, <1>2, <2>1, <2>2 DEF HelperHalves, TakesLock, Marked
    <2>3. CASE \E op \in {"define", "undefine", "purge"}, work \in Works :
                  helper' = Job(op, "sent", work.u, NoFile) /\ caller' = w /\ WellStarted(w, op, work)
      BY <2>1, <2>3 DEF HelperHalves, Job, WellStarted
    <2> QED
      BY <2>2, <2>3 DEF TakesLock
  <1>4. CASE \E op \in {"define", "undefine", "purge"}, work \in Works :
               /\ WellStarted(w, op, work)
               /\ helper.pc = "idle" /\ helper' = Job(op, "sent", work.u, NoFile) /\ caller' = w
               /\ worker' = [worker EXCEPT ![w] = [work EXCEPT !.pc = "wait"]]
    <2>1. PICK op \in {"define", "undefine", "purge"}, work \in Works :
               /\ WellStarted(w, op, work)
               /\ helper' = Job(op, "sent", work.u, NoFile) /\ caller' = w
               /\ worker' = [worker EXCEPT ![w] = [work EXCEPT !.pc = "wait"]]
      BY <1>4
    <2> DEFINE asked == [work EXCEPT !.pc = "wait"]
    <2>2. asked \in Works /\ asked.pc = "wait" /\ asked.op = work.op /\ asked.u = work.u /\ asked.id = work.id
      BY DEF Works
    <2> HIDE DEF asked
    <2>3. /\ worker' \in [Workers -> Works]
          /\ worker'[w] = asked /\ \A v \in Workers \ {w} : worker'[v] = worker[v]
      BY <2>1, <2>2, WorkerTyped DEF asked, RecordsTyped
    <2>4. ClientTypeOK'
      BY <1>1, <2>1, <2>3 DEF RecordsTyped, ClientTypeOK, Works, Job
    <2>5. RecordsTyped' /\ RecordRows'
      BY <1>1, <2>4 DEF RecordsTyped, RecordRows
    <2>6. OneHolder'
      BY <1>1, <2>3 DEF OneHolder, HoldsUserLock
    <2>7. WorkInHand'
      BY <1>1, <2>1, <2>2, <2>3 DEF WorkInHand, WellStarted
    <2>8. CallersCall'
      BY <2>1, <2>2, <2>3 DEF CallersCall, WellStarted, Matching, Job
    <2>9. Told'
      BY <1>1, <2>2, <2>3 DEF Told
    <2> QED
      BY <1>3, <2>5, <2>6, <2>7, <2>8, <2>9
  <1>5. CASE /\ UNCHANGED <<helper, caller>>
             /\ \E work \in Works :
                   /\ work.op = "cleanup" => w \in Dialogs
                   /\ work.op = "delete" => work.id \in Ids
                   /\ worker' = [worker EXCEPT ![w] = Ended(work, FALSE)]
    <2>1. PICK work \in Works : /\ work.op = "cleanup" => w \in Dialogs
                                /\ work.op = "delete" => work.id \in Ids
                                /\ worker' = [worker EXCEPT ![w] = Ended(work, FALSE)]
      BY <1>5
    <2> DEFINE ended == Ended(work, FALSE)
    <2>2. /\ ended \in Works /\ ended.pc \in {"idle", "finish"}
          /\ ~ended.ok /\ ended.op # "cleanup"
          /\ ended.op = "delete" => ended.id \in Ids
      <3>1. CASE work.op = "cleanup"
        <4>1. ended = NoWork
          BY <3>1, EndedWork
        <4>2. NoWork \in Works
          BY StartsTyped
        <4> HIDE DEF ended
        <4> QED
          BY <4>1, <4>2 DEF NoWork
      <3>2. CASE work.op # "cleanup"
        BY <2>1, <3>2, EndedWork
      <3> QED
        BY <3>1, <3>2
    <2> HIDE DEF ended
    <2>3. /\ worker' \in [Workers -> Works]
          /\ worker'[w] = ended /\ \A v \in Workers \ {w} : worker'[v] = worker[v]
      BY <2>1, <2>2, WorkerTyped DEF RecordsTyped, ended
    <2>4. ClientTypeOK'
      BY <1>1, <1>5, <2>3 DEF RecordsTyped, ClientTypeOK, Works
    <2>5. RecordsTyped' /\ RecordRows'
      BY <1>1, <2>4 DEF RecordsTyped, RecordRows
    <2>6. OneHolder' /\ WorkInHand' /\ CallersCall' /\ Told'
      BY <1>1, <1>2, <1>5, <2>2, <2>3 DEF OneHolder, HoldsUserLock, WorkInHand, CallersCall, Told
    <2> QED
      BY <1>3, <2>5, <2>6
  <1>6. CASE /\ UNCHANGED <<helper, caller>>
             /\ \E work \in Works :
                   work.op = "removeRecord" /\ worker' = [worker EXCEPT ![w] = [work EXCEPT !.pc = "store"]]
    <2>1. PICK work \in Works :
             work.op = "removeRecord" /\ worker' = [worker EXCEPT ![w] = [work EXCEPT !.pc = "store"]]
      BY <1>6
    <2> DEFINE storing == [work EXCEPT !.pc = "store"]
    <2>2. storing \in Works /\ storing.op = "removeRecord" /\ storing.pc = "store"
      BY <2>1 DEF Works
    <2>3. worker' = [worker EXCEPT ![w] = storing]
      BY <2>1
    <2> HIDE DEF storing
    <2>4. /\ worker' \in [Workers -> Works]
          /\ worker'[w] = storing /\ \A v \in Workers \ {w} : worker'[v] = worker[v]
      BY <2>2, <2>3, WorkerTyped DEF RecordsTyped
    <2>5. ClientTypeOK'
      BY <1>1, <1>6, <2>4 DEF RecordsTyped, ClientTypeOK, Works
    <2>6. RecordsTyped' /\ RecordRows'
      BY <1>1, <2>5 DEF RecordsTyped, RecordRows
    <2>7. OneHolder' /\ WorkInHand' /\ CallersCall' /\ Told'
      BY <1>1, <1>2, <1>6, <2>2, <2>4 DEF OneHolder, HoldsUserLock, WorkInHand, CallersCall, Told
    <2> QED
      BY <1>3, <2>6, <2>7
  <1> QED
    BY <1>4, <1>5, <1>6 DEF TakesLock

\* Choosing a share to delete does not take the lock.
LEMMA DeleteShareStep == ASSUME ClientInv, NEW w \in Workers, DeleteShare(w) PROVE ClientInv'
  <1> USE DEF ClientInv
  <1>1. /\ worker[w].pc = "idle"
        /\ UNCHANGED <<mountHalf, autoHalf, used, store, helper, caller, refresh, display, unseen>>
    BY DEF DeleteShare, unitVars, modelVars
  <1>2. PICK i \in Ids : worker' = [worker EXCEPT ![w] = [NoWork EXCEPT !.op = "delete", !.pc = "lock", !.id = i]]
    <2>1. PICK i \in (IF w \in Kcms THEN {r.id : r \in Offered("definition", TRUE)}
                      ELSE {j \in Ids : store[j] \in Units}) :
              worker' = [worker EXCEPT ![w] = [NoWork EXCEPT !.op = "delete", !.pc = "lock", !.id = i]]
      BY DEF DeleteShare
    <2>2. \A r \in Offered("definition", TRUE) : r.id \in Ids
      BY OfferedRows
    <2> QED
      BY <2>1, <2>2
  <1> DEFINE work == [NoWork EXCEPT !.op = "delete", !.pc = "lock", !.id = i]
  <1>3. work \in Works /\ work.pc = "lock" /\ work.op = "delete" /\ work.id \in Ids
    BY DEF NoWork, Works
  <1> HIDE DEF work
  <1>4. /\ worker' \in [Workers -> Works]
        /\ worker'[w] = work /\ \A v \in Workers \ {w} : worker'[v] = worker[v]
    BY <1>2, <1>3, WorkerTyped DEF RecordsTyped, work
  <1>5. ClientTypeOK'
    BY <1>1, <1>4 DEF RecordsTyped, ClientTypeOK, Works
  <1>6. RecordsTyped' /\ RecordRows'
    BY <1>1, <1>5 DEF RecordsTyped, RecordRows
  <1>7. OneHolder' /\ WorkInHand'
    BY <1>1, <1>3, <1>4 DEF OneHolder, HoldsUserLock, WorkInHand
  <1>8. CallersCall'
    BY <1>1, <1>4 DEF CallersCall
  <1>9. HelperHalves' /\ OneMountPoint'
    BY <1>1 DEF HelperHalves, OneMountPoint, Halves, Marked
  <1>10. Told'
    <2>1. \A v \in Workers : worker'[v] = worker[v] \/ worker'[v].pc = "lock"
      BY <1>3, <1>4
    <2> QED
      BY <1>1, <2>1 DEF Told, DefinedAs, Halves, Marked
  <1> QED
    BY <1>6, <1>7, <1>8, <1>9, <1>10

\* A worker that is through, or gone, or told that its call did not succeed.
Leaves(v) ==
    \/ worker'[v] = worker[v]
    \/ worker'[v] = NoWork
    \/ /\ worker[v].pc = "wait"
       /\ \E ok \in BOOLEAN : worker'[v] = Ended(worker[v], ok) /\ (ok => worker[v].op # "add")

\* The lock is not taken by leaving, nor is anything left in hand.
LEMMA LeavingWorkers ==
    ASSUME ClientInv, worker' \in [Workers -> Works], \A v \in Workers : Leaves(v), UNCHANGED store
    PROVE  /\ \A v \in Workers :
                \/ worker'[v] = worker[v]
                \/ worker'[v].pc # "store" /\ ~(worker'[v].op = "add" /\ worker'[v].ok)
           /\ OneHolder' /\ WorkInHand'
  <1> USE DEF ClientInv
  <1>1. \A v \in Workers :
          \/ worker'[v] = worker[v]
          \/ worker'[v].pc = "idle" /\ worker'[v].op = "none" /\ ~worker'[v].ok
          \/ /\ worker[v].pc = "wait" /\ worker'[v].pc = "finish"
             /\ worker'[v].op = worker[v].op /\ worker'[v].op # "cleanup" /\ worker'[v].id = worker[v].id
             /\ worker'[v].ok => worker'[v].op # "add"
    <2> TAKE v \in Workers
    <2>1. worker[v] \in Works
      BY DEF RecordsTyped, ClientTypeOK, Works
    <2>2. CASE worker'[v] = NoWork
      BY <2>2 DEF NoWork
    <2>3. CASE /\ worker[v].pc = "wait"
               /\ \E ok \in BOOLEAN : worker'[v] = Ended(worker[v], ok) /\ (ok => worker[v].op # "add")
      <3>1. PICK ok \in BOOLEAN : worker'[v] = Ended(worker[v], ok) /\ (ok => worker[v].op # "add")
        BY <2>3
      <3>2. CASE worker[v].op = "cleanup"
        BY <2>1, <2>2, <3>1, <3>2, EndedWork
      <3>3. CASE worker[v].op # "cleanup"
        BY <2>1, <2>3, <3>1, <3>3, EndedWork
      <3> QED
        BY <3>2, <3>3
    <2> QED
      BY <2>2, <2>3 DEF Leaves
  <1>2. OneHolder' /\ WorkInHand'
    BY <1>1 DEF OneHolder, HoldsUserLock, WorkInHand
  <1> QED
    BY <1>1, <1>2

\* Workers that leave keep the invariant, and so does a call that ends or
\* that nobody waits for any more.
LEMMA LeavesStep ==
    ASSUME ClientInv, worker' \in [Workers -> Works], \A v \in Workers : Leaves(v),
           UNCHANGED <<mountHalf, autoHalf, used, store>>,
           helper' \in {helper, NoJob}, caller' \in {caller, Nobody},
           caller' # Nobody => helper' = helper /\ worker'[caller] = worker[caller],
           <<refresh', display'>> \in {<<refresh, display>>, <<EmptyRefresh, display>>,
                                       <<EmptyRefresh, [rows |-> {}, rt |-> NoSnapshot]>>},
           unseen' \in {unseen, {}}
    PROVE  ClientInv'
  <1> USE DEF ClientInv
  <1>1. ClientTypeOK' /\ refresh' \in Refreshes /\ display' \in [rows : SUBSET Row, rt : RuntimeSnapshot]
    <2>1. refresh' \in Refreshes /\ display' \in [rows : SUBSET Row, rt : RuntimeSnapshot]
      BY StartsTyped DEF RecordsTyped
    <2>2. /\ helper' \in [op : {"none", "define", "undefine", "purge"},
                          pc : {"idle", "sent", "automount", "finish", "failed"},
                          u : Units \cup {NoUnit, Corrupt}, id : Ids \cup {NoFile}]
          /\ caller' \in Workers \cup {Nobody} /\ unseen' \subseteq {"own", "other"}
      BY DEF RecordsTyped, ClientTypeOK, NoJob, Job
    <2> QED
      BY <2>1, <2>2 DEF RecordsTyped, ClientTypeOK, Works, Refreshes
  <1>2. RecordsTyped' /\ RecordRows'
    BY <1>1 DEF RecordsTyped, RecordRows, EmptyRefresh
  <1>3. OneHolder' /\ WorkInHand'
    BY LeavingWorkers
  <1>4. CallersCall'
    BY DEF CallersCall
  <1>5. HelperHalves' /\ OneMountPoint'
    BY DEF HelperHalves, OneMountPoint, Halves, Marked, NoJob, Job
  <1>6. Told'
    <2>1. \A v \in Workers : worker'[v] = worker[v] \/ (worker'[v].pc # "store" /\ ~(worker'[v].op = "add" /\ worker'[v].ok))
      BY LeavingWorkers
    <2>2. helper.pc = "idle" => helper'.pc = "idle"
      BY DEF NoJob, Job
    <2> QED
      BY <2>1, <2>2 DEF Told, DefinedAs, Halves, Marked
  <1> QED
    BY <1>2, <1>3, <1>4, <1>5, <1>6

\* A worker's record, and that it is one of the workers'.
LEMMA WorkTyped == ASSUME ClientTypeOK PROVE worker \in [Workers -> Works]
  BY DEF ClientTypeOK, Works

\* The replies that never come, the processes that end, and the operations
\* that finish are all of that kind.
LEMMA GiveUpStep == ASSUME ClientInv, NEW w \in Workers, GiveUp(w) PROVE ClientInv'
  <1>1. /\ worker[w].pc = "wait" /\ worker[w] \in Works /\ worker \in [Workers -> Works]
        /\ worker' = [worker EXCEPT ![w] = Answered(worker[w], "unknown")]
    BY WorkTyped DEF GiveUp, ClientInv, RecordsTyped
  <1>2. Answered(worker[w], "unknown") = Ended(worker[w], FALSE)
    BY <1>1, AnsweredWork
  <1>3. Ended(worker[w], FALSE) \in Works
    BY <1>1, EndedWork
  <1>4. /\ worker' \in [Workers -> Works] /\ worker'[w] = Ended(worker[w], FALSE)
        /\ \A v \in Workers \ {w} : worker'[v] = worker[v]
    BY <1>1, <1>2, <1>3
  <1>5. \A v \in Workers : Leaves(v)
    BY <1>1, <1>4 DEF Leaves
  <1>6. /\ caller' = (IF caller = w THEN Nobody ELSE caller)
        /\ UNCHANGED <<mountHalf, autoHalf, used, store, helper, refresh, display, unseen>>
    BY DEF GiveUp, Abandoned, unitVars, modelVars
  <1>7. caller' # Nobody => worker'[caller] = worker[caller]
    BY <1>4, <1>6 DEF ClientInv, CallersCall
  <1> QED
    BY <1>4, <1>5, <1>6, <1>7, LeavesStep

\* The helper is killed: whatever it has written stays, and the caller sees a
\* failed call.
LEMMA HelperCrashStep == ASSUME ClientInv, HelperCrash PROVE ClientInv'
  <1>1. /\ caller' = Nobody /\ helper' = NoJob
        /\ UNCHANGED <<mountHalf, autoHalf, used, store, worker, refresh, display, unseen>>
    BY DEF HelperCrash, End, modelVars
  <1>2. worker' \in [Workers -> Works]
    BY <1>1, WorkTyped DEF ClientInv, RecordsTyped
  <1> QED
    BY <1>1, <1>2, LeavesStep DEF Leaves

\* The end of an operation, which releases the user lock.
LEMMA FinishStep == ASSUME ClientInv, NEW w \in Workers, Finish(w) PROVE ClientInv'
  <1>1. /\ worker[w].pc = "finish" /\ worker \in [Workers -> Works]
        /\ worker' = [worker EXCEPT ![w] = NoWork]
        /\ UNCHANGED <<mountHalf, autoHalf, used, store, helper, caller>>
        /\ <<refresh', display'>> \in {<<refresh, display>>, <<EmptyRefresh, display>>}
        /\ unseen' \in {unseen, {}}
    BY WorkTyped DEF Finish, ClientInv, RecordsTyped, StartRefresh, unitVars, modelVars
  <1>2. /\ worker' \in [Workers -> Works] /\ worker'[w] = NoWork
        /\ \A v \in Workers \ {w} : worker'[v] = worker[v]
    BY <1>1, StartsTyped
  <1>3. \A v \in Workers : Leaves(v)
    BY <1>2 DEF Leaves
  <1>4. caller' # Nobody => worker'[caller] = worker[caller]
    BY <1>1, <1>2 DEF ClientInv, CallersCall
  <1> QED
    BY <1>1, <1>2, <1>3, <1>4, LeavesStep

\* A dialog goes away in the middle of an operation; its helper goes on.
LEMMA CrashDialogStep == ASSUME ClientInv, NEW d \in Dialogs, CrashDialog(d) PROVE ClientInv'
  <1>1. /\ d \in Workers /\ worker \in [Workers -> Works]
        /\ worker' = [worker EXCEPT ![d] = NoWork]
        /\ caller' = (IF caller = d THEN Nobody ELSE caller)
        /\ UNCHANGED <<mountHalf, autoHalf, used, store, helper, refresh, display, unseen>>
    BY WorkTyped DEF CrashDialog, Abandoned, ClientInv, RecordsTyped, unitVars, modelVars, Workers
  <1>2. /\ worker' \in [Workers -> Works] /\ worker'[d] = NoWork
        /\ \A v \in Workers \ {d} : worker'[v] = worker[v]
    BY <1>1, StartsTyped
  <1>3. \A v \in Workers : Leaves(v)
    BY <1>2 DEF Leaves
  <1>4. caller' # Nobody => worker'[caller] = worker[caller]
    BY <1>1, <1>2 DEF ClientInv, CallersCall
  <1> QED
    BY <1>1, <1>2, <1>3, <1>4, LeavesStep

\* So does the settings module, and with it what it shows.
LEMMA CrashKcmStep == ASSUME ClientInv, CrashKcm PROVE ClientInv'
  <1>1. /\ worker \in [Workers -> Works]
        /\ worker' = [w \in Workers |-> IF w \in Kcms THEN NoWork ELSE worker[w]]
        /\ caller' = (IF caller \in Kcms THEN Nobody ELSE caller)
        /\ UNCHANGED <<mountHalf, autoHalf, used, store, helper>>
        /\ <<refresh', display'>> = <<EmptyRefresh, [rows |-> {}, rt |-> NoSnapshot]>> /\ unseen' = {}
    BY WorkTyped DEF CrashKcm, Abandoned, ClientInv, RecordsTyped, unitVars
  <1>2. /\ worker' \in [Workers -> Works]
        /\ \A v \in Workers : worker'[v] = IF v \in Kcms THEN NoWork ELSE worker[v]
    BY <1>1, StartsTyped
  <1>3. \A v \in Workers : Leaves(v)
    BY <1>2 DEF Leaves
  <1>4. caller' # Nobody => worker'[caller] = worker[caller]
    BY <1>1, <1>2 DEF ClientInv, CallersCall
  <1> QED
    BY <1>1, <1>2, <1>3, <1>4, LeavesStep

\* What the Store is told is what the helper confirmed.
LEMMA CommitStep == ASSUME ClientInv, NEW w \in Workers, Commit(w) PROVE ClientInv'
  <1> USE DEF ClientInv
  <1> DEFINE i        == worker[w].id
             content  == IF worker[w].op = "add" THEN worker[w].u ELSE NoRecord
             conflict == worker[w].op = "add" /\ store[i] # NoRecord
             written  == IF worker[w].op = "cleanup" THEN [j \in Ids |-> NoRecord]
                         ELSE [store EXCEPT ![i] = content]
  <1>1. /\ worker[w].pc = "store" /\ worker[w] \in Works /\ worker \in [Workers -> Works]
        /\ UNCHANGED <<mountHalf, autoHalf, used, helper, caller, refresh, display>>
        /\ unseen' \subseteq unseen \cup {"own", "other"}
    BY WorkTyped DEF Commit, Unseen, RecordsTyped, unitVars, modelVars
  <1>2. PICK ok \in BOOLEAN : /\ worker' = [worker EXCEPT ![w] = Ended(worker[w], ok)]
                              /\ \/ store' = written
                                 \/ UNCHANGED store /\ ~ok
    BY DEF Commit, EndWith
  <1> DEFINE ended == Ended(worker[w], ok)
  <1>3. /\ ended \in Works /\ ended.pc \in {"idle", "finish"} /\ ended.op # "cleanup"
        /\ ended.op = "delete" => ended.id \in Ids
        /\ ended.op = "add" => ended.ok = ok /\ worker[w].op = "add" /\ ended.u = worker[w].u /\ ended.id = i
    <2>1. CASE worker[w].op = "cleanup"
      <3>1. ended = NoWork /\ NoWork \in Works
        BY <1>1, <2>1, EndedWork, StartsTyped
      <3> HIDE DEF ended
      <3> QED
        BY <3>1 DEF NoWork
    <2>2. CASE worker[w].op # "cleanup"
      BY <1>1, <2>2, EndedWork DEF WorkInHand
    <2> QED
      BY <2>1, <2>2
  <1> HIDE DEF ended
  <1>4. /\ worker' \in [Workers -> Works] /\ worker'[w] = ended
        /\ \A v \in Workers \ {w} : worker'[v] = worker[v] /\ worker[v].pc \in {"idle", "lock"}
    BY <1>1, <1>2, <1>3 DEF ended, OneHolder, HoldsUserLock
  <1>5. worker[w].op = "add" => helper.pc = "idle" /\ DefinedAs(worker[w].u, i)
    BY <1>1 DEF Told
  <1>6. /\ store' \in [Ids -> Units \cup {NoRecord, Corrupt}]
        /\ \A j \in Ids : store'[j] \in {store[j], NoRecord} \/ (j = i /\ worker[w].op = "add" /\ store'[j] = worker[w].u)
        /\ ok /\ worker[w].op = "add" => store'[i] = worker[w].u
    <2>1. store \in [Ids -> Units \cup {NoRecord, Corrupt}]
      BY DEF RecordsTyped, ClientTypeOK
    <2>2. CASE UNCHANGED store /\ ~ok
      BY <2>1, <2>2
    <2>3. CASE store' = written
      <3>1. CASE worker[w].op = "cleanup"
        BY <2>1, <2>3, <3>1
      <3>2. CASE worker[w].op = "add"
        <4>1. store' = [store EXCEPT ![i] = worker[w].u]
          BY <2>3, <3>2
        <4> QED
          BY <1>5, <2>1, <3>2, <4>1 DEF DefinedAs
      <3>3. CASE worker[w].op \notin {"add", "cleanup"}
        <4>1. store' = [store EXCEPT ![i] = NoRecord]
          BY <2>3, <3>3
        <4> QED
          BY <2>1, <3>3, <4>1
      <3> QED
        BY <3>1, <3>2, <3>3
    <2> QED
      BY <1>2, <2>2, <2>3
  <1>7. ClientTypeOK'
    BY <1>1, <1>4, <1>6 DEF RecordsTyped, ClientTypeOK, Works
  <1>8. RecordsTyped' /\ RecordRows'
    BY <1>1, <1>7 DEF RecordsTyped, RecordRows
  <1>9. OneHolder' /\ WorkInHand'
    BY <1>3, <1>4 DEF OneHolder, HoldsUserLock, WorkInHand
  <1>10. CallersCall' /\ HelperHalves'
    <2>1. caller = Nobody
      BY <1>1, <1>4 DEF CallersCall
    <2> QED
      BY <1>1, <2>1 DEF CallersCall, HelperHalves, Marked
  <1>11. OneMountPoint'
    <2> HIDE DEF i
    <2>1. \A j \in Ids : store'[j] # NoRecord => j \in used'
      BY <1>1, <1>5, <1>6 DEF OneMountPoint, DefinedAs, Halves
    <2>2. \A u \in Units : \A j \in Halves(u) \cap Ids : store'[j] \in {NoRecord, u}
      BY <1>5, <1>6 DEF OneMountPoint, DefinedAs, Halves
    <2> QED
      BY <1>1, <2>1, <2>2 DEF OneMountPoint, Halves
  <1>12. Told'
    <2> HIDE DEF i
    <2>1. \A v \in Workers : worker'[v].pc \notin {"store", "wait"}
      BY <1>3, <1>4
    <2>2. \A v \in Workers : worker'[v].pc = "finish" => v = w
      BY <1>4
    <2>3. worker'[w].op = "add" /\ worker'[w].ok =>
             /\ helper.pc = "idle" /\ DefinedAs(worker'[w].u, worker'[w].id)
             /\ store'[worker'[w].id] = worker'[w].u
      BY <1>3, <1>4, <1>5, <1>6 DEF i
    <2> QED
      BY <1>1, <2>1, <2>2, <2>3 DEF Told, DefinedAs, Halves
  <1> QED
    BY <1>8, <1>9, <1>10, <1>11, <1>12

-------------------------------------------------------------------------------
(* So do the steps of the helper.                                          *)

\* A reply that is not a success makes its caller leave; one that is sends it
\* to the Store, with what the helper has done in the unit files.
LEMMA AnswerFailed ==
    ASSUME ClientInv, Answer("failure")
    PROVE  worker' \in [Workers -> Works] /\ caller' = Nobody /\ \A v \in Workers : Leaves(v)
  <1>1. worker \in [Workers -> Works]
    BY WorkTyped DEF ClientInv, RecordsTyped
  <1>2. /\ caller' = Nobody
        /\ worker' = [w \in Workers |-> IF w # caller THEN worker[w] ELSE Answered(worker[w], "failure")]
    BY DEF Answer
  <1>3. \A w \in Workers : Answered(worker[w], "failure") = Ended(worker[w], FALSE) /\ Ended(worker[w], FALSE) \in Works
    BY <1>1, AnsweredWork, EndedWork
  <1>4. worker' \in [Workers -> Works]
    BY <1>1, <1>2, <1>3
  <1>5. \A v \in Workers : Leaves(v)
    <2> TAKE v \in Workers
    <2>1. CASE v = caller
      <3>1. worker'[v] = Ended(worker[v], FALSE)
        BY <1>2, <1>3, <2>1
      <3>2. worker[v].pc = "wait"
        BY <2>1, ClientAssumption DEF ClientInv, CallersCall
      <3> QED
        BY <3>1, <3>2 DEF Leaves
    <2>2. CASE v # caller
      BY <1>2, <2>2 DEF Leaves
    <2> QED
      BY <2>1, <2>2
  <1> QED
    BY <1>2, <1>4, <1>5

\* What a successful reply finds in the unit files.
LEMMA SuccessFound ==
    ASSUME ClientInv, caller # Nobody, helper.pc = "finish"
    PROVE  /\ worker[caller].op = "add" => DefinedAs(worker[caller].u, helper.id)
           /\ worker[caller].op = "delete" => \A u \in Units : worker[caller].id \notin Halves(u)
           /\ worker[caller].op = "cleanup" => \A u \in Units : ~Marked(u)
  <1> DEFINE work == worker[caller]
  <1> USE DEF ClientInv
  <1>1. /\ caller \in Workers /\ work.pc = "wait"
        /\ <<work.op, helper.op>> \in {<<"add", "define">>, <<"delete", "undefine">>,
                                      <<"removeOrphan", "undefine">>, <<"cleanup", "purge">>}
        /\ helper.op # "purge" => helper.u = work.u
    BY DEF CallersCall
  <1>2. work.op = "add" => DefinedAs(work.u, helper.id)
    BY <1>1 DEF HelperHalves, DefinedAs, Halves
  <1>3. work.op = "cleanup" => \A u \in Units : ~Marked(u)
    BY <1>1 DEF HelperHalves
  <1>4. ASSUME work.op = "delete", NEW u \in Units PROVE work.id \notin Halves(u)
    <2>1. work.u \in Units /\ Halves(work.u) = {NoFile}
      BY <1>1, <1>4 DEF HelperHalves, Halves
    <2>2. work.id \in Ids /\ store[work.id] = work.u /\ work.u # NoRecord
      BY <1>1, <1>4 DEF WorkInHand
    <2>3. work.id # NoFile
      BY <2>2, ContentAssumption
    <2>4. SUFFICES ASSUME work.id \in Halves(u) PROVE FALSE
      OBVIOUS
    <2>5. store[work.id] \in {NoRecord, u}
      BY <2>2, <2>4 DEF OneMountPoint
    <2> QED
      BY <2>1, <2>2, <2>3, <2>4, <2>5
  <1> QED
    BY <1>2, <1>3, <1>4

\* The helper answers: only a success moves the caller on to the Store.
LEMMA HelperRepliesStep ==
    ASSUME ClientInv, HelperReplies, UNCHANGED <<store, modelVars>>
    PROVE  ClientInv'
  <1> USE DEF ClientInv
  <1>1. /\ helper' = NoJob /\ caller' = Nobody /\ worker \in [Workers -> Works]
        /\ UNCHANGED <<mountHalf, autoHalf, used, store, refresh, display, unseen>>
    BY WorkTyped DEF HelperReplies, End, Answer, RecordsTyped, modelVars
  <1>2. CASE Answer("failure")
    BY <1>1, <1>2, AnswerFailed, LeavesStep
  <1>3. CASE helper.pc = "finish" /\ Answer("success")
    <2>1. CASE caller = Nobody
      <3>1. worker' = worker
        <4>1. worker' = [w \in Workers |-> worker[w]]
          BY <1>3, <2>1, ClientAssumption DEF Answer
        <4> QED
          BY <1>1, <4>1
      <3> QED
        BY <1>1, <3>1, LeavesStep DEF Leaves
    <2>2. CASE caller # Nobody
      <3> DEFINE c    == caller
                 work == worker[c]
                 told == IF helper.op = "define" THEN [work EXCEPT !.id = helper.id] ELSE work
      <3>1. /\ c \in Workers /\ work.pc = "wait" /\ work \in Works
            /\ <<work.op, helper.op>> \in {<<"add", "define">>, <<"delete", "undefine">>,
                                          <<"removeOrphan", "undefine">>, <<"cleanup", "purge">>}
        BY <1>1, <2>2 DEF CallersCall
      <3>2. told \in Works /\ told.op = work.op /\ told.u = work.u /\ told.pc = "wait"
            /\ told.id = (IF helper.op = "define" THEN helper.id ELSE work.id)
        <4>1. helper.id \in Ids \cup {NoFile}
          BY DEF RecordsTyped, ClientTypeOK
        <4> HIDE DEF work
        <4> QED
          BY <3>1, <4>1 DEF Works
      <3>3. /\ worker'[c] = Answered(told, "success")
            /\ \A v \in Workers \ {c} : worker'[v] = worker[v]
            /\ worker' = [worker EXCEPT ![c] = Answered(told, "success")]
        BY <1>1, <1>3, <3>1 DEF Answer
      <3>4. CASE work.op = "removeOrphan"
        <4>1. worker'[c] = Ended(work, TRUE) /\ Ended(work, TRUE) \in Works
          BY <3>1, <3>2, <3>3, <3>4, AnsweredWork, EndedWork
        <4> HIDE DEF told
        <4>2. worker' \in [Workers -> Works]
          BY <1>1, <3>1, <3>3, <4>1
        <4>3. \A v \in Workers : Leaves(v)
          BY <3>1, <3>3, <3>4, <4>1 DEF Leaves
        <4> QED
          BY <1>1, <4>2, <4>3, LeavesStep
      <3>5. CASE work.op # "removeOrphan"
        <4> DEFINE storing == [told EXCEPT !.pc = "store"]
        <4>1. worker'[c] = storing
          BY <3>1, <3>2, <3>3, <3>5, AnsweredWork
        <4> HIDE DEF told
        <4>2. storing \in Works /\ storing.pc = "store" /\ storing.op = work.op /\ storing.u = work.u /\ storing.id = told.id
          BY <3>2 DEF Works
        <4> HIDE DEF storing
        <4>3. worker' \in [Workers -> Works]
          BY <1>1, <3>1, <3>3, <4>1, <4>2
        <4>4. \A v \in Workers \ {c} : worker'[v] = worker[v] /\ worker[v].pc \in {"idle", "lock"}
          BY <3>1, <3>3 DEF OneHolder, HoldsUserLock, RecordsTyped, ClientTypeOK
        <4>5. ClientTypeOK'
          BY <1>1, <4>3 DEF RecordsTyped, ClientTypeOK, Works, NoJob, Job
        <4>6. RecordsTyped' /\ RecordRows'
          BY <1>1, <4>5 DEF RecordsTyped, RecordRows
        <4>7. OneHolder'
          BY <4>1, <4>4 DEF OneHolder, HoldsUserLock
        <4>8. WorkInHand'
          BY <1>1, <3>1, <3>2, <4>1, <4>2, <4>4 DEF WorkInHand
        <4>9. CallersCall' /\ HelperHalves' /\ OneMountPoint'
          BY <1>1 DEF CallersCall, HelperHalves, OneMountPoint, Halves, NoJob, Job
        <4>10. Told'
          <5>1. /\ work.op = "add" => DefinedAs(work.u, helper.id) /\ told.id = helper.id
                /\ work.op = "delete" => (\A u \in Units : work.id \notin Halves(u)) /\ told.id = work.id
                /\ work.op = "cleanup" => \A u \in Units : ~Marked(u)
            BY <1>3, <2>2, <3>1, <3>2, SuccessFound
          <5>2. UNCHANGED <<mountHalf, autoHalf>> /\ helper'.pc = "idle"
            BY <1>1 DEF NoJob, Job
          <5> HIDE DEF work, c
          <5>3. \A v \in Workers : worker'[v].pc \in {"store", "finish"} => v = c
            BY <4>4
          <5> QED
            BY <4>1, <4>2, <5>1, <5>2, <5>3 DEF Told, DefinedAs, Halves, Marked
        <4> QED
          BY <4>6, <4>7, <4>8, <4>9, <4>10
      <3> QED
        BY <3>4, <3>5
    <2> QED
      BY <2>1, <2>2
  <1> QED
    BY <1>2, <1>3 DEF HelperReplies

\* While the helper is busy nobody counts on a reply already given.
LEMMA BusyTold ==
    ASSUME ClientInv, helper.pc # "idle", worker' \in [Workers -> Works], \A v \in Workers : Leaves(v), UNCHANGED store
    PROVE  Told'
  <1>1. \A v \in Workers : /\ worker'[v].pc = "store" => worker'[v].op = "removeRecord"
                           /\ ~(worker'[v].pc = "finish" /\ worker'[v].op = "add" /\ worker'[v].ok)
    BY LeavingWorkers DEF ClientInv, Told
  <1> QED
    BY <1>1 DEF Told

\* Ids are never handed out again: a half that loses its id, or takes that of
\* its other half, keeps each at one mount point.
LEMMA HalvesShrink ==
    ASSUME OneMountPoint, UNCHANGED <<used, store>>, \A u \in Units : Halves(u)' \subseteq Halves(u) \cup {NoFile}
    PROVE  OneMountPoint'
  <1>1. \A u \in Units : \A i \in Ids : i \in Halves(u)' => i \in Halves(u)
    BY ContentAssumption
  <1> QED
    BY <1>1 DEF OneMountPoint, Halves

\* What a call changes in the unit files.
LEMMA HelperFiles ==
    ASSUME ClientInv,
           \/ HelperDefineMount
           \/ /\ \/ DefineAutomount \/ UndefineMount \/ UndefineAutomount \/ TakeBack
                 \/ (\E u \in Units : PurgeMount(u)) \/ PurgeAutomount
              /\ UNCHANGED used,
           UNCHANGED store
    PROVE  /\ mountHalf' \in [Units -> FileContent] /\ autoHalf' \in [Units -> FileContent]
           /\ used' \subseteq Ids /\ helper.pc # "idle"
           /\ helper' \in [op : {"none", "define", "undefine", "purge"},
                           pc : {"idle", "sent", "automount", "finish", "failed"},
                           u : Units \cup {NoUnit, Corrupt}, id : Ids \cup {NoFile}]
           /\ helper'.pc # "idle" => helper'.op = helper.op /\ (helper.op # "purge" => helper'.u = helper.u)
           /\ HelperHalves' /\ OneMountPoint'
  <1> USE DEF ClientInv
  <1>0. /\ mountHalf \in [Units -> FileContent] /\ autoHalf \in [Units -> FileContent]
        /\ used \subseteq Ids
        /\ helper \in [op : {"none", "define", "undefine", "purge"},
                       pc : {"idle", "sent", "automount", "finish", "failed"},
                       u : Units \cup {NoUnit, Corrupt}, id : Ids \cup {NoFile}]
    BY DEF RecordsTyped, ClientTypeOK
  <1>1. CASE HelperDefineMount
    <2>1. PICK i \in Ids \ used : DefineMount(i) /\ used' = used \cup {i}
      BY <1>1 DEF HelperDefineMount
    <2>2. /\ helper.op = "define" /\ helper.pc = "sent" /\ helper.u \in Units
          /\ mountHalf' = [mountHalf EXCEPT ![helper.u] = i] /\ UNCHANGED autoHalf
          /\ helper' \in {Job("define", "automount", helper.u, i), Job("define", "failed", helper.u, NoFile)}
      BY <2>1 DEF DefineMount, HelperHalves, Onward, Failed
    <2>3. mountHalf' \in [Units -> FileContent] /\ autoHalf' \in [Units -> FileContent] /\ used' \subseteq Ids
      BY <1>0, <2>1, <2>2 DEF FileContent
    <2>4. HelperHalves'
      BY <1>0, <2>1, <2>2 DEF HelperHalves, Job
    <2>5. OneMountPoint'
      <3>1. \A u \in Units : i \notin Halves(u)
        BY <2>1 DEF DefineMount, Halves
      <3>2. store[i] = NoRecord
        BY <2>1 DEF OneMountPoint
      <3>3. \A u \in Units : /\ mountHalf'[u] = IF u = helper.u THEN i ELSE mountHalf[u]
                             /\ autoHalf'[u] = autoHalf[u]
        BY <1>0, <2>2
      <3>4. \A u \in Units : Halves(u)' \subseteq Halves(u) \cup (IF u = helper.u THEN {i} ELSE {})
        BY <3>3 DEF Halves
      <3>5. \A u \in Units : i \in Halves(u)' => u = helper.u
        BY <3>1, <3>4
      <3>6. \A u \in Units, j \in Ids : j \in Halves(u)' /\ j # i => j \in Halves(u)
        BY <3>4
      <3>7. \A j \in Ids : store'[j] # NoRecord => j \in used'
        BY <2>1 DEF OneMountPoint
      <3>8. ASSUME NEW u \in Units, NEW j \in Ids, j \in Halves(u)'
            PROVE  /\ j \in used' /\ store'[j] \in {NoRecord, u}
                   /\ \A v \in Units : j \in Halves(v)' => v = u
        <4>1. CASE j = i
          BY <2>1, <3>2, <3>5, <3>8, <4>1
        <4>2. CASE j # i
          BY <2>1, <3>6, <3>8, <4>2 DEF OneMountPoint
        <4> QED
          BY <4>1, <4>2
      <3> QED
        BY <3>7, <3>8 DEF OneMountPoint
    <2> QED
      BY <1>0, <2>1, <2>2, <2>3, <2>4, <2>5 DEF Job
  <1>2. CASE DefineAutomount /\ UNCHANGED used
    <2>1. /\ helper.op = "define" /\ helper.u \in Units /\ helper.id \in Ids /\ mountHalf[helper.u] = helper.id
          /\ helper.pc = "automount"
          /\ autoHalf' = [autoHalf EXCEPT ![helper.u] = helper.id] /\ UNCHANGED mountHalf
          /\ helper' \in {Job("define", "finish", helper.u, helper.id), Job("define", "failed", helper.u, NoFile)}
      BY <1>2 DEF DefineAutomount, HelperHalves, Onward, Failed
    <2>2. autoHalf' \in [Units -> FileContent] /\ HelperHalves'
      BY <1>0, <2>1 DEF FileContent, HelperHalves, Job
    <2>3. \A u \in Units : Halves(u)' \subseteq Halves(u) \cup {NoFile}
      BY <1>0, <2>1 DEF Halves
    <2> QED
      BY <1>0, <1>2, <2>1, <2>2, <2>3, HalvesShrink DEF Job
  <1>3. CASE (UndefineMount \/ \E u \in Units : PurgeMount(u)) /\ UNCHANGED used
    <2>1. PICK u \in Units :
             /\ helper.op \in {"undefine", "purge"} /\ helper.pc = "sent" /\ (helper.op = "undefine" => helper.u = u)
             /\ mountHalf' = [mountHalf EXCEPT ![u] = NoFile] /\ UNCHANGED autoHalf
             /\ helper' \in {Job(helper.op, "automount", u, NoFile), NoJob}
      BY <1>3 DEF UndefineMount, PurgeMount, Onward, Failed
    <2>2. mountHalf' \in [Units -> FileContent] /\ HelperHalves'
      BY <1>0, <2>1 DEF FileContent, HelperHalves, Job, NoJob
    <2>3. \A v \in Units : Halves(v)' \subseteq Halves(v) \cup {NoFile}
      BY <1>0, <2>1 DEF Halves
    <2> QED
      BY <1>0, <1>3, <2>1, <2>2, <2>3, HalvesShrink DEF Job, NoJob
  <1>4. CASE (UndefineAutomount \/ PurgeAutomount) /\ UNCHANGED used
    <2>1. /\ helper.op \in {"undefine", "purge"} /\ helper.pc = "automount" /\ helper.u \in Units
          /\ autoHalf' = [autoHalf EXCEPT ![helper.u] = NoFile] /\ UNCHANGED mountHalf
          /\ \/ helper.op = "undefine" /\ helper' \in {Job("undefine", "finish", helper.u, helper.id), NoJob}
             \/ helper.op = "purge" /\ helper' \in {Job("purge", "sent", NoUnit, NoFile), NoJob}
      BY <1>4 DEF UndefineAutomount, PurgeAutomount, Onward, Failed, HelperHalves
    <2>2. autoHalf' \in [Units -> FileContent] /\ HelperHalves'
      BY <1>0, <2>1 DEF FileContent, HelperHalves, Job, NoJob
    <2>3. \A v \in Units : Halves(v)' \subseteq Halves(v) \cup {NoFile}
      BY <1>0, <2>1 DEF Halves
    <2> QED
      BY <1>0, <1>4, <2>1, <2>2, <2>3, HalvesShrink DEF Job, NoJob
  <1>5. CASE TakeBack /\ UNCHANGED used
    <2>1. /\ helper.op = "define" /\ helper.pc = "failed" /\ helper' = helper
          /\ \/ autoHalf' = [autoHalf EXCEPT ![helper.u] = NoFile] /\ UNCHANGED mountHalf
             \/ mountHalf' = [mountHalf EXCEPT ![helper.u] = NoFile] /\ UNCHANGED autoHalf
      BY <1>5 DEF TakeBack
    <2>2. mountHalf' \in [Units -> FileContent] /\ autoHalf' \in [Units -> FileContent] /\ HelperHalves'
      BY <1>0, <2>1 DEF FileContent, HelperHalves
    <2>3. \A v \in Units : Halves(v)' \subseteq Halves(v) \cup {NoFile}
      BY <1>0, <2>1 DEF Halves
    <2> QED
      BY <1>0, <1>5, <2>1, <2>2, <2>3, HalvesShrink
  <1> QED
    BY <1>1, <1>2, <1>3, <1>4, <1>5

\* The helper begins, or writes or unlinks a half.
LEMMA HelperChangesStep ==
    ASSUME ClientInv, HelperChanges, UNCHANGED <<store, modelVars>>
    PROVE  ClientInv'
  <1> USE DEF ClientInv
  <1>1. /\ UNCHANGED <<store, refresh, display>> /\ unseen' \subseteq unseen \cup {"own", "other"}
        /\ worker \in [Workers -> Works]
    BY WorkTyped DEF HelperChanges, Unseen, modelVars, RecordsTyped
  <1>2. /\ mountHalf' \in [Units -> FileContent] /\ autoHalf' \in [Units -> FileContent]
        /\ used' \subseteq Ids /\ helper.pc # "idle"
        /\ helper' \in [op : {"none", "define", "undefine", "purge"},
                        pc : {"idle", "sent", "automount", "finish", "failed"},
                        u : Units \cup {NoUnit, Corrupt}, id : Ids \cup {NoFile}]
        /\ helper'.pc # "idle" => helper'.op = helper.op /\ (helper.op # "purge" => helper'.u = helper.u)
        /\ HelperHalves' /\ OneMountPoint'
    BY <1>1, HelperFiles DEF HelperChanges
  <1>3. /\ worker' \in [Workers -> Works] /\ \A v \in Workers : Leaves(v)
        /\ \/ caller' = Nobody
           \/ UNCHANGED <<worker, caller>> /\ helper'.pc # "idle"
    <2>1. CASE helper'.pc = "idle" /\ Answer("failure")
      BY <2>1, AnswerFailed
    <2>2. CASE helper'.pc # "idle" /\ UNCHANGED <<worker, caller>>
      BY <1>1, <2>2 DEF Leaves
    <2> QED
      BY <2>1, <2>2 DEF HelperChanges
  <1>4. ClientTypeOK'
    BY <1>1, <1>2, <1>3 DEF RecordsTyped, ClientTypeOK, Works
  <1>5. RecordsTyped' /\ RecordRows'
    BY <1>1, <1>4 DEF RecordsTyped, RecordRows
  <1>6. OneHolder' /\ WorkInHand' /\ Told'
    BY <1>1, <1>2, <1>3, LeavingWorkers, BusyTold
  <1>7. CallersCall'
    <2>1. CASE caller' = Nobody
      BY <2>1 DEF CallersCall
    <2>2. CASE UNCHANGED <<worker, caller>> /\ helper'.pc # "idle"
      BY <1>2, <2>2 DEF CallersCall
    <2> QED
      BY <1>3, <2>1, <2>2
  <1> QED
    BY <1>2, <1>5, <1>6, <1>7

\* Steps of the helper that change no file.
LEMMA HelperGoesOnStep ==
    ASSUME ClientInv, HelperGoesOn, UNCHANGED <<store, modelVars>>
    PROVE  ClientInv'
  <1> USE DEF ClientInv
  <1>1. /\ UNCHANGED <<mountHalf, autoHalf, used, store, refresh, display, unseen, worker, caller>>
        /\ worker \in [Workers -> Works]
    BY WorkTyped DEF HelperGoesOn, Fail, PurgeDone, modelVars, RecordsTyped
  <1>2. /\ helper.pc # "idle" /\ helper'.pc # "idle" /\ helper'.op = helper.op /\ (helper.op # "purge" => helper'.u = helper.u)
        /\ helper' \in {Job("define", "failed", helper.u, NoFile), Job("purge", "finish", NoUnit, NoFile)}
        /\ helper'.op = "purge" => \A u \in Units : ~Marked(u)
    BY DEF HelperGoesOn, Fail, Failed, PurgeDone, Job
  <1>3. ClientTypeOK'
    <2>1. helper' \in [op : {"none", "define", "undefine", "purge"},
                       pc : {"idle", "sent", "automount", "finish", "failed"},
                       u : Units \cup {NoUnit, Corrupt}, id : Ids \cup {NoFile}]
      BY <1>2 DEF Job, RecordsTyped, ClientTypeOK
    <2> QED
      BY <1>1, <2>1 DEF RecordsTyped, ClientTypeOK
  <1>4. RecordsTyped' /\ RecordRows' /\ OneHolder' /\ WorkInHand' /\ OneMountPoint'
    BY <1>1, <1>3 DEF RecordsTyped, RecordRows, OneHolder, HoldsUserLock, WorkInHand, OneMountPoint, Halves
  <1>5. CallersCall'
    BY <1>1, <1>2 DEF CallersCall
  <1>6. HelperHalves'
    BY <1>1, <1>2 DEF HelperHalves, Job, Marked
  <1>7. Told'
    BY <1>1, <1>2, BusyTold DEF Leaves
  <1> QED
    BY <1>4, <1>5, <1>6, <1>7

-------------------------------------------------------------------------------
(* The invariant, and what follows from it.                                *)

\* Before the first operation nobody holds the lock and no file is nasmount's.
LEMMA ClientInvInit == ClientInit => ClientInv
  <1> SUFFICES ASSUME ClientInit PROVE ClientInv
    OBVIOUS
  <1>1. worker = [w \in Workers |-> NoWork] /\ worker \in [Workers -> Works]
    BY StartsTyped DEF ClientInit
  <1>2. \A w \in Workers : worker[w].pc = "idle" /\ worker[w].op = "none"
    BY <1>1 DEF NoWork
  <1>3. \A u \in Units : mountHalf[u] \in {NoFile, Alien} /\ autoHalf[u] \in {NoFile, Alien}
    BY DEF ClientInit
  <1>4. \A u \in Units : Halves(u) \cap Ids = {}
    BY <1>3, ContentAssumption DEF Halves
  <1>5. ClientTypeOK
    <2>1. mountHalf \in [Units -> FileContent] /\ autoHalf \in [Units -> FileContent]
      BY DEF ClientInit, FileContent
    <2>2. used \subseteq Ids
      BY ClientAssumption DEF ClientInit
    <2>3. refresh \in Refreshes /\ display \in [rows : SUBSET Row, rt : RuntimeSnapshot]
      BY StartsTyped DEF ClientInit
    <2>4. helper = NoJob /\ caller = Nobody /\ unseen = {} /\ store \in [Ids -> Units \cup {NoRecord, Corrupt}]
      BY DEF ClientInit
    <2> QED
      BY <1>1, <2>1, <2>2, <2>3, <2>4 DEF ClientTypeOK, Works, NoJob, Job, Refreshes
  <1>6. RecordsTyped /\ RecordRows
    BY <1>5, StartsTyped DEF RecordsTyped, RecordRows, ClientInit, EmptyRefresh
  <1>7. OneHolder /\ WorkInHand /\ CallersCall /\ Told /\ HelperHalves
    BY <1>2 DEF OneHolder, HoldsUserLock, WorkInHand, CallersCall, Told, HelperHalves, ClientInit, NoJob, Job
  <1>8. OneMountPoint
    BY <1>4 DEF OneMountPoint, ClientInit
  <1> QED
    BY <1>6, <1>7, <1>8 DEF ClientInv

\* One step of the helper, of an operation, of the model or of a crash.
LEMMA ClientInvStep == ClientInv /\ [Next]_vars => ClientInv'
  <1> SUFFICES ASSUME ClientInv, [Next]_vars PROVE ClientInv'
    OBVIOUS
  <1>1. CASE Helper
    BY <1>1, HelperChangesStep, HelperGoesOnStep, HelperRepliesStep DEF Helper
  <1>2. CASE HelperCrash
    BY <1>2, HelperCrashStep
  <1>3. ASSUME NEW w \in Workers, Operate(w) PROVE ClientInv'
    <2>1. CASE AddShare(w) \/ CleanUp(w) \/ RemoveOrphanedRecord(w) \/ RemoveOrphanByPath(w) \/ DeleteConfirmed(w)
      BY <2>1, OperationsTakeLock, TakesLockStep DEF ClientInv
    <2> QED
      BY <1>3, <2>1, DeleteShareStep, GiveUpStep, CommitStep, FinishStep DEF Operate
  <1>4. ASSUME NEW d \in Dialogs, CrashDialog(d) PROVE ClientInv'
    BY <1>4, CrashDialogStep
  <1>5. CASE CrashKcm
    BY <1>5, CrashKcmStep
  <1>6. CASE Model
    <2>1. Model \/ (StartRefresh /\ UNCHANGED <<unitVars, store, actionVars>>)
      BY <1>6
    <2> QED
      BY <2>1, ModelStep
  <1>7. CASE UNCHANGED vars
    <2>1. UNCHANGED <<unitVars, store, actionVars, refresh, display, unseen>>
      BY <1>7 DEF vars, modelVars
    <2>2. /\ UNCHANGED <<mountHalf, autoHalf, used, helper, caller, worker, store, refresh, display>>
          /\ worker \in [Workers -> Works]
      BY <2>1, WorkTyped DEF unitVars, actionVars, ClientInv, RecordsTyped
    <2> QED
      BY <2>1, <2>2, LeavesStep DEF Leaves
  <1>8. CASE StartRefresh /\ UNCHANGED <<unitVars, store, actionVars>>
    BY <1>8, ModelStep
  <1> QED
    BY <1>1, <1>2, <1>3, <1>4, <1>5, <1>6, <1>7, <1>8 DEF Next

\* Client.ClientInv, for any accounts, shares and programs of the user.
THEOREM ClientInvariant == Spec => []ClientInv
  <1> QED
    BY ClientInvInit, ClientInvStep, PTL DEF Spec

\* Client.ClientTypeOK: every variable keeps the shape it is declared with.
THEOREM ClientTypes == Spec => []ClientTypeOK
  <1>1. ClientInv => ClientTypeOK
    BY DEF ClientInv, RecordsTyped
  <1> QED
    BY <1>1, ClientInvariant, PTL

\* Client.AddedIsRecorded: when an add is reported successful, the unit files
\* of its mount point are a pair with the id of the record just written.
THEOREM AddsAreRecorded == Spec => []AddedIsRecorded
  <1>1. ClientInv => AddedIsRecorded
    <2> SUFFICES ASSUME ClientInv, NEW w \in Workers,
                        worker[w].pc = "finish", worker[w].op = "add", worker[w].ok
                 PROVE  /\ store[worker[w].id] = worker[w].u
                        /\ Definition(worker[w].u) = "Pair" /\ IdOf(worker[w].u) = worker[w].id
      BY DEF AddedIsRecorded
    <2> DEFINE u == worker[w].u
               i == worker[w].id
    <2>1. DefinedAs(u, i) /\ store[i] = u
      BY DEF ClientInv, Told
    <2> HIDE DEF u, i
    <2>2. i \in Ids /\ mountHalf[u] = i /\ autoHalf[u] = i
      BY <2>1 DEF DefinedAs, Halves
    <2>3. Definition(u) = "Pair" /\ IdOf(u) = i
      BY <2>2, ContentAssumption DEF Definition, InspectDefinition, IdOf, MarkerId
    <2> QED
      BY <2>1, <2>3 DEF u, i
  <1> QED
    BY <1>1, ClientInvariant, PTL

\* Only what commits to the Store changes it.
LEMMA OnlyCommits ==
    ASSUME ClientInv, Next, store' # store
    PROVE  \E w \in Workers : Commit(w)
  <1>1. CASE Helper \/ HelperCrash \/ CrashKcm \/ \E d \in Dialogs : CrashDialog(d)
    BY <1>1 DEF Helper, HelperCrash, CrashKcm, CrashDialog
  <1>2. CASE Model \/ (StartRefresh /\ UNCHANGED <<unitVars, store, actionVars>>)
    BY <1>2 DEF Model, ReadUnits, ReadStore, InspectStored, ReadInventory, Deliver
  <1>3. ASSUME NEW w \in Workers, Operate(w) PROVE Commit(w)
    <2>1. CASE AddShare(w) \/ CleanUp(w) \/ RemoveOrphanedRecord(w) \/ RemoveOrphanByPath(w) \/ DeleteConfirmed(w)
      BY <2>1 DEF AddShare, CleanUp, RemoveOrphanedRecord, RemoveOrphanByPath, DeleteConfirmed, Begin
    <2>2. CASE DeleteShare(w) \/ GiveUp(w) \/ Finish(w)
      BY <2>2 DEF DeleteShare, GiveUp, Finish
    <2> QED
      BY <1>3, <2>1, <2>2 DEF Operate
  <1> QED
    BY <1>1, <1>2, <1>3 DEF Next

\* Client.RecordKeptWhileDefined: a delete or a cleanup drops a record only
\* when no unit file carries its id, whatever replies were lost.
THEOREM RecordsAreKept == Spec => RecordKeptWhileDefined
  <1> DEFINE Kept == \A w \in Workers, i \in Ids :
                        worker[w].op \in {"delete", "cleanup"} /\ worker[w].pc = "store" /\ store'[i] # store[i] =>
                            \A u \in Units : i \notin {mountHalf[u], autoHalf[u]}
  <1>1. ClientInv /\ [Next]_vars => [Kept]_vars
    <2> SUFFICES ASSUME ClientInv, Next, NEW w \in Workers, NEW i \in Ids,
                        worker[w].op \in {"delete", "cleanup"}, worker[w].pc = "store", store'[i] # store[i],
                        NEW u \in Units
                 PROVE  i \notin Halves(u)
      BY DEF Halves
    <2>1. PICK v \in Workers : Commit(v)
      BY OnlyCommits
    <2>2. v = w
      BY <2>1 DEF Commit, ClientInv, OneHolder, HoldsUserLock
    <2>3. CASE worker[w].op = "delete"
      <3>1. store' = [store EXCEPT ![worker[w].id] = NoRecord] \/ store' = store
        BY <2>1, <2>2, <2>3 DEF Commit
      <3>2. store \in [Ids -> Units \cup {NoRecord, Corrupt}]
        BY DEF ClientInv, RecordsTyped, ClientTypeOK
      <3>3. i = worker[w].id
        BY <3>1, <3>2
      <3> QED
        BY <2>3, <3>3 DEF ClientInv, Told
    <2>4. CASE worker[w].op = "cleanup"
      BY <2>4 DEF ClientInv, Told, Marked, Halves
    <2> QED
      BY <2>3, <2>4
  <1>2. Spec => [][Kept]_vars
    BY <1>1, ClientInvariant, PTL DEF Spec
  <1> QED
    BY <1>2 DEF RecordKeptWhileDefined

-------------------------------------------------------------------------------
(* What the settings module has not shown yet.                             *)

\* While no operation of the settings module comes to an end, nothing of its
\* own goes unseen without it.
LEMMA KcmsBusy ==
    ASSUME OwnEffectsShown,
           \A k \in Kcms : worker[k].pc # "idle" => worker'[k].pc # "idle",
           "own" \in unseen' => "own" \in unseen \/ \E k \in Kcms : worker'[k].pc # "idle"
    PROVE  OwnEffectsShown'
  BY DEF OwnEffectsShown

\* No step hides what the settings module did.
LEMMA OwnEffectsStep == ClientInv /\ OwnEffectsShown /\ [Next]_vars => OwnEffectsShown'
  <1> SUFFICES ASSUME ClientInv, OwnEffectsShown, [Next]_vars PROVE OwnEffectsShown'
    OBVIOUS
  <1>0. Kcms \subseteq Workers /\ Kcms \cap Dialogs = {} /\ worker \in [Workers -> Works]
    BY ClientAssumption, WorkTyped DEF Workers, ClientInv, RecordsTyped
  <1>1. CASE UNCHANGED <<worker, unseen>>
    BY <1>1 DEF OwnEffectsShown
  <1>2. CASE unseen' = {}
    BY <1>2 DEF OwnEffectsShown
  <1>3. CASE HelperChanges
    <2>1. CASE UNCHANGED <<worker, caller>>
      <3>1. caller \in Kcms => worker'[caller].pc # "idle"
        BY <1>0, <2>1, ClientAssumption DEF ClientInv, CallersCall
      <3> QED
        BY <1>3, <2>1, <3>1, KcmsBusy DEF HelperChanges, Unseen
    <2>2. CASE Answer("failure")
      <3>1. \A k \in Kcms : /\ worker[k].pc # "idle" => worker'[k].pc # "idle"
                            /\ k = caller => worker'[k].pc # "idle"
        <4> TAKE k \in Kcms
        <4>1. CASE k # caller
          BY <1>0, <2>2, <4>1 DEF Answer
        <4>2. CASE k = caller
          <5>1. worker[k].pc = "wait" /\ worker[k] \in Works /\ worker[k].op # "cleanup"
            BY <1>0, <4>2, ClientAssumption DEF ClientInv, CallersCall, WorkInHand
          <5>2. worker'[k] = Ended(worker[k], FALSE)
            BY <1>0, <2>2, <4>2, <5>1, AnsweredWork DEF Answer
          <5> QED
            BY <5>1, <5>2, EndedWork
        <4> QED
          BY <4>1, <4>2
      <3> QED
        BY <1>3, <3>1, KcmsBusy DEF HelperChanges, Unseen
    <2> QED
      BY <1>3, <2>1, <2>2 DEF HelperChanges
  <1>4. CASE HelperReplies
    <2>1. PICK outcome \in {"success", "failure"} : Answer(outcome) /\ unseen' = unseen
      BY <1>4 DEF HelperReplies
    <2>2. ASSUME NEW k \in Kcms, worker[k].pc # "idle" PROVE worker'[k].pc # "idle"
      <3>1. CASE k # caller
        BY <1>0, <2>1, <2>2, <3>1 DEF Answer
      <3>2. CASE k = caller
        <4> DEFINE told == IF helper.op = "define" /\ outcome = "success"
                           THEN [worker[k] EXCEPT !.id = helper.id] ELSE worker[k]
        <4>1. worker[k] \in Works /\ worker[k].op # "cleanup" /\ helper.id \in Ids \cup {NoFile}
          BY <1>0 DEF ClientInv, WorkInHand, RecordsTyped, ClientTypeOK
        <4>2. told \in Works /\ told.op # "cleanup"
          BY <4>1 DEF Works
        <4>3. worker'[k] = Answered(told, outcome)
          BY <1>0, <2>1, <3>2 DEF Answer
        <4> HIDE DEF told
        <4>4. worker'[k] \in {[told EXCEPT !.pc = "store"], Ended(told, outcome = "success")}
          BY <4>2, <4>3, AnsweredWork
        <4>5. [told EXCEPT !.pc = "store"].pc = "store"
          BY <4>2 DEF Works
        <4>6. Ended(told, outcome = "success").pc = "finish"
          BY <4>2, EndedWork
        <4> QED
          BY <4>4, <4>5, <4>6
      <3> QED
        BY <3>1, <3>2
    <2> QED
      BY <2>1, <2>2, KcmsBusy
  <1>5. CASE HelperGoesOn \/ HelperCrash \/ Model
    <2>1. UNCHANGED <<worker, unseen>>
      BY <1>5 DEF HelperGoesOn, HelperCrash, Model, ReadUnits, ReadStore, InspectStored, ReadInventory, Deliver, actionVars
    <2> QED
      BY <1>1, <2>1
  <1>6. ASSUME NEW w \in Workers, TakesLock(w) PROVE OwnEffectsShown'
    <2>1. w \in Kcms => worker'[w].pc # "idle"
      <3>1. ASSUME w \in Kcms, NEW work \in Works, work.op = "cleanup" => w \in Dialogs
            PROVE  Ended(work, FALSE).pc # "idle"
        BY <1>0, <3>1, EndedWork
      <3>2. \A work \in Works : [work EXCEPT !.pc = "wait"].pc = "wait" /\ [work EXCEPT !.pc = "store"].pc = "store"
        BY DEF Works
      <3> QED
        BY <1>0, <1>6, <3>1, <3>2 DEF TakesLock
    <2>2. \A k \in Kcms \ {w} : worker'[k] = worker[k]
      BY <1>0, <1>6 DEF TakesLock
    <2>3. unseen' = unseen
      BY <1>6 DEF TakesLock
    <2> QED
      BY <2>1, <2>2, <2>3, KcmsBusy
  <1>7. ASSUME NEW w \in Workers, DeleteShare(w) PROVE OwnEffectsShown'
    <2>1. PICK i : worker' = [worker EXCEPT ![w] = [NoWork EXCEPT !.op = "delete", !.pc = "lock", !.id = i]]
      BY <1>7 DEF DeleteShare
    <2>2. [NoWork EXCEPT !.op = "delete", !.pc = "lock", !.id = i].pc = "lock"
      BY DEF NoWork
    <2>3. unseen' = unseen
      BY <1>7 DEF DeleteShare
    <2> QED
      BY <1>0, <2>1, <2>2, <2>3, KcmsBusy
  <1>8. ASSUME NEW w \in Workers, GiveUp(w) \/ Commit(w) PROVE OwnEffectsShown'
    <2>1. PICK ok \in BOOLEAN : worker' = [worker EXCEPT ![w] = Ended(worker[w], ok)]
      <3>1. Answered(worker[w], "unknown") = Ended(worker[w], FALSE)
        BY <1>0, AnsweredWork
      <3> QED
        BY <1>8, <3>1 DEF GiveUp, Commit, EndWith
    <2>2. w \in Kcms => worker'[w].pc = "finish"
      <3> SUFFICES ASSUME w \in Kcms PROVE worker'[w].pc = "finish"
        OBVIOUS
      <3>1. worker[w] \in Works /\ worker[w].op # "cleanup"
        BY <1>0 DEF ClientInv, WorkInHand
      <3> QED
        BY <1>0, <2>1, <3>1, EndedWork
    <2>3. \A k \in Kcms \ {w} : worker'[k] = worker[k]
      BY <1>0, <2>1
    <2>4. "own" \in unseen' => "own" \in unseen \/ w \in Kcms
      <3>1. unseen' = unseen \/ Unseen(w)
        BY <1>8 DEF GiveUp, Commit
      <3> QED
        BY <3>1 DEF Unseen
    <2> QED
      BY <2>2, <2>3, <2>4, KcmsBusy
  <1>9. ASSUME NEW w \in Workers, Finish(w) \/ (w \in Dialogs /\ CrashDialog(w)) PROVE OwnEffectsShown'
    <2>1. CASE w \in Kcms
      BY <1>0, <1>2, <1>9, <2>1 DEF Finish, StartRefresh
    <2>2. CASE w \notin Kcms
      <3>1. worker' = [worker EXCEPT ![w] = NoWork] /\ unseen' = unseen
        BY <1>9, <2>2 DEF Finish, CrashDialog
      <3>2. \A k \in Kcms : worker'[k] = worker[k]
        BY <1>0, <2>2, <3>1
      <3> QED
        BY <3>1, <3>2, KcmsBusy
    <2> QED
      BY <2>1, <2>2
  <1>10. CASE CrashKcm \/ StartRefresh
    BY <1>2, <1>10 DEF CrashKcm, StartRefresh
  <1>11. CASE Helper
    BY <1>3, <1>4, <1>5, <1>11 DEF Helper
  <1>12. ASSUME NEW w \in Workers, Operate(w) PROVE OwnEffectsShown'
    <2>1. CASE AddShare(w) \/ CleanUp(w) \/ RemoveOrphanedRecord(w) \/ RemoveOrphanByPath(w) \/ DeleteConfirmed(w)
      BY <1>6, <2>1, OperationsTakeLock DEF ClientInv
    <2> QED
      BY <1>7, <1>8, <1>9, <1>12, <2>1 DEF Operate
  <1>13. ASSUME NEW d \in Dialogs, CrashDialog(d) PROVE OwnEffectsShown'
    BY <1>9, <1>13 DEF Workers
  <1>14. CASE UNCHANGED vars
    BY <1>1, <1>14 DEF vars, actionVars
  <1> QED
    BY <1>5, <1>10, <1>11, <1>12, <1>13, <1>14 DEF Next

\* Client.OwnEffectsShown: once the settings module's own operations are over
\* nothing they did is missing from its rows, or from the refresh under way.
THEOREM OwnEffectsAreShown == Spec => []OwnEffectsShown
  <1>1. ClientInit => OwnEffectsShown
    BY DEF ClientInit, OwnEffectsShown
  <1> QED
    BY <1>1, OwnEffectsStep, ClientInvariant, PTL DEF Spec

-------------------------------------------------------------------------------
(* The rows of a refresh that nothing has disturbed since it began.        *)

\* A mount point with a managed half has an owned definition: a define goes
\* over nothing, and both its halves have one id.
MarkedIsManaged == \A u \in Units : Marked(u) => Managed(u)

\* No definition leads to the record's id.
Unclaimed(i) == \A v \in Units : Marked(v) => IdOf(v) # i

\* The row of a definition, before and after its record is looked up.
ScannedRow(r, rt) ==
    /\ r.u \in Units /\ Marked(r.u) /\ r.id = IdOf(r.u) /\ r.def = Definition(r.u)
    /\ ~r.record /\ ~r.corrupt /\ ~r.drift /\ r.offers = ClassifyRow(r, rt)

UnitRow(r, rt) ==
    /\ r.u \in Units /\ Marked(r.u) /\ r.id = IdOf(r.u) /\ r.def = Definition(r.u)
    /\ r.record = (store[r.id] # NoRecord)
    /\ r.corrupt = (store[r.id] = Corrupt)
    /\ r.drift = (store[r.id] \notin {NoRecord, Corrupt, r.u})
    /\ r.offers = ClassifyRow(r, rt)

\* The row of a record that leads to no definition of its own.
RecordRow(r) ==
    /\ r.record /\ r.id \in Ids /\ store[r.id] # NoRecord /\ Unclaimed(r.id)
    /\ "record" \in r.offers /\ "definition" \notin r.offers

\* Every definition and every record, but for the records still to be looked
\* into, has its row; and there are no other rows.
TrueRows(rows, rt, todo) ==
    /\ \A r \in rows : UnitRow(r, rt) \/ RecordRow(r)
    /\ \A u \in Units : Marked(u) => \E r \in rows : UnitRow(r, rt) /\ r.u = u
    /\ \A i \in Ids : store[i] # NoRecord => <<i, store[i]>> \in todo \/ \E r \in rows : r.id = i /\ r.record
    /\ \A job \in todo : job[1] \in Ids /\ job[2] = store[job[1]] /\ job[2] # NoRecord /\ Unclaimed(job[1])

Undisturbed ==
    unseen = {} =>
        /\ refresh.pc = "store" => /\ \A r \in refresh.rows : ScannedRow(r, refresh.rt)
                                   /\ \A u \in Units : Marked(u) => \E r \in refresh.rows : r.u = u
        /\ refresh.pc \in {"inspect", "done"} => TrueRows(refresh.rows, refresh.rt, refresh.todo)
        /\ refresh.pc = "done" => refresh.todo = {}
        /\ refresh.pc = "idle" => TrueRows(display.rows, display.rt, {})

RowsInv == ClientInv /\ MarkedIsManaged /\ Undisturbed

\* The two halves of a definition have one id between them.
OneId(u) == \E i \in Ids : i \in Halves(u) /\ Halves(u) \subseteq {i, NoFile}

\* That is what makes a marked definition an owned one.
LEMMA ManagedHasOneId == ASSUME ClientTypeOK, NEW u \in Units, Marked(u) PROVE Managed(u) <=> OneId(u)
  <1>1. mountHalf[u] \in FileContent /\ autoHalf[u] \in FileContent
    BY DEF ClientTypeOK
  <1> QED
    BY <1>1, ContentAssumption DEF Marked, Managed, Definition, InspectDefinition, OneId, Halves, FileContent

\* A half a define puts down is alone or has its id already; everything else
\* takes halves away.
LEMMA HalvesChange ==
    ASSUME ClientInv, HelperChanges, NEW u \in Units
    PROVE  \/ Halves(u)' \subseteq Halves(u) \cup {NoFile}
           \/ \E i \in Ids : i \in Halves(u)' /\ Halves(u)' \subseteq {i, NoFile}
  <1>1. mountHalf \in [Units -> FileContent] /\ autoHalf \in [Units -> FileContent]
    BY DEF ClientInv, RecordsTyped, ClientTypeOK
  <1>2. CASE HelperDefineMount
    <2>1. PICK i \in Ids : DefineMount(i)
      BY <1>2 DEF HelperDefineMount
    <2>2. /\ Definition(helper.u) = "None" /\ UNCHANGED autoHalf
          /\ mountHalf' = [mountHalf EXCEPT ![helper.u] = i]
      BY <2>1 DEF DefineMount
    <2>3. CASE u = helper.u
      <3>1. mountHalf'[u] = i /\ autoHalf'[u] = autoHalf[u] /\ autoHalf[u] = NoFile
        BY <1>1, <2>2, <2>3 DEF Definition, InspectDefinition
      <3> QED
        BY <3>1 DEF Halves
    <2>4. CASE u # helper.u
      BY <1>1, <2>2, <2>4 DEF Halves
    <2> QED
      BY <2>3, <2>4
  <1>3. CASE DefineAutomount
    <2>1. /\ mountHalf[helper.u] = helper.id /\ UNCHANGED mountHalf
          /\ autoHalf' = [autoHalf EXCEPT ![helper.u] = helper.id]
      BY <1>3 DEF DefineAutomount, ClientInv, HelperHalves
    <2> QED
      BY <1>1, <2>1 DEF Halves
  <1>4. CASE UndefineMount \/ \E v \in Units : PurgeMount(v)
    BY <1>1, <1>4 DEF UndefineMount, PurgeMount, Halves
  <1>5. CASE UndefineAutomount \/ PurgeAutomount
    BY <1>1, <1>5 DEF UndefineAutomount, PurgeAutomount, Halves
  <1>6. CASE TakeBack
    BY <1>1, <1>6 DEF TakeBack, Halves
  <1> QED
    BY <1>2, <1>3, <1>4, <1>5, <1>6 DEF HelperChanges

\* Steps that are not the model's leave everything a refresh reads alone, or
\* are noted, or begin another refresh.
LEMMA Disturbs ==
    ASSUME ClientInv, [Next]_vars, ~Model
    PROVE  \/ unseen' # {} /\ HelperChanges
           \/ unseen' # {} /\ UNCHANGED <<mountHalf, autoHalf>>
           \/ refresh'.pc = "units" /\ UNCHANGED <<mountHalf, autoHalf>>
           \/ UNCHANGED <<mountHalf, autoHalf, store, refresh, display, unseen>>
  <1>1. CASE Helper
    BY <1>1 DEF Helper, HelperChanges, HelperGoesOn, HelperReplies, Unseen, End, Fail, PurgeDone, modelVars
  <1>2. CASE HelperCrash
    BY <1>2 DEF HelperCrash, End, modelVars
  <1>3. ASSUME NEW w \in Workers, Operate(w)
        PROVE  \/ unseen' # {} /\ UNCHANGED <<mountHalf, autoHalf>>
               \/ refresh'.pc = "units" /\ UNCHANGED <<mountHalf, autoHalf>>
               \/ UNCHANGED <<mountHalf, autoHalf, store, refresh, display, unseen>>
    <2>1. CASE AddShare(w) \/ CleanUp(w) \/ RemoveOrphanedRecord(w) \/ RemoveOrphanByPath(w) \/ DeleteConfirmed(w)
      BY <2>1 DEF AddShare, CleanUp, RemoveOrphanedRecord, RemoveOrphanByPath, DeleteConfirmed, Begin, unitVars, modelVars
    <2>2. CASE DeleteShare(w) \/ GiveUp(w)
      BY <2>2 DEF DeleteShare, GiveUp, unitVars, modelVars
    <2>3. CASE Finish(w)
      BY <2>3 DEF Finish, StartRefresh, EmptyRefresh, unitVars, modelVars
    <2>4. CASE Commit(w)
      <3>1. Unseen(w) /\ UNCHANGED <<mountHalf, autoHalf>>
        BY <2>4 DEF Commit, unitVars
      <3> QED
        BY <3>1 DEF Unseen
    <2> QED
      BY <1>3, <2>1, <2>2, <2>3, <2>4 DEF Operate
  <1>4. CASE CrashKcm \/ \E d \in Dialogs : CrashDialog(d)
    <2>1. CASE CrashKcm
      BY <2>1 DEF CrashKcm, EmptyRefresh, unitVars
    <2>2. ASSUME NEW d \in Dialogs, CrashDialog(d)
          PROVE  UNCHANGED <<mountHalf, autoHalf, store, refresh, display, unseen>>
      BY <2>2 DEF CrashDialog, unitVars, modelVars
    <2> QED
      BY <1>4, <2>1, <2>2
  <1>5. CASE StartRefresh /\ UNCHANGED <<unitVars, store, actionVars>>
    BY <1>5 DEF StartRefresh, EmptyRefresh, unitVars
  <1>6. CASE UNCHANGED vars
    BY <1>6 DEF vars, unitVars, modelVars
  <1> QED
    BY <1>1, <1>2, <1>3, <1>4, <1>5, <1>6 DEF Next

\* MountModel::refresh and the delivery of its rows only read.
LEMMA ModelReadsOnly ==
    ASSUME Model
    PROVE  UNCHANGED <<mountHalf, autoHalf, store, unseen>>
  BY DEF Model, ReadUnits, ReadStore, InspectStored, ReadInventory, Deliver, unitVars

\* What carries a marker stays a pair or a part of one.
LEMMA MarkedIsManagedStep == ASSUME ClientInv, ClientTypeOK', MarkedIsManaged, [Next]_vars PROVE MarkedIsManaged'
  <1>1. CASE UNCHANGED <<mountHalf, autoHalf>>
    BY <1>1 DEF MarkedIsManaged, Marked, Managed, Definition
  <1>2. CASE HelperChanges
    <2> SUFFICES ASSUME NEW u \in Units, Marked(u)' PROVE Managed(u)'
      BY DEF MarkedIsManaged
    <2>1. OneId(u)'
      <3>1. CASE \E i \in Ids : i \in Halves(u)' /\ Halves(u)' \subseteq {i, NoFile}
        BY <3>1 DEF OneId, Halves
      <3>2. CASE Halves(u)' \subseteq Halves(u) \cup {NoFile}
        <4>1. PICK i \in Ids : i \in Halves(u)'
          BY DEF Marked, Halves
        <4>2. i \in Halves(u)
          BY <3>2, <4>1, ContentAssumption
        <4>3. OneId(u)
          BY <4>2, ManagedHasOneId DEF MarkedIsManaged, Marked, Halves, ClientInv, RecordsTyped
        <4>4. Halves(u) \subseteq {i, NoFile}
          BY <4>2, <4>3, ContentAssumption DEF OneId
        <4> QED
          BY <3>2, <4>1, <4>4 DEF OneId, Halves
      <3> QED
        BY <1>2, <3>1, <3>2, HalvesChange
    <2>2. mountHalf'[u] \in FileContent /\ autoHalf'[u] \in FileContent
      BY DEF ClientTypeOK
    <2> QED
      BY <2>1, <2>2, ContentAssumption DEF Managed, Definition, InspectDefinition, OneId, Halves, FileContent
  <1> QED
    BY <1>1, <1>2, Disturbs, ModelReadsOnly

\* The scan of the unit files finds every definition, and as what it is.
LEMMA ScansWhatIsThere ==
    ASSUME ClientInv, MarkedIsManaged
    PROVE  PairScannedHalves = {[def |-> Definition(u), id |-> IdOf(u), u |-> u] : u \in {v \in Units : Marked(v)}}
  <1> DEFINE halves(u)  == {mountHalf[u], autoHalf[u]}
             claimed(u) == \E v \in Units \ {u} : halves(u) \cap halves(v) \cap Ids # {}
             two(u)     == Cardinality(halves(u) \cap Ids) = 2
             state(u)   == IF two(u) \/ claimed(u) THEN "Tampered"
                           ELSE IF Cardinality(halves(u)) = 1 THEN "Pair" ELSE "Partial"
             scanned(u) == [def |-> state(u), id |-> IF state(u) = "Tampered" THEN NoFile ELSE IdOf(u),
                            u |-> IF two(u) THEN NoUnit ELSE u]
  <1>1. PairScannedHalves = {scanned(u) : u \in {v \in Units : Marked(v)}}
    BY ZenonT(30) DEF PairScannedHalves
  <1>2. ASSUME NEW u \in Units, Marked(u)
        PROVE  ~two(u) /\ ~claimed(u) /\ state(u) = Definition(u)
    <2>1. PICK i \in Ids : i \in halves(u) /\ halves(u) \subseteq {i, NoFile}
      BY <1>2, ManagedHasOneId DEF MarkedIsManaged, OneId, Halves, ClientInv, RecordsTyped
    <2>2. halves(u) \cap Ids = {i} /\ i # NoFile
      BY <2>1, ContentAssumption
    <2>3. ~two(u)
      BY <2>2, FS_Singleton
    <2>4. ~claimed(u)
      BY <2>1, <2>2 DEF ClientInv, OneMountPoint, Halves
    <2>5. (Cardinality(halves(u)) = 1) <=> (mountHalf[u] = autoHalf[u])
      <3>1. CASE mountHalf[u] = autoHalf[u]
        <4>1. halves(u) = {mountHalf[u]}
          BY <3>1
        <4> QED
          BY <3>1, <4>1, FS_Singleton
      <3>2. CASE mountHalf[u] # autoHalf[u]
        <4>1. SUFFICES ASSUME Cardinality(halves(u)) = 1 PROVE FALSE
          BY <3>2
        <4>2. IsFiniteSet({mountHalf[u]})
          BY FS_Singleton
        <4>3. halves(u) = {mountHalf[u]} \cup {autoHalf[u]}
          OBVIOUS
        <4>4. IsFiniteSet(halves(u))
          BY <4>2, <4>3, FS_AddElement
        <4>5. \E x : halves(u) = {x}
          BY <4>1, <4>4, FS_Singleton
        <4> QED
          BY <3>2, <4>5
      <3> QED
        BY <3>1, <3>2
    <2> HIDE DEF two, claimed
    <2>6. Definition(u) = IF mountHalf[u] = autoHalf[u] THEN "Pair" ELSE "Partial"
      BY <2>1, <2>2, ContentAssumption DEF Definition, InspectDefinition
    <2> QED
      BY <2>3, <2>4, <2>5, <2>6
  <1>3. ASSUME NEW u \in Units, Marked(u)
        PROVE  scanned(u) = [def |-> Definition(u), id |-> IdOf(u), u |-> u]
    <2>1. ~two(u) /\ state(u) = Definition(u) /\ Definition(u) # "Tampered"
      BY <1>2, <1>3 DEF MarkedIsManaged, Managed
    <2> HIDE DEF two, state
    <2> QED
      BY <2>1
  <1> HIDE DEF scanned
  <1> QED
    BY <1>1, <1>3

\* What is true of rows stays true while nothing they were read from changes.
LEMMA StillTrue ==
    ASSUME UNCHANGED <<mountHalf, autoHalf, store>>
    PROVE  /\ TrueRows(refresh'.rows, refresh'.rt, refresh'.todo) => TrueRows(refresh.rows, refresh.rt, refresh.todo)'
           /\ TrueRows(display'.rows, display'.rt, {}) => TrueRows(display.rows, display.rt, {})'
           /\ (\A r \in refresh'.rows : ScannedRow(r, refresh'.rt)) => (\A r \in refresh.rows : ScannedRow(r, refresh.rt))'
  BY DEF TrueRows, UnitRow, RecordRow, ScannedRow, Unclaimed, Marked, IdOf, Definition

\* What a row offers depends on no more than this; and for a definition that
\* is ours, the record counts only when it disagrees, the runtime only when not.
LEMMA ClassifyOwned ==
    ASSUME NEW row \in Row, NEW other \in Row, NEW rt, NEW rt2, row.def \in {"Pair", "Partial"},
           other.def = row.def, other.drift = row.drift, other.corrupt = row.corrupt,
           row.drift \/ row.corrupt \/ rt = rt2
    PROVE  ClassifyRow(row, rt) = ClassifyRow(other, rt2)
  <1>1. CASE row.drift \/ row.corrupt
    BY <1>1 DEF ClassifyRow, Row
  <1>2. CASE rt = rt2
    BY <1>2 DEF ClassifyRow
  <1> QED
    BY <1>1, <1>2

\* The id of a definition.
LEMMA IdOfMarked == ASSUME NEW u \in Units, Marked(u) PROVE IdOf(u) \in Ids /\ IdOf(u) # NoFile
  BY ContentAssumption DEF Marked, IdOf, MarkerId

\* The first read: a row for every definition, classified by what was seen.
LEMMA ReadUnitsTrue ==
    ASSUME RowsInv, ReadUnits
    PROVE  /\ refresh'.pc = "store" /\ \A r \in refresh'.rows : ScannedRow(r, refresh'.rt)
           /\ \A u \in Units : Marked(u) => \E r \in refresh'.rows : r.u = u
  <1> DEFINE base(u)    == [NewRow(IdOf(u), u) EXCEPT !.def = Definition(u)]
             row(u, rt) == Classified(base(u), rt)
  <1>1. PICK rt \in Runtimes :
          refresh' = [refresh EXCEPT !.pc = "store", !.rt = rt,
             !.rows = {Classified([NewRow(unit.id, unit.u) EXCEPT !.def = unit.def], rt) : unit \in PairScannedHalves}]
    BY DEF ReadUnits
  <1>2. refresh'.pc = "store" /\ refresh'.rt = rt
        /\ refresh'.rows = {Classified([NewRow(unit.id, unit.u) EXCEPT !.def = unit.def], rt) : unit \in PairScannedHalves}
    BY <1>1 DEF RowsInv, ClientInv, RecordsTyped, Refreshes
  <1>3. refresh'.rows = {row(u, rt) : u \in {v \in Units : Marked(v)}}
    <2> DEFINE found(u)   == [def |-> Definition(u), id |-> IdOf(u), u |-> u]
               new(unit) == Classified([NewRow(unit.id, unit.u) EXCEPT !.def = unit.def], rt)
    <2>1. PairScannedHalves = {found(u) : u \in {v \in Units : Marked(v)}}
      BY ScansWhatIsThere DEF RowsInv
    <2>2. \A u : found(u).def = Definition(u) /\ found(u).id = IdOf(u) /\ found(u).u = u
      OBVIOUS
    <2> HIDE DEF found
    <2>3. \A u : new(found(u)) = row(u, rt)
      BY <2>2
    <2>4. refresh'.rows = {new(unit) : unit \in PairScannedHalves}
      BY <1>2
    <2> HIDE DEF new, row
    <2> QED
      BY <2>1, <2>3, <2>4
  <1>4. ASSUME NEW u \in Units, Marked(u) PROVE ScannedRow(row(u, rt), rt) /\ row(u, rt).u = u
    <2>1. /\ base(u) \in Row /\ base(u).id = IdOf(u) /\ base(u).u = u /\ base(u).def = Definition(u)
          /\ base(u).record = FALSE /\ base(u).corrupt = FALSE /\ base(u).drift = FALSE
      <3>1. /\ NewRow(IdOf(u), u) \in Row /\ NewRow(IdOf(u), u).id = IdOf(u) /\ NewRow(IdOf(u), u).u = u
            /\ NewRow(IdOf(u), u).record = FALSE /\ NewRow(IdOf(u), u).corrupt = FALSE
            /\ NewRow(IdOf(u), u).drift = FALSE
        BY <1>4, IdOfMarked, NewRows DEF NewRow
      <3>2. Definition(u) \in Definitions
        BY DefinitionTyped
      <3> QED
        BY <3>1, <3>2 DEF Row
    <2> HIDE DEF base
    <2>2. /\ row(u, rt) \in Row /\ row(u, rt).id = IdOf(u) /\ row(u, rt).u = u /\ row(u, rt).def = Definition(u)
          /\ row(u, rt).record = FALSE /\ row(u, rt).corrupt = FALSE /\ row(u, rt).drift = FALSE
          /\ row(u, rt).offers = ClassifyRow(base(u), rt)
      BY <2>1, ClassifiedRow
    <2>3. Definition(u) \in {"Pair", "Partial"}
      BY <1>4 DEF RowsInv, MarkedIsManaged, Managed
    <2> DEFINE b == base(u)
               r == row(u, rt)
    <2>4. /\ b \in Row /\ r \in Row /\ b.def \in {"Pair", "Partial"} /\ r.def = b.def
          /\ r.drift = b.drift /\ r.corrupt = b.corrupt
      BY <2>1, <2>2, <2>3
    <2> HIDE DEF b, r
    <2>5. ClassifyRow(b, rt) = ClassifyRow(r, rt)
      BY <2>4, ClassifyOwned
    <2> USE DEF b, r
    <2> HIDE DEF row
    <2> QED
      BY <1>4, <2>2, <2>5 DEF ScannedRow
  <1> HIDE DEF row
  <1> QED
    BY <1>2, <1>3, <1>4

\* The second: records are merged by id, the rest is left to be inspected.
LEMMA ReadStoreTrue ==
    ASSUME RowsInv, ReadStore, unseen = {}
    PROVE  refresh'.pc = "inspect" /\ TrueRows(refresh'.rows, refresh'.rt, refresh'.todo)
  <1> DEFINE with(row) == [row EXCEPT !.record = TRUE, !.corrupt = store[row.id] = Corrupt,
                                      !.drift = store[row.id] \notin {Corrupt, row.u}]
             merged(row) == IF row.id = NoFile \/ store[row.id] = NoRecord THEN row
                            ELSE LET r == with(row)
                                 IN  IF r.corrupt \/ r.drift THEN Classified(r, NoSnapshot) ELSE r
             rest == {<<i, store[i]>> : i \in {j \in Ids : store[j] # NoRecord} \ {row.id : row \in refresh.rows}}
             rt   == refresh.rt
  <1>1. refresh' = [refresh EXCEPT !.pc = "inspect", !.rows = {merged(row) : row \in refresh.rows}, !.todo = rest]
    BY DEF ReadStore, RowsInv, ClientInv, RecordsTyped, Refreshes
  <1>2. /\ refresh'.pc = "inspect" /\ refresh'.rt = rt /\ refresh'.todo = rest
        /\ refresh'.rows = {merged(row) : row \in refresh.rows}
    BY <1>1 DEF RowsInv, ClientInv, RecordsTyped, Refreshes
  <1>3. /\ \A r \in refresh.rows : r \in Row /\ ScannedRow(r, rt)
        /\ \A u \in Units : Marked(u) => \E r \in refresh.rows : r.u = u
    BY DEF ReadStore, RowsInv, Undisturbed, ClientInv, RecordsTyped, Refreshes
  <1>4. ASSUME NEW row \in refresh.rows
        PROVE  UnitRow(merged(row), rt) /\ merged(row).u = row.u /\ merged(row).id = row.id
    <2>1. /\ row \in Row /\ row.u \in Units /\ Marked(row.u) /\ row.id = IdOf(row.u) /\ row.def = Definition(row.u)
          /\ row.record = FALSE /\ row.corrupt = FALSE /\ row.drift = FALSE /\ row.offers = ClassifyRow(row, rt)
      BY <1>3 DEF ScannedRow, Row
    <2>2. /\ row.id \in Ids /\ row.id # NoFile /\ row.def \in {"Pair", "Partial"}
          /\ store[row.id] \in Units \cup {NoRecord, Corrupt}
      BY <2>1, IdOfMarked, StoreTyped DEF RowsInv, ClientInv, MarkedIsManaged, Managed
    <2>3. NoRecord # Corrupt
      BY DEF NoRecord, Corrupt
    <2>4. CASE store[row.id] = NoRecord
      BY <2>1, <2>2, <2>3, <2>4 DEF UnitRow
    <2>5. CASE store[row.id] # NoRecord
      <3>1. /\ with(row) \in Row /\ with(row).u = row.u /\ with(row).id = row.id /\ with(row).def = row.def
            /\ with(row).record = TRUE /\ with(row).corrupt = (store[row.id] = Corrupt)
            /\ with(row).drift = (store[row.id] \notin {Corrupt, row.u}) /\ with(row).offers = row.offers
        BY <2>1 DEF Row
      <3>2. merged(row) = IF with(row).corrupt \/ with(row).drift THEN Classified(with(row), NoSnapshot) ELSE with(row)
        BY <2>2, <2>5
      <3> HIDE DEF with, merged
      <3>3. CASE with(row).corrupt \/ with(row).drift
        <4>1. merged(row) = Classified(with(row), NoSnapshot)
          BY <3>2, <3>3
        <4>2. /\ merged(row) \in Row /\ merged(row).id = row.id /\ merged(row).u = row.u /\ merged(row).def = row.def
              /\ merged(row).record = TRUE /\ merged(row).corrupt = with(row).corrupt
              /\ merged(row).drift = with(row).drift /\ merged(row).offers = ClassifyRow(with(row), NoSnapshot)
          BY <3>1, <4>1, ClassifiedRow
        <4>3. ClassifyRow(with(row), NoSnapshot) = ClassifyRow(merged(row), rt)
          BY <2>2, <3>1, <3>3, <4>2, ClassifyOwned
        <4> QED
          BY <2>1, <2>5, <3>1, <4>2, <4>3 DEF UnitRow
      <3>4. CASE ~(with(row).corrupt \/ with(row).drift)
        <4>1. merged(row) = with(row)
          BY <3>2, <3>4
        <4>2. with(row).corrupt = row.corrupt /\ with(row).drift = row.drift
          BY <2>1, <3>1, <3>4
        <4>3. ClassifyRow(row, rt) = ClassifyRow(with(row), rt)
          BY <2>1, <2>2, <3>1, <4>2, ClassifyOwned
        <4> QED
          BY <2>1, <2>5, <3>1, <4>1, <4>3 DEF UnitRow
      <3> QED
        BY <3>3, <3>4
    <2> QED
      BY <2>4, <2>5
  <1> HIDE DEF merged
  <1>5. \A r \in refresh'.rows : UnitRow(r, rt)
    BY <1>2, <1>4
  <1>6. \A u \in Units : Marked(u) => \E r \in refresh'.rows : UnitRow(r, rt) /\ r.u = u
    BY <1>2, <1>3, <1>4
  <1>7. ASSUME NEW i \in Ids, store[i] # NoRecord
        PROVE  <<i, store[i]>> \in rest \/ \E r \in refresh'.rows : r.id = i /\ r.record
    <2>1. CASE i \in {row.id : row \in refresh.rows}
      <3>1. PICK row \in refresh.rows : row.id = i
        BY <2>1
      <3>2. merged(row) \in refresh'.rows /\ merged(row).id = i /\ merged(row).record
        BY <1>2, <1>4, <1>7, <3>1 DEF UnitRow
      <3> QED
        BY <3>2
    <2>2. CASE i \notin {row.id : row \in refresh.rows}
      BY <1>7, <2>2
    <2> QED
      BY <2>1, <2>2
  <1>8. ASSUME NEW job \in rest
        PROVE  job[1] \in Ids /\ job[2] = store[job[1]] /\ job[2] # NoRecord /\ Unclaimed(job[1])
    <2>1. PICK i \in {j \in Ids : store[j] # NoRecord} \ {row.id : row \in refresh.rows} : job = <<i, store[i]>>
      BY <1>8
    <2>2. Unclaimed(i)
      BY <1>3, <2>1 DEF Unclaimed, ScannedRow
    <2> QED
      BY <2>1, <2>2
  <1> HIDE DEF rest
  <1> QED
    BY <1>2, <1>5, <1>6, <1>7, <1>8 DEF TrueRows

\* The third, record by record: what the record names is looked up.
LEMMA InspectStoredTrue ==
    ASSUME RowsInv, NEW i \in Ids, NEW u \in Units \cup {Corrupt}, InspectStored(i, u), unseen = {}
    PROVE  refresh'.pc = "inspect" /\ TrueRows(refresh'.rows, refresh'.rt, refresh'.todo)
  <1> DEFINE def     == IF u \in Units THEN Definition(u) ELSE "None"
             at      == IF u \in Units THEN u ELSE NoUnit
             corrupt == u = Corrupt
             drift   == def \in {"Pair", "Partial"}
             new     == NewRow(i, at)
             row     == [new EXCEPT !.def = def, !.record = TRUE, !.corrupt = corrupt, !.drift = drift]
             added   == Classified(row, NoSnapshot)
  <1>1. refresh' = [refresh EXCEPT !.todo = @ \ {<<i, u>>}, !.rows = @ \cup {added}]
    BY DEF InspectStored
  <1>2. refresh.pc = "inspect" /\ <<i, u>> \in refresh.todo /\ TrueRows(refresh.rows, refresh.rt, refresh.todo)
    BY DEF InspectStored, RowsInv, Undisturbed
  <1>3. /\ refresh'.pc = "inspect" /\ refresh'.rt = refresh.rt
        /\ refresh'.todo = refresh.todo \ {<<i, u>>} /\ refresh'.rows = refresh.rows \cup {added}
    BY <1>1, <1>2 DEF RowsInv, ClientInv, RecordsTyped, Refreshes
  <1>4. /\ row \in Row /\ row.id = i /\ row.record = TRUE /\ row.def = def
        /\ row.drift = drift /\ row.corrupt = corrupt
    <2>1. new \in Row /\ new.id = i
      BY NewRows DEF NewRow
    <2>2. def \in Definitions
      BY DefinitionTyped DEF Definitions
    <2>3. corrupt \in BOOLEAN /\ drift \in BOOLEAN
      OBVIOUS
    <2> HIDE DEF new, def, corrupt, drift
    <2> QED
      BY <2>1, <2>2, <2>3 DEF Row
  <1> HIDE DEF row
  <1>5. /\ added \in Row /\ added.id = i /\ added.record = TRUE
        /\ added.offers = ClassifyRow(row, NoSnapshot)
    BY <1>4, ClassifiedRow
  <1>6. "record" \in ClassifyRow(row, NoSnapshot) /\ "definition" \notin ClassifyRow(row, NoSnapshot)
    BY <1>4 DEF ClassifyRow
  <1> HIDE DEF added
  <1>7. u = store[i] /\ store[i] # NoRecord /\ Unclaimed(i)
    BY <1>2 DEF TrueRows
  <1>8. RecordRow(added)
    BY <1>5, <1>6, <1>7 DEF RecordRow
  <1>9. ASSUME NEW j \in Ids, store[j] # NoRecord
        PROVE  <<j, store[j]>> \in refresh'.todo \/ \E r \in refresh'.rows : r.id = j /\ r.record
    BY <1>2, <1>3, <1>5, <1>9 DEF TrueRows
  <1> QED
    BY <1>2, <1>3, <1>8, <1>9 DEF TrueRows

\* The last: the inventory of the helper, if it answers, may clear an offer.
LEMMA ReadInventoryTrue ==
    ASSUME RowsInv, ReadInventory, unseen = {}
    PROVE  refresh'.pc = "done" /\ refresh'.todo = {} /\ TrueRows(refresh'.rows, refresh'.rt, refresh'.todo)
  <1> DEFINE known == {unit.id : unit \in PairScannedHalves} \ (Guests \cup {NoFile})
             quiet(row) == [row EXCEPT !.record = FALSE]
             fresh(row) == [row EXCEPT !.offers = ClassifyRow(quiet(row), refresh.rt)]
             again(row) == IF row.id \in known /\ ~row.corrupt /\ ~row.drift THEN fresh(row) ELSE row
             rt == refresh.rt
  <1>1. refresh' \in {[refresh EXCEPT !.pc = "done", !.rows = {again(row) : row \in @}],
                      [refresh EXCEPT !.pc = "done"]}
    BY DEF ReadInventory
  <1>2. refresh.todo = {} /\ TrueRows(refresh.rows, rt, {}) /\ refresh.rows \subseteq Row
    BY DEF ReadInventory, RowsInv, Undisturbed, ClientInv, RecordsTyped, Refreshes
  <1>3. /\ refresh'.pc = "done" /\ refresh'.todo = {} /\ refresh'.rt = rt
        /\ refresh'.rows \in {{again(row) : row \in refresh.rows}, refresh.rows}
    BY <1>1, <1>2 DEF RowsInv, ClientInv, RecordsTyped, Refreshes
  <1>4. \A i \in known : ~Unclaimed(i)
    <2> SUFFICES ASSUME NEW i \in known PROVE \E v \in Units : Marked(v) /\ IdOf(v) = i
      BY DEF Unclaimed
    <2> QED
      BY ScansWhatIsThere DEF RowsInv
  <1> HIDE DEF known
  <1>5. ASSUME NEW row \in refresh.rows PROVE again(row) = row
    <2>1. CASE row.id \notin known \/ row.corrupt \/ row.drift
      BY <2>1
    <2>2. CASE row.id \in known /\ ~row.corrupt /\ ~row.drift
      <3>1. row \in Row /\ UnitRow(row, rt)
        BY <1>2, <1>4, <2>2 DEF TrueRows, RecordRow
      <3>2. row.def \in {"Pair", "Partial"} /\ row.offers = ClassifyRow(row, rt)
        BY <3>1 DEF UnitRow, RowsInv, MarkedIsManaged, Managed
      <3>3. /\ quiet(row) \in Row /\ quiet(row).def = row.def /\ quiet(row).corrupt = row.corrupt
            /\ quiet(row).drift = row.drift
        BY <3>1 DEF Row
      <3> HIDE DEF quiet
      <3>4. ClassifyRow(row, rt) = ClassifyRow(quiet(row), rt)
        <4> DEFINE other == quiet(row)
        <4>1. /\ other \in Row /\ other.def = row.def /\ other.corrupt = row.corrupt /\ other.drift = row.drift
          BY <3>3
        <4> HIDE DEF other
        <4>2. ClassifyRow(row, rt) = ClassifyRow(other, rt)
          BY <3>1, <3>2, <4>1, ClassifyOwned
        <4> QED
          BY <4>2 DEF other
      <3>5. fresh(row) = row
        BY <3>1, <3>2, <3>4 DEF Row
      <3> QED
        BY <2>2, <3>5
    <2> QED
      BY <2>1, <2>2
  <1> HIDE DEF again
  <1>6. {again(row) : row \in refresh.rows} = refresh.rows
    BY <1>5
  <1> QED
    BY <1>2, <1>3, <1>6

\* A step keeps the rows true as long as nothing goes unseen.
LEMMA UndisturbedStep == ASSUME RowsInv, [Next]_vars PROVE Undisturbed'
  <1> SUFFICES ASSUME unseen' = {} PROVE Undisturbed'
    BY DEF Undisturbed
  <1>1. CASE ~Model
    <2>1. CASE refresh'.pc = "units"
      BY <2>1 DEF Undisturbed
    <2>2. CASE UNCHANGED <<mountHalf, autoHalf, store, refresh, display, unseen>>
      <3>1. \A u \in Units : Marked(u)' = Marked(u)
        BY <2>2 DEF Marked
      <3> QED
        BY <2>2, <3>1, StillTrue DEF RowsInv, Undisturbed
    <2> QED
      BY <1>1, <2>1, <2>2, Disturbs DEF RowsInv
  <1>2. CASE Model
    <2>1. UNCHANGED <<mountHalf, autoHalf, store, unseen>>
      BY <1>2, ModelReadsOnly
    <2>2. CASE ReadUnits
      <3>1. /\ refresh'.pc = "store" /\ \A r \in refresh'.rows : ScannedRow(r, refresh'.rt)
            /\ \A u \in Units : Marked(u) => \E r \in refresh'.rows : r.u = u
        BY <2>2, ReadUnitsTrue
      <3>2. \A u \in Units : Marked(u)' = Marked(u)
        BY <2>1 DEF Marked
      <3> QED
        BY <2>1, <3>1, <3>2, StillTrue DEF Undisturbed
    <2>3. CASE ReadStore
      BY <2>1, <2>3, ReadStoreTrue, StillTrue DEF Undisturbed
    <2>4. CASE \E i \in Ids, u \in Units \cup {Corrupt} : InspectStored(i, u)
      BY <2>1, <2>4, InspectStoredTrue, StillTrue DEF Undisturbed
    <2>5. CASE ReadInventory
      BY <2>1, <2>5, ReadInventoryTrue, StillTrue DEF Undisturbed
    <2>6. CASE Deliver
      <3>1. /\ refresh'.pc = "idle" /\ display'.rows = refresh.rows /\ display'.rt = refresh.rt
            /\ refresh.pc = "done"
        BY <2>6 DEF Deliver, EmptyRefresh
      <3>2. TrueRows(refresh.rows, refresh.rt, {})
        BY <2>1, <3>1 DEF RowsInv, Undisturbed
      <3> QED
        BY <2>1, <3>1, <3>2, StillTrue DEF Undisturbed
    <2> QED
      BY <1>2, <2>2, <2>3, <2>4, <2>5, <2>6 DEF Model
  <1> QED
    BY <1>1, <1>2

\* The rows, at every stage of a refresh that nothing has disturbed, say what
\* is on disk and in the Store.
THEOREM RowsInvariant == Spec => []RowsInv
  <1>1. ClientInit => RowsInv
    <2> SUFFICES ASSUME ClientInit PROVE RowsInv
      OBVIOUS
    <2>1. \A u \in Units : ~Marked(u)
      BY ContentAssumption DEF ClientInit, Marked
    <2> QED
      BY <2>1, ClientInvInit DEF RowsInv, MarkedIsManaged, Undisturbed, ClientInit, EmptyRefresh
  <1>2. RowsInv /\ [Next]_vars => RowsInv'
    <2> SUFFICES ASSUME RowsInv, [Next]_vars PROVE RowsInv'
      OBVIOUS
    <2>1. ClientInv'
      BY ClientInvStep DEF RowsInv
    <2>2. MarkedIsManaged'
      BY <2>1, MarkedIsManagedStep DEF RowsInv, ClientInv, RecordsTyped
    <2> QED
      BY <2>1, <2>2, UndisturbedStep DEF RowsInv
  <1> QED
    BY <1>1, <1>2, PTL DEF Spec

\* What a true row offers is what the helper would do, and it always offers a
\* way on.
LEMMA TrueRowOffers ==
    ASSUME RowsInv, NEW rt \in RuntimeSnapshot, NEW r \in Row, UnitRow(r, rt) \/ RecordRow(r)
    PROVE  /\ "definition" \in r.offers =>
                Managed(r.u) /\ EvaluateStopPrecheck(rt) \in {"ShouldStop", "AlreadyInactive"}
           /\ "record" \in r.offers => store[r.id] # r.u \/ ~Marked(r.u) \/ IdOf(r.u) # r.id
           /\ r.offers = {} => Managed(r.u) /\ EvaluateStopPrecheck(rt) \in {"Indeterminate", "CorrelationMismatch"}
  <1>1. CASE UnitRow(r, rt)
    <2>1. /\ r.u \in Units /\ Managed(r.u) /\ r.def \in {"Pair", "Partial"} /\ r.offers = ClassifyRow(r, rt)
      BY <1>1 DEF UnitRow, RowsInv, MarkedIsManaged, Managed
    <2>2. r.drift \/ r.corrupt => store[r.id] # r.u /\ "record" \in r.offers
      BY <1>1, <2>1, ClientAssumption DEF UnitRow, ClassifyRow
    <2>3. "record" \in r.offers => r.drift \/ r.corrupt
      BY <2>1 DEF ClassifyRow
    <2>4. "definition" \in r.offers => EvaluateStopPrecheck(rt) \in {"ShouldStop", "AlreadyInactive"}
      BY <2>1, OffersWhatPrecheckAllows
    <2>5. r.offers = {} => EvaluateStopPrecheck(rt) \in {"Indeterminate", "CorrelationMismatch"}
      BY <2>1, <2>2, WithholdsWhatPrecheckRefuses
    <2> QED
      BY <2>1, <2>2, <2>3, <2>4, <2>5
  <1>2. CASE RecordRow(r)
    <2>1. store[r.id] \in Units \cup {NoRecord, Corrupt} /\ store[r.id] # NoRecord
      BY <1>2, StoreTyped DEF RecordRow, RowsInv, ClientInv
    <2>2. r.u \in Units \/ store[r.id] # r.u
      BY <2>1, ClientAssumption DEF Row, NoUnit, NoRecord, Corrupt
    <2> QED
      BY <1>2, <2>2 DEF RecordRow, Unclaimed
  <1> QED
    BY <1>1, <1>2

\* Client.CurrentRowsAreTrue: rows that nothing has disturbed since they began
\* to be read show every definition and every record, offer what the helper
\* would do, and leave none of them without a way on.
THEOREM CurrentRowsTrue == Spec => []CurrentRowsAreTrue
  <1>1. RowsInv => CurrentRowsAreTrue
    <2> SUFFICES ASSUME RowsInv, Current PROVE CurrentRowsAreTrue
      BY DEF CurrentRowsAreTrue
    <2>1. TrueRows(display.rows, display.rt, {}) /\ display.rows \subseteq Row /\ display.rt \in RuntimeSnapshot
      BY DEF Current, RowsInv, Undisturbed, ClientInv, RecordsTyped
    <2>2. \A u \in Units : Marked(u) =>
             \E r \in display.rows : r.u = u /\ r.id = IdOf(u) /\ (r.record <=> store[r.id] # NoRecord)
      BY <2>1 DEF TrueRows, UnitRow
    <2>3. \A i \in Ids : store[i] # NoRecord => \E r \in display.rows : r.id = i /\ r.record
      BY <2>1 DEF TrueRows
    <2>4. \A r \in display.rows :
             /\ "definition" \in r.offers =>
                  Managed(r.u) /\ EvaluateStopPrecheck(display.rt) \in {"ShouldStop", "AlreadyInactive"}
             /\ "record" \in r.offers => store[r.id] # r.u \/ ~Marked(r.u) \/ IdOf(r.u) # r.id
             /\ r.offers = {} =>
                  Managed(r.u) /\ EvaluateStopPrecheck(display.rt) \in {"Indeterminate", "CorrelationMismatch"}
      BY <2>1, TrueRowOffers DEF TrueRows
    <2> QED
      BY <2>2, <2>3, <2>4 DEF CurrentRowsAreTrue
  <1> QED
    BY <1>1, RowsInvariant, PTL
===============================================================================
