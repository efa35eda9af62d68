--------------------------- MODULE AccessLogProofs ---------------------------
(***************************************************************************)
(* Theorems about AccessLog for every value of its constants.              *)
(***************************************************************************)
EXTENDS AccessLog, TLAPS

(* What the type invariant needs to be inductive: rows are never deleted,  *)
(* so a record in memory always has its row, and marking it finds one.     *)
RecordsHaveRows ==
    \A c \in Callers :
        /\ \A e \in batch[c] : e.id \in Used
        /\ pc[c] \in {"write", "sent", "failed"} => cur[c].id \in Used

TypeInv == TypeOK /\ RecordsHaveRows

(* A row is read into a record of the right type. *)
LEMMA EntriesOfRows ==
    ASSUME TypeOK, NEW id \in Used
    PROVE  EntryOf(id) \in Entry
<1>1. rows[id] \in Row
  BY DEF TypeOK, Used
<1> QED
  BY <1>1 DEF EntryOf, Entry, Row, Used

(* An entry becomes a row of the table. *)
LEMMA RowsOfEntries ==
    ASSUME NEW e \in Entry
    PROVE  RowOf(e, "SINCRONIZADO") \in Row
  BY DEF RowOf, Row, Entry, SyncStatuses

(* The handlers keep the type invariant.                                   *)
LEMMA HandlerStepType ==
    ASSUME TypeInv, HandlerStep
    PROVE  TypeInv'
<1> USE ConstantsAssumption
<1>1. ASSUME NEW t \in Tokens, NEW d \in Documents, CreateCheck(t, d)
      PROVE  TypeInv'
  BY <1>1 DEF TypeInv, TypeOK, RecordsHaveRows, CreateCheck, syncVars,
              importVars, Used
<1>2. ASSUME NEW request \in admitted, NEW id \in Ids,
             CreateInsert(request, id)
      PROVE  TypeInv'
  <2>1. request \in [ext : Tokens, doc : Documents]
    BY DEF TypeInv, TypeOK
  <2>2. [ext |-> request.ext, doc |-> request.doc, open |-> TRUE,
         sync |-> "PENDENTE_SYNC"] \in Row
    BY <2>1 DEF Row, ExternalIds, SyncStatuses
  <2>3. rows' \in [Ids -> Row \union {NoRow}]
    BY <1>2, <2>2 DEF CreateInsert, TypeInv, TypeOK
  <2>4. Used \subseteq Used'
    BY <1>2, <2>2 DEF CreateInsert, TypeInv, TypeOK, Used
  <2> QED
    BY <1>2, <2>3, <2>4 DEF CreateInsert, TypeInv, TypeOK, RecordsHaveRows,
                            syncVars, importVars
<1>3. ASSUME NEW id \in Ids, NEW t \in Tokens, Checkout(id, t)
      PROVE  TypeInv'
  <2>1. rows[id] \in Row
    BY <1>3 DEF Checkout, TypeInv, TypeOK, Used
  <2>2. [ext |-> t, doc |-> rows[id].doc, open |-> FALSE,
         sync |-> "PENDENTE_SYNC"] \in Row
    BY <2>1 DEF Row, ExternalIds, SyncStatuses
  <2>3. rows' \in [Ids -> Row \union {NoRow}]
    BY <1>3, <2>2 DEF Checkout, TypeInv, TypeOK
  <2>4. Used \subseteq Used'
    BY <1>3, <2>2 DEF Checkout, TypeInv, TypeOK, Used
  <2> QED
    BY <1>3, <2>3, <2>4 DEF Checkout, TypeInv, TypeOK, RecordsHaveRows,
                            syncVars, importVars
<1> QED
  BY <1>1, <1>2, <1>3 DEF HandlerStep

(* A pass of RunOnce keeps the type invariant.                             *)
LEMMA ContinueType ==
    ASSUME TypeInv, NEW c \in Callers, NEW rest \in SUBSET batch[c],
           Continue(c, rest), Used \subseteq Used'
    PROVE  /\ lock' \in Callers \union {Nobody}
           /\ pc' \in [Callers -> {"idle", "pick", "write", "sent", "failed"}]
           /\ batch' \in [Callers -> SUBSET Entry]
           /\ cur' \in [Callers -> Entry \union {NoRow}]
           /\ \A d \in Callers : pc'[d] \in {"write", "sent", "failed"} =>
                  cur'[d] \in Entry
           /\ hits' \in [Callers -> SUBSET Nat]
           /\ RecordsHaveRows'
  BY DEF TypeInv, TypeOK, Continue, RecordsHaveRows

LEMMA SyncStepType ==
    ASSUME TypeInv, NEW c \in Callers, SyncStep(c)
    PROVE  TypeInv'
<1> USE ConstantsAssumption
<1>1. CASE RunOnce(c)
  <2>1. PendingSync \subseteq Entry
    BY EntriesOfRows DEF PendingSync, TypeInv
  <2>2. \A e \in PendingSync : e.id \in Used
    BY DEF PendingSync, EntryOf
  <2>3. Used' = Used
    BY <1>1 DEF RunOnce, Used
  <2> QED
    BY <1>1, <2>1, <2>2, <2>3
       DEF RunOnce, TypeInv, TypeOK, RecordsHaveRows, importVars
<1>2. ASSUME NEW e \in batch[c], FindAccessLogRows(c, e)
      PROVE  TypeInv'
  <2>1. e \in Entry /\ e.id \in Used
    BY DEF TypeInv, TypeOK, RecordsHaveRows
  <2>2. SheetRows(e) \subseteq Nat
    BY DEF SheetRows, SameId, SameExt, TypeInv, TypeOK
  <2>3. Used' = Used
    BY <1>2 DEF FindAccessLogRows, Used
  <2> QED
    BY <1>2, <2>1, <2>2, <2>3
       DEF FindAccessLogRows, TypeInv, TypeOK, RecordsHaveRows, importVars
<1>3. ASSUME NEW e \in batch[c], FindFails(c, e)
      PROVE  TypeInv'
  <2>1. e \in Entry /\ e.id \in Used
    BY DEF TypeInv, TypeOK, RecordsHaveRows
  <2>2. Used' = Used
    BY <1>3 DEF FindFails, Used
  <2> QED
    BY <1>3, <2>1, <2>2
       DEF FindFails, TypeInv, TypeOK, RecordsHaveRows, importVars
<1>4. ASSUME NEW targets, pc[c] = "write"
      PROVE  Written(targets, cur[c]) \in Seq(Entry)
  <2> DEFINE n == Len(sheet)
             updated == [k \in 1..n |->
                            IF k \in targets THEN cur[c] ELSE sheet[k]]
  <2>1. cur[c] \in Entry /\ sheet \in Seq(Entry)
    BY <1>4 DEF TypeInv, TypeOK
  <2>2. Append(sheet, cur[c]) \in Seq(Entry)
    BY <2>1
  <2>3. n \in Nat /\ DOMAIN sheet = 1..n /\ \A k \in 1..n : sheet[k] \in Entry
    BY <2>1
  <2>4. updated \in [1..n -> Entry]
    BY <2>1, <2>3
  <2>5. updated \in Seq(Entry)
    BY <2>3, <2>4
  <2> QED
    BY <2>2, <2>3, <2>5 DEF Written
<1>5. CASE AppendAccessLog(c)
  <2>1. Used' = Used /\ sheet' \in Seq(Entry)
    BY <1>4, <1>5 DEF AppendAccessLog, Used
  <2> QED
    BY <1>5, <2>1
       DEF AppendAccessLog, TypeInv, TypeOK, RecordsHaveRows, importVars
<1>6. CASE AppendFails(c)
  <2>1. Used' = Used /\ sheet' \in Seq(Entry)
    <3>1. \/ sheet' = sheet
          \/ \E targets : sheet' = Written(targets, cur[c])
      BY <1>6 DEF AppendFails
    <3> QED
      BY <1>4, <1>6, <3>1 DEF AppendFails, Used, TypeInv, TypeOK
  <2> QED
    BY <1>6, <2>1
       DEF AppendFails, TypeInv, TypeOK, RecordsHaveRows, importVars
<1>7. ASSUME NEW status \in SyncStatuses, pc[c] \in {"sent", "failed"},
             rows' = [rows EXCEPT ![cur[c].id] =
                         [rows[cur[c].id] EXCEPT !.sync = status]]
      PROVE  rows' \in [Ids -> Row \union {NoRow}] /\ Used' = Used
  <2>1. cur[c].id \in Ids /\ rows[cur[c].id] \in Row
    BY <1>7 DEF TypeInv, TypeOK, RecordsHaveRows, Used
  <2>2. [rows[cur[c].id] EXCEPT !.sync = status] \in Row
    BY <2>1 DEF Row
  <2> QED
    BY <1>7, <2>1, <2>2 DEF TypeInv, TypeOK, Used
<1>8. CASE MarkSynced(c)
  <2>1. rows' \in [Ids -> Row \union {NoRow}] /\ Used' = Used
    BY <1>7, <1>8 DEF MarkSynced, SyncStatuses
  <2> QED
    BY <1>8, <2>1, ContinueType DEF MarkSynced, TypeInv, TypeOK, importVars
<1>9. CASE MarkSyncedFails(c)
  <2>1. Used' = Used
    BY <1>9 DEF MarkSyncedFails, Used
  <2> QED
    BY <1>9, <2>1, ContinueType
       DEF MarkSyncedFails, TypeInv, TypeOK, importVars
<1>10. CASE MarkSyncError(c)
  <2>1. rows' \in [Ids -> Row \union {NoRow}] /\ Used' = Used
    BY <1>7, <1>10 DEF MarkSyncError, SyncStatuses, TypeInv, TypeOK, Used
  <2> QED
    BY <1>10, <2>1, ContinueType
       DEF MarkSyncError, TypeInv, TypeOK, importVars
<1> QED
  BY <1>1, <1>2, <1>3, <1>5, <1>6, <1>8, <1>9, <1>10 DEF SyncStep

(* A step of an import keeps the type invariant.                           *)
LEMMA NextImportedType ==
    ASSUME TypeInv, NEW i \in Importers, NEW rest \in Seq(Entry),
           NextImported(i, rest)
    PROVE  /\ step' \in [Importers -> {"idle", "lookup", "apply"}]
           /\ todo' \in [Importers -> Seq(Entry)]
           /\ \A j \in Importers : step'[j] # "idle" => todo'[j] # <<>>
           /\ found' \in [Importers -> 0..MaxId]
  BY ConstantsAssumption DEF TypeInv, TypeOK, NextImported

LEMMA ImportStepType ==
    ASSUME TypeInv, NEW i \in Importers, ImportStep(i)
    PROVE  TypeInv'
<1> USE ConstantsAssumption
<1>1. CASE ReadAccessLogs(i)
  BY <1>1 DEF ReadAccessLogs, TypeInv, TypeOK, RecordsHaveRows, syncVars, Used
<1>2. step[i] # "idle" =>
          /\ Head(todo[i]) \in Entry
          /\ Tail(todo[i]) \in Seq(Entry)
          /\ <<>> \in Seq(Entry)
  BY DEF TypeInv, TypeOK
<1>3. CASE UpsertImported(i)
  <2>1. ImportTarget(Head(todo[i])) \in Used \union {0, Head(todo[i]).id}
    BY DEF ImportTarget
  <2>2. ImportTarget(Head(todo[i])) \in 0..MaxId
    <3>1. Head(todo[i]).id \in Ids
      BY <1>2, <1>3 DEF UpsertImported, Entry
    <3> QED
      BY <2>1, <3>1 DEF Used, Ids
  <2> QED
    BY <1>3, <2>2 DEF UpsertImported, TypeInv, TypeOK, RecordsHaveRows,
                      syncVars, Used
<1>4. ASSUME NEW id \in Ids, step[i] # "idle",
             \/ rows' = rows
             \/ rows' = [rows EXCEPT ![id] = RowOf(Head(todo[i]),
                                                   "SINCRONIZADO")]
      PROVE  rows' \in [Ids -> Row \union {NoRow}] /\ Used \subseteq Used'
  <2>1. RowOf(Head(todo[i]), "SINCRONIZADO") \in Row
    BY <1>2, <1>4, RowsOfEntries
  <2> QED
    BY <1>4, <2>1 DEF TypeInv, TypeOK, Used
<1>5. CASE UpdateImported(i)
  <2>1. found[i] \in Ids
    BY <1>5 DEF UpdateImported, Used
  <2>2. rows' \in [Ids -> Row \union {NoRow}] /\ Used \subseteq Used'
    BY <1>4, <1>5, <2>1 DEF UpdateImported
  <2>3. PICK rest \in Seq(Entry) : NextImported(i, rest)
    BY <1>2, <1>5 DEF UpdateImported
  <2> QED
    BY <1>5, <2>2, <2>3, NextImportedType
       DEF UpdateImported, TypeInv, TypeOK, RecordsHaveRows, syncVars
<1>6. ASSUME NEW id \in Ids, InsertImported(i, id)
      PROVE  TypeInv'
  <2>1. rows' \in [Ids -> Row \union {NoRow}] /\ Used \subseteq Used'
    BY <1>4, <1>6 DEF InsertImported
  <2>2. PICK rest \in Seq(Entry) : NextImported(i, rest)
    BY <1>2, <1>6 DEF InsertImported
  <2> QED
    BY <1>6, <2>1, <2>2, NextImportedType
       DEF InsertImported, TypeInv, TypeOK, RecordsHaveRows, syncVars
<1> QED
  BY <1>1, <1>3, <1>5, <1>6 DEF ImportStep

(* TypeInv holds for every table, sheet and set of goroutines.             *)
LEMMA TypeInvAlways == Spec => []TypeInv
<1> USE ConstantsAssumption
<1>1. Init => TypeInv
  BY InstallationsAssumption DEF Init, TypeInv, TypeOK, RecordsHaveRows
<1>2. TypeInv /\ [Next]_vars => TypeInv'
  <2> SUFFICES ASSUME TypeInv, [Next]_vars
               PROVE  TypeInv'
    OBVIOUS
  <2>1. CASE Crash
    BY <2>1 DEF Crash, TypeInv, TypeOK, RecordsHaveRows
  <2>2. CASE UNCHANGED vars
    BY <2>2 DEF vars, syncVars, importVars, TypeInv, TypeOK, RecordsHaveRows,
                Used
  <2> QED
    BY <2>1, <2>2, HandlerStepType, SyncStepType, ImportStepType DEF Next
<1> QED
  BY <1>1, <1>2, PTL DEF Spec

(* Every variable has its type, in every interleaving.                     *)
THEOREM TypeCorrect == Spec => []TypeOK
<1>1. TypeInv => TypeOK
  BY DEF TypeInv
<1> QED
  BY <1>1, TypeInvAlways, PTL

-----------------------------------------------------------------------------
(* Every step leaves the table alone or replaces one row: by a visit the   *)
(* trigger admits, or by the same visit, perhaps closed; a completed visit *)
(* is replaced by a completed one.                                         *)
RowChange(id) ==
    \E row \in Row :
        /\ rows' = [rows EXCEPT ![id] = row]
        /\ id \in Used /\ ~rows[id].open => ~row.open
        /\ \/ ~ActiveVisitExists(id, row.doc, row.open)
           \/ /\ id \in Used
              /\ row.doc = rows[id].doc
              /\ row.open => rows[id].open

LEMMA RowChangeKeepsOneActive ==
    ASSUME TypeOK, OneActivePerDocument, NEW id \in Ids, RowChange(id)
    PROVE  OneActivePerDocument'
<1>1. PICK row \in Row :
          /\ rows' = [rows EXCEPT ![id] = row]
          /\ \/ ~ActiveVisitExists(id, row.doc, row.open)
             \/ /\ id \in Used
                /\ row.doc = rows[id].doc
                /\ row.open => rows[id].open
  BY DEF RowChange
<1>2. \A j \in Ids : rows'[j] = IF j = id THEN row ELSE rows[j]
  BY <1>1 DEF TypeOK
<1>3. ASSUME NEW j \in Ids, j # id, rows[j] # NoRow, rows[j].open, row.open
      PROVE  rows[j].doc # row.doc
  BY <1>1, <1>3 DEF ActiveVisitExists, OneActivePerDocument, OneActive, Used
<1> QED
  BY <1>2, <1>3 DEF OneActivePerDocument, OneActive

(* How each kind of step changes the table.                                *)
LEMMA TableSteps ==
    ASSUME TypeInv, [Next]_vars, rows' # rows
    PROVE  \E id \in Ids : RowChange(id)
<1> USE ConstantsAssumption
<1>1. ASSUME NEW request \in admitted, NEW id \in Ids,
             CreateInsert(request, id)
      PROVE  RowChange(id)
  <2> DEFINE row == [ext |-> request.ext, doc |-> request.doc, open |-> TRUE,
                     sync |-> "PENDENTE_SYNC"]
  <2>1. row \in Row
    BY DEF TypeInv, TypeOK, Row, ExternalIds, SyncStatuses
  <2>2. rows' = [rows EXCEPT ![id] = row]
        /\ ~ActiveVisitExists(id, row.doc, row.open)
    BY <1>1 DEF CreateInsert
  <2>3. id \notin Used
    BY <1>1 DEF CreateInsert, NextId, Ids
  <2> QED
    BY <2>1, <2>2, <2>3 DEF RowChange
<1>2. ASSUME NEW id \in Ids, NEW t \in Tokens, Checkout(id, t)
      PROVE  RowChange(id)
  <2> DEFINE row == [ext |-> t, doc |-> rows[id].doc, open |-> FALSE,
                     sync |-> "PENDENTE_SYNC"]
  <2>1. rows[id] \in Row
    BY <1>2 DEF Checkout, TypeInv, TypeOK, Used
  <2>2. row \in Row
    BY <2>1 DEF Row, ExternalIds, SyncStatuses
  <2>3. rows' = [rows EXCEPT ![id] = row]
    BY <1>2 DEF Checkout
  <2>4. ~ActiveVisitExists(id, row.doc, row.open)
    BY DEF ActiveVisitExists
  <2> QED
    BY <2>2, <2>3, <2>4 DEF RowChange
<1>3. ASSUME NEW c \in Callers, SyncStep(c)
      PROVE  \E id \in Ids : RowChange(id)
  <2>1. MarkSynced(c) \/ MarkSyncError(c)
    BY <1>3 DEF SyncStep, RunOnce, FindAccessLogRows, FindFails,
                AppendAccessLog, AppendFails, MarkSyncedFails
  <2> DEFINE id == cur[c].id
  <2>2. id \in Ids /\ id \in Used /\ rows[id] \in Row
    BY <2>1 DEF MarkSynced, MarkSyncError, TypeInv, TypeOK, RecordsHaveRows,
                Used
  <2>3. PICK status \in SyncStatuses :
            rows' = [rows EXCEPT ![id] = [rows[id] EXCEPT !.sync = status]]
    BY <2>1 DEF MarkSynced, MarkSyncError, SyncStatuses
  <2>4. /\ [rows[id] EXCEPT !.sync = status] \in Row
        /\ [rows[id] EXCEPT !.sync = status].doc = rows[id].doc
        /\ [rows[id] EXCEPT !.sync = status].open = rows[id].open
    BY <2>2 DEF Row
  <2>5. RowChange(id)
    BY <2>2, <2>3, <2>4 DEF RowChange
  <2> QED
    BY <2>2, <2>5
<1>4. ASSUME NEW i \in Importers, NEW id \in Ids, step[i] # "idle",
             ~ActiveVisitExists(id, Head(todo[i]).doc, Head(todo[i]).open),
             id \in Used => MayOverwrite(id, Head(todo[i])),
             rows' = [rows EXCEPT ![id] = RowOf(Head(todo[i]),
                                               "SINCRONIZADO")]
      PROVE  RowChange(id)
  <2>1. Head(todo[i]) \in Entry
    BY <1>4 DEF TypeInv, TypeOK
  <2>2. RowOf(Head(todo[i]), "SINCRONIZADO") \in Row
    BY <2>1, RowsOfEntries
  <2> QED
    BY <1>4, <2>2 DEF RowChange, RowOf, MayOverwrite
<1>5. ASSUME NEW i \in Importers, ImportStep(i)
      PROVE  \E id \in Ids : RowChange(id)
  <2>1. CASE UpdateImported(i)
    <3>1. found[i] \in Ids
      BY <2>1 DEF UpdateImported, Used
    <3> QED
      BY <1>4, <2>1, <3>1 DEF UpdateImported
  <2>2. ASSUME NEW id \in Ids, InsertImported(i, id)
        PROVE  RowChange(id)
    <3>1. id \notin Used
      BY <2>2 DEF InsertImported, NextId, Ids
    <3> QED
      BY <1>4, <2>2, <3>1 DEF InsertImported
  <2> QED
    BY <1>5, <2>1, <2>2 DEF ImportStep, ReadAccessLogs, UpsertImported
<1> QED
  BY <1>1, <1>2, <1>3, <1>5
     DEF Next, HandlerStep, CreateCheck, Crash, vars

(* No document ever has two active visits.                                 *)
THEOREM OneActiveAlways == Spec => []OneActivePerDocument
<1>1. Init => OneActivePerDocument
  BY InstallationsAssumption DEF Init, OneActivePerDocument
<1>2. TypeInv /\ OneActivePerDocument /\ [Next]_vars => OneActivePerDocument'
  <2> SUFFICES ASSUME TypeInv, OneActivePerDocument, [Next]_vars
               PROVE  OneActivePerDocument'
    OBVIOUS
  <2>1. CASE rows' = rows
    BY <2>1 DEF OneActivePerDocument
  <2>2. CASE rows' # rows
    BY <2>2, TableSteps, RowChangeKeepsOneActive DEF TypeInv
  <2> QED
    BY <2>1, <2>2
<1> QED
  BY <1>1, <1>2, TypeInvAlways, PTL DEF Spec

(* A completed visit is never reopened nor removed.                        *)
THEOREM CompletedForEver == Spec => CompletedStaysCompleted
<1>1. TypeInv /\ [Next]_vars =>
          [\A id \in Used : ~rows[id].open =>
               id \in Used' /\ ~rows'[id].open]_rows
  <2> SUFFICES ASSUME TypeInv, [Next]_vars, rows' # rows,
                      NEW id \in Used, ~rows[id].open
               PROVE  id \in Used' /\ ~rows'[id].open
    OBVIOUS
  <2>1. PICK changed \in Ids : RowChange(changed)
    BY TableSteps
  <2>2. PICK row \in Row :
            /\ rows' = [rows EXCEPT ![changed] = row]
            /\ changed \in Used /\ ~rows[changed].open => ~row.open
    BY <2>1 DEF RowChange
  <2>3. row # NoRow
    BY ConstantsAssumption
  <2> QED
    BY <2>2, <2>3 DEF Used, TypeInv, TypeOK
<1> QED
  BY <1>1, TypeInvAlways, PTL DEF Spec, CompletedStaysCompleted

(* Only the acknowledgement of the pass that holds the record takes a row  *)
(* out of the queue, and it changes nothing else of the row.               *)
THEOREM OnlyAcknowledgement == Spec => OnlyAckLeavesQueue
<1> DEFINE Leaves(id) == /\ rows[id].sync # "SINCRONIZADO"
                         /\ rows'[id].sync = "SINCRONIZADO"
           Acked(id) == \E c \in Callers :
                  /\ pc[c] = "sent"
                  /\ cur[c].id = id
                  /\ rows'[id] = [rows[id] EXCEPT !.sync = "SINCRONIZADO"]
<1>1. TypeInv /\ [Next]_vars => [\A id \in Used : Leaves(id) => Acked(id)]_rows
  <2> SUFFICES ASSUME TypeInv, [Next]_vars, NEW id \in Used, Leaves(id)
               PROVE  Acked(id)
    OBVIOUS
  <2>1. /\ id \in Ids
        /\ rows[id] \in Row
        /\ rows \in [Ids -> Row \union {NoRow}]
    BY DEF Used, TypeInv, TypeOK
  <2>2. ASSUME NEW request \in admitted, NEW new \in Ids,
               CreateInsert(request, new)
        PROVE  FALSE
    <3>1. new # id
      BY <2>2 DEF CreateInsert, NextId, Ids
    <3>2. \/ rows' = rows
          \/ \E row : rows' = [rows EXCEPT ![new] = row]
      BY <2>2 DEF CreateInsert
    <3>3. rows'[id] = rows[id]
      BY <2>1, <3>1, <3>2
    <3> QED
      BY <3>3
  <2>3. ASSUME NEW old \in Ids, NEW t \in Tokens, Checkout(old, t)
        PROVE  FALSE
    <3> DEFINE row == [ext |-> t, doc |-> rows[old].doc, open |-> FALSE,
                       sync |-> "PENDENTE_SYNC"]
    <3>1. rows' = [rows EXCEPT ![old] = row]
      BY <2>3 DEF Checkout
    <3>2. row.sync = "PENDENTE_SYNC"
      OBVIOUS
    <3> HIDE DEF row
    <3> QED
      BY <2>1, <3>1, <3>2
  <2>4. ASSUME NEW c \in Callers, SyncStep(c)
        PROVE  Acked(id)
    <3>1. CASE MarkSynced(c)
      <4>1. /\ pc[c] = "sent"
            /\ rows' = [rows EXCEPT ![cur[c].id] =
                            [rows[cur[c].id] EXCEPT !.sync = "SINCRONIZADO"]]
        BY <3>1 DEF MarkSynced
      <4>2. cur[c].id = id
        BY <2>1, <4>1
      <4> QED
        BY <2>1, <4>1, <4>2
    <3>2. CASE MarkSyncError(c)
      <4>1. \/ rows' = rows
            \/ rows' = [rows EXCEPT ![cur[c].id] =
                            [rows[cur[c].id] EXCEPT !.sync = "ERRO_SYNC"]]
        BY <3>2 DEF MarkSyncError
      <4> DEFINE failed(k) == [rows[k] EXCEPT !.sync = "ERRO_SYNC"]
      <4>2. \/ rows' = rows
            \/ rows' = [rows EXCEPT ![cur[c].id] = failed(cur[c].id)]
        BY <4>1
      <4> HIDE DEF failed
      <4>3. rows'[id] \in {rows[id], failed(id)}
        BY <2>1, <4>2
      <4>4. rows'[id] \in {rows[id], [rows[id] EXCEPT !.sync = "ERRO_SYNC"]}
        BY <4>3 DEF failed
      <4>5. rows'[id].sync # "SINCRONIZADO"
        BY <2>1, <4>4 DEF Row
      <4> QED
        BY <4>5
    <3> QED
      BY <2>4, <3>1, <3>2 DEF SyncStep, RunOnce, FindAccessLogRows, FindFails,
                  AppendAccessLog, AppendFails, MarkSyncedFails
  <2>5. ASSUME NEW i \in Importers, ImportStep(i)
        PROVE  FALSE
    <3>1. CASE UpdateImported(i)
      BY <2>1, <3>1 DEF UpdateImported, MayOverwrite
    <3>2. ASSUME NEW new \in Ids, InsertImported(i, new)
          PROVE  FALSE
      <4>1. new # id
        BY <3>2 DEF InsertImported, NextId, Ids
      <4> QED
        BY <2>1, <3>2, <4>1 DEF InsertImported
    <3> QED
      BY <2>5, <3>1, <3>2 DEF ImportStep, ReadAccessLogs, UpsertImported
  <2> QED
    BY <2>2, <2>3, <2>4, <2>5 DEF Next, HandlerStep, CreateCheck, Crash, vars
<1> QED
  BY <1>1, TypeInvAlways, PTL DEF Spec, OnlyAckLeavesQueue


-----------------------------------------------------------------------------
(* The visits of the sheet.  The theorems below are about a database and   *)
(* the sheet that it alone has written so far: a new installation, or one  *)
(* that was upgraded.  Beside the sheet of another database they are false *)
(* (see the README).                                                       *)

(* f is the same visit as e, as it was then or later: a visit is closed    *)
(* once, and a visit without external id is given one when it is closed.   *)
Precedes(e, f) ==
    /\ f.doc = e.doc
    /\ f.open => e.open
    /\ \/ f.ext = e.ext
       \/ e.ext = Blank /\ e.open /\ ~f.open

(* A table and a sheet that agree: external ids are given once, the sheet  *)
(* has one row of each visit at most, in an earlier or its present         *)
(* version, and one of each visit that is acknowledged.                    *)
Agreed(table, entries) ==
    /\ \A i, j \in Ids :
           /\ table[i] # NoRow
           /\ table[j] # NoRow
           /\ table[i].ext # Blank
           /\ table[i].ext = table[j].ext
           => i = j
    /\ \A k \in DOMAIN entries :
           /\ table[entries[k].id] # NoRow
           /\ Precedes(entries[k], table[entries[k].id])
           /\ \A j \in DOMAIN entries : entries[j].id = entries[k].id => j = k
    /\ \A id \in Ids :
           /\ table[id] # NoRow
           /\ table[id].sync = "SINCRONIZADO"
           => \E k \in DOMAIN entries : entries[k].id = id

AgreedInstallations ==
    \A start \in Installations : Agreed(start.rows, start.sheet)

(* A record of a visit of the table, in an earlier or its present version. *)
Known(e) == e.id \in Used /\ Precedes(e, rows[e.id])

(* External ids are given once, also those of requests under way.          *)
ExternalIdsUnique ==
    /\ \A i, j \in Used :
           rows[i].ext # Blank /\ rows[i].ext = rows[j].ext => i = j
    /\ \A request \in admitted :
           /\ \A id \in Used : rows[id].ext # request.ext
           /\ \A other \in admitted : other.ext = request.ext => other = request

(* Whatever version of it: with Known, AcknowledgedInSheet follows.        *)
AcknowledgedHasRow ==
    \A id \in Used : rows[id].sync = "SINCRONIZADO" =>
        \E k \in DOMAIN sheet : sheet[k].id = id

(* The sheet has one row of each visit at most, and one of each visit that *)
(* is acknowledged.                                                        *)
SheetKnown ==
    /\ \A k \in DOMAIN sheet :
           /\ Known(sheet[k])
           /\ \A j \in DOMAIN sheet : sheet[j].id = sheet[k].id => j = k
    /\ AcknowledgedHasRow

(* What a pass holds is not older than the sheet, because no other pass    *)
(* writes meanwhile.                                                       *)
PassKnown(c) ==
    /\ IF pc[c] = "idle" THEN batch[c] = {} ELSE lock = c
    /\ \A e \in batch[c] :
           /\ Known(e)
           /\ \A k \in SameId(e) : Precedes(sheet[k], e)
           /\ \A f \in batch[c] : f.id = e.id => f = e
    /\ pc[c] \in {"write", "sent", "failed"} => cur[c] \in batch[c]
    /\ pc[c] = "write" => hits[c] = SameId(cur[c])
    /\ pc[c] = "sent" => SameId(cur[c]) # {}

(* An import has nothing to tell that the table does not know.             *)
ImportKnown(i) ==
    /\ \A k \in DOMAIN todo[i] : Known(todo[i][k])
    /\ step[i] = "apply" => found[i] = Head(todo[i]).id

SheetInv ==
    /\ TypeInv
    /\ ExternalIdsUnique
    /\ SheetKnown
    /\ \A c \in Callers : PassKnown(c)
    /\ \A i \in Importers : ImportKnown(i)

(* Lemmas about the order of versions.                                     *)
LEMMA PrecedesReflexive ==
    ASSUME NEW e \in Entry \union Row, NEW f \in Entry \union Row,
           f.ext = e.ext, f.doc = e.doc, f.open = e.open
    PROVE  Precedes(e, f)
  BY DEF Precedes

LEMMA PrecedesTransitive ==
    ASSUME NEW e \in Entry \union Row, NEW f \in Entry \union Row,
           NEW g \in Entry \union Row, Precedes(e, f), Precedes(f, g)
    PROVE  Precedes(e, g)
<1>1. /\ e.open \in BOOLEAN
      /\ f.open \in BOOLEAN
      /\ g.open \in BOOLEAN
  BY DEF Entry, Row
<1>2. /\ g.doc = e.doc
      /\ g.open => e.open
  BY DEF Precedes
<1>3. \/ g.ext = e.ext
      \/ e.ext = Blank /\ e.open /\ ~g.open
  BY <1>1 DEF Precedes
<1> QED
  BY <1>2, <1>3 DEF Precedes

(* The row of a known visit, and that a known external id finds it.        *)
LEMMA KnownRow ==
    ASSUME TypeInv, NEW e \in Entry, Known(e)
    PROVE  /\ e.id \in Ids
           /\ e.id \in Used
           /\ rows[e.id] \in Row
           /\ Precedes(e, rows[e.id])
           /\ e.ext # Blank => rows[e.id].ext = e.ext
  BY DEF Known, Used, TypeInv, TypeOK, Precedes

LEMMA KnownIsOne ==
    ASSUME TypeInv, ExternalIdsUnique, NEW e \in Entry, NEW f \in Entry,
           Known(e), Known(f), e.ext # Blank, e.ext = f.ext
    PROVE  e.id = f.id
  BY KnownRow DEF ExternalIdsUnique

LEMMA SheetTypes ==
    ASSUME TypeInv
    PROVE  /\ Len(sheet) \in Nat
           /\ DOMAIN sheet = 1..Len(sheet)
           /\ \A k \in DOMAIN sheet : sheet[k] \in Entry
  BY DEF TypeInv, TypeOK

(* findAccessLogRows finds the row of the visit: by its external id or,    *)
(* when the sheet does not have that id yet, by its local id.              *)
LEMMA SearchFindsVisit ==
    ASSUME SheetInv, NEW e \in Entry, Known(e)
    PROVE  SheetRows(e) = SameId(e)
<1>1. TypeInv /\ ExternalIdsUnique
  BY DEF SheetInv
<1>2. ASSUME NEW k \in SameExt(e), e.ext # Blank
      PROVE  k \in SameId(e)
  <2>1. /\ k \in DOMAIN sheet
        /\ sheet[k] \in Entry
        /\ sheet[k].ext = e.ext
        /\ Known(sheet[k])
    BY <1>1, SheetTypes DEF SameExt, SheetInv, SheetKnown
  <2>2. sheet[k].id = e.id
    BY <1>1, <1>2, <2>1, KnownIsOne
  <2> QED
    BY <2>1, <2>2 DEF SameId
<1>3. ASSUME NEW k \in SameExt(e), e.ext # Blank, NEW j \in SameId(e)
      PROVE  j = k
  BY <1>2, <1>3 DEF SameId, SheetInv, SheetKnown
<1> QED
  BY <1>2, <1>3 DEF SheetRows

(* An import leaves the table as it is: it finds the row of the visit, and *)
(* what MayOverwrite lets it write is there already.                       *)
LEMMA ImportedKnown ==
    ASSUME SheetInv, NEW i \in Importers, step[i] # "idle"
    PROVE  Head(todo[i]) \in Entry /\ Known(Head(todo[i]))
<1>1. /\ todo[i] \in Seq(Entry)
      /\ todo[i] # <<>>
  BY DEF SheetInv, TypeInv, TypeOK
<1>2. /\ 1 \in DOMAIN todo[i]
      /\ Head(todo[i]) = todo[i][1]
      /\ Head(todo[i]) \in Entry
  BY <1>1
<1> QED
  BY <1>2 DEF SheetInv, ImportKnown

LEMMA ImportsChangeNothing ==
    ASSUME SheetInv, NEW i \in Importers, ImportStep(i)
    PROVE  rows' = rows /\ sheet' = sheet
<1> DEFINE e == Head(todo[i])
<1>1. CASE UpdateImported(i)
  <2>1. /\ e \in Entry
        /\ found[i] = e.id
        /\ Known(e)
    BY <1>1, ImportedKnown DEF UpdateImported, SheetInv, ImportKnown
  <2>2. /\ rows[e.id] \in Row
        /\ rows \in [Ids -> Row \union {NoRow}]
        /\ e.id \in Ids
        /\ Precedes(e, rows[e.id])
    BY <2>1, KnownRow DEF SheetInv, TypeInv, TypeOK
  <2>3. ASSUME MayOverwrite(e.id, e)
        PROVE  RowOf(e, "SINCRONIZADO") = rows[e.id]
    <3>1. /\ rows[e.id].sync = "SINCRONIZADO"
          /\ rows[e.id].open = e.open
      BY <2>1, <2>2, <2>3 DEF MayOverwrite, Precedes, Entry, Row
    <3>2. /\ rows[e.id].ext = e.ext
          /\ rows[e.id].doc = e.doc
      BY <2>2, <3>1 DEF Precedes
    <3> HIDE DEF e
    <3> QED
      BY <2>2, <3>1, <3>2 DEF RowOf, Row
  <2>4. \/ rows' = rows
        \/ /\ MayOverwrite(e.id, e)
           /\ rows' = [rows EXCEPT ![e.id] = RowOf(e, "SINCRONIZADO")]
    BY <1>1, <2>1 DEF UpdateImported
  <2>5. rows' = rows
    BY <2>2, <2>3, <2>4
  <2> QED
    BY <1>1, <2>5 DEF UpdateImported
<1>2. ASSUME NEW id \in Ids, InsertImported(i, id)
      PROVE  FALSE
  <2>1. /\ found[i] = e.id
        /\ e.id \in Ids
        /\ e.id \in Used
    BY <1>2, ImportedKnown, KnownRow DEF InsertImported, SheetInv, ImportKnown
  <2> QED
    BY <1>2, <2>1 DEF InsertImported, Ids
<1> QED
  BY <1>1, <1>2 DEF ImportStep, ReadAccessLogs, UpsertImported

(* Rows only advance: each step leaves a row at the version it has or      *)
(* replaces it with a later one.                                           *)
RowsAdvance ==
    \A id \in Used : id \in Used' /\ Precedes(rows[id], rows'[id])

LEMMA MarkedRows ==
    ASSUME TypeInv, NEW c \in Callers, pc[c] \in {"sent", "failed"},
           NEW status \in SyncStatuses,
           rows' = [rows EXCEPT ![cur[c].id] =
                       [rows[cur[c].id] EXCEPT !.sync = status]]
    PROVE  /\ cur[c].id \in Used
           /\ Used' = Used
           /\ \A id \in Used :
                  /\ rows'[id] \in Row
                  /\ rows'[id].ext = rows[id].ext
                  /\ rows'[id].doc = rows[id].doc
                  /\ rows'[id].open = rows[id].open
                  /\ rows'[id].sync = IF id = cur[c].id THEN status
                                      ELSE rows[id].sync
<1> DEFINE id == cur[c].id
           row == [rows[id] EXCEPT !.sync = status]
<1>1. /\ id \in Ids
      /\ id \in Used
      /\ rows[id] \in Row
      /\ rows \in [Ids -> Row \union {NoRow}]
  BY DEF TypeInv, TypeOK, RecordsHaveRows, Used
<1>2. /\ row \in Row
      /\ row.ext = rows[id].ext
      /\ row.doc = rows[id].doc
      /\ row.open = rows[id].open
      /\ row.sync = status
  BY <1>1 DEF Row
<1>3. rows' = [rows EXCEPT ![id] = row]
  OBVIOUS
<1>4. \A j \in Used : j \in Ids /\ rows[j] \in Row
  BY <1>1 DEF Used
<1> HIDE DEF id, row
<1>5. \A j \in Ids : rows'[j] = IF j = id THEN row ELSE rows[j]
  BY <1>1, <1>3
<1>6. Used' = Used
  BY <1>1, <1>2, <1>5, ConstantsAssumption DEF Used
<1>7. \A j \in Used :
          /\ rows'[j] \in Row
          /\ rows'[j].ext = rows[j].ext
          /\ rows'[j].doc = rows[j].doc
          /\ rows'[j].open = rows[j].open
          /\ rows'[j].sync = IF j = id THEN status ELSE rows[j].sync
  <2> SUFFICES ASSUME NEW j \in Used
               PROVE  /\ rows'[j] \in Row
                      /\ rows'[j].ext = rows[j].ext
                      /\ rows'[j].doc = rows[j].doc
                      /\ rows'[j].open = rows[j].open
                      /\ rows'[j].sync = IF j = id THEN status
                                         ELSE rows[j].sync
    OBVIOUS
  <2>1. j \in Ids /\ rows[j] \in Row
    BY <1>4
  <2>2. CASE j = id
    <3>1. rows'[j] = row
      BY <1>5, <2>1, <2>2
    <3> QED
      BY <1>2, <2>2, <3>1
  <2>3. CASE j # id
    <3>1. rows'[j] = rows[j]
      BY <1>5, <2>1, <2>3
    <3>2. /\ rows'[j].ext = rows[j].ext
          /\ rows'[j].doc = rows[j].doc
          /\ rows'[j].open = rows[j].open
          /\ rows'[j].sync = rows[j].sync
      BY <3>1, Zenon
    <3> QED
      BY <2>1, <2>3, <3>1, <3>2, Zenon
  <2> QED
    BY <2>2, <2>3
<1> QED
  BY <1>1, <1>6, <1>7 DEF id

(* Each kind of step that changes the table, and what it does to a row.    *)
LEMMA InsertedRow ==
    ASSUME TypeInv, NEW request \in admitted, NEW new \in Ids,
           CreateInsert(request, new)
    PROVE  /\ new \notin Used
           /\ request.ext \in Tokens
           /\ \/ rows' = rows
              \/ /\ Used' = Used \union {new}
                 /\ rows'[new] \in Row
                 /\ rows'[new].ext = request.ext
                 /\ rows'[new].sync = "PENDENTE_SYNC"
                 /\ \A id \in Used : rows'[id] = rows[id]
<1> DEFINE row == [ext |-> request.ext, doc |-> request.doc, open |-> TRUE,
                   sync |-> "PENDENTE_SYNC"]
<1>1. /\ row \in Row
      /\ row.ext = request.ext
      /\ row.sync = "PENDENTE_SYNC"
      /\ request.ext \in Tokens
      /\ rows \in [Ids -> Row \union {NoRow}]
  BY DEF TypeInv, TypeOK, Row, ExternalIds, SyncStatuses
<1>2. new \notin Used
  BY DEF CreateInsert, NextId, Ids
<1>3. rows' = rows \/ rows' = [rows EXCEPT ![new] = row]
  BY DEF CreateInsert
<1> HIDE DEF row
<1>4. CASE rows' = [rows EXCEPT ![new] = row]
  <2>1. \A id \in Ids : rows'[id] = IF id = new THEN row ELSE rows[id]
    BY <1>1, <1>4
  <2> QED
    BY <1>1, <1>2, <2>1, ConstantsAssumption DEF Used
<1> QED
  BY <1>1, <1>2, <1>3, <1>4

LEMMA ClosedRow ==
    ASSUME TypeInv, NEW old \in Ids, NEW t \in Tokens, Checkout(old, t)
    PROVE  /\ old \in Used
           /\ Used' = Used
           /\ rows'[old] \in Row
           /\ rows'[old].ext = t
           /\ rows'[old].sync = "PENDENTE_SYNC"
           /\ Precedes(rows[old], rows'[old])
           /\ \A id \in Used : id # old => rows'[id] = rows[id]
<1> DEFINE row == [ext |-> t, doc |-> rows[old].doc, open |-> FALSE,
                   sync |-> "PENDENTE_SYNC"]
<1>1. /\ old \in Used
      /\ rows[old] \in Row
      /\ rows[old].open
      /\ rows[old].ext # Blank => t = rows[old].ext
      /\ rows \in [Ids -> Row \union {NoRow}]
  BY DEF Checkout, TypeInv, TypeOK, Used
<1>2. /\ row \in Row
      /\ row.ext = t
      /\ row.doc = rows[old].doc
      /\ row.open = FALSE
      /\ row.sync = "PENDENTE_SYNC"
  BY <1>1 DEF Row, ExternalIds, SyncStatuses
<1>3. rows' = [rows EXCEPT ![old] = row]
  BY DEF Checkout
<1> HIDE DEF row
<1>4. \A id \in Ids : rows'[id] = IF id = old THEN row ELSE rows[id]
  BY <1>1, <1>3
<1>5. Used' = Used
  BY <1>1, <1>2, <1>4, ConstantsAssumption DEF Used
<1>6. Precedes(rows[old], row)
  BY <1>1, <1>2 DEF Precedes
<1>7. rows'[old] = row
  BY <1>4
<1> QED
  BY <1>1, <1>2, <1>4, <1>5, <1>6, <1>7 DEF Used

LEMMA RowsOnlyAdvance ==
    ASSUME SheetInv, [Next]_vars
    PROVE  RowsAdvance
<1>1. TypeInv /\ \A id \in Used : rows[id] \in Row
  BY DEF SheetInv, TypeInv, TypeOK, Used
<1>2. CASE rows' = rows
  <2>1. Used' = Used
    BY <1>2 DEF Used
  <2> QED
    BY <1>1, <1>2, <2>1, PrecedesReflexive DEF RowsAdvance
<1>3. ASSUME NEW request \in admitted, NEW id \in Ids,
             CreateInsert(request, id), rows' # rows
      PROVE  RowsAdvance
  BY <1>1, <1>3, InsertedRow, PrecedesReflexive DEF RowsAdvance
<1>4. ASSUME NEW id \in Ids, NEW t \in Tokens, Checkout(id, t)
      PROVE  RowsAdvance
  BY <1>1, <1>4, ClosedRow, PrecedesReflexive DEF RowsAdvance
<1>5. ASSUME NEW c \in Callers, SyncStep(c), rows' # rows
      PROVE  RowsAdvance
  <2>1. PICK status \in SyncStatuses :
            /\ pc[c] \in {"sent", "failed"}
            /\ rows' = [rows EXCEPT ![cur[c].id] =
                           [rows[cur[c].id] EXCEPT !.sync = status]]
    BY <1>5 DEF SyncStep, RunOnce, FindAccessLogRows, FindFails,
                AppendAccessLog, AppendFails, MarkSynced, MarkSyncedFails,
                MarkSyncError, SyncStatuses
  <2>2. /\ Used' = Used
        /\ \A id \in Used :
               /\ rows'[id] \in Row
               /\ rows'[id].ext = rows[id].ext
               /\ rows'[id].doc = rows[id].doc
               /\ rows'[id].open = rows[id].open
    BY <1>1, <2>1, MarkedRows
  <2> QED
    BY <1>1, <2>2, PrecedesReflexive DEF RowsAdvance
<1>6. ASSUME NEW i \in Importers, ImportStep(i)
      PROVE  rows' = rows
  BY <1>6, ImportsChangeNothing
<1> QED
  BY <1>2, <1>3, <1>4, <1>5, <1>6
     DEF Next, HandlerStep, CreateCheck, Crash, vars

(* So a record of a known visit stays one.                                 *)
LEMMA KnownStays ==
    ASSUME TypeInv, TypeInv', RowsAdvance, NEW e \in Entry, Known(e)
    PROVE  e.id \in Used' /\ Precedes(e, rows'[e.id])
<1>1. /\ e.id \in Used
      /\ rows[e.id] \in Row
      /\ Precedes(e, rows[e.id])
  BY KnownRow
<1>2. /\ e.id \in Used'
      /\ Precedes(rows[e.id], rows'[e.id])
  BY <1>1 DEF RowsAdvance
<1>3. rows'[e.id] \in Row
  BY <1>2 DEF TypeInv, TypeOK, Used
<1> QED
  BY <1>1, <1>2, <1>3, PrecedesTransitive

(* External ids stay unique: a new one is one that nobody has.             *)
LEMMA ExternalIdsStayUnique ==
    ASSUME SheetInv, [Next]_vars
    PROVE  ExternalIdsUnique'
<1> USE ConstantsAssumption
<1>1. /\ TypeInv
      /\ ExternalIdsUnique
      /\ \A id \in Used : rows[id] \in Row
  BY DEF SheetInv, TypeInv, TypeOK, Used
<1>2. ASSUME rows' = rows, admitted' \subseteq admitted
      PROVE  ExternalIdsUnique'
  <2>1. Used' = Used
    BY <1>2 DEF Used
  <2> QED
    BY <1>1, <1>2, <2>1 DEF ExternalIdsUnique
<1>3. ASSUME NEW t \in Tokens, NEW d \in Documents, CreateCheck(t, d)
      PROVE  ExternalIdsUnique'
  <2>1. /\ rows' = rows
        /\ Used' = Used
        /\ admitted' = admitted \union {[ext |-> t, doc |-> d]}
        /\ \A id \in Used : rows[id].ext # t
        /\ \A request \in admitted : request.ext # t
    BY <1>3 DEF CreateCheck, Unseen, Used
  <2>2. [ext |-> t, doc |-> d].ext = t
    OBVIOUS
  <2> QED
    BY <1>1, <2>1, <2>2 DEF ExternalIdsUnique
<1>4. ASSUME NEW request \in admitted, NEW new \in Ids,
             CreateInsert(request, new), rows' # rows
      PROVE  ExternalIdsUnique'
  <2>1. /\ new \notin Used
        /\ Used' = Used \union {new}
        /\ rows'[new].ext = request.ext
        /\ \A id \in Used : rows'[id] = rows[id]
    BY <1>1, <1>4, InsertedRow
  <2>2. admitted' = admitted \ {request}
    BY <1>4 DEF CreateInsert
  <2>3. /\ \A i, j \in Used :
               rows[i].ext # Blank /\ rows[i].ext = rows[j].ext => i = j
        /\ \A id \in Used : rows[id].ext # request.ext
        /\ \A other \in admitted' : other.ext # request.ext
        /\ \A other \in admitted' :
               /\ \A id \in Used : rows[id].ext # other.ext
               /\ \A third \in admitted' :
                      third.ext = other.ext => third = other
    BY <1>1, <2>2 DEF ExternalIdsUnique
  <2> QED
    BY <2>1, <2>3 DEF ExternalIdsUnique
<1>5. ASSUME NEW old \in Ids, NEW t \in Tokens, Checkout(old, t)
      PROVE  ExternalIdsUnique'
  <2>1. /\ old \in Used
        /\ Used' = Used
        /\ rows'[old].ext = t
        /\ admitted' = admitted
        /\ \A id \in Used : id # old => rows'[id] = rows[id]
    BY <1>1, <1>5, ClosedRow DEF Checkout
  <2>2. \/ Unseen(t)
        \/ t = rows[old].ext
    BY <1>5 DEF Checkout
  <2>3. /\ t # Blank
        /\ \A id \in Used : id # old => rows[id].ext # t
        /\ \A request \in admitted : request.ext # t
    BY <1>1, <2>1, <2>2 DEF Unseen, ExternalIdsUnique
  <2> QED
    BY <1>1, <2>1, <2>3 DEF ExternalIdsUnique
<1>6. ASSUME NEW c \in Callers, SyncStep(c), rows' # rows
      PROVE  ExternalIdsUnique'
  <2>1. PICK status \in SyncStatuses :
            /\ pc[c] \in {"sent", "failed"}
            /\ rows' = [rows EXCEPT ![cur[c].id] =
                           [rows[cur[c].id] EXCEPT !.sync = status]]
            /\ admitted' = admitted
    BY <1>6 DEF SyncStep, RunOnce, FindAccessLogRows, FindFails,
                AppendAccessLog, AppendFails, MarkSynced, MarkSyncedFails,
                MarkSyncError, SyncStatuses
  <2>2. /\ Used' = Used
        /\ \A id \in Used : rows'[id].ext = rows[id].ext
    BY <1>1, <2>1, MarkedRows
  <2> QED
    BY <1>1, <2>1, <2>2 DEF ExternalIdsUnique
<1>7. ASSUME NEW c \in Callers, SyncStep(c)
      PROVE  admitted' = admitted
  BY <1>7 DEF SyncStep, RunOnce, FindAccessLogRows, FindFails,
              AppendAccessLog, AppendFails, MarkSynced, MarkSyncedFails,
              MarkSyncError
<1>8. ASSUME NEW i \in Importers, ImportStep(i)
      PROVE  rows' = rows /\ admitted' = admitted
  BY <1>8, ImportsChangeNothing
     DEF ImportStep, ReadAccessLogs, UpsertImported, UpdateImported,
         InsertImported
<1>9. ASSUME NEW request \in admitted, NEW new \in Ids,
             CreateInsert(request, new)
      PROVE  admitted' \subseteq admitted
  BY <1>9 DEF CreateInsert
<1>10. Crash => rows' = rows /\ admitted' \subseteq admitted
  BY DEF Crash
<1>11. UNCHANGED vars => rows' = rows /\ admitted' \subseteq admitted
  BY DEF vars
<1> QED
  BY <1>2, <1>3, <1>4, <1>5, <1>6, <1>7, <1>8, <1>9, <1>10, <1>11
     DEF Next, HandlerStep

-----------------------------------------------------------------------------
(* What a write does to the sheet: it replaces the row of the visit, or    *)
(* adds one when the sheet has none.                                       *)
SheetWritten(e) ==
    /\ \A k \in DOMAIN sheet :
           /\ k \in DOMAIN sheet'
           /\ sheet'[k] = IF k \in SameId(e) THEN e ELSE sheet[k]
    /\ \A k \in DOMAIN sheet' \ DOMAIN sheet :
           /\ SameId(e) = {}
           /\ sheet'[k] = e
           /\ \A j \in DOMAIN sheet' \ DOMAIN sheet : j = k
    /\ SameId(e) = {} => DOMAIN sheet' # DOMAIN sheet

LEMMA WriteReplacesOrAdds ==
    ASSUME TypeInv, NEW e \in Entry, sheet' = Written(SameId(e), e)
    PROVE  SheetWritten(e)
<1> DEFINE n == Len(sheet)
<1>1. /\ n \in Nat
      /\ DOMAIN sheet = 1..n
      /\ sheet \in Seq(Entry)
  BY DEF TypeInv, TypeOK
<1>2. CASE SameId(e) = {}
  <2>1. sheet' = Append(sheet, e)
    BY <1>2 DEF Written
  <2>2. /\ DOMAIN sheet' = 1..(n + 1)
        /\ \A k \in 1..n : sheet'[k] = sheet[k]
        /\ sheet'[n + 1] = e
    BY <1>1, <2>1
  <2>3. \A k \in DOMAIN sheet' \ DOMAIN sheet : k = n + 1
    BY <1>1, <2>2
  <2>4. n + 1 \in DOMAIN sheet' /\ n + 1 \notin DOMAIN sheet
    BY <1>1, <2>2
  <2>5. \A k \in DOMAIN sheet : k \in DOMAIN sheet'
    BY <1>1, <2>2
  <2> QED
    BY <1>1, <1>2, <2>2, <2>3, <2>4, <2>5 DEF SheetWritten
<1>3. CASE SameId(e) # {}
  <2>1. sheet' = [k \in DOMAIN sheet |->
                     IF k \in SameId(e) THEN e ELSE sheet[k]]
    BY <1>3 DEF Written
  <2>2. DOMAIN sheet' = DOMAIN sheet
    BY <2>1
  <2> QED
    BY <1>3, <2>1, <2>2 DEF SheetWritten
<1> QED
  BY <1>2, <1>3

(* A pass that writes has found the row of its visit, and a write of one   *)
(* row fails wholly or not at all.                                         *)
LEMMA SheetWrites ==
    ASSUME SheetInv, [Next]_vars, sheet' # sheet
    PROVE  \E c \in Callers :
               /\ AppendAccessLog(c) \/ AppendFails(c)
               /\ cur[c] \in Entry
               /\ Known(cur[c])
               /\ cur[c] \in batch[c]
               /\ lock = c
               /\ SheetWritten(cur[c])
<1>1. PICK c \in Callers : AppendAccessLog(c) \/ AppendFails(c)
  <2>1. ASSUME NEW i \in Importers, ImportStep(i)
        PROVE  FALSE
    BY <2>1, ImportsChangeNothing
  <2>2. ASSUME NEW c \in Callers, SyncStep(c)
        PROVE  AppendAccessLog(c) \/ AppendFails(c)
    BY <2>2 DEF SyncStep, RunOnce, FindAccessLogRows, FindFails, MarkSynced,
                MarkSyncedFails, MarkSyncError
  <2> QED
    BY <2>1, <2>2 DEF Next, HandlerStep, CreateCheck, CreateInsert, Checkout,
                      Crash, vars
<1> DEFINE e == cur[c]
<1>2. /\ pc[c] = "write"
      /\ e \in Entry
      /\ e \in batch[c]
      /\ Known(e)
      /\ lock = c
      /\ hits[c] = SameId(e)
  BY <1>1 DEF AppendAccessLog, AppendFails, SheetInv, PassKnown, TypeInv,
              TypeOK
<1>3. \A last \in SameId(e) : {k \in SameId(e) : k <= last} = SameId(e)
  <2> SUFFICES ASSUME NEW last \in SameId(e), NEW k \in SameId(e)
               PROVE  k <= last
    OBVIOUS
  <2>1. k = last
    BY DEF SheetInv, SheetKnown, SameId
  <2>2. last \in Nat
    BY SheetTypes DEF SheetInv, SameId
  <2> QED
    BY <2>1, <2>2
<1>4. sheet' = Written(SameId(e), e)
  <2>1. CASE AppendAccessLog(c)
    BY <1>2, <2>1 DEF AppendAccessLog
  <2>2. CASE AppendFails(c)
    BY <1>2, <1>3, <2>2 DEF AppendFails
  <2> QED
    BY <1>1, <2>1, <2>2
<1> HIDE DEF e
<1>5. SheetWritten(e)
  BY <1>2, <1>4, WriteReplacesOrAdds DEF SheetInv
<1> QED
  BY <1>1, <1>2, <1>5 DEF e

(* The sheet keeps one row of each visit.                                  *)
LEMMA SheetStaysKnown ==
    ASSUME SheetInv, TypeInv', [Next]_vars
    PROVE  /\ \A k \in DOMAIN sheet' :
                  /\ Known(sheet[k])'
                  /\ \A j \in DOMAIN sheet' :
                         sheet'[j].id = sheet'[k].id => j = k
<1>1. TypeInv /\ SheetKnown /\ RowsAdvance
  BY RowsOnlyAdvance DEF SheetInv
<1>2. ASSUME NEW e \in Entry, Known(e)
      PROVE  e.id \in Used' /\ Precedes(e, rows'[e.id])
  BY <1>1, <1>2, KnownStays
<1>3. \A k \in DOMAIN sheet :
          /\ sheet[k] \in Entry
          /\ Known(sheet[k])
          /\ \A j \in DOMAIN sheet : sheet[j].id = sheet[k].id => j = k
  BY <1>1, SheetTypes DEF SheetKnown
<1>4. CASE sheet' = sheet
  BY <1>2, <1>3, <1>4 DEF Known
<1>5. CASE sheet' # sheet
  <2>1. PICK c \in Callers :
            cur[c] \in Entry /\ Known(cur[c]) /\ SheetWritten(cur[c])
    BY <1>5, SheetWrites
  <2> DEFINE e == cur[c]
  <2>2. /\ e \in Entry
        /\ Known(e)
        /\ SheetWritten(e)
    BY <2>1
  <2> HIDE DEF e
  <2>3. \A k \in DOMAIN sheet :
            /\ k \in DOMAIN sheet'
            /\ sheet'[k] \in {e, sheet[k]}
            /\ sheet'[k].id = sheet[k].id
    BY <2>2 DEF SheetWritten, SameId
  <2>4. \A k \in DOMAIN sheet' \ DOMAIN sheet :
            /\ sheet'[k] = e
            /\ \A j \in DOMAIN sheet : sheet[j].id # e.id
            /\ \A j \in DOMAIN sheet' \ DOMAIN sheet : j = k
    BY <2>2 DEF SheetWritten, SameId
  <2>5. ASSUME NEW k \in DOMAIN sheet'
        PROVE  Known(sheet[k])'
    <3>1. sheet'[k] \in Entry /\ Known(sheet'[k])
      BY <1>3, <2>2, <2>3, <2>4
    <3> QED
      BY <1>2, <3>1 DEF Known
  <2>6. ASSUME NEW j \in DOMAIN sheet', NEW k \in DOMAIN sheet',
               sheet'[j].id = sheet'[k].id
        PROVE  j = k
    BY <1>3, <2>3, <2>4, <2>6
  <2> QED
    BY <2>5, <2>6
<1> QED
  BY <1>4, <1>5

(* No row leaves the sheet, and none of them changes its visit.            *)
LEMMA SheetRowsStay ==
    ASSUME SheetInv, [Next]_vars, NEW k \in DOMAIN sheet
    PROVE  k \in DOMAIN sheet' /\ sheet'[k].id = sheet[k].id
<1>1. CASE sheet' = sheet
  BY <1>1
<1>2. CASE sheet' # sheet
  BY <1>2, SheetWrites DEF SheetWritten, SameId
<1> QED
  BY <1>1, <1>2

(* A visit is acknowledged after its row was written.                      *)
LEMMA AcknowledgedStays ==
    ASSUME SheetInv, [Next]_vars
    PROVE  AcknowledgedHasRow'
<1> DEFINE InSheet(id) == \E k \in DOMAIN sheet : sheet[k].id = id
<1> USE ConstantsAssumption
<1>1. /\ TypeInv
      /\ \A id \in Used : rows[id].sync = "SINCRONIZADO" => InSheet(id)
  BY DEF SheetInv, SheetKnown, AcknowledgedHasRow
<1>2. SUFFICES ASSUME NEW id \in Used', rows'[id].sync = "SINCRONIZADO"
               PROVE  InSheet(id)
  <2>1. \A id \in Used' : rows'[id].sync = "SINCRONIZADO" =>
            \E k \in DOMAIN sheet' : sheet'[k].id = id
    BY <1>2, SheetRowsStay
  <2> QED
    BY <2>1 DEF AcknowledgedHasRow
<1>3. CASE id \in Used /\ rows'[id].sync = rows[id].sync
  BY <1>1, <1>2, <1>3
<1>4. ASSUME rows' = rows
      PROVE  InSheet(id)
  <2>1. Used' = Used
    BY <1>4 DEF Used
  <2> QED
    BY <1>3, <1>4, <2>1
<1>5. ASSUME NEW request \in admitted, NEW new \in Ids,
             CreateInsert(request, new)
      PROVE  InSheet(id)
  <2>1. CASE rows' # rows
    <3>1. /\ Used' = Used \union {new}
          /\ rows'[new].sync = "PENDENTE_SYNC"
          /\ \A other \in Used : rows'[other] = rows[other]
      BY <1>1, <1>5, <2>1, InsertedRow
    <3> QED
      BY <1>2, <1>3, <3>1
  <2> QED
    BY <1>4, <2>1
<1>6. ASSUME NEW old \in Ids, NEW t \in Tokens, Checkout(old, t)
      PROVE  InSheet(id)
  <2>1. /\ Used' = Used
        /\ rows'[old].sync = "PENDENTE_SYNC"
        /\ \A other \in Used : other # old => rows'[other] = rows[other]
    BY <1>1, <1>6, ClosedRow
  <2> QED
    BY <1>2, <1>3, <2>1
<1>7. ASSUME NEW c \in Callers, SyncStep(c)
      PROVE  InSheet(id)
  <2>1. CASE MarkSynced(c)
    <3>1. /\ pc[c] \in {"sent", "failed"}
          /\ rows' = [rows EXCEPT ![cur[c].id] =
                         [rows[cur[c].id] EXCEPT !.sync = "SINCRONIZADO"]]
      BY <2>1 DEF MarkSynced
    <3>2. /\ Used' = Used
          /\ \A other \in Used :
                 rows'[other].sync = IF other = cur[c].id
                                     THEN "SINCRONIZADO"
                                     ELSE rows[other].sync
      BY <1>1, <3>1, MarkedRows DEF SyncStatuses
    <3>3. InSheet(cur[c].id)
      BY <2>1 DEF MarkSynced, SheetInv, PassKnown, SameId
    <3>4. id # cur[c].id => rows'[id].sync = rows[id].sync
      BY <1>2, <3>2
    <3> QED
      BY <1>2, <1>3, <3>2, <3>3, <3>4
  <2>2. CASE MarkSyncError(c) /\ rows' # rows
    <3>1. /\ pc[c] \in {"sent", "failed"}
          /\ rows' = [rows EXCEPT ![cur[c].id] =
                         [rows[cur[c].id] EXCEPT !.sync = "ERRO_SYNC"]]
      BY <2>2 DEF MarkSyncError
    <3>2. /\ Used' = Used
          /\ \A other \in Used :
                 rows'[other].sync = IF other = cur[c].id THEN "ERRO_SYNC"
                                     ELSE rows[other].sync
      BY <1>1, <3>1, MarkedRows DEF SyncStatuses
    <3> QED
      BY <1>2, <1>3, <3>2
  <2>3. MarkSynced(c) \/ MarkSyncError(c) \/ rows' = rows
    BY <1>7 DEF SyncStep, RunOnce, FindAccessLogRows, FindFails,
                AppendAccessLog, AppendFails, MarkSyncedFails
  <2> QED
    BY <1>4, <2>1, <2>2, <2>3
<1>8. ASSUME NEW i \in Importers, ImportStep(i)
      PROVE  InSheet(id)
  BY <1>4, <1>8, ImportsChangeNothing
<1> QED
  BY <1>4, <1>5, <1>6, <1>7, <1>8
     DEF Next, HandlerStep, CreateCheck, Crash, vars

(* A pass: what it holds stays known and not older than the sheet.         *)
PassHolds(b) ==
    \A e \in b :
        /\ Known(e)
        /\ \A k \in SameId(e) : Precedes(sheet[k], e)
        /\ \A f \in b : f.id = e.id => f = e

LEMMA BatchStays ==
    ASSUME SheetInv, TypeInv', [Next]_vars, NEW c \in Callers,
           sheet' = sheet \/ AppendAccessLog(c) \/ AppendFails(c),
           NEW b \in SUBSET batch[c]
    PROVE  PassHolds(b)'
<1>1. /\ TypeInv
      /\ RowsAdvance
      /\ b \subseteq Entry
      /\ PassHolds(b)
  BY RowsOnlyAdvance DEF SheetInv, PassKnown, PassHolds, TypeInv, TypeOK
<1>2. ASSUME NEW e \in b
      PROVE  e.id \in Used' /\ Precedes(e, rows'[e.id])
  BY <1>1, <1>2, KnownStays DEF PassHolds
<1>3. ASSUME NEW e \in b, NEW k \in DOMAIN sheet', sheet'[k].id = e.id
      PROVE  Precedes(sheet'[k], e)
  <2>1. CASE sheet' = sheet
    BY <1>1, <1>3, <2>1 DEF PassHolds, SameId
  <2>2. CASE sheet' # sheet
    <3>1. PICK d \in Callers :
              /\ AppendAccessLog(d) \/ AppendFails(d)
              /\ cur[d] \in batch[d]
              /\ lock = d
              /\ SheetWritten(cur[d])
      BY <2>2, SheetWrites
    <3>2. d = c
      BY <2>2, <3>1 DEF AppendAccessLog, AppendFails, SheetInv, PassKnown
    <3> DEFINE w == cur[c]
    <3>3. /\ w \in batch[c]
          /\ w \in Entry
          /\ SheetWritten(w)
          /\ w.id = e.id => w = e
      BY <3>1, <3>2 DEF SheetInv, PassKnown, TypeInv, TypeOK
    <3> HIDE DEF w
    <3>4. CASE k \in DOMAIN sheet /\ k \notin SameId(w)
      <4>1. sheet'[k] = sheet[k] /\ k \in SameId(e)
        BY <1>3, <3>3, <3>4 DEF SheetWritten, SameId
      <4> QED
        BY <1>1, <4>1 DEF PassHolds
    <3>5. CASE k \in SameId(w) \/ k \notin DOMAIN sheet
      <4>1. sheet'[k] = w
        BY <1>3, <3>3, <3>5 DEF SheetWritten, SameId
      <4>2. sheet'[k] = e
        BY <1>3, <3>3, <4>1
      <4> QED
        BY <1>1, <4>2, PrecedesReflexive
    <3> QED
      BY <3>4, <3>5
  <2> QED
    BY <2>1, <2>2
<1>4. ASSUME NEW e \in b
      PROVE  /\ e.id \in Used' /\ Precedes(e, rows'[e.id])
             /\ \A k \in DOMAIN sheet' :
                    sheet'[k].id = e.id => Precedes(sheet'[k], e)
             /\ \A f \in b : f.id = e.id => f = e
  BY <1>1, <1>2, <1>3, <1>4 DEF PassHolds
<1> QED
  BY <1>4 DEF PassHolds, Known, SameId

(* The list RunOnce starts with.                                           *)
LEMMA ListKnown ==
    ASSUME SheetInv
    PROVE  PassHolds(PendingSync)
<1>1. ASSUME NEW id \in Used
      PROVE  /\ Known(EntryOf(id))
             /\ EntryOf(id).id = id
             /\ \A k \in SameId(EntryOf(id)) :
                    Precedes(sheet[k], EntryOf(id))
  <2>1. /\ rows[id] \in Row
        /\ EntryOf(id) \in Entry
    BY EntriesOfRows DEF SheetInv, TypeInv, TypeOK, Used
  <2>2. /\ EntryOf(id).id = id
        /\ EntryOf(id).ext = rows[id].ext
        /\ EntryOf(id).doc = rows[id].doc
        /\ EntryOf(id).open = rows[id].open
    BY DEF EntryOf
  <2>3. /\ Precedes(EntryOf(id), rows[id])
        /\ Precedes(rows[id], EntryOf(id))
    BY <2>1, <2>2, PrecedesReflexive
  <2>4. ASSUME NEW k \in SameId(EntryOf(id))
        PROVE  Precedes(sheet[k], EntryOf(id))
    <3>1. /\ sheet[k] \in Entry
          /\ Precedes(sheet[k], rows[id])
      BY <2>2, SheetTypes DEF SameId, SheetInv, SheetKnown, Known
    <3> QED
      BY <2>1, <2>3, <3>1, PrecedesTransitive
  <2> QED
    BY <2>2, <2>3, <2>4 DEF Known
<1> QED
  BY <1>1 DEF PassHolds, PendingSync

(* A pass holds the lock while it runs, and its record is in its batch.    *)
PassAt(c) ==
    /\ IF pc[c] = "idle" THEN batch[c] = {} ELSE lock = c
    /\ pc[c] \in {"write", "sent", "failed"} => cur[c] \in batch[c]
    /\ pc[c] = "write" => hits[c] = SameId(cur[c])
    /\ pc[c] = "sent" => SameId(cur[c]) # {}

LEMMA ContinueKeepsPass ==
    ASSUME SheetInv, NEW c \in Callers, pc[c] # "idle",
           NEW rest \in SUBSET batch[c], Continue(c, rest), NEW d \in Callers
    PROVE  PassAt(d)'
<1>1. /\ pc \in [Callers -> {"idle", "pick", "write", "sent", "failed"}]
      /\ batch \in [Callers -> SUBSET Entry]
      /\ lock = c
      /\ d # c => pc[d] = "idle" /\ batch[d] = {}
  BY DEF SheetInv, TypeInv, TypeOK, PassKnown
<1>2. CASE d = c
  <2>1. /\ batch'[c] = rest
        /\ pc'[c] = IF rest = {} THEN "idle" ELSE "pick"
        /\ lock' = IF rest = {} THEN Nobody ELSE c
    BY <1>1 DEF Continue
  <2> QED
    BY <1>2, <2>1 DEF PassAt
<1>3. CASE d # c
  <2>1. pc'[d] = "idle" /\ batch'[d] = {}
    BY <1>1, <1>3 DEF Continue
  <2> QED
    BY <2>1 DEF PassAt
<1> QED
  BY <1>2, <1>3

LEMMA PassStaysAt ==
    ASSUME SheetInv, [Next]_vars, NEW d \in Callers
    PROVE  PassAt(d)'
<1> USE ConstantsAssumption
<1>1. /\ TypeInv
      /\ pc \in [Callers -> {"idle", "pick", "write", "sent", "failed"}]
      /\ batch \in [Callers -> SUBSET Entry]
      /\ cur \in [Callers -> Entry \union {NoRow}]
      /\ hits \in [Callers -> SUBSET Nat]
      /\ PassAt(d)
  BY DEF SheetInv, TypeInv, TypeOK, PassKnown, PassAt
<1>2. ASSUME pc' = pc, batch' = batch, cur' = cur, hits' = hits, lock' = lock,
             sheet' = sheet
      PROVE  PassAt(d)'
  <2>1. SameId(cur[d])' = SameId(cur[d])
    BY <1>2 DEF SameId
  <2> QED
    BY <1>1, <1>2, <2>1 DEF PassAt
<1>3. HandlerStep => PassAt(d)'
  BY <1>2 DEF HandlerStep, CreateCheck, CreateInsert, Checkout, syncVars
<1>4. ASSUME NEW i \in Importers, ImportStep(i)
      PROVE  PassAt(d)'
  BY <1>2, <1>4 DEF ImportStep, ReadAccessLogs, UpsertImported,
                    UpdateImported, InsertImported, syncVars
<1>5. CASE Crash
  BY <1>5 DEF Crash, PassAt
<1>6. CASE UNCHANGED vars
  BY <1>2, <1>6 DEF vars, syncVars
<1>7. ASSUME NEW c \in Callers, SyncStep(c)
      PROVE  PassAt(d)'
  <2>1. ASSUME d # c, pc[c] # "idle", pc'[d] = pc[d], batch'[d] = batch[d]
        PROVE  PassAt(d)'
    <3>1. pc[d] = "idle" /\ batch[d] = {}
      BY <2>1 DEF SheetInv, PassKnown
    <3> QED
      BY <2>1, <3>1 DEF PassAt
  <2>2. CASE RunOnce(c)
    <3>1. CASE d = c
      <4>1. pc'[d] = "pick" /\ lock' = d
        BY <1>1, <2>2, <3>1 DEF RunOnce
      <4> QED
        BY <4>1 DEF PassAt
    <3>2. CASE d # c
      <4>1. lock # d /\ pc[d] = "idle" /\ batch[d] = {}
        BY <1>1, <2>2 DEF RunOnce, TryLock, PassAt
      <4>2. pc'[d] = "idle" /\ batch'[d] = {}
        BY <2>2, <3>2, <4>1 DEF RunOnce
      <4> QED
        BY <4>2 DEF PassAt
    <3> QED
      BY <3>1, <3>2
  <2>3. ASSUME NEW e \in batch[c], FindAccessLogRows(c, e)
        PROVE  PassAt(d)'
    <3>1. CASE d = c
      <4>1. /\ e \in Entry
            /\ Known(e)
            /\ lock = c
        BY <1>1, <2>3 DEF FindAccessLogRows, SheetInv, PassKnown
      <4>2. /\ pc'[c] = "write"
            /\ cur'[c] = e
            /\ hits'[c] = SameId(e)
            /\ batch' = batch
            /\ lock' = c
            /\ sheet' = sheet
        BY <1>1, <2>3, <4>1, SearchFindsVisit DEF FindAccessLogRows
      <4>3. SameId(cur[c])' = SameId(e)
        BY <4>2 DEF SameId
      <4> QED
        BY <3>1, <4>2, <4>3 DEF PassAt
    <3>2. CASE d # c
      BY <1>1, <2>1, <2>3, <3>2 DEF FindAccessLogRows
    <3> QED
      BY <3>1, <3>2
  <2>4. ASSUME NEW e \in batch[c], FindFails(c, e)
        PROVE  PassAt(d)'
    <3>1. CASE d = c
      <4>1. /\ pc'[c] = "failed"
            /\ cur'[c] = e
            /\ batch' = batch
            /\ lock' = c
        BY <1>1, <2>4 DEF FindFails, SheetInv, PassKnown
      <4> QED
        BY <3>1, <4>1 DEF PassAt
    <3>2. CASE d # c
      BY <1>1, <2>1, <2>4, <3>2 DEF FindFails
    <3> QED
      BY <3>1, <3>2
  <2>5. CASE AppendAccessLog(c)
    <3>1. CASE d = c
      <4>1. /\ pc[c] = "write"
            /\ pc'[c] = "sent"
            /\ cur' = cur
            /\ batch' = batch
            /\ lock' = lock
            /\ cur[c] \in batch[c]
            /\ cur[c] \in Entry
            /\ lock = c
            /\ sheet' = Written(SameId(cur[c]), cur[c])
        BY <1>1, <2>5 DEF AppendAccessLog, SheetInv, PassKnown
      <4>2. SheetWritten(cur[c])
        BY <1>1, <4>1, WriteReplacesOrAdds
      <4>3. SameId(cur[c])' # {}
        <5>1. \E k \in DOMAIN sheet' : sheet'[k] = cur[c]
          <6>1. CASE SameId(cur[c]) = {}
            <7>1. PICK k \in DOMAIN sheet' : k \notin DOMAIN sheet
              BY <4>2, <6>1 DEF SheetWritten
            <7> QED
              BY <4>2, <7>1 DEF SheetWritten
          <6>2. CASE SameId(cur[c]) # {}
            BY <4>2, <6>2 DEF SheetWritten, SameId
          <6> QED
            BY <6>1, <6>2
        <5> QED
          BY <4>1, <5>1 DEF SameId
      <4> QED
        BY <3>1, <4>1, <4>3 DEF PassAt
    <3>2. CASE d # c
      BY <1>1, <2>1, <2>5, <3>2 DEF AppendAccessLog
    <3> QED
      BY <3>1, <3>2
  <2>6. CASE AppendFails(c)
    <3>1. CASE d = c
      <4>1. /\ pc'[c] = "failed"
            /\ cur' = cur
            /\ batch' = batch
            /\ lock' = c
            /\ cur[c] \in batch[c]
        BY <1>1, <2>6 DEF AppendFails, SheetInv, PassKnown
      <4> QED
        BY <3>1, <4>1 DEF PassAt
    <3>2. CASE d # c
      BY <1>1, <2>1, <2>6, <3>2 DEF AppendFails
    <3> QED
      BY <3>1, <3>2
  <2>7. CASE MarkSynced(c) \/ MarkSyncedFails(c) \/ MarkSyncError(c)
    <3>1. PICK rest \in SUBSET batch[c] : Continue(c, rest) /\ pc[c] # "idle"
      BY <2>7 DEF MarkSynced, MarkSyncedFails, MarkSyncError
    <3> QED
      BY <3>1, ContinueKeepsPass
  <2> QED
    BY <1>7, <2>2, <2>3, <2>4, <2>5, <2>6, <2>7 DEF SyncStep
<1> QED
  BY <1>3, <1>4, <1>5, <1>6, <1>7 DEF Next

LEMMA PassStaysKnown ==
    ASSUME SheetInv, TypeInv', [Next]_vars, NEW d \in Callers
    PROVE  PassHolds(batch[d])'
<1> USE ConstantsAssumption
<1>1. batch \in [Callers -> SUBSET Entry]
  BY DEF SheetInv, TypeInv, TypeOK
<1>2. ASSUME batch'[d] = {}
      PROVE  PassHolds(batch[d])'
  BY <1>2 DEF PassHolds
<1>3. ASSUME NEW b \in SUBSET batch[d], batch'[d] = b,
             sheet' = sheet \/ AppendAccessLog(d) \/ AppendFails(d)
      PROVE  PassHolds(batch[d])'
  BY <1>3, BatchStays DEF PassHolds
<1>4. ASSUME batch' = batch, sheet' = sheet
      PROVE  PassHolds(batch[d])'
  BY <1>3, <1>4
<1>5. HandlerStep \/ UNCHANGED vars => PassHolds(batch[d])'
  BY <1>4 DEF HandlerStep, CreateCheck, CreateInsert, Checkout, syncVars, vars
<1>6. ASSUME NEW i \in Importers, ImportStep(i)
      PROVE  PassHolds(batch[d])'
  BY <1>4, <1>6 DEF ImportStep, ReadAccessLogs, UpsertImported,
                    UpdateImported, InsertImported, syncVars
<1>7. CASE Crash
  BY <1>2, <1>7 DEF Crash
<1>8. ASSUME NEW c \in Callers, SyncStep(c)
      PROVE  PassHolds(batch[d])'
  <2>1. CASE RunOnce(c)
    <3>1. CASE d = c
      <4>1. /\ batch'[d] = PendingSync
            /\ rows' = rows
            /\ sheet' = sheet
        BY <1>1, <2>1, <3>1 DEF RunOnce
      <4>2. PassHolds(PendingSync)
        BY ListKnown
      <4> QED
        BY <4>1, <4>2 DEF PassHolds, Known, SameId, Used
    <3>2. CASE d # c
      <4>1. batch'[d] = batch[d] /\ sheet' = sheet
        BY <1>1, <2>1, <3>2 DEF RunOnce
      <4> QED
        BY <1>3, <4>1
    <3> QED
      BY <3>1, <3>2
  <2>2. ASSUME NEW e \in batch[c], FindAccessLogRows(c, e) \/ FindFails(c, e)
        PROVE  PassHolds(batch[d])'
    BY <1>4, <2>2 DEF FindAccessLogRows, FindFails
  <2>3. CASE AppendAccessLog(c) \/ AppendFails(c)
    <3>1. CASE d = c
      <4>1. batch' = batch
        BY <2>3 DEF AppendAccessLog, AppendFails
      <4> QED
        BY <1>3, <2>3, <3>1, <4>1
    <3>2. CASE d # c
      <4>1. batch'[d] = {}
        BY <2>3, <3>2 DEF AppendAccessLog, AppendFails, SheetInv, PassKnown
      <4> QED
        BY <1>2, <4>1
    <3> QED
      BY <3>1, <3>2
  <2>4. CASE MarkSynced(c) \/ MarkSyncedFails(c) \/ MarkSyncError(c)
    <3>1. PICK rest \in SUBSET batch[c] : Continue(c, rest) /\ sheet' = sheet
      BY <2>4 DEF MarkSynced, MarkSyncedFails, MarkSyncError
    <3>2. batch'[d] \in SUBSET batch[d]
      BY <1>1, <3>1 DEF Continue
    <3> QED
      BY <1>3, <3>1, <3>2
  <2> QED
    BY <1>8, <2>1, <2>2, <2>3, <2>4 DEF SyncStep
<1> QED
  BY <1>5, <1>6, <1>7, <1>8 DEF Next

(* What an import has read stays known, whatever happens to the table.     *)
LEMMA ImportStaysKnown ==
    ASSUME SheetInv, TypeInv', [Next]_vars, NEW i \in Importers
    PROVE  ImportKnown(i)'
<1>1. /\ TypeInv
      /\ ExternalIdsUnique
      /\ RowsAdvance
      /\ ImportKnown(i)
      /\ step \in [Importers -> {"idle", "lookup", "apply"}]
      /\ todo \in [Importers -> Seq(Entry)]
      /\ found \in [Importers -> 0..MaxId]
  BY RowsOnlyAdvance DEF SheetInv, TypeInv, TypeOK
<1>2. ASSUME NEW e \in Entry, Known(e)
      PROVE  Known(e)'
  BY <1>1, <1>2, KnownStays DEF Known
<1>3. ASSUME NEW seq \in Seq(Entry), \A k \in DOMAIN seq : Known(seq[k]),
             todo'[i] = seq
      PROVE  \A k \in DOMAIN todo'[i] : Known(todo[i][k])'
  <2> SUFFICES ASSUME NEW k \in DOMAIN seq
               PROVE  Known(seq[k])'
    BY <1>3
  <2>1. seq[k] \in Entry
    BY <1>3
  <2> QED
    BY <1>2, <1>3, <2>1
<1>4. ASSUME todo'[i] = todo[i], step'[i] = step[i], found'[i] = found[i]
      PROVE  ImportKnown(i)'
  <2>1. \A k \in DOMAIN todo'[i] : Known(todo[i][k])'
    BY <1>1, <1>3, <1>4 DEF ImportKnown
  <2> QED
    BY <1>1, <1>4, <2>1 DEF ImportKnown
<1>5. HandlerStep \/ UNCHANGED vars => ImportKnown(i)'
  BY <1>4 DEF HandlerStep, CreateCheck, CreateInsert, Checkout, importVars,
              vars
<1>6. ASSUME NEW c \in Callers, SyncStep(c)
      PROVE  ImportKnown(i)'
  BY <1>4, <1>6 DEF SyncStep, RunOnce, FindAccessLogRows, FindFails,
                    AppendAccessLog, AppendFails, MarkSynced,
                    MarkSyncedFails, MarkSyncError, importVars
<1>7. CASE Crash
  <2>1. todo'[i] = <<>> /\ step'[i] = "idle"
    BY <1>7 DEF Crash
  <2> QED
    BY <2>1 DEF ImportKnown
<1>8. ASSUME NEW j \in Importers, ImportStep(j), j # i
      PROVE  ImportKnown(i)'
  BY <1>1, <1>4, <1>8 DEF ImportStep, ReadAccessLogs, UpsertImported,
                    UpdateImported, InsertImported, NextImported
<1>9. CASE ReadAccessLogs(i)
  <2>1. sheet \in Seq(Entry) /\ \A k \in DOMAIN sheet : Known(sheet[k])
    BY DEF SheetInv, SheetKnown, TypeInv, TypeOK
  <2>2. todo'[i] = sheet /\ step'[i] = "lookup"
    BY <1>1, <1>9 DEF ReadAccessLogs
  <2>3. \A k \in DOMAIN todo'[i] : Known(todo[i][k])'
    BY <1>3, <2>1, <2>2
  <2> QED
    BY <2>2, <2>3 DEF ImportKnown
<1>10. CASE UpsertImported(i)
  <2> DEFINE e == Head(todo[i])
  <2>1. /\ e \in Entry
        /\ Known(e)
    BY <1>10, ImportedKnown DEF UpsertImported
  <2>2. ImportTarget(e) = e.id
    <3> HIDE DEF e
    <3>1. /\ e.id \in Used
          /\ e.ext # Blank => rows[e.id].ext = e.ext
      BY <1>1, <2>1, KnownRow
    <3>2. CASE e.ext # Blank
      <4>1. \A id \in Used : rows[id].ext = e.ext => id = e.id
        BY <1>1, <3>1, <3>2 DEF ExternalIdsUnique
      <4>2. (CHOOSE id \in Used : rows[id].ext = e.ext) = e.id
        BY <3>1, <3>2, <4>1
      <4> QED
        BY <3>1, <3>2, <4>2 DEF ImportTarget
    <3> QED
      BY <3>2 DEF ImportTarget
  <2>3. /\ todo'[i] = todo[i]
        /\ found'[i] = e.id
    BY <1>1, <1>10, <2>2 DEF UpsertImported
  <2>4. \A k \in DOMAIN todo'[i] : Known(todo[i][k])'
    BY <1>1, <1>3, <2>3 DEF ImportKnown
  <2> QED
    BY <2>3, <2>4 DEF ImportKnown
<1>11. ASSUME UpdateImported(i) \/ \E id \in Ids : InsertImported(i, id)
       PROVE  ImportKnown(i)'
  <2>1. PICK rest \in {<<>>, Tail(todo[i])} :
            NextImported(i, rest) /\ step[i] = "apply"
    BY <1>11 DEF UpdateImported, InsertImported
  <2>2. todo[i] \in Seq(Entry) /\ todo[i] # <<>>
    BY <2>1 DEF SheetInv, TypeInv, TypeOK
  <2>3. /\ rest \in Seq(Entry)
        /\ \A k \in DOMAIN rest : Known(rest[k])
    <3>1. CASE rest = <<>>
      BY <3>1
    <3>2. CASE rest = Tail(todo[i])
      <4>1. \A k \in DOMAIN rest :
                k + 1 \in DOMAIN todo[i] /\ rest[k] = todo[i][k + 1]
        BY <2>2, <3>2
      <4> QED
        BY <1>1, <2>2, <3>2, <4>1 DEF ImportKnown
    <3> QED
      BY <2>1, <3>1, <3>2
  <2>4. todo'[i] = rest /\ step'[i] # "apply"
    BY <1>1, <2>1 DEF NextImported
  <2>5. \A k \in DOMAIN todo'[i] : Known(todo[i][k])'
    BY <1>3, <2>3, <2>4
  <2> QED
    BY <2>4, <2>5 DEF ImportKnown
<1> QED
  BY <1>5, <1>6, <1>7, <1>8, <1>9, <1>10, <1>11 DEF Next, ImportStep

-----------------------------------------------------------------------------
(* The invariant of a database and the sheet it alone has written.         *)
LEMMA SheetInvInitially ==
    ASSUME AgreedInstallations, Init
    PROVE  SheetInv
<1> USE ConstantsAssumption, InstallationsAssumption
<1>1. TypeInv
  BY DEF Init, TypeInv, TypeOK, RecordsHaveRows
<1>2. PICK start \in Installations : rows = start.rows /\ sheet = start.sheet
  BY DEF Init
<1>3. ExternalIdsUnique
  BY <1>2 DEF AgreedInstallations, Agreed, ExternalIdsUnique, Used, Init
<1>4. SheetKnown
  <2>1. AcknowledgedHasRow
    BY <1>2 DEF AgreedInstallations, Agreed, AcknowledgedHasRow, Used
  <2>2. \A k \in DOMAIN sheet : sheet[k].id \in Ids
    BY <1>1, SheetTypes DEF Entry
  <2>3. \A k \in DOMAIN sheet :
            /\ rows[sheet[k].id] # NoRow
            /\ Precedes(sheet[k], rows[sheet[k].id])
            /\ \A j \in DOMAIN sheet : sheet[j].id = sheet[k].id => j = k
    BY <1>2 DEF AgreedInstallations, Agreed
  <2> QED
    BY <2>1, <2>2, <2>3 DEF SheetKnown, Known, Used
<1>5. \A c \in Callers : PassKnown(c)
  BY DEF Init, PassKnown
<1>6. ASSUME NEW i \in Importers
      PROVE  ImportKnown(i)
  <2>1. todo[i] = <<>> /\ step[i] = "idle"
    BY DEF Init
  <2> QED
    BY <2>1 DEF ImportKnown
<1> QED
  BY <1>1, <1>3, <1>4, <1>5, <1>6 DEF SheetInv

LEMMA SheetInvStep ==
    ASSUME SheetInv, TypeInv', [Next]_vars
    PROVE  SheetInv'
<1>1. ExternalIdsUnique'
  BY ExternalIdsStayUnique
<1>2. SheetKnown'
  BY SheetStaysKnown, AcknowledgedStays DEF SheetKnown
<1>3. \A c \in Callers : PassAt(c)' /\ PassHolds(batch[c])'
  BY PassStaysAt, PassStaysKnown
<1>4. \A c \in Callers : PassKnown(c)'
  BY <1>3 DEF PassKnown, PassAt, PassHolds
<1>5. \A i \in Importers : ImportKnown(i)'
  BY ImportStaysKnown
<1> QED
  BY <1>1, <1>2, <1>4, <1>5 DEF SheetInv

LEMMA SheetInvAlways ==
    ASSUME AgreedInstallations
    PROVE  Spec => []SheetInv
<1>1. Init => SheetInv
  BY SheetInvInitially
<1>2. SheetInv /\ TypeInv' /\ [Next]_vars => SheetInv'
  BY SheetInvStep
<1> QED
  BY <1>1, <1>2, TypeInvAlways, PTL DEF Spec

(* A visit has one row in the sheet, by its local and by its external id,  *)
(* whoever calls RunOnce, whatever is lost and whenever the process stops. *)
OneSheetRowPerVisit ==
    \A j, k \in DOMAIN sheet :
        j # k => /\ sheet[j].id # sheet[k].id
                 /\ sheet[j].ext # Blank => sheet[j].ext # sheet[k].ext

(* That is so in every state.                                              *)
THEOREM SheetOnce ==
    ASSUME AgreedInstallations
    PROVE  Spec => []OneSheetRowPerVisit
<1>1. SheetInv => OneSheetRowPerVisit
  <2> SUFFICES ASSUME SheetInv, NEW j \in DOMAIN sheet, NEW k \in DOMAIN sheet,
                      j # k
               PROVE  /\ sheet[j].id # sheet[k].id
                      /\ sheet[j].ext # Blank => sheet[j].ext # sheet[k].ext
    BY DEF OneSheetRowPerVisit
  <2>1. /\ sheet[j] \in Entry
        /\ sheet[k] \in Entry
        /\ Known(sheet[j])
        /\ Known(sheet[k])
        /\ sheet[j].id # sheet[k].id
    BY SheetTypes DEF SheetInv, SheetKnown
  <2> QED
    BY <2>1, KnownIsOne DEF SheetInv
<1> QED
  BY <1>1, SheetInvAlways, PTL

(* In particular no write adds a second row of a visit.                    *)
THEOREM SecondRowNever ==
    ASSUME AgreedInstallations
    PROVE  Spec => NoSecondSheetRow
<1> DEFINE Single ==
        \A k \in DOMAIN sheet' \ DOMAIN sheet :
            \A j \in DOMAIN sheet' \ {k} :
                /\ sheet'[j].id # sheet'[k].id
                /\ sheet'[k].ext # Blank => sheet'[j].ext # sheet'[k].ext
<1>1. OneSheetRowPerVisit' => Single
  BY DEF OneSheetRowPerVisit
<1>2. OneSheetRowPerVisit' /\ [Next]_vars => [Single]_sheet
  BY <1>1
<1> HIDE DEF Single
<1>3. Spec => [][Single]_sheet
  BY <1>2, SheetOnce, PTL DEF Spec
<1> QED
  BY <1>3 DEF Single, NoSecondSheetRow

(* A visit that is marked SINCRONIZADO is in the sheet as it is, or lacks  *)
(* nothing but its checkout.                                               *)
THEOREM AcknowledgedThere ==
    ASSUME AgreedInstallations
    PROVE  Spec => []AcknowledgedInSheet
<1>1. SheetInv => AcknowledgedInSheet
  <2> SUFFICES ASSUME SheetInv, NEW id \in Used,
                      rows[id].sync = "SINCRONIZADO",
                      NEW k \in DOMAIN sheet, sheet[k].id = id
               PROVE  \/ sheet[k] = EntryOf(id)
                      \/ /\ ~rows[id].open
                         /\ sheet[k].open
                         /\ sheet[k].doc = rows[id].doc
                         /\ sheet[k].ext \in {rows[id].ext, Blank}
    BY DEF SheetInv, SheetKnown, AcknowledgedHasRow, AcknowledgedInSheet
  <2>1. sheet[k] \in Entry /\ Precedes(sheet[k], rows[id])
    BY SheetTypes DEF SheetInv, SheetKnown, Known
  <2>2. rows[id] \in Row
    BY DEF SheetInv, TypeInv, TypeOK, Used
  <2>3. CASE sheet[k].open = rows[id].open
    <3>1. sheet[k].doc = rows[id].doc /\ sheet[k].ext = rows[id].ext
      BY <2>1, <2>2, <2>3 DEF Precedes, Row, Entry
    <3> QED
      BY <2>1, <2>2, <2>3, <3>1 DEF EntryOf, Entry
  <2>4. CASE sheet[k].open # rows[id].open
    BY <2>1, <2>2, <2>4 DEF Precedes, Row, Entry
  <2> QED
    BY <2>3, <2>4
<1> QED
  BY <1>1, SheetInvAlways, PTL

(* A row of the sheet stays the row of its visit and never goes back from  *)
(* completed to active.                                                    *)
THEOREM SheetAdvances ==
    ASSUME AgreedInstallations
    PROVE  Spec => SheetRowsOnlyAdvance
<1> DEFINE Advances ==
        \A k \in DOMAIN sheet :
            /\ k \in DOMAIN sheet'
            /\ sheet'[k].id = sheet[k].id
            /\ sheet[k].ext # Blank => sheet'[k].ext = sheet[k].ext
            /\ ~sheet[k].open => ~sheet'[k].open
<1>1. SheetInv /\ [Next]_vars => [Advances]_sheet
  <2> SUFFICES ASSUME SheetInv, [Next]_vars, sheet' # sheet,
                      NEW k \in DOMAIN sheet
               PROVE  /\ k \in DOMAIN sheet'
                      /\ sheet'[k].id = sheet[k].id
                      /\ sheet[k].ext # Blank => sheet'[k].ext = sheet[k].ext
                      /\ ~sheet[k].open => ~sheet'[k].open
    OBVIOUS
  <2>1. PICK c \in Callers :
            /\ cur[c] \in Entry
            /\ cur[c] \in batch[c]
            /\ SheetWritten(cur[c])
    BY SheetWrites
  <2>2. /\ k \in DOMAIN sheet'
        /\ sheet'[k] = IF k \in SameId(cur[c]) THEN cur[c] ELSE sheet[k]
    BY <2>1 DEF SheetWritten
  <2>3. CASE k \in SameId(cur[c])
    <3>1. /\ Precedes(sheet[k], cur[c])
          /\ sheet[k].id = cur[c].id
          /\ sheet[k] \in Entry
      BY <2>1, <2>3, SheetTypes DEF SheetInv, PassKnown, SameId
    <3>2. /\ sheet'[k] = cur[c]
      BY <2>2, <2>3
    <3>3. /\ sheet[k].ext # Blank => cur[c].ext = sheet[k].ext
          /\ ~sheet[k].open => ~cur[c].open
      BY <3>1 DEF Precedes
    <3> QED
      BY <2>2, <3>1, <3>2, <3>3
  <2>4. CASE k \notin SameId(cur[c])
    <3>1. sheet'[k] = sheet[k]
      BY <2>2, <2>4
    <3> QED
      BY <2>2, <3>1
  <2> QED
    BY <2>3, <2>4
<1> QED
  BY <1>1, SheetInvAlways, PTL DEF Spec, SheetRowsOnlyAdvance

(* What a stop leaves behind is again a table and a sheet that agree: the  *)
(* hypothesis of these theorems holds at every later start, too.           *)
THEOREM AgreementKept ==
    ASSUME AgreedInstallations
    PROVE  Spec => []Agreed(rows, sheet)
<1>1. SheetInv => Agreed(rows, sheet)
  <2> SUFFICES ASSUME SheetInv
               PROVE  Agreed(rows, sheet)
    OBVIOUS
  <2>1. \A i, j \in Ids :
            /\ rows[i] # NoRow
            /\ rows[j] # NoRow
            /\ rows[i].ext # Blank
            /\ rows[i].ext = rows[j].ext
            => i = j
    BY DEF SheetInv, ExternalIdsUnique, Used
  <2>2. \A k \in DOMAIN sheet :
            /\ rows[sheet[k].id] # NoRow
            /\ Precedes(sheet[k], rows[sheet[k].id])
            /\ \A j \in DOMAIN sheet : sheet[j].id = sheet[k].id => j = k
    BY DEF SheetInv, SheetKnown, Known, Used
  <2>3. \A id \in Ids :
            /\ rows[id] # NoRow
            /\ rows[id].sync = "SINCRONIZADO"
            => \E k \in DOMAIN sheet : sheet[k].id = id
    BY DEF SheetInv, SheetKnown, AcknowledgedHasRow, Used
  <2> QED
    BY <2>1, <2>2, <2>3 DEF Agreed
<1> QED
  BY <1>1, SheetInvAlways, PTL

=============================================================================
