-------------------------- MODULE RecordSyncProofs --------------------------
(***************************************************************************)
(* Theorems about RecordSync for every value of its constants.             *)
(***************************************************************************)
EXTENDS RecordSync, TLAPS

(* The copies of records that are outside the table.                       *)
Copies == batch \union InSheet \union UNION {todo[i] : i \in Importers}

(* No row and no copy is younger than the last local write; marks, which   *)
(* read the clock, therefore never make a row older.                       *)
NoneFromTheFuture ==
    /\ \A id \in Used : rows[id].updated <= clock
    /\ \A e \in Copies : e.updated <= clock

TypeInv == TypeOK /\ NoneFromTheFuture

(* A row is read into an entry of the right type. *)
LEMMA EntriesOfRows ==
    ASSUME TypeInv, NEW id \in Used
    PROVE  /\ EntryOf(id) \in Entry
           /\ EntryOf(id).id = id
           /\ EntryOf(id).updated <= clock
           /\ clock \in Times
<1>1. rows[id] \in Row /\ id \in Ids /\ rows[id].updated <= clock
  BY DEF TypeInv, TypeOK, Used, NoneFromTheFuture
<1>2. rows[id].updated \in 1..MaxClock /\ clock \in 0..MaxClock
  BY <1>1 DEF Row, Times, TypeInv, TypeOK
<1>3. clock \in Times
  BY <1>1, <1>2, RecordsAssumption DEF Times
<1> QED
  BY <1>1, <1>3 DEF EntryOf, Entry, Row

(* Every copy is an entry. *)
LEMMA CopiesAreEntries ==
    ASSUME TypeOK
    PROVE  /\ Copies \subseteq Entry
           /\ InSheet \subseteq Entry
           /\ \A i \in Importers : todo[i] \subseteq Entry
  BY DEF TypeOK, Copies, InSheet

(* A handler's write keeps the types.                                      *)
LEMMA SavedType ==
    ASSUME TypeInv, NEW id \in Ids, NEW finished \in BOOLEAN,
           Saved(id, finished)
    PROVE  /\ rows' \in [Ids -> Row \union {NoRow}]
           /\ clock' \in 0..MaxClock
           /\ \A u \in Used' : rows'[u].updated <= clock'
           /\ clock < clock'
<1> DEFINE row == [finished |-> finished, changed |-> clock',
                   sync |-> "PENDENTE_SYNC", updated |-> clock']
<1>1. clock \in 0..MaxClock /\ clock < MaxClock /\ clock' = clock + 1
  BY DEF TypeInv, TypeOK, Saved
<1>2. clock' \in Times /\ clock' \in 0..MaxClock /\ clock < clock'
  BY <1>1, RecordsAssumption DEF Times
<1>3. row \in Row
  BY <1>2 DEF Row, SyncStatuses
<1>4. rows' = [rows EXCEPT ![id] = row]
  BY DEF Saved
<1>5. rows' \in [Ids -> Row \union {NoRow}]
  BY <1>3, <1>4 DEF TypeInv, TypeOK
<1>6. ASSUME NEW u \in Used' PROVE rows'[u].updated <= clock'
  <2>1. CASE u = id
    <3>1. rows'[u].updated = clock'
      BY <1>4, <2>1 DEF TypeInv, TypeOK
    <3> QED
      BY <3>1, <1>2 DEF Times
  <2>2. CASE u # id
    <3>1. rows'[u] = rows[u] /\ u \in Used
      BY <1>4, <1>6, <2>2 DEF TypeInv, TypeOK, Used
    <3>2. rows[u].updated <= clock /\ rows[u].updated \in 1..MaxClock
      BY <3>1 DEF TypeInv, TypeOK, NoneFromTheFuture, Used, Row, Times
    <3> QED
      BY <3>1, <3>2, <1>1, RecordsAssumption
  <2> QED
    BY <2>1, <2>2
<1> QED
  BY <1>2, <1>5, <1>6

(* Copies stay as they are when nothing but the table changes. *)
LEMMA CopiesKept ==
    ASSUME TypeInv, UNCHANGED <<batch, sheet, todo>>, clock' \in 0..MaxClock,
           clock <= clock'
    PROVE  Copies' = Copies /\ \A e \in Copies' : e.updated <= clock'
<1>1. Copies' = Copies
  BY DEF Copies, InSheet
<1>2. \A e \in Copies : e.updated \in 1..MaxClock /\ e.updated <= clock
  BY CopiesAreEntries DEF TypeInv, NoneFromTheFuture, Entry, Times
<1> QED
  BY <1>1, <1>2, RecordsAssumption DEF TypeInv, TypeOK

LEMMA HandlerStepType ==
    ASSUME TypeInv, HandlerStep
    PROVE  TypeInv'
<1>1. CASE Inserted
  <2>1. lastId < MaxId /\ lastId' = lastId + 1 /\ lastId \in 0..MaxId
    BY <1>1 DEF Inserted, TypeInv, TypeOK
  <2>2. PICK id \in Ids : id = lastId' /\ lastId' \in 0..MaxId
    BY <2>1, RecordsAssumption DEF Ids
  <2>3. Saved(id, FALSE)
    BY <1>1, <2>2 DEF Inserted, Saved
  <2>4. /\ rows' \in [Ids -> Row \union {NoRow}]
        /\ clock' \in 0..MaxClock
        /\ \A u \in Used' : rows'[u].updated <= clock'
        /\ clock < clock'
    BY <2>3, SavedType
  <2>5. \A e \in Copies' : e.updated <= clock'
    BY <1>1, <2>4, CopiesKept, RecordsAssumption
       DEF Inserted, passVars, TypeInv, TypeOK
  <2> QED
    BY <1>1, <2>2, <2>4, <2>5
       DEF Inserted, passVars, TypeInv, TypeOK, NoneFromTheFuture
<1>2. ASSUME NEW id \in Ids, NEW finished \in BOOLEAN, Saved(id, finished),
             UNCHANGED <<kind, lastId, deleted, passVars, sheet, todo,
                         crashes>>
      PROVE  TypeInv'
  <2>1. /\ rows' \in [Ids -> Row \union {NoRow}]
        /\ clock' \in 0..MaxClock
        /\ \A u \in Used' : rows'[u].updated <= clock'
        /\ clock < clock'
    BY <1>2, SavedType
  <2>2. \A e \in Copies' : e.updated <= clock'
    BY <1>2, <2>1, CopiesKept, RecordsAssumption DEF passVars, TypeInv, TypeOK
  <2> QED
    BY <1>2, <2>1, <2>2 DEF passVars, TypeInv, TypeOK, NoneFromTheFuture
<1>3. ASSUME NEW id \in Ids, Removed(id)
      PROVE  TypeInv'
  <2>1. Copies' = Copies /\ clock' = clock
    BY <1>3 DEF Removed, Copies, InSheet, passVars
  <2>2. rows' \in [Ids -> Row \union {NoRow}]
    BY <1>3 DEF Removed, TypeInv, TypeOK
  <2>3. \A u \in Used' : u \in Used /\ rows'[u] = rows[u]
    BY <1>3 DEF Removed, TypeInv, TypeOK, Used
  <2> QED
    BY <1>3, <2>1, <2>2, <2>3
       DEF Removed, passVars, TypeInv, TypeOK, NoneFromTheFuture
<1>4. ASSUME NEW id \in Ids, DeleteDelivery(id)
      PROVE  TypeInv'
  <2>1. Copies' = Copies /\ Used' = Used
    BY <1>4 DEF DeleteDelivery, Copies, InSheet, passVars, Used
  <2> QED
    BY <1>4, <2>1
       DEF DeleteDelivery, passVars, TypeInv, TypeOK, NoneFromTheFuture
<1> QED
  BY <1>1, <1>2, <1>3, <1>4
     DEF HandlerStep, CreateKey, CreateDiarista, CreateService,
         CreateDelivery, ReturnKey, DeleteKey, CheckoutDiarista,
         UpdateServiceStatus, DeleteService, WithdrawDelivery,
         UpsertResident, Finish

(* The marks write a row of the right type. *)
LEMMA MarkType ==
    ASSUME TypeInv, cur \in Entry, NEW sync \in SyncStatuses, Mark(sync)
    PROVE  /\ rows' \in [Ids -> Row \union {NoRow}]
           /\ Used' = Used
           /\ \A u \in Used' : rows'[u].updated <= clock
<1>1. CASE cur.id \in Used
  <2> DEFINE row == [rows[cur.id] EXCEPT !.sync = sync, !.updated = clock]
  <2>1. rows' = [rows EXCEPT ![cur.id] = row]
    BY <1>1 DEF Mark
  <2>2. rows[cur.id] \in Row /\ clock \in Times
    BY <1>1, EntriesOfRows DEF TypeInv, TypeOK, Used
  <2>3. row \in Row /\ row.updated = clock
    BY <2>2 DEF Row
  <2>4. clock <= clock
    BY <2>2 DEF Times
  <2> QED
    BY <1>1, <2>1, <2>3, <2>4, RecordsAssumption
       DEF TypeInv, TypeOK, Used, NoneFromTheFuture
<1>2. CASE cur.id \notin Used
  BY <1>2 DEF Mark, TypeInv, TypeOK, Used, NoneFromTheFuture
<1> QED
  BY <1>1, <1>2

(* What is left of a batch keeps its type. *)
LEMMA ContinueType ==
    ASSUME TypeInv, NEW rest \in SUBSET batch, Continue(rest),
           UNCHANGED <<clock, sheet, todo>>
    PROVE  /\ batch' \subseteq Entry
           /\ cur' \in Entry \union {NoRow}
           /\ stage' \in {"idle", "next"}
           /\ Copies' \subseteq Copies
           /\ \A e \in Copies' : e.updated <= clock
  BY DEF Continue, TypeInv, TypeOK, Copies, InSheet, NoneFromTheFuture

LEMMA SyncStepType ==
    ASSUME TypeInv, SyncStep
    PROVE  TypeInv'
<1>1. CASE ListPendingSync
  <2>1. PendingSync \subseteq Entry /\ \A e \in PendingSync : e.updated <= clock
    BY EntriesOfRows DEF PendingSync
  <2>2. Used' = Used /\ Copies' \subseteq Copies \union PendingSync
    BY <1>1 DEF ListPendingSync, Used, Copies, InSheet
  <2> QED
    BY <1>1, <2>1, <2>2 DEF ListPendingSync, TypeInv, TypeOK, NoneFromTheFuture
<1>2. ASSUME NEW e \in batch, AppendRecord(e) \/ AppendFails(e)
      PROVE  TypeInv'
  <2>1. e \in Entry /\ e \in Copies /\ e.id \in Ids
    BY DEF TypeInv, TypeOK, Copies, Entry
  <2>2. sheet' \in {sheet, [sheet EXCEPT ![e.id] = e]}
    BY <1>2 DEF AppendRecord, AppendFails
  <2>3. sheet' \in [Ids -> Entry \union {NoRow}]
    BY <2>1, <2>2 DEF TypeInv, TypeOK
  <2>4. InSheet' \subseteq InSheet \union {e}
    BY <2>1, <2>2 DEF InSheet, TypeInv, TypeOK
  <2>5. Copies' \subseteq Copies /\ Used' = Used
    BY <1>2, <2>1, <2>4 DEF AppendRecord, AppendFails, Copies, Used
  <2> QED
    BY <1>2, <2>1, <2>3, <2>5
       DEF AppendRecord, AppendFails, TypeInv, TypeOK, NoneFromTheFuture
<1>3. CASE MarkSynced
  <2>1. cur \in Entry /\ "SINCRONIZADO" \in SyncStatuses
    BY <1>3 DEF MarkSynced, TypeInv, TypeOK, SyncStatuses
  <2>2. /\ rows' \in [Ids -> Row \union {NoRow}]
        /\ \A u \in Used' : rows'[u].updated <= clock
    BY <1>3, <2>1, MarkType DEF MarkSynced
  <2>3. Continue(batch \ {cur}) /\ UNCHANGED <<clock, sheet, todo>>
    BY <1>3 DEF MarkSynced
  <2> QED
    BY <1>3, <2>2, <2>3, ContinueType
       DEF MarkSynced, TypeInv, TypeOK, NoneFromTheFuture
<1>4. CASE MarkSyncedFails
  <2>1. Continue({}) /\ UNCHANGED <<clock, sheet, todo>> /\ Used' = Used
    BY <1>4 DEF MarkSyncedFails, Used
  <2> QED
    BY <1>4, <2>1, ContinueType
       DEF MarkSyncedFails, TypeInv, TypeOK, NoneFromTheFuture
<1>5. CASE MarkSyncError
  <2>1. cur \in Entry /\ "ERRO_SYNC" \in SyncStatuses
    BY <1>5 DEF MarkSyncError, TypeInv, TypeOK, SyncStatuses
  <2>2. /\ rows' \in [Ids -> Row \union {NoRow}]
        /\ \A u \in Used' : rows'[u].updated <= clock
    BY <1>5, <2>1, MarkType
       DEF MarkSyncError, TypeInv, TypeOK, Used, NoneFromTheFuture
  <2>3. Continue(batch \ {cur}) /\ UNCHANGED <<clock, sheet, todo>>
    BY <1>5 DEF MarkSyncError
  <2> QED
    BY <1>5, <2>2, <2>3, ContinueType
       DEF MarkSyncError, TypeInv, TypeOK, NoneFromTheFuture
<1> QED
  BY <1>1, <1>2, <1>3, <1>4, <1>5 DEF SyncStep

LEMMA ImportStepType ==
    ASSUME TypeInv, ImportStep
    PROVE  TypeInv'
<1>1. ASSUME NEW i \in Importers, ReadRecords(i)
      PROVE  TypeInv'
  <2>1. InSheet \subseteq Entry
    BY CopiesAreEntries DEF TypeInv
  <2>2. todo' \in [Importers -> SUBSET Entry]
    BY <1>1, <2>1 DEF ReadRecords, TypeInv, TypeOK
  <2>3. Copies' \subseteq Copies /\ Used' = Used
    BY <1>1 DEF ReadRecords, passVars, Copies, InSheet, Used, TypeInv, TypeOK
  <2> QED
    BY <1>1, <2>2, <2>3
       DEF ReadRecords, passVars, TypeInv, TypeOK, NoneFromTheFuture
<1>2. ASSUME NEW i \in Importers, NEW e \in todo[i],
             UpsertImported(i, e) \/ UpsertImportedResident(i, e)
      PROVE  TypeInv'
  <2>1. e \in Entry /\ e \in Copies /\ e.updated <= clock
    BY DEF TypeInv, TypeOK, Copies, NoneFromTheFuture
  <2>2. ImportedRow(e) \in Row /\ ImportedRow(e).updated = e.updated
        /\ e.id \in Ids
    BY <2>1 DEF ImportedRow, Row, Entry, SyncStatuses
  <2>3. rows' \in {rows, [rows EXCEPT ![e.id] = ImportedRow(e)]}
    BY <1>2 DEF UpsertImported, UpsertImportedResident
  <2>4. /\ rows' \in [Ids -> Row \union {NoRow}]
        /\ \A u \in Used' : rows'[u].updated <= clock
    BY <2>1, <2>2, <2>3 DEF TypeInv, TypeOK, Used, NoneFromTheFuture
  <2>5. /\ todo' \in [Importers -> SUBSET Entry]
        /\ Copies' \subseteq Copies
    BY <1>2 DEF UpsertImported, UpsertImportedResident, passVars, Copies,
                InSheet, TypeInv, TypeOK
  <2>6. lastId' \in 0..MaxId
    BY <1>2, <2>2, RecordsAssumption
       DEF UpsertImported, UpsertImportedResident, TypeInv, TypeOK, Ids
  <2> QED
    BY <1>2, <2>4, <2>5, <2>6
       DEF UpsertImported, UpsertImportedResident, passVars, TypeInv, TypeOK,
           NoneFromTheFuture
<1>3. ASSUME NEW i \in Importers, ImportFails(i)
      PROVE  TypeInv'
  <2>1. /\ todo' \in [Importers -> SUBSET Entry]
        /\ Copies' \subseteq Copies
        /\ Used' = Used
    BY <1>3 DEF ImportFails, passVars, Copies, InSheet, Used, TypeInv, TypeOK
  <2> QED
    BY <1>3, <2>1 DEF ImportFails, passVars, TypeInv, TypeOK, NoneFromTheFuture
<1> QED
  BY <1>1, <1>2, <1>3 DEF ImportStep

LEMMA CrashType ==
    ASSUME TypeInv, Crash
    PROVE  TypeInv'
<1>1. Copies' \subseteq Copies /\ Used' = Used
  BY DEF Crash, Copies, InSheet, Used
<1> QED
  BY <1>1, RecordsAssumption DEF Crash, TypeInv, TypeOK, NoneFromTheFuture

LEMMA TypeInvariant == Spec => []TypeInv
<1>1. Init => TypeInv
  BY RecordsAssumption DEF Init, TypeInv, TypeOK, NoneFromTheFuture, Copies, InSheet, Used
<1>2. TypeInv /\ [Next]_vars => TypeInv'
  <2> SUFFICES ASSUME TypeInv, [Next]_vars PROVE TypeInv'
    OBVIOUS
  <2>1. CASE Next
    BY <2>1, HandlerStepType, SyncStepType, ImportStepType, CrashType DEF Next
  <2>2. CASE UNCHANGED vars
    BY <2>2 DEF vars, passVars, TypeInv, TypeOK, NoneFromTheFuture, Copies,
                InSheet, Used
  <2> QED
    BY <2>1, <2>2
<1> QED
  BY <1>1, <1>2, PTL DEF Spec

(* Every variable keeps its type, for all kinds and bounds.                *)
THEOREM TypeCorrect == Spec => []TypeOK
<1>1. TypeInv => TypeOK
  BY DEF TypeInv
<1> QED
  BY <1>1, TypeInvariant, PTL

-----------------------------------------------------------------------------
(* Only an acknowledgement takes a change off the queue *)

(* One row in one step, as the property says it. *)
QueueKept(id) ==
    /\ kind # "resident"
    /\ rows[id].sync # "SINCRONIZADO"
    /\ rows'[id] # NoRow
    /\ rows'[id].sync = "SINCRONIZADO"
    => /\ stage = "sent"
       /\ cur.id = id
       /\ rows'[id].changed = rows[id].changed

LEMMA QueueStep ==
    ASSUME TypeInv, Next, NEW id \in Used
    PROVE  QueueKept(id)
<1> USE DEF QueueKept
<1>1. id \in Ids /\ rows[id] \in Row /\ rows \in [Ids -> Row \union {NoRow}]
  BY DEF TypeInv, TypeOK, Used
<1>2. ASSUME NEW u \in Ids, NEW finished \in BOOLEAN, Saved(u, finished)
      PROVE  QueueKept(id)
  BY <1>1, <1>2 DEF Saved
<1>3. CASE Inserted
  <2>1. lastId < MaxId /\ lastId' = lastId + 1 /\ lastId \in 0..MaxId
    BY <1>3 DEF Inserted, TypeInv, TypeOK
  <2>2. PICK u \in Ids : u = lastId'
    BY <2>1, RecordsAssumption DEF Ids
  <2>3. Saved(u, FALSE)
    BY <1>3, <2>2 DEF Inserted, Saved
  <2> QED
    BY <1>2, <2>3
<1>4. ASSUME NEW u \in Ids, Removed(u)
      PROVE  QueueKept(id)
  BY <1>1, <1>4 DEF Removed
<1>5. CASE MarkSynced
  <2>1. cur \in Entry /\ stage = "sent" /\ Mark("SINCRONIZADO")
    BY <1>5 DEF MarkSynced, TypeInv, TypeOK
  <2>2. CASE cur.id = id
    <3> DEFINE row == [rows[cur.id] EXCEPT !.sync = "SINCRONIZADO",
                                           !.updated = clock]
    <3>1. rows' = [rows EXCEPT ![id] = row]
      BY <2>1, <2>2 DEF Mark
    <3>2. row.changed = rows[id].changed
      BY <1>1, <2>2 DEF Row
    <3>3. rows'[id] = row
      BY <1>1, <3>1
    <3> QED
      BY <2>1, <2>2, <3>2, <3>3
  <2>3. CASE cur.id # id
    BY <1>1, <2>1, <2>3 DEF Mark
  <2> QED
    BY <2>2, <2>3
<1>6. CASE MarkSyncError
  <2>1. CASE UNCHANGED rows
    BY <2>1
  <2>2. CASE Mark("ERRO_SYNC") /\ cur.id \in Used
    <3> DEFINE row == [rows[cur.id] EXCEPT !.sync = "ERRO_SYNC",
                                           !.updated = clock]
    <3>1. rows' = [rows EXCEPT ![cur.id] = row]
      BY <2>2 DEF Mark
    <3>2. rows[cur.id] \in Row
      BY <2>2 DEF TypeInv, TypeOK, Used
    <3>3. row.sync = "ERRO_SYNC"
      BY <3>2 DEF Row
    <3> QED
      BY <1>1, <3>1, <3>3
  <2>3. CASE Mark("ERRO_SYNC") /\ cur.id \notin Used
    BY <2>3 DEF Mark
  <2> QED
    BY <1>6, <2>1, <2>2, <2>3 DEF MarkSyncError
<1>7. ASSUME NEW i \in Importers, NEW e \in todo[i], UpsertImported(i, e)
      PROVE  QueueKept(id)
  <2>1. e.id = id /\ rows[id].sync # "SINCRONIZADO" => rows' = rows
    BY <1>7 DEF UpsertImported, MayOverwrite
  <2>2. e.id # id => rows'[id] = rows[id]
    BY <1>1, <1>7 DEF UpsertImported
  <2> QED
    BY <2>1, <2>2
<1>8. CASE UNCHANGED rows
  BY <1>8
<1>9. CASE kind = "resident"
  BY <1>9
<1>10. CASE HandlerStep
  BY <1>10, <1>2, <1>3, <1>4, <1>8
     DEF HandlerStep, CreateKey, CreateDiarista, CreateService,
         CreateDelivery, ReturnKey, DeleteKey, CheckoutDiarista,
         UpdateServiceStatus, DeleteService, WithdrawDelivery,
         DeleteDelivery, UpsertResident, Finish
<1>11. CASE SyncStep
  BY <1>11, <1>5, <1>6, <1>8
     DEF SyncStep, ListPendingSync, AppendRecord, AppendFails,
         MarkSyncedFails
<1>12. CASE ImportStep
  BY <1>12, <1>7, <1>8, <1>9
     DEF ImportStep, ReadRecords, UpsertImportedResident, ImportFails
<1>13. CASE Crash
  BY <1>13, <1>8 DEF Crash
<1> QED
  BY <1>10, <1>11, <1>12, <1>13 DEF Next

(* A local change of a key, diarista, service or delivery leaves the queue *)
(* only when RunOnce marks the row, with that content still in it.         *)
THEOREM OnlyAcknowledgement == Spec => OnlyAckLeavesQueue
<1>1. TypeInv /\ [Next]_vars =>
          [\A id \in Used : QueueKept(id)]_rows
  BY QueueStep DEF vars
<1>2. [\A id \in Used : QueueKept(id)]_rows =>
          [\A id \in Used :
              /\ kind # "resident"
              /\ rows[id].sync # "SINCRONIZADO"
              /\ rows'[id] # NoRow
              /\ rows'[id].sync = "SINCRONIZADO"
              => /\ stage = "sent"
                 /\ cur.id = id
                 /\ rows'[id].changed = rows[id].changed]_rows
  BY DEF QueueKept
<1> QED
  BY <1>1, <1>2, TypeInvariant, PTL DEF Spec, OnlyAckLeavesQueue

-----------------------------------------------------------------------------
(* What is acknowledged is in the sheet *)

(* In whatever version: with Known below, AcknowledgedInSheet follows.     *)
AcknowledgedHasRow ==
    \A id \in Used : rows[id].sync = "SINCRONIZADO" => sheet[id] # NoRow

(* The sheet keeps every row it has; what an import has read and what was  *)
(* sent without an error is there.                                         *)
InSheetInv ==
    /\ AcknowledgedHasRow
    /\ \A id \in Ids : sheet[id] # NoRow => sheet[id].id = id
    /\ stage = "sent" => sheet[cur.id] # NoRow
    /\ \A i \in Importers : \A e \in todo[i] : sheet[e.id] # NoRow

LEMMA InSheetStep ==
    ASSUME TypeInv, InSheetInv, Next
    PROVE  InSheetInv'
<1> USE DEF InSheetInv, AcknowledgedHasRow
<1>1. ASSUME NEW id \in Ids, NEW finished \in BOOLEAN, Saved(id, finished),
             UNCHANGED <<passVars, sheet, todo>>
      PROVE  InSheetInv'
  <2>1. \A u \in Used' : rows'[u].sync = "SINCRONIZADO" =>
            u \in Used /\ rows'[u] = rows[u]
    BY <1>1 DEF Saved, Used, TypeInv, TypeOK
  <2> QED
    BY <1>1, <2>1 DEF passVars
<1>2. CASE Inserted
  <2>1. lastId < MaxId /\ lastId' = lastId + 1 /\ lastId \in 0..MaxId
    BY <1>2 DEF Inserted, TypeInv, TypeOK
  <2>2. PICK u \in Ids : u = lastId'
    BY <2>1, RecordsAssumption DEF Ids
  <2>3. Saved(u, FALSE)
    BY <1>2, <2>2 DEF Inserted, Saved
  <2> QED
    BY <1>1, <1>2, <2>3 DEF Inserted
<1>3. ASSUME NEW id \in Ids, Removed(id)
      PROVE  InSheetInv'
  BY <1>3 DEF Removed, passVars, Used, TypeInv, TypeOK
<1>4. CASE UNCHANGED <<rows, passVars, sheet, todo>>
  BY <1>4 DEF passVars, Used
<1>5. CASE ListPendingSync
  BY <1>5 DEF ListPendingSync, Used
<1>6. ASSUME NEW e \in batch, AppendRecord(e) \/ AppendFails(e)
      PROVE  InSheetInv'
  <2>1. e \in Entry /\ e.id \in Ids /\ e # NoRow
    BY RecordsAssumption DEF TypeInv, TypeOK, Entry
  <2>2. sheet' \in {sheet, [sheet EXCEPT ![e.id] = e]}
    BY <1>6 DEF AppendRecord, AppendFails
  <2>3. \A id \in Ids : sheet[id] # NoRow => sheet'[id] # NoRow
    BY <2>1, <2>2 DEF TypeInv, TypeOK
  <2>4. \A id \in Ids : sheet'[id] # NoRow => sheet'[id].id = id
    BY <2>1, <2>2 DEF TypeInv, TypeOK
  <2>5. stage' = "sent" => sheet'[cur'.id] # NoRow
    BY <1>6, <2>1 DEF AppendRecord, AppendFails, TypeInv, TypeOK
  <2>6. \A i \in Importers : \A f \in todo'[i] : f.id \in Ids /\ sheet[f.id] # NoRow
    BY <1>6 DEF AppendRecord, AppendFails, TypeInv, TypeOK, Entry
  <2>7. rows' = rows
    BY <1>6 DEF AppendRecord, AppendFails
  <2> QED
    BY <2>3, <2>4, <2>5, <2>6, <2>7 DEF Used
<1>7. CASE MarkSynced
  <2>1. cur \in Entry /\ stage = "sent" /\ Mark("SINCRONIZADO")
    BY <1>7 DEF MarkSynced, TypeInv, TypeOK
  <2>2. \A u \in Ids \ {cur.id} : rows'[u] = rows[u]
    BY <2>1 DEF Mark, TypeInv, TypeOK
  <2>3. stage' # "sent"
    BY <1>7 DEF MarkSynced, Continue
  <2> QED
    BY <1>7, <2>1, <2>2, <2>3 DEF MarkSynced, Used
<1>8. CASE MarkSyncError
  <2>1. cur \in Entry /\ stage' # "sent"
    BY <1>8 DEF MarkSyncError, Continue, TypeInv, TypeOK
  <2>2. \A u \in Ids : \/ rows'[u] = rows[u]
                       \/ rows'[u].sync = "ERRO_SYNC"
    <3>1. CASE Mark("ERRO_SYNC") /\ cur.id \in Used
      <4> DEFINE row == [rows[cur.id] EXCEPT !.sync = "ERRO_SYNC",
                                             !.updated = clock]
      <4>1. rows' = [rows EXCEPT ![cur.id] = row]
        BY <3>1 DEF Mark
      <4>2. rows[cur.id] \in Row
        BY <3>1 DEF TypeInv, TypeOK, Used
      <4>3. row.sync = "ERRO_SYNC"
        BY <4>2 DEF Row
      <4> QED
        BY <4>1, <4>3 DEF TypeInv, TypeOK
    <3> QED
      BY <1>8, <3>1 DEF MarkSyncError, Mark
  <2> QED
    BY <1>8, <2>1, <2>2 DEF MarkSyncError, Used
<1>9. CASE MarkSyncedFails
  BY <1>9 DEF MarkSyncedFails, Continue, Used
<1>10. ASSUME NEW i \in Importers, ReadRecords(i)
       PROVE  InSheetInv'
  <2>1. \A e \in InSheet : sheet[e.id] # NoRow
    BY DEF InSheet
  <2>2. \A j \in Importers : \A e \in todo'[j] : sheet[e.id] # NoRow
    BY <1>10, <2>1 DEF ReadRecords, TypeInv, TypeOK
  <2> QED
    BY <1>10, <2>2 DEF ReadRecords, passVars, Used
<1>11. ASSUME NEW i \in Importers, NEW e \in todo[i],
              UpsertImported(i, e) \/ UpsertImportedResident(i, e)
       PROVE  InSheetInv'
  <2>1. e \in Entry /\ e.id \in Ids /\ sheet[e.id] # NoRow
    BY DEF TypeInv, TypeOK, Entry
  <2>2. \A u \in Ids \ {e.id} : rows'[u] = rows[u]
    BY <1>11, <2>1 DEF UpsertImported, UpsertImportedResident, TypeInv, TypeOK
  <2>3. \A j \in Importers : todo'[j] \subseteq todo[j]
    BY <1>11 DEF UpsertImported, UpsertImportedResident, TypeInv, TypeOK
  <2> QED
    BY <1>11, <2>1, <2>2, <2>3
       DEF UpsertImported, UpsertImportedResident, passVars, Used
<1>12. ASSUME NEW i \in Importers, ImportFails(i)
       PROVE  InSheetInv'
  <2>1. \A j \in Importers : todo'[j] \subseteq todo[j]
    BY <1>12 DEF ImportFails, TypeInv, TypeOK
  <2> QED
    BY <1>12, <2>1 DEF ImportFails, passVars, Used
<1>13. CASE Crash
  BY <1>13 DEF Crash, Used
<1>14. CASE HandlerStep
  BY <1>14, <1>1, <1>2, <1>3, <1>4
     DEF HandlerStep, CreateKey, CreateDiarista, CreateService,
         CreateDelivery, ReturnKey, DeleteKey, CheckoutDiarista,
         UpdateServiceStatus, DeleteService, WithdrawDelivery,
         DeleteDelivery, UpsertResident, Finish
<1> QED
  BY <1>5, <1>6, <1>7, <1>8, <1>9, <1>10, <1>11, <1>12, <1>13, <1>14
     DEF Next, SyncStep, ImportStep

LEMMA InSheetInvariant == Spec => []InSheetInv
<1>1. Init => InSheetInv
  BY DEF Init, InSheetInv, AcknowledgedHasRow, Used
<1>2. TypeInv /\ InSheetInv /\ [Next]_vars => InSheetInv'
  <2> SUFFICES ASSUME TypeInv, InSheetInv, [Next]_vars PROVE InSheetInv'
    OBVIOUS
  <2>1. CASE UNCHANGED vars
    BY <2>1 DEF vars, passVars, InSheetInv, AcknowledgedHasRow, Used
  <2> QED
    BY <2>1, InSheetStep
<1> QED
  BY <1>1, <1>2, TypeInvariant, PTL DEF Spec

-----------------------------------------------------------------------------
(* What is finished stays finished *)

(* What the table knows of a copy: no id is given twice, a finished copy   *)
(* comes from a finished row, a copy that is not finished is older than    *)
(* the row that is, and otherwise the two are the same version.            *)
Known(e) ==
    /\ kind # "resident" => e.id <= lastId
    /\ kind = "resident" => ~e.finished
    /\ kind = "diarista" => e.id \in Used
    /\ e.id \in Used /\ e.finished => rows[e.id].finished
    /\ e.id \in Used /\ rows[e.id].finished /\ ~e.finished =>
           e.updated < rows[e.id].updated
    /\ /\ kind # "resident"
       /\ e.id \in Used
       /\ e.finished = rows[e.id].finished
       => e.changed = rows[e.id].changed

FinishedInv ==
    kind # "service" =>
        /\ \A e \in Copies : Known(e)
        /\ kind # "resident" => \A id \in Used : id <= lastId
        /\ kind = "resident" => \A id \in Used : ~rows[id].finished
        /\ kind \notin {"diarista", "resident"} =>
               \A i \in Importers : todo[i] = {}

(* One row in one step, as the property says it. *)
StaysFinished(id) ==
    /\ kind # "service"
    /\ rows[id].finished
    /\ rows'[id] # NoRow
    => rows'[id].finished

FinishedStep == FinishedInv' /\ \A id \in Used : StaysFinished(id)

(* A handler inserts a row or finishes it. *)
LEMMA SavedFinished ==
    ASSUME TypeInv, FinishedInv, NEW id \in Ids, NEW finished \in BOOLEAN,
           Saved(id, finished), UNCHANGED <<kind, passVars, sheet, todo>>,
           lastId' \in 0..MaxId, lastId <= lastId',
           kind # "resident" => id <= lastId',
           kind = "resident" => ~finished,
           finished /\ kind # "resident" => id \in Used /\ ~rows[id].finished,
           ~finished /\ kind # "resident" => id > lastId
    PROVE  FinishedStep
<1> SUFFICES ASSUME kind # "service" PROVE FinishedStep
  BY DEF FinishedStep, FinishedInv, StaysFinished
<1>1. Copies' = Copies
  BY DEF Copies, InSheet, passVars
<1>2. /\ clock \in 0..MaxClock /\ clock' = clock + 1 /\ clock' \in Times
      /\ lastId \in 0..MaxId
  BY RecordsAssumption DEF Saved, Times, TypeInv, TypeOK
<1>3. /\ rows'[id].finished = finished
      /\ rows'[id].updated = clock'
      /\ rows'[id] # NoRow
      /\ \A u \in Ids \ {id} : rows'[u] = rows[u]
  <2> DEFINE row == [finished |-> finished, changed |-> clock',
                     sync |-> "PENDENTE_SYNC", updated |-> clock']
  <2>1. row \in Row
    BY <1>2 DEF Row, SyncStatuses
  <2>2. rows' = [rows EXCEPT ![id] = row]
    BY DEF Saved
  <2> QED
    BY <2>1, <2>2, RecordsAssumption DEF TypeInv, TypeOK
<1>4. Used' = Used \union {id}
  BY <1>3 DEF Used
<1>5. ASSUME NEW e \in Copies PROVE Known(e)'
  <2>1. /\ e \in Entry /\ e.id \in 1..MaxId
        /\ e.updated \in 1..MaxClock /\ e.updated <= clock
        /\ e.finished \in BOOLEAN
    BY CopiesAreEntries DEF TypeInv, Entry, Ids, Times, NoneFromTheFuture
  <2>2. Known(e)
    BY DEF FinishedInv
  <2>3. e.updated < clock'
    BY <2>1, <1>2, RecordsAssumption
  <2>4. kind' = kind
    OBVIOUS
  <2>5. kind' # "resident" => e.id <= lastId'
    BY <2>1, <2>2, <1>2, <2>4, RecordsAssumption DEF Known
  <2>6. CASE e.id = id
    <3>1. kind # "resident" /\ e.finished => finished
      BY <2>1, <2>2, <2>6, <1>2, RecordsAssumption DEF Known
    <3>2. kind # "resident" => finished /\ ~e.finished
      <4> SUFFICES ASSUME kind # "resident" PROVE finished /\ ~e.finished
        OBVIOUS
      <4>1. finished
        BY <2>1, <2>2, <2>6, <1>2, RecordsAssumption DEF Known
      <4> QED
        BY <2>2, <2>6, <4>1 DEF Known, StaysFinished
    <3> QED
      BY <2>2, <2>3, <2>4, <2>5, <2>6, <3>1, <3>2, <1>3, <1>4 DEF Known
  <2>7. CASE e.id # id
    <3>1. e.id \in Ids \ {id} /\ rows'[e.id] = rows[e.id]
      BY <2>1, <2>7, <1>3 DEF Ids
    <3> QED
      BY <2>2, <2>4, <2>5, <2>7, <3>1, <1>4 DEF Known
  <2> QED
    BY <2>6, <2>7
<1>6. FinishedInv'
  <2>1. kind # "resident" => \A u \in Used' : u <= lastId'
    BY <1>2, <1>4, RecordsAssumption DEF FinishedInv, Used, Ids
  <2>2. kind = "resident" => \A u \in Used' : ~rows'[u].finished
    BY <1>3, <1>4 DEF FinishedInv, Used
  <2> QED
    BY <1>1, <1>5, <2>1, <2>2 DEF FinishedInv
<1>7. ASSUME NEW u \in Used PROVE StaysFinished(u)
  <2>1. CASE u = id
    BY <2>1, <1>2, <1>3, RecordsAssumption
       DEF StaysFinished, FinishedInv, Used, Ids
  <2>2. CASE u # id
    BY <2>2, <1>3 DEF StaysFinished, Used
  <2> QED
    BY <2>1, <2>2
<1> QED
  BY <1>6, <1>7 DEF FinishedStep

(* A step that changes no row and makes no copy of anything else. *)
LEMMA CopiedFinished ==
    ASSUME TypeInv, FinishedInv, UNCHANGED <<kind, rows, lastId>>,
           Copies' \subseteq Copies,
           \/ \A i \in Importers : todo'[i] \subseteq todo[i]
           \/ kind \in {"diarista", "service", "resident"}
    PROVE  FinishedStep
<1>1. \A e \in Copies' : kind # "service" => Known(e) /\ Known(e)'
  BY DEF FinishedInv, Known, Used
<1> QED
  BY <1>1 DEF FinishedStep, FinishedInv, StaysFinished, Used

LEMMA HandlerFinished ==
    ASSUME TypeInv, FinishedInv, HandlerStep, kind # "service"
    PROVE  FinishedStep
<1>1. lastId \in 0..MaxId /\ lastId <= lastId
  BY RecordsAssumption DEF TypeInv, TypeOK
<1>2. CASE Inserted /\ kind # "resident"
  <2>1. lastId < MaxId /\ lastId' = lastId + 1
    BY <1>2 DEF Inserted
  <2>2. PICK u \in Ids : u = lastId' /\ u > lastId /\ lastId <= lastId'
                         /\ lastId' \in 0..MaxId /\ u <= lastId'
    BY <1>1, <2>1, RecordsAssumption DEF Ids
  <2>3. Saved(u, FALSE)
    BY <1>2, <2>2 DEF Inserted, Saved
  <2> QED
    BY <1>2, <2>2, <2>3, SavedFinished DEF Inserted
<1>3. ASSUME NEW id \in Used, Finish(id), kind # "resident",
             ~rows[id].finished
      PROVE  FinishedStep
  <2>1. id \in Ids /\ id <= lastId
    BY <1>3 DEF FinishedInv, Used
  <2> QED
    BY <1>1, <1>3, <2>1, SavedFinished DEF Finish
<1>4. ASSUME NEW id \in Ids, UpsertResident(id)
      PROVE  FinishedStep
  BY <1>1, <1>4, SavedFinished DEF UpsertResident
<1>5. ASSUME NEW id \in Ids, Removed(id), kind = "key"
      PROVE  FinishedStep
  <2>1. Copies' = Copies
    BY <1>5 DEF Removed, passVars, Copies, InSheet
  <2>2. \A u \in Used' : u \in Used /\ rows'[u] = rows[u]
    BY <1>5 DEF Removed, Used, TypeInv, TypeOK
  <2>3. \A u \in Used : rows'[u] # NoRow => rows'[u] = rows[u]
    BY <1>5 DEF Removed, Used, TypeInv, TypeOK
  <2>4. \A e \in Copies : Known(e)'
    BY <1>5, <2>2 DEF Removed, FinishedInv, Known
  <2> QED
    BY <1>5, <2>1, <2>2, <2>3, <2>4
       DEF Removed, FinishedStep, FinishedInv, StaysFinished
<1>6. ASSUME NEW id \in Ids, DeleteDelivery(id)
      PROVE  FinishedStep
  <2>1. Copies' = Copies
    BY <1>6 DEF DeleteDelivery, passVars, Copies, InSheet
  <2> QED
    BY <1>6, <2>1, CopiedFinished DEF DeleteDelivery
<1> QED
  BY <1>2, <1>3, <1>4, <1>5, <1>6
     DEF HandlerStep, CreateKey, CreateDiarista, CreateService,
         CreateDelivery, ReturnKey, DeleteKey, CheckoutDiarista,
         UpdateServiceStatus, DeleteService, WithdrawDelivery

(* A mark moves updated_at forward and leaves the rest of a row. *)
LEMMA MarkFinished ==
    ASSUME TypeInv, FinishedInv, cur \in Entry, NEW sync \in SyncStatuses,
           Mark(sync), UNCHANGED <<kind, lastId, sheet, todo>>,
           NEW rest \in SUBSET batch, batch' = rest
    PROVE  FinishedStep
<1>1. Used' = Used
  BY MarkType
<1>2. Copies' \subseteq Copies
  BY DEF Copies, InSheet
<1>3. ASSUME NEW id \in Used
      PROVE  /\ rows'[id].finished = rows[id].finished
             /\ rows'[id].changed = rows[id].changed
             /\ rows[id].updated <= rows'[id].updated
             /\ rows[id].updated \in 1..MaxClock
             /\ rows'[id].updated \in 1..MaxClock
  <2>1. /\ id \in Ids /\ rows[id] \in Row /\ clock \in Times
        /\ rows[id].updated <= clock
    BY EntriesOfRows DEF TypeInv, TypeOK, Used, NoneFromTheFuture
  <2>2. CASE id = cur.id
    <3> DEFINE row == [rows[cur.id] EXCEPT !.sync = sync, !.updated = clock]
    <3>1. rows' = [rows EXCEPT ![id] = row]
      BY <2>2 DEF Mark
    <3>2. /\ row.finished = rows[id].finished
          /\ row.changed = rows[id].changed
          /\ row.updated = clock
      BY <2>1, <2>2 DEF Row
    <3>3. rows'[id] = row
      BY <2>1, <3>1 DEF TypeInv, TypeOK
    <3> QED
      BY <2>1, <3>2, <3>3 DEF Row, Times
  <2>3. CASE id # cur.id
    <3>1. rows'[id] = rows[id]
      BY <2>1, <2>3 DEF Mark, TypeInv, TypeOK
    <3> QED
      BY <2>1, <3>1, RecordsAssumption DEF Row, Times
  <2> QED
    BY <2>2, <2>3
<1>4. ASSUME NEW e \in Copies, kind # "service"
      PROVE  Known(e)'
  <2>1. e.updated \in 1..MaxClock
    BY CopiesAreEntries DEF TypeInv, Entry, Times
  <2>2. Known(e)
    BY <1>4 DEF FinishedInv
  <2> QED
    BY <1>1, <1>3, <2>1, <2>2, RecordsAssumption DEF Known
<1> QED
  BY <1>1, <1>2, <1>3, <1>4
     DEF FinishedStep, FinishedInv, StaysFinished

LEMMA SyncFinished ==
    ASSUME TypeInv, FinishedInv, SyncStep, kind # "service"
    PROVE  FinishedStep
<1>1. CASE ListPendingSync
  <2>1. \A id \in Used : /\ EntryOf(id).id = id
                         /\ EntryOf(id).finished = rows[id].finished
                         /\ EntryOf(id).changed = rows[id].changed
    BY DEF EntryOf
  <2>2. \A e \in PendingSync : Known(e)'
    <3> SUFFICES ASSUME NEW e \in PendingSync PROVE Known(e)'
      OBVIOUS
    <3>1. PICK id \in Used : e = EntryOf(id)
      BY DEF PendingSync
    <3> QED
      BY <1>1, <2>1, <3>1 DEF ListPendingSync, Known, FinishedInv, Used
  <2>3. \A e \in Copies : Known(e)'
    BY <1>1 DEF ListPendingSync, Known, FinishedInv, Used
  <2>4. Copies' \subseteq Copies \union PendingSync
    BY <1>1 DEF ListPendingSync, Copies, InSheet
  <2> QED
    BY <1>1, <2>2, <2>3, <2>4
       DEF ListPendingSync, FinishedStep, FinishedInv, StaysFinished, Used
<1>2. ASSUME NEW e \in batch, AppendRecord(e) \/ AppendFails(e)
      PROVE  FinishedStep
  <2>1. e \in Entry /\ e \in Copies /\ e.id \in Ids
    BY DEF TypeInv, TypeOK, Copies, Entry
  <2>2. sheet' \in {sheet, [sheet EXCEPT ![e.id] = e]}
    BY <1>2 DEF AppendRecord, AppendFails
  <2>3. InSheet' \subseteq InSheet \union {e}
    BY <2>1, <2>2 DEF InSheet, TypeInv, TypeOK
  <2>4. Copies' \subseteq Copies
    BY <1>2, <2>1, <2>3 DEF AppendRecord, AppendFails, Copies
  <2> QED
    BY <1>2, <2>4, CopiedFinished DEF AppendRecord, AppendFails
<1>3. CASE MarkSynced
  <2>1. cur \in Entry /\ "SINCRONIZADO" \in SyncStatuses
    BY <1>3 DEF MarkSynced, TypeInv, TypeOK, SyncStatuses
  <2> QED
    BY <1>3, <2>1, MarkFinished DEF MarkSynced, Continue
<1>4. CASE MarkSyncedFails
  <2>1. Copies' \subseteq Copies
    BY <1>4 DEF MarkSyncedFails, Continue, Copies, InSheet
  <2> QED
    BY <1>4, <2>1, CopiedFinished DEF MarkSyncedFails
<1>5. CASE MarkSyncError
  <2>1. cur \in Entry /\ "ERRO_SYNC" \in SyncStatuses
    BY <1>5 DEF MarkSyncError, TypeInv, TypeOK, SyncStatuses
  <2>2. Copies' \subseteq Copies
    BY <1>5 DEF MarkSyncError, Continue, Copies, InSheet
  <2>3. CASE UNCHANGED rows
    BY <1>5, <2>2, <2>3, CopiedFinished DEF MarkSyncError
  <2>4. CASE Mark("ERRO_SYNC")
    BY <1>5, <2>1, <2>4, MarkFinished DEF MarkSyncError, Continue
  <2> QED
    BY <1>5, <2>3, <2>4 DEF MarkSyncError
<1> QED
  BY <1>1, <1>2, <1>3, <1>4, <1>5 DEF SyncStep

LEMMA ImportFinished ==
    ASSUME TypeInv, FinishedInv, ImportStep, kind # "service"
    PROVE  FinishedStep
<1>1. ASSUME NEW i \in Importers, ReadRecords(i)
      PROVE  FinishedStep
  <2>1. Copies' \subseteq Copies
    BY <1>1 DEF ReadRecords, passVars, Copies, InSheet, TypeInv, TypeOK
  <2> QED
    BY <1>1, <2>1, CopiedFinished DEF ReadRecords
<1>2. ASSUME NEW i \in Importers, NEW e \in todo[i],
             UpsertImported(i, e) \/ UpsertImportedResident(i, e)
      PROVE  FinishedStep
  <2>1. /\ e \in Entry /\ e \in Copies /\ e.id \in Ids
        /\ e.updated \in 1..MaxClock /\ e.finished \in BOOLEAN
    BY DEF TypeInv, TypeOK, Copies, Entry, Times
  <2>2. Known(e)
    BY <2>1 DEF FinishedInv
  <2>3. Copies' \subseteq Copies
    BY <1>2 DEF UpsertImported, UpsertImportedResident, passVars, Copies,
                InSheet, TypeInv, TypeOK
  <2>4. kind \in {"diarista", "resident"}
    BY <1>2 DEF UpsertImported, UpsertImportedResident
  <2>5. /\ kind' = kind
        /\ kind = "diarista" => lastId' = lastId
    BY <1>2, <2>1, <2>2, <2>4, RecordsAssumption
       DEF UpsertImported, UpsertImportedResident, Known, TypeInv, TypeOK, Ids
  <2>6. ImportedRow(e) # NoRow /\ ImportedRow(e).finished = e.finished
        /\ ImportedRow(e).updated = e.updated
        /\ ImportedRow(e).changed = e.changed
    BY <2>1, RecordsAssumption DEF ImportedRow, Row, Entry, SyncStatuses
  <2>7. CASE rows' = rows
    BY <2>3, <2>4, <2>5, <2>7, CopiedFinished, <1>2
       DEF UpsertImported, UpsertImportedResident
  <2>8. CASE rows' = [rows EXCEPT ![e.id] = ImportedRow(e)] /\ kind = "resident"
    <3>1. \A u \in Used' : ~rows'[u].finished
      BY <2>1, <2>2, <2>6, <2>8 DEF Known, FinishedInv, Used, TypeInv, TypeOK
    <3>2. \A f \in Copies : Known(f)'
      BY <2>5, <2>8, <3>1 DEF FinishedInv, Known
    <3> QED
      BY <2>3, <2>5, <2>8, <3>1, <3>2
         DEF FinishedStep, FinishedInv, StaysFinished
  <2>9. CASE /\ kind = "diarista"
             /\ rows' = [rows EXCEPT ![e.id] = ImportedRow(e)]
             /\ MayOverwrite(e)
    <3>1. e.id \in Used /\ Used' = Used
      BY <2>1, <2>2, <2>6, <2>9 DEF Known, Used, TypeInv, TypeOK
    <3>2. rows[e.id].updated <= e.updated /\ rows[e.id] \in Row
      BY <2>9, <3>1 DEF MayOverwrite, Used, TypeInv, TypeOK
    <3>3. rows[e.id].updated \in 1..MaxClock /\ rows[e.id].finished \in BOOLEAN
      BY <3>2 DEF Row, Times
    <3>4. e.finished = rows[e.id].finished /\ e.changed = rows[e.id].changed
      <4>1. e.finished = rows[e.id].finished
        BY <2>1, <2>2, <3>1, <3>2, <3>3, RecordsAssumption DEF Known
      <4> QED
        BY <2>2, <2>9, <3>1, <4>1 DEF Known
    <3>5. /\ rows'[e.id].finished = rows[e.id].finished
          /\ rows'[e.id].changed = rows[e.id].changed
          /\ rows'[e.id].updated = e.updated
          /\ \A u \in Ids \ {e.id} : rows'[u] = rows[u]
      BY <2>1, <2>6, <2>9, <3>4 DEF TypeInv, TypeOK
    <3>6. ASSUME NEW f \in Copies
          PROVE  Known(f)'
      <4>1. f.updated \in 1..MaxClock /\ f.id \in Ids
        BY CopiesAreEntries DEF TypeInv, Entry, Times
      <4>2. Known(f)
        BY DEF FinishedInv
      <4>3. f.id = e.id => (rows[e.id].finished /\ ~f.finished =>
                               f.updated < e.updated)
        BY <2>1, <3>1, <3>2, <3>3, <4>1, <4>2, RecordsAssumption DEF Known
      <4> QED
        BY <2>5, <2>9, <3>1, <3>5, <4>1, <4>2, <4>3 DEF Known
    <3> QED
      BY <2>3, <2>5, <2>9, <3>1, <3>5, <3>6
         DEF FinishedStep, FinishedInv, StaysFinished, Used
  <2> QED
    BY <1>2, <2>2, <2>4, <2>7, <2>8, <2>9
       DEF UpsertImported, UpsertImportedResident, Known
<1>3. ASSUME NEW i \in Importers, ImportFails(i)
      PROVE  FinishedStep
  <2>1. /\ \A j \in Importers : todo'[j] \subseteq todo[j]
        /\ Copies' \subseteq Copies
    BY <1>3 DEF ImportFails, passVars, Copies, InSheet, TypeInv, TypeOK
  <2> QED
    BY <1>3, <2>1, CopiedFinished DEF ImportFails
<1> QED
  BY <1>1, <1>2, <1>3 DEF ImportStep

LEMMA NextFinished ==
    ASSUME TypeInv, FinishedInv, [Next]_vars
    PROVE  FinishedStep
<1>1. kind' = kind
  BY DEF vars, Next, HandlerStep, CreateKey, CreateDiarista, CreateService,
         CreateDelivery, ReturnKey, DeleteKey, CheckoutDiarista,
         UpdateServiceStatus, DeleteService, WithdrawDelivery,
         DeleteDelivery, UpsertResident, Inserted, Finish, Removed,
         SyncStep, ListPendingSync, AppendRecord, AppendFails, MarkSynced,
         MarkSyncedFails, MarkSyncError, ImportStep, ReadRecords,
         UpsertImported, UpsertImportedResident, ImportFails, Crash
<1>2. CASE kind = "service"
  BY <1>1, <1>2 DEF FinishedStep, FinishedInv, StaysFinished
<1>3. CASE Crash
  <2>1. /\ Copies' \subseteq Copies
        /\ \A i \in Importers : todo'[i] \subseteq todo[i]
    BY <1>3 DEF Crash, Copies, InSheet
  <2> QED
    BY <1>3, <2>1, CopiedFinished DEF Crash
<1>4. CASE UNCHANGED vars
  <2>1. Copies' = Copies
    BY <1>4 DEF vars, passVars, Copies, InSheet
  <2> QED
    BY <1>4, <2>1, CopiedFinished DEF vars
<1> QED
  BY <1>2, <1>3, <1>4, HandlerFinished, SyncFinished, ImportFinished DEF Next

LEMMA FinishedInvariant == Spec => []FinishedInv
<1>1. Init => FinishedInv
  BY DEF Init, FinishedInv, Copies, InSheet, Used
<1>2. TypeInv /\ FinishedInv /\ [Next]_vars => FinishedInv'
  BY NextFinished DEF FinishedStep
<1> QED
  BY <1>1, <1>2, TypeInvariant, PTL DEF Spec

(* A returned key, a diarista who has left and a withdrawn delivery never  *)
(* come back, with any number of imports of any age.                       *)
THEOREM FinishedForEver == Spec => FinishedStaysFinished
<1>1. TypeInv /\ FinishedInv /\ [Next]_vars =>
          [\A id \in Used :
              /\ kind # "service"
              /\ rows[id].finished
              /\ rows'[id] # NoRow
              => rows'[id].finished]_rows
  BY NextFinished DEF FinishedStep, StaysFinished
<1> QED
  BY <1>1, TypeInvariant, FinishedInvariant, PTL
     DEF Spec, FinishedStaysFinished

(* A record marked SINCRONIZADO is in the sheet, whatever answers were     *)
(* lost and wherever the process stopped; a key, a diarista or a delivery  *)
(* as it is, or without its end and nothing else.                          *)
THEOREM AcknowledgedIsThere == Spec => []AcknowledgedInSheet
<1>1. TypeInv /\ InSheetInv /\ FinishedInv => AcknowledgedInSheet
  <2> SUFFICES ASSUME TypeInv, InSheetInv, FinishedInv,
                      NEW id \in Used, rows[id].sync = "SINCRONIZADO"
               PROVE  /\ sheet[id] # NoRow
                      /\ kind \in {"key", "diarista", "delivery"} =>
                             \/ /\ sheet[id].finished = rows[id].finished
                                /\ sheet[id].changed = rows[id].changed
                             \/ rows[id].finished /\ ~sheet[id].finished
    BY DEF AcknowledgedInSheet
  <2>1. id \in Ids /\ sheet[id] # NoRow /\ sheet[id].id = id
    BY DEF InSheetInv, AcknowledgedHasRow, Used
  <2>2. sheet[id] \in Copies /\ sheet[id] \in Entry
    BY <2>1, CopiesAreEntries DEF TypeInv, Copies, InSheet
  <2>3. sheet[id].finished \in BOOLEAN /\ rows[id].finished \in BOOLEAN
    BY <2>2 DEF TypeInv, TypeOK, Used, Entry, Row
  <2>4. kind \in {"key", "diarista", "delivery"} => Known(sheet[id])
    BY <2>2 DEF FinishedInv
  <2> QED
    BY <2>1, <2>3, <2>4 DEF Known
<1> QED
  BY <1>1, TypeInvariant, InSheetInvariant, FinishedInvariant, PTL DEF Spec
=============================================================================
