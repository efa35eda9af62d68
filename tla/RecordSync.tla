----------------------------- MODULE RecordSync -----------------------------
(***************************************************************************)
(* The other records that are copied to the sheet: keys, cleaners that     *)
(* come by the day (diaristas), scheduled services, deliveries and         *)
(* residents.  Each kind has a table and a sheet of its own and shares     *)
(* with the others only the phases of RunOnce, one after the other under   *)
(* runMu; so a behaviour follows one kind.                                 *)
(*                                                                         *)
(* A record is reduced to whether it is finished (the key returned, the    *)
(* diarista checked out, the service not "agendado" any more, the delivery *)
(* withdrawn), to the local write that gave it its content, and to its     *)
(* sync columns.  A resident is never finished.  The signatures that also  *)
(* withdraw a delivery are left to their own module.                       *)
(***************************************************************************)
EXTENDS Integers, FiniteSets

CONSTANTS
    Kinds,          \* the kinds of records a model follows
    NoRow,          \* no row of the table or of the sheet
    Importers,      \* goroutines that import this kind from the sheet
    MaxId,          \* bound on the ids (the apartments, for residents)
    MaxClock,       \* bound on the local writes
    MaxCrashes      \* bound on the restarts of the process

Ids == 1..MaxId
Times == 1..MaxClock
SyncStatuses == {"PENDENTE_SYNC", "SINCRONIZADO", "ERRO_SYNC"}

(* changed is the local write that gave the row its content, updated is    *)
(* updated_at.                                                             *)
Row == [finished : BOOLEAN, changed : Times, sync : SyncStatuses,
        updated : Times]

(* A row of the sheet, and a record on its way to or from it.              *)
Entry == [id : Ids, finished : BOOLEAN, changed : Times, updated : Times]

ASSUME RecordsAssumption ==
    /\ Kinds \subseteq {"key", "diarista", "service", "delivery", "resident"}
    /\ MaxId \in Nat
    /\ MaxClock \in Nat
    /\ MaxCrashes \in Nat
    /\ NoRow \notin Row
    /\ NoRow \notin Entry

VARIABLES
    kind,       \* the kind this behaviour follows
    rows,       \* its table
    lastId,     \* the largest id AUTOINCREMENT has given
    deleted,    \* shopping_delivery_deletions
    clock,      \* local writes so far
    stage,      \* where the phase of RunOnce for this kind is
    batch,      \* records listed and not yet sent
    cur,        \* the record being sent
    sheet,      \* the row of each id in the sheet
    todo,       \* sheet rows each import has read and not yet applied
    crashes     \* restarts so far

passVars == <<stage, batch, cur>>
vars == <<kind, rows, lastId, deleted, clock, passVars, sheet, todo, crashes>>

TypeOK ==
    /\ kind \in Kinds
    /\ rows \in [Ids -> Row \union {NoRow}]
    /\ lastId \in 0..MaxId
    /\ deleted \subseteq Ids
    /\ clock \in 0..MaxClock
    /\ stage \in {"idle", "next", "sent", "failed"}
    /\ batch \subseteq Entry
    /\ cur \in Entry \union {NoRow}
    /\ stage \in {"sent", "failed"} => cur \in Entry
    /\ sheet \in [Ids -> Entry \union {NoRow}]
    /\ todo \in [Importers -> SUBSET Entry]
    /\ crashes \in 0..MaxCrashes

-----------------------------------------------------------------------------
(* The tables *)

Used == {id \in Ids : rows[id] # NoRow}

EntryOf(id) == [id |-> id, finished |-> rows[id].finished,
                changed |-> rows[id].changed, updated |-> rows[id].updated]

(* A handler stores new content, which waits for the sheet.                *)
Saved(id, finished) ==
    /\ clock < MaxClock
    /\ clock' = clock + 1
    /\ rows' = [rows EXCEPT ![id] =
                   [finished |-> finished, changed |-> clock',
                    sync |-> "PENDENTE_SYNC", updated |-> clock']]

(* The tables with an INTEGER PRIMARY KEY AUTOINCREMENT.                   *)
Inserted ==
    /\ lastId < MaxId
    /\ lastId' = lastId + 1
    /\ Saved(lastId', FALSE)
    /\ UNCHANGED <<kind, deleted, passVars, sheet, todo, crashes>>

Finish(id) ==
    /\ Saved(id, TRUE)
    /\ UNCHANGED <<kind, lastId, deleted, passVars, sheet, todo, crashes>>

Removed(id) ==
    /\ id \in Used
    /\ rows' = [rows EXCEPT ![id] = NoRow]
    /\ UNCHANGED <<kind, lastId, deleted, clock, passVars, sheet, todo,
                   crashes>>

-----------------------------------------------------------------------------
(* Keys *)

CreateKey == kind = "key" /\ Inserted

(* Return, of a key that is "retirada".                                    *)
ReturnKey(id) ==
    /\ kind = "key"
    /\ id \in Used
    /\ ~rows[id].finished
    /\ Finish(id)

DeleteKey(id) == kind = "key" /\ Removed(id)

(* Diaristas *)

CreateDiarista == kind = "diarista" /\ Inserted

(* Checkout, of an entry without exit_time. *)
CheckoutDiarista(id) ==
    /\ kind = "diarista"
    /\ id \in Used
    /\ ~rows[id].finished
    /\ Finish(id)

(* Scheduled services *)

CreateService == kind = "service" /\ Inserted

(* UpdateStatus, to "realizado" or "cancelado", as often as asked for.     *)
UpdateServiceStatus(id) ==
    /\ kind = "service"
    /\ id \in Used
    /\ Finish(id)

DeleteService(id) == kind = "service" /\ Removed(id)

(* Deliveries *)

CreateDelivery == kind = "delivery" /\ Inserted

(* Withdraw, of a delivery that waits and is not deleted.                  *)
WithdrawDelivery(id) ==
    /\ kind = "delivery"
    /\ id \in Used \ deleted
    /\ ~rows[id].finished
    /\ Finish(id)

(* Delete, of a delivery that waits: the row stays, without a new status.  *)
DeleteDelivery(id) ==
    /\ kind = "delivery"
    /\ id \in Used \ deleted
    /\ ~rows[id].finished
    /\ deleted' = deleted \union {id}
    /\ UNCHANGED <<kind, rows, lastId, clock, passVars, sheet, todo, crashes>>

(* Residents: one row for each apartment, inserted or replaced.            *)
UpsertResident(unit) ==
    /\ kind = "resident"
    /\ Saved(unit, FALSE)
    /\ UNCHANGED <<kind, lastId, deleted, passVars, sheet, todo, crashes>>

HandlerStep ==
    \/ CreateKey
    \/ CreateDiarista
    \/ CreateService
    \/ CreateDelivery
    \/ \E id \in Ids :
           \/ ReturnKey(id)
           \/ DeleteKey(id)
           \/ CheckoutDiarista(id)
           \/ UpdateServiceStatus(id)
           \/ DeleteService(id)
           \/ WithdrawDelivery(id)
           \/ DeleteDelivery(id)
           \/ UpsertResident(id)

-----------------------------------------------------------------------------
(* The phase of RunOnce *)

(* Mutation: records that failed once are not tried again.                 *)
NeverFailed == {EntryOf(id) : id \in {u \in Used \ deleted :
                    rows[u].sync = "PENDENTE_SYNC"}}

PendingSync == {EntryOf(id) : id \in {u \in Used \ deleted :
                    rows[u].sync \in {"PENDENTE_SYNC", "ERRO_SYNC"}}}

ListPendingSync ==
    /\ stage = "idle"
    /\ PendingSync # {}
    /\ batch' = PendingSync
    /\ stage' = "next"
    /\ UNCHANGED <<kind, rows, lastId, deleted, clock, cur, sheet, todo,
                   crashes>>

(* The list is ordered by updated_at. *)
IsNext(e) == e \in batch /\ \A f \in batch : e.updated <= f.updated

(* AppendKeyRecord, AppendResident and the like: the row that carries the  *)
(* id is updated, else one is appended.  The calls of one pass are the     *)
(* only writers of the sheet, so search and write are one step.            *)
AppendRecord(e) ==
    /\ stage = "next"
    /\ IsNext(e)
    /\ cur' = e
    /\ sheet' = [sheet EXCEPT ![e.id] = e]
    /\ stage' = "sent"
    /\ UNCHANGED <<kind, rows, lastId, deleted, clock, batch, todo, crashes>>

(* Mutation: the error of the write is dropped.                            *)
AppendFailsSilently(e) ==
    /\ stage = "next"
    /\ IsNext(e)
    /\ cur' = e
    /\ stage' = "sent"
    /\ UNCHANGED <<kind, rows, lastId, deleted, clock, batch, sheet, todo,
                   crashes>>

(* The call fails, before or after the sheet took the row.                 *)
AppendFails(e) ==
    /\ stage = "next"
    /\ IsNext(e)
    /\ cur' = e
    /\ sheet' \in {sheet, [sheet EXCEPT ![e.id] = e]}
    /\ stage' = "failed"
    /\ UNCHANGED <<kind, rows, lastId, deleted, clock, batch, todo, crashes>>

Continue(rest) ==
    /\ batch' = rest
    /\ cur' = NoRow
    /\ stage' = IF rest = {} THEN "idle" ELSE "next"

(* The marks find the row by its id alone and move updated_at.  They read  *)
(* the clock and do not advance it: a tie with a local write only lets an  *)
(* import replace a row by the same content.                               *)
Mark(sync) ==
    rows' = IF cur.id \in Used
            THEN [rows EXCEPT ![cur.id] =
                     [rows[cur.id] EXCEPT !.sync = sync, !.updated = clock]]
            ELSE rows

MarkSynced ==
    /\ stage = "sent"
    /\ Mark("SINCRONIZADO")
    /\ Continue(batch \ {cur})
    /\ UNCHANGED <<kind, lastId, deleted, clock, sheet, todo, crashes>>

(* MarkSynced returns an error, which ends the pass.                       *)
MarkSyncedFails ==
    /\ stage = "sent"
    /\ Continue({})
    /\ UNCHANGED <<kind, rows, lastId, deleted, clock, sheet, todo, crashes>>

(* MarkSyncError, whose own error RunOnce ignores.                         *)
MarkSyncError ==
    /\ stage = "failed"
    /\ Mark("ERRO_SYNC") \/ UNCHANGED rows
    /\ Continue(batch \ {cur})
    /\ UNCHANGED <<kind, lastId, deleted, clock, sheet, todo, crashes>>

SyncStep ==
    \/ ListPendingSync
    \/ \E e \in batch : AppendRecord(e) \/ AppendFails(e)
    \/ MarkSynced
    \/ MarkSyncedFails
    \/ MarkSyncError

-----------------------------------------------------------------------------
(* ImportDiaristas, ImportScheduledServices, ImportResidents *)

InSheet == {sheet[id] : id \in {i \in Ids : sheet[i] # NoRow}}

(* One read of the whole sheet. *)
ReadRecords(i) ==
    /\ kind \in {"diarista", "service", "resident"}
    /\ todo[i] = {}
    /\ InSheet # {}
    /\ todo' = [todo EXCEPT ![i] = InSheet]
    /\ UNCHANGED <<kind, rows, lastId, deleted, clock, passVars, sheet,
                   crashes>>

(* Mutation: an import leaves sync_status empty.                           *)
ImportedUnmarked(e) == [finished |-> e.finished, changed |-> e.changed,
                        sync |-> "", updated |-> e.updated]

(* The row an import stores, with the updated_at of the sheet.             *)
ImportedRow(e) == [finished |-> e.finished, changed |-> e.changed,
                   sync |-> "SINCRONIZADO", updated |-> e.updated]

(* Mutations: one half of the condition is missing.                        *)
SyncedOnly(e) == rows[e.id].sync = "SINCRONIZADO"
NewerOnly(e) == e.updated >= rows[e.id].updated

(* The WHERE of the upsert of diaristas and services.                      *)
MayOverwrite(e) ==
    /\ rows[e.id].sync = "SINCRONIZADO"
    /\ e.updated >= rows[e.id].updated

(* UpsertImported, one sheet row: a row that is missing is inserted.       *)
UpsertImported(i, e) ==
    /\ kind \in {"diarista", "service"}
    /\ e \in todo[i]
    /\ todo' = [todo EXCEPT ![i] = @ \ {e}]
    /\ rows' = IF e.id \notin Used \/ MayOverwrite(e)
               THEN [rows EXCEPT ![e.id] = ImportedRow(e)] ELSE rows
    /\ lastId' = IF e.id > lastId THEN e.id ELSE lastId
    /\ UNCHANGED <<kind, deleted, clock, passVars, sheet, crashes>>

(* UpsertImported of residents has no condition.                           *)
UpsertImportedResident(i, e) ==
    /\ kind = "resident"
    /\ e \in todo[i]
    /\ todo' = [todo EXCEPT ![i] = @ \ {e}]
    /\ rows' = [rows EXCEPT ![e.id] = ImportedRow(e)]
    /\ UNCHANGED <<kind, lastId, deleted, clock, passVars, sheet, crashes>>

(* The first error ends an import. *)
ImportFails(i) ==
    /\ todo[i] # {}
    /\ todo' = [todo EXCEPT ![i] = {}]
    /\ UNCHANGED <<kind, rows, lastId, deleted, clock, passVars, sheet,
                   crashes>>

ImportStep ==
    \E i \in Importers :
        \/ ReadRecords(i)
        \/ \E e \in todo[i] :
               UpsertImported(i, e) \/ UpsertImportedResident(i, e)
        \/ ImportFails(i)

-----------------------------------------------------------------------------
(* The process stops and starts again.                                     *)
Crash ==
    /\ crashes < MaxCrashes
    /\ crashes' = crashes + 1
    /\ stage' = "idle"
    /\ batch' = {}
    /\ cur' = NoRow
    /\ todo' = [i \in Importers |-> {}]
    /\ UNCHANGED <<kind, rows, lastId, deleted, clock, sheet>>

Init ==
    /\ kind \in Kinds
    /\ rows = [id \in Ids |-> NoRow]
    /\ lastId = 0
    /\ deleted = {}
    /\ clock = 0
    /\ stage = "idle"
    /\ batch = {}
    /\ cur = NoRow
    /\ sheet = [id \in Ids |-> NoRow]
    /\ todo = [i \in Importers |-> {}]
    /\ crashes = 0

Next == HandlerStep \/ SyncStep \/ ImportStep \/ Crash

Spec == Init /\ [][Next]_vars

(***************************************************************************)
(* Fairness, as for the access log: the ticker keeps calling RunOnce and   *)
(* the connection returns.                                                 *)
(***************************************************************************)
Fairness ==
    /\ WF_vars(ListPendingSync)
    /\ WF_vars(\E e \in batch : AppendRecord(e) \/ AppendFails(e))
    /\ WF_vars(MarkSynced \/ MarkSyncedFails)
    /\ WF_vars(MarkSyncError)
    /\ \A id \in Ids :
           /\ SF_vars(\E e \in batch : e.id = id /\ AppendRecord(e))
           /\ SF_vars(MarkSynced /\ cur.id = id)

FairSpec == Spec /\ Fairness

-----------------------------------------------------------------------------
(* Properties *)

(* A returned key, a diarista who has left and a withdrawn delivery stay   *)
(* so, however old the sheet rows are that an import applies: even a       *)
(* checkout that was acknowledged unsent survives, because the import      *)
(* compares updated_at.  (A service can be deleted and come back older.)   *)
FinishedStaysFinished ==
    [][\A id \in Used :
           /\ kind # "service"
           /\ rows[id].finished
           /\ rows'[id] # NoRow
           => rows'[id].finished]_rows

(* A change that waits for the sheet leaves the queue only when RunOnce    *)
(* acknowledges it or the record is deleted; an import never replaces it.  *)
(* Residents have no such rule in the code.                                *)
OnlyAckLeavesQueue ==
    [][\A id \in Used :
           /\ kind # "resident"
           /\ rows[id].sync # "SINCRONIZADO"
           /\ rows'[id] # NoRow
           /\ rows'[id].sync = "SINCRONIZADO"
           => /\ stage = "sent"
              /\ cur.id = id
              /\ rows'[id].changed = rows[id].changed]_rows

(* A record marked SINCRONIZADO has a row in the sheet.  A key, a diarista *)
(* or a delivery is there as it is, or lacks its end and nothing else: a   *)
(* mark by id alone can acknowledge the end unsent, but no mark and no     *)
(* import leaves the table behind what the sheet shows.  (Services and     *)
(* residents change more than once, and an import can bring old rows.)     *)
AcknowledgedInSheet ==
    \A id \in Used : rows[id].sync = "SINCRONIZADO" =>
        /\ sheet[id] # NoRow
        /\ kind \in {"key", "diarista", "delivery"} =>
               \/ /\ sheet[id].finished = rows[id].finished
                  /\ sheet[id].changed = rows[id].changed
               \/ rows[id].finished /\ ~sheet[id].finished

(* Every record reaches the sheet, in some version, or is deleted first.   *)
EveryRecordReachesSheet ==
    \A id \in Ids :
        id \in Used ~>
            sheet[id] # NoRow \/ id \notin Used \/ id \in deleted

(* A change of a resident that waits for the sheet is not replaced by an   *)
(* older row of it: ADR 0001, "Sempre salvar primeiro no SQLite" and       *)
(* "Sincronizar automaticamente quando a conexao retornar".                *)
ResidentChangeSurvives ==
    [][\A id \in Used :
           rows[id].sync # "SINCRONIZADO" =>
               rows'[id] # NoRow /\ rows'[id].changed >= rows[id].changed
      ]_rows
=============================================================================
