----------------------------- MODULE AccessLog -----------------------------
(***************************************************************************)
(* The visitor log of the gate: the access_logs table of the local SQLite  *)
(* database, the HTTP handlers that open and close visits, the RunOnce     *)
(* passes that copy unsynchronised rows to the Google sheet, and the       *)
(* import that reads the sheet back.                                       *)
(*                                                                         *)
(* A visit is reduced to what the handlers branch on: its external id, the *)
(* normalised document, whether it is open (exit_at IS NULL and            *)
(* EM_ANDAMENTO, which the code always sets together) and its sync status. *)
(***************************************************************************)
EXTENDS Integers, Sequences

CONSTANTS
    Documents,      \* normalised documents of visitors
    Tokens,         \* external ids the program can generate
    Blank,          \* the empty external id of rows older than migration 009
    NoRow,          \* an id no row of the table uses
    MaxId,          \* bound on the ids of the table
    MaxCrashes,     \* bound on the restarts of the process
    Callers,        \* goroutines that call RunOnce: ticker, startup, handlers
    Nobody,         \* the owner of a free runMu
    Importers,      \* goroutines that call ImportAccessLogs
    Installations   \* the database and the sheet found at the first start

Ids == 1..MaxId
ExternalIds == Tokens \union {Blank}
SyncStatuses == {"PENDENTE_SYNC", "SINCRONIZADO", "ERRO_SYNC"}

(* A row of access_logs; its id is its place in the table.                 *)
Row == [ext : ExternalIds, doc : Documents, open : BOOLEAN,
        sync : SyncStatuses]

(* A row of the sheet, and a record in memory on its way to or from it.    *)
Entry == [id : Ids, ext : ExternalIds, doc : Documents, open : BOOLEAN]

(* No two rows of a table are active visits of one document.               *)
OneActive(table) ==
    \A i, j \in Ids :
        /\ i # j
        /\ table[i] # NoRow
        /\ table[j] # NoRow
        /\ table[i].open
        /\ table[j].open
        => table[i].doc # table[j].doc

ASSUME ConstantsAssumption ==
    /\ MaxId \in Nat
    /\ MaxCrashes \in Nat
    /\ Blank \notin Tokens
    /\ NoRow \notin Row
    /\ NoRow \notin Entry
    /\ Nobody \notin Callers

ASSUME InstallationsAssumption ==
    \A start \in Installations :
        /\ start.rows \in [Ids -> Row \union {NoRow}]
        /\ start.sheet \in Seq(Entry)
        /\ OneActive(start.rows)

VARIABLES
    rows,       \* the table access_logs
    sheet,      \* the rows of the sheet "Entradas", in order
    admitted,   \* Create calls between HasOpenByDocument and the INSERT
    lock,       \* runMu of the sync service
    pc,         \* where each RunOnce call is
    batch,      \* the records ListPendingSync returned, still to be sent
    cur,        \* the record being sent
    hits,       \* the sheet rows findAccessLogRows returned for it
    step,       \* where each import is
    todo,       \* the sheet rows an import read, still to be applied
    found,      \* the local id an import looked up, 0 if it found none
    crashes     \* restarts so far

syncVars == <<lock, pc, batch, cur, hits>>
importVars == <<step, todo, found>>
vars == <<rows, sheet, admitted, syncVars, importVars, crashes>>

TypeOK ==
    /\ rows \in [Ids -> Row \union {NoRow}]
    /\ sheet \in Seq(Entry)
    /\ admitted \subseteq [ext : Tokens, doc : Documents]
    /\ lock \in Callers \union {Nobody}
    /\ pc \in [Callers -> {"idle", "pick", "write", "sent", "failed"}]
    /\ batch \in [Callers -> SUBSET Entry]
    /\ cur \in [Callers -> Entry \union {NoRow}]
    /\ \A c \in Callers :
           pc[c] \in {"write", "sent", "failed"} => cur[c] \in Entry
    /\ hits \in [Callers -> SUBSET Nat]
    /\ step \in [Importers -> {"idle", "lookup", "apply"}]
    /\ todo \in [Importers -> Seq(Entry)]
    /\ \A i \in Importers : step[i] # "idle" => todo[i] # <<>>
    /\ found \in [Importers -> 0..MaxId]
    /\ crashes \in 0..MaxCrashes

-----------------------------------------------------------------------------
(* The table *)

Used == {id \in Ids : rows[id] # NoRow}

(* AUTOINCREMENT: rows are never deleted, so the next id follows the       *)
(* largest in use.                                                         *)
NextId(id) ==
    /\ \A used \in Used : used < id
    /\ id = 1 \/ id - 1 \in Used

(* The record a row is read into.                                          *)
EntryOf(id) == [id |-> id, ext |-> rows[id].ext, doc |-> rows[id].doc,
                open |-> rows[id].open]

(* Mutation: an imported row keeps the empty status of its record.         *)
RowWithoutStatus(e, status) == [ext |-> e.ext, doc |-> e.doc,
                                open |-> e.open, sync |-> ""]

RowOf(e, status) == [ext |-> e.ext, doc |-> e.doc, open |-> e.open,
                     sync |-> status]

(* HasOpenByDocument, the query behind the early answer of Create.         *)
HasOpenByDocument(d) ==
    \E id \in Used : rows[id].open /\ rows[id].doc = d

(* Mutation: the triggers are not created.                                 *)
NoTrigger(id, d, open) == FALSE

(* The condition under which the triggers of migration 011 abort a         *)
(* statement that would leave row id as an active visit of document d.     *)
ActiveVisitExists(id, d, open) ==
    /\ open
    /\ \E other \in Used \ {id} : rows[other].open /\ rows[other].doc = d

(* The unique index on non-empty external ids.                             *)
ExternalIdTaken(id, ext) ==
    ext # Blank /\ \E other \in Used \ {id} : rows[other].ext = ext

(* A token newAccessLogExternalID may return: nobody has it yet.           *)
Unseen(t) ==
    /\ \A id \in Used : rows[id].ext # t
    /\ \A k \in DOMAIN sheet : sheet[k].ext # t
    /\ \A request \in admitted : request.ext # t
    /\ \A i \in Importers : \A k \in DOMAIN todo[i] : todo[i][k].ext # t

-----------------------------------------------------------------------------
(* HTTP handlers *)

(* Create, up to the check of the document: the request holds a fresh      *)
(* external id and a document that had no active visit when it looked.     *)
CreateCheck(t, d) ==
    /\ Unseen(t)
    /\ ~HasOpenByDocument(d)
    /\ admitted' = admitted \union {[ext |-> t, doc |-> d]}
    /\ UNCHANGED <<rows, sheet, syncVars, importVars, crashes>>

(* Create, the INSERT: the trigger refuses it when another request opened  *)
(* a visit of the same document in between.                                *)
CreateInsert(request, id) ==
    /\ request \in admitted
    /\ NextId(id)
    /\ admitted' = admitted \ {request}
    /\ rows' = IF ActiveVisitExists(id, request.doc, TRUE)
               THEN rows
               ELSE [rows EXCEPT ![id] =
                        [ext |-> request.ext, doc |-> request.doc,
                         open |-> TRUE, sync |-> "PENDENTE_SYNC"]]
    /\ UNCHANGED <<sheet, syncVars, importVars, crashes>>

(* Mutation: a new external id at every checkout.                          *)
CheckoutRenames(id, t) ==
    /\ id \in Used
    /\ rows[id].open
    /\ Unseen(t)
    /\ rows' = [rows EXCEPT ![id] =
                   [ext |-> t, doc |-> rows[id].doc, open |-> FALSE,
                    sync |-> "PENDENTE_SYNC"]]
    /\ UNCHANGED <<sheet, admitted, syncVars, importVars, crashes>>

(* Checkout: closes an open row and queues it; a row without an external   *)
(* id is given one.  An id that is not open answers ErrNotFound.           *)
Checkout(id, t) ==
    /\ id \in Used
    /\ rows[id].open
    /\ IF rows[id].ext = Blank THEN Unseen(t) ELSE t = rows[id].ext
    /\ rows' = [rows EXCEPT ![id] =
                   [ext |-> t, doc |-> rows[id].doc, open |-> FALSE,
                    sync |-> "PENDENTE_SYNC"]]
    /\ UNCHANGED <<sheet, admitted, syncVars, importVars, crashes>>

-----------------------------------------------------------------------------
(* RunOnce *)

(* Mutation: no mutual exclusion.                                          *)
NoLock == TRUE

(* runMu.TryLock: a call that finds it taken returns at once.              *)
TryLock == lock = Nobody

(* Mutation: rows that failed once are not tried again.                    *)
NeverFailed == {EntryOf(id) : id \in {u \in Used :
                    rows[u].sync = "PENDENTE_SYNC"}}

(* ListPendingSync. *)
PendingSync == {EntryOf(id) : id \in {u \in Used :
                    rows[u].sync \in {"PENDENTE_SYNC", "ERRO_SYNC"}}}

(* RunOnce up to the list.  A call that cannot reach the sheet, or lists   *)
(* nothing, unlocks and changes nothing.                                   *)
RunOnce(c) ==
    /\ pc[c] = "idle"
    /\ TryLock
    /\ PendingSync # {}
    /\ lock' = c
    /\ batch' = [batch EXCEPT ![c] = PendingSync]
    /\ pc' = [pc EXCEPT ![c] = "pick"]
    /\ UNCHANGED <<rows, sheet, admitted, cur, hits, importVars, crashes>>

SameId(e) == {k \in DOMAIN sheet : sheet[k].id = e.id}
SameExt(e) == {k \in DOMAIN sheet : sheet[k].ext = e.ext}

(* findAccessLogRows: the rows that carry the external id, else the rows   *)
(* that carry the local id.                                                *)
SheetRows(e) ==
    IF e.ext # Blank /\ SameExt(e) # {} THEN SameExt(e) ELSE SameId(e)

(* AppendAccessLog up to the search, for one record of the batch.          *)
FindAccessLogRows(c, e) ==
    /\ pc[c] = "pick"
    /\ e \in batch[c]
    /\ cur' = [cur EXCEPT ![c] = e]
    /\ hits' = [hits EXCEPT ![c] = SheetRows(e)]
    /\ pc' = [pc EXCEPT ![c] = "write"]
    /\ UNCHANGED <<rows, sheet, admitted, lock, batch, importVars, crashes>>

(* The search fails: the photo, the headers or the column cannot be read.  *)
FindFails(c, e) ==
    /\ pc[c] = "pick"
    /\ e \in batch[c]
    /\ cur' = [cur EXCEPT ![c] = e]
    /\ pc' = [pc EXCEPT ![c] = "failed"]
    /\ UNCHANGED <<rows, sheet, admitted, lock, batch, hits, importVars,
                   crashes>>

(* The sheet after the record overwrote every row found, or was appended.  *)
Written(targets, e) ==
    IF targets = {} THEN Append(sheet, e)
    ELSE [k \in DOMAIN sheet |-> IF k \in targets THEN e ELSE sheet[k]]

(* AppendAccessLog, the write, answered.                                   *)
AppendAccessLog(c) ==
    /\ pc[c] = "write"
    /\ sheet' = Written(hits[c], cur[c])
    /\ pc' = [pc EXCEPT ![c] = "sent"]
    /\ UNCHANGED <<rows, admitted, lock, batch, cur, hits, importVars,
                   crashes>>

(* Mutation: the error of a write is dropped.                              *)
AppendFailsSilently(c) ==
    /\ pc[c] = "write"
    /\ pc' = [pc EXCEPT ![c] = "sent"]
    /\ UNCHANGED <<rows, sheet, admitted, lock, batch, cur, hits, importVars,
                   crashes>>

(* The write is refused, or is done and its answer is lost to the deadline *)
(* of the context, or it stops after the first rows of several: all look   *)
(* alike to RunOnce.                                                       *)
AppendFails(c) ==
    /\ pc[c] = "write"
    /\ \/ UNCHANGED sheet
       \/ hits[c] = {} /\ sheet' = Written({}, cur[c])
       \/ \E last \in hits[c] :
              sheet' = Written({k \in hits[c] : k <= last}, cur[c])
    /\ pc' = [pc EXCEPT ![c] = "failed"]
    /\ UNCHANGED <<rows, admitted, lock, batch, cur, hits, importVars,
                   crashes>>

(* The loop goes on to the rest of the batch, or RunOnce returns and its   *)
(* deferred Unlock runs.                                                   *)
Continue(c, rest) ==
    /\ batch' = [batch EXCEPT ![c] = rest]
    /\ cur' = [cur EXCEPT ![c] = NoRow]
    /\ hits' = [hits EXCEPT ![c] = {}]
    /\ pc' = [pc EXCEPT ![c] = IF rest = {} THEN "idle" ELSE "pick"]
    /\ lock' = IF rest = {} THEN Nobody ELSE lock

(* MarkSynced: by id alone, whatever happened to the row since the list.   *)
MarkSynced(c) ==
    /\ pc[c] = "sent"
    /\ rows' = [rows EXCEPT ![cur[c].id] =
                   [rows[cur[c].id] EXCEPT !.sync = "SINCRONIZADO"]]
    /\ Continue(c, batch[c] \ {cur[c]})
    /\ UNCHANGED <<sheet, admitted, importVars, crashes>>

(* MarkSynced returns an error: RunOnce returns it, the rest of the batch  *)
(* waits for the next call.                                                *)
MarkSyncedFails(c) ==
    /\ pc[c] = "sent"
    /\ Continue(c, {})
    /\ UNCHANGED <<rows, sheet, admitted, importVars, crashes>>

(* MarkSyncError, whose own error RunOnce ignores.                         *)
MarkSyncError(c) ==
    /\ pc[c] = "failed"
    /\ \/ rows' = [rows EXCEPT ![cur[c].id] =
                      [rows[cur[c].id] EXCEPT !.sync = "ERRO_SYNC"]]
       \/ UNCHANGED rows
    /\ Continue(c, batch[c] \ {cur[c]})
    /\ UNCHANGED <<sheet, admitted, importVars, crashes>>

-----------------------------------------------------------------------------
(* ImportAccessLogs *)

(* ReadAccessLogs: one read of the whole sheet. *)
ReadAccessLogs(i) ==
    /\ step[i] = "idle"
    /\ sheet # <<>>
    /\ todo' = [todo EXCEPT ![i] = sheet]
    /\ step' = [step EXCEPT ![i] = "lookup"]
    /\ UNCHANGED <<rows, sheet, admitted, syncVars, found, crashes>>

(* The id UpsertImported works on: that of the row with the same external  *)
(* id, 0 when there is none, the sheet's own when there is no external id. *)
ImportTarget(e) ==
    IF e.ext = Blank THEN e.id
    ELSE IF \E id \in Used : rows[id].ext = e.ext
         THEN CHOOSE id \in Used : rows[id].ext = e.ext
         ELSE 0

(* UpsertImported, the SELECT. *)
UpsertImported(i) ==
    /\ step[i] = "lookup"
    /\ found' = [found EXCEPT ![i] = ImportTarget(Head(todo[i]))]
    /\ step' = [step EXCEPT ![i] = "apply"]
    /\ UNCHANGED <<rows, sheet, admitted, syncVars, todo, crashes>>

(* The first error ends the import; otherwise it goes on to the next row.  *)
NextImported(i, rest) ==
    /\ todo' = [todo EXCEPT ![i] = rest]
    /\ found' = [found EXCEPT ![i] = 0]
    /\ step' = [step EXCEPT ![i] = IF rest = <<>> THEN "idle" ELSE "lookup"]

(* Mutations: one half of the condition is missing.                        *)
SyncedOnly(id, e) == rows[id].sync = "SINCRONIZADO"
NotCompleted(id, e) == rows[id].open \/ ~e.open

(* The WHERE of upsertImportedByID: rows with changes the sheet has not    *)
(* seen, and completed visits the sheet still shows open, are kept.        *)
MayOverwrite(id, e) ==
    /\ rows[id].sync = "SINCRONIZADO"
    /\ rows[id].open \/ ~e.open

(* upsertImportedByID on a row that exists.                                *)
UpdateImported(i) ==
    LET e == Head(todo[i])
        id == found[i]
        aborts == \/ ActiveVisitExists(id, e.doc, e.open)
                  \/ ExternalIdTaken(id, e.ext)
    IN
    /\ step[i] = "apply"
    /\ id \in Used
    /\ rows' = IF MayOverwrite(id, e) /\ ~aborts
               THEN [rows EXCEPT ![id] = RowOf(e, "SINCRONIZADO")]
               ELSE rows
    /\ NextImported(i, IF MayOverwrite(id, e) /\ aborts
                       THEN <<>> ELSE Tail(todo[i]))
    /\ UNCHANGED <<sheet, admitted, syncVars, crashes>>

(* insertImportedWithoutID, for an external id nobody has (the unique      *)
(* index refuses it if another import was faster), and                     *)
(* insertImportedByIDIfMissing, for a row without external id.             *)
InsertImported(i, id) ==
    LET e == Head(todo[i])
        aborts == \/ ActiveVisitExists(id, e.doc, e.open)
                  \/ ExternalIdTaken(id, e.ext)
    IN
    /\ step[i] = "apply"
    /\ \/ found[i] = 0 /\ NextId(id)
       \/ found[i] = id /\ id \notin Used
    /\ rows' = IF aborts THEN rows
               ELSE [rows EXCEPT ![id] = RowOf(e, "SINCRONIZADO")]
    /\ NextImported(i, IF aborts THEN <<>> ELSE Tail(todo[i]))
    /\ UNCHANGED <<sheet, admitted, syncVars, crashes>>

-----------------------------------------------------------------------------
(* The process stops and starts again: the database and the sheet stay,    *)
(* every goroutine is gone.                                                *)
Crash ==
    /\ crashes < MaxCrashes
    /\ crashes' = crashes + 1
    /\ admitted' = {}
    /\ lock' = Nobody
    /\ pc' = [c \in Callers |-> "idle"]
    /\ batch' = [c \in Callers |-> {}]
    /\ cur' = [c \in Callers |-> NoRow]
    /\ hits' = [c \in Callers |-> {}]
    /\ step' = [i \in Importers |-> "idle"]
    /\ todo' = [i \in Importers |-> <<>>]
    /\ found' = [i \in Importers |-> 0]
    /\ UNCHANGED <<rows, sheet>>

Init ==
    /\ \E start \in Installations :
           rows = start.rows /\ sheet = start.sheet
    /\ admitted = {}
    /\ lock = Nobody
    /\ pc = [c \in Callers |-> "idle"]
    /\ batch = [c \in Callers |-> {}]
    /\ cur = [c \in Callers |-> NoRow]
    /\ hits = [c \in Callers |-> {}]
    /\ step = [i \in Importers |-> "idle"]
    /\ todo = [i \in Importers |-> <<>>]
    /\ found = [i \in Importers |-> 0]
    /\ crashes = 0

HandlerStep ==
    \/ \E t \in Tokens, d \in Documents : CreateCheck(t, d)
    \/ \E request \in admitted, id \in Ids : CreateInsert(request, id)
    \/ \E id \in Ids, t \in Tokens : Checkout(id, t)

SyncStep(c) ==
    \/ RunOnce(c)
    \/ \E e \in batch[c] : FindAccessLogRows(c, e)
    \/ \E e \in batch[c] : FindFails(c, e)
    \/ AppendAccessLog(c)
    \/ AppendFails(c)
    \/ MarkSynced(c)
    \/ MarkSyncedFails(c)
    \/ MarkSyncError(c)

ImportStep(i) ==
    \/ ReadAccessLogs(i)
    \/ UpsertImported(i)
    \/ UpdateImported(i)
    \/ \E id \in Ids : InsertImported(i, id)

Next ==
    \/ HandlerStep
    \/ \E c \in Callers : SyncStep(c)
    \/ \E i \in Importers : ImportStep(i)
    \/ Crash

Spec == Init /\ [][Next]_vars

(***************************************************************************)
(* Fairness.  Some goroutine calls RunOnce for ever (the ticker does), and *)
(* whoever holds runMu goes on.  A restart stops nothing for good, and the *)
(* connection returns: a search, a write and an acknowledgement that are   *)
(* tried again and again succeed in the end.  ListPendingSync serves the   *)
(* least recently updated row first and a failure moves a row to the end,  *)
(* so every id has its turn.                                               *)
(***************************************************************************)
Fairness ==
    /\ WF_vars(\E c \in Callers : RunOnce(c))
    /\ WF_vars(\E c \in Callers : \E e \in batch[c] : FindAccessLogRows(c, e))
    /\ WF_vars(\E c \in Callers : AppendAccessLog(c) \/ AppendFails(c))
    /\ WF_vars(\E c \in Callers : MarkSyncError(c))
    /\ \A id \in Ids :
           /\ SF_vars(\E c \in Callers : \E e \in batch[c] :
                         e.id = id /\ FindAccessLogRows(c, e))
           /\ SF_vars(\E c \in Callers : AppendAccessLog(c) /\ cur[c].id = id)
           /\ SF_vars(\E c \in Callers : MarkSynced(c) /\ cur[c].id = id)

FairSpec == Spec /\ Fairness

-----------------------------------------------------------------------------
(* Properties of the table *)

(* No document has two active visits, whatever order the check and the     *)
(* INSERT of Create, checkouts and imports interleave in.                  *)
OneActivePerDocument == OneActive(rows)

(* A completed visit stays in the table and is never reopened, however old *)
(* the sheet rows are that an import applies.                              *)
CompletedStaysCompleted ==
    [][\A id \in Used : ~rows[id].open =>
           id \in Used' /\ ~rows'[id].open]_rows

(* A row leaves the queue of unsynchronised rows only when the RunOnce     *)
(* call that holds the lock acknowledges it, never because an import       *)
(* brought an older version of it from the sheet.                          *)
OnlyAckLeavesQueue ==
    [][\A id \in Used :
           /\ rows[id].sync # "SINCRONIZADO"
           /\ rows'[id].sync = "SINCRONIZADO"
           => \E c \in Callers :
                  /\ pc[c] = "sent"
                  /\ cur[c].id = id
                  /\ rows'[id] = [rows[id] EXCEPT !.sync = "SINCRONIZADO"]
      ]_rows

(* Properties of the sheet *)

(* No write adds a second row of a visit, even when a write whose answer   *)
(* was lost is repeated and several goroutines call RunOnce at once.       *)
NoSecondSheetRow ==
    [][\A k \in DOMAIN sheet' \ DOMAIN sheet :
           \A j \in DOMAIN sheet' \ {k} :
               /\ sheet'[j].id # sheet'[k].id
               /\ sheet'[k].ext # Blank => sheet'[j].ext # sheet'[k].ext
      ]_sheet

(* A visit marked SINCRONIZADO is in the sheet, and each row it has there  *)
(* shows it as it is or lacks its checkout and nothing else.  (A checkout  *)
(* can be acknowledged unsent, see EveryCheckoutReachesSheet; an active    *)
(* visit, or the row of another visit, cannot.)                            *)
AcknowledgedInSheet ==
    \A id \in Used : rows[id].sync = "SINCRONIZADO" =>
        LET own == {k \in DOMAIN sheet : sheet[k].id = id}
        IN
        /\ own # {}
        /\ \A k \in own :
               \/ sheet[k] = EntryOf(id)
               \/ /\ ~rows[id].open
                  /\ sheet[k].open
                  /\ sheet[k].doc = rows[id].doc
                  /\ sheet[k].ext \in {rows[id].ext, Blank}

(* The row of a visit is never overwritten with another visit, and never   *)
(* goes back from completed to active.                                     *)
SheetRowsOnlyAdvance ==
    [][\A k \in DOMAIN sheet :
           /\ k \in DOMAIN sheet'
           /\ sheet'[k].id = sheet[k].id
           /\ sheet[k].ext # Blank => sheet'[k].ext = sheet[k].ext
           /\ ~sheet[k].open => ~sheet'[k].open]_sheet

(* Every visit of the table reaches the sheet (in some version).           *)
EveryVisitReachesSheet ==
    \A id \in Ids :
        id \in Used ~> \E k \in DOMAIN sheet : sheet[k].id = id

(* Every checkout reaches the sheet: ADR 0001, "Sincronizar                *)
(* automaticamente quando a conexão retornar".                             *)
EveryCheckoutReachesSheet ==
    \A id \in Ids :
        (id \in Used /\ ~rows[id].open) ~>
            \E k \in DOMAIN sheet : sheet[k].id = id /\ ~sheet[k].open
=============================================================================
