# Specifications of the Châteauneuf gate backend

TLA+ models of the Go backend that runs the gate of the Châteauneuf
condominium: visitors, reservations, inventory, deliveries, keys. One process
serves HTTP from a local SQLite database (WAL mode) and copies what it stores
to a Google sheet whenever the connection allows. The specifications are
translated from `src/`; every definition names its lines in `PROJECT.json`.

What makes the system hard is little code with many actors: each HTTP request
is a goroutine, the synchronisation runs from a ticker, from the start of the
process and from every check-in and check-out, the sheet answers late or not at
all, and the process may stop between any two statements.

## Inventory of the system

| Part | State | Operations | Interacts with |
|---|---|---|---|
| Access log (`usecase/access_log_service.go`, `repository/sqlite_access_log_repository.go`) | table `access_logs`, triggers of migration 011, unique external id | Create, Checkout, ListPendingSync, MarkSynced, MarkSyncError, UpsertImported | calls RunOnce after Create and Checkout; importers write it |
| Synchronisation (`sync/service.go`) | `runMu`, the batches in memory | Start, RunOnce (six phases and syncReservations), four imports, Status | every repository; the sheet |
| Sheets adapter (`google/`) | the sheet itself (external) | find rows by id, append or update, read back | called by the synchronisation only |
| Reservations (`usecase/reservation_service.go`, `repository/sqlite_reservation_*.go`) | `common_area_reservations`, two partial unique indexes, `statusMu` | Create, UpdateStatus, Delete, revisioned marks | mailer on a cancellation; sheet through syncReservations |
| Reservation signatures and guests (`usecase/reservation_signature_service.go`, `reservation_guest_service.go`) | `reservation_signatures` (codes of 3 minutes), guest rows | CreateCode, Confirm, Document, NotifyCancellation; Add, Confirm | reservations (foreign keys), residents, mailer |
| Inventory (`usecase/inventory_*.go`) | six `inventory_*` tables | SaveProduct, Purchase, Withdraw, DeleteProduct, Snapshot | SQLite only |
| Deliveries (`usecase/shopping_service.go`, withdrawal signatures, photo sessions) | purchases table, codes and sessions | Create, Withdraw, Delete; CreateCode, Lookup, Confirm; Upload | sheet; photo files |
| Keys, diaristas, scheduled services, residents | one table each with a sync status | create, close or update, delete, import | sheet |
| Migrations (`database/database.go`) | the schema; no record of what ran | Migrate runs every file at every start | all tables |
| Process (`cmd/api/main.go`) | goroutines | start, initial sync and import, shutdown | everything |
| Router, configuration, photo files, internet credentials, mail protocol | none | input and output | – |

What makes each correct, and which behaviours are hard:

* **Access log** – one active visit per document although the check and the
  INSERT are separate; a completed visit never comes back to life through an
  import of an old sheet; local changes are never overwritten before the sheet
  has them.
* **Synchronisation** – a record gets no second row in the sheet although writes
  are repeated after lost answers; an acknowledged record is in the sheet (visits,
  keys, diaristas and deliveries as they are but for an end that was acknowledged
  unsent); every record gets there in the end.
* **Reservations** – one active reservation per area, and per apartment, and
  day; one e-mail per cancellation; the deadline of a cancellation; only the
  revision that was sent is acknowledged; an active reservation is not deleted.
* **Inventory** – request ids make repeated POSTs harmless; purchases of several
  items are atomic; stocks stay within bounds and equal the sum of their
  movements; the audit is a chain; deleted products are frozen.
* **Signatures, deliveries, photo sessions** – a code is used once, while it is
  alive, and is replaced when another is made; the signed document is e-mailed
  once; a delivery is withdrawn by one signature, or deleted, never both. Hard
  are the calls that overlap a replacement, a restart between the signature and
  its e-mail, and rows that refer to a reservation that is deleted.
* **Keys, diaristas, services, residents** – the promises of the access log, with
  a weaker acknowledgement, and imports of residents that overwrite.
* **Migrations** – every start ends in a process that serves, over whatever
  schema stops and upgrades left behind, and nothing of the schema is missing.
  Hard is that statements commit one by one and no record says which did.

`PROJECT.json` lists each hazard at its line, with the properties that cover it
or the reason why none does.

## Modules

| Module | Models | Kind |
|---|---|---|
| `AccessLog` | access log, RunOnce for it, ImportAccessLogs, the sheet | component |
| `MCAccessLog` | the installations a model starts from | instance |
| `AccessLogProofs` | nine theorems about `AccessLog` | proofs |
| `InventoryOperations` | the requests both inventory modules speak of | shared data |
| `Ledger` | what the inventory promises: atomic, once per request id | abstract |
| `Inventory` | the service, statement by statement; implements `Ledger` | component |
| `MCInventory` | a set of requests that collide | instance |
| `InventoryProofs` | nine theorems about `Inventory`, its refinement of `Ledger` among them | proofs |
| `SumTheorems` | the sum over a finite set, element by element | lemmas |
| `ReservationLife` | the life of a reservation's row, as the rest of the program sees it | abstract |
| `Reservations` | handlers, `statusMu`, e-mail, syncReservations; implements `ReservationLife` | component |
| `MCReservations` | symmetry of areas, apartments and goroutines | instance |
| `ReservationsProofs` | six theorems about `Reservations` | proofs |
| `RecordSync` | keys, diaristas, scheduled services, deliveries, residents: tables, phases of RunOnce, imports, sheets | component |
| `MCRecordSync` | all kinds of records, two imports | instance |
| `RecordSyncProofs` | four theorems about `RecordSync` | proofs |
| `OneTimeCodes` | the three services of six-digit codes, with guests and deliveries; built on `ReservationLife` | component |
| `MCOneTimeCodes` | symmetry of codes, guests and goroutines | instance |
| `OneTimeCodesProofs` | seven theorems about `OneTimeCodes` | proofs |
| `Migrations` | Open, Migrate, restarts and upgrades | component |
| `MigrationFiles` | the 23 files of `src/migrations`, statement by statement | data |
| `MCMigrations` | this release and three older ones | instance |
| `MigrationsProofs` | three theorems about `Migrations` | proofs |

The components meet in this way. `AccessLog`, `Reservations` and `RecordSync` each hold one table
(or kind of table), its phase of RunOnce and its sheet; what they share is
`runMu`, and `AccessLog` shows what it gives. `OneTimeCodes` composes the codes
with the reservations they are about: it instantiates `ReservationLife`, and
`Reservations!ReservationLifeSpec` shows that the detailed reservations stay
within that. `Inventory` implements `Ledger`. `Migrations` is what runs before
any of them.

### AccessLog

`rows` is the table, by id; a row keeps what the code branches on: external id,
normalised document, open or not, sync status. `sheet` is a sequence of rows.
A Create call is two actions, `CreateCheck` (up to `HasOpenByDocument`) and
`CreateInsert`, with the calls in between in `admitted`. RunOnce is a process
per caller: `RunOnce` takes `runMu` and lists, `FindAccessLogRows` reads the
sheet, `AppendAccessLog` or `AppendFails` writes it, and `MarkSynced`,
`MarkSyncedFails` or `MarkSyncError` ends the record. The search and the write
are separate requests to the service, so they are separate steps.
`AppendFails` covers a refused write, one that was done but whose answer was
lost, and an update that stopped after the first of several rows; the code
cannot tell them apart. The LIMIT of 50 of ListPendingSync is left out here (the
batch is everything that waits) and modelled in `Reservations`. An import reads the whole sheet once and then applies
each row in two statements (`UpsertImported` looks the id up; `UpdateImported`
or `InsertImported` writes), so that a checkout or another import falls between
them. `Crash` drops everything in memory.

### Inventory and Ledger

`db` is the committed database and `work` what the open write transaction sees.
Both are tables; a movement has the id AUTOINCREMENT gave it (`lastMovement` is
`sqlite_sequence`), so that a correction that deletes the initial movement frees
no id.
SQLite admits one writer, so one operation is `current`. `Reserve` inserts the
request id; one action per statement follows (`AddItem`, `RecordItem`,
`TakeStock`, ...) and `Commit` publishes `work`, with an answer that may be
lost. `Rollback` may happen after any statement: it stands for a refused
operation, a failed statement, a cancelled request, a failed commit and a crash.
`AnswerRetry` is the early return for an id that is already reserved; equal
fingerprints are equal operations (collisions of SHA-256 are left out).
`Snapshot` is three reads of a read transaction pinned at the first one.
`Ledger` says the same in one step per operation, and `Inventory!LedgerSpec`
maps `db` to it. Deletion keeps the row, so `stock` is mapped from the row even
then. Money, dates, units, minimums and the password check (which precedes the
transaction) are left out.

### Reservations

`today` is the local date; `clock` gives each write of the table its own
`updated_at`. Create is check and INSERT again; the two partial unique indexes
are the guard `DateTaken`. A member of `bookings` stands for one call or for
several with the same input, so an answer may leave it there (`Answered`).
An UpdateStatus call holds `statusMu` over three
steps: the read with its checks, the UPDATE, and the e-mail. Delete is a check
and a DELETE by id, without the mutex, as in the code. syncReservations is the
tail of RunOnce; `runMu` admits one pass at a time (shown in `AccessLog`), so
`stage`, `batch` and `cur` are single. `AppendReservation` is one step: the row
of a reservation id is found and written by the only pass there is, and nothing
else writes that sheet. The marks compare `updated_at`.
`cancelled` and `mails` are history counters for one property.

### RecordSync

The other records have a table and a sheet each, and their phases of RunOnce run
one after the other under `runMu`. Nothing else connects them, so a behaviour
picks one `kind` in `Init` and follows it. A row keeps whether it is finished
(key returned, diarista checked out, service done or cancelled, delivery
withdrawn), the local write that gave it its content (`changed`), and its sync
columns. What differs between the kinds is in the actions: keys and services
are deleted, a delivery is only marked as deleted and leaves the queue, residents
are replaced by apartment; diaristas and services are imported under the `WHERE`
of their upsert (`MayOverwrite`), residents without one. `AppendRecord` is one
step for the same reason as in `Reservations`; each sheet starts empty (a new
installation) and its rows are found by local id.

`clock` counts the local writes. The marks read it without advancing it: marks of
one pass and a local write are then sometimes "at the same time", which the
comparison of `updated_at` must survive as well. The sheet keeps whole seconds,
so a row that comes back compares as older than the code wrote it; that only
makes `MayOverwrite` refuse more. The LIMIT of 50 is left out, as in
`AccessLog`.

### OneTimeCodes

`ReservationSignatureService`, `DeliveryWithdrawalSignatureService` and
`DeliveryPhotoService` do the same three times, each with a table of its own: a
code of six digits is drawn, its hash stored with `expires_at`, and one UPDATE
consumes it. A behaviour follows one `kind`. `codes` is the table by code; a row
keeps subject, the three times, the subject its document names and
`email_status`.

A call is a process. `CreateCode` does the checks, `InsertCode` is its
transaction: every unsigned code of the subject gets `expires_at` = now, then the
new row is inserted. The time was read before the transaction began, so it may
be any time since. `Lookup` (reservations) or `ReadTime` (deliveries, photos)
begins Confirm or Upload; `SignReservation`, `SignWithdrawal` and `Upload` are
the transactions, each around `Consume`, the UPDATE with its
`consumed_at IS NULL AND expires_at > now`. Then `SendDocument` and `ReportMail`
follow as steps of their own, because a restart may come between, and a client
that did not hear the mail server's answer reports a failure of an e-mail that
arrived. `Document`, the download, only renders the PDF of what was signed
again.

The subjects move at the same time: a reservation is booked, changes its status
and is deleted as in `ReservationLife`; a delivery arrives, is withdrawn without
a signature, or is deleted (which keeps its row and writes
`shopping_delivery_deletions`). `ReservationDeleted` cascades or not, because
`Open` sets `PRAGMA foreign_keys` on one connection and `main` does not limit the
pool. Guests are added to a reservation and confirmed.

### Migrations and MigrationFiles

`Migrate` executes every file at every start. A file is one `Exec`, so its
statements commit one by one and the first error ends it; an error that says
"duplicate column name" sends Migrate on to the next file. `schema` is what
`sqlite_master` holds: tables, indexes, triggers and added columns, as
`<<kind, table, name>>`. `RunStatement` runs one statement: CREATE ... IF NOT EXISTS
looks at the name only (so that an older table does not get newer columns), ALTER
adds one column or is `Duplicate`, DROP removes, and a statement over a table that is not
there fails, which ends the process. So does a unique index that the rows violate
(`Refused`): `conflicts` names these indexes. `ShutDown` chooses them anew among
`MayConflict`, the unique indexes that are not there over tables that are, because
what was stored while a process served is not known, and an index that is missing
keeps no row out. Such a start fails as often as it is tried. `Stop` stands for a process that ends inside
`Migrate` and for every other error there; `ShutDown` ends one that serves, as
often as it likes. `Upgrade` puts a newer release in place.
`MigrationFiles` writes down what each statement does and
needs, in the order of the file names; UPDATEs and the columns inside a CREATE
TABLE that no other file adds are left out.

## Runs

| Run | Question | Bounds |
|---|---|---|
| `access_log_sync` | sheet rows under lost answers, restarts, two callers, one import, and two rows of one visit; every visit reaches the sheet | 2 ids, 2 external ids, 1 document, 1 restart |
| `access_log_import` | the table under two imports, Create and Checkout | 3 ids, 2 external ids, 1 document |
| `access_log_checkout_lost` | **violation**: a checkout during a pass is never sent | 1 id |
| `inventory` | the tables, Snapshot between commits, and the refinement of `Ledger` | 10 requests with 7 ids, stocks to 3 |
| `reservations_desk` | double bookings, e-mails, the deadline, and the refinement of `ReservationLife` | 2 areas, 2 apartments, 2 updaters, 2 days, 2 rows, 3 writes |
| `reservations_sync` | acknowledgement of revisions; a cancellation undone; every revision reaches the sheet, LIMIT 1 | 2 rows, 3 writes, 1 restart |
| `reservations_delete_race` | **violation**: an active reservation is deleted | 1 row, 3 writes |
| `record_sync` | every kind under an import, lost answers and a restart; every record reaches the sheet | 2 ids, 3 writes, 1 import, 1 restart |
| `record_sync_resident` | **violation**: an import replaces an unsent change | 1 apartment, 2 writes |
| `one_time_codes` | codes replaced, expired and used by overlapping calls, their e-mails, withdrawal against deletion | 3 kinds, 1 subject, 3 codes, 2 calls, TTL 1, 3 moments, 1 restart |
| `guests_orphaned` | **violation**: guests outlive their reservation | 1 reservation, 1 guest |
| `migrations` | the real files, stopped anywhere, shut down and upgraded, over rows that violate a unique index or none | releases of 3, 9, 12 and 23 files, 3 unique indexes over older tables, 2 stops |

**Why the bounds are enough.** The conflicts of these components are between two
rows, two requests or two passes: two rows are what an index, a trigger or a
duplicate needs, a third id lets an import insert beside both; two goroutines
give every interleaving of a check with a write. One document makes every pair
of visits conflict; documents that do not conflict do not interact. A restart
between any two steps is one restart; its effect does not depend on how many
came before. In the inventory the requests are chosen to collide: one id with
two bodies, a purchase whose second item may be missing, deleted or at the
limit, two withdrawals that exceed the stock together, corrections that insert,
change and remove the initial movement, and an archived name that is taken
again. The reservation windows (30 and 7 days in the code) are constants; a
model needs dates on both sides of each limit and a midnight in between.

Three codes are what a replacement needs that meets a signature (one signed, one
replaced, one alive), two calls give every interleaving of a check with a
transaction, and with TTL 1 and three moments a code is replaced before, at and
after its end. One subject suffices because a code only ever meets codes of its
own subject. In `migrations` the files are the real ones, and the second stop is
there because the first may fall into a schema that a stop left behind.

`AccessLog`, `Reservations`, `RecordSync` and `OneTimeCodes` stop when their ids and
clocks are used up; deadlock is not checked there. `Inventory` never stops (a
repeated request is always answered) and neither does `Migrations` (what serves can
be shut down and started again); deadlock is checked.

`DeskSpec` leaves syncReservations and restarts out of `reservations_desk`: the
passes change only `sync`, which no handler reads. The theorems are about the
whole `Spec`.

**Installations.** `access_log_sync` starts from a new installation, from one
that was upgraded from a version without external ids, and from ones whose sheet has
two rows of one visit (`Duplicated`: `findAccessLogRows` collects all of them, and a
test demands it), with an external id or without. Only there does an update
write several rows and stop between them. One consequence shows in these
behaviours: an update that stops after it gave the first row a new external id leaves the other row behind for
good, as the next search finds the row that bears the id and no other.
The checkout is then missing in that row, which `AcknowledgedInSheet` has to allow.
`access_log_import` also starts from a new database beside an old sheet. The properties about the sheet
are not checked there: an old row with the same local id is then found by
`findAccessLogRows` (`sheets_client.go:688`) and overwritten. The hazard list
records this.

## Fairness

Liveness is checked with TLC only, under `FairSpec`:

* weak fairness of the steps of RunOnce: the ticker calls it for ever
  (`sync/service.go:100-120`, every 30 seconds by default), each call has
  deadlines, and a started step ends, well or not. In `AccessLog` it is fairness of
  "some goroutine", since any caller of RunOnce may be the one that gets `runMu`;
* strong fairness of a successful search, write and acknowledgement of each
  record: the connection returns. This is what the ADR assumes ("quando a
  conexão retornar"). Without it a record may fail for ever;
* nothing is assumed of the handlers, the imports, the e-mail or the restarts.

In `AccessLog` the record that fails moves to the end of the queue
(`MarkSyncError` writes `updated_at`), so each record has its turn. In
`Reservations` it does not, and the queue is limited to 50 records:
`reservations_sync` uses a LIMIT smaller than the queue and shows that a
returning connection is enough, because the first record leaves the queue. In
`RecordSync` the fairness is that of `AccessLog`, for the phase of the kind that is
followed; an error that ends RunOnce in the phase of another kind only delays it,
which is why weak fairness of its start is enough.

`Migrations` has weak fairness of `Start` and `MigrateStep`: the program is started
again when it has stopped, and `Migrate` is a loop without waits. The stops are
bounded, so `ServesAgain` says that a start nobody interrupts comes to serve, or
again and again meets rows that violate a unique index of its release (`Obstructed`).
No program that runs can mend those, so the property excepts them.
`OneTimeCodes` states no fairness; nothing about it is promised to happen.

## What is proved

`tlapm` proves these for every value of the constants, from the assumptions
named in the modules (bounds are naturals; the model values for "nothing" are
not rows; an installation starts with at most one active visit per document).
Where a theorem needs more than that, its statement says so in an `ASSUME`, and
the text below says when it holds.

* `AccessLogProofs`: `TypeCorrect`, `OneActiveAlways`, `CompletedForEver`,
  `OnlyAcknowledgement`. The invariant is `TypeInv`, which is `TypeOK` and the
  fact that a record in a batch, or being sent, belongs to a row that exists:
  rows are never deleted, so an acknowledgement by id never makes a row out of
  nothing. `OneActive` is inductive beside it, because each of the four actions
  that open a visit asks `ActiveVisitExists`, or only closes one. The two action
  properties follow from the type invariant, one step per action.

  `SheetOnce`, `SecondRowNever`, `AcknowledgedThere`, `SheetAdvances` are about the
  sheet. Their
  hypothesis is `AgreedInstallations`: at the first start, table and sheet agree
  (`Agreed`: every row of the sheet is a visit of the table in an earlier or its
  present version, one row for each, and every acknowledged visit is there). A new
  installation and the upgraded one of `access_log_sync` agree (those with two rows
  of a visit do not; TLC alone checks the properties there), and `AgreementKept`
  proves that whatever a stop leaves behind agrees again. A new database beside
  an old sheet does not; the properties are false there (see
  "Installations"). The invariant is `SheetInv`. Versions of a visit are ordered
  by `Precedes`: a visit is closed once, and a visit without external id may get
  one then. Every record in memory and every row of the sheet precedes its row
  in the table (`Known`), external ids are given once, and what the holder of
  `runMu` carries is not older than the sheet (`PassKnown`), because nobody else
  writes meanwhile. From this `findAccessLogRows` finds the one row of the visit,
  whichever of the two ids it goes by (`SearchFindsVisit`), and an import changes
  nothing (`ImportsChangeNothing`): what `MayOverwrite` lets through is equal to the
  row that is there.
* `InventoryProofs`: `TypeCorrect`, `StocksBounded`, `StockIsSum`,
  `PurchasesWhole`, `AuditChained`, `AnswersTrue`, `SnapshotTogether`, `Frozen`,
  `LedgerImplemented`, for any operations, products, limits and number of items.
  The argument has three parts. `Good(d)` is what is true of a committed database:
  stocks within the limits and equal to the sum of their movements, one initial
  movement at most, movements of known products, whole purchases, and an audit
  that is a chain. `Transaction` says how far the open transaction is: for each
  `at` of the running operation, how `work` differs from `db`. None of the parts of
  `Good` holds of `work` in the middle (a stock is taken before its movement is
  recorded), which is why the invariant relates the two databases instead. At
  `Commit` the transaction `Performs` its whole operation, and `OperationDoes` proves that
  an operation that is performed on a good database leaves a good one, changes
  nothing of a deleted product, and is the step of the `Ledger`. `Reading` says that the
  database a snapshot is pinned to was good and that `db` remembers it; the three
  reads then agree because they come from the one database.
* `SumTheorems` has lemmas only, which `StockIsSum` rests on. The sum of the model is a
  fold of the community modules, which takes the elements of a set in an order it
  does not tell. That it is one element plus the sum of the others is proved by
  induction over finite sets without the induction theorems of the library
  (whose parameter is an operator): among the subsets for which the fact fails
  there would be one that is minimal under strict inclusion (`WFMin`, with the
  library's fact that this order is well-founded on finite sets).
* `ReservationsProofs`: `TypeCorrect`, `BookingsApart`, `AcknowledgedIsCurrent`,
  `LifeImplemented`, `OneMailEach`, `CancelledBeforeLimit`.
  `SyncedIsCurrent` needs what a pass knows of the records it listed
  (`Listed`): none of them has been acknowledged since, and a row that still has
  the `updated_at` that was listed has the status that was listed, because every
  other write takes a later time. Then a mark that finds its `updated_at` finds
  the revision it sent.
  `LifeImplemented` is the refinement of `ReservationLife`: a step leaves the rows
  alone as far as their status goes, adds the row of the next id, deletes one, or
  changes one status (`RowSteps`), and a row has an id that was given (`IdsGiven`).
  The other two need what an UpdateStatus call knows between its steps (`DeskInv`):
  whoever is not idle holds `statusMu`, so that what a cancellation read, not
  cancelled and early enough, is still so at the UPDATE, and what is to be
  announced was not announced yet; and the call began today or yesterday. `CancelledBeforeLimit`
  then says that the call that cancels began within the limit: only a midnight inside
  the call can make the UPDATE late.
* `RecordSyncProofs`: `TypeCorrect`, `OnlyAcknowledgement`, `AcknowledgedIsThere`,
  `FinishedForEver`. The type needs that no row is younger than the clock, since a
  mark stores the clock. `AcknowledgedInSheet` needs that what was sent without an
  error and what an import has read is in the sheet, which loses no row, and that every
  copy of a key, diarista or delivery is the row or the row without its end (part of
  `Known`): a local write ends such a record and does nothing else. An
  acknowledgement by id alone can therefore miss an end, and nothing but that.
  `FinishedStaysFinished` needs what the table knows of every copy (`Known`, for
  batch, sheet and imports): an unfinished copy of a finished row is older than the
  row. A local write makes this true because it takes a later time than every
  copy, a mark keeps it because `updated_at` only moves forward, and then
  the comparison in `MayOverwrite` never lets such a copy in. Dropping that
  comparison makes exactly this step of the proof fail.

* `OneTimeCodesProofs`: `TypeCorrect`, `SignedWhileAlive`, `OneCodeAlive`,
  `OneMail`, `SignedOnce`, `NeverBoth`, `OneSignature`, for any number of
  codes, calls and subjects and any life of a code. Every call knows a code that
  was handed out before it read the time (`CallInv`). A signature is earlier than
  `expires_at`, and `expires_at` is either TTL after the creation of the code or the
  creation of the code that replaced it (`Explained`). `OneLiveCode` is
  inductive because no step brings a dead code back (`NoneRevives`) and an INSERT
  comes with the end of the others. `MailedOnce` needs that a call that posts
  signed its code, and alone (`PostInv`), and what the row says of the mails
  that were sent (`RowMailInv`). A delivery that names a signed code is withdrawn by it,
  and a signed code is named (`Named`).
* `MigrationsProofs`: `TypeCorrect`, `MissingOnlyThere`, for any releases that do
  not make what they drop. Of every statement that `Migrate` has passed in this
  start, either its effect is in the schema, or an ALTER stands before it in its
  file (`PassedDone`); to serve is to have passed all of them.
  `CompleteStarts` is about files that are ordered (`FilesOrdered`: a statement needs
  only what an earlier one creates) and whose additions go together (`AddsTogether`:
  a column with statements behind its ALTER comes from that ALTER alone, in a file
  that is the same in every release, and no unique index that rows may violate stands
  behind it). `MCMigrations` has TLC evaluate both on the
  real files and the older releases. Then a column is there with everything that stands behind its
  addition, or Migrate is just between the two (`Together`), so that what a
  duplicate column skips is there. A file that breaks the rule (an ALTER of a column
  that a later CREATE TABLE also has, followed by other statements) would leave those
  out at every fresh installation.

Every safety property of every passing run is stated by one of these theorems.
Model-checked only are the liveness properties (`EveryVisitReachesSheet`,
`EveryRecordReachesSheet`, `EveryRevisionReachesSheet`, `ServesAgain`), because
fairness and ENABLED are out of the prover's reach. The four runs that expect a
violation are counterexamples and have nothing to prove.

## Findings

* **A checkout is lost** (`access_log_checkout_lost`). `MarkSynced` of the access
  log updates by id alone. A checkout that falls between `ListPendingSync` and
  `MarkSynced` is marked as synchronised, and the sheet shows the visit as open
  for ever, although ADR 0001 says that the backend synchronises when the
  connection returns. The reservations avoid exactly this with `updated_at`.
* **An active reservation is deleted** (`reservations_delete_race`). `Delete`
  checks the status, then deletes by id, outside `statusMu`. An UpdateStatus back
  to `reservada` in between is answered and then lost; `domain/errors.go:10`
  and a test say an active reservation is not deleted.
* **A change of a resident is lost** (`record_sync_resident`). `UpsertImported` of
  residents has no condition: an import replaces a change that still waits for the
  sheet by the older row of the sheet and marks it as synchronised. ADR 0001 stores locally
  first and sends later; the imports of diaristas, services and access logs guard
  against this case.
* **Guests outlive their reservation** (`guests_orphaned`). `Open` executes `PRAGMA
  foreign_keys = ON` once, which sets it on one connection of the pool, and `main`
  does not limit the pool. Migration 015 declares `ON DELETE CASCADE`; a DELETE on
  another connection leaves guests and signatures of a reservation that is gone.

## Assumptions

* A transaction that is not committed leaves nothing behind, and a reader in WAL
  mode sees one snapshot. No pool limit and no busy timeout is set by `main`, so
  a second writer is refused at once instead of waiting; a refused request
  changes nothing.
* No two writes of a reservation read the same time.
* A request is shorter than a day: it sees one midnight at most.
* Generated external ids are new.
* A write to the sheet whose answer was lost took effect before the next pass
  looks for the row, or never.
* `RecordSync` follows a new installation. A new database counts its ids from 1;
  beside an old sheet its keys and deliveries would overwrite the old rows.
* Nobody edits the sheet by hand.
* The digits of a code are never drawn twice. The code only has a UNIQUE
  `code_hash`, which is never freed, so that a repetition makes `CreateCode` fail.
* The clock does not go back, and the time zone is constant.
* A caller has a code only after it was handed out.
* In Confirm the lookup of a code reads the clock and the row in one step. Between
  the time a call reads and its transaction any time may pass, so that a signature
  bears a time at which its code was alive, and may be stored after that. A call
  that overlaps the replacement of a code that had expired meanwhile may still
  sign it.
* An older release consists of the first files by name, unchanged, and its CREATE
  TABLEs lack only the columns that later files add.

A consequence of `MissingOnlyBehindAdd` worth knowing: a stop inside
`009_add_resident_contact_fields.sql` leaves a column out for good. The process
serves, but residents cannot be read and no code can be made. No document promises
otherwise, so it is a hazard with a bound and not a finding.

## Not modelled

* The router, the configuration, the version, the photo files, the internet
  credentials and the mail protocol are input and output without state of their
  own.
* Vehicles are rows that single statements insert, update and delete.
* Of the sheets adapter: headers, cell formats, and the upload of delivery photos to
  Drive.
* `Document` renders a signed PDF again and changes nothing. Status of a photo
  session reports `expired` also after an upload; nothing reads it but the page.

## Plan

1. Done: `AccessLog`, `Inventory` with `Ledger`, `Reservations`, and their first
   theorems.
2. Done: `RecordSync` and its theorems.
3. Done: `OneTimeCodes` on `ReservationLife` (signatures with guests, withdrawals,
   photo sessions) and its theorems; the refinement of `ReservationLife` by
   `Reservations`, checked and proved.
4. Done: `Migrations` over the real files, and its theorems.
5. `Outbox`, the abstract queue (a change is pending until that change is in the
   sheet), refined by `Reservations`; the access log refines a weaker one.
6. Delivery photos on Drive: find by name, upload, share, with a lost answer between
   any two. And a new database beside an old sheet, as a run of its own.
7. Done: proofs of the inventory (sums, purchases, audit, snapshot, refinement of
   `Ledger`), of the access log's sheet, and of complete migrations. The runs stay
   few: a question that fits an existing run joins it.
