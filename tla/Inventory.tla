----------------------------- MODULE Inventory -----------------------------
(***************************************************************************)
(* The inventory service: every operation is one SQLite transaction that   *)
(* reserves the request id, changes the product, records the movement or   *)
(* the audit entry, and commits.  The statements of the open transaction   *)
(* are separate steps on a working copy of the database, because a failed  *)
(* statement, a cancelled request or a crash can end it after any of them. *)
(* Snapshot reads the three tables in a read transaction of its own.       *)
(***************************************************************************)
EXTENDS InventoryOperations, Sequences, FiniteSets, FiniteSetsExt, Functions

CONSTANTS
    NoProduct,      \* no row of inventory_products
    NoPurchase      \* the NULL purchase_id of a movement

(* deleted stands for deleted_at # ''.                                     *)
Product == [name : Names, stock : Int, deleted : BOOLEAN]
(* No statement may offend CHECK(quantity_milli != 0).                     *)
Movement == [product : Products, purchase : RequestIds \union {NoPurchase},
             kind : {"initial", "purchase", "withdrawal"},
             quantity : Int \ {0}]
(* before_json and after_json of inventory_product_changes.                *)
Version == [name : Names, initial : Int, stock : Int, deleted : BOOLEAN]
Change == [product : Products, action : {"edit", "delete"},
           before : Version, after : Version]

ASSUME RowsAssumption ==
    /\ NoProduct \notin Product
    /\ NoPurchase \notin RequestIds

VARIABLES
    db,         \* the committed database
    work,       \* the database as the open write transaction sees it
    current,    \* the operation of that transaction
    stage,      \* the statement it executes next
    left,       \* products of a purchase still to be added
    item,       \* the product whose movement comes next
    answered,   \* operations a client was told are done
    reading,    \* the table Snapshot reads next
    pinned,     \* the database its read transaction sees
    view        \* what it has read

writeVars == <<db, work, current, stage, left, item, answered>>
readVars == <<reading, pinned, view>>
vars == <<writeVars, readVars>>

NothingStored == [requests |-> [id \in RequestIds |-> NoOperation],
                  products |-> [p \in Products |-> NoProduct],
                  purchases |-> {}, movements |-> <<>>, lastMovement |-> 0,
                  audit |-> <<>>]

NothingRead == [products |-> [p \in Products |-> NoProduct],
                purchases |-> {}, movements |-> <<>>]

(* The rows of inventory_movements by their AUTOINCREMENT id.              *)
IsMovementTable(ms, last) ==
    /\ ms = [k \in DOMAIN ms |-> ms[k]]
    /\ DOMAIN ms \subseteq 1..last
    /\ \A k \in DOMAIN ms : ms[k] \in Movement

(* lastMovement is the id that AUTOINCREMENT gave last: no id is reused.   *)
IsDatabase(d) ==
    /\ d = [requests |-> d.requests, products |-> d.products,
            purchases |-> d.purchases, movements |-> d.movements,
            lastMovement |-> d.lastMovement, audit |-> d.audit]
    /\ d.requests \in [RequestIds -> Operations \union {NoOperation}]
    /\ d.products \in [Products -> Product \union {NoProduct}]
    /\ d.purchases \subseteq RequestIds
    /\ d.lastMovement \in Nat
    /\ IsMovementTable(d.movements, d.lastMovement)
    /\ d.audit \in Seq(Change)

TypeOK ==
    /\ IsDatabase(db)
    /\ IsDatabase(work)
    /\ current \in Operations \union {NoOperation}
    /\ stage \in {"idle", "update", "record", "commit"}
    /\ left \subseteq Products
    /\ item \in Products \union {NoProduct}
    /\ answered \subseteq Operations
    /\ reading \in {"products", "purchases", "movements", "done"}
    /\ IsDatabase(pinned)
    /\ view = [products |-> view.products, purchases |-> view.purchases,
               movements |-> view.movements]
    /\ view.products \in [Products -> Product \union {NoProduct}]
    /\ view.purchases \subseteq RequestIds
    /\ \A k \in DOMAIN view.movements : view.movements[k] \in Movement

-----------------------------------------------------------------------------
(* The tables *)

(* Sum of the quantities of the movements of p whose kind is one of kinds. *)
Moved(d, p, kinds) ==
    SumFunctionOnSet([k \in DOMAIN d.movements |-> d.movements[k].quantity],
                     {k \in DOMAIN d.movements :
                         /\ d.movements[k].product = p
                         /\ d.movements[k].kind \in kinds})

(* The initial_milli column of the SELECTs: a sum over 'initial' rows.     *)
InitialQuantity(d, p) == Moved(d, p, {"initial"})

InUse(d, p) == d.products[p] # NoProduct /\ ~d.products[p].deleted

(* The UNIQUE constraint on name_key: a deleted product frees its name (its *)
(* key becomes "archived:" and its id; no name is spelled like that here).  *)
NameTaken(n, p) ==
    \E q \in Products \ {p} : InUse(work, q) /\ work.products[q].name = n

IsInitial(m, p) == m.product = p /\ m.kind = "initial"

(* The movements with one more row, under the next id.                     *)
WithMovement(m) ==
    [k \in DOMAIN work.movements \union {work.lastMovement + 1} |->
        IF k \in DOMAIN work.movements THEN work.movements[k] ELSE m]

(* Mutation: an existing initial movement is kept when a new one is added. *)
InitialAppended(p, quantity) ==
    WithMovement([product |-> p, purchase |-> NoPurchase,
                  kind |-> "initial", quantity |-> quantity])

(* Mutation: an initial movement corrected to nothing is updated as well.  *)
InitialZeroed(p, quantity) ==
    LET before == InitialQuantity(db, p)
        ms == work.movements
    IN  CASE quantity = before -> ms
          [] quantity # before /\ before > 0 ->
                 [k \in DOMAIN ms |->
                     IF IsInitial(ms[k], p)
                     THEN [ms[k] EXCEPT !.quantity = quantity] ELSE ms[k]]
          [] OTHER -> WithMovement(
                          [product |-> p, purchase |-> NoPurchase,
                           kind |-> "initial", quantity |-> quantity])

(* The movements after the initial quantity of p is corrected: the row is  *)
(* left alone, deleted, updated or inserted.                               *)
InitialCorrected(p, quantity) ==
    LET before == InitialQuantity(db, p)
        ms == work.movements
    IN  CASE quantity = before -> ms
          [] quantity # before /\ quantity = 0 ->
                 [k \in {j \in DOMAIN ms : ~IsInitial(ms[j], p)} |-> ms[k]]
          [] quantity # before /\ quantity > 0 /\ before > 0 ->
                 [k \in DOMAIN ms |->
                     IF IsInitial(ms[k], p)
                     THEN [ms[k] EXCEPT !.quantity = quantity] ELSE ms[k]]
          [] OTHER -> WithMovement(
                          [product |-> p, purchase |-> NoPurchase,
                           kind |-> "initial", quantity |-> quantity])

(* Mutation: the row is read after the update.                             *)
VersionUpdated(d, p) ==
    [name |-> work.products[p].name, initial |-> InitialQuantity(work, p),
     stock |-> work.products[p].stock, deleted |-> work.products[p].deleted]

(* inventoryProductInTx, as it is stored in the audit.                     *)
VersionOf(d, p) ==
    [name |-> d.products[p].name, initial |-> InitialQuantity(d, p),
     stock |-> d.products[p].stock, deleted |-> d.products[p].deleted]

-----------------------------------------------------------------------------
(* operation: the transaction around every change *)

Reserved(o) == db.requests[o.id] # NoOperation

(* Mutation: a reserved id is answered whatever was reserved under it.     *)
AnsweredById(o) ==
    /\ current = NoOperation
    /\ Reserved(o)
    /\ answered' = answered \union {o}
    /\ UNCHANGED <<db, work, current, stage, left, item, readVars>>

(* The id is reserved already: the same operation is answered again,       *)
(* another one is refused with ErrInventoryRequest.                        *)
AnswerRetry(o) ==
    /\ current = NoOperation
    /\ Reserved(o)
    /\ answered' = IF db.requests[o.id] = o THEN answered \union {o}
                   ELSE answered
    /\ UNCHANGED <<db, work, current, stage, left, item, readVars>>

(* BEGIN and the INSERT of the request id, which takes SQLite's write      *)
(* lock: while another transaction holds it, the request fails with        *)
(* SQLITE_BUSY and has changed nothing.                                    *)
Reserve(o) ==
    /\ current = NoOperation
    /\ ~Reserved(o)
    /\ current' = o
    /\ stage' = "update"
    /\ left' = IF o.action = "purchase" THEN DOMAIN o.items ELSE {}
    /\ work' = [work EXCEPT
                   !.requests = [@ EXCEPT ![o.id] = o],
                   !.purchases = IF o.action = "purchase"
                                 THEN @ \union {o.id} ELSE @]
    /\ UNCHANGED <<db, item, answered, readVars>>

(* The open transaction executes a statement that leaves the tables        *)
(* products, movements and audit as given.                                 *)
Execute(products, movements, audit, next) ==
    /\ work' = [work EXCEPT
                   !.products = products,
                   !.movements = movements,
                   !.lastMovement = IF @ + 1 \in DOMAIN movements
                                    THEN @ + 1 ELSE @,
                   !.audit = audit]
    /\ stage' = next
    /\ UNCHANGED <<db, current, answered, readVars>>

(* Mutation: an error commits what was done so far. *)
KeepPartial ==
    /\ current # NoOperation
    /\ db' = work
    /\ UNCHANGED <<work, answered>>
    /\ current' = NoOperation
    /\ stage' = "idle"
    /\ left' = {}
    /\ item' = NoProduct
    /\ UNCHANGED readVars

(* The deferred Rollback: a refused operation, a failed statement, a       *)
(* cancelled request, a commit that fails, or a crash.                     *)
Rollback ==
    /\ current # NoOperation
    /\ work' = db
    /\ UNCHANGED <<db, answered>>
    /\ current' = NoOperation
    /\ stage' = "idle"
    /\ left' = {}
    /\ item' = NoProduct
    /\ UNCHANGED readVars

(* Commit.  Its answer may be lost; the client then sends the request      *)
(* again.                                                                  *)
Commit ==
    /\ stage = "commit"
    /\ db' = work
    /\ answered' \in {answered, answered \union {current}}
    /\ current' = NoOperation
    /\ stage' = "idle"
    /\ left' = {}
    /\ item' = NoProduct
    /\ UNCHANGED <<work, readVars>>

-----------------------------------------------------------------------------
(* What the operations do inside the transaction *)

(* SaveProduct without an id: the product has the id of the request.       *)
InsertProduct ==
    LET o == current IN
    /\ stage = "update"
    /\ o.action = "create"
    /\ ~NameTaken(o.name, o.id)
    /\ Execute([work.products EXCEPT ![o.id] =
                   [name |-> o.name, stock |-> o.amount, deleted |-> FALSE]],
               work.movements, work.audit,
               IF o.amount > 0 THEN "record" ELSE "commit")
    /\ UNCHANGED <<left, item>>

InsertInitial ==
    LET o == current IN
    /\ stage = "record"
    /\ o.action = "create"
    /\ o.amount > 0
    /\ Execute(work.products,
               WithMovement([product |-> o.id, purchase |-> NoPurchase,
                             kind |-> "initial", quantity |-> o.amount]),
               work.audit, "commit")
    /\ UNCHANGED <<left, item>>

(* Mutation: the correction is added without the quantity it replaces.     *)
StockAdded(o) == work.products[o.product].stock + o.amount

StockCorrected(o) ==
    work.products[o.product].stock + o.amount
        - InitialQuantity(work, o.product)

(* SaveProduct with an id: the stock moves by the difference between the   *)
(* new and the old initial quantity.                                       *)
UpdateProduct ==
    LET o == current IN
    /\ stage = "update"
    /\ o.action = "edit"
    /\ InUse(work, o.product)
    /\ StockCorrected(o) \in 0..Limit
    /\ ~NameTaken(o.name, o.product)
    /\ Execute([work.products EXCEPT ![o.product] =
                   [name |-> o.name, stock |-> StockCorrected(o),
                    deleted |-> FALSE]],
               work.movements, work.audit, "record")
    /\ UNCHANGED <<left, item>>

(* The initial movement and the audit entry of an edit; previous was read  *)
(* before the update, when the transaction still saw the committed row.    *)
RecordEdit ==
    LET o == current IN
    /\ stage = "record"
    /\ o.action = "edit"
    /\ Execute(work.products,
               InitialCorrected(o.product, o.amount),
               Append(work.audit,
                      [product |-> o.product, action |-> "edit",
                       before |-> VersionOf(db, o.product),
                       after |-> [name |-> o.name, initial |-> o.amount,
                                  stock |-> work.products[o.product].stock,
                                  deleted |-> FALSE]]),
               "commit")
    /\ UNCHANGED <<left, item>>

(* Mutation: the update of a purchase also finds deleted products.         *)
AddItemToAny(p) ==
    LET o == current IN
    /\ stage = "update"
    /\ o.action = "purchase"
    /\ p \in left
    /\ work.products[p] # NoProduct
    /\ work.products[p].stock <= Limit - o.items[p]
    /\ Execute([work.products EXCEPT ![p].stock = @ + o.items[p]],
               work.movements, work.audit, "record")
    /\ left' = left \ {p}
    /\ item' = p

(* Mutation: the limit is tested without the quantity to be added.         *)
AddItemToLimit(p) ==
    LET o == current IN
    /\ stage = "update"
    /\ o.action = "purchase"
    /\ p \in left
    /\ InUse(work, p)
    /\ work.products[p].stock <= Limit
    /\ Execute([work.products EXCEPT ![p].stock = @ + o.items[p]],
               work.movements, work.audit, "record")
    /\ left' = left \ {p}
    /\ item' = p

(* Purchase, the UPDATE of one item; the order of the items is open.       *)
AddItem(p) ==
    LET o == current IN
    /\ stage = "update"
    /\ o.action = "purchase"
    /\ p \in left
    /\ InUse(work, p)
    /\ work.products[p].stock <= Limit - o.items[p]
    /\ Execute([work.products EXCEPT ![p].stock = @ + o.items[p]],
               work.movements, work.audit, "record")
    /\ left' = left \ {p}
    /\ item' = p

(* Purchase, the movement of the item. *)
RecordItem ==
    LET o == current IN
    /\ stage = "record"
    /\ o.action = "purchase"
    /\ Execute(work.products,
               WithMovement([product |-> item, purchase |-> o.id,
                             kind |-> "purchase",
                             quantity |-> o.items[item]]),
               work.audit, IF left = {} THEN "commit" ELSE "update")
    /\ item' = NoProduct
    /\ UNCHANGED left

(* Withdraw, the UPDATE. *)
TakeStock ==
    LET o == current IN
    /\ stage = "update"
    /\ o.action = "withdrawal"
    /\ InUse(work, o.product)
    /\ work.products[o.product].stock >= o.amount
    /\ Execute([work.products EXCEPT ![o.product].stock = @ - o.amount],
               work.movements, work.audit, "record")
    /\ UNCHANGED <<left, item>>

(* Withdraw, the movement. *)
RecordWithdrawal ==
    LET o == current IN
    /\ stage = "record"
    /\ o.action = "withdrawal"
    /\ Execute(work.products,
               WithMovement([product |-> o.product, purchase |-> NoPurchase,
                             kind |-> "withdrawal", quantity |-> -o.amount]),
               work.audit, "commit")
    /\ UNCHANGED <<left, item>>

(* DeleteProduct: the row stays, archived. *)
ArchiveProduct ==
    LET o == current IN
    /\ stage = "update"
    /\ o.action = "delete"
    /\ InUse(work, o.product)
    /\ Execute([work.products EXCEPT ![o.product].deleted = TRUE],
               work.movements, work.audit, "record")
    /\ UNCHANGED <<left, item>>

RecordDelete ==
    LET o == current IN
    /\ stage = "record"
    /\ o.action = "delete"
    /\ Execute(work.products, work.movements,
               Append(work.audit,
                      [product |-> o.product, action |-> "delete",
                       before |-> VersionOf(db, o.product),
                       after |-> [VersionOf(db, o.product)
                                     EXCEPT !.deleted = TRUE]]),
               "commit")
    /\ UNCHANGED <<left, item>>

-----------------------------------------------------------------------------
(* Snapshot *)

ReadProducts ==
    /\ reading \in {"products", "done"}
    /\ pinned' = db
    /\ view' = [NothingRead EXCEPT !.products = db.products]
    /\ reading' = "purchases"
    /\ UNCHANGED writeVars

(* Mutation: three queries, each in a transaction of its own.              *)
LatestDatabase == db

(* The database a later query of the read transaction sees.                *)
SnapshotDatabase == pinned

ReadPurchases ==
    /\ reading = "purchases"
    /\ view' = [view EXCEPT !.purchases = SnapshotDatabase.purchases]
    /\ reading' = "movements"
    /\ UNCHANGED <<pinned, writeVars>>

ReadMovements ==
    /\ reading = "movements"
    /\ view' = [view EXCEPT !.movements = SnapshotDatabase.movements]
    /\ pinned' = NothingStored
    /\ reading' = "done"
    /\ UNCHANGED writeVars

-----------------------------------------------------------------------------

Init ==
    /\ db = NothingStored
    /\ work = NothingStored
    /\ current = NoOperation
    /\ stage = "idle"
    /\ left = {}
    /\ item = NoProduct
    /\ answered = {}
    /\ reading = "products"
    /\ pinned = NothingStored
    /\ view = NothingRead

WriteStep ==
    \/ \E o \in Operations : Reserve(o)
    \/ \E o \in Operations : AnswerRetry(o)
    \/ InsertProduct
    \/ InsertInitial
    \/ UpdateProduct
    \/ RecordEdit
    \/ \E p \in Products : AddItem(p)
    \/ RecordItem
    \/ TakeStock
    \/ RecordWithdrawal
    \/ ArchiveProduct
    \/ RecordDelete
    \/ Rollback
    \/ Commit

ReadStep == ReadProducts \/ ReadPurchases \/ ReadMovements

Next == WriteStep \/ ReadStep

Spec == Init /\ [][Next]_vars

-----------------------------------------------------------------------------
(* Properties of the tables *)

Existing == {p \in Products : db.products[p] # NoProduct}

(* No stock is negative or above the limit, whatever purchases,            *)
(* withdrawals and corrections follow one another.                         *)
StockWithinLimits == \A p \in Existing : db.products[p].stock \in 0..Limit

Balanced(d) ==
    \A p \in Products : d.products[p] # NoProduct =>
        d.products[p].stock =
            Moved(d, p, {"initial", "purchase", "withdrawal"})

(* The stock of a product is the sum of its movements, through corrections *)
(* that insert, change or delete the initial one.                          *)
StockBalances == Balanced(db)

Complete(d) ==
    /\ \A k \in DOMAIN d.movements :
           d.movements[k].kind = "purchase" =>
               d.movements[k].purchase \in d.purchases
    /\ \A id \in d.purchases : \A p \in Products :
           LET lines == {k \in DOMAIN d.movements :
                            /\ d.movements[k].purchase = id
                            /\ d.movements[k].product = p}
           IN  Cardinality(lines) =
                   IF p \in DOMAIN db.requests[id].items THEN 1 ELSE 0

(* A purchase is stored with one movement for each of its items, or not at *)
(* all: "Compras com varios itens sao atomicas".                           *)
PurchasesComplete == Complete(db)

(* The audit of a product is a chain: an edit starts from the name, the    *)
(* initial quantity and the deletion mark the change before it left, and   *)
(* the row is what the last change left.                                   *)
AuditContinues ==
    \A k \in DOMAIN db.audit :
        LET p == db.audit[k].product
            after == db.audit[k].after
            later == {j \in DOMAIN db.audit : j > k /\ db.audit[j].product = p}
            following == IF later = {} THEN VersionOf(db, p)
                         ELSE db.audit[Min(later)].before
        IN  [following EXCEPT !.stock = after.stock] = after

(* A client that was told that its request is done finds exactly that      *)
(* request stored, even when another one used its id.                      *)
AnsweredDone == \A o \in answered : db.requests[o.id] = o

MovementsOf(d, p) ==
    LET ids == {k \in DOMAIN d.movements : d.movements[k].product = p}
    IN  [k \in ids |-> d.movements[k]]

(* A deleted product accepts nothing more: its row and its movements stay  *)
(* as they are.                                                            *)
DeletedFrozen ==
    [][\A p \in Existing : db.products[p].deleted =>
           /\ db'.products[p] = db.products[p]
           /\ MovementsOf(db', p) = MovementsOf(db, p)]_db

(* Properties of Snapshot *)

(* What Snapshot returns belongs together: stocks and movements agree and  *)
(* no purchase is listed in part, while operations commit between reads.   *)
SnapshotAgrees == reading = "done" => Balanced(view) /\ Complete(view)

(* Every operation takes effect in one step, once, or not at all.          *)
L == INSTANCE Ledger WITH
         applied <- db.requests,
         inUse   <- {p \in Existing : ~db.products[p].deleted},
         counted <- [p \in Products |-> InitialQuantity(db, p)],
         stock   <- [p \in Products |-> IF p \in Existing
                                        THEN db.products[p].stock ELSE 0]

LedgerSpec == L!Spec
=============================================================================
