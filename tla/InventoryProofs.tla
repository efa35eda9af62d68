-------------------------- MODULE InventoryProofs --------------------------
(***************************************************************************)
(* Proofs about Inventory, for every set of operations and every limit.    *)
(* The invariant says of the committed database that its tables agree, and *)
(* of an open transaction how far it is from the committed database to     *)
(* the one it will commit.  What an operation does as a whole is then      *)
(* looked at once, when it commits.                                        *)
(***************************************************************************)
EXTENDS Inventory, SumTheorems

Kinds == {"initial", "purchase", "withdrawal"}

(* The sets Moved sums over, and what it sums.                             *)
Lines(d, p, kinds) ==
    {k \in DOMAIN d.movements : /\ d.movements[k].product = p
                                /\ d.movements[k].kind \in kinds}

Quantities(d) == [k \in DOMAIN d.movements |-> d.movements[k].quantity]

-----------------------------------------------------------------------------
(* What holds of a committed database *)

Bounded(d) ==
    \A p \in Products :
        d.products[p] # NoProduct => d.products[p].stock \in 0..Limit

(* A product has one initial movement at most, and that is not zero.       *)
OneInitial(d) ==
    \A i \in DOMAIN d.movements : d.movements[i].kind = "initial" =>
        /\ d.movements[i].quantity \in Nat \ {0}
        /\ \A j \in DOMAIN d.movements :
               /\ d.movements[j].kind = "initial"
               /\ d.movements[j].product = d.movements[i].product
               => j = i

(* The foreign keys, and that products and purchases have the id of the    *)
(* request that made them.                                                 *)
Referenced(d) ==
    /\ \A k \in DOMAIN d.movements :
           /\ d.products[d.movements[k].product] # NoProduct
           /\ d.movements[k].purchase \in d.purchases \union {NoPurchase}
           /\ d.movements[k].kind = "purchase" <=>
                  d.movements[k].purchase # NoPurchase
    /\ \A p \in Products :
           d.products[p] # NoProduct => d.requests[p] # NoOperation
    /\ \A id \in d.purchases : /\ d.requests[id] # NoOperation
                               /\ d.requests[id].action = "purchase"
    /\ \A k \in DOMAIN d.audit : d.products[d.audit[k].product] # NoProduct

LinesOf(d, id, p) == {k \in DOMAIN d.movements :
                         /\ d.movements[k].purchase = id
                         /\ d.movements[k].product = p}

(* Each item of a purchase has its movement, and no other product has one. *)
WholePurchases(d) ==
    \A id \in d.purchases : \A p \in Products :
        IF p \in DOMAIN d.requests[id].items
        THEN \E k \in DOMAIN d.movements : LinesOf(d, id, p) = {k}
        ELSE LinesOf(d, id, p) = {}

Matches(before, after) == [before EXCEPT !.stock = after.stock] = after

(* The audit of each product is a chain that ends at its row.              *)
Chain(d) ==
    \A k \in DOMAIN d.audit :
        LET p == d.audit[k].product
            after == d.audit[k].after
        IN  /\ \A j \in DOMAIN d.audit :
                   /\ j > k
                   /\ d.audit[j].product = p
                   /\ \A i \in DOMAIN d.audit :
                          k < i /\ i < j => d.audit[i].product # p
                   => Matches(d.audit[j].before, after)
            /\ (\A j \in DOMAIN d.audit : j > k => d.audit[j].product # p)
                   => Matches(VersionOf(d, p), after)

Good(d) ==
    /\ IsDatabase(d)
    /\ Bounded(d)
    /\ Balanced(d)
    /\ OneInitial(d)
    /\ Referenced(d)
    /\ WholePurchases(d)
    /\ Chain(d)

-----------------------------------------------------------------------------
(* What an operation changes, from d to e *)

Keeps(d, e) == e.movements = d.movements /\ e.lastMovement = d.lastMovement

Plus(d, m) == [k \in DOMAIN d.movements \union {d.lastMovement + 1} |->
                  IF k \in DOMAIN d.movements THEN d.movements[k] ELSE m]

Inserts(d, e, m) == /\ e.movements = Plus(d, m)
                    /\ e.lastMovement = d.lastMovement + 1

Initial(p, quantity) == [product |-> p, purchase |-> NoPurchase,
                         kind |-> "initial", quantity |-> quantity]

(* The four ways to correct an initial movement.                           *)
Corrects(d, e, p, quantity) ==
    LET before == InitialQuantity(d, p)
        ms == d.movements
    IN  \/ quantity = before /\ Keeps(d, e)
        \/ /\ quantity # before /\ quantity = 0
           /\ e.movements =
                  [k \in {j \in DOMAIN ms : ~IsInitial(ms[j], p)} |-> ms[k]]
           /\ e.lastMovement = d.lastMovement
        \/ /\ quantity # before /\ quantity > 0 /\ before > 0
           /\ e.movements =
                  [k \in DOMAIN ms |->
                      IF IsInitial(ms[k], p)
                      THEN [ms[k] EXCEPT !.quantity = quantity] ELSE ms[k]]
           /\ e.lastMovement = d.lastMovement
        \/ /\ quantity # before /\ quantity > 0 /\ ~ (before > 0)
           /\ Inserts(d, e, Initial(p, quantity))

NewStock(d, o) ==
    d.products[o.product].stock + o.amount - InitialQuantity(d, o.product)

(* The products after the first statement of an operation, and what its    *)
(* guards have found out.                                                  *)
ProductsChange(d, e, o) ==
    CASE o.action = "create" ->
             e.products = [d.products EXCEPT ![o.id] =
                              [name |-> o.name, stock |-> o.amount,
                               deleted |-> FALSE]]
      [] o.action = "edit" ->
             /\ InUse(d, o.product)
             /\ NewStock(d, o) \in 0..Limit
             /\ e.products = [d.products EXCEPT ![o.product] =
                                 [name |-> o.name, stock |-> NewStock(d, o),
                                  deleted |-> FALSE]]
      [] o.action = "withdrawal" ->
             /\ InUse(d, o.product)
             /\ d.products[o.product].stock >= o.amount
             /\ e.products =
                    [d.products EXCEPT ![o.product].stock = @ - o.amount]
      [] o.action = "delete" ->
             /\ InUse(d, o.product)
             /\ e.products =
                    [d.products EXCEPT ![o.product].deleted = TRUE]
      [] OTHER -> FALSE

(* The movements after its last statement.                                 *)
MovementsChange(d, e, o) ==
    CASE o.action = "create" ->
             IF o.amount > 0 THEN Inserts(d, e, Initial(o.id, o.amount))
             ELSE Keeps(d, e)
      [] o.action = "edit" -> Corrects(d, e, o.product, o.amount)
      [] o.action = "withdrawal" ->
             Inserts(d, e, [product |-> o.product, purchase |-> NoPurchase,
                            kind |-> "withdrawal", quantity |-> -o.amount])
      [] OTHER -> Keeps(d, e)

AuditChange(d, e, o) ==
    CASE o.action = "edit" ->
             e.audit = Append(d.audit,
                 [product |-> o.product, action |-> "edit",
                  before |-> VersionOf(d, o.product),
                  after |-> [name |-> o.name, initial |-> o.amount,
                             stock |-> NewStock(d, o), deleted |-> FALSE]])
      [] o.action = "delete" ->
             e.audit = Append(d.audit,
                 [product |-> o.product, action |-> "delete",
                  before |-> VersionOf(d, o.product),
                  after |-> [VersionOf(d, o.product) EXCEPT !.deleted = TRUE]])
      [] OTHER -> e.audit = d.audit

(* A purchase that has added the items of done, and recorded those of      *)
(* recorded.                                                               *)
PurchaseChange(d, e, o, done, recorded) ==
    LET new == DOMAIN e.movements \ DOMAIN d.movements IN
    /\ \A p \in done : /\ InUse(d, p)
                       /\ d.products[p].stock <= Limit - o.items[p]
    /\ e.products = [p \in Products |->
                        IF p \in done
                        THEN [d.products[p] EXCEPT !.stock = @ + o.items[p]]
                        ELSE d.products[p]]
    /\ DOMAIN d.movements \subseteq DOMAIN e.movements
    /\ \A k \in DOMAIN d.movements : e.movements[k] = d.movements[k]
    /\ \A k \in new : LET p == e.movements[k].product IN
           /\ p \in recorded
           /\ e.movements[k] = [product |-> p, purchase |-> o.id,
                                kind |-> "purchase", quantity |-> o.items[p]]
           /\ \A j \in new : e.movements[j].product = p => j = k
    /\ \A p \in recorded : \E k \in new : e.movements[k].product = p
    /\ e.audit = d.audit

(* e is d with the request of o stored.                                    *)
Stores(d, e, o) ==
    /\ o \in Operations
    /\ d.requests[o.id] = NoOperation
    /\ e.requests = [d.requests EXCEPT ![o.id] = o]
    /\ e.purchases = IF o.action = "purchase" THEN d.purchases \union {o.id}
                     ELSE d.purchases

(* e is what o makes of d.                                                 *)
Performs(d, e, o) ==
    /\ Stores(d, e, o)
    /\ IF o.action = "purchase"
       THEN PurchaseChange(d, e, o, DOMAIN o.items, DOMAIN o.items)
       ELSE /\ ProductsChange(d, e, o)
            /\ MovementsChange(d, e, o)
            /\ AuditChange(d, e, o)

-----------------------------------------------------------------------------
(* Sums over the movements *)

LEMMA MovedSum ==
    ASSUME NEW d, NEW p, NEW kinds
    PROVE  Moved(d, p, kinds) = SumFunctionOnSet(Quantities(d), Lines(d, p, kinds))
  BY DEF Moved, Quantities, Lines

LEMMA MovementFields ==
    ASSUME NEW m \in Movement
    PROVE  /\ m.product \in Products
           /\ m.kind \in Kinds
           /\ m.quantity \in Int
           /\ m.purchase \in RequestIds \union {NoPurchase}
           /\ m = [product |-> m.product, purchase |-> m.purchase,
                   kind |-> m.kind, quantity |-> m.quantity]
  BY DEF Movement, Kinds

LEMMA LinesFinite ==
    ASSUME NEW d, IsDatabase(d), NEW p, NEW kinds
    PROVE  /\ IsFiniteSet(Lines(d, p, kinds))
           /\ \A k \in DOMAIN d.movements : Quantities(d)[k] \in Int
           /\ Lines(d, p, kinds) \subseteq DOMAIN d.movements
<1>1. IsFiniteSet(1..d.lastMovement)
  BY FS_Interval DEF IsDatabase
<1>2. Lines(d, p, kinds) \in SUBSET (1..d.lastMovement)
  BY DEF IsDatabase, IsMovementTable, Lines
<1>3. IsFiniteSet(Lines(d, p, kinds))
  BY <1>1, <1>2, FS_Subset
<1> QED
  BY <1>3, MovementFields DEF IsDatabase, IsMovementTable, Quantities, Lines

LEMMA MovedType ==
    ASSUME NEW d, IsDatabase(d), NEW p, NEW kinds
    PROVE  Moved(d, p, kinds) \in Int
<1>1. /\ IsFiniteSet(Lines(d, p, kinds))
      /\ \A k \in Lines(d, p, kinds) : Quantities(d)[k] \in Int
  BY LinesFinite
<1> QED
  BY <1>1, MovedSum, SumType

(* The rows of p stayed as they were.                                      *)
LEMMA LinesSame ==
    ASSUME NEW d, IsDatabase(d), NEW e, NEW p, NEW kinds,
           Lines(e, p, kinds) = Lines(d, p, kinds),
           \A k \in Lines(d, p, kinds) :
               e.movements[k].quantity = d.movements[k].quantity
    PROVE  Moved(e, p, kinds) = Moved(d, p, kinds)
<1>1. IsFiniteSet(Lines(d, p, kinds))
  BY LinesFinite
<1>2. \A k \in Lines(d, p, kinds) : Quantities(e)[k] = Quantities(d)[k]
  BY DEF Quantities, Lines
<1> QED
  BY <1>1, <1>2, MovedSum, SumSame

(* p got one row more.                                                     *)
LEMMA LineAdded ==
    ASSUME NEW d, IsDatabase(d), NEW e, NEW p, NEW kinds, NEW k,
           k \notin DOMAIN d.movements,
           Lines(e, p, kinds) = Lines(d, p, kinds) \union {k},
           e.movements[k].quantity \in Int,
           \A j \in DOMAIN d.movements :
               e.movements[j].quantity = d.movements[j].quantity
    PROVE  Moved(e, p, kinds) = Moved(d, p, kinds) + e.movements[k].quantity
<1> DEFINE S == Lines(d, p, kinds)
<1>0. k \notin S
  BY DEF Lines
<1>1. IsFiniteSet(S) /\ k \notin S
  BY <1>0, LinesFinite
<1>2. \A j \in S \union {k} : Quantities(e)[j] = e.movements[j].quantity
  BY DEF Quantities, Lines
<1>3. \A j \in S : Quantities(e)[j] = Quantities(d)[j] /\ Quantities(d)[j] \in Int
  BY <1>2, LinesFinite DEF Quantities, Lines
<1>4. \A j \in S \union {k} : Quantities(e)[j] \in Int
  BY <1>2, <1>3
<1> HIDE DEF S
<1>5. SumFunctionOnSet(Quantities(e), S \union {k}) =
          SumFunctionOnSet(Quantities(e), S) + Quantities(e)[k]
  BY <1>1, <1>4, SumAdd
<1>6. SumFunctionOnSet(Quantities(e), S) = SumFunctionOnSet(Quantities(d), S)
  BY <1>1, <1>3, SumSame
<1> QED
  BY <1>2, <1>5, <1>6, MovedSum DEF S

(* p lost one row.                                                         *)
LEMMA LineRemoved ==
    ASSUME NEW d, IsDatabase(d), NEW e, NEW p, NEW kinds,
           NEW k \in Lines(d, p, kinds),
           Lines(e, p, kinds) = Lines(d, p, kinds) \ {k},
           \A j \in Lines(e, p, kinds) :
               e.movements[j].quantity = d.movements[j].quantity
    PROVE  Moved(e, p, kinds) = Moved(d, p, kinds) - d.movements[k].quantity
<1> DEFINE S == Lines(d, p, kinds)
<1>1. IsFiniteSet(S) /\ \A j \in S : Quantities(d)[j] \in Int
  BY LinesFinite
<1>2. IsFiniteSet(S \ {k}) /\ \A j \in S \ {k} : Quantities(d)[j] \in Int
  BY <1>1, FS_RemoveElement
<1>3. Quantities(d)[k] = d.movements[k].quantity
  BY DEF Quantities, Lines
<1>4. \A j \in S \ {k} : Quantities(e)[j] = Quantities(d)[j]
  BY DEF Quantities, Lines
<1> HIDE DEF S
<1>5. SumFunctionOnSet(Quantities(d), S) =
          Quantities(d)[k] + SumFunctionOnSet(Quantities(d), S \ {k})
  BY <1>1, SumRemove DEF S
<1>6. SumFunctionOnSet(Quantities(e), S \ {k}) =
          SumFunctionOnSet(Quantities(d), S \ {k})
  BY <1>2, <1>4, SumSame
<1>7. SumFunctionOnSet(Quantities(d), S \ {k}) \in Int
  BY <1>2, SumType
<1>8. Quantities(d)[k] \in Int
  BY <1>1 DEF S
<1>9. Moved(e, p, kinds) = SumFunctionOnSet(Quantities(d), S \ {k})
  BY <1>6, MovedSum DEF S
<1>10. Moved(d, p, kinds) = Quantities(d)[k] + Moved(e, p, kinds)
  BY <1>5, <1>9, MovedSum DEF S
<1> HIDE DEF Moved
<1> QED
  BY <1>3, <1>7, <1>8, <1>9, <1>10

(* A row of p got another quantity.                                        *)
LEMMA LineChanged ==
    ASSUME NEW d, IsDatabase(d), NEW e, NEW p, NEW kinds,
           NEW k \in Lines(d, p, kinds),
           Lines(e, p, kinds) = Lines(d, p, kinds),
           e.movements[k].quantity \in Int,
           \A j \in Lines(d, p, kinds) \ {k} :
               e.movements[j].quantity = d.movements[j].quantity
    PROVE  Moved(e, p, kinds) = Moved(d, p, kinds) - d.movements[k].quantity
                                    + e.movements[k].quantity
<1> DEFINE S == Lines(d, p, kinds)
<1>1. IsFiniteSet(S) /\ \A j \in S : Quantities(d)[j] \in Int
  BY LinesFinite
<1>2. IsFiniteSet(S \ {k}) /\ \A j \in S \ {k} : Quantities(d)[j] \in Int
  BY <1>1, FS_RemoveElement
<1>3. /\ Quantities(d)[k] = d.movements[k].quantity
      /\ Quantities(e)[k] = e.movements[k].quantity
  BY DEF Quantities, Lines
<1>4. \A j \in S \ {k} : Quantities(e)[j] = Quantities(d)[j]
  BY DEF Quantities, Lines
<1> HIDE DEF S
<1>5. SumFunctionOnSet(Quantities(d), S) =
          Quantities(d)[k] + SumFunctionOnSet(Quantities(d), S \ {k})
  BY <1>1, SumRemove DEF S
<1>6. \A j \in S : Quantities(e)[j] \in Int
  BY <1>1, <1>3, <1>4
<1>7. SumFunctionOnSet(Quantities(e), S) =
          Quantities(e)[k] + SumFunctionOnSet(Quantities(e), S \ {k})
  BY <1>1, <1>6, SumRemove DEF S
<1>8. SumFunctionOnSet(Quantities(e), S \ {k}) =
          SumFunctionOnSet(Quantities(d), S \ {k})
  BY <1>2, <1>4, SumSame
<1>9. SumFunctionOnSet(Quantities(d), S \ {k}) \in Int
  BY <1>2, SumType
<1>10. Quantities(d)[k] \in Int /\ Quantities(e)[k] \in Int
  BY <1>1, <1>6 DEF S
<1> QED
  BY <1>3, <1>5, <1>7, <1>8, <1>9, <1>10, MovedSum DEF S

(* What the initial movement says is the initial quantity.                 *)
LEMMA InitialSum ==
    ASSUME NEW d, IsDatabase(d), OneInitial(d), NEW p
    PROVE  \/ /\ Lines(d, p, {"initial"}) = {}
              /\ InitialQuantity(d, p) = 0
           \/ \E k \in DOMAIN d.movements :
                  /\ Lines(d, p, {"initial"}) = {k}
                  /\ InitialQuantity(d, p) = d.movements[k].quantity
                  /\ d.movements[k].quantity \in Nat \ {0}
<1>1. CASE Lines(d, p, {"initial"}) = {}
  BY <1>1, MovedSum, SumEmpty DEF InitialQuantity
<1>2. ASSUME NEW k \in Lines(d, p, {"initial"})
      PROVE  /\ k \in DOMAIN d.movements
             /\ Lines(d, p, {"initial"}) = {k}
             /\ InitialQuantity(d, p) = d.movements[k].quantity
             /\ d.movements[k].quantity \in Nat \ {0}
  <2>1. k \in DOMAIN d.movements /\ Lines(d, p, {"initial"}) = {k}
        /\ d.movements[k].quantity \in Nat \ {0}
    BY <1>2 DEF Lines, OneInitial
  <2>2. /\ \A j \in {k} : Quantities(d)[j] \in Int
        /\ Quantities(d)[k] = d.movements[k].quantity
    BY <2>1 DEF Quantities
  <2>3. SumFunctionOnSet(Quantities(d), {k}) =
            Quantities(d)[k] + SumFunctionOnSet(Quantities(d), {k} \ {k})
    BY <2>2, FS_Singleton, SumRemove
  <2>4. {k} \ {k} = {}
    OBVIOUS
  <2>5. SumFunctionOnSet(Quantities(d), {k} \ {k}) = 0
    BY <2>4, SumEmpty
  <2> QED
    BY <2>1, <2>2, <2>3, <2>5, MovedSum DEF InitialQuantity
<1> QED
  BY <1>1, <1>2

-----------------------------------------------------------------------------
(* What one more, one less or one other movement means *)

(* The kind of an operation decides which fields it has.                   *)
LEMMA OperationFields ==
    ASSUME NEW o \in Operations
    PROVE  /\ o.id \in RequestIds
           /\ o # NoOperation
           /\ o.action \in {"create", "edit", "purchase", "withdrawal", "delete"}
           /\ o.action = "create" => o.name \in Names /\ o.amount \in 0..MaxQuantity
           /\ o.action = "edit" => /\ o.product \in Products /\ o.name \in Names
                                   /\ o.amount \in 0..MaxQuantity
           /\ o.action = "purchase" =>
                  /\ DOMAIN o.items \subseteq Products
                  /\ \A p \in DOMAIN o.items : o.items[p] \in 1..MaxQuantity
           /\ o.action = "withdrawal" =>
                  o.product \in Products /\ o.amount \in 1..MaxQuantity
           /\ o.action = "delete" => o.product \in Products
<1> USE OperationsAssumption
<1>1. CASE o \in CreateOp
  BY <1>1 DEF CreateOp
<1>2. CASE o \in EditOp
  BY <1>2 DEF EditOp
<1>3. CASE o \in PurchaseOp
  <2>1. PICK bought \in SUBSET Products \ {{}} :
            o.items \in [bought -> 1..MaxQuantity]
    BY <1>3 DEF PurchaseOp
  <2>2. /\ DOMAIN o.items \subseteq Products
        /\ \A p \in DOMAIN o.items : o.items[p] \in 1..MaxQuantity
    BY <2>1
  <2>3. o.id \in RequestIds /\ o.action = "purchase"
    BY <1>3 DEF PurchaseOp
  <2> QED
    BY <2>2, <2>3
<1>4. CASE o \in WithdrawOp
  BY <1>4 DEF WithdrawOp
<1>5. CASE o \in DeleteOp
  BY <1>5 DEF DeleteOp
<1> QED
  BY <1>1, <1>2, <1>3, <1>4, <1>5

LEMMA InsertedRow ==
    ASSUME NEW d, IsDatabase(d), NEW e, NEW m, Inserts(d, e, m)
    PROVE  /\ d.lastMovement + 1 \notin DOMAIN d.movements
           /\ DOMAIN e.movements = DOMAIN d.movements \union {d.lastMovement + 1}
           /\ e.movements[d.lastMovement + 1] = m
           /\ \A j \in DOMAIN d.movements : e.movements[j] = d.movements[j]
<1>1. d.lastMovement + 1 \notin DOMAIN d.movements
  BY DEF IsDatabase, IsMovementTable
<1>2. e.movements = Plus(d, m)
  BY DEF Inserts
<1> QED
  BY <1>1, <1>2 DEF Plus

LEMMA InsertedSum ==
    ASSUME NEW d, IsDatabase(d), NEW e, NEW m \in Movement, Inserts(d, e, m),
           NEW p, NEW kinds
    PROVE  Moved(e, p, kinds) =
               IF m.product = p /\ m.kind \in kinds
               THEN Moved(d, p, kinds) + m.quantity
               ELSE Moved(d, p, kinds)
<1> DEFINE k == d.lastMovement + 1
<1>0. /\ k \notin DOMAIN d.movements
      /\ DOMAIN e.movements = DOMAIN d.movements \union {k}
      /\ e.movements[k] = m
      /\ \A j \in DOMAIN d.movements : e.movements[j] = d.movements[j]
  BY InsertedRow
<1> HIDE DEF k
<1>1. CASE m.product = p /\ m.kind \in kinds
  <2>1. Lines(e, p, kinds) = Lines(d, p, kinds) \union {k}
    BY <1>0, <1>1 DEF Lines
  <2>2. e.movements[k].quantity \in Int
    BY <1>0, MovementFields
  <2>3. \A j \in DOMAIN d.movements :
            e.movements[j].quantity = d.movements[j].quantity
    BY <1>0
  <2>4. Moved(e, p, kinds) = Moved(d, p, kinds) + e.movements[k].quantity
    BY <1>0, <2>1, <2>2, <2>3, LineAdded
  <2> QED
    BY <1>0, <1>1, <2>4
<1>2. CASE ~ (m.product = p /\ m.kind \in kinds)
  <2>1. Lines(e, p, kinds) = Lines(d, p, kinds)
    BY <1>0, <1>2 DEF Lines
  <2>2. \A j \in Lines(d, p, kinds) :
            e.movements[j].quantity = d.movements[j].quantity
    BY <1>0 DEF Lines
  <2>3. Moved(e, p, kinds) = Moved(d, p, kinds)
    BY <2>1, <2>2, LinesSame
  <2> QED
    BY <1>2, <2>3
<1> QED
  BY <1>1, <1>2

(* Only p's movements changed: its initial quantity is now first, the sum  *)
(* of all its movements is total, and no purchase is concerned.            *)
Moves(d, e, p, first, total) ==
    /\ InitialQuantity(e, p) = first
    /\ Moved(e, p, Kinds) = total
    /\ OneInitial(e)
    /\ \A k \in DOMAIN e.movements :
           \/ k \in DOMAIN d.movements /\ e.movements[k] = d.movements[k]
           \/ /\ e.movements[k].product = p
              /\ e.movements[k].purchase = NoPurchase
              /\ e.movements[k].kind # "purchase"
    /\ \A k \in DOMAIN d.movements :
           \/ k \in DOMAIN e.movements /\ e.movements[k] = d.movements[k]
           \/ /\ d.movements[k].product = p
              /\ d.movements[k].purchase = NoPurchase

(* Everybody else's sums are what they were.                               *)
LEMMA OthersSame ==
    ASSUME NEW d, IsDatabase(d), NEW e, NEW p, NEW first, NEW total,
           Moves(d, e, p, first, total),
           NEW q, q # p
    PROVE  /\ \A kinds : Moved(e, q, kinds) = Moved(d, q, kinds)
           /\ InitialQuantity(e, q) = InitialQuantity(d, q)
           /\ MovementsOf(e, q) = MovementsOf(d, q)
<1>1. ASSUME NEW kinds
      PROVE  Moved(e, q, kinds) = Moved(d, q, kinds)
  <2>1. Lines(e, q, kinds) = Lines(d, q, kinds)
    BY DEF Lines, Moves
  <2>2. \A j \in Lines(d, q, kinds) :
            e.movements[j].quantity = d.movements[j].quantity
    BY DEF Lines, Moves
  <2> QED
    BY <2>1, <2>2, LinesSame
<1>2. InitialQuantity(e, q) = InitialQuantity(d, q)
  BY <1>1 DEF InitialQuantity
<1>3. MovementsOf(e, q) = MovementsOf(d, q)
  <2> DEFINE ids == {k \in DOMAIN d.movements : d.movements[k].product = q}
  <2>1. {k \in DOMAIN e.movements : e.movements[k].product = q} = ids
    BY DEF Moves
  <2>2. \A k \in ids : e.movements[k] = d.movements[k]
    BY DEF Moves
  <2> QED
    BY <2>1, <2>2 DEF MovementsOf
<1> QED
  BY <1>1, <1>2, <1>3

LEMMA KeepsMoves ==
    ASSUME NEW d, IsDatabase(d), OneInitial(d), NEW e, Keeps(d, e), NEW p
    PROVE  Moves(d, e, p, InitialQuantity(d, p), Moved(d, p, Kinds))
<1>1. \A kinds : Moved(e, p, kinds) = Moved(d, p, kinds)
  BY DEF Keeps, Moved
<1> QED
  BY <1>1 DEF Moves, Keeps, OneInitial, InitialQuantity

(* A row that is inserted without a purchase; an initial one is the first  *)
(* of its product.                                                         *)
LEMMA InsertMoves ==
    ASSUME NEW d, IsDatabase(d), OneInitial(d), NEW e,
           NEW m \in Movement, Inserts(d, e, m),
           m.purchase = NoPurchase, m.kind \in {"initial", "withdrawal"},
           m.kind = "initial" =>
               /\ m.quantity \in Nat \ {0}
               /\ Lines(d, m.product, {"initial"}) = {}
    PROVE  Moves(d, e, m.product,
                 InitialQuantity(d, m.product) +
                     (IF m.kind = "initial" THEN m.quantity ELSE 0),
                 Moved(d, m.product, Kinds) + m.quantity)
<1> DEFINE k == d.lastMovement + 1
           p == m.product
<1>0. /\ k \notin DOMAIN d.movements
      /\ DOMAIN e.movements = DOMAIN d.movements \union {k}
      /\ e.movements[k] = m
      /\ \A j \in DOMAIN d.movements : e.movements[j] = d.movements[j]
  BY InsertedRow
<1>1. /\ Moved(d, p, {"initial"}) \in Int
      /\ Moved(e, p, {"initial"}) =
             IF m.kind \in {"initial"}
             THEN Moved(d, p, {"initial"}) + m.quantity
             ELSE Moved(d, p, {"initial"})
  BY InsertedSum, MovedType
<1>2. Moved(e, p, Kinds) = Moved(d, p, Kinds) + m.quantity
  <2>1. m.kind \in Kinds
    BY DEF Kinds
  <2> QED
    BY <2>1, InsertedSum
<1> HIDE DEF k
<1>3. OneInitial(e)
  <2> SUFFICES ASSUME NEW i \in DOMAIN e.movements,
                      e.movements[i].kind = "initial"
               PROVE  /\ e.movements[i].quantity \in Nat \ {0}
                      /\ \A j \in DOMAIN e.movements :
                             /\ e.movements[j].kind = "initial"
                             /\ e.movements[j].product = e.movements[i].product
                             => j = i
    BY DEF OneInitial
  <2>1. m.kind = "initial" =>
            \A j \in DOMAIN d.movements :
                ~ (d.movements[j].kind = "initial" /\ d.movements[j].product = p)
    BY DEF Lines
  <2>2. CASE i = k
    BY <1>0, <2>1, <2>2
  <2>3. CASE i # k
    BY <1>0, <2>1, <2>3 DEF OneInitial
  <2> QED
    BY <2>2, <2>3
<1>4. InitialQuantity(e, p) = InitialQuantity(d, p) +
                                  (IF m.kind = "initial" THEN m.quantity ELSE 0)
  BY <1>1 DEF InitialQuantity
<1> QED
  BY <1>0, <1>2, <1>3, <1>4 DEF Moves

(* The correction of an initial movement, in each of its four ways.        *)
LEMMA CorrectMoves ==
    ASSUME NEW d, IsDatabase(d), OneInitial(d), Referenced(d), NEW e,
           NEW p \in Products, NEW quantity \in Nat,
           Corrects(d, e, p, quantity)
    PROVE  Moves(d, e, p, quantity,
                 Moved(d, p, Kinds) + quantity - InitialQuantity(d, p))
<1> DEFINE before == InitialQuantity(d, p)
           ms == d.movements
           total == Moved(d, p, Kinds)
<1>0. /\ before \in Int /\ total \in Int
      /\ before = Moved(d, p, {"initial"})
  BY MovedType DEF InitialQuantity
<1>1. /\ \A k \in DOMAIN ms : ms[k] \in Movement
      /\ \A k \in DOMAIN ms : IsInitial(ms[k], p) <=> k \in Lines(d, p, {"initial"})
      /\ Lines(d, p, {"initial"}) \subseteq Lines(d, p, Kinds)
  BY DEF IsDatabase, IsMovementTable, Lines, IsInitial, Kinds
<1>2. \A k \in Lines(d, p, {"initial"}) :
          /\ ms[k].product = p
          /\ ms[k].kind = "initial"
          /\ ms[k].purchase = NoPurchase
  BY DEF Lines, Referenced
<1>3. CASE quantity = before /\ Keeps(d, e)
  <2>1. Moves(d, e, p, before, total)
    BY <1>3, KeepsMoves
  <2> HIDE DEF before, total
  <2>2. total + quantity - before = total
    BY <1>0, <1>3
  <2> QED
    BY <1>3, <2>1, <2>2 DEF before, total
<1>4. CASE /\ quantity # before /\ quantity = 0
           /\ e.movements = [k \in {j \in DOMAIN ms : ~IsInitial(ms[j], p)} |-> ms[k]]
  <2>1. PICK i \in DOMAIN ms : /\ Lines(d, p, {"initial"}) = {i}
                               /\ before = ms[i].quantity
                               /\ ms[i].quantity \in Nat \ {0}
    BY <1>4, InitialSum
  <2>2. /\ DOMAIN e.movements = DOMAIN ms \ {i}
        /\ \A k \in DOMAIN e.movements : e.movements[k] = ms[k]
    BY <1>1, <1>4, <2>1
  <2>3. /\ i \in Lines(d, p, Kinds) /\ i \in Lines(d, p, {"initial"})
        /\ Lines(e, p, Kinds) = Lines(d, p, Kinds) \ {i}
        /\ Lines(e, p, {"initial"}) = Lines(d, p, {"initial"}) \ {i}
    BY <1>1, <2>1, <2>2 DEF Lines
  <2>4. \A kinds : \A j \in Lines(e, p, kinds) :
            e.movements[j].quantity = ms[j].quantity
    BY <2>2 DEF Lines
  <2>5. Moved(e, p, Kinds) = total - before
    BY <2>1, <2>3, <2>4, LineRemoved
  <2>6. InitialQuantity(e, p) = before - before
    BY <2>1, <2>3, <2>4, LineRemoved DEF InitialQuantity
  <2>7. OneInitial(e)
    BY <2>2 DEF OneInitial
  <2>8. ms[i].product = p /\ ms[i].purchase = NoPurchase
    BY <1>2, <2>3
  <2> HIDE DEF before, total
  <2>9. Moved(e, p, Kinds) = total + quantity - before /\ InitialQuantity(e, p) = quantity
    BY <1>0, <1>4, <2>5, <2>6
  <2> QED
    BY <2>2, <2>7, <2>8, <2>9 DEF Moves, before, total
<1>5. CASE /\ quantity # before /\ quantity > 0 /\ before > 0
           /\ e.movements = [k \in DOMAIN ms |->
                                IF IsInitial(ms[k], p)
                                THEN [ms[k] EXCEPT !.quantity = quantity]
                                ELSE ms[k]]
  <2>1. PICK i \in DOMAIN ms : /\ Lines(d, p, {"initial"}) = {i}
                               /\ before = ms[i].quantity
                               /\ ms[i].quantity \in Nat \ {0}
    BY <1>0, <1>5, InitialSum
  <2>2. /\ DOMAIN e.movements = DOMAIN ms
        /\ e.movements[i] = [ms[i] EXCEPT !.quantity = quantity]
        /\ \A k \in DOMAIN ms \ {i} : e.movements[k] = ms[k]
    BY <1>1, <1>5, <2>1
  <2>3. /\ e.movements[i].product = ms[i].product
        /\ e.movements[i].kind = ms[i].kind
        /\ e.movements[i].purchase = ms[i].purchase
        /\ e.movements[i].quantity = quantity
    BY <1>1, <2>1, <2>2 DEF Movement
  <2>4. /\ i \in Lines(d, p, Kinds) /\ i \in Lines(d, p, {"initial"})
        /\ Lines(e, p, Kinds) = Lines(d, p, Kinds)
        /\ Lines(e, p, {"initial"}) = Lines(d, p, {"initial"})
    BY <1>1, <2>1, <2>2, <2>3 DEF Lines
  <2>5. \A kinds : \A j \in Lines(d, p, kinds) \ {i} :
            e.movements[j].quantity = ms[j].quantity
    BY <2>2 DEF Lines
  <2>6. Moved(e, p, Kinds) = total - before + quantity
    BY <2>1, <2>3, <2>4, <2>5, LineChanged
  <2>7. InitialQuantity(e, p) = before - before + quantity
    BY <2>1, <2>3, <2>4, <2>5, LineChanged DEF InitialQuantity
  <2>8. OneInitial(e)
    BY <1>5, <2>2, <2>3 DEF OneInitial
  <2>9. ms[i].product = p /\ ms[i].purchase = NoPurchase /\ ms[i].kind = "initial"
    BY <1>2, <2>4
  <2> HIDE DEF before, total
  <2>10. Moved(e, p, Kinds) = total + quantity - before /\ InitialQuantity(e, p) = quantity
    BY <1>0, <1>5, <2>6, <2>7
  <2> QED
    BY <2>2, <2>3, <2>8, <2>9, <2>10 DEF Moves, before, total
<1>6. CASE /\ quantity # before /\ quantity > 0 /\ ~ (before > 0)
           /\ Inserts(d, e, Initial(p, quantity))
  <2> DEFINE m == Initial(p, quantity)
  <2>1. /\ m \in Movement
        /\ m.product = p /\ m.kind = "initial" /\ m.purchase = NoPurchase
        /\ m.quantity = quantity
    BY <1>6 DEF Initial, Movement
  <2>2. Lines(d, p, {"initial"}) = {} /\ before = 0
    BY <1>0, <1>6, InitialSum
  <2>3. Inserts(d, e, m) /\ quantity \in Nat \ {0}
    BY <1>6
  <2> HIDE DEF m
  <2>4. Moves(d, e, p, before + quantity, total + quantity)
    BY <2>1, <2>2, <2>3, InsertMoves
  <2> HIDE DEF before, total
  <2>5. before + quantity = quantity /\ total + quantity = total + quantity - before
    BY <1>0, <2>2
  <2> QED
    BY <2>4, <2>5 DEF before, total
<1> QED
  BY <1>3, <1>4, <1>5, <1>6 DEF Corrects

-----------------------------------------------------------------------------
(* The chain of the audit *)

(* The version of q that the audit keeps is the same but for the stock.    *)
SameVersion(d, e, q) ==
    /\ e.products[q].name = d.products[q].name
    /\ e.products[q].deleted = d.products[q].deleted
    /\ InitialQuantity(e, q) = InitialQuantity(d, q)

LEMMA StillMatches ==
    ASSUME NEW d, NEW e, NEW q, SameVersion(d, e, q), NEW after,
           Matches(VersionOf(d, q), after)
    PROVE  Matches(VersionOf(e, q), after)
<1>1. [VersionOf(e, q) EXCEPT !.stock = after.stock] =
          [VersionOf(d, q) EXCEPT !.stock = after.stock]
  BY DEF SameVersion, VersionOf
<1> QED
  BY <1>1 DEF Matches

LEMMA ChainKept ==
    ASSUME NEW d, Chain(d), NEW e, e.audit = d.audit,
           \A k \in DOMAIN d.audit : SameVersion(d, e, d.audit[k].product)
    PROVE  Chain(e)
  BY StillMatches DEF Chain

LEMMA ChainGrown ==
    ASSUME NEW d, IsDatabase(d), Chain(d), NEW e, NEW c,
           e.audit = Append(d.audit, c),
           c.before = VersionOf(d, c.product),
           Matches(VersionOf(e, c.product), c.after),
           \A k \in DOMAIN d.audit : d.audit[k].product # c.product =>
               SameVersion(d, e, d.audit[k].product)
    PROVE  Chain(e)
<1> DEFINE n == Len(d.audit)
<1>1. /\ n \in Nat
      /\ DOMAIN d.audit = 1..n
      /\ DOMAIN e.audit = 1..(n + 1)
      /\ e.audit[n + 1] = c
      /\ \A k \in 1..n : e.audit[k] = d.audit[k]
  BY DEF IsDatabase
<1> SUFFICES ASSUME NEW k \in 1..(n + 1)
             PROVE  LET p == e.audit[k].product
                        after == e.audit[k].after
                    IN  /\ \A j \in DOMAIN e.audit :
                               /\ j > k
                               /\ e.audit[j].product = p
                               /\ \A i \in DOMAIN e.audit :
                                      k < i /\ i < j => e.audit[i].product # p
                               => Matches(e.audit[j].before, after)
                        /\ (\A j \in DOMAIN e.audit :
                                j > k => e.audit[j].product # p)
                               => Matches(VersionOf(e, p), after)
  BY <1>1 DEF Chain
<1> DEFINE p == e.audit[k].product
           after == e.audit[k].after
<1> HIDE DEF n
<1>2. CASE k = n + 1
  BY <1>1, <1>2
<1>3. CASE k \in 1..n
  <2>1. /\ \A j \in 1..n :
               /\ j > k
               /\ d.audit[j].product = p
               /\ \A i \in 1..n : k < i /\ i < j => d.audit[i].product # p
               => Matches(d.audit[j].before, after)
        /\ (\A j \in 1..n : j > k => d.audit[j].product # p)
               => Matches(VersionOf(d, p), after)
    BY <1>1, <1>3 DEF Chain
  <2>2. ASSUME NEW j \in 1..(n + 1), j > k, e.audit[j].product = p,
               \A i \in 1..(n + 1) : k < i /\ i < j => e.audit[i].product # p
        PROVE  Matches(e.audit[j].before, after)
    <3>1. CASE j \in 1..n
      BY <1>1, <2>1, <2>2, <3>1
    <3>2. CASE j = n + 1
      <4>1. \A i \in 1..n : i > k => d.audit[i].product # p
        BY <1>1, <2>2, <3>2
      <4>2. e.audit[j] = c /\ c.product = p
        BY <1>1, <2>2, <3>2
      <4> QED
        BY <2>1, <4>1, <4>2
    <3> QED
      BY <1>1, <3>1, <3>2
  <2>3. ASSUME \A j \in 1..(n + 1) : j > k => e.audit[j].product # p
        PROVE  Matches(VersionOf(e, p), after)
    <3>1. \A j \in 1..n : j > k => d.audit[j].product # p
      BY <1>1, <2>3
    <3>2. c.product # p
      BY <1>1, <1>3, <2>3
    <3>3. d.audit[k].product = p
      BY <1>1, <1>3
    <3>4. SameVersion(d, e, p)
      BY <1>1, <1>3, <3>2, <3>3
    <3> HIDE DEF p, after
    <3> QED
      BY <2>1, <3>1, <3>4, StillMatches
  <2> HIDE DEF p, after
  <2> QED
    BY <1>1, <2>2, <2>3 DEF p, after
<1> QED
  BY <1>1, <1>2, <1>3

-----------------------------------------------------------------------------
(* The operations on one product, as a whole *)

(* An operation other than a purchase gives p a row, whose stock is what   *)
(* its movements now add up to.                                            *)
LEMMA OneProduct ==
    ASSUME NEW d, Good(d), NEW e, IsDatabase(e),
           NEW o, Stores(d, e, o), o.action # "purchase",
           NEW p \in Products, NEW row \in Product,
           e.products = [d.products EXCEPT ![p] = row],
           d.products[p] # NoProduct \/ p = o.id,
           row.stock \in 0..Limit,
           NEW first, Moves(d, e, p, first, row.stock),
           \A k \in DOMAIN e.audit : e.products[e.audit[k].product] # NoProduct,
           Chain(e)
    PROVE  Good(e)
<1>1. /\ IsDatabase(d)
      /\ d.products \in [Products -> Product \union {NoProduct}]
      /\ d.requests \in [RequestIds -> Operations \union {NoOperation}]
      /\ d.purchases \subseteq RequestIds
      /\ e.purchases = d.purchases
      /\ o.id \in RequestIds /\ o # NoOperation
      /\ d.requests[o.id] = NoOperation
      /\ e.requests = [d.requests EXCEPT ![o.id] = o]
  BY OperationFields DEF Good, IsDatabase, Stores
<1>2. /\ row # NoProduct
      /\ e.products[p] = row
      /\ \A q \in Products \ {p} : e.products[q] = d.products[q]
  BY <1>1, RowsAssumption
<1>3. Bounded(e)
  BY <1>2 DEF Good, Bounded
<1>4. Balanced(e)
  <2> SUFFICES ASSUME NEW q \in Products, e.products[q] # NoProduct
               PROVE  e.products[q].stock = Moved(e, q, Kinds)
    BY DEF Balanced, Kinds
  <2>1. CASE q = p
    BY <1>2, <2>1 DEF Moves
  <2>2. CASE q # p
    <3>1. d.products[q].stock = Moved(d, q, Kinds)
      BY <1>2, <2>2 DEF Good, Balanced, Kinds
    <3>2. Moved(e, q, Kinds) = Moved(d, q, Kinds)
      BY <1>1, <2>2, OthersSame
    <3> QED
      BY <1>2, <2>2, <3>1, <3>2
  <2> QED
    BY <2>1, <2>2
<1>5. OneInitial(e)
  BY DEF Moves
<1>6. Referenced(e)
  <2>1. ASSUME NEW k \in DOMAIN e.movements
        PROVE  /\ e.products[e.movements[k].product] # NoProduct
               /\ e.movements[k].purchase \in e.purchases \union {NoPurchase}
               /\ e.movements[k].kind = "purchase" <=>
                      e.movements[k].purchase # NoPurchase
    <3>1. CASE k \in DOMAIN d.movements /\ e.movements[k] = d.movements[k]
      <4>1. d.movements[k].product \in Products
        BY <1>1, <3>1, MovementFields DEF IsDatabase, IsMovementTable
      <4> QED
        BY <1>1, <1>2, <3>1, <4>1 DEF Good, Referenced
    <3>2. CASE /\ e.movements[k].product = p
               /\ e.movements[k].purchase = NoPurchase
               /\ e.movements[k].kind # "purchase"
      BY <1>2, <3>2
    <3> QED
      BY <3>1, <3>2 DEF Moves
  <2>2. ASSUME NEW q \in Products, e.products[q] # NoProduct
        PROVE  e.requests[q] # NoOperation
    BY <1>1, <1>2, <2>2 DEF Good, Referenced, Products
  <2>3. ASSUME NEW id \in e.purchases
        PROVE  e.requests[id] # NoOperation /\ e.requests[id].action = "purchase"
    BY <1>1, <2>3 DEF Good, Referenced
  <2> QED
    BY <2>1, <2>2, <2>3 DEF Referenced
<1>7. WholePurchases(e)
  <2> SUFFICES ASSUME NEW id \in d.purchases, NEW q \in Products
               PROVE  /\ e.requests[id] = d.requests[id]
                      /\ LinesOf(e, id, q) = LinesOf(d, id, q)
                      /\ LinesOf(d, id, q) \subseteq DOMAIN e.movements
    BY <1>1 DEF Good, WholePurchases
  <2>1. id \in RequestIds /\ id # NoPurchase
    BY <1>1, RowsAssumption
  <2>2. e.requests[id] = d.requests[id]
    BY <1>1, <2>1 DEF Good, Referenced
  <2>3. LinesOf(e, id, q) = LinesOf(d, id, q)
    BY <2>1 DEF LinesOf, Moves
  <2> QED
    BY <2>2, <2>3 DEF LinesOf
<1> QED
  BY <1>3, <1>4, <1>5, <1>6, <1>7 DEF Good

(* The audit of the other products goes on from where it was.              *)
LEMMA OthersVersion ==
    ASSUME NEW d, IsDatabase(d), NEW e, NEW p \in Products, NEW row,
           e.products = [d.products EXCEPT ![p] = row],
           NEW first, NEW total, Moves(d, e, p, first, total),
           NEW k \in DOMAIN d.audit, d.audit[k].product # p
    PROVE  SameVersion(d, e, d.audit[k].product)
<1>1. d.audit[k].product \in Products
  <2>1. d.audit[k] \in Change
    BY DEF IsDatabase
  <2> QED
    BY <2>1 DEF Change
<1>2. e.products[d.audit[k].product] = d.products[d.audit[k].product]
  BY <1>1 DEF IsDatabase
<1> QED
  BY <1>2, OthersSame DEF SameVersion

(* What the ledger counts.                                                 *)
Used(d) == {p \in Products : InUse(d, p)}
Counted(d) == [p \in Products |-> InitialQuantity(d, p)]
Stock(d) == [p \in Products |->
                IF d.products[p] # NoProduct THEN d.products[p].stock ELSE 0]

(* The rows and the movements of the deleted products stay.                *)
Freezes(d, e) ==
    \A p \in Products :
        d.products[p] # NoProduct /\ d.products[p].deleted =>
            /\ e.products[p] = d.products[p]
            /\ MovementsOf(e, p) = MovementsOf(d, p)

LEMMA OneFreezes ==
    ASSUME NEW d, Good(d), NEW e, NEW p \in Products, NEW row,
           e.products = [d.products EXCEPT ![p] = row],
           d.products[p] = NoProduct \/ InUse(d, p),
           NEW first, NEW total, Moves(d, e, p, first, total)
    PROVE  Freezes(d, e)
<1> SUFFICES ASSUME NEW q \in Products,
                    d.products[q] # NoProduct, d.products[q].deleted
             PROVE  /\ e.products[q] = d.products[q]
                    /\ MovementsOf(e, q) = MovementsOf(d, q)
  BY DEF Freezes
<1>1. q # p
  BY DEF InUse
<1>2. IsDatabase(d)
  BY DEF Good
<1> QED
  BY <1>1, <1>2, OthersSame DEF IsDatabase

(* What the ledger counts of the other products is the same.               *)
LEMMA OneCounts ==
    ASSUME NEW d, Good(d), NEW e, NEW p \in Products, NEW row \in Product,
           e.products = [d.products EXCEPT ![p] = row],
           NEW first, NEW total, Moves(d, e, p, first, total)
    PROVE  /\ Counted(e) = [Counted(d) EXCEPT ![p] = first]
           /\ Stock(e) = [Stock(d) EXCEPT ![p] = row.stock]
           /\ Used(e) = IF row.deleted THEN Used(d) \ {p}
                        ELSE Used(d) \union {p}
<1>1. /\ IsDatabase(d)
      /\ e.products[p] = row
      /\ row # NoProduct
      /\ \A q \in Products \ {p} : e.products[q] = d.products[q]
  BY RowsAssumption DEF Good, IsDatabase
<1>2. /\ InitialQuantity(e, p) = first
      /\ \A q \in Products \ {p} : InitialQuantity(e, q) = InitialQuantity(d, q)
  BY <1>1, OthersSame DEF Moves
<1>3. Counted(e) = [Counted(d) EXCEPT ![p] = first]
  BY <1>2 DEF Counted
<1>4. Stock(e) = [Stock(d) EXCEPT ![p] = row.stock]
  BY <1>1 DEF Stock
<1>5. Used(e) = IF row.deleted THEN Used(d) \ {p} ELSE Used(d) \union {p}
  BY <1>1 DEF Used, InUse
<1> QED
  BY <1>3, <1>4, <1>5

(* What the ledger says of o, for the counts of d and e.                   *)
Applies(d, e, o) ==
    /\ d.requests[o.id] = NoOperation
    /\ e.requests = [d.requests EXCEPT ![o.id] = o]
    /\ \/ /\ o.action = "create"
          /\ Used(e) = Used(d) \union {o.id}
          /\ Counted(e) = [Counted(d) EXCEPT ![o.id] = o.amount]
          /\ Stock(e) = [Stock(d) EXCEPT ![o.id] = o.amount]
       \/ /\ o.action = "edit"
          /\ o.product \in Used(d)
          /\ Used(e) = Used(d)
          /\ Counted(e) = [Counted(d) EXCEPT ![o.product] = o.amount]
          /\ Stock(e) = [Stock(d) EXCEPT ![o.product] =
                            @ + o.amount - Counted(d)[o.product]]
       \/ /\ o.action = "purchase"
          /\ DOMAIN o.items \subseteq Used(d)
          /\ Used(e) = Used(d)
          /\ Counted(e) = Counted(d)
          /\ Stock(e) = [p \in Products |->
                            IF p \in DOMAIN o.items
                            THEN Stock(d)[p] + o.items[p] ELSE Stock(d)[p]]
       \/ /\ o.action = "withdrawal"
          /\ o.product \in Used(d)
          /\ Used(e) = Used(d)
          /\ Counted(e) = Counted(d)
          /\ Stock(e) = [Stock(d) EXCEPT ![o.product] = @ - o.amount]
       \/ /\ o.action = "delete"
          /\ o.product \in Used(d)
          /\ Used(e) = Used(d) \ {o.product}
          /\ Counted(e) = Counted(d)
          /\ Stock(e) = Stock(d)

(* Everything an operation does that some property speaks of.              *)
Does(d, e, o) == Good(e) /\ Freezes(d, e) /\ Applies(d, e, o)

LEMMA CreateDoes ==
    ASSUME NEW d, Good(d), NEW e, IsDatabase(e), NEW o,
           Performs(d, e, o), o.action = "create"
    PROVE  Does(d, e, o)
<1> DEFINE p == o.id
           row == [name |-> o.name, stock |-> o.amount, deleted |-> FALSE]
<1>1. /\ o \in Operations /\ Stores(d, e, o) /\ o.action # "purchase"
      /\ e.products = [d.products EXCEPT ![p] = row]
      /\ IF o.amount > 0 THEN Inserts(d, e, Initial(p, o.amount))
         ELSE Keeps(d, e)
      /\ e.audit = d.audit
  BY DEF Performs, Stores, ProductsChange, MovementsChange, AuditChange
<1>2. /\ IsDatabase(d) /\ OneInitial(d)
      /\ d.products \in [Products -> Product \union {NoProduct}]
      /\ p \in Products
      /\ o.amount \in 0..Limit
      /\ row \in Product
      /\ row.stock = o.amount /\ row.deleted = FALSE
  BY <1>1, OperationFields, OperationsAssumption
     DEF Good, IsDatabase, Products, Product
<1>3. d.products[p] = NoProduct
  BY <1>1, <1>2 DEF Good, Referenced, Stores
<1>4. \A kinds : Lines(d, p, kinds) = {}
  BY <1>3 DEF Good, Referenced, Lines
<1>5. \A kinds : Moved(d, p, kinds) = 0
  BY <1>4, MovedSum, SumEmpty
<1>6. Moves(d, e, p, o.amount, o.amount)
  <2>1. CASE o.amount > 0
    <3> DEFINE m == Initial(p, o.amount)
    <3>1. /\ m \in Movement
          /\ m.product = p /\ m.kind = "initial" /\ m.purchase = NoPurchase
          /\ m.quantity = o.amount
      BY <1>2, <2>1, OperationsAssumption DEF Initial, Movement
    <3>2. Inserts(d, e, m)
      BY <1>1, <2>1
    <3> HIDE DEF m
    <3>3. o.amount \in Nat \ {0}
      BY <1>2, <2>1, OperationsAssumption
    <3>4. Moves(d, e, p, InitialQuantity(d, p) + o.amount,
                Moved(d, p, Kinds) + o.amount)
      BY <1>2, <1>4, <3>1, <3>2, <3>3, InsertMoves
    <3>5. InitialQuantity(d, p) = 0 /\ Moved(d, p, Kinds) = 0
      BY <1>5 DEF InitialQuantity
    <3>6. 0 + o.amount = o.amount
      BY <3>3
    <3> QED
      BY <3>4, <3>5, <3>6
  <2>2. CASE ~ (o.amount > 0)
    <3>1. o.amount = 0
      BY <1>2, <2>2, OperationsAssumption
    <3>2. Moves(d, e, p, InitialQuantity(d, p), Moved(d, p, Kinds))
      BY <1>1, <1>2, <2>2, KeepsMoves
    <3> QED
      BY <1>5, <3>1, <3>2 DEF InitialQuantity
  <2> QED
    BY <2>1, <2>2
<1> HIDE DEF row
<1>7. \A k \in DOMAIN d.audit : /\ d.products[d.audit[k].product] # NoProduct
                                /\ d.audit[k].product # p
                                /\ d.audit[k].product \in Products
  <2>1. \A k \in DOMAIN d.audit : d.audit[k] \in Change
    BY <1>2 DEF IsDatabase
  <2> QED
    BY <1>3, <2>1 DEF Good, Referenced, Change
<1>8. \A k \in DOMAIN e.audit : e.products[e.audit[k].product] # NoProduct
  BY <1>1, <1>2, <1>7
<1>9. Chain(e)
  <2>1. \A k \in DOMAIN d.audit : SameVersion(d, e, d.audit[k].product)
    BY <1>1, <1>2, <1>6, <1>7, OthersVersion
  <2> QED
    BY <1>1, <2>1, ChainKept DEF Good
<1>10. Good(e)
  <2>1. Moves(d, e, p, o.amount, row.stock) /\ row.stock \in 0..Limit
    BY <1>2, <1>6
  <2> QED
    BY <1>1, <1>2, <1>8, <1>9, <2>1, OneProduct
<1>11. Freezes(d, e)
  BY <1>1, <1>2, <1>3, <1>6, OneFreezes
<1>12. Applies(d, e, o)
  <2>1. /\ Counted(e) = [Counted(d) EXCEPT ![p] = o.amount]
        /\ Stock(e) = [Stock(d) EXCEPT ![p] = o.amount]
        /\ Used(e) = Used(d) \union {p}
    BY <1>1, <1>2, <1>6, OneCounts
  <2> QED
    BY <1>1, <2>1 DEF Applies, Stores
<1> QED
  BY <1>10, <1>11, <1>12 DEF Does

(* The audit after an operation on p that adds c to it.                    *)
LEMMA AuditGrows ==
    ASSUME NEW d, Good(d), NEW e, NEW p \in Products, NEW row \in Product,
           d.products[p] # NoProduct,
           e.products = [d.products EXCEPT ![p] = row],
           NEW first, NEW total, Moves(d, e, p, first, total),
           NEW c, e.audit = Append(d.audit, c),
           c.product = p, c.before = VersionOf(d, p),
           Matches(VersionOf(e, p), c.after)
    PROVE  /\ \A k \in DOMAIN e.audit : e.products[e.audit[k].product] # NoProduct
           /\ Chain(e)
<1> DEFINE n == Len(d.audit)
<1>1. IsDatabase(d) /\ d.audit \in Seq(Change)
  BY DEF Good, IsDatabase
<1>2. Chain(e)
  <2>1. \A k \in DOMAIN d.audit : d.audit[k].product # c.product =>
            SameVersion(d, e, d.audit[k].product)
    BY <1>1, OthersVersion
  <2> QED
    BY <1>1, <2>1, ChainGrown DEF Good
<1>3. /\ DOMAIN e.audit = DOMAIN d.audit \union {n + 1}
      /\ e.audit[n + 1] = c
      /\ \A k \in DOMAIN d.audit : e.audit[k] = d.audit[k] /\ d.audit[k] \in Change
  BY <1>1
<1>4. \A q \in Products : d.products[q] # NoProduct => e.products[q] # NoProduct
  BY <1>1, RowsAssumption DEF IsDatabase
<1>5. \A k \in DOMAIN d.audit : /\ d.audit[k].product \in Products
                                /\ d.products[d.audit[k].product] # NoProduct
  BY <1>3 DEF Good, Referenced, Change
<1> HIDE DEF n
<1>6. \A k \in DOMAIN e.audit : e.products[e.audit[k].product] # NoProduct
  BY <1>3, <1>4, <1>5
<1> QED
  BY <1>2, <1>6

LEMMA EditDoes ==
    ASSUME NEW d, Good(d), NEW e, IsDatabase(e), NEW o,
           Performs(d, e, o), o.action = "edit"
    PROVE  Does(d, e, o)
<1> DEFINE p == o.product
           row == [name |-> o.name, stock |-> NewStock(d, o), deleted |-> FALSE]
           c == [product |-> p, action |-> "edit",
                 before |-> VersionOf(d, p),
                 after |-> [name |-> o.name, initial |-> o.amount,
                            stock |-> NewStock(d, o), deleted |-> FALSE]]
<1>1. /\ o \in Operations /\ Stores(d, e, o) /\ o.action # "purchase"
      /\ InUse(d, p) /\ NewStock(d, o) \in 0..Limit
      /\ e.products = [d.products EXCEPT ![p] = row]
      /\ Corrects(d, e, p, o.amount)
      /\ e.audit = Append(d.audit, c)
  BY DEF Performs, Stores, ProductsChange, MovementsChange, AuditChange
<1>2. /\ IsDatabase(d) /\ OneInitial(d) /\ Referenced(d)
      /\ p \in Products
      /\ d.products[p] # NoProduct
      /\ o.amount \in Nat
      /\ row \in Product
      /\ row.stock = NewStock(d, o) /\ row.deleted = FALSE /\ row.name = o.name
  BY <1>1, OperationFields, OperationsAssumption DEF Good, InUse, Product
<1>3. e.products[p] = row
  BY <1>1, <1>2 DEF IsDatabase
<1>4. Moves(d, e, p, o.amount, NewStock(d, o))
  <2>1. Moves(d, e, p, o.amount,
              Moved(d, p, Kinds) + o.amount - InitialQuantity(d, p))
    BY <1>1, <1>2, CorrectMoves
  <2>2. d.products[p].stock = Moved(d, p, Kinds)
    BY <1>2 DEF Good, Balanced, Kinds
  <2> QED
    BY <2>1, <2>2 DEF NewStock
<1>5. Matches(VersionOf(e, p), c.after)
  <2>1. InitialQuantity(e, p) = o.amount
    BY <1>4 DEF Moves
  <2>2. VersionOf(e, p) = [name |-> o.name, initial |-> o.amount,
                           stock |-> NewStock(d, o), deleted |-> FALSE]
    BY <1>2, <1>3, <2>1 DEF VersionOf
  <2> QED
    BY <2>2 DEF Matches
<1> HIDE DEF row
<1>6. /\ c.product = p /\ c.before = VersionOf(d, p)
      /\ e.audit = Append(d.audit, c)
  BY <1>1
<1> HIDE DEF c
<1>7. /\ \A k \in DOMAIN e.audit : e.products[e.audit[k].product] # NoProduct
      /\ Chain(e)
  BY <1>1, <1>2, <1>4, <1>5, <1>6, AuditGrows
<1>8. Good(e)
  <2>1. Moves(d, e, p, o.amount, row.stock) /\ row.stock \in 0..Limit
    BY <1>1, <1>2, <1>4
  <2> QED
    BY <1>1, <1>2, <1>7, <2>1, OneProduct
<1>9. Freezes(d, e)
  BY <1>1, <1>2, <1>4, OneFreezes
<1>10. Applies(d, e, o)
  <2>1. /\ Counted(e) = [Counted(d) EXCEPT ![p] = o.amount]
        /\ Stock(e) = [Stock(d) EXCEPT ![p] = NewStock(d, o)]
        /\ Used(e) = Used(d) \union {p}
    BY <1>1, <1>2, <1>4, OneCounts
  <2>2. p \in Used(d)
    BY <1>1, <1>2 DEF Used
  <2>3. /\ Stock(d)[p] = d.products[p].stock
        /\ Counted(d)[p] = InitialQuantity(d, p)
    BY <1>2 DEF Stock, Counted
  <2>4. NewStock(d, o) = Stock(d)[p] + o.amount - Counted(d)[p]
    BY <2>3 DEF NewStock
  <2>5. Stock(e) = [Stock(d) EXCEPT ![p] = @ + o.amount - Counted(d)[p]]
    BY <2>1, <2>4
  <2>6. Used(e) = Used(d)
    BY <2>1, <2>2
  <2> QED
    BY <1>1, <2>1, <2>2, <2>5, <2>6 DEF Applies, Stores
<1> QED
  BY <1>8, <1>9, <1>10 DEF Does

LEMMA DeleteDoes ==
    ASSUME NEW d, Good(d), NEW e, IsDatabase(e), NEW o,
           Performs(d, e, o), o.action = "delete"
    PROVE  Does(d, e, o)
<1> DEFINE p == o.product
           row == [d.products[p] EXCEPT !.deleted = TRUE]
           c == [product |-> p, action |-> "delete",
                 before |-> VersionOf(d, p),
                 after |-> [VersionOf(d, p) EXCEPT !.deleted = TRUE]]
<1>1. /\ o \in Operations /\ Stores(d, e, o) /\ o.action # "purchase"
      /\ InUse(d, p)
      /\ e.products = [d.products EXCEPT ![p].deleted = TRUE]
      /\ Keeps(d, e)
      /\ e.audit = Append(d.audit, c)
  BY DEF Performs, Stores, ProductsChange, MovementsChange, AuditChange
<1>2. /\ IsDatabase(d) /\ OneInitial(d)
      /\ p \in Products
      /\ d.products[p] # NoProduct
      /\ d.products[p] \in Product
      /\ d.products[p].stock \in 0..Limit
      /\ d.products[p].stock = Moved(d, p, Kinds)
  BY <1>1, OperationFields DEF Good, IsDatabase, Bounded, Balanced, InUse, Kinds
<1>3. /\ row \in Product
      /\ row.stock = d.products[p].stock /\ row.deleted = TRUE
      /\ row.name = d.products[p].name
      /\ e.products = [d.products EXCEPT ![p] = row]
  BY <1>1, <1>2 DEF Product, IsDatabase
<1>4. e.products[p] = row
  BY <1>2, <1>3 DEF IsDatabase
<1> HIDE DEF row
<1>5. Moves(d, e, p, InitialQuantity(d, p), row.stock)
  <2>1. Moves(d, e, p, InitialQuantity(d, p), Moved(d, p, Kinds))
    BY <1>1, <1>2, KeepsMoves
  <2> QED
    BY <1>2, <1>3, <2>1
<1>6. Matches(VersionOf(e, p), c.after)
  <2>1. InitialQuantity(e, p) = InitialQuantity(d, p)
    BY <1>5 DEF Moves
  <2> DEFINE after == [name |-> d.products[p].name,
                       initial |-> InitialQuantity(d, p),
                       stock |-> d.products[p].stock, deleted |-> TRUE]
  <2>2. VersionOf(e, p) = after
    BY <1>3, <1>4, <2>1 DEF VersionOf
  <2>3. c.after = after
    BY DEF VersionOf
  <2>4. [after EXCEPT !.stock = after.stock] = after
    OBVIOUS
  <2> HIDE DEF after
  <2> QED
    BY <2>2, <2>3, <2>4 DEF Matches
<1>7. /\ c.product = p /\ c.before = VersionOf(d, p)
      /\ e.audit = Append(d.audit, c)
  BY <1>1
<1> HIDE DEF c
<1>8. /\ \A k \in DOMAIN e.audit : e.products[e.audit[k].product] # NoProduct
      /\ Chain(e)
  BY <1>2, <1>3, <1>5, <1>6, <1>7, AuditGrows
<1>9. Good(e)
  <2>1. row.stock \in 0..Limit
    BY <1>2, <1>3
  <2> QED
    BY <1>1, <1>2, <1>3, <1>5, <1>8, <2>1, OneProduct
<1>10. Freezes(d, e)
  BY <1>1, <1>2, <1>3, <1>5, OneFreezes
<1>11. Applies(d, e, o)
  <2>1. /\ Counted(e) = [Counted(d) EXCEPT ![p] = InitialQuantity(d, p)]
        /\ Stock(e) = [Stock(d) EXCEPT ![p] = row.stock]
        /\ Used(e) = IF row.deleted THEN Used(d) \ {p} ELSE Used(d) \union {p}
    BY <1>1, <1>2, <1>3, <1>5, OneCounts
  <2>2. p \in Used(d)
    BY <1>1, <1>2 DEF Used
  <2>3. Counted(e) = Counted(d) /\ Stock(e) = Stock(d) /\ Used(e) = Used(d) \ {p}
    BY <1>2, <1>3, <2>1 DEF Counted, Stock
  <2> QED
    BY <1>1, <2>2, <2>3 DEF Applies, Stores
<1> QED
  BY <1>9, <1>10, <1>11 DEF Does

LEMMA WithdrawalDoes ==
    ASSUME NEW d, Good(d), NEW e, IsDatabase(e), NEW o,
           Performs(d, e, o), o.action = "withdrawal"
    PROVE  Does(d, e, o)
<1> DEFINE p == o.product
           row == [d.products[p] EXCEPT !.stock = d.products[p].stock - o.amount]
           m == [product |-> p, purchase |-> NoPurchase,
                 kind |-> "withdrawal", quantity |-> -o.amount]
<1>1. /\ o \in Operations /\ Stores(d, e, o) /\ o.action # "purchase"
      /\ InUse(d, p) /\ d.products[p].stock >= o.amount
      /\ e.products = [d.products EXCEPT ![p].stock = @ - o.amount]
      /\ Inserts(d, e, m)
      /\ e.audit = d.audit
  BY DEF Performs, Stores, ProductsChange, MovementsChange, AuditChange
<1>2. /\ IsDatabase(d) /\ OneInitial(d)
      /\ p \in Products
      /\ o.amount \in 1..MaxQuantity
      /\ d.products[p] # NoProduct
      /\ d.products[p] \in Product
      /\ d.products[p].stock \in 0..Limit
      /\ d.products[p].stock = Moved(d, p, Kinds)
  BY <1>1, OperationFields DEF Good, IsDatabase, Bounded, Balanced, InUse, Kinds
<1>3. d.products[p].stock - o.amount \in 0..Limit /\ -o.amount \in Int
      /\ d.products[p].stock \in Int
  BY <1>1, <1>2, OperationsAssumption
<1>4. /\ row \in Product
      /\ row.stock = d.products[p].stock - o.amount
      /\ row.deleted = d.products[p].deleted
      /\ row.name = d.products[p].name
      /\ e.products = [d.products EXCEPT ![p] = row]
  <2>1. /\ row \in Product
        /\ row.stock = d.products[p].stock - o.amount
        /\ row.deleted = d.products[p].deleted
        /\ row.name = d.products[p].name
    BY <1>2, <1>3 DEF Product
  <2>2. e.products = [d.products EXCEPT ![p] = row]
    BY <1>1
  <2> QED
    BY <2>1, <2>2
<1>5. e.products[p] = row
  BY <1>2, <1>4 DEF IsDatabase
<1> HIDE DEF row
<1>6. /\ m \in Movement
      /\ m.product = p /\ m.kind = "withdrawal" /\ m.purchase = NoPurchase
      /\ m.quantity = -o.amount
  BY <1>2, <1>3 DEF Movement
<1> HIDE DEF m
<1>7. Moves(d, e, p, InitialQuantity(d, p), row.stock)
  <2>1. Moves(d, e, p, InitialQuantity(d, p) + 0,
              Moved(d, p, Kinds) + m.quantity)
    BY <1>1, <1>2, <1>6, InsertMoves
  <2>2. InitialQuantity(d, p) + 0 = InitialQuantity(d, p)
    BY <1>2, MovedType DEF InitialQuantity
  <2>3. Moved(d, p, Kinds) + m.quantity = row.stock
    <3>1. d.products[p].stock + (-o.amount) = d.products[p].stock - o.amount
      BY <1>3, <1>2
    <3> QED
      BY <1>2, <1>4, <1>6, <3>1
  <2> QED
    BY <2>1, <2>2, <2>3
<1>8. \A k \in DOMAIN d.audit : /\ d.products[d.audit[k].product] # NoProduct
                                /\ d.audit[k].product \in Products
  <2>1. \A k \in DOMAIN d.audit : d.audit[k] \in Change
    BY <1>2 DEF IsDatabase
  <2> QED
    BY <2>1 DEF Good, Referenced, Change
<1>9. \A k \in DOMAIN e.audit : e.products[e.audit[k].product] # NoProduct
  BY <1>1, <1>2, <1>4, <1>8, RowsAssumption DEF IsDatabase
<1>10. Chain(e)
  <2>1. SameVersion(d, e, p)
    BY <1>4, <1>5, <1>7 DEF SameVersion, Moves
  <2>2. \A k \in DOMAIN d.audit : SameVersion(d, e, d.audit[k].product)
    BY <1>2, <1>4, <1>7, <2>1, OthersVersion
  <2> QED
    BY <1>1, <2>2, ChainKept DEF Good
<1>11. Good(e)
  <2>1. row.stock \in 0..Limit
    BY <1>3, <1>4
  <2> QED
    BY <1>1, <1>2, <1>4, <1>7, <1>9, <1>10, <2>1, OneProduct
<1>12. Freezes(d, e)
  BY <1>1, <1>2, <1>4, <1>7, OneFreezes
<1>13. Applies(d, e, o)
  <2>1. /\ Counted(e) = [Counted(d) EXCEPT ![p] = InitialQuantity(d, p)]
        /\ Stock(e) = [Stock(d) EXCEPT ![p] = row.stock]
        /\ Used(e) = IF row.deleted THEN Used(d) \ {p} ELSE Used(d) \union {p}
    <3>1. /\ p \in Products /\ row \in Product
          /\ e.products = [d.products EXCEPT ![p] = row]
      BY <1>2, <1>4
    <3> QED
      BY <1>7, <3>1, OneCounts
  <2>2. p \in Used(d) /\ row.deleted = FALSE
    BY <1>1, <1>2, <1>4 DEF Used, InUse, Product
  <2>3. Counted(e) = Counted(d) /\ Used(e) = Used(d)
    BY <1>2, <2>1, <2>2 DEF Counted
  <2>4. Stock(d)[p] = d.products[p].stock
    BY <1>2 DEF Stock
  <2>5. Stock(e) = [Stock(d) EXCEPT ![p] = @ - o.amount]
    BY <1>4, <2>1, <2>4
  <2> QED
    BY <1>1, <2>2, <2>3, <2>5 DEF Applies, Stores
<1> QED
  BY <1>11, <1>12, <1>13 DEF Does

-----------------------------------------------------------------------------
(* A purchase, as a whole *)

LEMMA PurchaseRows ==
    ASSUME NEW d, NEW e, NEW o, NEW done, NEW recorded,
           PurchaseChange(d, e, o, done, recorded)
    PROVE  LET new == DOMAIN e.movements \ DOMAIN d.movements IN
           /\ DOMAIN d.movements \subseteq DOMAIN e.movements
           /\ \A k \in DOMAIN d.movements : e.movements[k] = d.movements[k]
           /\ \A k \in new :
                  /\ e.movements[k].product \in recorded
                  /\ e.movements[k].purchase = o.id
                  /\ e.movements[k].kind = "purchase"
                  /\ e.movements[k].quantity = o.items[e.movements[k].product]
                  /\ \A j \in new :
                         e.movements[j].product = e.movements[k].product => j = k
           /\ \A q \in recorded : \E k \in new : e.movements[k].product = q
<1> DEFINE new == DOMAIN e.movements \ DOMAIN d.movements
<1>1. ASSUME NEW k \in new
      PROVE  LET p == e.movements[k].product IN
             /\ p \in recorded
             /\ e.movements[k] = [product |-> p, purchase |-> o.id,
                                  kind |-> "purchase", quantity |-> o.items[p]]
             /\ \A j \in new : e.movements[j].product = p => j = k
  BY DEF PurchaseChange
<1>2. ASSUME NEW k \in new
      PROVE  /\ e.movements[k].purchase = o.id
             /\ e.movements[k].kind = "purchase"
             /\ e.movements[k].quantity = o.items[e.movements[k].product]
  <2> DEFINE p == e.movements[k].product
  <2>1. e.movements[k] = [product |-> p, purchase |-> o.id,
                          kind |-> "purchase", quantity |-> o.items[p]]
    BY <1>1
  <2> HIDE DEF p
  <2>2. /\ e.movements[k].purchase = o.id
        /\ e.movements[k].kind = "purchase"
        /\ e.movements[k].quantity = o.items[p]
    BY <2>1
  <2> QED
    BY <2>2 DEF p
<1>3. /\ DOMAIN d.movements \subseteq DOMAIN e.movements
      /\ \A k \in DOMAIN d.movements : e.movements[k] = d.movements[k]
      /\ \A q \in recorded : \E k \in new : e.movements[k].product = q
  BY DEF PurchaseChange
<1> QED
  BY <1>1, <1>2, <1>3

LEMMA PurchaseMoves ==
    ASSUME NEW d, Good(d), NEW e, NEW o \in Operations, o.action = "purchase",
           PurchaseChange(d, e, o, DOMAIN o.items, DOMAIN o.items)
    PROVE  \A p \in Products :
               /\ InitialQuantity(e, p) = InitialQuantity(d, p)
               /\ Moved(e, p, Kinds) =
                      IF p \in DOMAIN o.items
                      THEN Moved(d, p, Kinds) + o.items[p]
                      ELSE Moved(d, p, Kinds)
<1> DEFINE new == DOMAIN e.movements \ DOMAIN d.movements
<1> SUFFICES ASSUME NEW p \in Products
             PROVE  /\ InitialQuantity(e, p) = InitialQuantity(d, p)
                    /\ Moved(e, p, Kinds) =
                           IF p \in DOMAIN o.items
                           THEN Moved(d, p, Kinds) + o.items[p]
                           ELSE Moved(d, p, Kinds)
  OBVIOUS
<1>1. /\ IsDatabase(d)
      /\ DOMAIN d.movements \subseteq DOMAIN e.movements
      /\ \A k \in DOMAIN d.movements : e.movements[k] = d.movements[k]
      /\ \A k \in new :
             /\ e.movements[k].product \in DOMAIN o.items
             /\ e.movements[k].kind = "purchase"
             /\ e.movements[k].quantity = o.items[e.movements[k].product]
             /\ \A j \in new :
                    e.movements[j].product = e.movements[k].product => j = k
      /\ \A q \in DOMAIN o.items : \E k \in new : e.movements[k].product = q
  <2>1. IsDatabase(d)
    BY DEF Good
  <2> QED
    BY <2>1, PurchaseRows
<1>2. Lines(e, p, {"initial"}) = Lines(d, p, {"initial"})
  BY <1>1 DEF Lines
<1>3. InitialQuantity(e, p) = InitialQuantity(d, p)
  <2>1. \A k \in Lines(d, p, {"initial"}) :
            e.movements[k].quantity = d.movements[k].quantity
    BY <1>1 DEF Lines
  <2> QED
    BY <1>1, <1>2, <2>1, LinesSame DEF InitialQuantity
<1>4. CASE p \in DOMAIN o.items
  <2>1. PICK k \in new : e.movements[k].product = p
    BY <1>1, <1>4
  <2>2. /\ k \notin DOMAIN d.movements
        /\ e.movements[k].quantity = o.items[p]
        /\ o.items[p] \in Int
    BY <1>1, <1>4, <2>1, OperationFields
  <2>3. Lines(e, p, Kinds) = Lines(d, p, Kinds) \union {k}
    BY <1>1, <2>1 DEF Lines, Kinds
  <2>4. \A j \in DOMAIN d.movements :
            e.movements[j].quantity = d.movements[j].quantity
    BY <1>1
  <2>5. Moved(e, p, Kinds) = Moved(d, p, Kinds) + e.movements[k].quantity
    BY <1>1, <2>2, <2>3, <2>4, LineAdded
  <2> QED
    BY <1>3, <1>4, <2>2, <2>5
<1>5. CASE p \notin DOMAIN o.items
  <2>1. Lines(e, p, Kinds) = Lines(d, p, Kinds)
    BY <1>1, <1>5 DEF Lines
  <2>2. \A k \in Lines(d, p, Kinds) :
            e.movements[k].quantity = d.movements[k].quantity
    BY <1>1 DEF Lines
  <2>3. Moved(e, p, Kinds) = Moved(d, p, Kinds)
    BY <1>1, <2>1, <2>2, LinesSame
  <2> QED
    BY <1>3, <1>5, <2>3
<1> QED
  BY <1>4, <1>5

LEMMA PurchaseDoes ==
    ASSUME NEW d, Good(d), NEW e, IsDatabase(e), NEW o,
           Performs(d, e, o), o.action = "purchase"
    PROVE  Does(d, e, o)
<1> DEFINE I == DOMAIN o.items
           new == DOMAIN e.movements \ DOMAIN d.movements
<1>1. /\ o \in Operations /\ Stores(d, e, o)
      /\ PurchaseChange(d, e, o, I, I)
      /\ e.audit = d.audit
      /\ e.requests = [d.requests EXCEPT ![o.id] = o]
      /\ e.purchases = d.purchases \union {o.id}
      /\ d.requests[o.id] = NoOperation
  BY DEF Performs, Stores, PurchaseChange
<1>2. /\ IsDatabase(d)
      /\ d.products \in [Products -> Product \union {NoProduct}]
      /\ d.requests \in [RequestIds -> Operations \union {NoOperation}]
      /\ d.purchases \subseteq RequestIds
      /\ I \subseteq Products
      /\ \A p \in I : o.items[p] \in 1..MaxQuantity
      /\ o.id \in RequestIds /\ o # NoOperation /\ o.id # NoPurchase
  BY <1>1, OperationFields, RowsAssumption DEF Good, IsDatabase
<1>3. \A p \in I : InUse(d, p) /\ d.products[p].stock <= Limit - o.items[p]
  BY <1>1 DEF PurchaseChange
<1>4. /\ \A p \in I : e.products[p] = [d.products[p] EXCEPT
                                          !.stock = @ + o.items[p]]
      /\ \A p \in Products \ I : e.products[p] = d.products[p]
  BY <1>1, <1>2 DEF PurchaseChange
<1>5. \A p \in Products : d.products[p] # NoProduct =>
          /\ d.products[p] \in Product
          /\ d.products[p].stock \in 0..Limit
          /\ d.products[p].stock = Moved(d, p, Kinds)
  BY <1>2 DEF Good, Bounded, Balanced, Kinds
<1>6. ASSUME NEW p \in I
      PROVE  /\ e.products[p] # NoProduct
             /\ e.products[p].stock = d.products[p].stock + o.items[p]
             /\ e.products[p].stock \in 0..Limit
             /\ e.products[p].name = d.products[p].name
             /\ e.products[p].deleted = d.products[p].deleted
             /\ d.products[p] # NoProduct
             /\ ~d.products[p].deleted
  <2>1. /\ d.products[p] # NoProduct /\ ~d.products[p].deleted
        /\ d.products[p] \in Product
        /\ d.products[p].stock \in 0..Limit
    BY <1>2, <1>3, <1>5 DEF InUse
  <2>2. /\ d.products[p].stock + o.items[p] \in 0..Limit
    BY <1>2, <1>3, <2>1, OperationsAssumption
  <2>3. /\ e.products[p] \in Product
        /\ e.products[p].stock = d.products[p].stock + o.items[p]
        /\ e.products[p].name = d.products[p].name
        /\ e.products[p].deleted = d.products[p].deleted
    <3> DEFINE row == d.products[p]
               stock == row.stock + o.items[p]
    <3>1. e.products[p] = [row EXCEPT !.stock = stock]
      BY <1>4
    <3>2. row \in Product /\ stock \in Int
      BY <2>1, <2>2, OperationsAssumption
    <3> HIDE DEF row, stock
    <3>3. /\ e.products[p] \in Product
          /\ e.products[p].stock = stock
          /\ e.products[p].name = row.name
          /\ e.products[p].deleted = row.deleted
      BY <3>1, <3>2 DEF Product
    <3> QED
      BY <3>3 DEF row, stock
  <2> QED
    BY <2>1, <2>2, <2>3, RowsAssumption
<1>7. \A p \in Products : (e.products[p] # NoProduct) <=> (d.products[p] # NoProduct)
  BY <1>4, <1>6
<1>8. /\ DOMAIN d.movements \subseteq DOMAIN e.movements
      /\ \A k \in DOMAIN d.movements : /\ e.movements[k] = d.movements[k]
                                       /\ d.movements[k].product \in Products
      /\ \A k \in new :
             /\ e.movements[k].product \in I
             /\ e.movements[k].purchase = o.id
             /\ e.movements[k].kind = "purchase"
             /\ \A j \in new :
                    e.movements[j].product = e.movements[k].product => j = k
      /\ \A q \in I : \E k \in new : e.movements[k].product = q
  <2>1. \A k \in DOMAIN d.movements : d.movements[k].product \in Products
    BY <1>2, MovementFields DEF IsDatabase, IsMovementTable
  <2> QED
    BY <1>1, <2>1, PurchaseRows
<1>9. \A p \in Products :
          /\ InitialQuantity(e, p) = InitialQuantity(d, p)
          /\ Moved(e, p, Kinds) = IF p \in I THEN Moved(d, p, Kinds) + o.items[p]
                                  ELSE Moved(d, p, Kinds)
  BY <1>1, PurchaseMoves
<1>10. o.id \notin d.purchases
  BY <1>1 DEF Good, Referenced
<1> HIDE DEF I, new
<1>11. Bounded(e)
  BY <1>4, <1>5, <1>6 DEF Bounded
<1>12. Balanced(e)
  <2> SUFFICES ASSUME NEW p \in Products, e.products[p] # NoProduct
               PROVE  e.products[p].stock = Moved(e, p, Kinds)
    BY DEF Balanced, Kinds
  <2>1. CASE p \in I
    BY <1>5, <1>6, <1>9, <2>1
  <2>2. CASE p \notin I
    BY <1>4, <1>5, <1>9, <2>2
  <2> QED
    BY <2>1, <2>2
<1>13. OneInitial(e)
  BY <1>8 DEF OneInitial, Good, new
<1>14. Referenced(e)
  <2>1. ASSUME NEW k \in DOMAIN e.movements
        PROVE  /\ e.products[e.movements[k].product] # NoProduct
               /\ e.movements[k].purchase \in e.purchases \union {NoPurchase}
               /\ e.movements[k].kind = "purchase" <=>
                      e.movements[k].purchase # NoPurchase
    <3>1. CASE k \in DOMAIN d.movements
      BY <1>1, <1>7, <1>8, <3>1 DEF Good, Referenced
    <3>2. CASE k \in new
      BY <1>1, <1>2, <1>6, <1>8, <3>2
    <3> QED
      BY <3>1, <3>2 DEF new
  <2>2. ASSUME NEW q \in Products, e.products[q] # NoProduct
        PROVE  e.requests[q] # NoOperation
    BY <1>1, <1>2, <1>7, <2>2 DEF Good, Referenced, Products
  <2>3. ASSUME NEW id \in e.purchases
        PROVE  e.requests[id] # NoOperation /\ e.requests[id].action = "purchase"
    BY <1>1, <1>2, <2>3 DEF Good, Referenced
  <2>4. \A k \in DOMAIN e.audit : e.products[e.audit[k].product] # NoProduct
    <3>1. \A k \in DOMAIN d.audit : d.audit[k] \in Change
      BY <1>2 DEF IsDatabase
    <3>2. \A k \in DOMAIN d.audit : d.audit[k].product \in Products
      BY <3>1 DEF Change
    <3> QED
      BY <1>1, <1>7, <3>2 DEF Good, Referenced
  <2> QED
    BY <2>1, <2>2, <2>3, <2>4 DEF Referenced
<1>15. WholePurchases(e)
  <2>1. ASSUME NEW id \in d.purchases, NEW q \in Products
        PROVE  /\ e.requests[id] = d.requests[id]
               /\ LinesOf(e, id, q) = LinesOf(d, id, q)
    <3>1. id # o.id /\ id \in RequestIds
      BY <1>2, <1>10
    <3>2. e.requests[id] = d.requests[id]
      BY <1>1, <1>2, <3>1
    <3>3. LinesOf(e, id, q) = LinesOf(d, id, q)
      BY <1>8, <3>1 DEF LinesOf, new
    <3> QED
      BY <3>2, <3>3
  <2>2. e.requests[o.id].items = o.items
    BY <1>1, <1>2
  <2>3. \A k \in DOMAIN d.movements : e.movements[k].purchase # o.id
    BY <1>2, <1>8, <1>10 DEF Good, Referenced
  <2>4. ASSUME NEW q \in I
        PROVE  \E k \in DOMAIN e.movements : LinesOf(e, o.id, q) = {k}
    <3>1. PICK k \in new : e.movements[k].product = q
      BY <1>8
    <3>2. LinesOf(e, o.id, q) = {k}
      BY <1>8, <2>3, <3>1 DEF LinesOf, new
    <3> QED
      BY <3>1, <3>2 DEF new
  <2>5. ASSUME NEW q \in Products, q \notin I
        PROVE  LinesOf(e, o.id, q) = {}
    BY <1>8, <2>3, <2>5 DEF LinesOf, new
  <2> SUFFICES ASSUME NEW id \in e.purchases, NEW q \in Products
               PROVE  IF q \in DOMAIN e.requests[id].items
                      THEN \E k \in DOMAIN e.movements : LinesOf(e, id, q) = {k}
                      ELSE LinesOf(e, id, q) = {}
    BY DEF WholePurchases
  <2>6. CASE id = o.id
    BY <2>2, <2>4, <2>5, <2>6 DEF I
  <2>7. CASE id \in d.purchases
    <3>1. IF q \in DOMAIN d.requests[id].items
          THEN \E k \in DOMAIN d.movements : LinesOf(d, id, q) = {k}
          ELSE LinesOf(d, id, q) = {}
      BY <2>7 DEF Good, WholePurchases
    <3> QED
      BY <1>8, <2>1, <2>7, <3>1
  <2> QED
    BY <1>1, <2>6, <2>7
<1>16. Chain(e)
  <2>1. \A k \in DOMAIN d.audit : d.audit[k] \in Change
    BY <1>2 DEF IsDatabase
  <2>2. \A k \in DOMAIN d.audit : d.audit[k].product \in Products
    BY <2>1 DEF Change
  <2>3. \A q \in Products : SameVersion(d, e, q)
    BY <1>4, <1>6, <1>9 DEF SameVersion
  <2> QED
    BY <1>1, <2>2, <2>3, ChainKept DEF Good
<1>17. Good(e)
  BY <1>11, <1>12, <1>13, <1>14, <1>15, <1>16 DEF Good
<1>18. Freezes(d, e)
  <2> SUFFICES ASSUME NEW p \in Products,
                      d.products[p] # NoProduct, d.products[p].deleted
               PROVE  /\ e.products[p] = d.products[p]
                      /\ MovementsOf(e, p) = MovementsOf(d, p)
    BY DEF Freezes
  <2>1. p \notin I
    BY <1>6
  <2> DEFINE ids == {k \in DOMAIN d.movements : d.movements[k].product = p}
  <2>2. {k \in DOMAIN e.movements : e.movements[k].product = p} = ids
    BY <1>8, <2>1 DEF new
  <2>3. \A k \in ids : e.movements[k] = d.movements[k]
    BY <1>8
  <2> QED
    BY <1>4, <2>1, <2>2, <2>3 DEF MovementsOf
<1>19. Applies(d, e, o)
  <2>1. I \subseteq Used(d)
    BY <1>2, <1>3 DEF Used
  <2>2. Used(e) = Used(d)
    BY <1>4, <1>6, <1>7 DEF Used, InUse
  <2>3. Counted(e) = Counted(d)
    BY <1>9 DEF Counted
  <2>4. Stock(e) = [p \in Products |-> IF p \in I THEN Stock(d)[p] + o.items[p]
                                       ELSE Stock(d)[p]]
    BY <1>4, <1>6, <1>7 DEF Stock
  <2> QED
    BY <1>1, <2>1, <2>2, <2>3, <2>4 DEF Applies, I
<1> QED
  BY <1>17, <1>18, <1>19 DEF Does

(* What an open transaction does when it commits.                          *)
LEMMA OperationDoes ==
    ASSUME NEW d, Good(d), NEW e, IsDatabase(e), NEW o, Performs(d, e, o)
    PROVE  Does(d, e, o)
<1>1. o \in Operations
  BY DEF Performs, Stores
<1>2. o.action \in {"create", "edit", "purchase", "withdrawal", "delete"}
  BY <1>1, OperationFields
<1> QED
  BY <1>2, CreateDoes, EditDoes, PurchaseDoes, WithdrawalDoes, DeleteDoes

-----------------------------------------------------------------------------
(* The invariant *)

(* A purchase adds and records its items one by one; rest are those it has *)
(* not added yet, and latest is the one it has not recorded.               *)
Purchasing(d, e, o, now, rest, latest) ==
    LET done == DOMAIN o.items \ rest IN
    /\ rest \subseteq DOMAIN o.items
    /\ IF now = "record" THEN latest \in done ELSE latest = NoProduct
    /\ now = "commit" => rest = {}
    /\ PurchaseChange(d, e, o, done,
                      IF now = "record" THEN done \ {latest} ELSE done)

(* Another operation changes the products, then movements and audit.       *)
Changing(d, e, o, now) ==
    /\ IF now = "update" THEN e.products = d.products
       ELSE ProductsChange(d, e, o)
    /\ IF now = "commit" THEN MovementsChange(d, e, o) /\ AuditChange(d, e, o)
       ELSE Keeps(d, e) /\ e.audit = d.audit
    /\ now = "record" /\ o.action = "create" => o.amount > 0

(* The open transaction is on its way from db to what Performs describes.  *)
Transaction ==
    /\ current \in Operations \union {NoOperation}
    /\ IF current = NoOperation
       THEN stage = "idle" /\ work = db /\ left = {} /\ item = NoProduct
       ELSE /\ stage \in {"update", "record", "commit"}
            /\ Stores(db, work, current)
            /\ IF current.action = "purchase"
               THEN Purchasing(db, work, current, stage, left, item)
               ELSE /\ left = {} /\ item = NoProduct
                    /\ Changing(db, work, current, stage)

(* The requests stored in d are still stored in e.                         *)
Remembers(d, e) ==
    \A id \in RequestIds : d.requests[id] # NoOperation =>
                               e.requests[id] = d.requests[id]

(* What Snapshot reads from is an earlier committed database.              *)
Reading ==
    /\ reading \in {"products", "purchases", "movements", "done"}
    /\ IsDatabase(pinned)
    /\ reading = "products" => view = NothingRead
    /\ reading \in {"purchases", "movements"} =>
           /\ Good(pinned) /\ Remembers(pinned, db)
           /\ view = [products |-> pinned.products,
                      purchases |-> IF reading = "movements"
                                    THEN pinned.purchases ELSE {},
                      movements |-> <<>>]
    /\ reading = "done" =>
           \E d : /\ Good(d) /\ Remembers(d, db)
                  /\ view = [products |-> d.products,
                             purchases |-> d.purchases,
                             movements |-> d.movements]

Answers == answered \subseteq Operations /\ AnsweredDone

(* The inductive invariant. *)
IInv == Good(db) /\ IsDatabase(work) /\ Transaction /\ Reading /\ Answers

-----------------------------------------------------------------------------
(* The statements *)

ProductRows == [Products -> Product \union {NoProduct}]

(* The movements a statement leaves, and whether it added one.             *)
LEMMA Executed ==
    ASSUME IsDatabase(work),
           NEW products \in ProductRows, NEW movements, NEW audit \in Seq(Change),
           NEW next, Execute(products, movements, audit, next),
           \/ /\ DOMAIN movements \subseteq DOMAIN work.movements
              /\ movements = [k \in DOMAIN movements |-> movements[k]]
              /\ \A k \in DOMAIN movements : movements[k] \in Movement
           \/ \E m \in Movement : movements = WithMovement(m)
    PROVE  /\ work'.requests = work.requests
           /\ work'.purchases = work.purchases
           /\ work'.products = products
           /\ work'.movements = movements
           /\ work'.audit = audit
           /\ DOMAIN movements \subseteq DOMAIN work.movements =>
                  work'.lastMovement = work.lastMovement
           /\ \A m \in Movement :
                  movements = WithMovement(m) => Inserts(work, work', m)
           /\ IsDatabase(work')
<1> DEFINE last == work.lastMovement
           last2 == IF last + 1 \in DOMAIN movements THEN last + 1 ELSE last
<1>1. work = [requests |-> work.requests, products |-> work.products,
              purchases |-> work.purchases, movements |-> work.movements,
              lastMovement |-> work.lastMovement, audit |-> work.audit]
  BY DEF IsDatabase
<1>2. work' = [requests |-> work.requests, products |-> products,
               purchases |-> work.purchases, movements |-> movements,
               lastMovement |-> last2, audit |-> audit]
  BY <1>1 DEF Execute
<1> HIDE DEF last2
<1>3. /\ work'.requests = work.requests
      /\ work'.purchases = work.purchases
      /\ work'.products = products
      /\ work'.movements = movements
      /\ work'.audit = audit
      /\ work'.lastMovement = last2
  BY <1>2
<1>4. /\ last \in Nat
      /\ DOMAIN work.movements \subseteq 1..last
      /\ \A k \in DOMAIN work.movements : work.movements[k] \in Movement
  BY DEF IsDatabase, IsMovementTable
<1>5. DOMAIN movements \subseteq DOMAIN work.movements => last2 = last
  BY <1>4 DEF last2
<1>6. ASSUME NEW m \in Movement, movements = WithMovement(m)
      PROVE  Inserts(work, work', m) /\ IsMovementTable(movements, last2)
  <2>1. /\ movements = Plus(work, m)
        /\ DOMAIN movements = DOMAIN work.movements \union {last + 1}
        /\ last2 = last + 1
    BY <1>6 DEF WithMovement, Plus, last2
  <2>2. Inserts(work, work', m)
    BY <1>3, <2>1 DEF Inserts
  <2>3. /\ movements = [k \in DOMAIN movements |-> movements[k]]
        /\ \A k \in DOMAIN movements : movements[k] \in Movement
    BY <1>4, <2>1 DEF Plus
  <2>4. DOMAIN movements \subseteq 1..last2
    BY <1>4, <2>1
  <2> QED
    BY <2>2, <2>3, <2>4 DEF IsMovementTable
<1>7. IsMovementTable(movements, last2)
  BY <1>4, <1>5, <1>6 DEF IsMovementTable
<1>8. last2 \in Nat
  BY <1>4 DEF last2
<1>9. IsDatabase(work')
  <2>1. /\ work.requests \in [RequestIds -> Operations \union {NoOperation}]
        /\ work.purchases \subseteq RequestIds
    BY DEF IsDatabase
  <2>2. work' = [requests |-> work'.requests, products |-> work'.products,
                 purchases |-> work'.purchases, movements |-> work'.movements,
                 lastMovement |-> work'.lastMovement, audit |-> work'.audit]
    BY <1>2
  <2> QED
    BY <1>3, <1>7, <1>8, <2>1, <2>2 DEF IsDatabase, ProductRows
<1> QED
  BY <1>3, <1>5, <1>6, <1>9

(* What a statement of the open transaction has to show.                   *)
LEMMA Statement ==
    ASSUME IInv, NEW products, NEW movements, NEW audit, NEW next,
           Execute(products, movements, audit, next),
           current \in Operations,
           IsDatabase(work'),
           work'.requests = work.requests, work'.purchases = work.purchases,
           next \in {"update", "record", "commit"},
           IF current.action = "purchase"
           THEN Purchasing(db, work', current, next, left', item')
           ELSE /\ left' = {} /\ item' = NoProduct
                /\ Changing(db, work', current, next)
    PROVE  IInv'
<1>1. /\ db' = db /\ current' = current /\ stage' = next /\ answered' = answered
      /\ reading' = reading /\ pinned' = pinned /\ view' = view
  BY DEF Execute, readVars
<1>2. current # NoOperation /\ Stores(db, work, current)
  BY OperationsAssumption DEF IInv, Transaction
<1>3. Stores(db, work', current)
  BY <1>2 DEF Stores
<1>4. Transaction'
  BY <1>1, <1>2, <1>3 DEF Transaction
<1>5. Good(db)' /\ IsDatabase(work)'
  BY <1>1 DEF IInv
<1>6. Reading'
  BY <1>1 DEF IInv, Reading
<1>7. Answers'
  BY <1>1 DEF IInv, Answers, AnsweredDone
<1> QED
  BY <1>4, <1>5, <1>6, <1>7 DEF IInv

(* What the invariant says while an operation is at a statement.           *)
LEMMA AtStatement ==
    ASSUME IInv, stage # "idle"
    PROVE  /\ current \in Operations
           /\ current # NoOperation
           /\ Stores(db, work, current)
           /\ IF current.action = "purchase"
              THEN Purchasing(db, work, current, stage, left, item)
              ELSE /\ left = {} /\ item = NoProduct
                   /\ Changing(db, work, current, stage)
           /\ Good(db) /\ IsDatabase(db) /\ IsDatabase(work)
           /\ db.products \in ProductRows /\ work.products \in ProductRows
           /\ db.audit \in Seq(Change) /\ work.audit \in Seq(Change)
  BY DEF IInv, Transaction, Good, IsDatabase, ProductRows

(* Rows of the open transaction keep their type.                           *)
LEMMA KeptRows ==
    ASSUME IsDatabase(work)
    PROVE  /\ work.movements = [k \in DOMAIN work.movements |-> work.movements[k]]
           /\ \A k \in DOMAIN work.movements : work.movements[k] \in Movement
  BY DEF IsDatabase, IsMovementTable

(* A first statement that gives the products as ProductsChange says.       *)
LEMMA FirstStatement ==
    ASSUME IInv, stage = "update", current.action # "purchase",
           NEW products \in ProductRows,
           NEW next, next \in {"record", "commit"},
           Execute(products, work.movements, work.audit, next),
           left' = left, item' = item,
           \A e : e.products = products => ProductsChange(db, e, current),
           next = "record" /\ current.action = "create" => current.amount > 0,
           next = "commit" =>
               \A e : Keeps(db, e) /\ e.audit = db.audit =>
                   MovementsChange(db, e, current) /\ AuditChange(db, e, current)
    PROVE  IInv'
<1>1. /\ current \in Operations /\ IsDatabase(work)
      /\ left = {} /\ item = NoProduct
      /\ Keeps(db, work) /\ work.audit = db.audit
      /\ work.audit \in Seq(Change)
  BY AtStatement DEF Changing
<1>2. /\ work'.requests = work.requests
      /\ work'.purchases = work.purchases
      /\ work'.products = products
      /\ work'.movements = work.movements
      /\ work'.audit = work.audit
      /\ work'.lastMovement = work.lastMovement
      /\ IsDatabase(work')
  BY <1>1, KeptRows, Executed
<1>3. Keeps(db, work') /\ work'.audit = db.audit
  BY <1>1, <1>2 DEF Keeps
<1>4. Changing(db, work', current, next)
  BY <1>2, <1>3 DEF Changing
<1> QED
  BY <1>1, <1>2, <1>4, Statement

LEMMA InsertProductStep == ASSUME IInv, InsertProduct PROVE IInv'
<1> DEFINE o == current
           row == [name |-> o.name, stock |-> o.amount, deleted |-> FALSE]
           products == [work.products EXCEPT ![o.id] = row]
           next == IF o.amount > 0 THEN "record" ELSE "commit"
<1>1. /\ stage = "update" /\ o.action = "create"
      /\ Execute(products, work.movements, work.audit, next)
      /\ left' = left /\ item' = item
  BY DEF InsertProduct
<1>2. /\ o \in Operations /\ work.products = db.products
      /\ work.products \in ProductRows
  BY <1>1, AtStatement DEF Changing
<1>3. row \in Product /\ o.id \in Products
  BY <1>1, <1>2, OperationFields, OperationsAssumption DEF Product, Products
<1>4. products \in ProductRows
  BY <1>2, <1>3 DEF ProductRows
<1>5. \A e : e.products = products => ProductsChange(db, e, o)
  BY <1>1, <1>2 DEF ProductsChange
<1>6. next = "commit" =>
          \A e : Keeps(db, e) /\ e.audit = db.audit =>
              MovementsChange(db, e, o) /\ AuditChange(db, e, o)
  BY <1>1 DEF MovementsChange, AuditChange
<1>7. next \in {"record", "commit"} /\ (next = "record" => o.amount > 0)
  OBVIOUS
<1> HIDE DEF products, next
<1> QED
  BY <1>1, <1>4, <1>5, <1>6, <1>7, FirstStatement

LEMMA UpdateProductStep == ASSUME IInv, UpdateProduct PROVE IInv'
<1> DEFINE o == current
           p == o.product
           row == [name |-> o.name, stock |-> StockCorrected(o),
                   deleted |-> FALSE]
           products == [work.products EXCEPT ![p] = row]
<1>1. /\ stage = "update" /\ o.action = "edit"
      /\ InUse(work, p) /\ StockCorrected(o) \in 0..Limit
      /\ Execute(products, work.movements, work.audit, "record")
      /\ left' = left /\ item' = item
  BY DEF UpdateProduct
<1>2. /\ o \in Operations /\ work.products = db.products
      /\ Keeps(db, work)
      /\ work.products \in ProductRows
  BY <1>1, AtStatement DEF Changing
<1>3. p \in Products /\ row \in Product
  BY <1>1, <1>2, OperationFields, OperationsAssumption DEF Product
<1>4. products \in ProductRows
  BY <1>2, <1>3 DEF ProductRows
<1>5. StockCorrected(o) = NewStock(db, o) /\ InUse(db, p)
  <2>1. InitialQuantity(work, p) = InitialQuantity(db, p)
    BY <1>2 DEF InitialQuantity, Moved, Keeps
  <2> QED
    BY <1>1, <1>2, <2>1 DEF StockCorrected, NewStock, InUse
<1>6. \A e : e.products = products => ProductsChange(db, e, o)
  BY <1>1, <1>2, <1>5 DEF ProductsChange
<1> HIDE DEF products
<1> QED
  BY <1>1, <1>4, <1>6, FirstStatement

LEMMA TakeStockStep == ASSUME IInv, TakeStock PROVE IInv'
<1> DEFINE o == current
           p == o.product
           products == [work.products EXCEPT ![p].stock = @ - o.amount]
<1>1. /\ stage = "update" /\ o.action = "withdrawal"
      /\ InUse(work, p) /\ work.products[p].stock >= o.amount
      /\ Execute(products, work.movements, work.audit, "record")
      /\ left' = left /\ item' = item
  BY DEF TakeStock
<1>2. /\ o \in Operations /\ work.products = db.products
      /\ work.products \in ProductRows
  BY <1>1, AtStatement DEF Changing
<1>3. /\ p \in Products /\ o.amount \in Int
      /\ work.products[p] \in Product
  BY <1>1, <1>2, OperationFields DEF ProductRows, InUse
<1>4. products \in ProductRows
  <2>1. [work.products[p] EXCEPT !.stock = work.products[p].stock - o.amount]
            \in Product
    BY <1>3 DEF Product
  <2> QED
    BY <1>2, <1>3, <2>1 DEF ProductRows
<1>5. InUse(db, p) /\ db.products[p].stock >= o.amount
  BY <1>1, <1>2 DEF InUse
<1>6. \A e : e.products = products => ProductsChange(db, e, o)
  BY <1>1, <1>2, <1>5 DEF ProductsChange
<1> HIDE DEF products
<1> QED
  BY <1>1, <1>4, <1>6, FirstStatement

LEMMA ArchiveProductStep == ASSUME IInv, ArchiveProduct PROVE IInv'
<1> DEFINE o == current
           p == o.product
           products == [work.products EXCEPT ![p].deleted = TRUE]
<1>1. /\ stage = "update" /\ o.action = "delete"
      /\ InUse(work, p)
      /\ Execute(products, work.movements, work.audit, "record")
      /\ left' = left /\ item' = item
  BY DEF ArchiveProduct
<1>2. /\ o \in Operations /\ work.products = db.products
      /\ work.products \in ProductRows
  BY <1>1, AtStatement DEF Changing
<1>3. p \in Products /\ work.products[p] \in Product
  BY <1>1, <1>2, OperationFields DEF ProductRows, InUse
<1>4. products \in ProductRows
  <2>1. [work.products[p] EXCEPT !.deleted = TRUE] \in Product
    BY <1>3 DEF Product
  <2> QED
    BY <1>2, <1>3, <2>1 DEF ProductRows
<1>5. InUse(db, p)
  BY <1>1, <1>2 DEF InUse
<1>6. \A e : e.products = products => ProductsChange(db, e, o)
  BY <1>1, <1>2, <1>5 DEF ProductsChange
<1> HIDE DEF products
<1> QED
  BY <1>1, <1>4, <1>6, FirstStatement

(* A last statement that leaves the products as they are.                  *)
LEMMA LastStatement ==
    ASSUME IInv, stage = "record", current.action # "purchase",
           NEW movements, NEW audit \in Seq(Change),
           Execute(work.products, movements, audit, "commit"),
           left' = left, item' = item,
           \/ /\ DOMAIN movements \subseteq DOMAIN work.movements
              /\ movements = [k \in DOMAIN movements |-> movements[k]]
              /\ \A k \in DOMAIN movements : movements[k] \in Movement
           \/ \E m \in Movement : movements = WithMovement(m),
           \A e : /\ e.movements = movements
                  /\ DOMAIN movements \subseteq DOMAIN db.movements =>
                         e.lastMovement = db.lastMovement
                  /\ \A m \in Movement :
                         movements = WithMovement(m) => Inserts(db, e, m)
                  => MovementsChange(db, e, current),
           \A e : e.audit = audit => AuditChange(db, e, current)
    PROVE  IInv'
<1>1. /\ current \in Operations /\ IsDatabase(work)
      /\ left = {} /\ item = NoProduct
      /\ Keeps(db, work)
      /\ ProductsChange(db, work, current)
      /\ work.products \in ProductRows
  BY AtStatement DEF Changing
<1>2. /\ work'.requests = work.requests
      /\ work'.purchases = work.purchases
      /\ work'.products = work.products
      /\ work'.movements = movements
      /\ work'.audit = audit
      /\ DOMAIN movements \subseteq DOMAIN work.movements =>
             work'.lastMovement = work.lastMovement
      /\ \A m \in Movement :
             movements = WithMovement(m) => Inserts(work, work', m)
      /\ IsDatabase(work')
  BY <1>1, Executed
<1>3. \A m \in Movement : movements = WithMovement(m) => Inserts(db, work', m)
  BY <1>1, <1>2 DEF Inserts, Plus, Keeps
<1>4. MovementsChange(db, work', current)
  BY <1>1, <1>2, <1>3 DEF Keeps
<1>5. AuditChange(db, work', current)
  BY <1>2
<1>6. ProductsChange(db, work', current)
  BY <1>1, <1>2 DEF ProductsChange
<1>7. Changing(db, work', current, "commit")
  BY <1>4, <1>5, <1>6 DEF Changing
<1> QED
  BY <1>1, <1>2, <1>7, Statement

LEMMA InsertInitialStep == ASSUME IInv, InsertInitial PROVE IInv'
<1> DEFINE o == current
           m == Initial(o.id, o.amount)
<1>1. /\ stage = "record" /\ o.action = "create"
      /\ Execute(work.products, WithMovement(m), work.audit, "commit")
      /\ left' = left /\ item' = item
  BY DEF InsertInitial, Initial
<1>2. /\ o \in Operations /\ o.amount > 0
      /\ work.audit = db.audit /\ work.audit \in Seq(Change)
  BY <1>1, AtStatement DEF Changing
<1>3. m \in Movement
  BY <1>1, <1>2, OperationFields, OperationsAssumption
     DEF Movement, Initial, Products
<1>4. \A e : Inserts(db, e, m) => MovementsChange(db, e, o)
  BY <1>1, <1>2 DEF MovementsChange
<1>5. \A e : e.audit = work.audit => AuditChange(db, e, o)
  BY <1>1, <1>2 DEF AuditChange
<1> HIDE DEF m
<1> QED
  BY <1>1, <1>2, <1>3, <1>4, <1>5, LastStatement

LEMMA RecordWithdrawalStep == ASSUME IInv, RecordWithdrawal PROVE IInv'
<1> DEFINE o == current
           m == [product |-> o.product, purchase |-> NoPurchase,
                 kind |-> "withdrawal", quantity |-> -o.amount]
<1>1. /\ stage = "record" /\ o.action = "withdrawal"
      /\ Execute(work.products, WithMovement(m), work.audit, "commit")
      /\ left' = left /\ item' = item
  BY DEF RecordWithdrawal
<1>2. /\ o \in Operations
      /\ work.audit = db.audit /\ work.audit \in Seq(Change)
  BY <1>1, AtStatement DEF Changing
<1>3. m \in Movement
  BY <1>1, <1>2, OperationFields, OperationsAssumption DEF Movement
<1>4. \A e : Inserts(db, e, m) => MovementsChange(db, e, o)
  BY <1>1 DEF MovementsChange
<1>5. \A e : e.audit = work.audit => AuditChange(db, e, o)
  BY <1>1, <1>2 DEF AuditChange
<1> HIDE DEF m
<1> QED
  BY <1>1, <1>2, <1>3, <1>4, <1>5, LastStatement

LEMMA VersionType ==
    ASSUME NEW d, IsDatabase(d), NEW p \in Products, d.products[p] # NoProduct
    PROVE  VersionOf(d, p) \in Version
<1>1. d.products[p] \in Product /\ InitialQuantity(d, p) \in Int
  BY MovedType DEF IsDatabase, InitialQuantity
<1> QED
  BY <1>1 DEF VersionOf, Version, Product

LEMMA RecordDeleteStep == ASSUME IInv, RecordDelete PROVE IInv'
<1> DEFINE o == current
           p == o.product
           c == [product |-> p, action |-> "delete",
                 before |-> VersionOf(db, p),
                 after |-> [VersionOf(db, p) EXCEPT !.deleted = TRUE]]
<1>1. /\ stage = "record" /\ o.action = "delete"
      /\ Execute(work.products, work.movements, Append(work.audit, c), "commit")
      /\ left' = left /\ item' = item
  BY DEF RecordDelete
<1>2. /\ o \in Operations
      /\ IsDatabase(db) /\ IsDatabase(work)
      /\ Keeps(db, work)
      /\ work.audit = db.audit /\ work.audit \in Seq(Change)
      /\ InUse(db, p)
  BY <1>1, AtStatement DEF Changing, ProductsChange
<1>3. p \in Products /\ VersionOf(db, p) \in Version
  BY <1>1, <1>2, OperationFields, VersionType DEF InUse
<1>4. c \in Change
  <2>1. [VersionOf(db, p) EXCEPT !.deleted = TRUE] \in Version
    BY <1>3 DEF Version
  <2> QED
    BY <1>3, <2>1 DEF Change
<1>5. \A e : e.audit = Append(work.audit, c) => AuditChange(db, e, o)
  BY <1>1, <1>2 DEF AuditChange
<1> HIDE DEF c
<1>6. Append(work.audit, c) \in Seq(Change)
  BY <1>2, <1>4
<1>7. \A e : /\ e.movements = work.movements
             /\ DOMAIN work.movements \subseteq DOMAIN db.movements =>
                    e.lastMovement = db.lastMovement
             => MovementsChange(db, e, o)
  BY <1>1, <1>2 DEF MovementsChange, Keeps
<1>8. /\ work.movements = [k \in DOMAIN work.movements |-> work.movements[k]]
      /\ \A k \in DOMAIN work.movements : work.movements[k] \in Movement
  BY <1>2, KeptRows
<1> DEFINE audit == Append(work.audit, c)
<1> HIDE DEF audit
<1>9. /\ Execute(work.products, work.movements, audit, "commit")
      /\ audit \in Seq(Change)
      /\ \A e : e.audit = audit => AuditChange(db, e, o)
  BY <1>1, <1>5, <1>6 DEF audit
<1> QED
  BY <1>1, <1>7, <1>8, <1>9, LastStatement

(* The correction of the committed movements, as the code computes it.     *)
LEMMA CorrectedRows ==
    ASSUME IsDatabase(work), Keeps(db, work),
           NEW p \in Products, NEW quantity \in Nat
    PROVE  LET movements == InitialCorrected(p, quantity) IN
           /\ \/ /\ DOMAIN movements \subseteq DOMAIN work.movements
                 /\ movements = [k \in DOMAIN movements |-> movements[k]]
                 /\ \A k \in DOMAIN movements : movements[k] \in Movement
              \/ \E m \in Movement : movements = WithMovement(m)
           /\ \A e : /\ e.movements = movements
                     /\ DOMAIN movements \subseteq DOMAIN db.movements =>
                            e.lastMovement = db.lastMovement
                     /\ \A m \in Movement :
                            movements = WithMovement(m) => Inserts(db, e, m)
                     => Corrects(db, e, p, quantity)
<1> DEFINE before == InitialQuantity(db, p)
           ms == work.movements
           movements == InitialCorrected(p, quantity)
           m == Initial(p, quantity)
<1>1. /\ ms = db.movements
      /\ ms = [k \in DOMAIN ms |-> ms[k]]
      /\ \A k \in DOMAIN ms : ms[k] \in Movement
  BY KeptRows DEF Keeps
<1>2. quantity # 0 => m \in Movement
  BY DEF Initial, Movement
<1>3. CASE quantity = before
  <2>1. movements = ms
    BY <1>3 DEF InitialCorrected
  <2> HIDE DEF movements
  <2>2. \A e : e.movements = movements /\ e.lastMovement = db.lastMovement
                   => Corrects(db, e, p, quantity)
    BY <1>1, <1>3, <2>1 DEF Corrects, Keeps
  <2> QED
    BY <1>1, <2>1, <2>2 DEF movements
<1>4. CASE quantity # before /\ quantity = 0
  <2>1. movements = [k \in {j \in DOMAIN ms : ~IsInitial(ms[j], p)} |-> ms[k]]
    BY <1>4 DEF InitialCorrected
  <2> HIDE DEF movements
  <2>2. /\ DOMAIN movements \subseteq DOMAIN ms
        /\ movements = [k \in DOMAIN movements |-> movements[k]]
        /\ \A k \in DOMAIN movements : movements[k] \in Movement
    BY <1>1, <2>1
  <2>3. \A e : e.movements = movements /\ e.lastMovement = db.lastMovement
                   => Corrects(db, e, p, quantity)
    BY <1>1, <1>4, <2>1 DEF Corrects
  <2> QED
    BY <1>1, <2>2, <2>3 DEF movements
<1>5. CASE quantity # before /\ quantity > 0 /\ before > 0
  <2>1. movements = [k \in DOMAIN ms |->
                        IF IsInitial(ms[k], p)
                        THEN [ms[k] EXCEPT !.quantity = quantity] ELSE ms[k]]
    BY <1>5 DEF InitialCorrected
  <2> HIDE DEF movements
  <2>2. \A k \in DOMAIN ms : [ms[k] EXCEPT !.quantity = quantity] \in Movement
    BY <1>1, <1>5 DEF Movement
  <2>3. /\ DOMAIN movements \subseteq DOMAIN ms
        /\ movements = [k \in DOMAIN movements |-> movements[k]]
        /\ \A k \in DOMAIN movements : movements[k] \in Movement
    BY <1>1, <2>1, <2>2
  <2>4. \A e : e.movements = movements /\ e.lastMovement = db.lastMovement
                   => Corrects(db, e, p, quantity)
    BY <1>1, <1>5, <2>1 DEF Corrects
  <2> QED
    BY <1>1, <2>3, <2>4 DEF movements
<1>6. CASE quantity # before /\ quantity > 0 /\ ~ (before > 0)
  <2>1. movements = WithMovement(m)
    BY <1>6 DEF InitialCorrected, Initial
  <2> HIDE DEF movements, m
  <2>2. \A e : Inserts(db, e, m) => Corrects(db, e, p, quantity)
    BY <1>6 DEF Corrects, m
  <2>3. m \in Movement
    BY <1>2, <1>6
  <2> QED
    BY <2>1, <2>2, <2>3 DEF movements
<1> QED
  BY <1>3, <1>4, <1>5, <1>6

LEMMA RecordEditStep == ASSUME IInv, RecordEdit PROVE IInv'
<1> DEFINE o == current
           p == o.product
           movements == InitialCorrected(p, o.amount)
           c == [product |-> p, action |-> "edit",
                 before |-> VersionOf(db, p),
                 after |-> [name |-> o.name, initial |-> o.amount,
                            stock |-> work.products[p].stock,
                            deleted |-> FALSE]]
           audit == Append(work.audit, c)
<1>1. /\ stage = "record" /\ o.action = "edit"
      /\ Execute(work.products, movements, audit, "commit")
      /\ left' = left /\ item' = item
  BY DEF RecordEdit
<1>2. /\ o \in Operations
      /\ IsDatabase(db) /\ IsDatabase(work)
      /\ Keeps(db, work)
      /\ work.audit = db.audit /\ work.audit \in Seq(Change)
      /\ InUse(db, p) /\ NewStock(db, o) \in 0..Limit
      /\ work.products = [db.products EXCEPT ![p] =
                             [name |-> o.name, stock |-> NewStock(db, o),
                              deleted |-> FALSE]]
      /\ db.products \in ProductRows
  BY <1>1, AtStatement DEF Changing, ProductsChange
<1>3. /\ p \in Products /\ o.amount \in Nat /\ o.name \in Names
      /\ VersionOf(db, p) \in Version
  BY <1>1, <1>2, OperationFields, OperationsAssumption, VersionType DEF InUse
<1>4. work.products[p].stock = NewStock(db, o)
  BY <1>2, <1>3 DEF ProductRows
<1>5. c \in Change
  BY <1>2, <1>3, <1>4, OperationsAssumption DEF Change, Version
<1>6. \A e : e.audit = audit => AuditChange(db, e, o)
  BY <1>1, <1>2, <1>4 DEF AuditChange
<1> HIDE DEF c, movements
<1>7. audit \in Seq(Change)
  BY <1>2, <1>5
<1> HIDE DEF audit
<1>8. /\ \/ /\ DOMAIN movements \subseteq DOMAIN work.movements
            /\ movements = [k \in DOMAIN movements |-> movements[k]]
            /\ \A k \in DOMAIN movements : movements[k] \in Movement
         \/ \E m \in Movement : movements = WithMovement(m)
      /\ \A e : /\ e.movements = movements
                /\ DOMAIN movements \subseteq DOMAIN db.movements =>
                       e.lastMovement = db.lastMovement
                /\ \A m \in Movement :
                       movements = WithMovement(m) => Inserts(db, e, m)
                => Corrects(db, e, p, o.amount)
  BY <1>2, <1>3, CorrectedRows DEF movements
<1>9. \A e : Corrects(db, e, p, o.amount) => MovementsChange(db, e, o)
  BY <1>1 DEF MovementsChange
<1> QED
  BY <1>1, <1>6, <1>7, <1>8, <1>9, LastStatement

-----------------------------------------------------------------------------
(* The empty database *)

LEMMA NothingStoredGood == Good(NothingStored)
<1> DEFINE d == NothingStored
<1>1. /\ d.requests = [id \in RequestIds |-> NoOperation]
      /\ d.products = [p \in Products |-> NoProduct]
      /\ d.purchases = {} /\ d.movements = <<>>
      /\ d.lastMovement = 0 /\ d.audit = <<>>
      /\ d = [requests |-> d.requests, products |-> d.products,
              purchases |-> d.purchases, movements |-> d.movements,
              lastMovement |-> d.lastMovement, audit |-> d.audit]
  BY DEF NothingStored
<1>2. /\ DOMAIN <<>> = {}
      /\ <<>> = [k \in DOMAIN <<>> |-> <<>>[k]]
      /\ <<>> \in Seq(Change)
  OBVIOUS
<1> HIDE DEF d
<1>3. DOMAIN d.movements = {} /\ DOMAIN d.audit = {}
  BY <1>1, <1>2
<1>4. IsDatabase(d)
  BY <1>1, <1>2, <1>3 DEF IsDatabase, IsMovementTable
<1>5. \A p \in Products : d.products[p] = NoProduct
  BY <1>1
<1>6. Good(d)
  BY <1>1, <1>3, <1>4, <1>5
     DEF Good, Bounded, Balanced, OneInitial, Referenced, WholePurchases, Chain
<1> QED
  BY <1>6 DEF d

LEMMA AddItemStep == ASSUME IInv, NEW p \in Products, AddItem(p) PROVE IInv'
<1> DEFINE o == current
           products == [work.products EXCEPT ![p].stock = @ + o.items[p]]
           done == DOMAIN o.items \ left
           done2 == DOMAIN o.items \ left'
<1>1. /\ stage = "update" /\ o.action = "purchase" /\ p \in left
      /\ InUse(work, p) /\ work.products[p].stock <= Limit - o.items[p]
      /\ Execute(products, work.movements, work.audit, "record")
      /\ left' = left \ {p} /\ item' = p
  BY DEF AddItem
<1>2. /\ o \in Operations /\ IsDatabase(work)
      /\ left \subseteq DOMAIN o.items
      /\ PurchaseChange(db, work, o, done, done)
      /\ work.products \in ProductRows
      /\ work.audit \in Seq(Change)
  BY <1>1, AtStatement DEF Purchasing
<1>3. /\ work.products[p] \in Product
      /\ o.items[p] \in Int
      /\ p \in DOMAIN o.items
      /\ p \notin done /\ done2 = done \union {p} /\ done2 \ {p} = done
  BY <1>1, <1>2, OperationFields DEF ProductRows, InUse
<1>4. products \in ProductRows
  <2>1. [work.products[p] EXCEPT !.stock = work.products[p].stock + o.items[p]]
            \in Product
    BY <1>3 DEF Product
  <2> QED
    BY <1>2, <2>1 DEF ProductRows
<1>5. /\ work'.requests = work.requests
      /\ work'.purchases = work.purchases
      /\ work'.products = products
      /\ work'.movements = work.movements
      /\ work'.audit = work.audit
      /\ IsDatabase(work')
  BY <1>1, <1>2, <1>4, KeptRows, Executed
<1>6. /\ \A q \in done : /\ InUse(db, q)
                         /\ db.products[q].stock <= Limit - o.items[q]
      /\ work.products = [q \in Products |->
                             IF q \in done
                             THEN [db.products[q] EXCEPT !.stock = @ + o.items[q]]
                             ELSE db.products[q]]
  BY <1>2 DEF PurchaseChange
<1>7. work.products[p] = db.products[p]
  BY <1>3, <1>6
<1>8. \A q \in done2 : /\ InUse(db, q)
                       /\ db.products[q].stock <= Limit - o.items[q]
  BY <1>1, <1>3, <1>6, <1>7 DEF InUse
<1>9. products = [q \in Products |->
                     IF q \in done2
                     THEN [db.products[q] EXCEPT !.stock = @ + o.items[q]]
                     ELSE db.products[q]]
  BY <1>3, <1>6, <1>7
<1> HIDE DEF products, done, done2
<1>10. PurchaseChange(db, work', o, done2, done)
  BY <1>2, <1>5, <1>8, <1>9 DEF PurchaseChange
<1>11. Purchasing(db, work', o, "record", left', item')
  BY <1>1, <1>2, <1>3, <1>10 DEF Purchasing, done2
<1> QED
  BY <1>1, <1>2, <1>5, <1>11, Statement

LEMMA RecordItemStep == ASSUME IInv, RecordItem PROVE IInv'
<1> DEFINE o == current
           m == [product |-> item, purchase |-> o.id, kind |-> "purchase",
                 quantity |-> o.items[item]]
           done == DOMAIN o.items \ left
           k == work.lastMovement + 1
           next == IF left = {} THEN "commit" ELSE "update"
<1>1. /\ stage = "record" /\ o.action = "purchase"
      /\ Execute(work.products, WithMovement(m), work.audit, next)
      /\ left' = left /\ item' = NoProduct
  BY DEF RecordItem
<1>2. /\ o \in Operations /\ IsDatabase(work)
      /\ left \subseteq DOMAIN o.items
      /\ item \in done
      /\ PurchaseChange(db, work, o, done, done \ {item})
      /\ work.products \in ProductRows
      /\ work.audit \in Seq(Change)
  BY <1>1, AtStatement DEF Purchasing
<1>3. /\ item \in Products /\ o.items[item] \in Int \ {0} /\ o.id \in RequestIds
  BY <1>1, <1>2, OperationFields, OperationsAssumption
<1>4. /\ m \in Movement
      /\ m.product = item
  BY <1>3 DEF Movement
<1> HIDE DEF m
<1>5. /\ work'.requests = work.requests
      /\ work'.purchases = work.purchases
      /\ work'.products = work.products
      /\ work'.audit = work.audit
      /\ Inserts(work, work', m)
      /\ IsDatabase(work')
  BY <1>1, <1>2, <1>4, Executed
<1>6. /\ k \notin DOMAIN work.movements
      /\ DOMAIN work'.movements = DOMAIN work.movements \union {k}
      /\ work'.movements[k] = m
      /\ \A j \in DOMAIN work.movements : work'.movements[j] = work.movements[j]
  BY <1>2, <1>5, InsertedRow
<1> HIDE DEF done, k, next
<1>7. PurchaseChange(db, work', o, done, done)
  <2> DEFINE new == DOMAIN work.movements \ DOMAIN db.movements
             new2 == DOMAIN work'.movements \ DOMAIN db.movements
  <2>1. /\ DOMAIN db.movements \subseteq DOMAIN work.movements
        /\ \A j \in DOMAIN db.movements : work.movements[j] = db.movements[j]
        /\ \A q \in done \ {item} : \E j \in new : work.movements[j].product = q
    BY <1>2 DEF PurchaseChange
  <2>2. \A j \in new : LET p == work.movements[j].product IN
            /\ p \in done \ {item}
            /\ work.movements[j] = [product |-> p, purchase |-> o.id,
                                    kind |-> "purchase", quantity |-> o.items[p]]
            /\ \A i \in new : work.movements[i].product = p => i = j
    BY <1>2 DEF PurchaseChange
  <2>3. new2 = new \union {k} /\ k \notin new
    BY <1>6, <2>1
  <2>4. ASSUME NEW j \in new2
        PROVE  LET p == work'.movements[j].product IN
               /\ p \in done
               /\ work'.movements[j] =
                      [product |-> p, purchase |-> o.id,
                       kind |-> "purchase", quantity |-> o.items[p]]
               /\ \A i \in new2 : work'.movements[i].product = p => i = j
    <3>1. CASE j = k
      <4>1. work'.movements[j] = [product |-> item, purchase |-> o.id,
                                  kind |-> "purchase", quantity |-> o.items[item]]
        BY <1>6, <3>1 DEF m
      <4>2. work'.movements[j].product = item
        BY <1>4, <1>6, <3>1
      <4>3. \A i \in new : work'.movements[i].product # item
        BY <1>6, <2>2
      <4> QED
        BY <1>2, <2>3, <3>1, <4>1, <4>2, <4>3
    <3>2. CASE j \in new
      <4>1. work'.movements[j] = work.movements[j]
        BY <1>6, <3>2
      <4>2. \A i \in new : work'.movements[i] = work.movements[i]
        BY <1>6
      <4>3. work'.movements[k].product = item
        BY <1>4, <1>6
      <4>4. LET p == work.movements[j].product IN
            /\ p \in done \ {item}
            /\ work.movements[j] = [product |-> p, purchase |-> o.id,
                                    kind |-> "purchase", quantity |-> o.items[p]]
            /\ \A i \in new : work.movements[i].product = p => i = j
        BY <2>2, <3>2
      <4> HIDE DEF new, new2
      <4> QED
        BY <2>3, <4>1, <4>2, <4>3, <4>4
    <3> QED
      BY <2>3, <3>1, <3>2
  <2>5. \A q \in done : \E j \in new2 : work'.movements[j].product = q
    <3>1. work'.movements[k].product = item
      BY <1>4, <1>6
    <3> QED
      BY <1>6, <2>1, <2>3, <3>1
  <2>6. /\ DOMAIN db.movements \subseteq DOMAIN work'.movements
        /\ \A j \in DOMAIN db.movements : work'.movements[j] = db.movements[j]
    BY <1>6, <2>1
  <2>7. /\ \A p \in done : /\ InUse(db, p)
                           /\ db.products[p].stock <= Limit - o.items[p]
        /\ work'.products = [p \in Products |->
                                IF p \in done
                                THEN [db.products[p] EXCEPT !.stock = @ + o.items[p]]
                                ELSE db.products[p]]
        /\ work'.audit = db.audit
    BY <1>2, <1>5 DEF PurchaseChange
  <2> QED
    BY <2>4, <2>5, <2>6, <2>7 DEF PurchaseChange
<1>8. Purchasing(db, work', o, next, left', item')
  BY <1>1, <1>2, <1>7 DEF Purchasing, done, next
<1>9. next \in {"update", "record", "commit"}
  BY DEF next
<1> QED
  BY <1>1, <1>2, <1>5, <1>8, <1>9, Statement

-----------------------------------------------------------------------------
(* Beginning and ending the transaction *)

LEMMA ReserveStep == ASSUME IInv, NEW o \in Operations, Reserve(o) PROVE IInv'
<1>1. /\ current = NoOperation /\ work = db /\ left = {} /\ item = NoProduct
      /\ db.requests[o.id] = NoOperation
      /\ o.id \in RequestIds /\ o # NoOperation
      /\ IsDatabase(db) /\ Good(db)
  BY OperationFields DEF IInv, Transaction, Reserve, Reserved
<1>2. /\ db' = db /\ current' = o /\ stage' = "update" /\ answered' = answered
      /\ reading' = reading /\ pinned' = pinned /\ view' = view
      /\ item' = NoProduct
      /\ left' = IF o.action = "purchase" THEN DOMAIN o.items ELSE {}
  BY <1>1 DEF Reserve, readVars
<1>3. work' = [requests |-> [db.requests EXCEPT ![o.id] = o],
               products |-> db.products,
               purchases |-> IF o.action = "purchase"
                             THEN db.purchases \union {o.id} ELSE db.purchases,
               movements |-> db.movements,
               lastMovement |-> db.lastMovement, audit |-> db.audit]
  <2>1. work' = [db EXCEPT
                    !.requests = [db.requests EXCEPT ![o.id] = o],
                    !.purchases = IF o.action = "purchase"
                                  THEN db.purchases \union {o.id}
                                  ELSE db.purchases]
    BY <1>1 DEF Reserve
  <2>2. db = [requests |-> db.requests, products |-> db.products,
              purchases |-> db.purchases, movements |-> db.movements,
              lastMovement |-> db.lastMovement, audit |-> db.audit]
    BY <1>1 DEF IsDatabase
  <2> QED
    BY <2>1, <2>2
<1>4. /\ work'.requests = [db.requests EXCEPT ![o.id] = o]
      /\ work'.products = db.products
      /\ work'.purchases = IF o.action = "purchase"
                           THEN db.purchases \union {o.id} ELSE db.purchases
      /\ work'.movements = db.movements
      /\ work'.lastMovement = db.lastMovement
      /\ work'.audit = db.audit
  BY <1>3
<1>5. IsDatabase(work')
  <2>1. work' = [requests |-> work'.requests, products |-> work'.products,
                 purchases |-> work'.purchases, movements |-> work'.movements,
                 lastMovement |-> work'.lastMovement, audit |-> work'.audit]
    BY <1>3
  <2>2. work'.requests \in [RequestIds -> Operations \union {NoOperation}]
    BY <1>1, <1>4 DEF IsDatabase
  <2>3. work'.purchases \subseteq RequestIds
    BY <1>1, <1>4 DEF IsDatabase
  <2> QED
    BY <1>1, <1>4, <2>1, <2>2, <2>3 DEF IsDatabase
<1>6. Stores(db, work', o)
  BY <1>1, <1>4 DEF Stores
<1>7. CASE o.action = "purchase"
  <2>1. work'.products = [p \in Products |-> db.products[p]]
    BY <1>1, <1>4 DEF IsDatabase
  <2>2. PurchaseChange(db, work', o, {}, {})
    BY <1>4, <2>1 DEF PurchaseChange
  <2>3. DOMAIN o.items \ DOMAIN o.items = {}
    OBVIOUS
  <2>4. Purchasing(db, work', o, "update", DOMAIN o.items, NoProduct)
    BY <2>2, <2>3 DEF Purchasing
  <2> QED
    BY <1>1, <1>2, <1>5, <1>6, <1>7, <2>4
       DEF IInv, Transaction, Reading, Answers, AnsweredDone
<1>8. CASE o.action # "purchase"
  <2>1. Changing(db, work', o, "update")
    BY <1>4 DEF Changing, Keeps
  <2> QED
    BY <1>1, <1>2, <1>5, <1>6, <1>8, <2>1
       DEF IInv, Transaction, Reading, Answers, AnsweredDone
<1> QED
  BY <1>7, <1>8

(* The transaction that commits has performed its operation.               *)
LEMMA CommitPerforms ==
    ASSUME IInv, stage = "commit"
    PROVE  /\ current \in Operations
           /\ Performs(db, work, current)
           /\ Does(db, work, current)
<1>1. /\ current \in Operations /\ Stores(db, work, current)
      /\ Good(db) /\ IsDatabase(work)
  BY AtStatement
<1>2. Performs(db, work, current)
  <2>1. CASE current.action = "purchase"
    <3>1. /\ left = {}
          /\ PurchaseChange(db, work, current, DOMAIN current.items \ left,
                            DOMAIN current.items \ left)
      BY <2>1, AtStatement DEF Purchasing
    <3>2. DOMAIN current.items \ left = DOMAIN current.items
      BY <3>1
    <3> QED
      BY <1>1, <2>1, <3>1, <3>2 DEF Performs
  <2>2. CASE current.action # "purchase"
    BY <1>1, <2>2, AtStatement DEF Performs, Changing
  <2> QED
    BY <2>1, <2>2
<1> QED
  BY <1>1, <1>2, OperationDoes

LEMMA CommitStep == ASSUME IInv, Commit PROVE IInv'
<1>1. /\ stage = "commit"
      /\ db' = work /\ work' = work
      /\ answered' \in {answered, answered \union {current}}
      /\ current' = NoOperation /\ stage' = "idle"
      /\ left' = {} /\ item' = NoProduct
      /\ reading' = reading /\ pinned' = pinned /\ view' = view
  BY DEF Commit, readVars
<1>2. /\ current \in Operations
      /\ Good(work) /\ IsDatabase(work)
      /\ IsDatabase(db)
      /\ db.requests[current.id] = NoOperation
      /\ work.requests = [db.requests EXCEPT ![current.id] = current]
      /\ current.id \in RequestIds
  BY <1>1, CommitPerforms, OperationFields
     DEF Performs, Stores, Does, Good, IInv
<1>3. ASSUME NEW d, Remembers(d, db)
      PROVE  Remembers(d, work)
  BY <1>2, <1>3 DEF Remembers, IsDatabase
<1>4. Reading'
  <2>1. reading = "done" =>
            \E d : /\ Good(d) /\ Remembers(d, work)
                   /\ view = [products |-> d.products,
                              purchases |-> d.purchases,
                              movements |-> d.movements]
    BY <1>3 DEF IInv, Reading
  <2>2. reading \in {"purchases", "movements"} => Remembers(pinned, work)
    BY <1>3 DEF IInv, Reading
  <2> QED
    BY <1>1, <2>1, <2>2 DEF IInv, Reading
<1>5. Answers'
  <2>1. \A o \in answered : /\ o \in Operations /\ o # NoOperation
                            /\ o.id \in RequestIds
                            /\ db.requests[o.id] = o
    BY OperationFields DEF IInv, Answers, AnsweredDone
  <2>2. \A o \in answered : work.requests[o.id] = o
    BY <1>2, <2>1 DEF IsDatabase
  <2>3. work.requests[current.id] = current
    BY <1>2 DEF IsDatabase
  <2> QED
    BY <1>1, <1>2, <2>1, <2>2, <2>3 DEF Answers, AnsweredDone
<1>6. Transaction'
  BY <1>1 DEF Transaction
<1> QED
  BY <1>1, <1>2, <1>4, <1>5, <1>6 DEF IInv

LEMMA OtherWriteSteps ==
    ASSUME IInv, Rollback \/ \E o \in Operations : AnswerRetry(o)
    PROVE  IInv'
<1>1. CASE Rollback
  <2>1. /\ db' = db /\ work' = db /\ answered' = answered
        /\ current' = NoOperation /\ stage' = "idle"
        /\ left' = {} /\ item' = NoProduct
        /\ reading' = reading /\ pinned' = pinned /\ view' = view
    BY <1>1 DEF Rollback, readVars
  <2>2. IsDatabase(db)
    BY DEF IInv, Good
  <2> QED
    BY <2>1, <2>2 DEF IInv, Transaction, Reading, Answers, AnsweredDone
<1>2. ASSUME NEW o \in Operations, AnswerRetry(o)
      PROVE  IInv'
  BY <1>2 DEF AnswerRetry, readVars, IInv, Transaction, Reading, Answers,
              AnsweredDone
<1> QED
  BY <1>1, <1>2

-----------------------------------------------------------------------------
(* Snapshot *)

LEMMA ReadSteps == ASSUME IInv, ReadStep PROVE IInv'
<1>1. ASSUME UNCHANGED writeVars, Reading'
      PROVE  IInv'
  BY <1>1 DEF writeVars, IInv, Transaction, Answers, AnsweredDone
<1>2. CASE ReadProducts
  <2>1. /\ db' = db /\ pinned' = db /\ reading' = "purchases"
        /\ view' = [products |-> db.products, purchases |-> {},
                    movements |-> <<>>]
    BY <1>2 DEF ReadProducts, NothingRead, writeVars
  <2>2. Good(db) /\ IsDatabase(db) /\ Remembers(db, db)
    BY DEF IInv, Good, Remembers
  <2>3. Reading'
    BY <2>1, <2>2 DEF Reading
  <2> QED
    BY <1>1, <1>2, <2>3 DEF ReadProducts
<1>3. CASE ReadPurchases
  <2>1. /\ db' = db /\ pinned' = pinned /\ reading' = "movements"
        /\ view' = [view EXCEPT !.purchases = pinned.purchases]
        /\ reading = "purchases"
    BY <1>3 DEF ReadPurchases, SnapshotDatabase, writeVars
  <2>2. /\ IsDatabase(pinned) /\ Good(pinned) /\ Remembers(pinned, db)
        /\ view = [products |-> pinned.products, purchases |-> {},
                   movements |-> <<>>]
    BY <2>1 DEF IInv, Reading
  <2>3. view' = [products |-> pinned.products, purchases |-> pinned.purchases,
                 movements |-> <<>>]
    BY <2>1, <2>2
  <2>4. Reading'
    BY <2>1, <2>2, <2>3 DEF Reading
  <2> QED
    BY <1>1, <1>3, <2>4 DEF ReadPurchases
<1>4. CASE ReadMovements
  <2>1. /\ db' = db /\ pinned' = NothingStored /\ reading' = "done"
        /\ view' = [view EXCEPT !.movements = pinned.movements]
        /\ reading = "movements"
    BY <1>4 DEF ReadMovements, SnapshotDatabase, writeVars
  <2>2. /\ Good(pinned) /\ Remembers(pinned, db)
        /\ view = [products |-> pinned.products, purchases |-> pinned.purchases,
                   movements |-> <<>>]
    BY <2>1 DEF IInv, Reading
  <2>3. view' = [products |-> pinned.products, purchases |-> pinned.purchases,
                 movements |-> pinned.movements]
    BY <2>1, <2>2
  <2>4. IsDatabase(NothingStored)
    BY NothingStoredGood DEF Good
  <2>5. Reading'
    BY <2>1, <2>2, <2>3, <2>4 DEF Reading
  <2> QED
    BY <1>1, <1>4, <2>5 DEF ReadMovements
<1> QED
  BY <1>2, <1>3, <1>4 DEF ReadStep

-----------------------------------------------------------------------------
(* The invariant is inductive *)

LEMMA InitIInv == Init => IInv
<1> SUFFICES ASSUME Init PROVE IInv
  OBVIOUS
<1>1. /\ db = NothingStored /\ work = NothingStored
      /\ Good(NothingStored) /\ IsDatabase(NothingStored)
  BY NothingStoredGood DEF Init, Good
<1>2. Transaction /\ Answers
  BY <1>1 DEF Init, Transaction, Answers, AnsweredDone
<1>3. Reading
  BY <1>1 DEF Init, Reading
<1> QED
  BY <1>1, <1>2, <1>3 DEF IInv

LEMMA NextIInv == IInv /\ [Next]_vars => IInv'
<1> SUFFICES ASSUME IInv, [Next]_vars
             PROVE  IInv'
  OBVIOUS
<1>1. CASE WriteStep
  BY <1>1, ReserveStep, OtherWriteSteps, InsertProductStep, InsertInitialStep,
     UpdateProductStep, RecordEditStep, AddItemStep, RecordItemStep,
     TakeStockStep, RecordWithdrawalStep, ArchiveProductStep, RecordDeleteStep,
     CommitStep DEF WriteStep
<1>2. CASE ReadStep
  BY <1>2, ReadSteps
<1>3. CASE UNCHANGED vars
  BY <1>3 DEF vars, writeVars, readVars, IInv, Transaction, Reading, Answers,
              AnsweredDone
<1> QED
  BY <1>1, <1>2, <1>3 DEF Next

LEMMA IInvAlways == Spec => []IInv
<1> QED
  BY InitIInv, NextIInv, PTL DEF Spec

(* The committed database changes only when a transaction commits.         *)
LEMMA OnlyCommits ==
    ASSUME IInv, [Next]_vars
    PROVE  db' = db \/ \E o \in Operations : Does(db, db', o)
<1>1. CASE Commit
  <2>1. stage = "commit" /\ db' = work
    BY <1>1 DEF Commit
  <2> QED
    BY <2>1, CommitPerforms
<1>2. CASE Next /\ ~Commit
  BY <1>2 DEF Next, WriteStep, ReadStep, Reserve, AnswerRetry, InsertProduct,
              InsertInitial, UpdateProduct, RecordEdit, AddItem, RecordItem,
              TakeStock, RecordWithdrawal, ArchiveProduct, RecordDelete,
              Rollback, ReadProducts, ReadPurchases, ReadMovements, Execute,
              writeVars
<1> QED
  BY <1>1, <1>2 DEF vars, writeVars

-----------------------------------------------------------------------------
(* The theorems *)

(* The tables, the open transaction and the snapshot keep their types: no  *)
(* statement stores a value its column does not take.                      *)
THEOREM TypeCorrect == Spec => []TypeOK
<1>1. ASSUME IInv PROVE TypeOK
  <2>1. /\ IsDatabase(db) /\ IsDatabase(work) /\ IsDatabase(pinned)
        /\ answered \subseteq Operations
        /\ current \in Operations \union {NoOperation}
        /\ reading \in {"products", "purchases", "movements", "done"}
    BY <1>1 DEF IInv, Good, Transaction, Reading, Answers
  <2>2. /\ stage \in {"idle", "update", "record", "commit"}
        /\ left \subseteq Products
        /\ item \in Products \union {NoProduct}
    BY <1>1, OperationFields DEF IInv, Transaction, Purchasing
  <2>3. ASSUME NEW d, IsDatabase(d), view.products = d.products,
               view.purchases \in {d.purchases, {}},
               view.movements \in {d.movements, <<>>}
        PROVE  /\ view.products \in [Products -> Product \union {NoProduct}]
               /\ view.purchases \subseteq RequestIds
               /\ \A k \in DOMAIN view.movements :
                      view.movements[k] \in Movement
    BY <2>3 DEF IsDatabase, IsMovementTable
  <2>4. /\ view = [products |-> view.products, purchases |-> view.purchases,
                   movements |-> view.movements]
        /\ \E d : /\ IsDatabase(d)
                  /\ view.products = d.products
                  /\ view.purchases \in {d.purchases, {}}
                  /\ view.movements \in {d.movements, <<>>}
    <3>1. CASE reading = "products"
      <4>1. IsDatabase(NothingStored)
        BY NothingStoredGood DEF Good
      <4> QED
        BY <1>1, <3>1, <4>1 DEF IInv, Reading, NothingRead, NothingStored
    <3>2. CASE reading \in {"purchases", "movements"}
      BY <1>1, <2>1, <3>2 DEF IInv, Reading
    <3>3. CASE reading = "done"
      BY <1>1, <3>3 DEF IInv, Reading, Good
    <3> QED
      BY <2>1, <3>1, <3>2, <3>3
  <2> QED
    BY <2>1, <2>2, <2>3, <2>4 DEF TypeOK
<1> QED
  BY <1>1, IInvAlways, PTL

(* No stock leaves 0..Limit, whatever operations are sent in whatever      *)
(* order: the WHERE clauses of Purchase and Withdraw and the test of       *)
(* SaveProduct are enough.                                                 *)
THEOREM StocksBounded == Spec => []StockWithinLimits
<1>1. IInv => StockWithinLimits
  BY DEF IInv, Good, Bounded, StockWithinLimits, Existing
<1> QED
  BY <1>1, IInvAlways, PTL

(* The stock column and the movements never disagree: the two statements   *)
(* of an operation are committed together, and a correction moves the      *)
(* stock by what it adds to the initial movement.                          *)
THEOREM StockIsSum == Spec => []StockBalances
<1>1. IInv => StockBalances
  BY DEF IInv, Good, StockBalances
<1> QED
  BY <1>1, IInvAlways, PTL

(* A committed purchase has exactly one movement for each of its items.    *)
LEMMA PurchasesCounted ==
    ASSUME NEW d, Good(d), NEW v, v.movements = d.movements,
           v.purchases = d.purchases, Remembers(d, db)
    PROVE  Complete(v)
<1>1. \A k \in DOMAIN v.movements :
          v.movements[k].kind = "purchase" =>
              v.movements[k].purchase \in v.purchases
  BY DEF Good, Referenced
<1>2. ASSUME NEW id \in v.purchases, NEW p \in Products
      PROVE  LET lines == {k \in DOMAIN v.movements :
                              /\ v.movements[k].purchase = id
                              /\ v.movements[k].product = p}
             IN  Cardinality(lines) =
                     IF p \in DOMAIN db.requests[id].items THEN 1 ELSE 0
  <2>1. db.requests[id] = d.requests[id]
    <3>1. id \in RequestIds /\ d.requests[id] # NoOperation
      BY DEF Good, IsDatabase, Referenced
    <3> QED
      BY <3>1 DEF Remembers
  <2>2. IF p \in DOMAIN d.requests[id].items
        THEN \E k \in DOMAIN d.movements : LinesOf(d, id, p) = {k}
        ELSE LinesOf(d, id, p) = {}
    BY DEF Good, WholePurchases
  <2>3. Cardinality(LinesOf(d, id, p)) =
            IF p \in DOMAIN db.requests[id].items THEN 1 ELSE 0
    BY <2>1, <2>2, FS_Singleton, FS_EmptySet
  <2> QED
    BY <2>3 DEF LinesOf
<1> QED
  BY <1>1, <1>2 DEF Complete

(* A purchase of several items is stored with all of them or not at all,   *)
(* although its statements add and record them one by one.                 *)
THEOREM PurchasesWhole == Spec => []PurchasesComplete
<1>1. IInv => PurchasesComplete
  BY PurchasesCounted DEF IInv, Remembers, PurchasesComplete
<1> QED
  BY <1>1, IInvAlways, PTL

(* Each audit entry starts where the change before it ended and the last   *)
(* one is the row: the version read before the update is still the         *)
(* committed one when the entry is written.                                *)
THEOREM AuditChained == Spec => []AuditContinues
<1>1. ASSUME IInv PROVE AuditContinues
  <2> SUFFICES ASSUME NEW k \in DOMAIN db.audit
               PROVE  LET p == db.audit[k].product
                          after == db.audit[k].after
                          later == {j \in DOMAIN db.audit :
                                       j > k /\ db.audit[j].product = p}
                          following == IF later = {} THEN VersionOf(db, p)
                                       ELSE db.audit[Min(later)].before
                      IN  [following EXCEPT !.stock = after.stock] = after
    BY DEF AuditContinues
  <2> DEFINE p == db.audit[k].product
             after == db.audit[k].after
             later == {j \in DOMAIN db.audit :
                          j > k /\ db.audit[j].product = p}
  <2>1. /\ \A j \in DOMAIN db.audit :
               /\ j > k
               /\ db.audit[j].product = p
               /\ \A i \in DOMAIN db.audit :
                      k < i /\ i < j => db.audit[i].product # p
               => Matches(db.audit[j].before, after)
        /\ (\A j \in DOMAIN db.audit : j > k => db.audit[j].product # p)
               => Matches(VersionOf(db, p), after)
    BY <1>1 DEF IInv, Good, Chain
  <2>2. DOMAIN db.audit \subseteq Nat
    BY <1>1 DEF IInv, Good, IsDatabase
  <2>3. CASE later = {}
    <3>1. Matches(VersionOf(db, p), after)
      BY <2>1, <2>3
    <3> QED
      BY <2>3, <3>1 DEF Matches
  <2>4. CASE later # {}
    <3>1. later \subseteq Nat
      BY <2>2
    <3>2. PICK j \in later : \A i \in later : j <= i
      BY <2>4, <3>1, NatMin
    <3>3. Min(later) = j
      <4>1. \A i \in later : (\A l \in later : i <= l) => i = j
        BY <3>1, <3>2
      <4> QED
        BY <3>2, <4>1 DEF Min
    <3>4. \A i \in DOMAIN db.audit : k < i /\ i < j => db.audit[i].product # p
      BY <2>2, <3>2
    <3>5. Matches(db.audit[j].before, after)
      BY <2>1, <3>2, <3>4
    <3> QED
      BY <2>4, <3>3, <3>5 DEF Matches
  <2> QED
    BY <2>3, <2>4
<1> QED
  BY <1>1, IInvAlways, PTL

(* A client that was answered finds its own request stored, even when      *)
(* requests are repeated or share an id, answers are lost and transactions *)
(* are rolled back.                                                        *)
THEOREM AnswersTrue == Spec => []AnsweredDone
<1>1. IInv => AnsweredDone
  BY DEF IInv, Answers
<1> QED
  BY <1>1, IInvAlways, PTL

(* The three queries of Snapshot see one database: its stocks are the sums *)
(* of its movements and its purchases are complete, whatever commits       *)
(* between them.                                                           *)
THEOREM SnapshotTogether == Spec => []SnapshotAgrees
<1>1. ASSUME IInv, reading = "done" PROVE Balanced(view) /\ Complete(view)
  <2>1. PICK d : /\ Good(d) /\ Remembers(d, db)
                 /\ view = [products |-> d.products,
                            purchases |-> d.purchases,
                            movements |-> d.movements]
    BY <1>1 DEF IInv, Reading
  <2>2. /\ view.products = d.products
        /\ view.purchases = d.purchases
        /\ view.movements = d.movements
    BY <2>1
  <2>3. Balanced(view)
    BY <2>1, <2>2 DEF Good, Balanced, Moved
  <2> QED
    BY <2>1, <2>2, <2>3, PurchasesCounted
<1> QED
  BY <1>1, IInvAlways, PTL DEF SnapshotAgrees

(* No transaction, also not one that corrects or removes initial           *)
(* movements, changes the row or the movements of a deleted product.       *)
THEOREM Frozen == Spec => DeletedFrozen
<1>1. ASSUME IInv, [Next]_vars
      PROVE  [\A p \in Existing : db.products[p].deleted =>
                  /\ db'.products[p] = db.products[p]
                  /\ MovementsOf(db', p) = MovementsOf(db, p)]_db
  <2>1. db' # db => Freezes(db, db')
    BY <1>1, OnlyCommits DEF Does
  <2> QED
    BY <2>1 DEF Freezes, Existing
<1> QED
  BY <1>1, IInvAlways, PTL DEF Spec, DeletedFrozen

(* The service implements the ledger: however its statements, rollbacks    *)
(* and repeated requests interleave, each operation takes effect in one    *)
(* step or not at all.                                                     *)
THEOREM LedgerImplemented == Spec => LedgerSpec
<1> DEFINE applied == db.requests
           inUse == {p \in Existing : ~db.products[p].deleted}
           counted == [p \in Products |-> InitialQuantity(db, p)]
           stock == [p \in Products |-> IF p \in Existing
                                        THEN db.products[p].stock ELSE 0]
<1>1. /\ inUse = Used(db)
      /\ counted = Counted(db)
      /\ stock = Stock(db)
  BY DEF Used, InUse, Counted, Stock, Existing
<1>2. /\ inUse' = Used(db')
      /\ counted' = Counted(db')
      /\ stock' = Stock(db')
  BY DEF Used, InUse, Counted, Stock, Existing
<1>3. Init => L!Init
  <2> SUFFICES ASSUME Init PROVE L!Init
    OBVIOUS
  <2>1. /\ db.requests = [id \in RequestIds |-> NoOperation]
        /\ \A p \in Products : db.products[p] = NoProduct
        /\ db.movements = <<>>
    BY DEF Init, NothingStored
  <2>2. \A p \in Products : InitialQuantity(db, p) = 0
    <3>1. \A p : Lines(db, p, {"initial"}) = {}
      BY <2>1 DEF Lines
    <3> QED
      BY <3>1, MovedSum, SumEmpty DEF InitialQuantity
  <2> QED
    BY <2>1, <2>2 DEF L!Init, Existing, L!Products, Products
<1>4. ASSUME IInv, [Next]_vars
      PROVE  [L!Next]_(L!ledgerVars)
  <2>1. CASE db' = db
    BY <2>1, <1>1, <1>2 DEF L!ledgerVars
  <2>2. ASSUME NEW o \in Operations, Does(db, db', o)
        PROVE  L!Next
    <3> SUFFICES L!Apply(o)
      BY DEF L!Next
    <3>1. /\ Applies(db, db', o)
          /\ Good(db')
      BY <2>2 DEF Does
    <3>2. Stock(db') \in [Products -> 0..Limit]
      BY <3>1, OperationsAssumption DEF Stock, Good, Bounded
    <3>3. /\ db.requests[o.id] = NoOperation
          /\ db'.requests = [db.requests EXCEPT ![o.id] = o]
          /\ stock' \in [Products -> 0..Limit]
      BY <1>2, <3>1, <3>2 DEF Applies
    <3>4. CASE o.action = "create"
      <4>1. /\ inUse' = inUse \union {o.id}
            /\ counted' = [counted EXCEPT ![o.id] = o.amount]
            /\ stock' = [stock EXCEPT ![o.id] = o.amount]
        BY <1>1, <1>2, <3>1, <3>4 DEF Applies
      <4> QED
        BY <3>3, <3>4, <4>1 DEF L!Apply, L!Create, L!Products, Products
    <3>5. CASE o.action = "edit"
      <4>1. /\ o.product \in inUse
            /\ inUse' = inUse
            /\ counted' = [counted EXCEPT ![o.product] = o.amount]
            /\ stock' = [stock EXCEPT ![o.product] =
                             @ + o.amount - counted[o.product]]
        BY <1>1, <1>2, <3>1, <3>5 DEF Applies
      <4> QED
        BY <3>3, <3>5, <4>1 DEF L!Apply, L!Correct, L!Products, Products
    <3>6. CASE o.action = "purchase"
      <4>1. /\ DOMAIN o.items \subseteq inUse
            /\ inUse' = inUse
            /\ counted' = counted
            /\ stock' = [p \in Products |->
                             IF p \in DOMAIN o.items
                             THEN stock[p] + o.items[p] ELSE stock[p]]
        BY <1>1, <1>2, <3>1, <3>6 DEF Applies
      <4> QED
        BY <3>3, <3>6, <4>1 DEF L!Apply, L!Buy, L!Products, Products
    <3>7. CASE o.action = "withdrawal"
      <4>1. /\ o.product \in inUse
            /\ inUse' = inUse
            /\ counted' = counted
            /\ stock' = [stock EXCEPT ![o.product] = @ - o.amount]
        BY <1>1, <1>2, <3>1, <3>7 DEF Applies
      <4> QED
        BY <3>3, <3>7, <4>1 DEF L!Apply, L!Take, L!Products, Products
    <3>8. CASE o.action = "delete"
      <4>1. /\ o.product \in inUse
            /\ inUse' = inUse \ {o.product}
            /\ counted' = counted
            /\ stock' = stock
        BY <1>1, <1>2, <3>1, <3>8 DEF Applies
      <4> QED
        BY <3>3, <3>8, <4>1 DEF L!Apply, L!Discard, L!Products, Products
    <3> QED
      BY <3>1, <3>4, <3>5, <3>6, <3>7, <3>8 DEF Applies
  <2> QED
    BY <1>4, <2>1, <2>2, OnlyCommits
<1> QED
  BY <1>3, <1>4, IInvAlways, PTL DEF Spec, LedgerSpec, L!Spec
=============================================================================
