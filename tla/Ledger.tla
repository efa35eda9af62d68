------------------------------ MODULE Ledger ------------------------------
(***************************************************************************)
(* What the inventory promises: an operation takes effect in one step, on  *)
(* all its products, once for its request id, and only when every product  *)
(* is in use and every stock stays between zero and the limit.             *)
(***************************************************************************)
EXTENDS InventoryOperations

VARIABLES
    applied,    \* the operation that took effect for each request id
    inUse,      \* products that are not deleted
    counted,    \* the initial quantity of each product
    stock       \* the stock of each product

ledgerVars == <<applied, inUse, counted, stock>>

Create(o) ==
    /\ o.action = "create"
    /\ inUse' = inUse \union {o.id}
    /\ counted' = [counted EXCEPT ![o.id] = o.amount]
    /\ stock' = [stock EXCEPT ![o.id] = o.amount]

Correct(o) ==
    /\ o.action = "edit"
    /\ o.product \in inUse
    /\ counted' = [counted EXCEPT ![o.product] = o.amount]
    /\ stock' = [stock EXCEPT ![o.product] =
                    @ + o.amount - counted[o.product]]
    /\ UNCHANGED inUse

Buy(o) ==
    /\ o.action = "purchase"
    /\ DOMAIN o.items \subseteq inUse
    /\ stock' = [p \in Products |->
                    IF p \in DOMAIN o.items THEN stock[p] + o.items[p]
                    ELSE stock[p]]
    /\ UNCHANGED <<inUse, counted>>

Take(o) ==
    /\ o.action = "withdrawal"
    /\ o.product \in inUse
    /\ stock' = [stock EXCEPT ![o.product] = @ - o.amount]
    /\ UNCHANGED <<inUse, counted>>

Discard(o) ==
    /\ o.action = "delete"
    /\ o.product \in inUse
    /\ inUse' = inUse \ {o.product}
    /\ UNCHANGED <<counted, stock>>

Apply(o) ==
    /\ applied[o.id] = NoOperation
    /\ applied' = [applied EXCEPT ![o.id] = o]
    /\ Create(o) \/ Correct(o) \/ Buy(o) \/ Take(o) \/ Discard(o)
    /\ stock' \in [Products -> 0..Limit]

Init ==
    /\ applied = [id \in RequestIds |-> NoOperation]
    /\ inUse = {}
    /\ counted = [p \in Products |-> 0]
    /\ stock = [p \in Products |-> 0]

Next == \E o \in Operations : Apply(o)

Spec == Init /\ [][Next]_ledgerVars
=============================================================================
