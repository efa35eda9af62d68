---------------------------- MODULE MCInventory ----------------------------
(***************************************************************************)
(* Instances of Inventory.  A purchase of two products, one of which may   *)
(* be missing, deleted or near the limit; the same request id sent with    *)
(* two bodies; withdrawals that together exceed the stock; corrections     *)
(* that insert, change and remove the initial movement.                    *)
(***************************************************************************)
EXTENDS Inventory

CONSTANTS a, b, buy, take, fix, fix2, drop, soap, mop

AllIds == {a, b, buy, take, fix, fix2, drop}

CreateA == [action |-> "create", id |-> a, name |-> soap, amount |-> 2]
CreateB == [action |-> "create", id |-> b, name |-> mop, amount |-> 0]
BuyBoth == [action |-> "purchase", id |-> buy,
            items |-> [p \in {a, b} |-> IF p = a THEN 2 ELSE 1]]
BuyOther == [action |-> "purchase", id |-> buy, items |-> [p \in {b} |-> 1]]
TakeA == [action |-> "withdrawal", id |-> take, product |-> a, amount |-> 2]
TakeB == [action |-> "withdrawal", id |-> take, product |-> b, amount |-> 1]
FixA == [action |-> "edit", id |-> fix, product |-> a, name |-> mop,
         amount |-> 0]
FixB == [action |-> "edit", id |-> fix2, product |-> b, name |-> soap,
         amount |-> 1]
FixAgain == [action |-> "edit", id |-> fix2, product |-> a, name |-> soap,
             amount |-> 1]
DropA == [action |-> "delete", id |-> drop, product |-> a]

WriteOps == {CreateA, CreateB, BuyBoth, BuyOther, TakeA, TakeB, FixA, FixB,
             FixAgain, DropA}
=============================================================================
