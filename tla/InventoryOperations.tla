------------------------ MODULE InventoryOperations ------------------------
(***************************************************************************)
(* What the cleaning-supplies inventory is asked to do: the five kinds of  *)
(* POST, with the fields the service branches on, after their validation   *)
(* (SaveProduct, Purchase, Withdraw and DeleteProduct refuse the others    *)
(* before they touch the database).  A name stands for its name_key; the   *)
(* unit and the minimum of a product change nothing here and are left out. *)
(***************************************************************************)
EXTENDS Integers

CONSTANTS
    RequestIds,     \* request ids of clients; a product has that of its POST
    Names,          \* product names
    MaxQuantity,    \* the largest quantity of one request
    Limit,          \* the largest stock of a product
    Operations,     \* the requests clients send
    NoOperation     \* no request

Products == RequestIds

CreateOp == [action : {"create"}, id : RequestIds, name : Names,
             amount : 0..MaxQuantity]
EditOp == [action : {"edit"}, id : RequestIds, product : Products,
           name : Names, amount : 0..MaxQuantity]
PurchaseOp == [action : {"purchase"}, id : RequestIds,
               items : UNION {[bought -> 1..MaxQuantity] :
                                  bought \in SUBSET Products \ {{}}}]
WithdrawOp == [action : {"withdrawal"}, id : RequestIds, product : Products,
               amount : 1..MaxQuantity]
DeleteOp == [action : {"delete"}, id : RequestIds, product : Products]

ASSUME OperationsAssumption ==
    /\ Limit \in Nat
    /\ MaxQuantity \in 0..Limit
    /\ \A o \in Operations : \/ o \in CreateOp
                             \/ o \in EditOp
                             \/ o \in PurchaseOp
                             \/ o \in WithdrawOp
                             \/ o \in DeleteOp
    /\ NoOperation \notin Operations
=============================================================================
