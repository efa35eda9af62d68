-------------------------- MODULE ReservationLife --------------------------
(***************************************************************************)
(* What the rest of the program may rely on about the row of a             *)
(* reservation: ids are given in order and never again, any status may     *)
(* follow any other, and the row may be deleted.  Reservations implements  *)
(* this; OneTimeCodes is built on it.                                      *)
(***************************************************************************)
EXTENDS Integers

CONSTANT Ids            \* ids of the table, 1 and up

VARIABLE status         \* of each id; "none" before it, "gone" after it

Statuses == {"reservada", "concluida", "cancelada"}

Exists(id) == status[id] \in Statuses

Init == status = [id \in Ids |-> "none"]

(* Create: the next id. *)
Book(id) ==
    /\ status[id] = "none"
    /\ \A other \in Ids : other < id => status[other] # "none"
    /\ status' = [status EXCEPT ![id] = "reservada"]

(* UpdateStatus. *)
ChangeStatus(id, new) ==
    /\ Exists(id)
    /\ status' = [status EXCEPT ![id] = new]

(* Delete, also of an active reservation: the status may change between    *)
(* the check and the DELETE.                                               *)
Remove(id) ==
    /\ Exists(id)
    /\ status' = [status EXCEPT ![id] = "gone"]

Next ==
    \E id \in Ids :
        \/ Book(id)
        \/ \E new \in Statuses : ChangeStatus(id, new)
        \/ Remove(id)

Spec == Init /\ [][Next]_status
=============================================================================
