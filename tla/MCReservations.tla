-------------------------- MODULE MCReservations --------------------------
(***************************************************************************)
(* Reservations with the windows of the code scaled down to a few days.    *)
(* Areas, apartments and goroutines are interchangeable.                   *)
(***************************************************************************)
EXTENDS Reservations, TLC

CONSTANTS grill, hall, u101, u102, w1, w2

Interchangeable ==
    Permutations(Areas) \union Permutations(Units)
        \union Permutations(Updaters)
=============================================================================
