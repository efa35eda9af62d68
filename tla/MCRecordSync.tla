---------------------------- MODULE MCRecordSync ----------------------------
(***************************************************************************)
(* Each kind of record in turn, with an import that reads the sheet at any *)
(* time.                                                                   *)
(***************************************************************************)
EXTENDS RecordSync

CONSTANT i1

AllKinds == {"key", "diarista", "service", "delivery", "resident"}
=============================================================================
