---------------------------- MODULE MCAccessLog ----------------------------
(***************************************************************************)
(* Model values for AccessLog: the installations a model starts from.      *)
(***************************************************************************)
EXTENDS AccessLog

Nothing == [id \in Ids |-> NoRow]

AnyDocument == CHOOSE d \in Documents : TRUE

(* A new database and an empty sheet. *)
Fresh == [rows |-> Nothing, sheet |-> <<>>]

(* A visit of a version without external ids, active and synchronised. *)
Legacy ==
    [rows |-> [Nothing EXCEPT ![1] = [ext |-> Blank, doc |-> AnyDocument,
                                      open |-> TRUE,
                                      sync |-> "SINCRONIZADO"]],
     sheet |-> <<[id |-> 1, ext |-> Blank, doc |-> AnyDocument,
                  open |-> TRUE]>>]

(* A new database beside the sheet of an earlier installation: an old row, *)
(* a completed visit, an active visit that an interrupted update of the    *)
(* sheet also left completed.                                              *)
Restored(t) ==
    [rows |-> Nothing,
     sheet |-> <<[id |-> 2, ext |-> Blank, doc |-> AnyDocument,
                  open |-> FALSE],
                 [id |-> 1, ext |-> t, doc |-> AnyDocument, open |-> TRUE],
                 [id |-> 1, ext |-> t, doc |-> AnyDocument, open |-> FALSE]>>]

(* A sheet in which an active visit has two rows ("expected both duplicate *)
(* rows" of sheets_client_test.go) and a completed one has its row; all is *)
(* synchronised.                                                           *)
Duplicated(active, completed) ==
    LET exts == <<active, completed>>
        entry(id) == [id |-> id, ext |-> exts[id], doc |-> AnyDocument,
                      open |-> id = 1]
    IN  [rows |-> [id \in Ids |-> IF id > 2 THEN NoRow ELSE
                      [ext |-> exts[id], doc |-> AnyDocument, open |-> id = 1,
                       sync |-> "SINCRONIZADO"]],
         sheet |-> <<entry(1), entry(1), entry(2)>>]

SyncInstallations ==
    LET token == CHOOSE t \in Tokens : TRUE
    IN  {Fresh, Legacy, Duplicated(Blank, token), Duplicated(token, Blank)}

FreshOnly == {Fresh}

ImportInstallations ==
    {Fresh, Legacy} \union {Restored(CHOOSE t \in Tokens : TRUE)}
=============================================================================
