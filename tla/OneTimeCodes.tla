--------------------------- MODULE OneTimeCodes ---------------------------
(***************************************************************************)
(* Codes of six digits that let a resident do one thing from a telephone,  *)
(* within TTL: sign the form of a reservation, sign the withdrawal of a    *)
(* delivery, upload the photo of a delivery.  The three services have a    *)
(* table each and share nothing else, so a behaviour follows one kind.     *)
(* Beside the codes stand what they are about: the life of the             *)
(* reservations, with their guests, or the deliveries.                     *)
(***************************************************************************)
EXTENDS Integers, FiniteSets

CONSTANTS
    Kinds,          \* the kinds to follow: reservation, delivery, photo
    Ids,            \* ids of reservations or deliveries, 1 and up
    Codes,          \* codes the service can draw
    Guests,         \* ids of guests
    Callers,        \* goroutines that serve CreateCode, Confirm or Upload
    TTL,            \* SignatureCodeTTL, DeliveryPhotoTTL
    NoRow,          \* a code or guest that was never stored
    Deleted,        \* a code or guest whose row was deleted
    MaxClock,       \* bound on the time that passes
    MaxCrashes      \* bound on the restarts of the process

ASSUME BoundsAssumption ==
    /\ Kinds \subseteq {"reservation", "delivery", "photo"}
    /\ Ids \subseteq Nat \ {0}
    /\ TTL \in Nat \ {0}
    /\ MaxClock \in Nat \ {0}
    /\ MaxCrashes \in Nat

Times == 1..(MaxClock + TTL)
Null == 0
NoSubject == 0

(* A row of reservation_signatures, delivery_withdrawal_signatures or      *)
(* delivery_photo_sessions.  signed is consumed_at or uploaded_at; form is *)
(* the reservation or delivery that the signed document names.             *)
Code == [subject : Ids \union {NoSubject}, created : Times, expires : Times,
         signed : Times \union {Null}, form : Ids \union {NoSubject},
         email : {"pending", "sent", "failed"}]

Guest == [reservation : Ids, confirmed : BOOLEAN]

(* A call in progress: what it is about, and when it read the table.       *)
Call == [code : Codes \union {NoRow}, subject : Ids \union {NoSubject},
         since : 1..MaxClock]

ASSUME NoneAssumption ==
    /\ NoRow # Deleted
    /\ NoRow \notin Code /\ NoRow \notin Guest /\ NoRow \notin Call
    /\ NoRow \notin Codes
    /\ Deleted \notin Code /\ Deleted \notin Guest

VARIABLES
    kind,       \* the service that is followed
    clock,      \* the time
    status,     \* status of each reservation or delivery
    deletions,  \* the table shopping_delivery_deletions
    codes,      \* the table of codes, by code_hash
    guests,     \* the table reservation_guests
    pc,         \* where each call of a service is
    call,       \* what each call knows
    mails,      \* e-mails with a signed document, per code
    crashes     \* restarts so far

tables == <<status, deletions, codes, guests>>
callVars == <<pc, call>>
vars == <<kind, clock, tables, callVars, mails, crashes>>

Life == INSTANCE ReservationLife

DeliveryStatuses == {"aguardando", "retirada"}

TypeOK ==
    /\ kind \in Kinds
    /\ clock \in 1..MaxClock
    /\ status \in [Ids -> {"none", "gone"} \union Life!Statuses
                              \union DeliveryStatuses]
    /\ deletions \subseteq Ids
    /\ codes \in [Codes -> Code \union {NoRow, Deleted}]
    /\ guests \in [Guests -> Guest \union {NoRow, Deleted}]
    /\ pc \in [Callers -> {"idle", "create", "confirm", "mail", "sent",
                           "failed"}]
    /\ call \in [Callers -> Call \union {NoRow}]
    /\ \A u \in Callers : pc[u] # "idle" => call[u] \in Call
    /\ mails \in [Codes -> Nat]
    /\ crashes \in 0..MaxCrashes

-----------------------------------------------------------------------------
(* Reservations, their guests, and deliveries *)

(* A code or guest is in its table. *)
Stored(row) == row \notin {NoRow, Deleted}

(* ON DELETE CASCADE. *)
CascadeTo(id) ==
    /\ codes' = [c \in Codes |->
           IF Stored(codes[c]) /\ codes[c].subject = id THEN Deleted
           ELSE codes[c]]
    /\ guests' = [g \in Guests |->
           IF Stored(guests[g]) /\ guests[g].reservation = id THEN Deleted
           ELSE guests[g]]

(* A reservation is booked or changes its status.                          *)
ReservationChanges ==
    /\ kind = "reservation"
    /\ \E id \in Ids :
           Life!Book(id) \/ \E new \in Life!Statuses : Life!ChangeStatus(id, new)
    /\ UNCHANGED <<kind, clock, deletions, codes, guests, callVars, mails,
                   crashes>>

(* A reservation is deleted.  Open sets foreign_keys on one connection of  *)
(* the pool; a DELETE on another one leaves codes and guests behind.       *)
ReservationDeleted(id) ==
    /\ kind = "reservation"
    /\ Life!Remove(id)
    /\ CascadeTo(id) \/ UNCHANGED <<codes, guests>>
    /\ UNCHANGED <<kind, clock, deletions, callVars, mails, crashes>>

(* Add: INSERT ... SELECT id FROM common_area_reservations. *)
AddGuest(g, id) ==
    /\ kind = "reservation"
    /\ guests[g] = NoRow
    /\ Life!Exists(id)
    /\ guests' = [guests EXCEPT ![g] =
                     [reservation |-> id, confirmed |-> FALSE]]
    /\ UNCHANGED <<kind, clock, status, deletions, codes, callVars, mails,
                   crashes>>

(* Confirm of a guest, and its reversal. *)
ConfirmGuest(g, confirmed) ==
    /\ Stored(guests[g])
    /\ guests' = [guests EXCEPT ![g] = [@ EXCEPT !.confirmed = confirmed]]
    /\ UNCHANGED <<kind, clock, status, deletions, codes, callVars, mails,
                   crashes>>

(* Create of a delivery. *)
DeliveryArrives(id) ==
    /\ kind = "delivery"
    /\ status[id] = "none"
    /\ status' = [status EXCEPT ![id] = "aguardando"]
    /\ UNCHANGED <<kind, clock, deletions, codes, guests, callVars, mails,
                   crashes>>

(* Mutation: the deletions are not looked at. *)
WaitingOrDeleted(id) == status[id] = "aguardando"

(* status = 'aguardando_retirada' and not among the deletions. *)
Waiting(id) == status[id] = "aguardando" /\ id \notin deletions

(* Withdraw, without a signature. *)
Withdraw(id) ==
    /\ Waiting(id)
    /\ status' = [status EXCEPT ![id] = "retirada"]
    /\ UNCHANGED <<kind, clock, deletions, codes, guests, callVars, mails,
                   crashes>>

(* Delete of a delivery keeps its row. *)
DeliveryDeleted(id) ==
    /\ status[id] = "aguardando"
    /\ deletions' = deletions \union {id}
    /\ UNCHANGED <<kind, clock, status, codes, guests, callVars, mails,
                   crashes>>

-----------------------------------------------------------------------------
(* Codes are made *)

(* The row is not consumed and does not expire before now. *)
Live(c, now) ==
    /\ Stored(codes[c])
    /\ codes[c].signed = Null
    /\ codes[c].expires > now

(* Mutation: expires_at is left at its zero value. *)
NewCodeExpired(id, now) ==
    [subject |-> id, created |-> now, expires |-> Null,
     signed |-> Null, form |-> NoSubject, email |-> "pending"]

NewCode(id, now) ==
    [subject |-> id, created |-> now, expires |-> now + TTL,
     signed |-> Null, form |-> NoSubject, email |-> "pending"]

Return(u) ==
    /\ pc' = [pc EXCEPT ![u] = "idle"]
    /\ call' = [call EXCEPT ![u] = NoRow]

Begin(u, step, c, id) ==
    /\ pc[u] = "idle"
    /\ pc' = [pc EXCEPT ![u] = step]
    /\ call' = [call EXCEPT ![u] =
                   [code |-> c, subject |-> id, since |-> clock]]

(* CreateCode of a reservation that is reservada, or of a delivery that    *)
(* waits, up to the transaction.                                           *)
CreateCode(u, id) ==
    /\ \/ kind = "reservation" /\ status[id] = "reservada"
       \/ kind = "delivery" /\ Waiting(id)
    /\ Begin(u, "create", NoRow, id)
    /\ UNCHANGED <<kind, clock, tables, mails, crashes>>

(* Mutation: every code that is alive stays so. *)
CodesReplacedNever(id, now) == codes

(* UPDATE ... SET expires_at = now: also of a code that expired before.    *)
CodesReplaced(id, now) ==
    [c \in Codes |->
        IF Stored(codes[c]) /\ codes[c].subject = id /\ codes[c].signed = Null
        THEN [codes[c] EXCEPT !.expires = now] ELSE codes[c]]

(* The transaction of CreateCode.  Its time was read after the checks and  *)
(* before the transaction.  The digits drawn were never drawn before.      *)
InsertCode(u, c) ==
    /\ pc[u] = "create"
    /\ codes[c] = NoRow
    /\ \E now \in call[u].since..clock :
           codes' = [CodesReplaced(call[u].subject, now) EXCEPT ![c] =
                        NewCode(call[u].subject, now)]
    /\ Return(u)
    /\ UNCHANGED <<kind, clock, status, deletions, guests, mails, crashes>>

(* The digits were drawn before, the reservation is gone and foreign keys  *)
(* are on, or the database is busy: all is rolled back.                    *)
CreateFails(u) ==
    /\ pc[u] = "create"
    /\ Return(u)
    /\ UNCHANGED <<kind, clock, tables, mails, crashes>>

(* Create of a photo session. *)
CreateSession(c) ==
    /\ kind = "photo"
    /\ codes[c] = NoRow
    /\ codes' = [codes EXCEPT ![c] = NewCode(NoSubject, clock)]
    /\ UNCHANGED <<kind, clock, status, deletions, guests, callVars, mails,
                   crashes>>

-----------------------------------------------------------------------------
(* Codes are used *)

(* Confirm of a reservation up to lookup: the code is alive and its        *)
(* reservation exists, in whatever status.                                 *)
Lookup(u, c) ==
    /\ kind = "reservation"
    /\ Live(c, clock)
    /\ Life!Exists(codes[c].subject)
    /\ Begin(u, "confirm", c, codes[c].subject)
    /\ UNCHANGED <<kind, clock, tables, mails, crashes>>

(* Confirm of a withdrawal, and Upload: the time is read, nothing else.    *)
(* Whoever calls has a code that was handed out, maybe long ago.           *)
ReadTime(u, c) ==
    /\ kind \in {"delivery", "photo"}
    /\ codes[c] # NoRow
    /\ Begin(u, "confirm", c, NoSubject)
    /\ UNCHANGED <<kind, clock, tables, mails, crashes>>

(* Mutation: lookup has seen that the code is alive. *)
ConsumeLate(c, now, form) ==
    /\ Stored(codes[c])
    /\ codes[c].signed = Null
    /\ codes' = [codes EXCEPT ![c] =
                    [@ EXCEPT !.signed = now, !.form = form,
                              !.email = "pending"]]

(* Mutation: consumed_at is not asked again. *)
ConsumeAgain(c, now, form) ==
    /\ Stored(codes[c])
    /\ codes[c].expires > now
    /\ codes' = [codes EXCEPT ![c] =
                    [@ EXCEPT !.signed = now, !.form = form,
                              !.email = "pending"]]

(* The UPDATE that consumes the code, if it is alive at the time that was  *)
(* read.                                                                   *)
Consume(c, now, form) ==
    /\ Live(c, now)
    /\ codes' = [codes EXCEPT ![c] =
                    [@ EXCEPT !.signed = now, !.form = form,
                              !.email = "pending"]]

(* Confirm of a reservation, the transaction: the time was read after      *)
(* lookup, and the address of the resident after that.                     *)
SignReservation(u) ==
    /\ kind = "reservation"
    /\ pc[u] = "confirm"
    /\ \E now \in call[u].since..clock :
           Consume(call[u].code, now, call[u].subject)
    /\ pc' = [pc EXCEPT ![u] = "mail"]
    /\ UNCHANGED <<kind, clock, status, deletions, guests, call, mails,
                   crashes>>

(* Mutation: the transaction ends with the signature. *)
SignCodeOnly(u) ==
    /\ kind = "delivery"
    /\ pc[u] = "confirm"
    /\ Consume(call[u].code, call[u].since, codes[call[u].code].subject)
    /\ pc' = [pc EXCEPT ![u] = "mail"]
    /\ UNCHANGED <<kind, clock, status, deletions, guests, call, mails,
                   crashes>>

(* Confirm of a withdrawal, the transaction: the delivery still waits, the *)
(* code is consumed and the delivery is withdrawn.                         *)
SignWithdrawal(u) ==
    LET c == call[u].code IN
    /\ kind = "delivery"
    /\ pc[u] = "confirm"
    /\ Consume(c, call[u].since, codes[c].subject)
    /\ Waiting(codes[c].subject)
    /\ status' = [status EXCEPT ![codes[c].subject] = "retirada"]
    /\ pc' = [pc EXCEPT ![u] = "mail"]
    /\ UNCHANGED <<kind, clock, deletions, guests, call, mails, crashes>>

(* Upload, one UPDATE. *)
Upload(u) ==
    /\ kind = "photo"
    /\ pc[u] = "confirm"
    /\ Consume(call[u].code, call[u].since, NoSubject)
    /\ Return(u)
    /\ UNCHANGED <<kind, clock, status, deletions, guests, mails, crashes>>

(* No row matches, no address is known, or the database is busy.           *)
ConfirmFails(u) ==
    /\ pc[u] = "confirm"
    /\ Return(u)
    /\ UNCHANGED <<kind, clock, tables, mails, crashes>>

(* The mail server takes the e-mail, and the client hears of it or not, or *)
(* it does not take it.                                                    *)
SendDocument(u) ==
    /\ pc[u] = "mail"
    /\ \/ /\ mails' = [mails EXCEPT ![call[u].code] = @ + 1]
          /\ pc' \in {[pc EXCEPT ![u] = "sent"], [pc EXCEPT ![u] = "failed"]}
       \/ /\ pc' = [pc EXCEPT ![u] = "failed"]
          /\ UNCHANGED mails
    /\ UNCHANGED <<kind, clock, tables, call, crashes>>

(* Mutation: every e-mail is reported as sent. *)
ReportSent(u) ==
    LET c == call[u].code IN
    /\ pc[u] \in {"sent", "failed"}
    /\ \/ /\ Stored(codes[c])
          /\ codes' = [codes EXCEPT ![c] = [@ EXCEPT !.email = "sent"]]
       \/ UNCHANGED codes
    /\ Return(u)
    /\ UNCHANGED <<kind, clock, status, deletions, guests, mails, crashes>>

(* email_status is written by code_hash; an error is ignored. *)
ReportMail(u) ==
    LET c == call[u].code IN
    /\ pc[u] \in {"sent", "failed"}
    /\ \/ /\ Stored(codes[c])
          /\ codes' = [codes EXCEPT ![c] = [@ EXCEPT !.email = pc[u]]]
       \/ UNCHANGED codes
    /\ Return(u)
    /\ UNCHANGED <<kind, clock, status, deletions, guests, mails, crashes>>

-----------------------------------------------------------------------------
Tick ==
    /\ clock < MaxClock
    /\ clock' = clock + 1
    /\ UNCHANGED <<kind, tables, callVars, mails, crashes>>

(* The process stops and starts again. *)
Crash ==
    /\ crashes < MaxCrashes
    /\ crashes' = crashes + 1
    /\ pc' = [u \in Callers |-> "idle"]
    /\ call' = [u \in Callers |-> NoRow]
    /\ UNCHANGED <<kind, clock, tables, mails>>

Init ==
    /\ kind \in Kinds
    /\ clock = 1
    /\ Life!Init
    /\ deletions = {}
    /\ codes = [c \in Codes |-> NoRow]
    /\ guests = [g \in Guests |-> NoRow]
    /\ pc = [u \in Callers |-> "idle"]
    /\ call = [u \in Callers |-> NoRow]
    /\ mails = [c \in Codes |-> 0]
    /\ crashes = 0

SubjectStep ==
    \/ ReservationChanges
    \/ \E id \in Ids :
           \/ ReservationDeleted(id)
           \/ DeliveryArrives(id)
           \/ Withdraw(id)
           \/ DeliveryDeleted(id)
    \/ \E g \in Guests :
           \/ \E id \in Ids : AddGuest(g, id)
           \/ \E confirmed \in BOOLEAN : ConfirmGuest(g, confirmed)

CodeStep ==
    \/ \E c \in Codes : CreateSession(c)
    \/ \E u \in Callers :
           \/ \E id \in Ids : CreateCode(u, id)
           \/ \E c \in Codes :
                  InsertCode(u, c) \/ Lookup(u, c) \/ ReadTime(u, c)
           \/ CreateFails(u)
           \/ SignReservation(u)
           \/ SignWithdrawal(u)
           \/ Upload(u)
           \/ ConfirmFails(u)
           \/ SendDocument(u)
           \/ ReportMail(u)

Next == SubjectStep \/ CodeStep \/ Tick \/ Crash

Spec == Init /\ [][Next]_vars

-----------------------------------------------------------------------------
(* Properties *)

(* Whoever asks for codes, and however often at once: one code at most of  *)
(* a reservation or delivery is alive.                                     *)
OneLiveCode ==
    kind # "photo" =>
        \A c, d \in Codes :
            /\ Live(c, clock)
            /\ Live(d, clock)
            /\ codes[c].subject = codes[d].subject
            => c = d

(* A signature bears a time at which its code was alive: after CreateCode, *)
(* before TTL had passed or another code of the same subject took over.    *)
(* (A code that took over moves the end even of a code that had expired,   *)
(* so a call that overlaps it may sign after TTL.)                         *)
SignedInTime ==
    \A c \in Codes :
        Stored(codes[c]) /\ codes[c].signed # Null =>
            /\ codes[c].created <= codes[c].signed
            /\ codes[c].signed < codes[c].expires
            /\ \/ codes[c].expires = codes[c].created + TTL
               \/ \E d \in Codes \ {c} :
                      /\ Stored(codes[d])
                      /\ codes[d].subject = codes[c].subject
                      /\ codes[d].created = codes[c].expires

(* Codes are used once, "expected one-use code error": what was signed is  *)
(* never signed again, nor is the result of its e-mail taken back, until   *)
(* the row goes.                                                           *)
SignatureKept ==
    [][\A c \in Codes :
           Stored(codes[c]) /\ codes[c].signed # Null =>
               \/ codes'[c] = codes[c]
               \/ codes'[c] = Deleted
               \/ /\ codes[c].email = "pending"
                  /\ codes'[c] \in {[codes[c] EXCEPT !.email = "sent"],
                                    [codes[c] EXCEPT !.email = "failed"]}
      ]_codes

(* A document is e-mailed once at most, only after it was signed, and it   *)
(* is reported as sent only if the mail server took it.                    *)
MailedOnce ==
    \A c \in Codes :
        /\ mails[c] <= 1
        /\ Stored(codes[c]) =>
               /\ mails[c] = 1 => codes[c].signed # Null
               /\ codes[c].email = "sent" => mails[c] = 1

(* A delivery is withdrawn or deleted, not both: "withdrawn deliveries     *)
(* cannot be removed this way".                                            *)
WithdrawnOrDeleted == \A id \in deletions : status[id] = "aguardando"

(* One signature at most withdraws a delivery, and a signed code means it  *)
(* was withdrawn.                                                          *)
SignedWithdrawal ==
    kind = "delivery" =>
        \A c \in Codes :
            Stored(codes[c]) /\ codes[c].signed # Null =>
                /\ status[codes[c].subject] = "retirada"
                /\ \A d \in Codes \ {c} :
                       Stored(codes[d]) /\ codes[d].signed # Null =>
                           codes[d].subject # codes[c].subject

(* Guests go with their reservation: ON DELETE CASCADE, and the test of    *)
(* the guests that finds "orphan guests".                                  *)
NoOrphanGuests ==
    \A g \in Guests :
        Stored(guests[g]) => status[guests[g].reservation] # "gone"
=============================================================================
