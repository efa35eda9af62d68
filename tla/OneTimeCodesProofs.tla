------------------------- MODULE OneTimeCodesProofs -------------------------
(***************************************************************************)
(* Proofs about OneTimeCodes, for any number of codes, calls, reservations *)
(* and deliveries, and any length of life of a code.                       *)
(***************************************************************************)
EXTENDS OneTimeCodes, TLAPS

Types ==
    /\ \A c \in Codes : Stored(codes[c]) => codes[c] \in Code
    /\ \A u \in Callers : pc[u] # "idle" => call[u] \in Call

LEMMA RowTypes == TypeOK => Types
  BY NoneAssumption DEF TypeOK, Types, Stored

-----------------------------------------------------------------------------
(* Types *)

LEMMA NewCodeType ==
    ASSUME NEW id \in Ids \union {NoSubject}, NEW now \in 1..MaxClock
    PROVE  NewCode(id, now) \in Code
<1>1. now \in Times /\ now + TTL \in Times
  BY BoundsAssumption DEF Times
<1> QED
  BY <1>1 DEF NewCode, Code, Null, NoSubject

(* CodesReplaced touches expires_at of unsigned rows only.                 *)
LEMMA ReplacedType ==
    ASSUME TypeOK, NEW id, NEW now \in 1..MaxClock
    PROVE  CodesReplaced(id, now) \in [Codes -> Code \union {NoRow, Deleted}]
<1>1. now \in Times
  BY BoundsAssumption DEF Times
<1> SUFFICES ASSUME NEW c \in Codes
             PROVE  CodesReplaced(id, now)[c] \in Code \union {NoRow, Deleted}
  BY DEF CodesReplaced
<1>2. codes[c] \in Code \union {NoRow, Deleted}
  BY DEF TypeOK
<1>3. Stored(codes[c]) => codes[c] \in Code
  BY RowTypes DEF Types
<1>4. codes[c] \in Code => [codes[c] EXCEPT !.expires = now] \in Code
  BY <1>1 DEF Code
<1> QED
  BY <1>2, <1>3, <1>4 DEF CodesReplaced

LEMMA ConsumeType ==
    ASSUME TypeOK, NEW c, NEW now \in 1..MaxClock,
           NEW form \in Ids \union {NoSubject}, Consume(c, now, form)
    PROVE  codes' \in [Codes -> Code \union {NoRow, Deleted}]
<1>1. now \in Times
  BY BoundsAssumption DEF Times
<1>2. codes' = [codes EXCEPT ![c] = [codes[c] EXCEPT !.signed = now, !.form = form,
                                                    !.email = "pending"]]
  BY DEF Consume
<1>3. CASE c \in Codes
  <2>1. codes[c] \in Code
    BY <1>3, RowTypes DEF Consume, Live, Types
  <2>2. [codes[c] EXCEPT !.signed = now, !.form = form, !.email = "pending"] \in Code
    BY <1>1, <2>1 DEF Code
  <2> QED
    BY <1>2, <2>2 DEF TypeOK
<1>4. CASE c \notin Codes
  BY <1>2, <1>4 DEF TypeOK
<1> QED
  BY <1>3, <1>4

LEMMA LifeType ==
    ASSUME TypeOK, NEW id \in Ids,
           \/ Life!Book(id)
           \/ \E new \in Life!Statuses : Life!ChangeStatus(id, new)
           \/ Life!Remove(id)
    PROVE  status' \in [Ids -> {"none", "gone"} \union Life!Statuses
                                   \union DeliveryStatuses]
  BY DEF TypeOK, Life!Book, Life!ChangeStatus, Life!Remove, Life!Statuses

LEMMA BeginType ==
    ASSUME TypeOK, NEW u \in Callers,
           NEW step \in {"create", "confirm"}, NEW c \in Codes \union {NoRow},
           NEW id \in Ids \union {NoSubject}, Begin(u, step, c, id)
    PROVE  /\ pc' \in [Callers -> {"idle", "create", "confirm", "mail", "sent",
                                   "failed"}]
           /\ call' \in [Callers -> Call \union {NoRow}]
           /\ \A v \in Callers : pc'[v] # "idle" => call'[v] \in Call
<1>1. [code |-> c, subject |-> id, since |-> clock] \in Call
  BY DEF Call, TypeOK
<1> QED
  BY <1>1 DEF Begin, TypeOK

LEMMA ReturnType ==
    ASSUME TypeOK, NEW u \in Callers, Return(u)
    PROVE  /\ pc' \in [Callers -> {"idle", "create", "confirm", "mail", "sent",
                                   "failed"}]
           /\ call' \in [Callers -> Call \union {NoRow}]
           /\ \A v \in Callers : pc'[v] # "idle" => call'[v] \in Call
  BY DEF Return, TypeOK

LEMMA SubjectTypeStep == TypeOK /\ SubjectStep => TypeOK'
<1> SUFFICES ASSUME TypeOK, SubjectStep PROVE TypeOK'
  OBVIOUS
<1>1. CASE ReservationChanges
  <2>1. status' \in [Ids -> {"none", "gone"} \union Life!Statuses
                                \union DeliveryStatuses]
    BY <1>1, LifeType DEF ReservationChanges
  <2> QED
    BY <1>1, <2>1 DEF ReservationChanges, callVars, TypeOK
<1>2. ASSUME NEW id \in Ids, ReservationDeleted(id) PROVE TypeOK'
  <2>1. status' \in [Ids -> {"none", "gone"} \union Life!Statuses
                                \union DeliveryStatuses]
    BY <1>2, LifeType DEF ReservationDeleted
  <2>2. codes' \in [Codes -> Code \union {NoRow, Deleted}]
    BY <1>2 DEF ReservationDeleted, CascadeTo, TypeOK
  <2>3. guests' \in [Guests -> Guest \union {NoRow, Deleted}]
    BY <1>2 DEF ReservationDeleted, CascadeTo, TypeOK
  <2> QED
    BY <1>2, <2>1, <2>2, <2>3 DEF ReservationDeleted, callVars, TypeOK
<1>3. ASSUME NEW id \in Ids, DeliveryArrives(id) \/ Withdraw(id) \/ DeliveryDeleted(id)
      PROVE  TypeOK'
  <2>1. CASE DeliveryArrives(id)
    BY <2>1 DEF DeliveryArrives, callVars, TypeOK, DeliveryStatuses
  <2>2. CASE Withdraw(id)
    BY <2>2 DEF Withdraw, callVars, TypeOK, DeliveryStatuses
  <2>3. CASE DeliveryDeleted(id)
    BY <2>3 DEF DeliveryDeleted, callVars, TypeOK
  <2> QED
    BY <1>3, <2>1, <2>2, <2>3
<1>4. ASSUME NEW g \in Guests, NEW id \in Ids, AddGuest(g, id) PROVE TypeOK'
  <2>1. [reservation |-> id, confirmed |-> FALSE] \in Guest
    BY DEF Guest
  <2> QED
    BY <1>4, <2>1 DEF AddGuest, callVars, TypeOK
<1>5. ASSUME NEW g \in Guests, NEW confirmed \in BOOLEAN, ConfirmGuest(g, confirmed)
      PROVE  TypeOK'
  <2>1. guests[g] \in Guest
    BY <1>5, NoneAssumption DEF ConfirmGuest, Stored, TypeOK
  <2>2. [guests[g] EXCEPT !.confirmed = confirmed] \in Guest
    BY <2>1 DEF Guest
  <2> QED
    BY <1>5, <2>2 DEF ConfirmGuest, callVars, TypeOK
<1> QED
  BY <1>1, <1>2, <1>3, <1>4, <1>5 DEF SubjectStep

LEMMA CodeTypeStep == TypeOK /\ CodeStep => TypeOK'
<1> SUFFICES ASSUME TypeOK, CodeStep PROVE TypeOK'
  OBVIOUS
<1>0. clock \in 1..MaxClock /\ NoSubject \in Ids \union {NoSubject}
  BY DEF TypeOK
<1>1. ASSUME NEW c \in Codes, CreateSession(c) PROVE TypeOK'
  <2>1. NewCode(NoSubject, clock) \in Code
    BY <1>0, NewCodeType
  <2> QED
    BY <1>1, <2>1 DEF CreateSession, callVars, TypeOK
<1>2. ASSUME NEW u \in Callers, NEW id \in Ids, CreateCode(u, id) PROVE TypeOK'
  <2>1. Begin(u, "create", NoRow, id)
    BY <1>2 DEF CreateCode
  <2> QED
    BY <1>2, <2>1, BeginType DEF CreateCode, tables, TypeOK
<1>3. ASSUME NEW u \in Callers, NEW c \in Codes, InsertCode(u, c) PROVE TypeOK'
  <2>1. call[u] \in Call
    BY <1>3 DEF InsertCode, TypeOK
  <2> PICK now \in call[u].since..clock :
             codes' = [CodesReplaced(call[u].subject, now) EXCEPT ![c] =
                          NewCode(call[u].subject, now)]
    BY <1>3 DEF InsertCode
  <2>2. now \in 1..MaxClock
    BY <1>0, <2>1, BoundsAssumption DEF Call
  <2>3. CodesReplaced(call[u].subject, now) \in [Codes -> Code \union {NoRow, Deleted}]
    BY <2>2, ReplacedType
  <2>4. NewCode(call[u].subject, now) \in Code
    BY <2>1, <2>2, NewCodeType DEF Call
  <2>5. codes' \in [Codes -> Code \union {NoRow, Deleted}]
    BY <2>3, <2>4
  <2>6. Return(u)
    BY <1>3 DEF InsertCode
  <2> QED
    BY <1>3, <2>5, <2>6, ReturnType DEF InsertCode, TypeOK
<1>4. ASSUME NEW u \in Callers, NEW c \in Codes, Lookup(u, c) PROVE TypeOK'
  <2>1. codes[c].subject \in Ids \union {NoSubject}
    BY <1>4, RowTypes DEF Lookup, Live, Types, Code
  <2>2. Begin(u, "confirm", c, codes[c].subject)
    BY <1>4 DEF Lookup
  <2> QED
    BY <1>4, <2>1, <2>2, BeginType DEF Lookup, tables, TypeOK
<1>5. ASSUME NEW u \in Callers, NEW c \in Codes, ReadTime(u, c) PROVE TypeOK'
  <2>1. Begin(u, "confirm", c, NoSubject)
    BY <1>5 DEF ReadTime
  <2> QED
    BY <1>0, <1>5, <2>1, BeginType DEF ReadTime, tables, TypeOK
<1>6. ASSUME NEW u \in Callers, CreateFails(u) \/ ConfirmFails(u) PROVE TypeOK'
  <2>1. Return(u) /\ UNCHANGED <<kind, clock, tables, mails, crashes>>
    BY <1>6 DEF CreateFails, ConfirmFails
  <2> QED
    BY <2>1, ReturnType DEF tables, TypeOK
<1>7. ASSUME NEW u \in Callers, SignReservation(u) PROVE TypeOK'
  <2>1. call[u] \in Call
    BY <1>7 DEF SignReservation, TypeOK
  <2> PICK now \in call[u].since..clock :
             Consume(call[u].code, now, call[u].subject)
    BY <1>7 DEF SignReservation
  <2>2. now \in 1..MaxClock
    BY <1>0, <2>1, BoundsAssumption DEF Call
  <2>3. codes' \in [Codes -> Code \union {NoRow, Deleted}]
    BY <2>1, <2>2, ConsumeType DEF Call
  <2> QED
    BY <1>7, <2>1, <2>3 DEF SignReservation, TypeOK
<1>8. ASSUME NEW u \in Callers, SignWithdrawal(u) PROVE TypeOK'
  <2>1. call[u] \in Call
    BY <1>8 DEF SignWithdrawal, TypeOK
  <2> DEFINE c == call[u].code
  <2>2. Consume(c, call[u].since, codes[c].subject) /\ pc[u] = "confirm"
    BY <1>8 DEF SignWithdrawal
  <2>3. codes' \in [Codes -> Code \union {NoRow, Deleted}]
    <3>1. CASE c \in Codes
      <4>1. codes[c].subject \in Ids \union {NoSubject}
        BY <2>2, <3>1, RowTypes DEF Consume, Live, Types, Code
      <4>2. call[u].since \in 1..MaxClock
        BY <2>1 DEF Call
      <4> QED
        BY <2>2, <4>1, <4>2, ConsumeType
    <3>2. CASE c \notin Codes
      BY <2>2, <3>2 DEF Consume, TypeOK
    <3> QED
      BY <3>1, <3>2
  <2>4. status' = [status EXCEPT ![codes[c].subject] = "retirada"]
    BY <1>8 DEF SignWithdrawal
  <2>5. status' \in [Ids -> {"none", "gone"} \union Life!Statuses
                                \union DeliveryStatuses]
    BY <2>4 DEF TypeOK, DeliveryStatuses
  <2> QED
    BY <1>8, <2>1, <2>3, <2>5 DEF SignWithdrawal, TypeOK
<1>9. ASSUME NEW u \in Callers, Upload(u) PROVE TypeOK'
  <2>1. call[u] \in Call
    BY <1>9 DEF Upload, TypeOK
  <2>2. codes' \in [Codes -> Code \union {NoRow, Deleted}]
    BY <1>0, <1>9, <2>1, ConsumeType DEF Upload, Call
  <2>3. Return(u)
    BY <1>9 DEF Upload
  <2> QED
    BY <1>9, <2>2, <2>3, ReturnType DEF Upload, TypeOK
<1>10. ASSUME NEW u \in Callers, SendDocument(u) PROVE TypeOK'
  <2>1. mails' \in [Codes -> Nat]
    BY <1>10 DEF SendDocument, TypeOK
  <2>2. /\ pc' \in [Callers -> {"idle", "create", "confirm", "mail", "sent",
                                "failed"}]
        /\ \A v \in Callers : pc'[v] # "idle" => call[v] \in Call
    BY <1>10 DEF SendDocument, TypeOK
  <2> QED
    BY <1>10, <2>1, <2>2 DEF SendDocument, tables, TypeOK
<1>11. ASSUME NEW u \in Callers, ReportMail(u) PROVE TypeOK'
  <2> DEFINE c == call[u].code
  <2>1. codes' \in [Codes -> Code \union {NoRow, Deleted}]
    <3>1. CASE UNCHANGED codes
      BY <3>1 DEF TypeOK
    <3>2. CASE /\ c \in Codes
               /\ Stored(codes[c])
               /\ codes' = [codes EXCEPT ![c] = [codes[c] EXCEPT !.email = pc[u]]]
      <4>1. codes[c] \in Code
        BY <3>2, RowTypes DEF Types
      <4>2. pc[u] \in {"sent", "failed"}
        BY <1>11 DEF ReportMail
      <4>3. [codes[c] EXCEPT !.email = pc[u]] \in Code
        BY <4>1, <4>2 DEF Code
      <4> QED
        BY <3>2, <4>3 DEF TypeOK
    <3>3. CASE /\ c \notin Codes
               /\ codes' = [codes EXCEPT ![c] = [codes[c] EXCEPT !.email = pc[u]]]
      BY <3>3 DEF TypeOK
    <3> QED
      BY <1>11, <3>1, <3>2, <3>3 DEF ReportMail
  <2>2. Return(u)
    BY <1>11 DEF ReportMail
  <2> QED
    BY <1>11, <2>1, <2>2, ReturnType DEF ReportMail, TypeOK
<1> QED
  BY <1>1, <1>2, <1>3, <1>4, <1>5, <1>6, <1>7, <1>8, <1>9, <1>10, <1>11
     DEF CodeStep

LEMMA TypeInit == Init => TypeOK
  BY BoundsAssumption DEF Init, TypeOK, Life!Init

LEMMA TypeStep == TypeOK /\ [Next]_vars => TypeOK'
<1> SUFFICES ASSUME TypeOK, [Next]_vars PROVE TypeOK'
  OBVIOUS
<1>1. CASE SubjectStep
  BY <1>1, SubjectTypeStep
<1>2. CASE CodeStep
  BY <1>2, CodeTypeStep
<1>3. CASE Tick
  BY <1>3, BoundsAssumption DEF Tick, tables, callVars, TypeOK
<1>4. CASE Crash
  BY <1>4, BoundsAssumption DEF Crash, tables, TypeOK
<1>5. CASE UNCHANGED vars
  BY <1>5 DEF vars, tables, callVars, TypeOK
<1> QED
  BY <1>1, <1>2, <1>3, <1>4, <1>5 DEF Next

(* Every variable keeps its type, for all kinds of codes: in particular no *)
(* row gets a time that is not one of the clock.                           *)
THEOREM TypeCorrect == Spec => []TypeOK
<1>1. Init => TypeOK
  BY TypeInit
<1>2. TypeOK /\ [Next]_vars => TypeOK'
  BY TypeStep
<1> QED
  BY <1>1, <1>2, PTL DEF Spec

-----------------------------------------------------------------------------
(* What a step does to the rows of the codes *)

(* A call knows a code that was handed out before it read the time. *)
CallInv(u) ==
    /\ pc[u] # "idle" => call[u].since <= clock
    /\ pc[u] = "create" => call[u].subject \in Ids
    /\ pc[u] \notin {"idle", "create"} =>
           call[u].code \in Codes /\ codes[call[u].code] # NoRow
    /\ pc[u] = "confirm" /\ Stored(codes[call[u].code]) =>
           codes[call[u].code].created <= call[u].since

Calls == \A u \in Callers : CallInv(u)

Cascaded(id) ==
    codes' = [c \in Codes |->
                 IF Stored(codes[c]) /\ codes[c].subject = id THEN Deleted
                 ELSE codes[c]]

Inserted(c, id, now) ==
    /\ codes[c] = NoRow
    /\ codes' = [CodesReplaced(id, now) EXCEPT ![c] = NewCode(id, now)]

SessionCreated(c) ==
    /\ kind = "photo"
    /\ codes[c] = NoRow
    /\ codes' = [codes EXCEPT ![c] = NewCode(NoSubject, clock)]

Reported(c, result) ==
    /\ Stored(codes[c])
    /\ codes' = [codes EXCEPT ![c] = [codes[c] EXCEPT !.email = result]]

Effect ==
    \/ UNCHANGED codes
    \/ \E id \in Ids : Cascaded(id)
    \/ \E c \in Codes, id \in Ids, now \in 1..clock : Inserted(c, id, now)
    \/ \E c \in Codes : SessionCreated(c)
    \/ \E c \in Codes, now \in 1..clock, form \in Ids \union {NoSubject} :
           Consume(c, now, form) /\ codes[c].created <= now
    \/ \E c \in Codes, result \in {"sent", "failed"} : Reported(c, result)

(* Time passes only while the rows stand still, and kind is chosen once.   *)
LEMMA ClockStep ==
    ASSUME TypeOK, [Next]_vars
    PROVE  /\ kind' = kind
           /\ clock \in Nat /\ clock' \in Nat /\ clock <= clock'
           /\ clock' = clock \/ UNCHANGED codes
<1>1. SubjectStep => UNCHANGED <<kind, clock>>
  BY DEF SubjectStep, ReservationChanges, ReservationDeleted, AddGuest,
         ConfirmGuest, DeliveryArrives, Withdraw, DeliveryDeleted
<1>2. CodeStep => UNCHANGED <<kind, clock>>
  BY DEF CodeStep, CreateSession, CreateCode, InsertCode, Lookup, ReadTime,
         CreateFails, SignReservation, SignWithdrawal, Upload, ConfirmFails,
         SendDocument, ReportMail
<1>3. Tick => UNCHANGED <<kind, codes>> /\ clock' = clock + 1
  BY DEF Tick, tables
<1>4. Crash \/ UNCHANGED vars => UNCHANGED <<kind, clock>>
  BY DEF Crash, vars
<1>5. clock \in Nat
  BY BoundsAssumption DEF TypeOK
<1> QED
  BY <1>1, <1>2, <1>3, <1>4, <1>5 DEF Next

LEMMA Effects ==
    ASSUME TypeOK, Calls, [Next]_vars
    PROVE  Effect
<1>0. clock \in 1..MaxClock /\ MaxClock \in Nat
  BY BoundsAssumption DEF TypeOK
<1>1. CASE SubjectStep
  <2>1. ASSUME NEW id \in Ids, ReservationDeleted(id) PROVE Effect
    BY <2>1 DEF ReservationDeleted, CascadeTo, Effect, Cascaded
  <2>2. ASSUME UNCHANGED codes PROVE Effect
    BY <2>2 DEF Effect
  <2>3. ReservationChanges => UNCHANGED codes
    BY DEF ReservationChanges
  <2>4. \A id \in Ids :
            DeliveryArrives(id) \/ Withdraw(id) \/ DeliveryDeleted(id) =>
                UNCHANGED codes
    BY DEF DeliveryArrives, Withdraw, DeliveryDeleted
  <2>5. \A g \in Guests :
            (\E id \in Ids : AddGuest(g, id))
                \/ (\E confirmed \in BOOLEAN : ConfirmGuest(g, confirmed)) =>
                UNCHANGED codes
    BY DEF AddGuest, ConfirmGuest
  <2> QED
    BY <1>1, <2>1, <2>2, <2>3, <2>4, <2>5 DEF SubjectStep
<1>2. CASE CodeStep
  <2>1. ASSUME NEW c \in Codes, CreateSession(c) PROVE Effect
    BY <2>1 DEF CreateSession, SessionCreated, Effect
  <2>2. ASSUME NEW u \in Callers, NEW c \in Codes, InsertCode(u, c) PROVE Effect
    <3> PICK now \in call[u].since..clock :
               codes' = [CodesReplaced(call[u].subject, now) EXCEPT ![c] =
                            NewCode(call[u].subject, now)]
      BY <2>2 DEF InsertCode
    <3>1. call[u].since \in 1..MaxClock /\ call[u].subject \in Ids
      BY <2>2 DEF InsertCode, TypeOK, Call, Calls, CallInv
    <3>2. now \in 1..clock
      BY <1>0, <3>1
    <3>3. Inserted(c, call[u].subject, now)
      BY <2>2 DEF InsertCode, Inserted
    <3> QED
      BY <3>1, <3>2, <3>3 DEF Effect
  <2>3. ASSUME NEW u \in Callers, NEW now \in call[u].since..clock,
               NEW form \in Ids \union {NoSubject},
               pc[u] = "confirm", Consume(call[u].code, now, form)
        PROVE  Effect
    <3> DEFINE c == call[u].code
    <3>1. call[u].since \in 1..MaxClock /\ c \in Codes
      BY <2>3 DEF TypeOK, Call, Calls, CallInv
    <3>2. Stored(codes[c])
      BY <2>3 DEF Consume, Live
    <3>3. codes[c].created <= call[u].since
      BY <2>3, <3>2 DEF Calls, CallInv
    <3>4. codes[c].created \in Nat
      BY <3>1, <3>2, RowTypes, BoundsAssumption DEF Types, Code, Times
    <3>5. now \in 1..clock /\ codes[c].created <= now
      BY <1>0, <3>1, <3>3, <3>4
    <3> QED
      BY <2>3, <3>1, <3>5 DEF Effect
  <2>4. ASSUME NEW u \in Callers, SignReservation(u) PROVE Effect
    <3>1. pc[u] = "confirm" /\ call[u].subject \in Ids \union {NoSubject}
      BY <2>4 DEF SignReservation, TypeOK, Call
    <3> QED
      BY <2>3, <2>4, <3>1 DEF SignReservation
  <2>5. ASSUME NEW u \in Callers, SignWithdrawal(u) \/ Upload(u) PROVE Effect
    <3> DEFINE c == call[u].code
    <3>1. pc[u] = "confirm"
      BY <2>5 DEF SignWithdrawal, Upload
    <3>2. call[u].since \in call[u].since..clock
      BY <1>0, <3>1 DEF TypeOK, Call, Calls, CallInv
    <3>3. c \in Codes
      BY <3>1 DEF Calls, CallInv
    <3>4. Stored(codes[c]) => codes[c].subject \in Ids \union {NoSubject}
      BY <3>3, RowTypes DEF Types, Code
    <3>5. \E form \in Ids \union {NoSubject} : Consume(c, call[u].since, form)
      BY <2>5, <3>4 DEF SignWithdrawal, Upload, Consume, Live
    <3> QED
      BY <2>3, <3>1, <3>2, <3>5
  <2>6. ASSUME NEW u \in Callers, ReportMail(u) PROVE Effect
    <3>1. call[u].code \in Codes
      BY <2>6 DEF ReportMail, Calls, CallInv
    <3> QED
      BY <2>6, <3>1 DEF ReportMail, Reported, Effect
  <2>7. ASSUME UNCHANGED codes PROVE Effect
    BY <2>7 DEF Effect
  <2>8. \A u \in Callers :
            \/ \E id \in Ids : CreateCode(u, id)
            \/ \E c \in Codes : Lookup(u, c) \/ ReadTime(u, c)
            \/ CreateFails(u) \/ ConfirmFails(u) \/ SendDocument(u)
            => UNCHANGED codes
    BY DEF CreateCode, Lookup, ReadTime, CreateFails, ConfirmFails,
           SendDocument, tables
  <2> QED
    BY <1>2, <2>1, <2>2, <2>4, <2>5, <2>6, <2>7, <2>8 DEF CodeStep
<1>3. CASE Tick \/ Crash \/ UNCHANGED vars
  BY <1>3 DEF Tick, Crash, vars, tables, Effect
<1> QED
  BY <1>1, <1>2, <1>3 DEF Next

(* A row that was stored keeps what it is about, and once it is signed its *)
(* times; a row that is gone does not return.                              *)
RowKept(c) ==
    codes[c] # NoRow =>
        /\ codes'[c] # NoRow
        /\ Stored(codes'[c]) =>
               /\ Stored(codes[c])
               /\ codes'[c].subject = codes[c].subject
               /\ codes'[c].created = codes[c].created
               /\ codes[c].signed # Null =>
                      /\ codes'[c].signed = codes[c].signed
                      /\ codes'[c].expires = codes[c].expires

LEMMA RowsKept ==
    ASSUME TypeOK, Effect, NEW c \in Codes
    PROVE  RowKept(c)
<1> SUFFICES ASSUME codes[c] # NoRow PROVE RowKept(c)
  BY DEF RowKept
<1>1. codes[c] = Deleted \/ codes[c] \in Code
  BY DEF TypeOK
<1>2. NoRow # Deleted /\ NoRow \notin Code /\ Deleted \notin Code
  BY NoneAssumption
<1>3. CASE UNCHANGED codes
  BY <1>3 DEF RowKept
<1>4. ASSUME NEW id \in Ids, Cascaded(id) PROVE RowKept(c)
  BY <1>2, <1>4 DEF Cascaded, RowKept, Stored
<1>5. ASSUME NEW d \in Codes, NEW id \in Ids, NEW now \in 1..clock,
             Inserted(d, id, now)
      PROVE  RowKept(c)
  <2>1. c # d
    BY <1>5 DEF Inserted
  <2>2. codes'[c] = CodesReplaced(id, now)[c]
    BY <1>5, <2>1 DEF Inserted, CodesReplaced
  <2>3. CASE codes'[c] = codes[c]
    BY <2>3 DEF RowKept
  <2>4. CASE /\ Stored(codes[c]) /\ codes[c].signed = Null
             /\ codes'[c] = [codes[c] EXCEPT !.expires = now]
    <3>1. codes[c] \in Code
      BY <1>1, <2>4 DEF Stored
    <3>2. now \in Times
      BY BoundsAssumption DEF Times, TypeOK
    <3>3. codes'[c] \in Code /\ codes'[c].subject = codes[c].subject
              /\ codes'[c].created = codes[c].created
      BY <2>4, <3>1, <3>2 DEF Code
    <3> QED
      BY <1>2, <2>4, <3>3 DEF RowKept
  <2> QED
    BY <2>2, <2>3, <2>4 DEF CodesReplaced
<1>6. ASSUME NEW d \in Codes, SessionCreated(d) PROVE RowKept(c)
  BY <1>6 DEF SessionCreated, RowKept, TypeOK
<1>7. ASSUME NEW d \in Codes, NEW now \in 1..clock,
             NEW form \in Ids \union {NoSubject}, Consume(d, now, form)
      PROVE  RowKept(c)
  <2>1. CASE c # d
    BY <1>7, <2>1 DEF Consume, RowKept, TypeOK
  <2>2. CASE c = d
    <3>1. codes[c] \in Code /\ codes[c].signed = Null
      BY <1>1, <1>7, <2>2 DEF Consume, Live, Stored
    <3>2. codes'[c] = [codes[c] EXCEPT !.signed = now, !.form = form,
                                       !.email = "pending"]
      BY <1>7, <2>2 DEF Consume, TypeOK
    <3>3. now \in Times
      BY BoundsAssumption DEF Times, TypeOK
    <3>4. codes'[c] \in Code /\ codes'[c].subject = codes[c].subject
              /\ codes'[c].created = codes[c].created
      BY <3>1, <3>2, <3>3 DEF Code
    <3> QED
      BY <1>2, <3>1, <3>4 DEF RowKept, Stored
  <2> QED
    BY <2>1, <2>2
<1>8. ASSUME NEW d \in Codes, NEW result \in {"sent", "failed"},
             Reported(d, result)
      PROVE  RowKept(c)
  <2>1. CASE c # d
    BY <1>8, <2>1 DEF Reported, RowKept, TypeOK
  <2>2. CASE c = d
    <3>1. codes[c] \in Code
      BY <1>1, <1>8, <2>2 DEF Reported, Stored
    <3>2. codes'[c] = [codes[c] EXCEPT !.email = result]
      BY <1>8, <2>2 DEF Reported, TypeOK
    <3>3. codes'[c] \in Code /\ codes'[c].subject = codes[c].subject
              /\ codes'[c].created = codes[c].created
              /\ codes'[c].signed = codes[c].signed
              /\ codes'[c].expires = codes[c].expires
      BY <3>1, <3>2 DEF Code
    <3> QED
      BY <1>2, <3>1, <3>3 DEF RowKept, Stored
  <2> QED
    BY <2>1, <2>2
<1> QED
  BY <1>3, <1>4, <1>5, <1>6, <1>7, <1>8 DEF Effect

-----------------------------------------------------------------------------
(* What a step does to the calls *)

Waits(v) == pc'[v] = pc[v] /\ call'[v] = call[v]

Advances(v) ==
    /\ pc[v] \notin {"idle", "create"}
    /\ pc'[v] \in {"mail", "sent", "failed"}
    /\ call'[v] = call[v]

BeginsCreate(v) ==
    /\ pc'[v] = "create"
    /\ call'[v].since = clock
    /\ call'[v].subject \in Ids
    /\ UNCHANGED clock

BeginsConfirm(v) ==
    /\ pc'[v] = "confirm"
    /\ call'[v].code \in Codes
    /\ codes[call'[v].code] # NoRow
    /\ call'[v].since = clock
    /\ UNCHANGED <<clock, codes>>

Moves(v) ==
    Waits(v) \/ pc'[v] = "idle" \/ Advances(v) \/ BeginsCreate(v)
        \/ BeginsConfirm(v)

LEMMA CallMoves ==
    ASSUME TypeOK, [Next]_vars, NEW v \in Callers
    PROVE  Moves(v)
<1> USE DEF TypeOK
<1>1. CASE UNCHANGED callVars
  BY <1>1 DEF callVars, Moves, Waits
<1>2. SubjectStep => UNCHANGED callVars
  BY DEF SubjectStep, ReservationChanges, ReservationDeleted, AddGuest,
         ConfirmGuest, DeliveryArrives, Withdraw, DeliveryDeleted
<1>3. Tick \/ UNCHANGED vars => UNCHANGED callVars
  BY DEF Tick, vars
<1>4. CASE Crash
  BY <1>4 DEF Crash, Moves
<1>5. ASSUME NEW u \in Callers, Return(u) PROVE Moves(v)
  BY <1>5 DEF Return, Moves, Waits
<1>6. ASSUME NEW u \in Callers, NEW id \in Ids, CreateCode(u, id) PROVE Moves(v)
  BY <1>6 DEF CreateCode, Begin, Moves, Waits, BeginsCreate
<1>7. ASSUME NEW u \in Callers, NEW c \in Codes, Lookup(u, c) PROVE Moves(v)
  <2>1. codes[c] # NoRow
    BY <1>7 DEF Lookup, Live, Stored
  <2> QED
    BY <1>7, <2>1 DEF Lookup, Begin, tables, Moves, Waits, BeginsConfirm
<1>8. ASSUME NEW u \in Callers, NEW c \in Codes, ReadTime(u, c) PROVE Moves(v)
  BY <1>8 DEF ReadTime, Begin, tables, Moves, Waits, BeginsConfirm
<1>9. ASSUME NEW u \in Callers,
             SignReservation(u) \/ SignWithdrawal(u) \/ SendDocument(u)
      PROVE  Moves(v)
  <2>1. /\ pc[u] \in {"confirm", "mail"}
        /\ call' = call
        /\ \E step \in {"mail", "sent", "failed"} : pc' = [pc EXCEPT ![u] = step]
    BY <1>9 DEF SignReservation, SignWithdrawal, SendDocument
  <2> QED
    BY <2>1 DEF Moves, Waits, Advances
<1>10. ASSUME NEW u \in Callers,
              \/ \E c \in Codes : InsertCode(u, c)
              \/ CreateFails(u) \/ Upload(u) \/ ConfirmFails(u) \/ ReportMail(u)
       PROVE  Return(u)
  BY <1>10 DEF InsertCode, CreateFails, Upload, ConfirmFails, ReportMail
<1>11. ASSUME NEW c \in Codes, CreateSession(c) PROVE UNCHANGED callVars
  BY <1>11 DEF CreateSession
<1>12. CASE CodeStep
  BY <1>1, <1>5, <1>6, <1>7, <1>8, <1>9, <1>10, <1>11, <1>12 DEF CodeStep
<1> QED
  BY <1>1, <1>2, <1>3, <1>4, <1>12 DEF Next

-----------------------------------------------------------------------------
(* Codes that are alive, and signatures *)

(* expires_at is TTL after created_at, or the time of another code of the  *)
(* same subject.                                                           *)
Explained(c) ==
    \/ codes[c].expires = codes[c].created + TTL
    \/ \E d \in Codes \ {c} :
           /\ Stored(codes[d])
           /\ codes[d].subject = codes[c].subject
           /\ codes[d].created = codes[c].expires

CodeInv(c) ==
    Stored(codes[c]) =>
        /\ codes[c].created <= clock
        /\ codes[c].signed # Null =>
               /\ codes[c].created <= codes[c].signed
               /\ codes[c].signed < codes[c].expires
        /\ Explained(c)

CodesInv == \A c \in Codes : CodeInv(c)

LEMMA CallsStep ==
    ASSUME TypeOK, Calls, CodesInv, [Next]_vars
    PROVE  Calls'
<1>1. TypeOK'
  BY TypeStep
<1>2. clock \in Nat /\ clock' \in Nat /\ clock <= clock'
  BY ClockStep
<1>3. \A c \in Codes : RowKept(c)
  BY Effects, RowsKept
<1> SUFFICES ASSUME NEW v \in Callers PROVE CallInv(v)'
  BY DEF Calls
<1>4. CallInv(v)
  BY DEF Calls
<1>5. pc[v] # "idle" => call[v].since \in Nat
  BY BoundsAssumption DEF TypeOK, Call
<1>6. CASE Waits(v) \/ Advances(v)
  <2>1. pc'[v] # "idle" => call'[v].since <= clock'
    BY <1>2, <1>4, <1>5, <1>6 DEF Waits, Advances, CallInv
  <2>2. pc'[v] = "create" => call'[v].subject \in Ids
    BY <1>4, <1>6 DEF Waits, Advances, CallInv
  <2>3. pc'[v] \notin {"idle", "create"} =>
            call'[v].code \in Codes /\ codes'[call'[v].code] # NoRow
    BY <1>3, <1>4, <1>6 DEF Waits, Advances, CallInv, RowKept
  <2>4. pc'[v] = "confirm" /\ Stored(codes'[call'[v].code]) =>
            codes'[call'[v].code].created <= call'[v].since
    <3> SUFFICES ASSUME pc'[v] = "confirm", Stored(codes'[call'[v].code])
                 PROVE  codes'[call'[v].code].created <= call'[v].since
      OBVIOUS
    <3>1. Waits(v) /\ pc[v] = "confirm" /\ call'[v] = call[v]
      BY <1>6 DEF Waits, Advances
    <3>2. call[v].code \in Codes /\ codes[call[v].code] # NoRow
      BY <1>4, <3>1 DEF CallInv
    <3>3. /\ Stored(codes[call[v].code])
          /\ codes'[call[v].code].created = codes[call[v].code].created
      BY <1>3, <3>1, <3>2 DEF RowKept
    <3> QED
      BY <1>4, <3>1, <3>3 DEF CallInv
  <2> QED
    BY <2>1, <2>2, <2>3, <2>4 DEF CallInv, Stored
<1>7. CASE pc'[v] = "idle"
  BY <1>7 DEF CallInv
<1>8. CASE BeginsCreate(v)
  BY <1>2, <1>8 DEF BeginsCreate, CallInv
<1>9. CASE BeginsConfirm(v)
  <2>1. Stored(codes[call'[v].code]) =>
            codes[call'[v].code].created <= clock
    BY <1>9 DEF BeginsConfirm, CodesInv, CodeInv
  <2> QED
    BY <1>2, <1>9, <2>1 DEF BeginsConfirm, CallInv, Stored
<1> QED
  BY <1>6, <1>7, <1>8, <1>9, CallMoves DEF Moves

LEMMA ConsumedRow ==
    ASSUME TypeOK, NEW c \in Codes, NEW now \in 1..clock,
           NEW form \in Ids \union {NoSubject}, Consume(c, now, form)
    PROVE  /\ codes[c] \in Code /\ codes'[c] \in Code
           /\ codes[c].signed = Null
           /\ now < codes[c].expires
           /\ codes'[c].subject = codes[c].subject
           /\ codes'[c].created = codes[c].created
           /\ codes'[c].expires = codes[c].expires
           /\ codes'[c].signed = now
           /\ codes'[c].email = "pending"
           /\ \A d \in Codes \ {c} : codes'[d] = codes[d]
<1>1. codes[c] \in Code /\ codes[c].signed = Null /\ codes[c].expires > now
  BY RowTypes DEF Consume, Live, Types
<1>2. codes'[c] = [codes[c] EXCEPT !.signed = now, !.form = form,
                                   !.email = "pending"]
  BY DEF Consume, TypeOK
<1>3. \A d \in Codes \ {c} : codes'[d] = codes[d]
  BY DEF Consume, TypeOK
<1>4. now \in Times /\ now \in Nat
  BY BoundsAssumption DEF Times, TypeOK
<1>5. codes[c].expires \in Nat
  BY <1>1, BoundsAssumption DEF Code, Times
<1> QED
  BY <1>1, <1>2, <1>3, <1>4, <1>5 DEF Code

LEMMA InsertedRow ==
    ASSUME TypeOK, NEW c \in Codes, NEW id \in Ids, NEW now \in 1..clock,
           Inserted(c, id, now)
    PROVE  /\ codes'[c] = NewCode(id, now)
           /\ codes'[c] \in Code
           /\ \A d \in Codes \ {c} :
                  /\ Stored(codes'[d]) <=> Stored(codes[d])
                  /\ Stored(codes[d]) =>
                         /\ codes[d] \in Code /\ codes'[d] \in Code
                         /\ codes'[d].subject = codes[d].subject
                         /\ codes'[d].created = codes[d].created
                         /\ codes'[d].signed = codes[d].signed
                         /\ codes'[d].email = codes[d].email
                         /\ IF codes[d].subject = id /\ codes[d].signed = Null
                            THEN codes'[d].expires = now
                            ELSE codes'[d] = codes[d]
<1>1. codes'[c] = NewCode(id, now)
  BY DEF Inserted, CodesReplaced
<1>2. now \in 1..MaxClock /\ now \in Times
  BY BoundsAssumption DEF Times, TypeOK
<1>3. NewCode(id, now) \in Code
  BY <1>2, NewCodeType
<1>4. ASSUME NEW d \in Codes \ {c}
      PROVE  codes'[d] = CodesReplaced(id, now)[d]
  BY <1>4 DEF Inserted, CodesReplaced
<1>5. ASSUME NEW d \in Codes \ {c}, ~ Stored(codes[d])
      PROVE  codes'[d] = codes[d]
  BY <1>4, <1>5 DEF CodesReplaced
<1>6. ASSUME NEW d \in Codes \ {c}, Stored(codes[d]),
             codes[d].subject = id /\ codes[d].signed = Null
      PROVE  /\ codes[d] \in Code
             /\ codes'[d] = [codes[d] EXCEPT !.expires = now]
  BY <1>4, <1>6, RowTypes DEF CodesReplaced, Types
<1>7. ASSUME NEW d \in Codes \ {c}, Stored(codes[d]),
             ~ (codes[d].subject = id /\ codes[d].signed = Null)
      PROVE  codes[d] \in Code /\ codes'[d] = codes[d]
  BY <1>4, <1>7, RowTypes DEF CodesReplaced, Types
<1>8. ASSUME NEW d \in Codes \ {c}, Stored(codes[d]),
             codes[d].subject = id /\ codes[d].signed = Null
      PROVE  /\ codes[d] \in Code /\ codes'[d] \in Code
             /\ Stored(codes'[d])
             /\ codes'[d].subject = codes[d].subject
             /\ codes'[d].created = codes[d].created
             /\ codes'[d].signed = codes[d].signed
             /\ codes'[d].email = codes[d].email
             /\ codes'[d].expires = now
  <2>1. codes[d] \in Code /\ codes'[d] = [codes[d] EXCEPT !.expires = now]
    BY <1>6, <1>8
  <2>2. codes'[d] \in Code
    BY <1>2, <2>1 DEF Code
  <2>3. Stored(codes'[d])
    BY <2>2, NoneAssumption DEF Stored
  <2> QED
    BY <2>1, <2>2, <2>3 DEF Code
<1> QED
  BY <1>1, <1>3, <1>5, <1>7, <1>8

(* What explains the end of a row stays, if its time and subject do. *)
LEMMA ExplainedKept ==
    ASSUME NEW c \in Codes, Explained(c),
           codes'[c].subject = codes[c].subject,
           codes'[c].created = codes[c].created,
           codes'[c].expires = codes[c].expires,
           \A d \in Codes \ {c} :
               Stored(codes[d]) /\ codes[d].subject = codes[c].subject =>
                   /\ Stored(codes'[d])
                   /\ codes'[d].subject = codes[d].subject
                   /\ codes'[d].created = codes[d].created
    PROVE  Explained(c)'
  BY DEF Explained, Stored

LEMMA CodesStep ==
    ASSUME TypeOK, Calls, CodesInv, [Next]_vars
    PROVE  CodesInv'
<1>1. TypeOK' /\ Types'
  <2>1. TypeOK'
    BY TypeStep
  <2>2. ASSUME NEW c \in Codes, Stored(codes'[c]) PROVE codes'[c] \in Code
    BY <2>1, <2>2 DEF TypeOK, Stored
  <2> QED
    BY <2>1, <2>2 DEF Types, TypeOK, Stored
<1>2. clock \in Nat /\ clock' \in Nat /\ clock <= clock'
  BY ClockStep
<1>3. \A c \in Codes : RowKept(c)
  BY Effects, RowsKept
<1>4. \A c \in Codes : Stored(codes'[c]) =>
          /\ codes'[c].created \in Nat /\ codes'[c].signed \in Nat
          /\ codes'[c].expires \in Nat
  BY <1>1, BoundsAssumption DEF Types, Code, Times, Null, Stored
<1> SUFFICES ASSUME NEW c \in Codes, Stored(codes'[c]) PROVE CodeInv(c)'
  BY DEF CodesInv, CodeInv, Stored
<1>5. CodeInv(c)
  BY DEF CodesInv
<1>6. ASSUME codes'[c] = codes[c],
             \A d \in Codes : Stored(codes[d]) /\ codes[d].subject = codes[c].subject =>
                 Stored(codes'[d])
      PROVE  CodeInv(c)'
  <2>1. CodeInv(c) /\ Stored(codes[c])
    BY <1>5, <1>6
  <2>2. Explained(c)'
    <3>1. \A d \in Codes \ {c} :
              Stored(codes[d]) /\ codes[d].subject = codes[c].subject =>
                   /\ Stored(codes'[d])
                   /\ codes'[d].subject = codes[d].subject
                   /\ codes'[d].created = codes[d].created
      BY <1>3, <1>6 DEF RowKept, Stored
    <3> QED
      BY <1>6, <2>1, <3>1, ExplainedKept DEF CodeInv
  <2>3. codes'[c].created <= clock'
    BY <1>2, <1>4, <1>6, <2>1 DEF CodeInv
  <2> QED
    BY <1>6, <2>1, <2>2, <2>3 DEF CodeInv, Stored
<1>7. CASE UNCHANGED codes
  BY <1>6, <1>7
<1>8. ASSUME NEW id \in Ids, Cascaded(id) PROVE CodeInv(c)'
  <2>1. codes'[c] = codes[c]
    BY <1>8 DEF Cascaded, Stored
  <2>2. codes[c].subject # id
    BY <1>8 DEF Cascaded, Stored
  <2>3. \A d \in Codes : Stored(codes[d]) /\ codes[d].subject = codes[c].subject =>
            codes'[d] = codes[d]
    BY <1>8, <2>2 DEF Cascaded
  <2> QED
    BY <1>6, <2>1, <2>3
<1>9. ASSUME NEW d \in Codes, NEW id \in Ids, NEW now \in 1..clock,
             Inserted(d, id, now)
      PROVE  CodeInv(c)'
  <2> /\ codes'[d] = NewCode(id, now)
      /\ \A e \in Codes \ {d} : Stored(codes'[e]) <=> Stored(codes[e])
      /\ ~ Stored(codes[d])
    BY <1>9, InsertedRow DEF Inserted, Stored
  <2>1. CASE c = d
    <3>1. /\ codes'[c].created = now /\ codes'[c].expires = now + TTL
          /\ codes'[c].signed = Null
      BY <2>1 DEF NewCode
    <3> QED
      BY <1>2, <3>1 DEF CodeInv, Explained
  <2>2. CASE c # d /\ codes'[c] = codes[c]
    BY <1>6, <2>2
  <2>3. CASE c # d /\ codes[c].subject = id /\ codes[c].signed = Null
    <3>1. /\ Stored(codes[c])
          /\ codes'[c].subject = id /\ codes'[c].signed = Null
          /\ codes'[c].created = codes[c].created
          /\ codes'[c].expires = now
      BY <1>9, <2>3, InsertedRow
    <3>2. /\ d \in Codes \ {c} /\ Stored(codes'[d])
          /\ codes'[d].subject = id /\ codes'[d].created = now
      <4>1. NewCode(id, now) \in Code
        BY <1>9, InsertedRow
      <4> QED
        BY <2>3, <4>1, NoneAssumption DEF NewCode, Stored
    <3>3. Explained(c)'
      BY <3>1, <3>2 DEF Explained, Stored
    <3>4. codes'[c].created <= clock'
      BY <1>2, <1>4, <1>5, <3>1 DEF CodeInv
    <3> QED
      BY <3>1, <3>3, <3>4 DEF CodeInv, Stored
  <2> QED
    BY <1>9, <2>1, <2>2, <2>3, InsertedRow
<1>10. ASSUME NEW d \in Codes, SessionCreated(d) PROVE CodeInv(c)'
  <2>1. CASE c = d
    <3>1. codes'[c] = NewCode(NoSubject, clock)
      BY <1>10, <2>1 DEF SessionCreated, TypeOK
    <3>2. /\ codes'[c].created = clock /\ codes'[c].expires = clock + TTL
          /\ codes'[c].signed = Null
      BY <3>1 DEF NewCode
    <3> QED
      BY <1>2, <3>2 DEF CodeInv, Explained
  <2>2. CASE c # d
    BY <1>6, <1>10, <2>2 DEF SessionCreated, TypeOK, Stored
  <2> QED
    BY <2>1, <2>2
<1>11. ASSUME NEW d \in Codes, NEW now \in 1..clock,
              NEW form \in Ids \union {NoSubject}, Consume(d, now, form),
              codes[d].created <= now
       PROVE  CodeInv(c)'
  <2> /\ codes[d] \in Code /\ codes'[d] \in Code
      /\ \A e \in Codes \ {d} : codes'[e] = codes[e]
      /\ Stored(codes[d])
    BY <1>11, ConsumedRow DEF Consume, Live
  <2>0. Stored(codes'[d])
    BY NoneAssumption DEF Stored
  <2>1. CASE c # d
    BY <1>6, <2>0, <2>1
  <2>2. CASE c = d
    <3>1. /\ codes'[c].subject = codes[c].subject
          /\ codes'[c].created = codes[c].created
          /\ codes'[c].expires = codes[c].expires
          /\ codes'[c].signed = now /\ now < codes[c].expires
      BY <1>11, <2>2, ConsumedRow
    <3>2. CodeInv(c) /\ Explained(c)
      BY <1>5, <2>2 DEF CodeInv
    <3>3. Explained(c)'
      BY <2>2, <3>1, <3>2, ExplainedKept
    <3> QED
      BY <1>2, <1>4, <1>11, <2>2, <3>1, <3>2, <3>3 DEF CodeInv, Stored
  <2> QED
    BY <2>1, <2>2
<1>12. ASSUME NEW d \in Codes, NEW result \in {"sent", "failed"},
              Reported(d, result)
       PROVE  CodeInv(c)'
  <2>1. codes[d] \in Code /\ Stored(codes[d])
    BY <1>12, RowTypes DEF Reported, Types
  <2>2. codes'[d] = [codes[d] EXCEPT !.email = result]
    BY <1>12 DEF Reported, TypeOK
  <2>3. codes'[d] \in Code
    BY <2>1, <2>2 DEF Code
  <2>4. Stored(codes'[d])
    BY <2>3, NoneAssumption DEF Stored
  <2>5. \A e \in Codes \ {d} : codes'[e] = codes[e]
    BY <1>12 DEF Reported, TypeOK
  <2>6. CASE c # d
    BY <1>6, <2>4, <2>5, <2>6
  <2>7. CASE c = d
    <3>1. /\ codes'[c].subject = codes[c].subject
          /\ codes'[c].created = codes[c].created
          /\ codes'[c].expires = codes[c].expires
          /\ codes'[c].signed = codes[c].signed
      BY <2>1, <2>2, <2>7 DEF Code
    <3>2. CodeInv(c) /\ Explained(c)
      BY <1>5, <2>1, <2>7 DEF CodeInv
    <3>3. Explained(c)'
      BY <2>5, <2>7, <3>1, <3>2, ExplainedKept
    <3> QED
      BY <1>2, <1>4, <2>1, <2>7, <3>1, <3>2, <3>3 DEF CodeInv, Stored
  <2> QED
    BY <2>6, <2>7
<1>13. Effect
  BY Effects
<1> QED
  BY <1>7, <1>8, <1>9, <1>10, <1>11, <1>12, <1>13 DEF Effect

LEMMA CodesAlways == Spec => [](TypeOK /\ Calls /\ CodesInv)
<1>1. Init => TypeOK /\ Calls /\ CodesInv
  <2>1. Init => Calls /\ CodesInv
    BY DEF Init, Calls, CallInv, CodesInv, CodeInv, Stored
  <2> QED
    BY <2>1, TypeInit
<1>2. TypeOK /\ Calls /\ CodesInv /\ [Next]_vars => (TypeOK /\ Calls /\ CodesInv)'
  BY TypeStep, CallsStep, CodesStep
<1> QED
  BY <1>1, <1>2, PTL DEF Spec

(* A signature bears a time at which its code was alive.                   *)
THEOREM SignedWhileAlive == Spec => []SignedInTime
<1>1. CodesInv => SignedInTime
  BY DEF CodesInv, CodeInv, Explained, SignedInTime
<1> QED
  BY <1>1, CodesAlways, PTL

-----------------------------------------------------------------------------
(* One code of a subject is alive *)

(* Only an insertion makes a code alive. *)
LEMMA NoneRevives ==
    ASSUME TypeOK, Calls, [Next]_vars, kind # "photo",
           ~ \E c \in Codes, id \in Ids, now \in 1..clock : Inserted(c, id, now),
           NEW c \in Codes, Live(c, clock)'
    PROVE  Live(c, clock) /\ codes'[c].subject = codes[c].subject
<1>1. clock \in Nat /\ clock' \in Nat /\ clock <= clock'
  BY ClockStep
<1>2. Stored(codes'[c]) /\ codes'[c].signed = Null /\ codes'[c].expires > clock'
  BY DEF Live, Stored
<1>3. CASE codes'[c] = codes[c]
  <2>1. codes[c].expires \in Nat
    BY <1>2, <1>3, RowTypes, BoundsAssumption DEF Types, Code, Times
  <2> QED
    BY <1>1, <1>2, <1>3, <2>1 DEF Live
<1>4. ASSUME NEW id \in Ids, Cascaded(id) PROVE codes'[c] = codes[c]
  BY <1>2, <1>4 DEF Cascaded, Stored
<1>5. ASSUME NEW d \in Codes, NEW now \in 1..clock,
             NEW form \in Ids \union {NoSubject}, Consume(d, now, form)
      PROVE  codes'[c] = codes[c]
  <2>1. now # Null
    BY <1>1 DEF Null
  <2> QED
    BY <1>2, <1>5, <2>1, ConsumedRow
<1>6. ASSUME NEW d \in Codes, NEW result \in {"sent", "failed"},
             Reported(d, result)
      PROVE  /\ Stored(codes[c])
             /\ codes'[c].subject = codes[c].subject
             /\ codes'[c].signed = codes[c].signed
             /\ codes'[c].expires = codes[c].expires
  <2>1. CASE c # d
    BY <1>2, <1>6, <2>1 DEF Reported, TypeOK
  <2>2. CASE c = d
    <3>1. codes[c] \in Code /\ Stored(codes[c])
      BY <1>6, <2>2, RowTypes DEF Reported, Types
    <3>2. codes'[c] = [codes[c] EXCEPT !.email = result]
      BY <1>6, <2>2 DEF Reported, TypeOK
    <3> QED
      BY <3>1, <3>2 DEF Code
  <2> QED
    BY <2>1, <2>2
<1>7. CASE /\ Stored(codes[c])
           /\ codes'[c].subject = codes[c].subject
           /\ codes'[c].signed = codes[c].signed
           /\ codes'[c].expires = codes[c].expires
  <2>1. codes[c].expires \in Nat
    BY <1>7, RowTypes, BoundsAssumption DEF Types, Code, Times
  <2> QED
    BY <1>1, <1>2, <1>7, <2>1 DEF Live
<1>8. Effect
  BY Effects
<1> QED
  BY <1>3, <1>4, <1>5, <1>6, <1>7, <1>8 DEF Effect, SessionCreated

LEMMA OneLiveCodeStep ==
    ASSUME TypeOK, Calls, OneLiveCode, [Next]_vars
    PROVE  OneLiveCode'
<1>1. kind' = kind /\ clock \in Nat /\ clock' \in Nat /\ clock <= clock'
  BY ClockStep
<1> SUFFICES ASSUME kind # "photo", NEW c \in Codes, NEW d \in Codes,
                    Live(c, clock)', Live(d, clock)',
                    codes'[c].subject = codes'[d].subject
             PROVE  c = d
  BY <1>1 DEF OneLiveCode
<1>2. CASE ~ \E e \in Codes, id \in Ids, now \in 1..clock : Inserted(e, id, now)
  BY <1>2, NoneRevives DEF OneLiveCode
<1>3. ASSUME NEW e \in Codes, NEW id \in Ids, NEW now \in 1..clock,
             Inserted(e, id, now)
      PROVE  c = d
  <2>1. /\ Stored(codes'[c]) /\ codes'[c].signed = Null /\ codes'[c].expires > clock'
        /\ Stored(codes'[d]) /\ codes'[d].signed = Null /\ codes'[d].expires > clock'
    BY DEF Live, Stored
  <2>2. codes'[e].subject = id
    <3>1. codes'[e] = NewCode(id, now)
      BY <1>3, InsertedRow
    <3> QED
      BY <3>1 DEF NewCode
  <2>3. ASSUME NEW f \in Codes \ {e}, Stored(codes'[f]),
               codes'[f].signed = Null, codes'[f].expires > clock'
        PROVE  codes'[f].subject # id /\ codes'[f] = codes[f] /\ Live(f, clock)
    <3>1. ~ (codes[f].subject = id /\ codes[f].signed = Null)
      BY <1>1, <1>3, <2>3, InsertedRow
    <3>2. /\ codes'[f] = codes[f] /\ codes'[f].subject # id
          /\ codes[f] \in Code /\ Stored(codes[f])
      BY <1>3, <2>3, <3>1, InsertedRow
    <3>3. codes[f].expires \in Nat
      BY <3>2, BoundsAssumption DEF Code, Times
    <3> QED
      BY <1>1, <2>3, <3>2, <3>3 DEF Live
  <2> QED
    BY <2>1, <2>2, <2>3 DEF OneLiveCode
<1> QED
  BY <1>2, <1>3

(* However the calls overlap, one code at most of a subject is alive.      *)
THEOREM OneCodeAlive == Spec => []OneLiveCode
<1>1. Init => OneLiveCode
  BY DEF Init, OneLiveCode, Live, Stored
<1>2. TypeOK /\ Calls /\ OneLiveCode /\ [Next]_vars => OneLiveCode'
  BY OneLiveCodeStep
<1> QED
  BY <1>1, <1>2, CodesAlways, PTL DEF Spec

-----------------------------------------------------------------------------
(* Deliveries *)

LEMMA WithdrawnOrDeletedStep ==
    ASSUME TypeOK, WithdrawnOrDeleted, [Next]_vars
    PROVE  WithdrawnOrDeleted'
<1> USE DEF TypeOK, WithdrawnOrDeleted
<1>1. CASE UNCHANGED <<status, deletions>>
  BY <1>1
<1>2. CASE ReservationChanges
  BY <1>2 DEF ReservationChanges, Life!Book, Life!ChangeStatus, Life!Exists,
              Life!Statuses
<1>3. ASSUME NEW id \in Ids, ReservationDeleted(id) PROVE WithdrawnOrDeleted'
  BY <1>3 DEF ReservationDeleted, Life!Remove, Life!Exists, Life!Statuses
<1>4. ASSUME NEW id \in Ids, DeliveryArrives(id) PROVE WithdrawnOrDeleted'
  BY <1>4 DEF DeliveryArrives
<1>5. ASSUME NEW id \in Ids, Withdraw(id) PROVE WithdrawnOrDeleted'
  BY <1>5 DEF Withdraw, Waiting
<1>6. ASSUME NEW id \in Ids, DeliveryDeleted(id) PROVE WithdrawnOrDeleted'
  BY <1>6 DEF DeliveryDeleted
<1>7. ASSUME NEW u \in Callers, SignWithdrawal(u) PROVE WithdrawnOrDeleted'
  BY <1>7 DEF SignWithdrawal, Waiting
<1>8. ASSUME NEW u \in Callers,
             \/ \E id \in Ids : CreateCode(u, id)
             \/ \E c \in Codes : InsertCode(u, c) \/ Lookup(u, c) \/ ReadTime(u, c)
             \/ CreateFails(u) \/ SignReservation(u) \/ Upload(u)
             \/ ConfirmFails(u) \/ SendDocument(u) \/ ReportMail(u)
      PROVE  UNCHANGED <<status, deletions>>
  BY <1>8 DEF CreateCode, InsertCode, Lookup, ReadTime, CreateFails,
              SignReservation, Upload, ConfirmFails, SendDocument, ReportMail,
              tables
<1>9. ASSUME NEW g \in Guests,
             \/ \E id \in Ids : AddGuest(g, id)
             \/ \E confirmed \in BOOLEAN : ConfirmGuest(g, confirmed)
      PROVE  UNCHANGED <<status, deletions>>
  BY <1>9 DEF AddGuest, ConfirmGuest
<1>10. CASE Tick \/ Crash \/ UNCHANGED vars \/ \E c \in Codes : CreateSession(c)
  BY <1>1, <1>10 DEF Tick, Crash, vars, tables, CreateSession
<1>11. CASE SubjectStep
  BY <1>1, <1>2, <1>3, <1>4, <1>5, <1>6, <1>9, <1>11 DEF SubjectStep
<1>12. CASE CodeStep
  BY <1>1, <1>7, <1>8, <1>10, <1>12 DEF CodeStep
<1> QED
  BY <1>10, <1>11, <1>12 DEF Next

(* A withdrawn delivery is never deleted, nor a deleted one withdrawn,     *)
(* with a signature or without.                                            *)
THEOREM NeverBoth == Spec => []WithdrawnOrDeleted
<1>1. Init => WithdrawnOrDeleted
  BY DEF Init, WithdrawnOrDeleted
<1>2. TypeOK /\ WithdrawnOrDeleted /\ [Next]_vars => WithdrawnOrDeleted'
  BY WithdrawnOrDeletedStep
<1> QED
  BY <1>1, <1>2, TypeCorrect, PTL DEF Spec

-----------------------------------------------------------------------------
(* Signatures and their e-mails *)

Posting(v) == pc[v] \in {"mail", "sent", "failed"}

(* The step signs no code and sends and reports no e-mail. *)
RowQuiet(c) ==
    /\ codes'[c] = NoRow => codes[c] = NoRow
    /\ Stored(codes'[c]) =>
           IF Stored(codes[c])
           THEN /\ codes'[c].signed = codes[c].signed
                /\ codes'[c].email = codes[c].email
                /\ codes'[c].subject = codes[c].subject
                /\ codes[c].signed # Null => codes'[c] = codes[c]
           ELSE /\ codes[c] = NoRow
                /\ codes'[c].signed = Null
                /\ codes'[c].email = "pending"

Quiet ==
    /\ UNCHANGED mails
    /\ \A v \in Callers : Posting(v)' => Waits(v)
    /\ \A c \in Codes : RowQuiet(c)

Loud(u) == SignReservation(u) \/ SignWithdrawal(u) \/ Upload(u)
               \/ SendDocument(u) \/ ReportMail(u)

LEMMA QuietRows ==
    ASSUME TypeOK, NEW c \in Codes,
           \/ UNCHANGED codes
           \/ \E id \in Ids : Cascaded(id)
           \/ \E d \in Codes, id \in Ids, now \in 1..clock : Inserted(d, id, now)
           \/ \E d \in Codes : SessionCreated(d)
    PROVE  RowQuiet(c)
<1>1. NoRow # Deleted
  BY NoneAssumption
<1>2. CASE codes'[c] = codes[c]
  BY <1>2 DEF RowQuiet
<1>3. ASSUME NEW id \in Ids, Cascaded(id) PROVE RowQuiet(c)
  BY <1>1, <1>3 DEF Cascaded, RowQuiet, Stored
<1>4. ASSUME NEW d \in Codes, NEW id \in Ids, NEW now \in 1..clock,
             Inserted(d, id, now)
      PROVE  RowQuiet(c)
  <2>1. CASE c = d
    <3>1. codes[c] = NoRow /\ codes'[c] = NewCode(id, now) /\ codes'[c] \in Code
      BY <1>4, <2>1, InsertedRow DEF Inserted
    <3>2. codes'[c].signed = Null /\ codes'[c].email = "pending"
      BY <3>1 DEF NewCode
    <3> QED
      BY <3>1, <3>2 DEF RowQuiet, Stored
  <2>2. CASE c # d /\ Stored(codes[c])
    <3>1. /\ Stored(codes'[c])
          /\ codes'[c].subject = codes[c].subject
          /\ codes'[c].signed = codes[c].signed
          /\ codes'[c].email = codes[c].email
          /\ codes[c].signed # Null => codes'[c] = codes[c]
      BY <1>4, <2>2, InsertedRow
    <3> QED
      BY <2>2, <3>1 DEF RowQuiet, Stored
  <2>3. CASE c # d /\ ~ Stored(codes[c])
    BY <1>2, <1>4, <2>3 DEF Inserted, CodesReplaced
  <2> QED
    BY <2>1, <2>2, <2>3
<1>5. ASSUME NEW d \in Codes, SessionCreated(d) PROVE RowQuiet(c)
  <2>1. CASE c = d
    <3>1. codes[c] = NoRow /\ codes'[c] = NewCode(NoSubject, clock)
      BY <1>5, <2>1 DEF SessionCreated, TypeOK
    <3>2. codes'[c] \in Code
      BY <3>1, NewCodeType DEF TypeOK
    <3>3. codes'[c].signed = Null /\ codes'[c].email = "pending"
      BY <3>1 DEF NewCode
    <3> QED
      BY <3>1, <3>2, <3>3, NoneAssumption DEF RowQuiet, Stored
  <2>2. CASE c # d
    BY <1>2, <1>5, <2>2 DEF SessionCreated, TypeOK
  <2> QED
    BY <2>1, <2>2
<1> QED
  BY <1>2, <1>3, <1>4, <1>5

LEMMA QuietStep ==
    ASSUME TypeOK, Calls, [Next]_vars, ~ \E u \in Callers : Loud(u)
    PROVE  Quiet
<1> USE DEF TypeOK
<1>0. clock \in 1..MaxClock /\ MaxClock \in Nat
  BY BoundsAssumption
<1>1. ASSUME UNCHANGED codes PROVE \A c \in Codes : RowQuiet(c)
  BY <1>1 DEF RowQuiet
<1>2. ASSUME UNCHANGED callVars PROVE \A v \in Callers : Waits(v)
  BY <1>2 DEF callVars, Waits
<1>3. ASSUME NEW u \in Callers, Return(u)
      PROVE  \A v \in Callers : Posting(v)' => Waits(v)
  BY <1>3 DEF Return, Posting, Waits
<1>4. CASE SubjectStep
  <2>1. UNCHANGED <<callVars, mails>>
    BY <1>4 DEF SubjectStep, ReservationChanges, ReservationDeleted, AddGuest,
         ConfirmGuest, DeliveryArrives, Withdraw, DeliveryDeleted
  <2>2. UNCHANGED codes \/ \E id \in Ids : Cascaded(id)
    BY <1>4 DEF SubjectStep, ReservationChanges, ReservationDeleted, AddGuest,
         ConfirmGuest, DeliveryArrives, Withdraw, DeliveryDeleted, CascadeTo,
         Cascaded
  <2> QED
    BY <1>2, <2>1, <2>2, QuietRows DEF Quiet
<1>5. ASSUME NEW c \in Codes, CreateSession(c) PROVE Quiet
  <2>1. SessionCreated(c) /\ UNCHANGED <<callVars, mails>>
    BY <1>5 DEF CreateSession, SessionCreated
  <2> QED
    BY <1>2, <2>1, QuietRows DEF Quiet
<1>6. ASSUME NEW u \in Callers, NEW c \in Codes, InsertCode(u, c) PROVE Quiet
  <2> PICK now \in call[u].since..clock :
             codes' = [CodesReplaced(call[u].subject, now) EXCEPT ![c] =
                          NewCode(call[u].subject, now)]
    BY <1>6 DEF InsertCode
  <2>1. call[u].since \in 1..MaxClock /\ call[u].subject \in Ids
    BY <1>6 DEF InsertCode, Call, Calls, CallInv
  <2>2. now \in 1..clock
    BY <1>0, <2>1
  <2>3. Inserted(c, call[u].subject, now)
    BY <1>6 DEF InsertCode, Inserted
  <2>4. Return(u) /\ UNCHANGED mails
    BY <1>6 DEF InsertCode
  <2>5. \A d \in Codes : RowQuiet(d)
    BY <2>1, <2>2, <2>3, QuietRows
  <2> QED
    BY <1>3, <2>4, <2>5 DEF Quiet
<1>7. ASSUME NEW u \in Callers, CreateFails(u) \/ ConfirmFails(u) PROVE Quiet
  BY <1>1, <1>3, <1>7 DEF CreateFails, ConfirmFails, tables, Quiet
<1>8. ASSUME NEW u \in Callers,
             \/ \E id \in Ids : CreateCode(u, id)
             \/ \E c \in Codes : Lookup(u, c) \/ ReadTime(u, c)
      PROVE  Quiet
  <2>1. UNCHANGED <<codes, mails>>
    BY <1>8 DEF CreateCode, Lookup, ReadTime, tables
  <2>2. \E step \in {"create", "confirm"} : \E c, id : Begin(u, step, c, id)
    BY <1>8 DEF CreateCode, Lookup, ReadTime
  <2>3. \A v \in Callers : Posting(v)' => Waits(v)
    BY <2>2 DEF Begin, Posting, Waits
  <2> QED
    BY <1>1, <2>1, <2>3 DEF Quiet
<1>9. CASE Tick \/ UNCHANGED vars
  BY <1>1, <1>2, <1>9 DEF Tick, vars, tables, Quiet
<1>10. CASE Crash
  BY <1>1, <1>10 DEF Crash, tables, Quiet, Posting
<1>11. CASE CodeStep
  BY <1>5, <1>6, <1>7, <1>8, <1>11 DEF CodeStep, Loud
<1> QED
  BY <1>4, <1>9, <1>10, <1>11 DEF Next

(* A call that posts a document signed its code, alone, and knows how      *)
(* often the document was sent.                                            *)
PostInv(v) ==
    Posting(v) =>
        LET c == call[v].code IN
        /\ Stored(codes[c]) =>
               codes[c].signed # Null /\ codes[c].email = "pending"
        /\ \A w \in Callers \ {v} : Posting(w) => call[w].code # c
        /\ pc[v] = "mail" => mails[c] = 0
        /\ pc[v] = "sent" => mails[c] = 1

RowMailInv(c) ==
    /\ mails[c] <= 1
    /\ codes[c] = NoRow => mails[c] = 0
    /\ Stored(codes[c]) =>
           /\ mails[c] = 1 => codes[c].signed # Null
           /\ codes[c].email = "sent" => mails[c] = 1

MailInv ==
    /\ \A v \in Callers : PostInv(v)
    /\ \A c \in Codes : RowMailInv(c)

LEMMA QuietMail ==
    ASSUME TypeOK, Calls, MailInv, Quiet
    PROVE  MailInv'
<1>1. ASSUME NEW c \in Codes PROVE RowMailInv(c)'
  <2>1. RowMailInv(c) /\ RowQuiet(c) /\ mails' = mails /\ NoRow # Deleted
    BY NoneAssumption DEF MailInv, Quiet
  <2>2. mails[c] \in Nat
    BY DEF TypeOK
  <2> QED
    BY <2>1, <2>2 DEF RowMailInv, RowQuiet, Stored
<1>2. ASSUME NEW v \in Callers PROVE PostInv(v)'
  <2> SUFFICES ASSUME Posting(v)' PROVE PostInv(v)'
    BY DEF PostInv
  <2> DEFINE c == call[v].code
  <2>1. \A w \in Callers : Posting(w)' => Posting(w) /\ call'[w] = call[w]
    BY DEF Quiet, Waits, Posting
  <2>2. Posting(v) /\ PostInv(v) /\ call'[v] = call[v] /\ pc'[v] = pc[v]
    BY DEF Quiet, MailInv, Waits, Posting
  <2>3. c \in Codes /\ codes[c] # NoRow
    BY <2>2 DEF Calls, CallInv, Posting
  <2>4. RowQuiet(c) /\ mails' = mails
    BY <2>3 DEF Quiet
  <2>5. Stored(codes'[c]) =>
            codes'[c].signed # Null /\ codes'[c].email = "pending"
    BY <2>2, <2>3, <2>4 DEF PostInv, RowQuiet
  <2>6. \A w \in Callers \ {v} : Posting(w)' => call'[w].code # c
    BY <2>1, <2>2 DEF PostInv
  <2> QED
    BY <2>2, <2>4, <2>5, <2>6 DEF PostInv, Stored
<1> QED
  BY <1>1, <1>2 DEF MailInv

LEMMA SignMail ==
    ASSUME TypeOK, Calls, MailInv, NEW u \in Callers,
           pc[u] = "confirm", NEW c \in Codes, c = call[u].code,
           NEW now \in 1..clock, NEW form \in Ids \union {NoSubject},
           Consume(c, now, form), mails' = mails,
           \A v \in Callers \ {u} : Waits(v),
           Posting(u)' => pc'[u] = "mail" /\ call'[u] = call[u]
    PROVE  MailInv'
<1>1. /\ codes[c] \in Code /\ codes[c].signed = Null
      /\ codes'[c] \in Code
      /\ codes'[c].signed = now /\ codes'[c].email = "pending"
      /\ \A d \in Codes \ {c} : codes'[d] = codes[d]
  BY ConsumedRow
<1>2. Stored(codes[c]) /\ Stored(codes'[c]) /\ codes[c] # NoRow /\ codes'[c] # NoRow
  BY <1>1, NoneAssumption DEF Stored
<1>3. now # Null
  BY DEF TypeOK, Null
<1>4. mails[c] = 0
  BY <1>1, <1>2 DEF MailInv, RowMailInv, TypeOK
<1>5. \A v \in Callers : Posting(v) => call[v].code # c
  BY <1>1, <1>2 DEF MailInv, PostInv
<1>6. ASSUME NEW d \in Codes PROVE RowMailInv(d)'
  <2>1. CASE d = c
    BY <1>1, <1>2, <1>3, <1>4, <2>1 DEF RowMailInv
  <2>2. CASE d # c
    BY <1>1, <2>2 DEF MailInv, RowMailInv, Stored
  <2> QED
    BY <2>1, <2>2
<1>7. ASSUME NEW v \in Callers, Posting(v)' PROVE PostInv(v)'
  <2>1. CASE v = u
    <3>1. pc'[u] = "mail" /\ call'[u].code = c
      BY <1>7, <2>1
    <3>2. \A w \in Callers \ {u} : Posting(w)' => call'[w].code # c
      BY <1>5 DEF Waits, Posting
    <3> QED
      BY <1>1, <1>3, <1>4, <2>1, <3>1, <3>2 DEF PostInv
  <2>2. CASE v # u
    <3>1. Posting(v) /\ PostInv(v) /\ pc'[v] = pc[v] /\ call'[v] = call[v]
      BY <1>7, <2>2 DEF Waits, Posting, MailInv
    <3>2. call[v].code \in Codes \ {c}
      BY <1>5, <3>1 DEF Calls, CallInv, Posting
    <3>3. \A w \in Callers \ {v} : Posting(w)' => call'[w].code # call[v].code
      BY <3>1, <3>2 DEF PostInv, Waits, Posting
    <3> QED
      BY <1>1, <3>1, <3>2, <3>3 DEF PostInv, Stored
  <2> QED
    BY <2>1, <2>2
<1> QED
  BY <1>6, <1>7 DEF MailInv, PostInv

LEMMA LoudMail ==
    ASSUME TypeOK, Calls, MailInv, NEW u \in Callers, Loud(u)
    PROVE  MailInv'
<1>0. clock \in 1..MaxClock /\ MaxClock \in Nat
  BY BoundsAssumption DEF TypeOK
<1>1. /\ pc[u] \notin {"idle", "create"}
      /\ call[u].code \in Codes /\ call[u] \in Call
  BY DEF Loud, SignReservation, SignWithdrawal, Upload, SendDocument,
         ReportMail, Calls, CallInv, TypeOK
<1> PICK c \in Codes : c = call[u].code
  BY <1>1
<1>2. call[u].since \in 1..clock
  BY <1>0, <1>1 DEF Calls, CallInv, Call
<1>3. CASE SignReservation(u)
  <2> PICK now \in call[u].since..clock : Consume(c, now, call[u].subject)
    BY <1>3 DEF SignReservation
  <2>1. now \in 1..clock /\ call[u].subject \in Ids \union {NoSubject}
    BY <1>0, <1>1, <1>2 DEF Call
  <2>2. /\ pc[u] = "confirm" /\ mails' = mails /\ call' = call
        /\ pc' = [pc EXCEPT ![u] = "mail"]
    BY <1>3 DEF SignReservation
  <2>3. \A v \in Callers \ {u} : Waits(v)
    BY <2>2 DEF Waits, TypeOK
  <2>4. Posting(u)' => pc'[u] = "mail" /\ call'[u] = call[u]
    BY <2>2 DEF TypeOK
  <2> QED
    BY <1>1, <2>1, <2>2, <2>3, <2>4, SignMail
<1>4. CASE SignWithdrawal(u) \/ Upload(u)
  <2>1. pc[u] = "confirm" /\ mails' = mails
    BY <1>4 DEF SignWithdrawal, Upload
  <2>2. Stored(codes[c]) => codes[c].subject \in Ids \union {NoSubject}
    BY <1>1, RowTypes DEF Types, Code
  <2>3. \E form \in Ids \union {NoSubject} : Consume(c, call[u].since, form)
    BY <1>4, <2>2 DEF SignWithdrawal, Upload, Consume, Live
  <2>4. \A v \in Callers \ {u} : Waits(v)
    BY <1>4 DEF SignWithdrawal, Upload, Return, Waits, TypeOK
  <2>5. Posting(u)' => pc'[u] = "mail" /\ call'[u] = call[u]
    BY <1>4 DEF SignWithdrawal, Upload, Return, Posting, TypeOK
  <2> QED
    BY <1>1, <1>2, <2>1, <2>3, <2>4, <2>5, SignMail
<1>5. CASE SendDocument(u)
  <2>1. pc[u] = "mail" /\ call' = call /\ codes' = codes
    BY <1>5 DEF SendDocument, tables
  <2>2. \A v \in Callers \ {u} : pc'[v] = pc[v]
    BY <1>5 DEF SendDocument, TypeOK
  <2>3. \/ /\ mails' = [mails EXCEPT ![c] = @ + 1] /\ pc'[u] \in {"sent", "failed"}
        \/ mails' = mails /\ pc'[u] = "failed"
    BY <1>5 DEF SendDocument, TypeOK
  <2>4. /\ mails[c] = 0 /\ codes[c] # NoRow
        /\ Stored(codes[c]) =>
               codes[c].signed # Null /\ codes[c].email = "pending"
        /\ \A w \in Callers \ {u} : Posting(w) => call[w].code # c
    BY <1>1, <2>1 DEF MailInv, PostInv, Posting, Calls, CallInv
  <2>5. /\ mails'[c] \in {0, 1} /\ pc'[u] \in {"sent", "failed"}
        /\ pc'[u] = "sent" => mails'[c] = 1
        /\ \A d \in Codes \ {c} : mails'[d] = mails[d]
    BY <1>1, <2>3, <2>4 DEF TypeOK
  <2>6. ASSUME NEW d \in Codes PROVE RowMailInv(d)'
    <3>1. RowMailInv(d) /\ codes'[d] = codes[d]
      BY <2>1 DEF MailInv
    <3>2. CASE d = c
      BY <2>4, <2>5, <3>1, <3>2 DEF RowMailInv, Stored
    <3>3. CASE d # c
      BY <2>5, <3>1, <3>3 DEF RowMailInv, Stored
    <3> QED
      BY <3>2, <3>3
  <2>7. ASSUME NEW v \in Callers, Posting(v)' PROVE PostInv(v)'
    <3>1. Posting(v) /\ PostInv(v) /\ call'[v] = call[v]
      BY <2>1, <2>2, <2>7 DEF Posting, MailInv
    <3>2. \A w \in Callers \ {v} : Posting(w)' => call'[w].code # call[v].code
      <4>1. \A w \in Callers : Posting(w)' => Posting(w) /\ call'[w] = call[w]
        BY <2>1, <2>2 DEF Posting
      <4> QED
        BY <3>1, <4>1 DEF PostInv
    <3>3. CASE v = u
      BY <2>1, <2>4, <2>5, <3>1, <3>2, <3>3 DEF PostInv, Stored
    <3>4. CASE v # u
      <4>1. call[v].code \in Codes \ {c} /\ pc'[v] = pc[v]
        BY <2>2, <2>4, <3>1, <3>4 DEF Calls, CallInv, Posting
      <4> QED
        BY <2>1, <2>5, <3>1, <3>2, <4>1 DEF PostInv, Stored
    <3> QED
      BY <3>3, <3>4
  <2> QED
    BY <2>6, <2>7 DEF MailInv, PostInv
<1>6. CASE ReportMail(u)
  <2>1. /\ pc[u] \in {"sent", "failed"} /\ mails' = mails
        /\ \A v \in Callers \ {u} : Waits(v)
        /\ pc'[u] = "idle"
    BY <1>6 DEF ReportMail, Return, Waits, TypeOK
  <2>2. /\ pc[u] = "sent" => mails[c] = 1
        /\ Stored(codes[c]) => codes[c].signed # Null
        /\ \A w \in Callers \ {u} : Posting(w) => call[w].code # c
    BY <2>1 DEF MailInv, PostInv, Posting
  <2>3. \A d \in Codes \ {c} : codes'[d] = codes[d]
    BY <1>6 DEF ReportMail, TypeOK
  <2>4. \/ codes'[c] = codes[c]
        \/ Stored(codes[c]) /\ codes'[c] = [codes[c] EXCEPT !.email = pc[u]]
    BY <1>1, <1>6 DEF ReportMail, TypeOK
  <2>5. RowMailInv(c)'
    <3>0. RowMailInv(c) /\ mails'[c] = mails[c]
      BY <1>1, <2>1 DEF MailInv
    <3>1. CASE codes'[c] = codes[c]
      BY <3>0, <3>1 DEF RowMailInv, Stored
    <3>2. CASE Stored(codes[c]) /\ codes'[c] = [codes[c] EXCEPT !.email = pc[u]]
      <4>1. codes[c] \in Code
        BY <1>1, <3>2, RowTypes DEF Types
      <4>2. codes'[c] \in Code /\ codes'[c].signed = codes[c].signed
                /\ codes'[c].email = pc[u]
        BY <2>1, <3>2, <4>1 DEF Code
      <4>3. codes'[c] # NoRow
        BY <4>2, NoneAssumption
      <4> QED
        BY <2>2, <3>0, <3>2, <4>2, <4>3 DEF RowMailInv
    <3> QED
      BY <2>4, <3>1, <3>2
  <2>6. ASSUME NEW d \in Codes PROVE RowMailInv(d)'
    <3>1. RowMailInv(d) /\ mails'[d] = mails[d]
      BY <2>1 DEF MailInv
    <3>2. CASE d # c
      <4>1. codes'[d] = codes[d]
        BY <2>3, <3>2
      <4> QED
        BY <3>1, <4>1 DEF RowMailInv, Stored
    <3> QED
      BY <2>5, <3>2
  <2>7. ASSUME NEW v \in Callers, Posting(v)' PROVE PostInv(v)'
    <3>1. v # u /\ Posting(v) /\ PostInv(v) /\ Waits(v)
      BY <2>1, <2>7 DEF Posting, Waits, MailInv
    <3>2. call[v].code \in Codes \ {c}
      BY <2>2, <3>1 DEF Calls, CallInv, Posting
    <3>3. \A w \in Callers \ {v} : Posting(w)' => call'[w].code # call[v].code
      BY <2>1, <3>1 DEF PostInv, Waits, Posting
    <3> QED
      BY <2>1, <2>3, <3>1, <3>2, <3>3 DEF PostInv, Waits, Stored
  <2> QED
    BY <2>6, <2>7 DEF MailInv, PostInv
<1> QED
  BY <1>3, <1>4, <1>5, <1>6 DEF Loud

LEMMA MailAlways == Spec => [](TypeOK /\ Calls /\ MailInv)
<1>1. Init => MailInv
  BY DEF Init, MailInv, PostInv, Posting, RowMailInv, Stored
<1>2. TypeOK /\ Calls /\ MailInv /\ [Next]_vars => MailInv'
  BY QuietStep, QuietMail, LoudMail
<1> QED
  BY <1>1, <1>2, CodesAlways, PTL DEF Spec

(* A document is e-mailed once at most, after it was signed, and what was  *)
(* reported as sent was sent.                                              *)
THEOREM OneMail == Spec => []MailedOnce
<1>1. MailInv => MailedOnce
  BY DEF MailInv, RowMailInv, MailedOnce
<1> QED
  BY <1>1, MailAlways, PTL

Kept(c) ==
    Stored(codes[c]) /\ codes[c].signed # Null =>
        \/ codes'[c] = codes[c]
        \/ codes'[c] = Deleted
        \/ /\ codes[c].email = "pending"
           /\ codes'[c] \in {[codes[c] EXCEPT !.email = "sent"],
                             [codes[c] EXCEPT !.email = "failed"]}

LEMMA SignaturesStep ==
    ASSUME TypeOK, Calls, MailInv, [Next]_vars, NEW c \in Codes
    PROVE  Kept(c)
<1> SUFFICES ASSUME Stored(codes[c]), codes[c].signed # Null PROVE Kept(c)
  BY DEF Kept
<1>1. CASE ~ \E u \in Callers : Loud(u)
  <2>1. RowQuiet(c)
    BY <1>1, QuietStep DEF Quiet
  <2>2. codes'[c] # NoRow
    BY <2>1 DEF RowQuiet, Stored
  <2>3. Stored(codes'[c]) => codes'[c] = codes[c]
    BY <2>1 DEF RowQuiet
  <2> QED
    BY <2>2, <2>3 DEF Kept, Stored
<1>2. ASSUME NEW u \in Callers, Loud(u) PROVE Kept(c)
  <2>1. call[u].code \in Codes /\ pc[u] \notin {"idle", "create"}
    BY <1>2 DEF Loud, SignReservation, SignWithdrawal, Upload, SendDocument,
                ReportMail, Calls, CallInv
  <2>2. CASE SignReservation(u) \/ SignWithdrawal(u) \/ Upload(u)
    <3>1. \E now, form : Consume(call[u].code, now, form)
      BY <2>2 DEF SignReservation, SignWithdrawal, Upload
    <3>2. c # call[u].code
      BY <3>1 DEF Consume, Live
    <3> QED
      BY <3>1, <3>2 DEF Consume, Kept, TypeOK
  <2>3. CASE SendDocument(u)
    BY <2>3 DEF SendDocument, tables, Kept
  <2>4. CASE ReportMail(u)
    <3>1. pc[u] \in {"sent", "failed"}
      BY <2>4 DEF ReportMail
    <3>2. codes[c].email = "pending" \/ c # call[u].code
      BY <3>1 DEF MailInv, PostInv, Posting
    <3>3. \/ codes'[c] = codes[c]
          \/ c = call[u].code /\ codes'[c] = [codes[c] EXCEPT !.email = pc[u]]
      BY <2>1, <2>4 DEF ReportMail, TypeOK
    <3> QED
      BY <3>1, <3>2, <3>3 DEF Kept
  <2> QED
    BY <1>2, <2>2, <2>3, <2>4 DEF Loud
<1> QED
  BY <1>1, <1>2

(* What was signed stays as it was signed until the row goes.              *)
THEOREM SignedOnce == Spec => SignatureKept
<1>1. TypeOK /\ Calls /\ MailInv /\ [Next]_vars =>
          [\A c \in Codes :
               Stored(codes[c]) /\ codes[c].signed # Null =>
                   \/ codes'[c] = codes[c]
                   \/ codes'[c] = Deleted
                   \/ /\ codes[c].email = "pending"
                      /\ codes'[c] \in {[codes[c] EXCEPT !.email = "sent"],
                                        [codes[c] EXCEPT !.email = "failed"]}]_codes
  BY SignaturesStep DEF Kept
<1> QED
  BY <1>1, MailAlways, PTL DEF Spec, SignatureKept

-----------------------------------------------------------------------------
(* Signatures of withdrawals *)

(* A code of a delivery names it. *)
Named == kind = "delivery" =>
    \A c \in Codes : Stored(codes[c]) => codes[c].subject \in Ids

LEMMA NamedStep ==
    ASSUME TypeOK, Calls, Named, [Next]_vars
    PROVE  Named'
<1> SUFFICES ASSUME kind = "delivery", NEW c \in Codes, Stored(codes'[c])
             PROVE  codes'[c].subject \in Ids
  BY ClockStep DEF Named, Stored
<1>1. Effect /\ RowKept(c)
  BY Effects, RowsKept
<1>2. CASE codes[c] # NoRow
  BY <1>1, <1>2 DEF RowKept, Named
<1>3. CASE codes[c] = NoRow
  <2>1. ASSUME NEW d \in Codes, NEW id \in Ids, NEW now \in 1..clock,
               Inserted(d, id, now)
        PROVE  codes'[c].subject \in Ids
    <3>1. c = d
      BY <1>3, <2>1, InsertedRow DEF Stored
    <3>2. codes'[c] = NewCode(id, now)
      BY <2>1, <3>1, InsertedRow
    <3> QED
      BY <3>2 DEF NewCode
  <2>2. codes'[c] # codes[c]
    BY <1>3 DEF Stored
  <2>3. ASSUME NEW id \in Ids, Cascaded(id) PROVE codes'[c] = codes[c]
    BY <1>3, <2>3 DEF Cascaded, Stored
  <2>4. ASSUME NEW d \in Codes, NEW now \in 1..clock,
               NEW form \in Ids \union {NoSubject}, Consume(d, now, form)
        PROVE  codes'[c] = codes[c]
    BY <1>3, <2>4 DEF Consume, Live, Stored, TypeOK
  <2>5. ASSUME NEW d \in Codes, NEW result \in {"sent", "failed"},
               Reported(d, result)
        PROVE  codes'[c] = codes[c]
    BY <1>3, <2>5 DEF Reported, Stored, TypeOK
  <2> QED
    BY <1>1, <2>1, <2>2, <2>3, <2>4, <2>5 DEF Effect, SessionCreated
<1> QED
  BY <1>2, <1>3

(* What a step does to a delivery: a withdrawn one stays so, and only a    *)
(* signature takes more than its status.                                   *)
LEMMA WithdrawnKept ==
    ASSUME TypeOK, [Next]_vars, kind = "delivery", NEW id \in Ids,
           status[id] = "retirada"
    PROVE  status'[id] = "retirada"
<1> USE DEF TypeOK
<1>1. CASE UNCHANGED status
  BY <1>1
<1>2. ASSUME NEW other \in Ids,
             DeliveryArrives(other) \/ Withdraw(other) \/ DeliveryDeleted(other)
      PROVE  status'[id] = "retirada"
  BY <1>2 DEF DeliveryArrives, Withdraw, Waiting, DeliveryDeleted
<1>3. ASSUME NEW u \in Callers, SignWithdrawal(u) PROVE status'[id] = "retirada"
  BY <1>3 DEF SignWithdrawal
<1>4. ASSUME NEW u \in Callers,
             \/ \E other \in Ids : CreateCode(u, other)
             \/ \E c \in Codes : InsertCode(u, c) \/ Lookup(u, c) \/ ReadTime(u, c)
             \/ CreateFails(u) \/ SignReservation(u) \/ Upload(u)
             \/ ConfirmFails(u) \/ SendDocument(u) \/ ReportMail(u)
      PROVE  UNCHANGED status
  BY <1>4 DEF CreateCode, InsertCode, Lookup, ReadTime, CreateFails,
              SignReservation, Upload, ConfirmFails, SendDocument, ReportMail,
              tables
<1>5. ASSUME NEW g \in Guests,
             \/ \E other \in Ids : AddGuest(g, other)
             \/ \E confirmed \in BOOLEAN : ConfirmGuest(g, confirmed)
      PROVE  UNCHANGED status
  BY <1>5 DEF AddGuest, ConfirmGuest
<1>6. CASE Tick \/ Crash \/ UNCHANGED vars \/ \E c \in Codes : CreateSession(c)
  BY <1>1, <1>6 DEF Tick, Crash, vars, tables, CreateSession
<1>7. ~ ReservationChanges /\ \A other \in Ids : ~ ReservationDeleted(other)
  BY DEF ReservationChanges, ReservationDeleted
<1>8. CASE SubjectStep
  BY <1>1, <1>2, <1>5, <1>7, <1>8 DEF SubjectStep
<1>9. CASE CodeStep
  BY <1>1, <1>3, <1>4, <1>6, <1>9 DEF CodeStep
<1> QED
  BY <1>6, <1>8, <1>9 DEF Next

Signed(c) == Stored(codes[c]) /\ codes[c].signed # Null

LEMMA SignedWithdrawalStep ==
    ASSUME TypeOK, Calls, Named, SignedWithdrawal, [Next]_vars
    PROVE  SignedWithdrawal'
<1>0. kind' = kind
  BY ClockStep
<1> SUFFICES ASSUME kind = "delivery"
             PROVE  \A c \in Codes : Signed(c)' =>
                        /\ status'[codes'[c].subject] = "retirada"
                        /\ \A d \in Codes \ {c} :
                               Signed(d)' => codes'[d].subject # codes'[c].subject
  BY <1>0 DEF SignedWithdrawal, Signed, Stored
<1>1. \A c \in Codes : Signed(c) =>
          /\ codes[c].subject \in Ids
          /\ status[codes[c].subject] = "retirada"
          /\ \A d \in Codes \ {c} :
                 Signed(d) => codes[d].subject # codes[c].subject
  BY DEF SignedWithdrawal, Signed, Named
<1>2. \A id \in Ids : status[id] = "retirada" => status'[id] = "retirada"
  BY WithdrawnKept
<1>3. CASE \A c \in Codes :
               Signed(c)' => Signed(c) /\ codes'[c].subject = codes[c].subject
  BY <1>1, <1>2, <1>3
<1>4. ASSUME NEW u \in Callers, SignWithdrawal(u)
      PROVE  \A c \in Codes : Signed(c)' =>
                 /\ status'[codes'[c].subject] = "retirada"
                 /\ \A d \in Codes \ {c} :
                        Signed(d)' => codes'[d].subject # codes'[c].subject
  <2> PICK s \in Codes : s = call[u].code
    BY <1>4 DEF SignWithdrawal, Calls, CallInv
  <2>1. /\ Consume(s, call[u].since, codes[s].subject)
        /\ Waiting(codes[s].subject)
        /\ status' = [status EXCEPT ![codes[s].subject] = "retirada"]
    BY <1>4 DEF SignWithdrawal
  <2>2. codes[s] \in Code /\ codes[s].subject \in Ids
    BY <2>1, RowTypes DEF Consume, Live, Types, Named
  <2>3. /\ codes'[s].subject = codes[s].subject
        /\ \A d \in Codes \ {s} : codes'[d] = codes[d]
    BY <2>1, <2>2 DEF Consume, TypeOK, Code
  <2>4. \A d \in Codes \ {s} : Signed(d)' => Signed(d)
    BY <2>3 DEF Signed, Stored
  <2>5. \A d \in Codes \ {s} : Signed(d)' => codes[d].subject # codes[s].subject
    BY <1>1, <2>1, <2>4 DEF Waiting
  <2>6. status'[codes[s].subject] = "retirada"
    BY <2>1, <2>2 DEF TypeOK
  <2> QED
    BY <1>1, <1>2, <2>3, <2>4, <2>5, <2>6
<1>5. CASE ~ \E u \in Callers : Loud(u)
  <2>1. \A c \in Codes : RowQuiet(c)
    BY <1>5, QuietStep DEF Quiet
  <2> QED
    BY <1>3, <2>1 DEF RowQuiet, Signed, Stored
<1>6. ASSUME NEW u \in Callers, ReportMail(u)
      PROVE  \A c \in Codes :
                 Signed(c)' => Signed(c) /\ codes'[c].subject = codes[c].subject
  <2>1. call[u].code \in Codes
    BY <1>6 DEF ReportMail, Calls, CallInv
  <2> SUFFICES ASSUME NEW c \in Codes, Signed(c)'
               PROVE  Signed(c) /\ codes'[c].subject = codes[c].subject
    OBVIOUS
  <2>2. CASE codes'[c] = codes[c]
    BY <2>2 DEF Signed, Stored
  <2>3. CASE /\ Stored(codes[c])
             /\ codes'[c] = [codes[c] EXCEPT !.email = pc[u]]
    <3>1. codes[c] \in Code
      BY <2>3, RowTypes DEF Types
    <3>2. /\ codes'[c].subject = codes[c].subject
          /\ codes'[c].signed = codes[c].signed
      BY <2>3, <3>1 DEF Code
    <3> QED
      BY <2>3, <3>2 DEF Signed
  <2> QED
    BY <1>6, <2>1, <2>2, <2>3 DEF ReportMail, TypeOK
<1>7. ASSUME NEW u \in Callers, SendDocument(u)
      PROVE  \A c \in Codes :
                 Signed(c)' => Signed(c) /\ codes'[c].subject = codes[c].subject
  BY <1>7 DEF SendDocument, tables, Signed, Stored
<1>8. \A u \in Callers : ~ SignReservation(u) /\ ~ Upload(u)
  BY DEF SignReservation, Upload
<1> QED
  BY <1>3, <1>4, <1>5, <1>6, <1>7, <1>8 DEF Loud

(* One signature at most withdraws a delivery, and what is signed is       *)
(* withdrawn.                                                              *)
THEOREM OneSignature == Spec => []SignedWithdrawal
<1>1. Init => Named /\ SignedWithdrawal
  BY DEF Init, Named, SignedWithdrawal, Stored
<1>2. TypeOK /\ Calls /\ Named /\ SignedWithdrawal /\ [Next]_vars =>
          (Named /\ SignedWithdrawal)'
  BY NamedStep, SignedWithdrawalStep
<1> QED
  BY <1>1, <1>2, CodesAlways, PTL DEF Spec
=============================================================================
