------------------------ MODULE ReservationsProofs ------------------------
(***************************************************************************)
(* For every number of areas, apartments, goroutines, reservations and     *)
(* days: the unique indexes keep reservations apart, a reservation marked  *)
(* as synchronised is in the sheet as it is now, the table implements      *)
(* ReservationLife, a cancellation is announced once, and it comes in      *)
(* time.                                                                   *)
(***************************************************************************)
EXTENDS Reservations, TLAPS

(* What a pass of syncReservations knows of the rows it listed: whatever   *)
(* happened since, none has been acknowledged, and a row that still has    *)
(* the revision listed has the status listed.                              *)
Listed(e) ==
    /\ e.updated <= clock
    /\ rows[e.id] # NoRow =>
           /\ rows[e.id].sync # "SINCRONIZADO"
           /\ rows[e.id].updated = e.updated => rows[e.id].status = e.status

PassInv ==
    /\ \A id \in Ids : rows[id] # NoRow => rows[id].updated <= clock
    /\ \A e \in batch : Listed(e)
    /\ \A e, f \in batch : e.id = f.id => e = f
    /\ stage \in {"sent", "failed"} => cur \in batch
    /\ stage = "sent" => sheet[cur.id] = cur

(* The inductive invariant of SyncedIsCurrent. *)
SyncInv == TypeOK /\ PassInv /\ SyncedIsCurrent

-----------------------------------------------------------------------------
(* Types *)

LEMMA HandlerType ==
    ASSUME TypeOK, HandlerStep
    PROVE  TypeOK'
<1> USE BoundsAssumption, NoneAssumption
    DEF TypeOK, handlerVars, syncVars, mailVars
<1>1. ASSUME NEW area \in Areas, NEW unit \in Units, NEW date \in Dates,
             CreateCheck(area, unit, date)
      PROVE  TypeOK'
  BY <1>1 DEF CreateCheck, Booking
<1>2. ASSUME NEW b \in bookings, CreateInsert(b)
      PROVE  TypeOK'
  <2> DEFINE row == [area |-> b.area, unit |-> b.unit, date |-> b.date,
                     status |-> "reservada", sync |-> "PENDENTE_SYNC",
                     updated |-> clock + 1]
  <2>1. row \in Row
    BY <1>2 DEF CreateInsert, Booking, Row, Statuses, SyncStatuses
  <2>2. lastId + 1 \in Ids /\ clock + 1 \in 0..MaxClock
    BY <1>2 DEF CreateInsert, Ids
  <2>3. rows' = [rows EXCEPT ![lastId + 1] = row]
    BY <1>2 DEF CreateInsert
  <2> HIDE DEF row
  <2> QED
    BY <1>2, <2>1, <2>2, <2>3 DEF CreateInsert, Answered, Ids
<1>3. ASSUME NEW b \in bookings, CreateFails(b)
      PROVE  TypeOK'
  BY <1>3 DEF CreateFails, Answered
<1>4. ASSUME NEW u \in Updaters, NEW id \in Ids, NEW status \in Statuses,
             UpdateStatus(u, id, status)
      PROVE  TypeOK'
  BY <1>4 DEF UpdateStatus, Request
<1>5. ASSUME NEW u \in Updaters, UpdateRow(u)
      PROVE  TypeOK'
  <2> DEFINE id == request[u].id
             row == [rows[id] EXCEPT !.status = request[u].status,
                                     !.sync = "PENDENTE_SYNC",
                                     !.updated = clock + 1]
  <2>1. id \in Ids /\ request[u].status \in Statuses
    BY <1>5 DEF UpdateRow, Request
  <2>2. row \in Row /\ clock + 1 \in 0..MaxClock
    <3>1. rows[id] \in Row
      BY <1>5, <2>1 DEF UpdateRow
    <3>2. clock + 1 \in 1..MaxClock
      BY <1>5 DEF UpdateRow
    <3>3. row \in Row
      BY <2>1, <3>1, <3>2 DEF Row, SyncStatuses
    <3> QED
      BY <3>2, <3>3
  <2>3. rows' = [rows EXCEPT ![id] = row]
    BY <1>5 DEF UpdateRow
  <2>4. rows' \in [Ids -> Row \union {NoRow}]
    BY <2>1, <2>2, <2>3
  <2>5. cancelled' \in [Ids -> Nat]
    BY <1>5, <2>1 DEF UpdateRow
  <2>6. /\ statusMu' \in Updaters \union {Nobody}
        /\ pc' \in [Updaters -> {"idle", "update", "notify"}]
        /\ request' \in [Updaters -> Request \union {NoRow}]
        /\ \A v \in Updaters : pc'[v] # "idle" => request'[v] \in Request
    <3>1. CASE request[u].status = "cancelada"
      BY <1>5, <3>1 DEF UpdateRow
    <3>2. CASE request[u].status # "cancelada"
      BY <1>5, <3>2 DEF UpdateRow, Return
    <3> QED
      BY <3>1, <3>2
  <2> QED
    BY <1>5, <2>2, <2>4, <2>5, <2>6 DEF UpdateRow
<1>6. ASSUME NEW u \in Updaters, UpdateFails(u)
      PROVE  TypeOK'
  BY <1>6 DEF UpdateFails, Return
<1>7. ASSUME NEW u \in Updaters, NotifyCancellation(u)
      PROVE  TypeOK'
  <2>1. request[u].id \in Ids
    BY <1>7 DEF NotifyCancellation, Request
  <2>2. mails' \in [Ids -> Nat]
    BY <1>7, <2>1 DEF NotifyCancellation
  <2> QED
    BY <1>7, <2>2 DEF NotifyCancellation, Return
<1>8. ASSUME NEW id \in Ids, DeleteCheck(id)
      PROVE  TypeOK'
  BY <1>8 DEF DeleteCheck
<1>9. ASSUME NEW id \in Ids, DeleteRow(id)
      PROVE  TypeOK'
  BY <1>9 DEF DeleteRow
<1> QED
  BY <1>1, <1>2, <1>3, <1>4, <1>5, <1>6, <1>7, <1>8, <1>9 DEF HandlerStep

(* A mark changes the status of synchronisation of a row, or nothing.      *)
LEMMA MarkType ==
    ASSUME TypeOK, cur \in Entry, NEW sync \in SyncStatuses, Mark(sync)
    PROVE  rows' \in [Ids -> Row \union {NoRow}]
BY DEF TypeOK, Mark, SameRevision, Row, Entry

LEMMA SyncType ==
    ASSUME TypeOK, SyncStep
    PROVE  TypeOK'
<1> USE BoundsAssumption, NoneAssumption
    DEF TypeOK, handlerVars, syncVars, mailVars
<1>1. CASE ListPendingSync
  <2>1. PendingSync \subseteq Entry
    BY DEF PendingSync, EntryOf, Entry, Row
  <2> QED
    BY <1>1, <2>1 DEF ListPendingSync
<1>2. ASSUME NEW e \in batch, AppendReservation(e) \/ AppendFails(e)
      PROVE  TypeOK'
  BY <1>2 DEF AppendReservation, AppendFails, Entry
<1>3. CASE MarkSynced
  <2>1. rows' \in [Ids -> Row \union {NoRow}]
    BY <1>3, MarkType DEF MarkSynced, SyncStatuses
  <2> QED
    BY <1>3, <2>1 DEF MarkSynced, Continue
<1>4. CASE MarkSyncError
  <2>1. rows' \in [Ids -> Row \union {NoRow}]
    BY <1>4, MarkType DEF MarkSyncError, SyncStatuses
  <2> QED
    BY <1>4, <2>1 DEF MarkSyncError, Continue
<1>5. CASE MarkFails
  BY <1>5 DEF MarkFails, Continue
<1> QED
  BY <1>1, <1>2, <1>3, <1>4, <1>5 DEF SyncStep

LEMMA InitType == Init => TypeOK
BY BoundsAssumption, NoneAssumption DEF Init, TypeOK, Days

LEMMA NextType == TypeOK /\ [Next]_vars => TypeOK'
<1> SUFFICES ASSUME TypeOK, [Next]_vars
             PROVE  TypeOK'
  OBVIOUS
<1>1. CASE NextDay
  BY <1>1, BoundsAssumption
     DEF NextDay, TypeOK, Days, handlerVars, syncVars, mailVars
<1>2. CASE Crash
  BY <1>2, BoundsAssumption DEF Crash, TypeOK, mailVars
<1>3. CASE UNCHANGED vars
  BY <1>3 DEF vars, TypeOK, handlerVars, syncVars, mailVars
<1> QED
  BY <1>1, <1>2, <1>3, HandlerType, SyncType DEF Next

(* Every variable keeps its type. *)
THEOREM TypeCorrect == Spec => []TypeOK
<1> QED
  BY InitType, NextType, PTL DEF Spec

-----------------------------------------------------------------------------
(* The unique indexes *)

(* A change of one row keeps the reservations apart if the row, when       *)
(* active, passes the test of the indexes.                                 *)
LEMMA RowChange ==
    ASSUME TypeOK, NoDoubleBooking,
           NEW id \in Ids, NEW row \in Row, NEW tested,
           tested = id \/ tested \notin Ids,
           row.status = "reservada" =>
               ~DateTaken(tested, row.date, row.area, row.unit),
           rows' = [rows EXCEPT ![id] = row]
    PROVE  NoDoubleBooking'
BY DEF TypeOK, NoDoubleBooking, DateTaken, Booked, Row

LEMMA MarkKeepsApart ==
    ASSUME TypeOK, NoDoubleBooking, cur \in Entry, NEW sync, Mark(sync)
    PROVE  NoDoubleBooking'
BY DEF TypeOK, NoDoubleBooking, Booked, Mark, SameRevision, Row, Entry

LEMMA NextKeepsApart ==
    TypeOK /\ NoDoubleBooking /\ [Next]_vars => NoDoubleBooking'
<1> SUFFICES ASSUME TypeOK, NoDoubleBooking, [Next]_vars
             PROVE  NoDoubleBooking'
  OBVIOUS
<1>1. ASSUME rows' = rows
      PROVE  NoDoubleBooking'
  BY <1>1 DEF NoDoubleBooking, Booked
<1>2. ASSUME NEW b \in bookings, CreateInsert(b)
      PROVE  NoDoubleBooking'
  <2> DEFINE row == [area |-> b.area, unit |-> b.unit, date |-> b.date,
                     status |-> "reservada", sync |-> "PENDENTE_SYNC",
                     updated |-> clock + 1]
  <2>1. row \in Row
    BY <1>2, BoundsAssumption
       DEF TypeOK, CreateInsert, Booking, Row, Statuses, SyncStatuses
  <2>2. lastId + 1 \in Ids /\ 0 \notin Ids
    BY <1>2, BoundsAssumption DEF TypeOK, CreateInsert, Ids
  <2>3. rows' = [rows EXCEPT ![lastId + 1] = row]
    BY <1>2 DEF CreateInsert
  <2>4. ~DateTaken(0, row.date, row.area, row.unit)
    BY <1>2 DEF CreateInsert
  <2> HIDE DEF row
  <2> QED
    BY <2>1, <2>2, <2>3, <2>4, RowChange
<1>3. ASSUME NEW u \in Updaters, UpdateRow(u)
      PROVE  NoDoubleBooking'
  <2> DEFINE id == request[u].id
             row == [rows[id] EXCEPT !.status = request[u].status,
                                     !.sync = "PENDENTE_SYNC",
                                     !.updated = clock + 1]
  <2>1. id \in Ids /\ request[u].status \in Statuses
    BY <1>3 DEF TypeOK, UpdateRow, Request
  <2>2. row \in Row
    <3>1. rows[id] \in Row
      BY <1>3, <2>1 DEF TypeOK, UpdateRow
    <3>2. clock + 1 \in 1..MaxClock
      BY <1>3, BoundsAssumption DEF TypeOK, UpdateRow
    <3> QED
      BY <2>1, <3>1, <3>2 DEF Row, SyncStatuses
  <2>3. rows' = [rows EXCEPT ![id] = row]
    BY <1>3 DEF UpdateRow
  <2>4. row.status = "reservada" =>
            ~DateTaken(id, row.date, row.area, row.unit)
    BY <1>3, <2>1 DEF TypeOK, UpdateRow, Row
  <2> HIDE DEF row
  <2> QED
    BY <2>1, <2>2, <2>3, <2>4, RowChange
<1>4. ASSUME NEW id \in Ids, DeleteRow(id)
      PROVE  NoDoubleBooking'
  BY <1>4 DEF DeleteRow, TypeOK, NoDoubleBooking, Booked
<1>5. CASE MarkSynced \/ MarkSyncError
  BY <1>5, MarkKeepsApart DEF MarkSynced, MarkSyncError, TypeOK
<1>6. CASE HandlerStep
  BY <1>1, <1>2, <1>3, <1>4, <1>6
     DEF HandlerStep, CreateCheck, CreateFails, UpdateStatus, UpdateFails,
         NotifyCancellation, DeleteCheck
<1>7. CASE SyncStep
  BY <1>1, <1>5, <1>7
     DEF SyncStep, ListPendingSync, AppendReservation, AppendFails, MarkFails
<1> QED
  BY <1>1, <1>6, <1>7 DEF Next, NextDay, Crash, vars

(* Two active reservations of a day share neither area nor apartment,      *)
(* whatever HasActiveConflict answered to requests that came together.     *)
THEOREM BookingsApart == Spec => []NoDoubleBooking
<1>1. Init => NoDoubleBooking
  BY DEF Init, NoDoubleBooking, Booked
<1> QED
  BY <1>1, InitType, NextType, NextKeepsApart, PTL DEF Spec

-----------------------------------------------------------------------------
(* The acknowledgement of a revision *)

(* A handler gives a row a new revision that waits for the sheet, or       *)
(* removes it, or touches no row.                                          *)
LEMMA HandlerRows ==
    ASSUME TypeOK, HandlerStep
    PROVE  /\ UNCHANGED <<syncVars, sheet>>
           /\ clock' \in {clock, clock + 1}
           /\ \A id \in Ids :
                  \/ rows'[id] = rows[id]
                  \/ rows'[id] = NoRow
                  \/ /\ rows'[id].sync = "PENDENTE_SYNC"
                     /\ rows'[id].updated = clock + 1
                     /\ clock' = clock + 1
<1> USE DEF TypeOK, handlerVars, syncVars
<1>1. ASSUME NEW b \in bookings, CreateInsert(b)
      PROVE  \A id \in Ids :
                 \/ rows'[id] = rows[id]
                 \/ /\ rows'[id].sync = "PENDENTE_SYNC"
                    /\ rows'[id].updated = clock + 1
                    /\ clock' = clock + 1
  BY <1>1 DEF CreateInsert
<1>2. ASSUME NEW u \in Updaters, UpdateRow(u)
      PROVE  \A id \in Ids :
                 \/ rows'[id] = rows[id]
                 \/ /\ rows'[id].sync = "PENDENTE_SYNC"
                    /\ rows'[id].updated = clock + 1
                    /\ clock' = clock + 1
  <2> DEFINE request_id == request[u].id
             row == [rows[request_id] EXCEPT !.status = request[u].status,
                                             !.sync = "PENDENTE_SYNC",
                                             !.updated = clock + 1]
  <2>1. request_id \in Ids /\ rows[request_id] \in Row
    BY <1>2 DEF UpdateRow, Request
  <2>2. /\ rows' = [rows EXCEPT ![request_id] = row]
        /\ clock' = clock + 1
    BY <1>2 DEF UpdateRow
  <2>3. row.sync = "PENDENTE_SYNC" /\ row.updated = clock + 1
    BY <2>1 DEF Row
  <2> HIDE DEF row, request_id
  <2> QED
    BY <2>1, <2>2, <2>3
<1>3. ASSUME NEW deleted \in Ids, DeleteRow(deleted)
      PROVE  \A id \in Ids : rows'[id] = rows[id] \/ rows'[id] = NoRow
  BY <1>3 DEF DeleteRow
<1>4. UNCHANGED <<syncVars, sheet>> /\ clock' \in {clock, clock + 1}
  BY DEF HandlerStep, CreateCheck, CreateInsert, CreateFails, UpdateStatus,
         UpdateRow, UpdateFails, NotifyCancellation, DeleteCheck, DeleteRow
<1> QED
  BY <1>1, <1>2, <1>3, <1>4
     DEF HandlerStep, CreateCheck, CreateFails, UpdateStatus, UpdateFails,
         NotifyCancellation, DeleteCheck

LEMMA HandlerSync ==
    ASSUME SyncInv, HandlerStep
    PROVE  PassInv' /\ SyncedIsCurrent'
<1>1. clock \in Nat /\ batch \subseteq Entry
  BY BoundsAssumption DEF SyncInv, TypeOK
<1>2. \A id \in Ids : rows[id] # NoRow =>
          rows[id].updated \in Nat /\ rows[id].updated <= clock
  BY BoundsAssumption DEF SyncInv, TypeOK, PassInv, Row
<1>3. SyncedIsCurrent'
  BY HandlerRows DEF SyncInv, SyncedIsCurrent, EntryOf
<1>4. \A e \in batch : Listed(e)'
  BY <1>1, <1>2, HandlerRows, BoundsAssumption
     DEF SyncInv, PassInv, Listed, Entry
<1>5. \A id \in Ids : rows'[id] # NoRow => rows'[id].updated <= clock'
  BY <1>1, <1>2, HandlerRows DEF SyncInv
<1> QED
  BY <1>3, <1>4, <1>5, HandlerRows
     DEF SyncInv, PassInv, syncVars

LEMMA PassSync ==
    ASSUME SyncInv, SyncStep
    PROVE  PassInv' /\ SyncedIsCurrent'
<1> USE DEF SyncInv, TypeOK, handlerVars
<1>1. CASE ListPendingSync
  <2>1. batch' \subseteq PendingSync /\ stage' = "next"
    BY <1>1 DEF ListPendingSync
  <2>2. \A e \in PendingSync :
            /\ e.id \in Ids
            /\ rows[e.id] # NoRow
            /\ rows[e.id].sync # "SINCRONIZADO"
            /\ e = EntryOf(e.id)
    BY DEF PendingSync, EntryOf
  <2>3. \A e \in PendingSync : Listed(e)'
    BY <1>1, <2>2 DEF ListPendingSync, PassInv, Listed, EntryOf
  <2> QED
    BY <1>1, <2>1, <2>2, <2>3
       DEF ListPendingSync, PassInv, SyncedIsCurrent, EntryOf
<1>2. ASSUME NEW e \in batch, AppendReservation(e) \/ AppendFails(e)
      PROVE  PassInv' /\ SyncedIsCurrent'
  <2>1. e \in Entry /\ e.id \in Ids
    BY DEF Entry
  <2>2. /\ UNCHANGED <<rows, clock, batch>>
        /\ cur' = e
        /\ sheet' \in {sheet, [sheet EXCEPT ![e.id] = e]}
        /\ stage' = "sent" => sheet' = [sheet EXCEPT ![e.id] = e]
    BY <1>2 DEF AppendReservation, AppendFails
  <2>3. PassInv'
    BY <2>1, <2>2 DEF PassInv, Listed
  <2>4. SyncedIsCurrent'
    BY <2>1, <2>2 DEF PassInv, Listed, SyncedIsCurrent, EntryOf
  <2> QED
    BY <2>3, <2>4
<1>3. ASSUME NEW sync \in SyncStatuses, Mark(sync),
             stage \in {"sent", "failed"},
             sync = "SINCRONIZADO" => stage = "sent",
             Continue(batch \ {cur}),
             UNCHANGED <<clock, sheet>>
      PROVE  PassInv' /\ SyncedIsCurrent'
  <2>1. cur \in batch /\ cur.id \in Ids
    BY <1>3 DEF PassInv, Entry
  <2>2. \A id \in Ids : id # cur.id => rows'[id] = rows[id]
    BY <1>3, <2>1 DEF Mark
  <2>3. \/ rows'[cur.id] = rows[cur.id]
        \/ /\ rows[cur.id] # NoRow
           /\ rows[cur.id].updated = cur.updated
           /\ rows'[cur.id] = [rows[cur.id] EXCEPT !.sync = sync]
    BY <1>3, <2>1 DEF Mark, SameRevision
  <2>4. PassInv'
    <3>1. \A id \in Ids : rows'[id] # NoRow => rows'[id].updated <= clock'
      BY <1>3, <2>2, <2>3 DEF PassInv, Row
    <3>2. \A e \in batch \ {cur} : e.id \in Ids /\ e.id # cur.id
      BY <2>1 DEF PassInv, Entry
    <3>3. \A e \in batch' : Listed(e)'
      BY <1>3, <2>2, <3>2 DEF PassInv, Listed, Continue
    <3> QED
      BY <1>3, <3>1, <3>3 DEF PassInv, Continue
  <2>5. SyncedIsCurrent'
    <3>1. ASSUME sync = "SINCRONIZADO", SameRevision
          PROVE  sheet[cur.id] = EntryOf(cur.id)
      BY <1>3, <2>1, <3>1
         DEF PassInv, Listed, SameRevision, EntryOf, Entry
    <3>2. ASSUME NEW id \in Ids, id # cur.id,
                 rows'[id] # NoRow, rows'[id].sync = "SINCRONIZADO"
          PROVE  sheet'[id] = EntryOf(id)'
      BY <1>3, <2>2, <3>2 DEF SyncedIsCurrent, EntryOf
    <3>3. ASSUME rows'[cur.id] # NoRow,
                 rows'[cur.id].sync = "SINCRONIZADO"
          PROVE  sheet'[cur.id] = [id |-> cur.id,
                                   status |-> rows'[cur.id].status,
                                   updated |-> rows'[cur.id].updated]
      <4>1. CASE rows'[cur.id] = rows[cur.id]
        BY <1>3, <2>1, <3>3, <4>1 DEF SyncedIsCurrent, EntryOf
      <4>2. CASE rows'[cur.id] # rows[cur.id]
        BY <1>3, <2>1, <2>3, <3>1, <3>3, <4>2
           DEF SameRevision, EntryOf, Row
      <4> QED
        BY <4>1, <4>2
    <3> QED
      BY <2>1, <3>2, <3>3 DEF SyncedIsCurrent, EntryOf
  <2> QED
    BY <2>4, <2>5
<1>4. CASE MarkSynced
  BY <1>3, <1>4 DEF MarkSynced, SyncStatuses
<1>5. CASE MarkSyncError
  BY <1>3, <1>5 DEF MarkSyncError, SyncStatuses
<1>6. CASE MarkFails
  BY <1>6
     DEF MarkFails, Continue, PassInv, SyncedIsCurrent, EntryOf
<1> QED
  BY <1>1, <1>2, <1>4, <1>5, <1>6 DEF SyncStep

LEMMA NextSync == SyncInv /\ [Next]_vars => SyncInv'
<1> SUFFICES ASSUME SyncInv, [Next]_vars
             PROVE  PassInv' /\ SyncedIsCurrent'
  BY NextType DEF SyncInv
<1>1. CASE NextDay \/ UNCHANGED vars
  BY <1>1 DEF NextDay, vars, syncVars, SyncInv, PassInv, Listed,
              SyncedIsCurrent, EntryOf
<1>2. CASE Crash
  BY <1>2 DEF Crash, SyncInv, PassInv, SyncedIsCurrent, EntryOf
<1> QED
  BY <1>1, <1>2, HandlerSync, PassSync DEF Next

(* A reservation marked SINCRONIZADO is in the sheet with its present      *)
(* status, even when it changes, fails or the process stops while an older *)
(* revision is on its way.                                                 *)
THEOREM AcknowledgedIsCurrent == Spec => []SyncedIsCurrent
<1>1. Init => SyncInv
  BY InitType DEF Init, SyncInv, PassInv, SyncedIsCurrent
<1>2. SyncInv => SyncedIsCurrent
  BY DEF SyncInv
<1> QED
  BY <1>1, <1>2, NextSync, PTL DEF Spec

-----------------------------------------------------------------------------
(* The life of a reservation, and the calls of UpdateStatus *)

(* AUTOINCREMENT: no id is in use before it is given. *)
IdsGiven == \A id \in Ids : rows[id] # NoRow => id <= lastId

(* What a step does to the rows without the mutex: nothing to what they    *)
(* are about, or one is deleted, or one is added.                          *)
RowLeft(id) ==
    \/ rows'[id] = rows[id]
    \/ /\ rows[id] # NoRow /\ rows'[id] # NoRow
       /\ rows'[id].status = rows[id].status
       /\ rows'[id].date = rows[id].date

RowsLeft == lastId' = lastId /\ \A id \in Ids : RowLeft(id)

RowDeleted(id) == lastId' = lastId /\ rows' = [rows EXCEPT ![id] = NoRow]

RowAdded ==
    /\ lastId' = lastId + 1
    /\ lastId' \in Ids
    /\ rows'[lastId'] # NoRow
    /\ rows'[lastId'].status = "reservada"
    /\ \A id \in Ids \ {lastId'} : rows'[id] = rows[id]

LEMMA MarkLeaves ==
    ASSUME TypeOK, cur \in Entry, NEW sync \in SyncStatuses, Mark(sync),
           NEW id \in Ids
    PROVE  RowLeft(id)
<1>1. cur.id \in Ids
  BY DEF Entry
<1>2. CASE id # cur.id \/ ~ SameRevision
  BY <1>1, <1>2 DEF Mark, RowLeft, TypeOK
<1>3. CASE id = cur.id /\ SameRevision
  <2>1. rows[id] \in Row
    BY <1>3 DEF SameRevision, TypeOK
  <2>2. rows'[id] = [rows[id] EXCEPT !.sync = sync]
    BY <1>1, <1>3 DEF Mark, TypeOK
  <2>3. rows'[id] \in Row
    BY <2>1, <2>2 DEF Row
  <2> QED
    BY <1>3, <2>1, <2>2, <2>3, NoneAssumption DEF RowLeft, SameRevision, Row
<1> QED
  BY <1>2, <1>3

LEMMA RowSteps ==
    ASSUME TypeOK, IdsGiven, [Next]_vars
    PROVE  \/ RowsLeft \/ RowAdded
           \/ \E id \in Ids : RowDeleted(id)
           \/ \E u \in Updaters : UpdateRow(u)
<1> USE DEF TypeOK
<1>1. ASSUME rows' = rows, lastId' = lastId PROVE RowsLeft
  BY <1>1 DEF RowsLeft, RowLeft
<1>2. ASSUME NEW b \in bookings, CreateInsert(b) PROVE RowAdded
  <2> DEFINE row == [area |-> b.area, unit |-> b.unit, date |-> b.date,
                     status |-> "reservada", sync |-> "PENDENTE_SYNC",
                     updated |-> clock + 1]
  <2>1. row \in Row
    BY <1>2, BoundsAssumption
       DEF CreateInsert, Booking, Row, Statuses, SyncStatuses
  <2>2. lastId + 1 \in Ids /\ lastId' = lastId + 1
    BY <1>2, BoundsAssumption DEF CreateInsert, Ids
  <2>3. rows' = [rows EXCEPT ![lastId + 1] = row]
    BY <1>2 DEF CreateInsert
  <2>4. row.status = "reservada"
    OBVIOUS
  <2> HIDE DEF row
  <2> QED
    BY <2>1, <2>2, <2>3, <2>4, NoneAssumption DEF RowAdded
<1>3. ASSUME NEW id \in Ids, DeleteRow(id) PROVE RowDeleted(id)
  BY <1>3 DEF DeleteRow, RowDeleted
<1>4. CASE MarkSynced \/ MarkSyncError
  <2>1. cur \in Entry /\ lastId' = lastId
    BY <1>4 DEF MarkSynced, MarkSyncError
  <2>2. \E sync \in SyncStatuses : Mark(sync)
    BY <1>4 DEF MarkSynced, MarkSyncError, SyncStatuses
  <2> QED
    BY <2>1, <2>2, MarkLeaves DEF RowsLeft
<1>5. CASE HandlerStep
  BY <1>1, <1>2, <1>3, <1>5
     DEF HandlerStep, CreateCheck, CreateFails, UpdateStatus, UpdateFails,
         NotifyCancellation, DeleteCheck
<1>6. CASE SyncStep
  BY <1>1, <1>4, <1>6
     DEF SyncStep, ListPendingSync, AppendReservation, AppendFails, MarkFails
<1> QED
  BY <1>1, <1>5, <1>6 DEF Next, NextDay, Crash, vars

(* The UPDATE of a status. *)
LEMMA UpdatedRow ==
    ASSUME TypeOK, NEW u \in Updaters, UpdateRow(u)
    PROVE  LET id == request[u].id IN
           /\ request[u] \in Request
           /\ id \in Ids /\ rows[id] \in Row /\ rows[id] # NoRow
           /\ rows'[id] # NoRow
           /\ rows'[id].status = request[u].status
           /\ rows'[id].date = rows[id].date
           /\ \A other \in Ids \ {id} : rows'[other] = rows[other]
           /\ lastId' = lastId
<1> USE DEF TypeOK
<1> DEFINE row == [rows[request[u].id] EXCEPT !.status = request[u].status,
                                              !.sync = "PENDENTE_SYNC",
                                              !.updated = clock + 1]
<1>1. request[u] \in Request /\ rows[request[u].id] # NoRow /\ lastId' = lastId
  BY DEF UpdateRow
<1>2. /\ request[u].id \in Ids /\ rows[request[u].id] \in Row
      /\ request[u].status \in Statuses
  BY <1>1 DEF Request
<1>3. clock + 1 \in 1..MaxClock
  BY BoundsAssumption DEF UpdateRow
<1>4. row \in Row
  BY <1>2, <1>3 DEF Row, SyncStatuses
<1>5. row.status = request[u].status /\ row.date = rows[request[u].id].date
  BY <1>2 DEF Row
<1>6. rows' = [rows EXCEPT ![request[u].id] = row]
  BY DEF UpdateRow
<1> HIDE DEF row
<1> QED
  BY <1>1, <1>2, <1>4, <1>5, <1>6, NoneAssumption

LEMMA IdsGivenStep == TypeOK /\ IdsGiven /\ [Next]_vars => IdsGiven'
<1> SUFFICES ASSUME TypeOK, IdsGiven, [Next]_vars PROVE IdsGiven'
  OBVIOUS
<1>0. lastId \in Nat
  BY BoundsAssumption DEF TypeOK
<1>1. CASE RowsLeft
  BY <1>0, <1>1 DEF RowsLeft, RowLeft, IdsGiven
<1>2. CASE RowAdded
  BY <1>0, <1>2, BoundsAssumption DEF RowAdded, IdsGiven, Ids
<1>3. ASSUME NEW u \in Updaters, UpdateRow(u) PROVE IdsGiven'
  BY <1>0, <1>3, UpdatedRow DEF IdsGiven
<1>4. ASSUME NEW id \in Ids, RowDeleted(id) PROVE IdsGiven'
  BY <1>4 DEF RowDeleted, IdsGiven, TypeOK
<1> QED
  BY <1>1, <1>2, <1>3, <1>4, RowSteps

LEMMA LifeStep ==
    ASSUME TypeOK, IdsGiven, [Next]_vars
    PROVE  [Life!Next]_LifeOf
<1> USE DEF TypeOK
<1>0. lastId \in Nat /\ Ids \subseteq Nat
  BY BoundsAssumption DEF Ids
<1>1. LifeOf = [id \in Ids |-> IF rows[id] # NoRow THEN rows[id].status
                               ELSE IF id <= lastId THEN "gone" ELSE "none"]
  BY DEF LifeOf
<1>2. LifeOf' = [id \in Ids |-> IF rows'[id] # NoRow THEN rows'[id].status
                                ELSE IF id <= lastId' THEN "gone" ELSE "none"]
  BY DEF LifeOf
<1>3. \A id \in Ids : rows[id] # NoRow =>
          LifeOf[id] \in Life!Statuses /\ Life!Exists(id)
  BY <1>1 DEF Life!Exists, Life!Statuses, Row, Statuses
<1>4. CASE RowsLeft
  <2>1. LifeOf' = LifeOf
    BY <1>1, <1>2, <1>4 DEF RowsLeft, RowLeft
  <2> QED
    BY <2>1
<1>5. ASSUME NEW id \in Ids, RowDeleted(id) PROVE [Life!Next]_LifeOf
  <2>1. CASE rows[id] = NoRow
    <3>1. LifeOf' = LifeOf
      BY <1>1, <1>2, <1>5, <2>1 DEF RowDeleted
    <3> QED
      BY <3>1
  <2>2. CASE rows[id] # NoRow
    <3>1. LifeOf' = [LifeOf EXCEPT ![id] = "gone"]
      BY <1>1, <1>2, <1>5, <2>2 DEF RowDeleted, IdsGiven
    <3>2. Life!Remove(id)
      BY <1>3, <2>2, <3>1 DEF Life!Remove
    <3> QED
      BY <3>2 DEF Life!Next
  <2> QED
    BY <2>1, <2>2
<1>6. CASE RowAdded
  <2> DEFINE id == lastId + 1
  <2>1. /\ id \in Ids /\ lastId' = id /\ rows[id] = NoRow
        /\ rows'[id] # NoRow /\ rows'[id].status = "reservada"
        /\ \A other \in Ids \ {id} : rows'[other] = rows[other]
    BY <1>0, <1>6 DEF RowAdded, IdsGiven
  <2>2. LifeOf[id] = "none"
    BY <1>0, <1>1, <2>1
  <2>3. \A other \in Ids : other < id => LifeOf[other] # "none"
    BY <1>0, <1>1, <1>3 DEF Life!Statuses
  <2>4. LifeOf' = [LifeOf EXCEPT ![id] = "reservada"]
    <3>1. \A other \in Ids \ {id} : other <= lastId' <=> other <= lastId
      BY <1>0, <2>1
    <3>2. \A other \in Ids \ {id} : LifeOf'[other] = LifeOf[other]
      BY <1>1, <1>2, <2>1, <3>1
    <3>3. LifeOf'[id] = "reservada"
      BY <1>2, <2>1
    <3> HIDE DEF id
    <3> QED
      BY <1>1, <1>2, <3>2, <3>3
  <2> HIDE DEF id
  <2>5. Life!Book(id)
    BY <2>2, <2>3, <2>4 DEF Life!Book
  <2> QED
    BY <2>1, <2>5 DEF Life!Next
<1>7. ASSUME NEW u \in Updaters, UpdateRow(u) PROVE [Life!Next]_LifeOf
  <2> PICK id \in Ids : id = request[u].id
    BY <1>7, UpdatedRow
  <2> PICK status \in Statuses : status = request[u].status
    BY <1>7, UpdatedRow DEF Request
  <2>1. /\ rows[id] # NoRow /\ rows'[id] # NoRow /\ rows'[id].status = status
        /\ \A other \in Ids \ {id} : rows'[other] = rows[other]
        /\ lastId' = lastId
    BY <1>7, UpdatedRow
  <2>2. LifeOf' = [LifeOf EXCEPT ![id] = status]
    BY <1>1, <1>2, <2>1
  <2>3. Life!ChangeStatus(id, status)
    BY <1>3, <2>1, <2>2 DEF Life!ChangeStatus
  <2> QED
    BY <2>3 DEF Life!Next, Life!Statuses, Statuses
<1> QED
  BY <1>4, <1>5, <1>6, <1>7, RowSteps

(* The table implements ReservationLife, under Create calls that come      *)
(* together, changes of status, deletions and marks: OneTimeCodes may rely *)
(* on it.                                                                  *)
THEOREM LifeImplemented == Spec => ReservationLifeSpec
<1>1. Init => TypeOK /\ IdsGiven /\ Life!Init
  <2>1. Init => IdsGiven
    BY DEF Init, IdsGiven
  <2>2. Init => Life!Init
    BY DEF Init, Life!Init, LifeOf, Ids
  <2> QED
    BY <2>1, <2>2, InitType
<1>2. TypeOK /\ IdsGiven /\ [Next]_vars => (TypeOK /\ IdsGiven)'
  BY NextType, IdsGivenStep
<1>3. TypeOK /\ IdsGiven /\ [Next]_vars => [Life!Next]_LifeOf
  BY LifeStep
<1> QED
  BY <1>1, <1>2, <1>3, PTL DEF Spec, ReservationLifeSpec, Life!Spec

-----------------------------------------------------------------------------
(* What an UpdateStatus call knows between its steps.  The day it began on *)
(* is today or yesterday; what it is to cancel was not cancelled, and far  *)
(* enough away, when it looked, and only the holder of statusMu could have *)
(* changed that; what it announces was not announced yet.                  *)
UpdaterInv(u) ==
    pc[u] # "idle" =>
        LET id == request[u].id IN
        /\ statusMu = u
        /\ request[u].day <= today /\ today <= request[u].day + 1
        /\ pc[u] = "update" /\ request[u].status = "cancelada" =>
               /\ id <= lastId
               /\ rows[id] # NoRow =>
                      /\ rows[id].status # "cancelada"
                      /\ rows[id].date - request[u].day >= LimitDays
        /\ pc[u] = "notify" => mails[id] < cancelled[id]

DeskInv ==
    /\ IdsGiven
    /\ \A u \in Updaters : UpdaterInv(u)
    /\ OneMailPerCancellation

LEMMA DeskInit == Init => DeskInv
  BY DEF Init, DeskInv, IdsGiven, UpdaterInv, OneMailPerCancellation

(* Rows that do not change under a call that is to cancel one of them.     *)
LEMMA CancelKept ==
    ASSUME TypeOK, IdsGiven, RowsLeft \/ RowAdded \/ \E d \in Ids : RowDeleted(d),
           NEW id \in Ids, id <= lastId, rows'[id] # NoRow
    PROVE  /\ id <= lastId'
           /\ rows[id] # NoRow
           /\ rows'[id].status = rows[id].status
           /\ rows'[id].date = rows[id].date
<1>0. lastId \in Nat /\ Ids \subseteq Nat
  BY BoundsAssumption DEF TypeOK, Ids
<1>1. CASE RowsLeft
  BY <1>1 DEF RowsLeft, RowLeft
<1>2. CASE RowAdded
  BY <1>0, <1>2 DEF RowAdded
<1>3. ASSUME NEW d \in Ids, RowDeleted(d)
      PROVE  rows'[id] = rows[id] /\ lastId' = lastId
  BY <1>3 DEF RowDeleted, TypeOK
<1> QED
  BY <1>1, <1>2, <1>3

(* A step that leaves the call, the mails and the counts alone.            *)
LEMMA UpdaterKept ==
    ASSUME TypeOK, DeskInv, NEW u \in Updaters,
           RowsLeft \/ RowAdded \/ \E d \in Ids : RowDeleted(d),
           UNCHANGED <<statusMu, pc, request, today, mailVars>>
    PROVE  UpdaterInv(u)'
<1> SUFFICES ASSUME pc[u] # "idle" PROVE UpdaterInv(u)'
  BY DEF UpdaterInv
<1>1. UpdaterInv(u) /\ IdsGiven
  BY DEF DeskInv
<1>2. request[u].id \in Ids
  BY DEF TypeOK, Request
<1>3. UNCHANGED <<mails, cancelled>>
  BY DEF mailVars
<1>4. ASSUME pc[u] = "update", request[u].status = "cancelada"
      PROVE  /\ request[u].id <= lastId'
             /\ rows'[request[u].id] # NoRow =>
                    /\ rows'[request[u].id].status # "cancelada"
                    /\ rows'[request[u].id].date - request[u].day >= LimitDays
  <2> DEFINE id == request[u].id
  <2>1. id \in Ids /\ id <= lastId
    BY <1>1, <1>2, <1>4 DEF UpdaterInv
  <2>2. rows[id] # NoRow => /\ rows[id].status # "cancelada"
                            /\ rows[id].date - request[u].day >= LimitDays
    BY <1>1, <1>4 DEF UpdaterInv
  <2> HIDE DEF id
  <2>3. rows'[id] # NoRow => rows[id] # NoRow /\ rows'[id].status = rows[id].status
                             /\ rows'[id].date = rows[id].date
    BY <1>1, <2>1, CancelKept
  <2>4. id <= lastId'
    BY <1>1, <2>1, BoundsAssumption DEF RowsLeft, RowAdded, RowDeleted, TypeOK, Ids
  <2> QED
    BY <2>2, <2>3, <2>4 DEF id
<1> QED
  BY <1>1, <1>3, <1>4 DEF UpdaterInv

(* A call that begins or goes on holds statusMu: the others are idle.      *)
LEMMA OthersIdle ==
    ASSUME DeskInv, NEW u \in Updaters, statusMu \in {u, Nobody}
    PROVE  \A v \in Updaters \ {u} : pc[v] = "idle"
  BY NoneAssumption DEF DeskInv, UpdaterInv

LEMMA UpdateStatusKeeps ==
    ASSUME TypeOK, DeskInv, NEW u \in Updaters, NEW id \in Ids,
           NEW status \in Statuses, UpdateStatus(u, id, status)
    PROVE  (\A v \in Updaters : UpdaterInv(v)') /\ OneMailPerCancellation'
<1>1. \A v \in Updaters \ {u} : pc'[v] = "idle"
  BY OthersIdle DEF UpdateStatus, StatusMuFree, TypeOK
<1>2. /\ pc'[u] = "update" /\ statusMu' = u
      /\ request'[u] = [id |-> id, status |-> status, day |-> today]
  BY DEF UpdateStatus, TypeOK
<1>3. rows' = rows /\ lastId' = lastId /\ today' = today
  BY DEF UpdateStatus
<1>4. status = "cancelada" =>
          /\ id <= lastId
          /\ rows[id].status # "cancelada" /\ rows[id].date - today >= LimitDays
  <2> SUFFICES ASSUME status = "cancelada"
               PROVE  /\ id <= lastId /\ rows[id].status # "cancelada"
                      /\ rows[id].date - today >= LimitDays
    OBVIOUS
  <2>1. rows[id] # NoRow /\ rows[id].status # "cancelada"
        /\ ~ (rows[id].date - today < LimitDays)
    BY DEF UpdateStatus, Late
  <2>2. rows[id].date \in Int /\ today \in Int /\ LimitDays \in Int
    BY <2>1, BoundsAssumption DEF TypeOK, Row, Dates, Days
  <2>3. id <= lastId
    BY <2>1, BoundsAssumption DEF DeskInv, IdsGiven, TypeOK, Ids
  <2> QED
    BY <2>1, <2>2, <2>3
<1>5. today \in Int
  BY BoundsAssumption DEF TypeOK, Days
<1>6. OneMailPerCancellation'
  BY DEF DeskInv, OneMailPerCancellation, UpdateStatus, mailVars
<1>7. UpdaterInv(u)'
  BY <1>2, <1>3, <1>4, <1>5 DEF UpdaterInv
<1>8. \A v \in Updaters \ {u} : UpdaterInv(v)'
  BY <1>1 DEF UpdaterInv
<1> QED
  BY <1>6, <1>7, <1>8

LEMMA ReturnKeeps ==
    ASSUME TypeOK, DeskInv, NEW u \in Updaters, pc[u] # "idle", Return(u)
    PROVE  \A v \in Updaters : UpdaterInv(v)'
<1>1. \A v \in Updaters : pc'[v] = "idle"
  <2>1. statusMu = u
    BY DEF DeskInv, UpdaterInv
  <2> QED
    BY <2>1, OthersIdle DEF Return, TypeOK
<1> QED
  BY <1>1 DEF UpdaterInv

LEMMA UpdateRowKeeps ==
    ASSUME TypeOK, DeskInv, NEW u \in Updaters, UpdateRow(u)
    PROVE  (\A v \in Updaters : UpdaterInv(v)') /\ OneMailPerCancellation'
<1> DEFINE id == request[u].id
<1>0. id \in Ids /\ pc[u] = "update"
  BY DEF UpdateRow, TypeOK, Request
<1>1. /\ statusMu = u /\ request[u].day <= today /\ today <= request[u].day + 1
      /\ request[u].status = "cancelada" => rows[id].status # "cancelada"
  BY <1>0 DEF DeskInv, UpdaterInv, UpdateRow
<1>2. \A other \in Ids : mails[other] <= cancelled[other]
  BY DEF DeskInv, OneMailPerCancellation
<1>3. mails' = mails /\ mails \in [Ids -> Nat] /\ cancelled \in [Ids -> Nat]
  BY DEF UpdateRow, TypeOK
<1>4. CASE request[u].status = "cancelada"
  <2>1. /\ cancelled' = [cancelled EXCEPT ![id] = @ + 1]
        /\ pc' = [pc EXCEPT ![u] = "notify"]
        /\ statusMu' = statusMu /\ request' = request /\ today' = today
    BY <1>1, <1>4 DEF UpdateRow
  <2>2. mails'[id] < cancelled'[id]
    BY <1>0, <1>2, <1>3, <2>1
  <2>3. OneMailPerCancellation'
    BY <1>0, <1>2, <1>3, <2>1 DEF OneMailPerCancellation
  <2>4. pc'[u] = "notify" /\ \A v \in Updaters \ {u} : pc'[v] = "idle"
    BY <1>1, <2>1, OthersIdle DEF TypeOK
  <2>5. UpdaterInv(u)'
    BY <1>1, <2>1, <2>2, <2>4 DEF UpdaterInv
  <2>6. \A v \in Updaters \ {u} : UpdaterInv(v)'
    BY <2>4 DEF UpdaterInv
  <2> QED
    BY <2>3, <2>5, <2>6
<1>5. CASE request[u].status # "cancelada"
  <2>1. Return(u) /\ cancelled' = cancelled
    BY <1>5 DEF UpdateRow
  <2>2. OneMailPerCancellation'
    BY <1>2, <1>3, <2>1 DEF OneMailPerCancellation
  <2> QED
    BY <1>0, <2>1, <2>2, ReturnKeeps
<1> QED
  BY <1>4, <1>5

LEMMA NotifyKeeps ==
    ASSUME TypeOK, DeskInv, NEW u \in Updaters, NotifyCancellation(u)
    PROVE  (\A v \in Updaters : UpdaterInv(v)') /\ OneMailPerCancellation'
<1> DEFINE id == request[u].id
<1>1. id \in Ids /\ pc[u] = "notify" /\ mails[id] < cancelled[id]
  BY DEF NotifyCancellation, TypeOK, Request, DeskInv, UpdaterInv
<1>2. /\ \A other \in Ids : mails[other] <= cancelled[other]
      /\ mails \in [Ids -> Nat] /\ cancelled \in [Ids -> Nat]
  BY DEF DeskInv, OneMailPerCancellation, TypeOK
<1>3. /\ mails' = mails \/ mails' = [mails EXCEPT ![id] = @ + 1]
      /\ cancelled' = cancelled
  BY DEF NotifyCancellation
<1> HIDE DEF id
<1>4. OneMailPerCancellation'
  BY <1>1, <1>2, <1>3 DEF OneMailPerCancellation
<1> QED
  BY <1>1, <1>4, ReturnKeeps DEF NotifyCancellation

LEMMA DeskStep == TypeOK /\ DeskInv /\ [Next]_vars => DeskInv'
<1> SUFFICES ASSUME TypeOK, DeskInv, [Next]_vars PROVE DeskInv'
  OBVIOUS
<1>0. IdsGiven /\ IdsGiven'
  BY IdsGivenStep DEF DeskInv
<1> SUFFICES (\A v \in Updaters : UpdaterInv(v)') /\ OneMailPerCancellation'
  BY <1>0 DEF DeskInv
<1>1. RowsLeft \/ RowAdded \/ (\E d \in Ids : RowDeleted(d))
          \/ \E u \in Updaters : UpdateRow(u)
  BY <1>0, RowSteps
<1>2. ASSUME UNCHANGED <<statusMu, pc, request, today, mailVars>>
      PROVE  (\A v \in Updaters : UpdaterInv(v)') /\ OneMailPerCancellation'
  <2>1. OneMailPerCancellation'
    BY <1>2 DEF DeskInv, OneMailPerCancellation, mailVars
  <2>2. CASE \E u \in Updaters : UpdateRow(u)
    BY <2>2, UpdateRowKeeps
  <2>3. CASE RowsLeft \/ RowAdded \/ \E d \in Ids : RowDeleted(d)
    <3>1. ASSUME NEW v \in Updaters PROVE UpdaterInv(v)'
      BY <1>2, <2>3, UpdaterKept
    <3> QED
      BY <2>1, <3>1
  <2> QED
    BY <1>1, <2>1, <2>2, <2>3
<1>3. ASSUME NEW u \in Updaters, NEW id \in Ids, NEW status \in Statuses,
             UpdateStatus(u, id, status)
      PROVE  (\A v \in Updaters : UpdaterInv(v)') /\ OneMailPerCancellation'
  BY <1>3, UpdateStatusKeeps
<1>4. ASSUME NEW u \in Updaters,
             UpdateRow(u) \/ UpdateFails(u) \/ NotifyCancellation(u)
      PROVE  (\A v \in Updaters : UpdaterInv(v)') /\ OneMailPerCancellation'
  <2>1. CASE UpdateFails(u)
    <3>1. pc[u] # "idle" /\ Return(u) /\ UNCHANGED mailVars
      BY <2>1 DEF UpdateFails
    <3> QED
      BY <3>1, ReturnKeeps DEF DeskInv, OneMailPerCancellation, mailVars
  <2> QED
    BY <1>4, <2>1, UpdateRowKeeps, NotifyKeeps
<1>5. CASE NextDay
  <2>1. /\ UNCHANGED <<rows, lastId, statusMu, pc, request, mails, cancelled>>
        /\ today' = today + 1 /\ today \in Int
    BY <1>5, BoundsAssumption
       DEF NextDay, handlerVars, mailVars, TypeOK, Days
  <2>2. ASSUME NEW u \in Updaters, pc[u] # "idle" PROVE UpdaterInv(u)'
    <3>1. request[u].day = today /\ UpdaterInv(u)
      BY <1>5, <2>2 DEF NextDay, DeskInv
    <3>2. request'[u].day <= today' /\ today' <= request'[u].day + 1
      BY <2>1, <3>1
    <3> QED
      BY <2>1, <3>1, <3>2 DEF UpdaterInv
  <2>3. \A u \in Updaters : pc[u] = "idle" => UpdaterInv(u)'
    BY <2>1 DEF UpdaterInv
  <2> QED
    BY <2>1, <2>2, <2>3 DEF DeskInv, OneMailPerCancellation
<1>6. CASE Crash
  <2>1. \A u \in Updaters : pc'[u] = "idle"
    BY <1>6 DEF Crash
  <2> QED
    BY <1>6, <2>1 DEF Crash, UpdaterInv, DeskInv, OneMailPerCancellation, mailVars
<1>7. ASSUME NEW area \in Areas, NEW unit \in Units, NEW date \in Dates,
             CreateCheck(area, unit, date)
      PROVE  UNCHANGED <<statusMu, pc, request, today, mailVars>>
  BY <1>7 DEF CreateCheck
<1>8. ASSUME NEW b \in bookings, CreateInsert(b) \/ CreateFails(b)
      PROVE  UNCHANGED <<statusMu, pc, request, today, mailVars>>
  BY <1>8 DEF CreateInsert, CreateFails
<1>9. ASSUME NEW id \in Ids, DeleteCheck(id) \/ DeleteRow(id)
      PROVE  UNCHANGED <<statusMu, pc, request, today, mailVars>>
  BY <1>9 DEF DeleteCheck, DeleteRow
<1>10. CASE SyncStep \/ UNCHANGED vars
  <2>1. UNCHANGED <<statusMu, pc, request, today, mailVars>>
    BY <1>10 DEF SyncStep, ListPendingSync, AppendReservation, AppendFails,
                 MarkSynced, MarkSyncError, MarkFails, handlerVars, vars
  <2> QED
    BY <1>2, <2>1
<1> QED
  BY <1>2, <1>3, <1>4, <1>5, <1>6, <1>7, <1>8, <1>9, <1>10
     DEF Next, HandlerStep

(* No cancellation is announced twice, whatever goroutines ask for it.     *)
THEOREM OneMailEach == Spec => []OneMailPerCancellation
<1>1. Init => TypeOK /\ DeskInv
  BY InitType, DeskInit
<1>2. TypeOK /\ DeskInv /\ [Next]_vars => (TypeOK /\ DeskInv)'
  BY NextType, DeskStep
<1>3. DeskInv => OneMailPerCancellation
  BY DEF DeskInv
<1> QED
  BY <1>1, <1>2, <1>3, PTL DEF Spec

(* A row becomes cancelada only by the UPDATE of a call that read it.      *)
LEMMA CancelStep ==
    ASSUME TypeOK, DeskInv, [Next]_vars,
           NEW id \in Ids,
           rows[id] # NoRow, rows[id].status # "cancelada",
           rows'[id] # NoRow, rows'[id].status = "cancelada"
    PROVE  \E u \in Updaters :
               /\ pc[u] = "update"
               /\ request[u].id = id
               /\ request[u].day \in {today - 1, today}
               /\ rows[id].date - request[u].day >= LimitDays
<1>1. PICK u \in Updaters : UpdateRow(u)
  <2>1. IdsGiven
    BY DEF DeskInv
  <2>2. id <= lastId
    BY <2>1, BoundsAssumption DEF IdsGiven, TypeOK, Ids
  <2> QED
    BY <2>1, <2>2, RowSteps, CancelKept
<1>2. request[u].id = id /\ request[u].status = "cancelada"
  BY <1>1, UpdatedRow
<1>3. /\ pc[u] = "update"
      /\ rows[id].date - request[u].day >= LimitDays
      /\ request[u].day <= today
      /\ today <= request[u].day + 1
  BY <1>1, <1>2 DEF UpdateRow, DeskInv, UpdaterInv
<1>4. request[u].day \in Int /\ today \in Int
  BY <1>1, BoundsAssumption DEF TypeOK, Request, Days, UpdateRow
<1>5. request[u].day \in {today - 1, today}
  BY <1>3, <1>4
<1> QED
  BY <1>2, <1>3, <1>5

(* The call that cancels a reservation began within the limit, today or,   *)
(* when midnight overtook it, yesterday.                                   *)
THEOREM CancelledBeforeLimit == Spec => CancelledInTime
<1>1. Init => TypeOK /\ DeskInv
  BY InitType, DeskInit
<1>2. TypeOK /\ DeskInv /\ [Next]_vars => (TypeOK /\ DeskInv)'
  BY NextType, DeskStep
<1>3. TypeOK /\ DeskInv /\ [Next]_vars =>
          [\A id \in Ids :
               /\ rows[id] # NoRow /\ rows[id].status # "cancelada"
               /\ rows'[id] # NoRow /\ rows'[id].status = "cancelada"
               => \E u \in Updaters :
                      /\ pc[u] = "update"
                      /\ request[u].id = id
                      /\ request[u].day \in {today - 1, today}
                      /\ rows[id].date - request[u].day >= LimitDays]_rows
  BY CancelStep
<1> QED
  BY <1>1, <1>2, <1>3, PTL DEF Spec, CancelledInTime
=============================================================================
