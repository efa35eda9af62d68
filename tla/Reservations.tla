--------------------------- MODULE Reservations ---------------------------
(***************************************************************************)
(* Reservations of the common areas: the table common_area_reservations,   *)
(* the handlers that book, change and delete, the e-mail that announces a  *)
(* cancellation, and syncReservations, which acknowledges only the         *)
(* revision it sent.  RunOnce holds runMu around syncReservations (see     *)
(* AccessLog), so there is one pass at a time.                             *)
(***************************************************************************)
EXTENDS Integers, FiniteSets

CONSTANTS
    Areas,              \* common areas
    Units,              \* apartments
    NoRow,              \* no row of the table or of the sheet
    Updaters,           \* goroutines that serve UpdateStatus
    Nobody,             \* the owner of a free statusMu
    AdvanceDays,        \* maxReservationAdvanceDays
    LimitDays,          \* cancellationLimitDays
    BatchLimit,         \* the LIMIT of ListPendingSync
    MaxId,              \* bound on the ids of the table
    MaxClock,           \* bound on the writes to the table
    LastDay,            \* bound on the days that pass
    MaxRequests,        \* bound on the Create and Delete calls in progress
    MaxCrashes          \* bound on the restarts of the process

ASSUME BoundsAssumption ==
    /\ AdvanceDays \in Nat
    /\ LimitDays \in Nat
    /\ BatchLimit \in Nat \ {0}
    /\ MaxId \in Nat
    /\ MaxClock \in Nat
    /\ LastDay \in Nat
    /\ MaxRequests \in Nat
    /\ MaxCrashes \in Nat

Ids == 1..MaxId
Days == 0..LastDay
Dates == 0..(LastDay + AdvanceDays)
Statuses == {"reservada", "concluida", "cancelada"}
SyncStatuses == {"PENDENTE_SYNC", "SINCRONIZADO", "ERRO_SYNC"}

(* updated stands for updated_at: the clock is read at every write and no  *)
(* two writes read the same time.                                          *)
Row == [area : Areas, unit : Units, date : Dates, status : Statuses,
        sync : SyncStatuses, updated : 1..MaxClock]

(* A reservation as it was listed, and as the sheet shows it.              *)
Entry == [id : Ids, status : Statuses, updated : 1..MaxClock]

(* A Create call after its check; day is the day it began on.              *)
Booking == [area : Areas, unit : Units, date : Dates, day : Days]

(* An UpdateStatus call.                                                   *)
Request == [id : Ids, status : Statuses, day : Days]

ASSUME NoneAssumption ==
    /\ NoRow \notin Row
    /\ NoRow \notin Entry
    /\ NoRow \notin Request
    /\ Nobody \notin Updaters

VARIABLES
    rows,       \* the table common_area_reservations
    lastId,     \* the largest id AUTOINCREMENT has given
    clock,      \* writes so far
    today,      \* the local date
    bookings,   \* Create calls between HasActiveConflict and the INSERT
    statusMu,   \* who holds the mutex of UpdateStatus
    pc,         \* where each UpdateStatus call is
    request,    \* what each UpdateStatus call is asked for
    deleting,   \* Delete calls between the check and the DELETE
    stage,      \* where syncReservations is
    batch,      \* reservations listed and not yet sent
    cur,        \* the reservation being sent
    sheet,      \* the row of each reservation in the sheet
    cancelled,  \* how often each id went from another status to cancelada
    mails,      \* cancellation e-mails accepted by the mail server, per id
    crashes     \* restarts so far

handlerVars == <<bookings, statusMu, pc, request, deleting>>
syncVars == <<stage, batch, cur>>
mailVars == <<cancelled, mails>>
vars == <<rows, lastId, clock, today, handlerVars, syncVars, sheet, mailVars,
          crashes>>

TypeOK ==
    /\ rows \in [Ids -> Row \union {NoRow}]
    /\ lastId \in 0..MaxId
    /\ clock \in 0..MaxClock
    /\ today \in Days
    /\ bookings \subseteq Booking
    /\ statusMu \in Updaters \union {Nobody}
    /\ pc \in [Updaters -> {"idle", "update", "notify"}]
    /\ request \in [Updaters -> Request \union {NoRow}]
    /\ \A u \in Updaters : pc[u] # "idle" => request[u] \in Request
    /\ deleting \subseteq Ids
    /\ stage \in {"idle", "next", "sent", "failed"}
    /\ batch \subseteq Entry
    /\ cur \in Entry \union {NoRow}
    /\ stage \in {"sent", "failed"} => cur \in Entry
    /\ sheet \in [Ids -> Entry \union {NoRow}]
    /\ cancelled \in [Ids -> Nat]
    /\ mails \in [Ids -> Nat]
    /\ crashes \in 0..MaxCrashes

-----------------------------------------------------------------------------
(* The table *)

Booked(id) == rows[id] # NoRow /\ rows[id].status = "reservada"

(* HasActiveConflict. *)
HasActiveConflict(date, area, unit) ==
    \E id \in Ids :
        /\ Booked(id)
        /\ rows[id].date = date
        /\ rows[id].area = area \/ rows[id].unit = unit

(* Mutation: the index covers the area and not the apartment.              *)
AreaTaken(id, date, area, unit) ==
    \E other \in Ids \ {id} :
        Booked(other) /\ rows[other].date = date /\ rows[other].area = area

(* The two unique indexes over active reservations, asked about a row id   *)
(* that is to be active.                                                   *)
DateTaken(id, date, area, unit) ==
    \E other \in Ids \ {id} :
        /\ Booked(other)
        /\ rows[other].date = date
        /\ rows[other].area = area \/ rows[other].unit = unit

EntryOf(id) == [id |-> id, status |-> rows[id].status,
                updated |-> rows[id].updated]

-----------------------------------------------------------------------------
(* Create *)

InWindow(date) == date - today \in 0..AdvanceDays

(* Create up to HasActiveConflict. *)
CreateCheck(area, unit, date) ==
    /\ InWindow(date)
    /\ ~HasActiveConflict(date, area, unit)
    /\ Cardinality(bookings) < MaxRequests
    /\ bookings' = bookings \union
           {[area |-> area, unit |-> unit, date |-> date, day |-> today]}
    /\ UNCHANGED <<rows, lastId, clock, today, statusMu, pc, request,
                   deleting, syncVars, sheet, mailVars, crashes>>

(* A call is answered.  A member of bookings stands for one call or for    *)
(* several with the same input, begun on the same day, so it may stay.     *)
Answered(b) == bookings' \in {bookings, bookings \ {b}}

(* Mutation: the INSERT leaves updated_at at its zero value. *)
CreateUnstamped(b) ==
    /\ b \in bookings
    /\ Answered(b)
    /\ ~DateTaken(0, b.date, b.area, b.unit)
    /\ lastId < MaxId
    /\ lastId' = lastId + 1
    /\ rows' = [rows EXCEPT ![lastId'] =
                   [area |-> b.area, unit |-> b.unit, date |-> b.date,
                    status |-> "reservada", sync |-> "PENDENTE_SYNC",
                    updated |-> 0]]
    /\ UNCHANGED <<clock, today, statusMu, pc, request, deleting, syncVars,
                   sheet, mailVars, crashes>>

(* Mutation: without AUTOINCREMENT, the id after the largest one in use.   *)
CreateReusing(b) ==
    LET used == {id \in Ids : rows[id] # NoRow}
        id == CHOOSE i \in 1..(MaxId + 1) :
                  /\ \A j \in used : j < i
                  /\ i = 1 \/ i - 1 \in used
    IN
    /\ b \in bookings
    /\ Answered(b)
    /\ ~DateTaken(0, b.date, b.area, b.unit)
    /\ id \in Ids
    /\ clock < MaxClock
    /\ lastId' = IF id > lastId THEN id ELSE lastId
    /\ clock' = clock + 1
    /\ rows' = [rows EXCEPT ![id] =
                   [area |-> b.area, unit |-> b.unit, date |-> b.date,
                    status |-> "reservada", sync |-> "PENDENTE_SYNC",
                    updated |-> clock']]
    /\ UNCHANGED <<today, statusMu, pc, request, deleting, syncVars, sheet,
                   mailVars, crashes>>

(* Create, the INSERT. *)
CreateInsert(b) ==
    /\ b \in bookings
    /\ Answered(b)
    /\ ~DateTaken(0, b.date, b.area, b.unit)
    /\ lastId < MaxId
    /\ clock < MaxClock
    /\ lastId' = lastId + 1
    /\ clock' = clock + 1
    /\ rows' = [rows EXCEPT ![lastId'] =
                   [area |-> b.area, unit |-> b.unit, date |-> b.date,
                    status |-> "reservada", sync |-> "PENDENTE_SYNC",
                    updated |-> clock']]
    /\ UNCHANGED <<today, statusMu, pc, request, deleting, syncVars, sheet,
                   mailVars, crashes>>

(* The INSERT is refused by an index, or fails. *)
CreateFails(b) ==
    /\ b \in bookings
    /\ Answered(b)
    /\ UNCHANGED <<rows, lastId, clock, today, statusMu, pc, request,
                   deleting, syncVars, sheet, mailVars, crashes>>

-----------------------------------------------------------------------------
(* UpdateStatus *)

(* Mutation: no mutex. *)
NoMutex == TRUE

(* statusMu.Lock, held until the call returns. *)
StatusMuFree == statusMu = Nobody

(* Mutation: the limit is one day shorter. *)
LateByOne(id) == rows[id].date - today < LimitDays - 1

(* ErrCancellationDeadline. *)
Late(id) == rows[id].date - today < LimitDays

(* UpdateStatus up to the UPDATE.  A cancellation reads the row first: an  *)
(* unknown id, a reservation already cancelled, and one whose date is too  *)
(* near are answered at once and change nothing.                           *)
UpdateStatus(u, id, status) ==
    /\ pc[u] = "idle"
    /\ StatusMuFree
    /\ status = "cancelada" =>
           /\ rows[id] # NoRow
           /\ rows[id].status # "cancelada"
           /\ ~Late(id)
    /\ statusMu' = u
    /\ pc' = [pc EXCEPT ![u] = "update"]
    /\ request' = [request EXCEPT ![u] =
                      [id |-> id, status |-> status, day |-> today]]
    /\ UNCHANGED <<rows, lastId, clock, today, bookings, deleting, syncVars,
                   sheet, mailVars, crashes>>

(* The call returns and the deferred Unlock runs. *)
Return(u) ==
    /\ statusMu' = Nobody
    /\ pc' = [pc EXCEPT ![u] = "idle"]
    /\ request' = [request EXCEPT ![u] = NoRow]

(* The UPDATE: the new status waits for the sheet; only a cancellation     *)
(* goes on to the notifier.                                                *)
UpdateRow(u) ==
    LET id == request[u].id
        status == request[u].status
        row == rows[id]
    IN
    /\ pc[u] = "update"
    /\ row # NoRow
    /\ status = "reservada" => ~DateTaken(id, row.date, row.area, row.unit)
    /\ clock < MaxClock
    /\ clock' = clock + 1
    /\ rows' = [rows EXCEPT ![id] =
                   [row EXCEPT !.status = status, !.sync = "PENDENTE_SYNC",
                               !.updated = clock']]
    /\ cancelled' = IF status = "cancelada" /\ row.status # "cancelada"
                    THEN [cancelled EXCEPT ![id] = @ + 1] ELSE cancelled
    /\ IF status = "cancelada"
       THEN /\ pc' = [pc EXCEPT ![u] = "notify"]
            /\ UNCHANGED <<statusMu, request>>
       ELSE Return(u)
    /\ UNCHANGED <<lastId, today, bookings, deleting, syncVars, sheet, mails,
                   crashes>>

(* The UPDATE finds no row, is refused by an index, or fails.              *)
UpdateFails(u) ==
    /\ pc[u] = "update"
    /\ Return(u)
    /\ UNCHANGED <<rows, lastId, clock, today, bookings, deleting, syncVars,
                   sheet, mailVars, crashes>>

(* NotifyCancellation, and the FindByID before it: the e-mail is sent, or  *)
(* the row is gone, no address is known or the mail server refuses.  The   *)
(* cancellation stands either way.                                         *)
NotifyCancellation(u) ==
    /\ pc[u] = "notify"
    /\ \/ mails' = [mails EXCEPT ![request[u].id] = @ + 1]
       \/ UNCHANGED mails
    /\ Return(u)
    /\ UNCHANGED <<rows, lastId, clock, today, bookings, deleting, syncVars,
                   sheet, cancelled, crashes>>

-----------------------------------------------------------------------------
(* Delete *)

(* Delete up to the check: ErrActiveReservationDeletion. *)
DeleteCheck(id) ==
    /\ rows[id] # NoRow
    /\ rows[id].status # "reservada"
    /\ Cardinality(deleting) < MaxRequests
    /\ deleting' = deleting \union {id}
    /\ UNCHANGED <<rows, lastId, clock, today, bookings, statusMu, pc,
                   request, syncVars, sheet, mailVars, crashes>>

(* The DELETE, by id alone. *)
DeleteRow(id) ==
    /\ id \in deleting
    /\ deleting' = deleting \ {id}
    /\ rows' = [rows EXCEPT ![id] = NoRow]
    /\ UNCHANGED <<lastId, clock, today, bookings, statusMu, pc, request,
                   syncVars, sheet, mailVars, crashes>>

-----------------------------------------------------------------------------
(* syncReservations *)

(* Mutation: a reservation that failed once is not tried again. *)
NeverFailed == {EntryOf(id) : id \in {i \in Ids :
                    rows[i] # NoRow /\ rows[i].sync = "PENDENTE_SYNC"}}

PendingSync == {EntryOf(id) : id \in {i \in Ids :
                   /\ rows[i] # NoRow
                   /\ rows[i].sync \in {"PENDENTE_SYNC", "ERRO_SYNC"}}}

(* ListPendingSync: the least recently updated ones. *)
ListPendingSync ==
    /\ stage = "idle"
    /\ PendingSync # {}
    /\ batch' = {e \in PendingSync :
                    Cardinality({f \in PendingSync : f.updated < e.updated})
                        < BatchLimit}
    /\ stage' = "next"
    /\ UNCHANGED <<rows, lastId, clock, today, handlerVars, cur, sheet,
                   mailVars, crashes>>

(* The loop takes the listed reservations in the order of updated_at.      *)
IsNext(e) == e \in batch /\ \A f \in batch : e.updated <= f.updated

(* AppendReservation succeeds: the row of the id is updated or appended.   *)
AppendReservation(e) ==
    /\ stage = "next"
    /\ IsNext(e)
    /\ cur' = e
    /\ sheet' = [sheet EXCEPT ![e.id] = e]
    /\ stage' = "sent"
    /\ UNCHANGED <<rows, lastId, clock, today, handlerVars, batch, mailVars,
                   crashes>>

(* AppendReservation fails, before or after the sheet took the row.        *)
AppendFails(e) ==
    /\ stage = "next"
    /\ IsNext(e)
    /\ cur' = e
    /\ sheet' \in {sheet, [sheet EXCEPT ![e.id] = e]}
    /\ stage' = "failed"
    /\ UNCHANGED <<rows, lastId, clock, today, handlerVars, batch, mailVars,
                   crashes>>

Continue(rest) ==
    /\ batch' = rest
    /\ cur' = NoRow
    /\ stage' = IF rest = {} THEN "idle" ELSE "next"

(* Mutation: the row is found by id alone, as for the other tables. *)
SameId == rows[cur.id] # NoRow

(* WHERE id = ? AND updated_at = ?                                         *)
SameRevision == rows[cur.id] # NoRow /\ rows[cur.id].updated = cur.updated

Mark(sync) ==
    rows' = IF SameRevision
            THEN [rows EXCEPT ![cur.id] = [rows[cur.id] EXCEPT !.sync = sync]]
            ELSE rows

MarkSynced ==
    /\ stage = "sent"
    /\ Mark("SINCRONIZADO")
    /\ Continue(batch \ {cur})
    /\ UNCHANGED <<lastId, clock, today, handlerVars, sheet, mailVars,
                   crashes>>

MarkSyncError ==
    /\ stage = "failed"
    /\ Mark("ERRO_SYNC")
    /\ Continue(batch \ {cur})
    /\ UNCHANGED <<lastId, clock, today, handlerVars, sheet, mailVars,
                   crashes>>

(* Either mark returns an error, which ends the pass. *)
MarkFails ==
    /\ stage \in {"sent", "failed"}
    /\ Continue({})
    /\ UNCHANGED <<rows, lastId, clock, today, handlerVars, sheet, mailVars,
                   crashes>>

-----------------------------------------------------------------------------
(* Midnight.  A request lasts for seconds: it sees one midnight at most.   *)
NextDay ==
    /\ today < LastDay
    /\ \A b \in bookings : b.day = today
    /\ \A u \in Updaters : pc[u] # "idle" => request[u].day = today
    /\ today' = today + 1
    /\ UNCHANGED <<rows, lastId, clock, handlerVars, syncVars, sheet,
                   mailVars, crashes>>

(* The process stops and starts again.                                     *)
Crash ==
    /\ crashes < MaxCrashes
    /\ crashes' = crashes + 1
    /\ bookings' = {}
    /\ statusMu' = Nobody
    /\ pc' = [u \in Updaters |-> "idle"]
    /\ request' = [u \in Updaters |-> NoRow]
    /\ deleting' = {}
    /\ stage' = "idle"
    /\ batch' = {}
    /\ cur' = NoRow
    /\ UNCHANGED <<rows, lastId, clock, today, sheet, mailVars>>

Init ==
    /\ rows = [id \in Ids |-> NoRow]
    /\ lastId = 0
    /\ clock = 0
    /\ today = 0
    /\ bookings = {}
    /\ statusMu = Nobody
    /\ pc = [u \in Updaters |-> "idle"]
    /\ request = [u \in Updaters |-> NoRow]
    /\ deleting = {}
    /\ stage = "idle"
    /\ batch = {}
    /\ cur = NoRow
    /\ sheet = [id \in Ids |-> NoRow]
    /\ cancelled = [id \in Ids |-> 0]
    /\ mails = [id \in Ids |-> 0]
    /\ crashes = 0

HandlerStep ==
    \/ \E area \in Areas, unit \in Units, date \in Dates :
           CreateCheck(area, unit, date)
    \/ \E b \in bookings : CreateInsert(b) \/ CreateFails(b)
    \/ \E u \in Updaters, id \in Ids, status \in Statuses :
           UpdateStatus(u, id, status)
    \/ \E u \in Updaters :
           UpdateRow(u) \/ UpdateFails(u) \/ NotifyCancellation(u)
    \/ \E id \in Ids : DeleteCheck(id) \/ DeleteRow(id)

SyncStep ==
    \/ ListPendingSync
    \/ \E e \in batch : AppendReservation(e) \/ AppendFails(e)
    \/ MarkSynced
    \/ MarkSyncError
    \/ MarkFails

Next == HandlerStep \/ SyncStep \/ NextDay \/ Crash

Spec == Init /\ [][Next]_vars

(***************************************************************************)
(* Fairness: the ticker keeps calling RunOnce, and the connection returns, *)
(* so that a send and an acknowledgement of a revision that are tried      *)
(* again and again succeed in the end.                                     *)
(***************************************************************************)
Fairness ==
    /\ WF_vars(ListPendingSync)
    /\ WF_vars(\E e \in batch : AppendReservation(e) \/ AppendFails(e))
    /\ WF_vars(MarkSynced \/ MarkSyncError \/ MarkFails)
    /\ \A id \in Ids :
           /\ SF_vars(\E e \in batch : e.id = id /\ AppendReservation(e))
           /\ SF_vars(MarkSynced /\ cur.id = id)

FairSpec == Spec /\ Fairness

(* The front desk alone: the passes of syncReservations change nothing the *)
(* handlers look at.                                                       *)
DeskSpec == Init /\ [][HandlerStep \/ NextDay]_vars

-----------------------------------------------------------------------------
(* Properties *)

(* An area, and an apartment, has one active reservation a day, even when  *)
(* two requests pass HasActiveConflict together or a cancelled reservation *)
(* is set back to reservada.                                               *)
NoDoubleBooking ==
    \A i, j \in Ids :
        /\ i # j
        /\ Booked(i)
        /\ Booked(j)
        /\ rows[i].date = rows[j].date
        => rows[i].area # rows[j].area /\ rows[i].unit # rows[j].unit

(* A reservation shown as synchronised is in the sheet as it is now:       *)
(* "Only acknowledge the revision actually sent".                          *)
SyncedIsCurrent ==
    \A id \in Ids :
        rows[id] # NoRow /\ rows[id].sync = "SINCRONIZADO" =>
            sheet[id] = EntryOf(id)

(* A resident gets at most one e-mail for a cancellation, however many     *)
(* requests ask for it at once.                                            *)
OneMailPerCancellation == \A id \in Ids : mails[id] <= cancelled[id]

(* No reservation is cancelled unless the request that cancels it began    *)
(* within the limit: the deadline is checked on that day, under statusMu,  *)
(* and the UPDATE that follows may fall behind midnight.                   *)
CancelledInTime ==
    [][\A id \in Ids :
           /\ rows[id] # NoRow /\ rows[id].status # "cancelada"
           /\ rows'[id] # NoRow /\ rows'[id].status = "cancelada"
           => \E u \in Updaters :
                  /\ pc[u] = "update"
                  /\ request[u].id = id
                  /\ request[u].day \in {today - 1, today}
                  /\ rows[id].date - request[u].day >= LimitDays]_rows

(* What the codes and guests of a reservation rely on: its id is given     *)
(* once, and no request brings a deleted reservation back.                 *)
LifeOf == [id \in Ids |-> IF rows[id] # NoRow THEN rows[id].status
                          ELSE IF id <= lastId THEN "gone" ELSE "none"]

Life == INSTANCE ReservationLife WITH status <- LifeOf

ReservationLifeSpec == Life!Spec

(* Every change of a reservation reaches the sheet, that revision or a     *)
(* later one, unless the reservation is deleted.                           *)
EveryRevisionReachesSheet ==
    \A id \in Ids : \A revision \in 1..MaxClock :
        (rows[id] # NoRow /\ rows[id].updated = revision) ~>
            \/ rows[id] = NoRow
            \/ sheet[id] # NoRow /\ sheet[id].updated >= revision

(* An active reservation is never deleted: ErrActiveReservationDeletion,   *)
(* "uma reserva ativa deve ser cancelada antes de ser excluida".           *)
ActiveNeverDeleted ==
    [][\A id \in Ids : Booked(id) => rows'[id] # NoRow]_rows
=============================================================================
