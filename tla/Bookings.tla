------------------------------ MODULE Bookings ------------------------------
(***************************************************************************)
(* Reservations of the amenities of a complex: what create checks before   *)
(* it inserts, and what updateStatus lets an administrator do afterwards.  *)
(*                                                                         *)
(* Code: src/amenities/amenities.service.ts.                               *)
(*                                                                         *)
(* create runs three statements outside any transaction (the amenity, the  *)
(* count of overlapping reservations, the insert), so other requests run   *)
(* between them.  updateStatus reads a row to check its complex and then   *)
(* writes its status by id: a deletion may come between, and it fails, but *)
(* nothing that changes what it does, so it is one action.  No handler     *)
(* deletes a reservation, but deleting a user deletes those that the user  *)
(* made (onDelete: Cascade, schema.prisma:330).                            *)
(*                                                                         *)
(* Abstracted: instants are natural numbers; the complex, the user and     *)
(* bookingDate, which no check reads, so that a deletion takes any set of  *)
(* reservations along; amenities, which no handler writes.                 *)
(***************************************************************************)

EXTENDS Naturals

CONSTANTS
    Amenities,          \* rows of amenities in one complex
    Bookings,           \* reservation ids the database may ever generate
    Requests,           \* slots in which the server runs create
    Nil,                \* "no value"
    Horizon             \* instants are 0 .. Horizon

ASSUME HorizonAssumption == Horizon \in Nat

VARIABLES
    amenity,        \* table amenities: status and requiresApproval
    booking,        \* table amenity_bookings
    request,        \* what each slot is running, with its local variables
    saw,            \* history: reservations committed when each was checked
    reopened        \* history: reservations an administrator made live again

vars == <<amenity, booking, request, saw, reopened>>

-----------------------------------------------------------------------------
Times == 0 .. Horizon
BookingStatus == {"PENDING", "APPROVED", "REJECTED", "CANCELLED"}

ASSUME NilAssumption == Nil \notin Amenities \cup BookingStatus \cup {"DELETED"}

\* Mutated form: reservations awaiting approval do not hold their time.
ApprovedOnly == {"APPROVED"}

LiveStatus == {"PENDING", "APPROVED"}

AmenityRow == [status : {0, 1}, requiresApproval : BOOLEAN]
BookingRow == [amenityId : Amenities \cup {Nil},
               start : Times,
               end : Times,
               status : BookingStatus \cup {"DELETED", Nil}]
Unborn == [amenityId |-> Nil, start |-> 0, end |-> 0, status |-> Nil]
Deleted == [Unborn EXCEPT !.status = "DELETED"]

RequestState == [pc : {"idle", "count", "insert"},
                 amenityId : Amenities \cup {Nil},
                 start : Times,
                 end : Times,
                 seen : SUBSET Bookings]
Idle == [pc |-> "idle", amenityId |-> Nil, start |-> 0, end |-> 0, seen |-> {}]

Exists(b) == booking[b].status \in BookingStatus
Live(b) == booking[b].status \in LiveStatus

(* Rows hold what their columns may hold, a reservation has an amenity and *)
(* takes some time, and so will those that are being made.                 *)
TypeOK ==
    /\ amenity \in [Amenities -> AmenityRow]
    /\ booking \in [Bookings -> BookingRow]
    /\ request \in [Requests -> RequestState]
    /\ \A b \in Bookings : Exists(b) =>
          booking[b].amenityId # Nil /\ booking[b].start < booking[b].end
    /\ \A r \in Requests : request[r].pc # "idle" =>
          request[r].amenityId # Nil /\ request[r].start < request[r].end
    /\ saw \in [Bookings -> SUBSET Bookings]
    /\ reopened \subseteq Bookings

Init ==
    /\ amenity \in [Amenities -> AmenityRow]
    /\ booking = [b \in Bookings |-> Unborn]
    /\ request = [r \in Requests |-> Idle]
    /\ saw = [b \in Bookings |-> {}]
    /\ reopened = {}

-----------------------------------------------------------------------------
(* create                                                                  *)

\* Mutated form: >= for >, so that the empty reservation passes.
ValidRangeOrEmpty(start, end) == ~ (start > end)

ValidRange(start, end) == ~ (start >= end)

CreateBooking(r, a, start, end) ==
    /\ request[r] = Idle
    /\ amenity[a].status = 1
    /\ ValidRange(start, end)
    /\ request' = [request EXCEPT ![r] = [pc |-> "count", amenityId |-> a,
                                          start |-> start, end |-> end, seen |-> {}]]
    /\ UNCHANGED <<amenity, booking, saw, reopened>>

\* Mutated form: only a reservation that is running at the start is counted.
OverlapsAtStart(b, q) == booking[b].start <= q.start /\ booking[b].end > q.start

Overlaps(b, q) == booking[b].start < q.end /\ booking[b].end > q.start

CountOverlaps(r) ==
    LET q == request[r]
    IN  /\ q.pc = "count"
        /\ \A b \in Bookings :
              ~ (booking[b].amenityId = q.amenityId /\ Live(b) /\ Overlaps(b, q))
        /\ request' = [request EXCEPT ![r].pc = "insert",
                                      ![r].seen = {b \in Bookings : Exists(b)}]
        /\ UNCHANGED <<amenity, booking, saw, reopened>>

InsertBooking(r, b) ==
    LET q == request[r]
    IN  /\ q.pc = "insert"
        /\ booking[b] = Unborn
        /\ booking' = [booking EXCEPT ![b] =
                          [amenityId |-> q.amenityId, start |-> q.start, end |-> q.end,
                           status |-> IF amenity[q.amenityId].requiresApproval
                                      THEN "PENDING" ELSE "APPROVED"]]
        /\ saw' = [saw EXCEPT ![b] = q.seen]
        /\ request' = [request EXCEPT ![r] = Idle]
        /\ UNCHANGED <<amenity, reopened>>

\* The overlap refuses the request, its user is not there any more, or a statement
\* fails: nothing was written.
Abort(r) ==
    /\ request[r] # Idle
    /\ request' = [request EXCEPT ![r] = Idle]
    /\ UNCHANGED <<amenity, booking, saw, reopened>>

-----------------------------------------------------------------------------
(* updateStatus: any status to any status, without another check.          *)

UpdateStatus(b, status) ==
    /\ Exists(b)
    /\ booking' = [booking EXCEPT ![b].status = status]
    /\ reopened' = IF ~ Live(b) /\ status \in LiveStatus THEN reopened \cup {b} ELSE reopened
    /\ UNCHANGED <<amenity, request, saw>>

-----------------------------------------------------------------------------
(* users: remove deletes a PENDING user, who made these reservations.      *)

RemoveUser(made) ==
    /\ made # {} /\ \A b \in made : Exists(b)
    /\ booking' = [b \in Bookings |-> IF b \in made THEN Deleted ELSE booking[b]]
    /\ UNCHANGED <<amenity, request, saw, reopened>>

-----------------------------------------------------------------------------
Next ==
    \/ \E r \in Requests, a \in Amenities, start, end \in Times : CreateBooking(r, a, start, end)
    \/ \E r \in Requests : CountOverlaps(r)
    \/ \E r \in Requests, b \in Bookings : InsertBooking(r, b)
    \/ \E r \in Requests : Abort(r)
    \/ \E b \in Bookings, status \in BookingStatus : UpdateStatus(b, status)
    \/ \E made \in SUBSET Bookings : RemoveUser(made)

Spec == Init /\ [][Next]_vars

-----------------------------------------------------------------------------
\* The instants a reservation takes: its end is the next one's start.
Slot(b) == {t \in Times : booking[b].start <= t /\ t < booking[b].end}

DoubleBooked(b, c) ==
    /\ b # c
    /\ {booking[b].status, booking[c].status} \subseteq {"PENDING", "APPROVED"}
    /\ booking[b].amenityId = booking[c].amenityId
    /\ Slot(b) \cap Slot(c) # {}

(* An amenity is reserved twice at one instant only in two ways: neither   *)
(* reservation was there when the other was checked (their requests        *)
(* overlapped), or one of them had been rejected or cancelled and was made *)
(* live again.                                                             *)
DoubleBookingsAreExplained ==
    \A b, c \in Bookings : DoubleBooked(b, c) =>
        \/ b \in reopened \/ c \in reopened
        \/ (b \notin saw[c] /\ c \notin saw[b])

-----------------------------------------------------------------------------
(* "Prevenir traslape de horarios" (amenities.service.ts:70): no two live  *)
(* reservations of an amenity take the same instant.                       *)
NoDoubleBooking == \A b, c \in Bookings : ~ DoubleBooked(b, c)

=============================================================================
