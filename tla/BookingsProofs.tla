--------------------------- MODULE BookingsProofs ---------------------------
(* Proofs about Bookings: its types, what its overlap test decides, and    *)
(* that a double booking always has one of two causes.                     *)
EXTENDS Bookings, TLAPS

(* The overlap test of create is exact: two reservations that take time    *)
(* overlap by it if and only if they share an instant, so reservations     *)
(* that only touch are accepted and no shared instant is missed            *)
(* (amenities.service.ts:80-86).                                           *)
THEOREM OverlapIsExact ==
    ASSUME TypeOK, NEW b \in Bookings, Exists(b),
           NEW s \in Times, NEW e \in Times, s < e
    PROVE  Overlaps(b, [start |-> s, end |-> e])
              <=> \E t \in Times : t \in Slot(b) /\ s <= t /\ t < e
<1>1. /\ booking[b].start \in Nat /\ booking[b].start \in Times
      /\ booking[b].end \in Nat /\ booking[b].end \in Times
      /\ booking[b].start < booking[b].end
      /\ s \in Nat /\ e \in Nat
  BY HorizonAssumption DEF TypeOK, BookingRow, Times
<1>2. ASSUME Overlaps(b, [start |-> s, end |-> e])
      PROVE  \E t \in Times : t \in Slot(b) /\ s <= t /\ t < e
  <2>1. booking[b].start < e /\ booking[b].end > s
    BY <1>2 DEF Overlaps
  <2>2. CASE booking[b].start <= s
    BY <1>1, <2>1, <2>2 DEF Slot
  <2>3. CASE s <= booking[b].start
    BY <1>1, <2>1, <2>3 DEF Slot
  <2> QED
    BY <1>1, <2>2, <2>3
<1>3. ASSUME NEW t \in Times, t \in Slot(b), s <= t, t < e
      PROVE  Overlaps(b, [start |-> s, end |-> e])
  <2>1. t \in Nat
    BY HorizonAssumption DEF Times
  <2> QED
    BY <1>1, <1>3, <2>1 DEF Slot, Overlaps
<1> QED
  BY <1>2, <1>3

-----------------------------------------------------------------------------
LEMMA TypeInit == Init => TypeOK
<1>1. 0 \in Times
  BY HorizonAssumption DEF Times
<1> QED
  BY <1>1, NilAssumption DEF Init, TypeOK, BookingRow, BookingStatus, RequestState, Unborn, Idle,
                             Exists

LEMMA TypeStep == TypeOK /\ [Next]_vars => TypeOK'
<1> SUFFICES ASSUME TypeOK, [Next]_vars PROVE TypeOK'
  OBVIOUS
<1>0. 0 \in Times /\ Times \subseteq Nat
  BY HorizonAssumption DEF Times
<1>1. ASSUME NEW r \in Requests, NEW a \in Amenities, NEW start \in Times, NEW end \in Times,
             CreateBooking(r, a, start, end)
      PROVE  TypeOK'
  <2>1. start < end
    <3>1. start \in Nat /\ end \in Nat /\ ~ (start >= end)
      BY <1>0, <1>1 DEF CreateBooking, ValidRange
    <3> QED
      BY <3>1
  <2>2. [pc |-> "count", amenityId |-> a, start |-> start, end |-> end, seen |-> {}] \in RequestState
    BY DEF RequestState
  <2> QED
    BY <1>1, <2>1, <2>2, NilAssumption DEF CreateBooking, TypeOK, Exists
<1>2. ASSUME NEW r \in Requests, CountOverlaps(r) PROVE TypeOK'
  BY <1>2 DEF CountOverlaps, TypeOK, RequestState, Exists
<1>3. ASSUME NEW r \in Requests, NEW b \in Bookings, InsertBooking(r, b) PROVE TypeOK'
  <2> DEFINE q == request[r]
             row == [amenityId |-> q.amenityId, start |-> q.start, end |-> q.end,
                     status |-> IF amenity[q.amenityId].requiresApproval
                                THEN "PENDING" ELSE "APPROVED"]
  <2>1. q \in RequestState /\ q.amenityId # Nil /\ q.start < q.end
    BY <1>3 DEF TypeOK, InsertBooking
  <2>2. row \in BookingRow
    BY <2>1 DEF RequestState, BookingRow, BookingStatus
  <2>3. booking' = [booking EXCEPT ![b] = row]
    BY <1>3 DEF InsertBooking
  <2>4. booking' \in [Bookings -> BookingRow]
    BY <2>2, <2>3 DEF TypeOK
  <2>5. \A c \in Bookings : Exists(c)' => booking'[c].amenityId # Nil /\ booking'[c].start < booking'[c].end
    BY <2>1, <2>3 DEF TypeOK, Exists
  <2>6. request' = [request EXCEPT ![r] = Idle] /\ Idle \in RequestState /\ Idle.pc = "idle"
    BY <1>0, <1>3 DEF InsertBooking, Idle, RequestState
  <2>7. saw' \in [Bookings -> SUBSET Bookings]
    BY <1>3, <2>1 DEF InsertBooking, TypeOK, RequestState
  <2> QED
    BY <1>3, <2>4, <2>5, <2>6, <2>7 DEF InsertBooking, TypeOK
<1>4. ASSUME NEW r \in Requests, Abort(r) PROVE TypeOK'
  BY <1>0, <1>4 DEF Abort, TypeOK, Exists, Idle, RequestState
<1>5. ASSUME NEW b \in Bookings, NEW status \in BookingStatus, UpdateStatus(b, status) PROVE TypeOK'
  <2>1. booking' \in [Bookings -> BookingRow]
    BY <1>5 DEF UpdateStatus, TypeOK, BookingRow
  <2>2. \A c \in Bookings : Exists(c)' => Exists(c) /\ booking'[c].amenityId = booking[c].amenityId
                                       /\ booking'[c].start = booking[c].start
                                       /\ booking'[c].end = booking[c].end
    BY <1>5 DEF UpdateStatus, TypeOK, Exists, BookingRow
  <2> QED
    BY <1>5, <2>1, <2>2 DEF UpdateStatus, TypeOK
<1>6. ASSUME NEW made \in SUBSET Bookings, RemoveUser(made) PROVE TypeOK'
  <2>1. Deleted \in BookingRow /\ Deleted.status \notin BookingStatus
    BY <1>0 DEF Deleted, Unborn, BookingRow, BookingStatus
  <2>2. \A b \in Bookings : booking'[b] = IF b \in made THEN Deleted ELSE booking[b]
    BY <1>6 DEF RemoveUser
  <2>3. booking' \in [Bookings -> BookingRow]
    BY <1>6, <2>1 DEF RemoveUser, TypeOK
  <2> QED
    BY <1>6, <2>1, <2>2, <2>3 DEF RemoveUser, TypeOK, Exists
<1>7. CASE UNCHANGED vars
  BY <1>7 DEF vars, TypeOK, Exists
<1> QED
  BY <1>1, <1>2, <1>3, <1>4, <1>5, <1>6, <1>7 DEF Next

(* In every reachable state the rows and the requests of Bookings are well *)
(* formed, and every reservation takes some time (start before end).       *)
THEOREM Typed == Spec => []TypeOK
BY TypeInit, TypeStep, PTL DEF Spec

-----------------------------------------------------------------------------
(* What makes the explanation inductive: a request that is past its count  *)
(* overlaps no live reservation it has seen, unless that one was live      *)
(* again only after the count; and a reservation only saw ones that exist. *)
CheckedOK ==
    \A r \in Requests, b \in Bookings :
        /\ request[r].pc = "insert" /\ b \in request[r].seen
        /\ booking[b].amenityId = request[r].amenityId
        /\ Live(b)
        /\ Overlaps(b, request[r])
        => b \in reopened

\* There is a reservation b, or there was.
Known(b) == booking[b].status # Nil

SawOK ==
    /\ \A r \in Requests : \A b \in request[r].seen : Known(b)
    /\ \A b \in Bookings : \A c \in saw[b] : Known(b) /\ Known(c)

\* DoubleBookingsAreExplained, with the overlap test in the place of instants.
Explained ==
    \A b, c \in Bookings :
        /\ b # c /\ Live(b) /\ Live(c)
        /\ booking[b].amenityId = booking[c].amenityId
        /\ Overlaps(b, booking[c])
        /\ b \notin reopened /\ c \notin reopened
        => b \notin saw[c] /\ c \notin saw[b]

IInv == TypeOK /\ CheckedOK /\ SawOK /\ Explained

LEMMA Inductive == IInv /\ [Next]_vars => IInv'
<1> SUFFICES ASSUME IInv, [Next]_vars PROVE IInv'
  OBVIOUS
<1> USE DEF IInv
<1>t. TypeOK'
  BY TypeStep
<1>1. ASSUME NEW r \in Requests, NEW a \in Amenities, NEW start \in Times, NEW end \in Times,
             CreateBooking(r, a, start, end)
      PROVE  IInv'
  <2>1. CheckedOK'
    BY <1>1 DEF CreateBooking, CheckedOK, Live, Overlaps, TypeOK
  <2>2. SawOK'
    BY <1>1 DEF CreateBooking, SawOK, Known, TypeOK
  <2> QED
    BY <1>1, <1>t, <2>1, <2>2 DEF CreateBooking, Explained, Live, Overlaps
<1>2. ASSUME NEW r \in Requests, CountOverlaps(r) PROVE IInv'
  <2>1. CheckedOK'
    BY <1>2 DEF CountOverlaps, CheckedOK, Live, Overlaps, TypeOK
  <2>2. SawOK'
    BY <1>2, NilAssumption DEF CountOverlaps, SawOK, Known, Exists, TypeOK
  <2> QED
    BY <1>2, <1>t, <2>1, <2>2 DEF CountOverlaps, Explained, Live, Overlaps
<1>3. ASSUME NEW r \in Requests, NEW n \in Bookings, InsertBooking(r, n) PROVE IInv'
  <2>a. ~ Known(n) /\ request[r].pc = "insert"
    BY <1>3 DEF InsertBooking, Unborn, Known
  <2>b. \A b \in Bookings \ {n} : booking'[b] = booking[b] /\ saw'[b] = saw[b]
    BY <1>3 DEF InsertBooking, TypeOK
  <2>c. /\ booking'[n].amenityId = request[r].amenityId
        /\ booking'[n].start = request[r].start
        /\ booking'[n].end = request[r].end
        /\ Known(n)'
        /\ saw'[n] = request[r].seen
    <3>1. booking'[n].status \in BookingStatus
      BY <1>3 DEF InsertBooking, TypeOK, BookingStatus
    <3> QED
      BY <1>3, <3>1, NilAssumption DEF InsertBooking, Known, TypeOK
  <2>d. /\ reopened' = reopened
        /\ \A q \in Requests : request'[q] = IF q = r THEN Idle ELSE request[q]
    BY <1>3 DEF InsertBooking, TypeOK
  <2>e. n \notin request[r].seen /\ \A b \in Bookings : n \notin saw[b]
    BY <2>a DEF SawOK
  <2>f. \A b \in Bookings : Known(b) => Known(b)'
    BY <2>b, <2>c DEF Known
  <2>1. CheckedOK'
    <3> SUFFICES ASSUME NEW q \in Requests, NEW b \in Bookings,
                        request'[q].pc = "insert", b \in request'[q].seen,
                        booking'[b].amenityId = request'[q].amenityId,
                        Live(b)', Overlaps(b, request[q])'
                 PROVE  b \in reopened'
      BY DEF CheckedOK
    <3>1. q # r /\ request'[q] = request[q]
      BY <2>d DEF Idle
    <3>2. b # n
      BY <2>a, <3>1 DEF SawOK
    <3> QED
      BY <2>b, <2>d, <3>1, <3>2 DEF CheckedOK, Live, Overlaps
  <2>2. SawOK'
    <3>1. \A q \in Requests : request'[q].seen \subseteq request[q].seen
      BY <2>d DEF Idle
    <3>2. \A q \in Requests : \A b \in request'[q].seen : b \in Bookings /\ Known(b)'
      BY <2>f, <3>1 DEF SawOK, TypeOK, RequestState
    <3>3. \A b \in Bookings : \A c \in saw'[b] : c \in Bookings /\ Known(c)
      BY <2>b, <2>c DEF SawOK, TypeOK, RequestState
    <3>4. \A b \in Bookings : saw'[b] # {} => Known(b)'
      BY <2>b, <2>c, <2>f DEF SawOK
    <3> QED
      BY <2>f, <3>2, <3>3, <3>4 DEF SawOK
  <2>3. Explained'
    <3> SUFFICES ASSUME NEW b \in Bookings, NEW c \in Bookings,
                        b # c, Live(b)', Live(c)',
                        booking'[b].amenityId = booking'[c].amenityId,
                        Overlaps(b, booking[c])',
                        b \notin reopened', c \notin reopened'
                 PROVE  b \notin saw'[c] /\ c \notin saw'[b]
      BY DEF Explained
    <3>1. CASE b # n /\ c # n
      BY <2>b, <2>d, <3>1 DEF Explained, Live, Overlaps
    <3>2. CASE c = n
      <4>1. booking'[b] = booking[b] /\ saw'[b] = saw[b] /\ Live(b) /\ Overlaps(b, request[r])
        BY <2>b, <2>c, <3>2 DEF Live, Overlaps
      <4>2. b \notin request[r].seen
        BY <2>a, <2>c, <2>d, <3>2, <4>1 DEF CheckedOK
      <4> QED
        BY <2>c, <2>e, <3>2, <4>1, <4>2
    <3>3. CASE b = n
      <4>0. /\ booking[c].start \in Nat /\ booking[c].end \in Nat
            /\ request[r].start \in Nat /\ request[r].end \in Nat
        BY HorizonAssumption DEF TypeOK, BookingRow, RequestState, Times
      <4>1. booking'[c] = booking[c] /\ saw'[c] = saw[c] /\ Live(c)
        BY <2>b, <3>3 DEF Live
      <4>2. Overlaps(c, request[r])
        BY <2>c, <3>3, <4>0, <4>1 DEF Overlaps
      <4>3. c \notin request[r].seen
        BY <2>a, <2>c, <2>d, <3>3, <4>1, <4>2 DEF CheckedOK
      <4> QED
        BY <2>c, <2>e, <3>3, <4>1, <4>3
    <3> QED
      BY <3>1, <3>2, <3>3
  <2> QED
    BY <1>t, <2>1, <2>2, <2>3
<1>4. ASSUME NEW r \in Requests, Abort(r) PROVE IInv'
  <2>1. CheckedOK'
    BY <1>4 DEF Abort, CheckedOK, Live, Overlaps, Idle, TypeOK
  <2>2. SawOK'
    BY <1>4 DEF Abort, SawOK, Known, Idle, TypeOK
  <2> QED
    BY <1>4, <1>t, <2>1, <2>2 DEF Abort, Explained, Live, Overlaps
<1>5. ASSUME NEW n \in Bookings, NEW status \in BookingStatus, UpdateStatus(n, status) PROVE IInv'
  <2>a. \A b \in Bookings : /\ booking'[b].amenityId = booking[b].amenityId
                            /\ booking'[b].start = booking[b].start
                            /\ booking'[b].end = booking[b].end
    BY <1>5 DEF UpdateStatus, TypeOK
  <2>b. \A b \in Bookings : Live(b)' => Live(b) \/ b \in reopened'
    BY <1>5 DEF UpdateStatus, TypeOK, Live, BookingRow
  <2>c. reopened \subseteq reopened' /\ request' = request /\ saw' = saw
    BY <1>5 DEF UpdateStatus
  <2>d. \A b \in Bookings : Known(b) => Known(b)'
    <3>2. booking'[n].status \in BookingStatus
      BY <1>5 DEF UpdateStatus, TypeOK, BookingRow
    <3> QED
      BY <1>5, <3>2, NilAssumption DEF UpdateStatus, TypeOK, Known
  <2>1. CheckedOK'
    BY <2>a, <2>b, <2>c DEF CheckedOK, Overlaps
  <2>2. SawOK'
    BY <2>c, <2>d DEF SawOK, TypeOK, RequestState
  <2>3. Explained'
    BY <2>a, <2>b, <2>c DEF Explained, Overlaps
  <2> QED
    BY <1>t, <2>1, <2>2, <2>3
<1>6. ASSUME NEW made \in SUBSET Bookings, RemoveUser(made) PROVE IInv'
  <2>1. Deleted.status = "DELETED" /\ "DELETED" # Nil /\ "DELETED" \notin LiveStatus
    BY NilAssumption DEF Deleted, Unborn, LiveStatus
  <2>2. /\ \A b \in Bookings : booking'[b] = IF b \in made THEN Deleted ELSE booking[b]
        /\ request' = request /\ saw' = saw /\ reopened' = reopened
    BY <1>6 DEF RemoveUser
  <2>3. \A b \in Bookings :
           /\ booking'[b].status \in LiveStatus =>
                 booking[b].status \in LiveStatus /\ booking'[b] = booking[b]
           /\ booking[b].status # Nil => booking'[b].status # Nil
    BY <2>1, <2>2
  <2>4. CheckedOK'
    <3> SUFFICES ASSUME NEW r \in Requests, NEW b \in Bookings,
                        request[r].pc = "insert", b \in request[r].seen,
                        booking'[b].amenityId = request[r].amenityId,
                        booking'[b].status \in LiveStatus,
                        booking'[b].start < request[r].end, booking'[b].end > request[r].start
                 PROVE  b \in reopened
      BY <2>2 DEF CheckedOK, Live, Overlaps
    <3>1. booking[b].status \in LiveStatus /\ booking'[b] = booking[b]
      BY <2>3
    <3> QED
      BY <3>1 DEF CheckedOK, Live, Overlaps
  <2>5. SawOK'
    <3>1. \A r \in Requests : request[r].seen \subseteq Bookings
      BY DEF TypeOK, RequestState
    <3>2. \A b \in Bookings : saw[b] \subseteq Bookings
      BY DEF TypeOK
    <3>3. \A r \in Requests : \A b \in request'[r].seen : booking'[b].status # Nil
      BY <2>2, <2>3, <3>1 DEF SawOK, Known
    <3>4. \A b \in Bookings : \A c \in saw'[b] : booking'[b].status # Nil /\ booking'[c].status # Nil
      BY <2>2, <2>3, <3>2 DEF SawOK, Known
    <3> QED
      BY <3>3, <3>4 DEF SawOK, Known
  <2>6. Explained'
    <3> SUFFICES ASSUME NEW b \in Bookings, NEW c \in Bookings, b # c,
                        booking'[b].status \in LiveStatus, booking'[c].status \in LiveStatus,
                        booking'[b].amenityId = booking'[c].amenityId,
                        booking'[b].start < booking'[c].end, booking'[b].end > booking'[c].start,
                        b \notin reopened, c \notin reopened
                 PROVE  b \notin saw[c] /\ c \notin saw[b]
      BY <2>2 DEF Explained, Live, Overlaps
    <3>1. /\ booking[b].status \in LiveStatus /\ booking'[b] = booking[b]
          /\ booking[c].status \in LiveStatus /\ booking'[c] = booking[c]
      BY <2>3
    <3> QED
      BY <3>1 DEF Explained, Live, Overlaps
  <2> QED
    BY <1>t, <2>4, <2>5, <2>6
<1>7. CASE UNCHANGED vars
  BY <1>7, <1>t DEF vars, CheckedOK, SawOK, Explained, Live, Overlaps, Known
<1> QED
  BY <1>1, <1>2, <1>3, <1>4, <1>5, <1>6, <1>7 DEF Next

LEMMA Explains == IInv => DoubleBookingsAreExplained
<1> SUFFICES ASSUME IInv, NEW b \in Bookings, NEW c \in Bookings, DoubleBooked(b, c),
                    b \notin reopened, c \notin reopened
             PROVE  b \notin saw[c] /\ c \notin saw[b]
  BY DEF DoubleBookingsAreExplained
<1>1. PICK t \in Times : t \in Slot(b) /\ t \in Slot(c)
  BY DEF DoubleBooked, Slot
<1>2. Overlaps(b, booking[c])
  BY <1>1, HorizonAssumption DEF Slot, Overlaps, IInv, TypeOK, BookingRow, Times
<1>3. Live(b) /\ Live(c)
  BY DEF DoubleBooked, Live, LiveStatus
<1> QED
  BY <1>2, <1>3 DEF IInv, Explained, DoubleBooked

(* An amenity is only ever reserved twice at one instant when the requests *)
(* of the two reservations overlapped or one of them was made live again   *)
(* after it had been rejected or cancelled, for any number of amenities,   *)
(* reservations, requests and instants.                                    *)
THEOREM DoubleBookings == Spec => []DoubleBookingsAreExplained
<1>1. Init => IInv
  BY TypeInit DEF Init, IInv, CheckedOK, SawOK, Explained, Idle, Unborn, Live, LiveStatus
<1> QED
  BY <1>1, Inductive, Explains, PTL DEF Spec

-----------------------------------------------------------------------------
(* What a lock would give.  create takes none; suppose the server held one *)
(* on the amenity from the count to the insert, so that no two requests    *)
(* are between them for the same amenity.                                  *)
AmenityLocked ==
    \A q, r \in Requests :
        q # r /\ request[q].pc = "insert" /\ request[r].pc = "insert"
        => request[q].amenityId # request[r].amenityId

\* Then a count stays true until its insert, and of two reservations the
\* later one was checked against the earlier.
CountsAreFresh ==
    \A r \in Requests, b \in Bookings :
        request[r].pc = "insert" /\ Exists(b) /\ booking[b].amenityId = request[r].amenityId
        => b \in request[r].seen

OneSawTheOther ==
    \A b, c \in Bookings :
        b # c /\ Exists(b) /\ Exists(c) /\ booking[b].amenityId = booking[c].amenityId
        => b \in saw[c] \/ c \in saw[b]

LInv == CountsAreFresh /\ OneSawTheOther

OnlyReopenedDoubleBook ==
    \A b, c \in Bookings : DoubleBooked(b, c) => b \in reopened \/ c \in reopened

LEMMA LockedInductive == TypeOK /\ LInv /\ AmenityLocked /\ [Next]_vars => LInv'
<1> SUFFICES ASSUME TypeOK, LInv, AmenityLocked, [Next]_vars PROVE LInv'
  OBVIOUS
<1> USE DEF LInv
<1>1. ASSUME NEW r \in Requests, NEW a \in Amenities, NEW start \in Times, NEW end \in Times,
             CreateBooking(r, a, start, end)
      PROVE  LInv'
  BY <1>1 DEF CreateBooking, CountsAreFresh, OneSawTheOther, Exists, TypeOK
<1>2. ASSUME NEW r \in Requests, CountOverlaps(r) PROVE LInv'
  BY <1>2 DEF CountOverlaps, CountsAreFresh, OneSawTheOther, Exists, TypeOK, RequestState
<1>3. ASSUME NEW r \in Requests, NEW n \in Bookings, InsertBooking(r, n) PROVE LInv'
  <2>a. ~ Exists(n) /\ request[r].pc = "insert"
    BY <1>3, NilAssumption DEF InsertBooking, Unborn, Exists
  <2>b. \A b \in Bookings \ {n} : booking'[b] = booking[b] /\ saw'[b] = saw[b]
    BY <1>3 DEF InsertBooking, TypeOK
  <2>c. booking'[n].amenityId = request[r].amenityId /\ saw'[n] = request[r].seen
    BY <1>3 DEF InsertBooking, TypeOK
  <2>d. \A q \in Requests : request'[q] = IF q = r THEN Idle ELSE request[q]
    BY <1>3 DEF InsertBooking, TypeOK
  <2>1. CountsAreFresh'
    <3> SUFFICES ASSUME NEW q \in Requests, NEW b \in Bookings, request'[q].pc = "insert",
                        Exists(b)', booking'[b].amenityId = request'[q].amenityId
                 PROVE  b \in request'[q].seen
      BY DEF CountsAreFresh
    <3>1. q # r /\ request'[q] = request[q]
      BY <2>d DEF Idle
    <3>2. b # n
      BY <2>a, <2>c, <3>1 DEF AmenityLocked
    <3> QED
      BY <2>b, <3>1, <3>2 DEF CountsAreFresh, Exists
  <2>2. OneSawTheOther'
    <3>1. ASSUME NEW b \in Bookings, b # n, Exists(b)', booking'[b].amenityId = booking'[n].amenityId
          PROVE  b \in saw'[n]
      BY <2>a, <2>b, <2>c, <3>1 DEF CountsAreFresh, Exists
    <3>2. ASSUME NEW b \in Bookings, NEW c \in Bookings, b # n, c # n, b # c, Exists(b)', Exists(c)',
                 booking'[b].amenityId = booking'[c].amenityId
          PROVE  b \in saw'[c] \/ c \in saw'[b]
      BY <2>b, <3>2 DEF OneSawTheOther, Exists
    <3> QED
      BY <3>1, <3>2 DEF OneSawTheOther
  <2> QED
    BY <2>1, <2>2
<1>4. ASSUME NEW r \in Requests, Abort(r) PROVE LInv'
  BY <1>4 DEF Abort, CountsAreFresh, OneSawTheOther, Exists, Idle, TypeOK
<1>5. ASSUME NEW n \in Bookings, NEW status \in BookingStatus, UpdateStatus(n, status) PROVE LInv'
  <2>1. \A b \in Bookings : booking'[b].amenityId = booking[b].amenityId /\ (Exists(b)' => Exists(b))
    BY <1>5 DEF UpdateStatus, TypeOK, Exists
  <2> QED
    BY <1>5, <2>1 DEF UpdateStatus, CountsAreFresh, OneSawTheOther
<1>6. ASSUME NEW made \in SUBSET Bookings, RemoveUser(made) PROVE LInv'
  <2>1. Deleted.status \notin BookingStatus
    BY DEF Deleted, Unborn, BookingStatus
  <2>2. /\ \A b \in Bookings : Exists(b)' => booking'[b] = booking[b] /\ Exists(b)
        /\ request' = request /\ saw' = saw
    BY <1>6, <2>1 DEF RemoveUser, Exists
  <2> QED
    BY <2>2 DEF CountsAreFresh, OneSawTheOther
<1>7. CASE UNCHANGED vars
  BY <1>7 DEF vars, CountsAreFresh, OneSawTheOther, Exists
<1> QED
  BY <1>1, <1>2, <1>3, <1>4, <1>5, <1>6, <1>7 DEF Next

(* If the amenity were locked between the count and the insert of create   *)
(* (amenities.service.ts:72-111), two live reservations would share an     *)
(* instant only where an administrator made one of them live again: the    *)
(* count itself is right, the race is all that create adds, and            *)
(* updateStatus needs a check of its own.                                  *)
THEOREM LockedBookings == Spec /\ []AmenityLocked => []OnlyReopenedDoubleBook
<1>1. Init => IInv /\ LInv
  BY TypeInit, NilAssumption DEF Init, IInv, CheckedOK, SawOK, Explained, Idle, Unborn, Live, LiveStatus,
                                 LInv, CountsAreFresh, OneSawTheOther, Exists
<1>2. IInv /\ LInv /\ AmenityLocked /\ [Next]_vars => (IInv /\ LInv)'
  BY Inductive, LockedInductive DEF IInv
<1>3. IInv /\ LInv => OnlyReopenedDoubleBook
  <2> SUFFICES ASSUME IInv, LInv, NEW b \in Bookings, NEW c \in Bookings, DoubleBooked(b, c)
               PROVE  b \in reopened \/ c \in reopened
    BY DEF OnlyReopenedDoubleBook
  <2>1. Exists(b) /\ Exists(c)
    BY NilAssumption DEF DoubleBooked, Exists, BookingStatus
  <2> QED
    BY <2>1, Explains DEF DoubleBookingsAreExplained, DoubleBooked, LInv, OneSawTheOther
<1> QED
  BY <1>1, <1>2, <1>3, PTL DEF Spec

=============================================================================
