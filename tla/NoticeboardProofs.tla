------------------------- MODULE NoticeboardProofs -------------------------
(***************************************************************************)
(* FrontDesk implements Noticeboard: every step of the handlers and of the *)
(* gateway is a step of the abstract specification or leaves its variables *)
(* alone.                                                                  *)
(***************************************************************************)
EXTENDS FrontDeskProofs

\* What a handler goes on to write is a later status of its table: an exit only
\* ever closes a visit, a delivery only ever settles a parcel.
WritesOK ==
    \A q \in Requests : request[q].pc = "write" => request[q].status \in N!Later[request[q].kind]

RInv == IInv /\ WritesOK

LEMMA LaterStatuses ==
    /\ N!Kinds = Kind
    /\ N!Later["visitor"] = {"closed"} /\ N!Later["parcel"] = {"DELIVERED"}
    /\ N!Later["ticket"] = TicketStatus /\ N!Later["post"] = PostStatus
    /\ N!First["visitor"] = "active" /\ N!First["parcel"] = "PENDING"
    /\ N!First["ticket"] = "OPEN" /\ N!First["post"] = "ACTIVE"
BY Kinds DEF N!Kinds, N!Later, N!First, TicketStatus, PostStatus

-----------------------------------------------------------------------------
LEMMA WritesStay ==
    ASSUME WritesOK, IInv, NEW q \in Requests, NEW n,
           request' = [request EXCEPT ![q] = n],
           n.pc = "write" => n.status \in N!Later[n.kind]
    PROVE  WritesOK'
<1>1. \A p \in Requests : request'[p] = IF p = q THEN n ELSE request[p]
  BY DEF IInv, TypeOK, RequestsOK
<1>2. ASSUME NEW p \in Requests, request'[p].pc = "write"
      PROVE  request'[p].status \in N!Later[request'[p].kind]
  <2>1. CASE p = q
    BY <1>1, <1>2, <2>1
  <2>2. CASE p # q
    BY <1>1, <1>2, <2>2 DEF WritesOK
  <2> QED
    BY <2>1, <2>2
<1> QED
  BY <1>2 DEF WritesOK

LEMMA ReadKeepsWrites ==
    ASSUME WritesOK, IInv, NEW q \in Requests, NEW kind, NEW c, NEW r, NEW status,
           ReadToWrite(q, kind, c, r, status), status \in N!Later[kind]
    PROVE  WritesOK'
<1> DEFINE n == [Idle EXCEPT !.pc = "write", !.kind = kind, !.complex = c,
                             !.row = r, !.status = status]
<1>1. request' = [request EXCEPT ![q] = n]
  BY DEF ReadToWrite
<1>2. n.pc = "write" /\ n.kind = kind /\ n.status = status
  BY DEF Idle
<1> HIDE DEF n
<1> QED
  BY <1>1, <1>2, WritesStay

LEMMA EmitKeepsWrites ==
    ASSUME WritesOK, IInv, NEW q \in Requests, NEW kind, NEW c, NEW r, NEW status,
           ToEmit(q, kind, c, r, status)
    PROVE  WritesOK'
<1> DEFINE n == [Idle EXCEPT !.pc = "emit", !.kind = kind, !.complex = c,
                             !.row = r, !.status = status]
<1>1. request' = [request EXCEPT ![q] = n]
  BY DEF ToEmit
<1>2. n.pc = "emit"
  BY DEF Idle
<1> HIDE DEF n
<1> QED
  BY <1>1, <1>2, WritesStay

LEMMA FinishKeepsWrites ==
    ASSUME WritesOK, IInv, NEW q \in Requests, Finish(q)
    PROVE  WritesOK'
BY WritesStay DEF Finish, Idle

LEMMA InsertKeepsWrites ==
    ASSUME WritesOK, IInv, NEW q \in Requests, NEW kind, NEW c, NEW u, NEW f,
           ToInsert(q, kind, c, u, f)
    PROVE  WritesOK'
<1> DEFINE n == [Idle EXCEPT !.pc = "insert", !.kind = kind, !.complex = c, !.user = u, !.file = f]
<1>1. request' = [request EXCEPT ![q] = n]
  BY DEF ToInsert
<1>2. n.pc = "insert"
  BY DEF Idle
<1> HIDE DEF n
<1> QED
  BY <1>1, <1>2, WritesStay

LEMMA WritesStep == RInv /\ [Next]_vars => WritesOK'
<1> SUFFICES ASSUME IInv, WritesOK, [Next]_vars PROVE WritesOK'
  BY DEF RInv
<1>1. ASSUME NEW q \in Requests, NEW role \in RoleCode, NEW c \in Complexes \cup {Nil},
             Arrive(q, role, c)
      PROVE  WritesOK'
  <2>1. CASE request' = request
    BY <2>1 DEF WritesOK
  <2>2. ASSUME NEW u, NEW r, RegisterEntry(q, role, c, u, r) PROVE WritesOK'
    BY <2>2, EmitKeepsWrites DEF RegisterEntry
  <2>3. ASSUME NEW r, RegisterExit(q, role, c, r) PROVE WritesOK'
    BY <2>3, ReadKeepsWrites, LaterStatuses DEF RegisterExit
  <2>4. ASSUME NEW f, CreateCorrespondence(q, role, c, f) PROVE WritesOK'
    BY <2>4, InsertKeepsWrites DEF CreateCorrespondence
  <2>5. ASSUME NEW r, MarkAsDelivered(q, role, c, r) PROVE WritesOK'
    BY <2>5, ReadKeepsWrites, LaterStatuses DEF MarkAsDelivered
  <2>6. ASSUME NEW u, NEW f, CreateTicket(q, role, c, u, f) PROVE WritesOK'
    BY <2>6, InsertKeepsWrites DEF CreateTicket
  <2>7. ASSUME NEW r, NEW status \in TicketStatus, UpdateTicket(q, role, c, r, status)
        PROVE  WritesOK'
    BY <2>7, ReadKeepsWrites, LaterStatuses DEF UpdateTicket
  <2>8. ASSUME NEW u, NEW r, CreatePost(q, role, c, u, r) PROVE WritesOK'
    BY <2>1, <2>8 DEF CreatePost
  <2>9. ASSUME NEW u, NEW r, NEW status, UpdatePost(q, role, c, u, r, status) PROVE WritesOK'
    BY <2>1, <2>9 DEF UpdatePost
  <2> QED
    BY <1>1, <2>2, <2>3, <2>4, <2>5, <2>6, <2>7, <2>8, <2>9 DEF Arrive
<1>2. ASSUME NEW q \in Requests, Continue(q) PROVE WritesOK'
  <2>1. CASE WriteExit(q)
    BY <2>1, EmitKeepsWrites DEF WriteExit
  <2>2. ASSUME NEW r, InsertCorrespondence(q, r) PROVE WritesOK'
    BY <2>2, EmitKeepsWrites DEF InsertCorrespondence
  <2>3. CASE WriteDelivery(q) \/ Emit(q) \/ StatementFails(q)
    BY <2>3, FinishKeepsWrites DEF WriteDelivery, Emit, StatementFails
  <2>4. ASSUME NEW r, InsertTicket(q, r) PROVE WritesOK'
    BY <2>4, FinishKeepsWrites DEF InsertTicket
  <2>5. CASE WriteTicket(q)
    BY <2>5, EmitKeepsWrites DEF WriteTicket
  <2> QED
    BY <1>2, <2>1, <2>2, <2>3, <2>4, <2>5 DEF Continue
<1>3. ASSUME NEW s \in Sockets, Connection(s) PROVE WritesOK'
  BY <1>3 DEF Connection, HandleConnection, HandleJoinTenant, HandleDisconnect, WritesOK
<1>4. CASE Restart \/ \E u \in Users : RemoveUser(u)
  BY <1>4 DEF Restart, RemoveUser, WritesOK, Idle
<1>5. CASE UNCHANGED vars
  BY <1>5 DEF vars, WritesOK
<1> QED
  BY <1>1, <1>2, <1>3, <1>4, <1>5 DEF Next

-----------------------------------------------------------------------------
(* The abstract variables across a step.                                   *)
Owing(r, status) == [row |-> r, status |-> status]

AbstractStep == N!Next \/ UNCHANGED <<Board, Debts, Tuned, shown>>

LEMMA RowSeen ==
    ASSUME NEW r \in Rows
    PROVE  /\ Board[r] = [kind |-> row[r].kind, complex |-> row[r].complex, status |-> row[r].status]
           /\ Board[r].kind = row[r].kind /\ Board[r].complex = row[r].complex
BY DEF Board

LEMMA SameDebts ==
    ASSUME IInv, NEW q \in Requests, NEW n, request' = [request EXCEPT ![q] = n],
           request[q].pc # "emit", n.pc # "emit"
    PROVE  Debts' = Debts
<1>1. \A p \in Requests : request'[p] = IF p = q THEN n ELSE request[p]
  BY DEF IInv, TypeOK, RequestsOK
<1> QED
  BY <1>1 DEF Debts, Running

LEMMA NewDebt ==
    ASSUME IInv, NEW q \in Requests, NEW kind, NEW c, NEW r, NEW status,
           ToEmit(q, kind, c, r, status), request[q].pc # "emit"
    PROVE  Debts[q] = Owing(Nil, Nil) /\ Debts' = [Debts EXCEPT ![q] = Owing(r, status)]
<1> DEFINE n == [Idle EXCEPT !.pc = "emit", !.kind = kind, !.complex = c,
                             !.row = r, !.status = status]
<1>1. n.pc = "emit" /\ n.row = r /\ n.status = status
  BY DEF Idle
<1>2. \A p \in Requests : request'[p] = IF p = q THEN n ELSE request[p]
  BY DEF ToEmit, IInv, TypeOK, RequestsOK
<1> HIDE DEF n
<1>3. Debts[q] = Owing(Nil, Nil)
  BY DEF Debts, Running, Owing
<1>4. \A p \in Requests : Debts'[p] = IF p = q THEN Owing(r, status) ELSE Debts[p]
  BY <1>1, <1>2 DEF Debts, Running, Owing
<1> QED
  BY <1>3, <1>4 DEF Debts

LEMMA SameBoard == ASSUME UNCHANGED row PROVE Board' = Board
BY DEF Board

LEMMA SameScreens == ASSUME UNCHANGED gateway PROVE Tuned' = Tuned /\ shown' = shown
BY DEF Tuned, gateway

\* A row is created, with its announcement if its table has one.
LEMMA Posts ==
    ASSUME IInv, NEW q \in Requests, NEW kind \in Kind, NEW c \in Complexes, NEW u, NEW r \in Rows,
           row[r] = Unborn, row' = [row EXCEPT ![r] = Row(kind, c, N!First[kind], u)],
           IF kind \in {"visitor", "parcel"}
           THEN /\ Debts[q] = Owing(Nil, Nil)
                /\ Debts' = [Debts EXCEPT ![q] = Owing(r, N!First[kind])]
           ELSE Debts' = Debts,
           UNCHANGED gateway
    PROVE  AbstractStep
<1> DEFINE new == [kind |-> kind, complex |-> c, status |-> N!First[kind]]
<1>1. Board[r] = N!Blank
  BY RowSeen DEF Unborn, Row, N!Blank
<1>2. \A t \in Rows : row'[t] = IF t = r THEN Row(kind, c, N!First[kind], u) ELSE row[t]
  BY DEF IInv, TypeOK, RowsOK
<1>3. Board' = [Board EXCEPT ![r] = new]
  <2>1. \A t \in Rows \ {r} : row'[t] = row[t]
    BY <1>2
  <2>2. row'[r].kind = kind /\ row'[r].complex = c /\ row'[r].status = N!First[kind]
    BY <1>2 DEF Row
  <2>3. \A t \in Rows : Board'[t] = IF t = r THEN new ELSE Board[t]
    BY <2>1, <2>2 DEF Board
  <2> HIDE DEF new
  <2> QED
    BY <2>3 DEF Board
<1>4. kind \in N!Kinds /\ Tuned' = Tuned /\ shown' = shown
  BY LaterStatuses, SameScreens
<1>5. IF kind \in {"visitor", "parcel"} THEN N!Owe(q, r, N!First[kind]) ELSE UNCHANGED Debts
  BY DEF N!Owe, N!Nothing, Owing
<1>6. N!Post(q, r)
  BY <1>1, <1>3, <1>4, <1>5 DEF N!Post
<1> QED
  BY <1>6 DEF AbstractStep, N!Next

\* The status of a row changes, with its announcement if its table has one.
LEMMA ChangesRow ==
    ASSUME IInv, NEW q \in Requests, NEW r \in Rows, NEW status,
           row[r].kind \in Kind, status \in N!Later[row[r].kind],
           row' = [row EXCEPT ![r].status = status],
           IF row[r].kind \in {"visitor", "ticket"}
           THEN /\ Debts[q] = Owing(Nil, Nil)
                /\ Debts' = [Debts EXCEPT ![q] = Owing(r, status)]
           ELSE Debts' = Debts,
           UNCHANGED gateway
    PROVE  AbstractStep
<1>1. Board[r].kind = row[r].kind /\ Board[r] # N!Blank
  <2>1. Board[r].kind = row[r].kind /\ Board[r].kind # Nil
    BY RowSeen, NilAssumption
  <2>2. N!Blank.kind = Nil
    BY DEF N!Blank
  <2> QED
    BY <2>1, <2>2
<1>2. row[r] \in RowState
  BY DEF IInv, TypeOK, RowsOK
<1>3. \A t \in Rows : /\ t # r => row'[t] = row[t]
                      /\ t = r => /\ row'[t].kind = row[t].kind
                                  /\ row'[t].complex = row[t].complex
                                  /\ row'[t].status = status
  BY <1>2 DEF IInv, TypeOK, RowsOK, RowState
<1>4. Board' = [Board EXCEPT ![r].status = status]
  <2>1. \A t \in Rows : Board'[t] = IF t = r THEN [Board[t] EXCEPT !.status = status] ELSE Board[t]
    BY <1>3 DEF Board
  <2> QED
    BY <2>1 DEF Board
<1>5. Tuned' = Tuned /\ shown' = shown
  BY SameScreens
<1>6. IF Board[r].kind \in {"visitor", "ticket"} THEN N!Owe(q, r, status) ELSE UNCHANGED Debts
  BY <1>1 DEF N!Owe, N!Nothing, Owing
<1>7. N!Change(q, r)
  BY <1>1, <1>4, <1>5, <1>6 DEF N!Change
<1> QED
  BY <1>7 DEF AbstractStep, N!Next

\* A write by id, with the announcement its handler goes on to make.
LEMMA WriteChanges ==
    ASSUME RInv, NEW q \in Requests, NEW kind \in Kind, WriteRow(q, kind),
           IF kind \in {"visitor", "ticket"}
           THEN ToEmit(q, kind, request[q].complex, request[q].row, request[q].status)
           ELSE Finish(q)
    PROVE  AbstractStep
<1> DEFINE r == request[q].row
           status == request[q].status
<1>1. request[q].pc = "write" /\ r \in Rows /\ row[r].kind = kind /\ request[q].kind = kind
  BY DEF RInv, IInv, TypeOK, RequestsOK, WriteRow, Running
<1>2. status \in N!Later[row[r].kind]
  BY <1>1 DEF RInv, WritesOK
<1>3. row' = [row EXCEPT ![r].status = status] /\ UNCHANGED gateway
  BY DEF WriteRow
<1>4. CASE kind \in {"visitor", "ticket"}
  <2>1. Debts[q] = Owing(Nil, Nil) /\ Debts' = [Debts EXCEPT ![q] = Owing(r, status)]
    BY <1>1, <1>4, NewDebt DEF RInv
  <2> HIDE DEF r, status
  <2> QED
    BY <1>1, <1>2, <1>3, <1>4, <2>1, ChangesRow DEF RInv
<1>5. CASE kind \notin {"visitor", "ticket"}
  <2>1. Debts' = Debts
    BY <1>1, <1>5, SameDebts DEF RInv, Finish, Idle
  <2> HIDE DEF r, status
  <2> QED
    BY <1>1, <1>2, <1>3, <1>5, <2>1, ChangesRow DEF RInv
<1> QED
  BY <1>4, <1>5

\* A row is inserted for a request that stored its photo first, or none.
LEMMA InsertPosts ==
    ASSUME RInv, NEW q \in Requests, NEW kind \in {"parcel", "ticket"}, NEW r \in Rows,
           Insert(q, kind, N!First[kind], r),
           IF kind = "parcel"
           THEN ToEmit(q, kind, request[q].complex, r, N!First[kind])
           ELSE Finish(q)
    PROVE  AbstractStep
<1>1. /\ request[q].pc = "insert" /\ request[q].complex \in Complexes /\ kind \in Kind
      /\ row[r] = Unborn /\ request[q].user \in Users \cup {Nil}
      /\ row' = [row EXCEPT ![r] = Row(kind, request[q].complex, N!First[kind], request[q].user)]
      /\ UNCHANGED gateway
  BY Kinds DEF RInv, IInv, TypeOK, RequestsOK, RequestState, Insert, Running
<1>2. CASE kind = "parcel"
  <2>1. Debts[q] = Owing(Nil, Nil) /\ Debts' = [Debts EXCEPT ![q] = Owing(r, N!First[kind])]
    BY <1>1, <1>2, NewDebt DEF RInv
  <2> QED
    BY <1>1, <1>2, <2>1, Posts DEF RInv
<1>3. CASE kind = "ticket"
  <2>1. Debts' = Debts
    BY <1>1, <1>3, SameDebts DEF RInv, Finish, Idle
  <2> QED
    BY <1>1, <1>3, <2>1, Posts DEF RInv
<1> QED
  BY <1>2, <1>3

LEMMA QuietStep ==
    ASSUME RInv, UNCHANGED <<row, gateway>>, Debts' = Debts
    PROVE  AbstractStep
BY SameBoard, SameScreens DEF AbstractStep

\* emitToTenant reaches the sockets whose token names the complex of the row.
LEMMA EmitAnnounces ==
    ASSUME RInv, NEW q \in Requests, Emit(q)
    PROVE  AbstractStep
<1> DEFINE r == request[q].row
           c == request[q].complex
           status == request[q].status
<1>1. r \in Rows /\ row[r].complex = c /\ c \in Complexes /\ c # Nil
  BY NilAssumption DEF RInv, IInv, TypeOK, RequestsOK, TenantsAreIsolated, Emit, Running
<1>2. r # Nil /\ Debts[q] = Owing(r, status) /\ Board[r].complex = c
  <2>1. Debts[q] = Owing(r, status)
    BY DEF Emit, Debts, Running, Owing
  <2> HIDE DEF r, c, status
  <2> QED
    BY <1>1, <2>1, RowSeen, NilAssumption
<1>3. ASSUME NEW s \in Sockets PROVE InRoom(s, c) <=> Tuned[s] = c
  <2>1. CASE socket[s] = Offline
    BY <1>1, <2>1 DEF InRoom, Tuned, Offline
  <2>2. CASE socket[s] # Offline
    BY <2>2 DEF RInv, IInv, RoomsOK, InRoom, Tuned
  <2> QED
    BY <2>1, <2>2
<1>4. shown' = [s \in Sockets |-> IF Tuned[s] = c THEN [shown[s] EXCEPT ![r] = status] ELSE shown[s]]
  BY <1>3 DEF Emit
<1>5. \A p \in Requests : request'[p] = IF p = q THEN Idle ELSE request[p]
  BY DEF Emit, Finish, RInv, IInv, TypeOK, RequestsOK
<1>6. Debts' = [Debts EXCEPT ![q] = Owing(Nil, Nil)]
  <2>1. \A p \in Requests : Debts'[p] = IF p = q THEN Owing(Nil, Nil) ELSE Debts[p]
    BY <1>5 DEF Debts, Running, Idle, Owing
  <2> QED
    BY <2>1 DEF Debts
<1>7. Board' = Board /\ Tuned' = Tuned
  BY SameBoard DEF Emit, desk, Tuned
<1> HIDE DEF r, c, status
<1>8. Debts[q].row = r /\ Debts[q].status = status
  BY <1>2 DEF Owing
<1>9. N!Announce(q)
  BY <1>2, <1>4, <1>6, <1>7, <1>8 DEF N!Announce, N!Nothing, Owing
<1> QED
  BY <1>9 DEF AbstractStep, N!Next

LEMMA ConnectionTunes ==
    ASSUME RInv, NEW s \in Sockets, Connection(s)
    PROVE  AbstractStep
<1>1. socket \in [Sockets -> SocketState] /\ shown \in [Sockets -> [Rows -> Status \cup {Nil}]]
  BY DEF RInv, IInv, TypeOK
<1>2. Board' = Board /\ Debts' = Debts
  BY SameBoard DEF Connection, HandleConnection, HandleJoinTenant, HandleDisconnect, desk,
                   Debts, Running
<1>3. ASSUME NEW c \in Complexes \cup {Nil}, HandleConnection(s, c) PROVE AbstractStep
  <2>1. c \in Complexes /\ Tuned[s] = Nil /\ shown' = shown
    BY <1>3 DEF HandleConnection, Tuned, Offline
  <2>2. Tuned' = [Tuned EXCEPT ![s] = c]
    BY <1>1, <1>3 DEF HandleConnection, Tuned
  <2>3. N!TuneIn(s, c)
    BY <1>2, <2>1, <2>2 DEF N!TuneIn
  <2> QED
    BY <2>1, <2>3 DEF AbstractStep, N!Next
<1>4. ASSUME NEW c \in Complexes \cup {Nil}, HandleJoinTenant(s, c) PROVE AbstractStep
  <2>1. \A t \in Sockets : socket'[t].complex = socket[t].complex
    BY <1>1, <1>4 DEF HandleJoinTenant, SocketState
  <2>2. Tuned' = Tuned /\ shown' = shown
    BY <1>4, <2>1 DEF HandleJoinTenant, Tuned
  <2> QED
    BY <1>2, <2>2 DEF AbstractStep
<1>5. CASE HandleDisconnect(s)
  <2>1. Tuned[s] # Nil
    BY <1>5 DEF HandleDisconnect, Tuned, RInv, IInv, RoomsOK
  <2>2. Tuned' = [Tuned EXCEPT ![s] = Nil]
    BY <1>1, <1>5 DEF HandleDisconnect, Tuned, Offline
  <2>3. shown' = [shown EXCEPT ![s] = N!Silence]
    BY <1>5 DEF HandleDisconnect, Blank, N!Silence
  <2>4. N!TuneOut(s)
    BY <1>2, <2>1, <2>2, <2>3 DEF N!TuneOut
  <2> QED
    BY <2>4 DEF AbstractStep, N!Next
<1> QED
  BY <1>3, <1>4, <1>5 DEF Connection

LEMMA RestartForgives == ASSUME Restart PROVE AbstractStep
<1>1. Debts' = [q \in Requests |-> N!Nothing]
  BY DEF Restart, Debts, Running, Idle, N!Nothing
<1>2. Tuned' = [s \in Sockets |-> Nil] /\ shown' = [s \in Sockets |-> N!Silence]
  BY DEF Restart, Tuned, Offline, Blank, N!Silence
<1>3. Board' = Board
  BY SameBoard DEF Restart, desk
<1>4. N!Restart
  BY <1>1, <1>2, <1>3 DEF N!Restart
<1> QED
  BY <1>4 DEF AbstractStep, N!Next

LEMMA ArriveImplements ==
    ASSUME RInv, NEW q \in Requests, NEW role \in RoleCode, NEW c \in Complexes \cup {Nil},
           Arrive(q, role, c)
    PROVE  AbstractStep
<1>1. ASSUME NEW u \in Users, NEW r \in Rows, RegisterEntry(q, role, c, u, r) PROVE AbstractStep
  <2>1. c \in Complexes /\ "visitor" \in Kind /\ N!First["visitor"] = "active"
    BY <1>1, Kinds, LaterStatuses DEF RegisterEntry, MayRegisterEntry
  <2>2. Debts[q] = Owing(Nil, Nil) /\ Debts' = [Debts EXCEPT ![q] = Owing(r, N!First["visitor"])]
    BY <1>1, <2>1, NewDebt DEF RegisterEntry, Running, RInv
  <2>3. row[r] = Unborn /\ row' = [row EXCEPT ![r] = Row("visitor", c, N!First["visitor"], u)]
    BY <1>1, <2>1 DEF RegisterEntry
  <2>4. UNCHANGED gateway
    BY <1>1 DEF RegisterEntry
  <2> QED
    BY <2>1, <2>2, <2>3, <2>4, Posts DEF RInv
<1>2. ASSUME NEW kind, NEW r, NEW status, ReadToWrite(q, kind, c, r, status) PROVE AbstractStep
  <2> DEFINE n == [Idle EXCEPT !.pc = "write", !.kind = kind, !.complex = c,
                               !.row = r, !.status = status]
  <2>1. n.pc # "emit" /\ request' = [request EXCEPT ![q] = n] /\ request[q].pc # "emit"
    BY <1>2 DEF ReadToWrite, Idle, Running
  <2> HIDE DEF n
  <2>2. Debts' = Debts
    BY <2>1, SameDebts DEF RInv
  <2> QED
    BY <1>2, <2>2, QuietStep DEF ReadToWrite, desk
<1>3. ASSUME NEW kind, NEW u, NEW f, ToInsert(q, kind, c, u, f), UNCHANGED <<row, gateway>>
      PROVE  AbstractStep
  <2> DEFINE n == [Idle EXCEPT !.pc = "insert", !.kind = kind, !.complex = c, !.user = u, !.file = f]
  <2>1. n.pc # "emit" /\ request' = [request EXCEPT ![q] = n] /\ request[q].pc # "emit"
    BY <1>3 DEF ToInsert, Idle, Running
  <2> HIDE DEF n
  <2>2. Debts' = Debts
    BY <2>1, SameDebts DEF RInv
  <2> QED
    BY <1>3, <2>2, QuietStep
<1>4. ASSUME NEW u \in Users, NEW r \in Rows, CreatePost(q, role, c, u, r) PROVE AbstractStep
  <2>1. c \in Complexes /\ "post" \in Kind /\ N!First["post"] = "ACTIVE"
    BY <1>4, Kinds, LaterStatuses DEF CreatePost, MayPublish
  <2>2. Debts' = Debts /\ row[r] = Unborn /\ UNCHANGED gateway
    BY <1>4 DEF CreatePost, Debts, Running
  <2>3. row' = [row EXCEPT ![r] = Row("post", c, N!First["post"], u)]
    BY <1>4, <2>1 DEF CreatePost
  <2> QED
    BY <2>1, <2>2, <2>3, Posts DEF RInv
<1>5. ASSUME NEW u \in Users, NEW r \in Rows, NEW status \in PostStatus,
             UpdatePost(q, role, c, u, r, status)
      PROVE  AbstractStep
  <2>1. row[r].kind = "post" /\ "post" \in Kind /\ N!Later["post"] = PostStatus
    BY <1>5, Kinds, LaterStatuses DEF UpdatePost, Find
  <2>2. Debts' = Debts /\ row' = [row EXCEPT ![r].status = status] /\ UNCHANGED gateway
    BY <1>5 DEF UpdatePost, Debts, Running
  <2> QED
    BY <2>1, <2>2, ChangesRow DEF RInv
<1> QED
  BY <1>1, <1>2, <1>3, <1>4, <1>5
     DEF Arrive, RegisterExit, MarkAsDelivered, UpdateTicket, CreateCorrespondence, CreateTicket

LEMMA ContinueImplements ==
    ASSUME RInv, NEW q \in Requests, Continue(q)
    PROVE  AbstractStep
<1>1. CASE WriteExit(q)
  BY <1>1, WriteChanges, Kinds DEF WriteExit
<1>2. ASSUME NEW r \in Rows, InsertCorrespondence(q, r) PROVE AbstractStep
  BY <1>2, InsertPosts, LaterStatuses DEF InsertCorrespondence
<1>3. CASE WriteDelivery(q)
  BY <1>3, WriteChanges, Kinds DEF WriteDelivery
<1>4. ASSUME NEW r \in Rows, InsertTicket(q, r) PROVE AbstractStep
  BY <1>4, InsertPosts, LaterStatuses DEF InsertTicket
<1>5. CASE WriteTicket(q)
  BY <1>5, WriteChanges, Kinds DEF WriteTicket
<1>6. CASE StatementFails(q)
  <2>1. request' = [request EXCEPT ![q] = Idle] /\ request[q].pc # "emit" /\ Idle.pc # "emit"
    BY <1>6 DEF StatementFails, Finish, Idle
  <2>2. Debts' = Debts
    BY <2>1, SameDebts DEF RInv
  <2> QED
    BY <1>6, <2>2, QuietStep DEF StatementFails, desk
<1> QED
  BY <1>1, <1>2, <1>3, <1>4, <1>5, <1>6, EmitAnnounces DEF Continue

LEMMA StepImplements == RInv /\ [Next]_vars => [N!Next]_<<Board, Debts, Tuned, shown>>
<1> SUFFICES ASSUME RInv, [Next]_vars PROVE AbstractStep
  BY DEF AbstractStep
<1>1. CASE UNCHANGED vars
  BY <1>1, QuietStep DEF vars, gateway, Debts, Running
<1>2. ASSUME NEW u \in Users, RemoveUser(u) PROVE AbstractStep
  BY <1>2, QuietStep DEF RemoveUser, Debts, Running
<1> QED
  BY <1>1, <1>2, ArriveImplements, ContinueImplements, ConnectionTunes, RestartForgives DEF Next

(* Visitors, correspondence and PQRS with the gateway implement            *)
(* Noticeboard: each commit that must be announced owes its announcement,  *)
(* which is made once and to the complex of the row (emitToTenant,         *)
(* notifications.gateway.ts:86), for any number of rows, requests and      *)
(* sockets and in every interleaving.                                      *)
THEOREM Noticed == Spec => ImplementsNoticeboard
<1>1. Init => RInv /\ N!Init
  <2> SUFFICES ASSUME Init PROVE RInv /\ N!Init
    OBVIOUS
  <2>1. RInv
    BY Initially DEF Init, RInv, WritesOK, Idle
  <2>2. N!Init
    BY DEF Init, N!Init, Board, Debts, Tuned, Unborn, Row, Idle, Running, Offline, Blank,
           N!Blank, N!Nothing, N!Silence
  <2> QED
    BY <2>1, <2>2
<1>2. RInv /\ [Next]_vars => RInv'
  BY Step, WritesStep DEF RInv
<1> QED
  BY <1>1, <1>2, StepImplements, PTL DEF Spec, ImplementsNoticeboard, N!Spec, N!notices

=============================================================================
