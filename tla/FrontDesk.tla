------------------------------ MODULE FrontDesk ------------------------------
(***************************************************************************)
(* The daily records of a complex (visitors, correspondence, PQRS tickets, *)
(* marketplace posts), the photos stored for them, and the events that the *)
(* notifications gateway sends to the screens of that complex.             *)
(*                                                                         *)
(* Code: src/visitors, src/correspondence, src/pqrs, src/marketplace       *)
(* (services and controllers), src/notifications/notifications.gateway.ts, *)
(* src/common/guards/permissions.guard.ts, uploadFile of src/storage.      *)
(*                                                                         *)
(* A handler that changes a row reads it (does it exist in the complex of  *)
(* the token, may it change), then writes it by id without looking again,  *)
(* then emits.  Others run between the three.  A row never changes         *)
(* complex.  The update of a post is one action: what it read cannot       *)
(* change (a post that went meanwhile is an error), and nothing follows.   *)
(*                                                                         *)
(* No handler of these modules deletes a row, but the hard delete of a     *)
(* user (src/users/users.service.ts) takes the tickets and posts of that   *)
(* user with it (ON DELETE CASCADE), says so to no screen and leaves the   *)
(* attachments in the bucket.  `row` keeps what such a row last held: the  *)
(* rows that are in their table are those that stand.                      *)
(*                                                                         *)
(* Abstracted: names, documents, texts, prices and times; who delivered;   *)
(* why a user is deleted (Accounts has it), so that any may be.            *)
(* An event reaches a connected socket when it is emitted: socket.io keeps *)
(* the order of one connection, and loses what is in flight with it.       *)
(***************************************************************************)

CONSTANTS
    Complexes,      \* residential complexes, the tenants
    Users,          \* users who register visitors, open tickets, publish posts
    Rows,           \* ids the four tables may ever generate
    Files,          \* objects the bucket may ever hold (uuid keys)
    Requests,       \* slots in which the server runs requests
    Sockets,        \* connections to the gateway
    Nil             \* SQL NULL, undefined, and "no value"

VARIABLES
    row,            \* tables visitors, correspondence, pqrs_tickets, marketplace_posts
    gone,           \* users whose row was deleted
    bucket,         \* the complex under whose prefix each object is stored
    request,        \* what each slot is running, with its local variables
    socket,         \* client.data.user and the rooms of each connection
    shown,          \* the last status each connection was sent of each row
    overlapped,     \* history: rows read while another request was at them
    settledTwice,   \* history: rows whose exit or delivery was written twice
    photoOf,        \* history: the row each object was stored for
    cut             \* history: objects whose request was cut short

vars == <<row, gone, bucket, request, socket, shown, overlapped, settledTwice, photoOf, cut>>
desk == <<row, gone, bucket>>
gateway == <<socket, shown>>
history == <<overlapped, settledTwice, photoOf, cut>>

-----------------------------------------------------------------------------
RoleCode == {"DEV", "ORG_ADMIN", "COMPLEX_ADMIN", "SECURITY", "RESIDENT"}

VisitorStatus == {"active", "closed"}       \* exitTime is null, or is not
ParcelStatus == {"PENDING", "DELIVERED"}
TicketStatus == {"OPEN", "IN_PROGRESS", "RESOLVED", "CLOSED"}
PostStatus == {"ACTIVE", "SOLD", "INACTIVE"}

StatusOf == [visitor |-> VisitorStatus, parcel |-> ParcelStatus,
             ticket |-> TicketStatus, post |-> PostStatus]
Kind == DOMAIN StatusOf
Status == UNION {StatusOf[k] : k \in Kind}
Final == {"closed", "DELIVERED"}

ASSUME NilAssumption ==
    /\ Nil \notin Complexes \cup Users \cup Rows \cup Files
    /\ Nil \notin Kind \cup Status

Row(kind, c, status, u) == [kind |-> kind, complex |-> c, status |-> status, user |-> u]
Unborn == Row(Nil, Nil, Nil, Nil)
RowState == [kind : Kind \cup {Nil}, complex : Complexes \cup {Nil},
             status : Status \cup {Nil}, user : Users \cup {Nil}]

\* At "write" and "emit", status is the one to write, or that was written.
Points == {"idle", "insert", "write", "emit"}
Idle == [pc |-> "idle", kind |-> Nil, complex |-> Nil, user |-> Nil, row |-> Nil,
         status |-> Nil, file |-> Nil]
RequestState == [pc : Points,
                 kind : Kind \cup {Nil},
                 complex : Complexes \cup {Nil},
                 user : Users \cup {Nil},
                 row : Rows \cup {Nil},
                 status : Status \cup {Nil},
                 file : Files \cup {Nil}]

Offline == [complex |-> Nil, rooms |-> {}]
SocketState == [complex : Complexes \cup {Nil}, rooms : SUBSET Complexes]
Blank == [r \in Rows |-> Nil]

RowsOK ==
    /\ row \in [Rows -> RowState]
    /\ \A r \in Rows : row[r] # Unborn =>
          /\ row[r].kind \in Kind
          /\ row[r].complex \in Complexes
          /\ row[r].status \in StatusOf[row[r].kind]
          /\ row[r].kind = "parcel" <=> row[r].user = Nil

RequestsOK ==
    /\ request \in [Requests -> RequestState]
    /\ \A q \in Requests :
          /\ request[q].pc # "idle" => request[q].complex \in Complexes
          /\ request[q].pc = "insert" =>
                /\ request[q].kind \in {"parcel", "ticket"}
                /\ request[q].kind = "parcel" <=> request[q].user = Nil
          /\ request[q].pc \in {"write", "emit"} =>
                /\ request[q].row \in Rows
                /\ row[request[q].row].kind = request[q].kind
                /\ request[q].kind \in Kind
                /\ request[q].status \in StatusOf[request[q].kind]

(* Rows hold what their columns may hold, the status of a row is one of    *)
(* its table, only a parcel has no user, and a request in flight is at a   *)
(* row of the table it handles.                                            *)
TypeOK ==
    /\ RowsOK
    /\ RequestsOK
    /\ gone \subseteq Users
    /\ bucket \in [Files -> Complexes \cup {Nil}]
    /\ socket \in [Sockets -> SocketState]
    /\ shown \in [Sockets -> [Rows -> Status \cup {Nil}]]
    /\ overlapped \subseteq Rows
    /\ settledTwice \subseteq Rows
    /\ photoOf \in [Files -> Rows \cup {Nil}]
    /\ cut \subseteq Files

Init ==
    /\ row = [r \in Rows |-> Unborn]
    /\ gone = {}
    /\ bucket = [f \in Files |-> Nil]
    /\ request = [q \in Requests |-> Idle]
    /\ socket = [s \in Sockets |-> Offline]
    /\ shown = [s \in Sockets |-> Blank]
    /\ overlapped = {}
    /\ settledTwice = {}
    /\ photoOf = [f \in Files |-> Nil]
    /\ cut = {}

-----------------------------------------------------------------------------
(* Who may call what: the guards of the controllers, and the complex that  *)
(* the token must name.                                                    *)

VisitorPermissions == {"visitors:read", "visitors:create", "visitors:authorize",
                       "visitors:check_out"}

\* The seeded role_permissions, of the only module that asks for them.
RolePermissions ==
    [role \in RoleCode |->
        CASE role = "DEV"           -> VisitorPermissions
          [] role = "SECURITY"      -> VisitorPermissions \ {"visitors:authorize"}
          [] role = "COMPLEX_ADMIN" -> {"visitors:read"}
          [] role = "RESIDENT"      -> {"visitors:authorize"}
          [] OTHER                  -> {}]

Granted(role, permission) == permission \in RolePermissions[role]

MayRegisterEntry(role, c) == Granted(role, "visitors:create") /\ c # Nil
MayRegisterExit(role, c) == Granted(role, "visitors:check_out") /\ c # Nil
MayReceive(role, c) == role \in RoleCode \ {"RESIDENT"} /\ c # Nil
MayDeliver(role, c) == role \in RoleCode \ {"RESIDENT"} /\ c # Nil
MayOpenTicket(role, c) == role \in RoleCode \ {"SECURITY"} /\ c # Nil
MayAnswerTicket(role, c) == role \in {"DEV", "ORG_ADMIN", "COMPLEX_ADMIN"} /\ c # Nil
MayPublish(role, c) == role \in RoleCode \ {"SECURITY"} /\ c # Nil
MayEditPost(role, c) == role \in RoleCode \ {"SECURITY"} /\ c # Nil

-----------------------------------------------------------------------------
Running(q, pc) == request[q].pc = pc
Finish(q) == request' = [request EXCEPT ![q] = Idle]

\* A handler emits the row its statement returned, once the statement is done.
ToEmit(q, kind, c, r, status) ==
    request' = [request EXCEPT ![q] = [Idle EXCEPT !.pc = "emit", !.kind = kind, !.complex = c,
                                                   !.row = r, !.status = status]]

\* The row is still in its table: it did not go with its user.
Stands(r) == row[r].user \notin gone

\* Mutated form: found by id alone.
FindAnywhere(kind, c, r) == Stands(r) /\ row[r].kind = kind

\* findFirst({ id, residentialComplexId })
Find(kind, c, r) == Stands(r) /\ row[r].kind = kind /\ row[r].complex = c

AtRow(q, r) == request[q].pc \in {"write", "emit"} /\ request[q].row = r

\* The read of row r that lets request q go on to write `status`.
ReadToWrite(q, kind, c, r, status) ==
    /\ Running(q, "idle")
    /\ Find(kind, c, r)
    /\ request' = [request EXCEPT ![q] = [Idle EXCEPT !.pc = "write", !.kind = kind, !.complex = c,
                                                      !.row = r, !.status = status]]
    /\ overlapped' = IF \E p \in Requests : AtRow(p, r) THEN overlapped \cup {r} ELSE overlapped
    /\ UNCHANGED <<desk, gateway, settledTwice, photoOf, cut>>

\* The write by id, unconditional but for the row being there (P2025 if not).
WriteRow(q, kind) ==
    LET r == request[q].row
    IN  /\ Running(q, "write")
        /\ request[q].kind = kind
        /\ Stands(r)
        /\ row' = [row EXCEPT ![r].status = request[q].status]
        /\ settledTwice' = IF row[r].status \in Final THEN settledTwice \cup {r} ELSE settledTwice
        /\ UNCHANGED <<gone, bucket, gateway, overlapped, photoOf, cut>>

-----------------------------------------------------------------------------
(* visitors                                                                *)

\* The user of a token that outlives its user is refused by the foreign key.
RegisterEntry(q, role, c, u, r) ==
    /\ Running(q, "idle")
    /\ MayRegisterEntry(role, c)
    /\ u \notin gone
    /\ row[r] = Unborn
    /\ row' = [row EXCEPT ![r] = Row("visitor", c, "active", u)]
    /\ ToEmit(q, "visitor", c, r, "active")
    /\ UNCHANGED <<gone, bucket, gateway, history>>

\* Mutated form: an exit that was registered before is not refused.
RegisterExitAgain(q, role, c, r) ==
    /\ MayRegisterExit(role, c)
    /\ ReadToWrite(q, "visitor", c, r, "closed")

RegisterExit(q, role, c, r) ==
    /\ MayRegisterExit(role, c)
    /\ row[r].status # "closed"
    /\ ReadToWrite(q, "visitor", c, r, "closed")

\* Mutated form: the payload of the entry is emitted.
WriteExitAsEntry(q) ==
    /\ WriteRow(q, "visitor")
    /\ ToEmit(q, "visitor", request[q].complex, request[q].row, "active")

\* Mutated form: the exit is recorded and nobody is told.
WriteExitInSilence(q) == WriteRow(q, "visitor") /\ Finish(q)

WriteExit(q) ==
    /\ WriteRow(q, "visitor")
    /\ ToEmit(q, "visitor", request[q].complex, request[q].row, request[q].status)

-----------------------------------------------------------------------------
(* correspondence: the photo is stored before the row, which keeps no      *)
(* trace of it.  A delivery is not announced.                              *)

\* storage.uploadFile: a new key under the prefix of the complex.
UploadFile(c, f) ==
    IF f = Nil THEN UNCHANGED bucket
    ELSE bucket[f] = Nil /\ bucket' = [bucket EXCEPT ![f] = c]

ToInsert(q, kind, c, u, f) ==
    /\ Running(q, "idle")
    /\ request' = [request EXCEPT ![q] = [Idle EXCEPT !.pc = "insert", !.kind = kind,
                                                      !.complex = c, !.user = u, !.file = f]]

Insert(q, kind, status, r) ==
    LET p == request[q]
    IN  /\ Running(q, "insert")
        /\ p.kind = kind
        /\ p.user \notin gone
        /\ row[r] = Unborn
        /\ row' = [row EXCEPT ![r] = Row(kind, p.complex, status, p.user)]
        /\ photoOf' = IF p.file = Nil THEN photoOf ELSE [photoOf EXCEPT ![p.file] = r]
        /\ UNCHANGED <<gone, bucket, gateway, overlapped, settledTwice, cut>>

\* Mutated form: the photo is stored before the role is looked at.
CreateCorrespondencePhotoFirst(q, role, c, f) ==
    /\ c # Nil
    /\ UploadFile(c, f)
    /\ IF MayReceive(role, c) THEN ToInsert(q, "parcel", c, Nil, f) ELSE UNCHANGED request
    /\ UNCHANGED <<row, gone, gateway, history>>

CreateCorrespondence(q, role, c, f) ==
    /\ MayReceive(role, c)
    /\ UploadFile(c, f)
    /\ ToInsert(q, "parcel", c, Nil, f)
    /\ UNCHANGED <<row, gone, gateway, history>>

InsertCorrespondence(q, r) ==
    /\ Insert(q, "parcel", "PENDING", r)
    /\ ToEmit(q, "parcel", request[q].complex, r, "PENDING")

MarkAsDelivered(q, role, c, r) ==
    /\ MayDeliver(role, c)
    /\ row[r].status # "DELIVERED"
    /\ ReadToWrite(q, "parcel", c, r, "DELIVERED")

WriteDelivery(q) == WriteRow(q, "parcel") /\ Finish(q)

-----------------------------------------------------------------------------
(* pqrs: a new ticket is not announced, every change of status is.         *)

CreateTicket(q, role, c, u, f) ==
    /\ MayOpenTicket(role, c)
    /\ UploadFile(c, f)
    /\ ToInsert(q, "ticket", c, u, f)
    /\ UNCHANGED <<row, gone, gateway, history>>

\* Mutated form: the status of another table.
InsertTicketAsPending(q, r) == Insert(q, "ticket", "PENDING", r) /\ Finish(q)

InsertTicket(q, r) == Insert(q, "ticket", "OPEN", r) /\ Finish(q)

UpdateTicket(q, role, c, r, status) ==
    /\ MayAnswerTicket(role, c)
    /\ ReadToWrite(q, "ticket", c, r, status)

WriteTicket(q) ==
    /\ WriteRow(q, "ticket")
    /\ ToEmit(q, "ticket", request[q].complex, request[q].row, request[q].status)

-----------------------------------------------------------------------------
(* marketplace                                                             *)

CreatePost(q, role, c, u, r) ==
    /\ Running(q, "idle")
    /\ MayPublish(role, c)
    /\ u \notin gone
    /\ row[r] = Unborn
    /\ row' = [row EXCEPT ![r] = Row("post", c, "ACTIVE", u)]
    /\ UNCHANGED <<gone, bucket, request, gateway, history>>

UpdatePost(q, role, c, u, r, status) ==
    /\ Running(q, "idle")
    /\ MayEditPost(role, c)
    /\ Find("post", c, r)
    /\ role \in {"DEV", "ORG_ADMIN", "COMPLEX_ADMIN"} \/ row[r].user = u
    /\ row' = [row EXCEPT ![r].status = status]
    /\ UNCHANGED <<gone, bucket, request, gateway, history>>

-----------------------------------------------------------------------------
(* The hard delete of a user takes the user's tickets and posts along,     *)
(* while visitors, which name who registered them, refuse it (RESTRICT).   *)
RemoveUser(u) ==
    /\ u \notin gone
    /\ \A r \in Rows : row[r].kind = "visitor" => row[r].user # u
    /\ gone' = gone \cup {u}
    /\ UNCHANGED <<row, bucket, request, gateway, history>>

-----------------------------------------------------------------------------
(* The gateway.                                                            *)

\* Mutated form: the room is left to join-tenant.
HandleConnectionWithoutJoin(s, c) ==
    /\ socket[s] = Offline
    /\ c # Nil
    /\ socket' = [socket EXCEPT ![s] = [complex |-> c, rooms |-> {}]]
    /\ UNCHANGED <<desk, request, shown, history>>

\* A token that verifies and names a complex puts the socket in its room.
HandleConnection(s, c) ==
    /\ socket[s] = Offline
    /\ c # Nil
    /\ socket' = [socket EXCEPT ![s] = [complex |-> c, rooms |-> {c}]]
    /\ UNCHANGED <<desk, request, shown, history>>

\* Without a complex in the message, the one of the token is meant.
HandleJoinTenant(s, asked) ==
    /\ socket[s] # Offline
    /\ asked \in {Nil, socket[s].complex}
    /\ socket' = [socket EXCEPT ![s].rooms = @ \cup {socket[s].complex}]
    /\ UNCHANGED <<desk, request, shown, history>>

HandleDisconnect(s) ==
    /\ socket[s] # Offline
    /\ socket' = [socket EXCEPT ![s] = Offline]
    /\ shown' = [shown EXCEPT ![s] = Blank]
    /\ UNCHANGED <<desk, request, history>>

InRoom(s, c) == c \in socket[s].rooms

\* server.to(roomForComplex(complex)).emit(event, row)
Emit(q) ==
    /\ Running(q, "emit")
    /\ shown' = [s \in Sockets |->
                    IF InRoom(s, request[q].complex)
                    THEN [shown[s] EXCEPT ![request[q].row] = request[q].status]
                    ELSE shown[s]]
    /\ Finish(q)
    /\ UNCHANGED <<desk, socket, history>>

-----------------------------------------------------------------------------
(* Failures.                                                               *)

\* The database refuses a statement; a stored object stays where it is.
StatementFails(q) ==
    /\ request[q].pc \in {"insert", "write"}
    /\ cut' = cut \cup ({request[q].file} \ {Nil})
    /\ Finish(q)
    /\ UNCHANGED <<desk, gateway, overlapped, settledTwice, photoOf>>

\* The process restarts: requests and connections are gone.
Restart ==
    /\ cut' = cut \cup ({request[q].file : q \in Requests} \ {Nil})
    /\ request' = [q \in Requests |-> Idle]
    /\ socket' = [s \in Sockets |-> Offline]
    /\ shown' = [s \in Sockets |-> Blank]
    /\ UNCHANGED <<desk, overlapped, settledTwice, photoOf>>

-----------------------------------------------------------------------------
Arrive(q, role, c) ==
    \/ \E u \in Users, r \in Rows : RegisterEntry(q, role, c, u, r)
    \/ \E r \in Rows : RegisterExit(q, role, c, r)
    \/ \E f \in Files \cup {Nil} : CreateCorrespondence(q, role, c, f)
    \/ \E r \in Rows : MarkAsDelivered(q, role, c, r)
    \/ \E u \in Users, f \in Files \cup {Nil} : CreateTicket(q, role, c, u, f)
    \/ \E r \in Rows, status \in TicketStatus : UpdateTicket(q, role, c, r, status)
    \/ \E u \in Users, r \in Rows : CreatePost(q, role, c, u, r)
    \/ \E u \in Users, r \in Rows, status \in PostStatus : UpdatePost(q, role, c, u, r, status)

Continue(q) ==
    \/ WriteExit(q)
    \/ \E r \in Rows : InsertCorrespondence(q, r)
    \/ WriteDelivery(q)
    \/ \E r \in Rows : InsertTicket(q, r)
    \/ WriteTicket(q)
    \/ Emit(q)
    \/ StatementFails(q)

Connection(s) ==
    \/ \E c \in Complexes \cup {Nil} : HandleConnection(s, c)
    \/ \E c \in Complexes \cup {Nil} : HandleJoinTenant(s, c)
    \/ HandleDisconnect(s)

Next ==
    \/ \E q \in Requests, role \in RoleCode, c \in Complexes \cup {Nil} : Arrive(q, role, c)
    \/ \E q \in Requests : Continue(q)
    \/ \E s \in Sockets : Connection(s)
    \/ \E u \in Users : RemoveUser(u)
    \/ Restart

Spec == Init /\ [][Next]_vars

\* The event loop resumes a handler whose statement has returned; nothing makes
\* requests arrive, sockets connect or the process restart.
LiveSpec == Spec /\ \A q \in Requests : WF_vars(Emit(q))

-----------------------------------------------------------------------------
(* "La correspondencia ya ha sido entregada previamente", "ya registra un  *)
(* horario de salida previo": an exit or a delivery is recorded over       *)
(* another one only when a request read the row while another was at it.   *)
SecondExitsAreExplained == settledTwice \subseteq overlapped

(* What a screen was last told of a visitor or a ticket is what the        *)
(* database says, once the events about it are out, unless requests about  *)
(* that row overlapped: events of successive changes never arrive in       *)
(* another order, whatever reconnections and restarts happen meanwhile.    *)
(* A ticket that went with its user is not there to be compared with: no   *)
(* event tells the screens, which go on showing it.                        *)
Announced(r) == \A q \in Requests : ~ (request[q].pc = "emit" /\ request[q].row = r)

ScreensAreCurrent ==
    \A s \in Sockets, r \in Rows :
        /\ shown[s][r] # Nil
        /\ row[r].kind \in {"visitor", "ticket"}
        /\ Stands(r)
        /\ Announced(r)
        /\ r \notin overlapped
        => shown[s][r] = row[r].status

(* Tenants are isolated end to end: a connection only ever learns of rows  *)
(* of the complex in its token, a request in flight only touches rows of   *)
(* its complex, and the photo of a row is stored under that complex.       *)
TenantsAreIsolated ==
    /\ \A s \in Sockets, r \in Rows : shown[s][r] # Nil => row[r].complex = socket[s].complex
    /\ \A q \in Requests : request[q].pc \in {"write", "emit"} =>
          row[request[q].row].complex = request[q].complex
    /\ \A f \in Files : photoOf[f] # Nil => bucket[f] = row[photoOf[f]].complex

\* f was attached to a ticket that was deleted with its user.
LeftByDeletedTicket(f) ==
    /\ photoOf[f] # Nil
    /\ row[photoOf[f]].kind = "ticket"
    /\ ~ Stands(photoOf[f])

(* A stored photo or attachment was stored for a row that is still in its  *)
(* table, or for a request that is still going to insert one.  Objects are *)
(* orphaned in two ways only, as no handler deletes an object: a failure   *)
(* cut the request short after the upload, or the ticket went when its     *)
(* user was deleted for good (never the photo of a parcel).                *)
OrphansAreExplained ==
    \A f \in Files : bucket[f] # Nil =>
        \/ photoOf[f] # Nil /\ Stands(photoOf[f])
        \/ \E q \in Requests : request[q].file = f
        \/ f \in cut
        \/ LeftByDeletedTicket(f)

(* Nobody who is watching misses an arrival or an exit: once a parcel or   *)
(* the exit of a visitor is committed, every connection of that complex is *)
(* told, or goes away (a restart takes all of them).                       *)
Owed(r, status) ==
    \E q \in Requests : request[q].pc = "emit" /\ request[q].row = r /\ request[q].status = status

EventsAreDelivered ==
    \A s \in Sockets, r \in Rows, status \in {"PENDING", "closed"} :
        Owed(r, status) /\ socket[s].complex = row[r].complex
            ~> (shown[s][r] = status \/ socket[s] = Offline)

(* The front desk implements Noticeboard: an announcement is in debt from  *)
(* the statement that commits the row until its handler emits, and a       *)
(* screen watches the complex of its token from connection on.  The board  *)
(* keeps what it said of rows that went with their user.                   *)
Board == [r \in Rows |-> [kind |-> row[r].kind, complex |-> row[r].complex,
                          status |-> row[r].status]]
Debts == [q \in Requests |-> IF Running(q, "emit")
                             THEN [row |-> request[q].row, status |-> request[q].status]
                             ELSE [row |-> Nil, status |-> Nil]]
Tuned == [s \in Sockets |-> socket[s].complex]

N == INSTANCE Noticeboard WITH
        Slots <- Requests, Screens <- Sockets,
        board <- Board, owed <- Debts, tuned <- Tuned, told <- shown

(* No commit that must be announced goes without its announcement, and no  *)
(* announcement goes out twice, to another complex or past a screen of its *)
(* complex, however the handlers interleave.                               *)
ImplementsNoticeboard == N!Spec

-----------------------------------------------------------------------------
(* The inductive invariant: what makes the properties hold step by step.   *)

\* Two requests at one row at once is what `overlapped` records.
OverlapsRecorded ==
    \A p, q \in Requests, r \in Rows : p # q /\ AtRow(p, r) /\ AtRow(q, r) => r \in overlapped

\* What a request at a row read, or wrote, is still there if it was alone.
RequestsAreCurrent ==
    \A q \in Requests : request[q].pc \in {"write", "emit"} /\ request[q].row \notin overlapped =>
        /\ Running(q, "write") => row[request[q].row].status \notin Final
        /\ Running(q, "emit") /\ request[q].kind \in {"visitor", "ticket"} =>
              row[request[q].row].status = request[q].status

RoomsOK ==
    \A s \in Sockets :
        IF socket[s] = Offline THEN shown[s] = Blank
        ELSE socket[s].complex # Nil /\ socket[s].rooms = {socket[s].complex}

FilesOK ==
    /\ \A q \in Requests : request[q].file # Nil =>
          Running(q, "insert") /\ bucket[request[q].file] = request[q].complex
    /\ \A f \in Files : photoOf[f] # Nil => row[photoOf[f]].kind \in {"parcel", "ticket"}

IInv ==
    /\ TypeOK
    /\ OverlapsRecorded
    /\ RequestsAreCurrent
    /\ RoomsOK
    /\ FilesOK
    /\ SecondExitsAreExplained
    /\ ScreensAreCurrent
    /\ TenantsAreIsolated
    /\ OrphansAreExplained

=============================================================================
