-------------------------- MODULE FrontDeskProofs --------------------------
(* Proofs about FrontDesk: its types, that second exits and stale screens   *)
(* come from requests that overlapped, that complexes are isolated and that *)
(* orphan files are explained, for any number of rows, requests, sockets    *)
(* and complexes.                                                           *)
EXTENDS FrontDesk, TLAPS

\* What the invariant asks of a request whose local variables are s.
Typical(s) ==
    /\ s \in RequestState
    /\ s.pc # "idle" => s.complex \in Complexes
    /\ s.pc = "insert" => /\ s.kind \in {"parcel", "ticket"}
                          /\ s.kind = "parcel" <=> s.user = Nil
    /\ s.pc \in {"write", "emit"} =>
          /\ s.row \in Rows
          /\ row[s.row].kind = s.kind
          /\ s.kind \in Kind
          /\ s.status \in StatusOf[s.kind]
          /\ row[s.row].complex = s.complex
    /\ s.file # Nil => s.pc = "insert" /\ bucket[s.file] = s.complex

Current(s) ==
    s.pc \in {"write", "emit"} /\ s.row \notin overlapped =>
        /\ s.pc = "write" => row[s.row].status \notin Final
        /\ s.pc = "emit" /\ s.kind \in {"visitor", "ticket"} => row[s.row].status = s.status

Requesting ==
    /\ request \in [Requests -> RequestState]
    /\ \A q \in Requests : Typical(request[q]) /\ Current(request[q])
    /\ OverlapsRecorded

\* What it asks of the tables, the bucket and their history.
Filed ==
    /\ RowsOK
    /\ gone \subseteq Users
    /\ bucket \in [Files -> Complexes \cup {Nil}]
    /\ photoOf \in [Files -> Rows \cup {Nil}]
    /\ \A f \in Files : photoOf[f] # Nil =>
          /\ row[photoOf[f]].kind \in {"parcel", "ticket"}
          /\ bucket[f] = row[photoOf[f]].complex
    /\ overlapped \subseteq Rows
    /\ settledTwice \subseteq overlapped
    /\ cut \subseteq Files

\* What it asks of the connections.
Watching ==
    /\ socket \in [Sockets -> SocketState]
    /\ shown \in [Sockets -> [Rows -> Status \cup {Nil}]]
    /\ RoomsOK
    /\ \A s \in Sockets, r \in Rows : shown[s][r] # Nil => row[r].complex = socket[s].complex

\* Every stored object is accounted for.
Traced ==
    \A f \in Files : bucket[f] # Nil =>
        \/ photoOf[f] # Nil
        \/ \E q \in Requests : request[q].file = f
        \/ f \in cut

\* A row that has a file is a parcel, which no user takes along, or a ticket.
LEMMA TracedIsExplained == Filed => (OrphansAreExplained <=> Traced)
<1> SUFFICES ASSUME Filed PROVE OrphansAreExplained <=> Traced
  OBVIOUS
<1>1. ASSUME NEW f \in Files, photoOf[f] # Nil
      PROVE  Stands(photoOf[f]) \/ LeftByDeletedTicket(f)
  <2>1. photoOf[f] \in Rows /\ row[photoOf[f]].kind \in {"parcel", "ticket"}
    BY <1>1 DEF Filed
  <2>2. row[photoOf[f]].kind = "parcel" => row[photoOf[f]].user = Nil
    <3>1. row[photoOf[f]] # Unborn
      BY <2>1, NilAssumption DEF Unborn, Row, Kind, StatusOf
    <3> QED
      BY <2>1, <3>1 DEF Filed, RowsOK
  <2> QED
    BY <1>1, <2>1, <2>2, NilAssumption DEF Filed, Stands, LeftByDeletedTicket
<1> QED
  BY <1>1 DEF OrphansAreExplained, Traced, LeftByDeletedTicket

LEMMA IInvParts ==
    IInv <=> Filed /\ Watching /\ Requesting /\ ScreensAreCurrent /\ Traced
BY TracedIsExplained
   DEF IInv, Filed, Watching, Requesting, TypeOK, RequestsOK, RequestsAreCurrent, FilesOK,
       SecondExitsAreExplained, TenantsAreIsolated, Typical, Current, Running

LEMMA IdleFits == /\ Idle \in RequestState /\ Idle.pc = "idle" /\ Idle.file = Nil
                  /\ Typical(Idle) /\ Current(Idle)
BY DEF Idle, Typical, Current, RequestState, Points

LEMMA Kinds ==
    /\ Kind = {"visitor", "parcel", "ticket", "post"}
    /\ StatusOf["visitor"] = VisitorStatus /\ StatusOf["parcel"] = ParcelStatus
    /\ StatusOf["ticket"] = TicketStatus /\ StatusOf["post"] = PostStatus
    /\ \A k \in Kind : StatusOf[k] \subseteq Status
<1>1. Kind = {"visitor", "parcel", "ticket", "post"}
  BY DEF Kind, StatusOf
<1>2. /\ StatusOf["visitor"] = VisitorStatus /\ StatusOf["parcel"] = ParcelStatus
      /\ StatusOf["ticket"] = TicketStatus /\ StatusOf["post"] = PostStatus
  BY DEF StatusOf
<1>3. \A k \in Kind : StatusOf[k] \subseteq Status
  BY DEF Status
<1> QED
  BY <1>1, <1>2, <1>3

\* A row that was created is of a table, of a complex, and not yet to be created.
LEMMA Born ==
    ASSUME RowsOK, NEW r \in Rows
    PROVE  /\ row[r] \in RowState
           /\ row[r] # Unborn <=> row[r].kind \in Kind
           /\ row[r] # Unborn <=> row[r].complex # Nil
           /\ row[r] # Unborn => row[r].status \in StatusOf[row[r].kind]
<1>1. Unborn.kind = Nil /\ Unborn.complex = Nil
  BY DEF Unborn, Row
<1> QED
  BY <1>1, NilAssumption DEF RowsOK

LEMMA Initially == Init => IInv
<1> SUFFICES ASSUME Init PROVE IInv
  OBVIOUS
<1>1. Unborn \in RowState /\ Offline \in SocketState /\ Blank \in [Rows -> Status \cup {Nil}]
  BY DEF Unborn, Row, RowState, Offline, SocketState, Blank
<1>2. Filed
  BY <1>1 DEF Init, Filed, RowsOK
<1>3. Watching
  BY <1>1 DEF Init, Watching, RoomsOK, Blank
<1>4. Requesting
  BY IdleFits DEF Init, Requesting, OverlapsRecorded, AtRow
<1>5. ScreensAreCurrent
  BY DEF Init, ScreensAreCurrent, Blank
<1>6. Traced
  BY DEF Init, Traced
<1> QED
  BY <1>2, <1>3, <1>4, <1>5, <1>6, IInvParts

-----------------------------------------------------------------------------
(* What is kept by the requests and screens that a step is not about.       *)

\* Created rows stay where they are; stored objects too.
Kept ==
    /\ \A r \in Rows : row[r] # Unborn => /\ row'[r].kind = row[r].kind
                                          /\ row'[r].complex = row[r].complex
    /\ \A f \in Files : bucket[f] # Nil => bucket'[f] = bucket[f]
    /\ overlapped \subseteq overlapped'

LEMMA RequestGoesOn ==
    ASSUME Filed, Requesting, Kept, NEW p \in Requests, request'[p] = request[p],
           request[p].pc \in {"write", "emit"} =>
              \/ row'[request[p].row] = row[request[p].row]
              \/ request[p].row \in overlapped'
              \/ request[p].kind = "post" /\ row'[request[p].row].status \in PostStatus
    PROVE  (Typical(request[p]))' /\ (Current(request[p]))'
<1> DEFINE s == request[p]
<1>1. Typical(s) /\ Current(s) /\ s \in RequestState
  BY DEF Requesting, Typical
<1>2. s.pc \in {"write", "emit"} => s.row \in Rows /\ row[s.row] # Unborn
  BY <1>1, Born DEF Filed, Typical
<1>3. s.file # Nil => s.file \in Files /\ bucket[s.file] # Nil
  BY <1>1, NilAssumption DEF Typical, RequestState
<1>4. (Typical(request[p]))'
  BY <1>1, <1>2, <1>3 DEF Typical, Kept
<1>5. (Current(request[p]))'
  <2>1. CASE request[p].kind = "post" /\ row'[request[p].row].status \in PostStatus
    BY <1>1, <2>1 DEF Current, Kept, PostStatus, Final
  <2>2. CASE request[p].row \in overlapped'
    BY <2>2 DEF Current
  <2>3. CASE row'[request[p].row] = row[request[p].row]
    BY <1>1, <2>3 DEF Current, Kept
  <2> QED
    BY <1>1, <2>1, <2>2, <2>3 DEF Current
<1> QED
  BY <1>4, <1>5

LEMMA RequestingStep ==
    ASSUME Filed, Requesting, Kept, NEW q \in Requests, NEW n \in RequestState,
           request' = [request EXCEPT ![q] = n],
           n.pc \in {"idle", "insert"}
              \/ (\A p \in Requests : p # q /\ AtRow(p, n.row) => n.row \in overlapped'),
           (request'[q] = n) => (Typical(request[q]))' /\ (Current(request[q]))',
           \A p \in Requests \ {q} : request[p].pc \in {"write", "emit"} =>
              \/ row'[request[p].row] = row[request[p].row]
              \/ request[p].row \in overlapped'
              \/ request[p].kind = "post" /\ row'[request[p].row].status \in PostStatus
    PROVE  Requesting'
<1>1. /\ request' \in [Requests -> RequestState]
      /\ \A p \in Requests : request'[p] = IF p = q THEN n ELSE request[p]
  BY DEF Requesting
<1>2. \A p \in Requests \ {q} : (Typical(request[p]))' /\ (Current(request[p]))'
  BY <1>1, RequestGoesOn
<1>3. OverlapsRecorded'
  BY <1>1 DEF Requesting, OverlapsRecorded, AtRow, Kept
<1> QED
  BY <1>1, <1>2, <1>3 DEF Requesting

\* A screen is still right about the rows that did not change, as long as no
\* event about them is taken back.
LEMMA ScreensStay ==
    ASSUME ScreensAreCurrent, UNCHANGED shown, overlapped \subseteq overlapped', gone \subseteq gone',
           \A s \in Sockets, r \in Rows :
              shown[s][r] # Nil /\ r \notin overlapped' =>
                 \/ row'[r] = row[r] /\ (Announced(r)' => Announced(r))
                 \/ row'[r].kind \in {"parcel", "post"}
                 \/ ~ Announced(r)'
    PROVE  ScreensAreCurrent'
BY DEF ScreensAreCurrent, Stands

\* A stored object stays explained.
LEMMA OrphansStay ==
    ASSUME Traced, cut \subseteq cut',
           \A f \in Files :
              /\ bucket'[f] # Nil => bucket[f] # Nil \/ \E q \in Requests : request'[q].file = f
              /\ photoOf[f] # Nil => photoOf'[f] # Nil,
           \A p \in Requests : request[p].file \in Files =>
              \/ request'[p].file = request[p].file
              \/ photoOf'[request[p].file] # Nil
              \/ request[p].file \in cut'
    PROVE  Traced'
BY DEF Traced

\* Only created rows are shown, and only to connections of their complex.
LEMMA ShownRows ==
    ASSUME Filed, Watching, NEW s \in Sockets, NEW r \in Rows, shown[s][r] # Nil
    PROVE  socket[s] # Offline /\ row[r] # Unborn
<1>1. socket[s] # Offline
  BY DEF Watching, RoomsOK, Blank
<1>2. row[r].complex # Nil
  BY <1>1 DEF Watching, RoomsOK
<1> QED
  BY <1>1, <1>2, Born DEF Filed

LEMMA WatchingStays ==
    ASSUME Filed, Watching, Kept, UNCHANGED <<socket, shown>>
    PROVE  Watching'
<1>1. \A s \in Sockets, r \in Rows : shown'[s][r] # Nil => row'[r].complex = socket'[s].complex
  BY ShownRows DEF Watching, Kept
<1> QED
  BY <1>1 DEF Watching, RoomsOK

\* The parts of the invariant together, for the next state.
LEMMA Together ==
    ASSUME Filed', Watching', Requesting', ScreensAreCurrent', Traced'
    PROVE  IInv'
<1>1. (Filed /\ Watching /\ Requesting /\ ScreensAreCurrent /\ Traced => IInv)'
  BY IInvParts, PTL
<1> QED
  BY <1>1

-----------------------------------------------------------------------------
(* Reads.                                                                  *)
LEMMA ReadStep ==
    ASSUME IInv, NEW q \in Requests, NEW kind \in Kind, NEW c \in Complexes, NEW r \in Rows,
           NEW status \in StatusOf[kind], row[r].status \notin Final,
           ReadToWrite(q, kind, c, r, status)
    PROVE  IInv'
<1> DEFINE n == [Idle EXCEPT !.pc = "write", !.kind = kind, !.complex = c,
                             !.row = r, !.status = status]
<1>1. Filed /\ Watching /\ Requesting /\ ScreensAreCurrent /\ Traced
  BY IInvParts
<1>2. /\ row[r].kind = kind /\ row[r].complex = c /\ request[q].pc = "idle"
      /\ request' = [request EXCEPT ![q] = n]
      /\ UNCHANGED <<row, gone, bucket, socket, shown, settledTwice, photoOf, cut>>
  BY DEF ReadToWrite, Running, Find, desk, gateway
<1>3. /\ n \in RequestState /\ n.pc = "write" /\ n.kind = kind /\ n.complex = c
      /\ n.row = r /\ n.status = status /\ n.file = Nil
  BY Kinds DEF Idle, RequestState, Points
<1>4. /\ overlapped \subseteq overlapped' /\ overlapped' \subseteq Rows
      /\ \A p \in Requests : AtRow(p, r) => r \in overlapped'
  BY <1>1 DEF ReadToWrite, Filed
<1>5. Kept
  BY <1>2, <1>4 DEF Kept
<1>6. Filed'
  BY <1>1, <1>2, <1>4 DEF Filed, RowsOK
<1>7. Watching'
  BY <1>1, <1>2, <1>5, WatchingStays
<1>8. request'[q] = n => (Typical(request[q]))' /\ (Current(request[q]))'
  BY <1>2, <1>3 DEF Typical, Current
<1>9. Requesting'
  <2>1. \A p \in Requests : p # q /\ AtRow(p, n.row) => n.row \in overlapped'
    BY <1>3, <1>4
  <2>2. \A p \in Requests \ {q} : row'[request[p].row] = row[request[p].row]
    BY <1>2
  <2>3. request' = [request EXCEPT ![q] = n] /\ n \in RequestState
    BY <1>2, <1>3
  <2> HIDE DEF n
  <2> QED
    BY <1>1, <1>5, <1>8, <2>1, <2>2, <2>3, RequestingStep
<1>10. \A p \in Requests : request'[p] = IF p = q THEN n ELSE request[p]
  BY <1>1, <1>2 DEF Requesting
<1>11. ScreensAreCurrent'
  BY <1>1, <1>2, <1>3, <1>4, <1>10, ScreensStay DEF Announced
<1>12. request[q].file = Nil
  BY <1>1, <1>2 DEF Requesting, Typical
<1>13. Traced'
  BY <1>1, <1>2, <1>10, <1>12, NilAssumption, OrphansStay
<1> QED
  BY <1>6, <1>7, <1>9, <1>11, <1>13, Together

-----------------------------------------------------------------------------
(* Writes by id.                                                           *)
LEMMA WriteStep ==
    ASSUME IInv, NEW q \in Requests, NEW kind \in Kind, WriteRow(q, kind),
           NEW n \in RequestState, request' = [request EXCEPT ![q] = n],
           \/ n = Idle /\ kind = "parcel"
           \/ /\ n.pc = "emit" /\ n.kind = kind /\ n.complex = request[q].complex
              /\ n.row = request[q].row /\ n.status = request[q].status /\ n.file = Nil
    PROVE  IInv'
<1> DEFINE p == request[q]
           r == p.row
           new == [row[r] EXCEPT !.status = p.status]
<1>1. Filed /\ Watching /\ Requesting /\ ScreensAreCurrent /\ Traced
  BY IInvParts
<1>2. /\ p \in RequestState /\ p.pc = "write" /\ p.kind = kind /\ r \in Rows /\ p.file = Nil
      /\ row[r].kind = kind /\ row[r].complex = p.complex /\ p.complex \in Complexes
      /\ p.status \in StatusOf[kind] /\ p.status \in Status
  BY <1>1, Kinds DEF WriteRow, Running, Requesting, Typical
<1>3. row[r] \in RowState /\ row[r] # Unborn
  BY <1>1, <1>2, Born DEF Filed
<1>4. /\ new \in RowState /\ new.kind = kind /\ new.complex = p.complex /\ new.status = p.status
      /\ new.user = row[r].user
  BY <1>2, <1>3 DEF RowState
<1>5. /\ row' = [row EXCEPT ![r] = new]
      /\ UNCHANGED <<gone, bucket, socket, shown, overlapped, photoOf, cut>>
  BY <1>3 DEF WriteRow, gateway, RowState
<1>6. \A t \in Rows : row'[t] = IF t = r THEN new ELSE row[t]
  BY <1>1, <1>5 DEF Filed, RowsOK
<1>7. Kept
  BY <1>2, <1>4, <1>5, <1>6 DEF Kept
<1>8. settledTwice' \subseteq overlapped'
  <2>1. row[r].status \in Final => r \in overlapped
    BY <1>1, <1>2 DEF Requesting, Current
  <2> QED
    BY <1>1, <1>5, <2>1 DEF WriteRow, Filed
<1>9. new # Unborn
  BY <1>2, <1>4, NilAssumption DEF Unborn, Row
<1>10. Filed'
  <2>1. RowsOK'
    <3>1. new.kind = "parcel" <=> new.user = Nil
      BY <1>1, <1>2, <1>3, <1>4 DEF Filed, RowsOK
    <3>2. row' \in [Rows -> RowState]
      BY <1>1, <1>4, <1>5 DEF Filed, RowsOK
    <3> HIDE DEF new
    <3> QED
      BY <1>1, <1>2, <1>4, <1>6, <3>1, <3>2 DEF Filed, RowsOK
  <2>2. \A f \in Files : photoOf'[f] # Nil =>
           /\ row'[photoOf'[f]].kind \in {"parcel", "ticket"}
           /\ bucket'[f] = row'[photoOf'[f]].complex
    BY <1>1, <1>2, <1>4, <1>5, <1>6, <1>9 DEF Filed
  <2> QED
    BY <1>1, <1>5, <1>8, <2>1, <2>2 DEF Filed
<1>11. Watching'
  BY <1>1, <1>5, <1>7, WatchingStays
<1>12. \A t \in Requests : t # q /\ AtRow(t, r) => r \in overlapped
  BY <1>1, <1>2 DEF Requesting, OverlapsRecorded, AtRow
<1>13. Requesting'
  <2>1. n.pc \in {"idle", "insert"} \/ (\A t \in Requests : t # q /\ AtRow(t, n.row) => n.row \in overlapped')
    <3>1. CASE n = Idle
      BY <3>1, IdleFits
    <3>2. CASE n.row = r
      BY <1>5, <1>12, <3>2
    <3> QED
      BY <3>1, <3>2
  <2>2. request'[q] = n => (Typical(request[q]))' /\ (Current(request[q]))'
    <3>1. CASE n = Idle
      BY <3>1, IdleFits DEF Typical, Current
    <3>2. CASE n.pc = "emit" /\ n.kind = kind /\ n.complex = p.complex
               /\ n.row = r /\ n.status = p.status /\ n.file = Nil
      BY <1>2, <1>4, <1>6, <3>2 DEF Typical, Current
    <3> QED
      BY <3>1, <3>2
  <2>3. \A t \in Requests \ {q} : request[t].pc \in {"write", "emit"} =>
           request[t].row \in Rows
           /\ (row'[request[t].row] = row[request[t].row] \/ request[t].row \in overlapped')
    BY <1>1, <1>5, <1>6, <1>12 DEF AtRow, Requesting, Typical
  <2> QED
    BY <1>1, <1>7, <2>1, <2>2, <2>3, RequestingStep
<1>14. \A t \in Requests : request'[t] = IF t = q THEN n ELSE request[t]
  BY <1>1 DEF Requesting
<1>15. ScreensAreCurrent'
  <2>1. ASSUME NEW t \in Rows, t = r
        PROVE  row'[t].kind \in {"parcel", "post"} \/ ~ Announced(t)'
    <3>1. CASE kind = "parcel"
      BY <1>2, <1>4, <1>6, <2>1, <3>1
    <3>2. CASE n.pc = "emit" /\ n.row = r
      BY <1>14, <2>1, <3>2 DEF Announced
    <3> QED
      BY <3>1, <3>2
  <2>2. \A t \in Rows \ {r} : row'[t] = row[t] /\ (Announced(t)' => Announced(t))
    BY <1>2, <1>6, <1>14 DEF Announced
  <2> QED
    BY <1>1, <1>5, <2>1, <2>2, ScreensStay
<1>16. Traced'
  BY <1>1, <1>2, <1>5, <1>14, NilAssumption, OrphansStay
<1> QED
  BY <1>10, <1>11, <1>13, <1>15, <1>16, Together

-----------------------------------------------------------------------------
(* New rows.                                                               *)
LEMMA NewRowStep ==
    ASSUME IInv, NEW q \in Requests, NEW kind \in Kind, NEW c \in Complexes,
           NEW status \in StatusOf[kind], NEW u \in Users \cup {Nil}, NEW r \in Rows,
           kind = "parcel" <=> u = Nil,
           row[r] = Unborn, row' = [row EXCEPT ![r] = Row(kind, c, status, u)],
           NEW n \in RequestState, request' = [request EXCEPT ![q] = n],
           request[q].pc # "emit",
           \/ n.pc = "idle" /\ n.file = Nil /\ kind \in {"parcel", "ticket", "post"}
           \/ /\ n.pc = "emit" /\ n.kind = kind /\ n.complex = c
              /\ n.row = r /\ n.status = status /\ n.file = Nil,
           request[q].file # Nil => bucket[request[q].file] = c /\ kind \in {"parcel", "ticket"},
           photoOf' = IF request[q].file = Nil THEN photoOf
                      ELSE [photoOf EXCEPT ![request[q].file] = r],
           UNCHANGED <<gone, bucket, socket, shown, overlapped, settledTwice, cut>>
    PROVE  IInv'
<1> DEFINE new == Row(kind, c, status, u)
           f0 == request[q].file
<1>1. Filed /\ Watching /\ Requesting /\ ScreensAreCurrent /\ Traced
  BY IInvParts
<1>2. /\ new \in RowState /\ new.kind = kind /\ new.complex = c /\ new.status = status
      /\ new.user = u /\ new # Unborn
  BY Kinds, NilAssumption DEF Row, RowState, Unborn
<1>3. \A t \in Rows : row'[t] = IF t = r THEN new ELSE row[t]
  BY <1>1 DEF Filed, RowsOK
<1>4. Kept
  BY <1>3 DEF Kept
<1>5. f0 \in Files \cup {Nil}
  BY <1>1 DEF Requesting, RequestState
<1>6. \A f \in Files : photoOf'[f] = IF f = f0 THEN r ELSE photoOf[f]
  BY <1>1, <1>5, NilAssumption DEF Filed
<1>7. Filed'
  <2>1. RowsOK'
    BY <1>1, <1>2, <1>3 DEF Filed, RowsOK
  <2>2. \A f \in Files : photoOf'[f] # Nil =>
           /\ row'[photoOf'[f]].kind \in {"parcel", "ticket"}
           /\ bucket'[f] = row'[photoOf'[f]].complex
    <3>1. \A f \in Files : photoOf[f] # Nil => photoOf[f] \in Rows /\ photoOf[f] # r
      BY <1>1, Born, Kinds DEF Filed
    <3>2. f0 # Nil => bucket[f0] = c /\ kind \in {"parcel", "ticket"}
      OBVIOUS
    <3> HIDE DEF new, f0
    <3> QED
      BY <1>1, <1>2, <1>3, <1>5, <1>6, <3>1, <3>2, NilAssumption DEF Filed
  <2>3. photoOf' \in [Files -> Rows \cup {Nil}]
    BY <1>1 DEF Filed
  <2> QED
    BY <1>1, <2>1, <2>2, <2>3 DEF Filed
<1>8. Watching'
  BY <1>1, <1>4, WatchingStays
<1>9. \A p \in Requests : ~ AtRow(p, r)
  BY <1>1, Born DEF AtRow, Requesting, Typical, Filed
<1>10. Requesting'
  <2>1. n.pc \in {"idle", "insert"} \/ (\A t \in Requests : t # q /\ AtRow(t, n.row) => n.row \in overlapped')
    BY <1>9
  <2>2. request'[q] = n => (Typical(request[q]))' /\ (Current(request[q]))'
    BY <1>2, <1>3 DEF Typical, Current
  <2>3. \A t \in Requests \ {q} : request[t].pc \in {"write", "emit"} =>
           row'[request[t].row] = row[request[t].row]
    BY <1>1, <1>3, <1>9 DEF AtRow, Requesting, Typical
  <2> QED
    BY <1>1, <1>4, <2>1, <2>2, <2>3, RequestingStep
<1>11. \A t \in Requests : request'[t] = IF t = q THEN n ELSE request[t]
  BY <1>1 DEF Requesting
<1>12. ScreensAreCurrent'
  <2>1. \A s \in Sockets : shown[s][r] = Nil
    BY <1>1, ShownRows
  <2>2. \A t \in Rows \ {r} : row'[t] = row[t] /\ (Announced(t)' => Announced(t))
    BY <1>3, <1>11 DEF Announced
  <2> QED
    BY <1>1, <2>1, <2>2, ScreensStay
<1>13. Traced'
  <2>1. \A f \in Files : photoOf[f] # Nil => photoOf'[f] # Nil
    BY <1>6, NilAssumption
  <2>2. f0 \in Files => photoOf'[f0] # Nil
    BY <1>6, NilAssumption
  <2> QED
    BY <1>1, <1>11, <2>1, <2>2, OrphansStay
<1> QED
  BY <1>7, <1>8, <1>10, <1>12, <1>13, Together

-----------------------------------------------------------------------------
(* Steps of requests that write no row.                                    *)
LEMMA CreateStep ==
    ASSUME IInv, NEW q \in Requests, NEW kind \in {"parcel", "ticket"}, NEW c \in Complexes,
           NEW u \in Users \cup {Nil}, kind = "parcel" <=> u = Nil,
           NEW f \in Files \cup {Nil}, UploadFile(c, f), ToInsert(q, kind, c, u, f),
           UNCHANGED <<row, gone, gateway, history>>
    PROVE  IInv'
<1> DEFINE n == [Idle EXCEPT !.pc = "insert", !.kind = kind, !.complex = c, !.user = u, !.file = f]
<1>1. Filed /\ Watching /\ Requesting /\ ScreensAreCurrent /\ Traced
  BY IInvParts
<1>2. /\ request[q].pc = "idle" /\ request' = [request EXCEPT ![q] = n]
      /\ UNCHANGED <<row, gone, socket, shown, overlapped, settledTwice, photoOf, cut>>
  BY DEF ToInsert, Running, gateway, history
<1>3. /\ n \in RequestState /\ n.pc = "insert" /\ n.kind = kind /\ n.complex = c /\ n.file = f
      /\ n.user = u
  BY Kinds DEF Idle, RequestState, Points
<1>4. /\ \A g \in Files : bucket[g] # Nil => bucket'[g] = bucket[g]
      /\ \A g \in Files : bucket'[g] # Nil => bucket[g] # Nil \/ g = f
      /\ bucket' \in [Files -> Complexes \cup {Nil}]
      /\ f # Nil => bucket'[f] = c
  BY <1>1 DEF UploadFile, Filed
<1>5. Kept
  BY <1>2, <1>4 DEF Kept
<1>6. \A g \in Files : photoOf[g] # Nil => photoOf[g] \in Rows /\ bucket[g] # Nil
  BY <1>1, Born, Kinds DEF Filed
<1>7. Filed'
  BY <1>1, <1>2, <1>4, <1>6 DEF Filed, RowsOK
<1>8. Watching'
  BY <1>1, <1>2, <1>5, WatchingStays
<1>9. request'[q] = n => (Typical(request[q]))' /\ (Current(request[q]))'
  BY <1>3, <1>4 DEF Typical, Current
<1>10. Requesting'
  BY <1>1, <1>2, <1>3, <1>5, <1>9, RequestingStep
<1>11. \A p \in Requests : request'[p] = IF p = q THEN n ELSE request[p]
  BY <1>1, <1>2 DEF Requesting
<1>12. ScreensAreCurrent'
  BY <1>1, <1>2, <1>3, <1>11, ScreensStay DEF Announced
<1>13. request[q].file = Nil
  BY <1>1, <1>2 DEF Requesting, Typical
<1>14. Traced'
  BY <1>1, <1>2, <1>3, <1>4, <1>11, <1>13, NilAssumption, OrphansStay
<1> QED
  BY <1>7, <1>8, <1>10, <1>12, <1>14, Together

LEMMA StatementFailsStep ==
    ASSUME IInv, NEW q \in Requests, StatementFails(q)
    PROVE  IInv'
<1>1. Filed /\ Watching /\ Requesting /\ ScreensAreCurrent /\ Traced
  BY IInvParts
<1>2. /\ request[q].pc \in {"insert", "write"} /\ request' = [request EXCEPT ![q] = Idle]
      /\ cut' = cut \cup ({request[q].file} \ {Nil})
      /\ UNCHANGED <<row, gone, bucket, socket, shown, overlapped, settledTwice, photoOf>>
  BY DEF StatementFails, Finish, desk, gateway
<1>3. request[q].file \in Files \cup {Nil}
  BY <1>1 DEF Requesting, RequestState
<1>4. Kept
  BY <1>2 DEF Kept
<1>5. Filed'
  BY <1>1, <1>2, <1>3 DEF Filed, RowsOK
<1>6. Watching'
  BY <1>1, <1>2, <1>4, WatchingStays
<1>7. request'[q] = Idle => (Typical(request[q]))' /\ (Current(request[q]))'
  BY IdleFits DEF Typical, Current
<1>8. Requesting'
  BY <1>1, <1>2, <1>4, <1>7, IdleFits, RequestingStep
<1>9. \A p \in Requests : request'[p] = IF p = q THEN Idle ELSE request[p]
  BY <1>1, <1>2 DEF Requesting
<1>10. ScreensAreCurrent'
  BY <1>1, <1>2, <1>9, ScreensStay DEF Announced
<1>11. Traced'
  BY <1>1, <1>2, <1>9, NilAssumption, OrphansStay
<1> QED
  BY <1>5, <1>6, <1>8, <1>10, <1>11, Together

LEMMA RestartStep == ASSUME IInv, Restart PROVE IInv'
<1>1. Filed /\ Watching /\ Requesting /\ ScreensAreCurrent /\ Traced
  BY IInvParts
<1>2. /\ \A p \in Requests : request[p].file \in Files \cup {Nil}
      /\ \A p \in Requests : request'[p] = Idle
  BY <1>1 DEF Restart, Requesting, RequestState
<1>3. cut' \subseteq Files
  BY <1>1, <1>2 DEF Restart, Filed
<1>4. Filed'
  BY <1>1, <1>3 DEF Restart, desk, Filed, RowsOK
<1>5. Offline \in SocketState /\ Blank \in [Rows -> Status \cup {Nil}]
  BY DEF Offline, SocketState, Blank
<1>6. Watching'
  BY <1>5 DEF Restart, Watching, RoomsOK, Blank
<1>7. Requesting'
  BY IdleFits DEF Restart, Requesting, OverlapsRecorded, AtRow, Typical, Current
<1>8. ScreensAreCurrent'
  BY DEF Restart, ScreensAreCurrent, Blank
<1>9. Traced'
  <2>1. \A p \in Requests : request[p].file \in Files => request[p].file \in cut'
    BY NilAssumption DEF Restart
  <2>2. UNCHANGED <<gone, bucket, photoOf>> /\ cut \subseteq cut'
    BY DEF Restart, desk
  <2> QED
    BY <1>1, <2>1, <2>2, OrphansStay
<1> QED
  BY <1>4, <1>6, <1>7, <1>8, <1>9, Together

LEMMA UpdatePostStep ==
    ASSUME IInv, NEW q \in Requests, NEW role \in RoleCode, NEW c \in Complexes \cup {Nil},
           NEW u \in Users, NEW r \in Rows, NEW status \in PostStatus,
           UpdatePost(q, role, c, u, r, status)
    PROVE  IInv'
<1> DEFINE new == [row[r] EXCEPT !.status = status]
<1>1. Filed /\ Watching /\ Requesting /\ ScreensAreCurrent /\ Traced
  BY IInvParts
<1>2. /\ row[r].kind = "post" /\ row[r].complex = c /\ c # Nil
      /\ row' = [row EXCEPT ![r] = new]
      /\ UNCHANGED <<gone, bucket, request, socket, shown, overlapped, settledTwice, photoOf, cut>>
  BY DEF UpdatePost, Find, MayEditPost, gateway, history
<1>3. row[r] \in RowState
  BY <1>1, Born DEF Filed
<1>4. /\ new \in RowState /\ new.kind = "post" /\ new.complex = c /\ new.status = status
      /\ new.user = row[r].user /\ new # Unborn
  BY <1>2, <1>3, Kinds DEF RowState, Unborn, Row
<1>5. \A t \in Rows : row'[t] = IF t = r THEN new ELSE row[t]
  BY <1>1, <1>2 DEF Filed, RowsOK
<1>6. Kept
  BY <1>2, <1>4, <1>5 DEF Kept
<1>7. Filed'
  <2>1. RowsOK'
    <3>1. row[r] # Unborn
      BY <1>1, <1>2, Born, Kinds DEF Filed
    <3>2. new.user # Nil
      BY <1>1, <1>2, <1>4, <3>1 DEF Filed, RowsOK
    <3>3. row' \in [Rows -> RowState] /\ c \in Complexes
      BY <1>1, <1>2, <1>4 DEF Filed, RowsOK
    <3> HIDE DEF new
    <3> QED
      BY <1>1, <1>4, <1>5, <3>2, <3>3, Kinds DEF Filed, RowsOK
  <2>2. \A f \in Files : photoOf'[f] # Nil =>
           /\ row'[photoOf'[f]].kind \in {"parcel", "ticket"}
           /\ bucket'[f] = row'[photoOf'[f]].complex
    BY <1>1, <1>2, <1>4, <1>5 DEF Filed
  <2> QED
    BY <1>1, <1>2, <2>1, <2>2 DEF Filed
<1>8. Watching'
  BY <1>1, <1>2, <1>6, WatchingStays
<1>9. Requesting'
  <2>1. \A p \in Requests : request[p].pc \in {"write", "emit"} =>
           \/ row'[request[p].row] = row[request[p].row]
           \/ request[p].kind = "post" /\ row'[request[p].row].status \in PostStatus
    BY <1>1, <1>2, <1>4, <1>5 DEF Requesting, Typical
  <2>2. \A p \in Requests : (Typical(request[p]))' /\ (Current(request[p]))'
    BY <1>1, <1>2, <1>6, <2>1, RequestGoesOn
  <2> QED
    BY <1>1, <1>2, <2>2 DEF Requesting, OverlapsRecorded, AtRow
<1>10. ScreensAreCurrent'
  BY <1>1, <1>2, <1>4, <1>5, ScreensStay DEF Announced
<1>11. Traced'
  BY <1>1, <1>2, OrphansStay
<1> QED
  BY <1>7, <1>8, <1>9, <1>10, <1>11, Together

\* What a user takes along is only missing: every row keeps what it last held.
LEMMA RemoveUserStep == ASSUME IInv, NEW u \in Users, RemoveUser(u) PROVE IInv'
<1>1. Filed /\ Watching /\ Requesting /\ ScreensAreCurrent /\ Traced
  BY IInvParts
<1>2. /\ gone \subseteq gone' /\ gone' \subseteq Users
      /\ UNCHANGED <<row, bucket, request, socket, shown, overlapped, settledTwice, photoOf, cut>>
  BY <1>1 DEF RemoveUser, gateway, history, Filed
<1>3. Filed' /\ Watching' /\ Requesting' /\ Traced'
  BY <1>1, <1>2 DEF Filed, RowsOK, Watching, RoomsOK, Requesting, Typical, Current,
                    OverlapsRecorded, AtRow, Traced
<1>4. ScreensAreCurrent'
  BY <1>1, <1>2, ScreensStay DEF Announced
<1> QED
  BY <1>3, <1>4, Together

-----------------------------------------------------------------------------
(* The gateway.                                                            *)
LEMMA EmitStep ==
    ASSUME IInv, NEW q \in Requests, Emit(q)
    PROVE  IInv'
<1> DEFINE p == request[q]
<1>1. Filed /\ Watching /\ Requesting /\ ScreensAreCurrent /\ Traced
  BY IInvParts
<1>2. /\ p.pc = "emit" /\ request' = [request EXCEPT ![q] = Idle]
      /\ UNCHANGED <<row, gone, bucket, socket, overlapped, settledTwice, photoOf, cut>>
  BY DEF Emit, Running, Finish, desk, history
<1>3. /\ p.row \in Rows /\ row[p.row].kind = p.kind /\ p.kind \in Kind /\ p.status \in Status
      /\ row[p.row].complex = p.complex /\ p.complex \in Complexes /\ p.file = Nil
      /\ p.status # Nil
  BY <1>1, <1>2, Kinds, NilAssumption DEF Requesting, Typical
<1>4. \A s \in Sockets, r \in Rows :
         shown'[s][r] = IF InRoom(s, p.complex) /\ r = p.row THEN p.status ELSE shown[s][r]
  BY <1>1 DEF Emit, Watching
<1>5. Kept
  BY <1>2 DEF Kept
<1>6. Filed'
  BY <1>1, <1>2 DEF Filed, RowsOK
<1>7. \A s \in Sockets : InRoom(s, p.complex) =>
         socket[s] # Offline /\ socket[s].complex = p.complex
  BY <1>1 DEF InRoom, Watching, RoomsOK, Offline
<1>8. Watching'
  <2>1. shown' \in [Sockets -> [Rows -> Status \cup {Nil}]]
    BY <1>1, <1>3 DEF Emit, Watching
  <2>2. \A s \in Sockets : socket[s] = Offline => shown'[s] = shown[s]
    BY <1>7 DEF Emit
  <2>3. RoomsOK'
    BY <1>1, <1>2, <2>2 DEF Watching, RoomsOK, Blank
  <2>4. \A s \in Sockets, r \in Rows : shown'[s][r] # Nil => row'[r].complex = socket'[s].complex
    BY <1>1, <1>2, <1>3, <1>4, <1>7 DEF Watching
  <2> QED
    BY <1>1, <1>2, <2>1, <2>3, <2>4 DEF Watching
<1>9. Requesting'
  <2>1. request'[q] = Idle => (Typical(request[q]))' /\ (Current(request[q]))'
    BY IdleFits DEF Typical, Current
  <2> QED
    BY <1>1, <1>2, <1>5, <2>1, IdleFits, RequestingStep
<1>10. \A t \in Requests : request'[t] = IF t = q THEN Idle ELSE request[t]
  BY <1>1, <1>2 DEF Requesting
<1>11. ScreensAreCurrent'
  <2> SUFFICES ASSUME NEW s \in Sockets, NEW r \in Rows,
                      shown'[s][r] # Nil, row'[r].kind \in {"visitor", "ticket"}, Stands(r)',
                      Announced(r)', r \notin overlapped'
               PROVE  shown'[s][r] = row'[r].status
    BY DEF ScreensAreCurrent
  <2>1. CASE r # p.row
    <3>1. Announced(r)
      BY <1>10, <2>1 DEF Announced
    <3> QED
      BY <1>1, <1>2, <1>4, <2>1, <3>1 DEF ScreensAreCurrent, Stands
  <2>2. CASE r = p.row
    <3>1. p.status = row[r].status
      BY <1>1, <1>2, <1>3, <2>2 DEF Requesting, Current
    <3>2. InRoom(s, p.complex)
      <4>1. CASE shown[s][r] # Nil
        BY <1>1, <1>3, <2>2, <4>1, ShownRows DEF Watching, RoomsOK, InRoom
      <4>2. CASE shown[s][r] = Nil
        BY <1>4, <4>2
      <4> QED
        BY <4>1, <4>2
    <3> QED
      BY <1>2, <1>4, <2>2, <3>1, <3>2
  <2> QED
    BY <2>1, <2>2
<1>12. Traced'
  BY <1>1, <1>2, <1>3, <1>10, NilAssumption, OrphansStay
<1> QED
  BY <1>6, <1>8, <1>9, <1>11, <1>12, Together

LEMMA ConnectionStep ==
    ASSUME IInv, NEW s \in Sockets, Connection(s)
    PROVE  IInv'
<1>1. Filed /\ Watching /\ Requesting /\ ScreensAreCurrent /\ Traced
  BY IInvParts
<1>2. UNCHANGED <<row, gone, bucket, request, overlapped, settledTwice, photoOf, cut>>
  BY DEF Connection, HandleConnection, HandleJoinTenant, HandleDisconnect, desk, history
<1>3. Filed' /\ Requesting' /\ Traced'
  BY <1>1, <1>2 DEF Filed, RowsOK, Requesting, Typical, Current, OverlapsRecorded, AtRow,
                    Traced
<1>4. Offline \in SocketState /\ Blank \in [Rows -> Status \cup {Nil}] /\ Offline.complex = Nil
  BY DEF Offline, SocketState, Blank
<1>5. Watching' /\ ScreensAreCurrent'
  <2>1. ASSUME NEW c \in Complexes \cup {Nil}, HandleConnection(s, c)
        PROVE  Watching' /\ ScreensAreCurrent'
    <3> DEFINE new == [complex |-> c, rooms |-> {c}]
    <3>1. /\ socket[s] = Offline /\ c # Nil /\ socket' = [socket EXCEPT ![s] = new]
          /\ UNCHANGED shown
      BY <2>1 DEF HandleConnection
    <3>2. new \in SocketState /\ new # Offline /\ new.complex = c /\ new.rooms = {c}
      BY <3>1 DEF SocketState, Offline
    <3>3. \A t \in Sockets : socket'[t] = IF t = s THEN new ELSE socket[t]
      BY <1>1, <3>1 DEF Watching
    <3>4. shown[s] = Blank
      BY <1>1, <3>1 DEF Watching, RoomsOK
    <3>5. RoomsOK'
      BY <1>1, <3>1, <3>2, <3>3 DEF Watching, RoomsOK, Blank
    <3>6. \A t \in Sockets, r \in Rows : shown'[t][r] # Nil => row'[r].complex = socket'[t].complex
      BY <1>1, <1>2, <3>1, <3>3, <3>4 DEF Watching, Blank
    <3>7. Watching'
      BY <1>1, <3>1, <3>2, <3>5, <3>6 DEF Watching
    <3>8. ScreensAreCurrent'
      BY <1>1, <1>2, <3>1 DEF ScreensAreCurrent, Stands, Announced
    <3> QED
      BY <3>7, <3>8
  <2>2. ASSUME NEW c \in Complexes \cup {Nil}, HandleJoinTenant(s, c)
        PROVE  Watching' /\ ScreensAreCurrent'
    <3> DEFINE new == [socket[s] EXCEPT !.rooms = @ \cup {socket[s].complex}]
    <3>1. /\ socket[s] # Offline /\ socket' = [socket EXCEPT ![s] = new] /\ UNCHANGED shown
      BY <2>2 DEF HandleJoinTenant
    <3>2. socket[s] \in SocketState /\ socket[s].rooms = {socket[s].complex}
      BY <1>1, <3>1 DEF Watching, RoomsOK
    <3>3. new = socket[s]
      BY <3>2 DEF SocketState
    <3>4. UNCHANGED socket
      BY <1>1, <3>1, <3>3 DEF Watching
    <3>5. Watching'
      BY <1>1, <1>2, <3>1, <3>4 DEF Watching, RoomsOK
    <3>6. ScreensAreCurrent'
      BY <1>1, <1>2, <3>1 DEF ScreensAreCurrent, Stands, Announced
    <3> QED
      BY <3>5, <3>6
  <2>3. ASSUME HandleDisconnect(s)
        PROVE  Watching' /\ ScreensAreCurrent'
    <3>1. /\ \A t \in Sockets : /\ socket'[t] = IF t = s THEN Offline ELSE socket[t]
                                /\ shown'[t] = IF t = s THEN Blank ELSE shown[t]
          /\ socket' \in [Sockets -> SocketState]
          /\ shown' \in [Sockets -> [Rows -> Status \cup {Nil}]]
      BY <1>1, <1>4, <2>3 DEF HandleDisconnect, Watching
    <3>2. RoomsOK'
      BY <1>1, <3>1 DEF Watching, RoomsOK, Blank
    <3>3. \A t \in Sockets, r \in Rows : shown'[t][r] # Nil => row'[r].complex = socket'[t].complex
      BY <1>1, <1>2, <3>1 DEF Watching, Blank
    <3>4. ScreensAreCurrent'
      BY <1>1, <1>2, <3>1 DEF ScreensAreCurrent, Stands, Announced, Blank
    <3> QED
      BY <3>1, <3>2, <3>3, <3>4 DEF Watching
  <2> QED
    BY <2>1, <2>2, <2>3 DEF Connection
<1> QED
  BY <1>3, <1>5, Together

-----------------------------------------------------------------------------
(* Requests arrive and continue.                                           *)

\* A request that is left with the event of a row to emit.
LEMMA TellsOfTheRow ==
    ASSUME NEW q \in Requests, NEW kind \in Kind, NEW c \in Complexes, NEW r \in Rows,
           NEW status \in StatusOf[kind], ToEmit(q, kind, c, r, status)
    PROVE  \E n \in RequestState :
              /\ request' = [request EXCEPT ![q] = n]
              /\ n.pc = "emit" /\ n.kind = kind /\ n.complex = c
              /\ n.row = r /\ n.status = status /\ n.file = Nil
<1> DEFINE n == [Idle EXCEPT !.pc = "emit", !.kind = kind, !.complex = c, !.row = r,
                             !.status = status]
<1>1. /\ n \in RequestState /\ n.pc = "emit" /\ n.kind = kind /\ n.complex = c
      /\ n.row = r /\ n.status = status /\ n.file = Nil
  BY Kinds DEF Idle, RequestState, Points
<1>2. request' = [request EXCEPT ![q] = n]
  BY DEF ToEmit
<1> HIDE DEF n
<1> QED
  BY <1>1, <1>2

LEMMA ArriveStep ==
    ASSUME IInv, NEW q \in Requests, NEW role \in RoleCode, NEW c \in Complexes \cup {Nil},
           Arrive(q, role, c)
    PROVE  IInv'
<1>1. RowsOK /\ Requesting
  BY IInvParts DEF Filed
<1>2. request[q].pc = "idle" => request[q].file = Nil /\ request[q] \in RequestState
  BY <1>1 DEF Requesting, Typical
<1>3. request = [request EXCEPT ![q] = request[q]]
  BY <1>1 DEF Requesting
<1>4. ASSUME NEW u \in Users, NEW r \in Rows, RegisterEntry(q, role, c, u, r) PROVE IInv'
  <2>1. c \in Complexes /\ "visitor" \in Kind /\ "active" \in StatusOf["visitor"]
    BY <1>4, Kinds DEF RegisterEntry, MayRegisterEntry, VisitorStatus
  <2>2. ToEmit(q, "visitor", c, r, "active")
    BY <1>4 DEF RegisterEntry
  <2>3. PICK n \in RequestState :
           /\ request' = [request EXCEPT ![q] = n]
           /\ n.pc = "emit" /\ n.kind = "visitor" /\ n.complex = c
           /\ n.row = r /\ n.status = "active" /\ n.file = Nil
    BY <2>1, <2>2, TellsOfTheRow
  <2> QED
    BY <1>2, <1>4, <2>1, <2>3, NilAssumption, NewRowStep
       DEF RegisterEntry, Running, gateway, history
<1>5. ASSUME NEW r \in Rows, RegisterExit(q, role, c, r) PROVE IInv'
  <2>1. /\ c \in Complexes /\ "visitor" \in Kind /\ "closed" \in StatusOf["visitor"]
        /\ row[r].status \notin Final
    BY <1>1, <1>5, Kinds, Born
       DEF RegisterExit, MayRegisterExit, VisitorStatus, ReadToWrite, Find, Final
  <2> QED
    BY <1>5, <2>1, ReadStep DEF RegisterExit
<1>6. ASSUME NEW f \in Files \cup {Nil}, CreateCorrespondence(q, role, c, f) PROVE IInv'
  BY <1>6, CreateStep DEF CreateCorrespondence, MayReceive
<1>7. ASSUME NEW r \in Rows, MarkAsDelivered(q, role, c, r) PROVE IInv'
  <2>1. /\ c \in Complexes /\ "parcel" \in Kind /\ "DELIVERED" \in StatusOf["parcel"]
        /\ row[r].status \notin Final
    BY <1>1, <1>7, Kinds, Born
       DEF MarkAsDelivered, MayDeliver, ParcelStatus, ReadToWrite, Find, Final
  <2> QED
    BY <1>7, <2>1, ReadStep DEF MarkAsDelivered
<1>8. ASSUME NEW u \in Users, NEW f \in Files \cup {Nil}, CreateTicket(q, role, c, u, f) PROVE IInv'
  BY <1>8, NilAssumption, CreateStep DEF CreateTicket, MayOpenTicket
<1>9. ASSUME NEW r \in Rows, NEW status \in TicketStatus, UpdateTicket(q, role, c, r, status)
      PROVE  IInv'
  <2>1. /\ c \in Complexes /\ "ticket" \in Kind /\ status \in StatusOf["ticket"]
        /\ row[r].status \notin Final
    BY <1>1, <1>9, Kinds, Born
       DEF UpdateTicket, MayAnswerTicket, TicketStatus, ReadToWrite, Find, Final
  <2> QED
    BY <1>9, <2>1, ReadStep DEF UpdateTicket
<1>10. ASSUME NEW u \in Users, NEW r \in Rows, CreatePost(q, role, c, u, r) PROVE IInv'
  <2>1. c \in Complexes /\ "post" \in Kind /\ "ACTIVE" \in StatusOf["post"]
    BY <1>10, Kinds DEF CreatePost, MayPublish, PostStatus
  <2>2. request' = [request EXCEPT ![q] = request[q]]
    BY <1>3, <1>10 DEF CreatePost
  <2>3. /\ request[q].pc = "idle" /\ request[q].file = Nil /\ request[q] \in RequestState
        /\ row[r] = Unborn /\ row' = [row EXCEPT ![r] = Row("post", c, "ACTIVE", u)] /\ u # Nil
        /\ UNCHANGED <<gone, bucket, socket, shown, overlapped, settledTwice, photoOf, cut>>
    BY <1>2, <1>10, NilAssumption DEF CreatePost, Running, gateway, history
  <2> QED
    BY <2>1, <2>2, <2>3, NewRowStep
<1> QED
  BY <1>4, <1>5, <1>6, <1>7, <1>8, <1>9, <1>10, UpdatePostStep DEF Arrive

LEMMA ContinueStep ==
    ASSUME IInv, NEW q \in Requests, Continue(q)
    PROVE  IInv'
<1> DEFINE p == request[q]
<1>1. Filed /\ Requesting
  BY IInvParts
<1>2. /\ p \in RequestState /\ p.complex \in Complexes \cup {Nil}
      /\ p.pc # "idle" => p.complex \in Complexes
      /\ p.file # Nil => bucket[p.file] = p.complex
      /\ p.pc = "insert" => (p.kind = "parcel" <=> p.user = Nil)
      /\ p.user \in Users \cup {Nil}
      /\ p.pc = "write" => p.row \in Rows /\ p.kind \in Kind /\ p.status \in StatusOf[p.kind]
  BY <1>1 DEF Requesting, Typical, RequestState
<1>4. ASSUME NEW kind \in {"visitor", "ticket"}, WriteRow(q, kind),
             ToEmit(q, kind, p.complex, p.row, p.status)
      PROVE  IInv'
  <2>1. kind \in Kind /\ p.row \in Rows /\ p.status \in StatusOf[kind]
    BY <1>2, <1>4, Kinds DEF WriteRow, Running
  <2>2. ToEmit(q, kind, p.complex, p.row, p.status)
    BY <1>4
  <2>3. p.complex \in Complexes
    BY <1>2, <1>4 DEF WriteRow, Running
  <2>4. PICK n \in RequestState :
           /\ request' = [request EXCEPT ![q] = n]
           /\ n.pc = "emit" /\ n.kind = kind /\ n.complex = p.complex
           /\ n.row = p.row /\ n.status = p.status /\ n.file = Nil
    BY <2>1, <2>2, <2>3, TellsOfTheRow
  <2> QED
    BY <1>4, <2>1, <2>4, WriteStep
<1>5. CASE WriteDelivery(q)
  BY <1>5, WriteStep, IdleFits, Kinds DEF WriteDelivery, Finish
<1>6. ASSUME NEW r \in Rows, InsertCorrespondence(q, r) PROVE IInv'
  <2>1. "parcel" \in Kind /\ "PENDING" \in StatusOf["parcel"] /\ p.complex \in Complexes
    BY <1>2, <1>6, Kinds DEF ParcelStatus, InsertCorrespondence, Insert, Running
  <2>2. ToEmit(q, "parcel", p.complex, r, "PENDING")
    BY <1>6 DEF InsertCorrespondence
  <2>3. PICK n \in RequestState :
           /\ request' = [request EXCEPT ![q] = n]
           /\ n.pc = "emit" /\ n.kind = "parcel" /\ n.complex = p.complex
           /\ n.row = r /\ n.status = "PENDING" /\ n.file = Nil
    BY <2>1, <2>2, TellsOfTheRow
  <2> QED
    BY <1>2, <1>6, <2>1, <2>3, NewRowStep DEF InsertCorrespondence, Insert, Running, gateway
<1>7. ASSUME NEW r \in Rows, InsertTicket(q, r) PROVE IInv'
  <2>1. "ticket" \in Kind /\ "OPEN" \in StatusOf["ticket"] /\ p.complex \in Complexes
    BY <1>2, <1>7, Kinds DEF TicketStatus, InsertTicket, Insert, Running
  <2> QED
    BY <1>2, <1>7, <2>1, NewRowStep, IdleFits DEF InsertTicket, Insert, Running, Finish, gateway
<1> QED
  BY <1>4, <1>5, <1>6, <1>7, EmitStep, StatementFailsStep DEF Continue, WriteExit, WriteTicket

LEMMA Step == IInv /\ [Next]_vars => IInv'
<1> SUFFICES ASSUME IInv, [Next]_vars PROVE IInv'
  OBVIOUS
<1>1. CASE UNCHANGED vars
  <2>1. Filed /\ Watching /\ Requesting /\ ScreensAreCurrent /\ Traced
    BY IInvParts
  <2>2. Filed' /\ Watching' /\ Requesting'
    BY <1>1, <2>1 DEF vars, Filed, RowsOK, Watching, RoomsOK, Blank, Requesting, Typical, Current,
                      OverlapsRecorded, AtRow
  <2>3. ScreensAreCurrent' /\ Traced'
    BY <1>1, <2>1 DEF vars, ScreensAreCurrent, Stands, Announced, Traced
  <2> QED
    BY <2>2, <2>3, Together
<1> QED
  BY <1>1, ArriveStep, ContinueStep, ConnectionStep, RemoveUserStep, RestartStep DEF Next

-----------------------------------------------------------------------------
\* The inductive invariant holds for any number of rows of the four tables, of
\* overlapping requests and of connections.
THEOREM Inductive == Spec => []IInv
BY Initially, Step, PTL DEF Spec

\* A row has a status of its own table, a request in flight a row of its table.
THEOREM Typed == Spec => []TypeOK
BY Inductive, PTL DEF IInv

\* registerExit (visitors.service.ts:75) and markAsDelivered
\* (correspondence.service.ts:94): what is settled is settled again only by
\* requests that were at the row together.
THEOREM SecondExits == Spec => []SecondExitsAreExplained
BY Inductive, PTL DEF IInv

\* emitToTenant (notifications.gateway.ts:86) after the statement: screens end up
\* with what the database says of every row whose requests did not overlap.
THEOREM Screens == Spec => []ScreensAreCurrent
BY Inductive, PTL DEF IInv

\* The rooms (notifications.gateway.ts:44) and the reads within the complex of the
\* token: no row, event or photo gets to another complex.
THEOREM Isolation == Spec => []TenantsAreIsolated
BY Inductive, PTL DEF IInv

\* uploadFile before the insert (correspondence.service.ts:69, pqrs.service.ts:87):
\* only a request that was cut short, or a ticket that was deleted with its user
\* (users.service.ts:305), leaves a file without a row.
THEOREM Orphans == Spec => []OrphansAreExplained
BY Inductive, PTL DEF IInv

-----------------------------------------------------------------------------
(* What a lock would give.  The handlers hold none; suppose each held its  *)
(* row from the read to the end of the announcement.                       *)
RowsLocked ==
    \A p, q \in Requests, r \in Rows : AtRow(p, r) /\ AtRow(q, r) => p = q

ScreensAlwaysCurrent ==
    \A s \in Sockets, r \in Rows :
        shown[s][r] # Nil /\ row[r].kind \in {"visitor", "ticket"} /\ Stands(r) /\ Announced(r)
        => shown[s][r] = row[r].status

NothingOverlapped == overlapped = {}

LEMMA LockedReads ==
    ASSUME IInv, overlapped = {}, RowsLocked', NEW q \in Requests,
           NEW kind, NEW c, NEW r \in Rows, NEW status, ReadToWrite(q, kind, c, r, status)
    PROVE  overlapped' = {}
<1>1. request \in [Requests -> RequestState]
  BY DEF IInv, TypeOK, RequestsOK
<1> DEFINE n == [Idle EXCEPT !.pc = "write", !.kind = kind, !.complex = c,
                             !.row = r, !.status = status]
<1>2. request' = [request EXCEPT ![q] = n] /\ request[q].pc = "idle"
  BY DEF ReadToWrite, Running
<1>3. n.pc = "write" /\ n.row = r
  BY DEF Idle
<1> HIDE DEF n
<1>4. AtRow(q, r)'
  BY <1>1, <1>2, <1>3 DEF AtRow
<1>5. ASSUME NEW p \in Requests, AtRow(p, r) PROVE FALSE
  <2>1. p # q /\ request'[p] = request[p]
    BY <1>1, <1>2, <1>5 DEF AtRow
  <2>2. AtRow(p, r)'
    BY <1>5, <2>1 DEF AtRow
  <2> QED
    BY <1>4, <2>1, <2>2 DEF RowsLocked
<1> QED
  BY <1>5 DEF ReadToWrite

LEMMA LockedStep ==
    IInv /\ NothingOverlapped /\ RowsLocked' /\ [Next]_vars => NothingOverlapped'
<1> SUFFICES ASSUME IInv, overlapped = {}, RowsLocked', [Next]_vars PROVE overlapped' = {}
  BY DEF NothingOverlapped
<1>1. ASSUME NEW q \in Requests, NEW role \in RoleCode, NEW c \in Complexes \cup {Nil},
             Arrive(q, role, c)
      PROVE  overlapped' = {}
  <2>1. CASE \/ \E r \in Rows : RegisterExit(q, role, c, r)
             \/ \E r \in Rows : MarkAsDelivered(q, role, c, r)
             \/ \E r \in Rows, status \in TicketStatus : UpdateTicket(q, role, c, r, status)
    BY <2>1, LockedReads DEF RegisterExit, MarkAsDelivered, UpdateTicket
  <2>2. CASE \/ \E u \in Users, r \in Rows : RegisterEntry(q, role, c, u, r)
             \/ \E f \in Files \cup {Nil} : CreateCorrespondence(q, role, c, f)
             \/ \E u \in Users, f \in Files \cup {Nil} : CreateTicket(q, role, c, u, f)
             \/ \E u \in Users, r \in Rows : CreatePost(q, role, c, u, r)
             \/ \E u \in Users, r \in Rows, status \in PostStatus :
                   UpdatePost(q, role, c, u, r, status)
    BY <2>2 DEF RegisterEntry, CreateCorrespondence, CreateTicket, CreatePost, UpdatePost, history
  <2> QED
    BY <1>1, <2>1, <2>2 DEF Arrive
<1>2. ASSUME NEW q \in Requests, Continue(q) PROVE overlapped' = {}
  BY <1>2 DEF Continue, WriteExit, InsertCorrespondence, WriteDelivery, InsertTicket, WriteTicket,
              WriteRow, Insert, Emit, StatementFails, history
<1>3. ASSUME NEW s \in Sockets, Connection(s) PROVE overlapped' = {}
  BY <1>3 DEF Connection, HandleConnection, HandleJoinTenant, HandleDisconnect, history
<1>4. CASE Restart \/ (\E u \in Users : RemoveUser(u)) \/ UNCHANGED vars
  BY <1>4 DEF Restart, RemoveUser, vars, history
<1> QED
  BY <1>1, <1>2, <1>3, <1>4 DEF Next

\* If the handlers that read a row and then write it (visitors.service.ts:75,
\* correspondence.service.ts:94, pqrs.service.ts:120) held it until their event is
\* out, an exit or a delivery would never be recorded over another, and a screen
\* would never keep a status that the database has left behind, of a row that is
\* still there.
THEOREM LockedFrontDesk == Spec /\ []RowsLocked => [](settledTwice = {} /\ ScreensAlwaysCurrent)
<1>1. Init => NothingOverlapped
  BY DEF Init, NothingOverlapped
<1>2. IInv /\ NothingOverlapped => settledTwice = {} /\ ScreensAlwaysCurrent
  BY DEF NothingOverlapped, IInv, SecondExitsAreExplained, ScreensAreCurrent, ScreensAlwaysCurrent
<1> QED
  BY Initially, Step, LockedStep, <1>1, <1>2, PTL DEF Spec

=============================================================================
