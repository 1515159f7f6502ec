-------------------------- MODULE ResidencyProofs --------------------------
(* Proofs about Residency: its types, that duplicate residents come from    *)
(* requests that overlapped, that residents follow the apartments of their  *)
(* complex, and that writes are current unless they were raced, for any     *)
(* number of complexes, apartments, residents and requests.                 *)
EXTENDS Residency, TLAPS

\* What the invariant asks of a request whose local variables are s.
Typical(s) ==
    /\ s \in RequestState
    /\ s.pc \in {"lookup", "insert"} => s.complex # Nil
    /\ s.pc \in {"lookup", "assign", "update"} => s.apartment # Nil
    /\ s.pc \in {"insert", "assign", "update"} => s.unit # Nil
    /\ s.pc = "assign" => s.resident # Nil /\ resident[s.resident] # NoResident
    /\ s.pc = "update" => apartment[s.apartment] # NoApartment

SeesOthers(s) ==
    \A r \in s.seen :
        /\ resident[r] # NoResident
        /\ ~ (resident[r].user = s.user /\ resident[r].complex = s.complex)

HoldsOwn(s) ==
    /\ s.pc = "insert" /\ s.apartment # Nil =>
          apartment[s.apartment].complex = s.complex /\ s.unit \in names[s.apartment]
    /\ s.pc = "assign" =>
          /\ apartment[s.apartment].complex = resident[s.resident].complex
          /\ s.unit \in names[s.apartment]

ReadTrue(s) ==
    /\ s.pc \in {"insert", "assign"} /\ s.apartment # Nil =>
          apartment[s.apartment].status = 1 /\ s.unit = apartment[s.apartment].unit
    /\ s.pc = "update" =>
          /\ "tower" \notin s.given => s.tower = apartment[s.apartment].tower
          /\ "unit" \notin s.given => s.unit = apartment[s.apartment].unit

Requesting ==
    /\ request \in [Requests -> RequestState]
    /\ \A q \in Requests : /\ Typical(request[q]) /\ SeesOthers(request[q]) /\ HoldsOwn(request[q])
                           /\ q \notin raced => ReadTrue(request[q])

\* What it asks of the tables and the history.
Standing ==
    /\ TablesOK
    /\ gone \subseteq Users
    /\ names \in [Apartments -> SUBSET (Label \cup {Blank})]
    /\ saw \in [Residents -> SUBSET Residents]
    /\ raced \subseteq Requests
    /\ NamesOK
    /\ \A r \in Residents, s \in Residents : s \in saw[r] => resident[s] # NoResident
    /\ DuplicateResidentsAreExplained
    /\ ResidentsFollowApartments

LEMMA IInvParts == IInv <=> Standing /\ Requesting
BY DEF IInv, Standing, Requesting, TypeOK, RequestsOK, SeenOK, HeldOK, ReadsOK, Typical, SeesOthers,
       HoldsOwn, ReadTrue

LEMMA IdleFits == Typical(Idle) /\ SeesOthers(Idle) /\ HoldsOwn(Idle) /\ ReadTrue(Idle)
BY DEF Idle, Typical, SeesOthers, HoldsOwn, ReadTrue, RequestState

LEMMA Rows ==
    ASSUME TablesOK
    PROVE  /\ \A a \in Apartments : /\ apartment[a] \in ApartmentRow
                                    /\ apartment[a] # NoApartment <=> apartment[a].complex # Nil
           /\ \A r \in Residents : /\ resident[r] \in ResidentRow
                                   /\ resident[r] # NoResident <=> resident[r].complex # Nil
BY DEF TablesOK, NoApartment, NoResident

LEMMA Initially == Init => IInv
<1> SUFFICES ASSUME Init PROVE IInv
  OBVIOUS
<1>1. NoApartment \in ApartmentRow /\ NoResident \in ResidentRow
  BY DEF NoApartment, NoResident, ApartmentRow, ResidentRow
<1>2. Standing
  BY <1>1 DEF Init, Standing, TablesOK, NamesOK, DuplicateResidentsAreExplained,
              ResidentsFollowApartments, NoResident
<1>3. Idle \in RequestState
  BY IdleFits DEF Typical
<1>4. Requesting
  BY <1>3, IdleFits DEF Init, Requesting
<1> QED
  BY <1>2, <1>4, IInvParts

-----------------------------------------------------------------------------
(* Steps that only change what a request is doing.                         *)
LEMMA RequestStep ==
    ASSUME Standing, Requesting, NEW q \in Requests, NEW s,
           request' = [request EXCEPT ![q] = s],
           raced' = raced \/ raced' = raced \ {q},
           UNCHANGED <<apartment, resident, gone, names, saw>>,
           Typical(s), SeesOthers(s), HoldsOwn(s), ReadTrue(s)
    PROVE  IInv'
<1>1. Standing'
  BY DEF Standing, TablesOK, NamesOK, DuplicateResidentsAreExplained, ResidentsFollowApartments
<1>2. \A p \in Requests : request'[p] = IF p = q THEN s ELSE request[p]
  BY DEF Requesting
<1>3. s \in RequestState
  BY DEF Typical
<1>4. request' \in [Requests -> RequestState]
  BY <1>3 DEF Requesting
<1>5. ASSUME NEW p \in Requests
      PROVE  /\ (Typical(request[p]))' /\ (SeesOthers(request[p]))' /\ (HoldsOwn(request[p]))'
             /\ p \notin raced' => (ReadTrue(request[p]))'
  <2>1. CASE p = q
    BY <1>2, <2>1 DEF Typical, SeesOthers, HoldsOwn, ReadTrue
  <2>2. CASE p # q
    BY <1>2, <2>2 DEF Requesting, Typical, SeesOthers, HoldsOwn, ReadTrue
  <2> QED
    BY <2>1, <2>2
<1>6. Requesting'
  BY <1>4, <1>5 DEF Requesting
<1>7. (Standing /\ Requesting => IInv)'
  BY IInvParts, PTL
<1> QED
  BY <1>1, <1>6, <1>7

-----------------------------------------------------------------------------
(* Steps that write a row: the requests that go on keep what they need.    *)
LEMMA RequestsGoOn ==
    ASSUME Standing, Requesting,
           \A p \in Requests : request'[p] \in {request[p], Idle},
           request' \in [Requests -> RequestState],
           \A a \in Apartments : apartment[a] # NoApartment =>
              /\ apartment'[a] # NoApartment
              /\ apartment'[a].complex = apartment[a].complex
              /\ names[a] \subseteq names'[a],
           \A r \in Residents : resident[r] # NoResident =>
              /\ resident'[r] # NoResident
              /\ resident'[r].user = resident[r].user
              /\ resident'[r].complex = resident[r].complex,
           \A p \in Requests :
              request'[p] = request[p] /\ p \notin raced' =>
                 /\ p \notin raced
                 /\ request[p].pc \in {"insert", "assign", "update"} /\ request[p].apartment # Nil =>
                       apartment'[request[p].apartment] = apartment[request[p].apartment]
    PROVE  Requesting'
<1>1. \A a \in Apartments : apartment[a] # NoApartment <=> apartment[a].complex # Nil
  BY Rows DEF Standing
<1>2. \A r \in Residents : resident[r] # NoResident <=> resident[r].complex # Nil
  BY Rows DEF Standing
<1>3. ASSUME NEW p \in Requests
      PROVE  /\ (Typical(request[p]))' /\ (SeesOthers(request[p]))' /\ (HoldsOwn(request[p]))'
             /\ p \notin raced' => (ReadTrue(request[p]))'
  <2>1. CASE request'[p] = Idle
    BY <2>1 DEF Idle, Typical, SeesOthers, HoldsOwn, ReadTrue, RequestState
  <2>2. CASE request'[p] = request[p]
    <3> DEFINE s == request[p]
    <3>1. Typical(s) /\ SeesOthers(s) /\ HoldsOwn(s) /\ (p \notin raced => ReadTrue(s))
      BY DEF Requesting
    <3>2. /\ s \in RequestState /\ s.apartment \in Apartments \cup {Nil}
          /\ s.resident \in Residents \cup {Nil} /\ s.seen \subseteq Residents
      BY <3>1 DEF Typical, RequestState
    <3>3. (Typical(request[p]))'
      BY <2>2, <3>1, <3>2 DEF Typical
    <3>4. (SeesOthers(request[p]))'
      BY <2>2, <3>1, <3>2 DEF SeesOthers
    <3>5. (HoldsOwn(request[p]))'
      BY <1>1, <1>2, <2>2, <3>1, <3>2 DEF HoldsOwn, Typical
    <3>6. p \notin raced' => (ReadTrue(request[p]))'
      BY <2>2, <3>1, <3>2 DEF ReadTrue, Typical
    <3> QED
      BY <3>3, <3>4, <3>5, <3>6
  <2> QED
    BY <2>1, <2>2
<1> QED
  BY <1>3 DEF Requesting

LEMMA Finished ==
    ASSUME Requesting, NEW q \in Requests, Finish(q)
    PROVE  /\ request' \in [Requests -> RequestState]
           /\ \A p \in Requests : request'[p] = IF p = q THEN Idle ELSE request[p]
<1>1. Idle \in RequestState
  BY IdleFits DEF Typical
<1> QED
  BY <1>1 DEF Finish, Requesting

\* The write of a resident by a request that then ends.
LEMMA WritersFinish ==
    ASSUME Standing, Requesting, NEW q \in Requests, request[q].pc # "idle", Finish(q),
           raced' = raced \ {q},
           UNCHANGED <<apartment, names>>,
           \A r \in Residents : resident[r] # NoResident =>
              /\ resident'[r] # NoResident
              /\ resident'[r].user = resident[r].user
              /\ resident'[r].complex = resident[r].complex
    PROVE  Requesting'
<1>1. /\ request' \in [Requests -> RequestState]
      /\ \A p \in Requests : request'[p] = IF p = q THEN Idle ELSE request[p]
  BY Finished
<1>2. request[q] # Idle
  BY DEF Idle
<1> QED
  BY <1>1, <1>2, RequestsGoOn

\* An apartment is created, or changes without changing complex.
LEMMA ApartmentWritten ==
    ASSUME Standing, NEW a \in Apartments, NEW row \in ApartmentRow,
           apartment' = [apartment EXCEPT ![a] = row],
           row.complex # Nil, row.unit # Nil,
           apartment[a] # NoApartment => row.complex = apartment[a].complex,
           names' \in [Apartments -> SUBSET (Label \cup {Blank})],
           \A b \in Apartments \ {a} : names'[b] = names[b],
           apartment[a] # NoApartment => names[a] \subseteq names'[a],
           row.unit \in names'[a],
           raced' \subseteq Requests,
           UNCHANGED <<resident, gone, saw>>
    PROVE  Standing'
<1>1. \A b \in Apartments : apartment'[b] = IF b = a THEN row ELSE apartment[b]
  BY DEF Standing, TablesOK
<1>2. row # NoApartment
  BY DEF NoApartment
<1>3. TablesOK'
  BY <1>1 DEF Standing, TablesOK
<1>4. NamesOK'
  BY <1>1 DEF Standing, NamesOK
<1>5. \A r \in Residents : resident[r].apartment \in Apartments \cup {Nil}
  BY DEF Standing, TablesOK, ResidentRow
<1>6. \A r \in Residents : resident[r].apartment # Nil =>
         /\ resident[r].complex # Nil
         /\ apartment[resident[r].apartment].complex # Nil
         /\ apartment[resident[r].apartment] # NoApartment
  BY <1>5, Rows DEF Standing, ResidentsFollowApartments, NoResident, NoApartment
<1>7. ResidentsFollowApartments'
  BY <1>1, <1>5, <1>6 DEF Standing, ResidentsFollowApartments
<1>8. DuplicateResidentsAreExplained'
  BY DEF Standing, DuplicateResidentsAreExplained
<1> QED
  BY <1>3, <1>4, <1>7, <1>8 DEF Standing

\* A resident who is there changes apartment.
LEMMA ResidentMoved ==
    ASSUME Standing, NEW r \in Residents, NEW row \in ResidentRow,
           resident' = [resident EXCEPT ![r] = row],
           resident[r] # NoResident,
           row.complex = resident[r].complex, row.user = resident[r].user, row.unit # Nil,
           row.apartment # Nil =>
              /\ apartment[row.apartment].complex = row.complex
              /\ row.unit \in names[row.apartment],
           raced' \subseteq Requests,
           UNCHANGED <<apartment, gone, names, saw>>
    PROVE  Standing'
<1>1. \A s \in Residents : resident'[s] = IF s = r THEN row ELSE resident[s]
  BY DEF Standing, TablesOK
<1>2. row # NoResident
  BY Rows DEF NoResident, Standing
<1>3. TablesOK'
  BY <1>1, Rows DEF Standing, TablesOK
<1>4. ResidentsFollowApartments'
  BY <1>1 DEF Standing, ResidentsFollowApartments
<1>5. DuplicateResidentsAreExplained'
  BY <1>1, <1>2 DEF Standing, DuplicateResidentsAreExplained
<1>6. \A s \in Residents, t \in Residents : t \in saw[s] => resident'[t] # NoResident
  BY <1>1, <1>2 DEF Standing
<1>7. NamesOK'
  BY DEF Standing, NamesOK
<1> QED
  BY <1>3, <1>4, <1>5, <1>6, <1>7 DEF Standing

-----------------------------------------------------------------------------
(* One lemma per action.                                                   *)
LEMMA CreateApartmentStep ==
    ASSUME Standing, Requesting, NEW q \in Requests, NEW c \in Complexes \cup {Nil},
           NEW a \in Apartments, NEW unit \in Label \cup {Absent, Blank},
           NEW tower \in Towers \cup {Nil}, NEW number \in Numbers \cup {Nil},
           NEW status \in {0, 1, Absent},
           CreateApartment(q, c, a, unit, tower, number, status)
    PROVE  Standing' /\ Requesting'
<1> DEFINE label == ResolveUnitNumber(unit, tower, number)
           row == [complex |-> c, tower |-> tower, unit |-> label,
                   status |-> IF status = Absent THEN 1 ELSE status]
<1>1. label \in Label
  <2>1. CASE unit \notin {Absent, Blank}
    BY <2>1 DEF ResolveUnitNumber
  <2>2. CASE unit \in {Absent, Blank} /\ tower # Nil
    BY <2>2 DEF ResolveUnitNumber, CreateApartment, Label
  <2>3. CASE unit \in {Absent, Blank} /\ tower = Nil
    BY <2>3 DEF ResolveUnitNumber, CreateApartment, Label
  <2> QED
    BY <2>1, <2>2, <2>3
<1>2. row \in ApartmentRow
  BY <1>1 DEF ApartmentRow
<1>3. row.complex # Nil /\ row.unit # Nil /\ row.unit = label
  BY <1>1, NilAssumption DEF CreateApartment
<1>4. /\ apartment[a] = NoApartment
      /\ apartment' = [apartment EXCEPT ![a] = row]
      /\ names' = [names EXCEPT ![a] = {label}]
      /\ UNCHANGED <<resident, gone, request, saw, raced>>
  BY DEF CreateApartment
<1>5. /\ names' \in [Apartments -> SUBSET (Label \cup {Blank})]
      /\ \A b \in Apartments \ {a} : names'[b] = names[b]
      /\ row.unit \in names'[a]
      /\ raced' \subseteq Requests
  BY <1>1, <1>3, <1>4 DEF Standing
<1>6. Standing'
  BY <1>2, <1>3, <1>4, <1>5, ApartmentWritten
<1>7. \A b \in Apartments : apartment'[b] = IF b = a THEN row ELSE apartment[b]
  BY <1>4 DEF Standing, TablesOK
<1>8. \A p \in Requests :
         request[p].pc \in {"insert", "assign", "update"} /\ request[p].apartment # Nil =>
            apartment[request[p].apartment] # NoApartment /\ request[p].apartment \in Apartments
  <2>1. \A p \in Requests : request[p].apartment \in Apartments \cup {Nil}
                           /\ request[p].resident \in Residents \cup {Nil}
    BY DEF Requesting, RequestState
  <2> QED
    BY <2>1, Rows DEF Standing, Requesting, Typical, HoldsOwn
<1>9. Requesting'
  BY <1>4, <1>5, <1>7, <1>8, RequestsGoOn DEF Requesting
<1> QED
  BY <1>6, <1>9

LEMMA UpdateApartmentStep ==
    ASSUME Standing, Requesting, NEW q \in Requests, NEW c \in Complexes \cup {Nil},
           NEW a \in Apartments, NEW unit \in Label \cup {Absent, Blank},
           NEW tower \in Towers \cup {Absent, Nil}, NEW status \in {0, 1, Absent},
           UpdateApartment(q, c, a, unit, tower, status)
    PROVE  IInv'
<1> DEFINE given == {col \in {"tower", "unit"} : (IF col = "tower" THEN tower ELSE unit) # Absent}
           s == [Idle EXCEPT !.pc = "update", !.apartment = a, !.status = status,
                             !.tower = NextColumn(tower, apartment[a].tower),
                             !.unit = NextColumn(unit, apartment[a].unit),
                             !.given = given]
<1>1. apartment[a] # NoApartment /\ apartment[a] \in ApartmentRow /\ apartment[a].unit # Nil
  BY DEF UpdateApartment, ApartmentInScope, Standing, TablesOK
<1>2. /\ NextColumn(tower, apartment[a].tower) \in Towers \cup {Nil}
      /\ NextColumn(unit, apartment[a].unit) \in Label \cup {Blank}
      /\ "tower" \notin given => NextColumn(tower, apartment[a].tower) = apartment[a].tower
      /\ "unit" \notin given => NextColumn(unit, apartment[a].unit) = apartment[a].unit
  BY <1>1 DEF NextColumn, ApartmentRow
<1>3. /\ s \in RequestState /\ s.pc = "update" /\ s.apartment = a /\ s.given = given /\ s.seen = {}
      /\ s.tower = NextColumn(tower, apartment[a].tower)
      /\ s.unit = NextColumn(unit, apartment[a].unit)
  BY <1>2 DEF Idle, RequestState
<1>4. Typical(s) /\ SeesOthers(s) /\ HoldsOwn(s) /\ ReadTrue(s)
  BY <1>1, <1>2, <1>3, NilAssumption DEF Typical, SeesOthers, HoldsOwn, ReadTrue
<1>5. request' = [request EXCEPT ![q] = s] /\ UNCHANGED <<apartment, resident, gone, names, saw, raced>>
  BY DEF UpdateApartment, Start, history
<1> QED
  BY <1>4, <1>5, RequestStep

LEMMA WriteApartmentStep ==
    ASSUME Standing, Requesting, NEW q \in Requests, WriteApartment(q)
    PROVE  Standing' /\ Requesting'
<1> DEFINE s == request[q]
           a == s.apartment
           row == [apartment[a] EXCEPT !.tower = s.tower, !.unit = s.unit,
                                       !.status = NextColumn(s.status, apartment[a].status)]
<1>1. /\ s \in RequestState /\ a \in Apartments /\ apartment[a] # NoApartment
      /\ s.unit \in Label \cup {Blank} /\ s.unit # Nil
  BY NilAssumption DEF Requesting, Typical, RequestState, WriteApartment, Running
<1>2. apartment[a] \in ApartmentRow /\ apartment[a].complex # Nil
  BY <1>1 DEF Standing, TablesOK
<1>3. /\ row \in ApartmentRow /\ row.complex = apartment[a].complex /\ row.unit = s.unit
  BY <1>1, <1>2 DEF ApartmentRow, RequestState, NextColumn
<1>4. /\ apartment' = [apartment EXCEPT ![a] = row]
      /\ names' = [names EXCEPT ![a] = @ \cup {s.unit}]
      /\ raced' = (raced \cup Holding(a)) \ {q}
      /\ Finish(q)
      /\ UNCHANGED <<resident, gone, saw>>
  BY <1>1, <1>2 DEF WriteApartment, ApartmentRow, Standing, TablesOK
<1>5. /\ names' \in [Apartments -> SUBSET (Label \cup {Blank})]
      /\ \A b \in Apartments \ {a} : names'[b] = names[b]
      /\ names[a] \subseteq names'[a]
      /\ row.unit \in names'[a]
      /\ raced' \subseteq Requests
  BY <1>1, <1>3, <1>4 DEF Standing, Holding
<1>6. Standing'
  BY <1>1, <1>2, <1>3, <1>4, <1>5, ApartmentWritten
<1>7. \A b \in Apartments : apartment'[b] = IF b = a THEN row ELSE apartment[b]
  BY <1>4 DEF Standing, TablesOK
<1>8. \A p \in Requests : request'[p] = IF p = q THEN Idle ELSE request[p]
  BY <1>4, Finished
<1>9. request' \in [Requests -> RequestState]
  BY <1>4, Finished
<1>10. \A p \in Requests : request[p].apartment \in Apartments \cup {Nil}
  BY DEF Requesting, RequestState
<1>11. s.pc = "update" /\ Idle.pc = "idle"
  BY DEF WriteApartment, Running, Idle
<1>12. ASSUME NEW p \in Requests, request'[p] = request[p], p \notin raced'
       PROVE  /\ p \notin raced
              /\ request[p].pc \in {"insert", "assign", "update"} /\ request[p].apartment # Nil =>
                    apartment'[request[p].apartment] = apartment[request[p].apartment]
  <2>1. p # q
    BY <1>8, <1>11, <1>12
  <2>2. p \notin raced /\ p \notin Holding(a)
    BY <1>4, <1>12, <2>1
  <2> QED
    BY <1>7, <1>10, <2>2 DEF Holding
<1>13. apartment'[a] # NoApartment
  <2>1. apartment'[a].complex # Nil
    BY <1>1, <1>2, <1>3, <1>7
  <2> QED
    BY <2>1 DEF NoApartment
<1>14. /\ \A b \in Apartments : apartment[b] # NoApartment =>
              /\ apartment'[b] # NoApartment
              /\ apartment'[b].complex = apartment[b].complex
              /\ names[b] \subseteq names'[b]
       /\ \A r \in Residents : resident'[r] = resident[r]
       /\ \A p \in Requests : request'[p] \in {request[p], Idle}
  BY <1>1, <1>3, <1>4, <1>5, <1>7, <1>8, <1>13
<1>15. Requesting'
  BY <1>9, <1>12, <1>14, RequestsGoOn
<1> QED
  BY <1>6, <1>15

LEMMA RemoveApartmentStep ==
    ASSUME Standing, Requesting, NEW q \in Requests, NEW c \in Complexes \cup {Nil},
           NEW a \in Apartments, RemoveApartment(q, c, a)
    PROVE  Standing' /\ Requesting'
<1> DEFINE row == [apartment[a] EXCEPT !.status = 0]
<1>1. apartment[a] # NoApartment /\ apartment[a] \in ApartmentRow /\ apartment[a].complex # Nil
      /\ apartment[a].unit # Nil
  BY DEF RemoveApartment, ApartmentInScope, Standing, TablesOK
<1>2. row \in ApartmentRow /\ row.complex = apartment[a].complex /\ row.unit = apartment[a].unit
  BY <1>1 DEF ApartmentRow
<1>3. /\ apartment' = [apartment EXCEPT ![a] = row]
      /\ raced' = raced \cup Holding(a)
      /\ UNCHANGED <<resident, gone, request, names, saw>>
  BY DEF RemoveApartment
<1>4. raced' \subseteq Requests
  BY <1>3 DEF Standing, Holding
<1>5. row.unit \in names'[a]
  BY <1>1, <1>2, <1>3 DEF Standing, NamesOK
<1>6. Standing'
  BY <1>1, <1>2, <1>3, <1>4, <1>5, ApartmentWritten DEF Standing
<1>7. \A b \in Apartments : apartment'[b] = IF b = a THEN row ELSE apartment[b]
  BY <1>3 DEF Standing, TablesOK
<1>8. row # NoApartment
  BY <1>1, <1>2 DEF NoApartment
<1>9. \A p \in Requests : request[p].apartment \in Apartments \cup {Nil}
  BY DEF Requesting, RequestState
<1>10. ASSUME NEW p \in Requests, p \notin raced'
       PROVE  /\ p \notin raced
              /\ request[p].pc \in {"insert", "assign", "update"} /\ request[p].apartment # Nil =>
                    apartment'[request[p].apartment] = apartment[request[p].apartment]
  BY <1>3, <1>7, <1>9, <1>10 DEF Holding
<1>11. \A b \in Apartments : apartment[b] # NoApartment =>
              /\ apartment'[b] # NoApartment
              /\ apartment'[b].complex = apartment[b].complex
              /\ names[b] \subseteq names'[b]
  BY <1>2, <1>3, <1>7, <1>8
<1>12. Requesting'
  BY <1>3, <1>10, <1>11, RequestsGoOn DEF Requesting
<1> QED
  BY <1>6, <1>12

LEMMA CreateResidentStep ==
    ASSUME Standing, Requesting, NEW q \in Requests, NEW c \in Complexes \cup {Nil},
           NEW u \in Users, NEW a \in Apartments \cup {Nil}, NEW unit \in Label \cup {Absent, Blank},
           CreateResident(q, c, u, a, unit)
    PROVE  IInv'
<1> DEFINE here == {r \in Residents : Stands(r)}
           s == [Idle EXCEPT !.pc = IF a = Nil THEN "insert" ELSE "lookup", !.complex = c,
                             !.user = u, !.apartment = a, !.unit = IF a = Nil THEN unit ELSE Nil,
                             !.seen = here]
<1>1. c # Nil /\ (a = Nil => unit \in Label)
  BY DEF CreateResident, ResidentEditors
<1>2. /\ s \in RequestState /\ s.pc = (IF a = Nil THEN "insert" ELSE "lookup") /\ s.complex = c
      /\ s.user = u /\ s.apartment = a /\ s.unit = (IF a = Nil THEN unit ELSE Nil) /\ s.seen = here
  BY <1>1 DEF Idle, RequestState
<1>3. Typical(s)
  BY <1>1, <1>2, NilAssumption DEF Typical
<1>4. SeesOthers(s)
  BY <1>2 DEF SeesOthers, CreateResident, Stands
<1>5. HoldsOwn(s) /\ ReadTrue(s)
  BY <1>2 DEF HoldsOwn, ReadTrue
<1>6. request' = [request EXCEPT ![q] = s] /\ UNCHANGED <<apartment, resident, gone, names, saw, raced>>
  BY DEF CreateResident, Start, history
<1> QED
  BY <1>3, <1>4, <1>5, <1>6, RequestStep

LEMMA LookUpApartmentStep ==
    ASSUME Standing, Requesting, NEW q \in Requests, LookUpApartment(q)
    PROVE  IInv'
<1> DEFINE p == request[q]
           a == p.apartment
           s == [p EXCEPT !.pc = "insert", !.unit = apartment[a].unit]
<1>1. /\ p \in RequestState /\ p.pc = "lookup" /\ p.complex # Nil /\ a \in Apartments
      /\ SeesOthers(p)
  BY DEF Requesting, Typical, RequestState, LookUpApartment, Running
<1>2. /\ apartment[a].complex = p.complex /\ apartment[a].status = 1
      /\ apartment[a] \in ApartmentRow /\ apartment[a] # NoApartment /\ apartment[a].unit # Nil
  BY <1>1 DEF LookUpApartment, Assignable, Standing, TablesOK, NoApartment
<1>3. /\ s \in RequestState /\ s.pc = "insert" /\ s.complex = p.complex /\ s.user = p.user
      /\ s.apartment = a /\ s.unit = apartment[a].unit /\ s.seen = p.seen
  BY <1>1, <1>2 DEF RequestState, ApartmentRow
<1>4. apartment[a].unit \in names[a]
  BY <1>1, <1>2 DEF Standing, NamesOK
<1>5. Typical(s)
  BY <1>1, <1>2, <1>3 DEF Typical
<1>6. SeesOthers(s)
  BY <1>1, <1>3 DEF SeesOthers
<1>7. HoldsOwn(s)
  BY <1>2, <1>3, <1>4 DEF HoldsOwn
<1>8. ReadTrue(s)
  BY <1>2, <1>3 DEF ReadTrue
<1>9. request' = [request EXCEPT ![q] = s] /\ UNCHANGED <<apartment, resident, gone, names, saw, raced>>
  BY <1>1 DEF LookUpApartment, history, Requesting, RequestState
<1> QED
  BY <1>5, <1>6, <1>7, <1>8, <1>9, RequestStep

LEMMA AssignApartmentStep ==
    ASSUME Standing, Requesting, NEW q \in Requests, NEW c \in Complexes \cup {Nil},
           NEW r \in Residents, NEW a \in Apartments, AssignApartment(q, c, r, a)
    PROVE  IInv'
<1> DEFINE s == [Idle EXCEPT !.pc = "assign", !.resident = r,
                             !.apartment = a, !.unit = apartment[a].unit]
<1>1. c # Nil /\ resident[r].complex = c /\ apartment[a].complex = c /\ apartment[a].status = 1
  BY DEF AssignApartment, ResidentEditors, Assignable
<1>2. /\ resident[r] # NoResident /\ apartment[a] # NoApartment
      /\ apartment[a] \in ApartmentRow /\ apartment[a].unit # Nil
  BY <1>1 DEF Standing, TablesOK, NoResident, NoApartment
<1>3. /\ s \in RequestState /\ s.pc = "assign" /\ s.resident = r
      /\ s.apartment = a /\ s.unit = apartment[a].unit /\ s.seen = {}
  BY <1>2 DEF Idle, RequestState, ApartmentRow
<1>4. apartment[a].unit \in names[a]
  BY <1>2 DEF Standing, NamesOK
<1>5. Typical(s)
  BY <1>2, <1>3, NilAssumption DEF Typical
<1>6. SeesOthers(s) /\ HoldsOwn(s) /\ ReadTrue(s)
  BY <1>1, <1>3, <1>4 DEF SeesOthers, HoldsOwn, ReadTrue
<1>7. request' = [request EXCEPT ![q] = s] /\ UNCHANGED <<apartment, resident, gone, names, saw, raced>>
  BY DEF AssignApartment, Start, history
<1> QED
  BY <1>5, <1>6, <1>7, RequestStep

LEMMA AbortStep ==
    ASSUME Standing, Requesting, NEW q \in Requests, Abort(q)
    PROVE  IInv'
BY IdleFits, RequestStep DEF Abort, Finish

LEMMA InsertResidentStep ==
    ASSUME Standing, Requesting, NEW q \in Requests, NEW r \in Residents, InsertResident(q, r)
    PROVE  Standing' /\ Requesting'
<1> DEFINE p == request[q]
           row == [complex |-> p.complex, user |-> p.user, apartment |-> p.apartment, unit |-> p.unit]
<1>1. /\ p \in RequestState /\ p.pc = "insert" /\ p.complex # Nil /\ p.unit # Nil
      /\ SeesOthers(p) /\ HoldsOwn(p)
  BY DEF Requesting, Typical, InsertResident, Running
<1>2. /\ row \in ResidentRow /\ row.complex = p.complex /\ row.user = p.user
      /\ row.apartment = p.apartment /\ row.unit = p.unit
  BY <1>1 DEF RequestState, ResidentRow
<1>3. /\ resident[r] = NoResident
      /\ resident' = [resident EXCEPT ![r] = row]
      /\ saw' = [saw EXCEPT ![r] = p.seen]
      /\ raced' = raced \ {q}
      /\ Finish(q)
      /\ UNCHANGED <<apartment, gone, names>>
  BY DEF InsertResident
<1>4. \A s \in Residents : /\ resident'[s] = IF s = r THEN row ELSE resident[s]
                           /\ saw'[s] = IF s = r THEN p.seen ELSE saw[s]
  BY <1>3 DEF Standing, TablesOK
<1>5. row # NoResident
  BY <1>1, <1>2 DEF NoResident
<1>6. p.seen \subseteq Residents /\ r \notin p.seen
  BY <1>1, <1>3 DEF RequestState, SeesOthers
<1>7. TablesOK'
  BY <1>1, <1>2, <1>3, <1>4 DEF Standing, TablesOK
<1>8. /\ NamesOK' /\ names' \in [Apartments -> SUBSET (Label \cup {Blank})]
      /\ raced' \subseteq Requests /\ gone' \subseteq Users
  BY <1>3 DEF Standing, NamesOK
<1>9. saw' \in [Residents -> SUBSET Residents]
  BY <1>3, <1>6 DEF Standing
<1>10. \A s \in Residents, t \in Residents : t \in saw'[s] => resident'[t] # NoResident
  BY <1>1, <1>4, <1>5 DEF Standing, SeesOthers
<1>11. ResidentsFollowApartments'
  <2>1. p.apartment # Nil => apartment[p.apartment].complex = p.complex /\ p.unit \in names[p.apartment]
    BY <1>1 DEF HoldsOwn
  <2> QED
    BY <1>2, <1>3, <1>4, <2>1 DEF Standing, ResidentsFollowApartments
<1>12. DuplicateResidentsAreExplained'
  <2>1. \A s \in Residents : resident[s] # NoResident => r \notin saw[s]
    BY <1>3 DEF Standing
  <2>2. \A s \in Residents \ {r} :
           resident[s].user = p.user /\ resident[s].complex = p.complex /\ resident[s] # NoResident =>
              s \notin p.seen /\ r \notin saw[s]
    BY <1>1, <2>1 DEF SeesOthers
  <2>3. \A s \in Residents : resident[s].complex = p.complex => resident[s] # NoResident
    BY <1>1 DEF NoResident
  <2> QED
    BY <1>2, <1>4, <2>2, <2>3 DEF Standing, DuplicateResidentsAreExplained
<1>13. Standing'
  BY <1>7, <1>8, <1>9, <1>10, <1>11, <1>12 DEF Standing
<1>14. \A s \in Residents : resident[s] # NoResident => resident'[s] = resident[s]
  BY <1>3, <1>4
<1>15. Requesting'
  BY <1>1, <1>3, <1>14, WritersFinish
<1> QED
  BY <1>13, <1>15

LEMMA WriteAssignmentStep ==
    ASSUME Standing, Requesting, NEW q \in Requests, WriteAssignment(q)
    PROVE  Standing' /\ Requesting'
<1> DEFINE p == request[q]
           r == p.resident
           row == [resident[r] EXCEPT !.apartment = p.apartment, !.unit = p.unit]
<1>1. /\ p \in RequestState /\ p.pc = "assign" /\ p.unit # Nil /\ p.apartment \in Apartments
      /\ r \in Residents /\ resident[r] # NoResident /\ HoldsOwn(p)
  BY DEF Requesting, Typical, RequestState, WriteAssignment, Running
<1>2. resident[r] \in ResidentRow
  BY <1>1 DEF Standing, TablesOK
<1>3. /\ row \in ResidentRow /\ row.complex = resident[r].complex /\ row.user = resident[r].user
      /\ row.apartment = p.apartment /\ row.unit = p.unit
  BY <1>1, <1>2 DEF RequestState, ResidentRow
<1>4. /\ resident' = [resident EXCEPT ![r] = row]
      /\ raced' = raced \ {q}
      /\ Finish(q)
      /\ UNCHANGED <<apartment, gone, names, saw>>
  BY <1>1, <1>2 DEF WriteAssignment, ResidentRow, Standing, TablesOK
<1>5. apartment[row.apartment].complex = row.complex /\ row.unit \in names[row.apartment]
  BY <1>1, <1>3 DEF HoldsOwn
<1>6. raced' \subseteq Requests
  BY <1>4 DEF Standing
<1>7. Standing'
  BY <1>1, <1>3, <1>4, <1>5, <1>6, ResidentMoved
<1>8. \A s \in Residents : resident'[s] = IF s = r THEN row ELSE resident[s]
  BY <1>4 DEF Standing, TablesOK
<1>9. Requesting'
  <2>1. resident[r].complex # Nil
    BY <1>1, Rows DEF Standing
  <2>2. row # NoResident
    BY <1>3, <2>1 DEF NoResident
  <2> QED
    BY <1>1, <1>3, <1>4, <1>8, <2>2, WritersFinish
<1> QED
  BY <1>7, <1>9

LEMMA UnassignApartmentStep ==
    ASSUME Standing, Requesting, NEW q \in Requests, NEW c \in Complexes \cup {Nil},
           NEW r \in Residents, UnassignApartment(q, c, r)
    PROVE  Standing' /\ Requesting'
<1> DEFINE row == [resident[r] EXCEPT !.apartment = Nil, !.unit = Unassigned]
<1>1. c # Nil /\ resident[r].complex = c
  BY DEF UnassignApartment, ResidentEditors
<1>2. resident[r] # NoResident /\ resident[r] \in ResidentRow
  BY <1>1 DEF Standing, TablesOK, NoResident
<1>3. /\ row \in ResidentRow /\ row.complex = resident[r].complex /\ row.user = resident[r].user
      /\ row.apartment = Nil /\ row.unit = Unassigned
  BY <1>2 DEF ResidentRow
<1>4. /\ resident' = [resident EXCEPT ![r] = row]
      /\ UNCHANGED <<apartment, gone, request, names, saw, raced>>
  BY <1>2 DEF UnassignApartment, history, Standing, TablesOK, ResidentRow
<1>5. raced' \subseteq Requests
  BY <1>4 DEF Standing
<1>6. Standing'
  BY <1>2, <1>3, <1>4, <1>5, ResidentMoved, NilAssumption
<1>7. \A s \in Residents : resident'[s] = IF s = r THEN row ELSE resident[s]
  BY <1>4 DEF Standing, TablesOK
<1>8. row # NoResident
  BY <1>1, <1>3 DEF NoResident
<1>9. Requesting'
  BY <1>3, <1>4, <1>7, <1>8, RequestsGoOn DEF Requesting
<1> QED
  BY <1>6, <1>9

LEMMA RemoveUserStep ==
    ASSUME Standing, Requesting, NEW u \in Users, RemoveUser(u)
    PROVE  IInv'
<1>1. gone' \subseteq Users /\ UNCHANGED <<apartment, resident, request, names, saw, raced>>
  BY DEF RemoveUser, history, Standing
<1>2. Standing'
  BY <1>1 DEF Standing, TablesOK, NamesOK, DuplicateResidentsAreExplained, ResidentsFollowApartments
<1>3. Requesting'
  BY <1>1 DEF Requesting, Typical, SeesOthers, HoldsOwn, ReadTrue
<1>4. (Standing /\ Requesting => IInv)'
  BY IInvParts, PTL
<1> QED
  BY <1>2, <1>3, <1>4

LEMMA Step == IInv /\ [Next]_vars => IInv'
<1> SUFFICES ASSUME IInv, [Next]_vars PROVE IInv'
  OBVIOUS
<1>1. Standing /\ Requesting
  BY IInvParts
<1>2. (Standing /\ Requesting => IInv)'
  BY IInvParts, PTL
<1>3. CASE UNCHANGED vars
  <2>1. Standing'
    BY <1>1, <1>3 DEF vars, Standing, TablesOK, NamesOK, DuplicateResidentsAreExplained,
                      ResidentsFollowApartments
  <2>2. Requesting'
    BY <1>1, <1>3 DEF vars, Requesting, Typical, SeesOthers, HoldsOwn, ReadTrue
  <2> QED
    BY <1>2, <2>1, <2>2
<1>4. ASSUME NEW q \in Requests, NEW c \in Complexes \cup {Nil}, Arrive(q, c) PROVE IInv'
  <2>1. CASE \E a \in Apartments, unit \in Label \cup {Absent, Blank}, tower \in Towers \cup {Nil},
                number \in Numbers \cup {Nil}, status \in {0, 1, Absent} :
                CreateApartment(q, c, a, unit, tower, number, status)
    BY <1>1, <1>2, <2>1, CreateApartmentStep
  <2>2. CASE \E a \in Apartments, unit \in Label \cup {Absent, Blank},
                tower \in Towers \cup {Absent, Nil}, status \in {0, 1, Absent} :
                UpdateApartment(q, c, a, unit, tower, status)
    BY <1>1, <2>2, UpdateApartmentStep
  <2>3. CASE \E a \in Apartments : RemoveApartment(q, c, a)
    BY <1>1, <1>2, <2>3, RemoveApartmentStep
  <2>4. CASE \E u \in Users, a \in Apartments \cup {Nil}, unit \in Label \cup {Absent, Blank} :
                CreateResident(q, c, u, a, unit)
    BY <1>1, <2>4, CreateResidentStep
  <2>5. CASE \E r \in Residents, a \in Apartments : AssignApartment(q, c, r, a)
    BY <1>1, <2>5, AssignApartmentStep
  <2>6. CASE \E r \in Residents : UnassignApartment(q, c, r)
    BY <1>1, <1>2, <2>6, UnassignApartmentStep
  <2> QED
    BY <1>4, <2>1, <2>2, <2>3, <2>4, <2>5, <2>6 DEF Arrive
<1>5. ASSUME NEW q \in Requests, Continue(q) PROVE IInv'
  <2>1. CASE WriteApartment(q)
    BY <1>1, <1>2, <2>1, WriteApartmentStep
  <2>2. CASE LookUpApartment(q)
    BY <1>1, <2>2, LookUpApartmentStep
  <2>3. CASE \E r \in Residents : InsertResident(q, r)
    BY <1>1, <1>2, <2>3, InsertResidentStep
  <2>4. CASE WriteAssignment(q)
    BY <1>1, <1>2, <2>4, WriteAssignmentStep
  <2>5. CASE Abort(q)
    BY <1>1, <2>5, AbortStep
  <2> QED
    BY <1>5, <2>1, <2>2, <2>3, <2>4, <2>5 DEF Continue
<1>6. ASSUME NEW u \in Users, RemoveUser(u) PROVE IInv'
  BY <1>1, <1>6, RemoveUserStep
<1> QED
  BY <1>3, <1>4, <1>5, <1>6 DEF Next

-----------------------------------------------------------------------------
(* What a request does when it ends.                                       *)
LEMMA Committing ==
    ASSUME Requesting, [Next]_vars, NEW q \in Requests, Commits(q)
    PROVE  \/ WriteApartment(q)
           \/ \E r \in Residents : InsertResident(q, r)
           \/ WriteAssignment(q)
           \/ Abort(q)
<1>1. request[q].pc # "idle" /\ request'[q].pc = "idle"
  BY DEF Commits
<1>2. ASSUME NEW p \in Requests, NEW s, request' = [request EXCEPT ![p] = s]
      PROVE  p = q /\ s.pc = "idle"
  BY <1>1, <1>2 DEF Requesting
<1>3. request' # request
  BY <1>1
<1>4. CASE UNCHANGED vars \/ \E u \in Users : RemoveUser(u)
  BY <1>3, <1>4 DEF vars, RemoveUser
<1>5. ASSUME NEW p \in Requests, NEW c \in Complexes \cup {Nil}, Arrive(p, c) PROVE FALSE
  <2>1. ASSUME NEW s, Start(p, s) PROVE s.pc = "idle" /\ p = q /\ request[p].pc = "idle"
    BY <1>2, <2>1 DEF Start, Running
  <2> QED
    BY <1>1, <1>3, <1>5, <2>1
       DEF Arrive, CreateApartment, UpdateApartment, RemoveApartment, CreateResident,
           AssignApartment, UnassignApartment
<1>6. ASSUME NEW p \in Requests, Continue(p)
      PROVE  p = q /\ ~ LookUpApartment(p)
  <2>1. p = q
    BY <1>2, <1>6 DEF Continue, WriteApartment, LookUpApartment, InsertResident, WriteAssignment,
                      Abort, Finish
  <2>2. ~ LookUpApartment(p)
    <3>1. LookUpApartment(p) => request'[p].pc = "insert"
      BY DEF LookUpApartment, Requesting, RequestState
    <3> QED
      BY <1>1, <2>1, <3>1
  <2> QED
    BY <2>1, <2>2
<1> QED
  BY <1>4, <1>5, <1>6 DEF Next, Continue

LEMMA AssignmentStep ==
    ASSUME IInv, [Next]_vars, NEW q \in Requests, NEW r \in Residents,
           Commits(q), q \notin raced, MovedIn(r)
    PROVE  /\ apartment[resident'[r].apartment].status = 1
           /\ resident'[r].unit = apartment[resident'[r].apartment].unit
<1>1. Standing /\ Requesting
  BY IInvParts
<1>2. resident'[r] # resident[r] /\ resident'[r].apartment # Nil
  BY DEF MovedIn
<1> DEFINE p == request[q]
<1>3. p \in RequestState /\ ReadTrue(p)
  BY <1>1 DEF Requesting
<1>4. ASSUME NEW s \in Residents, InsertResident(q, s)
      PROVE  /\ p.pc = "insert"
             /\ resident'[r].apartment = p.apartment /\ resident'[r].unit = p.unit
  BY <1>1, <1>2, <1>4 DEF InsertResident, Running, Standing, TablesOK
<1>5. ASSUME WriteAssignment(q)
      PROVE  /\ p.pc = "assign" /\ p.apartment # Nil
             /\ resident'[r].apartment = p.apartment /\ resident'[r].unit = p.unit
  <2>1. p.pc = "assign" /\ p.resident \in Residents /\ p.apartment # Nil
        /\ resident[p.resident] \in ResidentRow
    BY <1>1, <1>5 DEF WriteAssignment, Running, Requesting, Typical, RequestState, Standing, TablesOK
  <2> DEFINE row == [resident[p.resident] EXCEPT !.apartment = p.apartment, !.unit = p.unit]
  <2>2. row.apartment = p.apartment /\ row.unit = p.unit
    BY <2>1 DEF ResidentRow
  <2>3. resident' = [resident EXCEPT ![p.resident] = row]
    BY <1>1, <1>5, <2>1 DEF WriteAssignment, Standing, TablesOK, ResidentRow
  <2> QED
    BY <1>1, <1>2, <2>1, <2>2, <2>3 DEF Standing, TablesOK
<1>6. (\E s \in Residents : InsertResident(q, s)) \/ WriteAssignment(q)
  BY <1>1, <1>2, Committing DEF WriteApartment, Abort
<1> QED
  BY <1>2, <1>3, <1>4, <1>5, <1>6 DEF ReadTrue

LEMMA UpdateWritesBack ==
    ASSUME IInv, [Next]_vars, NEW q \in Requests, Running(q, "update"), Commits(q),
           ReadTrue(request[q])
    PROVE  LET a == request[q].apartment
           IN  /\ "tower" \notin request[q].given => apartment'[a].tower = apartment[a].tower
               /\ "unit" \notin request[q].given => apartment'[a].unit = apartment[a].unit
<1> DEFINE p == request[q]
           a == p.apartment
<1>1. Standing /\ Requesting
  BY IInvParts
<1>2. /\ p.pc = "update" /\ ReadTrue(p) /\ a \in Apartments /\ apartment[a] \in ApartmentRow
  BY <1>1 DEF Running, Requesting, Typical, RequestState, Standing, TablesOK
<1>3. CASE Abort(q)
  BY <1>3 DEF Abort
<1>4. CASE WriteApartment(q)
  <2> DEFINE row == [apartment[a] EXCEPT !.tower = p.tower, !.unit = p.unit,
                                         !.status = NextColumn(p.status, apartment[a].status)]
  <2>1. row.tower = p.tower /\ row.unit = p.unit
    BY <1>2 DEF ApartmentRow
  <2>2. apartment' = [apartment EXCEPT ![a] = row]
    BY <1>1, <1>2, <1>4 DEF WriteApartment, Standing, TablesOK, ApartmentRow
  <2>3. apartment'[a].tower = p.tower /\ apartment'[a].unit = p.unit
    BY <1>1, <1>2, <2>1, <2>2 DEF Standing, TablesOK
  <2> QED
    BY <1>2, <2>3 DEF ReadTrue
<1> QED
  BY <1>1, <1>2, <1>3, <1>4, Committing DEF InsertResident, WriteAssignment, Running

LEMMA UpdateStep ==
    ASSUME IInv, [Next]_vars, NEW q \in Requests, Running(q, "update"), Commits(q), q \notin raced
    PROVE  LET a == request[q].apartment
           IN  /\ "tower" \notin request[q].given => apartment'[a].tower = apartment[a].tower
               /\ "unit" \notin request[q].given => apartment'[a].unit = apartment[a].unit
<1>1. ReadTrue(request[q])
  BY IInvParts DEF Requesting
<1> QED
  BY <1>1, UpdateWritesBack

-----------------------------------------------------------------------------
\* The inductive invariant holds of the apartments and residents of any number
\* of complexes, served by any number of overlapping requests.
THEOREM Inductive == Spec => []IInv
BY Initially, Step, PTL DEF Spec

\* Every row of the two tables has what its columns must have, and every request
\* in flight what its next statement needs.
THEOREM Typed == Spec => []TypeOK
BY Inductive, PTL DEF IInv

\* create (residents.service.ts:68): duplicates come only from overlaps.
THEOREM Duplicates == Spec => []DuplicateResidentsAreExplained
BY Inductive, PTL DEF IInv

\* create and assignApartment (residents.service.ts:92, 145): nobody is ever
\* placed in an apartment of another complex, or under a unit number which that
\* apartment never had.
THEOREM Followed == Spec => []ResidentsFollowApartments
BY Inductive, PTL DEF IInv

\* assignApartment (residents.service.ts:145): what is written is what the
\* apartment is at that moment, unless a change of it overtook the request.
THEOREM Assignments == Spec => AssignmentsAreCurrent
<1>1. IInv /\ [Next]_vars =>
         [\A q \in Requests, r \in Residents :
             Commits(q) /\ q \notin raced /\ MovedIn(r) =>
                LET a == resident'[r].apartment
                IN  apartment[a].status = 1 /\ resident'[r].unit = apartment[a].unit]_vars
  BY AssignmentStep
<1> QED
  BY <1>1, Inductive, PTL DEF Spec, AssignmentsAreCurrent

\* update (apartments.service.ts:93): the columns that were not sent keep their
\* values, unless a change of the apartment overtook the request.
THEOREM UnsentColumns == Spec => UnsentColumnsStay
<1>1. IInv /\ [Next]_vars =>
         [\A q \in Requests :
             Running(q, "update") /\ Commits(q) /\ q \notin raced =>
                LET a == request[q].apartment
                IN  /\ "tower" \notin request[q].given => apartment'[a].tower = apartment[a].tower
                    /\ "unit" \notin request[q].given => apartment'[a].unit = apartment[a].unit]_vars
  BY UpdateStep
<1> QED
  BY <1>1, Inductive, PTL DEF Spec, UnsentColumnsStay

-----------------------------------------------------------------------------
(* What a lock on the user would give: no two requests at once register    *)
(* the same user in the same complex.                                      *)
UsersLocked ==
    \A p, q \in Requests :
        /\ p # q
        /\ request[p].pc \in {"lookup", "insert"}
        /\ request[q].pc \in {"lookup", "insert"}
        => request[p].user # request[q].user \/ request[p].complex # request[q].complex

\* Then what create found is still so when it inserts.
StillNoResident ==
    \A q \in Requests, r \in Residents :
        request[q].pc \in {"lookup", "insert"} /\ resident[r] # NoResident
        => ~ (resident[r].user = request[q].user /\ resident[r].complex = request[q].complex)

RegisteredOnce ==
    \A r, s \in Residents :
        r # s /\ resident[r] # NoResident
        => resident[r].user # resident[s].user \/ resident[r].complex # resident[s].complex

UInv == StillNoResident /\ RegisteredOnce

\* Steps that register nobody and in which only q goes on.
LEMMA NobodyRegisters ==
    ASSUME IInv, UInv, NEW q \in Requests, NEW n,
           request' = [request EXCEPT ![q] = n],
           \/ n.pc \notin {"lookup", "insert"}
           \/ /\ request[q].pc \in {"lookup", "insert"}
              /\ n.user = request[q].user /\ n.complex = request[q].complex
           \/ \A r \in Residents : ~ (resident[r].user = n.user /\ resident[r].complex = n.complex),
           \A r \in Residents : /\ resident'[r] # NoResident => resident[r] # NoResident
                                /\ resident'[r].user = resident[r].user
                                /\ resident'[r].complex = resident[r].complex
    PROVE  UInv'
<1>1. \A p \in Requests : request'[p] = IF p = q THEN n ELSE request[p]
  BY DEF IInv, TypeOK, RequestsOK
<1>2. StillNoResident'
  BY <1>1 DEF UInv, StillNoResident
<1>3. RegisteredOnce'
  BY DEF UInv, RegisteredOnce
<1> QED
  BY <1>2, <1>3 DEF UInv

LEMMA LockedInsert ==
    ASSUME IInv, UInv, UsersLocked, NEW q \in Requests, NEW r \in Residents, InsertResident(q, r)
    PROVE  UInv'
<1> DEFINE p == request[q]
           row == [complex |-> p.complex, user |-> p.user, apartment |-> p.apartment, unit |-> p.unit]
<1>1. /\ resident' = [resident EXCEPT ![r] = row]
      /\ request' = [request EXCEPT ![q] = Idle]
      /\ resident[r] = NoResident /\ p.pc = "insert"
  BY DEF InsertResident, Finish, Running
<1>2. /\ \A t \in Residents : resident'[t] = IF t = r THEN row ELSE resident[t]
      /\ \A o \in Requests : request'[o] = IF o = q THEN Idle ELSE request[o]
  BY <1>1 DEF IInv, TypeOK, RequestsOK, TablesOK
<1>3. row.user = p.user /\ row.complex = p.complex /\ p.complex # Nil
  BY <1>1 DEF IInv, TypeOK, RequestsOK
<1> HIDE DEF row
<1>4. StillNoResident'
  <2> SUFFICES ASSUME NEW o \in Requests, NEW t \in Residents,
                      request'[o].pc \in {"lookup", "insert"}, resident'[t] # NoResident
               PROVE  ~ (resident'[t].user = request'[o].user
                           /\ resident'[t].complex = request'[o].complex)
    BY DEF StillNoResident
  <2>1. o # q /\ request'[o] = request[o]
    BY <1>2 DEF Idle
  <2>2. CASE t = r
    BY <1>1, <1>2, <1>3, <2>1, <2>2 DEF UsersLocked
  <2>3. CASE t # r
    BY <1>2, <2>1, <2>3 DEF UInv, StillNoResident
  <2> QED
    BY <2>2, <2>3
<1>5. RegisteredOnce'
  <2>1. ASSUME NEW t \in Residents, t # r
        PROVE  resident'[t].user # row.user \/ resident'[t].complex # row.complex
    <3>1. CASE resident[t] # NoResident
      BY <1>1, <1>2, <1>3, <2>1, <3>1 DEF UInv, StillNoResident
    <3>2. CASE resident[t] = NoResident
      BY <1>2, <1>3, <2>1, <3>2 DEF NoResident
    <3> QED
      BY <3>1, <3>2
  <2>2. ASSUME NEW s \in Residents, NEW t \in Residents, s # t, resident'[s] # NoResident
        PROVE  resident'[s].user # resident'[t].user \/ resident'[s].complex # resident'[t].complex
    <3>1. CASE s # r /\ t # r
      BY <1>2, <2>2, <3>1 DEF UInv, RegisteredOnce
    <3>2. CASE s = r \/ t = r
      BY <1>2, <2>1, <2>2, <3>2
    <3> QED
      BY <3>1, <3>2
  <2> QED
    BY <2>2 DEF RegisteredOnce
<1> QED
  BY <1>4, <1>5 DEF UInv

LEMMA LockedRegistration == IInv /\ UInv /\ UsersLocked /\ [Next]_vars => UInv'
<1> SUFFICES ASSUME IInv, UInv, UsersLocked, [Next]_vars PROVE UInv'
  OBVIOUS
<1>1. Standing /\ Requesting
  BY IInvParts
<1>2. Idle.pc \notin {"lookup", "insert"}
  BY DEF Idle
<1>3. ASSUME NEW r \in Residents, NEW a, NEW unit, NEW q \in Requests,
             resident[r] # NoResident, UNCHANGED request \/ Finish(q),
             resident' = [resident EXCEPT ![r].apartment = a, ![r].unit = unit]
      PROVE  UInv'
  <2> DEFINE row == [resident[r] EXCEPT !.apartment = a, !.unit = unit]
  <2>1. resident[r] \in ResidentRow
    BY <1>1 DEF Standing, TablesOK
  <2>2. row.user = resident[r].user /\ row.complex = resident[r].complex
    BY <2>1 DEF ResidentRow
  <2>3. resident' = [resident EXCEPT ![r] = row]
    BY <1>1, <1>3, <2>1 DEF Standing, TablesOK, ResidentRow
  <2> HIDE DEF row
  <2>4. \A s \in Residents : /\ resident'[s] # NoResident => resident[s] # NoResident
                             /\ resident'[s].user = resident[s].user
                             /\ resident'[s].complex = resident[s].complex
    BY <1>1, <1>3, <2>2, <2>3 DEF Standing, TablesOK
  <2>5. CASE Finish(q)
    BY <1>2, <2>4, <2>5, NobodyRegisters DEF Finish
  <2>6. CASE UNCHANGED request
    BY <2>4, <2>6 DEF UInv, StillNoResident, RegisteredOnce
  <2> QED
    BY <1>3, <2>5, <2>6
<1>4. ASSUME NEW q \in Requests, NEW c \in Complexes \cup {Nil}, Arrive(q, c) PROVE UInv'
  <2>1. ASSUME UNCHANGED <<resident, request>> PROVE UInv'
    BY <2>1 DEF UInv, StillNoResident, RegisteredOnce
  <2>2. ASSUME NEW a, NEW unit, NEW tower, NEW status, UpdateApartment(q, c, a, unit, tower, status)
        PROVE  UInv'
    <3> DEFINE n == [Idle EXCEPT !.pc = "update", !.apartment = a, !.status = status,
                                 !.tower = NextColumn(tower, apartment[a].tower),
                                 !.unit = NextColumn(unit, apartment[a].unit),
                                 !.given = {col \in {"tower", "unit"} :
                                           (IF col = "tower" THEN tower ELSE unit) # Absent}]
    <3>1. n.pc = "update"
      BY DEF Idle
    <3>2. request' = [request EXCEPT ![q] = n] /\ UNCHANGED resident
      BY <2>2 DEF UpdateApartment, Start
    <3> HIDE DEF n
    <3> QED
      BY <3>1, <3>2, NobodyRegisters
  <2>3. ASSUME NEW u, NEW a, NEW unit, CreateResident(q, c, u, a, unit) PROVE UInv'
    <3> DEFINE n == [Idle EXCEPT !.pc = IF a = Nil THEN "insert" ELSE "lookup", !.complex = c,
                             !.user = u, !.apartment = a, !.unit = IF a = Nil THEN unit ELSE Nil,
                             !.seen = {r \in Residents : Stands(r)}]
    <3>1. n.user = u /\ n.complex = c
      BY DEF Idle
    <3>2. request' = [request EXCEPT ![q] = n] /\ UNCHANGED resident
      BY <2>3 DEF CreateResident, Start
    <3>3. \A r \in Residents : ~ (resident[r].user = u /\ resident[r].complex = c)
      BY <2>3 DEF CreateResident, ResidentEditors, Stands, NoResident
    <3> HIDE DEF n
    <3> QED
      BY <3>1, <3>2, <3>3, NobodyRegisters
  <2>4. ASSUME NEW r, NEW a, AssignApartment(q, c, r, a) PROVE UInv'
    <3> DEFINE n == [Idle EXCEPT !.pc = "assign", !.resident = r,
                                 !.apartment = a, !.unit = apartment[a].unit]
    <3>1. n.pc = "assign"
      BY DEF Idle
    <3>2. request' = [request EXCEPT ![q] = n] /\ UNCHANGED resident
      BY <2>4 DEF AssignApartment, Start
    <3> HIDE DEF n
    <3> QED
      BY <3>1, <3>2, NobodyRegisters
  <2>5. ASSUME NEW r \in Residents, UnassignApartment(q, c, r) PROVE UInv'
    <3>1. c # Nil /\ resident[r].complex = c
      BY <2>5 DEF UnassignApartment, ResidentEditors
    <3>2. resident[r] # NoResident
      BY <3>1 DEF NoResident
    <3> QED
      BY <1>3, <2>5, <3>2 DEF UnassignApartment
  <2> QED
    BY <1>4, <2>1, <2>2, <2>3, <2>4, <2>5 DEF Arrive, CreateApartment, RemoveApartment
<1>5. ASSUME NEW q \in Requests, Continue(q) PROVE UInv'
  <2>1. CASE WriteApartment(q) \/ Abort(q)
    BY <1>2, <2>1, NobodyRegisters DEF WriteApartment, Abort, Finish
  <2>2. CASE LookUpApartment(q)
    <3> DEFINE n == [request[q] EXCEPT !.pc = "insert", !.unit = apartment[request[q].apartment].unit]
    <3>1. /\ request[q].pc = "lookup"
          /\ request' = [request EXCEPT ![q].pc = "insert",
                                        ![q].unit = apartment[request[q].apartment].unit]
          /\ UNCHANGED resident
      BY <2>2 DEF LookUpApartment, Running
    <3>2. request[q] \in RequestState
      BY <1>1 DEF Requesting
    <3>3. n.user = request[q].user /\ n.complex = request[q].complex
      BY <3>2 DEF RequestState
    <3>4. request' = [request EXCEPT ![q] = n]
      BY <1>1, <3>1, <3>2 DEF Requesting, RequestState
    <3> HIDE DEF n
    <3> QED
      BY <3>1, <3>3, <3>4, NobodyRegisters
  <2>3. CASE WriteAssignment(q)
    <3>1. request[q].resident \in Residents /\ resident[request[q].resident] # NoResident
      BY <1>1, <2>3 DEF WriteAssignment, Running, Requesting, Typical, RequestState
    <3> QED
      BY <1>3, <2>3, <3>1 DEF WriteAssignment
  <2> QED
    BY <1>5, <2>1, <2>2, <2>3, LockedInsert DEF Continue
<1>6. CASE UNCHANGED vars \/ \E u \in Users : RemoveUser(u)
  BY <1>6 DEF vars, RemoveUser, UInv, StillNoResident, RegisteredOnce
<1> QED
  BY <1>4, <1>5, <1>6 DEF Next

\* If create (residents.service.ts:68) excluded itself for one user and complex
\* from its look to its insert, nobody would ever be registered twice there.
THEOREM LockedResidents == Spec /\ []UsersLocked => []RegisteredOnce
<1>1. Init => UInv
  BY DEF Init, Idle, NoResident, UInv, StillNoResident, RegisteredOnce
<1>2. UInv => RegisteredOnce
  BY DEF UInv
<1> QED
  BY Initially, Step, LockedRegistration, <1>1, <1>2, PTL DEF Spec

-----------------------------------------------------------------------------
(* What a lock on the apartment would give: while an update has read it    *)
(* and not yet written it, no other request holds what it read of it.      *)
ApartmentsLocked ==
    \A q \in Requests :
        request[q].pc = "update" => Holding(request[q].apartment) = {q}

\* Then what a request read of the names of an apartment stays so.
NamesRead(s) ==
    /\ s.pc \in {"insert", "assign"} /\ s.apartment # Nil =>
          s.unit = apartment[s.apartment].unit
    /\ s.pc = "update" =>
          /\ "tower" \notin s.given => s.tower = apartment[s.apartment].tower
          /\ "unit" \notin s.given => s.unit = apartment[s.apartment].unit

NInv == \A q \in Requests : NamesRead(request[q])

MovesGetTheUnit ==
    [][\A r \in Residents : MovedIn(r) =>
          resident'[r].unit = apartment[resident'[r].apartment].unit]_vars

UnsentColumnsAlwaysStay ==
    [][\A q \in Requests : Running(q, "update") /\ Commits(q) =>
          LET a == request[q].apartment
          IN  /\ "tower" \notin request[q].given => apartment'[a].tower = apartment[a].tower
              /\ "unit" \notin request[q].given => apartment'[a].unit = apartment[a].unit]_vars

LEMMA NamesReadOn ==
    ASSUME IInv, NInv, NEW q \in Requests, NEW n, request' = [request EXCEPT ![q] = n],
           UNCHANGED apartment, NamesRead(n)
    PROVE  NInv'
<1>1. \A p \in Requests : request'[p] = IF p = q THEN n ELSE request[p]
  BY DEF IInv, TypeOK, RequestsOK
<1> QED
  BY <1>1 DEF NInv, NamesRead

LEMMA RenamesNobody ==
    ASSUME IInv, NInv, UNCHANGED request,
           \A a \in Apartments : apartment[a] # NoApartment =>
              apartment'[a].tower = apartment[a].tower /\ apartment'[a].unit = apartment[a].unit
    PROVE  NInv'
<1>1. Standing /\ Requesting
  BY IInvParts
<1>2. ASSUME NEW q \in Requests, request[q].pc \in {"insert", "assign", "update"},
             request[q].apartment # Nil
      PROVE  request[q].apartment \in Apartments /\ apartment[request[q].apartment] # NoApartment
  <2> DEFINE p == request[q]
  <2>1. p \in RequestState /\ Typical(p) /\ HoldsOwn(p)
    BY <1>1 DEF Requesting
  <2>2. p.apartment \in Apartments
    BY <1>2, <2>1 DEF RequestState
  <2>r. /\ \A a \in Apartments : apartment[a] # NoApartment <=> apartment[a].complex # Nil
        /\ \A r \in Residents : resident[r] # NoResident <=> resident[r].complex # Nil
    BY <1>1, Rows DEF Standing
  <2>3. CASE p.pc = "insert"
    <3>1. apartment[p.apartment].complex # Nil
      BY <1>2, <2>1, <2>3 DEF Typical, HoldsOwn
    <3> QED
      BY <2>2, <2>r, <3>1
  <2>4. CASE p.pc = "assign"
    <3>1. p.resident \in Residents /\ resident[p.resident] # NoResident
      BY <2>1, <2>4 DEF Typical, RequestState
    <3>2. apartment[p.apartment].complex # Nil
      BY <2>1, <2>4, <2>r, <3>1 DEF HoldsOwn
    <3> QED
      BY <2>2, <2>r, <3>2
  <2>5. CASE p.pc = "update"
    <3>1. apartment[p.apartment] # NoApartment
      BY <2>1, <2>5, Zenon DEF Typical
    <3> QED
      BY <2>2, <3>1
  <2> QED
    BY <1>2, <2>2, <2>3, <2>4, <2>5
<1>3. ASSUME NEW q \in Requests PROVE (NamesRead(request[q]))'
  <2>1. CASE request[q].pc \in {"insert", "assign"} /\ request[q].apartment # Nil
    BY <1>2, <2>1 DEF NInv, NamesRead
  <2>2. CASE request[q].pc = "update"
    <3>1. request[q].apartment # Nil
      BY <1>1, <2>2 DEF Requesting, Typical
    <3> QED
      BY <1>2, <2>2, <3>1 DEF NInv, NamesRead
  <2>3. CASE ~ (\/ request[q].pc \in {"insert", "assign"} /\ request[q].apartment # Nil
                \/ request[q].pc = "update")
    BY <2>3 DEF NamesRead
  <2> QED
    BY <2>1, <2>2, <2>3
<1> QED
  BY <1>3 DEF NInv

LEMMA LockedRename ==
    ASSUME IInv, NInv, ApartmentsLocked, NEW q \in Requests, WriteApartment(q)
    PROVE  NInv'
<1> DEFINE a == request[q].apartment
<1>1. /\ request[q].pc = "update" /\ request' = [request EXCEPT ![q] = Idle]
      /\ \A b : b # a => apartment'[b] = apartment[b] \/ b \notin Apartments
  BY DEF WriteApartment, Running, Finish, IInv, TypeOK, TablesOK
<1>2. \A p \in Requests : request'[p] = IF p = q THEN Idle ELSE request[p]
  BY <1>1 DEF IInv, TypeOK, RequestsOK
<1>3. ASSUME NEW p \in Requests PROVE (NamesRead(request[p]))'
  <2>1. CASE p = q
    BY <1>2, <2>1 DEF Idle, NamesRead
  <2>2. CASE p # q /\ request[p].pc \in {"insert", "assign", "update"} /\ request[p].apartment # Nil
    <3>1. request[p].apartment # a
      BY <1>1, <2>2 DEF ApartmentsLocked, Holding
    <3>2. request[p].apartment \in Apartments
      BY <2>2 DEF IInv, TypeOK, RequestsOK, RequestState
    <3> QED
      BY <1>1, <1>2, <2>2, <3>1, <3>2 DEF NInv, NamesRead
  <2>3. CASE p # q /\ ~ (request[p].pc \in {"insert", "assign", "update"} /\ request[p].apartment # Nil)
    <3>1. request[p].pc # "update"
      BY <2>3 DEF IInv, TypeOK, RequestsOK
    <3> QED
      BY <1>2, <2>3, <3>1 DEF NamesRead
  <2> QED
    BY <2>1, <2>2, <2>3
<1> QED
  BY <1>3 DEF NInv

LEMMA LockedNames == IInv /\ NInv /\ ApartmentsLocked /\ [Next]_vars => NInv'
<1> SUFFICES ASSUME IInv, NInv, ApartmentsLocked, [Next]_vars PROVE NInv'
  OBVIOUS
<1>1. Standing /\ Requesting
  BY IInvParts
<1>2. NamesRead(Idle)
  BY DEF NamesRead, Idle
<1>3. ASSUME NEW q \in Requests, NEW c \in Complexes \cup {Nil}, Arrive(q, c) PROVE NInv'
  <2>1. ASSUME NEW a \in Apartments, NEW unit, NEW tower, NEW number, NEW status,
               CreateApartment(q, c, a, unit, tower, number, status)
        PROVE  NInv'
    <3>1. \A b \in Apartments : apartment[b] # NoApartment => apartment'[b] = apartment[b]
      BY <1>1, <2>1 DEF CreateApartment, Standing, TablesOK
    <3> QED
      BY <2>1, <3>1, RenamesNobody DEF CreateApartment
  <2>2. ASSUME NEW a, NEW unit, NEW tower, NEW status, UpdateApartment(q, c, a, unit, tower, status)
        PROVE  NInv'
    <3> DEFINE n == [Idle EXCEPT !.pc = "update", !.apartment = a, !.status = status,
                                 !.tower = NextColumn(tower, apartment[a].tower),
                                 !.unit = NextColumn(unit, apartment[a].unit),
                                 !.given = {col \in {"tower", "unit"} :
                                           (IF col = "tower" THEN tower ELSE unit) # Absent}]
    <3>1. NamesRead(n)
      <4>1. /\ n.pc = "update" /\ n.apartment = a
            /\ n.tower = NextColumn(tower, apartment[a].tower)
            /\ n.unit = NextColumn(unit, apartment[a].unit)
            /\ "tower" \notin n.given <=> tower = Absent
            /\ "unit" \notin n.given <=> unit = Absent
        BY DEF Idle
      <4> HIDE DEF n
      <4> QED
        BY <4>1 DEF NamesRead, NextColumn
    <3>2. request' = [request EXCEPT ![q] = n] /\ UNCHANGED apartment
      BY <2>2 DEF UpdateApartment, Start
    <3> HIDE DEF n
    <3> QED
      BY <3>1, <3>2, NamesReadOn
  <2>3. ASSUME NEW a \in Apartments, RemoveApartment(q, c, a) PROVE NInv'
    <3>1. \A b \in Apartments : /\ apartment'[b].tower = apartment[b].tower
                                /\ apartment'[b].unit = apartment[b].unit
      BY <1>1, <2>3 DEF RemoveApartment, Standing, TablesOK, ApartmentRow
    <3> QED
      BY <2>3, <3>1, RenamesNobody DEF RemoveApartment
  <2>4. ASSUME NEW u, NEW a, NEW unit, CreateResident(q, c, u, a, unit) PROVE NInv'
    <3> DEFINE n == [Idle EXCEPT !.pc = IF a = Nil THEN "insert" ELSE "lookup", !.complex = c,
                             !.user = u, !.apartment = a, !.unit = IF a = Nil THEN unit ELSE Nil,
                             !.seen = {r \in Residents : Stands(r)}]
    <3>1. n.pc = (IF a = Nil THEN "insert" ELSE "lookup") /\ n.apartment = a
      BY DEF Idle
    <3>2. request' = [request EXCEPT ![q] = n] /\ UNCHANGED apartment
      BY <2>4 DEF CreateResident, Start
    <3> HIDE DEF n
    <3>3. NamesRead(n)
      BY <3>1 DEF NamesRead
    <3> QED
      BY <3>2, <3>3, NamesReadOn
  <2>5. ASSUME NEW r, NEW a, AssignApartment(q, c, r, a) PROVE NInv'
    <3> DEFINE n == [Idle EXCEPT !.pc = "assign", !.resident = r,
                                 !.apartment = a, !.unit = apartment[a].unit]
    <3>1. n.pc = "assign" /\ n.apartment = a /\ n.unit = apartment[a].unit
      BY DEF Idle
    <3>2. request' = [request EXCEPT ![q] = n] /\ UNCHANGED apartment
      BY <2>5 DEF AssignApartment, Start
    <3> HIDE DEF n
    <3>3. NamesRead(n)
      BY <3>1 DEF NamesRead
    <3> QED
      BY <3>2, <3>3, NamesReadOn
  <2>6. ASSUME NEW r, UnassignApartment(q, c, r) PROVE NInv'
    BY <2>6 DEF UnassignApartment, NInv, NamesRead
  <2> QED
    BY <1>3, <2>1, <2>2, <2>3, <2>4, <2>5, <2>6 DEF Arrive
<1>4. ASSUME NEW q \in Requests, Continue(q) PROVE NInv'
  <2>1. CASE LookUpApartment(q)
    <3> DEFINE n == [request[q] EXCEPT !.pc = "insert", !.unit = apartment[request[q].apartment].unit]
    <3>1. request[q] \in RequestState
      BY <1>1 DEF Requesting
    <3>2. request' = [request EXCEPT ![q] = n] /\ UNCHANGED apartment
      BY <1>1, <2>1, <3>1 DEF LookUpApartment, Requesting, RequestState
    <3>3. n.pc = "insert" /\ n.apartment = request[q].apartment
          /\ n.unit = apartment[n.apartment].unit
      BY <3>1 DEF RequestState
    <3> HIDE DEF n
    <3>4. NamesRead(n)
      BY <3>3 DEF NamesRead
    <3> QED
      BY <3>2, <3>4, NamesReadOn
  <2>2. CASE (\E r \in Residents : InsertResident(q, r)) \/ WriteAssignment(q) \/ Abort(q)
    BY <1>2, <2>2, NamesReadOn DEF InsertResident, WriteAssignment, Abort, Finish
  <2> QED
    BY <1>4, <2>1, <2>2, LockedRename DEF Continue
<1>5. CASE UNCHANGED vars \/ \E u \in Users : RemoveUser(u)
  BY <1>5 DEF vars, RemoveUser, NInv, NamesRead
<1> QED
  BY <1>3, <1>4, <1>5 DEF Next

\* Who moves in takes the apartment and the unit number its request carries.
LEMMA MovingIn ==
    ASSUME IInv, [Next]_vars, NEW r \in Residents, MovedIn(r)
    PROVE  \E q \in Requests :
              /\ request[q].pc \in {"insert", "assign"}
              /\ resident'[r].apartment = request[q].apartment
              /\ resident'[r].unit = request[q].unit
<1>1. Standing /\ Requesting
  BY IInvParts
<1>2. resident'[r] # resident[r] /\ resident'[r].apartment # Nil
  BY DEF MovedIn
<1>3. ASSUME NEW q \in Requests, NEW s \in Residents, InsertResident(q, s)
      PROVE  /\ request[q].pc = "insert"
             /\ resident'[r].apartment = request[q].apartment
             /\ resident'[r].unit = request[q].unit
  BY <1>1, <1>2, <1>3 DEF InsertResident, Running, Standing, TablesOK
<1>4. ASSUME NEW q \in Requests, WriteAssignment(q)
      PROVE  /\ request[q].pc = "assign"
             /\ resident'[r].apartment = request[q].apartment
             /\ resident'[r].unit = request[q].unit
  <2> DEFINE p == request[q]
             row == [resident[p.resident] EXCEPT !.apartment = p.apartment, !.unit = p.unit]
  <2>1. p.pc = "assign" /\ p.resident \in Residents /\ resident[p.resident] \in ResidentRow
    BY <1>1, <1>4 DEF WriteAssignment, Running, Requesting, Typical, RequestState, Standing, TablesOK
  <2>2. row.apartment = p.apartment /\ row.unit = p.unit
    BY <2>1 DEF ResidentRow
  <2>3. resident' = [resident EXCEPT ![p.resident] = row]
    BY <1>1, <1>4, <2>1 DEF WriteAssignment, Standing, TablesOK, ResidentRow
  <2> QED
    BY <1>1, <1>2, <2>1, <2>2, <2>3 DEF Standing, TablesOK
<1>5. ASSUME NEW q \in Requests, NEW c, NEW s \in Residents, UnassignApartment(q, c, s) PROVE FALSE
  <2>1. resident' = [resident EXCEPT ![s].apartment = Nil, ![s].unit = Unassigned]
    BY <1>5 DEF UnassignApartment
  <2>2. resident'[r] = resident[r] \/ resident'[r].apartment = Nil
    BY <1>1, <2>1 DEF Standing, TablesOK, ResidentRow
  <2> QED
    BY <1>2, <2>2
<1>6. resident' # resident
  BY <1>2
<1>7. ASSUME NEW q \in Requests, NEW c \in Complexes \cup {Nil}, Arrive(q, c)
      PROVE  \E s \in Residents : UnassignApartment(q, c, s)
  BY <1>6, <1>7 DEF Arrive, CreateApartment, UpdateApartment, RemoveApartment, CreateResident,
                    AssignApartment
<1>8. ASSUME NEW q \in Requests, Continue(q)
      PROVE  (\E s \in Residents : InsertResident(q, s)) \/ WriteAssignment(q)
  BY <1>6, <1>8 DEF Continue, WriteApartment, LookUpApartment, Abort
<1>9. CASE \E q \in Requests, c \in Complexes \cup {Nil} : Arrive(q, c)
  BY <1>5, <1>7, <1>9
<1>10. CASE \E q \in Requests : Continue(q)
  BY <1>3, <1>4, <1>8, <1>10
<1> QED
  BY <1>6, <1>9, <1>10 DEF Next, vars, RemoveUser

\* If an update of an apartment excluded, from its read to its write, the requests
\* that copy its unit number (apartments.service.ts:93, residents.service.ts:92,
\* 145), who moves in would always get the number on the door. A removal need not
\* be excluded for that: it changes no name.
THEOREM LockedMoves == Spec /\ []ApartmentsLocked => MovesGetTheUnit
<1>1. Init => NInv
  BY DEF Init, Idle, NInv, NamesRead
<1>2. IInv /\ NInv /\ [Next]_vars =>
         [\A r \in Residents : MovedIn(r) =>
             resident'[r].unit = apartment[resident'[r].apartment].unit]_vars
  <2> SUFFICES ASSUME IInv, NInv, [Next]_vars, NEW r \in Residents, MovedIn(r)
               PROVE  resident'[r].unit = apartment[resident'[r].apartment].unit
    OBVIOUS
  <2>1. PICK q \in Requests : /\ request[q].pc \in {"insert", "assign"}
                              /\ resident'[r].apartment = request[q].apartment
                              /\ resident'[r].unit = request[q].unit
    BY MovingIn
  <2> QED
    BY <2>1 DEF MovedIn, NInv, NamesRead
<1> QED
  BY Initially, Step, LockedNames, <1>1, <1>2, PTL DEF Spec, MovesGetTheUnit

\* Under the same lock no update (apartments.service.ts:93) undoes another: what it
\* was not sent it leaves as it is.
THEOREM LockedUpdates == Spec /\ []ApartmentsLocked => UnsentColumnsAlwaysStay
<1>1. Init => NInv
  BY DEF Init, Idle, NInv, NamesRead
<1>2. IInv /\ NInv /\ [Next]_vars =>
         [\A q \in Requests : Running(q, "update") /\ Commits(q) =>
             LET a == request[q].apartment
             IN  /\ "tower" \notin request[q].given => apartment'[a].tower = apartment[a].tower
                 /\ "unit" \notin request[q].given => apartment'[a].unit = apartment[a].unit]_vars
  <2> SUFFICES ASSUME IInv, NInv, [Next]_vars, NEW q \in Requests, Running(q, "update"), Commits(q)
               PROVE  LET a == request[q].apartment
                      IN  /\ "tower" \notin request[q].given => apartment'[a].tower = apartment[a].tower
                          /\ "unit" \notin request[q].given => apartment'[a].unit = apartment[a].unit
    OBVIOUS
  <2>1. ReadTrue(request[q])
    BY DEF Running, NInv, NamesRead, ReadTrue
  <2> QED
    BY <2>1, UpdateWritesBack
<1> QED
  BY Initially, Step, LockedNames, <1>1, <1>2, PTL DEF Spec, UnsentColumnsAlwaysStay

=============================================================================
