------------------------------ MODULE Residency ------------------------------
(***************************************************************************)
(* The apartments of a complex and the residents who live in them.         *)
(*                                                                         *)
(* Code: src/apartments and src/residents, services and controllers.       *)
(*                                                                         *)
(* No handler uses a transaction.  A resident keeps a copy of the unit     *)
(* number of the apartment, made from a row read before; an update of an   *)
(* apartment writes back the columns it was not given from the row it      *)
(* read.  The reads that only look at what never changes (that a row       *)
(* exists, in which complex) are in one action with the statement after.   *)
(*                                                                         *)
(* Deleting a user deletes the residents with it (onDelete: Cascade,       *)
(* schema.prisma:242): the table keeps what each row last held, and a row  *)
(* stands while its user does.                                             *)
(*                                                                         *)
(* Abstracted: kinds of unit, ownership, and the user, of whom create      *)
(* asks nothing but to exist (residents.service.ts:70), and the deletion   *)
(* of a user what users asks of it.                                        *)
(***************************************************************************)

CONSTANTS
    Complexes,      \* residential complexes, the tenants
    Users,          \* users
    Towers,         \* names of towers
    Numbers,        \* numbers of apartments, as typed
    Apartments,     \* apartment ids the database may ever generate
    Residents,      \* resident ids the database may ever generate
    Requests,       \* slots in which the server runs requests
    Nil,            \* SQL NULL, and "no value"
    Absent,         \* undefined: a field that the dto does not have
    Blank,          \* the empty string
    Unassigned      \* 'SIN ASIGNAR'

VARIABLES
    apartment,      \* table apartments
    resident,       \* table residents
    gone,           \* the users that were deleted
    request,        \* what each slot is running, with its local variables
    names,          \* history: the unit numbers each apartment has had
    saw,            \* history: residents registered when each was checked
    raced           \* history: requests whose apartment changed after they read it

vars == <<apartment, resident, gone, request, names, saw, raced>>
history == <<names, saw, raced>>

-----------------------------------------------------------------------------
\* A unit number: typed as a whole, or "Torre <tower> Apto <number>".
Tagged(t, n) == [tower |-> t, number |-> n]
Label == Numbers \cup {Tagged(t, n) : t \in Towers, n \in Numbers}

ASSUME NilAssumption ==
    /\ Nil \notin Complexes \cup Apartments \cup Residents \cup Towers \cup Label
    /\ Absent \notin Towers \cup {Nil}
    /\ Absent \notin Label \cup {Blank, Nil}
    /\ Nil \notin {Blank, Unassigned} /\ Absent \notin {0, 1}

ApartmentRow == [complex : Complexes \cup {Nil},
                 tower : Towers \cup {Nil},
                 unit : Label \cup {Blank, Nil},
                 status : {0, 1, Nil}]
NoApartment == [complex |-> Nil, tower |-> Nil, unit |-> Nil, status |-> Nil]

ResidentRow == [complex : Complexes \cup {Nil},
                user : Users \cup {Nil},
                apartment : Apartments \cup {Nil},
                unit : Label \cup {Blank, Unassigned, Nil}]
NoResident == [complex |-> Nil, user |-> Nil, apartment |-> Nil, unit |-> Nil]

Idle == [pc |-> "idle", complex |-> Nil, user |-> Nil, apartment |-> Nil, resident |-> Nil,
         tower |-> Nil, unit |-> Nil, status |-> Absent, given |-> {}, seen |-> {}]
RequestState == [pc : {"idle", "lookup", "insert", "assign", "update"},
                 complex : Complexes \cup {Nil},
                 user : Users \cup {Nil},
                 apartment : Apartments \cup {Nil},
                 resident : Residents \cup {Nil},
                 tower : Towers \cup {Nil},
                 unit : Label \cup {Blank, Nil},
                 status : {0, 1, Absent},
                 given : SUBSET {"tower", "unit"},
                 seen : SUBSET Residents]

TablesOK ==
    /\ apartment \in [Apartments -> ApartmentRow]
    /\ resident \in [Residents -> ResidentRow]
    /\ \A a \in Apartments : apartment[a] # NoApartment =>
          apartment[a].complex # Nil /\ apartment[a].unit # Nil
    /\ \A r \in Residents : resident[r] # NoResident =>
          resident[r].complex # Nil /\ resident[r].unit # Nil

RequestsOK ==
    /\ request \in [Requests -> RequestState]
    /\ \A q \in Requests :
          /\ request[q].pc \in {"lookup", "insert"} => request[q].complex # Nil
          /\ request[q].pc \in {"lookup", "assign", "update"} => request[q].apartment # Nil
          /\ request[q].pc \in {"insert", "assign", "update"} => request[q].unit # Nil
          /\ request[q].pc = "assign" =>
                request[q].resident # Nil /\ resident[request[q].resident] # NoResident
          /\ request[q].pc = "update" => apartment[request[q].apartment] # NoApartment

(* Rows hold what their columns may hold; an apartment and a resident have *)
(* a complex and a unit number (both NOT NULL), and a request in flight    *)
(* has what its next statement needs.                                      *)
TypeOK ==
    /\ TablesOK
    /\ RequestsOK
    /\ gone \subseteq Users
    /\ names \in [Apartments -> SUBSET (Label \cup {Blank})]
    /\ saw \in [Residents -> SUBSET Residents]
    /\ raced \subseteq Requests

Init ==
    /\ apartment = [a \in Apartments |-> NoApartment]
    /\ resident = [r \in Residents |-> NoResident]
    /\ gone = {}
    /\ request = [q \in Requests |-> Idle]
    /\ names = [a \in Apartments |-> {}]
    /\ saw = [r \in Residents |-> {}]
    /\ raced = {}

-----------------------------------------------------------------------------
Running(q, pc) == request[q].pc = pc
Start(q, state) == Running(q, "idle") /\ request' = [request EXCEPT ![q] = state]
Finish(q) == request' = [request EXCEPT ![q] = Idle]

Administrator == {"DEV", "ORG_ADMIN", "COMPLEX_ADMIN"}

\* The roles in @Roles of the handlers that write that get past the check of the
\* complex in the token, validateComplexContext for apartments.
ApartmentEditors(c) == IF c = Nil THEN {"DEV"} ELSE Administrator
ResidentEditors(c) == IF c = Nil THEN {} ELSE Administrator

\* Only the token of a DEV may name no complex, and then reaches all of them.
ApartmentInScope(c, a) ==
    /\ apartment[a] # NoApartment
    /\ c # Nil => apartment[a].complex = c

\* @@unique([residentialComplexId, tower, unitNumber]): NULL towers differ.
UniqueUnit(a, c, tower, unit) ==
    tower # Nil => \A b \in Apartments \ {a} :
        ~ (apartment[b].complex = c /\ apartment[b].tower = tower /\ apartment[b].unit = unit)

\* The row of a resident is there.
Stands(r) == resident[r] # NoResident /\ resident[r].user \notin gone

\* Requests that are going to write what they read of apartment a.
Holding(a) ==
    {p \in Requests : request[p].pc \in {"insert", "assign", "update"} /\ request[p].apartment = a}

-----------------------------------------------------------------------------
(* apartments                                                              *)

\* resolveUnitNumber, of a dto whose fields are trimmed.
ResolveUnitNumber(unit, tower, number) ==
    CASE unit \notin {Absent, Blank}                 -> unit
      [] unit \in {Absent, Blank} /\ tower # Nil     -> Tagged(tower, number)
      [] OTHER                                       -> number

CreateApartment(q, c, a, unit, tower, number, status) ==
    LET label == ResolveUnitNumber(unit, tower, number)
    IN  /\ Running(q, "idle")
        /\ ApartmentEditors(c) # {} /\ c # Nil
        /\ unit \in {Absent, Blank} => number # Nil
        /\ apartment[a] = NoApartment
        /\ UniqueUnit(a, c, tower, label)
        /\ apartment' = [apartment EXCEPT ![a] = [complex |-> c, tower |-> tower, unit |-> label,
                                                  status |-> IF status = Absent THEN 1 ELSE status]]
        /\ names' = [names EXCEPT ![a] = {label}]
        /\ UNCHANGED <<resident, gone, request, saw, raced>>

\* Mutated form: the column that was not sent is cleared.
NextColumnOrNil(given, existing) == IF given = Absent THEN Nil ELSE given

\* nextTower, nextUnitNumber: what is not sent is written as it was read.
NextColumn(given, existing) == IF given = Absent THEN existing ELSE given

UpdateApartment(q, c, a, unit, tower, status) ==
    /\ ApartmentEditors(c) # {}
    /\ ApartmentInScope(c, a)
    /\ Start(q, [Idle EXCEPT !.pc = "update", !.apartment = a, !.status = status,
                             !.tower = NextColumn(tower, apartment[a].tower),
                             !.unit = NextColumn(unit, apartment[a].unit),
                             !.given = {col \in {"tower", "unit"} :
                                           (IF col = "tower" THEN tower ELSE unit) # Absent}])
    /\ UNCHANGED <<apartment, resident, gone, history>>

WriteApartment(q) ==
    LET a == request[q].apartment
    IN  /\ Running(q, "update")
        /\ UniqueUnit(a, apartment[a].complex, request[q].tower, request[q].unit)
        /\ apartment' = [apartment EXCEPT ![a].tower = request[q].tower,
                                          ![a].unit = request[q].unit,
                                          ![a].status = NextColumn(request[q].status, @)]
        /\ names' = [names EXCEPT ![a] = @ \cup {request[q].unit}]
        /\ raced' = (raced \cup Holding(a)) \ {q}
        /\ Finish(q)
        /\ UNCHANGED <<resident, gone, saw>>

RemoveApartment(q, c, a) ==
    /\ Running(q, "idle")
    /\ ApartmentEditors(c) # {}
    /\ ApartmentInScope(c, a)
    /\ apartment' = [apartment EXCEPT ![a].status = 0]
    /\ raced' = raced \cup Holding(a)
    /\ UNCHANGED <<resident, gone, request, names, saw>>

-----------------------------------------------------------------------------
(* residents                                                               *)

\* Mutated form: any apartment, of whatever complex.
AssignableAnywhere(c, a) == apartment[a].status = 1

\* findFirst({ id, residentialComplexId, status: 1 })
Assignable(c, a) == apartment[a].complex = c /\ apartment[a].status = 1

\* Mutated form: the check for an existing resident is left out.
CreateResidentUnchecked(q, c, u, a, unit) ==
    /\ ResidentEditors(c) # {}
    /\ u \notin gone
    /\ a = Nil => unit \notin {Absent, Blank}
    /\ Start(q, [Idle EXCEPT !.pc = IF a = Nil THEN "insert" ELSE "lookup", !.complex = c,
                             !.user = u, !.apartment = a, !.unit = IF a = Nil THEN unit ELSE Nil,
                             !.seen = {r \in Residents : Stands(r)}])
    /\ UNCHANGED <<apartment, resident, gone, history>>

\* The user exists and is not a resident of the complex; with an apartment in the
\* dto, the unit number will be the apartment's.
CreateResident(q, c, u, a, unit) ==
    /\ ResidentEditors(c) # {}
    /\ u \notin gone
    /\ \A r \in Residents : ~ (Stands(r) /\ resident[r].user = u /\ resident[r].complex = c)
    /\ a = Nil => unit \notin {Absent, Blank}
    /\ Start(q, [Idle EXCEPT !.pc = IF a = Nil THEN "insert" ELSE "lookup", !.complex = c,
                             !.user = u, !.apartment = a, !.unit = IF a = Nil THEN unit ELSE Nil,
                             !.seen = {r \in Residents : Stands(r)}])
    /\ UNCHANGED <<apartment, resident, gone, history>>

\* Mutated form: the unit number is left to the dto, which has none.
LookUpWithoutUnit(q) ==
    /\ Running(q, "lookup")
    /\ Assignable(request[q].complex, request[q].apartment)
    /\ request' = [request EXCEPT ![q].pc = "insert"]
    /\ UNCHANGED <<apartment, resident, gone, history>>

LookUpApartment(q) ==
    LET a == request[q].apartment
    IN  /\ Running(q, "lookup")
        /\ Assignable(request[q].complex, a)
        /\ apartment[a].unit # Blank
        /\ request' = [request EXCEPT ![q].pc = "insert", ![q].unit = apartment[a].unit]
        /\ UNCHANGED <<apartment, resident, gone, history>>

InsertResident(q, r) ==
    LET p == request[q]
    IN  /\ Running(q, "insert")
        /\ resident[r] = NoResident
        /\ p.user \notin gone
        /\ resident' = [resident EXCEPT ![r] = [complex |-> p.complex, user |-> p.user,
                                                apartment |-> p.apartment, unit |-> p.unit]]
        /\ saw' = [saw EXCEPT ![r] = p.seen]
        /\ raced' = raced \ {q}
        /\ Finish(q)
        /\ UNCHANGED <<apartment, gone, names>>

AssignApartment(q, c, r, a) ==
    /\ ResidentEditors(c) # {}
    /\ Stands(r) /\ resident[r].complex = c
    /\ Assignable(c, a)
    /\ Start(q, [Idle EXCEPT !.pc = "assign", !.resident = r,
                             !.apartment = a, !.unit = apartment[a].unit])
    /\ UNCHANGED <<apartment, resident, gone, history>>

\* Mutated form: the copy of the unit number is forgotten.
WriteAssignmentWithoutUnit(q) ==
    /\ Running(q, "assign")
    /\ Stands(request[q].resident)
    /\ resident' = [resident EXCEPT ![request[q].resident].apartment = request[q].apartment]
    /\ raced' = raced \ {q}
    /\ Finish(q)
    /\ UNCHANGED <<apartment, gone, names, saw>>

WriteAssignment(q) ==
    /\ Running(q, "assign")
    /\ Stands(request[q].resident)
    /\ resident' = [resident EXCEPT ![request[q].resident].apartment = request[q].apartment,
                                    ![request[q].resident].unit = request[q].unit]
    /\ raced' = raced \ {q}
    /\ Finish(q)
    /\ UNCHANGED <<apartment, gone, names, saw>>

UnassignApartment(q, c, r) ==
    /\ Running(q, "idle")
    /\ ResidentEditors(c) # {}
    /\ Stands(r) /\ resident[r].complex = c
    /\ resident' = [resident EXCEPT ![r].apartment = Nil, ![r].unit = Unassigned]
    /\ UNCHANGED <<apartment, gone, request, history>>

-----------------------------------------------------------------------------
(* users                                                                   *)

\* The deletion of a PENDING user takes its residents along.
RemoveUser(u) ==
    /\ u \notin gone
    /\ gone' = gone \cup {u}
    /\ UNCHANGED <<apartment, resident, request, history>>

-----------------------------------------------------------------------------
\* A check refuses the request, the unique index refuses the row (P2002), what it
\* refers to is not there any more, or a statement or the process fails: nothing
\* was written.
Abort(q) ==
    /\ ~ Running(q, "idle")
    /\ raced' = raced \ {q}
    /\ Finish(q)
    /\ UNCHANGED <<apartment, resident, gone, names, saw>>

Arrive(q, c) ==
    \/ \E a \in Apartments, unit \in Label \cup {Absent, Blank}, tower \in Towers \cup {Nil},
          number \in Numbers \cup {Nil}, status \in {0, 1, Absent} :
          CreateApartment(q, c, a, unit, tower, number, status)
    \/ \E a \in Apartments, unit \in Label \cup {Absent, Blank}, tower \in Towers \cup {Absent, Nil},
          status \in {0, 1, Absent} :
          UpdateApartment(q, c, a, unit, tower, status)
    \/ \E a \in Apartments : RemoveApartment(q, c, a)
    \/ \E u \in Users, a \in Apartments \cup {Nil}, unit \in Label \cup {Absent, Blank} :
          CreateResident(q, c, u, a, unit)
    \/ \E r \in Residents, a \in Apartments : AssignApartment(q, c, r, a)
    \/ \E r \in Residents : UnassignApartment(q, c, r)

Continue(q) ==
    \/ WriteApartment(q)
    \/ LookUpApartment(q)
    \/ \E r \in Residents : InsertResident(q, r)
    \/ WriteAssignment(q)
    \/ Abort(q)

Next ==
    \/ \E q \in Requests, c \in Complexes \cup {Nil} : Arrive(q, c)
    \/ \E q \in Requests : Continue(q)
    \/ \E u \in Users : RemoveUser(u)

Spec == Init /\ [][Next]_vars

-----------------------------------------------------------------------------
(* "Prevenir vinculaciones duplicadas del mismo usuario en el mismo        *)
(* conjunto" (residents.service.ts:78): a user is registered twice in a    *)
(* complex only by requests that overlapped, neither of which could see    *)
(* the other's row.                                                        *)
DuplicateResidentsAreExplained ==
    \A r, s \in Residents :
        /\ r # s /\ resident[r] # NoResident
        /\ resident[r].user = resident[s].user
        /\ resident[r].complex = resident[s].complex
        => r \notin saw[s] /\ s \notin saw[r]

(* A resident lives in an apartment of the same complex, and the unit      *)
(* number on the row is one which that apartment has really had, whatever  *)
(* renamings, moves and removals overlap with the assignment.              *)
ResidentsFollowApartments ==
    \A r \in Residents : resident[r].apartment # Nil =>
        /\ apartment[resident[r].apartment].complex = resident[r].complex
        /\ resident[r].unit \in names[resident[r].apartment]

(* Who moves in, moves into an active apartment and gets the number it     *)
(* has, unless the apartment changed between the check and the write.      *)
Commits(q) == request[q].pc # "idle" /\ request'[q].pc = "idle"

MovedIn(r) == resident'[r] # resident[r] /\ resident'[r].apartment # Nil

AssignmentsAreCurrent ==
    [][\A q \in Requests, r \in Residents :
          Commits(q) /\ q \notin raced /\ MovedIn(r) =>
             LET a == resident'[r].apartment
             IN  apartment[a].status = 1 /\ resident'[r].unit = apartment[a].unit]_vars

(* An update of an apartment leaves alone what it was not sent, unless     *)
(* another change of that apartment came between its read and its write:   *)
(* it then undoes that change.                                             *)
UnsentColumnsStay ==
    [][\A q \in Requests :
          Running(q, "update") /\ Commits(q) /\ q \notin raced =>
             LET a == request[q].apartment
             IN  /\ "tower" \notin request[q].given => apartment'[a].tower = apartment[a].tower
                 /\ "unit" \notin request[q].given => apartment'[a].unit = apartment[a].unit]_vars

-----------------------------------------------------------------------------
(* The inductive invariant: what makes the properties hold step by step.   *)

NamesOK == \A a \in Apartments : apartment[a] # NoApartment => apartment[a].unit \in names[a]

\* What was seen was there, and was no row of this user in this complex.
SeenOK ==
    /\ \A q \in Requests : \A r \in request[q].seen :
          /\ resident[r] # NoResident
          /\ ~ (resident[r].user = request[q].user /\ resident[r].complex = request[q].complex)
    /\ \A r \in Residents, s \in Residents :
          s \in saw[r] => resident[s] # NoResident

\* The apartment a request is going to write in a row is in the same complex.
HeldOK ==
    \A q \in Requests :
        LET p == request[q]
            a == p.apartment
        IN  /\ p.pc = "insert" /\ a # Nil => apartment[a].complex = p.complex /\ p.unit \in names[a]
            /\ p.pc = "assign" =>
                  apartment[a].complex = resident[p.resident].complex /\ p.unit \in names[a]

\* What a request read of its apartment is still so, unless it was raced.
ReadsOK ==
    \A q \in Requests \ raced :
        LET p == request[q]
            a == p.apartment
        IN  /\ p.pc \in {"insert", "assign"} /\ a # Nil =>
                  apartment[a].status = 1 /\ p.unit = apartment[a].unit
            /\ p.pc = "update" =>
                  /\ "tower" \notin p.given => p.tower = apartment[a].tower
                  /\ "unit" \notin p.given => p.unit = apartment[a].unit

IInv ==
    /\ TypeOK
    /\ NamesOK
    /\ SeenOK
    /\ HeldOK
    /\ ReadsOK
    /\ DuplicateResidentsAreExplained
    /\ ResidentsFollowApartments

=============================================================================
