---------------------------- MODULE Noticeboard ----------------------------
(***************************************************************************)
(* What the front desk promises to those who watch a complex, without its  *)
(* requests, reads, photos and rooms: every arrival of a visitor or a      *)
(* parcel, every exit and every change of a ticket puts an announcement in *)
(* debt together with its commit; an announcement is made once, to all who *)
(* watch the complex of the row and to nobody else; visitors do not come   *)
(* back and parcels are not handed back; only a restart forgives a debt.   *)
(***************************************************************************)
CONSTANTS Complexes, Rows, Slots, Screens, Nil

VARIABLES
    board,      \* what was last committed of each row
    owed,       \* the announcement each slot still has to make
    tuned,      \* the complex each screen watches
    told        \* what each screen was last told of each row

notices == <<board, owed, tuned, told>>

Kinds == {"visitor", "parcel", "ticket", "post"}

First == [visitor |-> "active", parcel |-> "PENDING", ticket |-> "OPEN", post |-> "ACTIVE"]

Later == [visitor |-> {"closed"},
          parcel  |-> {"DELIVERED"},
          ticket  |-> {"OPEN", "IN_PROGRESS", "RESOLVED", "CLOSED"},
          post    |-> {"ACTIVE", "SOLD", "INACTIVE"}]

Blank == [kind |-> Nil, complex |-> Nil, status |-> Nil]
Nothing == [row |-> Nil, status |-> Nil]
Silence == [r \in Rows |-> Nil]

Init ==
    /\ board = [r \in Rows |-> Blank]
    /\ owed = [n \in Slots |-> Nothing]
    /\ tuned = [s \in Screens |-> Nil]
    /\ told = [s \in Screens |-> Silence]

Owe(n, r, status) ==
    /\ owed[n] = Nothing
    /\ owed' = [owed EXCEPT ![n] = [row |-> r, status |-> status]]

(* A new row.                                                              *)
Post(n, r) ==
    /\ board[r] = Blank
    /\ \E kind \in Kinds, c \in Complexes :
          /\ board' = [board EXCEPT ![r] = [kind |-> kind, complex |-> c, status |-> First[kind]]]
          /\ IF kind \in {"visitor", "parcel"} THEN Owe(n, r, First[kind]) ELSE UNCHANGED owed
    /\ UNCHANGED <<tuned, told>>

(* A new status of a row.                                                  *)
Change(n, r) ==
    /\ board[r] # Blank
    /\ \E status \in Later[board[r].kind] :
          /\ board' = [board EXCEPT ![r].status = status]
          /\ IF board[r].kind \in {"visitor", "ticket"} THEN Owe(n, r, status) ELSE UNCHANGED owed
    /\ UNCHANGED <<tuned, told>>

Announce(n) ==
    LET r == owed[n].row
    IN  /\ r # Nil
        /\ told' = [s \in Screens |->
                       IF tuned[s] = board[r].complex
                       THEN [told[s] EXCEPT ![r] = owed[n].status]
                       ELSE told[s]]
        /\ owed' = [owed EXCEPT ![n] = Nothing]
        /\ UNCHANGED <<board, tuned>>

TuneIn(s, c) ==
    /\ tuned[s] = Nil
    /\ tuned' = [tuned EXCEPT ![s] = c]
    /\ UNCHANGED <<board, owed, told>>

TuneOut(s) ==
    /\ tuned[s] # Nil
    /\ tuned' = [tuned EXCEPT ![s] = Nil]
    /\ told' = [told EXCEPT ![s] = Silence]
    /\ UNCHANGED <<board, owed>>

Restart ==
    /\ owed' = [n \in Slots |-> Nothing]
    /\ tuned' = [s \in Screens |-> Nil]
    /\ told' = [s \in Screens |-> Silence]
    /\ UNCHANGED board

Next ==
    \/ \E n \in Slots, r \in Rows : Post(n, r)
    \/ \E n \in Slots, r \in Rows : Change(n, r)
    \/ \E n \in Slots : Announce(n)
    \/ \E s \in Screens, c \in Complexes : TuneIn(s, c)
    \/ \E s \in Screens : TuneOut(s)
    \/ Restart

Spec == Init /\ [][Next]_notices

=============================================================================
