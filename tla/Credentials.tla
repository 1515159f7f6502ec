---------------------------- MODULE Credentials ----------------------------
(***************************************************************************)
(* What the account handlers promise about passwords, without their rows,  *)
(* mails and order of awaits: a link is issued for one user, is open for a *)
(* while, and closes for good; a password is set only by redeeming a claim *)
(* laid on one of the user's own links while it was open.                  *)
(***************************************************************************)
CONSTANTS Users, Tokens, Requests, Nil

VARIABLES
    link,       \* state and owner of every link
    claim,      \* the link a request is about to redeem
    password    \* the link each user's password was chosen through

Link == [state : {"unissued", "open", "closed"}, owner : Users \cup {Nil}]

Init ==
    /\ link = [t \in Tokens |-> [state |-> "unissued", owner |-> Nil]]
    /\ claim = [r \in Requests |-> Nil]
    /\ password = [u \in Users |-> Nil]

OwnedBy(u) == {t \in Tokens : link[t].owner = u}

Closed(S) ==
    [t \in Tokens |-> IF t \in S /\ link[t].state = "open"
                      THEN [link[t] EXCEPT !.state = "closed"]
                      ELSE link[t]]

(* A new link for u, which may close others of u.                          *)
Issue(t, u, S) ==
    /\ link[t].state = "unissued"
    /\ S \subseteq OwnedBy(u)
    /\ link' = [Closed(S) EXCEPT ![t] = [state |-> "open", owner |-> u]]
    /\ UNCHANGED <<claim, password>>

Expire(t) ==
    /\ link' = Closed({t})
    /\ UNCHANGED <<claim, password>>

Claim(r, t) ==
    /\ claim[r] = Nil
    /\ link[t].state = "open"
    /\ claim' = [claim EXCEPT ![r] = t]
    /\ UNCHANGED <<link, password>>

Abandon(R) ==
    /\ claim' = [r \in Requests |-> IF r \in R THEN Nil ELSE claim[r]]
    /\ UNCHANGED <<link, password>>

(* The claim is what counts: the link may have closed since.               *)
Redeem(r) ==
    /\ claim[r] # Nil
    /\ password' = [password EXCEPT ![link[claim[r]].owner] = claim[r]]
    /\ link' = Closed({claim[r]})
    /\ claim' = [claim EXCEPT ![r] = Nil]

(* The account goes, with its password and its links.                      *)
Erase(u) ==
    /\ password' = [password EXCEPT ![u] = Nil]
    /\ link' = Closed(OwnedBy(u))
    /\ UNCHANGED claim

Next ==
    \/ \E t \in Tokens, u \in Users, S \in SUBSET Tokens : Issue(t, u, S)
    \/ \E t \in Tokens : Expire(t)
    \/ \E r \in Requests, t \in Tokens : Claim(r, t)
    \/ \E R \in SUBSET Requests : Abandon(R)
    \/ \E r \in Requests : Redeem(r)
    \/ \E u \in Users : Erase(u)

Spec == Init /\ [][Next]_<<link, claim, password>>

=============================================================================
