----------------------------- MODULE MCAccounts -----------------------------
(***************************************************************************)
(* Accounts on small sets.  Ids, links and slots are interchangeable, and  *)
(* of a link that is no longer active only this is read, by any action or  *)
(* property: its owner, whether it was mailed and redeemed, and the slots  *)
(* that redeemed it and hold it again.                                     *)
(***************************************************************************)
EXTENDS Accounts, TLC

Symmetry == Permutations(Users) \cup Permutations(Tokens) \cup Permutations(Requests)

Alive == {t \in Tokens : token[t].status = "ACTIVE"}

LiveData ==
    <<user, mailed, sessions, cut, expired \cap Alive,
      [r \in Requests |-> [request[r] EXCEPT !.seen = @ \cap Alive]],
      [t \in Tokens |-> IF t \in Alive THEN token[t]
                        ELSE [token[t] EXCEPT !.issuer = Nil, !.type = Nil]],
      [t \in Tokens |-> <<redeemers[t] # {},
                          {r \in redeemers[t] : request[r].token = t}>>]>>
=============================================================================
