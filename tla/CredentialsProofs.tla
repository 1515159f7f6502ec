------------------------- MODULE CredentialsProofs -------------------------
(***************************************************************************)
(* Accounts implements Credentials: every step of the handlers is a step   *)
(* of the abstract specification or leaves its variables alone.            *)
(***************************************************************************)
EXTENDS AccountsProofs

\* Only issued links expire, and forgotPassword revokes links of its own user.
ScopeOK ==
    /\ \A t \in expired : token[t].status # "unborn"
    /\ \A r \in Requests : At(r, "forgotInsert") =>
          \A t \in request[r].seen : token[t].userId = request[r].user

LEMMA ExpiredStep ==
    ASSUME TypeOK, [Next]_vars, NEW t \in expired', t \notin expired
    PROVE  token[t].status = "ACTIVE"
BY DEF Next, Arrive, Continue, vars, tables, history, InviteUser, SendActivationEmail,
       SendActivationEmailFails, UndoInvite, ActivateAccount, ResetPassword, Redeem,
       ForgotPassword, RevokeResetTokens, InsertResetToken, SendPasswordResetEmail,
       UpdateUser, WriteUserStatus, RemoveUser, HardDelete, SoftDelete, Login,
       SignAccessToken, RowIsGone, WriteFails, Restart, Expire

LEMMA ScopeStep == TypeOK /\ HeldLinksOK /\ ScopeOK /\ [Next]_vars => ScopeOK'
<1> SUFFICES ASSUME TypeOK, HeldLinksOK, ScopeOK, [Next]_vars PROVE ScopeOK'
  OBVIOUS
<1>1. ASSUME NEW t \in expired' PROVE token'[t].status # "unborn"
  <2>1. t \in Tokens
    BY <1>1, TypeStep DEF TypeOK
  <2>2. token[t].status # "unborn"
    BY <1>1, ExpiredStep DEF ScopeOK
  <2> QED
    BY <2>1, <2>2, LinksEvolve DEF LinkEvolves
<1>2. ASSUME NEW r \in Requests, request'[r].pc = "forgotInsert", NEW t \in request'[r].seen
      PROVE  token'[t].userId = request'[r].user
  <2>1. CASE request'[r] = request[r]
    <3>1. t \in Tokens /\ request[r].user \in Users
      BY <1>2, <2>1 DEF TypeOK, RequestsOK, RequestState
    <3>2. token[t].userId = request[r].user
      BY <1>2, <2>1 DEF ScopeOK, At
    <3>3. token[t].status # "unborn"
      BY <3>1, <3>2, NilAssumption DEF TypeOK, TokensOK
    <3> QED
      BY <2>1, <3>1, <3>2, <3>3, LinksEvolve DEF LinkEvolves
  <2>2. CASE ProceedsWithoutLink(r)
    BY <1>2, <2>2 DEF ProceedsWithoutLink, ActiveResetTokens
  <2>3. request'[r] # Idle /\ ~ TurnsToUndo(r) /\ ~ TakesLink(r)
    BY <1>2 DEF Idle, TurnsToUndo, TakesLink, Mailing, Redeeming, TypeOK, RequestsOK, RequestState
  <2> QED
    BY <2>1, <2>2, <2>3, RequestsEvolve DEF RequestEvolves
<1> QED
  BY <1>1, <1>2 DEF ScopeOK, At

RInv == TypeOK /\ HeldLinksOK /\ ScopeOK

-----------------------------------------------------------------------------
\* The abstract variables.
Link == [t \in Tokens |-> [state |-> LinkState(t), owner |-> token[t].userId]]
Claims == [r \in Requests |-> IF request[r].pc \in Redeeming THEN request[r].token ELSE Nil]
Passwords == [u \in Users |-> user[u].password]

LEMMA LinkStates ==
    ASSUME TypeOK, NEW t \in Tokens
    PROVE  /\ Link[t].owner = token[t].userId
           /\ Link[t].state = "unissued" <=> token[t].status = "unborn"
           /\ Link[t].state = "open" <=> token[t].status = "ACTIVE" /\ t \notin expired
           /\ Link[t].state \in {"unissued", "open", "closed"}
BY DEF Link, LinkState

\* What Credentials!Closed computes, for the links of Accounts.
CloseLinks(S) ==
    [t \in Tokens |-> IF t \in S /\ Link[t].state = "open"
                      THEN [Link[t] EXCEPT !.state = "closed"]
                      ELSE Link[t]]

LEMMA ClosedLinks ==
    ASSUME NEW S
    PROVE  C!Closed(S) = CloseLinks(S)
BY DEF C!Closed, CloseLinks, Link

LEMMA OwnLinks ==
    ASSUME NEW u
    PROVE  C!OwnedBy(u) = {t \in Tokens : token[t].userId = u}
BY DEF C!OwnedBy

\* One link, from the rows: it closes when it stops being active or expires.
LEMMA LinkCloses ==
    ASSUME TypeOK, NEW S, NEW t \in Tokens, token'[t].userId = token[t].userId,
           token[t].status # "unborn", token'[t].status # "unborn",
           t \in S => token'[t].status # "ACTIVE" \/ t \in expired',
           t \notin S => /\ token'[t].status = "ACTIVE" <=> token[t].status = "ACTIVE"
                         /\ t \in expired' <=> t \in expired
    PROVE  Link'[t] = CloseLinks(S)[t]
BY DEF Link, CloseLinks, LinkState

LEMMA SameLink ==
    ASSUME TypeOK, NEW S, NEW t \in Tokens, token'[t] = token[t], t \in expired' <=> t \in expired,
           t \in S => token[t].status # "ACTIVE" \/ t \in expired
    PROVE  Link'[t] = CloseLinks(S)[t]
BY DEF Link, CloseLinks, LinkState

LEMMA SameLinks ==
    ASSUME UNCHANGED <<token, expired>>
    PROVE  Link' = Link
BY DEF Link, LinkState

-----------------------------------------------------------------------------
LEMMA FinishClaims ==
    ASSUME TypeOK, NEW r \in Requests, Finish(r)
    PROVE  /\ Claims' = [q \in Requests |-> IF q \in {r} THEN Nil ELSE Claims[q]]
           /\ Claims' = [Claims EXCEPT ![r] = Nil]
           /\ request[r].pc \notin Redeeming => Claims' = Claims
<1>1. \A q \in Requests : request'[q] = IF q = r THEN Idle ELSE request[q]
  BY DEF Finish, TypeOK, RequestsOK
<1>2. Idle.pc \notin Redeeming
  BY DEF Idle, Redeeming
<1> QED
  BY <1>1, <1>2 DEF Claims

LEMMA StartClaims ==
    ASSUME TypeOK, NEW r \in Requests, NEW pc, NEW u, NEW t, Start(r, pc, u, t)
    PROVE  /\ Claims[r] = Nil
           /\ Claims' = [Claims EXCEPT ![r] = IF pc \in Redeeming THEN t ELSE Nil]
           /\ pc \notin Redeeming => Claims' = Claims
<1>1. /\ request' = [request EXCEPT ![r] = [pc |-> pc, user |-> u, token |-> t, seen |-> {}]]
      /\ request[r].pc = "idle" /\ "idle" \notin Redeeming
  BY DEF Start, At, Redeeming
<1>2. \A q \in Requests : request'[q] = IF q = r THEN [pc |-> pc, user |-> u, token |-> t, seen |-> {}]
                                        ELSE request[q]
  BY <1>1 DEF TypeOK, RequestsOK
<1>3. Claims[r] = Nil
  BY <1>1 DEF Claims
<1>4. \A q \in Requests : Claims'[q] = IF q = r THEN (IF pc \in Redeeming THEN t ELSE Nil)
                                       ELSE Claims[q]
  BY <1>2 DEF Claims
<1>5. Claims' = [Claims EXCEPT ![r] = IF pc \in Redeeming THEN t ELSE Nil]
  BY <1>4 DEF Claims
<1>6. pc \notin Redeeming => Claims' = Claims
  BY <1>3, <1>4 DEF Claims
<1> QED
  BY <1>3, <1>5, <1>6

LEMMA SameClaims ==
    ASSUME TypeOK, NEW r \in Requests, request[r].pc \notin Redeeming, request'[r].pc \notin Redeeming,
           \A q \in Requests \ {r} : request'[q] = request[q]
    PROVE  Claims' = Claims
BY DEF Claims

-----------------------------------------------------------------------------
(* The handlers' steps, one by one, as steps of Credentials.               *)

LEMMA Erases ==
    ASSUME RInv, NEW u \in Users, DeleteUser(u), UNCHANGED expired
    PROVE  /\ Link' = CloseLinks({t \in Tokens : token[t].userId = u})
           /\ Passwords' = [Passwords EXCEPT ![u] = Nil]
<1> USE DEF RInv
<1> DEFINE S == {t \in Tokens : token[t].userId = u}
<1>1. ASSUME NEW t \in Tokens PROVE Link'[t] = CloseLinks(S)[t]
  <2>1. token'[t] = IF t \in S THEN [token[t] EXCEPT !.status = "deleted"] ELSE token[t]
    BY DEF DeleteUser
  <2>2. CASE t \notin S
    BY <2>1, <2>2, SameLink
  <2>3. CASE t \in S
    <3>1. token[t] \in TokenRow /\ token[t].status # "unborn"
      BY <2>3, NilAssumption DEF TypeOK, TokensOK
    <3>2. token'[t].status = "deleted" /\ token'[t].userId = token[t].userId
      BY <2>1, <2>3, <3>1 DEF TokenRow
    <3> QED
      BY <2>3, <3>1, <3>2, LinkCloses
  <2> QED
    BY <2>2, <2>3
<1>2. Link' = CloseLinks(S)
  BY <1>1 DEF Link, CloseLinks
<1>3. Passwords' = [Passwords EXCEPT ![u] = Nil]
  BY DEF DeleteUser, Deleted, Passwords, TypeOK
<1> QED
  BY <1>2, <1>3

\* Expanding an abstract action once, in terms of Link, Claims and Passwords.
LEMMA AbstractActions ==
    /\ \A t, u, S : C!Issue(t, u, S) <=>
          /\ Link[t].state = "unissued"
          /\ S \subseteq {s \in Tokens : token[s].userId = u}
          /\ Link' = [CloseLinks(S) EXCEPT ![t] = [state |-> "open", owner |-> u]]
          /\ Claims' = Claims
          /\ Passwords' = Passwords
    /\ \A t : C!Expire(t) <=>
          Link' = CloseLinks({t}) /\ Claims' = Claims /\ Passwords' = Passwords
    /\ \A r, t : C!Claim(r, t) <=>
          /\ Claims[r] = Nil
          /\ Link[t].state = "open"
          /\ Claims' = [Claims EXCEPT ![r] = t]
          /\ Link' = Link /\ Passwords' = Passwords
    /\ \A R : C!Abandon(R) <=>
          /\ Claims' = [r \in Requests |-> IF r \in R THEN Nil ELSE Claims[r]]
          /\ Link' = Link /\ Passwords' = Passwords
    /\ \A r : C!Redeem(r) <=>
          /\ Claims[r] # Nil
          /\ Passwords' = [Passwords EXCEPT ![Link[Claims[r]].owner] = Claims[r]]
          /\ Link' = CloseLinks({Claims[r]})
          /\ Claims' = [Claims EXCEPT ![r] = Nil]
    /\ \A u : C!Erase(u) <=>
          /\ Passwords' = [Passwords EXCEPT ![u] = Nil]
          /\ Link' = CloseLinks({s \in Tokens : token[s].userId = u})
          /\ Claims' = Claims
<1>1. \A S : C!Closed(S) = CloseLinks(S)
  BY ClosedLinks
<1>2. \A u : C!OwnedBy(u) = {s \in Tokens : token[s].userId = u}
  BY OwnLinks
<1> QED
  BY <1>1, <1>2 DEF C!Issue, C!Expire, C!Claim, C!Abandon, C!Redeem, C!Erase, Link, Claims, Passwords

AbstractStep == C!Next \/ (Link' = Link /\ Claims' = Claims /\ Passwords' = Passwords)

LEMMA InviteIssues ==
    ASSUME RInv, NEW r \in Requests, NEW e \in Emails, NEW u \in Users, NEW t \in Tokens,
           InviteUser(r, e, u, t)
    PROVE  AbstractStep
<1> USE DEF RInv
<1>1. token[t].status = "unborn" /\ token' = [token EXCEPT ![t] = NewToken(r, "ACTIVATION", u)]
  BY DEF InviteUser, UnusedToken
<1>2. token \in [Tokens -> TokenRow] /\ t \notin expired
  BY <1>1 DEF TypeOK, TokensOK, ScopeOK
<1>3. Link' = [CloseLinks({}) EXCEPT ![t] = [state |-> "open", owner |-> u]]
  <2>1. expired' = expired
    BY DEF InviteUser
  <2>2. Link'[t] = [state |-> "open", owner |-> u]
    BY <1>1, <1>2, <2>1 DEF Link, LinkState, NewToken
  <2>3. \A s \in Tokens \ {t} : Link'[s] = CloseLinks({})[s]
    BY <1>1, <1>2, <2>1, SameLink
  <2> QED
    BY <2>2, <2>3 DEF Link, CloseLinks
<1>4. Claims' = Claims
  BY StartClaims DEF InviteUser, Redeeming
<1>5. Passwords' = Passwords
  BY DEF InviteUser, Unborn, Passwords, TypeOK
<1>6. Link[t].state = "unissued"
  BY <1>1, LinkStates
<1>7. C!Issue(t, u, {})
  BY <1>3, <1>4, <1>5, <1>6, AbstractActions
<1> QED
  BY <1>7 DEF AbstractStep, C!Next

LEMMA InsertIssues ==
    ASSUME RInv, NEW r \in Requests, NEW t \in Tokens, InsertResetToken(r, t)
    PROVE  AbstractStep
<1> USE DEF RInv
<1>a. request[r].user \in Users /\ request[r].seen \subseteq Tokens
  BY DEF InsertResetToken, At, TypeOK, RequestsOK, RequestState
<1>b. PICK u \in Users, S \in SUBSET Tokens : u = request[r].user /\ S = request[r].seen
  BY <1>a
<1>1. token[t].status = "unborn" /\ t \notin expired /\ At(r, "forgotInsert")
  BY DEF InsertResetToken, UnusedToken, ScopeOK
<1>2. \A s \in S : token[s].userId = u /\ token[s].status # "unborn" /\ s # t
  BY <1>b, <1>1, NilAssumption DEF ScopeOK, TypeOK, TokensOK
<1>3. \A s \in Tokens : token'[s] = IF s = t THEN NewToken(r, "PASSWORD_RESET", u)
                                    ELSE IF s \in S THEN Revoke(s) ELSE token[s]
  BY <1>b DEF InsertResetToken
<1>4. expired' = expired
  BY DEF InsertResetToken
<1>5. \A s \in Tokens \ {t} : Link'[s] = CloseLinks(S)[s]
  <2>1. ASSUME NEW s \in S PROVE Link'[s] = CloseLinks(S)[s]
    BY <1>1, <1>2, <1>3, <1>4, <2>1, RevokeOK, LinkCloses DEF TypeOK
  <2>2. ASSUME NEW s \in Tokens \ {t}, s \notin S PROVE Link'[s] = CloseLinks(S)[s]
    BY <1>3, <1>4, <2>2, SameLink
  <2> QED
    BY <2>1, <2>2
<1>6. Link'[t] = [state |-> "open", owner |-> u]
  BY <1>1, <1>3, <1>4 DEF Link, LinkState, NewToken
<1>7. Link' = [CloseLinks(S) EXCEPT ![t] = [state |-> "open", owner |-> u]]
  BY <1>5, <1>6 DEF Link, CloseLinks
<1>8. Claims' = Claims
  BY <1>1, SameClaims DEF InsertResetToken, At, Redeeming, TypeOK, RequestsOK
<1>9. Passwords' = Passwords
  BY DEF InsertResetToken, Passwords
<1>10. Link[t].state = "unissued"
  BY <1>1, LinkStates
<1>11. S \subseteq {s \in Tokens : token[s].userId = u}
  BY <1>1, <1>2
<1>12. C!Issue(t, u, S)
  BY <1>7, <1>8, <1>9, <1>10, <1>11, AbstractActions
<1> QED
  BY <1>12 DEF AbstractStep, C!Next

LEMMA LookupClaims ==
    ASSUME RInv, NEW r \in Requests, NEW t \in Tokens, NEW pc \in Redeeming,
           NEW type, FindUsableToken(t, type), Start(r, pc, token[t].userId, t),
           UNCHANGED <<user, token, expired>>
    PROVE  AbstractStep
<1>1. Link[t].state = "open"
  BY LinkStates DEF RInv, FindUsableToken
<1>2. Claims[r] = Nil /\ Claims' = [Claims EXCEPT ![r] = t]
  BY StartClaims DEF RInv
<1>3. Link' = Link /\ Passwords' = Passwords
  BY SameLinks DEF Passwords
<1>4. C!Claim(r, t)
  BY <1>1, <1>2, <1>3, AbstractActions
<1> QED
  BY <1>4 DEF AbstractStep, C!Next

LEMMA RedeemRedeems ==
    ASSUME RInv, NEW r \in Requests, Redeem(r)
    PROVE  AbstractStep
<1> USE DEF RInv
<1> DEFINE u == request[r].user
           t == request[r].token
<1>1. u \in Users /\ t \in Tokens /\ token[t].userId = u /\ token[t].status # "unborn"
  BY KnownLink DEF Redeem, HoldingLink
<1>2. Claims[r] = t /\ t # Nil
  BY <1>1, NilAssumption DEF Redeem, Claims
<1>3. token[t] \in TokenRow /\ token' = [token EXCEPT ![t].status = "USED_OR_REVOKED"]
  BY <1>1 DEF Redeem, TypeOK, TokensOK
<1>4. Link' = CloseLinks({t})
  <2>1. token'[t].status = "USED_OR_REVOKED" /\ token'[t].userId = token[t].userId
    BY <1>1, <1>3 DEF TypeOK, TokensOK, TokenRow
  <2>2. \A s \in Tokens \ {t} : token'[s] = token[s]
    BY <1>3
  <2>3. expired' = expired
    BY DEF Redeem
  <2>4. Link'[t] = CloseLinks({t})[t]
    BY <1>1, <2>1, LinkCloses
  <2>5. \A s \in Tokens \ {t} : Link'[s] = CloseLinks({t})[s]
    BY <2>2, <2>3, SameLink
  <2> QED
    BY <2>4, <2>5 DEF Link, CloseLinks
<1>5. Link[t].owner = u
  BY <1>1, LinkStates
<1>6. Passwords' = [Passwords EXCEPT ![u] = t]
  BY <1>1 DEF Redeem, SetPassword, Passwords, TypeOK, UserRow
<1>7. Claims' = [Claims EXCEPT ![r] = Nil]
  BY FinishClaims DEF Redeem
<1>8. C!Redeem(r)
  BY <1>2, <1>4, <1>5, <1>6, <1>7, AbstractActions
<1> QED
  BY <1>8 DEF AbstractStep, C!Next

LEMMA DeleteErases ==
    ASSUME RInv, NEW u \in Users, NEW r \in Requests, DeleteUser(u), UNCHANGED expired, Finish(r),
           request[r].pc \notin Redeeming
    PROVE  AbstractStep
<1>1. Claims' = Claims
  BY FinishClaims DEF RInv
<1>2. C!Erase(u)
  BY <1>1, Erases, AbstractActions
<1> QED
  BY <1>2 DEF AbstractStep, C!Next

LEMMA EndsAbandon ==
    ASSUME RInv, NEW r \in Requests, Finish(r), UNCHANGED <<user, token, expired>>
    PROVE  AbstractStep
<1>1. Claims' = [q \in Requests |-> IF q \in {r} THEN Nil ELSE Claims[q]]
  BY FinishClaims DEF RInv
<1>2. C!Abandon({r})
  BY <1>1, SameLinks, AbstractActions DEF Passwords
<1> QED
  BY <1>2 DEF AbstractStep, C!Next

LEMMA StepImplements == RInv /\ [Next]_vars => AbstractStep
<1> SUFFICES ASSUME RInv, [Next]_vars PROVE AbstractStep
  OBVIOUS
<1> USE DEF RInv
<1>a. ASSUME NEW r \in Requests, Finish(r), request[r].pc \notin Redeeming,
             UNCHANGED <<token, expired>>, Passwords' = Passwords
      PROVE  AbstractStep
  BY <1>a, FinishClaims, SameLinks DEF AbstractStep
<1>b. ASSUME NEW r \in Requests, NEW pc, NEW u, NEW t, Start(r, pc, u, t), pc \notin Redeeming,
             UNCHANGED <<user, token, expired>>
      PROVE  AbstractStep
  BY <1>b, StartClaims, SameLinks DEF AbstractStep, Passwords
<1>c. ASSUME NEW r \in Requests, request[r].pc \in {"inviteMail", "forgotRevoke"},
             request'[r].pc \in {"inviteUndo", "forgotInsert"},
             \A q \in Requests \ {r} : request'[q] = request[q],
             UNCHANGED <<user, token, expired>>
      PROVE  AbstractStep
  <2>1. Claims' = Claims
    BY <1>c, SameClaims DEF Redeeming
  <2> QED
    BY <1>c, <2>1, SameLinks DEF AbstractStep, Passwords
<1>d. {"inviteMail", "inviteUndo", "forgotMail", "forgotRevoke", "updateWrite", "hardDelete",
       "softDelete", "login"} \cap Redeeming = {}
  BY DEF Redeeming
<1>1. ASSUME NEW r \in Requests, Arrive(r) PROVE AbstractStep
  <2>1. ASSUME NEW e \in Emails, NEW u \in Users, NEW t \in Tokens, InviteUser(r, e, u, t)
        PROVE  AbstractStep
    BY <2>1, InviteIssues
  <2>2. ASSUME NEW t \in Tokens, ActivateAccount(r, t) PROVE AbstractStep
    BY <2>2, LookupClaims DEF ActivateAccount, Redeeming, tables
  <2>3. ASSUME NEW t \in Tokens, ResetPassword(r, t) PROVE AbstractStep
    BY <2>3, LookupClaims DEF ResetPassword, Redeeming, tables
  <2>4. ASSUME NEW u \in Users, ForgotPassword(r, u) PROVE AbstractStep
    BY <2>4, <1>b, <1>d DEF ForgotPassword, tables
  <2>5. ASSUME NEW u \in Users, UpdateUser(r, u) PROVE AbstractStep
    BY <2>5, <1>b, <1>d DEF UpdateUser, tables
  <2>6. ASSUME NEW u \in Users, RemoveUser(r, u) PROVE AbstractStep
    BY <2>6, <1>b, <1>d DEF RemoveUser, tables
  <2>7. ASSUME NEW u \in Users, Login(r, u) PROVE AbstractStep
    BY <2>7, <1>b, <1>d DEF Login, tables
  <2> QED
    BY <1>1, <2>1, <2>2, <2>3, <2>4, <2>5, <2>6, <2>7 DEF Arrive
<1>2. ASSUME NEW r \in Requests, Continue(r) PROVE AbstractStep
  <2>1. CASE SendActivationEmail(r)
    BY <2>1, <1>a, <1>d DEF SendActivationEmail, At, Passwords, tables
  <2>2. CASE SendActivationEmailFails(r)
    BY <2>2, <1>c DEF SendActivationEmailFails, Goto, At, tables, TypeOK, RequestsOK, RequestState
  <2>3. CASE UndoInvite(r)
    <3>1. request[r].user \in Users /\ request[r].pc \notin Redeeming
      BY <2>3, <1>d DEF UndoInvite, At, TypeOK, RequestsOK
    <3>2. CASE Exists(request[r].user)
      BY <2>3, <3>1, <3>2, DeleteErases DEF UndoInvite
    <3>3. CASE ~ Exists(request[r].user)
      BY <2>3, <3>3, EndsAbandon DEF UndoInvite, tables
    <3> QED
      BY <3>2, <3>3
  <2>4. CASE Redeem(r)
    BY <2>4, RedeemRedeems
  <2>5. CASE RevokeResetTokens(r)
    BY <2>5, <1>c DEF RevokeResetTokens, At, tables, TypeOK, RequestsOK, RequestState
  <2>6. ASSUME NEW t \in Tokens, InsertResetToken(r, t) PROVE AbstractStep
    BY <2>6, InsertIssues
  <2>7. CASE SendPasswordResetEmail(r)
    BY <2>7, <1>a, <1>d DEF SendPasswordResetEmail, At, Passwords, tables
  <2>8. ASSUME NEW s \in DtoStatus, WriteUserStatus(r, s) PROVE AbstractStep
    <3>1. Passwords' = Passwords
      BY <2>8 DEF WriteUserStatus, Passwords, TypeOK, UserRow
    <3> QED
      BY <2>8, <1>a, <1>d, <3>1 DEF WriteUserStatus, At
  <2>9. CASE HardDelete(r)
    <3>1. request[r].user \in Users /\ request[r].pc \notin Redeeming
      BY <2>9, <1>d DEF HardDelete, At, TypeOK, RequestsOK
    <3> QED
      BY <2>9, <3>1, DeleteErases DEF HardDelete
  <2>10. CASE SoftDelete(r)
    <3>1. Passwords' = Passwords
      BY <2>10 DEF SoftDelete, Passwords, TypeOK, UserRow
    <3> QED
      BY <2>10, <1>a, <1>d, <3>1 DEF SoftDelete, At
  <2>11. CASE SignAccessToken(r)
    BY <2>11, <1>a, <1>d DEF SignAccessToken, At, Passwords, tables
  <2>12. CASE RowIsGone(r)
    BY <2>12, EndsAbandon DEF RowIsGone, tables
  <2>13. CASE WriteFails(r)
    BY <2>13, EndsAbandon DEF WriteFails, tables
  <2> QED
    BY <1>2, <2>1, <2>2, <2>3, <2>4, <2>5, <2>6, <2>7, <2>8, <2>9, <2>10, <2>11, <2>12, <2>13
       DEF Continue
<1>3. ASSUME NEW t \in Tokens, Expire(t) PROVE AbstractStep
  <2>1. token[t].status # "unborn" /\ token' = token /\ expired' = expired \cup {t}
    BY <1>3 DEF Expire, tables
  <2>2. \A s \in Tokens : Link'[s] = CloseLinks({t})[s]
    <3>1. Link'[t] = CloseLinks({t})[t]
      BY <2>1, LinkCloses
    <3>2. ASSUME NEW s \in Tokens \ {t} PROVE Link'[s] = CloseLinks({t})[s]
      BY <2>1, SameLink
    <3> QED
      BY <3>1, <3>2
  <2>3. Link' = CloseLinks({t})
    BY <2>2 DEF Link, CloseLinks
  <2>4. Claims' = Claims /\ Passwords' = Passwords
    BY <1>3 DEF Expire, tables, Claims, Passwords
  <2>5. C!Expire(t)
    BY <2>3, <2>4, AbstractActions
  <2> QED
    BY <2>5 DEF AbstractStep, C!Next
<1>4. CASE Restart
  <2>1. Claims' = [r \in Requests |-> IF r \in Requests THEN Nil ELSE Claims[r]]
    BY <1>4 DEF Restart, Claims, Idle, Redeeming
  <2>2. Link' = Link /\ Passwords' = Passwords
    BY <1>4, SameLinks DEF Restart, tables, Passwords
  <2>3. C!Abandon(Requests)
    BY <2>1, <2>2, AbstractActions
  <2> QED
    BY <2>3 DEF AbstractStep, C!Next
<1>5. CASE UNCHANGED vars
  BY <1>5, SameLinks DEF vars, AbstractStep, Claims, Passwords
<1> QED
  BY <1>1, <1>2, <1>3, <1>4, <1>5 DEF Next

(* The handlers of accounts, links and passwords implement Credentials,    *)
(* for every set of users, links and slots and in every interleaving.      *)
THEOREM Implementation == Spec => ImplementsCredentials
<1>1. Init => RInv /\ C!Init
  <2> SUFFICES ASSUME Init PROVE RInv /\ C!Init
    OBVIOUS
  <2>1. RInv
    BY InitIInv DEF IInv, RInv, ScopeOK, Init, At, Idle
  <2>2. C!Init
    BY DEF Init, C!Init, LinkState, UnusedToken, Unborn, Idle, Redeeming
  <2> QED
    BY <2>1, <2>2
<1>2. RInv /\ [Next]_vars => RInv'
  BY TypeStep, HeldLinksStep, ScopeStep DEF RInv
<1>3. RInv /\ [Next]_vars => [C!Next]_<<Link, Claims, Passwords>>
  BY StepImplements DEF AbstractStep
<1> QED
  BY <1>1, <1>2, <1>3, PTL DEF Spec, ImplementsCredentials, C!Spec, Link, Claims, Passwords

=============================================================================
