--------------------------- MODULE AccountsProofs ---------------------------
(***************************************************************************)
(* Proofs about Accounts, for any sets of users, e-mails, links and slots. *)
(***************************************************************************)
EXTENDS Accounts, TLAPS

-----------------------------------------------------------------------------
(* What the control operators do to the requests in flight.                *)

LEMMA StartOK ==
    ASSUME RequestsOK, NEW r \in Requests, NEW pc \in Points, NEW u \in Users,
           NEW t \in Tokens \cup {Nil}, pc \in HoldingLink => t \in Tokens,
           Start(r, pc, u, t)
    PROVE  RequestsOK'
<1> DEFINE new == [pc |-> pc, user |-> u, token |-> t, seen |-> {}]
<1>1. new \in RequestState
  BY DEF RequestState
<1>2. request' = [request EXCEPT ![r] = new]
  BY DEF Start
<1>3. \A q \in Requests : request'[q] = IF q = r THEN new ELSE request[q]
  BY <1>2 DEF RequestsOK
<1> QED
  BY <1>1, <1>2, <1>3 DEF RequestsOK

LEMMA FinishOK ==
    ASSUME RequestsOK, NEW r \in Requests, Finish(r)
    PROVE  RequestsOK'
<1>1. Idle \in RequestState /\ Idle.pc = "idle"
  BY DEF Idle, RequestState, Points
<1>2. \A q \in Requests : request'[q] = IF q = r THEN Idle ELSE request[q]
  BY DEF RequestsOK, Finish
<1>3. "idle" \notin HoldingLink
  BY DEF HoldingLink, Mailing, Redeeming
<1> QED
  BY <1>1, <1>2, <1>3 DEF RequestsOK, Finish

LEMMA DeleteUserOK ==
    ASSUME user \in [Users -> UserRow], TokensOK, NEW u \in Users, DeleteUser(u)
    PROVE  user' \in [Users -> UserRow] /\ TokensOK'
<1>1. Deleted \in UserRow
  BY DEF Deleted, UserRow
<1>2. \A t \in Tokens : [token[t] EXCEPT !.status = "deleted"] \in TokenRow
  BY DEF TokensOK, TokenRow
<1>3. \A t \in Tokens : [token[t] EXCEPT !.status = "deleted"].userId = token[t].userId
  BY DEF TokensOK, TokenRow
<1>4. \A t \in Tokens : token'[t] = IF token[t].userId = u
                                    THEN [token[t] EXCEPT !.status = "deleted"]
                                    ELSE token[t]
  BY DEF DeleteUser
<1>5. \A t \in Tokens : [token[t] EXCEPT !.status = "deleted"].status = "deleted"
  BY DEF TokensOK, TokenRow
<1>6. TokensOK'
  BY <1>2, <1>3, <1>4, <1>5, NilAssumption DEF DeleteUser, TokensOK
<1> QED
  BY <1>1, <1>6 DEF DeleteUser

LEMMA NewTokenOK ==
    ASSUME NEW r \in Requests, NEW t \in Tokens, NEW type \in UserTokenType, NEW u \in Users
    PROVE  /\ NewToken(r, type, u) \in TokenRow
           /\ NewToken(r, type, u).userId = u
           /\ NewToken(r, type, u).status = "ACTIVE"
BY DEF NewToken, TokenRow

LEMMA RevokeOK ==
    ASSUME TokensOK, NEW t \in Tokens
    PROVE  /\ Revoke(t) \in TokenRow
           /\ Revoke(t).userId = token[t].userId
           /\ Revoke(t).type = token[t].type
           /\ Revoke(t).issuer = token[t].issuer
           /\ Revoke(t).status # "ACTIVE"
           /\ Revoke(t).status = "unborn" <=> token[t].status = "unborn"
           /\ Revoke(t).status = "deleted" <=> token[t].status = "deleted"
BY DEF TokensOK, TokenRow, Revoke

-----------------------------------------------------------------------------
(* Every step of the handlers keeps every row and request in its type.     *)
LEMMA TypeStep == TypeOK /\ HeldLinksOK /\ [Next]_vars => TypeOK'
<1> SUFFICES ASSUME TypeOK, HeldLinksOK, [Next]_vars PROVE TypeOK'
  OBVIOUS
<1> USE DEF TypeOK, tables, history
<1>a. /\ {"idle", "login", "inviteMail", "inviteUndo", "activate", "reset", "forgotRevoke",
          "forgotInsert", "forgotMail", "updateWrite", "hardDelete", "softDelete"} \subseteq Points
      /\ HoldingLink = {"inviteMail", "inviteUndo", "activate", "reset", "forgotMail"}
      /\ Redeeming = {"activate", "reset"}
      /\ Mailing = {"inviteMail", "forgotMail"}
  BY DEF Points, HoldingLink, Mailing, Writing, Redeeming
<1>b. \A r \in Requests : /\ request[r].pc # "idle" => request[r].user \in Users
                          /\ request[r].pc \in HoldingLink => request[r].token \in Tokens
  BY DEF RequestsOK
<1>c. Nil \notin Users
  BY NilAssumption
<1>d. \A t \in Tokens : token[t].status # "unborn" => token[t].userId \in Users
  BY DEF TokensOK, TokenRow
<1>1. ASSUME NEW r \in Requests, NEW e \in Emails, NEW u \in Users, NEW t \in Tokens,
             InviteUser(r, e, u, t)
      PROVE TypeOK'
  <2>1. RequestsOK'
    BY <1>1, <1>a, StartOK DEF InviteUser
  <2>2. [status |-> "PENDING", email |-> e, password |-> Nil] \in UserRow
    BY DEF UserRow, UserStatus
  <2>3. TokensOK'
    <3>1. \A s \in Tokens : token'[s] = IF s = t THEN NewToken(r, "ACTIVATION", u) ELSE token[s]
      BY <1>1 DEF InviteUser, TokensOK
    <3> QED
      BY <1>1, <1>c, <3>1, NewTokenOK DEF InviteUser, TokensOK, UserTokenType
  <2> QED
    BY <1>1, <2>1, <2>2, <2>3 DEF InviteUser
<1>2. ASSUME NEW r \in Requests, SendActivationEmail(r) PROVE TypeOK'
  BY <1>2, <1>a, <1>b, FinishOK DEF SendActivationEmail, At, TokensOK
<1>3. ASSUME NEW r \in Requests, SendActivationEmailFails(r) PROVE TypeOK'
  <2>1. RequestsOK'
    BY <1>3, <1>a DEF SendActivationEmailFails, Goto, At, RequestsOK, RequestState
  <2> QED
    BY <1>3, <1>a, <1>b, <2>1 DEF SendActivationEmailFails, At, TokensOK
<1>4. ASSUME NEW r \in Requests, UndoInvite(r) PROVE TypeOK'
  <2>1. request[r].user \in Users
    BY <1>4, <1>b DEF UndoInvite, At
  <2>2. user' \in [Users -> UserRow] /\ TokensOK'
    BY <1>4, <2>1, DeleteUserOK DEF UndoInvite, TokensOK
  <2> QED
    BY <1>4, <2>2, FinishOK DEF UndoInvite
<1>5. ASSUME NEW r \in Requests, NEW t \in Tokens, ActivateAccount(r, t) PROVE TypeOK'
  <2>1. token[t].userId \in Users
    BY <1>5, <1>d DEF ActivateAccount, FindUsableToken
  <2> QED
    BY <1>5, <1>a, <2>1, StartOK DEF ActivateAccount, TokensOK
<1>6. ASSUME NEW r \in Requests, NEW t \in Tokens, ResetPassword(r, t) PROVE TypeOK'
  <2>1. token[t].userId \in Users
    BY <1>6, <1>d DEF ResetPassword, FindUsableToken
  <2> QED
    BY <1>6, <1>a, <2>1, StartOK DEF ResetPassword, TokensOK
<1>7. ASSUME NEW r \in Requests, Redeem(r) PROVE TypeOK'
  <2>1. request[r].user \in Users /\ request[r].token \in Tokens
    BY <1>7, <1>a, <1>b DEF Redeem
  <2>2. user' \in [Users -> UserRow]
    BY <1>7, <2>1 DEF Redeem, SetPassword, UserRow, UserStatus
  <2>3. TokensOK'
    BY <1>7, <1>a, <1>d, <2>1, NilAssumption DEF Redeem, TokensOK, TokenRow, HeldLinksOK
  <2> QED
    BY <1>7, <2>1, <2>2, <2>3, FinishOK DEF Redeem
<1>8. ASSUME NEW r \in Requests, NEW u \in Users, ForgotPassword(r, u) PROVE TypeOK'
  BY <1>8, <1>a, StartOK DEF ForgotPassword, TokensOK
<1>9. ASSUME NEW r \in Requests, RevokeResetTokens(r) PROVE TypeOK'
  <2>1. ActiveResetTokens(request[r].user) \subseteq Tokens
    BY DEF ActiveResetTokens
  <2>2. RequestsOK'
    BY <1>9, <1>a, <2>1 DEF RevokeResetTokens, At, RequestsOK, RequestState
  <2> QED
    BY <1>9, <2>2 DEF RevokeResetTokens, TokensOK
<1>10. ASSUME NEW r \in Requests, NEW t \in Tokens, InsertResetToken(r, t) PROVE TypeOK'
  <2>1. request[r].user \in Users
    BY <1>10, <1>b DEF InsertResetToken, At
  <2>2. RequestsOK'
    BY <1>10, <1>a, <2>1 DEF InsertResetToken, RequestsOK, RequestState
  <2>3. \A s \in Tokens :
           token'[s] = IF s = t THEN NewToken(r, "PASSWORD_RESET", request[r].user)
                       ELSE IF s \in request[r].seen THEN Revoke(s) ELSE token[s]
    BY <1>10 DEF InsertResetToken
  <2>4. TokensOK'
    <3>1. "PASSWORD_RESET" \in UserTokenType
      BY DEF UserTokenType
    <3>2. \A s \in Tokens : token'[s] \in TokenRow
      BY <2>1, <2>3, <3>1, NewTokenOK, RevokeOK DEF TokensOK
    <3>3. \A s \in Tokens : token'[s].status = "unborn" <=> token'[s].userId = Nil
      BY <1>c, <2>1, <2>3, <3>1, NewTokenOK, RevokeOK DEF TokensOK
    <3>4. token' = [s \in Tokens |-> token'[s]]
      BY <1>10 DEF InsertResetToken
    <3> QED
      BY <3>2, <3>3, <3>4 DEF TokensOK
  <2> QED
    BY <1>10, <2>2, <2>4 DEF InsertResetToken
<1>11. ASSUME NEW r \in Requests, SendPasswordResetEmail(r) PROVE TypeOK'
  BY <1>11, <1>a, <1>b, FinishOK DEF SendPasswordResetEmail, At, TokensOK
<1>12. ASSUME NEW r \in Requests, NEW u \in Users, UpdateUser(r, u) PROVE TypeOK'
  BY <1>12, <1>a, StartOK DEF UpdateUser, TokensOK
<1>13. ASSUME NEW r \in Requests, NEW s \in DtoStatus, WriteUserStatus(r, s) PROVE TypeOK'
  <2>1. user' \in [Users -> UserRow]
    BY <1>13, <1>b DEF WriteUserStatus, At, DtoStatus, UserRow
  <2> QED
    BY <1>13, <2>1, FinishOK DEF WriteUserStatus, TokensOK
<1>14. ASSUME NEW r \in Requests, NEW u \in Users, RemoveUser(r, u) PROVE TypeOK'
  BY <1>14, <1>a, StartOK DEF RemoveUser, TokensOK
<1>15. ASSUME NEW r \in Requests, HardDelete(r) PROVE TypeOK'
  <2>1. request[r].user \in Users
    BY <1>15, <1>b DEF HardDelete, At
  <2> QED
    BY <1>15, <2>1, DeleteUserOK, FinishOK DEF HardDelete
<1>16. ASSUME NEW r \in Requests, SoftDelete(r) PROVE TypeOK'
  <2>1. user' \in [Users -> UserRow]
    BY <1>16, <1>b DEF SoftDelete, At, UserRow, UserStatus
  <2> QED
    BY <1>16, <2>1, FinishOK DEF SoftDelete, TokensOK
<1>17. ASSUME NEW r \in Requests, NEW u \in Users, Login(r, u) PROVE TypeOK'
  BY <1>17, <1>a, StartOK DEF Login, TokensOK
<1>18. ASSUME NEW r \in Requests, SignAccessToken(r) PROVE TypeOK'
  BY <1>18, <1>b, FinishOK DEF SignAccessToken, At, TokensOK
<1>19. ASSUME NEW r \in Requests, RowIsGone(r) PROVE TypeOK'
  BY <1>19, FinishOK DEF RowIsGone, TokensOK
<1>20. ASSUME NEW r \in Requests, WriteFails(r) PROVE TypeOK'
  BY <1>20, <1>b, FinishOK DEF WriteFails, At, TokensOK
<1>21. CASE Restart
  <2>1. {request[r].token : r \in {q \in Requests : request[q].pc \in Mailing}} \subseteq Tokens
    BY <1>a, <1>b
  <2>2. RequestsOK'
    <3>1. Idle \in RequestState /\ Idle.pc = "idle" /\ "idle" \notin HoldingLink
      BY <1>a DEF Idle, RequestState
    <3> QED
      BY <1>21, <3>1 DEF Restart, RequestsOK
  <2> QED
    BY <1>21, <2>1, <2>2 DEF Restart, TokensOK
<1>22. ASSUME NEW t \in Tokens, Expire(t) PROVE TypeOK'
  BY <1>22 DEF Expire, TokensOK, RequestsOK
<1>23. CASE UNCHANGED vars
  BY <1>23 DEF vars, TokensOK, RequestsOK
<1> QED
  BY <1>1, <1>2, <1>3, <1>4, <1>5, <1>6, <1>7, <1>8, <1>9, <1>10, <1>11, <1>12, <1>13,
     <1>14, <1>15, <1>16, <1>17, <1>18, <1>19, <1>20, <1>21, <1>22, <1>23
     DEF Next, Arrive, Continue

-----------------------------------------------------------------------------
(* What a step may do to a link.                                           *)

LinkEvolves(t) ==
    /\ token'[t].userId = token[t].userId
    /\ token'[t].type = token[t].type
    /\ token'[t].issuer = token[t].issuer
    /\ token'[t].status # "unborn"
    /\ token[t].status # "ACTIVE" => token'[t].status # "ACTIVE"

(* A link that exists keeps its user, its type and its issuer, and once it *)
(* is used, revoked or deleted it never becomes active again.              *)
LEMMA LinksEvolve ==
    ASSUME TypeOK, HeldLinksOK, [Next]_vars, NEW t \in Tokens, token[t].status # "unborn"
    PROVE  LinkEvolves(t)
<1>1. CASE UNCHANGED token
  BY <1>1 DEF LinkEvolves
<1>2. ASSUME NEW u, DeleteUser(u) PROVE LinkEvolves(t)
  <2>1. token[t] \in TokenRow
    BY DEF TypeOK, TokensOK
  <2> QED
    BY <1>2, <2>1 DEF DeleteUser, LinkEvolves, TokenRow
<1>3. ASSUME NEW r \in Requests, NEW e \in Emails, NEW u \in Users, NEW s \in Tokens,
             InviteUser(r, e, u, s)
      PROVE LinkEvolves(t)
  BY <1>3 DEF InviteUser, LinkEvolves, TypeOK, TokensOK, UnusedToken
<1>4. ASSUME NEW r \in Requests, Redeem(r) PROVE LinkEvolves(t)
  BY <1>4 DEF Redeem, LinkEvolves, TypeOK, TokensOK, TokenRow
<1>5. ASSUME NEW r \in Requests, NEW s \in Tokens, InsertResetToken(r, s) PROVE LinkEvolves(t)
  <2>1. s # t
    BY <1>5 DEF InsertResetToken, UnusedToken
  <2>2. token'[t] = IF t \in request[r].seen THEN Revoke(t) ELSE token[t]
    BY <1>5, <2>1 DEF InsertResetToken
  <2> QED
    BY <2>2, RevokeOK DEF LinkEvolves, TypeOK
<1> QED
  BY <1>1, <1>2, <1>3, <1>4, <1>5
     DEF Next, Arrive, Continue, vars, tables, SendActivationEmail, SendActivationEmailFails,
         UndoInvite, ActivateAccount, ResetPassword, ForgotPassword, RevokeResetTokens,
         SendPasswordResetEmail, UpdateUser, WriteUserStatus, RemoveUser, HardDelete,
         SoftDelete, Login, SignAccessToken, RowIsGone, WriteFails, Restart, Expire

(* Links once mailed stay mailed, and histories only grow.                 *)
LEMMA MailedGrows ==
    ASSUME TypeOK, [Next]_vars
    PROVE  /\ mailed \subseteq mailed'
           /\ \A t \in Tokens : redeemers[t] \subseteq redeemers'[t]
           /\ cut \subseteq cut'
<1>1. ASSUME NEW r \in Requests, Redeem(r)
      PROVE  \A t \in Tokens : redeemers[t] \subseteq redeemers'[t]
  BY <1>1 DEF Redeem, TypeOK
<1> QED
  BY <1>1
     DEF Next, Arrive, Continue, vars, tables, history, InviteUser, SendActivationEmail,
         SendActivationEmailFails, UndoInvite, ActivateAccount, ResetPassword, Redeem,
         ForgotPassword, RevokeResetTokens, InsertResetToken, SendPasswordResetEmail,
         UpdateUser, WriteUserStatus, RemoveUser, HardDelete, SoftDelete, Login,
         SignAccessToken, RowIsGone, WriteFails, Restart, Expire

-----------------------------------------------------------------------------
(* What a step may do to a request.                                        *)

\* It takes up a link: one just issued for its user, or a mailed one it may redeem.
TakesLink(r) ==
    LET now == request'[r]
    IN  /\ now.token \in Tokens
        /\ token'[now.token].userId = now.user
        /\ \/ now.pc \in Mailing
           \/ /\ now.pc \in Redeeming
              /\ now.token \in mailed
              /\ token[now.token].status = "ACTIVE"
              /\ UNCHANGED redeemers

\* It goes on to undo the invitation whose mail failed.
TurnsToUndo(r) ==
    /\ At(r, "inviteMail")
    /\ request'[r] = [request[r] EXCEPT !.pc = "inviteUndo"]

\* It goes on, or starts, without a link.
ProceedsWithoutLink(r) ==
    LET now == request'[r]
    IN  /\ now.pc \notin HoldingLink
        /\ now.pc = "login" => MayLogIn(now.user) /\ now.user \in Users
        /\ now.pc = "forgotInsert" => now.seen = ActiveResetTokens(now.user) /\ UNCHANGED token

RequestEvolves(r) ==
    \/ request'[r] = request[r]
    \/ request'[r] = Idle
    \/ TakesLink(r)
    \/ TurnsToUndo(r)
    \/ ProceedsWithoutLink(r)

(* Every request, in every step, stands still, ends, takes up a link that  *)
(* is its user's, or goes on without one.                                  *)
LEMMA RequestsEvolve ==
    ASSUME TypeOK, HeldLinksOK, [Next]_vars, NEW q \in Requests
    PROVE  RequestEvolves(q)
<1> USE DEF RequestEvolves
<1>a. ASSUME NEW r \in Requests, Finish(r) PROVE RequestEvolves(q)
  BY <1>a DEF Finish, TypeOK, RequestsOK
<1>c. /\ {"forgotRevoke", "updateWrite", "hardDelete", "softDelete", "login", "forgotInsert"}
             \cap HoldingLink = {}
      /\ Redeeming = {"activate", "reset"}
      /\ Mailing = {"inviteMail", "forgotMail"}
  BY DEF HoldingLink, Mailing, Redeeming
<1>1. ASSUME NEW r \in Requests, NEW e \in Emails, NEW u \in Users, NEW t \in Tokens,
             InviteUser(r, e, u, t)
      PROVE RequestEvolves(q)
  <2>1. token'[t].userId = u
    BY <1>1 DEF InviteUser, NewToken, TypeOK, TokensOK
  <2>2. \/ request'[q] = request[q]
        \/ request'[q] = [pc |-> "inviteMail", user |-> u, token |-> t, seen |-> {}]
    BY <1>1 DEF InviteUser, Start, TypeOK, RequestsOK
  <2> QED
    BY <1>c, <2>1, <2>2 DEF TakesLink
<1>2. ASSUME NEW r \in Requests, SendActivationEmailFails(r) PROVE RequestEvolves(q)
  BY <1>2 DEF SendActivationEmailFails, Goto, TurnsToUndo, TypeOK, RequestsOK
<1>3. ASSUME NEW r \in Requests, NEW t \in Tokens, ActivateAccount(r, t) PROVE RequestEvolves(q)
  <2>1. \/ request'[q] = request[q]
        \/ request'[q] = [pc |-> "activate", user |-> token[t].userId, token |-> t, seen |-> {}]
    BY <1>3 DEF ActivateAccount, Start, TypeOK, RequestsOK
  <2> QED
    BY <1>3, <1>c, <2>1 DEF ActivateAccount, TakesLink, FindUsableToken, tables, history
<1>4. ASSUME NEW r \in Requests, NEW t \in Tokens, ResetPassword(r, t) PROVE RequestEvolves(q)
  <2>1. \/ request'[q] = request[q]
        \/ request'[q] = [pc |-> "reset", user |-> token[t].userId, token |-> t, seen |-> {}]
    BY <1>4 DEF ResetPassword, Start, TypeOK, RequestsOK
  <2> QED
    BY <1>4, <1>c, <2>1 DEF ResetPassword, TakesLink, FindUsableToken, tables, history
<1>5. ASSUME NEW r \in Requests, NEW u \in Users, ForgotPassword(r, u) PROVE RequestEvolves(q)
  <2>1. \/ request'[q] = request[q]
        \/ request'[q] = [pc |-> "forgotRevoke", user |-> u, token |-> Nil, seen |-> {}]
    BY <1>5 DEF ForgotPassword, Start, TypeOK, RequestsOK
  <2> QED
    BY <1>5, <1>c, <2>1 DEF ForgotPassword, ProceedsWithoutLink
<1>6. ASSUME NEW r \in Requests, RevokeResetTokens(r) PROVE RequestEvolves(q)
  <2>1. \/ request'[q] = request[q]
        \/ /\ request'[q].pc = "forgotInsert"
           /\ request'[q].user = request[q].user
           /\ request'[q].seen = ActiveResetTokens(request[q].user)
    BY <1>6 DEF RevokeResetTokens, TypeOK, RequestsOK, RequestState
  <2> QED
    BY <1>6, <1>c, <2>1 DEF RevokeResetTokens, ProceedsWithoutLink, tables
<1>7. ASSUME NEW r \in Requests, NEW t \in Tokens, InsertResetToken(r, t) PROVE RequestEvolves(q)
  <2>1. token'[t].userId = request[r].user
    BY <1>7 DEF InsertResetToken, NewToken
  <2>2. \/ request'[q] = request[q]
        \/ request'[q] = [pc |-> "forgotMail", user |-> request[r].user, token |-> t, seen |-> {}]
    BY <1>7 DEF InsertResetToken, TypeOK, RequestsOK
  <2> QED
    BY <1>c, <2>1, <2>2 DEF TakesLink
<1>8. ASSUME NEW r \in Requests, NEW u \in Users, UpdateUser(r, u) PROVE RequestEvolves(q)
  <2>1. \/ request'[q] = request[q]
        \/ request'[q] = [pc |-> "updateWrite", user |-> u, token |-> Nil, seen |-> {}]
    BY <1>8 DEF UpdateUser, Start, TypeOK, RequestsOK
  <2> QED
    BY <1>8, <1>c, <2>1 DEF UpdateUser, ProceedsWithoutLink
<1>9. ASSUME NEW r \in Requests, NEW u \in Users, RemoveUser(r, u) PROVE RequestEvolves(q)
  <2>1. \/ request'[q] = request[q]
        \/ request'[q] = [pc |-> IF user[u].status = "PENDING" THEN "hardDelete" ELSE "softDelete",
                          user |-> u, token |-> Nil, seen |-> {}]
    BY <1>9 DEF RemoveUser, Start, TypeOK, RequestsOK
  <2> QED
    BY <1>9, <1>c, <2>1 DEF RemoveUser, ProceedsWithoutLink
<1>10. ASSUME NEW r \in Requests, NEW u \in Users, Login(r, u) PROVE RequestEvolves(q)
  <2>1. \/ request'[q] = request[q]
        \/ request'[q] = [pc |-> "login", user |-> u, token |-> Nil, seen |-> {}]
    BY <1>10 DEF Login, Start, TypeOK, RequestsOK
  <2> QED
    BY <1>10, <1>c, <2>1 DEF Login, ProceedsWithoutLink
<1>11. CASE Restart
  BY <1>11 DEF Restart
<1>12. CASE UNCHANGED request
  BY <1>12
<1> QED
  BY <1>a, <1>1, <1>2, <1>3, <1>4, <1>5, <1>6, <1>7, <1>8, <1>9, <1>10, <1>11, <1>12
     DEF Next, Arrive, Continue, vars, SendActivationEmail, UndoInvite, Redeem,
         SendPasswordResetEmail, WriteUserStatus, HardDelete, SoftDelete, SignAccessToken,
         RowIsGone, WriteFails, Expire

-----------------------------------------------------------------------------
(* A request keeps holding a link of the user it works on.                 *)
LEMMA HeldLinksStep == TypeOK /\ HeldLinksOK /\ [Next]_vars => HeldLinksOK'
<1> SUFFICES ASSUME TypeOK, HeldLinksOK, [Next]_vars,
                    NEW r \in Requests, request'[r].pc \in HoldingLink
             PROVE  token'[request'[r].token].userId = request'[r].user
  BY DEF HeldLinksOK
<1>1. ASSUME request[r].pc \in HoldingLink
      PROVE  token'[request[r].token].userId = request[r].user
  <2>1. request[r].token \in Tokens /\ request[r].user \in Users
    BY <1>1 DEF TypeOK, RequestsOK, HoldingLink, Mailing, Redeeming
  <2>2. token[request[r].token].status # "unborn"
    BY <1>1, <2>1, NilAssumption DEF HeldLinksOK, TypeOK, TokensOK
  <2> QED
    BY <1>1, <2>1, <2>2, LinksEvolve DEF LinkEvolves, HeldLinksOK
<1>2. CASE request'[r] = request[r]
  BY <1>1, <1>2
<1>3. CASE request'[r] = Idle
  BY <1>3 DEF Idle, HoldingLink, Mailing, Redeeming
<1>4. CASE TakesLink(r)
  BY <1>4 DEF TakesLink
<1>5. CASE TurnsToUndo(r)
  <2>1. /\ request[r].pc \in HoldingLink
        /\ request'[r].token = request[r].token
        /\ request'[r].user = request[r].user
    BY <1>5 DEF TurnsToUndo, At, HoldingLink, Mailing, TypeOK, RequestsOK, RequestState
  <2> QED
    BY <1>1, <2>1
<1>6. CASE ProceedsWithoutLink(r)
  BY <1>6 DEF ProceedsWithoutLink
<1> QED
  BY <1>2, <1>3, <1>4, <1>5, <1>6, RequestsEvolve DEF RequestEvolves

(* Types hold in every state the system can reach.                         *)
THEOREM Typed == Spec => []TypeOK
<1>1. Init => TypeOK /\ HeldLinksOK
  BY DEF Init, TypeOK, HeldLinksOK, TokensOK, RequestsOK, Unborn, UnusedToken, Idle, UserRow,
         TokenRow, RequestState, Points, HoldingLink, Mailing, Redeeming
<1>2. TypeOK /\ HeldLinksOK /\ [Next]_vars => (TypeOK /\ HeldLinksOK)'
  BY TypeStep, HeldLinksStep
<1> QED
  BY <1>1, <1>2, PTL DEF Spec

-----------------------------------------------------------------------------
(* What a step may do to the other variables.                              *)

\* For the lemmas below: every action that leaves a variable alone says so.
LEMMA MailStep ==
    ASSUME TypeOK, [Next]_vars, NEW t \in mailed', t \notin mailed
    PROVE  \E r \in Requests : request[r].pc \in Mailing /\ request[r].token = t
BY DEF Mailing, At, Next, Arrive, Continue, vars, tables, history, InviteUser, SendActivationEmail,
       SendActivationEmailFails, UndoInvite, ActivateAccount, ResetPassword, Redeem,
       ForgotPassword, RevokeResetTokens, InsertResetToken, SendPasswordResetEmail,
       UpdateUser, WriteUserStatus, RemoveUser, HardDelete, SoftDelete, Login,
       SignAccessToken, RowIsGone, WriteFails, Restart, Expire

LEMMA RedeemersStep ==
    ASSUME TypeOK, [Next]_vars
    PROVE  UNCHANGED redeemers \/ \E r \in Requests : Redeem(r)
BY DEF Next, Arrive, Continue, vars, tables, history, InviteUser, SendActivationEmail,
       SendActivationEmailFails, UndoInvite, ActivateAccount, ResetPassword,
       ForgotPassword, RevokeResetTokens, InsertResetToken, SendPasswordResetEmail,
       UpdateUser, WriteUserStatus, RemoveUser, HardDelete, SoftDelete, Login,
       SignAccessToken, RowIsGone, WriteFails, Restart, Expire

(* A password appears in a row only by the redemption of that link.        *)
LEMMA PasswordStep ==
    ASSUME TypeOK, [Next]_vars, NEW u \in Users, user'[u].password # Nil
    PROVE  \/ user'[u].password = user[u].password
           \/ \E r \in Requests : /\ Redeem(r)
                                  /\ request[r].user = u
                                  /\ request[r].token = user'[u].password
<1>1. user \in [Users -> UserRow] /\ user[u] \in UserRow
  BY DEF TypeOK
<1>2. ASSUME NEW v, DeleteUser(v) PROVE user'[u].password = user[u].password
  BY <1>1, <1>2 DEF DeleteUser, Deleted
<1>3. ASSUME NEW r \in Requests, NEW e \in Emails, NEW v \in Users, NEW t \in Tokens,
             InviteUser(r, e, v, t)
      PROVE user'[u].password = user[u].password
  BY <1>1, <1>3 DEF InviteUser
<1>4. ASSUME NEW r \in Requests, Redeem(r)
      PROVE  \/ user'[u].password = user[u].password
             \/ request[r].user = u /\ request[r].token = user'[u].password
  BY <1>1, <1>4 DEF Redeem, SetPassword, UserRow
<1>5. ASSUME NEW r \in Requests, NEW s \in DtoStatus, WriteUserStatus(r, s)
      PROVE user'[u].password = user[u].password
  BY <1>1, <1>5 DEF WriteUserStatus, UserRow
<1>6. ASSUME NEW r \in Requests, SoftDelete(r) PROVE user'[u].password = user[u].password
  BY <1>1, <1>6 DEF SoftDelete, UserRow
<1> QED
  BY <1>2, <1>3, <1>4, <1>5, <1>6
     DEF Next, Arrive, Continue, vars, tables, SendActivationEmail, SendActivationEmailFails,
         UndoInvite, ActivateAccount, ResetPassword, ForgotPassword, RevokeResetTokens,
         InsertResetToken, SendPasswordResetEmail, UpdateUser, RemoveUser, HardDelete,
         Login, SignAccessToken, RowIsGone, WriteFails, Restart, Expire

LEMMA SessionStep ==
    ASSUME TypeOK, [Next]_vars, NEW u \in sessions', u \notin sessions
    PROVE  \E r \in Requests : At(r, "login") /\ request[r].user = u
BY DEF Next, Arrive, Continue, vars, tables, history, InviteUser, SendActivationEmail,
       SendActivationEmailFails, UndoInvite, ActivateAccount, ResetPassword, Redeem,
       ForgotPassword, RevokeResetTokens, InsertResetToken, SendPasswordResetEmail,
       UpdateUser, WriteUserStatus, RemoveUser, HardDelete, SoftDelete, Login,
       SignAccessToken, RowIsGone, WriteFails, Restart, Expire

(* A recovery link is only ever born in the commit of forgotPassword.      *)
LEMMA ResetLinkBirth ==
    ASSUME TypeOK, HeldLinksOK, [Next]_vars, NEW t \in Tokens, token[t].status = "unborn",
           token'[t].status = "ACTIVE", token'[t].type = "PASSWORD_RESET"
    PROVE  \E r \in Requests : InsertResetToken(r, t)
<1>1. ASSUME NEW u \in Users, DeleteUser(u) PROVE FALSE
  BY <1>1, NilAssumption DEF DeleteUser, TypeOK, TokensOK
<1>2. ASSUME NEW r \in Requests, NEW e \in Emails, NEW u \in Users, NEW s \in Tokens,
             InviteUser(r, e, u, s)
      PROVE FALSE
  BY <1>2 DEF InviteUser, NewToken, TypeOK, TokensOK
<1>3. ASSUME NEW r \in Requests, Redeem(r) PROVE FALSE
  BY <1>3 DEF Redeem, TypeOK, TokensOK, TokenRow
<1>4. ASSUME NEW r \in Requests, NEW s \in Tokens, InsertResetToken(r, s) PROVE s = t
  <2>1. s # t => token'[t] = token[t] \/ token'[t] = Revoke(t)
    BY <1>4 DEF InsertResetToken
  <2> QED
    BY <2>1, RevokeOK DEF TypeOK
<1>5. \A r \in Requests : At(r, "inviteUndo") \/ At(r, "hardDelete") => request[r].user \in Users
  BY DEF At, TypeOK, RequestsOK
<1> QED
  BY <1>1, <1>2, <1>3, <1>4, <1>5
     DEF Next, Arrive, Continue, vars, tables, SendActivationEmail, SendActivationEmailFails,
         UndoInvite, ActivateAccount, ResetPassword, ForgotPassword, RevokeResetTokens,
         SendPasswordResetEmail, UpdateUser, WriteUserStatus, RemoveUser, HardDelete,
         SoftDelete, Login, SignAccessToken, RowIsGone, WriteFails, Restart, Expire

-----------------------------------------------------------------------------
(* Links and passwords.                                                    *)

LEMMA KnownLink ==
    ASSUME TypeOK, HeldLinksOK, NEW r \in Requests, request[r].pc \in HoldingLink
    PROVE  /\ request[r].user \in Users
           /\ request[r].token \in Tokens
           /\ token[request[r].token].userId = request[r].user
           /\ token[request[r].token].status # "unborn"
<1>1. request[r].user \in Users /\ request[r].token \in Tokens
  BY DEF TypeOK, RequestsOK, HoldingLink, Mailing, Redeeming
<1> QED
  BY <1>1, NilAssumption DEF HeldLinksOK, TypeOK, TokensOK

LEMMA LinksStep == TypeOK /\ HeldLinksOK /\ LinksOK /\ [Next]_vars => LinksOK'
<1> SUFFICES ASSUME TypeOK, HeldLinksOK, LinksOK, [Next]_vars PROVE LinksOK'
  OBVIOUS
<1>1. ASSUME NEW t \in mailed' PROVE token'[t].status # "unborn"
  <2>1. t \in Tokens /\ token[t].status # "unborn"
    <3>1. CASE t \in mailed
      BY <3>1 DEF LinksOK, TypeOK
    <3>2. CASE t \notin mailed
      BY <1>1, <3>2, MailStep, KnownLink DEF HoldingLink
    <3> QED
      BY <3>1, <3>2
  <2> QED
    BY <2>1, LinksEvolve DEF LinkEvolves
<1>2. ASSUME NEW t \in Tokens, redeemers'[t] # {}
      PROVE  token'[t].status \in {"USED_OR_REVOKED", "deleted"}
  <2>1. CASE redeemers[t] # {}
    <3>1. token[t].status \in {"USED_OR_REVOKED", "deleted"}
      BY <2>1 DEF LinksOK
    <3>2. LinkEvolves(t)
      BY <3>1, LinksEvolve
    <3>3. token'[t] \in TokenRow
      BY TypeStep DEF TypeOK, TokensOK
    <3> QED
      BY <3>1, <3>2, <3>3 DEF LinkEvolves, TokenRow
  <2>2. CASE redeemers[t] = {}
    <3>1. PICK r \in Requests : Redeem(r)
      BY <1>2, <2>2, RedeemersStep
    <3>2. t = request[r].token
      BY <1>2, <2>2, <3>1 DEF Redeem, TypeOK
    <3> QED
      BY <3>1, <3>2 DEF Redeem, TypeOK, TokensOK, TokenRow
  <2> QED
    BY <2>1, <2>2
<1> QED
  BY <1>1, <1>2 DEF LinksOK

LEMMA AnsweredStays ==
    ASSUME TypeOK, HeldLinksOK, LinksOK, [Next]_vars, NEW u, Answered(u)
    PROVE  Answered(u)'
<1>1. PICK t \in mailed : token[t].userId = u /\ redeemers[t] # {}
  BY DEF Answered
<1>2. t \in Tokens /\ token[t].status # "unborn"
  BY <1>1 DEF LinksOK, TypeOK
<1>3. token'[t].userId = u
  BY <1>1, <1>2, LinksEvolve DEF LinkEvolves
<1>4. t \in mailed' /\ redeemers'[t] # {}
  BY <1>1, <1>2, MailedGrows
<1> QED
  BY <1>3, <1>4 DEF Answered

\* Whoever has a password has answered a mailed link.
LEMMA PasswordMeansAnswered ==
    ASSUME PasswordsOK, PasswordsComeFromLinks, NEW u \in Users, user[u].password # Nil
    PROVE  Answered(u)
BY DEF PasswordsOK, PasswordsComeFromLinks, Answered

LEMMA PasswordsStep ==
    TypeOK /\ HeldLinksOK /\ LinksOK /\ PasswordsOK /\ PasswordsComeFromLinks /\ [Next]_vars
        => PasswordsOK' /\ PasswordsComeFromLinks'
<1> SUFFICES ASSUME TypeOK, HeldLinksOK, LinksOK, PasswordsOK, PasswordsComeFromLinks, [Next]_vars
             PROVE  PasswordsOK' /\ PasswordsComeFromLinks'
  OBVIOUS
<1>a. mailed \subseteq mailed' /\ \A t \in Tokens : redeemers[t] \subseteq redeemers'[t]
  BY MailedGrows
<1>1. ASSUME NEW r \in Requests, request'[r].pc \in Redeeming PROVE request'[r].token \in mailed'
  <2>1. CASE request'[r] = request[r]
    BY <1>1, <1>a, <2>1 DEF PasswordsOK
  <2>2. CASE TakesLink(r)
    BY <1>1, <1>a, <2>2 DEF TakesLink, Redeeming, Mailing
  <2>3. request'[r] # Idle /\ ~ TurnsToUndo(r) /\ ~ ProceedsWithoutLink(r)
    BY <1>1 DEF Idle, TurnsToUndo, ProceedsWithoutLink, HoldingLink, Redeeming, TypeOK, RequestsOK,
                RequestState
  <2> QED
    BY <2>1, <2>2, <2>3, RequestsEvolve DEF RequestEvolves
<1>2. ASSUME NEW r \in Requests, At(r, "login")' PROVE Answered(request[r].user)'
  <2>1. CASE request'[r] = request[r]
    <3>1. PICK u : u = request[r].user
      OBVIOUS
    <3>2. Answered(u)
      BY <1>2, <2>1, <3>1 DEF PasswordsOK, At, Answered
    <3>3. Answered(u)'
      BY <3>2, AnsweredStays
    <3> QED
      BY <2>1, <3>1, <3>3 DEF Answered
  <2>2. CASE ProceedsWithoutLink(r)
    <3>1. request'[r].user \in Users /\ user[request'[r].user].password # Nil
      BY <1>2, <2>2 DEF ProceedsWithoutLink, MayLogIn, At
    <3>2. PICK u \in Users : u = request'[r].user /\ user[u].password # Nil
      BY <3>1
    <3>3. Answered(u)
      BY <3>2, PasswordMeansAnswered
    <3>4. Answered(u)'
      BY <3>3, AnsweredStays
    <3> QED
      BY <3>2, <3>4 DEF Answered
  <2>3. request'[r] # Idle /\ ~ TurnsToUndo(r) /\ ~ TakesLink(r)
    BY <1>2 DEF At, Idle, TurnsToUndo, TakesLink, Mailing, Redeeming, TypeOK, RequestsOK, RequestState
  <2> QED
    BY <2>1, <2>2, <2>3, RequestsEvolve DEF RequestEvolves
<1>3. ASSUME NEW u \in Users, user'[u].password # Nil
      PROVE  /\ redeemers'[user'[u].password] # {}
             /\ user'[u].password \in mailed'
             /\ token'[user'[u].password].userId = u
  <2>1. CASE user'[u].password = user[u].password
    <3> DEFINE t == user[u].password
    <3>1. t \in mailed /\ token[t].userId = u /\ redeemers[t] # {}
      BY <1>3, <2>1 DEF PasswordsOK, PasswordsComeFromLinks
    <3>2. t \in Tokens /\ token[t].status # "unborn"
      BY <3>1 DEF LinksOK, TypeOK
    <3>3. token'[t].userId = u
      BY <3>1, <3>2, LinksEvolve DEF LinkEvolves
    <3> QED
      BY <1>a, <2>1, <3>1, <3>2, <3>3
  <2>2. ASSUME NEW r \in Requests, Redeem(r), request[r].user = u,
               request[r].token = user'[u].password
        PROVE  /\ redeemers'[user'[u].password] # {}
               /\ user'[u].password \in mailed'
               /\ token'[user'[u].password].userId = u
    <3> DEFINE t == request[r].token
    <3>1. t \in mailed
      BY <2>2 DEF Redeem, PasswordsOK
    <3>2. t \in Tokens /\ token[t].userId = u /\ token[t].status # "unborn"
      BY <2>2, KnownLink DEF Redeem, HoldingLink
    <3>3. token'[t].userId = u
      BY <3>2, LinksEvolve DEF LinkEvolves
    <3>4. r \in redeemers'[t]
      BY <2>2, <3>2 DEF Redeem, TypeOK
    <3> QED
      BY <1>a, <2>2, <3>1, <3>3, <3>4
  <2> QED
    BY <1>3, <2>1, <2>2, PasswordStep
<1>4. ASSUME NEW u \in sessions' PROVE Answered(u)'
  <2>1. CASE u \in sessions
    BY <2>1, AnsweredStays DEF PasswordsComeFromLinks
  <2>2. CASE u \notin sessions
    BY <1>4, <2>2, SessionStep, AnsweredStays DEF PasswordsOK, At
  <2> QED
    BY <2>1, <2>2
<1>5. PasswordsOK'
  BY <1>1, <1>2, <1>3 DEF PasswordsOK, At
<1>6. PasswordsComeFromLinks'
  BY <1>3, <1>4 DEF PasswordsComeFromLinks
<1> QED
  BY <1>5, <1>6

\* A request that takes a link up has just read it.
LEMMA TakesUp ==
    ASSUME TypeOK, [Next]_vars, NEW r \in Requests, request'[r].pc \in Redeeming,
           request'[r] # request[r]
    PROVE  \E t \in Tokens :
              /\ request'[r].token = t /\ token[t].status = "ACTIVE" /\ UNCHANGED tables
              /\ \/ request'[r].pc = "activate" /\ token[t].type = "ACTIVATION"
                 \/ request'[r].pc = "reset" /\ token[t].type = "PASSWORD_RESET"
<1> USE DEF history
<1>a. \A q \in Requests : Finish(q) => request'[r] = request[r] \/ request'[r] = Idle
  BY DEF Finish, TypeOK, RequestsOK
<1>b. Idle.pc \notin Redeeming /\ request' # request
  BY DEF Idle, Redeeming
<1>c. ASSUME NEW q \in Requests, NEW pc, NEW u, NEW t, Start(q, pc, u, t)
      PROVE  q = r /\ request'[r].pc = pc /\ request'[r].token = t
  <2>1. request'[r] = IF r = q THEN [pc |-> pc, user |-> u, token |-> t, seen |-> {}] ELSE request[r]
    BY <1>c DEF Start, TypeOK, RequestsOK
  <2> QED
    BY <2>1
<1>1. ASSUME NEW q \in Requests, NEW t \in Tokens, ActivateAccount(q, t) \/ ResetPassword(q, t)
      PROVE  /\ request'[r].token = t /\ token[t].status = "ACTIVE" /\ UNCHANGED tables
             /\ \/ request'[r].pc = "activate" /\ token[t].type = "ACTIVATION"
                \/ request'[r].pc = "reset" /\ token[t].type = "PASSWORD_RESET"
  BY <1>c, <1>1 DEF ActivateAccount, ResetPassword, FindUsableToken
<1>2. {"inviteMail", "inviteUndo", "forgotRevoke", "forgotInsert", "forgotMail", "updateWrite",
       "hardDelete", "softDelete", "login"} \cap Redeeming = {}
  BY DEF Redeeming
<1>3. ASSUME NEW q \in Requests, NEW u \in Users,
             \/ \E e \in Emails, t \in Tokens : InviteUser(q, e, u, t)
             \/ ForgotPassword(q, u) \/ UpdateUser(q, u) \/ RemoveUser(q, u) \/ Login(q, u)
      PROVE  FALSE
  BY <1>c, <1>2, <1>3 DEF InviteUser, ForgotPassword, UpdateUser, RemoveUser, Login
<1>4. ASSUME NEW q \in Requests, SendActivationEmailFails(q) \/ RevokeResetTokens(q) PROVE FALSE
  BY <1>2, <1>4 DEF SendActivationEmailFails, Goto, RevokeResetTokens, TypeOK, RequestsOK, RequestState
<1>5. ASSUME NEW q \in Requests, NEW t \in Tokens, InsertResetToken(q, t) PROVE FALSE
  BY <1>2, <1>5 DEF InsertResetToken, TypeOK, RequestsOK
<1>6. ~ Restart
  BY <1>b DEF Restart
<1> QED
  BY <1>a, <1>b, <1>1, <1>3, <1>4, <1>5, <1>6
     DEF Next, Arrive, Continue, vars, SendActivationEmail, UndoInvite, Redeem,
         SendPasswordResetEmail, WriteUserStatus, HardDelete, SoftDelete, SignAccessToken,
         RowIsGone, WriteFails, Expire

(* A link that is spent stays so, and whoever holds it afterwards held it  *)
(* already.                                                                *)
LEMMA SpentStep ==
    ASSUME TypeOK, HeldLinksOK, [Next]_vars, NEW t \in Tokens, Spent(t)
    PROVE  Spent(t)' /\ Holders(t)' \subseteq Holders(t)
<1>1. token[t].status # "ACTIVE" /\ token[t].status # "unborn"
  BY DEF Spent
<1>2. Spent(t)'
  <2>1. token'[t].status \in {"unborn", "ACTIVE", "USED_OR_REVOKED", "deleted"}
    BY TypeStep DEF TypeOK, TokensOK, TokenRow
  <2>2. token'[t].status # "unborn" /\ token'[t].status # "ACTIVE"
    BY <1>1, LinksEvolve DEF LinkEvolves
  <2> QED
    BY <2>1, <2>2 DEF Spent
<1>3. ASSUME NEW r \in Requests, request'[r].pc \in Redeeming, request'[r].token = t
      PROVE  request[r].pc \in Redeeming /\ request[r].token = t
  <2>1. request'[r] = request[r]
    BY <1>1, <1>3, TakesUp
  <2> QED
    BY <1>3, <2>1
<1> QED
  BY <1>2, <1>3 DEF Holders

-----------------------------------------------------------------------------
(* Recovery links supersede each other.                                    *)

\* An active recovery link after a step was one before it, or was just inserted.
LEMMA ActiveResetLink ==
    ASSUME TypeOK, HeldLinksOK, [Next]_vars, NEW t \in Tokens,
           token'[t].status = "ACTIVE", token'[t].type = "PASSWORD_RESET"
    PROVE  \/ /\ token[t].status = "ACTIVE"
              /\ token[t].type = "PASSWORD_RESET"
              /\ token[t].userId = token'[t].userId
              /\ token[t].issuer = token'[t].issuer
           \/ \E r \in Requests : InsertResetToken(r, t)
<1>1. CASE token[t].status = "unborn"
  BY <1>1, ResetLinkBirth
<1>2. CASE token[t].status # "unborn"
  BY <1>2, LinksEvolve DEF LinkEvolves
<1> QED
  BY <1>1, <1>2

LEMMA InsertedLink ==
    ASSUME TypeOK, NEW r \in Requests, NEW t \in Tokens, InsertResetToken(r, t)
    PROVE  /\ At(r, "forgotInsert") /\ request'[r].pc = "forgotMail"
           /\ token'[t].userId = request[r].user
           /\ token'[t].issuer = r
           /\ \A s \in request[r].seen : s # t => token'[s].status # "ACTIVE"
<1>1. request[r].seen \subseteq Tokens
  BY DEF TypeOK, RequestsOK, RequestState
<1>2. \A s \in request[r].seen : s # t => token'[s] = Revoke(s)
  BY <1>1 DEF InsertResetToken
<1> QED
  BY <1>1, <1>2, RevokeOK DEF InsertResetToken, NewToken, TypeOK, RequestsOK

LEMMA SeenStep == TypeOK /\ HeldLinksOK /\ SeenOK /\ [Next]_vars => SeenOK'
<1> SUFFICES ASSUME TypeOK, HeldLinksOK, SeenOK, [Next]_vars,
                    NEW r \in Requests, request'[r].pc = "forgotInsert",
                    NEW t \in Tokens,
                    token'[t].userId = request'[r].user, token'[t].type = "PASSWORD_RESET",
                    token'[t].status = "ACTIVE", token'[t].issuer = r
             PROVE  t \in request'[r].seen
  BY DEF SeenOK, ActiveResetTokens, At
<1>1. /\ token[t].status = "ACTIVE" /\ token[t].type = "PASSWORD_RESET"
      /\ token[t].userId = request'[r].user /\ token[t].issuer = r
  <2>1. ASSUME NEW q \in Requests, InsertResetToken(q, t) PROVE FALSE
    BY <2>1, InsertedLink
  <2> QED
    BY <2>1, ActiveResetLink
<1>2. t \in ActiveResetTokens(request'[r].user)
  BY <1>1 DEF ActiveResetTokens
<1>3. CASE request'[r] = request[r]
  BY <1>1, <1>2, <1>3 DEF SeenOK, At
<1>4. CASE ProceedsWithoutLink(r)
  BY <1>2, <1>4 DEF ProceedsWithoutLink
<1>5. request'[r] # Idle /\ ~ TurnsToUndo(r) /\ ~ TakesLink(r)
  BY DEF Idle, TurnsToUndo, TakesLink, Mailing, Redeeming, TypeOK, RequestsOK, RequestState
<1> QED
  BY <1>3, <1>4, <1>5, RequestsEvolve DEF RequestEvolves

LEMMA SupersedeStep ==
    TypeOK /\ HeldLinksOK /\ SeenOK /\ NewLinkSupersedesOld /\ [Next]_vars => NewLinkSupersedesOld'
<1> SUFFICES ASSUME TypeOK, HeldLinksOK, SeenOK, NewLinkSupersedesOld, [Next]_vars
             PROVE  NewLinkSupersedesOld'
  OBVIOUS
<1> DEFINE Rival(s, t) == /\ token'[s].type = "PASSWORD_RESET" /\ token'[t].type = "PASSWORD_RESET"
                          /\ token'[s].status = "ACTIVE" /\ token'[t].status = "ACTIVE"
                          /\ token'[s].userId = token'[t].userId
                          /\ token'[s].issuer = token'[t].issuer
<1>1. ASSUME NEW s \in Tokens, NEW t \in Tokens, Rival(s, t),
             NEW r \in Requests, InsertResetToken(r, t)
      PROVE  s = t
  <2> SUFFICES ASSUME s # t PROVE FALSE
    OBVIOUS
  <2>1. ~ \E q \in Requests : InsertResetToken(q, s)
    <3>1. token'[s] = token[s] \/ token'[s] = Revoke(s)
      BY <1>1 DEF InsertResetToken
    <3>2. token[s] # UnusedToken
      BY <1>1, <3>1, RevokeOK DEF UnusedToken, TypeOK
    <3> QED
      BY <3>2 DEF InsertResetToken
  <2>2. s \in ActiveResetTokens(request[r].user) /\ token[s].issuer = r
    <3>1. token'[t].userId = request[r].user /\ token'[t].issuer = r
      BY <1>1, InsertedLink
    <3>2. /\ token[s].status = "ACTIVE" /\ token[s].type = "PASSWORD_RESET"
          /\ token[s].userId = token'[s].userId /\ token[s].issuer = token'[s].issuer
      BY <1>1, <2>1, ActiveResetLink
    <3> QED
      BY <1>1, <3>1, <3>2 DEF ActiveResetTokens
  <2>3. s \in request[r].seen
    BY <1>1, <2>2, InsertedLink DEF SeenOK
  <2> QED
    BY <1>1, <2>3, InsertedLink
<1>2. ASSUME NEW s \in Tokens, NEW t \in Tokens, Rival(s, t),
             ~ \E r \in Requests : InsertResetToken(r, s) \/ InsertResetToken(r, t)
      PROVE  s = t
  BY <1>2, ActiveResetLink DEF NewLinkSupersedesOld
<1>3. \A s, t \in Tokens : Rival(s, t) => s = t
  BY <1>1, <1>2
<1> QED
  BY <1>3 DEF NewLinkSupersedesOld

-----------------------------------------------------------------------------
(* Invitations.                                                            *)

(* A row comes into being together with the request that will mail it.     *)
LEMMA UserBirth ==
    ASSUME TypeOK, [Next]_vars, NEW u \in Users, ~ Exists(u), Exists(u)'
    PROVE  Inviting(u)' # {}
<1>1. ASSUME NEW v \in Users, DeleteUser(v) PROVE FALSE
  BY <1>1 DEF DeleteUser, Deleted, Exists, UserStatus, TypeOK
<1>2. ASSUME NEW r \in Requests, NEW e \in Emails, NEW v \in Users, NEW t \in Tokens,
             InviteUser(r, e, v, t)
      PROVE  Inviting(u)' # {}
  <2>1. v = u
    BY <1>2 DEF InviteUser, Exists, TypeOK
  <2>2. request'[r].pc = "inviteMail" /\ request'[r].user = v
    BY <1>2 DEF InviteUser, Start, TypeOK, RequestsOK
  <2> QED
    BY <2>1, <2>2 DEF Inviting
<1>3. ASSUME NEW r \in Requests, Redeem(r) PROVE FALSE
  BY <1>3 DEF Redeem, SetPassword, Exists, TypeOK
<1>4. ASSUME NEW r \in Requests, NEW s \in DtoStatus, WriteUserStatus(r, s) PROVE FALSE
  BY <1>4 DEF WriteUserStatus, Exists, TypeOK
<1>5. ASSUME NEW r \in Requests, SoftDelete(r) PROVE FALSE
  BY <1>5 DEF SoftDelete, Exists, TypeOK
<1>6. \A r \in Requests : At(r, "inviteUndo") \/ At(r, "hardDelete") => request[r].user \in Users
  BY DEF At, TypeOK, RequestsOK
<1>7. CASE UNCHANGED user
  BY <1>7 DEF Exists
<1> QED
  BY <1>1, <1>2, <1>3, <1>4, <1>5, <1>6, <1>7
     DEF Next, Arrive, Continue, vars, tables, SendActivationEmail, SendActivationEmailFails,
         UndoInvite, ActivateAccount, ResetPassword, ForgotPassword, RevokeResetTokens,
         InsertResetToken, SendPasswordResetEmail, UpdateUser, RemoveUser, HardDelete,
         Login, SignAccessToken, RowIsGone, WriteFails, Restart, Expire

(* An invitation in flight goes on, or leaves its link in the mail, its    *)
(* row deleted, or its user among those a failure cut short.               *)
LEMMA InvitationEnds ==
    ASSUME TypeOK, [Next]_vars, NEW u \in Users, NEW r \in Inviting(u)
    PROVE  r \in Inviting(u)' \/ request[r].token \in mailed' \/ ~ Exists(u)' \/ u \in cut'
<1> DEFINE Goal == r \in Inviting(u)' \/ request[r].token \in mailed' \/ ~ Exists(u)' \/ u \in cut'
<1>a. r \in Requests /\ request[r].user = u /\ request[r].pc \in {"inviteMail", "inviteUndo"}
  BY DEF Inviting
<1>b. CASE request'[r] = request[r]
  BY <1>a, <1>b DEF Inviting
<1>c. ASSUME NEW q \in Requests, Finish(q), q # r PROVE Goal
  BY <1>a, <1>b, <1>c DEF Finish, TypeOK, RequestsOK
<1>d. ASSUME NEW q \in Requests, NEW pc, NEW v, NEW t, Start(q, pc, v, t) PROVE Goal
  <2>1. q # r
    BY <1>a, <1>d DEF Start, At
  <2> QED
    BY <1>a, <1>b, <1>d, <2>1 DEF Start, TypeOK, RequestsOK
<1>1. ASSUME NEW q \in Requests, SendActivationEmail(q) PROVE Goal
  BY <1>1, <1>c DEF SendActivationEmail
<1>2. ASSUME NEW q \in Requests, SendActivationEmailFails(q) PROVE Goal
  <2>1. CASE q # r
    BY <1>a, <1>b, <1>2, <2>1 DEF SendActivationEmailFails, Goto, TypeOK, RequestsOK
  <2>2. CASE q = r
    BY <1>a, <1>2, <2>2 DEF SendActivationEmailFails, Goto, Inviting, TypeOK, RequestsOK, RequestState
  <2> QED
    BY <2>1, <2>2
<1>3. ASSUME NEW q \in Requests, UndoInvite(q) PROVE Goal
  <2>1. CASE q # r
    BY <1>3, <1>c, <2>1 DEF UndoInvite
  <2>2. CASE q = r
    BY <1>a, <1>3, <2>2 DEF UndoInvite, DeleteUser, Deleted, Exists, UserStatus, tables, TypeOK
  <2> QED
    BY <2>1, <2>2
<1>4. ASSUME NEW q \in Requests, RevokeResetTokens(q) PROVE Goal
  BY <1>a, <1>b, <1>4 DEF RevokeResetTokens, At, TypeOK, RequestsOK
<1>5. ASSUME NEW q \in Requests, NEW t \in Tokens, InsertResetToken(q, t) PROVE Goal
  BY <1>a, <1>b, <1>5 DEF InsertResetToken, At, TypeOK, RequestsOK
<1>6. ASSUME NEW q \in Requests, WriteFails(q) PROVE Goal
  BY <1>a, <1>6, <1>c DEF WriteFails, Writing, Redeeming, At
<1>7. ASSUME NEW q \in Requests, RowIsGone(q) PROVE Goal
  BY <1>a, <1>7, <1>c DEF RowIsGone, Writing, Redeeming
<1>8. CASE Restart
  BY <1>8 DEF Restart
<1>9. ASSUME NEW q \in Requests, Redeem(q) \/ HardDelete(q) \/ SoftDelete(q) \/ SignAccessToken(q)
                                 \/ SendPasswordResetEmail(q)
                                 \/ \E s \in DtoStatus : WriteUserStatus(q, s)
      PROVE  Goal
  BY <1>a, <1>9, <1>c
     DEF Redeem, Redeeming, HardDelete, SoftDelete, SignAccessToken, SendPasswordResetEmail,
         WriteUserStatus, At
<1>10. ASSUME NEW q \in Requests, Arrive(q) PROVE Goal
  BY <1>10, <1>d
     DEF Arrive, InviteUser, ActivateAccount, ResetPassword, ForgotPassword, UpdateUser,
         RemoveUser, Login
<1>11. CASE UNCHANGED request
  BY <1>b, <1>11
<1> QED
  BY <1>1, <1>2, <1>3, <1>4, <1>5, <1>6, <1>7, <1>8, <1>9, <1>10, <1>11
     DEF Next, Continue, vars, Expire

LEMMA GhostStep ==
    TypeOK /\ HeldLinksOK /\ LinksOK /\ GhostsOnlyWhenCut /\ [Next]_vars => GhostsOnlyWhenCut'
<1> SUFFICES ASSUME TypeOK, HeldLinksOK, LinksOK, GhostsOnlyWhenCut, [Next]_vars,
                    NEW u \in Users, Ghost(u)'
             PROVE  u \in cut' \/ Inviting(u)' # {}
  BY DEF GhostsOnlyWhenCut
<1>1. CASE ~ Exists(u)
  BY <1>1, UserBirth DEF Ghost
<1>2. CASE Exists(u)
  <2>1. ASSUME NEW t \in mailed' PROVE token'[t].userId # u
    BY <2>1 DEF Ghost
  <2>2. \A t \in mailed : token'[t].userId = token[t].userId
    BY LinksEvolve DEF LinkEvolves, LinksOK, TypeOK
  <2>3. Ghost(u)
    BY <1>2, <2>1, <2>2, MailedGrows DEF Ghost
  <2>4. CASE u \in cut
    BY <2>4, MailedGrows
  <2>5. ASSUME NEW r \in Inviting(u) PROVE u \in cut' \/ Inviting(u)' # {}
    <3>1. r \in Requests /\ request[r].user = u /\ request[r].pc \in HoldingLink
      BY <2>5 DEF Inviting, HoldingLink, Mailing
    <3>2. token'[request[r].token].userId = u
      BY <3>1, KnownLink, LinksEvolve DEF LinkEvolves
    <3>3. request[r].token \notin mailed'
      BY <2>1, <3>2
    <3> QED
      BY <2>5, <3>3, InvitationEnds DEF Ghost
  <2> QED
    BY <2>3, <2>4, <2>5 DEF GhostsOnlyWhenCut
<1> QED
  BY <1>1, <1>2

-----------------------------------------------------------------------------
LEMMA InitIInv == Init => IInv
<1> SUFFICES ASSUME Init PROVE IInv
  OBVIOUS
<1>1. TypeOK /\ HeldLinksOK
  BY DEF Init, TypeOK, HeldLinksOK, TokensOK, RequestsOK, Unborn, UnusedToken, Idle, UserRow,
         TokenRow, RequestState, Points, HoldingLink, Mailing, Redeeming
<1>2. LinksOK /\ PasswordsOK /\ PasswordsComeFromLinks /\ SeenOK
  BY DEF Init, LinksOK, PasswordsOK, PasswordsComeFromLinks, SeenOK, At,
         Idle, Redeeming, Unborn
<1>3. NewLinkSupersedesOld /\ GhostsOnlyWhenCut
  BY DEF Init, NewLinkSupersedesOld, GhostsOnlyWhenCut, Ghost, Exists, UserStatus, Unborn,
         UnusedToken
<1> QED
  BY <1>1, <1>2, <1>3 DEF IInv

LEMMA StepIInv == IInv /\ [Next]_vars => IInv'
BY TypeStep, HeldLinksStep, LinksStep, PasswordsStep, SeenStep, SupersedeStep, GhostStep
   DEF IInv

THEOREM Inductive == Spec => []IInv
BY InitIInv, StepIInv, PTL DEF Spec

(* A link that was used, revoked or deleted is never active again, and no  *)
(* later request takes it up.                                              *)
THEOREM SpentLinks == Spec => SpentLinksStaySpent
<1>1. TypeOK /\ HeldLinksOK /\ [Next]_vars =>
        [\A t \in Tokens : Spent(t) =>
            /\ Spent(t)'
            /\ Holders(t)' \subseteq Holders(t)]_vars
  BY SpentStep
<1>2. IInv => TypeOK /\ HeldLinksOK
  BY DEF IInv
<1> QED
  BY <1>1, <1>2, Inductive, PTL DEF Spec, SpentLinksStaySpent

(* Nobody has a password or a session who did not answer a mailed link.    *)
THEOREM PasswordsFromLinks == Spec => []PasswordsComeFromLinks
<1>1. IInv => PasswordsComeFromLinks
  BY DEF IInv
<1> QED
  BY <1>1, Inductive, PTL

(* Two live recovery links of one user were asked for by overlapping       *)
(* requests.                                                               *)
THEOREM Supersession == Spec => []NewLinkSupersedesOld
<1>1. IInv => NewLinkSupersedesOld
  BY DEF IInv
<1> QED
  BY <1>1, Inductive, PTL

(* Ghost rows are left only by restarts and failed compensations.          *)
THEOREM Ghosts == Spec => []GhostsOnlyWhenCut
<1>1. IInv => GhostsOnlyWhenCut
  BY DEF IInv
<1> QED
  BY <1>1, Inductive, PTL

-----------------------------------------------------------------------------
(* Deactivations.                                                          *)

Lasts(u) ==
    \/ user'[u].status = "deleted"
    \/ Settled(u)'
    \/ /\ user'[u] = user[u]
       /\ \E r \in Requests : At(r, "idle") /\ At(r, "updateWrite")'
       /\ \A r \in Requests : request'[r].user = u => request'[r].pc \notin Redeeming

\* No request comes to redeem or update, and the row is left alone or INACTIVE.
LEMMA StaysSettled ==
    ASSUME NEW u \in Users, Settled(u),
           user'[u] = user[u] \/ user'[u].status = "INACTIVE",
           \A q \in Requests :
              \/ request'[q] = request[q]
              \/ request'[q].user # u
              \/ request'[q].pc \notin Redeeming \cup {"updateWrite"}
    PROVE  Lasts(u)
BY DEF Settled, Lasts

LEMMA DeactivationStep ==
    ASSUME TypeOK, [Next]_vars, NEW u \in Users, Settled(u)
    PROVE  Lasts(u)
<1> USE DEF tables, history
<1>a. ASSUME NEW r \in Requests, Finish(r),
             user'[u] = user[u] \/ user'[u].status = "INACTIVE"
      PROVE Lasts(u)
  <2>1. \A q \in Requests : request'[q] = request[q] \/ request'[q] = Idle
    BY <1>a DEF Finish, TypeOK, RequestsOK
  <2>2. Idle.pc \notin Redeeming \cup {"updateWrite"}
    BY DEF Idle, Redeeming
  <2> QED
    BY <2>1, <2>2, <1>a, StaysSettled
<1>b. ASSUME NEW r \in Requests, NEW pc, NEW v, NEW t, Start(r, pc, v, t),
             user'[u] = user[u], v = u => pc \notin Redeeming \cup {"updateWrite"}
      PROVE Lasts(u)
  <2>1. \A q \in Requests : \/ request'[q] = request[q]
                            \/ request'[q] = [pc |-> pc, user |-> v, token |-> t, seen |-> {}]
    BY <1>b DEF Start, TypeOK, RequestsOK
  <2> QED
    BY <2>1, <1>b, StaysSettled
<1>0. CASE UNCHANGED vars
  BY <1>0, StaysSettled DEF vars
<1>1. ASSUME NEW r \in Requests, NEW e \in Emails, NEW v \in Users, NEW t \in Tokens,
             InviteUser(r, e, v, t)
      PROVE Lasts(u)
  <2>1. v # u
    BY <1>1 DEF InviteUser, Settled, Unborn
  <2> QED
    BY <1>1, <2>1, <1>b DEF InviteUser, TypeOK
<1>2. ASSUME NEW r \in Requests, NEW t \in Tokens, ActivateAccount(r, t) \/ ResetPassword(r, t)
      PROVE Lasts(u)
  <2>1. token[t].userId # u
    BY <1>2 DEF ActivateAccount, ResetPassword, Settled
  <2> QED
    BY <1>2, <2>1, <1>b DEF ActivateAccount, ResetPassword
<1>3. ASSUME NEW r \in Requests, NEW v \in Users, ForgotPassword(r, v) \/ Login(r, v)
      PROVE Lasts(u)
  <2>1. {"forgotRevoke", "login"} \cap (Redeeming \cup {"updateWrite"}) = {}
    BY DEF Redeeming
  <2> QED
    BY <1>3, <2>1, <1>b DEF ForgotPassword, Login
<1>4. ASSUME NEW r \in Requests, NEW v \in Users, UpdateUser(r, v)
      PROVE Lasts(u)
  <2>1. /\ At(r, "idle")
        /\ request' = [request EXCEPT ![r] = [pc |-> "updateWrite", user |-> v,
                                              token |-> Nil, seen |-> {}]]
        /\ user' = user
    BY <1>4 DEF UpdateUser, Start
  <2>2. At(r, "updateWrite")'
    BY <2>1 DEF At, TypeOK, RequestsOK
  <2>3. "updateWrite" \notin Redeeming
    BY DEF Redeeming
  <2>4. \A q \in Requests : request'[q].user = u => request'[q].pc \notin Redeeming
    BY <2>1, <2>3 DEF TypeOK, RequestsOK, Settled
  <2> QED
    BY <2>1, <2>2, <2>4 DEF Lasts
<1>5. ASSUME NEW r \in Requests, NEW v \in Users, RemoveUser(r, v)
      PROVE Lasts(u)
  <2>1. {"hardDelete", "softDelete"} \cap (Redeeming \cup {"updateWrite"}) = {}
    BY DEF Redeeming
  <2> QED
    BY <1>5, <2>1, <1>b DEF RemoveUser
<1>6. ASSUME NEW r \in Requests,
             \/ SendActivationEmail(r) \/ SendPasswordResetEmail(r) \/ SignAccessToken(r)
             \/ RowIsGone(r) \/ WriteFails(r)
      PROVE Lasts(u)
  BY <1>6, <1>a DEF SendActivationEmail, SendPasswordResetEmail, SignAccessToken, RowIsGone,
                    WriteFails
<1>7. ASSUME NEW r \in Requests, SendActivationEmailFails(r) \/ RevokeResetTokens(r)
      PROVE Lasts(u)
  <2>1. {"inviteUndo", "forgotInsert"} \cap (Redeeming \cup {"updateWrite"}) = {}
    BY DEF Redeeming
  <2>2. \A q \in Requests : request'[q] = request[q] \/ request'[q].pc \in {"inviteUndo", "forgotInsert"}
    BY <1>7 DEF SendActivationEmailFails, RevokeResetTokens, Goto, TypeOK, RequestsOK, RequestState
  <2> QED
    BY <1>7, <2>1, <2>2, StaysSettled DEF SendActivationEmailFails, RevokeResetTokens
<1>8. ASSUME NEW r \in Requests, UndoInvite(r) \/ HardDelete(r)
      PROVE Lasts(u)
  <2>1. user'[u] = user[u] \/ user'[u] = Deleted
    BY <1>8 DEF UndoInvite, HardDelete, DeleteUser, TypeOK
  <2>2. CASE user'[u] = Deleted
    BY <2>2 DEF Deleted, Lasts
  <2>3. CASE user'[u] = user[u]
    BY <1>8, <2>3, <1>a DEF UndoInvite, HardDelete
  <2> QED
    BY <2>1, <2>2, <2>3
<1>9. ASSUME NEW r \in Requests, Redeem(r)
      PROVE Lasts(u)
  <2>1. request[r].user # u
    BY <1>9 DEF Redeem, Settled
  <2>2. user'[u] = user[u]
    BY <1>9, <2>1 DEF Redeem, SetPassword, TypeOK
  <2> QED
    BY <1>9, <2>2, <1>a DEF Redeem
<1>10. ASSUME NEW r \in Requests, NEW t \in Tokens, InsertResetToken(r, t)
       PROVE Lasts(u)
  <2>1. "forgotMail" \notin Redeeming \cup {"updateWrite"}
    BY DEF Redeeming
  <2>2. \A q \in Requests : request'[q] = request[q] \/ request'[q].pc = "forgotMail"
    BY <1>10 DEF InsertResetToken, TypeOK, RequestsOK
  <2> QED
    BY <1>10, <2>1, <2>2, StaysSettled DEF InsertResetToken
<1>11. ASSUME NEW r \in Requests, NEW s \in DtoStatus, WriteUserStatus(r, s)
       PROVE Lasts(u)
  <2>1. request[r].user # u
    BY <1>11 DEF WriteUserStatus, At, Settled
  <2>2. user'[u] = user[u]
    BY <1>11, <2>1 DEF WriteUserStatus, TypeOK
  <2> QED
    BY <1>11, <2>2, <1>a DEF WriteUserStatus
<1>12. ASSUME NEW r \in Requests, SoftDelete(r)
       PROVE Lasts(u)
  <2>1. user'[u] = user[u] \/ user'[u].status = "INACTIVE"
    BY <1>12 DEF SoftDelete, TypeOK, UserRow
  <2> QED
    BY <1>12, <2>1, <1>a DEF SoftDelete
<1>13. ASSUME Restart
       PROVE Lasts(u)
  <2>1. Idle.pc \notin Redeeming \cup {"updateWrite"}
    BY DEF Idle, Redeeming
  <2> QED
    BY <1>13, <2>1, StaysSettled DEF Restart
<1>14. ASSUME NEW t \in Tokens, Expire(t)
       PROVE Lasts(u)
  BY <1>14, StaysSettled DEF Expire
<1> QED
  BY <1>0, <1>1, <1>2, <1>3, <1>4, <1>5, <1>6, <1>7, <1>8, <1>9, <1>10, <1>11, <1>12, <1>13, <1>14
     DEF Next, Arrive, Continue

(* A deactivation lasts until an administrator begins another update.      *)
THEOREM Deactivations == Spec => DeactivationsLast
<1>1. TypeOK /\ [Next]_vars => [\A u \in Users : Settled(u) => Lasts(u)]_vars
  BY DeactivationStep
<1>2. IInv => TypeOK
  BY DEF IInv
<1> QED
  BY <1>1, <1>2, Inductive, PTL DEF Spec, DeactivationsLast, Lasts

-----------------------------------------------------------------------------
(* What a lock would give.  The handlers take none before their writes;    *)
(* suppose no two requests were at these points for one user.              *)
Locked(points) ==
    \A p, q \in Requests :
        p # q /\ request[p].pc \in points /\ request[q].pc \in points
        => request[p].user # request[q].user

(* A lock on the link, from findUsableToken to the end of the transaction. *)
LinksLocked ==
    \A p, q \in Requests :
        p # q /\ request[p].pc \in Redeeming /\ request[q].pc \in Redeeming
        => request[p].token # request[q].token

\* Then a link that is about to be redeemed has not been.
FreshLinks == \A r \in Requests : request[r].pc \in Redeeming => redeemers[request[r].token] = {}

LEMMA FreshStep == IInv /\ FreshLinks /\ LinksLocked /\ [Next]_vars => FreshLinks'
<1> SUFFICES ASSUME IInv, FreshLinks, LinksLocked, [Next]_vars,
                    NEW r \in Requests, request'[r].pc \in Redeeming
             PROVE  redeemers'[request'[r].token] = {}
  BY DEF FreshLinks
<1>0. TypeOK /\ HeldLinksOK /\ LinksOK
  BY DEF IInv
<1>1. CASE request'[r] = request[r]
  <2>1. request[r].token \in Tokens /\ redeemers[request[r].token] = {}
    BY <1>0, <1>1, KnownLink DEF FreshLinks, HoldingLink
  <2>2. ASSUME NEW q \in Requests, Redeem(q)
        PROVE  redeemers'[request[r].token] = {}
    <3>1. q # r
      BY <1>0, <1>1, <2>2 DEF Redeem, Finish, Idle, Redeeming, TypeOK, RequestsOK
    <3>2. request[q].token # request[r].token
      BY <1>1, <2>2, <3>1 DEF Redeem, LinksLocked
    <3> QED
      BY <1>0, <2>1, <2>2, <3>2 DEF Redeem, TypeOK
  <2> QED
    BY <1>0, <1>1, <2>1, <2>2, RedeemersStep
<1>2. CASE TakesLink(r)
  BY <1>0, <1>2 DEF TakesLink, LinksOK, Redeeming, Mailing
<1>3. request'[r] # Idle /\ ~ TurnsToUndo(r) /\ ~ ProceedsWithoutLink(r)
  BY <1>0 DEF Idle, TurnsToUndo, ProceedsWithoutLink, HoldingLink, Redeeming, TypeOK, RequestsOK,
         RequestState
<1> QED
  BY <1>0, <1>1, <1>2, <1>3, RequestsEvolve DEF RequestEvolves

LEMMA SingleUseStep == IInv /\ FreshLinks /\ SingleUse /\ [Next]_vars => SingleUse'
<1> SUFFICES ASSUME IInv, FreshLinks, SingleUse, [Next]_vars PROVE SingleUse'
  OBVIOUS
<1>0. TypeOK
  BY DEF IInv
<1>1. ASSUME NEW q \in Requests, Redeem(q) PROVE SingleUse'
  <2>1. redeemers' = [redeemers EXCEPT ![request[q].token] = {q}]
    BY <1>1 DEF Redeem, FreshLinks
  <2> QED
    BY <1>0, <2>1 DEF SingleUse, TypeOK
<1> QED
  BY <1>0, <1>1, RedeemersStep DEF SingleUse

(* If two requests never redeemed the same link at once, a link would be   *)
(* of single use, as users.controller.ts:178 says: the reads are right,    *)
(* the transaction that does not look again (auth.service.ts:254, :346)    *)
(* is what breaks it.                                                      *)
THEOREM LockedLinks == Spec /\ []LinksLocked => []SingleUse
<1>1. Init => FreshLinks /\ SingleUse
  BY DEF Init, FreshLinks, SingleUse, Idle, Redeeming
<1> QED
  BY <1>1, InitIInv, StepIInv, FreshStep, SingleUseStep, PTL DEF Spec

-----------------------------------------------------------------------------
(* What a step may do to the row of a user.                                *)

Writes(r, u) ==
    /\ request[r].user = u /\ Exists(u)
    /\ \/ /\ request[r].pc \in {"inviteUndo", "hardDelete"}
          /\ user'[u] = Deleted
       \/ /\ request[r].pc \in Redeeming \cup {"updateWrite", "softDelete"}
          /\ user'[u].status \in UserStatus

LEMMA UserStep ==
    ASSUME TypeOK, [Next]_vars, NEW u \in Users, user'[u] # user[u]
    PROVE  \/ /\ user[u] = Unborn
              /\ \E r \in Requests, e \in Emails, t \in Tokens : InviteUser(r, e, u, t)
           \/ \E r \in Requests : Writes(r, u) /\ request'[r].pc = "idle"
<1>a. \A r \in Requests : Finish(r) => request'[r].pc = "idle"
  BY DEF Finish, Idle, TypeOK, RequestsOK
<1>b. user[u] \in UserRow
  BY DEF TypeOK
<1>1. ASSUME NEW r \in Requests, NEW e \in Emails, NEW v \in Users, NEW t \in Tokens,
             InviteUser(r, e, v, t)
      PROVE  v = u /\ user[u] = Unborn
  BY <1>1 DEF InviteUser, TypeOK
<1>2. ASSUME NEW r \in Requests, UndoInvite(r) \/ HardDelete(r)
      PROVE  Writes(r, u) /\ request'[r].pc = "idle"
  BY <1>a, <1>2 DEF UndoInvite, HardDelete, DeleteUser, Writes, At, TypeOK, tables
<1>3. ASSUME NEW r \in Requests, Redeem(r) PROVE Writes(r, u) /\ request'[r].pc = "idle"
  BY <1>a, <1>b, <1>3 DEF Redeem, SetPassword, Writes, TypeOK, UserRow, UserStatus
<1>4. ASSUME NEW r \in Requests, NEW st \in DtoStatus, WriteUserStatus(r, st)
      PROVE  Writes(r, u) /\ request'[r].pc = "idle"
  BY <1>a, <1>b, <1>4 DEF WriteUserStatus, Writes, At, TypeOK, UserRow, DtoStatus
<1>5. ASSUME NEW r \in Requests, SoftDelete(r) PROVE Writes(r, u) /\ request'[r].pc = "idle"
  BY <1>a, <1>b, <1>5 DEF SoftDelete, Writes, At, TypeOK, UserRow, UserStatus
<1>6. user' # user
  OBVIOUS
<1> QED
  BY <1>1, <1>2, <1>3, <1>4, <1>5, <1>6
     DEF Next, Arrive, Continue, vars, tables, SendActivationEmail, SendActivationEmailFails,
         ActivateAccount, ResetPassword, ForgotPassword, RevokeResetTokens,
         InsertResetToken, SendPasswordResetEmail, UpdateUser, RemoveUser,
         Login, SignAccessToken, RowIsGone, WriteFails, Restart, Expire

-----------------------------------------------------------------------------
(* A lock on the user for the requests that write its row: an invitation   *)
(* and its compensation, updates, removals and redemptions.                *)
Lifecycle == {"inviteMail", "inviteUndo", "updateWrite", "hardDelete", "softDelete"} \cup Redeeming

\* Then the row a request is going to delete still has no password, or is PENDING.
DeletesOK ==
    \A r \in Requests :
        /\ request[r].pc \in {"inviteMail", "inviteUndo"} => user[request[r].user].password = Nil
        /\ At(r, "hardDelete") => user[request[r].user].status \in {"PENDING", "deleted"}

ActivatedUsersSurvive ==
    [][\A u \in Users :
          Exists(u) /\ user[u].password # Nil /\ user[u].status # "PENDING" => Exists(u)']_vars

\* How a request comes to delete a row.
LEMMA TurnsToDelete ==
    ASSUME TypeOK, [Next]_vars, NEW r \in Requests,
           request'[r].pc \in {"inviteMail", "inviteUndo", "hardDelete"}, request'[r] # request[r]
    PROVE  \/ \E e \in Emails, u \in Users, t \in Tokens :
                 InviteUser(r, e, u, t) /\ request'[r].user = u
           \/ /\ request[r].pc = "inviteMail" /\ request'[r].pc = "inviteUndo"
              /\ request'[r].user = request[r].user /\ UNCHANGED user
           \/ /\ request'[r].pc = "hardDelete" /\ UNCHANGED user
              /\ user[request'[r].user].status = "PENDING"
<1> USE DEF tables, history
<1>a. \A q \in Requests : Finish(q) => request'[r] = request[r] \/ request'[r] = Idle
  BY DEF Finish, TypeOK, RequestsOK
<1>b. Idle.pc \notin {"inviteMail", "inviteUndo", "hardDelete"} /\ request' # request
  BY DEF Idle
<1>c. ASSUME NEW q \in Requests, NEW pc, NEW u, NEW t, Start(q, pc, u, t)
      PROVE  q = r /\ request'[r].pc = pc /\ request'[r].user = u
  <2>1. request'[r] = IF r = q THEN [pc |-> pc, user |-> u, token |-> t, seen |-> {}] ELSE request[r]
    BY <1>c DEF Start, TypeOK, RequestsOK
  <2> QED
    BY <2>1
<1>1. ASSUME NEW q \in Requests, NEW e \in Emails, NEW u \in Users, NEW t \in Tokens,
             InviteUser(q, e, u, t)
      PROVE  InviteUser(r, e, u, t) /\ request'[r].user = u
  BY <1>c, <1>1 DEF InviteUser
<1>2. ASSUME NEW q \in Requests, SendActivationEmailFails(q)
      PROVE  /\ request[r].pc = "inviteMail" /\ request'[r].pc = "inviteUndo"
             /\ request'[r].user = request[r].user /\ UNCHANGED user
  BY <1>2 DEF SendActivationEmailFails, Goto, At, TypeOK, RequestsOK, RequestState
<1>3. ASSUME NEW q \in Requests, NEW u \in Users, RemoveUser(q, u)
      PROVE  /\ request'[r].pc = "hardDelete" /\ UNCHANGED user
             /\ user[request'[r].user].status = "PENDING"
  BY <1>c, <1>3 DEF RemoveUser
<1>4. ASSUME NEW q \in Requests, NEW u \in Users,
             ForgotPassword(q, u) \/ UpdateUser(q, u) \/ Login(q, u)
      PROVE  FALSE
  BY <1>c, <1>4 DEF ForgotPassword, UpdateUser, Login
<1>5. ASSUME NEW q \in Requests, NEW t \in Tokens,
             ActivateAccount(q, t) \/ ResetPassword(q, t)
      PROVE  FALSE
  BY <1>c, <1>5 DEF ActivateAccount, ResetPassword
<1>6. ASSUME NEW q \in Requests, RevokeResetTokens(q) PROVE FALSE
  BY <1>6 DEF RevokeResetTokens, TypeOK, RequestsOK, RequestState
<1>7. ASSUME NEW q \in Requests, NEW t \in Tokens, InsertResetToken(q, t) PROVE FALSE
  BY <1>7 DEF InsertResetToken, TypeOK, RequestsOK
<1>8. ~ Restart
  BY <1>b DEF Restart
<1> QED
  BY <1>a, <1>b, <1>1, <1>2, <1>3, <1>4, <1>5, <1>6, <1>7, <1>8
     DEF Next, Arrive, Continue, vars, SendActivationEmail, UndoInvite, Redeem,
         SendPasswordResetEmail, WriteUserStatus, HardDelete, SoftDelete, SignAccessToken,
         RowIsGone, WriteFails, Expire

LEMMA DeletesStep == IInv /\ DeletesOK /\ Locked(Lifecycle) /\ [Next]_vars => DeletesOK'
<1> SUFFICES ASSUME IInv, DeletesOK, Locked(Lifecycle), [Next]_vars, NEW r \in Requests,
                    request'[r].pc \in {"inviteMail", "inviteUndo", "hardDelete"}
             PROVE  IF request'[r].pc = "hardDelete"
                    THEN user'[request'[r].user].status \in {"PENDING", "deleted"}
                    ELSE user'[request'[r].user].password = Nil
  BY DEF DeletesOK, At
<1>0. TypeOK
  BY DEF IInv
<1>1. CASE request'[r] = request[r]
  <2> DEFINE u == request[r].user
  <2>1. u \in Users /\ request[r].pc \in Lifecycle
    BY <1>0, <1>1 DEF TypeOK, RequestsOK, Lifecycle
  <2>2. CASE user'[u] = user[u]
    BY <1>1, <2>2 DEF DeletesOK, At
  <2>3. CASE user'[u] # user[u] /\ user[u] # Unborn
    <3>1. PICK q \in Requests : Writes(q, u) /\ request'[q].pc = "idle"
      BY <1>0, <2>1, <2>3, UserStep
    <3>2. q # r
      BY <1>1, <3>1
    <3>3. request[q].pc \notin Lifecycle
      BY <2>1, <3>1, <3>2 DEF Locked, Writes
    <3> QED
      BY <3>1, <3>3 DEF Writes, Lifecycle
  <2>4. CASE user[u] = Unborn /\ user'[u] # user[u]
    <3>1. PICK q \in Requests, e \in Emails, t \in Tokens : InviteUser(q, e, u, t)
      BY <1>0, <2>1, <2>4, UserStep DEF Writes, Exists, Unborn, UserStatus
    <3>2. user'[u].password = Nil
      BY <1>0, <2>1, <3>1 DEF InviteUser, TypeOK
    <3>3. request[r].pc # "hardDelete"
      BY <1>1, <2>4 DEF DeletesOK, At, Unborn
    <3> QED
      BY <1>1, <3>2, <3>3
  <2> QED
    BY <2>2, <2>3, <2>4
<1>2. CASE request'[r] # request[r]
  <2>1. ASSUME NEW e \in Emails, NEW u \in Users, NEW t \in Tokens, InviteUser(r, e, u, t)
        PROVE  user'[u].password = Nil /\ request'[r].pc = "inviteMail"
    BY <1>0, <2>1 DEF InviteUser, Start, TypeOK, RequestsOK
  <2> QED
    BY <1>0, <1>2, <2>1, TurnsToDelete DEF DeletesOK
<1> QED
  BY <1>1, <1>2

(* If the requests that write the row of one user excluded each other, no  *)
(* invitation, update, removal or redemption in flight would cost the row  *)
(* of somebody who chose a password: only an administrator who first sets  *)
(* the user to PENDING (users.service.ts:236) can delete it for good, as   *)
(* remove (users.service.ts:303) looks at the status alone.                *)
THEOREM LockedRemovals == Spec /\ []Locked(Lifecycle) => ActivatedUsersSurvive
<1>1. Init => DeletesOK
  BY DEF Init, DeletesOK, Idle, At
<1>2. IInv /\ DeletesOK /\ [Next]_vars =>
         [\A u \in Users :
             Exists(u) /\ user[u].password # Nil /\ user[u].status # "PENDING" => Exists(u)']_vars
  <2> SUFFICES ASSUME IInv, DeletesOK, [Next]_vars, NEW u \in Users,
                      Exists(u), user[u].password # Nil, user[u].status # "PENDING"
               PROVE  Exists(u)'
    OBVIOUS
  <2>1. CASE user'[u] = user[u]
    BY <2>1 DEF Exists
  <2>2. CASE user'[u] # user[u]
    <3>1. user[u] # Unborn
      BY DEF Unborn, Exists, UserStatus
    <3>2. PICK r \in Requests : Writes(r, u)
      BY <2>2, <3>1, UserStep DEF IInv
    <3>3. request[r].pc \notin {"inviteUndo", "hardDelete"}
      BY <3>2 DEF Writes, DeletesOK, At, Exists, UserStatus
    <3> QED
      BY <3>2, <3>3 DEF Writes, Exists
  <2> QED
    BY <2>1, <2>2
<1> QED
  BY <1>1, <1>2, InitIInv, StepIInv, DeletesStep, PTL DEF Spec, ActivatedUsersSurvive

-----------------------------------------------------------------------------
(* A lock on the user for recovery: from the statement that revokes to its *)
(* commit (forgotPassword), and from the read of a recovery link to its    *)
(* redemption (resetPassword).                                             *)
Recovery == {"forgotInsert", "reset"}

IsResetLink(t, u) ==
    token[t].userId = u /\ token[t].type = "PASSWORD_RESET" /\ token[t].status = "ACTIVE"

\* Then what forgotPassword revokes is all there is,
SeesAll ==
    \A r \in Requests : At(r, "forgotInsert") =>
        /\ \A t \in Tokens : IsResetLink(t, request[r].user) => t \in request[r].seen
        /\ \A s \in request[r].seen : token[s].userId = request[r].user

OneRecoveryLink ==
    \A s, t \in Tokens :
        /\ token[s].type = "PASSWORD_RESET" /\ token[t].type = "PASSWORD_RESET"
        /\ token[s].status = "ACTIVE" /\ token[t].status = "ACTIVE"
        /\ token[s].userId = token[t].userId
        => s = t

\* and the link that is about to be redeemed is still active, if its user is there.
HoldsLive ==
    \A r \in Requests :
        /\ At(r, "activate") => token[request[r].token].type = "ACTIVATION"
        /\ At(r, "reset") =>
              /\ token[request[r].token].type = "PASSWORD_RESET"
              /\ token[request[r].token].status = "ACTIVE" \/ user[request[r].user].status = "deleted"

RecInv == SeesAll /\ OneRecoveryLink /\ HoldsLive

LEMMA SeesAllStep == IInv /\ RecInv /\ Locked(Recovery) /\ [Next]_vars => SeesAll'
<1> SUFFICES ASSUME IInv, RecInv, Locked(Recovery), [Next]_vars,
                    NEW r \in Requests, request'[r].pc = "forgotInsert"
             PROVE  /\ \A t \in Tokens :
                          /\ token'[t].userId = request'[r].user
                          /\ token'[t].type = "PASSWORD_RESET" /\ token'[t].status = "ACTIVE"
                          => t \in request'[r].seen
                    /\ \A s \in request'[r].seen : token'[s].userId = request'[r].user
  BY DEF SeesAll, At, IsResetLink
<1>0. TypeOK /\ HeldLinksOK /\ TypeOK'
  BY TypeStep DEF IInv
<1>1. ASSUME NEW t \in Tokens, token'[t].userId = request'[r].user,
             token'[t].type = "PASSWORD_RESET", token'[t].status = "ACTIVE"
      PROVE  IsResetLink(t, request'[r].user)
             \/ \E q \in Requests : /\ InsertResetToken(q, t) /\ q # r
                                    /\ request[q].user = request'[r].user
  <2>2. ASSUME NEW q \in Requests, InsertResetToken(q, t)
        PROVE  q # r /\ request[q].user = request'[r].user
    BY <1>0, <1>1, <2>2, InsertedLink
  <2> QED
    BY <1>0, <1>1, <2>2, ActiveResetLink DEF IsResetLink
<1>2. CASE request'[r] = request[r]
  <2>1. ASSUME NEW t \in Tokens, NEW q \in Requests,
               InsertResetToken(q, t), q # r, request[q].user = request'[r].user
        PROVE  FALSE
    <3>1. request[q].pc = "forgotInsert"
      BY <2>1 DEF InsertResetToken, At
    <3> QED
      BY <1>2, <2>1, <3>1 DEF Locked, Recovery
  <2>2. ASSUME NEW t \in Tokens, token'[t].userId = request'[r].user,
               token'[t].type = "PASSWORD_RESET", token'[t].status = "ACTIVE"
        PROVE  t \in request'[r].seen
    BY <1>1, <1>2, <2>1, <2>2 DEF RecInv, SeesAll, At
  <2>3. ASSUME NEW s \in request[r].seen PROVE token'[s].userId = token[s].userId
    <3>1. s \in Tokens /\ request[r].user \in Users /\ token[s].userId = request[r].user
      BY <1>0, <1>2 DEF TypeOK, RequestsOK, RequestState, RecInv, SeesAll, At
    <3>2. token[s].status # "unborn"
      BY <1>0, <3>1, NilAssumption DEF TypeOK, TokensOK
    <3> QED
      BY <1>0, <3>1, <3>2, LinksEvolve DEF LinkEvolves
  <2> QED
    BY <1>2, <2>2, <2>3 DEF RecInv, SeesAll, At
<1>3. CASE ProceedsWithoutLink(r)
  <2>1. request'[r].seen = ActiveResetTokens(request'[r].user) /\ token' = token
    BY <1>3 DEF ProceedsWithoutLink
  <2>2. \A s \in request'[r].seen : token'[s].userId = request'[r].user
    BY <2>1 DEF ActiveResetTokens
  <2>3. ASSUME NEW t \in Tokens, token'[t].userId = request'[r].user,
               token'[t].type = "PASSWORD_RESET", token'[t].status = "ACTIVE"
        PROVE  t \in request'[r].seen
    BY <2>1, <2>3 DEF ActiveResetTokens
  <2> QED
    BY <2>1, <2>2, <2>3
<1>4. request'[r] # Idle /\ ~ TurnsToUndo(r) /\ ~ TakesLink(r)
  BY <1>0 DEF Idle, TurnsToUndo, TakesLink, Mailing, Redeeming, TypeOK, RequestsOK, RequestState
<1> QED
  BY <1>0, <1>2, <1>3, <1>4, RequestsEvolve DEF RequestEvolves

LEMMA OneLinkStep == IInv /\ RecInv /\ [Next]_vars => OneRecoveryLink'
<1> SUFFICES ASSUME IInv, RecInv, [Next]_vars PROVE OneRecoveryLink'
  OBVIOUS
<1>0. TypeOK /\ HeldLinksOK
  BY DEF IInv
<1> DEFINE Rival(s, t) == /\ token'[s].type = "PASSWORD_RESET" /\ token'[t].type = "PASSWORD_RESET"
                          /\ token'[s].status = "ACTIVE" /\ token'[t].status = "ACTIVE"
                          /\ token'[s].userId = token'[t].userId
<1>1. ASSUME NEW s \in Tokens, NEW t \in Tokens, Rival(s, t),
             NEW r \in Requests, InsertResetToken(r, t)
      PROVE  s = t
  <2> SUFFICES ASSUME s # t PROVE FALSE
    OBVIOUS
  <2>1. ~ \E q \in Requests : InsertResetToken(q, s)
    <3>1. token'[s] = token[s] \/ token'[s] = Revoke(s)
      BY <1>1 DEF InsertResetToken
    <3>2. token[s] # UnusedToken
      BY <1>0, <1>1, <3>1, RevokeOK DEF UnusedToken, TypeOK
    <3> QED
      BY <3>2 DEF InsertResetToken
  <2>2. IsResetLink(s, request[r].user)
    <3>1. token'[t].userId = request[r].user
      BY <1>0, <1>1, InsertedLink
    <3>2. /\ token[s].status = "ACTIVE" /\ token[s].type = "PASSWORD_RESET"
          /\ token[s].userId = token'[s].userId
      BY <1>0, <1>1, <2>1, ActiveResetLink
    <3> QED
      BY <1>1, <3>1, <3>2 DEF IsResetLink
  <2>3. s \in request[r].seen
    BY <1>0, <1>1, <2>2, InsertedLink DEF RecInv, SeesAll
  <2> QED
    BY <1>0, <1>1, <2>3, InsertedLink
<1>2. ASSUME NEW s \in Tokens, NEW t \in Tokens, Rival(s, t),
             ~ \E r \in Requests : InsertResetToken(r, s) \/ InsertResetToken(r, t)
      PROVE  s = t
  BY <1>0, <1>2, ActiveResetLink DEF RecInv, OneRecoveryLink
<1>3. \A s, t \in Tokens : Rival(s, t) => s = t
  BY <1>1, <1>2
<1> QED
  BY <1>3 DEF OneRecoveryLink

\* How a link ceases to be active.
LEMMA LinkGoesDead ==
    ASSUME TypeOK, [Next]_vars, NEW t \in Tokens, token[t].status = "ACTIVE",
           token'[t].status # "ACTIVE"
    PROVE  \/ user'[token[t].userId].status = "deleted"
           \/ \E r \in Requests : Redeem(r) /\ request[r].token = t /\ request'[r] = Idle
           \/ \E r \in Requests : /\ At(r, "forgotInsert") /\ t \in request[r].seen
                                  /\ request'[r].pc = "forgotMail"
<1>0. token[t].userId \in Users /\ token' # token /\ token[t] # UnusedToken
  BY DEF TypeOK, TokensOK, TokenRow, UnusedToken
<1>1. ASSUME NEW u, DeleteUser(u) PROVE user'[token[t].userId].status = "deleted"
  BY <1>0, <1>1 DEF DeleteUser, Deleted, TypeOK
<1>2. ASSUME NEW r \in Requests, NEW e \in Emails, NEW u \in Users, NEW s \in Tokens,
             InviteUser(r, e, u, s)
      PROVE  FALSE
  BY <1>0, <1>2 DEF InviteUser, TypeOK, TokensOK
<1>3. ASSUME NEW r \in Requests, Redeem(r) PROVE request[r].token = t /\ request'[r] = Idle
  BY <1>3 DEF Redeem, Finish, TypeOK, TokensOK, RequestsOK
<1>4. ASSUME NEW r \in Requests, NEW s \in Tokens, InsertResetToken(r, s)
      PROVE  At(r, "forgotInsert") /\ t \in request[r].seen /\ request'[r].pc = "forgotMail"
  <2>1. s # t
    BY <1>0, <1>4 DEF InsertResetToken
  <2> QED
    BY <1>4, <2>1 DEF InsertResetToken, TypeOK, RequestsOK
<1> QED
  BY <1>0, <1>1, <1>2, <1>3, <1>4
     DEF Next, Arrive, Continue, vars, tables, SendActivationEmail, SendActivationEmailFails,
         UndoInvite, ActivateAccount, ResetPassword, ForgotPassword, RevokeResetTokens,
         SendPasswordResetEmail, UpdateUser, WriteUserStatus, RemoveUser, HardDelete,
         SoftDelete, Login, SignAccessToken, RowIsGone, WriteFails, Restart, Expire

\* A deleted row stays as it is.
LEMMA DeletedStays ==
    ASSUME TypeOK, [Next]_vars, NEW u \in Users, user[u].status = "deleted"
    PROVE  user'[u] = user[u]
BY UserStep DEF Writes, Exists, UserStatus, Unborn

LEMMA HoldsLiveStep == IInv /\ RecInv /\ Locked(Recovery) /\ [Next]_vars => HoldsLive'
<1> SUFFICES ASSUME IInv, RecInv, Locked(Recovery), [Next]_vars,
                    NEW r \in Requests, request'[r].pc \in Redeeming
             PROVE  LET t == request'[r].token
                    IN  /\ request'[r].pc = "activate" => token'[t].type = "ACTIVATION"
                        /\ request'[r].pc = "reset" =>
                              /\ token'[t].type = "PASSWORD_RESET"
                              /\ \/ token'[t].status = "ACTIVE"
                                 \/ user'[request'[r].user].status = "deleted"
  BY DEF HoldsLive, At, Redeeming
<1>0. TypeOK /\ HeldLinksOK
  BY DEF IInv
<1>1. CASE request'[r] # request[r]
  BY <1>0, <1>1, TakesUp DEF tables, Redeeming
<1>2. CASE request'[r] = request[r]
  <2> DEFINE t == request[r].token
             u == request[r].user
  <2>1. t \in Tokens /\ u \in Users /\ token[t].userId = u /\ token[t].status # "unborn"
    BY <1>0, <1>2, KnownLink DEF HoldingLink
  <2>2. LinkEvolves(t)
    BY <1>0, <2>1, LinksEvolve
  <2>3. ASSUME request[r].pc = "reset"
        PROVE  token'[t].status = "ACTIVE" \/ user'[u].status = "deleted"
    <3>1. CASE user[u].status = "deleted"
      BY <1>0, <2>1, <3>1, DeletedStays
    <3>2. CASE token[t].status = "ACTIVE" /\ token'[t].status # "ACTIVE"
      <4>1. ASSUME NEW q \in Requests, Redeem(q), request[q].token = t, request'[q] = Idle
            PROVE  FALSE
        <5>1. q # r /\ request[q].pc \in Redeeming
          BY <1>2, <2>3, <4>1 DEF Idle, Redeem
        <5>2. request[q].user = u
          BY <1>0, <2>1, <4>1, <5>1, KnownLink DEF HoldingLink
        <5>3. request[q].pc # "reset"
          BY <2>3, <5>1, <5>2 DEF Locked, Recovery
        <5> QED
          BY <2>3, <4>1, <5>1, <5>3 DEF Redeeming, RecInv, HoldsLive, At
      <4>2. ASSUME NEW q \in Requests, At(q, "forgotInsert"), t \in request[q].seen,
                   request'[q].pc = "forgotMail"
            PROVE  FALSE
        BY <1>2, <2>1, <2>3, <4>2 DEF At, RecInv, SeesAll, Locked, Recovery
      <4> QED
        BY <1>0, <2>1, <3>2, <4>1, <4>2, LinkGoesDead
    <3> QED
      BY <2>3, <3>1, <3>2 DEF RecInv, HoldsLive, At
  <2> QED
    BY <1>2, <2>2, <2>3 DEF RecInv, HoldsLive, At, LinkEvolves
<1> QED
  BY <1>1, <1>2

LEMMA ResetEnds ==
    ASSUME IInv, RecInv, Locked(Recovery), [Next]_vars, NEW r \in Requests, NEW u \in Users,
           At(r, "reset"), request[r].user = u,
           user'[u] # user[u], user'[u].password = request[r].token
    PROVE  ActiveResetTokens(u)' = {}
<1> DEFINE t == request[r].token
<1>0. TypeOK /\ HeldLinksOK /\ LinksOK /\ PasswordsOK
  BY DEF IInv
<1>1. /\ u \in Users /\ t \in Tokens /\ token[t].userId = u /\ t # Nil
      /\ token[t].type = "PASSWORD_RESET"
      /\ token[t].status = "ACTIVE" \/ user[u].status = "deleted"
  BY <1>0, KnownLink, NilAssumption DEF At, HoldingLink, Redeeming, RecInv, HoldsLive
<1>2. token[t].status = "ACTIVE"
  BY <1>0, <1>1, DeletedStays
<1>3. user[u].password # t
  BY <1>0, <1>1, <1>2 DEF PasswordsOK, LinksOK
<1>4. PICK q \in Requests : Redeem(q) /\ request[q].user = u /\ request[q].token = t
  BY <1>0, <1>1, <1>3, PasswordStep
<1>5. token' = [token EXCEPT ![t].status = "USED_OR_REVOKED"]
  BY <1>4 DEF Redeem
<1>6. ASSUME NEW s \in Tokens, token'[s].userId = u, token'[s].type = "PASSWORD_RESET",
             token'[s].status = "ACTIVE"
      PROVE  FALSE
  <2>1. s # t
    BY <1>0, <1>5, <1>6 DEF TypeOK, TokensOK, TokenRow
  <2>2. token'[s] = token[s]
    BY <1>0, <1>5, <2>1 DEF TypeOK, TokensOK
  <2> QED
    BY <1>1, <1>2, <1>6, <2>1, <2>2 DEF RecInv, OneRecoveryLink
<1> QED
  BY <1>6 DEF ActiveResetTokens

LEMMA RecoveryInit == Init => RecInv
BY DEF Init, RecInv, SeesAll, OneRecoveryLink, HoldsLive, At, Idle, UnusedToken

LEMMA RecoveryStep == IInv /\ RecInv /\ Locked(Recovery) /\ [Next]_vars => RecInv'
BY SeesAllStep, OneLinkStep, HoldsLiveStep DEF RecInv

(* If the requests that replace and redeem the recovery links of one user  *)
(* excluded each other, a user would never have two live ones              *)
(* (auth.service.ts:298 revokes all the others), and redeeming one would   *)
(* leave none, as auth.controller.ts:92 says.                              *)
THEOREM LockedRecovery ==
    Spec /\ []Locked(Recovery) => []OneRecoveryLink /\ ResetLeavesNoOtherLink
<1>1. RecInv => OneRecoveryLink
  BY DEF RecInv
<1>2. IInv /\ RecInv /\ Locked(Recovery) /\ [Next]_vars =>
         [\A r \in Requests, u \in Users :
             /\ At(r, "reset") /\ request[r].user = u
             /\ user'[u] # user[u] /\ user'[u].password = request[r].token
             => ActiveResetTokens(u)' = {}]_vars
  BY ResetEnds
<1> QED
  BY <1>1, <1>2, RecoveryInit, RecoveryStep, InitIInv, StepIInv, PTL DEF Spec, ResetLeavesNoOtherLink

=============================================================================
