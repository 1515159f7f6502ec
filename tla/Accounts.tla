------------------------------ MODULE Accounts ------------------------------
(***************************************************************************)
(* The life of a user account: invitation, activation, password recovery,  *)
(* login, administrative update and removal, with the single-use links     *)
(* (rows of user_tokens) that the first three mail out.                    *)
(*                                                                         *)
(* Code: src/auth/auth.service.ts and src/users/users.service.ts.          *)
(*                                                                         *)
(* Every HTTP request is an asynchronous handler: another request can run  *)
(* whenever it awaits the database, the mail provider or bcrypt.  A slot   *)
(* of Requests runs one request at a time, and an action is what a handler *)
(* does between two awaits that others can observe.  A database            *)
(* transaction commits in one step: the row locks PostgreSQL takes make a  *)
(* transaction that had to wait end as one that ran when it got the lock.  *)
(* The exception is forgotPassword, whose updateMany does not see what     *)
(* others commit after it starts, so its statement and its commit are two  *)
(* steps.                                                                  *)
(*                                                                         *)
(* Abstracted: names, phones, documents and pictures; the text of mails;   *)
(* the bytes of a password (it is the link through which it was chosen).   *)
(* Roles and tenants are in Membership: here an administrator may act      *)
(* on any user but themselves (users.service.ts:236 and :298 reject the    *)
(* latter before any change).                                              *)
(***************************************************************************)

CONSTANTS
    Users,      \* user ids a database may ever generate (uuid, never reused)
    Emails,     \* addresses that can be invited
    Tokens,     \* link tokens that may ever be generated (never reused)
    Requests,   \* slots in which the server runs requests
    Nil         \* SQL NULL, and "no value"

ASSUME NilAssumption == Nil \notin Users \cup Emails \cup Tokens

VARIABLES
    user,       \* table users
    token,      \* table user_tokens
    request,    \* what each slot is running, with its local variables
    mailed,     \* links handed over to the mail provider
    expired,    \* links whose expiresAt has passed
    sessions,   \* users for whom an access token was signed
    redeemers,  \* history: the slots that redeemed each link
    cut         \* history: users whose invitation a failure cut short

vars == <<user, token, request, mailed, expired, sessions, redeemers, cut>>
tables == <<user, token>>
history == <<redeemers, cut>>

UserStatus == {"INACTIVE", "ACTIVE", "PENDING"}
UserTokenType == {"ACTIVATION", "PASSWORD_RESET"}

Mailing == {"inviteMail", "forgotMail"}
Redeeming == {"activate", "reset"}
Writing == {"inviteUndo", "forgotRevoke", "forgotInsert", "updateWrite",
            "hardDelete", "softDelete"} \cup Redeeming
HoldingLink == {"inviteUndo"} \cup Mailing \cup Redeeming
Points == {"idle", "login"} \cup Mailing \cup Writing

\* A row that was not inserted yet, and one that was deleted.
Unborn == [status |-> "unborn", email |-> Nil, password |-> Nil]
Deleted == [status |-> "deleted", email |-> Nil, password |-> Nil]
UnusedToken == [status |-> "unborn", type |-> Nil, userId |-> Nil, issuer |-> Nil]

Idle == [pc |-> "idle", user |-> Nil, token |-> Nil, seen |-> {}]

UserRow == [status : UserStatus \cup {"unborn", "deleted"},
            email : Emails \cup {Nil},
            password : Tokens \cup {Nil}]
TokenRow == [status : {"unborn", "ACTIVE", "USED_OR_REVOKED", "deleted"},
             type : UserTokenType \cup {Nil},
             userId : Users \cup {Nil},
             issuer : Requests \cup {Nil}]
RequestState == [pc : Points,
                 user : Users \cup {Nil},
                 token : Tokens \cup {Nil},
                 seen : SUBSET Tokens]

TokensOK ==
    /\ token \in [Tokens -> TokenRow]
    /\ \A t \in Tokens : token[t].status = "unborn" <=> token[t].userId = Nil

RequestsOK ==
    /\ request \in [Requests -> RequestState]
    /\ \A r \in Requests :
          /\ request[r].pc # "idle" => request[r].user \in Users
          /\ request[r].pc \in HoldingLink => request[r].token \in Tokens

(* Rows hold what their columns may hold, a link that exists belongs to a  *)
(* user (user_id is NOT NULL), and a request in flight knows its user and, *)
(* where it goes on to use one, its link.                                  *)
TypeOK ==
    /\ user \in [Users -> UserRow]
    /\ TokensOK
    /\ RequestsOK
    /\ mailed \subseteq Tokens
    /\ expired \subseteq Tokens
    /\ sessions \subseteq Users
    /\ redeemers \in [Tokens -> SUBSET Requests]
    /\ cut \subseteq Users

Init ==
    /\ user = [u \in Users |-> Unborn]
    /\ token = [t \in Tokens |-> UnusedToken]
    /\ request = [r \in Requests |-> Idle]
    /\ mailed = {}
    /\ expired = {}
    /\ sessions = {}
    /\ redeemers = [t \in Tokens |-> {}]
    /\ cut = {}

-----------------------------------------------------------------------------
Exists(u) == user[u].status \in UserStatus

At(r, pc) == request[r].pc = pc
Goto(r, pc) == request' = [request EXCEPT ![r].pc = pc]
Start(r, pc, u, t) ==
    /\ At(r, "idle")
    /\ request' = [request EXCEPT ![r] = [pc |-> pc, user |-> u, token |-> t, seen |-> {}]]
Finish(r) == request' = [request EXCEPT ![r] = Idle]

NewToken(r, type, u) ==
    [status |-> "ACTIVE", type |-> type, userId |-> u, issuer |-> r]

\* Deletes the row of user u; its tokens go with it (ON DELETE CASCADE).
DeleteUser(u) ==
    /\ user' = [user EXCEPT ![u] = Deleted]
    /\ token' = [t \in Tokens |-> IF token[t].userId = u
                                  THEN [token[t] EXCEPT !.status = "deleted"]
                                  ELSE token[t]]

\* Mutated form: an expired link is accepted.
FindUsableTokenAtAnyTime(t, type) ==
    /\ token[t].type = type
    /\ token[t].status = "ACTIVE"

\* Mutated form: the status of the row is not looked at.
FindUsableTokenOfAnyStatus(t, type) ==
    /\ token[t].type = type
    /\ t \notin expired

FindUsableToken(t, type) ==
    /\ token[t].type = type
    /\ token[t].status = "ACTIVE"
    /\ t \notin expired

-----------------------------------------------------------------------------
(* inviteUser: one transaction, then the mail, then maybe its compensation. *)

InviteUser(r, e, u, t) ==
    /\ Start(r, "inviteMail", u, t)
    /\ \A v \in Users : user[v].email # e
    /\ user[u] = Unborn
    /\ token[t] = UnusedToken
    /\ user' = [user EXCEPT ![u] = [status |-> "PENDING", email |-> e, password |-> Nil]]
    /\ token' = [token EXCEPT ![t] = NewToken(r, "ACTIVATION", u)]
    /\ UNCHANGED <<mailed, expired, sessions, history>>

SendActivationEmail(r) ==
    /\ At(r, "inviteMail")
    /\ mailed' = mailed \cup {request[r].token}
    /\ Finish(r)
    /\ UNCHANGED <<tables, expired, sessions, history>>

\* Mutated form: the error is logged and the row stays.
SendActivationEmailFailsQuietly(r) ==
    /\ At(r, "inviteMail")
    /\ mailed' \in {mailed, mailed \cup {request[r].token}}
    /\ Finish(r)
    /\ UNCHANGED <<tables, expired, sessions, history>>

\* The provider's answer is an error, or never arrives: the mail may be out.
SendActivationEmailFails(r) ==
    /\ At(r, "inviteMail")
    /\ mailed' \in {mailed, mailed \cup {request[r].token}}
    /\ Goto(r, "inviteUndo")
    /\ UNCHANGED <<tables, expired, sessions, history>>

\* prisma.user.delete throws when the row is gone; the request fails either way.
UndoInvite(r) ==
    /\ At(r, "inviteUndo")
    /\ IF Exists(request[r].user) THEN DeleteUser(request[r].user) ELSE UNCHANGED tables
    /\ Finish(r)
    /\ UNCHANGED <<mailed, expired, sessions, history>>

-----------------------------------------------------------------------------
(* activateAccount and resetPassword: read the link, hash, then one        *)
(* transaction that looks at neither the link nor the user again.          *)

ActivateAccount(r, t) ==
    /\ t \in mailed
    /\ FindUsableToken(t, "ACTIVATION")
    /\ user[token[t].userId].status = "PENDING"
    /\ Start(r, "activate", token[t].userId, t)
    /\ UNCHANGED <<tables, mailed, expired, sessions, history>>

\* Mutated form: the status of the user is not looked at.
ResetPasswordOfAnyone(r, t) ==
    /\ t \in mailed
    /\ FindUsableToken(t, "PASSWORD_RESET")
    /\ Start(r, "reset", token[t].userId, t)
    /\ UNCHANGED <<tables, mailed, expired, sessions, history>>

ResetPassword(r, t) ==
    /\ t \in mailed
    /\ FindUsableToken(t, "PASSWORD_RESET")
    /\ user[token[t].userId].status # "INACTIVE"
    /\ Start(r, "reset", token[t].userId, t)
    /\ UNCHANGED <<tables, mailed, expired, sessions, history>>

SetPassword(u, t) ==
    user' = [user EXCEPT ![u].password = t, ![u].status = "ACTIVE"]

Redeem(r) ==
    LET u == request[r].user
        t == request[r].token
    IN  /\ request[r].pc \in Redeeming
        /\ Exists(u)
        /\ SetPassword(u, t)
        /\ token' = [token EXCEPT ![t].status = "USED_OR_REVOKED"]
        /\ redeemers' = [redeemers EXCEPT ![t] = @ \cup {r}]
        /\ Finish(r)
        /\ UNCHANGED <<mailed, expired, sessions, cut>>

-----------------------------------------------------------------------------
(* forgotPassword: read the user, revoke and insert in one transaction,    *)
(* mail.  A failed mail is only logged.                                    *)

ForgotPassword(r, u) ==
    /\ user[u].status = "ACTIVE"
    /\ Start(r, "forgotRevoke", u, Nil)
    /\ UNCHANGED <<tables, mailed, expired, sessions, history>>

\* Mutated form: the where clause names the other type.
ActiveActivationTokens(u) ==
    {t \in Tokens : /\ token[t].userId = u
                    /\ token[t].type = "ACTIVATION"
                    /\ token[t].status = "ACTIVE"}

ActiveResetTokens(u) ==
    {t \in Tokens : /\ token[t].userId = u
                    /\ token[t].type = "PASSWORD_RESET"
                    /\ token[t].status = "ACTIVE"}

\* The updateMany statement picks its rows from what is committed now.
RevokeResetTokens(r) ==
    /\ At(r, "forgotRevoke")
    /\ request' = [request EXCEPT ![r].pc = "forgotInsert",
                                  ![r].seen = ActiveResetTokens(request[r].user)]
    /\ UNCHANGED <<tables, mailed, expired, sessions, history>>

Revoke(t) == [token[t] EXCEPT !.status = IF @ = "ACTIVE" THEN "USED_OR_REVOKED" ELSE @]

\* The insert and the commit; without the user the foreign key refuses both.
InsertResetToken(r, t) ==
    LET u == request[r].user
    IN  /\ At(r, "forgotInsert")
        /\ Exists(u)
        /\ token[t] = UnusedToken
        /\ token' = [s \in Tokens |-> IF s = t THEN NewToken(r, "PASSWORD_RESET", u)
                                      ELSE IF s \in request[r].seen THEN Revoke(s)
                                      ELSE token[s]]
        /\ request' = [request EXCEPT ![r] = [pc |-> "forgotMail", user |-> u,
                                              token |-> t, seen |-> {}]]
        /\ UNCHANGED <<user, mailed, expired, sessions, history>>

SendPasswordResetEmail(r) ==
    /\ At(r, "forgotMail")
    /\ mailed' \in {mailed, mailed \cup {request[r].token}}
    /\ Finish(r)
    /\ UNCHANGED <<tables, expired, sessions, history>>

-----------------------------------------------------------------------------
(* update and remove, by an administrator: a scoped read, then a write by  *)
(* id decided on that read.                                                *)

\* Mutated form: @IsEnum is missing from the DTO.
DtoStatusUnchecked == UserStatus \cup {"UNKNOWN"}

DtoStatus == UserStatus

UpdateUser(r, u) ==
    /\ Exists(u)
    /\ Start(r, "updateWrite", u, Nil)
    /\ UNCHANGED <<tables, mailed, expired, sessions, history>>

WriteUserStatus(r, s) ==
    /\ At(r, "updateWrite")
    /\ Exists(request[r].user)
    /\ user' = [user EXCEPT ![request[r].user].status = s]
    /\ Finish(r)
    /\ UNCHANGED <<token, mailed, expired, sessions, history>>

RemoveUser(r, u) ==
    /\ Exists(u)
    /\ Start(r, IF user[u].status = "PENDING" THEN "hardDelete" ELSE "softDelete", u, Nil)
    /\ UNCHANGED <<tables, mailed, expired, sessions, history>>

HardDelete(r) ==
    /\ At(r, "hardDelete")
    /\ Exists(request[r].user)
    /\ DeleteUser(request[r].user)
    /\ Finish(r)
    /\ UNCHANGED <<mailed, expired, sessions, history>>

SoftDelete(r) ==
    /\ At(r, "softDelete")
    /\ Exists(request[r].user)
    /\ user' = [user EXCEPT ![request[r].user].status = "INACTIVE"]
    /\ Finish(r)
    /\ UNCHANGED <<token, mailed, expired, sessions, history>>

-----------------------------------------------------------------------------
(* login: one read decides; signing and reading the permissions follow.    *)

\* Mutated form: the status alone decides.
MayLogInWhenActive(u) == user[u].status = "ACTIVE"

MayLogIn(u) ==
    /\ user[u].status = "ACTIVE"
    /\ user[u].password # Nil

Login(r, u) ==
    /\ MayLogIn(u)
    /\ Start(r, "login", u, Nil)
    /\ UNCHANGED <<tables, mailed, expired, sessions, history>>

SignAccessToken(r) ==
    /\ At(r, "login")
    /\ sessions' = sessions \cup {request[r].user}
    /\ Finish(r)
    /\ UNCHANGED <<tables, mailed, expired, history>>

-----------------------------------------------------------------------------
(* What is not a handler: time, failures and restarts.                     *)

Inviting(u) == {r \in Requests : /\ request[r].pc \in {"inviteMail", "inviteUndo"}
                                 /\ request[r].user = u}

\* A write by id whose row is gone (P2025, or the foreign key) rolls back.
RowIsGone(r) ==
    /\ request[r].pc \in Writing \ {"inviteUndo", "forgotRevoke"}
    /\ ~ Exists(request[r].user)
    /\ Finish(r)
    /\ UNCHANGED <<tables, mailed, expired, sessions, history>>

\* The database refuses a write: deadlock victim, timeout, lost connection.
WriteFails(r) ==
    /\ request[r].pc \in Writing
    /\ cut' = IF At(r, "inviteUndo") THEN cut \cup {request[r].user} ELSE cut
    /\ Finish(r)
    /\ UNCHANGED <<tables, mailed, expired, sessions, redeemers>>

\* The process restarts: what was in flight is gone, some mails were sent.
Restart ==
    /\ \E sent \in SUBSET {request[r].token : r \in {q \in Requests : request[q].pc \in Mailing}} :
          mailed' = mailed \cup sent
    /\ cut' = cut \cup {u \in Users : Inviting(u) # {}}
    /\ request' = [r \in Requests |-> Idle]
    /\ UNCHANGED <<tables, expired, sessions, redeemers>>

\* Expiry matters while the link is active.
Expire(t) ==
    /\ token[t].status = "ACTIVE"
    /\ expired' = expired \cup {t}
    /\ UNCHANGED <<tables, request, mailed, sessions, history>>

-----------------------------------------------------------------------------
Arrive(r) ==
    \/ \E e \in Emails, u \in Users, t \in Tokens : InviteUser(r, e, u, t)
    \/ \E t \in Tokens : ActivateAccount(r, t)
    \/ \E t \in Tokens : ResetPassword(r, t)
    \/ \E u \in Users : ForgotPassword(r, u)
    \/ \E u \in Users : UpdateUser(r, u)
    \/ \E u \in Users : RemoveUser(r, u)
    \/ \E u \in Users : Login(r, u)

Continue(r) ==
    \/ SendActivationEmail(r)
    \/ SendActivationEmailFails(r)
    \/ UndoInvite(r)
    \/ Redeem(r)
    \/ RevokeResetTokens(r)
    \/ \E t \in Tokens : InsertResetToken(r, t)
    \/ SendPasswordResetEmail(r)
    \/ \E s \in DtoStatus : WriteUserStatus(r, s)
    \/ HardDelete(r)
    \/ SoftDelete(r)
    \/ SignAccessToken(r)
    \/ RowIsGone(r)
    \/ WriteFails(r)

Next ==
    \/ \E r \in Requests : Arrive(r)
    \/ \E r \in Requests : Continue(r)
    \/ \E t \in Tokens : Expire(t)
    \/ Restart

Spec == Init /\ [][Next]_vars

\* The event loop runs every handler that can go on; nothing makes clients
\* send requests, links expire or the process restart.
LiveSpec == Spec /\ \A r \in Requests : WF_vars(Continue(r))

-----------------------------------------------------------------------------
\* A link that was used, or revoked, or went with its user.
Spent(t) == token[t].status \in {"USED_OR_REVOKED", "deleted"}

\* The requests that looked t up and are about to redeem it.
Holders(t) == {r \in Requests : request[r].pc \in Redeeming /\ request[r].token = t}

(* A spent link stays spent, whichever way it was spent: nothing makes it  *)
(* active again, and no request that comes later takes it up.  So only     *)
(* requests that had read it ACTIVE before can still redeem it             *)
(* (findUsableToken against the writes of status in the transactions of    *)
(* activateAccount, resetPassword and forgotPassword).                     *)
SpentLinksStaySpent ==
    [][\A t \in Tokens : Spent(t) =>
          /\ Spent(t)'
          /\ Holders(t)' \subseteq Holders(t)]_vars

\* u has redeemed a link that was mailed.
Answered(u) == \E t \in mailed : token[t].userId = u /\ redeemers[t] # {}

(* A password was always chosen through a link of the same user that went  *)
(* out by mail, and a session is only signed for a user who has redeemed   *)
(* such a link: no order of administrator updates, failures and stale      *)
(* reads lets anyone log in who never answered a mail.                     *)
PasswordsComeFromLinks ==
    /\ \A u \in Users : user[u].password # Nil =>
          /\ user[u].password \in mailed
          /\ token[user[u].password].userId = u
    /\ \A u \in sessions : Answered(u)

(* Asking again for a recovery link kills the ones the same slot had been  *)
(* given before: two live recovery links of one user always come from      *)
(* forgotPassword requests that overlapped.                                *)
NewLinkSupersedesOld ==
    \A s, t \in Tokens :
        /\ token[s].type = "PASSWORD_RESET" /\ token[t].type = "PASSWORD_RESET"
        /\ token[s].status = "ACTIVE" /\ token[t].status = "ACTIVE"
        /\ token[s].userId = token[t].userId
        /\ token[s].issuer = token[t].issuer
        => s = t

\* u is deactivated, and no request that was under way before can undo it.
Settled(u) ==
    /\ user[u].status = "INACTIVE"
    /\ \A r \in Requests : request[r].user = u => request[r].pc \notin Redeeming \cup {"updateWrite"}

(* A deactivation lasts: once the redemptions and updates that it          *)
(* overlapped are over, no link the user still holds brings the account    *)
(* back, and the row stays INACTIVE or is deleted until an administrator   *)
(* begins another update.                                                  *)
DeactivationsLast ==
    [][\A u \in Users : Settled(u) =>
          \/ user'[u].status = "deleted"
          \/ Settled(u)'
          \/ /\ user'[u] = user[u]
             /\ \E r \in Requests : At(r, "idle") /\ At(r, "updateWrite")'
             /\ \A r \in Requests : request'[r].user = u => request'[r].pc \notin Redeeming]_vars

(* A ghost: a row that blocks its e-mail although nobody was ever sent the *)
(* link that would activate it (users.service.ts:128-129).                 *)
Ghost(u) ==
    /\ Exists(u)
    /\ \A t \in mailed : token[t].userId # u

(* Outside the window between the commit and the compensation, ghosts are  *)
(* left only by a restart or by a compensating delete that failed.         *)
GhostsOnlyWhenCut ==
    \A u \in Users : Ghost(u) => u \in cut \/ Inviting(u) # {}

(* Every invitation settles: unless a failure cuts it short, its link is   *)
(* mailed or its row is deleted again.                                     *)
InvitationsSettle ==
    \A u \in Users : Ghost(u) ~> (~ Ghost(u) \/ u \in cut)

-----------------------------------------------------------------------------
(* The handlers implement Credentials: a link is open while its row is     *)
(* active and not expired, and a request claims the link it will redeem.   *)
LinkState(t) ==
    CASE token[t].status = "unborn" -> "unissued"
      [] token[t].status = "ACTIVE" /\ t \notin expired -> "open"
      [] OTHER -> "closed"

C == INSTANCE Credentials WITH
        link <- [t \in Tokens |-> [state |-> LinkState(t), owner |-> token[t].userId]],
        claim <- [r \in Requests |-> IF request[r].pc \in Redeeming THEN request[r].token ELSE Nil],
        password <- [u \in Users |-> user[u].password]

(* Whatever requests overlap, fail or are lost, a password only changes by *)
(* the redemption of a link of that user that was open when the request    *)
(* looked it up, and no closed link opens again.                           *)
ImplementsCredentials == C!Spec

-----------------------------------------------------------------------------
(* The inductive invariant: what makes the three above hold step by step.  *)

\* A request only ever holds a link of the user it works on.
HeldLinksOK ==
    \A r \in Requests : request[r].pc \in HoldingLink =>
        token[request[r].token].userId = request[r].user

LinksOK ==
    /\ \A t \in mailed : token[t].status # "unborn"
    /\ \A t \in Tokens : redeemers[t] # {} => token[t].status \in {"USED_OR_REVOKED", "deleted"}

PasswordsOK ==
    /\ \A r \in Requests : request[r].pc \in Redeeming => request[r].token \in mailed
    /\ \A r \in Requests : At(r, "login") => Answered(request[r].user)
    /\ \A u \in Users : user[u].password # Nil => redeemers[user[u].password] # {}

\* What forgotPassword is about to revoke includes all its slot issued before.
SeenOK ==
    \A r \in Requests : At(r, "forgotInsert") =>
        \A t \in ActiveResetTokens(request[r].user) : token[t].issuer = r => t \in request[r].seen

IInv ==
    /\ TypeOK
    /\ HeldLinksOK
    /\ LinksOK
    /\ PasswordsOK
    /\ PasswordsComeFromLinks
    /\ SeenOK
    /\ NewLinkSupersedesOld
    /\ GhostsOnlyWhenCut

-----------------------------------------------------------------------------
(* What the documentation says and overlapping requests break.             *)

(* "un token de activacion de un solo uso" (users.controller.ts:178): no   *)
(* link is redeemed by two requests.                                       *)
SingleUse ==
    \A t \in Tokens : \A q, r \in redeemers[t] : q = r

(* "Si el usuario ya estuvo ACTIVO, ejecuta Soft Delete"                   *)
(* (users.controller.ts:249): remove never deletes for good the row of a   *)
(* user who has activated the account, that is, has chosen a password.     *)
ActivatedUsersAreKept ==
    [][\A r \in Requests : HardDelete(r) => user[request[r].user].password = Nil]_vars

(* "Valida el token de recuperacion e inactiva los enlaces previos         *)
(* emitidos" (auth.controller.ts:92): when a recovery link is redeemed no  *)
(* other recovery link of that user stays alive.                           *)
ResetLeavesNoOtherLink ==
    [][\A r \in Requests, u \in Users :
          /\ At(r, "reset") /\ request[r].user = u
          /\ user'[u] # user[u] /\ user'[u].password = request[r].token
          => ActiveResetTokens(u)' = {}]_vars

=============================================================================
