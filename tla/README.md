# Minuta Digital: a TLA+ model of the back end

The repository is the HTTP back end of a SaaS for residential complexes: NestJS
handlers over one PostgreSQL database (Prisma), a mail server, an S3 store and a
socket.io gateway.  An organization owns residential complexes; a complex has
apartments, residents, amenities, visitors, correspondence and tickets; users
have one of five roles and act within an organization or a complex.

The program keeps almost no state of its own.  What makes it hard is that every
handler is asynchronous: it reads rows, awaits (the database, bcrypt, the mail
server), and then writes by id what it decided on those reads.  Few handlers use
a transaction, none takes a lock before it writes, and the database runs at
READ COMMITTED.  So the modules here model handlers as the sequence of their
steps, let other requests run between the steps, and ask what survives.

Line numbers below are those of the repository (`src/src/...` is its `src/`).

## Inventory

| Component | State | Operations | What makes it hard | Status |
|---|---|---|---|---|
| Accounts (`auth`, `users`, `mail`) | `users.status/password/email`, `user_tokens` | invite, activate, forgot/reset password, login, update of status, remove | links read before bcrypt and written after; compensation after a failed mail; concurrent redemptions, revocations, deletions; restarts | modelled |
| Membership (`users`, `user-hierarchy`, `organizations`, `residential-complexes`, `auth`) | role and place of users, owner and status of complexes, claims in access tokens | invite, update of a role, create/update/remove of organizations and complexes, login, switchComplex | check on a read, write by id; tokens that outlive the rows they copy; complexes that move | modelled |
| Bookings (`amenities`) | `amenity_bookings` | create, updateStatus | count and insert are two statements; any status to any status | modelled |
| Tenants (`organizations`, `residential-complexes`, `storage`, avatars of `users`) | e-mail, identification, slug, logo; `imgProfile`; S3 objects | create, update, remove, uploadLogo, avatars, upload | uniqueness of e-mails by a read only, of keys by a read and an index; the object is stored before the row refers to it | modelled |
| Residency (`apartments`, `residents`) | apartments, residents with a copied unit number | create, update, remove, assign, unassign | copies that go stale, duplicates, assignment against deactivation, updates that write back what they read | modelled |
| Front desk (`visitors`, `correspondence`, `pqrs`, `marketplace`) and `notifications` | status of rows, photos, rooms, what screens show | entry, exit, receive, deliver, open and answer a ticket, publish; connect, join, disconnect, emit | double exits and deliveries, events out of commit order, orphan photos, restarts | modelled |
| Own profile, consent | columns nobody checks | one write by id | none | not modelled |
| `roles`, permissions guard, `document-types` | read-only tables | reads | none | the guards, as guards of actions |
| `webhooks`, `main`, `config`, `prisma` wiring, DTO classes, templates | none | logging, wiring, text | none | not modelled; DTO rules are the ranges of the actions' inputs |

The components meet in two tables.  `users` is written by Accounts (status,
password) and by Membership (role, place): no handler decides about one half on
the other except by refusing a request, so each module abstracts the other as
"a request may be refused".  Accounts also takes users away, and with them what
the schema cascades to (see below).  `residential_complexes` is written by Membership and read
by everything scoped to a complex through the claims of the access token.  There
the other modules take it over: their actions carry `c`, the complex of the
token that `Membership` issued, and ask nothing else of the requester but the
role.  The descriptive columns of organizations and complexes, which Membership
abstracts, are in Tenants.  The handlers of the front desk call the storage and
the gateway, so the three are composed in one module.

No handler deletes a row but those of a user: `remove` of a PENDING one
(users.service.ts:305-308) and the compensation of `inviteUser` (:202).  The user
may be PENDING again, after a busy life, because `UpdateUserDto` lets an
administrator set that status.  The database then deletes the user's residents,
bookings, tickets and posts (`onDelete: Cascade`, schema.prisma:242, 330, 351,
373), and refuses when the user registered a visitor (`Restrict`, :268).  So
Residency, Bookings, FrontDesk and Tenants have a `RemoveUser` of their own, which
takes its time as it likes: what `remove` decides on is in Accounts.

Correctness, per component:

* **Accounts**: a password only comes from a link mailed to that user and open
  when it was looked up; a spent link stays spent for those who see it spent; a
  newer reset link revokes older ones; an invitation never leaves a row that
  blocks its e-mail and cannot be activated.
* **Membership**: rows and tokens pair a complex with an organization that owned
  it; roles are placed as `resolve` demands; nobody changes what is out of reach.
* **Bookings**: no instant of an amenity is reserved twice.
* **Front desk**: an exit and a delivery are recorded once; screens show what the
  database says, and only of their own complex; whoever watches learns of every
  arrival and exit; stored photos are not lost track of.
* **Residency**: one resident row per user and complex; who moves in, moves into
  an active apartment of the complex and gets its number; an update leaves alone
  what it was not sent.
* **Tenants**: contact e-mails tell organizations apart, and complexes; a picture
  belongs to the row that shows it, unless somebody typed its url.

`PROJECT.json` lists every hazard at the line where it bites, with the
properties that would catch it.

## Modules

| Module | Models |
|---|---|
| `Credentials` | abstract: links that are issued, open and close for good, claims on them, passwords |
| `Noticeboard` | abstract: what is committed, the announcement each commit puts in debt, who watches which complex, what they were told |
| `Accounts` | the account handlers, step by step; `C` maps it to `Credentials` |
| `Membership` | hierarchy, administrators, tokens |
| `Bookings` | reservations of amenities |
| `FrontDesk` | visitors, correspondence, tickets, posts, their photos and events, and the screens; `N` maps it to `Noticeboard` |
| `Residency` | apartments and residents |
| `Tenants` | the register of organizations and complexes, and the pictures in the bucket |
| `MCAccounts`, `MCMembership`, `MCBookings`, `MCFrontDesk`, `MCResidency`, `MCTenants` | symmetry, view and search bounds for TLC |
| `AccountsProofs`, `CredentialsProofs`, `MembershipProofs`, `BookingsProofs`, `FrontDeskProofs`, `NoticeboardProofs`, `ResidencyProofs`, `TenantsProofs` | theorems |

A module starts with the source it translates and what it abstracts.  Each has
the same shape: tables as functions from ids to rows, a `request` (one record
per slot that runs handlers: program counter and local variables), one action
per stretch of handler between two awaits that others can observe, and history
variables that only properties read.  "Mutated form" marks an operator that no
specification uses: it is what a plausible bug would make of the definition
that follows it, and the properties were checked to fail with it.

### Accounts

`user` and `token` are the two tables, `mailed` what the mail server was given,
`expired` the clock against `expires_at`, `sessions` the users for whom login
signed a token.  History: `redeemers` (which slots redeemed a link) and `cut`
(whose invitation a crash or a failed compensation cut short).

`SpentLinksStaySpent` is about every spent link, used, revoked or gone with its
user: it is never active again, and the requests that hold it are from then on
only those that already did.  That one of these may still redeem it is what
`SingleUse` shows.  `ActivatedUsersAreKept` is about `HardDelete`, the deletion of
`remove`; the compensation of `inviteUser` is documented as a deletion
(users.service.ts:128-129) and promises nothing to whoever activates meanwhile.

* `InviteUser`, `SendActivationEmail`, `SendActivationEmailFails`, `UndoInvite`:
  the transaction, the mail and the compensating delete of `inviteUser`
  (users.service.ts:131-209).  A mail error may come with or without delivery.
* `ActivateAccount`, `ResetPassword`, `Redeem`: read of the link and the user,
  then, after bcrypt, the transaction that looks at neither again
  (auth.service.ts:242-364).
* `ForgotPassword`, `RevokeResetTokens`, `InsertResetToken`,
  `SendPasswordResetEmail` (:282-333).  The `updateMany` statement picks its rows
  from what is committed when it runs, so it is a step of its own: `seen` holds
  the rows it picked, and the commit revokes those.
* `UpdateUser`/`WriteUserStatus`, `RemoveUser`/`HardDelete`/`SoftDelete`: read,
  then write by id (users.service.ts:225-320).
* `Login`/`SignAccessToken` (auth.service.ts:49-95).
* `RowIsGone`, `WriteFails`, `Restart`, `Expire`: the environment.  A failed
  statement rolls back its transaction; a restart drops every request in flight.

### Membership

`user` holds role and place (`organizationId`, `residentialComplexId`),
`organization` and `complex` the tables, `claims` the access token each client
holds, `request` its request in flight.  History: `owners` (the organizations
each complex ever had) and `raced` (rows that a write changed while another
request held a read of them).

* `CanResolve`/`Resolve` are the checks and the result of
  `UserHierarchyService.resolve`; `MayAssign` is `assertRequesterCanAssign`;
  `ScopeWhereClause` is the filter of users.service.ts:325-343.
* `update` of a user is `UpdateUser` (role absent or the same) or `UpdateRole` +
  `ResolveHierarchy`, and then `WriteUser`.
* `update` of a complex is `UpdateComplex` and `WriteComplex`; removal of
  complexes and organizations, and their creation, are one step, because what
  they check cannot be disturbed before they write.
* `switchComplex` is `SwitchComplex` (read of the user) and
  `ResolveSwitchTarget` (read of the complex, new token).
* A client keeps its token as long as it likes.  Expiry is not modelled: it only
  takes behaviours away.

### Bookings

`create` is `CreateBooking` (amenity and range), `CountOverlaps`,
`InsertBooking`; `updateStatus` is one action.  History: `saw` (what was
committed when a reservation was checked) and `reopened` (reservations made live
again).  Instants are natural numbers up to `Horizon`.  `RemoveUser` deletes any
set of reservations, as the module does not tell whose they are: `Deleted` is what
is left of an id, and what tells a reservation that was there from one that never was.

### FrontDesk

`row` holds the four tables, each row with its kind; `bucket` the objects under
the prefix of a complex; `socket` the connections with the complex of their
token and their rooms; `shown` the last status each connection was sent of each
row; `gone` the users that were deleted.  Rows carry the user who made them, and
`row` keeps what a row last held: it is in its table, it `Stands`, while its user
does.  History: `overlapped` (rows read while another request was at them),
`settledTwice` (rows whose exit or delivery was written twice), `photoOf` and
`cut`.

* The guards `MayRegisterEntry` to `MayEditPost` are those of the controllers.
  Visitors are the only routes with permissions; `RolePermissions` is what the
  seed grants (prisma/seed.ts:221-277): an ORG_ADMIN has none of them.
* `RegisterEntry` inserts; `RegisterExit`/`WriteExit` read, then write by id
  (visitors.service.ts:43-109).  `Emit` is a step of its own, because the handler
  resumes only when its statement has returned and others run until then.
* `CreateCorrespondence`/`InsertCorrespondence` and `CreateTicket`/`InsertTicket`
  upload and then insert; `MarkAsDelivered`/`WriteDelivery` and
  `UpdateTicket`/`WriteTicket` read and then write.  Only arrivals, visitors and
  changes of tickets are announced: markAsDelivered, new tickets and posts are not.
* The address of a photo (`photoUrl`, `attachmentUrl`) is computed and dropped,
  so `photoOf` is history and not a column.
* `HandleConnection`, `HandleJoinTenant`, `HandleDisconnect` are the gateway's
  (notifications.gateway.ts:44-83); a connection that fails the check is
  never in a room, so it is no step.
* `StatementFails` and `Restart` are the environment.
* `RemoveUser` is the cascade on tickets and posts.  It emits nothing, so a screen
  goes on showing a ticket that went, and `deleteFile` has no caller, so the
  attachment stays: with a failure after the upload this is the other way in which
  an object is orphaned (`OrphansAreExplained`), and never for the photo of a parcel,
  which belongs to no user.  `ScreensAreCurrent` speaks of the rows that stand.
* `Board`, `Debts`, `Tuned` map the module to `Noticeboard`: `row` without what only
  the handlers look at, what each request at its `emit` has still to say, and the
  complex in the token of each connection, whatever rooms it is in.  So "a
  connection is in the room of its complex and in no other" is not assumed there:
  it is what makes a step of the gateway a step of `Noticeboard`.

### Residency

`apartment` and `resident` are the two tables, `gone` the users that were
deleted: a resident row `Stands` while its user does.  History: `names` (the unit
numbers each apartment has had), `saw` (residents registered when each one was
checked) and `raced` (requests whose apartment changed after they read it).

* `ResolveUnitNumber` is the conversion of apartments.service.ts:211-224: a number
  is typed as a whole, or `Tagged` with its tower.
* `UpdateApartment`/`WriteApartment`: `NextColumn` fills in the columns that the
  dto does not have from the row that was read (:104-106), and the write puts
  them back.  `UniqueUnit` is the index, for which NULL towers differ.
* `CreateResident`/`LookUpApartment`/`InsertResident` and
  `AssignApartment`/`WriteAssignment` copy the unit number of an apartment read
  before.  residents.service.ts:69 says that the user must belong to the
  organization or complex; the code asks only that the user exists (:70-72), so
  the model takes any user.

### Tenants

`tenant` holds organizations and complexes alike (`key` is the identification of
the one and the slug of the other), `user` the place and picture of users and
whether there is a row, `bucket` the folder of each object.  History: `since`
(tenants written since a request began), `crossed` (pairs written by requests that
overlapped), `been` (complexes a user has belonged to) and `pasted` (rows whose
picture is what a dto brought).

* A picture is a url.  An upload writes the url of its own object; a dto brings
  any (`Brought`): that of an object in the bucket, whoever it was stored for, or
  `Typed`, which stands for the url of no such object.  Only the form is checked
  (`IsUrl`).  `CreateOrganization`, `CreateComplex`, `UpdateOrganization`,
  `UpdateComplex`, `InviteUser` and `UpdateUser` take one
  (organizations.service.ts:126, 191; residential-complexes.service.ts:172, 253;
  users.service.ts:160, 267).

* `CreateOrganization` and `CreateComplex` read for duplicates, `InsertTenant`
  inserts.  A create without identification looks for one that is NULL
  (organizations.service.ts:116), hence its guard.
* `UpdateOrganization`/`UpdateComplex` read the row; `checks` holds the duplicates
  still to look for, decided against that read; `CheckEmail` and `CheckKey` look,
  each a read of its own, in the order of each service; `WriteTenant` writes what
  the dto has.
* `EmailTaken` knows that `findFirst` may return the row itself.
* `UploadLogo`/`SaveLogo`, `UploadOwnAvatar`/`SaveImage`,
  `UploadAvatar`/`UpdateProfileImage`/`SaveImage`: an upload under a fresh key,
  then the write.  Nothing is ever removed from the bucket (`deleteFile` has no
  caller).
* `InviteUser`, `UpdateUser` and `RemoveUser` are what users does to the place and
  picture of a user.  An update leaves the complex that was read, which an update
  in between may have cleared, or clears it; no handler gives a user another one.
  The token of a deleted user still uploads (`UploadOwnAvatar`), and the write of
  the url then fails.

## Runs

| Run | Checks | Size |
|---|---|---|
| `accounts_safety` | `TypeOK`, `SpentLinksStaySpent`, `PasswordsComeFromLinks`, `NewLinkSupersedesOld`, `GhostsOnlyWhenCut`, `DeactivationsLast`, `ImplementsCredentials` | 2 users, 1 e-mail, 3 links, 2 slots; 0.34 M states |
| `accounts_liveness` | `InvitationsSettle` under `LiveSpec` | 1 user, 2 links, 2 slots; 0.6 M states |
| `membership_safety` | `TypeOK`, `PairsWereTrue`, `RolesArePlaced`, `ChangesWithinReach` | 3 users, 2 organizations, 2 complexes, 2 clients; 0.86 M states |
| `bookings_safety` | `TypeOK`, `DoubleBookingsAreExplained` | 1 amenity, 2 reservations, 2 slots, 4 instants; 1.4 M states |
| `frontdesk_safety` | `TypeOK`, `SecondExitsAreExplained`, `ScreensAreCurrent`, `TenantsAreIsolated`, `OrphansAreExplained`, `ImplementsNoticeboard`, `EventsAreDelivered` under `LiveSpec` | 2 complexes, 1 user, 2 rows, 2 slots, 1 screen, 1 object; 0.36 M states |
| `residency_safety` | `TypeOK`, `DuplicateResidentsAreExplained`, `ResidentsFollowApartments`, `AssignmentsAreCurrent`, `UnsentColumnsStay` | 2 complexes, 1 user, 2 apartments, 2 residents, 2 slots; 0.40 M states |
| `tenants_safety` | `TypeOK`, `EmailsAreExplained`, `PicturesAreOwned` | 2 organizations, 2 complexes, 1 user, 2 e-mails, 2 keys, 2 objects, 2 slots; 0.68 M states |

Five runs show a sentence of the repository that the code does not keep:

| Run | Property | The sentence |
|---|---|---|
| `accounts_single_use` | `SingleUse` | "genera un token de activación de un solo uso" (users.controller.ts:178) |
| `accounts_kept` | `ActivatedUsersAreKept` | "Si el usuario ya estuvo ACTIVO, ejecuta Soft Delete" (users.controller.ts:249) |
| `accounts_reset` | `ResetLeavesNoOtherLink` | "inactiva los enlaces previos emitidos" (auth.controller.ts:92) |
| `membership_organization` | `OrganizationFollowsComplex` | "organizationId is derived from the complex" (users.service.ts:243) |
| `bookings_overlap` | `NoDoubleBooking` | "Prevenir traslape de horarios" (amenities.service.ts:70) |

The counterexample of `accounts_kept` is the race itself: `remove` reads the user
PENDING, the user redeems the activation link, `remove` deletes the row.

The passing properties are what the code does guarantee next to these: a second
redemption needs a read made before the first; two live reset links need
overlapping requests; a double booking needs a race or a reservation made live
again; a role without its place, or a change out of reach, needs a row that
changed under an update in flight; a second exit, a second delivery or a screen
that is wrong needs two requests at one row; a duplicate resident or e-mail needs
overlapping requests; a move into an inactive apartment, and an update that
undoes another, need a change between a read and a write.  An object of the bucket
is left without its row by a failure or by the deletion of a user
(`OrphansAreExplained`), and a row shows a picture that was not stored for it only
when a dto brought the url (`PicturesAreOwned`): no overlap of uploads, changes of
place and removals does it.  Two need no exception: nothing crosses from one complex to another
(`TenantsAreIsolated`), and residents live in their complex under a name their
apartment has had (`ResidentsFollowApartments`).

### Bounds

* Two slots are two requests at once, the fewest for a race; a slot runs
  request after request, so a request can meet the effects of any history.
  Every race among the hazards is between two requests.
* Accounts: three links let one user have an activation link and two recovery
  links; two users with one e-mail are an invitation, its failure and the next
  invitation of the same address.  `LiveData` (a view) forgets
  what nothing reads any more: of a link that is no longer active its type,
  issuer and expiry, and which slots redeemed it, but for whether any did and
  those that hold it again.
* Membership: two organizations and two complexes are the least that can be
  mixed up.  `LiveData` (a view) keeps of a token's place what its role looks at,
  and whether the pair is one that was true.  `Explored` (a constraint) does not
  expand states with a deactivated organization or home complex, which only
  disable actions, or with an update that has no role, which changes nothing.
  Two of its bounds are real: the rows of the two seeded users stay as they are,
  and a second complex is created and goes no further.  The home complex moves
  between both organizations, and the invited user goes through all roles and
  places.  The theorems have none of these bounds.
* Bookings: four instants let two intervals be disjoint, touch, overlap, contain
  and equal each other; the test compares two intervals at a time.
* FrontDesk: two rows of any table are one that is raced at and one beside it, in
  the same complex or the other.  `Explored` fixes which row and which complex
  come first, which loses nothing, and has real bounds: a ticket is open or
  closed; there is at most one post; no second row is there once the user is
  deleted; the screen is connected only while there is neither a post nor a
  stored photo, which no event is about.
* Residency: two apartments are the one that changes and one to move to; two
  residents of one user are the least for a duplicate.  `Explored`: ids come in
  order, and only as many creations run as there are rows left for them, which
  loses nothing; the second apartment does not change; two updates of an
  apartment overlap only while nobody lives there; and from the first resident
  on apartments keep their tower, have a number and are not reactivated.
* Tenants: two organizations and two complexes, two e-mails and two keys, so that
  each may be the other's.  `Explored` looks at one thing at a time: organizations
  among themselves; complexes while there is one organization; logos while there
  is one tenant of each kind and nothing else is registered; a dto brings the url
  of a logo while there is one organization and at most one complex; avatars, and the
  urls a dto brings for them, once both complexes are there.  The scope of a
  requester is one complex, none or all.

The theorems have none of these bounds.

`bookings_*` do not check deadlock: a complex whose amenities are all inactive
has nothing to do.  All other runs check it.

### Fairness

`LiveSpec` asks weak fairness of `Continue(r)` for each slot: Node's event loop
resumes a handler when its await ends, and database and mail calls end, with an
answer or an error (`WriteFails`, `SendActivationEmailFails`).  Nothing is assumed
of clients, of the clock or of restarts.  `Restart` may cut an invitation short;
`InvitationsSettle` says so.  It holds because the compensation runs whenever the mail call
reports an error.

`LiveSpec` of FrontDesk asks weak fairness of `Emit(q)` alone, for the same
reason: a statement that has returned resumes its handler, and nothing that runs
between can take the emit from it but a restart, which disconnects every screen
too.  `EventsAreDelivered` says that a connection of the complex is told, or is gone.
It fails when a connection may be outside the room of its token, so it is about
the joining as well as about the fairness.  It does not notice an exit that is
committed and never put in debt, as then nothing is owed: that is for
`ImplementsNoticeboard`, where commit and debt are one step.

## Proofs

`tlapm` checks eight modules; the theorems hold for any sets of users, links,
organizations, complexes, clients, rows, files, sockets, reservations and slots.  The assumptions are
in the modules: `Nil`, `Absent` and the other special values are not values of the
sets they stand beside, the seeded rows are distinct members of theirs, ids of
different tables differ, `Horizon` is a natural number.

* **Accounts.**  `Typed`, `SpentLinks`, `PasswordsFromLinks`, `Supersession` and `Ghosts` follow from
  `IInv`.  `SpentLinks` is an action property: no step makes a link ACTIVE but the
  creation of one, and `findUsableToken` takes up only ACTIVE ones; it needs
  `HeldLinksOK` (a request holds a link of its own user).  The others are not
  inductive alone and share `LinksOK` (a redeemed link is no longer active, a mailed
  one exists): that passwords come from mailed links needs `PasswordsOK` (a request
  that redeems holds a mailed link, a login in flight is of a user who answered
  one); that an older link is superseded needs `SeenOK` (what the `updateMany`
  picked includes all the slot issued before).  One lemma per part shows that
  `Next` preserves it, by cases over the actions that can disturb it.
  `Deactivations` is an action property: `Settled` (deactivated, and no redemption
  or update under way) is left only by deletion or by the read of another update,
  because a redemption starts at a user who is PENDING or ACTIVE.
* **Credentials.**  `Implementation`: every step of Accounts is a step of
  `Credentials` under the mapping `C`, or a stutter.  Its extra invariant is that
  expired links are ones that exist.  The order of awaits, the mail and the
  failures disappear; what remains is that a password is set only through a
  claim laid while the link was open.
* **Membership.**  `Typed`, `Pairs`, `RolesPlaced` and `Reach` follow from `IInv`.  `ResolvedOK`
  carries what `resolve` and `assertRequesterCanAssign` established from the
  read to the write (the claims of a client do not change while its request runs); `UpdateOK` and `ComplexUpdateOK` say that a row that did not
  race is still as it was read; `ComplexesOK` that a complex is owned by one of
  its owners.  `Reach` is an action property: only `InsertUser` and `WriteUser`
  write users, only `WriteComplex` moves a complex, and for each the invariant
  gives the reach.
* **Bookings.**  `OverlapIsExact`: the test of amenities.service.ts:84 holds
  exactly when the two reservations share an instant, for all non-empty
  intervals.  `DoubleBookings` uses it: the later of two reservations was
  counted against the earlier if that one was committed.
* **FrontDesk.**  `SecondExits`, `Screens`, `Isolation` and `Orphans`.  The invariant
  adds `OverlapsRecorded` (two requests at one row are recorded), `RequestsAreCurrent`
  (what a request that was alone at its row read, or wrote, is still there),
  `RoomsOK` (a connection is in the room of its complex and in no other) and
  `FilesOK`.  `Screens` is the one that needs all of them: when a request emits,
  `RequestsAreCurrent` says that the status it tells is the committed one, and when
  a row is written, the writer has an event still to come, so that `Announced` is
  false until it is out.
* **Noticeboard.**  `Noticed`: every step of FrontDesk is a step of `Noticeboard`
  under the mapping `N`, or a stutter.  It rests on the invariant of FrontDesk:
  `RoomsOK` turns "who is in the room" into "who watches the complex", and a
  request that is not at its `emit` owes nothing, so that a commit finds its
  slot free.  `WritesOK` adds that a write in flight sets a status the row's kind may
  come to.  Reads, photos, failing statements and the guards disappear; that
  no commit goes unannounced, none is announced twice, and none to another
  complex, remains.
* **Residency.**  `Duplicates` needs `SeenOK` (what a creation saw was there and was
  no row of this user), so of two duplicates neither saw the other.  `Followed`
  needs `HeldOK` (the apartment and the number a request is about to write are of
  the complex, and one of its names).  `Assignments` and `UnsentColumns` are
  action properties: `ReadsOK` says that what a request read is still so unless it
  was raced, and only four actions commit.
* **Tenants.**  `Addresses` needs `ChecksHold`: an e-mail that a request no longer
  looks for is that of no other row, unless that row was written under the request
  or crossed with this one before.  `Pictures` needs `UploadsAreOwned` (what an
  upload is about to write was stored for its row), `UrlsAreBrought` (the url a
  request brings is that of an object that is there, or of none) and `UsersHaveBeen`.

### What the races account for

Most safety properties excuse a race: "unless the row changed under the
request", "only of overlapping requests".  An excuse could hide an error of the
checks themselves, so for each there is a theorem about the behaviours in which
that race does not happen.  Its hypothesis, `[]...Locked`, is an exclusion that
*the code does not have* (no handler locks a row before it writes); it is a
statement about program counters and local variables alone, every behaviour
that runs one request at a time satisfies it, and so do many that do not.  What
follows from it is the property without the excuse:

| Theorem | If these excluded each other | then |
|---|---|---|
| `LockedLinks` | redemptions of one link, from lookup to commit | `SingleUse` |
| `LockedRecovery` | revocation and redemption of the recovery links of one user | never two live ones (`OneRecoveryLink`), and `ResetLeavesNoOtherLink` |
| `LockedRemovals` | requests that write one user | an activated user is deleted only while PENDING |
| `LockedRows` | updates of one user, or of one complex | every role is placed, every change within reach |
| `LockedBookings` | creations for one amenity, from count to insert | only a reservation made live again is double |
| `LockedFrontDesk` | requests at one row, until they have emitted | nothing is settled twice, no screen stays behind |
| `LockedResidents` | creations for one user in one complex | nobody is registered twice |
| `LockedMoves`, `LockedUpdates` | an update of an apartment and whoever read it | the current number is copied; unsent columns stay |
| `LockedAddresses` | creations and updates of one table, from the first read | e-mails are unique |

Read the other way, they say how much of a lock would be enough, and two say
that a lock would not: `LockedBookings` leaves `updateStatus`, which looks for no
overlap (amenities.service.ts:122), and `LockedRemovals` the user whom an
administrator makes PENDING again, as `remove` looks at the status alone
(users.service.ts:303).  `LockedLinks`, `LockedRecovery` and `LockedBookings` are
the counterpart of three of the violations: the counterexamples need the race
and nothing more.

The invariants behind them say that what a request read is still so when it
writes: `FreshLinks`, `SeesAll` and `HoldsLive`, `DeletesOK`, `CountsAreFresh`,
`NothingOverlapped`, `StillNoResident`, `NamesRead`, `NothingWasWritten`.

### What is left to TLC

Only model-checked: `InvitationsSettle` and `EventsAreDelivered` (liveness is
outside the prover).  The violations are counterexamples of TLC.

## Plan

Done: every component with state that its handlers decide on, each with the
theorems above.  What could still be added:

1. An abstract specification of who may act where that `Membership` implements.
2. The composition of `Membership` with `FrontDesk`, so that the complex of a token
   and of a socket is that of a row that has since changed.  Today the one module
   lets tokens go stale and the other takes any complex a token may name, which
   includes all those behaviours.

## Not modelled

`updateOwnProfile` and `recordDataTreatmentConsent` write, by id and without a
read, columns of one's own row that no check reads; webhooks are logged;
document types and roles are only read.  Membership leaves out the removal of
users, which takes a row away or makes it INACTIVE and touches no role and no
place; that `remove`, too, checks the scope on a read and then writes by id is the
same hazard as in `update`, which is modelled.  Listings hide the tickets of others from
a resident and only read, too.  An upload is stored or reported as failed; one
that S3 stores and reports as failed would be one more orphan.

The content of mails, names, phones and documents; bcrypt and the randomness of
links (a link is a value that is never generated twice); the signature of access
tokens (a client holds only tokens that were signed for it); rate limits, CORS and
validation messages; pagination and listings, which only read.
