# AuthHub in TLA+

AuthHub is an identity provider: an Express/TypeScript backend over PostgreSQL
(through Prisma) and Redis, and a React single-page application. This directory
holds TLA+ models of its stateful logic, TLC configurations that check them on
small instances, and TLAPS proofs of what holds for every instance.

Everything runs from this directory:

    tlc -workers 2 -config Sessions_concurrent.cfg MCSessions
    tlapm SessionsProofs.tla

`PROJECT.json` lists the runs, ties every definition to the lines it models,
names for every property a mutant of the code that breaks it, and lists the
hazards the properties are aimed at.

## The system

The backend is one Node process. A handler runs without interruption between
two `await`s and interleaves with the other handlers at each of them, so the
unit of atomicity is one database or Redis call together with the code up to
the next one. All state that outlives a request is in PostgreSQL or Redis; a
restart of the process loses the handlers in flight and nothing else. Below,
paths are relative to `src/backend/src/` unless they start with `frontend/`.

| Component | State | Operations | What is hard | What makes it correct |
|---|---|---|---|---|
| Session table (`modules/auth/controller.ts`, `modules/oauth/controller.ts`, `modules/auth/profile.ts`) | `sessions` rows with a hash of the refresh token, `users.password_hash` | sign-in, refresh (hub and OAuth grant), logout, revoke, delete one/others, reset and change of password, deletion of the account | refresh against refresh, against logout, against a password change; restarts between two calls; expiry between check and use | one live session per sign-in; revoked is over; password changes end older sessions |
| API client (`frontend/frontend/src/lib/api.ts`, `contexts/AuthContext.tsx`) | access token in localStorage, refresh cookie, signed-in user | request, 401 interceptor with one refresh, start-up with two parallel requests, logout | two requests that get 401 at once share one single-use cookie | a valid session is not signed out by its own requests |
| Authorization codes and consent (`modules/oauth/controller.ts`) | `hub:auth_code:*` in Redis, `user_consents` rows | authorize, consent, code exchange | get and delete of the code are two calls; consent read after write | a code is exchanged once, by its client, for what was consented |
| One-time artifacts (reset and e-mail tokens in `modules/auth/controller.ts`, challenges in `modules/passkey/controller.ts`) | Redis keys with a lifetime | issue, use | use is get, effect, delete, and each can fail | used once |
| Account lockout (`middlewares/rateLimiter.ts` 124-179) | `hub:brute:*`, `hub:lock:*` in Redis | check, record failure, reset | counter and expiry are set by separate calls; concurrent failures | tries before a lock are bounded; counters and locks end |
| Login and risk engine (`modules/auth/controller.ts` 82-295, `core/riskEngine.ts`) | sessions as the baseline of known devices | ordered checks, step-up with an MFA token, a JWT of five minutes that nothing stores | the baseline is the session table, which revocation empties; sessions and methods change between the checks; the MFA token can be used again and passes `authenticate` | a session is granted for what the account and the device call for |
| MFA (`modules/mfa/controller.ts`) | `mfa_methods` rows | enrol, verify, challenge | enrol and verify interleave | an enabled secret is one the user has shown a code of; TOTP stays on |
| Passkeys (`modules/passkey/controller.ts`) | `passkeys` rows with a counter, challenges | register, authenticate | counter is read, compared and written | counter never decreases |
| Profile cache (`hub:user:*:profile`) | Redis copy of a user row | fill by login and me, deletion by updateProfile, verifyEmail, resetPassword, unlinkProvider and logout | fill after invalidation; writers that do not invalidate | the cache catches up with the row |
| Maintenance (`middlewares/maintenance.ts`, `modules/admin/controller.ts` 364-390) | cached settings | read-through by every request, update | fill after invalidation | the switch takes effect |
| Registration and social linking (`modules/auth/social.ts`, `unlinkProvider`) | users, `auth_providers` | register, callback, link, unlink | check-then-insert, check-then-delete | an account keeps a way to sign in |
| OAuth clients and tenants (`modules/developer/controller.ts`, `modules/tenant/controller.ts`) | clients, tenants | create, update, rotate secret, delete | read-modify-write updates | secret and kind of a client agree |
| Administration (`modules/admin/controller.ts`) | roles, tenants, root keys, settings | CRUD, impersonation | several calls without a transaction | accounts go with their sessions |
| Billing (`modules/billing/`) | entitlements | checkout, Stripe events | | unreachable: `index.ts` 15 and 95 are commented out |
| Webhooks (`services/webhook.service.ts`, `modules/webhooks/controller.ts`) | endpoints, delivery log | create, delete, dispatch, deliver | parallel deliveries, refused writes, endpoints deleted meanwhile | a delivery that ended has its row in the log |
| Pages with tables (`frontend/frontend/src/pages/`) | rows on display | load, search, create, delete | answers out of order, stale closures, kept copies | a page at rest shows what the server would answer |
| OIDC discovery, observability, start-up, scripts | none of their own | | | reads and wiring |

Interactions: every sign-in path (login, MFA challenge, passkey, social
callbacks, code exchange) ends in `session.create`; refresh reads what they
wrote; password reset, password change, family revocation and account deletion
delete it. Login goes through lockout, password, risk engine and MFA in this
order. The client's interceptor calls refresh when any request gets a 401.
`register` and `login` await the delivery of their webhooks before they answer,
and write the audit log without awaiting it.

## Plan

The order in which the modules were written, the core first:

1. `Sessions`, its contract `SessionContract` and its proofs.
2. `ApiClient`: interceptor and start-up over the rotation of a session.
3. `AuthCode`: consent, authorize and exchange.
4. `Lockout`: the failure counter and the lock.
5. `Account`: the user row with its links, TOTP and mail tokens, the cached
   profile and the page that shows it.
6. `SignIn`: the ways to sign in, with risk engine, challenge and passkey.
7. `Directory`, `Maintenance`, `Webhooks`, `Listing`: clients and tenants, the
   maintenance switch, webhook delivery, the pages with tables. `MCHub` checks
   them and `Account` in one run.

Modules meet where a variable of one stands for another module: `EndSession` and
`OpenSession` of `SignIn` for `Sessions`, `EnableTotp` of `SignIn` for
`Account`, `Authorize` of `SignIn` for `AuthCode`, `LoginAuthenticate` and
`LoginResume` of `Sessions` for `SignIn` and `AuthCode`, `Start`,
`Incr` and `ClearFailures` of `Lockout` for the beginning of `login`. The
rotation inside `ApiClient` is that of `Sessions`.

Every invariant, action property and refinement that a run checks is also a
theorem. What stays with TLC is liveness (see the table near the end).

## Sessions

`Sessions.tla` models every handler that reads or writes the session table.

| Model | Code |
|---|---|
| `users`, `pw` | rows of `users`; a version number for `password_hash`, 0 for NULL |
| `row`, `live` | every session ever created, and the ids still in the table |
| `lapsed` | sessions past `expiresAt` |
| `tokens`, `Presented` | refresh tokens clients hold; with them the access tokens, which the same key signs |
| `req` | per in-flight handler, what it read and which call comes next |
| `overtaken`, `revoked`, `purged`, `spared`, and `parent`, `root`, `asOf`, `stray` of a row | history for the properties; no guard reads it |

A request slot goes through phases, one action per phase. For example `POST
/auth/refresh` is `RefreshPresent` (signature and expiry of the JWT),
`RefreshMatch` / `RefreshMismatch` / `RefreshRejected` (the session row as
`findUnique` returns it and the checks on it), `RefreshCheckUser` (the user
row) and `RefreshRotate` (the transaction that creates the successor and
deletes the old row). The OAuth refresh grant shares the first two phases, then skips the
user row and drops one session where the hub wipes the family. Neither looks at
the `type` of the token, so both take access tokens (`Presented`) as well as the
refresh tokens of a session ("grant") and those that `completeProfile` mints
("profile"); `revokeToken` does look and takes refresh tokens only. Handlers with
one call that matters (logout, revoke, delete) are one action; a logout whose
token names no session deletes all of the user's (`LogoutAll`).

What a sign-in checks is the subject of `SignIn` and `AuthCode`. What matters here is
that it reads the account in one call and creates the session in a later one
(`LoginCreateSession`). For a sign-in of one request both belong to one handler
(`LoginAuthenticate`). A login with MFA and an authorization are two requests: the
first leaves the client an MFA token or a code, the second opens the session
without a look at the password (`LoginResume`). Resets, changes and restarts may
come between the two.

Whoever calls a handler behind `authenticate` is one of `Callers`: an account with
the sid of its access token, or without one (`NoSid`), as the bearer of an MFA or
ID token. Left out are callers whose sid is not a UUID (`completeProfile` without a
session, and the impersonation tokens of `admin/controller.ts:169`): for them the
`deleteMany` of `updatePassword` throws after the update, which leaves what a
restart between the two leaves.

*Stray sessions.* A rotation that has read its session and commits after
another handler deleted or replaced that session still creates its successor: the
code's `deleteMany` accepts that the row is gone. The same holds for a sign-in
whose password was changed after it was compared, in the same request or in an
earlier one. The model marks such rows
`stray`. The invariants below say what holds for all other sessions; the section
on the documents below says what they promise for all of them.

### Runs

| Run | Instance | Shows |
|---|---|---|
| `Sessions_concurrent` | 1 account, 2 handlers, 3 sessions, 2 password versions, restarts | one main-line session per sign-in; revocation is final, purges complete and deleted accounts without sessions, strays aside; what reaches the replay branches is no token that was ever used up |
| `Sessions_sequential` | 2 accounts, 1 handler at a time, 3 sessions, 1 expiry, restarts | the table refines `SessionContract`; an expired session is not renewed; a step deletes sessions of its own account only |
| `Sessions_liveness` | 2 handlers, 2 sessions, fair | sessions older than the password in force end |
| `Sessions_replay` | | counterexample to a documented promise, see below |

*Bounds.* Two handlers are enough for every race of a read with one later
write; each handler makes at most two writes, so a third handler adds only
repetitions. Three session ids allow a sign-in, its rotation and a fork or a
second sign-in. `MaxPw = 1` is one reset or change on top of the password there
was; two that overlap are left to the proofs, which have no such bound. Restarts
need none: they lose the handlers and nothing that counts. The
instances stop when ids run out, hence `CHECK_DEADLOCK FALSE`. What the two runs
show on different instances is proved below for all of them.

*Refinement.* `SessionContract` has open grants, ids drawn and closed sign-ins;
a grant is opened, handed on to one successor, or closed for good. The mapping
(`Contract` in `Sessions`) is read off the table and not off the history: the
open grants are the live rows, and a sign-in is closed when it has rows but no
live one. A session that expires stays open, it is still in the table.

*Fairness.* `WF_vars(Continue(r))`: Node runs the continuation of an `await`
that resolves, and the model assumes every one resolves: the database answers. Arrivals, expiry and
restarts are not fair. The liveness run has no restart, because a restart
between the password update and the purge leaves the old sessions for good:
nothing repeats the purge.

### Where the documents promise more

`src/docs/security/refresh-token-replay.md:8` says that presenting a used refresh
token revokes the user's sessions. Rotation deletes the row that token names, so
the handler answers "Session revoked" before it gets to the comparison of
hashes, and revokes nothing (`Sessions_replay`). `ReplayBranchSeesNoReplay`
says what does get there and is taken for a replay: tokens whose hash was never
stored, those of `completeProfile` and access tokens, of a session that is in use;
never a token that a rotation has used up.

Other promises are broken by two handlers, and the invariants of the concurrent run
say what is left of them, by way of the stray sessions. They do not tell when a
stray comes about, so they are no check of the double refresh itself:

- "refresh tokens are single-use" (`auth_refresh.md:44`): two refreshes that both
  read the row both get a successor.
- "all sessions are deleted after a successful reset"
  (`auth/reset-password.md:51`): a sign-in already past the password survives. This
  does not even take two requests at a time: login, reset, and then the challenge
  with the MFA token of the login.
- The current password a change has to present may have been replaced between
  comparison and update.

### Proofs

`SessionsProofs.tla` holds for any sets of accounts, requests and ids and any
bounds, assuming only that the bounds are natural numbers. The inductive
invariant comes in layers, each proved with the ones before it:

1. *Shape*: types; a row's hash is its own grant token; tokens name created
   sessions of their account; the ids drawn by requests in flight are fresh and
   distinct. `TypeCorrect` follows, and with `StepMovesOne` also
   `ReplaysMissTheBranch`.
2. *Lineage*: a main-line session is its sign-in's only one, its sign-in is not
   revoked, and every rotation in flight that is not overtaken holds a live
   main-line session. Without the last part a rotation could commit on anything.
   Gives `OneSession`, `RevocationIsFinal`, `ExpiryHolds`.
3. *Passwords*: purges are never ahead of the password, main-line sessions
   older than the purge are spared, and sign-ins in flight with an older
   password are overtaken. Gives `PurgeIsComplete`; `AccountsOwnSessions`
   follows from the foreign key.

`AccountsIsolated` needs no layer of its own. `SubjectOf` says for which account a
phase of a handler acts, `DeletesOwn` that it deletes sessions of that one only;
`RevocationsOwn` says the same of the handlers of one step, whose account is that of
the token (`Logout`, `RevokeToken`) or of the caller (`LogoutAll`,
`DeleteSession`, `RevokeOtherSessions`). For `RevokeToken`, which deletes by sid alone,
it rests on *Shape*: a token names a session of its account.

`TableImplementsContract` carries the hypothesis `OneAtATime`: there are no two
request slots. Two handlers break the contract (the stray sessions above); the
hypothesis leaves expiry, restarts in the middle of a handler and any number of
handlers one after the other. On top of the layers the proof rests on
*Sequential*: a rotation in flight holds a live session, and a sign-in has one live
session, stray or not. The initial table maps to the initial contract, and each
step to `Open` (a sign-in), `HandOn` (a rotation), `Close` (whatever deletes) or a
stutter. That a handed-on grant is still open is where *Sequential* is needed.

Only model-checked: liveness.

## ApiClient

`ApiClient.tla` is the browser's side: `fetchClient` in
`frontend/frontend/src/lib/api.ts` and the sign-in state of `AuthContext.tsx`.
All calls of a page share a cookie jar (`cookie`) and an access token in
localStorage (`stored`). A call is `asking`; on a 401 it is `refreshing` with
the cookie of that moment (`Intercept`), the server reads the session
(`RefreshRead`) and rotates it (`RefreshRotate`), the browser takes the new
cookie from the headers (`RefreshHeaders`) and the interceptor stores the new
access token and sends the request again (`Retry`). `refreshProfile` sends two
calls at once and is rejected by the first that is. `profile` holds the calls
it waits for. The server is the rotation of `Sessions` without its other
handlers; `Revoked` stands for them. The catch of the interceptor also gets the
failure of the request it sent again, so `RetryRefused` and `Fault` sign out;
that a user is signed out because the request sent again failed is modelled, and no
property forbids it.

| Run | Instance | Shows |
|---|---|---|
| `ApiClient` | 2 calls, 3 sessions, 1 lost reply or server error, fair | however refreshes overlap, the cookie left is not a used-up token; a logout that comes last leaves nothing behind; every call settles and the loading screen ends |
| `ApiClient_double_refresh` | 2 calls, no lost reply | two calls in flight together refresh with one cookie, the second is refused, and the user is signed out although the session is alive |

Two calls are the most that `refreshProfile` starts, three sessions are one per
rotation and the first; `Room` lets a call begin only when every call in flight
can still draw an id, so that none hangs for want of one. Fairness is weak
fairness of `Proceed(c)`: servers answer and promises are run; users, expiry of
tokens, revocation and faults are not fair. The properties about the cookie are
stated for executions without a lost reply (`faults = 0`): the reply of a
rotation that is lost takes the session with it. An access token is not allowed to
expire between a rotation and the request sent again, it lives 15 minutes.

`ApiClientProofs.tla` proves the three invariants of the run for any number of
calls, sessions and faults:

- `CookieIsNotSpent` (*SpentInv*): the successor a rotation drew is known to its
  refresh only until the headers arrive, so no other call can have used it up;
  and the cookie is live or was ended by a logout, unless a rotated successor is
  on its way to replace it.
- `LogoutLeavesNothing` (*OutInv*): after such a logout cookie, access token and
  user are gone, and every call since then asks or refreshes without a cookie,
  so none can bring a session back.

The second proof failed at first, on a case two calls cannot show: a logout that
starts when an earlier one has cleared the cookie, while a refresh is still in
flight. It sends no cookie, so `logout` of the server clears none
(`modules/auth/controller.ts`), and what the refresh sets meanwhile stays.
`LogoutClearsBrowser` therefore speaks of logouts that sent a cookie and that no
other call outlasts (`Outlasts`). A refresh that is answered after the logout can
leave a cookie behind, and neither the property nor the theorem says otherwise.

## AuthCode

`AuthCode.tla` follows an authorization from the page to the session.
`OpenPage`, `ConsentSkipped`, `ConsentRequired`, `Deny` and `Allow` are
`pages/Authorize.tsx` with `checkConsent`; `PushScopes`, `ReadConsent`,
`WriteUnique` and `IssueCode` the four calls of `authorize`; `FetchCode`,
`SpendCode` and `CreateSession` the three of the code grant of `token`.
`consent` keeps the array as it is, with how often it holds each scope.

| Run | Instance | Shows |
|---|---|---|
| `AuthCode` | 2 pages, 2 clients, 2 scopes, 1 code, 2 token requests at once, 1 restart | consent arrays end without duplicates; consent is not forgotten; a session has no scope its user did not allow its client or its client may not have; a second session of a code comes only from requests that held it together |
| `AuthCode_shared` | 1 page, 2 token requests | counterexample: one code, two sessions |

Two of the properties are stated with the exception the code makes:

- `ConsentRemembered` excepts scopes pushed between the read and the write of
  another page's clean-up. They are overwritten, and the user is asked again.
- `CodesAreOneTime` says that a code with a session is gone from Redis, and that a
  second session of it takes two requests that both read it before either deleted
  it (`shared`): `del` does not tell the second that it came too late. The
  documents promise single use without exception (`oauth_token.md:73`), and
  `AuthCode_shared` shows the two sessions.

Two pages interleave every read with one other write; one code is enough, codes
share no state. A restart leaves duplicates in the array, hence `crashes = 0` in
`ConsentTidy`. A request without scopes is left out: its consent row is empty
and nothing depends on it. Also left out are redirect URI, state, PKCE
and client secrets, whose failure only ends a request, and the nonce: the
page does not post it, so no ID token has one, although `oauth_authorize.md:55`
lists it among what a code is bound to. Codes live for 60 seconds, where a
comment and `oauth.md:48` say ten minutes; the model does not depend on it.

`AuthCodeProofs.tla` proves the four properties for any users, clients, scopes,
pages and restarts, each by an invariant of its own over a common *Shape*
(types without the bound on restarts):

- `SessionsCarryConsent`: whatever carries scopes on the way to a session, the
  consent array, a page's clean-up, a code, a token request, carries approved
  ones only; approval is never withdrawn.
- `ConsentStaysTidy`: an array has duplicates only between a page's push and its
  clean-up, and what a clean-up is about to write has none.
- `ConsentIsRemembered`: a clean-up about to be written keeps every scope that
  is settled, and those of every page not exposed to it.

- `CodesWorkOnce`, for any number of token requests at once. *OneTimeInv*: what Redis
  or a request holds was drawn; a request past its `del` holds a code that is not
  in Redis (`Deleted`); two requests that hold one code share it (`HeldShared`), and
  so does a request that holds a code with a session (`UsedShared`): it read the
  code before the other deleted it.

## Lockout

`Lockout.tla` is `BruteForceService` as `login` calls it, for one address: one
action per Redis command (`Start` is `getLockout`; `Incr`, `Expire` and `Lock`
are `recordFailure`; `ClearFailures` and `Unlock` are `reset`). `failTtl` and
`lockTtl` count down with `Tick`; `NoTtl` is a key that does not expire.

The run has 2 overlapping attempts, one restart, the thresholds of the code (5
and 10) and ticks of 5 minutes, so that the locks are 3 and 12 ticks. All
constraints on time in the code are of the kind "at t + ttl", for which integral
times are enough. `MaxFailures = 13` is above anything reached but by a counter
that never expires. It shows

- `TriesBounded`: without time passing or the right password given, at most 4
  failures and the attempts that had already passed `getLockout` are compared
  before the lock is there. A restart can lose the locks about to be set.
- `CounterExpires`: a counter without lifetime is about to get one. Only a
  restart between `incr` and `expire` leaves one for good.
- `HardLockNeedsOverlap`: made one at a time, attempts never reach the hard
  threshold: five failures, and then one after each soft lock, make eight when
  the counter expires after an hour. The hour-long lock is for overlapping
  attempts, or for a counter a restart left behind.
- `LockEnds`: whoever keeps trying does not prolong a lock. The only fairness is
  that time passes.

A straggler's `setex` can shorten an hour's lock to 15 minutes or lock an
address just after its owner signed in; nothing in the code orders the two and
no document says they are ordered, so no property does.

`LockoutProofs.tla` proves `TypeOK` and the three invariants for any finite set
of attempts and any thresholds, lifetimes and restarts that satisfy
`LockoutAssumption` and `SoftLocksOutlastCounter`. The invariant behind `TriesBounded`: wrong passwords
compared are at most the failures counted; while there is no lock, they are
fewer than the soft threshold, the attempts about to lock and those lost in
restarts together; and once there is one, only attempts still comparing can add
to them.

`HardLockIsForOverlap` turns the arithmetic of the code into an assumption, the
only place that needs it: `SoftLocksOutlastCounter` says that as many soft locks as
there are failures between the thresholds last as long as the counter
(5 x 15 minutes against 60). *PacedInv* then says of attempts made one at a time that
nobody is in flight while there is a lock, and that the counter has aged by a
whole soft lock per failure since the soft threshold and by what has passed
of the current one (`AgedWell`); it expires before there are enough to reach the
hard one. `LockEnds` needs fairness and stays with TLC.

## Account

`Account.tla` is one user row with everything that hangs on it: links to social
accounts, TOTP rows, the tokens sent by e-mail, the profile cached in Redis for
`GET /auth/me`, and the profile the pages show.

| Model | Code |
|---|---|
| `user`, `methods` | the row (its name as a version), `auth_providers`, `mfa_methods` |
| `cache` | `hub:user:<id>:profile`; "partial" is what `login` stores, in which `me` misses `passwordHash` |
| `mail` | `hub:email_verify:*` and `hub:pwd_reset:*` |
| `screen` | the user of `AuthContext` |
| `req` | what each handler has read and which call comes next |
| `silent`, `excused`, `proved`, `overtaken`, `strayed`, `drawn`, `used` | history |

Each writer of the row is an action, then, if it deletes the cached profile, the
request is in phase "announce" until `DropCached`. `UpdateProfile`,
`UnlinkProvider`, the use of a mail token and `db/make-admin.ts` announce;
`updatePassword`, `completeProfile`, `verifyTotp`, the social callbacks and
`db/elevate-admin.ts` (which clears a key that `me` does not use,
`elevate-admin.ts:28`) do not. `MeReads` and `MeFills` are the two halves of
`me`, between which a writer may come. A social callback is three calls:
`SocialSignIn` finds what the row lacks, `SocialUpdate` writes it even if it has
been set since, and `UpsertLink` adds the link, unless it belongs to another
account, where it stays. `Fails` is a call to the database or to Redis that
rejects in any phase and ends the handler: what it was still to delete stays.

- `CachedProfileFollows`: the cached profile differs from the row only in fields
  that a writer which announces nothing wrote since, that a failure or a restart kept a
  writer from announcing, that are about to be announced, or that had changed
  while `me` held its read. Overtaken fills are one of these exceptions: the
  property says that there are no others.
- `MailTokensOnce`: a mail token has its effect once, unless two requests held it
  at once, or a failure or a restart came between the effect and the deletion. When
  the `deleteMany` or the `del` of `resetPassword` rejects, the token works again.
- `SignInKept`: `unlinkProvider` leaves a way to sign in unless two unlinks
  overlapped, each having counted on the other's link.
- `EnabledSecretProved`, `TotpStaysOn`: an enabled secret is one the user has
  shown a code of, and TOTP is not turned off, but by an enrolment and a
  confirmation that overlap.

`AccountProofs.tla` proves all five, and the types (*TypeInv*, with the bounds on
calls and restarts), for any handlers, providers, tokens, TOTP rows, calls and
restarts. The inductive invariants:

- *KeptInv*: an unlink in flight that was not overtaken leaves a password or
  another link. Only an unlink takes a way to sign in away, and it overtakes the
  others.
- *TotpInv*: an enrolment that was not overtaken holds a row that is off, a
  confirmation one whose secret was proved.
- *FollowInv*: `CachedProfileFollows` is inductive once phases are typed, since
  every field a step writes is owed after it, silently or by an announcement;
  a step that empties the cache takes an announcement back, and a failure or a
  restart turns it into a silent one.
- *OnceInv*: a token that is not excused has at most one holder, is without
  effect until that holder writes the row, and has a holder about to delete it
  when its effect is done and it is still in Redis. A holder that fails or is lost
  there is the excuse.

## SignIn

`SignIn.tla` is one account and the attempts to sign in to it: password with
`calculateRisk`, block and step-up; the social callbacks; passkeys with their
challenge and counter; the TOTP challenge; and what the web application makes of
the answer. Sessions are kept as the devices they were opened from, because the
risk engine takes them for the baseline. `OpenSession` is the `session.create` of
each of the five handlers that have one: `login`, the social callbacks,
`challengeTotp`, the passkey and the token endpoint. `overtaken` marks an attempt
whose read of sessions, methods or counter is no longer true.

An MFA token is a JWT of five minutes that nothing stores. While it is valid
(`Pending`, ended by `MfaTokenExpires`) it can be used any number of times: for
`ChallengeTotp`, and, since `authenticate` looks at signature and `sub` only, for
everything that asks for a bearer: `Authorize` and then the token endpoint open a
session with it, `EnableTotp` sets up a second factor and `RegisterPasskey` a passkey
(`Bearer`). So `SessionsAreEarned` is no promise about the account: it says what
`login` gives on the password alone and the social callback on the social account
alone.

| Run | Instance | Shows |
|---|---|---|
| `signin` | 2 attempts, one from the pages and one from an API client, 3 devices, 3 starts or uses of an MFA token, a window of 2 sessions | `login` and the social callback give a session where account and device call for no more; the passkey counter does not fall; every attempt ends |
| `signin_web` | the same | counterexample: the pages do not present a challenge |

Three devices (at home, the same abroad, another one abroad) give every score
the engine gives to a device it can locate; a window of 2 is one session that counts and one that
drops out when a third comes. Two attempts race every read with a write. Fairness is
`WF_vars(Step(a))`, the event loop resumes handlers, and
`SF_vars(MfaTokenExpires(a))`, the lifetime of an MFA token ends: strong, because a
use in flight only puts it off. That a user types a code or signs is not fair, so
`AttemptsSettle` does not depend on it. The stored counter may fall in a write that
was overtaken; `CounterNeverFalls` is about the others.

`signin_web` finds that `Login.tsx` looks for `mfaRequired`, which the handler
does not send, and shows the form again, where
`docs/tutorials/mfa-challenge.md` asks for a challenge screen. The challenge
page would not work either: it posts `mfaToken` and reads `accessToken` where
the handler has `mfa_token` and `access_token`. No page signs in with a passkey.

`SignInProofs.tla` proves `TypeOK`, `SessionsAreEarned` and `CounterNeverFalls`
for any attempts, devices, window and bounds that satisfy `SignInAssumption`.
`TypeOK` includes that the counter of the row never passes the authenticator's.
*EarnedInv* says of an attempt not
overtaken that the score it holds is the score now, that what it was granted it
is granted now, and that the counter it is about to store is beyond the stored
one. The uses of an MFA token keep it (`TokenEarned`): they are granted as "totp" or
"code", of which the property says nothing. `AttemptsSettle` needs fairness and stays
with TLC.

## Directory, Maintenance, Webhooks, Listing

`Directory.tla` holds tenants, OAuth clients and root API keys, with the
handlers of the developer portal, the console and the branding page. Data are
versions: the number of the handler that wrote them. `FieldsKept`: an update
writes no field its caller did not send, unless another update came between its
read and its write. `ToldSecretWorks`: the secret shown last is the one in force,
unless two rotations of the client overlapped.

`Maintenance.tla` is the setting, its copy in Redis, the checks of the requests
and the changes of administrators, with the failures that let a request pass.
`MaintenanceTakesEffect`: a request that starts after a change was answered is
treated by the new setting, unless a check that read the old one stored it
afterwards. The exemption of administrators
never applies, because the check is mounted before `authenticate`
(`index.ts:134-137`).

`Webhooks.tla` is endpoints, dispatch, delivery and log, with the calls to the
database that fail: the read of the endpoints (`FindFails`: nothing is delivered or
logged, and the handler answers) and the writes of rows (`Refused`).
`DeliveriesLogged`: when the handler that waits for the dispatch has answered, each
endpoint it found, and that is still there, has one row for it. One that has none is
still being delivered to, and the wait ended early because a row was refused twice. A
row says "status" if and only if the endpoint answered and the database took the row
at once; a row refused once is written again as an error. `req.user.tenantId` is never
set, so all endpoints are global, and an event with a tenant finds none.

`Listing.tla` is the nine pages with a table. They share one shape and differ in
a record of choices (how a created or deleted row gets into or out of the view,
whether the search goes to the server, whether answers are limited). A call is
answered at one moment and shown at another; it may fail before the server acted on
it or after, when only the reply is lost (`CallFails`). A page can be left and
entered again with calls in flight (`Reopen`): their changes go on, but their answers
find no page (`away`). The Dashboard reads from `sessionsResource` (`kept`), which
outlives the page and a sign-out (`SwitchAccount`), and which loads fill as well as
the view (`Fills`).

`ViewIsAnswer`: a page at rest shows what the server would answer, unless a call
failed or its reply was lost, others changed the table, an answer that was old by
then arrived, the kept rows are of another account, or the page was left with a
change in flight. The exceptions are the
hazards, and the property says that there are no others: no page cancels or orders its
loads; `Applications.tsx:66` appends to the
rows the handler closed over; the Dashboard keeps its first answer across
mounts and accounts; the sessions page knows the current session by the id it had when
the application was opened, and a rotation gives it another.

### The run of the hub

`MCHub` extends `Account`, instantiates these four and checks all five in one
run. They share no state, so a
behaviour of one is a stutter of the others: a behaviour of the run chooses a
focus and takes the steps of that component only. The states are the sum of the
components' states (721,794) instead of their product, and each component has
all the behaviours it has alone. A component out of focus rests in an initial
state.

| Component | Instance | Why that is enough |
|---|---|---|
| `Account` | 2 handlers, 2 providers, 2 tokens, 2 TOTP rows, 3 calls, 1 restart | every exception takes two overlapping handlers and a call that set the stage |
| `Directory` | 2 handlers, 3 in all | one creates a client, two race on it |
| `Maintenance` | 2 checks, 3 in all, 2 changes | a stale fill takes one check before and one after a change |
| `Webhooks` | 2 dispatches, 2 events, 2 endpoints, 1 refused write | one delivery fails while another is waited for |
| `Listing` | 2 calls at once, 3 in all, 3 rows, answers of 1 row | two answers out of order, or a change and a load across a leave, and a third load to mend it |

All instances stop when their bounds are used up, hence `CHECK_DEADLOCK FALSE`.
No liveness is checked here: nothing in these components waits.

`HubProofs.tla` proves everything the run checks, for any numbers of handlers,
calls and rows that `HubBounds` admits. A step of the hub is a step of one
component and leaves the variables of the others alone, so each invariant below
is inductive for its component and stable under the rest.

- *Account*: `HubKeepsAccount`, a behaviour of the hub is one of `Account`, hence
  the five properties and the types of `AccountProofs` hold in it.
- *Maintenance* (`MaintenanceProofs`, `HubMaintenance`): the copy, if it is not
  stale and no change is under way, agrees with the setting; what a check owes
  is the setting; and what it carries is what it owes.
- *Directory* (`DirInv`), for `SecretToldWorks` and `FieldsAreKept`: handlers know of
  clients that exist or existed, ids are not drawn twice (`FreshIds`); a client whose
  rotations did not overlap has at most one, and the secret in the answer that
  is under way, or else the one shown last, is the one stored (`ToldTrue`); the
  row an update holds agrees with the table in the fields that updates write,
  unless another update wrote them (`ReadsTrue`).
- *Webhooks* (`HookInv`), for `DeliveriesAreLogged`: only what was sent is received
  or logged (`WasSent`); a delivery to an endpoint still there has no row until
  it is done and one afterwards, and its phase tells whether the endpoint answered
  and its row was refused (`AllTracked`); a dispatch that was answered has
  come to the end of all its deliveries or lost one (`Returned`).
- *Listing* (`ListInv`), for `ViewsAreAnswers`: loads that are not old ask what the page
  asks now and carry what the server would answer now (`AnswersTrue`), as does
  the kept copy of the Dashboard (`KeptTrue`); a row whose deletion was answered does
  not come back (`DeletedGone`); a view that no load is about to
  replace differs from the table by rows created or deleted whose answers are
  still on their way to this page, and by nothing else (`ViewFollows`). The proof is one case per
  kind of page only where the choices of its record matter.

## What is proved and what is only checked

| Module | Proved | TLC only |
|---|---|---|
| `Sessions` | all invariants and `AccountsIsolated`; one request at a time: `RefinesContract` | `OldPasswordSessionsEnd` |
| `ApiClient` | `TypeOK`, `CookieNotSpent`, `LogoutClearsBrowser` | `CallsSettle` |
| `AuthCode` | `SessionsWereApproved`, `ConsentTidy`, `ConsentRemembered`, `CodesAreOneTime` | |
| `Lockout` | `TypeOK`, `CounterExpires`, `TriesBounded`, `HardLockNeedsOverlap` | `LockEnds` |
| `Account` | `TypeOK` and the five properties above | |
| `SignIn` | `TypeOK`, `SessionsAreEarned`, `CounterNeverFalls` | `AttemptsSettle` |
| `Maintenance`, `Directory`, `Webhooks`, `Listing` | types, `MaintenanceTakesEffect`, `ToldSecretWorks`, `FieldsKept`, `DeliveriesLogged`, `ViewIsAnswer` | |

The four properties on the right are liveness under fairness, which is out of
the prover's reach, like `ENABLED`. The four runs that expect a violation are
TLC's too. The assumptions on constants are those named in the modules
(`BoundsAssumption`, `HubBounds` and their like): bounds are natural numbers, "no session" is
not a session, and the order of thresholds and lifetimes of the lockout.

## Differences between code and documents, met on the way

Four are runs that find a counterexample (`sessions_replay`,
`client_double_refresh`, `authcode_shared`, `signin_web`). Others need no interleaving to see and
have no run:

- The tenant settings modal sends `webhookUrl`, which `tenants` has no column
  for: Prisma refuses every update it makes (`developer/controller.ts:228`).
- The branding page loads the oldest tenant and updates any (`findFirst` without
  an order).
- `updateClient` can make a public client confidential without giving it a
  secret; its hash stays "none".
- `social.ts:161` says "do NOT auto-create", and an account and a workspace are
  created when the client names no tenant.
- `VerifyEmail.tsx` and `ResetPassword.tsx` take the token from the path, the mails
  link `?token=`; the reset page posts `newPassword`, the handler reads `password`.
- The webhooks page offers `session.revoked` and `mfa.enabled`, which nothing
  dispatches; the statistics count `LOGIN_SUCCESS`, which nothing logs.
- `globalMfaForce` is stored and read by nothing.

## Not modelled

- *Billing*: its router is commented out of `index.ts`; no request gets there.
- *OIDC discovery and userinfo, observability, statistics, introspection, the
  client-credentials grant*: they keep no state of their own.
- *Impersonation*: it issues an access token without a session.
- *Start-up, validation, error handler, request-rate limits*: wiring; the limits
  are counters of the express-rate-limit library.
- *Registration of a passkey* is one action of `SignIn`, and an account has one.
- *Pages* that show text, mock data (`RootKeys.tsx`, `SystemSettings.tsx`) or
  graphics, and those without a route (`DeveloperPortal.tsx`, `Users.tsx`,
  `Billing.tsx`).
- *The seed*, which fills an empty database before the server runs.

In all modules, signatures, hashing and encryption are taken to work: a token is
its claims. Reply bodies, cookies' attributes, audit rows and logs are left out.
