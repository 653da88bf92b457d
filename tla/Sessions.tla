------------------------------ MODULE Sessions ------------------------------
(***************************************************************************)
(* The session table of AuthHub and every handler that reads or writes it: *)
(* sign-in, refresh-token rotation (the hub's /auth/refresh and the OAuth  *)
(* refresh grant), logout, revocation, password reset and change, profile  *)
(* completion and account deletion.                                        *)
(*                                                                         *)
(* The backend is one Node process: handlers interleave at their awaits.   *)
(* A handler is therefore a request that moves through phases, one per     *)
(* database call whose outcome can depend on what other handlers do; a     *)
(* handler with a single such call is one action.  Reply bodies, cookies,  *)
(* audit rows and the Redis profile cache are left out.                    *)
(***************************************************************************)
EXTENDS Integers, FiniteSets

CONSTANTS
  User,        \* ids of the accounts
  Request,     \* handlers the process can have in flight at once
  Sid,         \* session ids randomUUID() may draw
  NoSid,       \* the sid of a token that names no session
  MaxPw,       \* bound: password versions per account
  MaxLapsed,   \* bound: sessions that reach expiresAt
  Restarts     \* whether the process may restart, any number of times

ASSUME BoundsAssumption ==
  MaxPw \in Nat /\ MaxLapsed \in Nat /\ Restarts \in BOOLEAN

ASSUME NoSidAssumption == NoSid \notin Sid

VARIABLES
  users,      \* accounts in the users table
  pw,         \* version of users.password_hash; 0 is the one at the start, or none
  row,        \* every session row ever created, by id
  live,       \* ids of the rows still in the sessions table
  lapsed,     \* sessions whose expiresAt has passed
  tokens,     \* refresh tokens handed to clients
  req,        \* what each in-flight handler has read and will do next
  \* History, read by no guard:
  overtaken,  \* requests that hold a read some other handler made untrue
  revoked,    \* sign-ins whose session was revoked
  purged,     \* newest password version whose purge of old sessions is done
  spared      \* sign-ins a password change kept, being the caller's own

history == <<overtaken, revoked, purged, spared>>
vars == <<users, pw, row, live, lapsed, tokens, req, history>>

Pw == 0 .. MaxPw

\* A token with a session: sub, sid and what minted it.  Only the "grant" token
\* is the one hashed into its session's row; completeProfile mints other refresh
\* tokens, and access tokens are signed with the same key.
Token == [user : User, sid : Sid, mint : {"grant", "profile", "access"}]

\* parent and root are history: the session a rotation replaced (itself for a
\* sign-in) and the sign-in it descends from.  asOf is the password version in
\* force when that sign-in was authenticated; stray says that a commit in its
\* ancestry relied on a read that was no longer true.
Row == [user : User, hash : Token, parent : Sid, root : Sid, asOf : Pw,
        stray : BOOLEAN]

Idle        == [op |-> "idle"]
LoginReq    == [op : {"login"}, user : User, pw : Pw, new : Sid]
PresentReq  == [op : {"present"}, tok : Token]
RotateReq   == [op : {"checkUser", "rotate"}, tok : Token, new : Sid]
MismatchReq == [op : {"wipe", "drop"}, tok : Token]
ResetReq    == [op : {"purgeAll"}, user : User, pw : Pw]
ChangeReq   == [op : {"setPassword", "purgeOthers"}, user : User, pw : Pw,
                sid : Sid \cup {NoSid}]
DeleteReq   == [op : {"dropUser"}, user : User]

Req == {Idle} \cup LoginReq \cup PresentReq \cup RotateReq \cup MismatchReq
         \cup ResetReq \cup ChangeReq \cup DeleteReq

TypeOK ==
  /\ users \subseteq User
  /\ pw \in [User -> Pw]
  /\ DOMAIN row \subseteq Sid
  /\ row \in [DOMAIN row -> Row]
  /\ live \subseteq DOMAIN row
  /\ lapsed \subseteq DOMAIN row
  /\ tokens \subseteq Token
  /\ req \in [Request -> Req]
  /\ overtaken \subseteq Request
  /\ revoked \subseteq DOMAIN row
  /\ purged \in [User -> Pw]
  /\ spared \subseteq DOMAIN row

-----------------------------------------------------------------------------
\* Operations on the table, and the history they leave behind

SessionsOf(u) == {s \in live : row[s].user = u}

GrantToken(u, s)   == [user |-> u, sid |-> s, mint |-> "grant"]
ProfileToken(u, s) == [user |-> u, sid |-> s, mint |-> "profile"]
AccessToken(u, s)  == [user |-> u, sid |-> s, mint |-> "access"]

\* What a client can send where a refresh token is expected: the refresh tokens,
\* and the access token every session is created with.  Access tokens expire
\* after 15 minutes, which is not counted.
Presented == tokens \cup {AccessToken(row[s].user, s) : s \in DOMAIN row}

\* jwtVerify: the grant token's exp is its session's expiresAt.
Valid(t) == t.mint = "grant" => t.sid \notin lapsed

IsIdle(r) == req[r].op = "idle"
Becomes(r, q) == req' = [req EXCEPT ![r] = q]

\* An id no row has and no handler in flight has drawn.
Fresh(s) ==
  /\ s \notin DOMAIN row
  /\ \A q \in Request : req[q].op \in {"login", "checkUser", "rotate"} => req[q].new # s

\* The rotations that have read a session of S.
Rotating(S) == {q \in Request : /\ req[q].op \in {"checkUser", "rotate"}
                                /\ req[q].tok.sid \in S}

\* Mutant: the client gets its token before the row is written.
CreateLater(s, new) == tokens' = tokens \cup {new.hash} /\ UNCHANGED row

\* session.create; the reply carries the token whose hash the row holds.
Create(s, new) ==
  /\ row' = [x \in DOMAIN row \cup {s} |-> IF x = s THEN new ELSE row[x]]
  /\ tokens' = tokens \cup {new.hash}

\* Mutant: the old row is left to a later clean-up.
KeepOldRow(old, new) == live' = live \cup {new}

\* A rotation's create and deleteMany; it does not mind that old is gone.
ReplaceRow(old, new) == live' = (live \ {old}) \cup {new}

\* session.delete / deleteMany other than by a rotation, called by request r.
\* A revoked stray says nothing of the line it strayed from.
Revoke(r, S) ==
  /\ live' = live \ S
  /\ revoked' = revoked \cup {row[s].root : s \in {x \in S \cap live : ~row[x].stray}}
  /\ overtaken' = (overtaken \cup Rotating(S \cap live)) \ {r}

\* The same deletion when it completes a password change to version v: a
\* sign-in of u still in flight that checked an older password is overtaken.
Purge(r, u, v, S) ==
  /\ live' = live \ S
  /\ revoked' = revoked \cup {row[s].root : s \in {x \in S \cap live : ~row[x].stray}}
  /\ overtaken' = (overtaken \cup Rotating(S \cap live)
                    \cup {q \in Request : /\ req[q].op = "login"
                                          /\ req[q].user = u
                                          /\ req[q].pw < v}) \ {r}
  /\ purged' = [purged EXCEPT ![u] = IF v > @ THEN v ELSE @]

-----------------------------------------------------------------------------
Init ==
  /\ users = User
  /\ pw = [u \in User |-> 0]
  /\ row = [s \in {} |-> s]
  /\ live = {}
  /\ lapsed = {}
  /\ tokens = {}
  /\ req = [r \in Request |-> Idle]
  /\ overtaken = {}
  /\ revoked = {}
  /\ purged = pw
  /\ spared = {}

\* A request ends without effect, or because the database call throws.
End(r) ==
  /\ Becomes(r, Idle)
  /\ overtaken' = overtaken \ {r}
  /\ UNCHANGED <<users, pw, row, live, lapsed, tokens, revoked, purged, spared>>

\* A sign-in of one request is authenticated against the user row read
\* (password, social account, passkey); the session id is drawn before the row
\* is written.
LoginAuthenticate(r, u, s) ==
  /\ IsIdle(r)
  /\ u \in users
  /\ Fresh(s)
  /\ Becomes(r, [op |-> "login", user |-> u, pw |-> pw[u], new |-> s])
  /\ UNCHANGED <<users, pw, row, live, lapsed, tokens, history>>

\* A sign-in of two requests: the first checked version v of the password and
\* answered with an MFA token (five minutes) or led to an authorization code
\* (one minute); the second, challengeTotp or the code exchange, trusts what it
\* brings and reads no password.  It is overtaken if a purge completed a newer
\* version between the two.
LoginResume(r, u, v, s) ==
  /\ IsIdle(r)
  /\ u \in users
  /\ v \in Pw
  /\ v < pw[u]
  /\ Fresh(s)
  /\ Becomes(r, [op |-> "login", user |-> u, pw |-> v, new |-> s])
  /\ overtaken' = IF v < purged[u] THEN overtaken \cup {r} ELSE overtaken
  /\ UNCHANGED <<users, pw, row, live, lapsed, tokens, revoked, purged, spared>>

\* The foreign key to users must hold.
LoginCreateSession(r) ==
  /\ req[r].op = "login"
  /\ req[r].user \in users
  /\ LET q == req[r]
     IN  /\ Create(q.new, [user |-> q.user, hash |-> GrantToken(q.user, q.new),
                           parent |-> q.new, root |-> q.new, asOf |-> q.pw,
                           stray |-> r \in overtaken])
         /\ live' = live \cup {q.new}
  /\ Becomes(r, Idle)
  /\ overtaken' = overtaken \ {r}
  /\ UNCHANGED <<users, pw, lapsed, revoked, purged, spared>>

LoginFails(r) == req[r].op = "login" /\ req[r].user \notin users /\ End(r)

-----------------------------------------------------------------------------
\* Rotation, by POST /auth/refresh or the refresh_token grant.  Both verify the
\* token, though not its type, and read the row.  Which of them it is shows from
\* there: the hub goes on to "checkUser" or "wipe", the grant to "rotate" or "drop".

RefreshPresent(r, t) ==
  /\ IsIdle(r)
  /\ t \in Presented
  /\ Valid(t)
  /\ Becomes(r, [op |-> "present", tok |-> t])
  /\ UNCHANGED <<users, pw, row, live, lapsed, tokens, history>>

\* Mutants: the null check, or the comparison with expiresAt, is dropped.
UsableIfDeleted(t) == row[t.sid].user = t.user /\ t.sid \notin lapsed
UsableIfExpired(t) == t.sid \in live /\ row[t.sid].user = t.user

\* The row findUnique returns and its checks.
Usable(t) == t.sid \in live /\ row[t.sid].user = t.user /\ t.sid \notin lapsed

RefreshRejected(r) ==
  /\ req[r].op = "present"
  /\ ~Usable(req[r].tok)
  /\ End(r)

RefreshMatch(r, s) ==
  /\ req[r].op = "present"
  /\ Usable(req[r].tok)
  /\ row[req[r].tok.sid].hash = req[r].tok
  /\ Fresh(s)
  /\ \E next \in {"checkUser", "rotate"} :
       Becomes(r, [op |-> next, tok |-> req[r].tok, new |-> s])
  /\ UNCHANGED <<users, pw, row, live, lapsed, tokens, history>>

RefreshMismatch(r) ==
  /\ req[r].op = "present"
  /\ Usable(req[r].tok)
  /\ row[req[r].tok.sid].hash # req[r].tok
  /\ \E next \in {"wipe", "drop"} : Becomes(r, [op |-> next, tok |-> req[r].tok])
  /\ UNCHANGED <<users, pw, row, live, lapsed, tokens, history>>

RefreshCheckUser(r) ==
  /\ req[r].op = "checkUser"
  /\ req[r].tok.user \in users
  /\ Becomes(r, [op |-> "rotate", tok |-> req[r].tok, new |-> req[r].new])
  /\ UNCHANGED <<users, pw, row, live, lapsed, tokens, history>>

\* The new row and the deletion of the old one are one transaction.
RefreshRotate(r) ==
  /\ req[r].op = "rotate"
  /\ req[r].tok.user \in users
  /\ LET q == req[r]
         old == q.tok.sid
     IN  /\ Create(q.new, [user |-> q.tok.user, hash |-> GrantToken(q.tok.user, q.new),
                           parent |-> old, root |-> row[old].root,
                           asOf |-> row[old].asOf,
                           stray |-> row[old].stray \/ r \in overtaken])
         /\ ReplaceRow(old, q.new)
         /\ overtaken' = (overtaken \cup Rotating({old})) \ {r}
  /\ Becomes(r, Idle)
  /\ UNCHANGED <<users, pw, lapsed, revoked, purged, spared>>

RefreshUserGone(r) ==
  /\ req[r].op \in {"checkUser", "rotate"}
  /\ req[r].tok.user \notin users
  /\ End(r)

\* "Token Replay Detected - Family Revoked"
RefreshWipe(r) ==
  /\ req[r].op = "wipe"
  /\ Revoke(r, SessionsOf(req[r].tok.user))
  /\ Becomes(r, Idle)
  /\ UNCHANGED <<users, pw, row, lapsed, tokens, purged, spared>>

RefreshDrop(r) ==
  /\ req[r].op = "drop"
  /\ Revoke(r, {req[r].tok.sid})
  /\ Becomes(r, Idle)
  /\ UNCHANGED <<users, pw, row, lapsed, tokens, purged, spared>>

-----------------------------------------------------------------------------
\* Revocation by the user: one deletion each, nothing read before it that a
\* concurrent handler could make untrue.

RevokeNow(r, S) ==
  /\ IsIdle(r)
  /\ Revoke(r, S)
  /\ UNCHANGED <<users, pw, row, lapsed, tokens, req, purged, spared>>

Logout(r, t) ==
  /\ t \in Presented
  /\ Valid(t)
  /\ RevokeNow(r, {t.sid} \cap SessionsOf(t.user))

\* A token of u that names no session, an MFA or ID token, ends them all.
LogoutAll(r, u) == RevokeNow(r, SessionsOf(u))

\* This handler does look at the type: refresh tokens only.
RevokeToken(r, t) ==
  /\ t \in tokens
  /\ Valid(t)
  /\ RevokeNow(r, {t.sid})

\* Mutant: the owner of the row is not compared.
DeleteAnySession(r, u, s) ==
  /\ s \in live
  /\ u \in User
  /\ RevokeNow(r, {s})

DeleteSession(r, u, s) ==
  /\ s \in SessionsOf(u)
  /\ RevokeNow(r, {s})

\* An access token outlives its session by up to 15 minutes, so the caller's
\* own session c may already be gone.
AccessSids(u) == {s \in DOMAIN row : row[s].user = u}

\* authenticate checks the signature and sub only, so it lets an MFA or ID token
\* through, whose sid is undefined.
Callers(u) == AccessSids(u) \cup {NoSid}

\* A caller without a sid is refused.
RevokeOtherSessions(r, u, c) ==
  /\ c \in AccessSids(u)
  /\ RevokeNow(r, SessionsOf(u) \ {c})

-----------------------------------------------------------------------------
\* Passwords

\* Mutant: the reset leaves the sessions alone.
ResetSetPasswordOnly(r, u) ==
  /\ IsIdle(r)
  /\ u \in users
  /\ pw[u] < MaxPw
  /\ pw' = [pw EXCEPT ![u] = @ + 1]
  /\ UNCHANGED <<users, row, live, lapsed, tokens, req, history>>

ResetSetPassword(r, u) ==
  /\ IsIdle(r)
  /\ u \in users
  /\ pw[u] < MaxPw
  /\ pw' = [pw EXCEPT ![u] = @ + 1]
  /\ Becomes(r, [op |-> "purgeAll", user |-> u, pw |-> pw[u] + 1])
  /\ UNCHANGED <<users, row, live, lapsed, tokens, history>>

\* Mutant: the where clause selects nothing.
ResetPurgeNothing(r) ==
  /\ req[r].op = "purgeAll"
  /\ Purge(r, req[r].user, req[r].pw, {})
  /\ Becomes(r, Idle)
  /\ UNCHANGED <<users, pw, row, lapsed, tokens, spared>>

ResetPurge(r) ==
  /\ req[r].op = "purgeAll"
  /\ Purge(r, req[r].user, req[r].pw, SessionsOf(req[r].user))
  /\ Becomes(r, Idle)
  /\ UNCHANGED <<users, pw, row, lapsed, tokens, spared>>

\* The current password, if there is one, is checked against the row read.
ChangeVerify(r, u, c) ==
  /\ IsIdle(r)
  /\ u \in users
  /\ c \in Callers(u)
  /\ Becomes(r, [op |-> "setPassword", user |-> u, pw |-> pw[u], sid |-> c])
  /\ UNCHANGED <<users, pw, row, live, lapsed, tokens, history>>

ChangeSetPassword(r) ==
  /\ req[r].op = "setPassword"
  /\ req[r].user \in users
  /\ pw[req[r].user] < MaxPw
  /\ pw' = [pw EXCEPT ![req[r].user] = @ + 1]
  /\ Becomes(r, [op |-> "purgeOthers", user |-> req[r].user,
                 pw |-> pw[req[r].user] + 1, sid |-> req[r].sid])
  /\ UNCHANGED <<users, row, live, lapsed, tokens, history>>

\* user.update throws when the row is gone.
ChangeFails(r) == req[r].op = "setPassword" /\ req[r].user \notin users /\ End(r)

\* "id: { not: undefined }" filters nothing: without a sid every session goes.
ChangePurge(r) ==
  /\ req[r].op = "purgeOthers"
  /\ LET q == req[r]
     IN  /\ Purge(r, q.user, q.pw, SessionsOf(q.user) \ {q.sid})
         /\ spared' = spared \cup {row[s].root : s \in {q.sid} \cap live}
  /\ Becomes(r, Idle)
  /\ UNCHANGED <<users, pw, row, lapsed, tokens>>

-----------------------------------------------------------------------------
\* The account

\* Mutant: the new token's hash is stored, the old token still being used.
CompleteProfileStores(r, u, c) ==
  /\ IsIdle(r)
  /\ u \in users
  /\ c \in AccessSids(u)
  /\ tokens' = tokens \cup {ProfileToken(u, c)}
  /\ row' = [row EXCEPT ![c].hash = ProfileToken(u, c)]
  /\ UNCHANGED <<users, pw, live, lapsed, req, history>>

\* completeProfile mints a refresh token for the caller's sid but writes no
\* hash of it; for a caller without a session it mints one that no handler
\* accepts.  user.update throws when the account is gone.
CompleteProfile(r, u, c) ==
  /\ IsIdle(r)
  /\ u \in users
  /\ c \in AccessSids(u)
  /\ tokens' = tokens \cup {ProfileToken(u, c)}
  /\ UNCHANGED <<users, pw, row, live, lapsed, req, history>>

\* An administrator's deleteUser: two calls, not in a transaction.
DeleteUserSessions(r, u) ==
  /\ IsIdle(r)
  /\ u \in users
  /\ Revoke(r, SessionsOf(u))
  /\ Becomes(r, [op |-> "dropUser", user |-> u])
  /\ UNCHANGED <<users, pw, row, lapsed, tokens, purged, spared>>

\* Mutant: no cascade.
DeleteUserRowOnly(r) ==
  /\ req[r].op = "dropUser"
  /\ users' = users \ {req[r].user}
  /\ Becomes(r, Idle)
  /\ UNCHANGED <<pw, row, live, lapsed, tokens, history>>

\* The foreign key cascades to sessions created since; a second deletion throws.
DeleteUserRow(r) ==
  /\ req[r].op = "dropUser"
  /\ users' = users \ {req[r].user}
  /\ Revoke(r, SessionsOf(req[r].user))
  /\ Becomes(r, Idle)
  /\ UNCHANGED <<pw, row, lapsed, tokens, purged, spared>>

-----------------------------------------------------------------------------
\* Environment

\* expiresAt passes; a rotation that already compared it goes on.
Lapse(s) ==
  /\ s \in live \ lapsed
  /\ Cardinality(lapsed) < MaxLapsed
  /\ lapsed' = lapsed \cup {s}
  /\ overtaken' = overtaken \cup Rotating({s})
  /\ UNCHANGED <<users, pw, row, live, tokens, req, revoked, purged, spared>>

\* The process restarts: handlers in flight are lost between two calls.
Crash ==
  /\ Restarts
  /\ req' = [r \in Request |-> Idle]
  /\ overtaken' = {}
  /\ UNCHANGED <<users, pw, row, live, lapsed, tokens, revoked, purged, spared>>

\* A request arrives.
Arrive(r) ==
  \/ \E u \in User, s \in Sid : LoginAuthenticate(r, u, s)
  \/ \E u \in User, v \in Pw, s \in Sid : LoginResume(r, u, v, s)
  \/ \E t \in Presented : RefreshPresent(r, t)
  \/ \E t \in Presented : Logout(r, t) \/ RevokeToken(r, t)
  \/ \E u \in User : LogoutAll(r, u)
  \/ \E u \in User, s \in Sid : DeleteSession(r, u, s) \/ RevokeOtherSessions(r, u, s)
  \/ \E u \in User : ResetSetPassword(r, u)
  \/ \E u \in User, c \in Sid \cup {NoSid} : ChangeVerify(r, u, c)
  \/ \E u \in User, c \in Sid : CompleteProfile(r, u, c)
  \/ \E u \in User : DeleteUserSessions(r, u)

\* The next await of the handler in slot r resolves.
Continue(r) ==
  \/ LoginCreateSession(r) \/ LoginFails(r)
  \/ RefreshRejected(r) \/ (\E s \in Sid : RefreshMatch(r, s)) \/ RefreshMismatch(r)
  \/ RefreshCheckUser(r) \/ RefreshUserGone(r) \/ RefreshRotate(r)
  \/ RefreshWipe(r) \/ RefreshDrop(r)
  \/ ResetPurge(r)
  \/ ChangeSetPassword(r) \/ ChangeFails(r) \/ ChangePurge(r)
  \/ DeleteUserRow(r)

Next ==
  \/ \E r \in Request : Arrive(r) \/ Continue(r)
  \/ \E s \in Sid : Lapse(s)
  \/ Crash

Spec == Init /\ [][Next]_vars

\* Node runs the continuation of every await that resolves.
FairSpec == Spec /\ \A r \in Request : WF_vars(Continue(r))

-----------------------------------------------------------------------------
(* Properties *)

UserOf(s) == row[s].user

\* A live session is on the main line when no commit in its ancestry relied on
\* a read another handler had made untrue.
MainLine == {s \in live : ~row[s].stray}

\* Rotation never multiplies a sign-in: whatever refreshes, revocations and
\* restarts run at once, one sign-in has at most one live session that was not
\* committed on an outdated read.
OneSessionPerSignIn ==
  \A s1, s2 \in MainLine : row[s1].root = row[s2].root => s1 = s2

\* Once the session of a sign-in is revoked (logout, revocation, password
\* purge, family wipe, account deletion), no later request brings the sign-in
\* back; only a rotation already past its read can.
RevokedSignInIsOver ==
  \A s \in MainLine : row[s].root \notin revoked

\* When a password reset or change has finished purging, no session
\* authenticated under an older password is left, but for the one the change
\* spared and what overtaken requests committed: those in flight during the
\* purge, and the second requests of sign-ins whose first came before it.
OldPasswordSessionsPurged ==
  \A s \in MainLine : row[s].asOf < purged[UserOf(s)] => row[s].root \in spared

\* A session past its expiresAt is never rotated into a new one, unless it
\* expired after the rotation had compared the date.
ExpiredNotRenewed ==
  \A s \in DOMAIN row :
    row[s].parent # s /\ row[s].parent \in lapsed => row[s].stray

\* The reaction to a replay in both refresh handlers never sees one: rotation
\* deletes the row a used grant token names, so its replay stops at the missing
\* row.  What reaches the comparison of hashes and fails it is a token that was
\* never stored, completeProfile's or an access token, of a session in use.
ReplayBranchSeesNoReplay ==
  \A r \in Request : req[r].op \in {"wipe", "drop"} => req[r].tok.mint # "grant"

\* The account deletion of the admin console and its foreign keys leave no
\* session behind, whichever sign-ins and rotations commit between its calls.
NoSessionWithoutUser == \A s \in live : UserOf(s) \in users

\* No account loses a session to another: a step of a handler in flight deletes
\* sessions of the account it works for, a logout or revocation those of the
\* account in the token's sub, though revokeToken deletes by sid alone, and the
\* session endpoints those of their caller.
Subject(q) == IF "tok" \in DOMAIN q THEN q.tok.user ELSE q.user
Gone == live \ live'
AccountsIsolated ==
  [][Gone # {} => \A r \in Request :
       /\ req'[r] # req[r]
            => Gone \subseteq SessionsOf(Subject(IF IsIdle(r) THEN req'[r] ELSE req[r]))
       /\ \A t \in Presented :
            Logout(r, t) \/ RevokeToken(r, t) => Gone \subseteq SessionsOf(t.user)
       /\ \A u \in User :
            \/ LogoutAll(r, u)
            \/ \E s \in Sid : DeleteSession(r, u, s) \/ RevokeOtherSessions(r, u, s)
            => Gone \subseteq SessionsOf(u)]_vars

\* A password change reaches its purge: a session authenticated under an older
\* password than the one in force is eventually deleted or spared.
OldPasswordSessionsEnd ==
  \A s \in Sid :
    (s \in MainLine /\ row[s].asOf < pw[UserOf(s)])
      ~> (s \notin live \/ row[s].root \in spared)

\* A refresh token presented after its rotation revokes all of the user's
\* sessions.
ReplayRevokesAll ==
  [][\A r \in Request :
       /\ req[r].op = "present"
       /\ req[r].tok.mint = "grant"
       /\ \E s \in DOMAIN row : s # req[r].tok.sid /\ row[s].parent = req[r].tok.sid
       /\ req'[r].op = "idle"
       => \A s \in live' : row'[s].user # req[r].tok.user]_vars

\* The rows of the table are the open grants of the contract; a sign-in whose
\* last session is gone is closed.
Contract ==
  INSTANCE SessionContract WITH
    grants <- {[signIn |-> row[s].root, user |-> row[s].user, sid |-> s] : s \in live},
    drawn  <- DOMAIN row,
    closed <- {row[s].root : s \in DOMAIN row} \ {row[s].root : s \in live}

\* With one request at a time, the table implements the contract: a refresh
\* hands a session on to exactly one successor, and whatever else ends a session
\* ends its sign-in for good.
RefinesContract == Contract!Spec
=============================================================================
