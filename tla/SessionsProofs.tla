--------------------------- MODULE SessionsProofs ---------------------------
(***************************************************************************)
(* Proofs about Sessions, for any sets of accounts, ids and requests and   *)
(* any bounds.                                                             *)
(***************************************************************************)
EXTENDS Sessions, TLAPS

-----------------------------------------------------------------------------
(* Shape: types, and what ties tokens, rows and requests to one another.   *)

\* A row's hash is its grant token's, and it descends from a recorded sign-in.
RowsWellFormed ==
  \A s \in DOMAIN row :
    row[s].hash = GrantToken(row[s].user, s) /\ row[s].root \in DOMAIN row

\* A token names a session that was created, and that session's account.
NamesSession(t) == t.sid \in DOMAIN row /\ t.user = row[t.sid].user
TokensNameSessions == \A t \in tokens : NamesSession(t)

WithToken == {"present", "checkUser", "rotate", "wipe", "drop"}
RequestsHoldTokens ==
  \A r \in Request :
    req[r].op \in WithToken => req[r].tok \in Token /\ NamesSession(req[r].tok)

\* Every id drawn by a sign-in or rotation in flight is still unused, and drawn once.
Drawing == {"login", "checkUser", "rotate"}
DrawnOnce ==
  \A r \in Request : req[r].op \in Drawing =>
    /\ req[r].new \notin DOMAIN row
    /\ \A p \in Request \ {r} : req[p].op \in Drawing => req[p].new # req[r].new

Shape == TypeOK /\ RowsWellFormed /\ TokensNameSessions /\ RequestsHoldTokens /\ DrawnOnce

\* What the phase of a request says of its record.
LEMMA RequestFields ==
  ASSUME NEW q \in Req
  PROVE  /\ q.op = "login" => q \in LoginReq
         /\ q.op = "present" => q \in PresentReq
         /\ q.op \in {"checkUser", "rotate"} => q \in RotateReq
         /\ q.op \in {"wipe", "drop"} => q \in MismatchReq
         /\ q.op = "purgeAll" => q \in ResetReq
         /\ q.op \in {"setPassword", "purgeOthers"} => q \in ChangeReq
         /\ q.op = "dropUser" => q \in DeleteReq
  BY DEF Req, Idle, LoginReq, PresentReq, RotateReq, MismatchReq, ResetReq,
         ChangeReq, DeleteReq

\* Moving one request on.
LEMMA BecomesTyped ==
  ASSUME req \in [Request -> Req], NEW r \in Request, NEW q \in Req, Becomes(r, q)
  PROVE  /\ req' \in [Request -> Req]
         /\ req'[r] = q
         /\ \A p \in Request \ {r} : req'[p] = req[p]
  BY DEF Becomes

\* So do the tokens a client can present.
LEMMA PresentedNameSessions ==
  ASSUME Shape
  PROVE  \A t \in Presented : t \in Token /\ NamesSession(t)
<1>1. \A t \in tokens : t \in Token /\ NamesSession(t)
  BY DEF Shape, TypeOK, TokensNameSessions
<1>2. ASSUME NEW s \in DOMAIN row
      PROVE  AccessToken(row[s].user, s) \in Token /\ NamesSession(AccessToken(row[s].user, s))
  BY <1>2 DEF Shape, TypeOK, Row, AccessToken, Token, NamesSession
<1> QED BY <1>1, <1>2 DEF Presented

\* The table forgets no row and changes no owner.
RowsStay == \A s \in DOMAIN row : s \in DOMAIN row' /\ row'[s].user = row[s].user

\* The requests keep their shape when one moves on, no row is forgotten and
\* at most the id it had drawn is used up.
LEMMA RequestsShape ==
  ASSUME Shape, NEW r \in Request, NEW q \in Req, Becomes(r, q),
         RowsStay, q.op \in WithToken => q.tok \in Token /\ NamesSession(q.tok)',
         \A s \in DOMAIN row' \ DOMAIN row : req[r].op \in Drawing /\ s = req[r].new,
         q.op \in Drawing => /\ q.new \notin DOMAIN row'
                             /\ \/ Fresh(q.new)
                                \/ req[r].op \in Drawing /\ req[r].new = q.new
  PROVE  req' \in [Request -> Req] /\ RequestsHoldTokens' /\ DrawnOnce'
<1>1. /\ req' \in [Request -> Req]
      /\ req'[r] = q
      /\ \A p \in Request \ {r} : req'[p] = req[p]
  BY BecomesTyped DEF Shape, TypeOK
<1>2. RequestsHoldTokens'
  BY <1>1 DEF Shape, RequestsHoldTokens, RowsStay, NamesSession
<1>3. \A p \in Request \ {r} : req[p].op \in Drawing => req[p].new \notin DOMAIN row'
  BY DEF Shape, DrawnOnce
<1>4. ASSUME q.op \in Drawing, NEW p \in Request \ {r}, req[p].op \in Drawing
      PROVE  req[p].new # q.new
  BY <1>4 DEF Shape, DrawnOnce, Fresh, Drawing
<1>5. DrawnOnce'
  BY <1>1, <1>3, <1>4 DEF Shape, DrawnOnce
<1> QED BY <1>1, <1>2, <1>5

LEMMA IdleIsReq == Idle \in Req /\ Idle.op \notin WithToken \cup Drawing
  BY DEF Req, Idle, WithToken, Drawing

\* A handler that only reads.
LEMMA MoveShape ==
  ASSUME Shape, NEW r \in Request, NEW q \in Req, Becomes(r, q),
         q.op \in WithToken => q.tok \in Token /\ NamesSession(q.tok),
         q.op \in Drawing => \/ Fresh(q.new)
                             \/ req[r].op \in Drawing /\ req[r].new = q.new,
         UNCHANGED <<users, pw, row, live, lapsed, tokens, history>>
  PROVE  Shape'
<1>0. (q.op \in WithToken => q.tok \in Token /\ NamesSession(q.tok)') /\ RowsStay
  BY DEF NamesSession, RowsStay
<1>1. req' \in [Request -> Req] /\ RequestsHoldTokens' /\ DrawnOnce'
  BY <1>0, RequestsShape DEF Fresh, Shape, DrawnOnce
<1>2. RowsWellFormed' /\ TokensNameSessions'
  BY DEF Shape, RowsWellFormed, TokensNameSessions, NamesSession, GrantToken
<1> QED BY <1>1, <1>2 DEF Shape, TypeOK, history

LEMMA EndShape ==
  ASSUME Shape, NEW r \in Request, End(r)
  PROVE  Shape'
<1>1. req' \in [Request -> Req] /\ RequestsHoldTokens' /\ DrawnOnce'
  BY RequestsShape, IdleIsReq DEF End, RowsStay
<1>2. RowsWellFormed' /\ TokensNameSessions'
  BY DEF End, Shape, RowsWellFormed, TokensNameSessions, NamesSession, GrantToken
<1> QED BY <1>1, <1>2 DEF Shape, TypeOK, End

\* A handler that deletes rows, whatever else it does but create or mint.
LEMMA DeleteShape ==
  ASSUME Shape, NEW r \in Request, NEW q \in Req, Becomes(r, q),
         q.op \notin WithToken \cup Drawing,
         live' \subseteq live, revoked' \subseteq DOMAIN row,
         overtaken' \subseteq Request, spared' \subseteq DOMAIN row,
         users' \subseteq users, purged' \in [User -> Pw],
         UNCHANGED <<pw, row, lapsed, tokens>>
  PROVE  Shape'
<1>1. req' \in [Request -> Req] /\ RequestsHoldTokens' /\ DrawnOnce'
  BY RequestsShape DEF RowsStay
<1>2. RowsWellFormed' /\ TokensNameSessions'
  BY DEF Shape, RowsWellFormed, TokensNameSessions, NamesSession, GrantToken
<1> QED BY <1>1, <1>2 DEF Shape, TypeOK

\* The history a deletion writes is typed.
LEMMA RevokeTyped ==
  ASSUME Shape, NEW r \in Request, NEW S, Revoke(r, S)
  PROVE  live' \subseteq live /\ revoked' \subseteq DOMAIN row /\ overtaken' \subseteq Request
  BY DEF Revoke, Shape, TypeOK, RowsWellFormed, Rotating

LEMMA PurgeTyped ==
  ASSUME Shape, NEW r \in Request, NEW u \in User, NEW v \in Pw, NEW S,
         Purge(r, u, v, S)
  PROVE  /\ live' \subseteq live
         /\ revoked' \subseteq DOMAIN row
         /\ overtaken' \subseteq Request
         /\ purged' \in [User -> Pw]
  BY DEF Purge, Shape, TypeOK, RowsWellFormed, Rotating

\* Writing a new row and handing out its token.
LEMMA CreateShape ==
  ASSUME Shape, NEW s \in Sid, s \notin DOMAIN row, NEW new \in Row,
         new.hash = GrantToken(new.user, s), new.root \in DOMAIN row \cup {s},
         Create(s, new)
  PROVE  /\ DOMAIN row' = DOMAIN row \cup {s}
         /\ \A x \in DOMAIN row : row'[x] = row[x]
         /\ row'[s] = new
         /\ DOMAIN row' \subseteq Sid /\ row' \in [DOMAIN row' -> Row]
         /\ tokens \subseteq tokens' /\ tokens' \subseteq Token
         /\ RowsWellFormed' /\ TokensNameSessions'
<1>1. new.hash \in Token
  BY DEF Row
<1>2. /\ DOMAIN row' = DOMAIN row \cup {s}
      /\ \A x \in DOMAIN row : row'[x] = row[x]
      /\ row'[s] = new
  BY DEF Create
<1>3. DOMAIN row' \subseteq Sid /\ row' \in [DOMAIN row' -> Row]
  BY <1>2 DEF Create, Shape, TypeOK
<1>4. tokens \subseteq tokens' /\ tokens' \subseteq Token
  BY <1>1 DEF Create, Shape, TypeOK
<1>5. RowsWellFormed'
  BY <1>2 DEF Shape, RowsWellFormed, GrantToken
<1>6. TokensNameSessions'
  BY <1>2 DEF Create, Shape, TokensNameSessions, NamesSession, GrantToken
<1> QED BY <1>2, <1>3, <1>4, <1>5, <1>6

LEMMA LoginShape ==
  ASSUME Shape, NEW r \in Request
  PROVE  /\ \A u \in User, s \in Sid : LoginAuthenticate(r, u, s) => Shape'
         /\ \A u \in User, v \in Pw, s \in Sid : LoginResume(r, u, v, s) => Shape'
         /\ LoginCreateSession(r) => Shape'
         /\ LoginFails(r) => Shape'
<1>1. ASSUME NEW u \in User, NEW s \in Sid, LoginAuthenticate(r, u, s)
      PROVE  Shape'
  <2> DEFINE q == [op |-> "login", user |-> u, pw |-> pw[u], new |-> s]
  <2>1. pw[u] \in Pw
    BY DEF Shape, TypeOK
  <2>2. q \in Req /\ q.op \notin WithToken
    BY <2>1 DEF Req, LoginReq, WithToken
  <2> QED BY <1>1, <2>2, MoveShape DEF LoginAuthenticate
<1>2. ASSUME LoginCreateSession(r)
      PROVE  Shape'
  <2> DEFINE q == req[r]
  <2>1. q \in LoginReq /\ q.op \in Drawing
    BY <1>2, RequestFields DEF LoginCreateSession, Shape, TypeOK, Drawing
  <2>2. q.new \in Sid /\ q.user \in User /\ q.pw \in Pw /\ q.new \notin DOMAIN row
    BY <2>1 DEF LoginReq, Shape, DrawnOnce
  <2> DEFINE new == [user |-> q.user, hash |-> GrantToken(q.user, q.new),
                     parent |-> q.new, root |-> q.new, asOf |-> q.pw,
                     stray |-> r \in overtaken]
  <2>3. new \in Row /\ new.hash = GrantToken(new.user, q.new) /\ new.root = q.new
    BY <2>2 DEF Row, GrantToken, Token
  <2>6. Create(q.new, new)
    BY <1>2 DEF LoginCreateSession
  <2> HIDE DEF new
  <2>4. /\ DOMAIN row' = DOMAIN row \cup {q.new}
        /\ RowsStay
        /\ DOMAIN row' \subseteq Sid /\ row' \in [DOMAIN row' -> Row]
        /\ tokens \subseteq tokens' /\ tokens' \subseteq Token
        /\ RowsWellFormed' /\ TokensNameSessions'
    BY <2>2, <2>3, <2>6, CreateShape DEF RowsStay
  <2>5. req' \in [Request -> Req] /\ RequestsHoldTokens' /\ DrawnOnce'
    BY <1>2, <2>1, <2>4, RequestsShape, IdleIsReq DEF LoginCreateSession
  <2> QED BY <1>2, <2>4, <2>5 DEF LoginCreateSession, Shape, TypeOK
<1>3. LoginFails(r) => Shape'
  BY EndShape DEF LoginFails
<1>4. ASSUME NEW u \in User, NEW v \in Pw, NEW s \in Sid, LoginResume(r, u, v, s)
      PROVE  Shape'
  <2> DEFINE q == [op |-> "login", user |-> u, pw |-> v, new |-> s]
  <2>1. q \in Req /\ q.op \notin WithToken /\ Fresh(q.new)
    BY <1>4 DEF Req, LoginReq, WithToken, LoginResume
  <2>2. req' \in [Request -> Req] /\ RequestsHoldTokens' /\ DrawnOnce'
    BY <1>4, <2>1, RequestsShape DEF LoginResume, RowsStay, Fresh
  <2>3. RowsWellFormed' /\ TokensNameSessions'
    BY <1>4 DEF LoginResume, Shape, RowsWellFormed, TokensNameSessions, NamesSession, GrantToken
  <2>4. overtaken' \subseteq Request
    BY <1>4 DEF LoginResume, Shape, TypeOK
  <2> QED BY <1>4, <2>2, <2>3, <2>4 DEF LoginResume, Shape, TypeOK
<1> QED BY <1>1, <1>2, <1>3, <1>4

LEMMA RefreshShape ==
  ASSUME Shape, NEW r \in Request
  PROVE  /\ \A t \in Presented : RefreshPresent(r, t) => Shape'
         /\ RefreshRejected(r) => Shape'
         /\ \A s \in Sid : RefreshMatch(r, s) => Shape'
         /\ RefreshMismatch(r) => Shape'
         /\ RefreshCheckUser(r) => Shape'
         /\ RefreshUserGone(r) => Shape'
<1> DEFINE t == req[r].tok
<1>a. req[r] \in Req
  BY DEF Shape, TypeOK
<1>b. req[r].op \in WithToken => t \in Token /\ NamesSession(t)
  BY DEF Shape, RequestsHoldTokens
<1>1. ASSUME NEW k \in Presented, RefreshPresent(r, k)
      PROVE  Shape'
  <2> DEFINE q == [op |-> "present", tok |-> k]
  <2>1. q \in Req /\ q.op \notin Drawing /\ q.tok \in Token /\ NamesSession(q.tok)
    BY PresentedNameSessions DEF Req, PresentReq, Drawing
  <2> QED BY <1>1, <2>1, MoveShape DEF RefreshPresent
<1>2. RefreshRejected(r) => Shape'
  BY EndShape DEF RefreshRejected
<1>3. ASSUME NEW s \in Sid, RefreshMatch(r, s)
      PROVE  Shape'
  <2> PICK next \in {"checkUser", "rotate"} : Becomes(r, [op |-> next, tok |-> t, new |-> s])
    BY <1>3 DEF RefreshMatch
  <2> DEFINE q == [op |-> next, tok |-> t, new |-> s]
  <2>1. t \in Token /\ NamesSession(t)
    BY <1>3, <1>b DEF RefreshMatch, WithToken
  <2>2. q \in Req /\ q.tok \in Token /\ NamesSession(q.tok) /\ Fresh(q.new)
    BY <1>3, <2>1 DEF Req, RotateReq, RefreshMatch
  <2> QED BY <1>3, <2>2, MoveShape DEF RefreshMatch
<1>4. ASSUME RefreshMismatch(r)
      PROVE  Shape'
  <2> PICK next \in {"wipe", "drop"} : Becomes(r, [op |-> next, tok |-> t])
    BY <1>4 DEF RefreshMismatch
  <2> DEFINE q == [op |-> next, tok |-> t]
  <2>1. t \in Token /\ NamesSession(t)
    BY <1>4, <1>b DEF RefreshMismatch, WithToken
  <2>2. q \in Req /\ q.op \notin Drawing /\ q.tok \in Token /\ NamesSession(q.tok)
    BY <2>1 DEF Req, MismatchReq, Drawing
  <2> QED BY <1>4, <2>2, MoveShape DEF RefreshMismatch
<1>5. ASSUME RefreshCheckUser(r)
      PROVE  Shape'
  <2> DEFINE q == [op |-> "rotate", tok |-> t, new |-> req[r].new]
  <2>1. t \in Token /\ NamesSession(t) /\ req[r] \in RotateReq
    BY <1>5, <1>a, <1>b, RequestFields DEF RefreshCheckUser, WithToken
  <2>2. q \in RotateReq /\ q.tok = t /\ q.new = req[r].new /\ req[r].op \in Drawing
    BY <1>5, <2>1 DEF RotateReq, Drawing, RefreshCheckUser
  <2>3. q \in Req
    BY <2>2 DEF Req
  <2> QED BY <1>5, <2>1, <2>2, <2>3, MoveShape DEF RefreshCheckUser
<1>6. RefreshUserGone(r) => Shape'
  BY EndShape DEF RefreshUserGone
<1> QED BY <1>1, <1>2, <1>3, <1>4, <1>5, <1>6

LEMMA RotateShape ==
  ASSUME Shape, NEW r \in Request, RefreshRotate(r)
  PROVE  Shape'
<1> DEFINE q == req[r]
           old == q.tok.sid
<1>1. q \in RotateReq /\ q.op \in Drawing /\ NamesSession(q.tok)
  BY RequestFields DEF RefreshRotate, Shape, TypeOK, Drawing, RequestsHoldTokens, WithToken
<1>2. /\ q.new \in Sid \ DOMAIN row /\ q.tok.user \in User
      /\ old \in DOMAIN row /\ old \in Sid
  BY <1>1 DEF RotateReq, Token, Shape, TypeOK, DrawnOnce, NamesSession
<1>3. row[old].root \in DOMAIN row \cap Sid /\ row[old].asOf \in Pw
  BY <1>2 DEF Shape, TypeOK, RowsWellFormed, Row
<1> DEFINE new == [user |-> q.tok.user, hash |-> GrantToken(q.tok.user, q.new),
                   parent |-> old, root |-> row[old].root, asOf |-> row[old].asOf,
                   stray |-> row[old].stray \/ r \in overtaken]
<1>7. new \in Row /\ new.hash = GrantToken(new.user, q.new) /\ new.root = row[old].root
  BY <1>2, <1>3 DEF Row, GrantToken, Token
<1>4. Create(q.new, new)
  BY DEF RefreshRotate
<1> HIDE DEF new
<1>5. /\ DOMAIN row' = DOMAIN row \cup {q.new}
      /\ RowsStay
      /\ DOMAIN row' \subseteq Sid /\ row' \in [DOMAIN row' -> Row]
      /\ tokens \subseteq tokens' /\ tokens' \subseteq Token
      /\ RowsWellFormed' /\ TokensNameSessions'
  BY <1>2, <1>3, <1>4, <1>7, CreateShape DEF RowsStay
<1>6. req' \in [Request -> Req] /\ RequestsHoldTokens' /\ DrawnOnce'
  BY <1>1, <1>5, RequestsShape, IdleIsReq DEF RefreshRotate
<1> QED BY <1>5, <1>6 DEF RefreshRotate, ReplaceRow, Rotating, Shape, TypeOK

LEMMA RevocationShape ==
  ASSUME Shape, NEW r \in Request
  PROVE  /\ RefreshWipe(r) => Shape'
         /\ RefreshDrop(r) => Shape'
         /\ \A S : RevokeNow(r, S) => Shape'
         /\ \A u \in User : DeleteUserSessions(r, u) => Shape'
         /\ DeleteUserRow(r) => Shape'
<1>1. spared \subseteq DOMAIN row /\ purged \in [User -> Pw]
  BY DEF Shape, TypeOK
<1>2. ASSUME RefreshWipe(r)
      PROVE  Shape'
  BY <1>1, <1>2, RevokeTyped, DeleteShape, IdleIsReq DEF RefreshWipe
<1>3. ASSUME RefreshDrop(r)
      PROVE  Shape'
  BY <1>1, <1>3, RevokeTyped, DeleteShape, IdleIsReq DEF RefreshDrop
<1>4. ASSUME NEW S, RevokeNow(r, S)
      PROVE  Shape'
  <2>1. live' \subseteq live /\ revoked' \subseteq DOMAIN row /\ overtaken' \subseteq Request
    BY <1>4, RevokeTyped DEF RevokeNow
  <2> QED BY <1>4, <2>1 DEF RevokeNow, Shape, TypeOK, RowsWellFormed,
               TokensNameSessions, NamesSession, GrantToken, RequestsHoldTokens, DrawnOnce
<1>5. ASSUME NEW u \in User, DeleteUserSessions(r, u)
      PROVE  Shape'
  <2> DEFINE q == [op |-> "dropUser", user |-> u]
  <2>1. q \in Req /\ q.op \notin WithToken \cup Drawing
    BY DEF Req, DeleteReq, WithToken, Drawing
  <2> QED BY <1>1, <1>5, <2>1, RevokeTyped, DeleteShape DEF DeleteUserSessions
<1>6. ASSUME DeleteUserRow(r)
      PROVE  Shape'
  BY <1>1, <1>6, RevokeTyped, DeleteShape, IdleIsReq DEF DeleteUserRow
<1> QED BY <1>2, <1>3, <1>4, <1>5, <1>6

LEMMA PwSuccessor ==
  ASSUME NEW v \in Pw, v < MaxPw
  PROVE  v + 1 \in Pw
  BY BoundsAssumption DEF Pw

LEMMA PasswordShape ==
  ASSUME Shape, NEW r \in Request
  PROVE  /\ \A u \in User : ResetSetPassword(r, u) => Shape'
         /\ ResetPurge(r) => Shape'
         /\ \A u \in User, c \in Sid \cup {NoSid} : ChangeVerify(r, u, c) => Shape'
         /\ ChangeSetPassword(r) => Shape'
         /\ ChangeFails(r) => Shape'
         /\ ChangePurge(r) => Shape'
<1> DEFINE x == req[r]
<1>a. x \in Req
  BY DEF Shape, TypeOK
<1>b. ASSUME NEW u \in User, pw[u] < MaxPw, pw' = [pw EXCEPT ![u] = @ + 1],
             NEW q \in Req, q.op \notin WithToken \cup Drawing, Becomes(r, q),
             UNCHANGED <<users, row, live, lapsed, tokens, history>>
      PROVE  Shape'
  <2>1. req' \in [Request -> Req] /\ RequestsHoldTokens' /\ DrawnOnce'
    BY <1>b, RequestsShape DEF RowsStay
  <2>2. RowsWellFormed' /\ TokensNameSessions'
    BY <1>b DEF Shape, RowsWellFormed, TokensNameSessions, NamesSession, GrantToken
  <2>3. pw' \in [User -> Pw]
    BY <1>b, PwSuccessor DEF Shape, TypeOK
  <2> QED BY <1>b, <2>1, <2>2, <2>3 DEF Shape, TypeOK, history
<1>1. ASSUME NEW u \in User, ResetSetPassword(r, u)
      PROVE  Shape'
  <2> DEFINE q == [op |-> "purgeAll", user |-> u, pw |-> pw[u] + 1]
  <2>1. pw[u] + 1 \in Pw
    BY <1>1, PwSuccessor DEF ResetSetPassword, Shape, TypeOK
  <2>2. q \in Req /\ q.op \notin WithToken \cup Drawing
    BY <2>1 DEF Req, ResetReq, WithToken, Drawing
  <2> QED BY <1>1, <1>b, <2>2 DEF ResetSetPassword
<1>2. ASSUME ResetPurge(r)
      PROVE  Shape'
  <2>1. x.user \in User /\ x.pw \in Pw
    BY <1>2, <1>a, RequestFields DEF ResetPurge, ResetReq
  <2> QED BY <1>2, <2>1, PurgeTyped, DeleteShape, IdleIsReq DEF ResetPurge, Shape, TypeOK
<1>3. ASSUME NEW u \in User, NEW c \in Sid \cup {NoSid}, ChangeVerify(r, u, c)
      PROVE  Shape'
  <2> DEFINE q == [op |-> "setPassword", user |-> u, pw |-> pw[u], sid |-> c]
  <2>1. q \in Req /\ q.op \notin WithToken \cup Drawing
    BY DEF Req, ChangeReq, WithToken, Drawing, Shape, TypeOK
  <2> QED BY <1>3, <2>1, MoveShape DEF ChangeVerify
<1>4. ASSUME ChangeSetPassword(r)
      PROVE  Shape'
  <2>1. x \in ChangeReq
    BY <1>4, <1>a, RequestFields DEF ChangeSetPassword
  <2>2. x.user \in User /\ x.sid \in Sid \cup {NoSid}
    BY <2>1 DEF ChangeReq
  <2> DEFINE q == [op |-> "purgeOthers", user |-> x.user, pw |-> pw[x.user] + 1, sid |-> x.sid]
  <2>3. pw[x.user] + 1 \in Pw
    BY <1>4, <2>2, PwSuccessor DEF ChangeSetPassword, Shape, TypeOK
  <2>4. q \in Req /\ q.op \notin WithToken \cup Drawing
    BY <2>2, <2>3 DEF Req, ChangeReq, WithToken, Drawing
  <2> QED BY <1>4, <1>b, <2>2, <2>4 DEF ChangeSetPassword
<1>5. ChangeFails(r) => Shape'
  BY EndShape DEF ChangeFails
<1>6. ASSUME ChangePurge(r)
      PROVE  Shape'
  <2>1. x.user \in User /\ x.pw \in Pw
    BY <1>6, <1>a, RequestFields DEF ChangePurge, ChangeReq
  <2>2. spared' \subseteq DOMAIN row
    BY <1>6 DEF ChangePurge, Shape, TypeOK, RowsWellFormed
  <2> QED BY <1>6, <2>1, <2>2, PurgeTyped, DeleteShape, IdleIsReq DEF ChangePurge, Shape, TypeOK
<1> QED BY <1>1, <1>2, <1>3, <1>4, <1>5, <1>6

LEMMA EnvironmentShape ==
  ASSUME Shape
  PROVE  /\ \A r \in Request, u \in User, c \in Sid : CompleteProfile(r, u, c) => Shape'
         /\ \A s \in Sid : Lapse(s) => Shape'
         /\ Crash => Shape'
<1>1. ASSUME NEW r \in Request, NEW u \in User, NEW c \in Sid, CompleteProfile(r, u, c)
      PROVE  Shape'
  <2>1. ProfileToken(u, c) \in Token
    BY DEF ProfileToken, Token
  <2>2. TokensNameSessions'
    BY <1>1 DEF CompleteProfile, AccessSids, ProfileToken, Shape, TokensNameSessions, NamesSession
  <2> QED BY <1>1, <2>1, <2>2 DEF CompleteProfile, Shape, TypeOK, RowsWellFormed,
               NamesSession, GrantToken, RequestsHoldTokens, DrawnOnce, history
<1>2. ASSUME NEW s \in Sid, Lapse(s)
      PROVE  Shape'
  BY <1>2 DEF Lapse, Rotating, Shape, TypeOK, RowsWellFormed, TokensNameSessions,
              NamesSession, GrantToken, RequestsHoldTokens, DrawnOnce
<1>3. ASSUME Crash
      PROVE  Shape'
  <2>1. req' \in [Request -> Req] /\ RequestsHoldTokens' /\ DrawnOnce'
    BY <1>3, IdleIsReq DEF Crash, RequestsHoldTokens, DrawnOnce
  <2> QED BY <1>3, <2>1 DEF Crash, Shape, TypeOK, RowsWellFormed, TokensNameSessions,
              NamesSession, GrantToken
<1> QED BY <1>1, <1>2, <1>3

LEMMA InitShape == Init => Shape
<1> SUFFICES ASSUME Init PROVE Shape
  OBVIOUS
<1>1. TypeOK
  BY IdleIsReq, BoundsAssumption DEF Init, TypeOK, Pw
<1>2. \A r \in Request : req[r].op \notin WithToken \cup Drawing
  BY IdleIsReq DEF Init
<1> QED BY <1>1, <1>2 DEF Init, Shape, RowsWellFormed, TokensNameSessions,
             RequestsHoldTokens, DrawnOnce

LEMMA StutterShape == Shape /\ UNCHANGED vars => Shape'
  BY DEF vars, history, Shape, TypeOK, RowsWellFormed, TokensNameSessions, NamesSession,
         GrantToken, RequestsHoldTokens, DrawnOnce

LEMMA NextShape == Shape /\ [Next]_vars => Shape'
<1> SUFFICES ASSUME Shape, Next PROVE Shape'
  BY StutterShape
<1>1. ASSUME NEW r \in Request, Arrive(r)
      PROVE  Shape'
  BY <1>1, LoginShape, RefreshShape, RevocationShape, PasswordShape, EnvironmentShape
     DEF Arrive, Logout, LogoutAll, RevokeToken, DeleteSession, RevokeOtherSessions
<1>2. ASSUME NEW r \in Request, Continue(r)
      PROVE  Shape'
  BY <1>2, LoginShape, RefreshShape, RotateShape, RevocationShape, PasswordShape
     DEF Continue
<1> QED BY <1>1, <1>2, EnvironmentShape DEF Next

\* The sets the variables range over; with it, tokens name recorded sessions of
\* their own account, and an id is drawn by one handler and never used twice.
THEOREM TypeCorrect == Spec => []TypeOK
<1>1. Init => Shape
  BY InitShape
<1>2. Shape /\ [Next]_vars => Shape'
  BY NextShape
<1>3. Shape => TypeOK
  BY DEF Shape
<1> QED BY <1>1, <1>2, <1>3, PTL DEF Spec

-----------------------------------------------------------------------------
(* Replays: a token that reaches a comparison of hashes and fails it is not *)
(* the grant token of the row found, hence none that was ever stored.       *)

\* A step of the handler in slot r touches no other request.
OnlyMoves(r) == \A p \in Request \ {r} : req'[p] = req[p]

LEMMA StepMovesOne ==
  ASSUME Shape, NEW r \in Request, Arrive(r) \/ Continue(r)
  PROVE  OnlyMoves(r)
<1>1. ASSUME NEW q, Becomes(r, q) PROVE OnlyMoves(r)
  BY <1>1 DEF Shape, TypeOK, Becomes, OnlyMoves
<1>2. CASE req' = req
  BY <1>2 DEF OnlyMoves
<1>3. CASE LoginCreateSession(r) \/ LoginFails(r) \/ RefreshRejected(r)
           \/ RefreshMismatch(r) \/ RefreshCheckUser(r) \/ RefreshUserGone(r)
  BY <1>1, <1>3 DEF LoginCreateSession, LoginFails, RefreshRejected, RefreshMismatch,
     RefreshCheckUser, RefreshUserGone, End
<1>4. CASE RefreshRotate(r) \/ RefreshWipe(r) \/ RefreshDrop(r) \/ ResetPurge(r)
           \/ ChangeSetPassword(r) \/ ChangeFails(r) \/ ChangePurge(r) \/ DeleteUserRow(r)
  BY <1>1, <1>4 DEF RefreshRotate, RefreshWipe, RefreshDrop, ResetPurge,
     ChangeSetPassword, ChangeFails, ChangePurge, DeleteUserRow, End
<1>5. ASSUME NEW s \in Sid, RefreshMatch(r, s) PROVE OnlyMoves(r)
  BY <1>1, <1>5 DEF RefreshMatch
<1>6. Continue(r) => OnlyMoves(r)
  BY <1>3, <1>4, <1>5 DEF Continue
<1>7. ASSUME NEW u \in User, NEW s \in Sid,
             \/ LoginAuthenticate(r, u, s)
             \/ \E v \in Pw : LoginResume(r, u, v, s)
      PROVE  OnlyMoves(r)
  BY <1>1, <1>7 DEF LoginAuthenticate, LoginResume
<1>8. ASSUME NEW u \in User, NEW s \in Sid,
             DeleteSession(r, u, s) \/ RevokeOtherSessions(r, u, s) \/ CompleteProfile(r, u, s)
      PROVE  req' = req
  BY <1>8 DEF DeleteSession, RevokeOtherSessions, CompleteProfile, RevokeNow
<1>9. ASSUME NEW t,
             RefreshPresent(r, t) \/ Logout(r, t) \/ RevokeToken(r, t)
      PROVE  OnlyMoves(r)
  BY <1>1, <1>2, <1>9 DEF RefreshPresent, Logout, RevokeToken, RevokeNow
<1>10. ASSUME NEW u \in User,
              \/ ResetSetPassword(r, u) \/ DeleteUserSessions(r, u) \/ LogoutAll(r, u)
              \/ \E c \in Sid \cup {NoSid} : ChangeVerify(r, u, c)
       PROVE  OnlyMoves(r)
  BY <1>1, <1>2, <1>10 DEF ResetSetPassword, DeleteUserSessions, LogoutAll, RevokeNow, ChangeVerify
<1>11. Arrive(r) => OnlyMoves(r)
  BY <1>2, <1>7, <1>8, <1>9, <1>10 DEF Arrive
<1> QED BY <1>6, <1>11

LEMMA ReplayStep ==
  ASSUME Shape, ReplayBranchSeesNoReplay, [Next]_vars
  PROVE  ReplayBranchSeesNoReplay'
<1> DEFINE Branch(q) == q.op \in {"wipe", "drop"} => q.tok.mint # "grant"
<1> SUFFICES ASSUME NEW r \in Request PROVE Branch(req'[r])
  BY DEF ReplayBranchSeesNoReplay
<1>a. Branch(req[r])
  BY DEF ReplayBranchSeesNoReplay
<1>b. req \in [Request -> Req]
  BY DEF Shape, TypeOK
<1>1. CASE req'[r] = req[r]
  BY <1>a, <1>1
<1>2. CASE RefreshMismatch(r)
  <2> DEFINE t == req[r].tok
  <2>1. t \in Token /\ NamesSession(t)
    BY <1>2 DEF RefreshMismatch, Shape, RequestsHoldTokens, WithToken
  <2>2. row[t.sid].hash = [user |-> t.user, sid |-> t.sid, mint |-> "grant"]
    BY <2>1 DEF Shape, RowsWellFormed, NamesSession, GrantToken
  <2>3. t.mint # "grant"
    BY <1>2, <2>1, <2>2 DEF RefreshMismatch, Token
  <2> QED BY <1>2, <1>b, <2>3 DEF RefreshMismatch, Becomes
<1>3. CASE ~RefreshMismatch(r) /\ req'[r] # req[r]
  <2>1. CASE UNCHANGED vars
    BY <1>3, <2>1 DEF vars
  <2>2. ASSUME NEW p \in Request, Arrive(p) \/ Continue(p), p # r
        PROVE  req'[r] = req[r]
    BY <2>2, StepMovesOne DEF OnlyMoves
  <2>3. ASSUME Arrive(r)
        PROVE  req'[r] = req[r] \/ req'[r].op \notin {"wipe", "drop"}
    <3>1. ASSUME NEW q, Becomes(r, q), q.op \notin {"wipe", "drop"}
          PROVE  req'[r].op \notin {"wipe", "drop"}
      BY <1>b, <3>1 DEF Becomes
    <3>2. ASSUME NEW u \in User, NEW s,
                 \/ LoginAuthenticate(r, u, s) \/ ChangeVerify(r, u, s)
                 \/ \E v \in Pw : LoginResume(r, u, v, s)
          PROVE  req'[r].op \notin {"wipe", "drop"}
      BY <3>1, <3>2 DEF LoginAuthenticate, LoginResume, ChangeVerify
    <3>3. ASSUME NEW u \in User, ResetSetPassword(r, u) \/ DeleteUserSessions(r, u)
          PROVE  req'[r].op \notin {"wipe", "drop"}
      BY <3>1, <3>3 DEF ResetSetPassword, DeleteUserSessions
    <3>4. ASSUME NEW t \in Presented, RefreshPresent(r, t)
          PROVE  req'[r].op \notin {"wipe", "drop"}
      BY <3>1, <3>4 DEF RefreshPresent
    <3> QED BY <2>3, <3>2, <3>3, <3>4 DEF Arrive, Logout, LogoutAll, RevokeToken, DeleteSession,
                RevokeOtherSessions, CompleteProfile, RevokeNow
  <2>4. ASSUME NEW s \in Sid, RefreshMatch(r, s)
        PROVE  req'[r].op \notin {"wipe", "drop"}
    BY <1>b, <2>4 DEF RefreshMatch, Becomes
  <2>5. ASSUME Continue(r), ~RefreshMismatch(r)
        PROVE  req'[r].op \notin {"wipe", "drop"}
    BY <1>b, <2>4, <2>5 DEF Continue, LoginCreateSession, LoginFails, RefreshRejected,
       RefreshCheckUser, RefreshUserGone, RefreshRotate, RefreshWipe, RefreshDrop,
       ResetPurge, ChangeSetPassword, ChangeFails, ChangePurge, DeleteUserRow,
       End, Becomes, Idle
  <2>6. ASSUME Crash PROVE req'[r].op \notin {"wipe", "drop"}
    BY <2>6 DEF Crash, Idle
  <2>7. ASSUME NEW x \in Sid, Lapse(x) PROVE req'[r] = req[r]
    BY <2>7 DEF Lapse
  <2> QED BY <1>3, <2>1, <2>2, <2>3, <2>5, <2>6, <2>7 DEF Next
<1> QED BY <1>1, <1>2, <1>3

\* The reaction to a replay is never reached with a rotated refresh token, only
\* with tokens that were never stored.
THEOREM ReplaysMissTheBranch == Spec => []ReplayBranchSeesNoReplay
<1>1. Init => Shape /\ ReplayBranchSeesNoReplay
  BY InitShape DEF Init, Idle, ReplayBranchSeesNoReplay
<1>2. Shape /\ ReplayBranchSeesNoReplay /\ [Next]_vars
        => Shape' /\ ReplayBranchSeesNoReplay'
  BY NextShape, ReplayStep
<1> QED BY <1>1, <1>2, PTL DEF Spec

-----------------------------------------------------------------------------
(* Lineage: a rotation no one overtook still has its session to replace, so *)
(* the main line of a sign-in never forks and never outlives a revocation.  *)

Rotates(q) == q.op \in {"checkUser", "rotate"}

ReadsHold ==
  \A p \in Request :
    Rotates(req[p]) /\ p \notin overtaken => req[p].tok.sid \in live \ lapsed

\* A replaced session is gone for good.
ParentsGone ==
  \A s \in DOMAIN row : row[s].parent # s => row[s].parent \in DOMAIN row \ live

Lineage == /\ ReadsHold
           /\ ParentsGone
           /\ OneSessionPerSignIn
           /\ RevokedSignInIsOver
           /\ ExpiredNotRenewed

\* Nothing is written to the table.
LEMMA LineageMove ==
  ASSUME Shape, Lineage, NEW r \in Request, OnlyMoves(r),
         UNCHANGED <<row, live, lapsed, revoked>>, overtaken \ {r} \subseteq overtaken',
         Rotates(req'[r]) /\ r \notin overtaken' => req'[r].tok.sid \in live \ lapsed
  PROVE  Lineage'
<1>1. ReadsHold'
  BY DEF OnlyMoves, Lineage, ReadsHold, Rotates
<1> QED BY <1>1 DEF Lineage, ParentsGone, OneSessionPerSignIn, RevokedSignInIsOver,
             ExpiredNotRenewed, MainLine

\* The sessions of D are revoked.
LEMMA LineageDelete ==
  ASSUME Shape, Lineage, NEW r \in Request, OnlyMoves(r), ~Rotates(req'[r]), NEW D,
         live' = live \ D,
         revoked' = revoked \cup {row[s].root : s \in {x \in D \cap live : ~row[x].stray}},
         (overtaken \cup Rotating(D \cap live)) \ {r} \subseteq overtaken',
         UNCHANGED <<row, lapsed>>
  PROVE  Lineage'
<1>1. ReadsHold'
  <2> SUFFICES ASSUME NEW p \in Request, Rotates(req'[p]), p \notin overtaken'
               PROVE  req'[p].tok.sid \in live' \ lapsed'
    BY DEF ReadsHold, Rotates
  <2>1. p # r /\ req'[p] = req[p] /\ p \notin overtaken /\ p \notin Rotating(D \cap live)
    BY DEF OnlyMoves
  <2> QED BY <2>1 DEF Lineage, ReadsHold, Rotating, Rotates
<1>2. RevokedSignInIsOver'
  <2> SUFFICES ASSUME NEW s \in MainLine', row[s].root \in revoked' PROVE FALSE
    BY DEF RevokedSignInIsOver
  <2>1. s \in MainLine /\ s \notin D
    BY DEF MainLine
  <2>2. row[s].root \notin revoked
    BY <2>1 DEF Lineage, RevokedSignInIsOver
  <2>3. PICK x \in D \cap live : ~row[x].stray /\ row[x].root = row[s].root
    BY <2>2
  <2> QED BY <2>1, <2>3 DEF Lineage, OneSessionPerSignIn, MainLine
<1> QED BY <1>1, <1>2 DEF Lineage, ParentsGone, OneSessionPerSignIn, ExpiredNotRenewed, MainLine

LEMMA LineageLogin ==
  ASSUME Shape, Lineage, NEW r \in Request, LoginCreateSession(r)
  PROVE  Lineage'
<1> DEFINE n == req[r].new
<1>1. OnlyMoves(r) /\ req'[r].op = "idle"
  BY StepMovesOne DEF Continue, LoginCreateSession, Becomes, Shape, TypeOK, Idle
<1>2. n \notin DOMAIN row
  BY DEF LoginCreateSession, Shape, DrawnOnce, Drawing
<1>3. /\ DOMAIN row' = DOMAIN row \cup {n}
      /\ \A x \in DOMAIN row : row'[x] = row[x]
      /\ row'[n].root = n /\ row'[n].parent = n
  <2> DEFINE new == [user |-> req[r].user, hash |-> GrantToken(req[r].user, n),
                     parent |-> n, root |-> n, asOf |-> req[r].pw, stray |-> r \in overtaken]
  <2>1. new.root = n /\ new.parent = n
    OBVIOUS
  <2>2. Create(n, new)
    BY DEF LoginCreateSession
  <2> HIDE DEF new
  <2> QED BY <1>2, <2>1, <2>2 DEF Create
<1>4. live' = live \cup {n} /\ live \subseteq DOMAIN row /\ revoked \subseteq DOMAIN row
  BY DEF LoginCreateSession, Shape, TypeOK
<1>5. UNCHANGED <<lapsed, revoked>> /\ overtaken' = overtaken \ {r}
  BY DEF LoginCreateSession
<1>6. ReadsHold'
  BY <1>1, <1>4, <1>5 DEF OnlyMoves, Lineage, ReadsHold, Rotates
<1>7. ParentsGone'
  BY <1>2, <1>3, <1>4 DEF Lineage, ParentsGone
<1>8. \A s \in MainLine' : s = n \/ (s \in MainLine /\ row'[s] = row[s] /\ row[s].root # n)
  BY <1>2, <1>3, <1>4 DEF MainLine, Shape, RowsWellFormed
<1>9. OneSessionPerSignIn' /\ RevokedSignInIsOver'
  BY <1>2, <1>3, <1>4, <1>5, <1>8 DEF Lineage, OneSessionPerSignIn, RevokedSignInIsOver
<1>10. ExpiredNotRenewed'
  BY <1>3, <1>5 DEF Lineage, ExpiredNotRenewed
<1> QED BY <1>6, <1>7, <1>9, <1>10 DEF Lineage

LEMMA LineageRotate ==
  ASSUME Shape, Lineage, NEW r \in Request, RefreshRotate(r)
  PROVE  Lineage'
<1> DEFINE n == req[r].new
           old == req[r].tok.sid
<1>1. OnlyMoves(r) /\ req'[r].op = "idle"
  BY StepMovesOne DEF Continue, RefreshRotate, Becomes, Shape, TypeOK, Idle
<1>2. n \notin DOMAIN row /\ old \in DOMAIN row
  BY DEF RefreshRotate, Shape, DrawnOnce, Drawing, RequestsHoldTokens, WithToken,
         NamesSession
<1>3. /\ DOMAIN row' = DOMAIN row \cup {n}
      /\ \A x \in DOMAIN row : row'[x] = row[x]
      /\ row'[n].root = row[old].root /\ row'[n].parent = old
      /\ ~row'[n].stray => ~row[old].stray /\ r \notin overtaken
  <2> DEFINE new == [user |-> req[r].tok.user, hash |-> GrantToken(req[r].tok.user, n),
                     parent |-> old, root |-> row[old].root, asOf |-> row[old].asOf,
                     stray |-> row[old].stray \/ r \in overtaken]
  <2>1. /\ new.root = row[old].root /\ new.parent = old
        /\ ~new.stray => ~row[old].stray /\ r \notin overtaken
    OBVIOUS
  <2>2. Create(n, new)
    BY DEF RefreshRotate
  <2> HIDE DEF new
  <2> QED BY <1>2, <2>1, <2>2 DEF Create
<1>4. live' = (live \ {old}) \cup {n} /\ live \subseteq DOMAIN row
  BY DEF RefreshRotate, ReplaceRow, Shape, TypeOK
<1>5. UNCHANGED <<lapsed, revoked>> /\ overtaken' = (overtaken \cup Rotating({old})) \ {r}
  BY DEF RefreshRotate
<1>6. r \notin overtaken => old \in live \ lapsed
  BY DEF RefreshRotate, Lineage, ReadsHold, Rotates
<1>7. ReadsHold'
  <2> SUFFICES ASSUME NEW p \in Request, Rotates(req'[p]), p \notin overtaken'
               PROVE  req'[p].tok.sid \in live' \ lapsed'
    BY DEF ReadsHold, Rotates
  <2>1. p # r /\ req'[p] = req[p] /\ p \notin overtaken /\ p \notin Rotating({old})
    BY <1>1, <1>5 DEF OnlyMoves, Rotates
  <2> QED BY <1>4, <1>5, <2>1 DEF Lineage, ReadsHold, Rotating, Rotates
<1>8. ParentsGone'
  BY <1>2, <1>3, <1>4 DEF Lineage, ParentsGone
<1>9. n \in MainLine' => old \in MainLine
  BY <1>3, <1>6 DEF MainLine
<1>10. \A s \in MainLine' : s = n \/ (s \in MainLine \ {old} /\ row'[s] = row[s])
  BY <1>2, <1>3, <1>4 DEF MainLine
<1>11. OneSessionPerSignIn' /\ RevokedSignInIsOver'
  BY <1>3, <1>5, <1>9, <1>10 DEF Lineage, OneSessionPerSignIn, RevokedSignInIsOver
<1>12. ExpiredNotRenewed'
  BY <1>3, <1>5, <1>6 DEF Lineage, ExpiredNotRenewed
<1> QED BY <1>7, <1>8, <1>11, <1>12 DEF Lineage

LEMMA LineageLapse ==
  ASSUME Shape, Lineage, NEW s \in Sid, Lapse(s)
  PROVE  Lineage'
<1>1. ReadsHold'
  BY DEF Lapse, Rotating, Lineage, ReadsHold, Rotates
<1>2. ExpiredNotRenewed'
  BY DEF Lapse, Lineage, ParentsGone, ExpiredNotRenewed
<1> QED BY <1>1, <1>2 DEF Lapse, Lineage, ParentsGone, OneSessionPerSignIn,
             RevokedSignInIsOver, MainLine

\* What Becomes leaves in the slot.
LEMMA SlotOf ==
  ASSUME Shape, NEW r \in Request, NEW q, Becomes(r, q)
  PROVE  req'[r] = q
  BY DEF Becomes, Shape, TypeOK

LEMMA LineageReads ==
  ASSUME Shape, Lineage, NEW r \in Request
  PROVE  /\ End(r) => Lineage'
         /\ \A u \in User, s \in Sid : LoginAuthenticate(r, u, s) => Lineage'
         /\ \A u \in User, v \in Pw, s \in Sid : LoginResume(r, u, v, s) => Lineage'
         /\ \A t \in Presented : RefreshPresent(r, t) => Lineage'
         /\ \A s \in Sid : RefreshMatch(r, s) => Lineage'
         /\ RefreshMismatch(r) => Lineage'
         /\ RefreshCheckUser(r) => Lineage'
         /\ \A u \in User : ResetSetPassword(r, u) => Lineage'
         /\ \A u \in User, c \in Sid \cup {NoSid} : ChangeVerify(r, u, c) => Lineage'
         /\ ChangeSetPassword(r) => Lineage'
         /\ \A u \in User, c \in Sid : CompleteProfile(r, u, c) => Lineage'
<1>1. ASSUME NEW q, Becomes(r, q), ~Rotates(q),
             UNCHANGED <<row, live, lapsed, revoked>>, overtaken \ {r} \subseteq overtaken'
      PROVE  Lineage'
  <2>1. OnlyMoves(r) /\ req'[r] = q
    BY <1>1 DEF OnlyMoves, Becomes, Shape, TypeOK
  <2> QED BY <1>1, <2>1, LineageMove
<1>2. ASSUME End(r) PROVE Lineage'
  BY <1>1, <1>2 DEF End, Idle, Rotates
<1>3. ASSUME NEW u \in User, NEW s \in Sid, LoginAuthenticate(r, u, s) PROVE Lineage'
  BY <1>1, <1>3 DEF LoginAuthenticate, Rotates, history
<1>4. ASSUME NEW t \in Presented, RefreshPresent(r, t)
      PROVE  Lineage'
  BY <1>1, <1>4 DEF RefreshPresent, Rotates, history
<1>5. ASSUME NEW s \in Sid, RefreshMatch(r, s) PROVE Lineage'
  <2>1. OnlyMoves(r)
    BY <1>5, StepMovesOne DEF Continue
  <2>2. req'[r].tok = req[r].tok
    BY <1>5, SlotOf DEF RefreshMatch
  <2>3. req[r].tok.sid \in live \ lapsed
    BY <1>5 DEF RefreshMatch, Usable
  <2> QED BY <1>5, <2>1, <2>2, <2>3, LineageMove DEF RefreshMatch, history
<1>6. ASSUME RefreshMismatch(r) PROVE Lineage'
  BY <1>1, <1>6 DEF RefreshMismatch, Rotates, history
<1>7. ASSUME RefreshCheckUser(r) PROVE Lineage'
  <2>1. OnlyMoves(r)
    BY <1>7, StepMovesOne DEF Continue
  <2>2. req'[r].tok = req[r].tok /\ overtaken' = overtaken
    BY <1>7, SlotOf DEF RefreshCheckUser, history
  <2>3. r \notin overtaken => req[r].tok.sid \in live \ lapsed
    BY <1>7 DEF RefreshCheckUser, Lineage, ReadsHold, Rotates
  <2> QED BY <1>7, <2>1, <2>2, <2>3, LineageMove DEF RefreshCheckUser, history
<1>8. ASSUME NEW u \in User, ResetSetPassword(r, u) PROVE Lineage'
  BY <1>1, <1>8 DEF ResetSetPassword, Rotates, history
<1>9. ASSUME NEW u \in User, NEW c \in Sid \cup {NoSid}, ChangeVerify(r, u, c) PROVE Lineage'
  BY <1>1, <1>9 DEF ChangeVerify, Rotates, history
<1>10. ASSUME ChangeSetPassword(r) PROVE Lineage'
  BY <1>1, <1>10 DEF ChangeSetPassword, Rotates, history
<1>11. ASSUME NEW u \in User, NEW c \in Sid, CompleteProfile(r, u, c) PROVE Lineage'
  BY <1>11, LineageMove DEF CompleteProfile, history, OnlyMoves, IsIdle, Rotates
<1>12. ASSUME NEW u \in User, NEW v \in Pw, NEW s \in Sid, LoginResume(r, u, v, s)
       PROVE  Lineage'
  BY <1>1, <1>12 DEF LoginResume, Rotates
<1> QED BY <1>2, <1>3, <1>4, <1>5, <1>6, <1>7, <1>8, <1>9, <1>10, <1>11, <1>12

LEMMA LineageRevocations ==
  ASSUME Shape, Lineage, NEW r \in Request
  PROVE  /\ RefreshWipe(r) => Lineage'
         /\ RefreshDrop(r) => Lineage'
         /\ \A S : RevokeNow(r, S) => Lineage'
         /\ ResetPurge(r) => Lineage'
         /\ ChangePurge(r) => Lineage'
         /\ \A u \in User : DeleteUserSessions(r, u) => Lineage'
         /\ DeleteUserRow(r) => Lineage'
<1>1. ASSUME NEW D, Revoke(r, D), NEW q, Becomes(r, q), ~Rotates(q), UNCHANGED <<row, lapsed>>
      PROVE  Lineage'
  <2>1. OnlyMoves(r) /\ req'[r] = q
    BY <1>1 DEF OnlyMoves, Becomes, Shape, TypeOK
  <2> QED BY <1>1, <2>1, LineageDelete DEF Revoke
<1>2. ASSUME NEW D, NEW u, NEW v, Purge(r, u, v, D), Becomes(r, Idle), UNCHANGED <<row, lapsed>>
      PROVE  Lineage'
  <2>1. OnlyMoves(r) /\ ~Rotates(req'[r])
    BY <1>2 DEF OnlyMoves, Becomes, Shape, TypeOK, Idle, Rotates
  <2> QED BY <1>2, <2>1, LineageDelete DEF Purge
<1>3. ~Rotates(Idle)
  BY DEF Idle, Rotates
<1>4. RefreshWipe(r) => Lineage'
  BY <1>1, <1>3 DEF RefreshWipe
<1>5. RefreshDrop(r) => Lineage'
  BY <1>1, <1>3 DEF RefreshDrop
<1>6. ASSUME NEW S, RevokeNow(r, S) PROVE Lineage'
  <2>1. OnlyMoves(r) /\ ~Rotates(req'[r])
    BY <1>6 DEF RevokeNow, IsIdle, OnlyMoves, Rotates
  <2> QED BY <1>6, <2>1, LineageDelete DEF RevokeNow, Revoke
<1>7. ResetPurge(r) => Lineage'
  BY <1>2 DEF ResetPurge
<1>8. ChangePurge(r) => Lineage'
  BY <1>2 DEF ChangePurge
<1>9. ASSUME NEW u \in User, DeleteUserSessions(r, u) PROVE Lineage'
  BY <1>1, <1>9 DEF DeleteUserSessions, Rotates
<1>10. DeleteUserRow(r) => Lineage'
  BY <1>1, <1>3 DEF DeleteUserRow
<1> QED BY <1>4, <1>5, <1>6, <1>7, <1>8, <1>9, <1>10

LEMMA LineageStep == Shape /\ Lineage /\ [Next]_vars => Lineage'
<1> SUFFICES ASSUME Shape, Lineage, [Next]_vars PROVE Lineage'
  OBVIOUS
<1>1. ASSUME NEW r \in Request, Arrive(r) PROVE Lineage'
  BY <1>1, LineageReads, LineageRevocations
     DEF Arrive, Logout, LogoutAll, RevokeToken, DeleteSession, RevokeOtherSessions
<1>2. ASSUME NEW r \in Request, Continue(r) PROVE Lineage'
  BY <1>2, LineageReads, LineageRevocations, LineageLogin, LineageRotate
     DEF Continue, LoginFails, RefreshRejected, RefreshUserGone, ChangeFails
<1>3. CASE Crash
  <2>1. \A r \in Request : req'[r].op = "idle"
    BY <1>3 DEF Crash, Idle
  <2> QED BY <1>3, <2>1 DEF Crash, Lineage, ReadsHold, Rotates, ParentsGone,
             OneSessionPerSignIn, RevokedSignInIsOver, ExpiredNotRenewed, MainLine
<1>4. CASE UNCHANGED vars
  BY <1>4 DEF vars, history, Lineage, ReadsHold, Rotates, ParentsGone,
      OneSessionPerSignIn, RevokedSignInIsOver, ExpiredNotRenewed, MainLine
<1> QED BY <1>1, <1>2, <1>3, <1>4, LineageLapse DEF Next

LEMMA LineageAlways == Spec => [](Shape /\ Lineage)
<1>1. Init => Shape /\ Lineage
  <2> SUFFICES ASSUME Init PROVE Lineage
    BY InitShape
  <2>1. \A r \in Request : req[r].op = "idle"
    BY DEF Init, Idle
  <2> QED BY <2>1 DEF Init, Lineage, ReadsHold, Rotates, ParentsGone,
             OneSessionPerSignIn, RevokedSignInIsOver, ExpiredNotRenewed, MainLine
<1>2. Shape /\ Lineage /\ [Next]_vars => (Shape /\ Lineage)'
  BY NextShape, LineageStep
<1> QED BY <1>1, <1>2, PTL DEF Spec

\* However refreshes, revocations, expiry and restarts interleave, a sign-in has
\* at most one live session none of whose ancestors was committed on an
\* outdated read.
THEOREM OneSession == Spec => []OneSessionPerSignIn
<1>1. Shape /\ Lineage => OneSessionPerSignIn
  BY DEF Lineage
<1> QED BY <1>1, LineageAlways, PTL

\* After its revocation a sign-in has no such session again.
THEOREM RevocationIsFinal == Spec => []RevokedSignInIsOver
<1>1. Shape /\ Lineage => RevokedSignInIsOver
  BY DEF Lineage
<1> QED BY <1>1, LineageAlways, PTL

\* And none is the successor of a session that had expired when it was read.
THEOREM ExpiryHolds == Spec => []ExpiredNotRenewed
<1>1. Shape /\ Lineage => ExpiredNotRenewed
  BY DEF Lineage
<1> QED BY <1>1, LineageAlways, PTL

-----------------------------------------------------------------------------
(* Passwords: a purge deletes what is older than the version it completes,   *)
(* and every sign-in still in flight with an older version is overtaken.     *)

\* A sign-in no purge overtook checked a password at least as new as the last purge.
LoginsCurrent ==
  \A p \in Request :
    req[p].op = "login" /\ p \notin overtaken => req[p].pw >= purged[req[p].user]

\* A purge completes a version already written.
Purges(q) == q.op \in {"purgeAll", "purgeOthers"}
PurgesWritten ==
  \A p \in Request : Purges(req[p]) => req[p].pw <= pw[req[p].user]

PurgedBehindPw == \A u \in User : purged[u] <= pw[u]

Passwords == /\ LoginsCurrent
             /\ PurgesWritten
             /\ PurgedBehindPw
             /\ OldPasswordSessionsPurged

LEMMA PwInt == Pw \subseteq Int
  BY BoundsAssumption DEF Pw

\* Neither rows nor versions nor purges change; sessions may go.
LEMMA PasswordsMove ==
  ASSUME Shape, Passwords, NEW r \in Request, OnlyMoves(r),
         UNCHANGED <<row, pw, purged, spared>>, live' \subseteq live,
         overtaken \ {r} \subseteq overtaken',
         ~Purges(req'[r]),
         req'[r].op = "login" /\ r \notin overtaken' => req'[r].pw >= purged[req'[r].user]
  PROVE  Passwords'
<1>1. LoginsCurrent' /\ PurgesWritten'
  BY DEF OnlyMoves, Passwords, LoginsCurrent, PurgesWritten, Purges
<1> QED BY <1>1 DEF Passwords, PurgedBehindPw, OldPasswordSessionsPurged, MainLine, UserOf

\* A handler that ends, or goes on with neither a sign-in nor a purge.
LEMMA PasswordsQuiet ==
  ASSUME Shape, Passwords, NEW r \in Request, NEW q, Becomes(r, q),
         q.op \notin {"login", "purgeAll", "purgeOthers"},
         UNCHANGED <<row, pw, purged, spared>>, live' \subseteq live,
         overtaken \ {r} \subseteq overtaken'
  PROVE  Passwords'
<1>1. OnlyMoves(r) /\ req'[r] = q
  BY DEF OnlyMoves, Becomes, Shape, TypeOK
<1> QED BY <1>1, PasswordsMove DEF Purges

\* The password of u is replaced; the new version is purged next.
LEMMA PasswordsSet ==
  ASSUME Shape, Passwords, NEW r \in Request, NEW u \in User, NEW q, Becomes(r, q),
         Purges(q), q.user = u, q.pw = pw[u] + 1, pw' = [pw EXCEPT ![u] = @ + 1],
         UNCHANGED <<row, live, overtaken, purged, spared>>
  PROVE  Passwords'
<1>1. OnlyMoves(r) /\ req'[r] = q
  BY DEF OnlyMoves, Becomes, Shape, TypeOK
<1>2. /\ pw'[u] = pw[u] + 1
      /\ \A w \in User : pw[w] \in Int /\ purged[w] \in Int /\ pw'[w] >= pw[w] /\ pw'[w] \in Int
  BY PwInt DEF Shape, TypeOK
<1>3. LoginsCurrent'
  BY <1>1 DEF OnlyMoves, Passwords, LoginsCurrent, Purges
<1>4. PurgesWritten'
  <2> SUFFICES ASSUME NEW p \in Request, Purges(req'[p])
               PROVE  req'[p].pw <= pw'[req'[p].user]
    BY DEF PurgesWritten, Purges
  <2>1. CASE p = r
    BY <1>1, <1>2, <2>1
  <2>2. CASE p # r
    <3>1. req'[p] = req[p] /\ req[p].pw <= pw[req[p].user]
      BY <1>1, <2>2 DEF OnlyMoves, Passwords, PurgesWritten, Purges
    <3>2. Purges(req[p]) /\ req[p] \in Req
      BY <3>1 DEF Shape, TypeOK, Purges
    <3>3. req[p].user \in User /\ req[p].pw \in Int
      BY <3>2, RequestFields, PwInt DEF Purges, ResetReq, ChangeReq
    <3> QED BY <1>2, <3>1, <3>3
  <2> QED BY <2>1, <2>2
<1>5. PurgedBehindPw'
  BY <1>2 DEF Passwords, PurgedBehindPw
<1> QED BY <1>3, <1>4, <1>5 DEF Passwords, OldPasswordSessionsPurged, MainLine, UserOf

\* Purging all of u's sessions but those of K completes a version of its password.
LEMMA PasswordsPurge ==
  ASSUME Shape, Passwords, NEW r \in Request, Purges(req[r]), Becomes(r, Idle), NEW K,
         Purge(r, req[r].user, req[r].pw, SessionsOf(req[r].user) \ K),
         spared' = spared \cup {row[s].root : s \in K \cap live},
         UNCHANGED <<row, pw>>
  PROVE  Passwords'
<1> DEFINE u == req[r].user
           v == req[r].pw
<1>1. OnlyMoves(r) /\ req'[r].op = "idle"
  BY DEF OnlyMoves, Becomes, Shape, TypeOK, Idle
<1>2. u \in User /\ v \in Int
  BY RequestFields, PwInt DEF Purges, Shape, TypeOK, ResetReq, ChangeReq
<1>3. \A w \in User : pw[w] \in Int /\ purged[w] \in Int
  BY PwInt DEF Shape, TypeOK
<1>4. purged' = [purged EXCEPT ![u] = IF v > purged[u] THEN v ELSE purged[u]]
  BY DEF Purge
<1>5. \A w \in User : purged'[w] = IF w = u /\ v > purged[u] THEN v ELSE purged[w]
  BY <1>2, <1>4 DEF Shape, TypeOK
<1>6. LoginsCurrent'
  <2> SUFFICES ASSUME NEW p \in Request, req'[p].op = "login", p \notin overtaken'
               PROVE  req'[p].pw >= purged'[req'[p].user]
    BY DEF LoginsCurrent
  <2>1. p # r /\ req'[p] = req[p] /\ p \notin overtaken
        /\ (req[p].user = u => ~(req[p].pw < v))
    BY <1>1 DEF OnlyMoves, Purge
  <2>2. req[p].user \in User /\ req[p].pw \in Int
    BY <2>1, RequestFields, PwInt DEF Shape, TypeOK, LoginReq
  <2>3. req[p].pw >= purged[req[p].user]
    BY <2>1 DEF Passwords, LoginsCurrent
  <2> QED BY <1>2, <1>3, <1>5, <2>1, <2>2, <2>3
<1>7. PurgesWritten'
  BY <1>1 DEF OnlyMoves, Passwords, PurgesWritten, Purges
<1>8. PurgedBehindPw'
  BY <1>2, <1>3, <1>5 DEF Passwords, PurgedBehindPw, PurgesWritten
<1>9. OldPasswordSessionsPurged'
  <2> SUFFICES ASSUME NEW s \in MainLine', row'[s].asOf < purged'[row'[s].user]
               PROVE  row'[s].root \in spared'
    BY DEF OldPasswordSessionsPurged, UserOf
  <2>1. s \in MainLine /\ s \in live /\ s \notin SessionsOf(u) \ K /\ row' = row
    BY DEF MainLine, Purge
  <2>2. row[s].user \in User
    BY <2>1 DEF Shape, TypeOK, Row
  <2>3. CASE row[s].user = u
    BY <2>1, <2>3 DEF SessionsOf
  <2>4. CASE row[s].user # u
    BY <1>5, <2>1, <2>2, <2>4 DEF Passwords, OldPasswordSessionsPurged, UserOf
  <2> QED BY <2>3, <2>4
<1> QED BY <1>6, <1>7, <1>8, <1>9 DEF Passwords

LEMMA PasswordsLogin ==
  ASSUME Shape, Passwords, NEW r \in Request, LoginCreateSession(r)
  PROVE  Passwords'
<1> DEFINE n == req[r].new
           u == req[r].user
           new == [user |-> u, hash |-> GrantToken(u, n), parent |-> n, root |-> n,
                   asOf |-> req[r].pw, stray |-> r \in overtaken]
<1>1. OnlyMoves(r) /\ req'[r].op = "idle"
  BY StepMovesOne, SlotOf DEF Continue, LoginCreateSession, Idle
<1>2. n \notin DOMAIN row
  BY DEF LoginCreateSession, Shape, DrawnOnce, Drawing
<1>3. new.user = u /\ new.asOf = req[r].pw /\ (~new.stray => r \notin overtaken)
  OBVIOUS
<1>4. Create(n, new)
  BY DEF LoginCreateSession
<1> HIDE DEF new
<1>5. row'[n] = new /\ \A x \in DOMAIN row : row'[x] = row[x]
  BY <1>2, <1>4 DEF Create
<1>6. LoginsCurrent' /\ PurgesWritten' /\ PurgedBehindPw'
  BY <1>1 DEF LoginCreateSession, OnlyMoves, Passwords, LoginsCurrent, PurgesWritten,
              PurgedBehindPw, Purges
<1>7. OldPasswordSessionsPurged'
  <2> SUFFICES ASSUME NEW s \in MainLine', row'[s].asOf < purged'[row'[s].user]
               PROVE  row'[s].root \in spared'
    BY DEF OldPasswordSessionsPurged, UserOf
  <2>1. CASE s = n
    <3>1. r \notin overtaken /\ req[r].pw >= purged[u] /\ req[r].pw < purged[u]
      BY <1>3, <1>5, <2>1 DEF MainLine, LoginCreateSession, Passwords, LoginsCurrent
    <3>2. req[r].pw \in Int /\ purged[u] \in Int
      BY RequestFields, PwInt DEF LoginCreateSession, Shape, TypeOK, LoginReq
    <3> QED BY <3>1, <3>2
  <2>2. CASE s # n
    <3>1. s \in MainLine /\ row'[s] = row[s]
      BY <1>5, <2>2 DEF MainLine, LoginCreateSession, Shape, TypeOK
    <3> QED BY <3>1 DEF LoginCreateSession, Passwords, OldPasswordSessionsPurged, UserOf
  <2> QED BY <2>1, <2>2
<1> QED BY <1>6, <1>7 DEF Passwords

LEMMA PasswordsRotate ==
  ASSUME Shape, ReadsHold, Passwords, NEW r \in Request, RefreshRotate(r)
  PROVE  Passwords'
<1> DEFINE n == req[r].new
           old == req[r].tok.sid
           new == [user |-> req[r].tok.user, hash |-> GrantToken(req[r].tok.user, n),
                   parent |-> old, root |-> row[old].root, asOf |-> row[old].asOf,
                   stray |-> row[old].stray \/ r \in overtaken]
<1>1. OnlyMoves(r) /\ req'[r].op = "idle"
  BY StepMovesOne, SlotOf DEF Continue, RefreshRotate, Idle
<1>2. n \notin DOMAIN row /\ req[r].tok.user = row[old].user
  BY DEF RefreshRotate, Shape, DrawnOnce, Drawing, RequestsHoldTokens, WithToken,
         NamesSession
<1>3. /\ new.user = row[old].user /\ new.asOf = row[old].asOf /\ new.root = row[old].root
      /\ ~new.stray => ~row[old].stray /\ r \notin overtaken
  BY <1>2
<1>4. Create(n, new)
  BY DEF RefreshRotate
<1> HIDE DEF new
<1>5. row'[n] = new /\ \A x \in DOMAIN row : row'[x] = row[x]
  BY <1>2, <1>4 DEF Create
<1>6. overtaken \ {r} \subseteq overtaken' /\ UNCHANGED <<pw, purged, spared>>
  BY DEF RefreshRotate
<1>7. LoginsCurrent' /\ PurgesWritten' /\ PurgedBehindPw'
  BY <1>1, <1>6 DEF OnlyMoves, Passwords, LoginsCurrent, PurgesWritten, PurgedBehindPw, Purges
<1>8. OldPasswordSessionsPurged'
  <2> SUFFICES ASSUME NEW s \in MainLine', row'[s].asOf < purged'[row'[s].user]
               PROVE  row'[s].root \in spared'
    BY DEF OldPasswordSessionsPurged, UserOf
  <2>1. CASE s = n
    <3>1. old \in MainLine
      BY <1>3, <1>5, <2>1 DEF MainLine, RefreshRotate, ReadsHold, Rotates
    <3> QED BY <1>3, <1>5, <1>6, <2>1, <3>1 DEF Passwords, OldPasswordSessionsPurged, UserOf
  <2>2. CASE s # n
    <3>1. s \in MainLine /\ row'[s] = row[s]
      BY <1>5, <2>2 DEF MainLine, RefreshRotate, ReplaceRow, Shape, TypeOK
    <3> QED BY <1>6, <3>1 DEF Passwords, OldPasswordSessionsPurged, UserOf
  <2> QED BY <2>1, <2>2
<1> QED BY <1>7, <1>8 DEF Passwords

LEMMA PasswordsArrive ==
  ASSUME Shape, Passwords, NEW r \in Request, Arrive(r)
  PROVE  Passwords'
<1>1. ASSUME NEW u \in User, NEW s \in Sid, LoginAuthenticate(r, u, s) PROVE Passwords'
  <2>1. OnlyMoves(r)
    BY <1>1, StepMovesOne DEF Arrive
  <2>2. req'[r].op = "login" /\ req'[r].user = u /\ req'[r].pw = pw[u]
    BY <1>1, SlotOf DEF LoginAuthenticate
  <2>3. pw[u] >= purged[u]
    BY PwInt DEF Passwords, PurgedBehindPw, Shape, TypeOK
  <2> QED BY <1>1, <2>1, <2>2, <2>3, PasswordsMove DEF LoginAuthenticate, history, Purges
<1>2. ASSUME NEW t \in Presented, RefreshPresent(r, t)
      PROVE  Passwords'
  BY <1>2, PasswordsQuiet DEF RefreshPresent, history
<1>3. ASSUME NEW S, RevokeNow(r, S) PROVE Passwords'
  <2>1. OnlyMoves(r) /\ req'[r].op = "idle"
    BY <1>3 DEF RevokeNow, IsIdle, OnlyMoves
  <2> QED BY <1>3, <2>1, PasswordsMove DEF RevokeNow, Revoke, Purges
<1>4. ASSUME NEW u \in User, ResetSetPassword(r, u) PROVE Passwords'
  BY <1>4, PasswordsSet DEF ResetSetPassword, history, Purges
<1>5. ASSUME NEW u \in User, NEW c \in Sid \cup {NoSid}, ChangeVerify(r, u, c) PROVE Passwords'
  BY <1>5, PasswordsQuiet DEF ChangeVerify, history
<1>6. ASSUME NEW u \in User, NEW c \in Sid, CompleteProfile(r, u, c) PROVE Passwords'
  BY <1>6, PasswordsMove DEF CompleteProfile, history, OnlyMoves, IsIdle, Purges
<1>7. ASSUME NEW u \in User, DeleteUserSessions(r, u) PROVE Passwords'
  BY <1>7, PasswordsQuiet DEF DeleteUserSessions, Revoke
<1>8. ASSUME NEW u \in User, NEW v \in Pw, NEW s \in Sid, LoginResume(r, u, v, s)
      PROVE  Passwords'
  <2>1. OnlyMoves(r)
    BY <1>8, StepMovesOne DEF Arrive
  <2>2. req'[r].op = "login" /\ req'[r].user = u /\ req'[r].pw = v
    BY <1>8, SlotOf DEF LoginResume
  <2>3. r \notin overtaken' => v >= purged[u]
    BY <1>8, PwInt DEF LoginResume, Shape, TypeOK
  <2> QED BY <1>8, <2>1, <2>2, <2>3, PasswordsMove DEF LoginResume, Purges
<1> QED BY <1>1, <1>2, <1>3, <1>4, <1>5, <1>6, <1>7, <1>8
        DEF Arrive, Logout, LogoutAll, RevokeToken, DeleteSession, RevokeOtherSessions

LEMMA PasswordsContinue ==
  ASSUME Shape, ReadsHold, Passwords, NEW r \in Request, Continue(r)
  PROVE  Passwords'
<1>0. Idle.op = "idle"
  BY DEF Idle
<1>1. ASSUME End(r) PROVE Passwords'
  BY <1>0, <1>1, PasswordsQuiet DEF End
<1>2. ASSUME NEW s \in Sid, RefreshMatch(r, s) PROVE Passwords'
  BY <1>2, PasswordsQuiet DEF RefreshMatch, history
<1>3. ASSUME RefreshMismatch(r) PROVE Passwords'
  BY <1>3, PasswordsQuiet DEF RefreshMismatch, history
<1>4. ASSUME RefreshCheckUser(r) PROVE Passwords'
  BY <1>4, PasswordsQuiet DEF RefreshCheckUser, history
<1>5. ASSUME RefreshWipe(r) \/ RefreshDrop(r) \/ DeleteUserRow(r) PROVE Passwords'
  BY <1>0, <1>5, PasswordsQuiet DEF RefreshWipe, RefreshDrop, DeleteUserRow, Revoke
<1>6. ASSUME ResetPurge(r) PROVE Passwords'
  BY <1>6, PasswordsPurge, SessionsOf(req[r].user) = SessionsOf(req[r].user) \ {},
     spared = spared \cup {row[s].root : s \in {} \cap live}
     DEF ResetPurge, Purges
<1>7. ASSUME ChangePurge(r) PROVE Passwords'
  <2>1. Purge(r, req[r].user, req[r].pw, SessionsOf(req[r].user) \ {req[r].sid})
        /\ spared' = spared \cup {row[s].root : s \in {req[r].sid} \cap live}
    BY <1>7 DEF ChangePurge
  <2>2. Purges(req[r]) /\ Becomes(r, Idle) /\ UNCHANGED <<row, pw>>
    BY <1>7 DEF ChangePurge, Purges
  <2> QED BY <2>1, <2>2, PasswordsPurge
<1>8. ASSUME ChangeSetPassword(r) PROVE Passwords'
  <2>1. req[r].user \in User
    BY <1>8, RequestFields DEF ChangeSetPassword, Shape, TypeOK, ChangeReq
  <2> QED BY <1>8, <2>1, PasswordsSet DEF ChangeSetPassword, history, Purges
<1> QED BY <1>1, <1>2, <1>3, <1>4, <1>5, <1>6, <1>7, <1>8, PasswordsLogin, PasswordsRotate
        DEF Continue, LoginFails, RefreshRejected, RefreshUserGone, ChangeFails

LEMMA PasswordsStep == Shape /\ ReadsHold /\ Passwords /\ [Next]_vars => Passwords'
<1> SUFFICES ASSUME Shape, ReadsHold, Passwords, [Next]_vars PROVE Passwords'
  OBVIOUS
<1>1. CASE UNCHANGED vars
  BY <1>1 DEF vars, history, Passwords, LoginsCurrent, PurgesWritten, Purges,
      PurgedBehindPw, OldPasswordSessionsPurged, MainLine, UserOf
<1>2. ASSUME NEW s \in Sid, Lapse(s) PROVE Passwords'
  BY <1>2 DEF Lapse, Passwords, LoginsCurrent, PurgesWritten, Purges,
      PurgedBehindPw, OldPasswordSessionsPurged, MainLine, UserOf
<1>3. CASE Crash
  <2>1. \A r \in Request : req'[r].op = "idle"
    BY <1>3 DEF Crash, Idle
  <2> QED BY <1>3, <2>1 DEF Crash, Passwords, LoginsCurrent, PurgesWritten, Purges,
      PurgedBehindPw, OldPasswordSessionsPurged, MainLine, UserOf
<1> QED BY <1>1, <1>2, <1>3, PasswordsArrive, PasswordsContinue DEF Next

\* Once a password reset or change has purged, no session older than it is left,
\* but the caller's own and those of requests the purge overtook.
THEOREM PurgeIsComplete == Spec => []OldPasswordSessionsPurged
<1>1. Init => Passwords
  <2> SUFFICES ASSUME Init PROVE Passwords
    OBVIOUS
  <2>1. \A r \in Request : req[r].op = "idle"
    BY DEF Init, Idle
  <2>2. \A u \in User : purged[u] <= pw[u]
    BY PwInt DEF Init
  <2> QED BY <2>1, <2>2 DEF Init, Passwords, LoginsCurrent, PurgesWritten, Purges,
             PurgedBehindPw, OldPasswordSessionsPurged, MainLine
<1>2. Shape /\ Lineage /\ Passwords /\ [Next]_vars => Passwords'
  BY PasswordsStep DEF Lineage
<1>3. Passwords => OldPasswordSessionsPurged
  BY DEF Passwords
<1> QED BY <1>1, <1>2, <1>3, LineageAlways, PTL DEF Spec

-----------------------------------------------------------------------------
(* Accounts *)

LEMMA UserStep ==
  ASSUME Shape, NoSessionWithoutUser, [Next]_vars
  PROVE  NoSessionWithoutUser'
<1>1. ASSUME users' = users, row' = row, live' \subseteq live
      PROVE  NoSessionWithoutUser'
  BY <1>1 DEF NoSessionWithoutUser, UserOf
<1>2. ASSUME NEW n, n \notin DOMAIN row, NEW new, Create(n, new), new.user \in users,
             users' = users, live' \subseteq live \cup {n}
      PROVE  NoSessionWithoutUser'
  BY <1>2 DEF Create, NoSessionWithoutUser, UserOf, Shape, TypeOK
<1>3. ASSUME NEW r \in Request, LoginCreateSession(r) PROVE NoSessionWithoutUser'
  <2> DEFINE new == [user |-> req[r].user, hash |-> GrantToken(req[r].user, req[r].new),
                     parent |-> req[r].new, root |-> req[r].new, asOf |-> req[r].pw,
                     stray |-> r \in overtaken]
  <2>1. req[r].new \notin DOMAIN row /\ new.user \in users
    BY <1>3 DEF LoginCreateSession, Shape, DrawnOnce, Drawing
  <2>2. Create(req[r].new, new)
    BY <1>3 DEF LoginCreateSession
  <2> HIDE DEF new
  <2> QED BY <1>2, <1>3, <2>1, <2>2 DEF LoginCreateSession
<1>4. ASSUME NEW r \in Request, RefreshRotate(r) PROVE NoSessionWithoutUser'
  <2> DEFINE old == req[r].tok.sid
             new == [user |-> req[r].tok.user, hash |-> GrantToken(req[r].tok.user, req[r].new),
                     parent |-> old, root |-> row[old].root, asOf |-> row[old].asOf,
                     stray |-> row[old].stray \/ r \in overtaken]
  <2>1. req[r].new \notin DOMAIN row /\ new.user \in users
    BY <1>4 DEF RefreshRotate, Shape, DrawnOnce, Drawing
  <2>2. Create(req[r].new, new)
    BY <1>4 DEF RefreshRotate
  <2> HIDE DEF new
  <2> QED BY <1>2, <1>4, <2>1, <2>2 DEF RefreshRotate, ReplaceRow
<1>5. ASSUME NEW r \in Request, DeleteUserRow(r) PROVE NoSessionWithoutUser'
  BY <1>5 DEF DeleteUserRow, Revoke, SessionsOf, NoSessionWithoutUser, UserOf
<1>6. ASSUME NEW r \in Request, Arrive(r) PROVE NoSessionWithoutUser'
  <2>1. users' = users /\ row' = row /\ live' \subseteq live
    BY <1>6 DEF Arrive, LoginAuthenticate, LoginResume, RefreshPresent, Logout, LogoutAll,
       RevokeToken, DeleteSession,
       RevokeOtherSessions, RevokeNow, Revoke, ResetSetPassword, ChangeVerify,
       CompleteProfile, DeleteUserSessions
  <2> QED BY <1>1, <2>1
<1>7. ASSUME NEW r \in Request, Continue(r) PROVE NoSessionWithoutUser'
  <2>1. ASSUME ~LoginCreateSession(r), ~RefreshRotate(r), ~DeleteUserRow(r)
        PROVE  users' = users /\ row' = row /\ live' \subseteq live
    BY <1>7, <2>1 DEF Continue, LoginFails, RefreshRejected, RefreshMatch, RefreshMismatch,
       RefreshCheckUser, RefreshUserGone, RefreshWipe, RefreshDrop, Revoke, Purge, ResetPurge,
       ChangeSetPassword, ChangeFails, ChangePurge, End
  <2> QED BY <1>1, <1>3, <1>4, <1>5, <2>1
<1> QED BY <1>1, <1>6, <1>7 DEF Next, Lapse, Crash, vars

\* Deleting an account leaves no session behind, whatever commits between the
\* two calls of the deletion.
THEOREM AccountsOwnSessions == Spec => []NoSessionWithoutUser
<1>1. Init => Shape /\ NoSessionWithoutUser
  BY InitShape DEF Init, NoSessionWithoutUser
<1>2. Shape /\ NoSessionWithoutUser /\ [Next]_vars => (Shape /\ NoSessionWithoutUser)'
  BY NextShape, UserStep
<1> QED BY <1>1, <1>2, PTL DEF Spec


\* The account a request works for is the one its token or record names.
LEMMA SubjectOf ==
  ASSUME NEW q \in Req
  PROVE  /\ q.op \in WithToken => Subject(q) = q.tok.user
         /\ q.op \in {"purgeAll", "purgeOthers", "dropUser"} => Subject(q) = q.user
<1>1. ASSUME q.op \in WithToken PROVE "tok" \in DOMAIN q
  BY <1>1, RequestFields DEF WithToken, PresentReq, RotateReq, MismatchReq
<1>2. ASSUME q.op \in {"purgeAll", "purgeOthers", "dropUser"} PROVE "tok" \notin DOMAIN q
  BY <1>2, RequestFields DEF ResetReq, ChangeReq, DeleteReq
<1> QED BY <1>1, <1>2 DEF Subject

LEMMA DeletesOwn ==
  ASSUME Shape, NEW r \in Request, Arrive(r) \/ Continue(r), req'[r] # req[r]
  PROVE  live \ live' \subseteq SessionsOf(Subject(IF IsIdle(r) THEN req'[r] ELSE req[r]))
<1> DEFINE Goal == live \ live' \subseteq
                     SessionsOf(Subject(IF IsIdle(r) THEN req'[r] ELSE req[r]))
<1>a. req[r] \in Req
  BY DEF Shape, TypeOK
<1>b. ASSUME req[r].op \in WithToken
      PROVE  row[req[r].tok.sid].user = req[r].tok.user
  BY <1>b DEF Shape, RequestsHoldTokens, NamesSession
<1>c. ASSUME NEW u, ~IsIdle(r), Subject(req[r]) = u, live \ live' \subseteq SessionsOf(u)
      PROVE  Goal
  BY <1>c
<1>1. ASSUME RefreshRotate(r) PROVE Goal
  <2>1. live \ live' \subseteq {req[r].tok.sid} \cap live
    BY <1>1 DEF RefreshRotate, ReplaceRow
  <2> QED BY <1>1, <1>a, <1>b, <1>c, <2>1, SubjectOf
          DEF RefreshRotate, SessionsOf, IsIdle, WithToken
<1>2. ASSUME RefreshDrop(r) PROVE Goal
  <2>1. live \ live' \subseteq {req[r].tok.sid} \cap live
    BY <1>2 DEF RefreshDrop, Revoke
  <2> QED BY <1>2, <1>a, <1>b, <1>c, <2>1, SubjectOf
          DEF RefreshDrop, SessionsOf, IsIdle, WithToken
<1>3. ASSUME RefreshWipe(r) PROVE Goal
  BY <1>3, <1>a, <1>c, SubjectOf DEF RefreshWipe, Revoke, IsIdle, WithToken
<1>4. ASSUME ResetPurge(r) \/ ChangePurge(r) PROVE Goal
  BY <1>4, <1>a, <1>c, SubjectOf DEF ResetPurge, ChangePurge, Purge, IsIdle
<1>5. ASSUME DeleteUserRow(r) PROVE Goal
  BY <1>5, <1>a, <1>c, SubjectOf DEF DeleteUserRow, Revoke, IsIdle
<1>6. ASSUME NEW u \in User, DeleteUserSessions(r, u) PROVE Goal
  <2> DEFINE q == [op |-> "dropUser", user |-> u]
  <2>1. req'[r] = q /\ IsIdle(r) /\ live \ live' \subseteq SessionsOf(u)
    BY <1>6, SlotOf DEF DeleteUserSessions, Revoke
  <2>2. Subject(q) = u
    BY DEF Subject
  <2> QED BY <2>1, <2>2
<1>7. ASSUME live \subseteq live' PROVE Goal
  BY <1>7
<1>8. ASSUME Continue(r) PROVE Goal
  <2>1. ASSUME ~RefreshRotate(r), ~RefreshDrop(r), ~RefreshWipe(r), ~ResetPurge(r),
               ~ChangePurge(r), ~DeleteUserRow(r)
        PROVE  live \subseteq live'
    BY <1>8, <2>1 DEF Continue, LoginCreateSession, LoginFails, RefreshRejected, RefreshMatch,
       RefreshMismatch, RefreshCheckUser, RefreshUserGone, ChangeSetPassword, ChangeFails, End
  <2> QED BY <1>1, <1>2, <1>3, <1>4, <1>5, <1>7, <2>1
<1>9. ASSUME Arrive(r) PROVE Goal
  <2>1. ASSUME \A u \in User : ~DeleteUserSessions(r, u)
        PROVE  live \subseteq live'
    BY <1>9, <2>1 DEF Arrive, LoginAuthenticate, LoginResume, RefreshPresent, Logout, LogoutAll, RevokeToken,
       DeleteSession, RevokeOtherSessions, RevokeNow, ResetSetPassword, ChangeVerify,
       CompleteProfile
  <2> QED BY <1>6, <1>7, <2>1
<1> QED BY <1>8, <1>9

\* A logout or a revocation deletes sessions of the account its token names.
LEMMA RevocationsOwn ==
  ASSUME Shape, NEW r \in Request
  PROVE  /\ \A t \in Presented :
              Logout(r, t) \/ RevokeToken(r, t) => Gone \subseteq SessionsOf(t.user)
         /\ \A u \in User : LogoutAll(r, u) => Gone \subseteq SessionsOf(u)
         /\ \A u \in User, s \in Sid :
              DeleteSession(r, u, s) \/ RevokeOtherSessions(r, u, s)
                => Gone \subseteq SessionsOf(u)
<1>1. ASSUME NEW S, RevokeNow(r, S) PROVE Gone = S \cap live
  BY <1>1 DEF RevokeNow, Revoke, Gone
<1>2. ASSUME NEW t \in Presented, Logout(r, t) PROVE Gone \subseteq SessionsOf(t.user)
  BY <1>1, <1>2 DEF Logout
<1>3. ASSUME NEW t \in Presented, RevokeToken(r, t) PROVE Gone \subseteq SessionsOf(t.user)
  <2>1. t.user = row[t.sid].user
    BY PresentedNameSessions DEF NamesSession
  <2>2. Gone = {t.sid} \cap live
    BY <1>1, <1>3 DEF RevokeToken
  <2> QED BY <2>1, <2>2 DEF SessionsOf
<1>4. ASSUME NEW u \in User, LogoutAll(r, u) PROVE Gone \subseteq SessionsOf(u)
  BY <1>1, <1>4 DEF LogoutAll
<1>5. ASSUME NEW u \in User, NEW s \in Sid, DeleteSession(r, u, s) \/ RevokeOtherSessions(r, u, s)
      PROVE  Gone \subseteq SessionsOf(u)
  BY <1>1, <1>5 DEF DeleteSession, RevokeOtherSessions
<1> QED BY <1>2, <1>3, <1>4, <1>5

\* No account loses a session to a handler that works for another one, acts on
\* a token of another one or was called by another one.
THEOREM AccountsKeptApart == Spec => AccountsIsolated
<1> DEFINE Own(r) ==
      Gone # {} /\ req'[r] # req[r]
        => Gone \subseteq SessionsOf(Subject(IF IsIdle(r) THEN req'[r] ELSE req[r]))
<1>1. ASSUME Shape, [Next]_vars, NEW r \in Request PROVE Own(r)
  <2>1. ASSUME NEW p \in Request, Arrive(p) \/ Continue(p) PROVE Own(r)
    <3>1. CASE p = r
      BY <2>1, <3>1, <1>1, DeletesOwn DEF Gone
    <3>2. CASE p # r
      BY <2>1, <3>2, <1>1, StepMovesOne DEF OnlyMoves
    <3> QED BY <3>1, <3>2
  <2>2. CASE Crash \/ (\E s \in Sid : Lapse(s)) \/ UNCHANGED vars
    BY <2>2 DEF Crash, Lapse, vars, Gone
  <2> QED BY <1>1, <2>1, <2>2 DEF Next
<1>2. Shape /\ [Next]_vars =>
        (Gone # {} => \A r \in Request :
           /\ req'[r] # req[r]
                => Gone \subseteq SessionsOf(Subject(IF IsIdle(r) THEN req'[r] ELSE req[r]))
           /\ \A t \in Presented :
                Logout(r, t) \/ RevokeToken(r, t) => Gone \subseteq SessionsOf(t.user)
           /\ \A u \in User :
                \/ LogoutAll(r, u)
                \/ \E s \in Sid : DeleteSession(r, u, s) \/ RevokeOtherSessions(r, u, s)
                => Gone \subseteq SessionsOf(u))
  BY <1>1, RevocationsOwn
<1>3. Init => Shape
  BY InitShape
<1>4. Shape /\ [Next]_vars => Shape'
  BY NextShape
<1> QED BY <1>2, <1>3, <1>4, PTL DEF Spec, AccountsIsolated

-----------------------------------------------------------------------------
(* One request at a time: the session a rotation has read is still there     *)
(* when it commits, so a sign-in has one session, the strays included, and   *)
(* the table implements the contract.                                        *)

OneAtATime == \A p, r \in Request : p = r

\* The session a rotation replaces is still there.
RotatesLive == \A r \in Request : Rotates(req[r]) => req[r].tok.sid \in live

\* A sign-in has one session, the strays included.
OneLivePerSignIn ==
  \A s1, s2 \in live : row[s1].root = row[s2].root => s1 = s2

Sequential == RotatesLive /\ OneLivePerSignIn

\* No row is written; sessions may go.
LEMMA SequentialMove ==
  ASSUME Shape, Sequential, NEW r \in Request, OneAtATime, row' = row, live' \subseteq live,
         Rotates(req'[r]) => req'[r].tok.sid \in live'
  PROVE  Sequential'
<1>1. RotatesLive'
  BY DEF OneAtATime, RotatesLive, Rotates
<1> QED BY <1>1 DEF Sequential, OneLivePerSignIn

LEMMA SequentialQuiet ==
  ASSUME Shape, Sequential, NEW r \in Request, OneAtATime, NEW q, Becomes(r, q),
         ~Rotates(q), row' = row, live' \subseteq live
  PROVE  Sequential'
<1>1. req'[r] = q
  BY SlotOf
<1> QED BY <1>1, SequentialMove

\* The row a sign-in or a rotation writes, and what stays.
LEMMA LoginWrites ==
  ASSUME Shape, NEW r \in Request, LoginCreateSession(r)
  PROVE  LET n == req[r].new
         IN  /\ n \in Sid \ DOMAIN row /\ req[r].user \in User
             /\ DOMAIN row' = DOMAIN row \cup {n}
             /\ \A x \in DOMAIN row : row'[x] = row[x]
             /\ row'[n].user = req[r].user /\ row'[n].root = n /\ row'[n].asOf = req[r].pw
             /\ live' = live \cup {n} /\ live \subseteq DOMAIN row
<1> DEFINE n == req[r].new
           u == req[r].user
           new == [user |-> u, hash |-> GrantToken(u, n), parent |-> n, root |-> n,
                   asOf |-> req[r].pw, stray |-> r \in overtaken]
<1>1. n \in Sid \ DOMAIN row /\ u \in User
  BY RequestFields DEF LoginCreateSession, Shape, TypeOK, DrawnOnce, Drawing, LoginReq
<1>2. new.user = u /\ new.root = n /\ new.asOf = req[r].pw
  OBVIOUS
<1>3. Create(n, new)
  BY DEF LoginCreateSession
<1> HIDE DEF new
<1>4. DOMAIN row' = DOMAIN row \cup {n} /\ row'[n] = new /\ \A x \in DOMAIN row : row'[x] = row[x]
  BY <1>1, <1>3 DEF Create
<1> QED BY <1>1, <1>2, <1>4 DEF LoginCreateSession, Shape, TypeOK

LEMMA RotateWrites ==
  ASSUME Shape, NEW r \in Request, RefreshRotate(r)
  PROVE  LET n == req[r].new
             old == req[r].tok.sid
         IN  /\ n \in Sid \ DOMAIN row /\ old \in DOMAIN row
             /\ DOMAIN row' = DOMAIN row \cup {n}
             /\ \A x \in DOMAIN row : row'[x] = row[x]
             /\ row'[n].user = row[old].user /\ row'[n].root = row[old].root
             /\ row'[n].asOf = row[old].asOf
             /\ live' = (live \ {old}) \cup {n} /\ live \subseteq DOMAIN row
<1> DEFINE n == req[r].new
           old == req[r].tok.sid
           new == [user |-> req[r].tok.user, hash |-> GrantToken(req[r].tok.user, n),
                   parent |-> old, root |-> row[old].root, asOf |-> row[old].asOf,
                   stray |-> row[old].stray \/ r \in overtaken]
<1>1. n \in Sid \ DOMAIN row
  BY RequestFields DEF RefreshRotate, Shape, TypeOK, DrawnOnce, Drawing, RotateReq
<1>2. old \in DOMAIN row /\ req[r].tok.user = row[old].user
  BY DEF RefreshRotate, Shape, RequestsHoldTokens, WithToken, NamesSession
<1>3. new.user = row[old].user /\ new.root = row[old].root /\ new.asOf = row[old].asOf
  BY <1>2
<1>4. Create(n, new)
  BY DEF RefreshRotate
<1> HIDE DEF new
<1>5. DOMAIN row' = DOMAIN row \cup {n} /\ row'[n] = new /\ \A x \in DOMAIN row : row'[x] = row[x]
  BY <1>1, <1>4 DEF Create
<1> QED BY <1>1, <1>2, <1>3, <1>5 DEF RefreshRotate, ReplaceRow, Shape, TypeOK

LEMMA SequentialLogin ==
  ASSUME Shape, Sequential, NEW r \in Request, OneAtATime, LoginCreateSession(r)
  PROVE  Sequential'
<1> DEFINE n == req[r].new
<1>1. req'[r].op = "idle"
  BY SlotOf DEF LoginCreateSession, Idle
<1>2. /\ n \notin DOMAIN row
      /\ \A x \in DOMAIN row : row'[x] = row[x]
      /\ row'[n].root = n
      /\ live' = live \cup {n} /\ live \subseteq DOMAIN row
  BY LoginWrites
<1>3. RotatesLive'
  BY <1>1 DEF OneAtATime, RotatesLive, Rotates
<1>4. \A s \in live : row[s].root # n
  BY <1>2 DEF Shape, RowsWellFormed
<1>5. OneLivePerSignIn'
  BY <1>2, <1>4 DEF Sequential, OneLivePerSignIn
<1> QED BY <1>3, <1>5 DEF Sequential

LEMMA SequentialRotate ==
  ASSUME Shape, Sequential, NEW r \in Request, OneAtATime, RefreshRotate(r)
  PROVE  Sequential'
<1> DEFINE n == req[r].new
           old == req[r].tok.sid
<1>1. req'[r].op = "idle"
  BY SlotOf DEF RefreshRotate, Idle
<1>2. /\ \A x \in DOMAIN row : row'[x] = row[x]
      /\ row'[n].root = row[old].root
      /\ live' = (live \ {old}) \cup {n} /\ live \subseteq DOMAIN row /\ n \notin DOMAIN row
  BY RotateWrites
<1>3. RotatesLive'
  BY <1>1 DEF OneAtATime, RotatesLive, Rotates
<1>4. old \in live
  BY DEF RefreshRotate, Sequential, RotatesLive, Rotates
<1>5. OneLivePerSignIn'
  BY <1>2, <1>4 DEF Sequential, OneLivePerSignIn
<1> QED BY <1>3, <1>5 DEF Sequential

LEMMA SequentialArrive ==
  ASSUME Shape, Sequential, OneAtATime, NEW r \in Request, Arrive(r)
  PROVE  Sequential'
<1>1. ASSUME NEW u \in User, NEW s \in Sid,
             LoginAuthenticate(r, u, s) \/ \E v \in Pw : LoginResume(r, u, v, s)
      PROVE  Sequential'
  BY <1>1, SequentialQuiet DEF LoginAuthenticate, LoginResume, Rotates
<1>2. ASSUME NEW t \in Presented, RefreshPresent(r, t)
      PROVE  Sequential'
  BY <1>2, SequentialQuiet DEF RefreshPresent, Rotates
<1>3. ASSUME NEW S, RevokeNow(r, S) PROVE Sequential'
  <2>1. ~Rotates(req'[r])
    BY <1>3 DEF RevokeNow, IsIdle, Rotates
  <2> QED BY <1>3, <2>1, SequentialMove DEF RevokeNow, Revoke
<1>4. ASSUME NEW u \in User, ResetSetPassword(r, u) PROVE Sequential'
  BY <1>4, SequentialQuiet DEF ResetSetPassword, Rotates
<1>5. ASSUME NEW u \in User, NEW c \in Sid \cup {NoSid}, ChangeVerify(r, u, c) PROVE Sequential'
  BY <1>5, SequentialQuiet DEF ChangeVerify, Rotates
<1>6. ASSUME NEW u \in User, NEW c \in Sid, CompleteProfile(r, u, c) PROVE Sequential'
  BY <1>6, SequentialMove DEF CompleteProfile, IsIdle, Rotates
<1>7. ASSUME NEW u \in User, DeleteUserSessions(r, u) PROVE Sequential'
  BY <1>7, SequentialQuiet DEF DeleteUserSessions, Revoke, Rotates
<1> QED BY <1>1, <1>2, <1>3, <1>4, <1>5, <1>6, <1>7
        DEF Arrive, Logout, LogoutAll, RevokeToken, DeleteSession, RevokeOtherSessions

LEMMA SequentialContinue ==
  ASSUME Shape, Sequential, OneAtATime, NEW r \in Request, Continue(r)
  PROVE  Sequential'
<1>0. ~Rotates(Idle)
  BY DEF Idle, Rotates
<1>1. ASSUME End(r) PROVE Sequential'
  BY <1>0, <1>1, SequentialQuiet DEF End
<1>2. ASSUME NEW s \in Sid, RefreshMatch(r, s) PROVE Sequential'
  <2>1. Rotates(req'[r]) /\ req'[r].tok = req[r].tok
    BY <1>2, SlotOf DEF RefreshMatch, Rotates
  <2>2. req[r].tok.sid \in live
    BY <1>2 DEF RefreshMatch, Usable
  <2> QED BY <1>2, <2>1, <2>2, SequentialMove DEF RefreshMatch
<1>3. ASSUME RefreshMismatch(r) PROVE Sequential'
  BY <1>3, SequentialQuiet DEF RefreshMismatch, Rotates
<1>4. ASSUME RefreshCheckUser(r) PROVE Sequential'
  <2>1. Rotates(req'[r]) /\ req'[r].tok = req[r].tok
    BY <1>4, SlotOf DEF RefreshCheckUser, Rotates
  <2>2. req[r].tok.sid \in live
    BY <1>4 DEF RefreshCheckUser, Sequential, RotatesLive, Rotates
  <2> QED BY <1>4, <2>1, <2>2, SequentialMove DEF RefreshCheckUser
<1>5. ASSUME RefreshWipe(r) \/ RefreshDrop(r) \/ DeleteUserRow(r) PROVE Sequential'
  BY <1>0, <1>5, SequentialQuiet DEF RefreshWipe, RefreshDrop, DeleteUserRow, Revoke
<1>6. ASSUME ResetPurge(r) \/ ChangePurge(r) PROVE Sequential'
  BY <1>0, <1>6, SequentialQuiet DEF ResetPurge, ChangePurge, Purge
<1>7. ASSUME ChangeSetPassword(r) PROVE Sequential'
  BY <1>7, SequentialQuiet DEF ChangeSetPassword, Rotates
<1> QED BY <1>1, <1>2, <1>3, <1>4, <1>5, <1>6, <1>7, SequentialLogin, SequentialRotate
        DEF Continue, LoginFails, RefreshRejected, RefreshUserGone, ChangeFails

LEMMA SequentialStep ==
  ASSUME Shape, Sequential, OneAtATime, [Next]_vars
  PROVE  Sequential'
<1>1. ASSUME UNCHANGED vars PROVE Sequential'
  BY <1>1 DEF vars, Sequential, RotatesLive, Rotates, OneLivePerSignIn
<1>2. ASSUME NEW s \in Sid, Lapse(s) PROVE Sequential'
  BY <1>2 DEF Lapse, Sequential, RotatesLive, Rotates, OneLivePerSignIn
<1>3. ASSUME Crash PROVE Sequential'
  <2>1. \A r \in Request : req'[r].op = "idle"
    BY <1>3 DEF Crash, Idle
  <2> QED BY <1>3, <2>1 DEF Crash, Sequential, RotatesLive, Rotates, OneLivePerSignIn
<1> QED BY <1>1, <1>2, <1>3, SequentialArrive, SequentialContinue DEF Next

LEMMA InitSequential == Init => Sequential
<1> SUFFICES ASSUME Init PROVE Sequential
  OBVIOUS
<1>1. \A r \in Request : req[r].op = "idle"
  BY DEF Init, Idle
<1> QED BY <1>1 DEF Init, Sequential, RotatesLive, Rotates, OneLivePerSignIn

LEMMA SequentialAlways ==
  ASSUME OneAtATime
  PROVE  Spec => [](Shape /\ Sequential)
<1>1. Init => Shape /\ Sequential
  BY InitShape, InitSequential
<1>2. Shape /\ Sequential /\ [Next]_vars => (Shape /\ Sequential)'
  BY NextShape, SequentialStep
<1> QED BY <1>1, <1>2, PTL DEF Spec

-----------------------------------------------------------------------------
(* The contract *)

Grants  == {[signIn |-> row[s].root, user |-> row[s].user, sid |-> s] : s \in live}
Closed  == {row[s].root : s \in DOMAIN row} \ {row[s].root : s \in live}

LEMMA ContractSteps ==
  /\ \A u \in User, s \in Sid : Contract!Open(u, s) => Contract!Next
  /\ \A g \in Grants, s \in Sid : Contract!HandOn(g, s) => Contract!Next
  /\ \A G \in SUBSET Grants : Contract!Close(G) => Contract!Next
BY DEF Contract!Next, Grants

\* A step that writes no row closes the grants of the sessions it deletes.
LEMMA DeleteCloses ==
  ASSUME Shape, OneLivePerSignIn, row' = row, live' \subseteq live
  PROVE  Contract!Next \/ UNCHANGED Contract!vars
<1> DEFINE G == {[signIn |-> row[s].root, user |-> row[s].user, sid |-> s] : s \in live \ live'}
<1>1. G \in SUBSET Grants
  BY DEF Grants
<1>2. Grants' = Grants \ G
  BY DEF Grants
<1>3. {g.signIn : g \in G} = {row[s].root : s \in live \ live'}
  <2>1. ASSUME NEW g \in G PROVE g.signIn \in {row[s].root : s \in live \ live'}
    <3>1. PICK s \in live \ live' : g = [signIn |-> row[s].root, user |-> row[s].user, sid |-> s]
      OBVIOUS
    <3> QED BY <3>1
  <2>2. ASSUME NEW s \in live \ live' PROVE row[s].root \in {g.signIn : g \in G}
    <3> DEFINE g == [signIn |-> row[s].root, user |-> row[s].user, sid |-> s]
    <3>1. g \in G /\ g.signIn = row[s].root
      OBVIOUS
    <3> QED BY <3>1
  <2> QED BY <2>1, <2>2
<1>4. live \subseteq DOMAIN row
  BY DEF Shape, TypeOK
<1>5. Closed' = Closed \cup {row[s].root : s \in live \ live'}
  BY <1>4 DEF Closed, OneLivePerSignIn
<1>6. (DOMAIN row)' = DOMAIN row
  OBVIOUS
<1>7. PICK H \in SUBSET Grants : H = G
  BY <1>1
<1>8. Contract!Close(H)
  BY <1>2, <1>3, <1>5, <1>6, <1>7 DEF Contract!Close, Grants, Closed
<1> QED BY <1>8, ContractSteps

LEMMA LoginOpens ==
  ASSUME Shape, NEW r \in Request, LoginCreateSession(r)
  PROVE  Contract!Next
<1> DEFINE n == req[r].new
           u == req[r].user
           g == [signIn |-> n, user |-> u, sid |-> n]
<1>1. /\ n \in Sid \ DOMAIN row /\ u \in User
      /\ DOMAIN row' = DOMAIN row \cup {n}
      /\ \A x \in DOMAIN row : row'[x] = row[x]
      /\ row'[n].user = u /\ row'[n].root = n
      /\ live' = live \cup {n} /\ live \subseteq DOMAIN row
  BY LoginWrites
<1>2. \A x \in DOMAIN row : row[x].root \in DOMAIN row
  BY DEF Shape, RowsWellFormed
<1>3. Grants' = Grants \cup {g}
  BY <1>1 DEF Grants
<1>4. Closed' = Closed
  BY <1>1, <1>2 DEF Closed
<1>5. PICK v \in User, s \in Sid : v = u /\ s = n
  BY <1>1
<1>6. Contract!Open(v, s)
  BY <1>1, <1>3, <1>4, <1>5 DEF Contract!Open, Grants, Closed
<1> QED BY <1>6, ContractSteps

LEMMA RotateHandsOn ==
  ASSUME Shape, RotatesLive, NEW r \in Request, RefreshRotate(r)
  PROVE  Contract!Next
<1> DEFINE n == req[r].new
           old == req[r].tok.sid
           g == [signIn |-> row[old].root, user |-> row[old].user, sid |-> old]
           h == [signIn |-> row[old].root, user |-> row[old].user, sid |-> n]
<1>1. /\ n \in Sid \ DOMAIN row
      /\ DOMAIN row' = DOMAIN row \cup {n}
      /\ \A x \in DOMAIN row : row'[x] = row[x]
      /\ row'[n].user = row[old].user /\ row'[n].root = row[old].root
      /\ live' = (live \ {old}) \cup {n} /\ live \subseteq DOMAIN row
  BY RotateWrites
<1>2. old \in live
  BY DEF RefreshRotate, RotatesLive, Rotates
<1>3. g \in Grants /\ h = [g EXCEPT !.sid = n]
  BY <1>2 DEF Grants
<1>4. Grants' = (Grants \ {g}) \cup {h}
  BY <1>1, <1>2 DEF Grants
<1>5. Closed' = Closed
  BY <1>1, <1>2 DEF Closed
<1>6. PICK k \in Grants, s \in Sid : k = g /\ s = n
  BY <1>1, <1>3
<1>7. Contract!HandOn(k, s)
  BY <1>1, <1>3, <1>4, <1>5, <1>6 DEF Contract!HandOn, Grants, Closed
<1> QED BY <1>7, ContractSteps

LEMMA ContractStep ==
  ASSUME Shape, Sequential, [Next]_vars
  PROVE  Contract!Next \/ UNCHANGED Contract!vars
<1>1. ASSUME row' = row, live' \subseteq live
      PROVE  Contract!Next \/ UNCHANGED Contract!vars
  BY <1>1, DeleteCloses DEF Sequential
<1>2. ASSUME NEW r \in Request, Arrive(r)
      PROVE  row' = row /\ live' \subseteq live
  BY <1>2 DEF Arrive, LoginAuthenticate, LoginResume, RefreshPresent, Logout, LogoutAll,
     RevokeToken, DeleteSession,
     RevokeOtherSessions, RevokeNow, Revoke, ResetSetPassword, ChangeVerify,
     CompleteProfile, DeleteUserSessions
<1>3. ASSUME NEW r \in Request, Continue(r), ~LoginCreateSession(r), ~RefreshRotate(r)
      PROVE  row' = row /\ live' \subseteq live
  BY <1>3 DEF Continue, LoginFails, RefreshRejected, RefreshMatch, RefreshMismatch,
     RefreshCheckUser, RefreshUserGone, RefreshWipe, RefreshDrop, Revoke, Purge, ResetPurge,
     ChangeSetPassword, ChangeFails, ChangePurge, DeleteUserRow, End
<1>4. ASSUME NEW r \in Request, LoginCreateSession(r) \/ RefreshRotate(r)
      PROVE  Contract!Next
  BY <1>4, LoginOpens, RotateHandsOn DEF Sequential
<1>5. ASSUME NEW s \in Sid, Lapse(s) PROVE row' = row /\ live' \subseteq live
  BY <1>5 DEF Lapse
<1>6. ASSUME Crash \/ UNCHANGED vars PROVE row' = row /\ live' \subseteq live
  BY <1>6 DEF Crash, vars
<1> QED BY <1>1, <1>2, <1>3, <1>4, <1>5, <1>6 DEF Next

\* With one request at a time the session table implements SessionContract: a
\* refresh replaces a sign-in's only session by one successor, and a sign-in
\* whose session is deleted never has one again.
THEOREM TableImplementsContract ==
  ASSUME OneAtATime
  PROVE  Spec => RefinesContract
<1>1. Init => Contract!Init
  BY DEF Init, Contract!Init
<1>2. Shape /\ Sequential /\ [Next]_vars => [Contract!Next]_Contract!vars
  BY ContractStep
<1> QED BY <1>1, <1>2, SequentialAlways, PTL DEF Spec, RefinesContract, Contract!Spec
=============================================================================
