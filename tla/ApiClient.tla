----------------------------- MODULE ApiClient -----------------------------
(***************************************************************************)
(* The web application's API client: fetchClient with its 401 interceptor, *)
(* and the sign-in state of AuthContext, over the session a browser holds. *)
(*                                                                         *)
(* All calls of a page share one refresh cookie and one access token in    *)
(* localStorage.  A call that gets a 401 refreshes once and is sent again; *)
(* several calls can do so at the same time.  The server is reduced to the *)
(* rotation of Sessions: it reads the session a cookie names, and in a     *)
(* later step creates the successor and deletes the old row.               *)
(***************************************************************************)
EXTENDS Integers, FiniteSets

CONSTANTS
  Call,       \* calls the pages can have in flight at once
  Sid,        \* ids of the sessions of this browser
  NoSid,      \* no cookie, no access token
  PageKind,   \* requests the pages make: "plain", "wrongPassword"
  MaxFaults   \* bound: replies lost, or with an error other than 401

ASSUME ClientAssumption ==
  /\ NoSid \notin Sid
  /\ PageKind \subseteq {"plain", "wrongPassword"}
  /\ MaxFaults \in Nat

VARIABLES
  live,      \* sessions in the server's table
  issued,    \* session ids drawn so far
  expired,   \* sessions whose access token has expired
  cookie,    \* session of the refresh token in the cookie jar
  stored,    \* session of the access token in localStorage
  user,      \* AuthContext shows a signed-in user
  profile,   \* calls whose results refreshProfile still awaits
  call,      \* what each call is doing
  faults,    \* faults so far
  \* History, read by no guard:
  ended,     \* sessions that were logged out or revoked
  out        \* the last sign-in or logout was a logout that sent a cookie and
             \* outlasted every call

vars == <<live, issued, expired, cookie, stored, user, profile, call, faults,
          ended, out>>

MaybeSid == Sid \cup {NoSid}
Kind == {"plain", "wrongPassword"}

Idle       == [op |-> "idle"]
Asking     == [op : {"asking"}, kind : Kind, tok : MaybeSid, again : BOOLEAN]
Refreshing == [op : {"refreshing"}, kind : Kind, tok : MaybeSid]
Rotating   == [op : {"rotating"}, kind : Kind, tok : Sid]
Answered   == [op : {"rotated", "parsing"}, kind : Kind, new : Sid]
Leaving    == [op : {"leaving", "left"}, tok : MaybeSid]

TypeOK ==
  /\ live \subseteq issued /\ issued \subseteq Sid
  /\ expired \subseteq issued
  /\ cookie \in MaybeSid /\ stored \in MaybeSid
  /\ user \in BOOLEAN
  /\ profile \subseteq Call
  /\ call \in [Call -> {Idle} \cup Asking \cup Refreshing \cup Rotating
                         \cup Answered \cup Leaving]
  /\ faults \in 0 .. MaxFaults
  /\ ended \subseteq issued
  /\ out \in BOOLEAN

Busy == {c \in Call : call[c] # Idle}
Becomes(c, q) == call' = [call EXCEPT ![c] = q]

\* Bound: every call in flight can still draw a session.
Room == Cardinality(Sid \ issued) > Cardinality(Busy)

\* The user has signed in.
Init ==
  /\ \E s \in Sid :
       /\ live = {s} /\ issued = {s}
       /\ cookie = s /\ stored = s
  /\ expired = {}
  /\ user = TRUE
  /\ profile = {}
  /\ call = [c \in Call |-> Idle]
  /\ faults = 0
  /\ ended = {}
  /\ out = FALSE

-----------------------------------------------------------------------------
\* How a call ends

Ask(kind, again) == [op |-> "asking", kind |-> kind, tok |-> stored, again |-> again]

\* setUser(null) and localStorage.removeItem: the auth:unauthorized listener
\* and the catch of refreshProfile do the same.
SignOut == user' = FALSE /\ stored' = NoSid

\* The call resolves; the last one refreshProfile awaits sets the user.
Resolve(c) ==
  /\ Becomes(c, Idle)
  /\ profile' = profile \ {c}
  /\ user' = (user \/ profile = {c})
  /\ UNCHANGED stored

\* The call rejects without a refresh; refreshProfile is rejected with it.
Reject(c) ==
  /\ Becomes(c, Idle)
  /\ profile' = IF c \in profile THEN {} ELSE profile
  /\ IF c \in profile THEN SignOut ELSE UNCHANGED <<user, stored>>


\* The interceptor's catch: fire auth:unauthorized, then throw the first 401.
RejectUnauthorized(c) ==
  /\ Becomes(c, Idle)
  /\ profile' = IF c \in profile THEN {} ELSE profile
  /\ SignOut

-----------------------------------------------------------------------------
\* Pages

PageCall(c, kind) ==
  /\ call[c] = Idle
  /\ user
  /\ profile = {}
  /\ Room
  /\ Becomes(c, Ask(kind, FALSE))
  /\ UNCHANGED <<live, issued, expired, cookie, stored, user, profile, faults, ended, out>>

\* Both requests are sent before either is answered.
RefreshProfile(c, d) ==
  /\ c # d
  /\ call[c] = Idle /\ call[d] = Idle
  /\ profile = {}
  /\ Cardinality(Sid \ issued) > Cardinality(Busy) + 1
  /\ profile' = {c, d}
  /\ call' = [call EXCEPT ![c] = Ask("plain", FALSE), ![d] = Ask("plain", FALSE)]
  /\ UNCHANGED <<live, issued, expired, cookie, stored, user, faults, ended, out>>

\* The page is opened anew, with nothing in flight; AuthProvider's effect runs.
Reload(c, d) ==
  /\ Busy = {}
  /\ c # d
  /\ Cardinality(Sid \ issued) > 1
  /\ user' = FALSE
  /\ profile' = {c, d}
  /\ call' = [call EXCEPT ![c] = Ask("plain", FALSE), ![d] = Ask("plain", FALSE)]
  /\ UNCHANGED <<live, issued, expired, cookie, stored, faults, ended, out>>

\* The login page: the reply sets the cookie, login() the rest.
Login(s) ==
  /\ ~user
  /\ profile = {}
  /\ Room
  /\ s \in Sid \ issued
  /\ live' = live \cup {s}
  /\ issued' = issued \cup {s}
  /\ cookie' = s /\ stored' = s
  /\ user' = TRUE
  /\ out' = FALSE
  /\ UNCHANGED <<expired, profile, call, faults, ended>>

-----------------------------------------------------------------------------
\* A request and its interceptor

Authentic(tok) == tok # NoSid /\ tok \notin expired

\* authenticate lets the request through and its handler succeeds.
AskSucceeds(c) ==
  /\ call[c].op = "asking"
  /\ Authentic(call[c].tok)
  /\ call[c].kind = "plain"
  /\ Resolve(c)
  /\ UNCHANGED <<live, issued, expired, cookie, faults, ended, out>>

\* 401 from authenticate, or from update-password and verify-password when the
\* password is wrong.
Refused(q) == ~Authentic(q.tok) \/ q.kind = "wrongPassword"

\* The first 401: the refresh is sent with the cookie of this moment.
Intercept(c) ==
  /\ call[c].op = "asking" /\ ~call[c].again
  /\ Refused(call[c])
  /\ Becomes(c, [op |-> "refreshing", kind |-> call[c].kind, tok |-> cookie])
  /\ UNCHANGED <<live, issued, expired, cookie, stored, user, profile, faults, ended, out>>

\* skipAuthRefresh: the second 401 rejects, inside the interceptor's try.
RetryRefused(c) ==
  /\ call[c].op = "asking" /\ call[c].again
  /\ Refused(call[c])
  /\ RejectUnauthorized(c)
  /\ UNCHANGED <<live, issued, expired, cookie, faults, ended, out>>

\* Mutants: a refused refresh runs the interceptor itself, or revokes every
\* session of the user.
RefreshDeniedAgain(c) ==
  /\ call[c].op = "refreshing"
  /\ call[c].tok \notin live
  /\ Becomes(c, [op |-> "refreshing", kind |-> call[c].kind, tok |-> cookie])
  /\ UNCHANGED <<live, issued, expired, cookie, stored, user, profile, faults, ended, out>>
RefreshDeniedWipes(c) ==
  /\ call[c].op = "refreshing"
  /\ call[c].tok \notin live
  /\ live' = {}
  /\ RejectUnauthorized(c)
  /\ UNCHANGED <<issued, expired, cookie, faults, ended, out>>

\* No cookie, or its session is gone.
RefreshDenied(c) ==
  /\ call[c].op = "refreshing"
  /\ call[c].tok \notin live
  /\ RejectUnauthorized(c)
  /\ UNCHANGED <<live, issued, expired, cookie, faults, ended, out>>

RefreshRead(c) ==
  /\ call[c].op = "refreshing"
  /\ call[c].tok \in live
  /\ Becomes(c, [op |-> "rotating", kind |-> call[c].kind, tok |-> call[c].tok])
  /\ UNCHANGED <<live, issued, expired, cookie, stored, user, profile, faults, ended, out>>

\* The transaction; deleteMany does not mind that the old row is gone.
RefreshRotate(c, s) ==
  /\ call[c].op = "rotating"
  /\ s \in Sid \ issued
  /\ live' = (live \ {call[c].tok}) \cup {s}
  /\ issued' = issued \cup {s}
  /\ Becomes(c, [op |-> "rotated", kind |-> call[c].kind, new |-> s])
  /\ UNCHANGED <<expired, cookie, stored, user, profile, faults, ended, out>>

\* The browser takes Set-Cookie from the headers, before the body is parsed.
RefreshHeaders(c) ==
  /\ call[c].op = "rotated"
  /\ cookie' = call[c].new
  /\ Becomes(c, [op |-> "parsing", kind |-> call[c].kind, new |-> call[c].new])
  /\ UNCHANGED <<live, issued, expired, stored, user, profile, faults, ended, out>>

\* Mutant: the reply has no accessToken.
RetryUndefined(c) ==
  /\ call[c].op = "parsing"
  /\ stored' = "undefined"
  /\ Becomes(c, [op |-> "asking", kind |-> call[c].kind, tok |-> call[c].new, again |-> TRUE])
  /\ UNCHANGED <<live, issued, expired, cookie, user, profile, faults, ended, out>>

\* Save the access token and send the request again, at once.
Retry(c) ==
  /\ call[c].op = "parsing"
  /\ stored' = call[c].new
  /\ Becomes(c, [op |-> "asking", kind |-> call[c].kind, tok |-> call[c].new, again |-> TRUE])
  /\ UNCHANGED <<live, issued, expired, cookie, user, profile, faults, ended, out>>

-----------------------------------------------------------------------------
\* Logout

Logout(c) ==
  /\ call[c] = Idle
  /\ user
  /\ profile = {}
  /\ Becomes(c, [op |-> "leaving", tok |-> cookie])
  /\ UNCHANGED <<live, issued, expired, cookie, stored, user, profile, faults, ended, out>>

LogoutServed(c) ==
  /\ call[c].op = "leaving"
  /\ live' = live \ {call[c].tok}
  /\ ended' = ended \cup ({call[c].tok} \cap live)
  /\ Becomes(c, [op |-> "left", tok |-> call[c].tok])
  /\ UNCHANGED <<issued, expired, cookie, stored, user, profile, faults, out>>

\* Logout c ends when every other call has; it had a cookie to end.
Outlasts(c) == Busy = {c} /\ call[c].tok # NoSid

\* Mutant: removeItem is skipped when the reply arrives.
LogoutKeepsToken(c) ==
  /\ call[c].op = "left"
  /\ cookie' = IF call[c].tok = NoSid THEN cookie ELSE NoSid
  /\ user' = FALSE
  /\ out' = Outlasts(c)
  /\ Becomes(c, Idle)
  /\ UNCHANGED <<live, issued, expired, stored, profile, faults, ended>>

\* clearCookie is sent only to a browser that sent a cookie.
LogoutDone(c) ==
  /\ call[c].op = "left"
  /\ cookie' = IF call[c].tok = NoSid THEN cookie ELSE NoSid
  /\ SignOut
  /\ out' = Outlasts(c)
  /\ Becomes(c, Idle)
  /\ UNCHANGED <<live, issued, expired, profile, faults, ended>>

-----------------------------------------------------------------------------
\* Environment

\* fetch throws, or the reply is an error other than 401.  The interceptor's
\* catch gets the failures of the refresh and of the request sent again.
Fault(c) ==
  /\ faults < MaxFaults
  /\ faults' = faults + 1
  /\ \/ call[c].op = "asking" /\ ~call[c].again /\ Reject(c) /\ UNCHANGED out
     \/ /\ \/ call[c].op = "asking" /\ call[c].again
           \/ call[c].op \in {"refreshing", "rotated", "parsing"}
        /\ RejectUnauthorized(c)
        /\ UNCHANGED out
     \/ /\ call[c].op \in {"leaving", "left"}
        /\ Becomes(c, Idle)
        /\ SignOut
        /\ out' = Outlasts(c)
        /\ UNCHANGED profile
  /\ UNCHANGED <<live, issued, expired, cookie, ended>>

\* An access token lives 15 minutes: no call is still being sent again with it.
AccessTokenExpires(s) ==
  /\ s \in issued \ expired
  /\ s = stored \/ \E c \in Call : call[c].op = "asking" /\ call[c].tok = s
  /\ \A c \in Call : call[c].op = "asking" /\ call[c].again => call[c].tok # s
  /\ expired' = expired \cup {s}
  /\ UNCHANGED <<live, issued, cookie, stored, user, profile, call, faults, ended, out>>

\* Another device, an administrator or a password change revokes the session.
Revoked(s) ==
  /\ s \in live
  /\ live' = live \ {s}
  /\ ended' = ended \cup {s}
  /\ UNCHANGED <<issued, expired, cookie, stored, user, profile, call, faults, out>>

Proceed(c) ==
  \/ AskSucceeds(c) \/ Intercept(c) \/ RetryRefused(c)
  \/ RefreshDenied(c) \/ RefreshRead(c) \/ (\E s \in Sid : RefreshRotate(c, s))
  \/ RefreshHeaders(c) \/ Retry(c)
  \/ LogoutServed(c) \/ LogoutDone(c)

Next ==
  \/ \E c \in Call, kind \in PageKind : PageCall(c, kind)
  \/ \E c, d \in Call : RefreshProfile(c, d) \/ Reload(c, d)
  \/ \E s \in Sid : Login(s) \/ AccessTokenExpires(s) \/ Revoked(s)
  \/ \E c \in Call : Logout(c) \/ Proceed(c) \/ Fault(c)

Spec == Init /\ [][Next]_vars

\* Servers answer and the browser runs the promises that are resolved.
FairSpec == Spec /\ \A c \in Call : WF_vars(Proceed(c))

-----------------------------------------------------------------------------
(* Properties *)

\* However the refreshes of a page overlap, when it is quiet its cookie is not
\* a token that a rotation has used up: the next refresh will not be refused
\* unless the session was logged out or revoked.  A lost reply breaks this.
CookieNotSpent ==
  Busy = {} /\ faults = 0 /\ cookie # NoSid => cookie \in live \cup ended

\* The interceptor refreshes "exactly ONE" time: every call settles, and with
\* it the loading screen ends.
CallsSettle ==
  /\ \A c \in Call : (c \in Busy) ~> (c \notin Busy)
  /\ (profile # {}) ~> (profile = {})

\* The page forgets a signed-in user only on logout, on a reload, when the
\* session is gone, or when a refresh is refused that was sent without a cookie
\* or with one of a session that was logged out or revoked: "Refresh failed
\* (cookie expired, revoked, etc.)".
SignedOutForCause ==
  [][user /\ ~user' =>
       \/ cookie \notin live
       \/ \E c \in Call :
            /\ call'[c] = Idle
            /\ \/ call[c].op \in {"leaving", "left"}
               \/ call[c].op = "refreshing" /\ call[c].tok \in ended \cup {NoSid}
       \/ Busy = {}]_vars

\* After a logout that sent a cookie and that no other call outlasts, and until
\* the next sign-in, the browser holds no session and no access token, whatever
\* overlapped it before.  A refresh that is answered after it brings both back;
\* so does one answered during a logout that had no cookie to send, whose reply
\* clears none.
LogoutClearsBrowser ==
  Busy = {} /\ out /\ faults = 0 => cookie \notin live /\ stored = NoSid
=============================================================================
