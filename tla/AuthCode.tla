------------------------------ MODULE AuthCode ------------------------------
(***************************************************************************)
(* The authorization code flow: the Authorize page asks whether consent is *)
(* needed, POST /oauth/authorize records it and puts a code into Redis,    *)
(* and the client exchanges the code for a session at /oauth/token.        *)
(*                                                                         *)
(* A page and a token request move through phases, one per database or     *)
(* Redis call.  A token request that fails a check (another client's code, *)
(* wrong redirect URI, state or PKCE verifier) only reads, and is left     *)
(* out.                                                                    *)
(***************************************************************************)
EXTENDS Integers, FiniteSets

CONSTANTS
  User,        \* accounts
  Client,      \* OAuth clients
  Scope,       \* scopes a client can ask for
  Permitted,   \* OAuthClient.scopes, by client
  Code,        \* authorization codes randomBytes may draw
  Flow,        \* Authorize pages open at once
  Redeemer,    \* token requests in flight at once
  MaxCrashes   \* bound: restarts of the process

ASSUME AuthCodeAssumption ==
  /\ Permitted \in [Client -> SUBSET Scope]
  /\ MaxCrashes \in Nat

VARIABLES
  consent,   \* user_consents.scopes, an array: how often it holds each scope
  codes,     \* the codes in Redis, with what is stored under them
  flow,      \* what each page, and the handler it waits for, is doing
  redeem,    \* what each token request is doing
  sessions,  \* sessions created, counted by code, with what their tokens say
  crashes,   \* restarts so far
  \* History, read by no guard:
  issued,    \* codes drawn so far
  approved,  \* scopes the user allowed in the dialog
  settled,   \* scopes of the authorizations that were completed
  exposed,   \* pages whose scopes were pushed while another page's clean-up
             \* was about to write what it had read before
  shared     \* codes that a token request read while another one held them

vars == <<consent, codes, flow, redeem, sessions, crashes, issued, approved,
          settled, exposed, shared>>

Pair == User \X Client
Array == [Scope -> 0 .. Cardinality(Flow) * (MaxCrashes + 1) + 1]
Grant == [user : User, client : Client, scopes : SUBSET Scope]

Idle     == [op |-> "idle"]
Page     == [op : {"checking", "dialog", "submitting", "tidying", "issuing"}, grant : Grant]
Deduping == [op : {"deduping"}, grant : Grant, unique : Array]
Redeem   == [op : {"spending", "creating"}, code : Code, grant : Grant]

TypeOK ==
  /\ consent \in [Pair -> Array]
  /\ DOMAIN codes \subseteq issued /\ issued \subseteq Code
  /\ codes \in [DOMAIN codes -> Grant]
  /\ flow \in [Flow -> {Idle} \cup Page \cup Deduping]
  /\ redeem \in [Redeemer -> {Idle} \cup Redeem]
  /\ sessions \subseteq [code : issued, nth : 1 .. Cardinality(Redeemer), grant : Grant]
  /\ crashes \in 0 .. MaxCrashes
  /\ approved \in [Pair -> SUBSET Scope]
  /\ settled \in [Pair -> SUBSET Scope]
  /\ exposed \subseteq Flow
  /\ shared \subseteq issued

Init ==
  /\ consent = [p \in Pair |-> [s \in Scope |-> 0]]
  /\ codes = [c \in {} |-> c]
  /\ flow = [f \in Flow |-> Idle]
  /\ redeem = [r \in Redeemer |-> Idle]
  /\ sessions = {}
  /\ crashes = 0
  /\ issued = {}
  /\ approved = [p \in Pair |-> {}]
  /\ settled = [p \in Pair |-> {}]
  /\ exposed = {}
  /\ shared = {}

-----------------------------------------------------------------------------
\* The Authorize page

Of(g) == <<g.user, g.client>>
Granted(p) == {s \in Scope : consent[p][s] > 0}

Becomes(f, q) == flow' = [flow EXCEPT ![f] = q]

OpenPage(f, g) ==
  /\ flow[f] = Idle
  /\ g.scopes # {}
  /\ Becomes(f, [op |-> "checking", grant |-> g])
  /\ UNCHANGED <<consent, codes, redeem, sessions, crashes, issued, approved, settled, exposed, shared>>

HasAllScopes(current, required) == required \subseteq current

\* Granted before: submit without a dialog.
ConsentSkipped(f) ==
  /\ flow[f].op = "checking"
  /\ HasAllScopes(Granted(Of(flow[f].grant)), flow[f].grant.scopes)
  /\ Becomes(f, [op |-> "submitting", grant |-> flow[f].grant])
  /\ UNCHANGED <<consent, codes, redeem, sessions, crashes, issued, approved, settled, exposed, shared>>

ConsentRequired(f) ==
  /\ flow[f].op = "checking"
  /\ ~HasAllScopes(Granted(Of(flow[f].grant)), flow[f].grant.scopes)
  /\ Becomes(f, [op |-> "dialog", grant |-> flow[f].grant])
  /\ UNCHANGED <<consent, codes, redeem, sessions, crashes, issued, approved, settled, exposed, shared>>

Deny(f) ==
  /\ flow[f].op = "dialog"
  /\ Becomes(f, Idle)
  /\ UNCHANGED <<consent, codes, redeem, sessions, crashes, issued, approved, settled, exposed, shared>>

Allow(f) ==
  /\ flow[f].op = "dialog"
  /\ LET g == flow[f].grant
     IN  /\ approved' = [approved EXCEPT ![Of(g)] = @ \cup g.scopes]
         /\ Becomes(f, [op |-> "submitting", grant |-> g])
  /\ UNCHANGED <<consent, codes, redeem, sessions, crashes, issued, settled, exposed, shared>>

-----------------------------------------------------------------------------
\* POST /oauth/authorize.  The client is known and its redirect URI matches.

\* upsert: create the row with the scopes, or push them on the array.
PushScopes(f) ==
  /\ flow[f].op = "submitting"
  /\ LET g == flow[f].grant
     IN  /\ consent' = [consent EXCEPT ![Of(g)] =
                          [s \in Scope |-> @[s] + IF s \in g.scopes THEN 1 ELSE 0]]
         /\ Becomes(f, [op |-> "tidying", grant |-> g])
         /\ exposed' = IF \E h \in Flow : flow[h].op = "deduping" /\ Of(flow[h].grant) = Of(g)
                       THEN exposed \cup {f} ELSE exposed
  /\ UNCHANGED <<codes, redeem, sessions, crashes, issued, approved, settled, shared>>

\* Array.from(new Set(scopes))
Unique(array) == [s \in Scope |-> IF array[s] > 0 THEN 1 ELSE 0]

\* Mutant: the array is not looked at again.
ReadConsentNever(f) ==
  /\ flow[f].op = "tidying"
  /\ Becomes(f, [op |-> "issuing", grant |-> flow[f].grant])
  /\ UNCHANGED <<consent, codes, redeem, sessions, crashes, issued, approved, settled, exposed, shared>>

ReadConsent(f) ==
  /\ flow[f].op = "tidying"
  /\ LET g == flow[f].grant
         array == consent[Of(g)]
     IN  IF Unique(array) = array
         THEN Becomes(f, [op |-> "issuing", grant |-> g])
         ELSE Becomes(f, [op |-> "deduping", grant |-> g, unique |-> Unique(array)])
  /\ UNCHANGED <<consent, codes, redeem, sessions, crashes, issued, approved, settled, exposed, shared>>

\* Mutant: the scopes of this request replace the array.
WriteRequested(f) ==
  /\ flow[f].op = "deduping"
  /\ LET g == flow[f].grant
     IN  /\ consent' = [consent EXCEPT ![Of(g)] = [s \in Scope |-> IF s \in g.scopes THEN 1 ELSE 0]]
         /\ Becomes(f, [op |-> "issuing", grant |-> g])
  /\ UNCHANGED <<codes, redeem, sessions, crashes, issued, approved, settled, exposed, shared>>

\* The array is written as it was read.
WriteUnique(f) ==
  /\ flow[f].op = "deduping"
  /\ LET g == flow[f].grant
     IN  /\ consent' = [consent EXCEPT ![Of(g)] = flow[f].unique]
         /\ Becomes(f, [op |-> "issuing", grant |-> g])
  /\ UNCHANGED <<codes, redeem, sessions, crashes, issued, approved, settled, exposed, shared>>

\* setex, and the redirect that takes the code to the client.
IssueCode(f, c) ==
  /\ flow[f].op = "issuing"
  /\ c \in Code \ issued
  /\ LET g == flow[f].grant
     IN  /\ codes' = [x \in DOMAIN codes \cup {c} |-> IF x = c THEN g ELSE codes[x]]
         /\ settled' = [settled EXCEPT ![Of(g)] =
                          IF f \in exposed THEN @ ELSE @ \cup g.scopes]
  /\ issued' = issued \cup {c}
  /\ exposed' = exposed \ {f}
  /\ Becomes(f, Idle)
  /\ UNCHANGED <<consent, redeem, sessions, crashes, approved, shared>>

-----------------------------------------------------------------------------
\* POST /oauth/token

\* The codes that token requests have read and not yet used.
Fetched == {redeem[r].code : r \in {x \in Redeemer : redeem[x] # Idle}}

\* Mutant: the code's client is not compared with the one that presents it.
FetchAnyCode(r, c, client) ==
  /\ redeem[r] = Idle
  /\ c \in DOMAIN codes
  /\ redeem' = [redeem EXCEPT ![r] =
       [op |-> "spending", code |-> c,
        grant |-> [user |-> codes[c].user, client |-> client,
                   scopes |-> codes[c].scopes]]]
  /\ shared' = shared \cup (Fetched \cap {c})
  /\ UNCHANGED <<consent, codes, flow, sessions, crashes, issued, approved, settled, exposed>>

\* The client has proved who it is; the code is its own and the checks pass.
FetchCode(r, c, client) ==
  /\ redeem[r] = Idle
  /\ c \in DOMAIN codes
  /\ codes[c].client = client
  /\ redeem' = [redeem EXCEPT ![r] = [op |-> "spending", code |-> c, grant |-> codes[c]]]
  /\ shared' = shared \cup (Fetched \cap {c})
  /\ UNCHANGED <<consent, codes, flow, sessions, crashes, issued, approved, settled, exposed>>

Without(c) == [x \in DOMAIN codes \ {c} |-> codes[x]]

\* Mutant: the code is left to expire.
SpendNothing(r) ==
  /\ redeem[r].op = "spending"
  /\ redeem' = [redeem EXCEPT ![r] =
       [op |-> "creating", code |-> redeem[r].code, grant |-> redeem[r].grant]]
  /\ UNCHANGED <<consent, codes, flow, sessions, crashes, issued, approved, settled, exposed, shared>>

\* del, which does not say whether the code was still there.
SpendCode(r) ==
  /\ redeem[r].op = "spending"
  /\ codes' = Without(redeem[r].code)
  /\ redeem' = [redeem EXCEPT ![r] =
       [op |-> "creating", code |-> redeem[r].code, grant |-> redeem[r].grant]]
  /\ UNCHANGED <<consent, flow, sessions, crashes, issued, approved, settled, exposed, shared>>

\* Scopes the client may not have are dropped.
CreateSession(r) ==
  /\ redeem[r].op = "creating"
  /\ LET q == redeem[r]
         g == [user |-> q.grant.user, client |-> q.grant.client,
               scopes |-> q.grant.scopes \cap Permitted[q.grant.client]]
         n == Cardinality({s \in sessions : s.code = q.code}) + 1
     IN  sessions' = sessions \cup {[code |-> q.code, nth |-> n, grant |-> g]}
  /\ redeem' = [redeem EXCEPT ![r] = Idle]
  /\ UNCHANGED <<consent, codes, flow, crashes, issued, approved, settled, exposed, shared>>

-----------------------------------------------------------------------------
\* Environment

\* Redis drops the code 60 seconds after it was set.
CodeExpires(c) ==
  /\ c \in DOMAIN codes
  /\ codes' = Without(c)
  /\ UNCHANGED <<consent, flow, redeem, sessions, crashes, issued, approved, settled, exposed, shared>>

\* A page whose consent check fails shows the dialog, one whose authorize call
\* fails an error.
AfterFailure(q) ==
  IF q.op \in {"checking", "dialog"} THEN [op |-> "dialog", grant |-> q.grant] ELSE Idle

\* The process restarts.
Crash ==
  /\ crashes < MaxCrashes
  /\ crashes' = crashes + 1
  /\ flow' = [f \in Flow |-> AfterFailure(flow[f])]
  /\ redeem' = [r \in Redeemer |-> Idle]
  /\ exposed' = {}
  /\ UNCHANGED <<consent, codes, sessions, issued, approved, settled, shared>>

PageStep(f) ==
  \/ \E g \in Grant : OpenPage(f, g)
  \/ ConsentSkipped(f) \/ ConsentRequired(f) \/ Deny(f) \/ Allow(f)
  \/ PushScopes(f) \/ ReadConsent(f) \/ WriteUnique(f)
  \/ \E c \in Code : IssueCode(f, c)

TokenStep(r) ==
  \/ \E c \in Code, client \in Client : FetchCode(r, c, client)
  \/ SpendCode(r) \/ CreateSession(r)

Next ==
  \/ \E f \in Flow : PageStep(f)
  \/ \E r \in Redeemer : TokenStep(r)
  \/ \E c \in Code : CodeExpires(c)
  \/ Crash

Spec == Init /\ [][Next]_vars

-----------------------------------------------------------------------------
(* Properties *)

\* A session carries only scopes its user allowed its client in the dialog,
\* now or at an earlier authorization, and that the client may have.
SessionsWereApproved ==
  \A s \in sessions :
    s.grant.scopes \subseteq approved[Of(s.grant)] \cap Permitted[s.grant.client]

\* However many pages record consent at once, the array is free of duplicates
\* when none of them is between its push and its clean-up.
ConsentTidy ==
  crashes = 0 =>
    \A p \in Pair :
      (\A f \in Flow : flow[f].op \in {"tidying", "deduping"} => Of(flow[f].grant) # p)
        => consent[p] = Unique(consent[p])

\* Consent that was given is not asked for again: the array holds the scopes
\* of every completed authorization, but for those pushed between the read and
\* the write of another page's clean-up.
ConsentRemembered == \A p \in Pair : settled[p] \subseteq Granted(p)

\* A code opens one session, and is gone from Redis when it has: a second
\* session of a code comes only from requests that read it at the same time.
CodesAreOneTime ==
  \A s, t \in sessions :
    /\ s.code \notin DOMAIN codes
    /\ s.code = t.code => s = t \/ s.code \in shared

\* An authorization code works once (docs/api-reference/oauth_token.md).
CodeIsSingleUse == \A s, t \in sessions : s.code = t.code => s = t
=============================================================================
