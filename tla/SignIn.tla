------------------------------- MODULE SignIn -------------------------------
(***************************************************************************)
(* How one account is signed in to: by password with the risk engine and   *)
(* the second factor, by a social account, by a passkey, and by the TOTP   *)
(* challenge.  An attempt is a client and the handlers that serve it, with *)
(* one phase per database or Redis call.  Wrong credentials and codes end  *)
(* an attempt; the counting of them is Lockout.                            *)
(***************************************************************************)
EXTENDS Integers, Sequences, FiniteSets

CONSTANTS
  Attempt,      \* sign-ins under way at once
  FromPages,    \* those of the web application; the others are API clients
  Device,       \* [country, agent] a client may have
  Window,       \* sessions the risk engine looks back at (5 in the code)
  MaxStarts,    \* bound: attempts started, and uses of the tokens they were given
  MaxCounter    \* bound: signatures the passkey gives

ASSUME SignInAssumption ==
  /\ FromPages \subseteq Attempt
  /\ Window \in Nat \ {0}
  /\ MaxStarts \in Nat
  /\ MaxCounter \in Nat

VARIABLES
  account,    \* the tenant of the account, or "none" when there is no account
  totp,       \* an enabled TOTP row exists
  stored,     \* signature counter in the passkey's row; -1 before registration
  signed,     \* signature counter of the authenticator itself
  challenge,  \* hub:passkey:auth:challenge:<email>; 0 is none
  sessions,   \* live sessions, oldest first, as the device each was opened from
  at,         \* what each attempt is doing
  starts,     \* attempts started and tokens used so far; also numbers the challenges
  \* History, read by no guard:
  overtaken   \* attempts that hold a read that is no longer true

vars == <<account, totp, stored, signed, challenge, sessions, at, starts, overtaken>>

\* "hub": no tenant; "own": the workspace a social sign-up creates; "app": the
\* tenant of a client that names itself.
Tenant == {"hub", "own", "app"}
Via == {"password", "social", "totp", "passkey", "code"}

Idle       == [op |-> "idle"]
Password   == [op : {"assess"}, dev : Device]
Assessed   == [op : {"methods"}, dev : Device, score : 0 .. 100]
Social     == [op : {"create", "link", "factor"}, dev : Device, tenant : Tenant]
Challenged == [op : {"reply", "challenged"}, dev : Device,
               screen : {"form", "code"}]
Passkey    == [op : {"sign", "present", "got", "lookup"}, dev : Device, nth : Nat,
               held : Nat, counter : Nat]
Counting   == [op : {"count"}, dev : Device, counter : Nat]
\* token: the client still holds an MFA token.
Granted    == [op : {"granted"}, dev : Device, via : Via, token : BOOLEAN]

TypeOK ==
  /\ account \in {"none"} \cup Tenant
  /\ totp \in BOOLEAN
  /\ signed \in 0 .. MaxCounter /\ stored \in -1 .. signed
  /\ challenge \in 0 .. MaxStarts
  /\ sessions \in Seq(Device)
  /\ at \in [Attempt -> {Idle} \cup Password \cup Assessed \cup Social \cup Challenged
                          \cup Passkey \cup Counting \cup Granted]
  /\ starts \in 0 .. MaxStarts
  /\ overtaken \subseteq Attempt

Becomes(a, q) == at' = [at EXCEPT ![a] = q]

Counts(a, q) ==
  /\ starts < MaxStarts
  /\ starts' = starts + 1
  /\ Becomes(a, q)

Starts(a, q) == at[a] = Idle /\ Counts(a, q)

\* A session is about to be created for a client without an MFA token.
Grants(dev, via) == [op |-> "granted", dev |-> dev, via |-> via, token |-> FALSE]

Init ==
  /\ account \in {"none", "hub", "app"}
  /\ totp = FALSE
  /\ stored = -1
  /\ signed = 0
  /\ challenge = 0
  /\ sessions = <<>>
  /\ at = [a \in Attempt |-> Idle]
  /\ starts = 0
  /\ overtaken = {}

\* Attempt a ends without a session.
GivesUp(a) == Becomes(a, Idle) /\ overtaken' = overtaken \ {a}

-----------------------------------------------------------------------------
\* The risk engine

Recent == {sessions[i] : i \in {j \in DOMAIN sessions : j > Len(sessions) - Window}}

Nowhere == {"loopback", "unknown"}
KnownCountries == {s.country : s \in Recent} \ Nowhere
KnownAgents == {s.agent : s \in Recent}

NewCountry(dev) ==
  KnownCountries # {} /\ dev.country # "unknown" /\ dev.country \notin KnownCountries

RiskScore(dev) ==
  CASE dev.country = "loopback" -> 0
    [] Recent = {}              -> 10
    [] OTHER -> (IF NewCountry(dev) THEN 50 ELSE 0)
                  + (IF dev.agent \notin KnownAgents THEN 30 ELSE 0)

-----------------------------------------------------------------------------
\* Registration and POST /auth/login

\* The tenant of client_id, or none; the e-mail is unique.
Register(tenant) ==
  /\ account = "none"
  /\ tenant \in {"hub", "app"}
  /\ account' = tenant
  /\ UNCHANGED <<totp, stored, signed, challenge, sessions, at, starts, overtaken>>

\* The password is right, and so is the tenant if the client names one.
Login(a, dev, tenant) ==
  /\ account # "none"
  /\ tenant = "app" => account = "app"
  /\ Starts(a, [op |-> "assess", dev |-> dev])
  /\ UNCHANGED <<account, totp, stored, signed, challenge, sessions, overtaken>>

Assess(a) ==
  /\ at[a].op = "assess"
  /\ RiskScore(at[a].dev) < 80
  /\ Becomes(a, [op |-> "methods", dev |-> at[a].dev,
                 score |-> RiskScore(at[a].dev)])
  /\ UNCHANGED <<account, totp, stored, signed, challenge, sessions, starts, overtaken>>

Block(a) ==
  /\ at[a].op = "assess"
  /\ RiskScore(at[a].dev) >= 80
  /\ GivesUp(a)
  /\ UNCHANGED <<account, totp, stored, signed, challenge, sessions, starts>>

\* A registered passkey counts as a method, although the challenge takes TOTP.
HasMethods == totp \/ stored >= 0

\* Mutant: only the user's own settings ask for a second factor.
StepUpForMethods(score) == HasMethods

StepUp(score) == HasMethods \/ score >= 40

CheckMethods(a) ==
  /\ at[a].op = "methods"
  /\ Becomes(a, IF StepUp(at[a].score)
                THEN [op |-> "reply", dev |-> at[a].dev, screen |-> "form"]
                ELSE Grants(at[a].dev, "password"))
  /\ UNCHANGED <<account, totp, stored, signed, challenge, sessions, starts, overtaken>>

-----------------------------------------------------------------------------
\* The answer to a client that needs a second factor

\* What login sends, and the field the Login page looks for.
MfaReply == {"status", "mfa_token", "message"}
LoginPageTest == "mfaRequired"

\* The page takes an answer without that field for a sign-in: it stores no
\* token and no user, and the route guard shows the form again.  The page that
\* a social callback redirects to looks for its token in the router's state,
\* finds none and does the same.
HandleReply(a) ==
  /\ at[a].op = "reply"
  /\ Becomes(a, [at[a] EXCEPT !.op = "challenged",
                              !.screen = IF a \notin FromPages \/ LoginPageTest \in MfaReply
                                         THEN "code" ELSE "form"])
  /\ UNCHANGED <<account, totp, stored, signed, challenge, sessions, starts, overtaken>>

\* A client that has kept its MFA token: a JWT of five minutes, which nothing
\* counts, and which authenticate takes for a bearer token like any other.
Pending(a) == at[a].op = "challenged" /\ at[a].screen = "code"

\* POST /auth/mfa/totp/challenge with a right code.
ChallengeTotp(a) ==
  /\ Pending(a)
  /\ totp
  /\ Counts(a, [op |-> "granted", dev |-> at[a].dev, via |-> "totp", token |-> TRUE])
  /\ UNCHANGED <<account, totp, stored, signed, challenge, sessions, overtaken>>

\* authorize with a bearer token, and the exchange of the code at /oauth/token,
\* from wherever: AuthCode has them in detail.  Neither asks how the user of the
\* token signed in.  (An access token outlives its session; not here.)
Authorize(a, dev) ==
  /\ \/ Pending(a)
     \/ at[a] = Idle /\ sessions # <<>>
  /\ Counts(a, [op |-> "granted", dev |-> dev, via |-> "code", token |-> Pending(a)])
  /\ UNCHANGED <<account, totp, stored, signed, challenge, sessions, overtaken>>

MfaTokenExpires(a) ==
  /\ at[a].op = "challenged"
  /\ GivesUp(a)
  /\ UNCHANGED <<account, totp, stored, signed, challenge, sessions, starts>>

-----------------------------------------------------------------------------
\* The Google and GitHub callbacks, not in link mode

\* Looked up by e-mail; inside the tenant when the client names one.
Found(tenant) == account # "none" /\ (tenant = "app" => account = "app")

SocialCallback(a, dev, tenant) ==
  /\ tenant \in {"hub", "app"}
  /\ Starts(a, [op |-> IF Found(tenant) THEN "link" ELSE "create",
                dev |-> dev, tenant |-> tenant])
  /\ UNCHANGED <<account, totp, stored, signed, challenge, sessions, overtaken>>

\* Without a tenant a workspace is created with the account, in every mode.
\* The pages ask for mode=login, which creates nothing inside a tenant.
SocialCreate(a) ==
  /\ at[a].op = "create"
  /\ account = "none"
  /\ at[a].tenant = "app" => a \notin FromPages
  /\ account' = IF at[a].tenant = "app" THEN "app" ELSE "own"
  /\ Becomes(a, [at[a] EXCEPT !.op = "link"])
  /\ UNCHANGED <<totp, stored, signed, challenge, sessions, starts, overtaken>>

\* Mutant: an e-mail taken in the meantime is not caught.
SocialFailsIfRefused(a) ==
  /\ at[a].op = "create"
  /\ at[a].tenant = "app" /\ a \in FromPages
  /\ GivesUp(a)
  /\ UNCHANGED <<account, totp, stored, signed, challenge, sessions, starts>>

\* account_not_found, or the e-mail is taken by now: oauth_failed.
SocialFails(a) ==
  /\ at[a].op = "create"
  /\ account # "none" \/ (at[a].tenant = "app" /\ a \in FromPages)
  /\ GivesUp(a)
  /\ UNCHANGED <<account, totp, stored, signed, challenge, sessions, starts>>

\* The link is for Account; sign-in never looks at it.
SocialLink(a) ==
  /\ at[a].op = "link"
  /\ Becomes(a, [at[a] EXCEPT !.op = "factor"])
  /\ UNCHANGED <<account, totp, stored, signed, challenge, sessions, starts, overtaken>>

SocialFactor(a) ==
  /\ at[a].op = "factor"
  /\ Becomes(a, IF totp
                THEN [op |-> "reply", dev |-> at[a].dev, screen |-> "form"]
                ELSE Grants(at[a].dev, "social"))
  /\ UNCHANGED <<account, totp, stored, signed, challenge, sessions, starts, overtaken>>

-----------------------------------------------------------------------------
\* Passkeys

AuthOptions(a, dev) ==
  /\ stored >= 0
  /\ Starts(a, [op |-> "sign", dev |-> dev, nth |-> starts + 1, held |-> 0, counter |-> 0])
  /\ challenge' = starts + 1
  /\ UNCHANGED <<account, totp, stored, signed, sessions, overtaken>>

\* The authenticator counts its signatures.
Sign(a) ==
  /\ at[a].op = "sign"
  /\ signed < MaxCounter
  /\ signed' = signed + 1
  /\ Becomes(a, [at[a] EXCEPT !.op = "present", !.counter = signed + 1])
  /\ UNCHANGED <<account, totp, stored, challenge, sessions, starts, overtaken>>

GetChallenge(a) ==
  /\ at[a].op = "present"
  /\ challenge # 0
  /\ Becomes(a, [at[a] EXCEPT !.op = "got", !.held = challenge])
  /\ UNCHANGED <<account, totp, stored, signed, challenge, sessions, starts, overtaken>>

DropChallenge(a) ==
  /\ at[a].op = "got"
  /\ challenge' = 0
  /\ Becomes(a, [at[a] EXCEPT !.op = "lookup"])
  /\ UNCHANGED <<account, totp, stored, signed, sessions, starts, overtaken>>

\* Mutant: the counter is not compared.
VerifiedAnyCounter(q) == q.held = q.nth

\* verifyAuthenticationResponse: the challenge, and a counter beyond the stored.
\* The other attempts that passed it before are about to store theirs.
Verified(q) == q.held = q.nth /\ q.counter > stored

VerifyPasskey(a) ==
  /\ at[a].op = "lookup"
  /\ Verified(at[a])
  /\ Becomes(a, [op |-> "count", dev |-> at[a].dev, counter |-> at[a].counter])
  /\ UNCHANGED <<account, totp, stored, signed, challenge, sessions, starts, overtaken>>

\* The challenge is gone, replaced by another's, or the counter is too old; or
\* the user does not sign.
PasskeyFails(a) ==
  /\ \/ at[a].op = "sign"
     \/ at[a].op = "present" /\ challenge = 0
     \/ at[a].op = "lookup" /\ ~Verified(at[a])
  /\ GivesUp(a)
  /\ UNCHANGED <<account, totp, stored, signed, challenge, sessions, starts>>

\* Mutant: the counter to come is stored.
StoreNextCounter(a) ==
  /\ at[a].op = "count"
  /\ stored' = at[a].counter + 1
  /\ overtaken' = (overtaken \ {a}) \cup {b \in Attempt \ {a} : at[b].op = "count"}
  /\ Becomes(a, Grants(at[a].dev, "passkey"))
  /\ UNCHANGED <<account, totp, signed, challenge, sessions, starts>>

StoreCounter(a) ==
  /\ at[a].op = "count"
  /\ stored' = at[a].counter
  /\ overtaken' = (overtaken \ {a}) \cup {b \in Attempt \ {a} : at[b].op = "count"}
  /\ Becomes(a, Grants(at[a].dev, "passkey"))
  /\ UNCHANGED <<account, totp, signed, challenge, sessions, starts>>

ChallengeExpires ==
  /\ challenge # 0
  /\ challenge' = 0
  /\ UNCHANGED <<account, totp, stored, signed, sessions, at, starts, overtaken>>

-----------------------------------------------------------------------------
\* Attempts whose reads a change of the sessions or the methods outdates.
Reading == {a \in Attempt : at[a].op \in {"methods", "granted"}}

\* The row records the device, for the next look of the risk engine.  The MFA
\* token is as good as before.
OpenSession(a, via) ==
  /\ at[a].op = "granted"
  /\ at[a].via = via
  /\ sessions' = Append(sessions, at[a].dev)
  /\ Becomes(a, IF at[a].token THEN [op |-> "challenged", dev |-> at[a].dev, screen |-> "code"]
                               ELSE Idle)
  /\ overtaken' = (overtaken \cup Reading) \ {a}
  /\ UNCHANGED <<account, totp, stored, signed, challenge, starts>>

\* Each handler has this tail of its own; none looks at the methods again.
LoginSession(a)   == OpenSession(a, "password")
SocialSession(a)  == OpenSession(a, "social")
TotpSession(a)    == OpenSession(a, "totp")
PasskeySession(a) == OpenSession(a, "passkey")
CodeSession(a)    == OpenSession(a, "code")

CreateSession(a) ==
  \/ LoginSession(a) \/ SocialSession(a) \/ TotpSession(a) \/ PasskeySession(a)
  \/ CodeSession(a)

\* Logout, revocation and expiry; Sessions has them in detail.
EndSession(i) ==
  /\ sessions' = SubSeq(sessions, 1, i - 1) \o SubSeq(sessions, i + 1, Len(sessions))
  /\ overtaken' = overtaken \cup Reading
  /\ UNCHANGED <<account, totp, stored, signed, challenge, at, starts>>

\* Somebody has a token that authenticate takes.
Bearer == sessions # <<>> \/ \E a \in Attempt : Pending(a)

\* enrollTotp and verifyTotp; Account has them in detail.
EnableTotp ==
  /\ Bearer /\ ~totp
  /\ totp' = TRUE
  /\ overtaken' = overtaken \cup Reading
  /\ UNCHANGED <<account, stored, signed, challenge, sessions, at, starts>>

\* register/options, the authenticator, register/verify: enabled at once.
RegisterPasskey ==
  /\ Bearer /\ stored = -1
  /\ stored' = signed
  /\ overtaken' = overtaken \cup Reading
  /\ UNCHANGED <<account, totp, signed, challenge, sessions, at, starts>>

\* What the process or a time limit will do by itself.
Step(a) ==
  \/ Assess(a) \/ Block(a) \/ CheckMethods(a) \/ HandleReply(a) \/ MfaTokenExpires(a)
  \/ SocialCreate(a) \/ SocialFails(a) \/ SocialLink(a) \/ SocialFactor(a)
  \/ GetChallenge(a) \/ DropChallenge(a) \/ VerifyPasskey(a) \/ PasskeyFails(a)
  \/ StoreCounter(a) \/ CreateSession(a)

Next ==
  \/ \E a \in Attempt :
       \/ Step(a) \/ ChallengeTotp(a) \/ Sign(a)
       \/ \E dev \in Device :
            \/ AuthOptions(a, dev) \/ Authorize(a, dev)
            \/ \E tenant \in {"hub", "app"} :
                 Login(a, dev, tenant) \/ SocialCallback(a, dev, tenant)
  \/ \E tenant \in Tenant : Register(tenant)
  \/ \E i \in DOMAIN sessions : EndSession(i)
  \/ EnableTotp \/ RegisterPasskey \/ ChallengeExpires

Spec == Init /\ [][Next]_vars

\* The event loop resumes every handler; the five minutes of an MFA token go by
\* however often it is used.
FairSpec ==
  Spec /\ \A a \in Attempt : WF_vars(Step(a)) /\ SF_vars(MfaTokenExpires(a))

-----------------------------------------------------------------------------
\* login gives a session on the password alone to a device the risk engine
\* accepts and into an account without a second factor, the social callback on
\* the social account alone into one without TOTP; unless the sessions or the
\* methods changed after the attempt had read them.  It is no property of the
\* account: the MFA token that the others get is a bearer token, with which
\* Authorize opens a session, and EnableTotp sets the second factor asked for.
SessionsAreEarned ==
  [][\A a \in Attempt \ overtaken :
       at[a].op = "granted" /\ at'[a] # at[a] =>
         /\ at[a].via = "password" => ~HasMethods /\ RiskScore(at[a].dev) < 40
         /\ at[a].via = "social" => ~totp
    ]_vars

\* The counter that tells a cloned passkey from the original never goes back,
\* unless two verifications that overlapped store theirs in the other order.
CounterNeverFalls ==
  [][stored' < stored => \E a \in overtaken : at[a].op = "count" /\ at'[a] # at[a]]_vars

\* Every attempt comes to an end: a session, a refusal, or the form again.
AttemptsSettle == \A a \in Attempt : at[a].op # "idle" ~> at[a].op = "idle"

\* docs/tutorials/mfa-challenge.md: "If the response contains `status:
\* "mfa_required"`, present a challenge screen."
ChallengePresented ==
  \A a \in Attempt : at[a].op = "challenged" => at[a].screen = "code"
=============================================================================
