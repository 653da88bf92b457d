---------------------------- MODULE SignInProofs ----------------------------
(***************************************************************************)
(* Proofs about SignIn, for any attempts, pages, devices, window of the    *)
(* risk engine and bounds.                                                 *)
(***************************************************************************)
EXTENDS SignIn, SequenceTheorems, TLAPS

-----------------------------------------------------------------------------
(* Shape: the types, without the bounds that keep TLC's instances finite.  *)

State == {Idle} \cup Password \cup Assessed \cup Social \cup Challenged
                \cup Passkey \cup Counting \cup Granted

Shape ==
  /\ at \in [Attempt -> State]
  /\ stored \in Int /\ signed \in Nat
  /\ challenge \in Nat /\ starts \in Nat

LEMMA RiskTyped ==
  ASSUME NEW dev
  PROVE  RiskScore(dev) \in 0 .. 100
<1>1. (IF NewCountry(dev) THEN 50 ELSE 0) \in {0, 50}
  OBVIOUS
<1>2. (IF dev.agent \notin KnownAgents THEN 30 ELSE 0) \in {0, 30}
  OBVIOUS
<1> QED BY <1>1, <1>2 DEF RiskScore

LEMMA RiskKept ==
  ASSUME NEW dev, UNCHANGED sessions
  PROVE  RiskScore(dev)' = RiskScore(dev)
  BY DEF RiskScore, Recent, KnownCountries, KnownAgents, NewCountry

\* What a phase is made of, and the phases it is followed by.
LEMMA Phases ==
  ASSUME NEW q \in State
  PROVE  /\ q.op = "assess" => q.dev \in Device
         /\ q.op = "methods" => q.dev \in Device /\ q.score \in 0 .. 100
         /\ q.op \in {"create", "link", "factor"} => q \in Social
         /\ q.op \in {"reply", "challenged"} => q \in Challenged
         /\ q.op \in {"sign", "present", "got", "lookup"} => q \in Passkey
         /\ q.op = "count" => q.dev \in Device /\ q.counter \in Nat
         /\ q.op = "granted" => q.dev \in Device
<1> USE DEF Idle, Password, Assessed, Social, Challenged, Passkey, Counting, Granted
<1>1. CASE q \in {Idle} \cup Password
  BY <1>1
<1>2. CASE q \in Assessed
  BY <1>2
<1>3. CASE q \in Social
  BY <1>3
<1>4. CASE q \in Challenged
  BY <1>4
<1>5. CASE q \in Passkey
  BY <1>5
<1>6. CASE q \in Counting \cup Granted
  BY <1>6
<1> QED BY <1>1, <1>2, <1>3, <1>4, <1>5, <1>6 DEF State

-----------------------------------------------------------------------------
(* An attempt that was not overtaken holds reads that are still true.       *)

WithPasskey == {"sign", "present", "got", "lookup", "count"}

Earned(q) ==
  /\ q.op = "methods" => q.score = RiskScore(q.dev)
  /\ q.op = "granted" /\ q.via = "password" => ~HasMethods /\ RiskScore(q.dev) < 40
  /\ q.op = "granted" /\ q.via = "social" => ~totp
  /\ q.op = "count" => q.counter > stored

EarnedInv ==
  /\ Shape
  /\ \A a \in Attempt \ overtaken, q \in State : at[a] = q => Earned(q)
  /\ \A a \in Attempt : at[a].op \in WithPasskey => stored >= 0

LEMMA InitEarned == ASSUME Init PROVE EarnedInv
<1>1. at = [a \in Attempt |-> Idle] /\ stored = -1 /\ signed = 0 /\ challenge = 0 /\ starts = 0
  BY DEF Init
<1>2. Shape
  BY <1>1 DEF Shape, State
<1>3. \A a \in Attempt : at[a].op = "idle"
  BY <1>1 DEF Idle
<1> QED BY <1>2, <1>3 DEF EarnedInv, Earned, WithPasskey

LEMMA EarnedKept ==
  ASSUME NEW q, Earned(q), UNCHANGED <<totp, stored, sessions>>
  PROVE  Earned(q)'
<1>1. RiskScore(q.dev)' = RiskScore(q.dev) /\ HasMethods' = HasMethods
  BY RiskKept DEF HasMethods
<1> QED BY <1>1 DEF Earned

\* An attempt moves on; sessions and methods stay.
LEMMA MoveEarned ==
  ASSUME EarnedInv, NEW a \in Attempt, NEW q \in State, Becomes(a, q),
         UNCHANGED <<totp, stored, sessions>>,
         signed' \in Nat, challenge' \in Nat, starts' \in Nat,
         overtaken \subseteq overtaken' \cup {a},
         a \notin overtaken' => Earned(q),
         q.op \in WithPasskey => stored >= 0
  PROVE  EarnedInv'
<1>1. /\ at' \in [Attempt -> State]
      /\ at'[a] = q
      /\ \A b \in Attempt \ {a} : at'[b] = at[b]
  BY DEF Becomes, EarnedInv, Shape
<1>2. Shape'
  BY <1>1 DEF EarnedInv, Shape
<1>3. ASSUME NEW b \in Attempt \ overtaken', NEW p \in State, at'[b] = p
      PROVE  Earned(p)'
  <2>1. Earned(p)
    BY <1>1, <1>3 DEF EarnedInv
  <2> QED BY <2>1, EarnedKept
<1>4. \A b \in Attempt : at'[b].op \in WithPasskey => stored' >= 0
  BY <1>1 DEF EarnedInv
<1> QED BY <1>2, <1>3, <1>4 DEF EarnedInv

\* Sessions or methods change: whoever has read them is overtaken.
LEMMA ChangeEarned ==
  ASSUME EarnedInv, Shape',
         NEW moved \in SUBSET Attempt,
         \A b \in Attempt \ moved : at'[b] = at[b],
         \A b \in moved : at'[b].op \in {"idle", "challenged"},
         Reading \subseteq overtaken' \cup moved,
         overtaken \subseteq overtaken' \cup moved,
         stored' # stored => \A b \in Attempt : at[b].op # "count",
         stored >= 0 => stored' >= 0
  PROVE  EarnedInv'
<1>1. ASSUME NEW b \in Attempt \ overtaken', NEW p \in State, at'[b] = p
      PROVE  Earned(p)'
  <2>1. p.op \notin {"methods", "granted"}
    BY <1>1 DEF Reading
  <2>2. CASE p.op = "count"
    <3>1. b \notin moved /\ at[b] = p /\ b \notin overtaken /\ stored' = stored
      BY <1>1, <2>2
    <3>2. Earned(p)
      BY <1>1, <3>1 DEF EarnedInv
    <3> QED BY <2>1, <2>2, <3>1, <3>2 DEF Earned
  <2>3. CASE p.op # "count"
    BY <2>1, <2>3 DEF Earned
  <2> QED BY <2>2, <2>3
<1>2. \A b \in Attempt : at'[b].op \in WithPasskey => stored' >= 0
  BY DEF EarnedInv, WithPasskey
<1> QED BY <1>1, <1>2 DEF EarnedInv

-----------------------------------------------------------------------------
(* The steps                                                                *)

\* Phases with nothing read that could be outdated.
Fresh == {"idle", "assess", "create", "link", "factor", "reply", "challenged"}

LEMMA FreshEarned ==
  ASSUME EarnedInv, NEW a \in Attempt, NEW q \in State, Becomes(a, q), q.op \in Fresh,
         UNCHANGED <<totp, stored, sessions>>,
         signed' \in Nat, challenge' \in Nat, starts' \in Nat,
         overtaken \subseteq overtaken' \cup {a}
  PROVE  EarnedInv'
<1>1. Earned(q) /\ q.op \notin WithPasskey
  BY DEF Earned, Fresh, WithPasskey
<1> QED BY <1>1, MoveEarned

LEMMA GivesUpEarned ==
  ASSUME EarnedInv, NEW a \in Attempt, GivesUp(a),
         UNCHANGED <<stored, signed, challenge, starts, totp, sessions>>
  PROVE  EarnedInv'
<1>1. Idle \in State /\ Idle.op \in Fresh
  BY DEF State, Idle, Fresh
<1>2. Becomes(a, Idle) /\ overtaken' = overtaken \ {a}
  BY DEF GivesUp
<1>3. signed \in Nat /\ challenge \in Nat /\ starts \in Nat
  BY DEF EarnedInv, Shape
<1> QED BY <1>1, <1>2, <1>3, FreshEarned

LEMMA FailingEarned ==
  ASSUME EarnedInv, NEW a \in Attempt,
         Block(a) \/ MfaTokenExpires(a) \/ SocialFails(a) \/ PasskeyFails(a)
  PROVE  EarnedInv'
  BY GivesUpEarned DEF Block, MfaTokenExpires, SocialFails, PasskeyFails

LEMMA StartEarned ==
  ASSUME EarnedInv, NEW a \in Attempt, NEW dev \in Device, NEW tenant \in {"hub", "app"},
         Login(a, dev, tenant) \/ SocialCallback(a, dev, tenant)
  PROVE  EarnedInv'
<1>1. /\ [op |-> "assess", dev |-> dev] \in State
      /\ \A op \in {"link", "create"} : [op |-> op, dev |-> dev, tenant |-> tenant] \in State
  BY DEF State, Password, Social, Tenant
<1>2. /\ signed \in Nat /\ challenge \in Nat /\ starts \in Nat /\ starts + 1 \in Nat
  BY DEF EarnedInv, Shape
<1>3. CASE Login(a, dev, tenant)
  <2>1. /\ Becomes(a, [op |-> "assess", dev |-> dev]) /\ starts' = starts + 1
        /\ UNCHANGED <<totp, stored, sessions, signed, challenge, overtaken>>
    BY <1>3 DEF Login, Starts, Counts
  <2> QED BY <1>1, <1>2, <2>1, FreshEarned DEF Fresh
<1>4. CASE SocialCallback(a, dev, tenant)
  <2> DEFINE op == IF Found(tenant) THEN "link" ELSE "create"
  <2>1. /\ Becomes(a, [op |-> op, dev |-> dev, tenant |-> tenant]) /\ starts' = starts + 1
        /\ UNCHANGED <<totp, stored, sessions, signed, challenge, overtaken>>
    BY <1>4 DEF SocialCallback, Starts, Counts
  <2>2. op \in {"link", "create"}
    OBVIOUS
  <2> HIDE DEF op
  <2> QED BY <1>1, <1>2, <2>1, <2>2, FreshEarned DEF Fresh
<1> QED BY <1>3, <1>4

\* The password, the second factor, and social accounts.
LEMMA FactorEarned ==
  ASSUME EarnedInv, NEW a \in Attempt,
         \/ Assess(a) \/ CheckMethods(a) \/ HandleReply(a) \/ SocialCreate(a)
         \/ SocialLink(a) \/ SocialFactor(a)
  PROVE  EarnedInv'
<1> DEFINE dev == at[a].dev
           granted(via) == Grants(dev, via)
           reply == [op |-> "reply", dev |-> dev, screen |-> "form"]
<1>1. /\ at[a] \in State
      /\ signed \in Nat /\ challenge \in Nat /\ starts \in Nat
  BY DEF EarnedInv, Shape
<1>2. /\ at[a].op = "assess" => dev \in Device
      /\ at[a].op = "methods" => dev \in Device /\ at[a].score \in 0 .. 100
      /\ at[a].op \in {"create", "link", "factor"} => at[a] \in Social
      /\ at[a].op \in {"reply", "challenged"} => at[a] \in Challenged
  BY <1>1, Phases
<1>3. UNCHANGED <<totp, stored, sessions, signed, challenge, starts, overtaken>>
  BY DEF Assess, CheckMethods, HandleReply, SocialCreate, SocialLink, SocialFactor
<1>4. ASSUME NEW q \in State, Becomes(a, q), a \notin overtaken => Earned(q),
             q.op \notin WithPasskey
      PROVE  EarnedInv'
  BY <1>1, <1>3, <1>4, MoveEarned
<1>5. ASSUME dev \in Device
      PROVE  /\ \A via \in Via : granted(via) \in State
             /\ reply \in State
  BY <1>5 DEF State, Grants, Granted, Challenged
<1>6. Earned(reply)
  BY DEF Earned
<1>7. CASE Assess(a)
  <2> DEFINE q == [op |-> "methods", dev |-> dev, score |-> RiskScore(dev)]
  <2>1. q \in State
    BY <1>2, <1>7, RiskTyped DEF Assess, State, Assessed
  <2>2. Earned(q) /\ q.op \notin WithPasskey
    BY DEF Earned, WithPasskey
  <2>3. Becomes(a, q)
    BY <1>7 DEF Assess
  <2> QED BY <1>4, <2>1, <2>2, <2>3
<1>8. CASE CheckMethods(a)
  <2>1. dev \in Device /\ at[a].op = "methods" /\ at[a].score \in 0 .. 100
    BY <1>2, <1>8 DEF CheckMethods
  <2>2. CASE StepUp(at[a].score)
    <3>1. Becomes(a, reply)
      BY <1>8, <2>2 DEF CheckMethods
    <3> QED BY <1>4, <1>5, <1>6, <2>1, <3>1 DEF WithPasskey
  <2>3. CASE ~StepUp(at[a].score)
    <3>1. Becomes(a, granted("password"))
      BY <1>8, <2>3 DEF CheckMethods
    <3>2. ~HasMethods /\ at[a].score < 40
      BY <2>1, <2>3 DEF StepUp
    <3>3. a \notin overtaken => at[a].score = RiskScore(dev)
      BY <1>1, <2>1 DEF EarnedInv, Earned
    <3>4. a \notin overtaken => Earned(granted("password"))
      BY <3>2, <3>3 DEF Earned, Grants
    <3> QED BY <1>4, <1>5, <2>1, <3>1, <3>4 DEF WithPasskey, Via, Grants
  <2> QED BY <2>2, <2>3
<1>9. CASE HandleReply(a)
  <2> DEFINE screen == IF a \notin FromPages \/ LoginPageTest \in MfaReply THEN "code" ELSE "form"
             q == [at[a] EXCEPT !.op = "challenged", !.screen = screen]
  <2>1. Becomes(a, q) /\ at[a] \in Challenged
    BY <1>2, <1>9 DEF HandleReply
  <2>2. screen \in {"form", "code"}
    OBVIOUS
  <2> HIDE DEF screen
  <2>3. q \in State /\ q.op = "challenged"
    BY <2>1, <2>2 DEF State, Challenged
  <2>4. Earned(q) /\ q.op \notin WithPasskey
    BY <2>3 DEF Earned, WithPasskey
  <2> QED BY <1>4, <2>1, <2>3, <2>4
<1>10. CASE SocialCreate(a) \/ SocialLink(a)
  <2>1. PICK op \in {"link", "factor"} : Becomes(a, [at[a] EXCEPT !.op = op]) /\ at[a] \in Social
    BY <1>2, <1>10 DEF SocialCreate, SocialLink
  <2> DEFINE q == [at[a] EXCEPT !.op = op]
  <2>2. q \in State /\ q.op = op
    BY <2>1 DEF State, Social
  <2>3. Earned(q) /\ q.op \notin WithPasskey
    BY <2>2 DEF Earned, WithPasskey
  <2> QED BY <1>4, <2>1, <2>2, <2>3
<1>11. CASE SocialFactor(a)
  <2>1. dev \in Device
    BY <1>2, <1>11 DEF SocialFactor, Social
  <2>2. CASE totp
    <3>1. Becomes(a, reply)
      BY <1>11, <2>2 DEF SocialFactor
    <3> QED BY <1>4, <1>5, <1>6, <2>1, <3>1 DEF WithPasskey
  <2>3. CASE ~totp
    <3>1. Becomes(a, granted("social"))
      BY <1>11, <2>3 DEF SocialFactor
    <3>2. Earned(granted("social"))
      BY <2>3 DEF Earned, Grants
    <3> QED BY <1>4, <1>5, <2>1, <3>1, <3>2 DEF Via, WithPasskey, Grants
  <2> QED BY <2>2, <2>3
<1> QED BY <1>7, <1>8, <1>9, <1>10, <1>11

\* What a client with an MFA token, or one that is signed in, does with it.
LEMMA TokenEarned ==
  ASSUME EarnedInv, NEW a \in Attempt,
         ChallengeTotp(a) \/ \E dev \in Device : Authorize(a, dev)
  PROVE  EarnedInv'
<1>1. at[a] \in State /\ starts + 1 \in Nat /\ signed \in Nat /\ challenge \in Nat
  BY DEF EarnedInv, Shape
<1>2. PICK dev \in Device, via \in {"totp", "code"}, token \in BOOLEAN :
         Becomes(a, [op |-> "granted", dev |-> dev, via |-> via, token |-> token])
  <2>1. CASE ChallengeTotp(a)
    <3>1. at[a].dev \in Device
      BY <1>1, <2>1, Phases DEF ChallengeTotp, Pending, Challenged
    <3> QED BY <2>1, <3>1 DEF ChallengeTotp, Counts
  <2>2. CASE \E dev \in Device : Authorize(a, dev)
    <3>1. Pending(a) \in BOOLEAN
      BY DEF Pending
    <3> QED BY <2>2, <3>1 DEF Authorize, Counts
  <2> QED BY <2>1, <2>2
<1> DEFINE q == [op |-> "granted", dev |-> dev, via |-> via, token |-> token]
<1>3. q \in State
  BY DEF State, Granted, Via
<1>4. Earned(q) /\ q.op \notin WithPasskey
  BY DEF Earned, WithPasskey
<1>5. /\ starts' = starts + 1
      /\ UNCHANGED <<totp, stored, sessions, signed, challenge, overtaken>>
  BY DEF ChallengeTotp, Authorize, Counts
<1> QED BY <1>1, <1>2, <1>3, <1>4, <1>5, MoveEarned

\* Passkeys, up to the verification.
LEMMA PasskeyEarned ==
  ASSUME EarnedInv, NEW a \in Attempt,
         \/ \E dev \in Device : AuthOptions(a, dev)
         \/ Sign(a) \/ GetChallenge(a) \/ DropChallenge(a) \/ VerifyPasskey(a)
  PROVE  EarnedInv'
<1>1. /\ at[a] \in State
      /\ signed \in Nat /\ challenge \in Nat /\ starts \in Nat /\ starts + 1 \in Nat
      /\ signed + 1 \in Nat
      /\ at[a].op \in WithPasskey => stored >= 0
  BY DEF EarnedInv, Shape
<1>2. at[a].op \in {"sign", "present", "got", "lookup"} => at[a] \in Passkey
  BY <1>1, Phases
<1>3. ASSUME NEW q \in Passkey, q.op \in {"sign", "present", "got", "lookup"}, Becomes(a, q),
             stored >= 0, UNCHANGED <<totp, stored, sessions, overtaken>>,
             signed' \in Nat, challenge' \in Nat, starts' \in Nat
      PROVE  EarnedInv'
  <2>1. q \in State /\ Earned(q)
    BY <1>3 DEF State, Earned
  <2> QED BY <1>3, <2>1, MoveEarned
<1>4. ASSUME NEW dev \in Device, AuthOptions(a, dev) PROVE EarnedInv'
  <2> DEFINE q == [op |-> "sign", dev |-> dev, nth |-> starts + 1, held |-> 0, counter |-> 0]
  <2>1. q \in Passkey
    BY <1>1 DEF Passkey
  <2>2. /\ Becomes(a, q) /\ stored >= 0 /\ challenge' = starts + 1 /\ starts' = starts + 1
        /\ UNCHANGED <<totp, stored, sessions, overtaken, signed>>
    BY <1>4 DEF AuthOptions, Starts, Counts
  <2> QED BY <1>1, <1>3, <2>1, <2>2
<1>5. CASE Sign(a)
  <2> DEFINE q == [at[a] EXCEPT !.op = "present", !.counter = signed + 1]
  <2>1. at[a] \in Passkey /\ stored >= 0
    BY <1>1, <1>2, <1>5 DEF Sign, WithPasskey
  <2>2. q \in Passkey /\ q.op = "present"
    BY <1>1, <2>1 DEF Passkey
  <2>3. /\ Becomes(a, q) /\ signed' = signed + 1
        /\ UNCHANGED <<totp, stored, sessions, overtaken, challenge, starts>>
    BY <1>5 DEF Sign
  <2> QED BY <1>1, <1>3, <2>1, <2>2, <2>3
<1>6. CASE GetChallenge(a)
  <2> DEFINE q == [at[a] EXCEPT !.op = "got", !.held = challenge]
  <2>1. at[a] \in Passkey /\ stored >= 0
    BY <1>1, <1>2, <1>6 DEF GetChallenge, WithPasskey
  <2>2. q \in Passkey /\ q.op = "got"
    BY <1>1, <2>1 DEF Passkey
  <2>3. /\ Becomes(a, q)
        /\ UNCHANGED <<totp, stored, sessions, overtaken, challenge, starts, signed>>
    BY <1>6 DEF GetChallenge
  <2> QED BY <1>1, <1>3, <2>1, <2>2, <2>3
<1>7. CASE DropChallenge(a)
  <2> DEFINE q == [at[a] EXCEPT !.op = "lookup"]
  <2>1. at[a] \in Passkey /\ stored >= 0
    BY <1>1, <1>2, <1>7 DEF DropChallenge, WithPasskey
  <2>2. q \in Passkey /\ q.op = "lookup"
    BY <2>1 DEF Passkey
  <2>3. /\ Becomes(a, q) /\ challenge' = 0
        /\ UNCHANGED <<totp, stored, sessions, overtaken, starts, signed>>
    BY <1>7 DEF DropChallenge
  <2> QED BY <1>1, <1>3, <2>1, <2>2, <2>3
<1>8. CASE VerifyPasskey(a)
  <2> DEFINE q == [op |-> "count", dev |-> at[a].dev, counter |-> at[a].counter]
  <2>1. at[a] \in Passkey /\ stored >= 0 /\ at[a].counter > stored
    BY <1>1, <1>2, <1>8 DEF VerifyPasskey, Verified, WithPasskey
  <2>2. q \in State /\ Earned(q)
    BY <2>1 DEF Passkey, State, Counting, Earned
  <2>3. /\ Becomes(a, q)
        /\ UNCHANGED <<totp, stored, sessions, overtaken, challenge, starts, signed>>
    BY <1>8 DEF VerifyPasskey
  <2> QED BY <1>1, <2>1, <2>2, <2>3, MoveEarned
<1> QED BY <1>4, <1>5, <1>6, <1>7, <1>8

\* The counter moves, and the other verifications that passed are overtaken.
LEMMA StoreEarned ==
  ASSUME EarnedInv, NEW a \in Attempt, StoreCounter(a)
  PROVE  EarnedInv'
<1> DEFINE q == Grants(at[a].dev, "passkey")
<1>1. /\ at \in [Attempt -> State] /\ at[a] \in State /\ at[a].op = "count"
      /\ stored \in Int /\ stored >= 0
  BY DEF EarnedInv, Shape, StoreCounter, WithPasskey
<1>2. at[a].dev \in Device /\ at[a].counter \in Nat
  BY <1>1, Phases
<1>3. q \in State
  BY <1>2 DEF State, Grants, Granted, Via
<1>4. /\ at' \in [Attempt -> State]
      /\ at'[a] = q
      /\ \A b \in Attempt \ {a} : at'[b] = at[b]
      /\ stored' = at[a].counter
      /\ overtaken' = (overtaken \ {a}) \cup {b \in Attempt \ {a} : at[b].op = "count"}
      /\ UNCHANGED <<totp, sessions, signed, challenge, starts>>
  BY <1>1, <1>3 DEF StoreCounter, Becomes
<1>5. Shape'
  BY <1>2, <1>4 DEF EarnedInv, Shape
<1>6. ASSUME NEW b \in Attempt \ overtaken', NEW p \in State, at'[b] = p
      PROVE  Earned(p)'
  <2>1. CASE b = a
    BY <1>4, <1>6, <2>1 DEF Earned, Grants
  <2>2. CASE b # a
    <3>1. Earned(p) /\ p.op # "count"
      BY <1>4, <1>6, <2>2 DEF EarnedInv
    <3>2. RiskScore(p.dev)' = RiskScore(p.dev) /\ HasMethods' = HasMethods
      BY <1>1, <1>2, <1>4, RiskKept DEF HasMethods
    <3> QED BY <1>4, <3>1, <3>2 DEF Earned
  <2> QED BY <2>1, <2>2
<1>7. \A b \in Attempt : stored' >= 0
  BY <1>2, <1>4
<1> QED BY <1>5, <1>6, <1>7 DEF EarnedInv

\* Sessions and methods change.
LEMMA SessionsEarned ==
  ASSUME EarnedInv,
         \/ \E a \in Attempt : CreateSession(a)
         \/ \E i \in DOMAIN sessions : EndSession(i)
         \/ EnableTotp \/ RegisterPasskey
  PROVE  EarnedInv'
<1>1. at \in [Attempt -> State] /\ Idle \in State /\ Idle.op = "idle"
  BY DEF EarnedInv, Shape, State, Idle
<1>2. ASSUME NEW a \in Attempt, CreateSession(a) PROVE EarnedInv'
  <2> DEFINE back == [op |-> "challenged", dev |-> at[a].dev, screen |-> "code"]
  <2>1. back \in State /\ back.op = "challenged"
    <3>1. at[a].op = "granted" /\ at[a] \in State
      BY <1>1, <1>2 DEF CreateSession, LoginSession, SocialSession, TotpSession, PasskeySession,
                        CodeSession, OpenSession
    <3>2. at[a].dev \in Device
      BY <3>1, Phases
    <3> QED BY <3>2 DEF State, Challenged
  <2>2. /\ Becomes(a, back) \/ Becomes(a, Idle)
        /\ overtaken' = (overtaken \cup Reading) \ {a}
        /\ UNCHANGED <<totp, stored, signed, challenge, starts>>
    BY <1>2 DEF CreateSession, LoginSession, SocialSession, TotpSession, PasskeySession,
                CodeSession, OpenSession
  <2> HIDE DEF back
  <2>3. /\ at' \in [Attempt -> State] /\ at'[a].op \in {"idle", "challenged"}
        /\ \A b \in Attempt \ {a} : at'[b] = at[b]
    BY <1>1, <2>1, <2>2 DEF Becomes
  <2>4. Shape'
    BY <2>2, <2>3 DEF EarnedInv, Shape
  <2>5. {a} \in SUBSET Attempt
    OBVIOUS
  <2> QED BY <2>2, <2>3, <2>4, <2>5, ChangeEarned
<1>3. CASE (\E i \in DOMAIN sessions : EndSession(i)) \/ EnableTotp \/ RegisterPasskey
  <2>1. /\ UNCHANGED <<at, signed, challenge, starts>>
        /\ overtaken' = overtaken \cup Reading
        /\ stored' = stored \/ (stored = -1 /\ stored' = signed)
    BY <1>3 DEF EndSession, EnableTotp, RegisterPasskey
  <2>2. Shape'
    BY <2>1 DEF EarnedInv, Shape
  <2>3. stored >= 0 => stored' >= 0
    BY <2>1 DEF EarnedInv, Shape
  <2>4. stored' # stored => \A b \in Attempt : at[b].op # "count"
    BY <2>1 DEF EarnedInv, WithPasskey
  <2>5. {} \in SUBSET Attempt
    OBVIOUS
  <2> QED BY <2>1, <2>2, <2>3, <2>4, <2>5, ChangeEarned
<1> QED BY <1>2, <1>3

LEMMA NextEarned == ASSUME EarnedInv, [Next]_vars PROVE EarnedInv'
<1>1. ASSUME UNCHANGED <<totp, stored, signed, sessions, at, starts, overtaken>>,
             challenge' \in Nat
      PROVE  EarnedInv'
  <2>1. Shape'
    BY <1>1 DEF EarnedInv, Shape
  <2>2. \A p : Earned(p) => Earned(p)'
    BY <1>1, EarnedKept
  <2> QED BY <1>1, <2>1, <2>2 DEF EarnedInv
<1>2. CASE UNCHANGED vars \/ ChallengeExpires \/ \E tenant \in Tenant : Register(tenant)
  BY <1>1, <1>2 DEF vars, ChallengeExpires, Register, EarnedInv, Shape
<1>3. ASSUME NEW a \in Attempt, Step(a) \/ ChallengeTotp(a) \/ Sign(a) PROVE EarnedInv'
  BY <1>3, FailingEarned, FactorEarned, TokenEarned, PasskeyEarned, StoreEarned, SessionsEarned
     DEF Step
<1>4. ASSUME NEW a \in Attempt, NEW dev \in Device,
             \/ AuthOptions(a, dev) \/ Authorize(a, dev)
             \/ \E tenant \in {"hub", "app"} :
                  Login(a, dev, tenant) \/ SocialCallback(a, dev, tenant)
      PROVE  EarnedInv'
  BY <1>4, StartEarned, TokenEarned, PasskeyEarned
<1> QED BY <1>2, <1>3, <1>4, SessionsEarned DEF Next

LEMMA AlwaysEarned == Spec => []EarnedInv
  BY InitEarned, NextEarned, PTL DEF Spec

-----------------------------------------------------------------------------
(* The properties                                                           *)

\* A sign-in by password alone comes from a device the risk engine accepts and
\* into an account without a second factor, one by a social account into an
\* account without TOTP; but for attempts whose reads a change outdated.
THEOREM SignInsAreEarned == Spec => SessionsAreEarned
<1>1. EarnedInv /\ [Next]_vars =>
        [\A a \in Attempt \ overtaken :
           at[a].op = "granted" /\ at'[a] # at[a] =>
             /\ at[a].via = "password" => ~HasMethods /\ RiskScore(at[a].dev) < 40
             /\ at[a].via = "social" => ~totp]_vars
  BY DEF EarnedInv, Earned, Shape
<1> QED BY <1>1, AlwaysEarned, PTL DEF Spec, SessionsAreEarned

\* The passkey's counter goes back only when a verification that was overtaken
\* stores its own.
THEOREM CounterKeepsRising == Spec => CounterNeverFalls
<1>1. ASSUME EarnedInv, [Next]_vars, stored' < stored
      PROVE  \E a \in overtaken : at[a].op = "count" /\ at'[a] # at[a]
  <2>1. stored \in Int /\ signed \in Nat /\ at \in [Attempt -> State]
    BY <1>1 DEF EarnedInv, Shape
  <2>2. stored' # stored
    BY <1>1, <2>1
  <2>3. (\E a \in Attempt : StoreCounter(a)) \/ RegisterPasskey
    BY <1>1, <2>2 DEF vars, Next, Step, Assess, Block, CheckMethods, HandleReply, MfaTokenExpires,
          SocialCreate, SocialFails, SocialLink, SocialFactor, GetChallenge, DropChallenge,
          VerifyPasskey, PasskeyFails, CreateSession, LoginSession, SocialSession, TotpSession,
          PasskeySession, CodeSession, OpenSession, ChallengeTotp, Sign, AuthOptions,
         Authorize, Login,
          SocialCallback, Register, EndSession, EnableTotp, ChallengeExpires
  <2>4. ~RegisterPasskey
    BY <1>1, <2>1 DEF RegisterPasskey
  <2>5. PICK a \in Attempt : StoreCounter(a)
    BY <2>3, <2>4
  <2>6. at[a].op = "count" /\ stored' = at[a].counter /\ at'[a].op = "granted"
    BY <2>1, <2>5 DEF StoreCounter, Becomes, Grants
  <2>7. at[a] \in State /\ at[a].counter \in Nat
    BY <2>1, <2>6, Phases
  <2>8. a \notin overtaken => at[a].counter > stored
    BY <1>1, <2>6, <2>7 DEF EarnedInv, Earned
  <2>9. a \in overtaken
    BY <1>1, <2>1, <2>6, <2>7, <2>8
  <2> QED BY <2>6, <2>9
<1>2. EarnedInv /\ [Next]_vars =>
        [stored' < stored => \E a \in overtaken : at[a].op = "count" /\ at'[a] # at[a]]_vars
  BY <1>1
<1> QED BY <1>2, AlwaysEarned, PTL DEF Spec, CounterNeverFalls


-----------------------------------------------------------------------------
(* The bounds and the remaining types                                       *)

Counted ==
  /\ stored \in -1 .. signed /\ signed \in 0 .. MaxCounter
  /\ challenge \in 0 .. starts /\ starts \in 0 .. MaxStarts
  /\ \A a \in Attempt : at[a].op \in WithPasskey => at[a].counter <= signed

Plain ==
  /\ account \in {"none"} \cup Tenant
  /\ totp \in BOOLEAN
  /\ sessions \in Seq(Device)
  /\ overtaken \subseteq Attempt

TypeInv == EarnedInv /\ Counted /\ Plain

\* The actions that leave the counters, the challenge and the starts alone.
LEMMA CountersStay ==
  ASSUME [Next]_vars
  PROVE  \/ UNCHANGED <<stored, signed, challenge, starts>>
         \/ ChallengeExpires \/ RegisterPasskey
         \/ \E a \in Attempt :
              \/ StoreCounter(a) \/ Sign(a) \/ DropChallenge(a) \/ ChallengeTotp(a)
              \/ \E dev \in Device :
                   \/ AuthOptions(a, dev) \/ Authorize(a, dev)
                   \/ \E tenant \in {"hub", "app"} :
                        Login(a, dev, tenant) \/ SocialCallback(a, dev, tenant)
<1>1. ASSUME NEW a \in Attempt, Step(a)
      PROVE  UNCHANGED <<stored, signed, challenge, starts>> \/ StoreCounter(a) \/ DropChallenge(a)
  BY <1>1 DEF Step, Assess, Block, CheckMethods, HandleReply, MfaTokenExpires,
         SocialCreate, SocialFails, SocialLink, SocialFactor, GetChallenge,
         VerifyPasskey, PasskeyFails, CreateSession, LoginSession, SocialSession, TotpSession,
         PasskeySession, CodeSession, OpenSession
<1>2. ASSUME UNCHANGED vars \/ EnableTotp \/ (\E tenant \in Tenant : Register(tenant))
               \/ \E i \in DOMAIN sessions : EndSession(i)
      PROVE  UNCHANGED <<stored, signed, challenge, starts>>
  BY <1>2 DEF vars, EnableTotp, Register, EndSession
<1> QED BY <1>1, <1>2 DEF Next

\* The counter an attempt holds was signed by the authenticator, or is 0.
LEMMA CountersHeld ==
  ASSUME EarnedInv, EarnedInv', [Next]_vars, NEW b \in Attempt, at'[b].op \in WithPasskey
  PROVE  \/ at[b].op \in WithPasskey /\ at'[b].counter = at[b].counter
         \/ at'[b].counter = 0
         \/ Sign(b) /\ at'[b].counter = signed + 1
<1>0. at \in [Attempt -> State] /\ at[b] \in State /\ at'[b] \in State
  BY DEF EarnedInv, Shape
<1> USE DEF WithPasskey
<1>1. ASSUME at'[b] = at[b] PROVE at[b].op \in WithPasskey /\ at'[b].counter = at[b].counter
  BY <1>1
<1>2. ASSUME NEW q, Becomes(b, q) PROVE at'[b] = q
  BY <1>0, <1>2 DEF Becomes
<1>3. ASSUME NEW a \in Attempt, NEW q, Becomes(a, q), a # b PROVE at'[b] = at[b]
  BY <1>0, <1>3 DEF Becomes
<1>4. ASSUME NEW a \in Attempt, Step(a) \/ ChallengeTotp(a), a # b PROVE at'[b] = at[b]
  BY <1>3, <1>4 DEF Step, Assess, Block, CheckMethods, HandleReply, MfaTokenExpires, GivesUp,
         SocialCreate, SocialFails, SocialLink, SocialFactor, GetChallenge, DropChallenge,
         VerifyPasskey, PasskeyFails, StoreCounter, CreateSession, LoginSession, SocialSession,
         TotpSession, PasskeySession, CodeSession, OpenSession, ChallengeTotp, Counts
<1>5. ASSUME NEW a \in Attempt, a # b,
             Sign(a) \/ \E dev \in Device : AuthOptions(a, dev) \/ Authorize(a, dev)
      PROVE  at'[b] = at[b]
  BY <1>3, <1>5 DEF Sign, AuthOptions, Authorize, Starts, Counts
<1>6. ASSUME NEW a \in Attempt, a # b,
             \E dev \in Device, tenant \in {"hub", "app"} :
               Login(a, dev, tenant) \/ SocialCallback(a, dev, tenant)
      PROVE  at'[b] = at[b]
  BY <1>3, <1>6 DEF Login, SocialCallback, Starts, Counts
<1>7. CASE GetChallenge(b) \/ DropChallenge(b) \/ VerifyPasskey(b)
  <2>1. at[b] \in Passkey
    BY <1>0, <1>7, Phases DEF GetChallenge, DropChallenge, VerifyPasskey
  <2>2. CASE GetChallenge(b)
    BY <1>2, <2>1, <2>2 DEF GetChallenge, Passkey
  <2>3. CASE DropChallenge(b)
    BY <1>2, <2>1, <2>3 DEF DropChallenge, Passkey
  <2>4. CASE VerifyPasskey(b)
    BY <1>2, <2>1, <2>4 DEF VerifyPasskey
  <2> QED BY <1>7, <2>2, <2>3, <2>4
<1>8. CASE Sign(b)
  <2>1. at[b] \in Passkey
    BY <1>0, <1>8, Phases DEF Sign
  <2> QED BY <1>2, <1>8, <2>1 DEF Sign, Passkey
<1>9. CASE \E dev \in Device : AuthOptions(b, dev) \/ Authorize(b, dev)
  BY <1>2, <1>9 DEF AuthOptions, Authorize, Starts, Counts
<1>10. CASE \E dev \in Device, tenant \in {"hub", "app"} :
              Login(b, dev, tenant) \/ SocialCallback(b, dev, tenant)
  BY <1>2, <1>10 DEF Login, SocialCallback, Starts, Counts
<1>11. CASE Assess(b) \/ Block(b) \/ CheckMethods(b) \/ MfaTokenExpires(b) \/ SocialFails(b)
            \/ SocialFactor(b) \/ PasskeyFails(b) \/ StoreCounter(b) \/ CreateSession(b)
            \/ ChallengeTotp(b)
  BY <1>2, <1>11 DEF Assess, Block, CheckMethods, MfaTokenExpires, GivesUp, SocialFails,
         SocialFactor, PasskeyFails, StoreCounter, CreateSession, LoginSession, SocialSession,
         TotpSession, PasskeySession, CodeSession, OpenSession, ChallengeTotp, Counts, Idle,
         Grants
<1>12. CASE HandleReply(b) \/ SocialCreate(b) \/ SocialLink(b)
  <2>1. at[b] \in Challenged \cup Social
    BY <1>0, <1>12, Phases DEF HandleReply, SocialCreate, SocialLink
  <2>2. CASE HandleReply(b)
    BY <1>2, <2>1, <2>2 DEF HandleReply, Challenged, Social
  <2>3. CASE SocialCreate(b)
    BY <1>2, <2>1, <2>3 DEF SocialCreate, Challenged, Social
  <2>4. CASE SocialLink(b)
    BY <1>2, <2>1, <2>4 DEF SocialLink, Challenged, Social
  <2> QED BY <1>12, <2>2, <2>3, <2>4
<1>13. ASSUME NEW a \in Attempt, Step(a) \/ ChallengeTotp(a) PROVE at'[b] = at[b] \/ a = b
  BY <1>4, <1>13
<1>14. CASE \E a \in Attempt : Step(a) \/ ChallengeTotp(a)
  BY <1>1, <1>7, <1>11, <1>12, <1>13, <1>14 DEF Step
<1>15. CASE \E a \in Attempt :
              Sign(a) \/ \E dev \in Device : AuthOptions(a, dev) \/ Authorize(a, dev)
  BY <1>1, <1>5, <1>8, <1>9, <1>15
<1>16. CASE \E a \in Attempt, dev \in Device, tenant \in {"hub", "app"} :
              Login(a, dev, tenant) \/ SocialCallback(a, dev, tenant)
  BY <1>1, <1>6, <1>10, <1>16
<1>17. CASE UNCHANGED at
  BY <1>1, <1>17
<1> QED
  BY <1>14, <1>15, <1>16, <1>17 DEF vars, Next, Register, EndSession, EnableTotp,
     RegisterPasskey, ChallengeExpires

LEMMA StepCounted ==
  ASSUME EarnedInv, EarnedInv', Counted, [Next]_vars
  PROVE  Counted'
<1>0. /\ stored \in Int /\ signed \in Nat /\ challenge \in Nat /\ starts \in Nat
      /\ stored' \in Int /\ signed' \in Nat /\ challenge' \in Nat /\ starts' \in Nat
      /\ at \in [Attempt -> State] /\ at' \in [Attempt -> State]
      /\ MaxStarts \in Nat /\ MaxCounter \in Nat
  BY SignInAssumption DEF EarnedInv, Shape
<1> DEFINE Bounds == /\ stored' \in -1 .. signed' /\ signed' \in 0 .. MaxCounter
                     /\ challenge' \in 0 .. starts' /\ starts' \in 0 .. MaxStarts
                     /\ signed <= signed'
<1>1. ASSUME NEW a \in Attempt, StoreCounter(a) PROVE Bounds
  <2>1. at[a].counter \in Nat /\ at[a].counter <= signed
    BY <1>0, <1>1, Phases DEF StoreCounter, Counted, WithPasskey
  <2> QED BY <1>0, <1>1, <2>1 DEF StoreCounter, Counted
<1>2. ASSUME NEW a \in Attempt, Sign(a) \/ DropChallenge(a) \/ ChallengeTotp(a) PROVE Bounds
  BY <1>0, <1>2 DEF Sign, DropChallenge, ChallengeTotp, Counts, Counted
<1>3. ASSUME NEW a \in Attempt, NEW dev \in Device,
             \/ AuthOptions(a, dev) \/ Authorize(a, dev)
             \/ \E tenant \in {"hub", "app"} :
                  Login(a, dev, tenant) \/ SocialCallback(a, dev, tenant)
      PROVE  Bounds
  BY <1>0, <1>3 DEF AuthOptions, Authorize, Login, SocialCallback, Starts, Counts, Counted
<1>4. ASSUME ChallengeExpires \/ RegisterPasskey PROVE Bounds
  BY <1>0, <1>4 DEF ChallengeExpires, RegisterPasskey, Counted
<1>5. ASSUME UNCHANGED <<stored, signed, challenge, starts>> PROVE Bounds
  <2>1. stored' = stored /\ signed' = signed /\ challenge' = challenge /\ starts' = starts
    BY <1>5
  <2> QED BY <1>0, <2>1 DEF Counted
<1> HIDE DEF Bounds
<1>6. Bounds
  BY <1>1, <1>2, <1>3, <1>4, <1>5, CountersStay
<1> USE DEF Bounds
<1>7. ASSUME NEW b \in Attempt, at'[b].op \in WithPasskey PROVE at'[b].counter <= signed'
  <2>1. CASE at[b].op \in WithPasskey /\ at'[b].counter = at[b].counter
    <3>1. at[b].counter \in Nat
      BY <1>0, <2>1, Phases DEF WithPasskey, Passkey
    <3> QED BY <1>0, <1>6, <2>1, <3>1 DEF Counted
  <2>2. CASE at'[b].counter = 0
    BY <1>0, <2>2
  <2>3. CASE Sign(b) /\ at'[b].counter = signed + 1
    BY <1>0, <2>3 DEF Sign
  <2> QED BY <1>7, <2>1, <2>2, <2>3, CountersHeld
<1> QED BY <1>6, <1>7 DEF Counted

LEMMA SessionsTyped ==
  ASSUME NEW seq \in Seq(Device)
  PROVE  /\ \A dev \in Device : Append(seq, dev) \in Seq(Device)
         /\ \A i \in DOMAIN seq :
              SubSeq(seq, 1, i - 1) \o SubSeq(seq, i + 1, Len(seq)) \in Seq(Device)
<1>1. ASSUME NEW i \in DOMAIN seq
      PROVE  SubSeq(seq, 1, i - 1) \in Seq(Device) /\ SubSeq(seq, i + 1, Len(seq)) \in Seq(Device)
  <2>1. i \in 1 .. Len(seq) /\ Len(seq) \in Nat
    BY <1>1
  <2>2. \A j \in 1 .. Len(seq) : seq[j] \in Device
    OBVIOUS
  <2> QED BY <2>1, <2>2, SubSeqProperties
<1> QED BY <1>1, ConcatProperties

LEMMA StepPlain ==
  ASSUME EarnedInv, Plain, [Next]_vars
  PROVE  Plain'
<1>0. at \in [Attempt -> State]
  BY DEF EarnedInv, Shape
<1>1. account' \in {"none"} \cup Tenant
  <2>1. UNCHANGED account \/ (\E a \in Attempt : SocialCreate(a)) \/ \E tenant \in Tenant : Register(tenant)
    BY DEF vars, Next, Step, Assess, Block, CheckMethods, HandleReply, MfaTokenExpires,
         SocialFails, SocialLink, SocialFactor, GetChallenge, DropChallenge,
         VerifyPasskey, PasskeyFails, StoreCounter, CreateSession, LoginSession, SocialSession,
         TotpSession, PasskeySession, CodeSession, OpenSession, ChallengeTotp, Sign,
         AuthOptions,
         Authorize, Login,
         SocialCallback, EndSession, EnableTotp, RegisterPasskey, ChallengeExpires
  <2> QED BY <2>1 DEF Plain, SocialCreate, Register, Tenant
<1>2. totp' \in BOOLEAN
  <2>1. UNCHANGED totp \/ EnableTotp
    BY DEF vars, Next, Step, Assess, Block, CheckMethods, HandleReply, MfaTokenExpires, SocialCreate,
         SocialFails, SocialLink, SocialFactor, GetChallenge, DropChallenge,
         VerifyPasskey, PasskeyFails, StoreCounter, CreateSession, LoginSession, SocialSession,
         TotpSession, PasskeySession, CodeSession, OpenSession, ChallengeTotp, Sign,
         AuthOptions,
         Authorize, Login,
         SocialCallback, Register, EndSession, RegisterPasskey, ChallengeExpires
  <2> QED BY <2>1 DEF Plain, EnableTotp
<1>3. sessions' \in Seq(Device)
  <2>1. UNCHANGED sessions \/ (\E a \in Attempt : CreateSession(a)) \/ \E i \in DOMAIN sessions : EndSession(i)
    BY DEF vars, Next, Step, Assess, Block, CheckMethods, HandleReply, MfaTokenExpires, SocialCreate,
         SocialFails, SocialLink, SocialFactor, GetChallenge, DropChallenge,
         VerifyPasskey, PasskeyFails, StoreCounter, ChallengeTotp, Sign, AuthOptions,
         Authorize, Login,
         SocialCallback, Register, EnableTotp, RegisterPasskey, ChallengeExpires
  <2>2. ASSUME NEW a \in Attempt, CreateSession(a) PROVE sessions' \in Seq(Device)
    <3>1. at[a].op = "granted" /\ sessions' = Append(sessions, at[a].dev)
      BY <2>2 DEF CreateSession, LoginSession, SocialSession, TotpSession, PasskeySession, CodeSession, OpenSession
    <3>2. at[a].dev \in Device
      BY <1>0, <3>1, Phases
    <3> QED BY <3>1, <3>2, SessionsTyped DEF Plain
  <2>3. ASSUME NEW i \in DOMAIN sessions, EndSession(i) PROVE sessions' \in Seq(Device)
    BY <2>3, SessionsTyped DEF Plain, EndSession
  <2> QED BY <2>1, <2>2, <2>3 DEF Plain
<1>4. overtaken' \subseteq Attempt
  BY DEF Plain, vars, Next, Step, Assess, Block, CheckMethods, HandleReply, MfaTokenExpires,
         SocialCreate, SocialFails, SocialLink, SocialFactor, GetChallenge, DropChallenge, GivesUp,
         VerifyPasskey, PasskeyFails, StoreCounter, CreateSession, LoginSession, SocialSession,
         TotpSession, PasskeySession, CodeSession, OpenSession, ChallengeTotp, Sign,
         AuthOptions,
         Authorize, Login, Reading,
         SocialCallback, Register, EndSession, EnableTotp, RegisterPasskey, ChallengeExpires
<1> QED BY <1>1, <1>2, <1>3, <1>4 DEF Plain

\* Every variable keeps its type and its bound; the passkey's row never holds
\* more than the authenticator has counted.
THEOREM TypeCorrect == Spec => []TypeOK
<1>1. Init => TypeInv
  <2> SUFFICES ASSUME Init PROVE TypeInv
    OBVIOUS
  <2>1. EarnedInv
    BY InitEarned
  <2>2. Counted
    <3>1. stored = -1 /\ signed = 0 /\ challenge = 0 /\ starts = 0
          /\ \A a \in Attempt : at[a].op \notin WithPasskey
      BY DEF Init, Idle, WithPasskey
    <3> QED BY <3>1, SignInAssumption DEF Counted
  <2>3. Plain
    <3>1. account \in {"none"} \cup Tenant
      BY DEF Init, Tenant
    <3>2. totp \in BOOLEAN /\ overtaken \subseteq Attempt
      BY Zenon DEF Init
    <3>3. sessions \in Seq(Device)
      BY DEF Init
    <3> QED BY <3>1, <3>2, <3>3 DEF Plain
  <2> QED BY <2>1, <2>2, <2>3 DEF TypeInv
<1>2. TypeInv /\ [Next]_vars => TypeInv'
  BY NextEarned, StepCounted, StepPlain DEF TypeInv
<1>3. TypeInv => TypeOK
  <2> SUFFICES ASSUME TypeInv PROVE TypeOK
    OBVIOUS
  <2>1. /\ stored \in Int /\ signed \in Nat /\ challenge \in Nat /\ starts \in Nat
        /\ MaxStarts \in Nat /\ MaxCounter \in Nat
    BY SignInAssumption DEF TypeInv, EarnedInv, Shape
  <2>2. /\ stored \in -1 .. signed /\ signed \in 0 .. MaxCounter
        /\ challenge \in 0 .. MaxStarts /\ starts \in 0 .. MaxStarts
    BY <2>1 DEF TypeInv, Counted
  <2> QED BY <2>2 DEF TypeInv, EarnedInv, Shape, State, Plain, TypeOK
<1> QED BY <1>1, <1>2, <1>3, PTL DEF Spec
=============================================================================
