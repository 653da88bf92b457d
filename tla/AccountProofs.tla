---------------------------- MODULE AccountProofs ----------------------------
(***************************************************************************)
(* Proofs about Account, for any handlers, providers, mail tokens, TOTP    *)
(* rows, calls and restarts.                                               *)
(***************************************************************************)
EXTENDS Account, TLAPS

-----------------------------------------------------------------------------
(* Shape: the types, without the bounds that keep TLC's instances finite.  *)

AnyRow == [name : Nat, verified : BOOLEAN, password : BOOLEAN,
           links : SUBSET Provider, admin : BOOLEAN]
AnyProfile == [name : Nat, verified : BOOLEAN, password : BOOLEAN,
               links : SUBSET Provider, admin : BOOLEAN, totp : BOOLEAN]
Filling == [op : {"fill"}, admin : BOOLEAN, profile : AnyProfile]
Phase == {Idle} \cup Refresh \cup Filling \cup Announce \cup Redeem
                \cup Enrol \cup Confirm \cup Provided \cup Social
TotpRow == [secret : Nat, enabled : BOOLEAN]

Shape ==
  /\ user \in AnyRow
  /\ methods \in [DOMAIN methods -> TotpRow]
  /\ DOMAIN methods \subseteq Method
  /\ mail \in [DOMAIN mail -> Kind]
  /\ DOMAIN mail \subseteq drawn /\ drawn \subseteq Mail
  /\ req \in [Request -> Phase]
  /\ calls \in Nat
  /\ used \in [Mail -> Nat]

LEMMA Phases ==
  ASSUME NEW q \in Phase
  PROVE  /\ q.op = "refresh" => q \in Refresh
         /\ q.op = "fill" => q \in Filling
         /\ q.op = "announce" => q \in Announce
         /\ q.op \in {"redeem", "spend"} => q \in Redeem
         /\ q.op = "enrol" => q \in Enrol
         /\ q.op = "confirm" => q \in Confirm
         /\ q.op \in {"unlink", "upsert"} => q \in Provided
         /\ q.op = "social" => q \in Social
  BY DEF Phase, Idle, Refresh, Filling, Announce, Redeem, Enrol, Confirm, Provided, Social

LEMMA PhasesMade ==
  /\ Idle \in Phase /\ Idle.op = "idle"
  /\ \A fields \in SUBSET Field, then \in {"refresh", "end"} :
       [op |-> "announce", fields |-> fields, then |-> then] \in Phase
  /\ \A op \in {"redeem", "spend"}, m \in Mail, kind \in Kind :
       [op |-> op, mail |-> m, kind |-> kind] \in Phase
  /\ \A found \in SUBSET Method : [op |-> "enrol", found |-> found] \in Phase
  /\ \A m \in Method : [op |-> "confirm", method |-> m] \in Phase
  /\ \A op \in {"unlink", "upsert"}, p \in Provider : [op |-> op, provider |-> p] \in Phase
  BY DEF Phase, Idle, Announce, Redeem, Enrol, Confirm, Provided

\* A social sign-in starts with one of its two phases.
LEMMA SocialStarts ==
  ASSUME NEW r \in Request, NEW p \in Provider, NEW known, SocialSignIn(r, p, known)
  PROVE  \E q \in Phase : q.op \in {"social", "upsert"} /\ Starts(r, q)
<1> DEFINE missing == known \cap ((IF user.name = 0 THEN {"name"} ELSE {}) \cup
                                  (IF user.verified THEN {} ELSE {"verified"}))
           update == [op |-> "social", provider |-> p, missing |-> missing]
           upsert == [op |-> "upsert", provider |-> p]
<1>1. Starts(r, upsert) \/ Starts(r, update)
  BY DEF SocialSignIn
<1>2. missing \in SUBSET {"name", "verified"}
  OBVIOUS
<1>3. update \in Phase /\ update.op = "social" /\ upsert \in Phase /\ upsert.op = "upsert"
  <2> HIDE DEF missing
  <2> QED BY <1>2 DEF Phase, Provided, Social
<1> QED BY <1>1, <1>3

LEMMA AskingPhase ==
  ASSUME user \in AnyRow
  PROVE  Asking \in Phase /\ Asking.op = "refresh"
  BY DEF AnyRow, Asking, Phase, Refresh

LEMMA CurrentProfile == ASSUME user \in AnyRow PROVE Current \in AnyProfile
<1>1. TotpOn \in BOOLEAN
  BY DEF TotpOn
<1> QED BY <1>1 DEF AnyRow, AnyProfile, Current

LEMMA BecomesTyped ==
  ASSUME req \in [Request -> Phase], NEW r \in Request, NEW q \in Phase, Becomes(r, q)
  PROVE  /\ req' \in [Request -> Phase]
         /\ req'[r] = q
         /\ \A s \in Request \ {r} : req'[s] = req[s]
  BY DEF Becomes

\* What the writers make of the row.
LEMMA Rows ==
  ASSUME NEW u \in AnyRow
  PROVE  /\ \A n \in Nat : [u EXCEPT !.name = n] \in AnyRow
         /\ \A b \in BOOLEAN : /\ [u EXCEPT !.verified = b] \in AnyRow
                               /\ [u EXCEPT !.password = b] \in AnyRow
                               /\ [u EXCEPT !.admin = b] \in AnyRow
         /\ \A s \in SUBSET Provider : [u EXCEPT !.links = s] \in AnyRow
  BY DEF AnyRow

LEMMA InitShape == ASSUME Init PROVE Shape
<1>1. user \in AnyRow
  <2>1. user \in [name : {0}, verified : {FALSE}, password : BOOLEAN,
                  links : {{}, Provider}, admin : {FALSE}]
    BY DEF Init
  <2>2. /\ user.name = 0 /\ user.verified \in {FALSE} /\ user.password \in BOOLEAN
        /\ user.links \in {{}, Provider} /\ user.admin \in {FALSE}
        /\ user = [name |-> user.name, verified |-> user.verified, password |-> user.password,
                   links |-> user.links, admin |-> user.admin]
    BY <2>1
  <2>3. user.verified \in BOOLEAN /\ user.admin \in BOOLEAN
    BY <2>2, Zenon
  <2>4. user.name \in Nat /\ user.links \in SUBSET Provider
    BY <2>2
  <2> QED BY <2>2, <2>3, <2>4, Zenon DEF AnyRow
<1>2. /\ methods = [m \in {} |-> m] /\ mail = [m \in {} |-> m] /\ drawn = {}
      /\ req = [r \in Request |-> Idle] /\ calls = 0 /\ used = [m \in Mail |-> 0]
  BY DEF Init
<1> QED BY <1>1, <1>2, PhasesMade DEF Shape

\* A request moves on; the tables keep their shape.
LEMMA MoveShape ==
  ASSUME Shape, NEW r \in Request, NEW q \in Phase, Becomes(r, q),
         user' \in AnyRow, calls' \in Nat,
         UNCHANGED <<methods, mail, drawn, used>>
  PROVE  Shape'
  BY BecomesTyped DEF Shape

\* refreshProfile and the cached profile.
LEMMA CacheShape ==
  ASSUME Shape, NEW r \in Request,
         \/ RefreshProfile(r) \/ MeCached(r) \/ MeReads(r) \/ MeFills(r) \/ DropCached(r)
         \/ LoginCaches(r)
  PROVE  Shape'
<1>1. /\ user \in AnyRow /\ calls \in Nat /\ calls + 1 \in Nat
      /\ req \in [Request -> Phase] /\ req[r] \in Phase
  BY DEF Shape
<1>2. CASE RefreshProfile(r)
  <2>1. Becomes(r, Asking) /\ Asking \in Phase
    BY <1>1, <1>2, AskingPhase DEF RefreshProfile, Starts
  <2> QED BY <1>1, <1>2, <2>1, MoveShape DEF RefreshProfile, Starts, history
<1>3. CASE MeCached(r) \/ MeFills(r)
  BY <1>1, <1>3, PhasesMade, MoveShape DEF MeCached, MeFills
<1>4. CASE MeReads(r)
  <2> DEFINE q == [op |-> "fill", admin |-> req[r].admin, profile |-> Current]
  <2>1. req[r] \in Refresh /\ Current \in AnyProfile
    BY <1>1, <1>4, Phases, CurrentProfile DEF MeReads
  <2>2. q \in Phase
    BY <2>1 DEF Refresh, Filling, Phase
  <2> QED BY <1>1, <1>4, <2>2, MoveShape DEF MeReads, history
<1>5. CASE DropCached(r)
  <2>1. (IF req[r].then = "refresh" THEN Asking ELSE Idle) \in Phase
    BY <1>1, AskingPhase, PhasesMade
  <2> QED BY <1>1, <1>5, <2>1, MoveShape DEF DropCached
<1>6. CASE LoginCaches(r)
  BY <1>1, <1>6 DEF LoginCaches, Shape
<1> QED BY <1>2, <1>3, <1>4, <1>5, <1>6

\* The writers of the row.
LEMMA RowShape ==
  ASSUME Shape, NEW r \in Request,
         \/ UpdateProfile(r) \/ CompleteProfile(r) \/ UpdatePassword(r)
         \/ MakeAdmin(r) \/ ElevateAdmin(r) \/ DeleteLink(r)
         \/ SocialUpdate(r) \/ UpsertLink(r) \/ Fails(r)
         \/ \E p \in Provider :
              \/ LinkProvider(r, p) \/ UnlinkProvider(r, p)
              \/ \E known \in SUBSET {"name", "verified"} : SocialSignIn(r, p, known)
  PROVE  Shape'
<1>1. /\ user \in AnyRow /\ calls \in Nat /\ calls + 1 \in Nat
      /\ req \in [Request -> Phase] /\ req[r] \in Phase
      /\ user.name + 1 \in Nat /\ user.links \in SUBSET Provider
      /\ user.verified \in BOOLEAN
  BY DEF Shape, AnyRow
<1>2. \A f \in Field, then \in {"refresh", "end"} :
        [op |-> "announce", fields |-> {f}, then |-> then] \in Phase
  BY PhasesMade
<1>3. "name" \in Field /\ "admin" \in Field /\ "links" \in Field
  BY DEF Field
<1>4. /\ [user EXCEPT !.name = user.name + 1] \in AnyRow
      /\ [user EXCEPT !.admin = TRUE] \in AnyRow
      /\ [user EXCEPT !.password = TRUE] \in AnyRow
      /\ \A p \in Provider : /\ [user EXCEPT !.links = user.links \cup {p}] \in AnyRow
                             /\ [user EXCEPT !.links = user.links \ {p}] \in AnyRow
  BY <1>1, Rows
<1>5. CASE UpdateProfile(r)
  <2>1. Becomes(r, [op |-> "announce", fields |-> {"name"}, then |-> "refresh"])
    BY <1>5 DEF UpdateProfile, Starts
  <2>2. user' \in AnyRow
    BY <1>4, <1>5 DEF UpdateProfile
  <2> QED BY <1>1, <1>2, <1>3, <1>5, <2>1, <2>2, MoveShape DEF UpdateProfile, Starts
<1>6. CASE CompleteProfile(r) \/ UpdatePassword(r) \/ ElevateAdmin(r)
  <2>1. user' \in AnyRow
    BY <1>4, <1>6 DEF CompleteProfile, UpdatePassword, ElevateAdmin
  <2> QED BY <1>1, <1>6, <2>1 DEF CompleteProfile, UpdatePassword, ElevateAdmin, Shape
<1>7. CASE MakeAdmin(r)
  <2>1. Becomes(r, [op |-> "announce", fields |-> {"admin"}, then |-> "end"])
    BY <1>7 DEF MakeAdmin, Starts
  <2>2. user' \in AnyRow
    BY <1>4, <1>7 DEF MakeAdmin
  <2> QED BY <1>1, <1>2, <1>3, <1>7, <2>1, <2>2, MoveShape DEF MakeAdmin, Starts
<1>8. CASE DeleteLink(r)
  <2>1. req[r] \in Provided
    BY <1>1, <1>8, Phases DEF DeleteLink
  <2>2. user' \in AnyRow
    BY <1>4, <1>8, <2>1 DEF DeleteLink, Provided
  <2> QED BY <1>1, <1>2, <1>3, <1>8, <2>2, MoveShape DEF DeleteLink
<1>9. CASE Fails(r)
  BY <1>1, <1>9, PhasesMade, MoveShape DEF Fails
<1>10. ASSUME NEW p \in Provider, LinkProvider(r, p) PROVE Shape'
  <2>1. Becomes(r, Asking) /\ Asking \in Phase
    BY <1>1, <1>3, <1>10, AskingPhase DEF LinkProvider, Starts
  <2>2. user' \in AnyRow
    BY <1>4, <1>10 DEF LinkProvider
  <2> QED BY <1>1, <1>10, <2>1, <2>2, MoveShape DEF LinkProvider, Starts
<1>11. ASSUME NEW p \in Provider, UnlinkProvider(r, p) PROVE Shape'
  <2>1. Becomes(r, [op |-> "unlink", provider |-> p])
    BY <1>11 DEF UnlinkProvider, Starts
  <2> QED BY <1>1, <1>11, <2>1, PhasesMade, MoveShape DEF UnlinkProvider, Starts, history
<1>12. ASSUME NEW p \in Provider, NEW known, SocialSignIn(r, p, known) PROVE Shape'
  <2>1. PICK q \in Phase : Starts(r, q)
    BY <1>12, SocialStarts
  <2> QED BY <1>1, <1>12, <2>1, MoveShape DEF SocialSignIn, Starts, history
<1>13. CASE SocialUpdate(r)
  <2>1. req[r] \in Social
    BY <1>1, <1>13, Phases DEF SocialUpdate
  <2>2. [op |-> "upsert", provider |-> req[r].provider] \in Phase
    BY <2>1, PhasesMade DEF Social
  <2>3. user' \in AnyRow
    BY <1>1, <1>13 DEF SocialUpdate, AnyRow
  <2> QED BY <1>1, <1>13, <2>2, <2>3, MoveShape DEF SocialUpdate
<1>14. CASE UpsertLink(r)
  <2>1. req[r] \in Provided
    BY <1>1, <1>14, Phases DEF UpsertLink
  <2>2. PICK links \in {user.links, user.links \cup {req[r].provider}} :
          user' = [user EXCEPT !.links = links]
    BY <1>14 DEF UpsertLink
  <2>3. links \in SUBSET Provider
    BY <1>1, <2>1 DEF Provided
  <2>4. user' \in AnyRow
    BY <1>1, <2>2, <2>3, Rows
  <2> QED BY <1>1, <1>14, <2>4, PhasesMade, MoveShape DEF UpsertLink
<1> QED BY <1>5, <1>6, <1>7, <1>8, <1>9, <1>10, <1>11, <1>12, <1>13, <1>14

\* The tokens sent by e-mail.
LEMMA MailShape ==
  ASSUME Shape,
         \/ \E r \in Request : WriteRedeemed(r) \/ SpendMail(r)
         \/ \E r \in Request, m \in Mail : RedeemMail(r, m)
         \/ \E r \in Request, m \in Mail, kind \in Kind : SendMail(r, m, kind)
         \/ \E m \in Mail : MailExpires(m)
  PROVE  Shape'
<1>1. /\ user \in AnyRow /\ calls \in Nat /\ calls + 1 \in Nat
      /\ req \in [Request -> Phase]
      /\ mail \in [DOMAIN mail -> Kind] /\ DOMAIN mail \subseteq drawn /\ drawn \subseteq Mail
      /\ used \in [Mail -> Nat]
  BY DEF Shape
<1>2. ASSUME NEW r \in Request, WriteRedeemed(r) PROVE Shape'
  <2>1. req[r] \in Redeem
    BY <1>1, <1>2, Phases DEF WriteRedeemed
  <2>2. [req[r] EXCEPT !.op = "spend"] \in Phase
    BY <2>1 DEF Redeem, Phase
  <2>3. user' \in AnyRow
    BY <1>1, <1>2, Rows DEF WriteRedeemed
  <2>4. used' \in [Mail -> Nat]
    BY <1>1, <1>2, <2>1 DEF WriteRedeemed, Redeem
  <2>5. req' \in [Request -> Phase]
    BY <1>1, <1>2, <2>2 DEF WriteRedeemed, Becomes
  <2> QED BY <1>2, <2>3, <2>4, <2>5 DEF WriteRedeemed, Shape
<1>3. ASSUME NEW r \in Request, SpendMail(r) PROVE Shape'
  <2>1. Effect(req[r].kind) \in SUBSET Field
    BY DEF Effect, Field
  <2>2. [op |-> "announce", fields |-> Effect(req[r].kind), then |-> "end"] \in Phase
    BY <2>1, PhasesMade
  <2>3. req' \in [Request -> Phase]
    BY <1>1, <1>3, <2>2 DEF SpendMail, Becomes
  <2>4. mail' \in [DOMAIN mail' -> Kind] /\ DOMAIN mail' \subseteq DOMAIN mail
    BY <1>1, <1>3 DEF SpendMail, Without
  <2> QED BY <1>3, <2>3, <2>4 DEF SpendMail, Shape, history
<1>4. ASSUME NEW r \in Request, NEW m \in Mail, RedeemMail(r, m) PROVE Shape'
  <2>1. [op |-> "redeem", mail |-> m, kind |-> mail[m]] \in Phase
    BY <1>1, <1>4, PhasesMade DEF RedeemMail
  <2>2. req' \in [Request -> Phase]
    BY <1>1, <1>4, <2>1 DEF RedeemMail, Starts, Becomes
  <2> QED BY <1>1, <1>4, <2>2 DEF RedeemMail, Starts, Shape
<1>5. ASSUME NEW r \in Request, NEW m \in Mail, NEW kind \in Kind, SendMail(r, m, kind)
      PROVE  Shape'
  <2>1. mail' \in [DOMAIN mail' -> Kind] /\ DOMAIN mail' \subseteq drawn' /\ drawn' \subseteq Mail
    BY <1>1, <1>5 DEF SendMail
  <2> QED BY <1>1, <1>5, <2>1 DEF SendMail, Shape
<1>6. ASSUME NEW m \in Mail, MailExpires(m) PROVE Shape'
  <2>1. mail' \in [DOMAIN mail' -> Kind] /\ DOMAIN mail' \subseteq DOMAIN mail
    BY <1>1, <1>6 DEF MailExpires, Without
  <2> QED BY <1>6, <2>1 DEF MailExpires, Shape, history
<1> QED BY <1>2, <1>3, <1>4, <1>5, <1>6

\* TOTP.
LEMMA TotpShape ==
  ASSUME Shape, NEW r \in Request,
         \/ EnrolTotp(r) \/ StoreSecret(r) \/ EnableTotp(r)
         \/ \E m \in Method : VerifyTotp(r, m)
  PROVE  Shape'
<1>1. /\ calls \in Nat /\ calls + 1 \in Nat
      /\ req \in [Request -> Phase] /\ req[r] \in Phase
      /\ methods \in [DOMAIN methods -> TotpRow] /\ DOMAIN methods \subseteq Method
  BY DEF Shape
<1>2. CASE EnrolTotp(r)
  <2>1. PICK found \in SUBSET DOMAIN methods : Starts(r, [op |-> "enrol", found |-> found])
    BY <1>2 DEF EnrolTotp
  <2>2. [op |-> "enrol", found |-> found] \in Phase
    BY <1>1, PhasesMade
  <2>3. req' \in [Request -> Phase]
    BY <1>1, <2>1, <2>2 DEF Starts, Becomes
  <2> QED BY <1>1, <1>2, <2>1, <2>3 DEF EnrolTotp, Starts, Shape, history
<1>3. CASE StoreSecret(r)
  <2>1. PICK m \in Method :
          methods' = [x \in DOMAIN methods \cup {m} |->
                        IF x = m THEN [secret |-> calls, enabled |-> FALSE] ELSE methods[x]]
    BY <1>3 DEF StoreSecret
  <2>2. [secret |-> calls, enabled |-> FALSE] \in TotpRow
    BY <1>1 DEF TotpRow
  <2>3. methods' \in [DOMAIN methods' -> TotpRow] /\ DOMAIN methods' \subseteq Method
    BY <1>1, <2>1, <2>2
  <2>4. req' \in [Request -> Phase]
    BY <1>1, <1>3, PhasesMade DEF StoreSecret, Becomes
  <2> QED BY <1>3, <2>3, <2>4 DEF StoreSecret, Shape
<1>4. CASE EnableTotp(r)
  <2>1. methods' \in [DOMAIN methods' -> TotpRow] /\ DOMAIN methods' = DOMAIN methods
    BY <1>1, <1>4 DEF EnableTotp, TotpRow
  <2>2. req' \in [Request -> Phase]
    BY <1>1, <1>4, PhasesMade DEF EnableTotp, Becomes
  <2> QED BY <1>4, <2>1, <2>2 DEF EnableTotp, Shape
<1>5. ASSUME NEW m \in Method, VerifyTotp(r, m) PROVE Shape'
  <2>1. req' \in [Request -> Phase]
    BY <1>1, <1>5, PhasesMade DEF VerifyTotp, Starts, Becomes
  <2> QED BY <1>1, <1>5, <2>1 DEF VerifyTotp, Starts, Shape
<1> QED BY <1>2, <1>3, <1>4, <1>5

LEMMA NextShape == ASSUME Shape, [Next]_vars PROVE Shape'
<1>1. CASE Crash
  BY <1>1, PhasesMade DEF Crash, Shape
<1>2. CASE CacheExpires \/ UNCHANGED vars
  BY <1>2 DEF CacheExpires, vars, history, Shape
<1> QED BY <1>1, <1>2, CacheShape, RowShape, MailShape, TotpShape DEF Next

-----------------------------------------------------------------------------
(* The safety valve.  An unlink that was not overtaken leaves something to  *)
(* sign in with: nothing but another unlink takes a way to sign in away.    *)

Spares(r) == user.password \/ \E l \in user.links : l # req[r].provider

KeptInv ==
  /\ Shape /\ SignInKept
  /\ \A r \in Request \ overtaken : req[r].op = "unlink" => Spares(r)

LEMMA InitKept == ASSUME Init PROVE KeptInv
<1>1. Shape
  BY InitShape
<1>2. user.password \/ user.links # {}
  BY DEF Init
<1>3. \A r \in Request : req[r].op # "unlink"
  BY PhasesMade DEF Init
<1> QED BY <1>1, <1>2, <1>3 DEF KeptInv, SignInKept

\* A step that removes no way to sign in and starts no unlink.
LEMMA FrameKept ==
  ASSUME KeptInv, Shape',
         user.links \subseteq user'.links,
         user.password => user'.password,
         \A r \in Request : req'[r].op = "unlink" =>
                              req'[r] = req[r] /\ (r \in overtaken => r \in overtaken'),
         strayed \subseteq strayed'
  PROVE  KeptInv'
<1>1. SignInKept'
  BY DEF KeptInv, SignInKept
<1>2. ASSUME NEW r \in Request \ overtaken', req'[r].op = "unlink"
      PROVE  user'.password \/ \E l \in user'.links : l # req'[r].provider
  <2>1. req'[r] = req[r] /\ r \notin overtaken
    BY <1>2
  <2>2. user.password \/ \E l \in user.links : l # req[r].provider
    BY <1>2, <2>1 DEF KeptInv, Spares
  <2> QED BY <2>1, <2>2
<1> QED BY <1>1, <1>2 DEF KeptInv, Spares

\* The row after each of its writers.
LEMMA RowGrows ==
  ASSUME Shape, NEW r \in Request,
         \/ UpdateProfile(r) \/ CompleteProfile(r) \/ UpdatePassword(r)
         \/ MakeAdmin(r) \/ ElevateAdmin(r) \/ SocialUpdate(r) \/ UpsertLink(r)
         \/ WriteRedeemed(r)
         \/ \E p \in Provider :
              \/ LinkProvider(r, p)
              \/ \E known \in SUBSET {"name", "verified"} : SocialSignIn(r, p, known)
  PROVE  user.links \subseteq user'.links /\ (user.password => user'.password)
<1>1. user \in AnyRow
  BY DEF Shape
<1>2. CASE UpdateProfile(r) \/ CompleteProfile(r)
  BY <1>1, <1>2 DEF AnyRow, UpdateProfile, CompleteProfile
<1>3. CASE UpdatePassword(r) \/ MakeAdmin(r) \/ ElevateAdmin(r)
  BY <1>1, <1>3 DEF AnyRow, UpdatePassword, MakeAdmin, ElevateAdmin
<1>4. CASE SocialUpdate(r) \/ WriteRedeemed(r)
  BY <1>1, <1>4 DEF AnyRow, SocialUpdate, WriteRedeemed
<1>5. CASE UpsertLink(r)
  <2>1. PICK links \in {user.links, user.links \cup {req[r].provider}} :
          user' = [user EXCEPT !.links = links]
    BY <1>5 DEF UpsertLink
  <2> QED BY <1>1, <2>1 DEF AnyRow
<1>6. ASSUME NEW p \in Provider, LinkProvider(r, p)
      PROVE  user.links \subseteq user'.links /\ (user.password => user'.password)
  BY <1>1, <1>6 DEF AnyRow, LinkProvider
<1>7. ASSUME NEW p \in Provider, NEW known, SocialSignIn(r, p, known) PROVE user' = user
  BY <1>7 DEF SocialSignIn
<1> QED BY <1>2, <1>3, <1>4, <1>5, <1>6, <1>7

\* The phase a request is left in, when it is no unlink that starts.
Quiet(r) ==
  /\ req'[r].op # "unlink" \/ req' = req
  /\ \A s \in Request \ {r} : req'[s] = req[s]

LEMMA QuietSteps ==
  ASSUME Shape, NEW r \in Request,
         \/ RefreshProfile(r) \/ MeCached(r) \/ MeReads(r) \/ MeFills(r) \/ DropCached(r)
         \/ LoginCaches(r) \/ UpdateProfile(r) \/ CompleteProfile(r) \/ UpdatePassword(r)
         \/ MakeAdmin(r) \/ ElevateAdmin(r)
         \/ WriteRedeemed(r) \/ SpendMail(r)
         \/ EnrolTotp(r) \/ StoreSecret(r) \/ EnableTotp(r)
         \/ DeleteLink(r) \/ SocialUpdate(r) \/ UpsertLink(r) \/ Fails(r)
         \/ \E m \in Mail : RedeemMail(r, m) \/ \E kind \in Kind : SendMail(r, m, kind)
         \/ \E m \in Method : VerifyTotp(r, m)
         \/ \E p \in Provider : LinkProvider(r, p)
                                 \/ \E known \in SUBSET {"name", "verified"} : SocialSignIn(r, p, known)
  PROVE  Quiet(r)
<1>1. ASSUME NEW q, Becomes(r, q), q.op # "unlink" PROVE Quiet(r)
  BY <1>1 DEF Becomes, Quiet, Shape
<1>2. CASE RefreshProfile(r) \/ DropCached(r) \/ \E p \in Provider : LinkProvider(r, p)
  <2>1. Asking.op = "refresh"
    BY DEF Asking
  <2> QED BY <1>1, <1>2, <2>1, PhasesMade DEF RefreshProfile, DropCached, LinkProvider, Starts
<1>3. CASE MeCached(r) \/ MeReads(r) \/ MeFills(r)
  BY <1>1, <1>3, PhasesMade DEF MeCached, MeReads, MeFills
<1>4. CASE LoginCaches(r) \/ CompleteProfile(r) \/ UpdatePassword(r) \/ ElevateAdmin(r)
             \/ \E m \in Mail, kind \in Kind : SendMail(r, m, kind)
  BY <1>4 DEF LoginCaches, CompleteProfile, UpdatePassword, ElevateAdmin, SendMail, Quiet
<1>5. CASE UpdateProfile(r) \/ MakeAdmin(r)
  BY <1>1, <1>5 DEF UpdateProfile, MakeAdmin, Starts
<1>6. CASE WriteRedeemed(r)
  <2>1. req[r] \in Redeem
    BY <1>6, Phases DEF WriteRedeemed, Shape
  <2>2. [req[r] EXCEPT !.op = "spend"].op # "unlink"
    BY <2>1 DEF Redeem
  <2> QED BY <1>1, <1>6, <2>2 DEF WriteRedeemed
<1>7. CASE SpendMail(r) \/ DeleteLink(r)
  BY <1>1, <1>7 DEF SpendMail, DeleteLink
<1>8. CASE EnrolTotp(r)
  BY <1>1, <1>8 DEF EnrolTotp, Starts
<1>9. CASE StoreSecret(r) \/ EnableTotp(r) \/ Fails(r) \/ SocialUpdate(r) \/ UpsertLink(r)
  BY <1>1, <1>9, PhasesMade DEF StoreSecret, EnableTotp, Fails, SocialUpdate, UpsertLink
<1>10. CASE (\E m \in Mail : RedeemMail(r, m)) \/ \E m \in Method : VerifyTotp(r, m)
  BY <1>1, <1>10 DEF RedeemMail, VerifyTotp, Starts
<1>11. CASE \E p \in Provider, known \in SUBSET {"name", "verified"} : SocialSignIn(r, p, known)
  BY <1>1, <1>11, SocialStarts DEF Starts
<1> QED BY <1>2, <1>3, <1>4, <1>5, <1>6, <1>7, <1>8, <1>9, <1>10, <1>11

LEMMA QuietKept ==
  ASSUME KeptInv, Shape', NEW r \in Request, Quiet(r),
         user.links \subseteq user'.links,
         user.password => user'.password,
         overtaken \subseteq overtaken' \cup {r}, req' = req => overtaken \subseteq overtaken',
         strayed \subseteq strayed'
  PROVE  KeptInv'
<1>1. \A s \in Request : req'[s].op = "unlink" =>
                           req'[s] = req[s] /\ (s \in overtaken => s \in overtaken')
  BY DEF Quiet
<1> QED BY <1>1, FrameKept

LEMMA NextKept == ASSUME KeptInv, [Next]_vars PROVE KeptInv'
<1>1. Shape /\ Shape'
  BY NextShape DEF KeptInv
<1>2. ASSUME NEW r \in Request,
             \/ UpdateProfile(r) \/ CompleteProfile(r) \/ UpdatePassword(r)
             \/ MakeAdmin(r) \/ ElevateAdmin(r) \/ SocialUpdate(r) \/ UpsertLink(r)
             \/ WriteRedeemed(r)
             \/ \E p \in Provider :
                  \/ LinkProvider(r, p)
                  \/ \E known \in SUBSET {"name", "verified"} : SocialSignIn(r, p, known)
      PROVE  KeptInv'
  <2>1. user.links \subseteq user'.links /\ (user.password => user'.password)
    BY <1>1, <1>2, RowGrows
  <2>2. UNCHANGED <<overtaken, strayed>>
    BY <1>2 DEF UpdateProfile, CompleteProfile, UpdatePassword, MakeAdmin, ElevateAdmin,
                SocialUpdate, UpsertLink, WriteRedeemed, LinkProvider, SocialSignIn, history
  <2>3. Quiet(r)
    BY <1>1, <1>2, QuietSteps
  <2> QED BY <1>1, <2>1, <2>2, <2>3, QuietKept
<1>3. ASSUME NEW r \in Request,
             \/ RefreshProfile(r) \/ MeCached(r) \/ MeReads(r) \/ MeFills(r) \/ DropCached(r)
             \/ LoginCaches(r) \/ SpendMail(r)
             \/ EnrolTotp(r)
             \/ \E m \in Mail : RedeemMail(r, m) \/ \E kind \in Kind : SendMail(r, m, kind)
             \/ \E m \in Method : VerifyTotp(r, m)
      PROVE  KeptInv'
  <2>1. UNCHANGED <<user, overtaken, strayed>>
    BY <1>3 DEF RefreshProfile, MeCached, MeReads, MeFills, DropCached, LoginCaches, SpendMail,
                EnrolTotp, RedeemMail, SendMail, VerifyTotp, history
  <2>2. Quiet(r)
    BY <1>1, <1>3, QuietSteps
  <2> QED BY <1>1, <2>1, <2>2, QuietKept
<1>4. ASSUME NEW r \in Request, StoreSecret(r) \/ EnableTotp(r) \/ Fails(r) PROVE KeptInv'
  <2>1. /\ UNCHANGED user /\ strayed \subseteq strayed'
        /\ overtaken \subseteq overtaken' \cup {r} /\ req'[r] = Idle
    BY <1>1, <1>4 DEF StoreSecret, EnableTotp, Fails, Becomes, Shape
  <2>2. Quiet(r)
    BY <1>1, <1>4, QuietSteps
  <2>3. req'[r].op # "unlink"
    BY <2>1, PhasesMade
  <2>4. \A s \in Request : req'[s].op = "unlink" =>
                             req'[s] = req[s] /\ (s \in overtaken => s \in overtaken')
    BY <2>1, <2>2, <2>3 DEF Quiet
  <2> QED BY <1>1, <2>1, <2>4, FrameKept
<1>5. ASSUME NEW r \in Request, NEW p \in Provider, UnlinkProvider(r, p) PROVE KeptInv'
  <2>1. /\ UNCHANGED <<user, overtaken, strayed>>
        /\ req'[r] = [op |-> "unlink", provider |-> p]
        /\ \A s \in Request \ {r} : req'[s] = req[s]
    BY <1>1, <1>5 DEF UnlinkProvider, Starts, Becomes, Shape, history
  <2>2. user.password \/ \E l \in user.links : l # p
    BY <1>5 DEF UnlinkProvider, CanUnlink
  <2>3. \A s \in Request \ overtaken' : req'[s].op = "unlink" => Spares(s)'
    BY <2>1, <2>2 DEF KeptInv, Spares
  <2> QED BY <1>1, <2>1, <2>3 DEF KeptInv, SignInKept
<1>6. ASSUME NEW r \in Request, DeleteLink(r) PROVE KeptInv'
  <2>1. /\ req[r].op = "unlink" /\ req'[r].op = "announce"
        /\ \A s \in Request \ {r} : req'[s] = req[s]
    BY <1>1, <1>6 DEF DeleteLink, Becomes, Shape
  <2>2. \A s \in Request : req'[s].op = "unlink" => s \in overtaken'
    BY <1>6, <2>1 DEF DeleteLink
  <2>3. /\ user' = [user EXCEPT !.links = user.links \ {req[r].provider}]
        /\ user \in AnyRow
    BY <1>1, <1>6 DEF DeleteLink, Shape
  <2>4. user'.links = user.links \ {req[r].provider} /\ (user.password => user'.password)
    BY <2>3 DEF AnyRow
  <2>5. r \notin overtaken => user.password \/ \E l \in user.links : l # req[r].provider
    BY <2>1 DEF KeptInv, Spares
  <2>6. r \in overtaken => "links" \in strayed'
    BY <1>6 DEF DeleteLink
  <2>7. SignInKept'
    BY <2>4, <2>5, <2>6 DEF SignInKept
  <2> QED BY <1>1, <2>2, <2>7 DEF KeptInv
<1>7. CASE Crash
  <2>1. (\A r \in Request : req'[r].op # "unlink") /\ UNCHANGED <<user, strayed>>
    BY <1>7, PhasesMade DEF Crash
  <2> QED BY <1>1, <2>1, FrameKept
<1>8. CASE CacheExpires \/ UNCHANGED vars \/ \E m \in Mail : MailExpires(m)
  <2>1. UNCHANGED <<user, req, overtaken, strayed>>
    BY <1>8 DEF CacheExpires, MailExpires, vars, history
  <2> QED BY <1>1, <2>1, FrameKept
<1> QED BY <1>2, <1>3, <1>4, <1>5, <1>6, <1>7, <1>8 DEF Next

\* unlinkProvider's safety valve: the account keeps a password or a linked
\* account, unless two unlinks overlapped.
THEOREM SignInIsKept == Spec => []SignInKept
<1>1. Init => KeptInv
  BY InitKept
<1>2. KeptInv /\ [Next]_vars => KeptInv'
  BY NextKept
<1>3. KeptInv => SignInKept
  BY DEF KeptInv
<1> QED BY <1>1, <1>2, <1>3, PTL DEF Spec

-----------------------------------------------------------------------------
(* TOTP.  A request that was not overtaken still knows the row it read: the *)
(* enrolment one that is off, the confirmation one whose secret was proved. *)

TotpInv ==
  /\ Shape /\ EnabledSecretProved
  /\ \A r \in Request \ overtaken :
       /\ req[r].op = "enrol" =>
            \A m \in req[r].found \cap DOMAIN methods : ~methods[m].enabled
       /\ req[r].op = "confirm" /\ req[r].method \in DOMAIN methods =>
            methods[req[r].method].secret \in proved

LEMMA InitTotp == ASSUME Init PROVE TotpInv
<1>1. Shape
  BY InitShape
<1>2. methods = [m \in {} |-> m]
  BY DEF Init
<1>3. \A r \in Request : req[r].op \notin {"enrol", "confirm"}
  BY PhasesMade DEF Init
<1> QED BY <1>1, <1>2, <1>3 DEF TotpInv, EnabledSecretProved

\* A step that touches no TOTP row and no request about one.
LEMMA FrameTotp ==
  ASSUME TotpInv, Shape', UNCHANGED <<methods, proved>>,
         \A r \in Request : req'[r].op \in {"enrol", "confirm"} =>
                              req'[r] = req[r] /\ (r \in overtaken => r \in overtaken'),
         strayed \subseteq strayed'
  PROVE  TotpInv'
<1>1. EnabledSecretProved'
  BY DEF TotpInv, EnabledSecretProved
<1> QED BY <1>1 DEF TotpInv

\* The steps of a request that is about no TOTP row.
NoTotpStep(r) ==
  \/ RefreshProfile(r) \/ MeCached(r) \/ MeReads(r) \/ MeFills(r) \/ DropCached(r)
  \/ LoginCaches(r) \/ UpdateProfile(r) \/ CompleteProfile(r) \/ UpdatePassword(r)
  \/ MakeAdmin(r) \/ ElevateAdmin(r)
  \/ WriteRedeemed(r) \/ SpendMail(r)
  \/ DeleteLink(r) \/ SocialUpdate(r) \/ UpsertLink(r) \/ Fails(r)
  \/ \E m \in Mail : RedeemMail(r, m) \/ \E kind \in Kind : SendMail(r, m, kind)
  \/ \E p \in Provider : LinkProvider(r, p) \/ UnlinkProvider(r, p)
                          \/ \E known \in SUBSET {"name", "verified"} : SocialSignIn(r, p, known)

LEMMA NoTotpMoves ==
  ASSUME Shape, NEW r \in Request, NoTotpStep(r)
  PROVE  /\ req'[r].op \notin {"enrol", "confirm"} \/ req' = req
         /\ \A s \in Request \ {r} : req'[s] = req[s]
         /\ overtaken \subseteq overtaken' \cup {r} /\ (req' = req => overtaken \subseteq overtaken')
         /\ strayed \subseteq strayed' /\ UNCHANGED <<methods, proved>>
<1> DEFINE Goal == /\ req'[r].op \notin {"enrol", "confirm"} \/ req' = req
                   /\ \A s \in Request \ {r} : req'[s] = req[s]
<1>1. ASSUME NEW q, Becomes(r, q), q.op \notin {"enrol", "confirm"} PROVE Goal
  BY <1>1 DEF Becomes, Shape
<1>2. CASE UpdateProfile(r) \/ CompleteProfile(r) \/ UpdatePassword(r) \/ MakeAdmin(r)
             \/ ElevateAdmin(r) \/ LoginCaches(r)
             \/ \E m \in Mail, kind \in Kind : SendMail(r, m, kind)
  <2>1. Goal
    BY <1>1, <1>2 DEF UpdateProfile, CompleteProfile, UpdatePassword, MakeAdmin, ElevateAdmin,
                      LoginCaches, SendMail, Starts
  <2> QED BY <1>2, <2>1 DEF UpdateProfile, CompleteProfile, UpdatePassword, MakeAdmin, ElevateAdmin,
                      LoginCaches, SendMail
<1>3. CASE RefreshProfile(r) \/ DropCached(r) \/ \E p \in Provider : LinkProvider(r, p)
  <2>1. Asking.op = "refresh"
    BY DEF Asking
  <2>2. Goal
    BY <1>1, <1>3, <2>1, PhasesMade DEF RefreshProfile, DropCached, LinkProvider, Starts
  <2> QED BY <1>3, <2>2 DEF RefreshProfile, DropCached, LinkProvider, history
<1>4. CASE MeCached(r) \/ MeReads(r) \/ MeFills(r)
  <2>1. Goal
    BY <1>1, <1>4, PhasesMade DEF MeCached, MeReads, MeFills
  <2> QED BY <1>4, <2>1 DEF MeCached, MeReads, MeFills, history
<1>5. CASE WriteRedeemed(r)
  <2>1. req[r] \in Redeem
    BY <1>5, Phases DEF WriteRedeemed, Shape
  <2>2. [req[r] EXCEPT !.op = "spend"].op \notin {"enrol", "confirm"}
    BY <2>1 DEF Redeem
  <2>3. Goal
    BY <1>1, <1>5, <2>2 DEF WriteRedeemed
  <2> QED BY <1>5, <2>3 DEF WriteRedeemed
<1>6. CASE SpendMail(r) \/ \E m \in Mail : RedeemMail(r, m)
  <2>1. Goal
    BY <1>1, <1>6 DEF SpendMail, RedeemMail, Starts
  <2> QED BY <1>6, <2>1 DEF SpendMail, RedeemMail, history
<1>7. CASE SocialUpdate(r) \/ UpsertLink(r) \/ \E p \in Provider : UnlinkProvider(r, p)
  <2>1. Goal
    BY <1>1, <1>7, PhasesMade DEF SocialUpdate, UpsertLink, UnlinkProvider, Starts
  <2> QED BY <1>7, <2>1 DEF SocialUpdate, UpsertLink, UnlinkProvider, history
<1>8. CASE \E p \in Provider, known \in SUBSET {"name", "verified"} : SocialSignIn(r, p, known)
  <2>1. Goal
    BY <1>1, <1>8, SocialStarts DEF Starts
  <2> QED BY <1>8, <2>1 DEF SocialSignIn, history
<1>9. CASE DeleteLink(r) \/ Fails(r)
  <2>1. Becomes(r, Idle) \/ Becomes(r, [op |-> "announce", fields |-> {"links"}, then |-> "refresh"])
    BY <1>9 DEF DeleteLink, Fails
  <2>2. req'[r].op \in {"idle", "announce"} /\ req'[r].op # req[r].op
    BY <1>9, <2>1, PhasesMade DEF DeleteLink, Fails, Becomes, Shape
  <2>3. Goal /\ req' # req
    BY <1>1, <2>1, <2>2, PhasesMade
  <2> QED BY <1>9, <2>3 DEF DeleteLink, Fails
<1> QED BY <1>2, <1>3, <1>4, <1>5, <1>6, <1>7, <1>8, <1>9 DEF NoTotpStep

LEMMA EnrolTotpKeeps ==
  ASSUME TotpInv, NEW r \in Request, EnrolTotp(r)
  PROVE  TotpInv'
<1>1. Shape /\ Shape'
  BY TotpShape DEF TotpInv
<1>2. PICK found \in SUBSET DOMAIN methods :
        (\A m \in found : ~methods[m].enabled) /\ Starts(r, [op |-> "enrol", found |-> found])
  BY DEF EnrolTotp
<1>3. /\ req'[r] = [op |-> "enrol", found |-> found]
      /\ \A s \in Request \ {r} : req'[s] = req[s]
      /\ UNCHANGED <<methods, overtaken, strayed, proved>>
  BY <1>1, <1>2 DEF EnrolTotp, Starts, Becomes, Shape, history
<1> QED BY <1>1, <1>2, <1>3 DEF TotpInv, EnabledSecretProved

LEMMA VerifyTotpKeeps ==
  ASSUME TotpInv, NEW r \in Request, NEW m \in Method, VerifyTotp(r, m)
  PROVE  TotpInv'
<1>1. Shape /\ Shape'
  BY TotpShape DEF TotpInv
<1>2. /\ req'[r] = [op |-> "confirm", method |-> m]
      /\ \A s \in Request \ {r} : req'[s] = req[s]
      /\ proved' = proved \cup {methods[m].secret}
      /\ UNCHANGED <<methods, overtaken, strayed>>
  BY <1>1 DEF VerifyTotp, Starts, Becomes, Shape
<1> QED BY <1>1, <1>2 DEF TotpInv, EnabledSecretProved

LEMMA StoreSecretKeeps ==
  ASSUME TotpInv, NEW r \in Request, StoreSecret(r)
  PROVE  TotpInv'
<1>1. Shape /\ Shape'
  BY TotpShape DEF TotpInv
<1>2. PICK m \in Method :
        /\ methods' = [x \in DOMAIN methods \cup {m} |->
                         IF x = m THEN [secret |-> calls, enabled |-> FALSE] ELSE methods[x]]
        /\ strayed' = IF r \in overtaken THEN strayed \cup {m} ELSE strayed
        /\ overtaken' = (overtaken \ {r}) \cup
                          {q \in Request : req[q].op = "confirm" /\ req[q].method = m}
  BY DEF StoreSecret
<1>3. /\ req'[r] = Idle
      /\ \A s \in Request \ {r} : req'[s] = req[s]
      /\ UNCHANGED proved
  BY <1>1 DEF StoreSecret, Becomes, Shape
<1>4. \A x \in DOMAIN methods' : methods'[x].enabled =>
        x # m /\ x \in DOMAIN methods /\ methods'[x] = methods[x]
  BY <1>2
<1>5. EnabledSecretProved'
  BY <1>2, <1>3, <1>4 DEF TotpInv, EnabledSecretProved
<1>6. ASSUME NEW s \in Request \ overtaken', req'[s].op = "enrol",
             NEW x \in req'[s].found \cap DOMAIN methods'
      PROVE  ~methods'[x].enabled
  <2>1. s # r /\ req'[s] = req[s] /\ s \notin overtaken
    BY <1>2, <1>3, <1>6, PhasesMade
  <2> QED BY <1>4, <1>6, <2>1 DEF TotpInv
<1>7. ASSUME NEW s \in Request \ overtaken', req'[s].op = "confirm",
             req'[s].method \in DOMAIN methods'
      PROVE  methods'[req'[s].method].secret \in proved'
  <2>1. s # r /\ req'[s] = req[s] /\ s \notin overtaken /\ req[s].method # m
    BY <1>2, <1>3, <1>7, PhasesMade
  <2> QED BY <1>2, <1>3, <1>7, <2>1 DEF TotpInv
<1> QED BY <1>1, <1>5, <1>6, <1>7 DEF TotpInv

LEMMA EnableTotpKeeps ==
  ASSUME TotpInv, NEW r \in Request, EnableTotp(r)
  PROVE  TotpInv'
<1> DEFINE m == req[r].method
<1>1. Shape /\ Shape'
  BY TotpShape DEF TotpInv
<1>2. /\ req[r].op = "confirm" /\ req'[r] = Idle
      /\ \A s \in Request \ {r} : req'[s] = req[s]
      /\ strayed' = (IF r \in overtaken THEN strayed \cup {m} ELSE strayed)
      /\ overtaken' = (overtaken \ {r}) \cup
                        {q \in Request : req[q].op = "enrol" /\ m \in req[q].found}
      /\ UNCHANGED proved
  BY <1>1 DEF EnableTotp, Becomes, Shape
<1>3. /\ DOMAIN methods' = DOMAIN methods
      /\ \A x \in DOMAIN methods : methods'[x].secret = methods[x].secret
      /\ \A x \in DOMAIN methods \ {m} : methods'[x] = methods[x]
  BY <1>1 DEF EnableTotp, Shape, TotpRow
<1>4. m \in DOMAIN methods => methods[m].secret \in proved \/ r \in overtaken
  BY <1>2 DEF TotpInv
<1>5. EnabledSecretProved'
  BY <1>2, <1>3, <1>4 DEF TotpInv, EnabledSecretProved
<1>6. ASSUME NEW s \in Request \ overtaken', req'[s].op = "enrol",
             NEW x \in req'[s].found \cap DOMAIN methods'
      PROVE  ~methods'[x].enabled
  <2>1. s # r /\ req'[s] = req[s] /\ s \notin overtaken /\ x # m
    BY <1>2, <1>6, PhasesMade
  <2> QED BY <1>3, <1>6, <2>1 DEF TotpInv
<1>7. ASSUME NEW s \in Request \ overtaken', req'[s].op = "confirm",
             req'[s].method \in DOMAIN methods'
      PROVE  methods'[req'[s].method].secret \in proved'
  <2>1. s # r /\ req'[s] = req[s] /\ s \notin overtaken
    BY <1>2, <1>7, PhasesMade
  <2> QED BY <1>2, <1>3, <1>7, <2>1 DEF TotpInv
<1> QED BY <1>1, <1>5, <1>6, <1>7 DEF TotpInv

LEMMA NextTotp == ASSUME TotpInv, [Next]_vars PROVE TotpInv'
<1>1. Shape /\ Shape'
  BY NextShape DEF TotpInv
<1>2. ASSUME NEW r \in Request, NoTotpStep(r) PROVE TotpInv'
  <2>1. /\ \A s \in Request : req'[s].op \in {"enrol", "confirm"} =>
                                req'[s] = req[s] /\ (s \in overtaken => s \in overtaken')
        /\ strayed \subseteq strayed' /\ UNCHANGED <<methods, proved>>
    BY <1>1, <1>2, NoTotpMoves
  <2> QED BY <1>1, <2>1, FrameTotp
<1>3. CASE Crash
  <2>1. /\ \A r \in Request : req'[r].op \notin {"enrol", "confirm"}
        /\ UNCHANGED <<methods, proved, strayed>>
    BY <1>3, PhasesMade DEF Crash
  <2> QED BY <1>1, <2>1, FrameTotp
<1>4. CASE CacheExpires \/ UNCHANGED vars \/ \E m \in Mail : MailExpires(m)
  <2>1. UNCHANGED <<methods, req, overtaken, strayed, proved>>
    BY <1>4 DEF CacheExpires, MailExpires, vars, history
  <2> QED BY <1>1, <2>1, FrameTotp
<1> QED BY <1>2, <1>3, <1>4, EnrolTotpKeeps, VerifyTotpKeeps, StoreSecretKeeps, EnableTotpKeeps
        DEF Next, NoTotpStep

LEMMA AlwaysTotp == Spec => []TotpInv
  BY InitTotp, NextTotp, PTL DEF Spec

\* A TOTP row is enabled with a secret the user has shown a code of, unless an
\* enrolment replaced it while verifyTotp was about to enable it.
THEOREM EnabledSecretIsProved == Spec => []EnabledSecretProved
<1>1. TotpInv => EnabledSecretProved
  BY DEF TotpInv
<1> QED BY <1>1, AlwaysTotp, PTL

\* TOTP, once on, is turned off by nobody but an enrolment that read its row
\* before it was enabled.
THEOREM TotpIsKept == Spec => TotpStaysOn
<1>1. ASSUME TotpInv, [Next]_vars, TotpOn, ~TotpOn'
      PROVE  \E r \in overtaken : req[r].op = "enrol" /\ req'[r] = Idle
  <2>1. Shape /\ methods' # methods
    BY <1>1 DEF TotpInv, TotpOn
  <2>2. (\E r \in Request : StoreSecret(r)) \/ \E r \in Request : EnableTotp(r)
    <3>1. \A r \in Request : NoTotpStep(r) => methods' = methods
      BY <2>1, NoTotpMoves
    <3>2. \A r \in Request : EnrolTotp(r) => methods' = methods
      BY DEF EnrolTotp
    <3>3. \A r \in Request, m \in Method : VerifyTotp(r, m) => methods' = methods
      BY DEF VerifyTotp
    <3>4. Crash \/ CacheExpires \/ UNCHANGED vars \/ (\E m \in Mail : MailExpires(m))
            => methods' = methods
      BY DEF Crash, CacheExpires, vars, MailExpires
    <3> QED BY <1>1, <2>1, <3>1, <3>2, <3>3, <3>4 DEF Next, NoTotpStep
  <2>3. ASSUME NEW r \in Request, EnableTotp(r) PROVE FALSE
    <3>1. PICK x \in DOMAIN methods : methods[x].enabled
      BY <1>1 DEF TotpOn
    <3>2. methods' = [methods EXCEPT ![req[r].method].enabled = TRUE]
      BY <2>3 DEF EnableTotp
    <3>3. x \in DOMAIN methods' /\ methods'[x].enabled
      BY <2>1, <3>1, <3>2 DEF Shape, TotpRow
    <3> QED BY <1>1, <3>3 DEF TotpOn
  <2>4. PICK r \in Request : StoreSecret(r)
    BY <2>2, <2>3
  <2>5. PICK m \in Method :
          /\ IF req[r].found = {} THEN m \notin DOMAIN methods ELSE m \in req[r].found
          /\ methods' = [x \in DOMAIN methods \cup {m} |->
                           IF x = m THEN [secret |-> calls, enabled |-> FALSE] ELSE methods[x]]
    BY <2>4 DEF StoreSecret
  <2>6. req[r].op = "enrol" /\ req'[r] = Idle
    BY <2>1, <2>4 DEF StoreSecret, Becomes, Shape
  <2>7. PICK x \in DOMAIN methods : methods[x].enabled
    BY <1>1 DEF TotpOn
  <2>8. x = m
    <3>1. ASSUME x # m PROVE FALSE
      <4>1. x \in DOMAIN methods' /\ methods'[x].enabled
        BY <2>5, <2>7, <3>1
      <4> QED BY <1>1, <4>1 DEF TotpOn
    <3> QED BY <3>1
  <2>9. m \in req[r].found \cap DOMAIN methods
    BY <2>5, <2>7, <2>8
  <2>10. r \in overtaken
    BY <1>1, <2>6, <2>7, <2>8, <2>9 DEF TotpInv
  <2> QED BY <2>6, <2>10
<1>2. TotpInv /\ [Next]_vars =>
        [TotpOn /\ ~TotpOn' => \E r \in overtaken : req[r].op = "enrol" /\ req'[r] = Idle]_vars
  BY <1>1
<1> QED BY <1>2, AlwaysTotp, PTL DEF Spec, TotpStaysOn
-----------------------------------------------------------------------------
(* The cached profile.  Owed holds the fields in which it may differ: those *)
(* a silent writer left, and those a request is yet to announce.  Only a    *)
(* request that drops the cached profile takes its fields back.             *)

Owed == silent \cup UNION {Pending(r) : r \in Request}

FollowInv ==
  /\ Shape /\ CachedProfileFollows
  /\ cache.kind = "full" => cache.profile \in AnyProfile

LEMMA InitFollow == ASSUME Init PROVE FollowInv
<1>1. Shape
  BY InitShape
<1>2. cache.kind # "full"
  BY DEF Init
<1> QED BY <1>1, <1>2 DEF FollowInv, CachedProfileFollows

\* A step that writes the fields in written, and leaves them owed.
LEMMA FrameFollows ==
  ASSUME CachedProfileFollows, cache' = cache, NEW written,
         \A f \in Field \ written : Current'[f] = Current[f],
         written \subseteq Owed', Owed \subseteq Owed'
  PROVE  CachedProfileFollows'
<1> SUFFICES ASSUME cache.kind = "full",
                    NEW f \in Field, cache.profile[f] # Current'[f]
             PROVE  f \in Owed'
  BY DEF CachedProfileFollows, Difference, Owed
<1>1. CASE f \in written
  BY <1>1
<1>2. CASE f \notin written
  <2>1. cache.profile[f] # Current[f]
    BY <1>2
  <2>2. f \in Owed
    BY <2>1 DEF CachedProfileFollows, Difference, Owed
  <2> QED BY <2>2
<1> QED BY <1>1, <1>2

LEMMA OwedGrows ==
  ASSUME NEW r \in Request,
         \A s \in Request \ {r} : req'[s] = req[s],
         silent \subseteq silent', Pending(r) \subseteq Pending(r)'
  PROVE  Owed \subseteq Owed' /\ Pending(r)' \subseteq Owed' /\ silent' \subseteq Owed'
<1>1. \A s \in Request : Pending(s) \subseteq Pending(s)'
  BY DEF Pending
<1> QED BY <1>1 DEF Owed

\* What is pending in each phase.
LEMMA PendingOf ==
  ASSUME NEW r \in Request
  PROVE  /\ req[r].op = "announce" => Pending(r) = req[r].fields
         /\ req[r].op = "spend" => Pending(r) = Effect(req[r].kind)
         /\ req[r].op \notin {"announce", "spend"} => Pending(r) = {}
  BY DEF Pending

LEMMA PendingNext ==
  ASSUME NEW r \in Request
  PROVE  /\ req'[r].op = "announce" => Pending(r)' = req'[r].fields
         /\ req'[r].op = "spend" => Pending(r)' = Effect(req'[r].kind)
         /\ req'[r].op \notin {"announce", "spend"} => Pending(r)' = {}
  BY DEF Pending

\* Fields of the profile a row's change leaves alone.
LEMMA CurrentFields ==
  /\ Current.name = user.name /\ Current.verified = user.verified
  /\ Current.password = user.password /\ Current.links = user.links
  /\ Current.admin = user.admin /\ Current.totp = TotpOn
  BY DEF Current

LEMMA SameCurrent == ASSUME UNCHANGED <<user, methods>> PROVE Current' = Current
  BY DEF Current, TotpOn

LEMMA RowKeeps ==
  ASSUME UNCHANGED methods, NEW written,
         "name" \notin written => user'.name = user.name,
         "verified" \notin written => user'.verified = user.verified,
         "password" \notin written => user'.password = user.password,
         "links" \notin written => user'.links = user.links,
         "admin" \notin written => user'.admin = user.admin
  PROVE  \A f \in Field \ written : Current'[f] = Current[f]
<1>1. TotpOn' = TotpOn
  BY DEF TotpOn
<1> DEFINE C == Current
           D == Current'
<1>2. /\ C.name = user.name /\ C.verified = user.verified
      /\ C.password = user.password /\ C.links = user.links
      /\ C.admin = user.admin /\ C.totp = TotpOn
  BY DEF Current
<1>3. /\ D.name = user'.name /\ D.verified = user'.verified
      /\ D.password = user'.password /\ D.links = user'.links
      /\ D.admin = user'.admin /\ D.totp = TotpOn'
  BY DEF Current
<1> HIDE DEF C, D
<1>4. \A f \in Field \ written : D[f] = C[f]
  BY <1>1, <1>2, <1>3 DEF Field
<1> QED BY <1>4 DEF C, D

LEMMA RowFields ==
  ASSUME UNCHANGED methods, user \in AnyRow, NEW field \in Field,
         \/ field = "name" /\ \E n : user' = [user EXCEPT !.name = n]
         \/ field = "verified" /\ \E b : user' = [user EXCEPT !.verified = b]
         \/ field = "password" /\ \E b : user' = [user EXCEPT !.password = b]
         \/ field = "links" /\ \E s : user' = [user EXCEPT !.links = s]
         \/ field = "admin" /\ \E b : user' = [user EXCEPT !.admin = b]
  PROVE  \A f \in Field \ {field} : Current'[f] = Current[f]
<1>1. /\ field # "name" => user'.name = user.name
      /\ field # "verified" => user'.verified = user.verified
      /\ field # "password" => user'.password = user.password
      /\ field # "links" => user'.links = user.links
      /\ field # "admin" => user'.admin = user.admin
  BY DEF AnyRow
<1> QED BY <1>1, RowKeeps

\* The writers that announce what they wrote.
LEMMA AnnouncersFollow ==
  ASSUME FollowInv, NEW r \in Request,
         UpdateProfile(r) \/ MakeAdmin(r) \/ DeleteLink(r) \/ WriteRedeemed(r)
  PROVE  CachedProfileFollows'
<1>1. /\ user \in AnyRow /\ req \in [Request -> Phase] /\ req[r] \in Phase
      /\ CachedProfileFollows
  BY DEF FollowInv, Shape
<1>2. /\ cache' = cache /\ silent' = silent /\ methods' = methods
      /\ \A s \in Request \ {r} : req'[s] = req[s]
  BY <1>1 DEF UpdateProfile, MakeAdmin, DeleteLink, WriteRedeemed, Starts, Becomes
<1>3. Pending(r) = {}
  BY PendingOf, PhasesMade DEF UpdateProfile, MakeAdmin, DeleteLink, WriteRedeemed, Starts
<1>4. ASSUME NEW f \in Field,
             \A g \in Field \ {f} : Current'[g] = Current[g], Pending(r)' = {f}
      PROVE  CachedProfileFollows'
  BY <1>1, <1>2, <1>3, <1>4, OwedGrows, FrameFollows
<1>5. CASE UpdateProfile(r)
  <2>1. req'[r].op = "announce" /\ req'[r].fields = {"name"}
    BY <1>1, <1>5 DEF UpdateProfile, Starts, Becomes
  <2>2. \E n : user' = [user EXCEPT !.name = n]
    BY <1>5 DEF UpdateProfile
  <2>3. "name" \in Field
    BY DEF Field
  <2>4. \A g \in Field \ {"name"} : Current'[g] = Current[g]
    BY <1>1, <1>2, <2>2, <2>3, RowFields
  <2> QED BY <1>4, <2>1, <2>3, <2>4, PendingNext
<1>6. CASE MakeAdmin(r)
  <2>1. req'[r].op = "announce" /\ req'[r].fields = {"admin"}
    BY <1>1, <1>6 DEF MakeAdmin, Starts, Becomes
  <2>2. \E b : user' = [user EXCEPT !.admin = b]
    BY <1>6 DEF MakeAdmin
  <2>3. "admin" \in Field
    BY DEF Field
  <2>4. \A g \in Field \ {"admin"} : Current'[g] = Current[g]
    BY <1>1, <1>2, <2>2, <2>3, RowFields
  <2> QED BY <1>4, <2>1, <2>3, <2>4, PendingNext
<1>7. CASE DeleteLink(r)
  <2>1. req'[r].op = "announce" /\ req'[r].fields = {"links"}
    BY <1>1, <1>7 DEF DeleteLink, Becomes
  <2>2. \E s : user' = [user EXCEPT !.links = s]
    BY <1>7 DEF DeleteLink
  <2>3. "links" \in Field
    BY DEF Field
  <2>4. \A g \in Field \ {"links"} : Current'[g] = Current[g]
    BY <1>1, <1>2, <2>2, <2>3, RowFields
  <2> QED BY <1>4, <2>1, <2>3, <2>4, PendingNext
<1>8. CASE WriteRedeemed(r)
  <2>1. req[r] \in Redeem
    BY <1>1, <1>8, Phases DEF WriteRedeemed
  <2>2. req'[r].op = "spend" /\ req'[r].kind = req[r].kind
    BY <1>1, <1>8, <2>1 DEF WriteRedeemed, Becomes, Redeem
  <2>3. "verified" \in Field /\ "password" \in Field
    BY DEF Field
  <2>4. Pending(r)' = Effect(req[r].kind)
    BY <2>2, PendingNext
  <2>5. CASE req[r].kind = "verify"
    <3>1. \E b : user' = [user EXCEPT !.verified = b]
      BY <1>8, <2>5 DEF WriteRedeemed
    <3>2. \A g \in Field \ {"verified"} : Current'[g] = Current[g]
      BY <1>1, <1>2, <2>3, <3>1, RowFields
    <3> QED BY <1>4, <2>3, <2>4, <2>5, <3>2 DEF Effect
  <2>6. CASE req[r].kind # "verify"
    <3>1. \E b : user' = [user EXCEPT !.password = b]
      BY <1>8, <2>6 DEF WriteRedeemed
    <3>2. \A g \in Field \ {"password"} : Current'[g] = Current[g]
      BY <1>1, <1>2, <2>3, <3>1, RowFields
    <3> QED BY <1>4, <2>3, <2>4, <2>6, <3>2 DEF Effect
  <2> QED BY <2>5, <2>6
<1> QED BY <1>5, <1>6, <1>7, <1>8

\* The writers that announce nothing.
LEMMA SilentFollow ==
  ASSUME FollowInv, NEW r \in Request,
         \/ CompleteProfile(r) \/ UpdatePassword(r) \/ ElevateAdmin(r)
         \/ SocialUpdate(r) \/ UpsertLink(r) \/ StoreSecret(r) \/ EnableTotp(r)
         \/ \E p \in Provider : LinkProvider(r, p)
  PROVE  CachedProfileFollows'
<1>1. /\ user \in AnyRow /\ req \in [Request -> Phase] /\ req[r] \in Phase
      /\ CachedProfileFollows
  BY DEF FollowInv, Shape
<1>2. /\ cache' = cache /\ silent \subseteq silent'
      /\ \A s \in Request \ {r} : req'[s] = req[s]
  BY <1>1 DEF CompleteProfile, UpdatePassword, ElevateAdmin, SocialUpdate, UpsertLink, StoreSecret,
              EnableTotp, LinkProvider, Starts, Becomes
<1>3. Pending(r) = {}
  BY PendingOf, PhasesMade
  DEF CompleteProfile, UpdatePassword, ElevateAdmin, SocialUpdate, UpsertLink, StoreSecret,
      EnableTotp, LinkProvider, Starts
<1>4. Owed \subseteq Owed' /\ silent' \subseteq Owed'
  BY <1>2, <1>3, OwedGrows
<1>5. ASSUME NEW f \in Field, f \in silent',
             \A g \in Field \ {f} : Current'[g] = Current[g]
      PROVE  CachedProfileFollows'
  BY <1>1, <1>2, <1>4, <1>5, FrameFollows
<1>6. ASSUME Current' = Current PROVE CachedProfileFollows'
  BY <1>1, <1>2, <1>4, <1>6, FrameFollows
<1>7. CASE CompleteProfile(r)
  <2>1. \E n : user' = [user EXCEPT !.name = n]
    BY <1>7 DEF CompleteProfile
  <2>2. methods' = methods /\ "name" \in silent' /\ "name" \in Field
    BY <1>7 DEF CompleteProfile, Field
  <2> QED BY <1>1, <1>5, <2>1, <2>2, RowFields
<1>8. CASE UpdatePassword(r)
  <2>1. \E b : user' = [user EXCEPT !.password = b]
    BY <1>8 DEF UpdatePassword
  <2>2. methods' = methods /\ "password" \in silent' /\ "password" \in Field
    BY <1>8 DEF UpdatePassword, Field
  <2> QED BY <1>1, <1>5, <2>1, <2>2, RowFields
<1>9. CASE ElevateAdmin(r)
  <2>1. \E b : user' = [user EXCEPT !.admin = b]
    BY <1>9 DEF ElevateAdmin
  <2>2. methods' = methods /\ "admin" \in silent' /\ "admin" \in Field
    BY <1>9 DEF ElevateAdmin, Field
  <2> QED BY <1>1, <1>5, <2>1, <2>2, RowFields
<1>10. ASSUME NEW links, methods' = methods, user' = [user EXCEPT !.links = links],
              links # user.links => "links" \in silent'
       PROVE  CachedProfileFollows'
  <2>1. CASE links = user.links
    <3>1. user' = user
      BY <1>1, <1>10, <2>1 DEF AnyRow
    <3> QED BY <1>6, <1>10, <3>1, SameCurrent
  <2>2. CASE links # user.links
    <3>1. \E s : user' = [user EXCEPT !.links = s]
      BY <1>10
    <3>2. "links" \in silent' /\ "links" \in Field
      BY <1>10, <2>2 DEF Field
    <3> QED BY <1>1, <1>5, <1>10, <3>1, <3>2, RowFields
  <2> QED BY <2>1, <2>2
<1>11. CASE UpsertLink(r)
  <2>1. PICK links \in {user.links, user.links \cup {req[r].provider}} :
          /\ user' = [user EXCEPT !.links = links]
          /\ silent' = IF links = user.links THEN silent ELSE silent \cup {"links"}
    BY <1>11 DEF UpsertLink
  <2>2. methods' = methods
    BY <1>11 DEF UpsertLink
  <2> QED BY <1>10, <2>1, <2>2
<1>12. ASSUME NEW p \in Provider, LinkProvider(r, p) PROVE CachedProfileFollows'
  <2>1. /\ methods' = methods /\ user' = [user EXCEPT !.links = user.links \cup {p}]
        /\ p \notin user.links => "links" \in silent'
    BY <1>12 DEF LinkProvider
  <2>2. user.links \cup {p} # user.links => p \notin user.links
    OBVIOUS
  <2> QED BY <1>10, <2>1, <2>2
<1>13. CASE SocialUpdate(r)
  <2> DEFINE missing == req[r].missing
  <2>1. /\ user' = [user EXCEPT !.name = IF "name" \in missing THEN calls ELSE user.name,
                                !.verified = user.verified \/ "verified" \in missing]
        /\ silent' = silent \cup missing /\ methods' = methods
    BY <1>13 DEF SocialUpdate
  <2>2. /\ "name" \notin missing => user'.name = user.name
        /\ "verified" \notin missing => user'.verified = user.verified
        /\ user'.password = user.password /\ user'.links = user.links
        /\ user'.admin = user.admin
    BY <1>1, <2>1 DEF AnyRow
  <2>3. \A f \in Field \ missing : Current'[f] = Current[f]
    BY <2>1, <2>2, RowKeeps
  <2>4. missing \subseteq Owed'
    BY <1>4, <2>1
  <2> QED BY <1>1, <1>2, <1>4, <2>3, <2>4, FrameFollows
<1>14. ASSUME user' = user, TotpOn' # TotpOn => "totp" \in silent'
       PROVE  CachedProfileFollows'
  <2> DEFINE C == Current
             D == Current'
             t == TotpOn
             u == TotpOn'
  <2>1. /\ C.name = user.name /\ C.verified = user.verified
        /\ C.password = user.password /\ C.links = user.links
        /\ C.admin = user.admin /\ C.totp = t
    BY DEF Current
  <2>2. /\ D.name = user.name /\ D.verified = user.verified
        /\ D.password = user.password /\ D.links = user.links
        /\ D.admin = user.admin /\ D.totp = u
    BY <1>14 DEF Current
  <2>3. C = [name |-> user.name, verified |-> user.verified, password |-> user.password,
             links |-> user.links, admin |-> user.admin, totp |-> t]
        /\ D = [name |-> user.name, verified |-> user.verified, password |-> user.password,
             links |-> user.links, admin |-> user.admin, totp |-> u]
    BY <1>14 DEF Current
  <2>4. "totp" \in Field
    BY DEF Field
  <2>5. CASE u = t
    BY <1>6, <2>3, <2>5
  <2>6. CASE u # t
    <3> HIDE DEF C, D, t, u
    <3>1. \A g \in Field \ {"totp"} : D[g] = C[g]
      BY <2>1, <2>2 DEF Field
    <3> QED BY <1>5, <1>14, <2>4, <2>6, <3>1 DEF C, D, t, u
  <2> QED BY <2>5, <2>6
<1>15. CASE StoreSecret(r)
  <2>1. user' = user /\ (TotpOn # (\E m \in DOMAIN methods' : methods'[m].enabled) => "totp" \in silent')
    BY <1>15 DEF StoreSecret
  <2>2. TotpOn' = (\E m \in DOMAIN methods' : methods'[m].enabled)
    BY DEF TotpOn
  <2> QED BY <1>14, <2>1, <2>2
<1>16. CASE EnableTotp(r)
  BY <1>14, <1>16 DEF EnableTotp
<1> QED BY <1>7, <1>8, <1>9, <1>11, <1>12, <1>13, <1>15, <1>16

\* The steps that write no field, and the ones that clear or fill the cache.
LEMMA OtherFollow ==
  ASSUME FollowInv, NEW r \in Request,
         \/ RefreshProfile(r) \/ MeCached(r) \/ MeReads(r) \/ MeFills(r) \/ DropCached(r)
         \/ LoginCaches(r) \/ SpendMail(r) \/ EnrolTotp(r) \/ Fails(r)
         \/ \E m \in Mail : RedeemMail(r, m) \/ \E kind \in Kind : SendMail(r, m, kind)
         \/ \E m \in Method : VerifyTotp(r, m)
         \/ \E p \in Provider : UnlinkProvider(r, p) \/ \E known \in SUBSET {"name", "verified"} : SocialSignIn(r, p, known)
  PROVE  CachedProfileFollows'
<1>1. /\ req \in [Request -> Phase] /\ req[r] \in Phase /\ CachedProfileFollows
  BY DEF FollowInv, Shape
<1>2. Current' = Current
  <2>1. UNCHANGED <<user, methods>>
    BY DEF RefreshProfile, MeCached, MeReads, MeFills, DropCached, LoginCaches, SpendMail, EnrolTotp,
           Fails, RedeemMail, SendMail, VerifyTotp, UnlinkProvider, SocialSignIn
  <2> QED BY <2>1, SameCurrent
<1>3. ASSUME cache' = cache, silent' = silent, Pending(r) \subseteq Pending(r)',
             \A s \in Request \ {r} : req'[s] = req[s]
      PROVE  CachedProfileFollows'
  <2>1. Owed \subseteq Owed'
    BY <1>3, OwedGrows
  <2> QED BY <1>1, <1>2, <1>3, <2>1, FrameFollows
<1>4. CASE DropCached(r) \/ LoginCaches(r)
  BY <1>4 DEF DropCached, LoginCaches, CachedProfileFollows
<1>5. CASE MeFills(r)
  <2>1. cache'.profile = req[r].profile /\ silent' = Difference(req[r].profile, Current)
    BY <1>5 DEF MeFills
  <2>2. Difference(cache'.profile, Current') = silent'
    BY <1>2, <2>1 DEF Difference
  <2>3. CachedProfileFollows' =
          (cache'.kind = "full" =>
             Difference(cache'.profile, Current') \subseteq
               silent' \cup UNION {Pending(s)' : s \in Request})
    BY DEF CachedProfileFollows, Difference
  <2> QED BY <2>2, <2>3
<1>6. CASE SpendMail(r)
  <2>1. /\ req[r].op = "spend" /\ req'[r].op = "announce"
        /\ req'[r].fields = Effect(req[r].kind)
        /\ \A s \in Request \ {r} : req'[s] = req[s]
        /\ cache' = cache /\ silent' = silent
    BY <1>1, <1>6 DEF SpendMail, Becomes, history
  <2> QED BY <1>3, <2>1, PendingOf, PendingNext
<1>7. CASE RefreshProfile(r) \/ MeCached(r) \/ MeReads(r) \/ EnrolTotp(r)
             \/ (\E m \in Mail : RedeemMail(r, m)) \/ (\E m \in Method : VerifyTotp(r, m))
             \/ \E p \in Provider : UnlinkProvider(r, p)
  <2>1. /\ req[r].op \notin {"announce", "spend"} /\ cache' = cache /\ silent' = silent
        /\ \A s \in Request \ {r} : req'[s] = req[s]
    BY <1>1, <1>7, PhasesMade
    DEF RefreshProfile, MeCached, MeReads, EnrolTotp, RedeemMail, VerifyTotp,
        UnlinkProvider, Starts, Becomes, history
  <2> QED BY <1>3, <2>1, PendingOf
<1>8. CASE \E m \in Mail, kind \in Kind : SendMail(r, m, kind)
  <2>1. UNCHANGED <<cache, silent, req>>
    BY <1>8 DEF SendMail
  <2>2. Pending(r)' = Pending(r)
    BY <2>1 DEF Pending
  <2> QED BY <1>3, <2>1, <2>2
<1>9. CASE \E p \in Provider, known \in SUBSET {"name", "verified"} : SocialSignIn(r, p, known)
  <2>1. PICK q : Starts(r, q)
    BY <1>9, SocialStarts
  <2>2. /\ req[r].op \notin {"announce", "spend"} /\ cache' = cache /\ silent' = silent
        /\ \A s \in Request \ {r} : req'[s] = req[s]
    BY <1>1, <1>9, <2>1, PhasesMade DEF SocialSignIn, Starts, Becomes, history
  <2> QED BY <1>3, <2>2, PendingOf
<1>10. CASE Fails(r)
  <2>1. /\ cache' = cache /\ silent' = silent \cup Pending(r)
        /\ \A s \in Request \ {r} : req'[s] = req[s]
    BY <1>1, <1>10 DEF Fails, Becomes
  <2>2. \A s \in Request \ {r} : Pending(s)' = Pending(s)
    BY <2>1 DEF Pending
  <2>3. Owed \subseteq Owed'
    BY <2>1, <2>2 DEF Owed
  <2> QED BY <1>1, <1>2, <2>1, <2>3, FrameFollows
<1> QED BY <1>4, <1>5, <1>6, <1>7, <1>8, <1>9, <1>10

\* What is cached is a profile.
LEMMA CachedTyped ==
  ASSUME FollowInv, [Next]_vars
  PROVE  cache'.kind = "full" => cache'.profile \in AnyProfile
<1>1. /\ req \in [Request -> Phase] /\ (cache.kind = "full" => cache.profile \in AnyProfile)
  BY DEF FollowInv, Shape
<1>2. CASE \E r \in Request : MeFills(r)
  <2>1. PICK r \in Request : MeFills(r)
    BY <1>2
  <2>2. req[r] \in Filling
    BY <1>1, <2>1, Phases DEF MeFills
  <2> QED BY <2>1, <2>2 DEF MeFills, Filling
<1>3. CASE CacheExpires \/ \E r \in Request : DropCached(r) \/ LoginCaches(r)
  BY <1>3 DEF CacheExpires, DropCached, LoginCaches
<1>4. ASSUME ~\E r \in Request : MeFills(r),
             ~(CacheExpires \/ \E r \in Request : DropCached(r) \/ LoginCaches(r))
      PROVE  cache' = cache
  BY <1>4 DEF Next, vars, history, Crash, MailExpires,
       RefreshProfile, MeCached, MeReads, UpdateProfile, CompleteProfile, UpdatePassword, MakeAdmin,
       ElevateAdmin, WriteRedeemed, SpendMail, EnrolTotp, StoreSecret, EnableTotp, DeleteLink,
       Fails, SocialUpdate, UpsertLink, RedeemMail, SendMail, VerifyTotp, LinkProvider,
       UnlinkProvider, SocialSignIn
<1> QED BY <1>1, <1>2, <1>3, <1>4

LEMMA NextFollow == ASSUME FollowInv, [Next]_vars PROVE FollowInv'
<1>1. Shape' /\ CachedProfileFollows
  BY NextShape DEF FollowInv
<1>2. CachedProfileFollows'
  <2>1. CASE Crash
    <3>1. UNCHANGED <<user, methods, cache>> /\ Owed \subseteq silent'
      BY <2>1 DEF Crash, Owed
    <3>2. Owed \subseteq Owed'
      BY <3>1 DEF Owed
    <3> QED BY <1>1, <3>1, <3>2, SameCurrent, FrameFollows
  <2>2. CASE CacheExpires
    BY <2>2 DEF CacheExpires, CachedProfileFollows
  <2>3. CASE UNCHANGED vars \/ \E m \in Mail : MailExpires(m)
    <3>1. UNCHANGED <<user, methods, cache, silent, req>>
      BY <2>3 DEF MailExpires, vars, history
    <3>2. Owed' = Owed
      BY <3>1 DEF Owed, Pending
    <3> QED BY <1>1, <3>1, <3>2, SameCurrent, FrameFollows
  <2> QED BY <2>1, <2>2, <2>3, AnnouncersFollow, SilentFollow, OtherFollow DEF Next
<1> QED BY <1>1, <1>2, CachedTyped DEF FollowInv

\* A cached profile differs from the row only in what a writer who does not
\* delete it wrote since it was read, in what a failure or a restart kept a
\* writer from announcing, or while the deletion is under way.
THEOREM CacheFollows == Spec => []CachedProfileFollows
<1>1. Init => FollowInv
  BY InitFollow
<1>2. FollowInv /\ [Next]_vars => FollowInv'
  BY NextFollow
<1>3. FollowInv => CachedProfileFollows
  BY DEF FollowInv
<1> QED BY <1>1, <1>2, <1>3, PTL DEF Spec


-----------------------------------------------------------------------------
(* Tokens sent by e-mail.  A token that is not excused has one holder at    *)
(* most; it is without effect until that holder writes the row, and gone    *)
(* from Redis when the holder is through with it.                           *)

About == {"redeem", "spend"}

OnceInv ==
  /\ Shape /\ MailTokensOnce
  /\ \A m \in Mail : m \notin drawn => used[m] = 0
  /\ \A r \in Request : req[r].op \in About => req[r].mail \in drawn
  /\ \A m \in Mail \ excused :
       /\ \A p, q \in Holders(m) : p = q
       /\ \A p \in Holders(m) : req[p].op = "redeem" => used[m] = 0
       /\ m \in DOMAIN mail /\ used[m] > 0 => \E p \in Holders(m) : req[p].op = "spend"

LEMMA InitOnce == ASSUME Init PROVE OnceInv
<1>1. Shape
  BY InitShape
<1>2. \A m \in Mail : used[m] = 0
  BY DEF Init
<1>3. \A r \in Request : req[r].op = "idle"
  BY PhasesMade DEF Init
<1> QED BY <1>1, <1>2, <1>3 DEF OnceInv, MailTokensOnce, Holders, About

\* A step of requests that hold no token, before or after; tokens may go.
LEMMA FrameOnce ==
  ASSUME OnceInv, Shape', UNCHANGED <<used, excused>>, drawn \subseteq drawn',
         \A m \in DOMAIN mail' : m \in DOMAIN mail \/ m \notin drawn,
         \A s \in Request : req[s].op \in About \/ req'[s].op \in About => req'[s] = req[s]
  PROVE  OnceInv'
<1>1. MailTokensOnce'
  BY DEF OnceInv, MailTokensOnce
<1>2. \A m : Holders(m)' = Holders(m)
  BY DEF Holders, About
<1>3. \A m : \A p \in Holders(m) : p \in Request /\ req[p].op \in About /\ req'[p] = req[p]
  BY DEF Holders, About
<1>4. DOMAIN mail' \subseteq Mail
  BY DEF Shape
<1>5. ASSUME NEW m \in Mail \ excused
      PROVE  /\ \A p, q \in Holders(m)' : p = q
             /\ \A p \in Holders(m)' : req'[p].op = "redeem" => used'[m] = 0
             /\ m \in DOMAIN mail' /\ used'[m] > 0 => \E p \in Holders(m)' : req'[p].op = "spend"
  <2>1. /\ \A p, q \in Holders(m) : p = q
        /\ \A p \in Holders(m) : req[p].op = "redeem" => used[m] = 0
        /\ m \in DOMAIN mail /\ used[m] > 0 => \E p \in Holders(m) : req[p].op = "spend"
        /\ m \notin drawn => used[m] = 0
    BY DEF OnceInv
  <2> QED BY <1>2, <1>3, <2>1
<1>6. \A m \in Mail : m \notin drawn' => used'[m] = 0
  BY DEF OnceInv
<1>7. \A r \in Request : req'[r].op \in About => req'[r].mail \in drawn'
  BY DEF OnceInv
<1> QED BY <1>1, <1>5, <1>6, <1>7 DEF OnceInv

LEMMA RedeemOnce ==
  ASSUME OnceInv, NEW r \in Request, NEW m \in Mail, RedeemMail(r, m)
  PROVE  OnceInv'
<1>1. Shape /\ Shape'
  BY MailShape DEF OnceInv
<1>2. /\ req[r] = Idle /\ m \in DOMAIN mail /\ m \in drawn
      /\ req'[r].op = "redeem" /\ req'[r].mail = m
      /\ \A s \in Request \ {r} : req'[s] = req[s]
      /\ excused' = IF Holders(m) # {} THEN excused \cup {m} ELSE excused
      /\ UNCHANGED <<mail, drawn, used>>
  BY <1>1 DEF RedeemMail, Starts, Becomes, Shape
<1>3. req[r].op \notin About
  BY <1>2, PhasesMade DEF About
<1>4. Holders(m)' = Holders(m) \cup {r} /\ \A x : x # m => Holders(x)' = Holders(x)
  BY <1>2, <1>3 DEF Holders, About
<1>5. MailTokensOnce'
  BY <1>2 DEF OnceInv, MailTokensOnce
<1>6. \A s \in Request : req'[s].op \in About => req'[s].mail \in drawn'
  BY <1>2 DEF OnceInv
<1>7. ASSUME NEW x \in Mail \ excused'
      PROVE  /\ \A p, q \in Holders(x)' : p = q
             /\ \A p \in Holders(x)' : req'[p].op = "redeem" => used'[x] = 0
             /\ x \in DOMAIN mail' /\ used'[x] > 0 => \E p \in Holders(x)' : req'[p].op = "spend"
  <2>1. /\ x \notin excused /\ used[x] \in Nat
        /\ \A p, q \in Holders(x) : p = q
        /\ \A p \in Holders(x) : req[p].op = "redeem" => used[x] = 0
        /\ x \in DOMAIN mail /\ used[x] > 0 => \E p \in Holders(x) : req[p].op = "spend"
        /\ \A p \in Holders(x) : p \in Request
    BY <1>1, <1>2, <1>7 DEF OnceInv, Holders, Shape
  <2>2. CASE x = m
    <3>1. Holders(m) = {}
      BY <1>2, <1>7, <2>2
    <3>2. used[m] = 0
      BY <1>2, <2>1, <2>2, <3>1
    <3> QED BY <1>2, <1>4, <2>2, <3>1, <3>2
  <2>3. CASE x # m
    <3>1. \A p \in Holders(x) : p # r
      BY <1>3 DEF Holders, About
    <3> QED BY <1>2, <1>4, <2>1, <2>3, <3>1
  <2> QED BY <2>2, <2>3
<1> QED BY <1>1, <1>2, <1>5, <1>6, <1>7 DEF OnceInv

LEMMA WriteOnce ==
  ASSUME OnceInv, NEW r \in Request, WriteRedeemed(r)
  PROVE  OnceInv'
<1>1. Shape /\ Shape'
  BY MailShape DEF OnceInv
<1>2. PICK m : m = req[r].mail
  OBVIOUS
<1>3. req[r].op = "redeem" /\ req[r] \in Redeem /\ m \in Mail
  BY <1>1, <1>2, Phases DEF WriteRedeemed, Shape, Redeem
<1>4. /\ req'[r].op = "spend" /\ req'[r].mail = m
      /\ \A s \in Request \ {r} : req'[s] = req[s]
      /\ used' = [used EXCEPT ![m] = used[m] + 1]
      /\ UNCHANGED <<mail, drawn, excused>>
  BY <1>1, <1>2, <1>3 DEF WriteRedeemed, Becomes, Shape, Redeem
<1>5. (\A x : Holders(x)' = Holders(x)) /\ r \in Holders(m)
  BY <1>2, <1>3, <1>4 DEF Holders, About
<1>6. /\ m \in drawn /\ used \in [Mail -> Nat] /\ used'[m] = used[m] + 1
      /\ \A x \in Mail \ {m} : used'[x] = used[x]
  BY <1>1, <1>2, <1>3, <1>4 DEF OnceInv, Shape, About
<1>7. m \notin excused => used[m] = 0
  BY <1>3, <1>5 DEF OnceInv
<1>8. MailTokensOnce'
  BY <1>3, <1>4, <1>6, <1>7 DEF OnceInv, MailTokensOnce
<1>9. /\ \A x \in Mail : x \notin drawn' => used'[x] = 0
      /\ \A s \in Request : req'[s].op \in About => req'[s].mail \in drawn'
  BY <1>3, <1>4, <1>6 DEF OnceInv
<1>10. ASSUME NEW x \in Mail \ excused'
       PROVE  /\ \A p, q \in Holders(x)' : p = q
              /\ \A p \in Holders(x)' : req'[p].op = "redeem" => used'[x] = 0
              /\ x \in DOMAIN mail' /\ used'[x] > 0 => \E p \in Holders(x)' : req'[p].op = "spend"
  <2>1. /\ x \notin excused /\ used[x] \in Nat
        /\ \A p, q \in Holders(x) : p = q
        /\ \A p \in Holders(x) : req[p].op = "redeem" => used[x] = 0
        /\ x \in DOMAIN mail /\ used[x] > 0 => \E p \in Holders(x) : req[p].op = "spend"
        /\ \A p \in Holders(x) : p \in Request /\ req[p].mail = x
    BY <1>1, <1>4, <1>10 DEF OnceInv, Holders, Shape
  <2>2. CASE x = m
    BY <1>4, <1>5, <2>1, <2>2
  <2>3. CASE x # m
    <3>1. \A p \in Holders(x) : p # r
      BY <1>2, <2>1, <2>3
    <3> QED BY <1>4, <1>5, <1>6, <2>1, <2>3, <3>1
  <2> QED BY <2>2, <2>3
<1> QED BY <1>1, <1>8, <1>9, <1>10 DEF OnceInv

LEMMA SpendOnce ==
  ASSUME OnceInv, NEW r \in Request, SpendMail(r)
  PROVE  OnceInv'
<1>1. Shape /\ Shape'
  BY MailShape DEF OnceInv
<1>2. PICK m : m = req[r].mail
  OBVIOUS
<1>3. /\ req[r].op = "spend" /\ req'[r].op = "announce"
      /\ \A s \in Request \ {r} : req'[s] = req[s]
      /\ mail' = Without(mail, m)
      /\ UNCHANGED <<used, drawn, excused>>
  BY <1>1, <1>2 DEF SpendMail, Becomes, Shape, history
<1>4. DOMAIN mail' = DOMAIN mail \ {m}
  BY <1>3 DEF Without
<1>5. \A x : Holders(x)' = Holders(x) \ {r} /\ (x # m => r \notin Holders(x))
  BY <1>2, <1>3 DEF Holders
<1>6. /\ MailTokensOnce'
      /\ \A x \in Mail : x \notin drawn' => used'[x] = 0
      /\ \A s \in Request : req'[s].op \in About => req'[s].mail \in drawn'
  BY <1>3 DEF OnceInv, MailTokensOnce, About
<1>7. ASSUME NEW x \in Mail \ excused'
      PROVE  /\ \A p, q \in Holders(x)' : p = q
             /\ \A p \in Holders(x)' : req'[p].op = "redeem" => used'[x] = 0
             /\ x \in DOMAIN mail' /\ used'[x] > 0 => \E p \in Holders(x)' : req'[p].op = "spend"
  <2>1. /\ \A p, q \in Holders(x) : p = q
        /\ \A p \in Holders(x) : req[p].op = "redeem" => used[x] = 0
        /\ x \in DOMAIN mail /\ used[x] > 0 => \E p \in Holders(x) : req[p].op = "spend"
        /\ \A p \in Holders(x) : p \in Request
    BY <1>3, <1>7 DEF OnceInv, Holders
  <2> QED BY <1>3, <1>4, <1>5, <2>1
<1> QED BY <1>1, <1>6, <1>7 DEF OnceInv

LEMMA CrashOnce == ASSUME OnceInv, Crash PROVE OnceInv'
<1>1. Shape'
  BY NextShape DEF OnceInv, Next
<1>2. /\ \A s \in Request : req'[s].op = "idle"
      /\ excused' = excused \cup {req[s].mail : s \in {q \in Request : req[q].op = "spend"}}
      /\ UNCHANGED <<mail, drawn, used>>
  BY PhasesMade DEF Crash
<1>3. \A x : Holders(x)' = {}
  BY <1>2 DEF Holders
<1>4. ASSUME NEW x \in Mail \ excused', x \in DOMAIN mail', used'[x] > 0
      PROVE  FALSE
  <2>1. PICK p \in Holders(x) : req[p].op = "spend"
    BY <1>2, <1>4 DEF OnceInv
  <2> QED BY <1>2, <1>4, <2>1 DEF Holders
<1>5. /\ MailTokensOnce'
      /\ \A x \in Mail : x \notin drawn' => used'[x] = 0
      /\ \A s \in Request : req'[s].op \notin About
  BY <1>2 DEF OnceInv, MailTokensOnce, About
<1> QED BY <1>1, <1>3, <1>4, <1>5 DEF OnceInv

\* A token is left in Redis without its holder only if it is excused, or had no
\* effect.
LEMMA FailOnce ==
  ASSUME OnceInv, NEW r \in Request, Fails(r)
  PROVE  OnceInv'
<1>1. Shape /\ Shape'
  BY RowShape DEF OnceInv
<1>2. /\ req'[r].op = "idle"
      /\ \A s \in Request \ {r} : req'[s] = req[s]
      /\ excused \subseteq excused'
      /\ req[r].op = "spend" => req[r].mail \in excused'
      /\ UNCHANGED <<mail, drawn, used>>
  BY <1>1, PhasesMade DEF Fails, Becomes, Shape
<1>3. \A x : Holders(x)' = Holders(x) \ {r}
  BY <1>2 DEF Holders
<1>4. /\ MailTokensOnce'
      /\ \A x \in Mail : x \notin drawn' => used'[x] = 0
      /\ \A s \in Request : req'[s].op \in About => req'[s].mail \in drawn'
  BY <1>2 DEF OnceInv, MailTokensOnce, About
<1>5. ASSUME NEW x \in Mail \ excused'
      PROVE  /\ \A p, q \in Holders(x)' : p = q
             /\ \A p \in Holders(x)' : req'[p].op = "redeem" => used'[x] = 0
             /\ x \in DOMAIN mail' /\ used'[x] > 0 => \E p \in Holders(x)' : req'[p].op = "spend"
  <2>1. /\ x \notin excused
        /\ \A p, q \in Holders(x) : p = q
        /\ \A p \in Holders(x) : req[p].op = "redeem" => used[x] = 0
        /\ x \in DOMAIN mail /\ used[x] > 0 => \E p \in Holders(x) : req[p].op = "spend"
        /\ \A p \in Holders(x) : p \in Request /\ req[p].mail = x
    BY <1>2, <1>5 DEF OnceInv, Holders
  <2>2. \A p \in Holders(x) : req[p].op = "spend" => p # r
    BY <1>2, <1>5, <2>1
  <2> QED BY <1>2, <1>3, <2>1, <2>2
<1> QED BY <1>1, <1>4, <1>5 DEF OnceInv

\* The steps of a request that holds no token.
NoMailStep(r) ==
  \/ RefreshProfile(r) \/ MeCached(r) \/ MeReads(r) \/ MeFills(r) \/ DropCached(r)
  \/ LoginCaches(r) \/ UpdateProfile(r) \/ CompleteProfile(r) \/ UpdatePassword(r)
  \/ MakeAdmin(r) \/ ElevateAdmin(r)
  \/ EnrolTotp(r) \/ StoreSecret(r) \/ EnableTotp(r)
  \/ DeleteLink(r) \/ SocialUpdate(r) \/ UpsertLink(r)
  \/ \E m \in Method : VerifyTotp(r, m)
  \/ \E p \in Provider : LinkProvider(r, p) \/ UnlinkProvider(r, p)
                          \/ \E known \in SUBSET {"name", "verified"} : SocialSignIn(r, p, known)

LEMMA NoMailMoves ==
  ASSUME Shape, NEW r \in Request, NoMailStep(r)
  PROVE  /\ UNCHANGED <<mail, drawn, used, excused>>
         /\ \A s \in Request : req[s].op \in About \/ req'[s].op \in About => req'[s] = req[s]
<1>1. UNCHANGED <<mail, drawn, used, excused>>
  BY DEF NoMailStep, RefreshProfile, MeCached, MeReads, MeFills, DropCached, LoginCaches,
         UpdateProfile, CompleteProfile, UpdatePassword, MakeAdmin, ElevateAdmin, EnrolTotp,
         StoreSecret, EnableTotp, DeleteLink, SocialUpdate, UpsertLink, VerifyTotp, LinkProvider,
         UnlinkProvider, SocialSignIn, history
<1> DEFINE Goal ==
      \A s \in Request : req[s].op \in About \/ req'[s].op \in About => req'[s] = req[s]
<1>2. ASSUME NEW q, Becomes(r, q), req[r].op \notin About, q.op \notin About
      PROVE  Goal
  BY <1>2 DEF Becomes, Shape
<1>3. Idle.op \notin About /\ Asking.op \notin About
  BY PhasesMade DEF Asking, About
<1> SUFFICES Goal
  BY <1>1
<1> HIDE DEF Goal
<1>4. CASE RefreshProfile(r) \/ (\E p \in Provider : LinkProvider(r, p))
  BY <1>2, <1>3, <1>4 DEF RefreshProfile, LinkProvider, Starts
<1>5. CASE UpdateProfile(r) \/ MakeAdmin(r) \/ EnrolTotp(r)
             \/ (\E m \in Method : VerifyTotp(r, m))
             \/ \E p \in Provider : UnlinkProvider(r, p)
  <2>1. req[r].op \notin About
    BY <1>3, <1>5 DEF UpdateProfile, MakeAdmin, EnrolTotp, VerifyTotp, UnlinkProvider, Starts
  <2> QED BY <1>2, <1>5, <2>1 DEF UpdateProfile, MakeAdmin, EnrolTotp, VerifyTotp,
                      UnlinkProvider, Starts, About
<1>6. CASE LoginCaches(r) \/ CompleteProfile(r) \/ UpdatePassword(r) \/ ElevateAdmin(r)
  BY <1>6 DEF LoginCaches, CompleteProfile, UpdatePassword, ElevateAdmin, Goal
<1>7. CASE MeCached(r) \/ MeFills(r) \/ StoreSecret(r) \/ EnableTotp(r) \/ UpsertLink(r)
  <2>1. req[r].op \notin About /\ Becomes(r, Idle)
    BY <1>7 DEF MeCached, MeFills, StoreSecret, EnableTotp, UpsertLink, About
  <2> QED BY <1>2, <1>3, <2>1
<1>8. CASE MeReads(r) \/ DeleteLink(r) \/ SocialUpdate(r)
  <2>1. req[r].op \notin About
    BY <1>8 DEF MeReads, DeleteLink, SocialUpdate, About
  <2> QED BY <1>2, <1>8, <2>1 DEF MeReads, DeleteLink, SocialUpdate, About
<1>9. CASE DropCached(r)
  <2>1. req[r].op \notin About
    BY <1>9 DEF DropCached, About
  <2> QED BY <1>2, <1>3, <1>9, <2>1 DEF DropCached
<1>10. CASE \E p \in Provider, known \in SUBSET {"name", "verified"} : SocialSignIn(r, p, known)
  <2>1. PICK q : q.op \in {"social", "upsert"} /\ Starts(r, q)
    BY <1>10, SocialStarts
  <2>2. req[r].op \notin About /\ q.op \notin About
    BY <1>3, <2>1 DEF Starts, About
  <2> QED BY <1>2, <2>1, <2>2 DEF Starts
<1> QED BY <1>4, <1>5, <1>6, <1>7, <1>8, <1>9, <1>10 DEF NoMailStep

LEMMA NextOnce == ASSUME OnceInv, [Next]_vars PROVE OnceInv'
<1>1. Shape /\ Shape'
  BY NextShape DEF OnceInv
<1>2. ASSUME NEW r \in Request, NoMailStep(r) PROVE OnceInv'
  BY <1>1, <1>2, NoMailMoves, FrameOnce
<1>3. ASSUME NEW r \in Request, NEW m \in Mail, NEW kind \in Kind, SendMail(r, m, kind)
      PROVE  OnceInv'
  <2>1. /\ UNCHANGED <<req, used, excused>> /\ drawn \subseteq drawn'
        /\ DOMAIN mail' = DOMAIN mail \cup {m} /\ m \notin drawn
    BY <1>3 DEF SendMail
  <2> QED BY <1>1, <2>1, FrameOnce
<1>4. CASE CacheExpires \/ UNCHANGED vars \/ \E m \in Mail : MailExpires(m)
  <2>1. UNCHANGED <<req, drawn, used, excused>> /\ DOMAIN mail' \subseteq DOMAIN mail
    BY <1>4 DEF CacheExpires, MailExpires, Without, vars, history
  <2> QED BY <1>1, <2>1, FrameOnce
<1> QED BY <1>2, <1>3, <1>4, RedeemOnce, WriteOnce, SpendOnce, FailOnce, CrashOnce
        DEF Next, NoMailStep

\* A token sent by e-mail has its effect once, unless two requests held it at
\* once, or one that had its effect failed or was lost before its deletion.
THEOREM MailTokensWorkOnce == Spec => []MailTokensOnce
<1>1. Init => OnceInv
  BY InitOnce
<1>2. OnceInv /\ [Next]_vars => OnceInv'
  BY NextOnce
<1>3. OnceInv => MailTokensOnce
  BY DEF OnceInv
<1> QED BY <1>1, <1>2, <1>3, PTL DEF Spec


-----------------------------------------------------------------------------
(* Types, with the bounds.  A name is a version and a secret the number of  *)
(* the call that drew it, so both are bounded by the calls; a request that  *)
(* is doing something was started by one.                                   *)

Counted ==
  /\ calls <= MaxCalls
  /\ crashes \in 0 .. MaxCrashes
  /\ user.name <= calls
  /\ \A r \in Request : req[r].op # "idle" => calls > 0

SecretsDrawn ==
  /\ \A m \in DOMAIN methods : methods[m].secret \in Secret
  /\ proved \subseteq Secret

ProfilesTyped ==
  /\ cache \in NotCached \cup Cached
  /\ screen \in Profile
  /\ \A r \in Request : req[r].op = "fill" => req[r].profile \in Profile

HistoryTyped ==
  /\ excused \subseteq Mail
  /\ silent \subseteq Field
  /\ overtaken \subseteq Request
  /\ strayed \subseteq Method \cup {"links"}

TypeInv == Shape /\ Counted /\ SecretsDrawn /\ ProfilesTyped /\ HistoryTyped

LEMMA InitTypes == ASSUME Init PROVE TypeInv
<1>1. Shape
  BY InitShape
<1>2. user.name = 0 /\ user \in AnyRow
  BY <1>1 DEF Init, Shape
<1>3. /\ methods = [m \in {} |-> m] /\ cache = [kind |-> "none"] /\ screen = Current
      /\ req = [r \in Request |-> Idle] /\ calls = 0 /\ crashes = 0
      /\ excused = {} /\ silent = {} /\ proved = {} /\ overtaken = {} /\ strayed = {}
  BY DEF Init
<1>4. screen \in Profile
  <2>1. Current \in AnyProfile /\ Current.name = 0
    BY <1>2, CurrentProfile DEF Current
  <2> QED BY <1>3, <2>1, AccountBounds DEF AnyProfile, Profile, Name
<1>5. Counted
  BY <1>2, <1>3, AccountBounds, PhasesMade DEF Counted
<1>6. SecretsDrawn /\ HistoryTyped
  BY <1>3 DEF SecretsDrawn, HistoryTyped
<1>7. ProfilesTyped
  BY <1>3, <1>4, PhasesMade DEF ProfilesTyped, NotCached
<1> QED BY <1>1, <1>5, <1>6, <1>7 DEF TypeInv

\* The first phase of a handler, and the others.
Beginning(r) ==
  \/ RefreshProfile(r) \/ LoginCaches(r) \/ UpdateProfile(r) \/ CompleteProfile(r)
  \/ UpdatePassword(r) \/ MakeAdmin(r) \/ ElevateAdmin(r) \/ EnrolTotp(r)
  \/ \E m \in Mail : RedeemMail(r, m) \/ \E kind \in Kind : SendMail(r, m, kind)
  \/ \E m \in Method : VerifyTotp(r, m)
  \/ \E p \in Provider : LinkProvider(r, p) \/ UnlinkProvider(r, p)
                            \/ \E known \in SUBSET {"name", "verified"} : SocialSignIn(r, p, known)

Continuing(r) ==
  \/ MeCached(r) \/ MeReads(r) \/ MeFills(r) \/ DropCached(r)
  \/ WriteRedeemed(r) \/ SpendMail(r) \/ StoreSecret(r) \/ EnableTotp(r)
  \/ DeleteLink(r) \/ SocialUpdate(r) \/ UpsertLink(r) \/ Fails(r)

LEMMA BeginOrContinue ==
  ASSUME Next
  PROVE  \/ \E r \in Request : Beginning(r) \/ Continuing(r)
         \/ \E m \in Mail : MailExpires(m)
         \/ CacheExpires
         \/ Crash
  BY DEF Next, Beginning, Continuing

LEMMA BeginningCounts ==
  ASSUME NEW r \in Request, Beginning(r)
  PROVE  calls < MaxCalls /\ calls' = calls + 1 /\ crashes' = crashes
  BY DEF Beginning, RefreshProfile, LoginCaches, UpdateProfile, CompleteProfile, UpdatePassword,
     MakeAdmin, ElevateAdmin, EnrolTotp, RedeemMail, SendMail, VerifyTotp, LinkProvider,
     UnlinkProvider, SocialSignIn, Starts

LEMMA ContinuingCounts ==
  ASSUME NEW r \in Request, Continuing(r)
  PROVE  req[r].op # "idle" /\ calls' = calls /\ crashes' = crashes
  BY DEF Continuing, MeCached, MeReads, MeFills, DropCached, WriteRedeemed, SpendMail,
     StoreSecret, EnableTotp, DeleteLink, SocialUpdate, UpsertLink, Fails, history

\* The name changes with a call.
LEMMA NameCounts ==
  ASSUME Shape, [Next]_vars
  PROVE  \/ user'.name = user.name
         \/ user'.name = user.name + 1 /\ calls' = calls + 1
         \/ user'.name = calls /\ calls' = calls
<1>1. /\ user \in AnyRow
      /\ \A n \in Nat : [user EXCEPT !.name = n].name = n
      /\ \A b : /\ [user EXCEPT !.verified = b].name = user.name
                /\ [user EXCEPT !.password = b].name = user.name
                /\ [user EXCEPT !.links = b].name = user.name
                /\ [user EXCEPT !.admin = b].name = user.name
      /\ user.name \in Nat /\ user.name + 1 \in Nat
  BY DEF Shape, AnyRow
<1>2. ASSUME NEW r \in Request, UpdateProfile(r) \/ CompleteProfile(r)
      PROVE  user'.name = user.name + 1 /\ calls' = calls + 1
  BY <1>1, <1>2 DEF UpdateProfile, CompleteProfile, Starts
<1>3. ASSUME NEW r \in Request,
             \/ UpdatePassword(r) \/ MakeAdmin(r) \/ ElevateAdmin(r) \/ WriteRedeemed(r)
             \/ DeleteLink(r) \/ UpsertLink(r)
             \/ \E p \in Provider : LinkProvider(r, p)
      PROVE  user'.name = user.name
  BY <1>1, <1>3 DEF UpdatePassword, MakeAdmin, ElevateAdmin, WriteRedeemed, DeleteLink, UpsertLink,
     LinkProvider
<1>4. ASSUME NEW r \in Request, SocialUpdate(r)
      PROVE  calls' = calls /\ (user'.name = user.name \/ user'.name = calls)
  BY <1>1, <1>4 DEF SocialUpdate, Shape, AnyRow
<1>5. ASSUME NEW r \in Request,
             \/ RefreshProfile(r) \/ MeCached(r) \/ MeReads(r) \/ MeFills(r) \/ DropCached(r)
             \/ LoginCaches(r) \/ SpendMail(r) \/ EnrolTotp(r) \/ StoreSecret(r) \/ EnableTotp(r)
             \/ Fails(r)
             \/ \E m \in Mail : RedeemMail(r, m) \/ \E kind \in Kind : SendMail(r, m, kind)
             \/ \E m \in Method : VerifyTotp(r, m)
             \/ \E p \in Provider : UnlinkProvider(r, p) \/ \E known \in SUBSET {"name", "verified"} : SocialSignIn(r, p, known)
      PROVE  user' = user
  BY <1>5 DEF RefreshProfile, MeCached, MeReads, MeFills, DropCached, LoginCaches, SpendMail,
     EnrolTotp, StoreSecret, EnableTotp, Fails, RedeemMail, SendMail, VerifyTotp,
     UnlinkProvider, SocialSignIn
<1>6. ASSUME (\E m \in Mail : MailExpires(m)) \/ CacheExpires \/ Crash \/ UNCHANGED vars
      PROVE  user' = user
  BY <1>6 DEF MailExpires, CacheExpires, Crash, vars
<1> QED BY <1>2, <1>3, <1>4, <1>5, <1>6 DEF Next

LEMMA NextCounted ==
  ASSUME Shape, Counted, [Next]_vars
  PROVE  Counted' /\ calls <= calls'
<1>1. /\ calls \in Nat /\ user.name \in Nat /\ calls <= MaxCalls /\ user.name <= calls
      /\ MaxCalls \in Nat /\ crashes \in 0 .. MaxCrashes /\ MaxCrashes \in Nat
  BY AccountBounds DEF Shape, AnyRow, Counted
<1>2. \/ user'.name = user.name
      \/ user'.name = user.name + 1 /\ calls' = calls + 1
      \/ user'.name = calls /\ calls' = calls
  BY NameCounts
<1>3. ASSUME NEW r \in Request, Beginning(r) PROVE Counted' /\ calls <= calls'
  <2>1. calls < MaxCalls /\ calls' = calls + 1 /\ crashes' = crashes
    BY <1>3, BeginningCounts
  <2>2. calls' \in Nat /\ calls' <= MaxCalls /\ calls' > 0 /\ calls <= calls' /\ user'.name <= calls'
    BY <1>1, <1>2, <2>1
  <2> QED BY <1>1, <2>1, <2>2 DEF Counted
<1>4. ASSUME NEW r \in Request, Continuing(r) PROVE Counted' /\ calls <= calls'
  <2>1. req[r].op # "idle" /\ calls' = calls /\ crashes' = crashes
    BY <1>4, ContinuingCounts
  <2>2. calls > 0 /\ user'.name <= calls'
    BY <1>1, <1>2, <2>1 DEF Counted
  <2> QED BY <1>1, <2>1, <2>2 DEF Counted
<1>5. ASSUME (\E m \in Mail : MailExpires(m)) \/ CacheExpires \/ UNCHANGED vars
      PROVE  Counted' /\ calls <= calls'
  <2>1. UNCHANGED <<user, req, calls, crashes>>
    BY <1>5 DEF MailExpires, CacheExpires, vars
  <2> QED BY <1>1, <2>1 DEF Counted
<1>6. CASE Crash
  <2>1. /\ UNCHANGED <<user, calls>> /\ crashes' \in 0 .. MaxCrashes
        /\ \A r \in Request : req'[r] = Idle
    BY <1>1, <1>6 DEF Crash
  <2> QED BY <1>1, <2>1, PhasesMade DEF Counted
<1> QED BY <1>3, <1>4, <1>5, <1>6, BeginOrContinue

LEMMA NextSecrets ==
  ASSUME Shape, Counted, SecretsDrawn, [Next]_vars
  PROVE  SecretsDrawn'
<1>1. /\ methods \in [DOMAIN methods -> TotpRow] /\ calls \in Nat /\ calls <= MaxCalls
      /\ MaxCalls \in Nat /\ req \in [Request -> Phase]
  BY AccountBounds DEF Shape, Counted
<1>2. ASSUME NEW r \in Request, StoreSecret(r) PROVE SecretsDrawn'
  <2>1. PICK m \in Method :
          methods' = [x \in DOMAIN methods \cup {m} |->
                        IF x = m THEN [secret |-> calls, enabled |-> FALSE] ELSE methods[x]]
    BY <1>2 DEF StoreSecret
  <2>2. calls \in Secret /\ proved' = proved
    BY <1>1, <1>2 DEF StoreSecret, Counted, Secret
  <2>3. /\ DOMAIN methods' = DOMAIN methods \cup {m}
        /\ methods'[m].secret = calls
        /\ \A x \in DOMAIN methods \ {m} : methods'[x] = methods[x]
    BY <2>1
  <2> QED BY <2>2, <2>3 DEF SecretsDrawn
<1>3. ASSUME NEW r \in Request, EnableTotp(r) PROVE SecretsDrawn'
  <2>1. /\ DOMAIN methods' = DOMAIN methods /\ proved' = proved
        /\ \A x \in DOMAIN methods : methods'[x].secret = methods[x].secret
    BY <1>1, <1>3 DEF EnableTotp, TotpRow
  <2> QED BY <2>1 DEF SecretsDrawn
<1>4. ASSUME NEW r \in Request, NEW m \in Method, VerifyTotp(r, m) PROVE SecretsDrawn'
  <2>1. m \in DOMAIN methods /\ methods' = methods /\ proved' = proved \cup {methods[m].secret}
    BY <1>4 DEF VerifyTotp
  <2> QED BY <2>1 DEF SecretsDrawn
<1>5. ASSUME UNCHANGED <<methods, proved>> PROVE SecretsDrawn'
  BY <1>5 DEF SecretsDrawn
<1>6. ASSUME NEW r \in Request,
             \/ RefreshProfile(r) \/ MeCached(r) \/ MeReads(r) \/ MeFills(r) \/ DropCached(r)
             \/ LoginCaches(r) \/ UpdateProfile(r) \/ CompleteProfile(r) \/ UpdatePassword(r)
             \/ MakeAdmin(r) \/ ElevateAdmin(r) \/ WriteRedeemed(r) \/ SpendMail(r)
             \/ EnrolTotp(r) \/ DeleteLink(r) \/ SocialUpdate(r) \/ UpsertLink(r) \/ Fails(r)
             \/ \E m \in Mail : RedeemMail(r, m) \/ \E kind \in Kind : SendMail(r, m, kind)
             \/ \E p \in Provider : LinkProvider(r, p) \/ UnlinkProvider(r, p)
                                       \/ \E known \in SUBSET {"name", "verified"} : SocialSignIn(r, p, known)
      PROVE  UNCHANGED <<methods, proved>>
  BY <1>6 DEF RefreshProfile, MeCached, MeReads, MeFills, DropCached, LoginCaches, UpdateProfile,
     CompleteProfile, UpdatePassword, MakeAdmin, ElevateAdmin, WriteRedeemed, SpendMail, EnrolTotp,
     DeleteLink, SocialUpdate, UpsertLink, Fails, RedeemMail, SendMail, LinkProvider, UnlinkProvider,
     SocialSignIn, history
<1>7. ASSUME (\E m \in Mail : MailExpires(m)) \/ CacheExpires \/ Crash \/ UNCHANGED vars
      PROVE  UNCHANGED <<methods, proved>>
  BY <1>7 DEF MailExpires, CacheExpires, Crash, vars, history
<1> QED BY <1>2, <1>3, <1>4, <1>5, <1>6, <1>7 DEF Next

\* What the pages show is a profile that was read, or the bare one.
LEMMA ProfileMade ==
  ASSUME Shape, Counted
  PROVE  /\ Current \in Profile
         /\ \A p \in Profile, admin \in BOOLEAN : [p EXCEPT !.admin = admin] \in Profile
         /\ \A n \in Name : Bare(n) \in Profile
<1>1. user \in AnyRow /\ user.name \in Name
  BY AccountBounds DEF Shape, AnyRow, Counted, Name
<1>2. Current \in AnyProfile /\ Current.name \in Name
  BY <1>1, CurrentProfile DEF Current
<1>3. Current \in Profile
  BY <1>2 DEF AnyProfile, Profile
<1> QED BY <1>3 DEF Profile, Bare

LEMMA ShowTyped ==
  ASSUME Shape, Counted, NEW r \in Request, req[r].op \in {"refresh", "fill"},
         NEW p \in Profile, Show(p, RoleCheck(r))
  PROVE  screen' \in Profile
<1>1. req[r].admin \in BOOLEAN /\ user.admin \in BOOLEAN
  BY Phases DEF Shape, AnyRow, Refresh, Filling
<1>2. PICK admin \in BOOLEAN : screen' = [p EXCEPT !.admin = admin]
  BY <1>1 DEF Show, RoleCheck
<1> QED BY <1>2, ProfileMade

LEMMA NextProfiles ==
  ASSUME Shape, Counted, ProfilesTyped, [Next]_vars
  PROVE  ProfilesTyped'
<1>1. /\ req \in [Request -> Phase]
      /\ cache \in NotCached \cup Cached /\ screen \in Profile
      /\ \A r \in Request : req[r].op = "fill" => req[r].profile \in Profile
  BY DEF Shape, ProfilesTyped
<1>2. ASSUME NEW r \in Request, NEW q \in Phase, Becomes(r, q), q.op # "fill"
      PROVE  \A s \in Request : req'[s].op = "fill" => req'[s].profile \in Profile
  BY <1>1, <1>2, BecomesTyped
<1>3. ASSUME NEW r \in Request, MeCached(r) PROVE ProfilesTyped'
  <2>1. cache.profile \in Profile
    BY <1>1, <1>3 DEF MeCached, NotCached, Cached
  <2>2. screen' \in Profile
    BY <1>3, <2>1, ShowTyped DEF MeCached
  <2>3. Becomes(r, Idle) /\ cache' = cache
    BY <1>3 DEF MeCached
  <2> QED BY <1>1, <1>2, <2>2, <2>3, PhasesMade DEF ProfilesTyped
<1>4. ASSUME NEW r \in Request, MeFills(r) PROVE ProfilesTyped'
  <2>1. req[r].profile \in Profile
    BY <1>1, <1>4 DEF MeFills
  <2>2. screen' \in Profile
    BY <1>4, <2>1, ShowTyped DEF MeFills
  <2>3. cache' \in Cached
    BY <1>4, <2>1 DEF MeFills, Cached
  <2>4. Becomes(r, Idle)
    BY <1>4 DEF MeFills
  <2> QED BY <1>1, <1>2, <2>2, <2>3, <2>4, PhasesMade DEF ProfilesTyped
<1>5. ASSUME NEW r \in Request, MeReads(r) PROVE ProfilesTyped'
  <2>1. /\ req'[r].profile = Current
        /\ \A s \in Request \ {r} : req'[s] = req[s]
        /\ UNCHANGED <<cache, screen>>
    BY <1>1, <1>5 DEF MeReads, Becomes
  <2> QED BY <1>1, <2>1, ProfileMade DEF ProfilesTyped
<1>6. ASSUME NEW r \in Request, DropCached(r) PROVE ProfilesTyped'
  <2> DEFINE q == IF req[r].then = "refresh" THEN Asking ELSE Idle
  <2>1. req[r] \in Announce
    BY <1>1, <1>6, Phases DEF DropCached
  <2>2. q \in Phase /\ q.op # "fill"
    BY <2>1, AskingPhase, PhasesMade DEF Announce, Shape
  <2>3. Becomes(r, q) /\ cache' = [kind |-> "none"] /\ screen' = screen
    BY <1>6 DEF DropCached
  <2> QED BY <1>1, <1>2, <2>2, <2>3 DEF ProfilesTyped, NotCached
<1>7. ASSUME NEW r \in Request, LoginCaches(r) \/ CompleteProfile(r) PROVE ProfilesTyped'
  <2>1. req' = req
    BY <1>7 DEF LoginCaches, CompleteProfile
  <2>2. CASE LoginCaches(r)
    BY <1>1, <2>1, <2>2 DEF LoginCaches, ProfilesTyped, NotCached
  <2>3. CASE CompleteProfile(r)
    <3>1. user.name + 1 \in Name
      BY <2>3, AccountBounds DEF CompleteProfile, Shape, AnyRow, Counted, Name
    <3>2. screen' \in Profile /\ cache' = cache
      BY <2>3, <3>1, ProfileMade DEF CompleteProfile
    <3> QED BY <1>1, <2>1, <3>2 DEF ProfilesTyped
  <2> QED BY <1>7, <2>2, <2>3
<1>8. ASSUME UNCHANGED <<cache, screen>>,
             \A r \in Request : req'[r].op = "fill" => req'[r] = req[r]
      PROVE  ProfilesTyped'
  BY <1>1, <1>8 DEF ProfilesTyped
<1>9. ASSUME NEW r \in Request, NEW q, Becomes(r, q), q.op # "fill"
      PROVE  \A s \in Request : req'[s].op = "fill" => req'[s] = req[s]
  BY <1>1, <1>9 DEF Becomes
<1>10. ASSUME NEW r \in Request,
              \/ RefreshProfile(r) \/ UpdateProfile(r) \/ MakeAdmin(r) \/ SpendMail(r)
              \/ DeleteLink(r) \/ StoreSecret(r) \/ EnableTotp(r)
              \/ SocialUpdate(r) \/ UpsertLink(r) \/ Fails(r) \/ EnrolTotp(r)
              \/ \E m \in Mail : RedeemMail(r, m)
              \/ \E m \in Method : VerifyTotp(r, m)
              \/ \E p \in Provider : LinkProvider(r, p) \/ UnlinkProvider(r, p)
                                        \/ \E known \in SUBSET {"name", "verified"} : SocialSignIn(r, p, known)
       PROVE  \E q : Becomes(r, q) /\ q.op # "fill"
  <2>1. ASSUME \/ RefreshProfile(r)
               \/ \E p \in Provider : LinkProvider(r, p)
        PROVE  Becomes(r, Asking)
    BY <2>1 DEF RefreshProfile, LinkProvider, Starts
  <2>2. Asking.op # "fill"
    BY DEF Asking
  <2>3. CASE UpdateProfile(r) \/ MakeAdmin(r) \/ SpendMail(r) \/ DeleteLink(r)
    <3>1. \E fields, then : Becomes(r, [op |-> "announce", fields |-> fields, then |-> then])
      BY <2>3 DEF UpdateProfile, MakeAdmin, SpendMail, DeleteLink, Starts
    <3>2. \A fields, then : [op |-> "announce", fields |-> fields, then |-> then].op # "fill"
      OBVIOUS
    <3> QED BY <3>1, <3>2
  <2>4. CASE StoreSecret(r) \/ EnableTotp(r) \/ Fails(r) \/ UpsertLink(r)
    BY <2>4, PhasesMade DEF StoreSecret, EnableTotp, Fails, UpsertLink
  <2>10. CASE SocialUpdate(r)
    <3>1. Becomes(r, [op |-> "upsert", provider |-> req[r].provider])
      BY <2>10 DEF SocialUpdate
    <3>2. [op |-> "upsert", provider |-> req[r].provider].op # "fill"
      OBVIOUS
    <3> QED BY <3>1, <3>2
  <2>5. CASE EnrolTotp(r)
    <3>1. PICK found : Becomes(r, [op |-> "enrol", found |-> found])
      BY <2>5 DEF EnrolTotp, Starts
    <3>2. [op |-> "enrol", found |-> found].op # "fill"
      OBVIOUS
    <3> QED BY <3>1, <3>2
  <2>6. ASSUME NEW m \in Mail, RedeemMail(r, m) PROVE \E q : Becomes(r, q) /\ q.op # "fill"
    <3>1. Becomes(r, [op |-> "redeem", mail |-> m, kind |-> mail[m]])
      BY <2>6 DEF RedeemMail, Starts
    <3>2. [op |-> "redeem", mail |-> m, kind |-> mail[m]].op # "fill"
      OBVIOUS
    <3> QED BY <3>1, <3>2
  <2>7. ASSUME NEW m \in Method, VerifyTotp(r, m) PROVE \E q : Becomes(r, q) /\ q.op # "fill"
    <3>1. Becomes(r, [op |-> "confirm", method |-> m])
      BY <2>7 DEF VerifyTotp, Starts
    <3>2. [op |-> "confirm", method |-> m].op # "fill"
      OBVIOUS
    <3> QED BY <3>1, <3>2
  <2>8. ASSUME NEW p \in Provider, UnlinkProvider(r, p) PROVE \E q : Becomes(r, q) /\ q.op # "fill"
    <3>1. Becomes(r, [op |-> "unlink", provider |-> p])
      BY <2>8 DEF UnlinkProvider, Starts
    <3>2. [op |-> "unlink", provider |-> p].op # "fill"
      OBVIOUS
    <3> QED BY <3>1, <3>2
  <2>9. ASSUME NEW p \in Provider, NEW known, SocialSignIn(r, p, known)
        PROVE  \E q : Becomes(r, q) /\ q.op # "fill"
    BY <2>9, SocialStarts DEF Starts
  <2> QED BY <1>10, <2>1, <2>2, <2>3, <2>4, <2>5, <2>6, <2>7, <2>8, <2>9, <2>10
<1>11. ASSUME NEW r \in Request,
              \/ RefreshProfile(r) \/ UpdateProfile(r) \/ MakeAdmin(r) \/ SpendMail(r)
              \/ DeleteLink(r) \/ StoreSecret(r) \/ EnableTotp(r)
              \/ SocialUpdate(r) \/ UpsertLink(r) \/ Fails(r) \/ EnrolTotp(r)
              \/ \E m \in Mail : RedeemMail(r, m)
              \/ \E m \in Method : VerifyTotp(r, m)
              \/ \E p \in Provider : LinkProvider(r, p) \/ UnlinkProvider(r, p)
                                        \/ \E known \in SUBSET {"name", "verified"} : SocialSignIn(r, p, known)
       PROVE  ProfilesTyped'
  <2>1. UNCHANGED <<cache, screen>>
    BY <1>11 DEF RefreshProfile, UpdateProfile, MakeAdmin, SpendMail, DeleteLink, StoreSecret,
       EnableTotp, SocialUpdate, UpsertLink, Fails, EnrolTotp, RedeemMail, VerifyTotp, LinkProvider,
       UnlinkProvider, SocialSignIn
  <2> QED BY <1>8, <1>9, <1>10, <1>11, <2>1
<1>12. ASSUME NEW r \in Request, WriteRedeemed(r) PROVE ProfilesTyped'
  <2>1. req[r] \in Redeem
    BY <1>1, <1>12, Phases DEF WriteRedeemed
  <2>2. [req[r] EXCEPT !.op = "spend"].op # "fill"
    BY <2>1 DEF Redeem
  <2>3. Becomes(r, [req[r] EXCEPT !.op = "spend"]) /\ UNCHANGED <<cache, screen>>
    BY <1>12 DEF WriteRedeemed
  <2> QED BY <1>8, <1>9, <2>2, <2>3
<1>13. ASSUME NEW r \in Request,
              \/ UpdatePassword(r) \/ ElevateAdmin(r)
              \/ \E m \in Mail, kind \in Kind : SendMail(r, m, kind)
       PROVE  ProfilesTyped'
  BY <1>8, <1>13 DEF UpdatePassword, ElevateAdmin, SendMail
<1>14. ASSUME (\E m \in Mail : MailExpires(m)) \/ UNCHANGED vars PROVE ProfilesTyped'
  BY <1>8, <1>14 DEF MailExpires, vars
<1>15. CASE CacheExpires
  BY <1>1, <1>15 DEF CacheExpires, ProfilesTyped, NotCached
<1>16. CASE Crash
  BY <1>8, <1>16, PhasesMade DEF Crash
<1> QED BY <1>3, <1>4, <1>5, <1>6, <1>7, <1>11, <1>12, <1>13, <1>14, <1>15, <1>16 DEF Next

LEMMA NextHistory ==
  ASSUME Shape, HistoryTyped, [Next]_vars
  PROVE  HistoryTyped'
<1>1. /\ req \in [Request -> Phase] /\ drawn \subseteq Mail /\ DOMAIN methods \subseteq Method
      /\ DOMAIN mail \subseteq drawn
      /\ excused \subseteq Mail /\ silent \subseteq Field
      /\ overtaken \subseteq Request /\ strayed \subseteq Method \cup {"links"}
      /\ {"name", "verified", "password", "links", "admin", "totp"} \subseteq Field
  BY DEF Shape, HistoryTyped, Field
<1>2. ASSUME NEW r \in Request,
             \/ LoginCaches(r) \/ CompleteProfile(r) \/ UpdatePassword(r) \/ ElevateAdmin(r)
             \/ DropCached(r) \/ UpsertLink(r) \/ MeFills(r)
             \/ \E p \in Provider : LinkProvider(r, p)
      PROVE  silent' \subseteq Field /\ UNCHANGED <<excused, overtaken, strayed>>
  BY <1>1, <1>2 DEF LoginCaches, CompleteProfile, UpdatePassword, ElevateAdmin, DropCached,
     UpsertLink, MeFills, LinkProvider, Difference
<1>3. ASSUME NEW r \in Request, StoreSecret(r) PROVE HistoryTyped'
  BY <1>1, <1>3 DEF StoreSecret, HistoryTyped
<1>4. ASSUME NEW r \in Request, EnableTotp(r) PROVE HistoryTyped'
  <2>1. req[r].method \in Method
    BY <1>1, <1>4, Phases DEF EnableTotp, Confirm
  <2> QED BY <1>1, <1>4, <2>1 DEF EnableTotp, HistoryTyped
<1>5. ASSUME NEW r \in Request, DeleteLink(r) PROVE HistoryTyped'
  BY <1>1, <1>5 DEF DeleteLink, HistoryTyped
<1>6. ASSUME NEW r \in Request, NEW m \in Mail, RedeemMail(r, m) PROVE HistoryTyped'
  BY <1>1, <1>6 DEF RedeemMail, HistoryTyped
<1>7. ASSUME NEW r \in Request,
             \/ RefreshProfile(r) \/ MeCached(r) \/ MeReads(r) \/ UpdateProfile(r) \/ MakeAdmin(r)
             \/ WriteRedeemed(r) \/ SpendMail(r) \/ EnrolTotp(r)
             \/ \E m \in Mail, kind \in Kind : SendMail(r, m, kind)
             \/ \E m \in Method : VerifyTotp(r, m)
             \/ \E p \in Provider : UnlinkProvider(r, p) \/ \E known \in SUBSET {"name", "verified"} : SocialSignIn(r, p, known)
      PROVE  UNCHANGED <<silent, excused, overtaken, strayed>>
  BY <1>7 DEF RefreshProfile, MeCached, MeReads, UpdateProfile, MakeAdmin, WriteRedeemed,
     SpendMail, EnrolTotp, SendMail, VerifyTotp, UnlinkProvider, SocialSignIn, history
<1>8. ASSUME (\E m \in Mail : MailExpires(m)) \/ UNCHANGED vars
      PROVE  UNCHANGED <<silent, excused, overtaken, strayed>>
  BY <1>8 DEF MailExpires, vars, history
<1>9. CASE CacheExpires
  BY <1>1, <1>9 DEF CacheExpires, HistoryTyped
<1>10. ASSUME NEW r \in Request
       PROVE  Pending(r) \subseteq Field /\ (req[r].op = "spend" => req[r].mail \in Mail)
  <2>1. req[r].op = "announce" => req[r].fields \subseteq Field
    BY <1>1, Phases DEF Announce
  <2>2. req[r].op = "spend" => req[r].mail \in Mail
    BY <1>1, Phases DEF Redeem
  <2> QED BY <1>1, <2>1, <2>2 DEF Pending, Effect
<1>11. CASE Crash
  <2>1. silent' \subseteq Field
    BY <1>1, <1>10, <1>11 DEF Crash
  <2>2. excused' \subseteq Mail
    BY <1>1, <1>10, <1>11 DEF Crash
  <2> QED BY <1>1, <1>11, <2>1, <2>2 DEF Crash, HistoryTyped
<1>12. ASSUME NEW r \in Request, Fails(r) PROVE HistoryTyped'
  BY <1>1, <1>10, <1>12 DEF Fails, HistoryTyped
<1>13. ASSUME NEW r \in Request, SocialUpdate(r) PROVE HistoryTyped'
  <2>1. req[r].missing \subseteq {"name", "verified"}
    BY <1>1, <1>13, Phases DEF SocialUpdate, Social
  <2> QED BY <1>1, <1>13, <2>1 DEF SocialUpdate, HistoryTyped
<1> QED BY <1>1, <1>2, <1>3, <1>4, <1>5, <1>6, <1>7, <1>8, <1>9, <1>11, <1>12, <1>13
        DEF Next, HistoryTyped

LEMMA NextTypes == ASSUME TypeInv, [Next]_vars PROVE TypeInv'
  BY NextShape, NextCounted, NextSecrets, NextProfiles, NextHistory DEF TypeInv

LEMMA TypeInvTypes == ASSUME TypeInv PROVE TypeOK
<1>1. user \in Row
  BY AccountBounds DEF TypeInv, Shape, Counted, AnyRow, Row, Name
<1>2. methods \in [DOMAIN methods -> [secret : Secret, enabled : BOOLEAN]]
  BY DEF TypeInv, Shape, SecretsDrawn, TotpRow
<1>3. req \in [Request -> {Idle} \cup Refresh \cup Fill \cup Announce \cup Redeem
                           \cup Enrol \cup Confirm \cup Provided \cup Social]
  <2>1. ASSUME NEW r \in Request PROVE req[r] \in Phase /\ (req[r].op = "fill" => req[r] \in Fill)
    <3>1. req[r] \in Phase /\ (req[r].op = "fill" => req[r] \in Filling)
      BY Phases DEF TypeInv, Shape
    <3> QED BY <3>1 DEF TypeInv, ProfilesTyped, Filling, Fill
  <2>2. \A q \in Filling : q.op = "fill"
    BY DEF Filling
  <2> QED BY <2>1, <2>2 DEF TypeInv, Shape, Phase
<1>4. calls \in 0 .. MaxCalls
  BY AccountBounds DEF TypeInv, Shape, Counted
<1> QED BY <1>1, <1>2, <1>3, <1>4
        DEF TypeInv, Shape, Counted, SecretsDrawn, ProfilesTyped, HistoryTyped, TypeOK

\* The row, its TOTP rows and mail tokens, the cached profile, the one the pages
\* show and every request keep their types: in particular a cached profile is a
\* whole one, a secret is one some enrolment drew, and a mail token in Redis is
\* one that was sent.
THEOREM TypeCorrect == Spec => []TypeOK
  BY InitTypes, NextTypes, TypeInvTypes, PTL DEF Spec
=============================================================================
