--------------------------- MODULE AuthCodeProofs ---------------------------
(***************************************************************************)
(* Proofs about AuthCode, for any accounts, clients, scopes, pages, token  *)
(* requests and number of restarts.                                        *)
(***************************************************************************)
EXTENDS AuthCode, TLAPS

-----------------------------------------------------------------------------
(* Shape: the types, without the bounds that keep TLC's instances finite.  *)

Scopes == [Scope -> Nat]
FlowState == {Idle} \cup Page \cup [op : {"deduping"}, grant : Grant, unique : Scopes]
RedeemState == {Idle} \cup Redeem

Shape ==
  /\ consent \in [Pair -> Scopes]
  /\ codes \in [DOMAIN codes -> Grant]
  /\ flow \in [Flow -> FlowState]
  /\ redeem \in [Redeemer -> RedeemState]
  /\ \A s \in sessions : s.grant \in Grant
  /\ crashes \in Nat
  /\ approved \in [Pair -> SUBSET Scope]
  /\ settled \in [Pair -> SUBSET Scope]

Held == {"submitting", "tidying", "deduping", "issuing"}

LEMMA FlowFields ==
  ASSUME NEW q \in FlowState
  PROVE  /\ q.op # "idle" => q.grant \in Grant
         /\ q.op = "deduping" => q.unique \in Scopes
         /\ q.op \in {"idle", "checking", "dialog"} \cup Held
  BY DEF FlowState, Idle, Page, Held

LEMMA RedeemFields ==
  ASSUME NEW q \in RedeemState
  PROVE  q.op # "idle" => q.op \in {"spending", "creating"} /\ q.grant \in Grant /\ q.code \in Code
  BY DEF RedeemState, Idle, Redeem

LEMMA OfPair ==
  ASSUME NEW g \in Grant
  PROVE  Of(g) \in Pair /\ g.scopes \in SUBSET Scope /\ g.user \in User /\ g.client \in Client
  BY DEF Of, Pair, Grant

LEMMA BecomesTyped ==
  ASSUME flow \in [Flow -> FlowState], NEW f \in Flow, NEW q \in FlowState, Becomes(f, q)
  PROVE  /\ flow' \in [Flow -> FlowState]
         /\ flow'[f] = q
         /\ \A h \in Flow \ {f} : flow'[h] = flow[h]
  BY DEF Becomes

LEMMA UniqueScopes ==
  ASSUME NEW array \in Scopes
  PROVE  /\ Unique(array) \in Scopes
         /\ \A s \in Scope : Unique(array)[s] > 0 <=> array[s] > 0
         /\ \A s \in Scope : Unique(array)[s] \in {0, 1}
  BY DEF Scopes, Unique

-----------------------------------------------------------------------------
(* Every reachable state has this shape.                                    *)

LEMMA InitShape == ASSUME Init PROVE Shape
<1>1. Idle \in FlowState /\ Idle \in RedeemState
  BY DEF FlowState, RedeemState
<1> QED BY <1>1 DEF Init, Shape, Scopes, Pair

\* The steps of a page.
LEMMA PageShape ==
  ASSUME Shape, NEW f \in Flow, PageStep(f)
  PROVE  Shape'
<1> USE DEF Shape
<1>0. /\ flow[f] \in FlowState
      /\ flow[f].op # "idle" => flow[f].grant \in Grant
      /\ flow[f].op = "deduping" => flow[f].unique \in Scopes
  BY FlowFields
<1> DEFINE g == flow[f].grant
<1>1. /\ Idle \in FlowState
      /\ \A h \in Grant, op \in {"checking", "dialog", "submitting", "tidying", "issuing"} :
           [op |-> op, grant |-> h] \in FlowState
      /\ \A h \in Grant, a \in Scopes :
           [op |-> "deduping", grant |-> h, unique |-> a] \in FlowState
  BY DEF FlowState, Page
<1>2. ASSUME NEW h \in Grant, OpenPage(f, h) PROVE Shape'
  BY <1>1, <1>2, BecomesTyped DEF OpenPage
<1>3. CASE ConsentSkipped(f)
  BY <1>0, <1>1, <1>3, BecomesTyped DEF ConsentSkipped
<1>4. CASE ConsentRequired(f)
  BY <1>0, <1>1, <1>4, BecomesTyped DEF ConsentRequired
<1>5. CASE Deny(f)
  BY <1>1, <1>5, BecomesTyped DEF Deny
<1>6. CASE Allow(f)
  <2>1. g \in Grant /\ Of(g) \in Pair /\ g.scopes \subseteq Scope
    BY <1>0, <1>6, OfPair DEF Allow
  <2>2. flow' \in [Flow -> FlowState]
    BY <1>1, <1>6, <2>1, BecomesTyped DEF Allow
  <2>3. approved' \in [Pair -> SUBSET Scope]
    BY <1>6, <2>1 DEF Allow
  <2> QED BY <1>6, <2>2, <2>3 DEF Allow
<1>7. CASE PushScopes(f)
  <2>1. g \in Grant /\ Of(g) \in Pair
    BY <1>0, <1>7, OfPair DEF PushScopes
  <2>2. flow' \in [Flow -> FlowState]
    BY <1>1, <1>7, <2>1, BecomesTyped DEF PushScopes
  <2>3. [s \in Scope |-> consent[Of(g)][s] + IF s \in g.scopes THEN 1 ELSE 0] \in Scopes
    BY <2>1 DEF Scopes
  <2>4. consent' \in [Pair -> Scopes]
    BY <1>7, <2>1, <2>3 DEF PushScopes
  <2> QED BY <1>7, <2>2, <2>4 DEF PushScopes
<1>8. CASE ReadConsent(f)
  <2>1. g \in Grant /\ Of(g) \in Pair
    BY <1>0, <1>8, OfPair DEF ReadConsent
  <2>2. Unique(consent[Of(g)]) \in Scopes
    BY <2>1, UniqueScopes
  <2>3. flow' \in [Flow -> FlowState]
    BY <1>1, <1>8, <2>1, <2>2, BecomesTyped DEF ReadConsent
  <2> QED BY <1>8, <2>3 DEF ReadConsent
<1>9. CASE WriteUnique(f)
  <2>1. g \in Grant /\ Of(g) \in Pair /\ flow[f].unique \in Scopes
    BY <1>0, <1>9, OfPair DEF WriteUnique
  <2>2. flow' \in [Flow -> FlowState]
    BY <1>1, <1>9, <2>1, BecomesTyped DEF WriteUnique
  <2>3. consent' \in [Pair -> Scopes]
    BY <1>9, <2>1 DEF WriteUnique
  <2> QED BY <1>9, <2>2, <2>3 DEF WriteUnique
<1>10. ASSUME NEW c \in Code, IssueCode(f, c) PROVE Shape'
  <2>1. g \in Grant /\ Of(g) \in Pair /\ g.scopes \subseteq Scope
    BY <1>0, <1>10, OfPair DEF IssueCode
  <2>2. flow' \in [Flow -> FlowState]
    BY <1>1, <1>10, BecomesTyped DEF IssueCode
  <2>3. codes' \in [DOMAIN codes' -> Grant]
    BY <1>10, <2>1 DEF IssueCode
  <2>4. settled' \in [Pair -> SUBSET Scope]
    BY <1>10, <2>1 DEF IssueCode
  <2> QED BY <1>10, <2>2, <2>3, <2>4 DEF IssueCode
<1> QED BY <1>2, <1>3, <1>4, <1>5, <1>6, <1>7, <1>8, <1>9, <1>10 DEF PageStep

\* Those of a token request.
LEMMA TokenShape ==
  ASSUME Shape, NEW r \in Redeemer, TokenStep(r)
  PROVE  Shape'
<1> USE DEF Shape
<1>0. /\ redeem[r] \in RedeemState
      /\ redeem[r].op # "idle" => redeem[r].grant \in Grant /\ redeem[r].code \in Code
  BY RedeemFields
<1>1. /\ Idle \in RedeemState
      /\ \A op \in {"spending", "creating"}, c \in Code, h \in Grant :
           [op |-> op, code |-> c, grant |-> h] \in RedeemState
  BY DEF RedeemState, Redeem
<1>2. ASSUME NEW c \in Code, NEW client \in Client, FetchCode(r, c, client) PROVE Shape'
  <2>1. codes[c] \in Grant
    BY <1>2 DEF FetchCode
  <2>2. redeem' \in [Redeemer -> RedeemState]
    BY <1>1, <1>2, <2>1 DEF FetchCode
  <2> QED BY <1>2, <2>2 DEF FetchCode
<1>3. CASE SpendCode(r)
  <2>1. redeem' \in [Redeemer -> RedeemState]
    BY <1>0, <1>1, <1>3 DEF SpendCode
  <2>2. codes' \in [DOMAIN codes' -> Grant]
    BY <1>3 DEF SpendCode, Without
  <2> QED BY <1>3, <2>1, <2>2 DEF SpendCode
<1>4. CASE CreateSession(r)
  <2> DEFINE q == redeem[r]
             g == [user |-> q.grant.user, client |-> q.grant.client,
                   scopes |-> q.grant.scopes \cap Permitted[q.grant.client]]
  <2>1. g \in Grant
    BY <1>0, <1>4, OfPair DEF CreateSession, Grant
  <2>2. PICK n : sessions' = sessions \cup {[code |-> q.code, nth |-> n, grant |-> g]}
    BY <1>4 DEF CreateSession
  <2> HIDE DEF g
  <2>3. \A s \in sessions' : s.grant \in Grant
    BY <2>1, <2>2
  <2>4. redeem' \in [Redeemer -> RedeemState]
    BY <1>1, <1>4 DEF CreateSession
  <2> QED BY <1>4, <2>3, <2>4 DEF CreateSession
<1> QED BY <1>2, <1>3, <1>4 DEF TokenStep

LEMMA ExpiryShape ==
  ASSUME Shape, NEW c \in Code, CodeExpires(c)
  PROVE  Shape'
<1>1. codes' \in [DOMAIN codes' -> Grant]
  BY DEF CodeExpires, Without, Shape
<1> QED BY <1>1 DEF CodeExpires, Shape

LEMMA CrashShape ==
  ASSUME Shape, Crash
  PROVE  Shape'
<1>1. \A f \in Flow : AfterFailure(flow[f]) \in FlowState
  BY FlowFields DEF Shape, AfterFailure, FlowState, Page
<1>2. flow' \in [Flow -> FlowState] /\ redeem' \in [Redeemer -> RedeemState]
  BY <1>1 DEF Crash, RedeemState
<1> QED BY <1>2 DEF Crash, Shape

LEMMA NextShape == ASSUME Shape, [Next]_vars PROVE Shape'
<1>1. CASE UNCHANGED vars
  BY <1>1 DEF vars, Shape
<1> QED BY <1>1, PageShape, TokenShape, ExpiryShape, CrashShape DEF Next
-----------------------------------------------------------------------------
(* Sessions carry what was approved.  Whatever leads to a session holds     *)
(* scopes the user approved: the consent array and what a page is about to  *)
(* write to it, a page past its check, a code, a token request.             *)

ConsentApproved == \A p \in Pair : Granted(p) \subseteq approved[p]

HeldApproved ==
  \A f \in Flow : flow[f].op \in Held => flow[f].grant.scopes \subseteq approved[Of(flow[f].grant)]

UniqueApproved ==
  \A f \in Flow : flow[f].op = "deduping" =>
    \A s \in Scope : flow[f].unique[s] > 0 => s \in approved[Of(flow[f].grant)]

CodesApproved == \A c \in DOMAIN codes : codes[c].scopes \subseteq approved[Of(codes[c])]

RedeemApproved ==
  \A r \in Redeemer : redeem[r].op # "idle" =>
    redeem[r].grant.scopes \subseteq approved[Of(redeem[r].grant)]

ApprovedInv ==
  /\ Shape
  /\ ConsentApproved /\ HeldApproved /\ UniqueApproved
  /\ CodesApproved /\ RedeemApproved
  /\ SessionsWereApproved

LEMMA InitApproved == ASSUME Init PROVE ApprovedInv
<1>1. Shape
  BY InitShape
<1> QED BY <1>1 DEF Init, ApprovedInv, ConsentApproved, HeldApproved, UniqueApproved,
                    CodesApproved, RedeemApproved, SessionsWereApproved, Granted, Held, Idle, Pair

\* Approval is never withdrawn, so what keeps its scopes keeps them approved.
LEMMA ApprovedGrows ==
  ASSUME Shape, NEW f \in Flow, Allow(f)
  PROVE  \A p \in Pair : approved[p] \subseteq approved'[p]
<1>1. Of(flow[f].grant) \in Pair
  BY FlowFields, OfPair DEF Allow, Shape
<1> QED BY <1>1 DEF Allow, Shape

LEMMA AllowApproved ==
  ASSUME ApprovedInv, NEW f \in Flow, Allow(f)
  PROVE  ApprovedInv'
<1> DEFINE g == flow[f].grant
<1>1. Shape /\ Shape'
  BY PageShape DEF ApprovedInv, PageStep
<1>2. /\ g \in Grant /\ Of(g) \in Pair
      /\ \A h \in Flow : flow[h].op # "idle" => Of(flow[h].grant) \in Pair
      /\ \A r \in Redeemer : redeem[r].op # "idle" => Of(redeem[r].grant) \in Pair
      /\ \A c \in DOMAIN codes : Of(codes[c]) \in Pair
      /\ \A s \in sessions : Of(s.grant) \in Pair
  BY <1>1, FlowFields, RedeemFields, OfPair DEF Allow, Shape
<1>3. \A p \in Pair : approved[p] \subseteq approved'[p]
  BY <1>1, ApprovedGrows
<1>4. /\ g.scopes \subseteq approved'[Of(g)]
      /\ flow'[f] = [op |-> "submitting", grant |-> g]
      /\ \A h \in Flow \ {f} : flow'[h] = flow[h]
  BY <1>1, <1>2 DEF Allow, Becomes, Shape
<1>5. ConsentApproved'
  BY <1>3 DEF Allow, ApprovedInv, ConsentApproved, Granted
<1>6. HeldApproved'
  <2>1. ASSUME NEW h \in Flow, flow'[h].op \in Held
        PROVE  flow'[h].grant.scopes \subseteq approved'[Of(flow'[h].grant)]
    <3>1. CASE h = f
      BY <1>4, <3>1
    <3>2. CASE h # f
      BY <1>2, <1>3, <1>4, <2>1, <3>2 DEF ApprovedInv, HeldApproved, Held
    <3> QED BY <3>1, <3>2
  <2> QED BY <2>1 DEF HeldApproved, Of
<1>7. UniqueApproved'
  BY <1>2, <1>3, <1>4 DEF ApprovedInv, UniqueApproved, Of
<1>8. CodesApproved'
  BY <1>2, <1>3 DEF Allow, ApprovedInv, CodesApproved, Of
<1>9. RedeemApproved'
  BY <1>2, <1>3 DEF Allow, ApprovedInv, RedeemApproved, Of
<1>10. SessionsWereApproved'
  BY <1>2, <1>3 DEF Allow, ApprovedInv, SessionsWereApproved, Of
<1> QED BY <1>1, <1>5, <1>6, <1>7, <1>8, <1>9, <1>10 DEF ApprovedInv
\* Any other step of a page: it moves to a state whose scopes are approved.
LEMMA PageMoveApproved ==
  ASSUME ApprovedInv, Shape', ConsentApproved', CodesApproved',
         UNCHANGED <<approved, redeem, sessions>>,
         NEW f \in Flow, NEW q \in FlowState, Becomes(f, q),
         q.op \in Held => q.grant.scopes \subseteq approved[Of(q.grant)],
         q.op = "deduping" =>
           \A s \in Scope : q.unique[s] > 0 => s \in approved[Of(q.grant)]
  PROVE  ApprovedInv'
<1>1. /\ flow'[f] = q
      /\ \A h \in Flow \ {f} : flow'[h] = flow[h]
  BY BecomesTyped DEF ApprovedInv, Shape
<1>2. HeldApproved'
  BY <1>1 DEF ApprovedInv, HeldApproved, Of
<1>3. UniqueApproved'
  BY <1>1 DEF ApprovedInv, UniqueApproved, Of
<1>4. RedeemApproved' /\ SessionsWereApproved'
  BY DEF ApprovedInv, RedeemApproved, SessionsWereApproved, Of
<1> QED BY <1>2, <1>3, <1>4 DEF ApprovedInv

LEMMA PageApproved ==
  ASSUME ApprovedInv, NEW f \in Flow, PageStep(f)
  PROVE  ApprovedInv'
<1> DEFINE g == flow[f].grant
<1>1. Shape /\ Shape'
  BY PageShape DEF ApprovedInv
<1>2. /\ flow[f].op # "idle" => g \in Grant /\ Of(g) \in Pair /\ g.scopes \subseteq Scope
      /\ flow[f].op = "deduping" => flow[f].unique \in Scopes
  BY <1>1, FlowFields, OfPair DEF Shape
<1>3. /\ Idle \in FlowState /\ Idle.op \notin Held \cup {"deduping"}
      /\ \A h \in Grant, op \in {"checking", "dialog", "submitting", "tidying", "issuing"} :
           [op |-> op, grant |-> h] \in FlowState
      /\ \A h \in Grant, a \in Scopes :
           [op |-> "deduping", grant |-> h, unique |-> a] \in FlowState
  BY DEF FlowState, Page, Idle, Held
<1>4. (UNCHANGED <<consent, approved>>) => ConsentApproved'
  BY DEF ApprovedInv, ConsentApproved, Granted
<1>5. (UNCHANGED <<codes, approved>>) => CodesApproved'
  BY DEF ApprovedInv, CodesApproved, Of
<1>6. flow[f].op \in Held => g.scopes \subseteq approved[Of(g)]
  BY DEF ApprovedInv, HeldApproved
<1>7. ASSUME NEW h \in Grant, OpenPage(f, h) PROVE ApprovedInv'
  <2>1. Becomes(f, [op |-> "checking", grant |-> h])
    BY <1>7 DEF OpenPage
  <2> QED BY <1>1, <1>3, <1>4, <1>5, <1>7, <2>1, PageMoveApproved DEF OpenPage, Held
<1>8. CASE ConsentSkipped(f)
  <2>1. g.scopes \subseteq approved[Of(g)]
    BY <1>2, <1>8 DEF ConsentSkipped, HasAllScopes, ApprovedInv, ConsentApproved
  <2>2. Becomes(f, [op |-> "submitting", grant |-> g])
    BY <1>8 DEF ConsentSkipped
  <2> QED BY <1>1, <1>2, <1>3, <1>4, <1>5, <1>8, <2>1, <2>2, PageMoveApproved
          DEF ConsentSkipped
<1>9. CASE ConsentRequired(f)
  <2>1. Becomes(f, [op |-> "dialog", grant |-> g])
    BY <1>9 DEF ConsentRequired
  <2> QED BY <1>1, <1>2, <1>3, <1>4, <1>5, <1>9, <2>1, PageMoveApproved
          DEF ConsentRequired, Held
<1>10. CASE Deny(f)
  BY <1>1, <1>3, <1>4, <1>5, <1>10, PageMoveApproved DEF Deny
<1>11. CASE Allow(f)
  BY <1>11, AllowApproved
<1>12. CASE PushScopes(f)
  <2>1. /\ g \in Grant /\ Of(g) \in Pair
        /\ g.scopes \subseteq approved[Of(g)]
        /\ Becomes(f, [op |-> "tidying", grant |-> g])
    BY <1>2, <1>6, <1>12 DEF PushScopes, Held
  <2>2. ConsentApproved'
    <3>1. ASSUME NEW p \in Pair, NEW s \in Scope, consent'[p][s] > 0
          PROVE  s \in approved[p]
      <4>1. CASE p = Of(g)
        <5>1. consent'[p][s] = consent[p][s] + IF s \in g.scopes THEN 1 ELSE 0
          BY <1>1, <1>12, <2>1, <4>1 DEF PushScopes, Shape, Scopes
        <5>2. consent[p][s] \in Nat
          BY <1>1 DEF Shape, Scopes
        <5> QED BY <2>1, <3>1, <4>1, <5>1, <5>2 DEF ApprovedInv, ConsentApproved, Granted
      <4>2. CASE p # Of(g)
        <5>1. consent'[p] = consent[p]
          BY <1>1, <1>12, <2>1, <4>2 DEF PushScopes, Shape
        <5> QED BY <3>1, <5>1 DEF ApprovedInv, ConsentApproved, Granted
      <4> QED BY <4>1, <4>2
    <3> QED BY <1>12, <3>1 DEF ConsentApproved, Granted, PushScopes
  <2> QED BY <1>1, <1>3, <1>5, <1>12, <2>1, <2>2, PageMoveApproved DEF PushScopes
<1>13. CASE ReadConsent(f)
  <2> DEFINE array == consent[Of(g)]
  <2>1. /\ g \in Grant /\ Of(g) \in Pair
        /\ g.scopes \subseteq approved[Of(g)]
    BY <1>2, <1>6, <1>13 DEF ReadConsent, Held
  <2>2. array \in Scopes
    BY <1>1, <2>1 DEF Shape
  <2>3. \A s \in Scope : Unique(array)[s] > 0 => s \in approved[Of(g)]
    BY <2>1, <2>2, UniqueScopes DEF ApprovedInv, ConsentApproved, Granted
  <2>4. Unique(array) \in Scopes
    BY <2>2, UniqueScopes
  <2>5. CASE Unique(array) = array
    <3>1. Becomes(f, [op |-> "issuing", grant |-> g])
      BY <1>13, <2>5 DEF ReadConsent
    <3> QED BY <1>1, <1>3, <1>4, <1>5, <1>13, <2>1, <3>1, PageMoveApproved DEF ReadConsent
  <2>6. CASE Unique(array) # array
    <3>1. Becomes(f, [op |-> "deduping", grant |-> g, unique |-> Unique(array)])
      BY <1>13, <2>6 DEF ReadConsent
    <3> QED BY <1>1, <1>3, <1>4, <1>5, <1>13, <2>1, <2>3, <2>4, <3>1, PageMoveApproved
            DEF ReadConsent
  <2> QED BY <2>5, <2>6
<1>14. CASE WriteUnique(f)
  <2>1. /\ g \in Grant /\ Of(g) \in Pair
        /\ g.scopes \subseteq approved[Of(g)]
        /\ Becomes(f, [op |-> "issuing", grant |-> g])
    BY <1>2, <1>6, <1>14 DEF WriteUnique, Held
  <2>2. /\ consent'[Of(g)] = flow[f].unique
        /\ \A p \in Pair \ {Of(g)} : consent'[p] = consent[p]
    BY <1>1, <1>14, <2>1 DEF WriteUnique, Shape
  <2>3. ConsentApproved'
    BY <1>14, <2>2 DEF ApprovedInv, ConsentApproved, UniqueApproved, Granted, WriteUnique
  <2> QED BY <1>1, <1>3, <1>5, <1>14, <2>1, <2>3, PageMoveApproved DEF WriteUnique
<1>15. ASSUME NEW c \in Code, IssueCode(f, c) PROVE ApprovedInv'
  <2>1. g \in Grant /\ g.scopes \subseteq approved[Of(g)] /\ Becomes(f, Idle)
    BY <1>2, <1>6, <1>15 DEF IssueCode, Held
  <2>2. CodesApproved'
    BY <1>15, <2>1 DEF ApprovedInv, CodesApproved, IssueCode, Of
  <2> QED BY <1>1, <1>3, <1>4, <1>15, <2>1, <2>2, PageMoveApproved DEF IssueCode
<1> QED BY <1>7, <1>8, <1>9, <1>10, <1>11, <1>12, <1>13, <1>14, <1>15 DEF PageStep
LEMMA TokenApproved ==
  ASSUME ApprovedInv, NEW r \in Redeemer, TokenStep(r)
  PROVE  ApprovedInv'
<1>1. Shape /\ Shape'
  BY TokenShape DEF ApprovedInv
<1>2. redeem[r].op # "idle" =>
        redeem[r].grant \in Grant /\ redeem[r].grant.scopes \subseteq approved[Of(redeem[r].grant)]
  BY <1>1, RedeemFields DEF ApprovedInv, RedeemApproved, Shape
<1>3. UNCHANGED <<consent, flow, approved>>
  BY DEF TokenStep, FetchCode, SpendCode, CreateSession
<1>4. ConsentApproved' /\ HeldApproved' /\ UniqueApproved'
  BY <1>3 DEF ApprovedInv, ConsentApproved, HeldApproved, UniqueApproved, Granted, Of
<1>5. ASSUME NEW c \in Code, NEW client \in Client, FetchCode(r, c, client) PROVE ApprovedInv'
  <2>1. codes[c].scopes \subseteq approved[Of(codes[c])]
    BY <1>5 DEF FetchCode, ApprovedInv, CodesApproved
  <2>2. redeem' = [redeem EXCEPT ![r] = [op |-> "spending", code |-> c, grant |-> codes[c]]]
    BY <1>5 DEF FetchCode
  <2>3. RedeemApproved'
    BY <1>1, <1>3, <2>1, <2>2 DEF ApprovedInv, RedeemApproved, Shape, Of
  <2>4. CodesApproved' /\ SessionsWereApproved'
    BY <1>5 DEF FetchCode, ApprovedInv, CodesApproved, SessionsWereApproved, Of
  <2> QED BY <1>1, <1>4, <2>3, <2>4 DEF ApprovedInv
<1>6. CASE SpendCode(r)
  <2>1. redeem' = [redeem EXCEPT ![r] =
                     [op |-> "creating", code |-> redeem[r].code, grant |-> redeem[r].grant]]
    BY <1>6 DEF SpendCode
  <2>2. RedeemApproved'
    BY <1>1, <1>2, <1>3, <1>6, <2>1 DEF SpendCode, ApprovedInv, RedeemApproved, Shape, Of
  <2>3. CodesApproved' /\ SessionsWereApproved'
    BY <1>6 DEF SpendCode, Without, ApprovedInv, CodesApproved, SessionsWereApproved, Of
  <2> QED BY <1>1, <1>4, <2>2, <2>3 DEF ApprovedInv
<1>7. CASE CreateSession(r)
  <2> DEFINE q == redeem[r]
             g == [user |-> q.grant.user, client |-> q.grant.client,
                   scopes |-> q.grant.scopes \cap Permitted[q.grant.client]]
  <2>1. g.scopes \subseteq approved[Of(g)] \cap Permitted[g.client]
    BY <1>2, <1>7 DEF CreateSession, Of
  <2>2. PICK n : sessions' = sessions \cup {[code |-> q.code, nth |-> n, grant |-> g]}
    BY <1>7 DEF CreateSession
  <2> HIDE DEF g
  <2>3. SessionsWereApproved'
    BY <1>3, <2>1, <2>2 DEF ApprovedInv, SessionsWereApproved, Of
  <2>4. RedeemApproved'
    BY <1>1, <1>3, <1>7 DEF CreateSession, ApprovedInv, RedeemApproved, Shape, Idle, Of
  <2>5. CodesApproved'
    BY <1>7 DEF CreateSession, ApprovedInv, CodesApproved, Of
  <2> QED BY <1>1, <1>4, <2>3, <2>4, <2>5 DEF ApprovedInv
<1> QED BY <1>5, <1>6, <1>7 DEF TokenStep

LEMMA ExpiryApproved ==
  ASSUME ApprovedInv, NEW c \in Code, CodeExpires(c)
  PROVE  ApprovedInv'
<1>1. Shape'
  BY ExpiryShape DEF ApprovedInv
<1> QED BY <1>1 DEF CodeExpires, Without, ApprovedInv, ConsentApproved, HeldApproved,
                    UniqueApproved, CodesApproved, RedeemApproved, SessionsWereApproved,
                    Granted, Of

LEMMA CrashApproved ==
  ASSUME ApprovedInv, Crash
  PROVE  ApprovedInv'
<1>1. Shape'
  BY CrashShape DEF ApprovedInv
<1>2. \A f \in Flow : AfterFailure(flow[f]).op \notin Held
  BY DEF AfterFailure, Held, Idle
<1>3. HeldApproved' /\ UniqueApproved'
  BY <1>2 DEF Crash, HeldApproved, UniqueApproved, Held
<1>4. ConsentApproved' /\ CodesApproved' /\ SessionsWereApproved' /\ RedeemApproved'
  BY DEF Crash, ApprovedInv, ConsentApproved, CodesApproved, RedeemApproved,
         SessionsWereApproved, Granted, Of, Idle
<1> QED BY <1>1, <1>3, <1>4 DEF ApprovedInv

LEMMA NextApproved == ASSUME ApprovedInv, [Next]_vars PROVE ApprovedInv'
<1>1. CASE UNCHANGED vars
  <2>1. Shape'
    BY <1>1, NextShape DEF ApprovedInv
  <2> QED BY <1>1, <2>1 DEF vars, ApprovedInv, ConsentApproved, HeldApproved,
             UniqueApproved, CodesApproved, RedeemApproved, SessionsWereApproved, Granted, Of
<1> QED BY <1>1, PageApproved, TokenApproved, ExpiryApproved, CrashApproved DEF Next

\* A session carries only scopes its user allowed its client in the dialog, and
\* that the client may have: whatever pages, token requests and restarts do.
THEOREM SessionsCarryConsent == Spec => []SessionsWereApproved
<1>1. Init => ApprovedInv
  BY InitApproved
<1>2. ApprovedInv /\ [Next]_vars => ApprovedInv'
  BY NextApproved
<1>3. ApprovedInv => SessionsWereApproved
  BY DEF ApprovedInv
<1> QED BY <1>1, <1>2, <1>3, PTL DEF Spec

-----------------------------------------------------------------------------
(* The consent array.  Duplicates are there only while some page is between *)
(* its push and its clean-up, and what a clean-up is about to write has     *)
(* none.                                                                    *)

UniqueTidy ==
  \A f \in Flow : flow[f].op = "deduping" => flow[f].unique = Unique(flow[f].unique)

TidyInv == Shape /\ UniqueTidy /\ ConsentTidy

LEMMA UniqueTwice ==
  ASSUME NEW array \in Scopes
  PROVE  Unique(array) = Unique(Unique(array))
  BY DEF Scopes, Unique

LEMMA InitTidy == ASSUME Init PROVE TidyInv
<1>1. Shape
  BY InitShape
<1> QED BY <1>1 DEF Init, TidyInv, UniqueTidy, ConsentTidy, Unique, Idle, Pair

\* A step of page f that leaves the arrays alone keeps them tidy, unless it
\* leaves the clean-up of an array that is not.
LEMMA PageMoveTidy ==
  ASSUME TidyInv, Shape', NEW f \in Flow, NEW q \in FlowState, Becomes(f, q),
         UNCHANGED crashes,
         q.op = "deduping" => q.unique = Unique(q.unique),
         \A p \in Pair :
           \/ consent'[p] = Unique(consent'[p])
           \/ q.op \in {"tidying", "deduping"} /\ Of(q.grant) = p
           \/ /\ consent'[p] = consent[p]
              /\ flow[f].op \in {"tidying", "deduping"} => Of(flow[f].grant) # p
  PROVE  TidyInv'
<1>1. /\ flow'[f] = q
      /\ \A h \in Flow \ {f} : flow'[h] = flow[h]
  BY BecomesTyped DEF TidyInv, Shape
<1>2. UniqueTidy'
  BY <1>1 DEF TidyInv, UniqueTidy, Unique
<1>3. ASSUME crashes' = 0, NEW p \in Pair,
             \A h \in Flow : flow'[h].op \in {"tidying", "deduping"} => Of(flow'[h].grant) # p
      PROVE  consent'[p] = Unique(consent'[p])
  <2>1. CASE consent'[p] = consent[p]
               /\ (flow[f].op \in {"tidying", "deduping"} => Of(flow[f].grant) # p)
    <3>1. \A h \in Flow : flow[h].op \in {"tidying", "deduping"} => Of(flow[h].grant) # p
      BY <1>1, <1>3, <2>1
    <3> QED BY <1>3, <2>1, <3>1 DEF TidyInv, ConsentTidy
  <2> QED BY <1>1, <1>3, <2>1
<1>4. ConsentTidy'
  BY <1>3 DEF ConsentTidy, Unique, Of
<1> QED BY <1>2, <1>4 DEF TidyInv
LEMMA PageTidy ==
  ASSUME TidyInv, NEW f \in Flow, PageStep(f)
  PROVE  TidyInv'
<1> DEFINE g == flow[f].grant
<1>1. Shape /\ Shape'
  BY PageShape DEF TidyInv
<1>2. /\ flow[f].op # "idle" => g \in Grant /\ Of(g) \in Pair
      /\ flow[f].op = "deduping" => flow[f].unique \in Scopes
  BY <1>1, FlowFields, OfPair DEF Shape
<1>3. /\ Idle \in FlowState /\ Idle.op = "idle"
      /\ \A h \in Grant, op \in {"checking", "dialog", "submitting", "tidying", "issuing"} :
           [op |-> op, grant |-> h] \in FlowState
      /\ \A h \in Grant, a \in Scopes :
           [op |-> "deduping", grant |-> h, unique |-> a] \in FlowState
  BY DEF FlowState, Page, Idle
<1>4. ASSUME NEW h \in Grant, OpenPage(f, h) PROVE TidyInv'
  <2>1. Becomes(f, [op |-> "checking", grant |-> h])
    BY <1>4 DEF OpenPage
  <2> QED BY <1>1, <1>3, <1>4, <2>1, PageMoveTidy DEF OpenPage, Idle
<1>5. CASE ConsentSkipped(f) \/ Allow(f)
  <2>1. Becomes(f, [op |-> "submitting", grant |-> g])
    BY <1>5 DEF ConsentSkipped, Allow
  <2> QED BY <1>1, <1>2, <1>3, <1>5, <2>1, PageMoveTidy DEF ConsentSkipped, Allow
<1>6. CASE ConsentRequired(f)
  <2>1. Becomes(f, [op |-> "dialog", grant |-> g])
    BY <1>6 DEF ConsentRequired
  <2> QED BY <1>1, <1>2, <1>3, <1>6, <2>1, PageMoveTidy DEF ConsentRequired
<1>7. CASE Deny(f)
  BY <1>1, <1>3, <1>7, PageMoveTidy DEF Deny
<1>8. CASE PushScopes(f)
  <2>1. g \in Grant /\ Of(g) \in Pair /\ Becomes(f, [op |-> "tidying", grant |-> g])
    BY <1>2, <1>8 DEF PushScopes
  <2>2. \A p \in Pair \ {Of(g)} : consent'[p] = consent[p]
    BY <1>1, <1>8, <2>1 DEF PushScopes, Shape
  <2> QED BY <1>1, <1>3, <1>8, <2>1, <2>2, PageMoveTidy DEF PushScopes
<1>9. CASE ReadConsent(f)
  <2> DEFINE array == consent[Of(g)]
  <2>1. g \in Grant /\ Of(g) \in Pair /\ array \in Scopes /\ UNCHANGED <<consent, crashes>>
    BY <1>1, <1>2, <1>9 DEF ReadConsent, Shape
  <2>2. CASE Unique(array) = array
    <3>1. Becomes(f, [op |-> "issuing", grant |-> g])
      BY <1>9, <2>2 DEF ReadConsent
    <3> QED BY <1>1, <1>3, <2>1, <2>2, <3>1, PageMoveTidy
  <2>3. CASE Unique(array) # array
    <3>1. Becomes(f, [op |-> "deduping", grant |-> g, unique |-> Unique(array)])
      BY <1>9, <2>3 DEF ReadConsent
    <3>2. Unique(array) \in Scopes /\ Unique(array) = Unique(Unique(array))
      BY <2>1, UniqueScopes, UniqueTwice
    <3> QED BY <1>1, <1>3, <2>1, <3>1, <3>2, PageMoveTidy
  <2> QED BY <2>2, <2>3
<1>10. CASE WriteUnique(f)
  <2>1. g \in Grant /\ Of(g) \in Pair /\ Becomes(f, [op |-> "issuing", grant |-> g])
    BY <1>2, <1>10 DEF WriteUnique
  <2>2. /\ consent'[Of(g)] = flow[f].unique
        /\ \A p \in Pair \ {Of(g)} : consent'[p] = consent[p]
    BY <1>1, <1>10, <2>1 DEF WriteUnique, Shape
  <2>3. flow[f].unique = Unique(flow[f].unique)
    BY <1>10 DEF WriteUnique, TidyInv, UniqueTidy
  <2>4. \A p \in Pair :
          \/ consent'[p] = Unique(consent'[p])
          \/ consent'[p] = consent[p] /\ (flow[f].op \in {"tidying", "deduping"} => Of(g) # p)
    <3>1. ASSUME NEW p \in Pair, p = Of(g) PROVE consent'[p] = Unique(consent'[p])
      <4>1. consent'[p] = flow[f].unique
        BY <2>2, <3>1
      <4> QED BY <2>3, <4>1
    <3>2. ASSUME NEW p \in Pair, p # Of(g) PROVE consent'[p] = consent[p]
      BY <2>2, <3>2
    <3> QED BY <3>1, <3>2
  <2>5. UNCHANGED crashes
    BY <1>10 DEF WriteUnique
  <2> DEFINE q == [op |-> "issuing", grant |-> g]
  <2>6. q \in FlowState /\ q.op = "issuing" /\ Becomes(f, q)
    BY <1>3, <2>1
  <2> HIDE DEF q
  <2> QED BY <1>1, <2>4, <2>5, <2>6, PageMoveTidy
<1>11. ASSUME NEW c \in Code, IssueCode(f, c) PROVE TidyInv'
  BY <1>1, <1>3, <1>11, PageMoveTidy DEF IssueCode
<1> QED BY <1>4, <1>5, <1>6, <1>7, <1>8, <1>9, <1>10, <1>11 DEF PageStep

LEMMA NextTidy == ASSUME TidyInv, [Next]_vars PROVE TidyInv'
<1>1. Shape'
  BY NextShape DEF TidyInv
<1>2. ASSUME UNCHANGED <<consent, flow, crashes>> PROVE TidyInv'
  BY <1>1, <1>2 DEF TidyInv, UniqueTidy, ConsentTidy, Unique, Of
<1>3. CASE UNCHANGED vars
  BY <1>2, <1>3 DEF vars
<1>4. ASSUME NEW r \in Redeemer, TokenStep(r) PROVE TidyInv'
  BY <1>2, <1>4 DEF TokenStep, FetchCode, SpendCode, CreateSession
<1>5. ASSUME NEW c \in Code, CodeExpires(c) PROVE TidyInv'
  BY <1>2, <1>5 DEF CodeExpires
<1>6. CASE Crash
  <2>1. crashes' # 0
    BY <1>6 DEF Crash, TidyInv, Shape
  <2>2. \A f \in Flow : flow'[f].op # "deduping"
    BY <1>6 DEF Crash, AfterFailure, Idle
  <2> QED BY <1>1, <2>1, <2>2 DEF TidyInv, UniqueTidy, ConsentTidy
<1> QED BY <1>3, <1>4, <1>5, <1>6, PageTidy DEF Next

\* Without a restart, the consent array has no duplicates once no page is
\* between its push and its clean-up: however many pages write it at once.
THEOREM ConsentStaysTidy == Spec => []ConsentTidy
<1>1. Init => TidyInv
  BY InitTidy
<1>2. TidyInv /\ [Next]_vars => TidyInv'
  BY NextTidy
<1>3. TidyInv => ConsentTidy
  BY DEF TidyInv
<1> QED BY <1>1, <1>2, <1>3, PTL DEF Spec

-----------------------------------------------------------------------------
(* Remembered consent.  A page between its push and its code finds its      *)
(* scopes in the array, unless it is exposed; and what a clean-up is about  *)
(* to write holds them too, with everything that was settled before.        *)

Pushed == {"tidying", "deduping", "issuing"}

Kept(h) == {s \in Scope : flow[h].unique[s] > 0}

PushedGranted ==
  \A f \in Flow \ exposed : flow[f].op \in Pushed =>
    flow[f].grant.scopes \subseteq Granted(Of(flow[f].grant))

CleanUpKeeps ==
  \A h \in Flow : flow[h].op = "deduping" =>
    /\ settled[Of(flow[h].grant)] \subseteq Kept(h)
    /\ \A f \in Flow \ exposed :
         flow[f].op \in Pushed /\ Of(flow[f].grant) = Of(flow[h].grant)
           => flow[f].grant.scopes \subseteq Kept(h)

RememberedInv == Shape /\ PushedGranted /\ CleanUpKeeps /\ ConsentRemembered

LEMMA InitRemembered == ASSUME Init PROVE RememberedInv
<1>1. Shape
  BY InitShape
<1> QED BY <1>1 DEF Init, RememberedInv, PushedGranted, CleanUpKeeps, ConsentRemembered,
                    Pushed, Idle, Pair

LEMMA PushRemembered ==
  ASSUME RememberedInv, NEW f \in Flow, PushScopes(f)
  PROVE  RememberedInv'
<1> DEFINE g == flow[f].grant
<1>1. Shape /\ Shape'
  BY PageShape DEF RememberedInv, PageStep
<1>2. g \in Grant /\ Of(g) \in Pair /\ g.scopes \subseteq Scope
  BY <1>1, FlowFields, OfPair DEF PushScopes, Shape
<1>3. \A h \in Flow : flow[h].op # "idle" => Of(flow[h].grant) \in Pair
  BY <1>1, FlowFields, OfPair DEF Shape
<1>4. /\ flow'[f] = [op |-> "tidying", grant |-> g]
      /\ \A h \in Flow \ {f} : flow'[h] = flow[h]
  BY <1>1 DEF PushScopes, Becomes, Shape
<1>5. ASSUME NEW p \in Pair, NEW s \in Scope, consent[p][s] > 0 PROVE consent'[p][s] > 0
  <2>1. consent[p][s] \in Nat
    BY <1>1 DEF Shape, Scopes
  <2>2. CASE p = Of(g)
    <3>1. consent'[p][s] = consent[p][s] + IF s \in g.scopes THEN 1 ELSE 0
      BY <1>1, <1>2, <2>2 DEF PushScopes, Shape
    <3> QED BY <1>5, <2>1, <3>1
  <2>3. CASE p # Of(g)
    BY <1>1, <1>2, <1>5, <2>3 DEF PushScopes, Shape
  <2> QED BY <2>2, <2>3
<1>6. ASSUME NEW s \in g.scopes PROVE s \in Scope /\ consent'[Of(g)][s] > 0
  <2>1. s \in Scope /\ consent[Of(g)][s] \in Nat
    BY <1>1, <1>2 DEF Shape, Scopes
  <2>2. consent'[Of(g)][s] = consent[Of(g)][s] + 1
    BY <1>1, <1>2, <2>1 DEF PushScopes, Shape
  <2> QED BY <2>1, <2>2
<1>7. PushedGranted'
  <2>1. ASSUME NEW h \in Flow \ exposed', flow'[h].op \in Pushed,
               NEW s \in flow'[h].grant.scopes
        PROVE  s \in Scope /\ consent'[Of(flow'[h].grant)][s] > 0
    <3>1. CASE h = f
      <4>1. flow'[h].grant = g
        BY <1>4, <3>1
      <4> QED BY <1>6, <2>1, <4>1
    <3>2. CASE h # f
      <4>1. h \notin exposed /\ flow'[h] = flow[h] /\ Of(flow[h].grant) \in Pair
        BY <1>3, <1>4, <2>1, <3>2 DEF PushScopes, Pushed
      <4>2. s \in Scope /\ consent[Of(flow[h].grant)][s] > 0
        BY <2>1, <4>1 DEF RememberedInv, PushedGranted, Granted
      <4> QED BY <1>5, <4>1, <4>2
    <3> QED BY <3>1, <3>2
  <2> QED BY <2>1 DEF PushedGranted, Of, Granted
<1>8. CleanUpKeeps'
  <2>1. ASSUME NEW h \in Flow, flow'[h].op = "deduping"
        PROVE  /\ h # f /\ flow'[h] = flow[h] /\ settled' = settled
               /\ Of(flow[h].grant) = Of(g) => f \in exposed'
               /\ exposed \subseteq exposed'
    BY <1>4, <2>1 DEF PushScopes
  <2>2. ASSUME NEW h \in Flow, flow'[h].op = "deduping", NEW k \in Flow \ exposed',
               flow'[k].op \in Pushed, Of(flow'[k].grant) = Of(flow'[h].grant)
        PROVE  flow'[k].grant.scopes \subseteq Kept(h)
    <3>1. k # f
      BY <1>4, <2>1, <2>2
    <3>2. flow'[k] = flow[k] /\ k \in Flow \ exposed
      BY <1>4, <2>1, <2>2, <3>1
    <3> QED BY <2>1, <2>2, <3>2 DEF RememberedInv, CleanUpKeeps
  <2>3. \A h \in Flow : flow'[h].op = "deduping" => Kept(h)' = Kept(h)
    BY <2>1 DEF Kept
  <2> QED BY <2>1, <2>2, <2>3 DEF RememberedInv, CleanUpKeeps, Of
<1>9. ConsentRemembered'
  BY <1>5 DEF PushScopes, RememberedInv, ConsentRemembered, Granted
<1> QED BY <1>1, <1>7, <1>8, <1>9 DEF RememberedInv


\* A page that moves to a phase before the push, or ends, leaves what the
\* others rely on.
LEMMA PageMoveRemembered ==
  ASSUME RememberedInv, Shape', NEW f \in Flow, NEW q \in FlowState, Becomes(f, q),
         q.op \notin Pushed, UNCHANGED <<consent, settled, exposed>>
  PROVE  RememberedInv'
<1>1. /\ flow'[f] = q /\ q.op # "deduping"
      /\ \A h \in Flow \ {f} : flow'[h] = flow[h]
  BY BecomesTyped DEF RememberedInv, Shape, Pushed
<1>2. PushedGranted'
  BY <1>1 DEF RememberedInv, PushedGranted, Granted, Of
<1>3. CleanUpKeeps'
  BY <1>1 DEF RememberedInv, CleanUpKeeps, Kept, Of
<1> QED BY <1>2, <1>3 DEF RememberedInv, ConsentRemembered, Granted

LEMMA ReadRemembered ==
  ASSUME RememberedInv, NEW f \in Flow, ReadConsent(f)
  PROVE  RememberedInv'
<1> DEFINE g == flow[f].grant
           array == consent[Of(g)]
<1>1. Shape /\ Shape'
  BY PageShape DEF RememberedInv, PageStep
<1>2. g \in Grant /\ Of(g) \in Pair /\ array \in Scopes
  BY <1>1, FlowFields, OfPair DEF ReadConsent, Shape
<1>3. /\ flow'[f].grant = g
      /\ flow'[f].op = "issuing" \/ (flow'[f].op = "deduping" /\ flow'[f].unique = Unique(array))
      /\ \A h \in Flow \ {f} : flow'[h] = flow[h]
      /\ \A h \in Flow : flow'[h].grant = flow[h].grant
      /\ UNCHANGED <<consent, settled, exposed>>
  BY <1>1 DEF ReadConsent, Becomes, Shape
<1>4. flow[f].op \in Pushed
  BY DEF ReadConsent, Pushed
<1>5. PushedGranted'
  <2>1. \A h \in Flow : flow'[h].op \in Pushed => flow[h].op \in Pushed
    BY <1>3, <1>4
  <2> QED BY <1>3, <2>1 DEF RememberedInv, PushedGranted, Granted, Of
<1>6. ASSUME NEW h \in Flow, flow'[h].op = "deduping"
      PROVE  /\ settled[Of(flow[h].grant)] \subseteq Kept(h)'
             /\ \A k \in Flow \ exposed :
                  flow[k].op \in Pushed /\ Of(flow[k].grant) = Of(flow[h].grant)
                    => flow[k].grant.scopes \subseteq Kept(h)'
  <2>1. CASE h = f
    <3>1. \A s \in Scope : s \in Kept(f)' <=> consent[Of(g)][s] > 0
      BY <1>2, <1>3, <1>6, <2>1, UniqueScopes DEF Kept
    <3>2. Kept(f)' = Granted(Of(g))
      BY <3>1 DEF Kept, Granted
    <3> QED BY <1>2, <2>1, <3>2 DEF RememberedInv, ConsentRemembered, PushedGranted
  <2>2. CASE h # f
    <3>1. flow'[h] = flow[h] /\ Kept(h)' = Kept(h)
      BY <1>3, <2>2 DEF Kept
    <3> QED BY <1>6, <3>1 DEF RememberedInv, CleanUpKeeps
  <2> QED BY <2>1, <2>2
<1>7. CleanUpKeeps'
  <2>1. \A k \in Flow : flow'[k].op \in Pushed => flow[k].op \in Pushed
    BY <1>3, <1>4
  <2> QED BY <1>3, <1>6, <2>1 DEF CleanUpKeeps, Of
<1> QED BY <1>1, <1>3, <1>5, <1>7 DEF RememberedInv, ConsentRemembered, Granted

LEMMA WriteRemembered ==
  ASSUME RememberedInv, NEW f \in Flow, WriteUnique(f)
  PROVE  RememberedInv'
<1> DEFINE g == flow[f].grant
<1>1. Shape /\ Shape'
  BY PageShape DEF RememberedInv, PageStep
<1>2. g \in Grant /\ Of(g) \in Pair
  BY <1>1, FlowFields, OfPair DEF WriteUnique, Shape
<1>3. /\ flow'[f] = [op |-> "issuing", grant |-> g]
      /\ \A h \in Flow \ {f} : flow'[h] = flow[h]
      /\ UNCHANGED <<settled, exposed>>
  BY <1>1 DEF WriteUnique, Becomes, Shape
<1>4. flow[f].op = "deduping"
  BY DEF WriteUnique
<1>5. /\ consent'[Of(g)] = flow[f].unique
      /\ \A p \in Pair \ {Of(g)} : consent'[p] = consent[p]
  BY <1>1, <1>2 DEF WriteUnique, Shape
<1>6. \A h \in Flow : /\ flow'[h].grant = flow[h].grant
                      /\ flow'[h].op \in Pushed => flow[h].op \in Pushed
  BY <1>3, <1>4 DEF Pushed
<1>7. ASSUME NEW h \in Flow \ exposed, flow[h].op \in Pushed, NEW s \in flow[h].grant.scopes
      PROVE  s \in Scope /\ consent'[Of(flow[h].grant)][s] > 0
  <2>1. CASE Of(flow[h].grant) = Of(g)
    <3>1. s \in Kept(f)
      BY <1>4, <1>7, <2>1 DEF RememberedInv, CleanUpKeeps
    <3> QED BY <1>5, <2>1, <3>1 DEF Kept
  <2>2. CASE Of(flow[h].grant) # Of(g)
    <3>1. Of(flow[h].grant) \in Pair
      BY <1>1, <1>7, FlowFields, OfPair DEF Shape, Pushed
    <3>2. consent'[Of(flow[h].grant)] = consent[Of(flow[h].grant)]
      BY <1>5, <2>2, <3>1
    <3> QED BY <1>7, <3>2 DEF RememberedInv, PushedGranted, Granted
  <2> QED BY <2>1, <2>2
<1>8. PushedGranted'
  BY <1>3, <1>6, <1>7 DEF PushedGranted, Granted, Of
<1>9. CleanUpKeeps'
  <2>1. ASSUME NEW h \in Flow, flow'[h].op = "deduping"
        PROVE  flow[h].op = "deduping" /\ Kept(h)' = Kept(h)
    BY <1>3, <2>1 DEF Kept
  <2> QED BY <1>3, <1>6, <2>1 DEF RememberedInv, CleanUpKeeps, Of
<1>10. ASSUME NEW p \in Pair, NEW s \in settled[p]
       PROVE  s \in Scope /\ consent'[p][s] > 0
  <2>1. CASE p = Of(g)
    <3>1. s \in Kept(f)
      BY <1>4, <1>10, <2>1 DEF RememberedInv, CleanUpKeeps
    <3> QED BY <1>5, <2>1, <3>1 DEF Kept
  <2>2. CASE p # Of(g)
    BY <1>5, <1>10, <2>2 DEF RememberedInv, ConsentRemembered, Granted
  <2> QED BY <2>1, <2>2
<1>11. ConsentRemembered'
  BY <1>3, <1>10 DEF ConsentRemembered, Granted
<1> QED BY <1>1, <1>8, <1>9, <1>11 DEF RememberedInv

LEMMA IssueRemembered ==
  ASSUME RememberedInv, NEW f \in Flow, NEW c \in Code, IssueCode(f, c)
  PROVE  RememberedInv'
<1> DEFINE g == flow[f].grant
<1>1. Shape /\ Shape'
  BY PageShape DEF RememberedInv, PageStep
<1>2. g \in Grant /\ Of(g) \in Pair /\ flow[f].op \in Pushed
  BY <1>1, FlowFields, OfPair DEF IssueCode, Shape, Pushed
<1>3. /\ flow'[f] = Idle /\ Idle.op \notin Pushed
      /\ \A h \in Flow \ {f} : flow'[h] = flow[h]
      /\ exposed' = exposed \ {f}
      /\ UNCHANGED consent
  BY <1>1 DEF IssueCode, Becomes, Shape, Idle, Pushed
<1>4. \A h \in Flow : flow'[h].op \in Pushed => h # f /\ flow'[h] = flow[h]
  BY <1>3
<1>5. PushedGranted'
  BY <1>3, <1>4 DEF RememberedInv, PushedGranted, Granted, Of
<1>6. \A p \in Pair : settled'[p] \subseteq
        settled[p] \cup (IF p = Of(g) /\ f \notin exposed THEN g.scopes ELSE {})
  BY <1>1, <1>2 DEF IssueCode, Shape
<1>7. ConsentRemembered'
  BY <1>2, <1>3, <1>6 DEF RememberedInv, PushedGranted, ConsentRemembered, Granted
<1>8. CleanUpKeeps'
  <2>1. ASSUME NEW h \in Flow, flow'[h].op = "deduping"
        PROVE  flow'[h] = flow[h] /\ Kept(h)' = Kept(h) /\ Of(flow[h].grant) \in Pair
    BY <1>1, <1>4, <2>1, FlowFields, OfPair DEF Kept, Pushed, Shape
  <2>2. ASSUME NEW h \in Flow, flow'[h].op = "deduping"
        PROVE  settled'[Of(flow[h].grant)] \subseteq Kept(h)
    BY <1>2, <1>6, <2>1, <2>2 DEF RememberedInv, CleanUpKeeps
  <2> QED BY <1>3, <1>4, <2>1, <2>2 DEF RememberedInv, CleanUpKeeps, Of
<1> QED BY <1>1, <1>5, <1>7, <1>8 DEF RememberedInv

LEMMA PageRemembered ==
  ASSUME RememberedInv, NEW f \in Flow, PageStep(f)
  PROVE  RememberedInv'
<1> DEFINE g == flow[f].grant
<1>1. Shape /\ Shape'
  BY PageShape DEF RememberedInv
<1>2. flow[f].op # "idle" => g \in Grant
  BY <1>1, FlowFields DEF Shape
<1>3. /\ Idle \in FlowState /\ Idle.op \notin Pushed
      /\ \A h \in Grant, op \in {"checking", "dialog", "submitting"} :
           [op |-> op, grant |-> h] \in FlowState
  BY DEF FlowState, Page, Idle, Pushed
<1>4. ASSUME NEW h \in Grant, OpenPage(f, h) PROVE RememberedInv'
  <2>1. Becomes(f, [op |-> "checking", grant |-> h])
    BY <1>4 DEF OpenPage
  <2> QED BY <1>1, <1>3, <1>4, <2>1, PageMoveRemembered DEF OpenPage, Pushed
<1>5. CASE ConsentSkipped(f) \/ Allow(f)
  <2>1. Becomes(f, [op |-> "submitting", grant |-> g])
    BY <1>5 DEF ConsentSkipped, Allow
  <2> QED BY <1>1, <1>2, <1>3, <1>5, <2>1, PageMoveRemembered DEF ConsentSkipped, Allow, Pushed
<1>6. CASE ConsentRequired(f)
  <2>1. Becomes(f, [op |-> "dialog", grant |-> g])
    BY <1>6 DEF ConsentRequired
  <2> QED BY <1>1, <1>2, <1>3, <1>6, <2>1, PageMoveRemembered DEF ConsentRequired, Pushed
<1>7. CASE Deny(f)
  BY <1>1, <1>3, <1>7, PageMoveRemembered DEF Deny
<1> QED BY <1>4, <1>5, <1>6, <1>7, PushRemembered, ReadRemembered, WriteRemembered,
           IssueRemembered DEF PageStep

LEMMA NextRemembered == ASSUME RememberedInv, [Next]_vars PROVE RememberedInv'
<1>1. Shape'
  BY NextShape DEF RememberedInv
<1>2. ASSUME UNCHANGED <<consent, flow, settled, exposed>> PROVE RememberedInv'
  BY <1>1, <1>2 DEF RememberedInv, PushedGranted, CleanUpKeeps, ConsentRemembered,
                    Granted, Kept, Of
<1>3. CASE UNCHANGED vars
  BY <1>2, <1>3 DEF vars
<1>4. ASSUME NEW r \in Redeemer, TokenStep(r) PROVE RememberedInv'
  BY <1>2, <1>4 DEF TokenStep, FetchCode, SpendCode, CreateSession
<1>5. ASSUME NEW c \in Code, CodeExpires(c) PROVE RememberedInv'
  BY <1>2, <1>5 DEF CodeExpires
<1>6. CASE Crash
  <2>1. \A f \in Flow : flow'[f].op \notin Pushed /\ flow'[f].op # "deduping"
    BY <1>6 DEF Crash, AfterFailure, Idle, Pushed
  <2>2. UNCHANGED <<consent, settled>>
    BY <1>6 DEF Crash
  <2> QED BY <1>1, <2>1, <2>2 DEF RememberedInv, PushedGranted, CleanUpKeeps,
             ConsentRemembered, Granted
<1> QED BY <1>3, <1>4, <1>5, <1>6, PageRemembered DEF Next

\* Consent that was given is not asked for again: the array holds the scopes of
\* every completed authorization, but for those pushed between the read and the
\* write of another page's clean-up, which are the only ones it can lose.
THEOREM ConsentIsRemembered == Spec => []ConsentRemembered
<1>1. Init => RememberedInv
  BY InitRemembered
<1>2. RememberedInv /\ [Next]_vars => RememberedInv'
  BY NextRemembered
<1>3. RememberedInv => ConsentRemembered
  BY DEF RememberedInv
<1> QED BY <1>1, <1>2, <1>3, PTL DEF Spec

-----------------------------------------------------------------------------
(* A second session of a code comes only from requests that shared it.  A    *)
(* code that was drawn is not drawn again, so what a request holds past its  *)
(* del is in Redis no more; and two requests that hold one code at a time,   *)
(* or one that holds a code which has its session, have shared it.           *)

Drawn ==
  /\ DOMAIN codes \cup Fetched \subseteq issued
  /\ \A s \in sessions : s.code \in issued

Deleted == \A r \in Redeemer : redeem[r].op = "creating" => redeem[r].code \notin DOMAIN codes

HeldShared ==
  \A r, q \in Redeemer :
    redeem[r].op # "idle" /\ redeem[q].op # "idle" /\ redeem[r].code = redeem[q].code
      => r = q \/ redeem[r].code \in shared

UsedShared ==
  \A r \in Redeemer, s \in sessions :
    redeem[r].op # "idle" /\ redeem[r].code = s.code => s.code \in shared

OneTimeInv == Shape /\ Drawn /\ Deleted /\ HeldShared /\ UsedShared /\ CodesAreOneTime

LEMMA RedeemBusy ==
  ASSUME NEW r \in Redeemer, redeem[r].op # "idle"
  PROVE  redeem[r] # Idle /\ redeem[r].code \in Fetched
<1>1. redeem[r] # Idle
  BY DEF Idle
<1> QED BY <1>1 DEF Fetched

LEMMA InitOneTime == ASSUME Init PROVE OneTimeInv
<1>1. Fetched = {} /\ DOMAIN codes = {} /\ issued = {} /\ sessions = {}
  BY DEF Init, Fetched
<1>2. \A r \in Redeemer : redeem[r].op = "idle"
  BY DEF Init, Idle
<1> QED BY <1>1, <1>2, InitShape
        DEF OneTimeInv, Drawn, Deleted, HeldShared, UsedShared, CodesAreOneTime

\* The code that a page draws was never drawn before.
LEMMA IssueOneTime ==
  ASSUME OneTimeInv, Shape', NEW f \in Flow, NEW c \in Code, IssueCode(f, c)
  PROVE  OneTimeInv'
<1>1. /\ c \notin issued /\ issued' = issued \cup {c}
      /\ DOMAIN codes' = DOMAIN codes \cup {c}
      /\ UNCHANGED <<redeem, sessions, shared>>
  BY DEF IssueCode
<1>2. Fetched' = Fetched
  BY <1>1 DEF Fetched
<1>3. Drawn'
  BY <1>1, <1>2 DEF OneTimeInv, Drawn
<1>4. Deleted'
  <2>1. ASSUME NEW r \in Redeemer, redeem[r].op = "creating"
        PROVE  redeem[r].code \notin DOMAIN codes'
    <3>1. redeem[r].code \in issued
      BY <2>1, RedeemBusy DEF OneTimeInv, Drawn
    <3> QED BY <1>1, <2>1, <3>1 DEF OneTimeInv, Deleted
  <2> QED BY <1>1, <2>1 DEF Deleted
<1>5. HeldShared' /\ UsedShared'
  BY <1>1 DEF OneTimeInv, HeldShared, UsedShared
<1>6. CodesAreOneTime'
  BY <1>1 DEF OneTimeInv, Drawn, CodesAreOneTime
<1> QED BY <1>3, <1>4, <1>5, <1>6 DEF OneTimeInv

\* A code that is still in Redis has no session, and one that another request
\* holds is shared from now on.
LEMMA FetchOneTime ==
  ASSUME OneTimeInv, Shape', NEW r \in Redeemer, NEW c \in Code, NEW client \in Client,
         FetchCode(r, c, client)
  PROVE  OneTimeInv'
<1> DEFINE q == [op |-> "spending", code |-> c, grant |-> codes[c]]
<1>1. /\ redeem[r] = Idle /\ c \in DOMAIN codes
      /\ redeem' = [redeem EXCEPT ![r] = q]
      /\ shared' = shared \cup (Fetched \cap {c})
      /\ UNCHANGED <<codes, sessions, issued>>
  BY DEF FetchCode
<1>2. q.op = "spending" /\ q.code = c
  OBVIOUS
<1> HIDE DEF q
<1>3. redeem'[r] = q /\ \A x \in Redeemer \ {r} : redeem'[x] = redeem[x]
  BY <1>1 DEF OneTimeInv, Shape
<1>4. \A x \in Fetched' : x = c \/ x \in Fetched
  BY <1>2, <1>3 DEF Fetched
<1>5. Drawn'
  BY <1>1, <1>4 DEF OneTimeInv, Drawn
<1>6. Deleted'
  BY <1>1, <1>2, <1>3 DEF OneTimeInv, Deleted
<1>7. \A x \in Redeemer : redeem[x].op # "idle" /\ redeem[x].code = c => c \in shared'
  BY <1>1, RedeemBusy
<1>8. HeldShared'
  BY <1>1, <1>2, <1>3, <1>7 DEF OneTimeInv, HeldShared
<1>9. \A s \in sessions : s.code # c
  BY <1>1 DEF OneTimeInv, CodesAreOneTime
<1>10. UsedShared'
  BY <1>1, <1>2, <1>3, <1>9 DEF OneTimeInv, UsedShared
<1>11. CodesAreOneTime'
  BY <1>1 DEF OneTimeInv, CodesAreOneTime
<1> QED BY <1>5, <1>6, <1>8, <1>10, <1>11 DEF OneTimeInv

LEMMA SpendOneTime ==
  ASSUME OneTimeInv, Shape', NEW r \in Redeemer, SpendCode(r)
  PROVE  OneTimeInv'
<1> DEFINE q == [op |-> "creating", code |-> redeem[r].code, grant |-> redeem[r].grant]
<1>1. /\ redeem[r].op = "spending"
      /\ redeem' = [redeem EXCEPT ![r] = q]
      /\ DOMAIN codes' = DOMAIN codes \ {redeem[r].code}
      /\ UNCHANGED <<sessions, issued, shared>>
  BY DEF SpendCode, Without
<1>2. q.op = "creating" /\ q.code = redeem[r].code
  OBVIOUS
<1> HIDE DEF q
<1>3. redeem'[r] = q /\ \A x \in Redeemer \ {r} : redeem'[x] = redeem[x]
  BY <1>1 DEF OneTimeInv, Shape
<1>4. \A x \in Fetched' : x \in Fetched
  BY <1>1, <1>2, <1>3, RedeemBusy DEF Fetched
<1>5. Drawn'
  BY <1>1, <1>4 DEF OneTimeInv, Drawn
<1>6. Deleted'
  BY <1>1, <1>2, <1>3 DEF OneTimeInv, Deleted
<1>7. \A x \in Redeemer : redeem'[x].op # "idle" =>
        redeem[x].op # "idle" /\ redeem'[x].code = redeem[x].code
  BY <1>1, <1>2, <1>3
<1>8. HeldShared' /\ UsedShared'
  BY <1>1, <1>7 DEF OneTimeInv, HeldShared, UsedShared
<1>9. CodesAreOneTime'
  BY <1>1 DEF OneTimeInv, CodesAreOneTime
<1> QED BY <1>5, <1>6, <1>8, <1>9 DEF OneTimeInv

\* The session comes after the del; whoever still holds the code shares it.
LEMMA CreateOneTime ==
  ASSUME OneTimeInv, Shape', NEW r \in Redeemer, CreateSession(r)
  PROVE  OneTimeInv'
<1> DEFINE c == redeem[r].code
<1>1. /\ redeem[r].op = "creating"
      /\ redeem' = [redeem EXCEPT ![r] = Idle]
      /\ UNCHANGED <<codes, issued, shared>>
  BY DEF CreateSession
<1>2. PICK e : sessions' = sessions \cup {e} /\ e.code = c
  <2>1. PICK n, g : sessions' = sessions \cup {[code |-> c, nth |-> n, grant |-> g]}
    BY DEF CreateSession
  <2>2. [code |-> c, nth |-> n, grant |-> g].code = c
    OBVIOUS
  <2> QED BY <2>1, <2>2
<1>3. redeem'[r].op = "idle" /\ \A x \in Redeemer \ {r} : redeem'[x] = redeem[x]
  BY <1>1 DEF OneTimeInv, Shape, Idle
<1>4. redeem'[r] = Idle
  BY <1>1 DEF OneTimeInv, Shape
<1>5. \A x \in Fetched' : x \in Fetched
  BY <1>3, <1>4 DEF Fetched
<1>6. c \in issued /\ c \notin DOMAIN codes
  BY <1>1, RedeemBusy DEF OneTimeInv, Drawn, Deleted
<1>7. Drawn'
  BY <1>1, <1>2, <1>5, <1>6 DEF OneTimeInv, Drawn
<1>8. Deleted' /\ HeldShared'
  BY <1>1, <1>3 DEF OneTimeInv, Deleted, HeldShared
<1>9. UsedShared'
  <2>1. ASSUME NEW x \in Redeemer, NEW s \in sessions', redeem'[x].op # "idle",
               redeem'[x].code = s.code
        PROVE  s.code \in shared
    <3>1. x # r /\ redeem'[x] = redeem[x]
      BY <1>3, <2>1
    <3>2. CASE s \in sessions
      BY <2>1, <3>1, <3>2 DEF OneTimeInv, UsedShared
    <3>3. CASE s = e
      BY <1>1, <1>2, <2>1, <3>1, <3>3 DEF OneTimeInv, HeldShared
    <3> QED BY <1>2, <3>2, <3>3
  <2> QED BY <1>1, <2>1 DEF UsedShared
<1>10. \A s \in sessions : s.code = c => c \in shared
  BY <1>1 DEF OneTimeInv, UsedShared
<1>11. CodesAreOneTime'
  <2>1. \A s \in sessions' : s.code \notin DOMAIN codes'
    BY <1>1, <1>2, <1>6 DEF OneTimeInv, CodesAreOneTime
  <2>2. ASSUME NEW s \in sessions', NEW t \in sessions', s.code = t.code
        PROVE  s = t \/ s.code \in shared'
    BY <1>1, <1>2, <1>10, <2>2 DEF OneTimeInv, CodesAreOneTime
  <2> QED BY <2>1, <2>2 DEF CodesAreOneTime
<1> QED BY <1>7, <1>8, <1>9, <1>11 DEF OneTimeInv

LEMMA NextOneTime == ASSUME OneTimeInv, [Next]_vars PROVE OneTimeInv'
<1>1. Shape'
  BY NextShape DEF OneTimeInv
<1>2. ASSUME UNCHANGED <<redeem, sessions, issued, shared>>,
             DOMAIN codes' \subseteq DOMAIN codes
      PROVE  OneTimeInv'
  <2>1. Fetched' = Fetched
    BY <1>2 DEF Fetched
  <2> QED BY <1>1, <1>2, <2>1
          DEF OneTimeInv, Drawn, Deleted, HeldShared, UsedShared, CodesAreOneTime
<1>3. CASE UNCHANGED vars
  BY <1>2, <1>3 DEF vars
<1>4. ASSUME NEW f \in Flow, PageStep(f) PROVE OneTimeInv'
  <2>1. ASSUME NEW c \in Code, IssueCode(f, c) PROVE OneTimeInv'
    BY <1>1, <2>1, IssueOneTime
  <2> QED BY <1>2, <1>4, <2>1
          DEF PageStep, OpenPage, ConsentSkipped, ConsentRequired, Deny, Allow,
              PushScopes, ReadConsent, WriteUnique
<1>5. ASSUME NEW r \in Redeemer, TokenStep(r) PROVE OneTimeInv'
  BY <1>1, <1>5, FetchOneTime, SpendOneTime, CreateOneTime DEF TokenStep
<1>6. ASSUME NEW c \in Code, CodeExpires(c) PROVE OneTimeInv'
  BY <1>2, <1>6 DEF CodeExpires, Without
<1>7. CASE Crash
  <2>1. /\ \A r \in Redeemer : redeem'[r] = Idle
        /\ UNCHANGED <<codes, sessions, issued, shared>>
    BY <1>7 DEF Crash
  <2>2. Fetched' = {}
    BY <2>1 DEF Fetched
  <2> QED BY <1>1, <2>1, <2>2
          DEF OneTimeInv, Drawn, Deleted, HeldShared, UsedShared, CodesAreOneTime, Idle
<1> QED BY <1>3, <1>4, <1>5, <1>6, <1>7 DEF Next

\* However many token requests are in flight, an authorization code that was
\* never read while another request held it gives at most one session, and none
\* once it was used or has expired.
THEOREM CodesWorkOnce == Spec => []CodesAreOneTime
<1>1. Init => OneTimeInv
  BY InitOneTime
<1>2. OneTimeInv /\ [Next]_vars => OneTimeInv'
  BY NextOneTime
<1>3. OneTimeInv => CodesAreOneTime
  BY DEF OneTimeInv
<1> QED BY <1>1, <1>2, <1>3, PTL DEF Spec
=============================================================================
