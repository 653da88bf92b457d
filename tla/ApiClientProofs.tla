--------------------------- MODULE ApiClientProofs ---------------------------
(***************************************************************************)
(* Proofs about ApiClient, for any calls, sessions, kinds of request and   *)
(* bound on the faults.                                                    *)
(***************************************************************************)
EXTENDS ApiClient, TLAPS

-----------------------------------------------------------------------------
(* Types                                                                    *)

State == {Idle} \cup Asking \cup Refreshing \cup Rotating \cup Answered \cup Leaving

LEMMA Phases ==
  ASSUME NEW q \in State
  PROVE  /\ q.op = "asking" => q.kind \in Kind /\ q.tok \in MaybeSid /\ q.again \in BOOLEAN
         /\ q.op = "refreshing" => q.kind \in Kind /\ q.tok \in MaybeSid
         /\ q.op = "rotating" => q.kind \in Kind /\ q.tok \in Sid
         /\ q.op \in {"rotated", "parsing"} => q.kind \in Kind /\ q.new \in Sid
         /\ q.op \in {"leaving", "left"} => q.tok \in MaybeSid
         /\ q.op = "idle" <=> q = Idle
<1> USE DEF Idle, Asking, Refreshing, Rotating, Answered, Leaving
<1>1. CASE q \in {Idle} \cup Asking
  BY <1>1
<1>2. CASE q \in Refreshing
  BY <1>2
<1>3. CASE q \in Rotating \cup Answered
  BY <1>3
<1>4. CASE q \in Leaving
  BY <1>4
<1> QED BY <1>1, <1>2, <1>3, <1>4 DEF State

\* The phases a call moves to.
LEMMA Made ==
  ASSUME NEW kind \in Kind, NEW tok \in MaybeSid, NEW again \in BOOLEAN
  PROVE  /\ Idle \in State
         /\ [op |-> "asking", kind |-> kind, tok |-> tok, again |-> again] \in State
         /\ [op |-> "refreshing", kind |-> kind, tok |-> tok] \in State
         /\ tok \in Sid => [op |-> "rotating", kind |-> kind, tok |-> tok] \in State
         /\ tok \in Sid => [op |-> "rotated", kind |-> kind, new |-> tok] \in State
         /\ tok \in Sid => [op |-> "parsing", kind |-> kind, new |-> tok] \in State
  BY DEF State, Idle, Asking, Refreshing, Rotating, Answered

LEMMA MadeLeaving ==
  ASSUME NEW tok \in MaybeSid
  PROVE  /\ [op |-> "leaving", tok |-> tok] \in State
         /\ [op |-> "left", tok |-> tok] \in State
  BY DEF State, Leaving

LEMMA CallTyped ==
  ASSUME TypeOK
  PROVE  call \in [Call -> State] /\ \A c \in Call : call[c] \in State
  BY DEF TypeOK, State

\* One call moves on.
LEMMA CallMoves ==
  ASSUME TypeOK, NEW c \in Call, NEW q \in State, Becomes(c, q)
  PROVE  /\ call' \in [Call -> State]
         /\ call'[c] = q
         /\ \A d \in Call \ {c} : call'[d] = call[d]
  BY CallTyped DEF Becomes

\* TypeOK, with the records of the calls by name.
Typed ==
  /\ live \subseteq issued /\ issued \subseteq Sid
  /\ expired \subseteq issued
  /\ cookie \in MaybeSid /\ stored \in MaybeSid
  /\ user \in BOOLEAN
  /\ profile \subseteq Call
  /\ call \in [Call -> State]
  /\ faults \in 0 .. MaxFaults
  /\ ended \subseteq issued
  /\ out \in BOOLEAN

LEMMA TypeCall == (TypeOK <=> Typed) /\ (TypeOK' <=> Typed')
  BY DEF TypeOK, Typed, State

LEMMA InitTypes == ASSUME Init PROVE TypeOK
<1>1. PICK s \in Sid : live = {s} /\ issued = {s} /\ cookie = s /\ stored = s
  BY DEF Init
<1>2. call \in [Call -> State] /\ faults \in 0 .. MaxFaults
  BY ClientAssumption DEF Init, State
<1> QED BY <1>1, <1>2, TypeCall DEF Typed, Init, MaybeSid

LEMMA PageTypes ==
  ASSUME TypeOK,
         \/ \E c \in Call, kind \in PageKind : PageCall(c, kind)
         \/ \E c, d \in Call : RefreshProfile(c, d) \/ Reload(c, d)
         \/ \E s \in Sid : Login(s) \/ AccessTokenExpires(s) \/ Revoked(s)
  PROVE  TypeOK'
<1>1. stored \in MaybeSid /\ call \in [Call -> State] /\ PageKind \subseteq Kind /\ "plain" \in Kind
  BY TypeCall, ClientAssumption DEF Typed, Kind
<1>2. \A kind \in Kind : Ask(kind, FALSE) \in State
  BY <1>1, Made DEF Ask
<1>3. ASSUME NEW c \in Call, NEW kind \in PageKind, PageCall(c, kind) PROVE TypeOK'
  BY <1>1, <1>2, <1>3, CallMoves, TypeCall DEF Typed, PageCall
<1>4. ASSUME NEW c \in Call, NEW d \in Call, RefreshProfile(c, d) \/ Reload(c, d)
      PROVE  TypeOK'
  <2>1. call' \in [Call -> State] /\ profile' \subseteq Call
    BY <1>1, <1>2, <1>4 DEF RefreshProfile, Reload
  <2> QED BY <1>4, <2>1, TypeCall DEF Typed, RefreshProfile, Reload
<1>5. ASSUME NEW s \in Sid, Login(s) PROVE TypeOK'
  BY <1>5, TypeCall DEF Typed, Login, MaybeSid
<1>6. ASSUME NEW s \in Sid, AccessTokenExpires(s) \/ Revoked(s) PROVE TypeOK'
  BY <1>6, TypeCall DEF Typed, AccessTokenExpires, Revoked
<1> QED BY <1>3, <1>4, <1>5, <1>6

\* How a call may end, with what is left to its action.
LEMMA EndTypes ==
  ASSUME TypeOK, NEW c \in Call,
         Resolve(c) \/ Reject(c) \/ RejectUnauthorized(c)
  PROVE  /\ call' \in [Call -> State]
         /\ profile' \subseteq Call /\ user' \in BOOLEAN /\ stored' \in MaybeSid
<1>1. Idle \in State
  BY DEF State
<1>2. Becomes(c, Idle)
  BY DEF Resolve, Reject, RejectUnauthorized
<1>3. call' \in [Call -> State]
  BY <1>1, <1>2, CallMoves
<1>4. profile' \subseteq Call
  BY DEF Resolve, Reject, RejectUnauthorized, TypeOK
<1>5. user' \in BOOLEAN /\ stored' \in MaybeSid
  BY DEF Resolve, Reject, RejectUnauthorized, TypeOK, SignOut, MaybeSid
<1> QED BY <1>3, <1>4, <1>5

LEMMA ProceedTypes ==
  ASSUME TypeOK, NEW c \in Call, Proceed(c)
  PROVE  TypeOK'
<1>0. call[c] \in State
  BY CallTyped
<1>1. CASE AskSucceeds(c) \/ RetryRefused(c) \/ RefreshDenied(c)
  <2>1. UNCHANGED <<live, issued, expired, cookie, faults, ended, out>>
    BY <1>1 DEF AskSucceeds, RetryRefused, RefreshDenied
  <2>2. Resolve(c) \/ RejectUnauthorized(c)
    BY <1>1 DEF AskSucceeds, RetryRefused, RefreshDenied
  <2> QED BY <2>1, <2>2, EndTypes, TypeCall DEF Typed
<1>2. CASE Intercept(c) \/ RefreshRead(c) \/ RefreshHeaders(c) \/ Retry(c)
  <2>1. PICK q \in State : Becomes(c, q)
    <3>1. CASE Intercept(c)
      BY <1>0, <3>1, Phases, Made DEF Intercept, TypeOK
    <3>2. CASE RefreshRead(c)
      <4>1. call[c].tok \in Sid /\ call[c].kind \in Kind
        BY <1>0, <3>2, Phases DEF RefreshRead, TypeOK
      <4> QED BY <3>2, <4>1, Made DEF RefreshRead, MaybeSid
    <3>3. CASE RefreshHeaders(c)
      BY <1>0, <3>3, Phases, Made DEF RefreshHeaders, MaybeSid
    <3>4. CASE Retry(c)
      BY <1>0, <3>4, Phases, Made DEF Retry, MaybeSid
    <3> QED BY <1>2, <3>1, <3>2, <3>3, <3>4
  <2>2. call' \in [Call -> State]
    BY <2>1, CallMoves
  <2>3. cookie' \in MaybeSid /\ stored' \in MaybeSid
    BY <1>0, <1>2, Phases DEF Intercept, RefreshRead, RefreshHeaders, Retry, TypeOK, MaybeSid
  <2>4. UNCHANGED <<live, issued, expired, user, profile, faults, ended, out>>
    BY <1>2 DEF Intercept, RefreshRead, RefreshHeaders, Retry
  <2> QED BY <2>2, <2>3, <2>4, TypeCall DEF Typed
<1>3. ASSUME NEW s \in Sid, RefreshRotate(c, s) PROVE TypeOK'
  <2>1. [op |-> "rotated", kind |-> call[c].kind, new |-> s] \in State
    BY <1>0, <1>3, Phases, Made DEF RefreshRotate, MaybeSid
  <2>2. call' \in [Call -> State]
    BY <1>3, <2>1, CallMoves DEF RefreshRotate
  <2> QED BY <1>3, <2>2, TypeCall DEF Typed, RefreshRotate
<1>4. CASE LogoutServed(c)
  <2>1. [op |-> "left", tok |-> call[c].tok] \in State
    BY <1>0, <1>4, Phases, MadeLeaving DEF LogoutServed
  <2>2. call' \in [Call -> State]
    BY <1>4, <2>1, CallMoves DEF LogoutServed
  <2> QED BY <1>4, <2>2, TypeCall DEF Typed, LogoutServed
<1>5. CASE LogoutDone(c)
  <2>1. call' \in [Call -> State]
    BY <1>5, CallMoves DEF LogoutDone, State
  <2>2. cookie' \in MaybeSid
    BY <1>5, TypeCall DEF Typed, LogoutDone, MaybeSid
  <2> QED BY <1>5, <2>1, <2>2, TypeCall DEF Typed, LogoutDone, SignOut, MaybeSid, Outlasts
<1> QED BY <1>1, <1>2, <1>3, <1>4, <1>5 DEF Proceed

LEMMA LogoutTypes ==
  ASSUME TypeOK, NEW c \in Call, Logout(c)
  PROVE  TypeOK'
<1>1. [op |-> "leaving", tok |-> cookie] \in State
  BY MadeLeaving DEF TypeOK
<1>2. call' \in [Call -> State]
  BY <1>1, CallMoves DEF Logout
<1> QED BY <1>2, TypeCall DEF Typed, Logout

LEMMA FaultTypes ==
  ASSUME TypeOK, NEW c \in Call, Fault(c)
  PROVE  TypeOK'
<1>1. faults' \in 0 .. MaxFaults /\ UNCHANGED <<live, issued, expired, cookie, ended>>
  BY ClientAssumption DEF TypeOK, Fault
<1>2. CASE Reject(c) \/ RejectUnauthorized(c)
  <2>1. /\ call' \in [Call -> State]
        /\ profile' \subseteq Call /\ user' \in BOOLEAN /\ stored' \in MaybeSid
    BY <1>2, EndTypes
  <2>2. out' \in BOOLEAN
    BY TypeCall DEF Typed, Fault, Outlasts
  <2> QED BY <1>1, <2>1, <2>2, TypeCall DEF Typed
<1>3. CASE Becomes(c, Idle) /\ SignOut /\ out' = Outlasts(c) /\ UNCHANGED profile
  <2>1. call' \in [Call -> State]
    BY <1>3, CallMoves DEF State
  <2>2. out' \in BOOLEAN /\ stored' \in MaybeSid /\ user' \in BOOLEAN
    BY <1>3 DEF Outlasts, SignOut, MaybeSid
  <2> QED BY <1>1, <1>3, <2>1, <2>2, TypeCall DEF Typed
<1> QED BY <1>2, <1>3 DEF Fault

LEMMA StepTypes == ASSUME TypeOK, [Next]_vars PROVE TypeOK'
<1>1. ASSUME NEW c \in Call, Logout(c) \/ Proceed(c) \/ Fault(c) PROVE TypeOK'
  BY <1>1, LogoutTypes, ProceedTypes, FaultTypes
<1>2. CASE \E c \in Call, kind \in PageKind : PageCall(c, kind)
  BY <1>2, PageTypes
<1>3. CASE \E c, d \in Call : RefreshProfile(c, d) \/ Reload(c, d)
  BY <1>3, PageTypes
<1>4. CASE \E s \in Sid : Login(s) \/ AccessTokenExpires(s) \/ Revoked(s)
  BY <1>4, PageTypes
<1>5. CASE UNCHANGED vars
  BY <1>5, TypeCall DEF Typed, vars
<1> QED BY <1>1, <1>2, <1>3, <1>4, <1>5 DEF Next

\* Every variable of the client keeps its type.
THEOREM TypeCorrect == Spec => []TypeOK
<1>1. Init => TypeOK
  BY InitTypes
<1>2. TypeOK /\ [Next]_vars => TypeOK'
  BY StepTypes
<1> QED BY <1>1, <1>2, PTL DEF Spec

-----------------------------------------------------------------------------
(* A cookie that was used up will be replaced.                              *)

\* Refreshes that have sent a cookie and not rotated its session yet.
Sent(c) == call[c].op \in {"refreshing", "rotating"}

\* Refreshes whose reply, with the successor, the browser does not have yet.
Rotated(c) == call[c].op = "rotated"

\* The browser and its refreshes know sessions that were drawn.
Drawn ==
  /\ cookie \in issued \cup {NoSid}
  /\ \A c \in Call : /\ Sent(c) => call[c].tok \in issued \cup {NoSid}
                     /\ Rotated(c) => call[c].new \in issued

\* Such a successor is known to its refresh only: nobody can use it up.
Private ==
  \A c \in Call : Rotated(c) =>
    /\ call[c].new # cookie
    /\ \A d \in Call : /\ Sent(d) => call[d].tok # call[c].new
                       /\ Rotated(d) /\ d # c => call[d].new # call[c].new

Unspent ==
  /\ \A c \in Call : Rotated(c) => call[c].new \in live \cup ended
  /\ cookie \in live \cup ended \cup {NoSid} \/ \E c \in Call : Rotated(c)

SpentInv ==
  /\ TypeOK
  /\ Drawn
  /\ Private
  /\ faults = 0 => Unspent

LEMMA InitSpent == ASSUME Init PROVE SpentInv
<1>1. \A c \in Call : call[c].op = "idle"
  BY DEF Init, Idle
<1>2. cookie \in live /\ live = issued
  BY DEF Init
<1> QED BY <1>1, <1>2, InitTypes DEF SpentInv, Drawn, Private, Unspent, Sent, Rotated

\* Calls move to phases that hold no session, or one that they held before.
LEMMA QuietSpent ==
  ASSUME SpentInv, TypeOK',
         issued \subseteq issued', live \cup ended \subseteq live' \cup ended',
         cookie' \in {cookie, NoSid} \/ cookie' \in (live' \cap issued') \ issued,
         faults' = 0 => faults = 0,
         \A c \in Call :
           \/ UNCHANGED call[c]
           \/ ~Sent(c)' /\ ~Rotated(c)' /\ (faults' = 0 => ~Rotated(c))
           \/ Sent(c)' /\ ~Rotated(c) /\ call'[c].tok = IF Sent(c) THEN call[c].tok ELSE cookie
  PROVE  SpentInv'
<1>1. \A c \in Call :
        /\ Rotated(c)' => Rotated(c) /\ call'[c].new = call[c].new
        /\ Sent(c)' => call'[c].tok = cookie \/ (Sent(c) /\ call'[c].tok = call[c].tok)
        /\ faults' = 0 /\ Rotated(c) => Rotated(c)'
  BY DEF Sent, Rotated
<1>2. Drawn'
  BY <1>1 DEF SpentInv, Drawn
<1>3. Private'
  <2>1. SUFFICES ASSUME NEW c \in Call, Rotated(c)'
                 PROVE  /\ call'[c].new # cookie'
                        /\ \A d \in Call : /\ Sent(d)' => call'[d].tok # call'[c].new
                                           /\ Rotated(d)' /\ d # c => call'[d].new # call'[c].new
    BY DEF Private
  <2>2. Rotated(c) /\ call'[c].new = call[c].new /\ call[c].new \in issued
    BY <1>1, <2>1 DEF SpentInv, Drawn
  <2>3. call[c].new # NoSid
    BY <2>2, ClientAssumption, TypeCall DEF Typed, SpentInv
  <2>4. call'[c].new # cookie'
    BY <2>2, <2>3 DEF SpentInv, Private
  <2>5. \A d \in Call : /\ Sent(d)' => call'[d].tok # call'[c].new
                        /\ Rotated(d)' /\ d # c => call'[d].new # call'[c].new
    BY <1>1, <2>2 DEF SpentInv, Private
  <2> QED BY <2>4, <2>5
<1>4. faults' = 0 => Unspent'
  BY <1>1 DEF SpentInv, Unspent
<1> QED BY <1>2, <1>3, <1>4 DEF SpentInv

LEMMA RotateSpent ==
  ASSUME SpentInv, TypeOK', NEW c \in Call, NEW s \in Sid, RefreshRotate(c, s)
  PROVE  SpentInv'
<1>1. /\ Sent(c) /\ ~Rotated(c)
      /\ Rotated(c)' /\ ~Sent(c)' /\ call'[c].new = s
      /\ \A d \in Call \ {c} : call'[d] = call[d]
  BY CallMoves, CallTyped DEF RefreshRotate, Becomes, SpentInv, Sent, Rotated
<1>2. \A d \in Call \ {c} : (Sent(d)' <=> Sent(d)) /\ (Rotated(d)' <=> Rotated(d))
  BY <1>1 DEF Sent, Rotated
<1>3. s \notin issued /\ issued' = issued \cup {s} /\ UNCHANGED <<cookie, ended, faults>>
  BY DEF RefreshRotate
<1>4. s # NoSid /\ s # cookie
  BY <1>3, ClientAssumption DEF SpentInv, Drawn
<1>5. Drawn'
  BY <1>1, <1>2, <1>3 DEF SpentInv, Drawn
<1>6. Private'
  <2>1. \A d \in Call \ {c} : /\ Sent(d) => call[d].tok # s
                              /\ Rotated(d) => call[d].new # s
    BY <1>3, <1>4 DEF SpentInv, Drawn
  <2> QED BY <1>1, <1>2, <1>3, <1>4, <2>1 DEF SpentInv, Private
<1>7. live' \cup ended' = ((live \ {call[c].tok}) \cup {s}) \cup ended
  BY DEF RefreshRotate
<1>8. faults' = 0 => Unspent'
  <2>1. \A d \in Call \ {c} : Rotated(d) => call[d].new # call[c].tok
    BY <1>1 DEF SpentInv, Private
  <2> QED BY <1>1, <1>2, <1>3, <1>7, <2>1 DEF SpentInv, Unspent
<1> QED BY <1>5, <1>6, <1>8 DEF SpentInv

LEMMA HeadersSpent ==
  ASSUME SpentInv, TypeOK', NEW c \in Call, RefreshHeaders(c)
  PROVE  SpentInv'
<1>1. /\ Rotated(c) /\ ~Rotated(c)' /\ ~Sent(c)'
      /\ \A d \in Call \ {c} : call'[d] = call[d]
  BY CallMoves, CallTyped DEF RefreshHeaders, Becomes, SpentInv, Sent, Rotated
<1>2. \A d \in Call \ {c} : (Sent(d)' <=> Sent(d)) /\ (Rotated(d)' <=> Rotated(d))
  BY <1>1 DEF Sent, Rotated
<1>3. cookie' = call[c].new /\ UNCHANGED <<live, issued, ended, faults>>
  BY DEF RefreshHeaders
<1>4. Drawn'
  BY <1>1, <1>2, <1>3 DEF SpentInv, Drawn
<1>5. Private'
  BY <1>1, <1>2, <1>3 DEF SpentInv, Private
<1>6. faults' = 0 => Unspent'
  BY <1>1, <1>2, <1>3 DEF SpentInv, Unspent
<1> QED BY <1>4, <1>5, <1>6 DEF SpentInv

LEMMA StepSpent == ASSUME SpentInv, [Next]_vars PROVE SpentInv'
<1>0. TypeOK /\ TypeOK' /\ call \in [Call -> State]
  BY StepTypes, CallTyped DEF SpentInv
<1> USE DEF Sent, Rotated
<1>1. ASSUME NEW c \in Call, NEW kind \in PageKind, PageCall(c, kind) PROVE SpentInv'
  BY <1>0, <1>1, QuietSpent DEF PageCall, Becomes, Ask, Idle
<1>2. ASSUME NEW c \in Call, NEW d \in Call, RefreshProfile(c, d) \/ Reload(c, d)
      PROVE  SpentInv'
  <2>1. call[c] = Idle /\ call[d] = Idle
    BY <1>2 DEF RefreshProfile, Reload, Busy
  <2>2. \A e \in Call : \/ UNCHANGED call[e]
                        \/ call[e].op = "idle" /\ call'[e].op = "asking"
    BY <1>0, <1>2, <2>1 DEF RefreshProfile, Reload, Ask, Idle
  <2> QED BY <1>0, <1>2, <2>2, QuietSpent DEF RefreshProfile, Reload
<1>3. ASSUME NEW s \in Sid, Login(s) \/ AccessTokenExpires(s) \/ Revoked(s) PROVE SpentInv'
  BY <1>0, <1>3, QuietSpent DEF Login, AccessTokenExpires, Revoked
<1>4. ASSUME NEW c \in Call, NEW q \in State, Becomes(c, q),
             UNCHANGED <<issued, live, ended>>, cookie' \in {cookie, NoSid},
             faults' = 0 => faults = 0 /\ ~Rotated(c),
             \/ q.op \notin {"refreshing", "rotating", "rotated"}
             \/ /\ q.op \in {"refreshing", "rotating"} /\ ~Rotated(c)
                /\ q.tok = IF Sent(c) THEN call[c].tok ELSE cookie
      PROVE  SpentInv'
  <2>1. call'[c] = q /\ \A d \in Call \ {c} : UNCHANGED call[d]
    BY <1>0, <1>4, CallMoves
  <2> QED BY <1>0, <1>4, <2>1, QuietSpent
<1>5. Idle \in State /\ Idle.op = "idle"
  BY DEF Idle, State
<1>6. ASSUME NEW c \in Call, Logout(c) PROVE SpentInv'
  <2>1. [op |-> "leaving", tok |-> cookie] \in State
    BY <1>0, MadeLeaving DEF TypeOK
  <2>2. call[c].op = "idle"
    BY <1>6 DEF Logout, Idle
  <2> QED BY <1>4, <1>6, <2>1, <2>2 DEF Logout
<1>7. ASSUME NEW c \in Call, Fault(c) PROVE SpentInv'
  <2>1. Becomes(c, Idle) /\ UNCHANGED <<issued, live, ended, cookie>> /\ faults' # 0
    BY <1>0, <1>7 DEF Fault, Reject, RejectUnauthorized, TypeOK
  <2> QED BY <1>4, <1>5, <2>1
<1>8. ASSUME NEW c \in Call, AskSucceeds(c) \/ RetryRefused(c) \/ RefreshDenied(c)
      PROVE  SpentInv'
  BY <1>4, <1>5, <1>8 DEF AskSucceeds, RetryRefused, RefreshDenied, Resolve, RejectUnauthorized
<1>9. ASSUME NEW c \in Call, Intercept(c) \/ RefreshRead(c) PROVE SpentInv'
  <2>1. call[c] \in State
    BY <1>0
  <2>2. CASE Intercept(c)
    BY <1>0, <1>4, <2>1, <2>2, Phases, Made DEF Intercept, TypeOK
  <2>3. CASE RefreshRead(c)
    <3>1. call[c].tok \in Sid /\ call[c].kind \in Kind
      BY <1>0, <2>1, <2>3, Phases DEF RefreshRead, TypeOK
    <3>2. [op |-> "rotating", kind |-> call[c].kind, tok |-> call[c].tok] \in State
      BY <3>1, Made DEF MaybeSid
    <3> QED BY <1>4, <2>3, <3>2 DEF RefreshRead
  <2> QED BY <1>9, <2>2, <2>3
<1>10. ASSUME NEW c \in Call, Retry(c) PROVE SpentInv'
  <2>1. [op |-> "asking", kind |-> call[c].kind, tok |-> call[c].new, again |-> TRUE] \in State
    BY <1>0, <1>10, Phases, Made DEF Retry, MaybeSid
  <2> QED BY <1>4, <1>10, <2>1 DEF Retry
<1>11. ASSUME NEW c \in Call, LogoutServed(c) PROVE SpentInv'
  <2>1. call'[c].op = "left" /\ \A d \in Call \ {c} : UNCHANGED call[d]
    BY <1>0, <1>11 DEF LogoutServed, Becomes
  <2> QED BY <1>0, <1>11, <2>1, QuietSpent DEF LogoutServed
<1>12. ASSUME NEW c \in Call, LogoutDone(c) PROVE SpentInv'
  BY <1>4, <1>5, <1>12 DEF LogoutDone
<1>13. ASSUME NEW c \in Call, Proceed(c) PROVE SpentInv'
  BY <1>0, <1>8, <1>9, <1>10, <1>11, <1>12, <1>13, RotateSpent, HeadersSpent DEF Proceed
<1>14. CASE UNCHANGED vars
  BY <1>0, <1>14, QuietSpent DEF vars
<1> QED BY <1>1, <1>2, <1>3, <1>6, <1>7, <1>13, <1>14 DEF Next

\* When the page is quiet and no reply was lost, its cookie is not a token that
\* a rotation has used up.
THEOREM CookieIsNotSpent == Spec => []CookieNotSpent
<1>1. Init => SpentInv
  BY InitSpent
<1>2. SpentInv /\ [Next]_vars => SpentInv'
  BY StepSpent
<1>3. SpentInv => CookieNotSpent
  <2>1. \A c \in Call : Rotated(c) => call[c] # Idle
    BY DEF Rotated, Idle
  <2> QED BY <2>1 DEF SpentInv, Unspent, CookieNotSpent, Busy
<1> QED BY <1>1, <1>2, <1>3, PTL DEF Spec

-----------------------------------------------------------------------------
(* What is under way after a logout that outlasted every call.              *)

\* Nothing, a request without an access token, or a refresh without a cookie.
Powerless(q) ==
  \/ q = Idle
  \/ q.op \in {"asking", "refreshing"} /\ q.tok = NoSid

OutInv ==
  /\ TypeOK
  /\ out /\ faults = 0 =>
       /\ cookie = NoSid /\ stored = NoSid /\ ~user
       /\ \A c \in Call : Powerless(call[c])

\* What the pages and the answers leave alone.
LEMMA PagesKeep ==
  /\ \A c \in Call, kind \in PageKind : PageCall(c, kind) => UNCHANGED <<faults, out>>
  /\ \A c, d \in Call : RefreshProfile(c, d) \/ Reload(c, d) => UNCHANGED <<faults, out>>
  /\ \A s \in Sid : /\ Login(s) => UNCHANGED faults /\ ~out'
                    /\ AccessTokenExpires(s) \/ Revoked(s) => UNCHANGED <<faults, out>>
  BY DEF PageCall, RefreshProfile, Reload, Login, AccessTokenExpires, Revoked

LEMMA ProceedKeeps ==
  ASSUME NEW c \in Call, Proceed(c)
  PROVE  UNCHANGED faults /\ (UNCHANGED out \/ LogoutDone(c))
<1>1. CASE AskSucceeds(c) \/ Intercept(c) \/ RetryRefused(c) \/ RefreshDenied(c) \/ RefreshRead(c)
  BY <1>1 DEF AskSucceeds, Intercept, RetryRefused, RefreshDenied, RefreshRead
<1>2. CASE (\E s \in Sid : RefreshRotate(c, s)) \/ RefreshHeaders(c) \/ Retry(c)
  BY <1>2 DEF RefreshRotate, RefreshHeaders, Retry
<1>3. CASE LogoutServed(c) \/ LogoutDone(c)
  BY <1>3 DEF LogoutServed, LogoutDone
<1> QED BY <1>1, <1>2, <1>3 DEF Proceed

LEMMA StepOut == ASSUME OutInv, [Next]_vars PROVE OutInv'
<1>0. TypeOK /\ TypeOK' /\ call \in [Call -> State] /\ NoSid \notin live
  BY StepTypes, CallTyped, ClientAssumption DEF OutInv, TypeOK
<1>1. SUFFICES ASSUME out', faults' = 0
               PROVE  /\ cookie' = NoSid /\ stored' = NoSid /\ user' = FALSE
                      /\ \A c \in Call : Powerless(call'[c])
  BY <1>0 DEF OutInv, Powerless
<1> DEFINE Goal == /\ cookie' = NoSid /\ stored' = NoSid /\ user' = FALSE
                   /\ \A c \in Call : Powerless(call'[c])
<1>f. \A c \in Call : Fault(c) => faults' # 0
  <2>1. faults \in Nat
    BY <1>0, ClientAssumption DEF TypeOK
  <2>2. \A c \in Call : Fault(c) => faults' = faults + 1
    BY DEF Fault
  <2> QED BY <2>1, <2>2
<1>2. faults = 0
  <2>1. UNCHANGED faults \/ \E c \in Call : Fault(c)
    BY PagesKeep, ProceedKeeps DEF Next, vars, Logout
  <2> QED BY <1>1, <1>f, <2>1
<1>3. ASSUME NEW c \in Call, LogoutDone(c) PROVE Goal
  <2>1. Busy = {c} /\ cookie' = NoSid /\ SignOut /\ Becomes(c, Idle)
    BY <1>1, <1>3 DEF LogoutDone, Outlasts
  <2>2. \A d \in Call : call'[d] = Idle
    BY <1>0, <2>1 DEF Busy, Becomes
  <2> QED BY <2>1, <2>2 DEF SignOut, Powerless
<1>4. ASSUME \A c \in Call : ~LogoutDone(c) PROVE out
  <2>1. \A c \in Call : ~Fault(c)
    BY <1>1, <1>f
  <2> QED BY <1>1, <1>4, <2>1, PagesKeep, ProceedKeeps DEF Next, vars, Logout
<1>5. CASE out
  <2>1. /\ cookie = NoSid /\ stored = NoSid /\ user = FALSE
        /\ \A c \in Call : Powerless(call[c])
    BY <1>0, <1>2, <1>5 DEF OutInv, TypeOK
  <2>2. \A c \in Call : call[c].op \in {"idle", "asking", "refreshing"}
    BY <2>1 DEF Powerless, Idle
  <2>3. ASSUME NEW c \in Call, NEW q, Becomes(c, q), Powerless(q),
               UNCHANGED <<cookie, stored, user>>
        PROVE  Goal
    BY <1>0, <2>1, <2>3 DEF Becomes
  <2>4. ASSUME NEW c \in Call, NEW d \in Call, RefreshProfile(c, d) \/ Reload(c, d) PROVE Goal
    <3>1. \A e \in Call : Powerless(call'[e])
      BY <1>0, <2>1, <2>4 DEF RefreshProfile, Reload, Ask, Powerless
    <3> QED BY <2>1, <2>4, <3>1 DEF RefreshProfile, Reload
  <2>5. ASSUME NEW s \in Sid, AccessTokenExpires(s) \/ Revoked(s) PROVE Goal
    BY <2>1, <2>5 DEF AccessTokenExpires, Revoked
  <2>6. ASSUME NEW c \in Call, Intercept(c) \/ RetryRefused(c) \/ RefreshDenied(c) PROVE Goal
    <3>1. CASE Intercept(c)
      BY <2>1, <2>3, <3>1 DEF Intercept, Powerless
    <3>2. CASE RetryRefused(c) \/ RefreshDenied(c)
      BY <2>1, <2>3, <3>2 DEF RetryRefused, RefreshDenied, RejectUnauthorized, SignOut, Powerless
    <3> QED BY <2>6, <3>1, <3>2
  <2>7. ASSUME NEW c \in Call, Proceed(c) \/ Logout(c) \/ Fault(c)
        PROVE  Intercept(c) \/ RetryRefused(c) \/ RefreshDenied(c)
    <3>1. ~AskSucceeds(c)
      BY <2>1 DEF AskSucceeds, Authentic, Powerless, Idle
    <3>2. ~RefreshRead(c)
      BY <1>0, <2>1 DEF RefreshRead, Powerless, Idle
    <3>3. ~Fault(c)
      BY <1>1, <1>2 DEF Fault
    <3> QED BY <2>1, <2>2, <2>7, <3>1, <3>2, <3>3 DEF Proceed, Logout, RefreshRotate,
          RefreshHeaders, Retry, LogoutServed, LogoutDone
  <2>8. CASE UNCHANGED vars
    BY <2>1, <2>8 DEF vars
  <2> QED BY <1>1, <2>1, <2>4, <2>5, <2>6, <2>7, <2>8 DEF Next, PageCall, Login
<1> QED BY <1>3, <1>4, <1>5

\* After a logout that sent a cookie and outlasted every call, the browser holds
\* no session and no access token until the next sign-in.
THEOREM LogoutLeavesNothing == Spec => []LogoutClearsBrowser
<1>1. Init => OutInv
  BY InitTypes DEF OutInv, Init
<1>2. OutInv /\ [Next]_vars => OutInv'
  BY StepOut
<1>3. OutInv => LogoutClearsBrowser
  BY ClientAssumption DEF OutInv, TypeOK, LogoutClearsBrowser
<1> QED BY <1>1, <1>2, <1>3, PTL DEF Spec
=============================================================================
