-------------------------- MODULE MaintenanceProofs --------------------------
(***************************************************************************)
(* Proofs about Maintenance, for any number of requests, administrators,   *)
(* checks and changes.                                                     *)
(***************************************************************************)
EXTENDS Maintenance, TLAPS

State == {Idle} \cup [op : {"get", "read"}] \cup [op : {"fill", "decide"}, mode : Mode]
                \cup [op : {"passed", "refused"}]

Shape ==
  /\ setting \in Mode \cup {"none"}
  /\ copy \in Mode \cup {"none"}
  /\ checks \in [Check -> State]
  /\ due \in [Check -> Mode \cup {"none"}]
  /\ stale \in BOOLEAN

\* A copy that nobody is about to drop agrees with the row, unless it is known
\* to be stale.
CopyAgrees == changing = {} /\ stale = FALSE => copy \in {"none", Effective}

\* An answer is owed only while nothing disturbs it: then it is the row's.
OwedIsEffective ==
  \A c \in Check : due[c] # "none" => due[c] = Effective /\ changing = {} /\ stale = FALSE

\* A check carries the answer it owes from the first read to the last.
Carries(q, mode) ==
  /\ q.op \in {"fill", "decide"} => q.mode = mode
  /\ q.op = "passed" => mode = "false"
  /\ q.op = "refused" => mode = "true"

OwedIsCarried == \A c \in Check : due[c] # "none" => Carries(checks[c], due[c])

EffectInv == Shape /\ CopyAgrees /\ OwedIsEffective /\ OwedIsCarried

LEMMA EffectiveMode == Effective \in Mode
  BY DEF Effective, Mode

LEMMA InitEffect == ASSUME Init PROVE EffectInv
<1>1. /\ setting \in {"none", "false"} /\ copy = "none" /\ stale = FALSE
      /\ checks = [c \in Check |-> Idle]
      /\ due = [c \in Check |-> "none"]
  BY DEF Init
<1>2. Shape
  BY <1>1 DEF Shape, Mode, State
<1> QED BY <1>1, <1>2 DEF EffectInv, CopyAgrees, OwedIsEffective, OwedIsCarried

\* A step that moves one check, and neither the settings nor what is owed.
LEMMA MoveEffect ==
  ASSUME EffectInv, NEW c \in Check, NEW q \in State, Becomes(c, q),
         UNCHANGED <<setting, copy, changing, due, stale>>,
         due[c] # "none" => Carries(q, due[c])
  PROVE  EffectInv'
<1>1. /\ checks' \in [Check -> State]
      /\ checks'[c] = q
      /\ \A d \in Check \ {c} : checks'[d] = checks[d]
  BY DEF Becomes, EffectInv, Shape
<1>2. Shape'
  BY <1>1 DEF EffectInv, Shape
<1>3. CopyAgrees' /\ OwedIsEffective'
  BY DEF EffectInv, CopyAgrees, OwedIsEffective, Effective
<1>4. OwedIsCarried'
  BY <1>1 DEF EffectInv, OwedIsCarried, Carries
<1> QED BY <1>2, <1>3, <1>4 DEF EffectInv

LEMMA CheckEffect ==
  ASSUME EffectInv, NEW c \in Check,
         Begin(c) \/ GetCopy(c) \/ ReadSetting(c) \/ FillCopy(c) \/ Decide(c) \/ FailOpen(c)
  PROVE  EffectInv'
<1>1. /\ checks \in [Check -> State] /\ due \in [Check -> Mode \cup {"none"}]
      /\ setting \in Mode \cup {"none"} /\ copy \in Mode \cup {"none"} /\ stale \in BOOLEAN
      /\ checks[c].op \in {"fill", "decide"} => checks[c].mode \in Mode
  BY DEF EffectInv, Shape, State, Idle
<1>2. /\ \A op \in {"get", "read", "passed", "refused"} : [op |-> op] \in State
      /\ \A op \in {"fill", "decide"}, m \in Mode : [op |-> op, mode |-> m] \in State
      /\ Effective \in Mode
  BY EffectiveMode DEF State
<1>3. due[c] # "none" =>
        due[c] = Effective /\ changing = {} /\ stale = FALSE /\ Carries(checks[c], due[c])
  BY DEF EffectInv, OwedIsEffective, OwedIsCarried
<1>4. CASE Begin(c)
  <2> DEFINE owed == IF changing = {} /\ ~stale THEN Effective ELSE "none"
  <2>1. /\ checks' = [checks EXCEPT ![c] = [op |-> "get"]]
        /\ due' = [due EXCEPT ![c] = owed]
        /\ UNCHANGED <<setting, copy, changing, stale>>
    BY <1>4 DEF Begin, Becomes
  <2>2. owed \in Mode \cup {"none"}
    BY <1>2
  <2>3. owed # "none" => owed = Effective /\ changing = {} /\ stale = FALSE
    BY <1>1
  <2> HIDE DEF owed
  <2>4. Shape'
    BY <1>1, <1>2, <2>1, <2>2 DEF Shape
  <2>5. CopyAgrees' /\ OwedIsEffective'
    BY <1>1, <2>1, <2>3 DEF EffectInv, CopyAgrees, OwedIsEffective, Effective
  <2>6. OwedIsCarried'
    BY <1>1, <2>1 DEF EffectInv, OwedIsCarried, Carries
  <2> QED BY <2>4, <2>5, <2>6 DEF EffectInv
<1>5. CASE GetCopy(c)
  <2>1. CASE copy = "none"
    <3>1. Becomes(c, [op |-> "read"])
      BY <1>5, <2>1 DEF GetCopy
    <3> QED BY <1>2, <1>5, <3>1, MoveEffect DEF GetCopy, Carries
  <2>2. CASE copy # "none"
    <3>1. Becomes(c, [op |-> "decide", mode |-> copy]) /\ copy \in Mode
      BY <1>1, <1>5, <2>2 DEF GetCopy
    <3>2. due[c] # "none" => copy = due[c]
      BY <1>3, <2>2 DEF EffectInv, CopyAgrees
    <3> QED BY <1>2, <1>5, <3>1, <3>2, MoveEffect DEF GetCopy, Carries
  <2> QED BY <2>1, <2>2
<1>6. CASE ReadSetting(c)
  <2>1. Becomes(c, [op |-> "fill", mode |-> Effective])
    BY <1>6 DEF ReadSetting
  <2> QED BY <1>2, <1>3, <1>6, <2>1, MoveEffect DEF ReadSetting, Carries
<1>7. CASE FillCopy(c)
  <2>1. /\ checks[c].op = "fill" /\ checks[c].mode \in Mode
        /\ copy' = checks[c].mode
        /\ stale' = (copy' # Effective)
        /\ due' = IF stale' THEN [d \in Check |-> "none"] ELSE due
        /\ checks' = [checks EXCEPT ![c] = [op |-> "decide", mode |-> checks[c].mode]]
        /\ UNCHANGED <<setting, changing>>
    BY <1>1, <1>7 DEF FillCopy, Becomes
  <2>2. Effective' = Effective
    BY <2>1 DEF Effective
  <2>3. [op |-> "decide", mode |-> checks[c].mode] \in State
    BY <1>2, <2>1
  <2>4. Shape'
    <3>1. due' \in [Check -> Mode \cup {"none"}]
      BY <1>1, <2>1
    <3>2. stale' \in BOOLEAN
      BY <2>1
    <3>3. checks' \in [Check -> State]
      BY <1>1, <2>1, <2>3
    <3> QED BY <1>1, <2>1, <3>1, <3>2, <3>3 DEF Shape
  <2>5. CopyAgrees'
    BY <2>1, <2>2 DEF CopyAgrees
  <2>6. CASE copy' # Effective
    <3>1. \A d \in Check : due'[d] = "none"
      BY <2>1, <2>6
    <3> QED BY <2>4, <2>5, <3>1 DEF EffectInv, OwedIsEffective, OwedIsCarried
  <2>7. CASE copy' = Effective
    <3>1. stale' = FALSE /\ due' = due
      BY <2>1, <2>7
    <3>2. OwedIsEffective'
      BY <2>1, <2>2, <3>1 DEF EffectInv, OwedIsEffective
    <3>3. OwedIsCarried'
      BY <1>1, <2>1, <3>1 DEF EffectInv, OwedIsCarried, Carries
    <3> QED BY <2>4, <2>5, <3>2, <3>3 DEF EffectInv
  <2> QED BY <2>6, <2>7
<1>8. CASE Decide(c)
  <2>1. CASE checks[c].mode = "true"
    <3>1. Becomes(c, [op |-> "refused"]) /\ checks[c].op = "decide"
      BY <1>8, <2>1 DEF Decide
    <3> QED BY <1>2, <1>3, <1>8, <2>1, <3>1, MoveEffect DEF Decide, Carries
  <2>2. CASE checks[c].mode # "true"
    <3>1. Becomes(c, [op |-> "passed"]) /\ checks[c].op = "decide" /\ checks[c].mode = "false"
      BY <1>1, <1>8, <2>2 DEF Decide, Mode
    <3> QED BY <1>2, <1>3, <1>8, <3>1, MoveEffect DEF Decide, Carries
  <2> QED BY <2>1, <2>2
<1>9. CASE FailOpen(c)
  <2>1. /\ checks' = [checks EXCEPT ![c] = [op |-> "passed"]]
        /\ due' = [due EXCEPT ![c] = "none"]
        /\ UNCHANGED <<setting, copy, changing, stale>>
    BY <1>9 DEF FailOpen, Becomes
  <2>2. Shape'
    BY <1>1, <1>2, <2>1 DEF Shape
  <2>3. CopyAgrees' /\ OwedIsEffective'
    BY <1>1, <2>1 DEF EffectInv, CopyAgrees, OwedIsEffective, Effective
  <2>4. OwedIsCarried'
    BY <1>1, <2>1 DEF EffectInv, OwedIsCarried, Carries
  <2> QED BY <2>2, <2>3, <2>4 DEF EffectInv
<1> QED BY <1>4, <1>5, <1>6, <1>7, <1>8, <1>9

\* Nothing is owed while an administrator is between the row and the copy.
LEMMA ChangeEffect ==
  ASSUME EffectInv, NEW a \in Admin,
         DropCopy(a) \/ DropLost(a) \/ \E mode \in Mode : UpdateSystemSettings(a, mode)
  PROVE  EffectInv'
<1>1. ASSUME NEW mode \in Mode, UpdateSystemSettings(a, mode) PROVE EffectInv'
  <2>1. /\ changing' # {} /\ setting' \in Mode
        /\ due' = [c \in Check |-> "none"]
        /\ UNCHANGED <<copy, checks, stale>>
    BY <1>1 DEF UpdateSystemSettings
  <2> QED BY <2>1 DEF EffectInv, Shape, CopyAgrees, OwedIsEffective, OwedIsCarried
<1>2. CASE DropCopy(a) \/ DropLost(a)
  <2>1. /\ UNCHANGED <<setting, checks, due>>
        /\ changing # {}
        /\ copy' \in {"none", copy}
        /\ stale' = (copy' \notin {"none", Effective})
    BY <1>2 DEF DropCopy, DropLost
  <2>2. \A c \in Check : due[c] = "none"
    BY <2>1 DEF EffectInv, OwedIsEffective
  <2>3. Effective' = Effective
    BY <2>1 DEF Effective
  <2>4. Shape'
    BY <2>1 DEF EffectInv, Shape
  <2>5. CopyAgrees'
    BY <2>1, <2>3 DEF CopyAgrees
  <2>6. OwedIsEffective' /\ OwedIsCarried'
    BY <2>1, <2>2 DEF OwedIsEffective, OwedIsCarried
  <2> QED BY <2>4, <2>5, <2>6 DEF EffectInv
<1> QED BY <1>1, <1>2

LEMMA NextEffect == ASSUME EffectInv, [Next]_vars PROVE EffectInv'
<1>1. CASE GetSystemSettings
  <2>1. Effective' = Effective /\ setting' = "false" /\ UNCHANGED <<copy, checks, changing, due, stale>>
    BY <1>1 DEF GetSystemSettings, Effective
  <2> QED BY <2>1 DEF EffectInv, Shape, Mode, CopyAgrees, OwedIsEffective, OwedIsCarried
<1>2. CASE CopyExpires
  <2>1. /\ Effective' = Effective /\ copy' = "none" /\ stale' = FALSE
        /\ UNCHANGED <<setting, checks, changing, due>>
    BY <1>2 DEF CopyExpires, Effective
  <2> QED BY <2>1 DEF EffectInv, Shape, CopyAgrees, OwedIsEffective, OwedIsCarried
<1>3. CASE UNCHANGED vars
  BY <1>3 DEF vars, EffectInv, Shape, CopyAgrees, OwedIsEffective, OwedIsCarried, Effective
<1> QED BY <1>1, <1>2, <1>3, CheckEffect, ChangeEffect DEF Next

\* Once a change of the settings has been answered, a request that starts is
\* refused exactly when maintenance is on: whatever requests and administrators
\* interleave, but for the failures and overtaken fills the property names.
THEOREM MaintenanceGoverns == Spec => []MaintenanceTakesEffect
<1>1. Init => EffectInv
  BY InitEffect
<1>2. EffectInv /\ [Next]_vars => EffectInv'
  BY NextEffect
<1>3. EffectInv => MaintenanceTakesEffect
  BY DEF EffectInv, OwedIsCarried, Carries, MaintenanceTakesEffect
<1> QED BY <1>1, <1>2, <1>3, PTL DEF Spec
=============================================================================
