---------------------------- MODULE LockoutProofs ----------------------------
(***************************************************************************)
(* Proofs about Lockout, for any number of handlers, any thresholds and    *)
(* TTLs in the order LockoutAssumption states, and any number of restarts. *)
(***************************************************************************)
EXTENDS Lockout, FiniteSetTheorems, TLAPS

-----------------------------------------------------------------------------
(* Types                                                                    *)

Handler == {Idle} \cup Simple \cup Locking

LEMMA BecomesTyped ==
  ASSUME attempt \in [Attempt -> Handler], NEW a \in Attempt, NEW q \in Handler, Becomes(a, q)
  PROVE  /\ attempt' \in [Attempt -> Handler]
         /\ attempt'[a] = q
         /\ \A b \in Attempt \ {a} : attempt'[b] = attempt[b]
  BY DEF Becomes

LEMMA Handlers ==
  ASSUME NEW q \in Handler
  PROVE  /\ q.op \in {"idle", "verifying", "expiring", "unlocking", "locking"}
         /\ q.op = "locking" => q.failures \in SoftThreshold .. MaxFailures
  BY DEF Handler, Idle, Simple, Locking

LEMMA AfterIncrTyped ==
  ASSUME NEW n \in 1 .. MaxFailures
  PROVE  /\ AfterIncr(n) \in Handler
         /\ n = 1 => AfterIncr(n).op = "expiring"
         /\ n >= SoftThreshold => AfterIncr(n).op = "locking"
         /\ AfterIncr(n).op # "verifying"
<1> USE LockoutAssumption
<1>1. CASE n = 1
  BY <1>1 DEF AfterIncr, Handler, Simple
<1>2. CASE n # 1 /\ n < SoftThreshold
  BY <1>2 DEF AfterIncr, Handler, Idle
<1>3. CASE n # 1 /\ n >= SoftThreshold
  BY <1>3 DEF AfterIncr, Handler, Locking
<1> QED BY <1>1, <1>2, <1>3

LEMMA InitTypes == ASSUME Init PROVE TypeOK
<1>1. failures = 0 /\ failTtl = 0 /\ lockTtl = 0 /\ crashes = 0 /\ tries = 0
  BY DEF Init
<1>2. overlap \in BOOLEAN
  BY DEF Init
<1>3. attempt \in [Attempt -> {Idle} \cup Simple \cup Locking]
  BY DEF Init
<1> QED BY <1>1, <1>2, <1>3, LockoutAssumption DEF TypeOK, NoTtl

LEMMA NextTypes == ASSUME TypeOK, [Next]_vars PROVE TypeOK'
<1> USE LockoutAssumption
<1>1. /\ attempt \in [Attempt -> Handler]
      /\ Idle \in Handler
      /\ \A op \in {"verifying", "expiring", "unlocking"} : [op |-> op] \in Handler
  BY DEF TypeOK, Handler, Simple
<1>2. ASSUME NEW a \in Attempt, Start(a) PROVE TypeOK'
  <2>1. attempt' \in [Attempt -> Handler]
    BY <1>1, <1>2, BecomesTyped DEF Start
  <2>2. overlap' \in BOOLEAN
    BY <1>2 DEF Start
  <2> QED BY <1>2, <2>1, <2>2 DEF Start, TypeOK, Handler
<1>3. ASSUME NEW a \in Attempt, Incr(a) PROVE TypeOK'
  <2>1. failures + 1 \in 1 .. MaxFailures
    BY <1>3 DEF Incr, TypeOK
  <2>2. attempt' \in [Attempt -> Handler]
    BY <1>1, <1>3, <2>1, AfterIncrTyped, BecomesTyped DEF Incr
  <2>3. /\ failTtl' \in {NoTtl} \cup 0 .. HardTtl
        /\ failures' = 0 <=> failTtl' = 0
    BY <1>3, <2>1 DEF Incr, TypeOK, NoTtl
  <2> QED BY <1>3, <2>1, <2>2, <2>3 DEF Incr, TypeOK, Handler
<1>4. ASSUME NEW a \in Attempt, Expire(a) PROVE TypeOK'
  <2>1. attempt' \in [Attempt -> Handler]
    BY <1>1, <1>4, BecomesTyped DEF Expire
  <2>2. /\ failTtl' \in {NoTtl} \cup 0 .. HardTtl
        /\ failures' = 0 <=> failTtl' = 0
    BY <1>4 DEF Expire, TypeOK, NoTtl
  <2> QED BY <1>4, <2>1, <2>2 DEF Expire, TypeOK, Handler
<1>5. ASSUME NEW a \in Attempt, Lock(a) PROVE TypeOK'
  <2>1. attempt' \in [Attempt -> Handler]
    BY <1>1, <1>5, BecomesTyped DEF Lock
  <2>2. lockTtl' \in 0 .. HardTtl
    BY <1>5 DEF Lock
  <2> QED BY <1>5, <2>1, <2>2 DEF Lock, TypeOK, Handler
<1>6. ASSUME NEW a \in Attempt, ClearFailures(a) PROVE TypeOK'
  <2>1. attempt' \in [Attempt -> Handler]
    BY <1>1, <1>6, BecomesTyped DEF ClearFailures
  <2> QED BY <1>6, <2>1 DEF ClearFailures, TypeOK, Handler
<1>7. ASSUME NEW a \in Attempt, Unlock(a) PROVE TypeOK'
  <2>1. attempt' \in [Attempt -> Handler]
    BY <1>1, <1>7, BecomesTyped DEF Unlock
  <2> QED BY <1>7, <2>1 DEF Unlock, TypeOK, Handler
<1>8. CASE Tick
  <2>1. /\ failures' \in 0 .. MaxFailures
        /\ failTtl' \in {NoTtl} \cup 0 .. HardTtl
        /\ failures' = 0 <=> failTtl' = 0
        /\ lockTtl' \in 0 .. HardTtl
    BY <1>8 DEF Tick, Sooner, TypeOK, NoTtl
  <2> QED BY <1>8, <2>1 DEF Tick, TypeOK
<1>9. CASE Crash
  BY <1>9 DEF Crash, TypeOK
<1>10. CASE UNCHANGED vars
  BY <1>10 DEF vars, TypeOK
<1> QED BY <1>2, <1>3, <1>4, <1>5, <1>6, <1>7, <1>8, <1>9, <1>10 DEF Next, Step

\* The two keys come and go together with their TTLs.
THEOREM TypesAreKept == Spec => []TypeOK
  BY InitTypes, NextTypes, PTL DEF Spec

-----------------------------------------------------------------------------
(* The counter expires                                                      *)

LEMMA NextExpires ==
  ASSUME TypeOK, CounterExpires, [Next]_vars
  PROVE  CounterExpires'
<1> USE LockoutAssumption
<1>1. TypeOK'
  BY NextTypes
<1>2. ASSUME crashes' = 0, failTtl' = NoTtl
      PROVE  \E b \in Attempt : attempt'[b].op = "expiring"
  <2>1. /\ attempt \in [Attempt -> Handler]
        /\ Idle \in Handler
        /\ \A op \in {"verifying", "expiring", "unlocking"} : [op |-> op] \in Handler
    BY DEF TypeOK, Handler, Simple
  <2>2. ASSUME NEW a \in Attempt, NEW q \in Handler, Becomes(a, q),
               crashes = 0, failTtl = NoTtl, attempt[a].op # "expiring"
        PROVE  \E b \in Attempt : attempt'[b].op = "expiring"
    <3>1. PICK b \in Attempt : attempt[b].op = "expiring"
      BY <2>2 DEF CounterExpires
    <3>2. attempt'[b] = attempt[b]
      BY <2>1, <2>2, <3>1, BecomesTyped
    <3> QED BY <3>1, <3>2
  <2>3. ASSUME NEW a \in Attempt, Start(a)
        PROVE  \E b \in Attempt : attempt'[b].op = "expiring"
    <3>1. crashes = 0 /\ failTtl = NoTtl /\ attempt[a].op # "expiring"
          /\ Becomes(a, [op |-> "verifying"])
      BY <1>2, <2>3 DEF Start, Idle
    <3> QED BY <2>1, <2>2, <3>1
  <2>4. ASSUME NEW a \in Attempt, Incr(a)
        PROVE  \E b \in Attempt : attempt'[b].op = "expiring"
    <3>1. failures + 1 \in 1 .. MaxFailures /\ AfterIncr(failures + 1) \in Handler
      BY <2>4, AfterIncrTyped DEF Incr, TypeOK
    <3>2. Becomes(a, AfterIncr(failures + 1)) /\ attempt[a].op = "verifying" /\ crashes = 0
      BY <1>2, <2>4 DEF Incr
    <3>3. CASE failures = 0
      <4>1. attempt'[a].op = "expiring"
        BY <2>1, <3>1, <3>2, <3>3, AfterIncrTyped, BecomesTyped
      <4> QED BY <4>1
    <3>4. CASE failures # 0
      <4>1. failTtl = NoTtl
        BY <1>2, <2>4, <3>4 DEF Incr
      <4> QED BY <2>2, <3>1, <3>2, <4>1
    <3> QED BY <3>3, <3>4
  <2>5. ASSUME NEW a \in Attempt, Expire(a) PROVE FALSE
    BY <1>2, <2>5 DEF Expire, NoTtl
  <2>6. ASSUME NEW a \in Attempt, Lock(a) \/ Unlock(a)
        PROVE  \E b \in Attempt : attempt'[b].op = "expiring"
    <3>1. crashes = 0 /\ failTtl = NoTtl /\ attempt[a].op # "expiring" /\ Becomes(a, Idle)
      BY <1>2, <2>6 DEF Lock, Unlock
    <3> QED BY <2>1, <2>2, <3>1
  <2>7. ASSUME NEW a \in Attempt, ClearFailures(a) PROVE FALSE
    BY <1>2, <2>7 DEF ClearFailures, NoTtl
  <2>8. CASE Tick \/ UNCHANGED vars
    <3>1. crashes = 0 /\ failTtl = NoTtl /\ attempt' = attempt
      BY <1>2, <2>8 DEF Tick, Sooner, TypeOK, NoTtl, vars
    <3> QED BY <3>1 DEF CounterExpires
  <2>9. CASE Crash
    BY <1>2, <2>9 DEF Crash, TypeOK
  <2> QED BY <2>3, <2>4, <2>5, <2>6, <2>7, <2>8, <2>9 DEF Next, Step
<1> QED BY <1>2 DEF CounterExpires, NoTtl

\* Unless a restart came between incr and expire, a counter without a TTL is
\* about to get one: no interleaving of handlers leaves it there for good.
THEOREM CounterDoesExpire == Spec => []CounterExpires
<1>1. Init => TypeOK /\ CounterExpires
  <2>1. Init => failTtl = 0
    BY DEF Init
  <2> QED BY <2>1, InitTypes DEF CounterExpires, NoTtl
<1>2. TypeOK /\ CounterExpires /\ [Next]_vars => (TypeOK /\ CounterExpires)'
  BY NextTypes, NextExpires
<1> QED BY <1>1, <1>2, PTL DEF Spec

-----------------------------------------------------------------------------
(* Tries are bounded.  Each wrong password beyond the threshold is paid for *)
(* by a handler: while there is no lock, one that is about to set it or was *)
(* lost in a restart; once there is, one that had passed getLockout before. *)

In(op) == {a \in Attempt : attempt[a].op = op}
L == Cardinality(In("locking"))
V == Cardinality(In("verifying"))
N == Cardinality(Attempt)
Lost == N * crashes

TriesInv ==
  /\ TypeOK
  /\ tries <= failures
  /\ lockTtl = 0 => tries < SoftThreshold + L + Lost
  /\ lockTtl > 0 => tries + V < SoftThreshold + N + Lost

LEMMA Handfuls ==
  ASSUME NEW S \in SUBSET Attempt, NEW T \in SUBSET Attempt, S \cap T = {}
  PROVE  /\ N \in Nat
         /\ IsFiniteSet(S) /\ Cardinality(S) \in Nat
         /\ Cardinality(S) + Cardinality(T) <= N
<1>1. IsFiniteSet(Attempt) /\ N \in Nat
  BY LockoutAssumption, FS_CardinalityType DEF N
<1>2. /\ IsFiniteSet(S) /\ Cardinality(S) \in Nat
      /\ IsFiniteSet(T) /\ Cardinality(T) \in Nat
  BY <1>1, FS_Subset, FS_CardinalityType
<1>3. Cardinality(S \cup T) = Cardinality(S) + Cardinality(T) - Cardinality({})
  BY <1>2, FS_Union
<1>4. Cardinality(S \cup T) <= N
  BY <1>1, FS_Subset DEF N
<1> QED BY <1>1, <1>2, <1>3, <1>4, FS_EmptySet

LEMMA HandlersIn ==
  /\ N \in Nat
  /\ L \in Nat /\ V \in Nat
  /\ L + V <= N
<1>1. /\ In("locking") \in SUBSET Attempt /\ In("verifying") \in SUBSET Attempt
      /\ In("locking") \cap In("verifying") = {} /\ In("verifying") \cap In("locking") = {}
  BY DEF In
<1> QED BY <1>1, Handfuls DEF L, V

\* A handler's step moves it from one phase to another.
LEMMA Moves ==
  ASSUME attempt \in [Attempt -> Handler], NEW a \in Attempt, NEW q \in Handler,
         Becomes(a, q), NEW op \in {"locking", "verifying"}
  PROVE  Cardinality(In(op)') = Cardinality(In(op))
                                  + (IF q.op = op THEN 1 ELSE 0)
                                  - (IF attempt[a].op = op THEN 1 ELSE 0)
<1>1. IsFiniteSet(In(op)) /\ Cardinality(In(op)) \in Nat
  <2>1. In(op) \in SUBSET Attempt /\ {} \in SUBSET Attempt /\ In(op) \cap {} = {}
    BY DEF In
  <2> QED BY <2>1, Handfuls
<1>2. a \in In(op) <=> attempt[a].op = op
  BY DEF In
<1>3. CASE q.op = op
  <2>1. In(op)' = In(op) \cup {a}
    BY <1>3, BecomesTyped DEF In
  <2>2. Cardinality(In(op) \cup {a}) =
          IF a \in In(op) THEN Cardinality(In(op)) ELSE Cardinality(In(op)) + 1
    BY <1>1, FS_AddElement, Zenon
  <2> QED BY <1>1, <1>2, <1>3, <2>1, <2>2
<1>4. CASE q.op # op
  <2>1. In(op)' = In(op) \ {a}
    BY <1>4, BecomesTyped DEF In
  <2>2. Cardinality(In(op) \ {a}) =
          IF a \in In(op) THEN Cardinality(In(op)) - 1 ELSE Cardinality(In(op))
    BY <1>1, FS_RemoveElement, Zenon
  <2> QED BY <1>1, <1>2, <1>4, <2>1, <2>2
<1> QED BY <1>3, <1>4

LEMMA LostInRestarts ==
  ASSUME TypeOK
  PROVE  /\ Lost \in Nat
         /\ crashes' = crashes => Lost' = Lost
         /\ crashes' = crashes + 1 => Lost' = Lost + N
<1>1. N \in Nat /\ crashes \in Nat
  BY HandlersIn, LockoutAssumption DEF TypeOK
<1>2. N * (crashes + 1) = N * crashes + N
  BY <1>1
<1> QED BY <1>1, <1>2 DEF Lost, N

LEMMA InitTries == ASSUME Init PROVE TriesInv
<1>1. TypeOK
  BY InitTypes
<1>2. failures = 0 /\ tries = 0 /\ lockTtl = 0
  BY DEF Init
<1> QED BY <1>1, <1>2, HandlersIn, LostInRestarts, LockoutAssumption DEF TriesInv

LEMMA NextTries == ASSUME TriesInv, [Next]_vars PROVE TriesInv'
<1> USE LockoutAssumption
<1>1. TypeOK /\ TypeOK'
  BY NextTypes DEF TriesInv
<1>2. /\ N \in Nat /\ L \in Nat /\ V \in Nat /\ L + V <= N
      /\ L' \in Nat /\ V' \in Nat /\ L' + V' <= N
  <2>1. /\ In("locking")' \in SUBSET Attempt /\ In("verifying")' \in SUBSET Attempt
        /\ In("locking")' \cap In("verifying")' = {} /\ In("verifying")' \cap In("locking")' = {}
    BY DEF In
  <2> QED BY <2>1, HandlersIn, Handfuls DEF L, V
<1>3. /\ Lost \in Nat /\ N' = N
      /\ crashes' = crashes => Lost' = Lost
      /\ crashes' = crashes + 1 => Lost' = Lost + N
  BY <1>1, LostInRestarts DEF N
<1>4. /\ attempt \in [Attempt -> Handler]
      /\ Idle \in Handler /\ Idle.op = "idle"
      /\ \A op \in {"verifying", "expiring", "unlocking"} : [op |-> op] \in Handler
  BY <1>1 DEF TypeOK, Handler, Simple, Idle
<1>5. /\ failures \in Nat /\ tries \in Nat /\ lockTtl \in Nat
      /\ failures' \in Nat /\ tries' \in Nat /\ lockTtl' \in Nat
  BY <1>1 DEF TypeOK
<1>6. /\ tries <= failures
      /\ lockTtl = 0 => tries < SoftThreshold + L + Lost
      /\ lockTtl > 0 => tries + V < SoftThreshold + N + Lost
  BY DEF TriesInv
<1>7. ASSUME NEW a \in Attempt, NEW q \in Handler, Becomes(a, q)
      PROVE  /\ L' = L + (IF q.op = "locking" THEN 1 ELSE 0)
                       - (IF attempt[a].op = "locking" THEN 1 ELSE 0)
             /\ V' = V + (IF q.op = "verifying" THEN 1 ELSE 0)
                       - (IF attempt[a].op = "verifying" THEN 1 ELSE 0)
  BY <1>4, <1>7, Moves DEF L, V
<1>8. SUFFICES /\ tries' <= failures'
               /\ lockTtl' = 0 => tries' < SoftThreshold + L' + Lost'
               /\ lockTtl' > 0 => tries' + V' < SoftThreshold + N + Lost'
  BY <1>1, <1>3 DEF TriesInv
<1> DEFINE Goal == /\ tries' <= failures'
                   /\ lockTtl' = 0 => tries' < SoftThreshold + L' + Lost'
                   /\ lockTtl' > 0 => tries' + V' < SoftThreshold + N + Lost'
<1>9. ASSUME NEW a \in Attempt, Start(a) PROVE Goal
  <2>1. L' = L /\ lockTtl = 0
    BY <1>2, <1>4, <1>7, <1>9 DEF Start, Idle
  <2>2. UNCHANGED <<tries, failures, lockTtl, crashes>>
    BY <1>9 DEF Start
  <2> QED BY <1>3, <1>6, <2>1, <2>2
<1>10. ASSUME NEW a \in Attempt, Incr(a) PROVE Goal
  <2>1. /\ failures + 1 \in 1 .. MaxFailures
        /\ Becomes(a, AfterIncr(failures + 1)) /\ attempt[a].op = "verifying"
    BY <1>1, <1>10 DEF Incr, TypeOK
  <2>2. /\ AfterIncr(failures + 1) \in Handler
        /\ failures + 1 >= SoftThreshold => AfterIncr(failures + 1).op = "locking"
        /\ AfterIncr(failures + 1).op # "verifying"
    BY <2>1, AfterIncrTyped
  <2>3. /\ V' = V - 1 /\ L' >= L
        /\ failures + 1 >= SoftThreshold => L' = L + 1
    BY <1>2, <1>7, <2>1, <2>2
  <2>4. /\ tries' = tries + 1 /\ failures' = failures + 1
        /\ UNCHANGED <<lockTtl, crashes>>
    BY <1>10 DEF Incr
  <2>5. tries' <= failures'
    BY <1>5, <1>6, <2>4
  <2>6. lockTtl' = 0 => tries' < SoftThreshold + L' + Lost'
    <3>1. CASE failures' < SoftThreshold
      BY <1>2, <1>3, <1>5, <2>4, <2>5, <3>1 DEF L, V
    <3>2. CASE failures' >= SoftThreshold
      BY <1>2, <1>3, <1>5, <1>6, <2>3, <2>4, <3>2
    <3> QED BY <1>5, <3>1, <3>2
  <2>7. lockTtl' > 0 => tries' + V' < SoftThreshold + N + Lost'
    BY <1>2, <1>3, <1>5, <1>6, <2>3, <2>4
  <2> QED BY <2>5, <2>6, <2>7
<1>11. ASSUME NEW a \in Attempt, Expire(a) PROVE Goal
  <2>1. L' = L /\ V' = V
    BY <1>2, <1>4, <1>7, <1>11 DEF Expire
  <2>2. UNCHANGED <<tries, failures, lockTtl, crashes>>
    BY <1>11 DEF Expire
  <2> QED BY <1>3, <1>6, <2>1, <2>2
<1>12. ASSUME NEW a \in Attempt, Lock(a) PROVE Goal
  <2>1. V' = V /\ L' = L - 1
    BY <1>2, <1>4, <1>7, <1>12 DEF Lock
  <2>2. UNCHANGED <<tries, failures, crashes>> /\ lockTtl' > 0
    BY <1>12 DEF Lock
  <2> QED BY <1>2, <1>3, <1>5, <1>6, <2>1, <2>2
<1>13. ASSUME tries' = 0, crashes' = crashes PROVE Goal
  BY <1>2, <1>3, <1>5, <1>13 DEF L, V
<1>14. CASE Crash
  <2>1. L' = 0 /\ V' = 0
    <3>1. In("locking")' = {} /\ In("verifying")' = {}
      BY <1>14 DEF Crash, In, Idle
    <3> QED BY <3>1, FS_EmptySet DEF L, V
  <2>2. UNCHANGED <<tries, failures, lockTtl>> /\ crashes' = crashes + 1
    BY <1>14 DEF Crash
  <2> QED BY <1>2, <1>3, <1>5, <1>6, <2>1, <2>2
<1>15. CASE UNCHANGED vars
  BY <1>3, <1>6, <1>15 DEF vars, L, V, In
<1>16. ASSUME NEW a \in Attempt, ClearFailures(a) \/ Unlock(a) PROVE Goal
  BY <1>13, <1>16 DEF ClearFailures, Unlock
<1>17. CASE Tick
  BY <1>13, <1>17 DEF Tick
<1> QED BY <1>9, <1>10, <1>11, <1>12, <1>14, <1>15, <1>16, <1>17 DEF Next, Step

\* Wrong passwords compared, until time passes or the right one is given: the
\* soft threshold, and no more beyond it than handlers in flight and lost.
THEOREM TriesAreBounded == Spec => []TriesBounded
<1>1. Init => TriesInv
  BY InitTries
<1>2. TriesInv /\ [Next]_vars => TriesInv'
  BY NextTries
<1>3. TriesInv => TriesBounded
  <2>1. N * (1 + crashes) = N + Lost \/ ~TypeOK
    BY HandlersIn, LockoutAssumption DEF TypeOK, Lost
  <2>2. TypeOK => tries \in Nat /\ lockTtl \in Nat /\ Lost \in Nat
    BY LostInRestarts DEF TypeOK
  <2> QED BY <2>1, <2>2, HandlersIn, LockoutAssumption DEF TriesInv, TriesBounded, N
<1> QED BY <1>1, <1>2, <1>3, PTL DEF Spec


-----------------------------------------------------------------------------
(* Made one at a time, attempts are paced.  From the soft threshold on, each *)
(* failure is followed by a soft lock that has to run out before the next    *)
(* attempt, so the counter has aged by one SoftTtl per failure; it is gone   *)
(* before it can have aged by as many as lie between the thresholds.         *)

Busy == {a \in Attempt : attempt[a] # Idle}

\* What has passed of the lock that the last failure earned.
Waited == IF \E a \in Attempt : attempt[a].op = "locking" THEN 0 ELSE SoftTtl - lockTtl

AgedWell ==
  failures >= SoftThreshold =>
    /\ failTtl # NoTtl
    /\ (failures - SoftThreshold) * SoftTtl + Waited <= HardTtl - failTtl

Paced ==
  /\ \A a, b \in Busy : a = b
  /\ Busy # {} => lockTtl = 0
  /\ \A a \in Attempt : attempt[a].op = "expiring" => failures = 1 /\ failTtl = NoTtl
  /\ \A a \in Attempt : attempt[a].op = "locking" => attempt[a].failures < HardThreshold
  /\ failures < HardThreshold /\ lockTtl <= SoftTtl
  /\ AgedWell

PacedInv == ~overlap /\ crashes = 0 => Paced

\* A handler that takes a step on its own is the only one that is busy.
LEMMA Alone ==
  ASSUME TypeOK, Paced, NEW a \in Attempt, a \in Busy, NEW q \in Handler, Becomes(a, q)
  PROVE  /\ attempt'[a] = q
         /\ \A b \in Attempt \ {a} : attempt[b] = Idle /\ attempt'[b] = Idle
         /\ Busy' \subseteq {a}
         /\ q = Idle => Busy' = {}
         /\ lockTtl = 0
         /\ \A op \in {"expiring", "locking"} :
              /\ (\E b \in Attempt : attempt[b].op = op) <=> attempt[a].op = op
              /\ (\E b \in Attempt : attempt'[b].op = op) <=> q.op = op
<1>1. attempt \in [Attempt -> Handler]
  BY DEF TypeOK, Handler
<1>2. /\ attempt'[a] = q
      /\ \A b \in Attempt \ {a} : attempt'[b] = attempt[b]
  BY <1>1, BecomesTyped
<1>3. \A b \in Attempt \ {a} : attempt[b] = Idle
  BY DEF Paced, Busy
<1>4. Idle.op = "idle"
  BY DEF Idle
<1>5. Busy' \subseteq {a} /\ (q = Idle => Busy' = {})
  BY <1>2, <1>3 DEF Busy
<1>6. lockTtl = 0
  BY DEF Paced
<1> QED BY <1>2, <1>3, <1>4, <1>5, <1>6

\* One more failure, one more soft lock.
LEMMA OneMore ==
  ASSUME NEW n \in Nat, n >= SoftThreshold
  PROVE  (n + 1 - SoftThreshold) * SoftTtl = (n - SoftThreshold) * SoftTtl + SoftTtl
<1> DEFINE k == n - SoftThreshold
<1>1. k \in Nat /\ SoftTtl \in Nat /\ n + 1 - SoftThreshold = k + 1
  BY LockoutAssumption
<1>2. (k + 1) * SoftTtl = k * SoftTtl + SoftTtl
  BY <1>1
<1> QED BY <1>1, <1>2

LEMMA InitPaced == ASSUME Init PROVE PacedInv
<1>1. failures = 0 /\ lockTtl = 0
  BY DEF Init
<1>2. \A a \in Attempt : attempt[a] = Idle
  BY DEF Init
<1>3. Idle.op = "idle"
  BY DEF Idle
<1> QED BY <1>1, <1>2, <1>3, LockoutAssumption DEF PacedInv, Paced, Busy, AgedWell

LEMMA NextPaced == ASSUME TypeOK, CounterExpires, PacedInv, [Next]_vars PROVE PacedInv'
<1> USE LockoutAssumption
<1>1. TypeOK'
  BY NextTypes
<1>2. SUFFICES ASSUME ~overlap', crashes' = 0 PROVE Paced'
  BY DEF PacedInv
<1>3. ~overlap /\ crashes = 0
  BY <1>1, <1>2 DEF Next, Step, Start, Incr, Expire, Lock, ClearFailures, Unlock, Tick, Crash,
                    vars, TypeOK
<1>4. Paced
  BY <1>3 DEF PacedInv
<1>5. /\ attempt \in [Attempt -> Handler]
      /\ Idle \in Handler /\ Idle.op = "idle"
      /\ \A op \in {"verifying", "expiring", "unlocking"} :
           [op |-> op] \in Handler /\ [op |-> op] # Idle
  BY DEF TypeOK, Handler, Simple, Idle
<1>6. /\ failures \in Nat /\ lockTtl \in Nat /\ failTtl \in Int /\ failTtl <= HardTtl
      /\ failures' \in Nat /\ lockTtl' \in Nat /\ failTtl' \in Int /\ failTtl' <= HardTtl
      /\ SoftTtl \in Nat /\ HardTtl \in Nat
  BY <1>1 DEF TypeOK, NoTtl
<1>7. /\ failures < HardThreshold /\ lockTtl <= SoftTtl
      /\ failures >= SoftThreshold => failTtl # NoTtl
      /\ failures >= SoftThreshold =>
           (failures - SoftThreshold) * SoftTtl + Waited <= HardTtl - failTtl
  BY <1>4 DEF Paced, AgedWell
<1>8. ASSUME NEW a \in Attempt, Start(a) PROVE Paced'
  <2>1. /\ attempt[a] = Idle /\ lockTtl = 0 /\ Becomes(a, [op |-> "verifying"])
        /\ UNCHANGED <<failures, failTtl, lockTtl>>
        /\ \A b \in Attempt : attempt[b] = Idle
    BY <1>2, <1>8 DEF Start
  <2>2. /\ attempt'[a] = [op |-> "verifying"]
        /\ \A b \in Attempt \ {a} : attempt'[b] = Idle
    BY <1>5, <2>1, BecomesTyped
  <2>3. Busy' \subseteq {a}
    BY <2>2 DEF Busy
  <2>4. \A b \in Attempt : /\ attempt[b].op \notin {"expiring", "locking"}
                           /\ attempt'[b].op \notin {"expiring", "locking"}
    BY <1>5, <2>1, <2>2
  <2>5. Waited' = Waited
    BY <2>1, <2>4 DEF Waited
  <2> QED BY <1>7, <2>1, <2>3, <2>4, <2>5 DEF Paced, AgedWell
<1>9. ASSUME NEW a \in Attempt, Incr(a) PROVE Paced'
  <2> DEFINE q == AfterIncr(failures + 1)
  <2>1. /\ attempt[a].op = "verifying" /\ failures' = failures + 1
        /\ failTtl' = (IF failures = 0 THEN NoTtl ELSE failTtl)
        /\ lockTtl' = lockTtl /\ Becomes(a, q)
        /\ failures + 1 \in 1 .. MaxFailures
    BY <1>9 DEF Incr, TypeOK
  <2>2. q \in Handler /\ a \in Busy
    BY <1>5, <2>1, AfterIncrTyped DEF Busy
  <2>3. /\ attempt'[a] = q
        /\ \A b \in Attempt \ {a} : attempt[b] = Idle /\ attempt'[b] = Idle
        /\ Busy' \subseteq {a} /\ lockTtl = 0
        /\ ~ \E b \in Attempt : attempt[b].op \in {"expiring", "locking"}
    BY <1>4, <2>1, <2>2, Alone
  <2>4. Waited = SoftTtl
    BY <1>6, <2>3 DEF Waited
  <2>5. /\ q.op = "expiring" => failures' = 1 /\ failTtl' = NoTtl
        /\ q.op = "locking" => q.failures = failures'
        /\ failures' >= SoftThreshold => q.op = "locking"
    <3>1. CASE failures + 1 = 1
      BY <1>6, <2>1, <3>1 DEF AfterIncr
    <3>2. CASE failures + 1 # 1 /\ failures + 1 < SoftThreshold
      BY <1>5, <2>1, <3>2 DEF AfterIncr
    <3>3. CASE failures + 1 # 1 /\ failures + 1 >= SoftThreshold
      BY <2>1, <3>3 DEF AfterIncr
    <3> QED BY <1>6, <3>1, <3>2, <3>3
  <2>6. failures' >= SoftThreshold =>
          /\ failTtl' = failTtl /\ failTtl # NoTtl
          /\ (failures' - SoftThreshold) * SoftTtl <= HardTtl - failTtl
    <3>1. SUFFICES ASSUME failures' >= SoftThreshold
                   PROVE  /\ failTtl' = failTtl /\ failTtl # NoTtl
                          /\ (failures' - SoftThreshold) * SoftTtl <= HardTtl - failTtl
      OBVIOUS
    <3>2. failures # 0 /\ failTtl' = failTtl
      BY <1>6, <2>1, <3>1
    <3>3. failTtl # NoTtl
      <4>1. CASE failTtl = NoTtl
        <5>1. \E b \in Attempt : attempt[b].op = "expiring"
          BY <1>1, <2>3, <4>1, <1>3 DEF CounterExpires
        <5> QED BY <2>3, <5>1
      <4> QED BY <4>1
    <3>4. CASE failures >= SoftThreshold
      <4>1. (failures' - SoftThreshold) * SoftTtl = (failures - SoftThreshold) * SoftTtl + SoftTtl
        BY <1>6, <2>1, <3>4, OneMore
      <4> QED BY <1>7, <2>4, <3>2, <3>3, <3>4, <4>1
    <3>5. CASE failures < SoftThreshold
      <4>1. failures' - SoftThreshold = 0
        BY <1>6, <2>1, <3>1, <3>5
      <4>2. (failures' - SoftThreshold) * SoftTtl = 0 * SoftTtl
        BY <4>1, Zenon
      <4>3. 0 * SoftTtl = 0 /\ 0 <= HardTtl - failTtl
        BY <1>6
      <4> QED BY <3>2, <3>3, <4>2, <4>3, Zenon
    <3>6. failures >= SoftThreshold \/ failures < SoftThreshold
      BY <1>6
    <3> QED BY <3>4, <3>5, <3>6, Zenon
  <2>7. failures' < HardThreshold
    <3>1. SUFFICES ASSUME failures' >= HardThreshold PROVE FALSE
      BY <1>6
    <3>2. failures' = HardThreshold
      BY <1>6, <1>7, <2>1, <3>1
    <3>3. HardTtl <= HardTtl - failTtl
      BY <1>6, <2>6, <3>2, SoftLocksOutlastCounter
    <3>4. failTtl > 0
      BY <1>6, <1>7, <2>1, <2>6, <3>2 DEF TypeOK, NoTtl
    <3> QED BY <1>6, <3>3, <3>4
  <2>8. failures' >= SoftThreshold => Waited' = 0
    BY <2>3, <2>5 DEF Waited
  <2>9. AgedWell'
    <3>1. (failures' - SoftThreshold) * SoftTtl \in Int
      BY <1>6
    <3> QED BY <2>6, <2>8, <3>1 DEF AgedWell, NoTtl
  <2> QED BY <1>5, <1>7, <2>1, <2>3, <2>5, <2>7, <2>9 DEF Paced
<1>10. ASSUME NEW a \in Attempt, Expire(a) PROVE Paced'
  <2>1. /\ attempt[a].op = "expiring" /\ Becomes(a, Idle)
        /\ failures' = failures /\ lockTtl' = lockTtl
    BY <1>10 DEF Expire
  <2>2. a \in Busy
    BY <1>5, <2>1 DEF Busy
  <2>3. /\ \A b \in Attempt : attempt'[b] = Idle
        /\ Busy' = {}
    BY <1>4, <1>5, <2>1, <2>2, Alone
  <2>4. failures = 1
    BY <1>4, <2>1 DEF Paced
  <2> QED BY <1>5, <1>7, <2>1, <2>3, <2>4 DEF Paced, AgedWell
<1>11. ASSUME NEW a \in Attempt, Lock(a) PROVE Paced'
  <2>1. /\ attempt[a].op = "locking" /\ Becomes(a, Idle)
        /\ failures' = failures /\ failTtl' = failTtl
        /\ lockTtl' = (IF attempt[a].failures >= HardThreshold THEN HardTtl ELSE SoftTtl)
    BY <1>11 DEF Lock
  <2>2. a \in Busy
    BY <1>5, <2>1 DEF Busy
  <2>3. /\ \A b \in Attempt : attempt'[b] = Idle
        /\ Busy' = {}
        /\ \E b \in Attempt : attempt[b].op = "locking"
    BY <1>4, <1>5, <2>1, <2>2, Alone
  <2>4. attempt[a].failures < HardThreshold /\ attempt[a].failures \in Nat
    BY <1>4, <1>5, <2>1, Handlers DEF Paced
  <2>5. lockTtl' = SoftTtl
    BY <2>1, <2>4
  <2>6. Waited = 0 /\ Waited' = 0
    BY <1>5, <1>6, <2>3, <2>5 DEF Waited
  <2> QED BY <1>5, <1>6, <1>7, <2>1, <2>3, <2>5, <2>6 DEF Paced, AgedWell
<1>12. ASSUME NEW a \in Attempt, ClearFailures(a) PROVE Paced'
  <2>1. /\ attempt[a].op = "verifying" /\ Becomes(a, [op |-> "unlocking"])
        /\ failures' = 0 /\ lockTtl' = lockTtl
    BY <1>12 DEF ClearFailures
  <2>2. a \in Busy /\ [op |-> "unlocking"] \in Handler
    BY <1>5, <2>1 DEF Busy
  <2>3. /\ attempt'[a] = [op |-> "unlocking"]
        /\ \A b \in Attempt \ {a} : attempt'[b] = Idle
        /\ Busy' \subseteq {a}
        /\ lockTtl = 0
    BY <1>4, <2>1, <2>2, Alone
  <2> QED BY <1>5, <1>7, <2>1, <2>3 DEF Paced, AgedWell
<1>13. ASSUME NEW a \in Attempt, Unlock(a) PROVE Paced'
  <2>1. /\ attempt[a].op = "unlocking" /\ Becomes(a, Idle)
        /\ lockTtl' = 0
        /\ UNCHANGED <<failures, failTtl>>
    BY <1>13 DEF Unlock
  <2>2. a \in Busy
    BY <1>5, <2>1 DEF Busy
  <2>3. /\ \A b \in Attempt : attempt'[b] = Idle
        /\ Busy' = {}
        /\ lockTtl = 0
        /\ ~ \E b \in Attempt : attempt[b].op = "locking"
    BY <1>4, <1>5, <2>1, <2>2, Alone
  <2>4. Waited' = Waited
    BY <1>5, <2>1, <2>3 DEF Waited
  <2> QED BY <1>5, <1>7, <2>1, <2>3, <2>4 DEF Paced, AgedWell
<1>14. CASE Tick
  <2>1. /\ attempt' = attempt
        /\ failures' = (IF failTtl = 1 THEN 0 ELSE failures)
        /\ failTtl' = (IF failTtl > 0 THEN failTtl - 1 ELSE failTtl)
        /\ lockTtl' = (IF lockTtl > 0 THEN lockTtl - 1 ELSE lockTtl)
    BY <1>14 DEF Tick, Sooner
  <2>2. Busy' = Busy
    BY <2>1 DEF Busy
  <2>3. \A a \in Attempt : attempt[a].op = "expiring" => failures' = 1 /\ failTtl' = NoTtl
    BY <1>4, <2>1 DEF Paced, NoTtl
  <2>4. AgedWell'
    <3>1. SUFFICES ASSUME failures' >= SoftThreshold
                   PROVE  /\ failTtl' # NoTtl
                          /\ (failures' - SoftThreshold) * SoftTtl + Waited' <= HardTtl - failTtl'
      BY DEF AgedWell
    <3>2. failures' = failures /\ failTtl > 1 /\ failTtl' = failTtl - 1
      BY <1>6, <1>7, <2>1, <3>1 DEF TypeOK, NoTtl
    <3>3. Waited \in Int /\ Waited' \in Int /\ Waited' <= Waited + 1
      BY <1>6, <2>1 DEF Waited
    <3> DEFINE aged == (failures - SoftThreshold) * SoftTtl
    <3>4. aged \in Int
      BY <1>6
    <3>5. aged + Waited <= HardTtl - failTtl
      BY <1>7, <3>1, <3>2
    <3> HIDE DEF aged
    <3>6. aged + Waited' <= HardTtl - failTtl'
      <4>1. \A a, w, u, t, h \in Int :
              a + w <= h - t /\ u <= w + 1 => a + u <= h - (t - 1)
        OBVIOUS
      <4>2. HardTtl \in Int
        BY <1>6
      <4>3. aged + Waited' <= HardTtl - (failTtl - 1)
        BY <1>6, <3>3, <3>4, <3>5, <4>1, <4>2, Zenon
      <4> QED BY <3>2, <4>3
    <3>7. failTtl' # NoTtl
      BY <1>6, <3>2 DEF NoTtl
    <3> QED BY <3>2, <3>6, <3>7 DEF aged
  <2> QED BY <1>4, <1>6, <2>1, <2>2, <2>3, <2>4 DEF Paced
<1>15. CASE Crash
  BY <1>2, <1>3, <1>15 DEF Crash
<1>16. CASE UNCHANGED vars
  <2>1. UNCHANGED <<failures, failTtl, lockTtl, attempt>>
    BY <1>16 DEF vars
  <2> QED BY <1>4, <2>1 DEF Paced, AgedWell, Busy, Waited
<1> QED BY <1>8, <1>9, <1>10, <1>11, <1>12, <1>13, <1>14, <1>15, <1>16 DEF Next, Step

\* Attempts made one at a time never reach the hard threshold and are never
\* locked out for an hour: each soft lock recordFailure sets has to run out
\* first, and the counter expires before enough of them have.
THEOREM HardLockIsForOverlap == Spec => []HardLockNeedsOverlap
<1>1. Init => PacedInv
  BY InitPaced
<1>2. TypeOK /\ CounterExpires /\ PacedInv /\ [Next]_vars => PacedInv'
  BY NextPaced
<1>3. PacedInv => HardLockNeedsOverlap
  BY DEF PacedInv, Paced, HardLockNeedsOverlap
<1> QED BY <1>1, <1>2, <1>3, TypesAreKept, CounterDoesExpire, PTL DEF Spec
=============================================================================
