------------------------------ MODULE Lockout ------------------------------
(***************************************************************************)
(* BruteForceService: the failed sign-ins of one e-mail address, counted   *)
(* in one Redis key and punished with another, as login uses it.           *)
(*                                                                         *)
(* Redis runs one command at a time; the handlers interleave between       *)
(* commands.  Time passes in ticks; the two TTLs are numbers of ticks.     *)
(***************************************************************************)
EXTENDS Integers, FiniteSets

CONSTANTS
  Attempt,        \* login handlers in flight at once
  SoftThreshold,  \* SOFT_THRESHOLD
  HardThreshold,  \* HARD_THRESHOLD
  SoftTtl,        \* SOFT_TTL
  HardTtl,        \* HARD_TTL, which is also the counter's
  MaxFailures,    \* bound: values of the counter
  MaxCrashes      \* bound: restarts of the process

ASSUME LockoutAssumption ==
  /\ IsFiniteSet(Attempt)
  /\ SoftThreshold \in Nat \ {0, 1} /\ HardThreshold \in Nat
  /\ SoftThreshold < HardThreshold /\ HardThreshold < MaxFailures
  /\ SoftTtl \in Nat \ {0} /\ HardTtl \in Nat /\ SoftTtl < HardTtl
  /\ MaxFailures \in Nat /\ MaxCrashes \in Nat

\* One soft lock per failure between the two thresholds takes longer than the
\* counter lives: 5 times 15 minutes, and an hour.
ASSUME SoftLocksOutlastCounter ==
  (HardThreshold - SoftThreshold) * SoftTtl >= HardTtl

VARIABLES
  failures,   \* FAIL_KEY; 0 when there is no such key
  failTtl,    \* ticks until it expires, NoTtl when it does not
  lockTtl,    \* ticks until LOCK_KEY expires; 0 when there is no such key
  attempt,    \* what each handler is doing
  crashes,    \* restarts so far
  \* History, read by no guard:
  tries,      \* wrong passwords compared since the last tick or reset
  overlap     \* some attempt began while another was in flight

vars == <<failures, failTtl, lockTtl, attempt, crashes, tries, overlap>>

NoTtl == -1

Idle    == [op |-> "idle"]
Simple  == [op : {"verifying", "expiring", "unlocking"}]
Locking == [op : {"locking"}, failures : SoftThreshold .. MaxFailures]

TypeOK ==
  /\ failures \in 0 .. MaxFailures
  /\ failTtl \in {NoTtl} \cup 0 .. HardTtl
  /\ failures = 0 <=> failTtl = 0
  /\ lockTtl \in 0 .. HardTtl
  /\ attempt \in [Attempt -> {Idle} \cup Simple \cup Locking]
  /\ crashes \in 0 .. MaxCrashes
  /\ tries \in Nat
  /\ overlap \in BOOLEAN

Init ==
  /\ failures = 0
  /\ failTtl = 0
  /\ lockTtl = 0
  /\ attempt = [a \in Attempt |-> Idle]
  /\ crashes = 0
  /\ tries = 0
  /\ overlap = FALSE

Becomes(a, q) == attempt' = [attempt EXCEPT ![a] = q]

\* Mutant: the lock is not looked at.
StartAlways(a) ==
  /\ attempt[a] = Idle
  /\ Becomes(a, [op |-> "verifying"])
  /\ overlap' = (overlap \/ \E b \in Attempt : attempt[b] # Idle)
  /\ UNCHANGED <<failures, failTtl, lockTtl, crashes, tries>>

\* getLockout; a locked address is answered 429.
Start(a) ==
  /\ attempt[a] = Idle
  /\ lockTtl = 0
  /\ Becomes(a, [op |-> "verifying"])
  /\ overlap' = (overlap \/ \E b \in Attempt : attempt[b] # Idle)
  /\ UNCHANGED <<failures, failTtl, lockTtl, crashes, tries>>

-----------------------------------------------------------------------------
\* recordFailure

\* Mutants: the threshold is passed rather than reached; the counter is not
\* given a lifetime.
AfterIncrLate(n) ==
  IF n = 1 THEN [op |-> "expiring"]
  ELSE IF n <= SoftThreshold THEN Idle
  ELSE [op |-> "locking", failures |-> n]
AfterIncrForever(n) ==
  IF n < SoftThreshold THEN Idle ELSE [op |-> "locking", failures |-> n]

\* What is left to do after incr has returned n.
AfterIncr(n) ==
  IF n = 1 THEN [op |-> "expiring"]
  ELSE IF n < SoftThreshold THEN Idle
  ELSE [op |-> "locking", failures |-> n]

\* The password is wrong, or the address unknown; incr keeps the key's TTL.
Incr(a) ==
  /\ attempt[a].op = "verifying"
  /\ failures < MaxFailures
  /\ failures' = failures + 1
  /\ failTtl' = IF failures = 0 THEN NoTtl ELSE failTtl
  /\ Becomes(a, AfterIncr(failures + 1))
  /\ tries' = tries + 1
  /\ UNCHANGED <<lockTtl, crashes, overlap>>

\* expire does nothing to a key that is gone.
Expire(a) ==
  /\ attempt[a].op = "expiring"
  /\ failTtl' = IF failures = 0 THEN 0 ELSE HardTtl
  /\ Becomes(a, Idle)
  /\ UNCHANGED <<failures, lockTtl, crashes, tries, overlap>>

\* setex replaces a lock that is there, with its TTL.
Lock(a) ==
  /\ attempt[a].op = "locking"
  /\ lockTtl' = IF attempt[a].failures >= HardThreshold THEN HardTtl ELSE SoftTtl
  /\ Becomes(a, Idle)
  /\ UNCHANGED <<failures, failTtl, crashes, tries, overlap>>

-----------------------------------------------------------------------------
\* reset, once the password has proved right

ClearFailures(a) ==
  /\ attempt[a].op = "verifying"
  /\ failures' = 0 /\ failTtl' = 0
  /\ Becomes(a, [op |-> "unlocking"])
  /\ tries' = 0
  /\ UNCHANGED <<lockTtl, crashes, overlap>>

Unlock(a) ==
  /\ attempt[a].op = "unlocking"
  /\ lockTtl' = 0
  /\ Becomes(a, Idle)
  /\ tries' = 0
  /\ UNCHANGED <<failures, failTtl, crashes, overlap>>

-----------------------------------------------------------------------------
\* Environment

Sooner(ttl) == IF ttl > 0 THEN ttl - 1 ELSE ttl

Tick ==
  /\ failures' = IF failTtl = 1 THEN 0 ELSE failures
  /\ failTtl' = Sooner(failTtl)
  /\ lockTtl' = Sooner(lockTtl)
  /\ tries' = 0
  /\ UNCHANGED <<attempt, crashes, overlap>>

\* The process restarts and the attempts in flight are lost; Redis goes on.
Crash ==
  /\ crashes < MaxCrashes
  /\ crashes' = crashes + 1
  /\ attempt' = [a \in Attempt |-> Idle]
  /\ UNCHANGED <<failures, failTtl, lockTtl, tries, overlap>>

Step(a) ==
  \/ Start(a)
  \/ Incr(a) \/ Expire(a) \/ Lock(a)
  \/ ClearFailures(a) \/ Unlock(a)

Next == (\E a \in Attempt : Step(a)) \/ Tick \/ Crash

Spec == Init /\ [][Next]_vars

\* Time passes; nobody has to sign in.
FairSpec == Spec /\ WF_vars(Tick)

-----------------------------------------------------------------------------
(* Properties *)

\* Until time passes or the right password is given, the number of wrong
\* passwords compared exceeds the soft threshold by no more than the attempts
\* that had passed getLockout before the lock was there, and by those a restart
\* lost between their incr and their setex.
TriesBounded == tries < SoftThreshold + Cardinality(Attempt) * (1 + crashes)

\* "Keep the counter alive for 1 hour", not longer: a counter without a TTL is
\* about to get one, unless a restart came in between.
CounterExpires ==
  crashes = 0 /\ failTtl = NoTtl => \E a \in Attempt : attempt[a].op = "expiring"

\* The soft lock paces failures so that the counter is gone before it reaches
\* the hard threshold: only attempts that overlap, or a counter that a restart
\* left without a TTL, get an address locked for an hour.
HardLockNeedsOverlap ==
  ~overlap /\ crashes = 0 => failures < HardThreshold /\ lockTtl <= SoftTtl

\* Attempts on a locked address do not prolong its lock: it ends, whoever keeps
\* trying.
LockEnds == (lockTtl > 0) ~> (lockTtl = 0)
=============================================================================
