---------------------------- MODULE Maintenance ----------------------------
(***************************************************************************)
(* The maintenance switch: a row of system_settings, its copy in Redis,    *)
(* the check every request to the OAuth, OIDC, developer and webhook       *)
(* routes goes through, and the administrators who turn it.                *)
(***************************************************************************)
EXTENDS Integers, FiniteSets

CONSTANTS
  Check,       \* checks in flight at once
  Admin,       \* changes of the settings in flight at once
  MaxChecks,   \* bound: checks started
  MaxChanges   \* bound: changes made

VARIABLES
  setting,     \* the row: "true", "false", or "none" before it is created
  copy,        \* hub:system:maintenance, with "none" for a miss
  checks,      \* what each check is doing
  changing,    \* administrators who have written the row and not dropped the copy
  begun,       \* checks started
  changes,     \* changes made
  \* History, read by no guard:
  due,         \* the answer each check owes, if the setting and its copy agreed
               \* when it began and since
  stale        \* the copy was filled by a check that was overtaken, or a change
               \* was lost before the copy was dropped

vars == <<setting, copy, checks, changing, begun, changes, due, stale>>

Mode == {"true", "false"}
Idle == [op |-> "idle"]

TypeOK ==
  /\ setting \in Mode \cup {"none"}
  /\ copy \in Mode \cup {"none"}
  /\ checks \in [Check -> {Idle} \cup [op : {"get", "read"}]
                            \cup [op : {"fill", "decide"}, mode : Mode]
                            \cup [op : {"passed", "refused"}]]
  /\ changing \subseteq Admin
  /\ begun \in 0 .. MaxChecks
  /\ changes \in 0 .. MaxChanges
  /\ due \in [Check -> Mode \cup {"none"}]
  /\ stale \in BOOLEAN

Init ==
  /\ setting \in {"none", "false"}
  /\ copy = "none"
  /\ checks = [c \in Check |-> Idle]
  /\ changing = {}
  /\ begun = 0 /\ changes = 0
  /\ due = [c \in Check |-> "none"]
  /\ stale = FALSE

\* What the middleware reads: no row is no maintenance.
Effective == IF setting = "true" THEN "true" ELSE "false"

Becomes(c, q) == checks' = [checks EXCEPT ![c] = q]

-----------------------------------------------------------------------------
\* checkMaintenance

Begin(c) ==
  /\ checks[c].op \in {"idle", "passed", "refused"}
  /\ begun < MaxChecks
  /\ begun' = begun + 1
  /\ Becomes(c, [op |-> "get"])
  /\ due' = [due EXCEPT ![c] = IF changing = {} /\ ~stale THEN Effective ELSE "none"]
  /\ UNCHANGED <<setting, copy, changing, changes, stale>>

GetCopy(c) ==
  /\ checks[c].op = "get"
  /\ Becomes(c, IF copy = "none" THEN [op |-> "read"] ELSE [op |-> "decide", mode |-> copy])
  /\ UNCHANGED <<setting, copy, changing, begun, changes, due, stale>>

ReadSetting(c) ==
  /\ checks[c].op = "read"
  /\ Becomes(c, [op |-> "fill", mode |-> Effective])
  /\ UNCHANGED <<setting, copy, changing, begun, changes, due, stale>>

\* For five minutes, whatever the row has become.
FillCopy(c) ==
  /\ checks[c].op = "fill"
  /\ copy' = checks[c].mode
  /\ stale' = (copy' # Effective)
  /\ due' = IF stale' THEN [d \in Check |-> "none"] ELSE due
  /\ Becomes(c, [op |-> "decide", mode |-> checks[c].mode])
  /\ UNCHANGED <<setting, changing, begun, changes>>

\* The routes are mounted so that no path is one of the exempt ones, and no
\* user is known yet: everyone is refused.
Decide(c) ==
  /\ checks[c].op = "decide"
  /\ Becomes(c, [op |-> IF checks[c].mode = "true" THEN "refused" ELSE "passed"])
  /\ UNCHANGED <<setting, copy, changing, begun, changes, due, stale>>

\* "If DB/Redis fails, we fail open".
FailOpen(c) ==
  /\ checks[c].op \in {"get", "read", "fill"}
  /\ Becomes(c, [op |-> "passed"])
  /\ due' = [due EXCEPT ![c] = "none"]
  /\ UNCHANGED <<setting, copy, changing, begun, changes, stale>>

CopyExpires ==
  /\ copy # "none"
  /\ copy' = "none"
  /\ stale' = FALSE
  /\ UNCHANGED <<setting, checks, changing, begun, changes, due>>

-----------------------------------------------------------------------------
\* /admin/settings; there is no page for it that calls the server.

GetSystemSettings ==
  /\ setting = "none"
  /\ setting' = "false"
  /\ UNCHANGED <<copy, checks, changing, begun, changes, due, stale>>

\* An update of a row that is not there throws.
UpdateSystemSettings(a, mode) ==
  /\ a \notin changing
  /\ setting # "none"
  /\ changes < MaxChanges
  /\ changes' = changes + 1
  /\ setting' = mode
  /\ changing' = changing \cup {a}
  /\ due' = [c \in Check |-> "none"]
  /\ UNCHANGED <<copy, checks, begun, stale>>

\* Mutant: the copy is left to expire.
KeepCopy(a) ==
  /\ a \in changing
  /\ changing' = changing \ {a}
  /\ UNCHANGED <<setting, copy, checks, begun, changes, due, stale>>

DropCopy(a) ==
  /\ a \in changing
  /\ copy' = "none"
  /\ stale' = FALSE
  /\ changing' = changing \ {a}
  /\ UNCHANGED <<setting, checks, begun, changes, due>>

\* The process stops, or Redis refuses, before the copy is dropped.
DropLost(a) ==
  /\ a \in changing
  /\ changing' = changing \ {a}
  /\ stale' = (copy \notin {"none", Effective})
  /\ UNCHANGED <<setting, copy, checks, begun, changes, due>>

Next ==
  \/ \E c \in Check :
       Begin(c) \/ GetCopy(c) \/ ReadSetting(c) \/ FillCopy(c) \/ Decide(c) \/ FailOpen(c)
  \/ \E a \in Admin :
       DropCopy(a) \/ DropLost(a) \/ \E mode \in Mode : UpdateSystemSettings(a, mode)
  \/ GetSystemSettings \/ CopyExpires

Spec == Init /\ [][Next]_vars

-----------------------------------------------------------------------------
\* Once a change of the settings has been answered, a request that starts is
\* refused exactly when maintenance is on, until the next change; unless Redis
\* or the database fails, or another request had read the old settings before
\* the change and stored them after it.
MaintenanceTakesEffect ==
  \A c \in Check :
    /\ checks[c].op = "passed" => due[c] # "true"
    /\ checks[c].op = "refused" => due[c] # "false"
=============================================================================
