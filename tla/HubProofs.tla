----------------------------- MODULE HubProofs -----------------------------
(***************************************************************************)
(* Proofs about the components that MCHub composes: the account, the       *)
(* maintenance setting, the directory of clients and tenants, the webhooks *)
(* and the lists of the pages; for any numbers of handlers, calls and      *)
(* rows.  Each has an inductive invariant of its own, which the steps of   *)
(* the others leave alone.                                                 *)
(***************************************************************************)
EXTENDS MCHub, AccountProofs, FiniteSetTheorems

MP == INSTANCE MaintenanceProofs

-----------------------------------------------------------------------------
(* Directory *)

\* What a handler may be doing.
JobState == {Dir!Idle} \cup Dir!Updates \cup Dir!Rotates \cup Dir!Deletes \cup Dir!Brands

LEMMA JobFields ==
  ASSUME NEW q \in JobState
  PROVE  /\ q.op = "update" => /\ q.client \in Dir!Id /\ q.held \in Dir!ClientRow /\ q.asks \in SUBSET Dir!Fields
                               /\ q.public \in BOOLEAN /\ q.nth \in Dir!Version
         /\ q.op = "rotate" => /\ q.client \in Dir!Id /\ q.nth \in Dir!Version
                               /\ [q EXCEPT !.op = "told"] \in JobState
                               /\ [q EXCEPT !.op = "told"].op = "told"
                               /\ [q EXCEPT !.op = "told"].client = q.client
                               /\ [q EXCEPT !.op = "told"].nth = q.nth
         /\ q.op = "told" => q.client \in Dir!Id /\ q.nth \in Dir!Version
         /\ q.op = "delete" => q.client \in Dir!Id /\ q.tenant \in Dir!Version
         /\ q.op \in {"brand", "default"} => q.tenant \in Dir!Id /\ q.nth \in Dir!Version
         /\ q.op = "idle" => q = Dir!Idle
BY DEF JobState, Dir!Idle, Dir!Updates, Dir!Rotates, Dir!Deletes, Dir!Brands

LEMMA JobMade ==
  /\ Dir!Idle \in JobState /\ Dir!Idle.op = "idle"
  /\ \A c \in Dir!Id, held \in Dir!ClientRow, asks \in SUBSET Dir!Fields, public \in BOOLEAN, nth \in Dir!Version :
       [op |-> "update", client |-> c, held |-> held, asks |-> asks, public |-> public,
        nth |-> nth] \in JobState
  /\ \A c \in Dir!Id, nth \in Dir!Version : [op |-> "rotate", client |-> c, nth |-> nth] \in JobState
  /\ \A c \in Dir!Id, t \in Dir!Version : [op |-> "delete", client |-> c, tenant |-> t] \in JobState
  /\ \A op \in {"brand", "default"}, t \in Dir!Id, nth \in Dir!Version :
       [op |-> op, tenant |-> t, nth |-> nth] \in JobState
BY DEF JobState, Dir!Idle, Dir!Updates, Dir!Rotates, Dir!Deletes, Dir!Brands

LEMMA JobMoves ==
  ASSUME job \in [Job -> JobState], NEW j \in Job, NEW q \in JobState, Dir!Becomes(j, q)
  PROVE  /\ job' \in [Job -> JobState]
         /\ job'[j] = q
         /\ \A i \in Job \ {j} : job'[i] = job[i]
BY DEF Dir!Becomes

\* The columns of a client that the handlers write.
LEMMA ClientFields ==
  ASSUME NEW r \in Dir!ClientRow
  PROVE  /\ r.public \in BOOLEAN /\ r.owned \in BOOLEAN
         /\ r.secret \in Dir!Version /\ r.tenant \in Dir!Version
         /\ r.name \in Dir!Version /\ r.redirectUris \in Dir!Version
BY DEF Dir!ClientRow

LEMMA TenantLost ==
  ASSUME NEW r \in Dir!ClientRow
  PROVE  LET o == [r EXCEPT !.tenant = 0]
         IN  /\ o \in Dir!ClientRow /\ o.tenant = 0 /\ o.secret = r.secret
             /\ o.name = r.name /\ o.redirectUris = r.redirectUris /\ o.public = r.public
BY HubBounds DEF Dir!ClientRow, Dir!Version

LEMMA SecretStored ==
  ASSUME NEW r \in Dir!ClientRow, NEW n \in Dir!Version
  PROVE  LET o == [r EXCEPT !.secret = n]
         IN  /\ o \in Dir!ClientRow /\ o.tenant = r.tenant /\ o.secret = n
             /\ o.name = r.name /\ o.redirectUris = r.redirectUris /\ o.public = r.public
BY DEF Dir!ClientRow

\* The clients but for their tenants.
LEMMA OrphanedRows ==
  ASSUME NEW cs, cs \in [DOMAIN cs -> Dir!ClientRow], NEW t
  PROVE  /\ DOMAIN Dir!Orphaned(cs, t) = DOMAIN cs
         /\ Dir!Orphaned(cs, t) \in [DOMAIN cs -> Dir!ClientRow]
         /\ \A c \in DOMAIN cs :
              /\ Dir!Orphaned(cs, t)[c].tenant = IF cs[c].tenant = t THEN 0 ELSE cs[c].tenant
              /\ Dir!Orphaned(cs, t)[c].secret = cs[c].secret
              /\ Dir!Orphaned(cs, t)[c].name = cs[c].name
              /\ Dir!Orphaned(cs, t)[c].redirectUris = cs[c].redirectUris
              /\ Dir!Orphaned(cs, t)[c].public = cs[c].public
<1>1. \A c \in DOMAIN cs : cs[c] \in Dir!ClientRow
  OBVIOUS
<1> QED BY <1>1, TenantLost DEF Dir!Orphaned

-----------------------------------------------------------------------------
DirTyped ==
  /\ DOMAIN tenants \subseteq Dir!Id
  /\ tenants \in [DOMAIN tenants -> Dir!Version]
  /\ DOMAIN clients \subseteq Dir!Id
  /\ clients \in [DOMAIN clients -> Dir!ClientRow]
  /\ \A c \in DOMAIN clients : clients[c].tenant \in DOMAIN tenants \cup {0}
  /\ keys \subseteq Dir!Id
  /\ job \in [Job -> JobState]
  /\ jobs \in 0 .. MaxJobs
  /\ form \subseteq Dir!Id
  /\ shown \in [Dir!Id -> Dir!Version]
  /\ outdated \subseteq Job
  /\ raced \subseteq Dir!Id

LEMMA DirTypes == (Dir!TypeOK <=> DirTyped) /\ (Dir!TypeOK' <=> DirTyped')
BY DEF Dir!TypeOK, DirTyped, JobState

\* A row more, another in the place of one, a row less.
LEMMA ClientWith ==
  ASSUME DirTyped, NEW c, NEW r \in Dir!ClientRow, clients' = Dir!With(clients, c, r)
  PROVE  /\ DOMAIN clients' = DOMAIN clients \cup {c}
         /\ clients' \in [DOMAIN clients' -> Dir!ClientRow]
         /\ clients'[c] = r
         /\ \A d \in DOMAIN clients \ {c} : clients'[d] = clients[d]
BY DEF Dir!With, DirTyped

LEMMA ClientWithout ==
  ASSUME DirTyped, NEW c, NEW cs, cs = Dir!Without(clients, c)
  PROVE  /\ DOMAIN cs = DOMAIN clients \ {c}
         /\ cs \in [DOMAIN cs -> Dir!ClientRow]
         /\ \A d \in DOMAIN cs : cs[d] = clients[d]
BY DEF Dir!Without, DirTyped

LEMMA TenantWith ==
  ASSUME DirTyped, NEW t, tenants' = Dir!With(tenants, t, 0)
  PROVE  /\ DOMAIN tenants' = DOMAIN tenants \cup {t}
         /\ tenants' \in [DOMAIN tenants' -> Dir!Version]
BY HubBounds DEF Dir!With, DirTyped, Dir!Version

LEMMA TenantWithout ==
  ASSUME DirTyped, NEW t, tenants' = Dir!Without(tenants, t)
  PROVE  /\ DOMAIN tenants' = DOMAIN tenants \ {t}
         /\ tenants' \in [DOMAIN tenants' -> Dir!Version]
BY DEF Dir!Without, DirTyped

LEMMA NextId ==
  ASSUME DirTyped, jobs < MaxJobs
  PROVE  jobs + 1 \in Dir!Id /\ jobs + 1 \in Dir!Version /\ jobs + 1 \in 0 .. MaxJobs /\ jobs \in Nat
         /\ jobs \in Dir!Version
BY HubBounds DEF DirTyped, Dir!Id, Dir!Version

LEMMA NewClientRow ==
  ASSUME DirTyped, jobs < MaxJobs, NEW public \in BOOLEAN, NEW t \in Dir!Version, NEW owned \in BOOLEAN
  PROVE  Dir!NewClient(public, t, owned) \in Dir!ClientRow /\ Dir!NewClient(public, t, owned).tenant = t
<1>1. (IF public THEN 0 ELSE jobs + 1) \in Dir!Version
  BY NextId, HubBounds DEF Dir!Version
<1> QED BY <1>1, NextId DEF Dir!NewClient, Dir!ClientRow

LEMMA MergedRow ==
  ASSUME DirTyped, NEW q \in JobState, q.op = "update", q.client \in DOMAIN clients
  PROVE  LET r == clients[q.client]
         IN  /\ Dir!Merged(q) \in Dir!ClientRow
             /\ Dir!Merged(q).tenant = r.tenant /\ Dir!Merged(q).secret = r.secret
             /\ Dir!Merged(q).name = (IF "name" \in q.asks THEN q.nth ELSE q.held.name)
             /\ Dir!Merged(q).redirectUris = (IF "redirectUris" \in q.asks THEN q.nth ELSE q.held.redirectUris)
             /\ Dir!Merged(q).public = (IF "kind" \in q.asks THEN q.public ELSE q.held.public)
<1>1. clients[q.client] \in Dir!ClientRow
  BY DEF DirTyped
<1>2. q.held \in Dir!ClientRow /\ q.public \in BOOLEAN /\ q.nth \in Dir!Version
  BY JobFields
<1>3. q.held.name \in Dir!Version /\ q.held.redirectUris \in Dir!Version /\ q.held.public \in BOOLEAN
  BY <1>2, ClientFields
<1> DEFINE n == IF "name" \in q.asks THEN q.nth ELSE q.held.name
           u == IF "redirectUris" \in q.asks THEN q.nth ELSE q.held.redirectUris
           p == IF "kind" \in q.asks THEN q.public ELSE q.held.public
<1>4. n \in Dir!Version /\ u \in Dir!Version /\ p \in BOOLEAN
  BY <1>2, <1>3
<1>5. Dir!Merged(q) = [clients[q.client] EXCEPT !.name = n, !.redirectUris = u, !.public = p]
  BY DEF Dir!Merged
<1> HIDE DEF n, u, p
<1>6. Dir!Merged(q) \in Dir!ClientRow
  BY <1>1, <1>4, <1>5 DEF Dir!ClientRow
<1>7. /\ Dir!Merged(q).tenant = clients[q.client].tenant /\ Dir!Merged(q).secret = clients[q.client].secret
      /\ Dir!Merged(q).name = n /\ Dir!Merged(q).redirectUris = u /\ Dir!Merged(q).public = p
  BY <1>1, <1>4, <1>5 DEF Dir!ClientRow
<1> QED BY <1>6, <1>7 DEF n, u, p

-----------------------------------------------------------------------------
\* A handler starts with what it has read.
DirStarts(j) ==
  \/ Dir!UpdateTenantConfig(j)
  \/ \E c \in DOMAIN clients :
       \/ Dir!RotateSecret(j, c) \/ Dir!DeleteClient(j, c) \/ Dir!UpdateTenant(j, c)
       \/ \E asks \in SUBSET Dir!Fields, public \in BOOLEAN : Dir!UpdateClient(j, c, asks, public)

DirEnds(j) ==
  \/ Dir!WriteClient(j) \/ Dir!StoreSecret(j) \/ Dir!TellSecret(j) \/ Dir!DeleteBoth(j)
  \/ Dir!WriteTenant(j) \/ Dir!Fails(j)

DirAtOnce ==
  \/ \E c \in DOMAIN clients : Dir!AdminDeleteClient(c) \/ Dir!SettingsModal(c)
  \/ \E public \in BOOLEAN :
       Dir!CreateClient(public) \/ \E t \in DOMAIN tenants \cup {0} : Dir!AdminCreateClient(t, public)
  \/ \E t \in DOMAIN tenants : Dir!AdminUpdateTenant(t) \/ Dir!DeleteTenant(t)
  \/ \E k \in keys : Dir!RevokeRootApiKey(k)
  \/ Dir!CreateTenant \/ Dir!CreateRootApiKey \/ Dir!GetTenantConfig

LEMMA DirSteps == Dir!Next <=> (\E j \in Job : DirStarts(j) \/ DirEnds(j)) \/ DirAtOnce
BY DEF Dir!Next, DirStarts, DirEnds, DirAtOnce

\* What a start leaves: the rows as they are, and a handler that knows of one.
Started(j, q) ==
  /\ q \in JobState
  /\ q.op # "told"
  /\ Dir!Starts(j, q)
  /\ q.op \in {"update", "rotate", "delete"} => q.client \in DOMAIN clients
  /\ q.op = "update" => q.held = clients[q.client]
  /\ raced' = (IF /\ q.op = "rotate"
                  /\ \E i \in Job : job[i].op \in {"rotate", "told"} /\ job[i].client = q.client
               THEN raced \cup {q.client} ELSE raced)
  /\ UNCHANGED <<tenants, clients, keys, form, shown, outdated>>

LEMMA StartForms ==
  ASSUME DirTyped, NEW j \in Job, DirStarts(j)
  PROVE  \E q : Started(j, q)
<1>0. jobs < MaxJobs
  BY DEF DirStarts, Dir!UpdateTenantConfig, Dir!RotateSecret, Dir!DeleteClient, Dir!UpdateTenant,
         Dir!UpdateClient, Dir!Starts
<1>1. jobs + 1 \in Dir!Version
  BY <1>0, NextId
<1>2. ASSUME Dir!UpdateTenantConfig(j) PROVE \E q : Started(j, q)
  <2>1. PICK t \in DOMAIN tenants : Dir!Starts(j, [op |-> "default", tenant |-> t, nth |-> jobs + 1])
    BY <1>2 DEF Dir!UpdateTenantConfig
  <2> DEFINE q == [op |-> "default", tenant |-> t, nth |-> jobs + 1]
  <2>2. q \in JobState /\ q.op = "default" /\ Dir!Starts(j, q)
    BY <1>1, <2>1, JobMade DEF DirTyped
  <2> HIDE DEF q
  <2>3. Started(j, q)
    BY <1>2, <2>2 DEF Dir!UpdateTenantConfig, Started, Dir!history
  <2> QED BY <2>3
<1>3. ASSUME NEW c \in DOMAIN clients PROVE c \in Dir!Id /\ clients[c] \in Dir!ClientRow /\ clients[c].tenant \in Dir!Version
  BY ClientFields DEF DirTyped
<1>4. ASSUME NEW c \in DOMAIN clients, Dir!RotateSecret(j, c) PROVE \E q : Started(j, q)
  <2> DEFINE q == [op |-> "rotate", client |-> c, nth |-> jobs + 1]
  <2>1. q \in JobState /\ q.op = "rotate" /\ q.client = c /\ Dir!Starts(j, q)
    BY <1>1, <1>3, <1>4, JobMade DEF Dir!RotateSecret
  <2> HIDE DEF q
  <2>2. Started(j, q)
    BY <1>4, <2>1 DEF Dir!RotateSecret, Started
  <2> QED BY <2>2
<1>5. ASSUME NEW c \in DOMAIN clients, Dir!DeleteClient(j, c) PROVE \E q : Started(j, q)
  <2> DEFINE q == [op |-> "delete", client |-> c, tenant |-> clients[c].tenant]
  <2>1. q \in JobState /\ q.op = "delete" /\ q.client = c /\ Dir!Starts(j, q)
    BY <1>3, <1>5, JobMade DEF Dir!DeleteClient
  <2> HIDE DEF q
  <2>2. Started(j, q)
    BY <1>5, <2>1 DEF Dir!DeleteClient, Started, Dir!history
  <2> QED BY <2>2
<1>6. ASSUME NEW c \in DOMAIN clients, Dir!UpdateTenant(j, c) PROVE \E q : Started(j, q)
  <2> DEFINE q == [op |-> "brand", tenant |-> clients[c].tenant, nth |-> jobs + 1]
  <2>1. clients[c].tenant \in Dir!Id
    BY <1>6 DEF Dir!UpdateTenant, DirTyped
  <2>2. q \in JobState /\ q.op = "brand" /\ Dir!Starts(j, q)
    BY <1>1, <1>6, <2>1, JobMade DEF Dir!UpdateTenant
  <2> HIDE DEF q
  <2>3. Started(j, q)
    BY <1>6, <2>2 DEF Dir!UpdateTenant, Started, Dir!history
  <2> QED BY <2>3
<1>7. ASSUME NEW c \in DOMAIN clients, NEW asks \in SUBSET Dir!Fields, NEW public \in BOOLEAN,
             Dir!UpdateClient(j, c, asks, public)
      PROVE  \E q : Started(j, q)
  <2> DEFINE q == [op |-> "update", client |-> c, held |-> clients[c], asks |-> asks,
                   public |-> public, nth |-> jobs + 1]
  <2>1. q \in JobState /\ q.op = "update" /\ q.client = c /\ q.held = clients[c] /\ Dir!Starts(j, q)
    BY <1>1, <1>3, <1>7, JobMade DEF Dir!UpdateClient
  <2> HIDE DEF q
  <2>2. Started(j, q)
    BY <1>7, <2>1 DEF Dir!UpdateClient, Started, Dir!history
  <2> QED BY <2>2
<1> QED BY <1>2, <1>4, <1>5, <1>6, <1>7 DEF DirStarts

LEMMA StartedJob ==
  ASSUME DirTyped, NEW j \in Job, NEW q, Started(j, q)
  PROVE  /\ job' \in [Job -> JobState] /\ job[j] = Dir!Idle /\ job'[j] = q
         /\ \A i \in Job \ {j} : job'[i] = job[i]
         /\ jobs \in Nat /\ jobs' = jobs + 1 /\ jobs' \in 0 .. MaxJobs
BY JobMoves, NextId DEF Started, Dir!Starts, DirTyped

LEMMA DirStartTyped ==
  ASSUME DirTyped, NEW j \in Job, DirStarts(j)
  PROVE  DirTyped'
<1>1. PICK q : Started(j, q)
  BY StartForms
<1>2. raced' \subseteq Dir!Id
  BY <1>1 DEF Started, DirTyped
<1> QED BY <1>1, <1>2, StartedJob DEF Started, DirTyped

LEMMA DirEndTyped ==
  ASSUME DirTyped, NEW j \in Job, DirEnds(j)
  PROVE  DirTyped'
<1>0. job[j] \in JobState /\ \A c \in DOMAIN clients : clients[c] \in Dir!ClientRow
  BY DEF DirTyped
<1>a. Dir!Becomes(j, Dir!Idle) => job' \in [Job -> JobState]
  BY JobMoves, JobMade DEF DirTyped
<1>1. CASE Dir!WriteClient(j)
  <2>1. PICK c, r : c = job[j].client /\ r = Dir!Merged(job[j])
    OBVIOUS
  <2>2. c \in DOMAIN clients /\ clients' = Dir!With(clients, c, r)
    BY <1>1, <2>1 DEF Dir!WriteClient
  <2>3. r \in Dir!ClientRow /\ r.tenant = clients[c].tenant
    BY <1>0, <1>1, <2>1, MergedRow DEF Dir!WriteClient
  <2>4. /\ DOMAIN clients' = DOMAIN clients /\ clients' \in [DOMAIN clients' -> Dir!ClientRow]
        /\ clients'[c] = r /\ \A d \in DOMAIN clients \ {c} : clients'[d] = clients[d]
    <3>1. /\ DOMAIN clients' = DOMAIN clients \cup {c} /\ clients' \in [DOMAIN clients' -> Dir!ClientRow]
          /\ clients'[c] = r /\ \A d \in DOMAIN clients \ {c} : clients'[d] = clients[d]
      BY <2>2, <2>3, ClientWith
    <3> QED BY <2>2, <3>1
  <2>6. \A d \in DOMAIN clients : clients'[d].tenant = clients[d].tenant
    BY <2>3, <2>4
  <2>5. outdated' \subseteq Job
    BY <1>1 DEF Dir!WriteClient, Dir!Readers, DirTyped
  <2> QED BY <1>1, <1>a, <2>4, <2>5, <2>6 DEF Dir!WriteClient, DirTyped
<1>2. CASE Dir!StoreSecret(j)
  <2> DEFINE c == job[j].client
             q == [job[j] EXCEPT !.op = "told"]
  <2>1. c \in DOMAIN clients /\ job[j].nth \in Dir!Version /\ q \in JobState /\ Dir!Becomes(j, q)
    BY <1>0, <1>2, JobFields DEF Dir!StoreSecret
  <2> HIDE DEF q
  <2>2. clients' = [clients EXCEPT ![c] = [clients[c] EXCEPT !.secret = job[j].nth]]
    BY <1>2 DEF Dir!StoreSecret
  <2>3. /\ DOMAIN clients' = DOMAIN clients /\ clients' \in [DOMAIN clients -> Dir!ClientRow]
        /\ \A d \in DOMAIN clients : clients'[d].tenant = clients[d].tenant
    BY <1>0, <2>1, <2>2, SecretStored DEF DirTyped
  <2>4. job' \in [Job -> JobState]
    BY <2>1, JobMoves DEF DirTyped
  <2> QED BY <1>2, <2>3, <2>4 DEF Dir!StoreSecret, DirTyped, Dir!history
<1>3. CASE Dir!TellSecret(j)
  <2>1. job[j].client \in Dir!Id /\ job[j].nth \in Dir!Version
    BY <1>0, <1>3, JobFields DEF Dir!TellSecret
  <2> QED BY <1>3, <1>a, <2>1 DEF Dir!TellSecret, DirTyped
<1>4. CASE Dir!DeleteBoth(j)
  <2>1. PICK c, t : /\ c = job[j].client /\ t = job[j].tenant
                    /\ c \in DOMAIN clients /\ t \in DOMAIN tenants \cup {0}
                    /\ clients' = Dir!Orphaned(Dir!Without(clients, c), t)
                    /\ tenants' = Dir!Without(tenants, t)
                    /\ shown' = [shown EXCEPT ![c] = 0]
    BY <1>4 DEF Dir!DeleteBoth
  <2>2. PICK cs : cs = Dir!Without(clients, c)
    OBVIOUS
  <2>3. /\ DOMAIN cs = DOMAIN clients \ {c} /\ cs \in [DOMAIN cs -> Dir!ClientRow]
        /\ \A d \in DOMAIN cs : cs[d] = clients[d]
    BY <2>2, ClientWithout
  <2>4. /\ DOMAIN clients' = DOMAIN cs /\ clients' \in [DOMAIN cs -> Dir!ClientRow]
        /\ \A d \in DOMAIN cs : clients'[d].tenant = IF cs[d].tenant = t THEN 0 ELSE cs[d].tenant
    BY <2>1, <2>2, <2>3, OrphanedRows
  <2>5. DOMAIN tenants' = DOMAIN tenants \ {t} /\ tenants' \in [DOMAIN tenants' -> Dir!Version]
    BY <2>1, TenantWithout
  <2>6. \A d \in DOMAIN clients' : clients'[d].tenant \in DOMAIN tenants' \cup {0}
    BY <2>3, <2>4, <2>5 DEF DirTyped
  <2>7. shown' \in [Dir!Id -> Dir!Version]
    BY <2>1, HubBounds DEF DirTyped, Dir!Version
  <2>8. UNCHANGED <<keys, jobs, form, outdated, raced>> /\ Dir!Becomes(j, Dir!Idle)
    BY <1>4 DEF Dir!DeleteBoth
  <2> QED BY <1>a, <2>3, <2>4, <2>5, <2>6, <2>7, <2>8 DEF DirTyped
<1>5. CASE Dir!WriteTenant(j)
  <2>1. job[j].nth \in Dir!Version
    BY <1>0, <1>5, JobFields DEF Dir!WriteTenant
  <2> QED BY <1>5, <1>a, <2>1 DEF Dir!WriteTenant, DirTyped, Dir!history
<1>6. CASE Dir!Fails(j)
  BY <1>6, <1>a DEF Dir!Fails, DirTyped
<1> QED BY <1>1, <1>2, <1>3, <1>4, <1>5, <1>6 DEF DirEnds

\* A client created, by its owner or by an administrator.
Creates(r) ==
  /\ r \in Dir!ClientRow
  /\ jobs < MaxJobs /\ jobs' = jobs + 1 /\ UNCHANGED <<job, keys, form, outdated, raced>>
  /\ clients' = Dir!With(clients, jobs + 1, r)
  /\ shown' = [shown EXCEPT ![jobs + 1] = r.secret]

LEMMA CreatesForms ==
  ASSUME DirTyped, NEW public \in BOOLEAN,
         Dir!CreateClient(public) \/ \E t \in DOMAIN tenants \cup {0} : Dir!AdminCreateClient(t, public)
  PROVE  \E r : /\ Creates(r)
                /\ \/ tenants' = tenants /\ r.tenant \in DOMAIN tenants \cup {0}
                   \/ tenants' = Dir!With(tenants, jobs + 1, 0) /\ r.tenant = jobs + 1
<1>1. CASE Dir!CreateClient(public)
  <2>1. jobs < MaxJobs /\ jobs' = jobs + 1 /\ UNCHANGED <<job, keys, form, outdated, raced>>
    BY <1>1 DEF Dir!CreateClient, Dir!AtOnce
  <2>2. PICK n : n = jobs + 1
    OBVIOUS
  <2>3. n \in Dir!Id /\ n \in Dir!Version
    BY <2>1, <2>2, NextId
  <2>4. PICK r : r = Dir!NewClient(public, n, TRUE)
    OBVIOUS
  <2>5. r \in Dir!ClientRow /\ r.tenant = n
    BY <2>1, <2>3, <2>4, NewClientRow
  <2>6. clients' = Dir!With(clients, n, r) /\ tenants' = Dir!With(tenants, n, 0)
    BY <1>1, <2>1, <2>2, <2>4 DEF Dir!CreateClient
  <2>7. clients'[n] = r
    BY <2>5, <2>6, ClientWith
  <2>8. shown' = [shown EXCEPT ![n] = r.secret]
    BY <1>1, <2>1, <2>2, <2>7 DEF Dir!CreateClient
  <2> QED BY <2>1, <2>2, <2>5, <2>6, <2>8 DEF Creates
<1>2. ASSUME NEW t \in DOMAIN tenants \cup {0}, Dir!AdminCreateClient(t, public)
      PROVE  \E r : Creates(r) /\ tenants' = tenants /\ r.tenant \in DOMAIN tenants \cup {0}
  <2>1. /\ jobs < MaxJobs /\ jobs' = jobs + 1
        /\ UNCHANGED <<job, keys, form, outdated, raced, tenants>>
    BY <1>2 DEF Dir!AdminCreateClient, Dir!AtOnce
  <2>2. PICK n : n = jobs + 1
    OBVIOUS
  <2>3. n \in Dir!Id /\ t \in Dir!Version
    BY <2>1, <2>2, NextId, HubBounds DEF DirTyped, Dir!Id, Dir!Version
  <2>4. PICK r : r = Dir!NewClient(public, t, FALSE)
    OBVIOUS
  <2>5. r \in Dir!ClientRow /\ r.tenant = t
    BY <2>1, <2>3, <2>4, NewClientRow
  <2>6. clients' = Dir!With(clients, n, r)
    BY <1>2, <2>1, <2>2, <2>4 DEF Dir!AdminCreateClient
  <2>7. clients'[n] = r
    BY <2>5, <2>6, ClientWith
  <2>8. shown' = [shown EXCEPT ![n] = r.secret]
    BY <1>2, <2>1, <2>2, <2>7 DEF Dir!AdminCreateClient
  <2> QED BY <2>1, <2>2, <2>5, <2>6, <2>8 DEF Creates
<1> QED BY <1>1, <1>2

LEMMA DirAtOnceTyped == ASSUME DirTyped, DirAtOnce PROVE DirTyped'
<1>0. Dir!AtOnce => /\ jobs + 1 \in Dir!Id /\ jobs + 1 \in Dir!Version /\ jobs' \in 0 .. MaxJobs
                    /\ jobs' = jobs + 1 /\ job' = job /\ 0 \in Dir!Version
  BY NextId, HubBounds DEF Dir!AtOnce, Dir!Version
<1>1. ASSUME NEW c \in DOMAIN clients, Dir!AdminDeleteClient(c) PROVE DirTyped'
  <2>1. DOMAIN clients' = DOMAIN clients \ {c} /\ clients' \in [DOMAIN clients' -> Dir!ClientRow]
        /\ \A d \in DOMAIN clients' : clients'[d] = clients[d]
    BY <1>1, ClientWithout DEF Dir!AdminDeleteClient
  <2>2. shown' \in [Dir!Id -> Dir!Version]
    BY <1>0, <1>1 DEF Dir!AdminDeleteClient, DirTyped
  <2> QED BY <1>0, <1>1, <2>1, <2>2 DEF Dir!AdminDeleteClient, DirTyped
<1>2. ASSUME NEW c \in DOMAIN clients, Dir!SettingsModal(c) PROVE DirTyped'
  BY <1>0, <1>2 DEF Dir!SettingsModal, Dir!history, DirTyped
<1>3. ASSUME NEW public \in BOOLEAN,
             Dir!CreateClient(public) \/ \E t \in DOMAIN tenants \cup {0} : Dir!AdminCreateClient(t, public)
      PROVE  DirTyped'
  <2>1. PICK r : /\ Creates(r)
                 /\ \/ tenants' = tenants /\ r.tenant \in DOMAIN tenants \cup {0}
                    \/ tenants' = Dir!With(tenants, jobs + 1, 0) /\ r.tenant = jobs + 1
    BY <1>3, CreatesForms
  <2>2. PICK n : n = jobs + 1
    OBVIOUS
  <2>3. n \in Dir!Id /\ n \in Dir!Version /\ 0 \in Dir!Version /\ jobs' \in 0 .. MaxJobs
    BY <2>1, <2>2, NextId, HubBounds DEF Creates, Dir!Version
  <2>4. /\ DOMAIN clients' = DOMAIN clients \cup {n} /\ clients' \in [DOMAIN clients' -> Dir!ClientRow]
        /\ clients'[n] = r /\ \A d \in DOMAIN clients \ {n} : clients'[d] = clients[d]
    BY <2>1, <2>2, ClientWith DEF Creates
  <2>5. CASE tenants' = tenants /\ r.tenant \in DOMAIN tenants \cup {0}
    <3>1. \A d \in DOMAIN clients' : clients'[d].tenant \in DOMAIN tenants' \cup {0}
      BY <2>4, <2>5 DEF DirTyped
    <3>2. shown' \in [Dir!Id -> Dir!Version]
      BY <2>1, <2>2, <2>3, ClientFields DEF Creates, DirTyped
    <3> QED BY <2>1, <2>3, <2>4, <2>5, <3>1, <3>2 DEF Creates, DirTyped
  <2>6. CASE tenants' = Dir!With(tenants, n, 0) /\ r.tenant = n
    <3>1. DOMAIN tenants' = DOMAIN tenants \cup {n} /\ tenants' \in [DOMAIN tenants' -> Dir!Version]
      BY <2>3, <2>6, TenantWith
    <3>2. \A d \in DOMAIN clients' : clients'[d].tenant \in DOMAIN tenants' \cup {0}
      BY <2>4, <2>6, <3>1 DEF DirTyped
    <3>3. shown' \in [Dir!Id -> Dir!Version]
      BY <2>1, <2>2, <2>3, ClientFields DEF Creates, DirTyped
    <3> QED BY <2>1, <2>3, <2>4, <3>1, <3>2, <3>3 DEF Creates, DirTyped
  <2> QED BY <2>1, <2>2, <2>5, <2>6
<1>4. ASSUME NEW t \in DOMAIN tenants, Dir!AdminUpdateTenant(t) PROVE DirTyped'
  BY <1>0, <1>4 DEF Dir!AdminUpdateTenant, Dir!history, DirTyped
<1>5. ASSUME NEW t \in DOMAIN tenants, Dir!DeleteTenant(t) PROVE DirTyped'
  <2>1. DOMAIN tenants' = DOMAIN tenants \ {t} /\ tenants' \in [DOMAIN tenants' -> Dir!Version]
    BY <1>5, TenantWithout DEF Dir!DeleteTenant
  <2>2. /\ DOMAIN clients' = DOMAIN clients /\ clients' \in [DOMAIN clients -> Dir!ClientRow]
        /\ \A d \in DOMAIN clients :
             clients'[d].tenant = IF clients[d].tenant = t THEN 0 ELSE clients[d].tenant
    BY <1>5, OrphanedRows DEF Dir!DeleteTenant, DirTyped
  <2>3. \A d \in DOMAIN clients' : clients'[d].tenant \in DOMAIN tenants' \cup {0}
    BY <2>1, <2>2 DEF DirTyped
  <2> QED BY <1>0, <1>5, <2>1, <2>2, <2>3 DEF Dir!DeleteTenant, Dir!history, DirTyped
<1>6. ASSUME NEW k \in keys, Dir!RevokeRootApiKey(k) PROVE DirTyped'
  BY <1>0, <1>6 DEF Dir!RevokeRootApiKey, Dir!history, DirTyped
<1>7. ASSUME Dir!CreateTenant PROVE DirTyped'
  <2>1. PICK n : n = jobs + 1
    OBVIOUS
  <2>2. DOMAIN tenants' = DOMAIN tenants \cup {n} /\ tenants' \in [DOMAIN tenants' -> Dir!Version]
    BY <1>0, <1>7, <2>1, TenantWith DEF Dir!CreateTenant
  <2> QED BY <1>0, <1>7, <2>1, <2>2 DEF Dir!CreateTenant, Dir!history, DirTyped
<1>8. ASSUME Dir!CreateRootApiKey PROVE DirTyped'
  BY <1>0, <1>8 DEF Dir!CreateRootApiKey, Dir!history, DirTyped
<1>9. ASSUME Dir!GetTenantConfig PROVE DirTyped'
  BY <1>9 DEF Dir!GetTenantConfig, Dir!history, DirTyped
<1> QED BY <1>1, <1>2, <1>3, <1>4, <1>5, <1>6, <1>7, <1>8, <1>9 DEF DirAtOnce

LEMMA DirTypeStep == ASSUME DirTyped, [Dir!Next]_(Dir!vars) PROVE DirTyped'
<1>1. CASE UNCHANGED Dir!vars
  BY <1>1 DEF Dir!vars, Dir!history, DirTyped
<1> QED BY <1>1, DirSteps, DirStartTyped, DirEndTyped, DirAtOnceTyped

LEMMA DirTypeInit == ASSUME Dir!Init PROVE DirTyped
BY JobMade, HubBounds DEF Dir!Init, DirTyped, Dir!Version

-----------------------------------------------------------------------------
\* No handler knows of a client that is still to be created.
FreshIds ==
  /\ DOMAIN clients \subseteq 1 .. jobs
  /\ \A j \in Job : job[j].op \in {"update", "rotate", "told"} => job[j].client \in 1 .. jobs

Told(j, c) == job[j].op = "told" /\ job[j].client = c
Rotating(j, c) == job[j].op \in {"rotate", "told"} /\ job[j].client = c

\* One rotation of a client at a time, whose answer holds the secret in force;
\* without an answer under way, that is the secret its owner was told.
TrueOf(c) ==
  /\ \A i, j \in Job : Rotating(i, c) /\ Rotating(j, c) => i = j
  /\ \A j \in Job : Told(j, c) => clients[c].secret = job[j].nth
  /\ (\A j \in Job : ~Told(j, c)) => shown[c] = clients[c].secret

ToldTrue == \A c \in DOMAIN clients \ raced : TrueOf(c)

\* What an update has read of its client is true until another is written.
ReadsTrue ==
  \A j \in Job \ outdated :
    job[j].op = "update" /\ job[j].client \in DOMAIN clients =>
      LET row == clients[job[j].client]
      IN  /\ job[j].held.name = row.name
          /\ job[j].held.redirectUris = row.redirectUris
          /\ job[j].held.public = row.public

DirInv == DirTyped /\ FreshIds /\ ToldTrue /\ ReadsTrue

SameFields(r, s) == r.name = s.name /\ r.redirectUris = s.redirectUris /\ r.public = s.public

LEMMA DirInit == ASSUME Dir!Init PROVE DirInv
<1>1. /\ DOMAIN clients = {} /\ \A j \in Job : job[j].op = "idle"
  BY JobMade DEF Dir!Init
<1> QED BY <1>1, DirTypeInit DEF DirInv, FreshIds, ToldTrue, ReadsTrue

LEMMA StillTrue ==
  ASSUME NEW c, TrueOf(c), shown'[c] = shown[c], clients'[c].secret = clients[c].secret,
         \A i \in Job : (Told(i, c))' <=> Told(i, c),
         \A i \in Job : Told(i, c) => job'[i] = job[i],
         \A i \in Job : (Rotating(i, c))' => Rotating(i, c)
  PROVE  TrueOf(c)'
BY DEF TrueOf

\* A step that ends no answer leaves the rows it does not delete as they were.
LEMMA RowsKept ==
  ASSUME DirInv, DirTyped', jobs <= jobs', raced' = raced,
         \A i \in Job : \/ job'[i] = job[i] /\ (i \in outdated => i \in outdated')
                        \/ job'[i].op = "idle" /\ job[i].op # "told",
         DOMAIN clients' \subseteq DOMAIN clients,
         \A c \in DOMAIN clients' : /\ clients'[c].secret = clients[c].secret
                                    /\ clients'[c].name = clients[c].name
                                    /\ clients'[c].redirectUris = clients[c].redirectUris
                                    /\ clients'[c].public = clients[c].public
                                    /\ shown'[c] = shown[c]
  PROVE  DirInv'
<1>1. FreshIds'
  BY DEF DirInv, DirTyped, FreshIds
<1>2. ToldTrue'
  <2>1. SUFFICES ASSUME NEW c \in (DOMAIN clients \ raced)' PROVE TrueOf(c)'
    BY DEF ToldTrue
  <2>2. \A i \in Job : /\ (Told(i, c))' <=> Told(i, c)
                       /\ Told(i, c) => job'[i] = job[i]
                       /\ (Rotating(i, c))' => Rotating(i, c)
    BY DEF Told, Rotating
  <2> QED BY <2>1, <2>2, StillTrue DEF DirInv, ToldTrue
<1>3. ReadsTrue'
  BY DEF DirInv, ReadsTrue
<1> QED BY <1>1, <1>2, <1>3 DEF DirInv

LEMMA DirStartTrue ==
  ASSUME DirInv, NEW j \in Job, DirStarts(j)
  PROVE  DirInv'
<1>1. PICK q : Started(j, q)
  BY StartForms DEF DirInv
<1>2. /\ job[j] = Dir!Idle /\ job[j].op = "idle" /\ job'[j] = q /\ q.op # "told"
      /\ \A i \in Job \ {j} : job'[i] = job[i]
      /\ jobs \in Nat /\ jobs' = jobs + 1
  BY <1>1, StartedJob, JobMade DEF DirInv, Started
<1>3. /\ q.op \in {"update", "rotate", "delete"} => q.client \in DOMAIN clients
      /\ q.op = "update" => q.held = clients[q.client]
      /\ UNCHANGED <<clients, shown, outdated>>
  BY <1>1 DEF Started
<1>4. FreshIds'
  BY <1>2, <1>3 DEF DirInv, FreshIds
<1>5. ToldTrue'
  <2>1. \A c : \A i \in Job : (Told(i, c))' <=> Told(i, c)
    BY <1>2 DEF Told
  <2>2. ASSUME NEW c \in DOMAIN clients \ raced', NEW i \in Job, NEW k \in Job,
               (Rotating(i, c))', (Rotating(k, c))'
        PROVE  i = k
    <3>1. raced \subseteq raced'
      BY <1>1 DEF Started
    <3>2. CASE q.op = "rotate" /\ q.client = c
      <4>1. \A l \in Job : ~Rotating(l, c)
        BY <1>1, <3>2 DEF Started, Rotating
      <4> QED BY <1>2, <2>2, <4>1 DEF Rotating
    <3>3. CASE ~(q.op = "rotate" /\ q.client = c)
      <4>1. Rotating(i, c) /\ Rotating(k, c)
        BY <1>2, <2>2, <3>3 DEF Rotating
      <4> QED BY <3>1, <4>1 DEF DirInv, ToldTrue, TrueOf
    <3> QED BY <3>2, <3>3
  <2>3. raced \subseteq raced' /\ \A c : \A i \in Job : Told(i, c) => job'[i] = job[i]
    BY <1>1, <1>2 DEF Started, Told
  <2>4. ASSUME NEW c \in (DOMAIN clients \ raced)'
        PROVE  /\ \A i \in Job : (Told(i, c))' => clients'[c].secret = job'[i].nth
               /\ (\A i \in Job : ~(Told(i, c))') => shown'[c] = clients'[c].secret
    BY <1>3, <2>1, <2>3, <2>4 DEF DirInv, ToldTrue, TrueOf
  <2> QED BY <1>3, <2>2, <2>4 DEF ToldTrue, TrueOf
<1>6. ReadsTrue'
  BY <1>2, <1>3 DEF DirInv, ReadsTrue
<1> QED BY <1>4, <1>5, <1>6, DirStartTyped DEF DirInv

LEMMA DirEndTrue ==
  ASSUME DirInv, NEW j \in Job, DirEnds(j)
  PROVE  DirInv'
<1>0. DirTyped /\ DirTyped' /\ job[j] \in JobState /\ \A c \in DOMAIN clients : clients[c] \in Dir!ClientRow
  BY DirEndTyped DEF DirInv, DirTyped
<1>a. Dir!Becomes(j, Dir!Idle) => job'[j] = Dir!Idle /\ job'[j].op = "idle" /\ \A i \in Job \ {j} : job'[i] = job[i]
  BY <1>0, JobMoves, JobMade DEF DirTyped
<1>b. jobs \in Nat
  BY <1>0 DEF DirTyped
<1>1. CASE Dir!WriteClient(j)
  <2>1. PICK c, r : c = job[j].client /\ r = Dir!Merged(job[j])
    OBVIOUS
  <2>2. /\ c \in DOMAIN clients /\ clients' = Dir!With(clients, c, r) /\ job[j].op = "update"
        /\ outdated' = (outdated \ {j}) \cup Dir!Readers(c, j)
        /\ UNCHANGED <<jobs, shown, raced>> /\ Dir!Becomes(j, Dir!Idle)
    BY <1>1, <2>1 DEF Dir!WriteClient
  <2>3. r \in Dir!ClientRow /\ r.secret = clients[c].secret
    BY <1>0, <2>1, <2>2, MergedRow
  <2>4. /\ DOMAIN clients' = DOMAIN clients /\ clients'[c] = r
        /\ \A d \in DOMAIN clients \ {c} : clients'[d] = clients[d]
    <3>1. /\ DOMAIN clients' = DOMAIN clients \cup {c} /\ clients'[c] = r
          /\ \A d \in DOMAIN clients \ {c} : clients'[d] = clients[d]
      BY <1>0, <2>2, <2>3, ClientWith
    <3> QED BY <2>2, <3>1
  <2>5. FreshIds'
    BY <1>a, <2>2, <2>4 DEF DirInv, FreshIds
  <2>6. ToldTrue'
    <3>1. SUFFICES ASSUME NEW d \in (DOMAIN clients \ raced)' PROVE TrueOf(d)'
      BY DEF ToldTrue
    <3>2. \A i \in Job : /\ (Told(i, d))' <=> Told(i, d)
                         /\ Told(i, d) => job'[i] = job[i]
                         /\ (Rotating(i, d))' => Rotating(i, d)
      BY <1>a, <2>2 DEF Told, Rotating
    <3>3. d \in DOMAIN clients \ raced /\ clients'[d].secret = clients[d].secret /\ shown'[d] = shown[d]
      BY <2>2, <2>3, <2>4, <3>1
    <3> QED BY <3>2, <3>3, StillTrue DEF DirInv, ToldTrue
  <2>7. ReadsTrue'
    <3>1. SUFFICES ASSUME NEW i \in Job \ outdated', job'[i].op = "update",
                          job'[i].client \in DOMAIN clients'
                   PROVE  SameFields(job'[i].held, clients'[job'[i].client])
      BY DEF ReadsTrue, SameFields
    <3>2. i # j /\ job'[i] = job[i]
      BY <1>a, <2>2, <3>1
    <3>3. i \notin outdated /\ job[i].client # c
      BY <2>2, <3>1, <3>2 DEF Dir!Readers
    <3> QED BY <2>4, <3>1, <3>2, <3>3 DEF DirInv, ReadsTrue, SameFields
  <2> QED BY <1>0, <2>5, <2>6, <2>7 DEF DirInv
<1>2. CASE Dir!StoreSecret(j)
  <2>1. PICK c, q : c = job[j].client /\ q = [job[j] EXCEPT !.op = "told"]
    OBVIOUS
  <2>2. /\ c \in DOMAIN clients /\ job[j].op = "rotate" /\ Dir!Becomes(j, q)
        /\ clients' = [clients EXCEPT ![c] = [clients[c] EXCEPT !.secret = job[j].nth]]
        /\ UNCHANGED <<jobs, shown, raced, outdated>>
    BY <1>2, <2>1 DEF Dir!StoreSecret, Dir!history
  <2>3. q \in JobState /\ q.op = "told" /\ q.client = c /\ q.nth = job[j].nth /\ q.nth \in Dir!Version
    BY <1>0, <2>1, <2>2, JobFields
  <2>4. job'[j] = q /\ \A i \in Job \ {j} : job'[i] = job[i]
    BY <1>0, <2>2, <2>3, JobMoves DEF DirTyped
  <2>5. /\ DOMAIN clients' = DOMAIN clients
        /\ clients'[c].secret = q.nth /\ SameFields(clients'[c], clients[c])
        /\ \A d \in DOMAIN clients \ {c} : clients'[d] = clients[d]
    <3>1. LET o == [clients[c] EXCEPT !.secret = job[j].nth]
          IN  o.secret = job[j].nth /\ SameFields(o, clients[c])
      BY <1>0, <2>2, <2>3, SecretStored DEF SameFields
    <3> QED BY <1>0, <2>2, <2>3, <3>1 DEF DirTyped
  <2>6. FreshIds'
    <3>1. c \in 1 .. jobs
      BY <2>1, <2>2 DEF DirInv, FreshIds
    <3> QED BY <2>2, <2>3, <2>4, <2>5, <3>1 DEF DirInv, FreshIds
  <2>7. ToldTrue'
    <3>1. \A d : \A i \in Job : (Rotating(i, d))' <=> Rotating(i, d)
      BY <2>1, <2>2, <2>3, <2>4 DEF Rotating
    <3>2. Rotating(j, c) /\ (Told(j, c))'
      BY <2>1, <2>2, <2>3, <2>4 DEF Told, Rotating
    <3>3. SUFFICES ASSUME NEW d \in (DOMAIN clients \ raced)' PROVE TrueOf(d)'
      BY DEF ToldTrue
    <3>4. d \in DOMAIN clients \ raced
      BY <2>2, <2>5, <3>3
    <3>5. CASE d = c
      <4>1. \A i \in Job : (Told(i, c))' => (Rotating(i, c))'
        BY DEF Told, Rotating
      <4>2. \A i, k \in Job : Rotating(i, c) /\ Rotating(k, c) => i = k
        BY <3>4, <3>5 DEF DirInv, ToldTrue, TrueOf
      <4>3. \A i \in Job : (Told(i, c))' => i = j
        BY <3>1, <3>2, <4>1, <4>2
      <4> QED BY <2>4, <2>5, <3>1, <3>2, <3>5, <4>2, <4>3 DEF TrueOf
    <3>6. CASE d # c
      <4>1. \A i \in Job : (Told(i, d))' <=> Told(i, d)
        BY <2>1, <2>2, <2>3, <2>4, <3>6 DEF Told
      <4>2. \A i \in Job : Told(i, d) => job'[i] = job[i]
        BY <2>1, <2>2, <2>4, <3>6 DEF Told
      <4> QED BY <2>2, <2>5, <3>1, <3>4, <3>6, <4>1, <4>2, StillTrue DEF DirInv, ToldTrue
    <3> QED BY <3>5, <3>6
  <2>8. ReadsTrue'
    BY <2>2, <2>3, <2>4, <2>5 DEF DirInv, ReadsTrue, SameFields
  <2> QED BY <1>0, <2>6, <2>7, <2>8 DEF DirInv
<1>3. CASE Dir!TellSecret(j)
  <2>1. PICK c, n : c = job[j].client /\ n = job[j].nth
    OBVIOUS
  <2>2. /\ job[j].op = "told" /\ Dir!Becomes(j, Dir!Idle) /\ shown' = [shown EXCEPT ![c] = n]
        /\ UNCHANGED <<clients, jobs, outdated, raced>>
    BY <1>3, <2>1 DEF Dir!TellSecret
  <2>3. FreshIds' /\ ReadsTrue'
    BY <1>a, <2>2 DEF DirInv, FreshIds, ReadsTrue
  <2>4. c \in Dir!Id /\ shown'[c] = n /\ \A d \in Dir!Id \ {c} : shown'[d] = shown[d]
    BY <1>0, <2>1, <2>2, JobFields DEF DirTyped
  <2>7. ToldTrue'
    <3>1. SUFFICES ASSUME NEW d \in (DOMAIN clients \ raced)' PROVE TrueOf(d)'
      BY DEF ToldTrue
    <3>2. d \in DOMAIN clients \ raced /\ d \in Dir!Id /\ TrueOf(d)
      BY <1>0, <2>2, <3>1 DEF DirInv, DirTyped, ToldTrue
    <3>3. \A i \in Job : /\ (Told(i, d))' => i # j /\ Told(i, d)
                         /\ (Rotating(i, d))' => Rotating(i, d)
      BY <1>a, <2>1, <2>2 DEF Told, Rotating
    <3>4. CASE d = c
      <4>1. Told(j, c) /\ \A i \in Job : Told(i, c) => Rotating(i, c)
        BY <2>1, <2>2 DEF Told, Rotating
      <4>2. clients[c].secret = n /\ \A i \in Job : Told(i, c) => i = j
        BY <2>1, <3>2, <3>4, <4>1 DEF TrueOf
      <4>3. \A i \in Job : ~(Told(i, c))'
        BY <3>3, <3>4, <4>2
      <4> QED BY <2>2, <2>4, <3>2, <3>3, <3>4, <4>2, <4>3 DEF TrueOf
    <3>5. CASE d # c
      <4>1. \A i \in Job : (Told(i, d))' <=> Told(i, d)
        BY <1>a, <2>1, <2>2, <3>5 DEF Told
      <4>2. \A i \in Job : Told(i, d) => job'[i] = job[i]
        BY <1>a, <2>1, <2>2, <3>5 DEF Told
      <4> QED BY <2>2, <2>4, <3>2, <3>3, <3>5, <4>1, <4>2, StillTrue
    <3> QED BY <3>4, <3>5
  <2> QED BY <1>0, <2>3, <2>7 DEF DirInv
<1>4. CASE Dir!DeleteBoth(j)
  <2>1. PICK c, t : /\ c = job[j].client /\ t = job[j].tenant
                    /\ clients' = Dir!Orphaned(Dir!Without(clients, c), t)
                    /\ shown' = [shown EXCEPT ![c] = 0]
    BY <1>4 DEF Dir!DeleteBoth
  <2>2. PICK cs : cs = Dir!Without(clients, c)
    OBVIOUS
  <2>3. /\ DOMAIN cs = DOMAIN clients \ {c} /\ cs \in [DOMAIN cs -> Dir!ClientRow]
        /\ \A d \in DOMAIN cs : cs[d] = clients[d]
    BY <1>0, <2>2, ClientWithout
  <2>4. /\ DOMAIN clients' = DOMAIN clients \ {c}
        /\ \A d \in DOMAIN clients' : /\ clients'[d].secret = clients[d].secret
                                      /\ clients'[d].name = clients[d].name
                                      /\ clients'[d].redirectUris = clients[d].redirectUris
                                      /\ clients'[d].public = clients[d].public
    BY <2>1, <2>2, <2>3, OrphanedRows
  <2>5. \A d \in DOMAIN clients' : shown'[d] = shown[d]
    BY <1>0, <2>1, <2>4 DEF DirTyped
  <2>6. /\ job[j].op = "delete" /\ Dir!Becomes(j, Dir!Idle) /\ UNCHANGED <<jobs, outdated, raced>>
    BY <1>4 DEF Dir!DeleteBoth
  <2> QED BY <1>0, <1>a, <1>b, <2>4, <2>5, <2>6, RowsKept
<1>5. CASE Dir!WriteTenant(j)
  BY <1>0, <1>5, <1>a, <1>b, RowsKept DEF Dir!WriteTenant, Dir!history
<1>6. CASE Dir!Fails(j)
  BY <1>0, <1>6, <1>a, <1>b, RowsKept DEF Dir!Fails
<1> QED BY <1>1, <1>2, <1>3, <1>4, <1>5, <1>6 DEF DirEnds

LEMMA CreatesTrue ==
  ASSUME DirInv, DirTyped', NEW r, Creates(r)
  PROVE  DirInv'
<1>1. PICK n : n = jobs + 1
  OBVIOUS
<1>2. /\ n \in Dir!Id /\ jobs \in Nat /\ jobs' = n /\ r \in Dir!ClientRow /\ clients' = Dir!With(clients, n, r)
      /\ shown' = [shown EXCEPT ![n] = r.secret] /\ UNCHANGED <<job, outdated, raced>>
  BY <1>1, NextId DEF DirInv, Creates
<1>3. /\ DOMAIN clients' = DOMAIN clients \cup {n} /\ clients'[n] = r
      /\ \A d \in DOMAIN clients \ {n} : clients'[d] = clients[d]
  BY <1>2, ClientWith DEF DirInv
<1>4. /\ n \notin DOMAIN clients
      /\ \A j \in Job : job[j].op \in {"update", "rotate", "told"} => job[j].client # n
  BY <1>1, <1>2 DEF DirInv, FreshIds
<1>5. FreshIds'
  BY <1>1, <1>2, <1>3 DEF DirInv, FreshIds
<1>6. shown'[n] = r.secret /\ \A d \in DOMAIN clients : shown'[d] = shown[d]
  BY <1>2, <1>4 DEF DirInv, DirTyped
<1>7. ToldTrue'
  <2>1. SUFFICES ASSUME NEW d \in (DOMAIN clients \ raced)' PROVE TrueOf(d)'
    BY DEF ToldTrue
  <2>2. \A i \in Job : /\ (Told(i, d))' <=> Told(i, d)
                       /\ (Rotating(i, d))' <=> Rotating(i, d)
    BY <1>2 DEF Told, Rotating
  <2>3. CASE d = n
    <3>1. \A i \in Job : ~Rotating(i, n) /\ ~Told(i, n)
      BY <1>4 DEF Told, Rotating
    <3> QED BY <1>3, <1>6, <2>2, <2>3, <3>1 DEF TrueOf
  <2>4. CASE d # n
    <3>1. d \in DOMAIN clients \ raced /\ clients'[d] = clients[d] /\ shown'[d] = shown[d]
      BY <1>2, <1>3, <1>6, <2>1, <2>4
    <3> QED BY <1>2, <2>2, <3>1, StillTrue DEF DirInv, ToldTrue
  <2> QED BY <2>3, <2>4
<1>8. ReadsTrue'
  BY <1>2, <1>3, <1>4 DEF DirInv, ReadsTrue
<1> QED BY <1>5, <1>7, <1>8 DEF DirInv

LEMMA DirAtOnceTrue == ASSUME DirInv, DirAtOnce PROVE DirInv'
<1>0. DirTyped /\ DirTyped' /\ jobs \in Nat
  BY DirAtOnceTyped DEF DirInv, DirTyped
<1>1. ASSUME NEW public \in BOOLEAN,
             Dir!CreateClient(public) \/ \E t \in DOMAIN tenants \cup {0} : Dir!AdminCreateClient(t, public)
      PROVE  DirInv'
  BY <1>0, <1>1, CreatesForms, CreatesTrue
<1>2. ASSUME NEW c \in DOMAIN clients, Dir!AdminDeleteClient(c) PROVE DirInv'
  <2>1. DOMAIN clients' = DOMAIN clients \ {c} /\ \A d \in DOMAIN clients' : clients'[d] = clients[d]
    BY <1>0, <1>2, ClientWithout DEF Dir!AdminDeleteClient
  <2>2. \A d \in DOMAIN clients' : shown'[d] = shown[d]
    BY <1>0, <1>2, <2>1 DEF Dir!AdminDeleteClient, DirTyped
  <2> QED BY <1>0, <1>2, <2>1, <2>2, RowsKept DEF Dir!AdminDeleteClient, Dir!AtOnce
<1>3. ASSUME NEW t \in DOMAIN tenants, Dir!DeleteTenant(t) PROVE DirInv'
  <2>1. /\ DOMAIN clients' = DOMAIN clients
        /\ \A d \in DOMAIN clients' : /\ clients'[d].secret = clients[d].secret
                                      /\ clients'[d].name = clients[d].name
                                      /\ clients'[d].redirectUris = clients[d].redirectUris
                                      /\ clients'[d].public = clients[d].public
    BY <1>0, <1>3, OrphanedRows DEF Dir!DeleteTenant, DirTyped
  <2> QED BY <1>0, <1>3, <2>1, RowsKept DEF Dir!DeleteTenant, Dir!AtOnce, Dir!history
<1>4. ASSUME UNCHANGED <<clients, job, Dir!history>>, jobs <= jobs' PROVE DirInv'
  BY <1>0, <1>4, RowsKept DEF Dir!history
<1>5. ASSUME NEW c \in DOMAIN clients, Dir!SettingsModal(c) PROVE DirInv'
  BY <1>0, <1>4, <1>5 DEF Dir!SettingsModal, Dir!AtOnce
<1>6. ASSUME NEW t \in DOMAIN tenants, Dir!AdminUpdateTenant(t) PROVE DirInv'
  BY <1>0, <1>4, <1>6 DEF Dir!AdminUpdateTenant, Dir!AtOnce
<1>7. ASSUME NEW k \in keys, Dir!RevokeRootApiKey(k) PROVE DirInv'
  BY <1>0, <1>4, <1>7 DEF Dir!RevokeRootApiKey, Dir!AtOnce
<1>8. CASE Dir!CreateTenant \/ Dir!CreateRootApiKey \/ Dir!GetTenantConfig
  BY <1>0, <1>4, <1>8 DEF Dir!CreateTenant, Dir!CreateRootApiKey, Dir!GetTenantConfig, Dir!AtOnce
<1> QED BY <1>1, <1>2, <1>3, <1>5, <1>6, <1>7, <1>8 DEF DirAtOnce

LEMMA DirNext == ASSUME DirInv, [Dir!Next]_(Dir!vars) PROVE DirInv'
<1>1. CASE UNCHANGED Dir!vars
  <2>1. DirTyped /\ DirTyped' /\ jobs \in Nat
    BY DirTypeStep DEF DirInv, DirTyped
  <2>2. UNCHANGED <<clients, job, jobs, shown, outdated, raced>>
    BY <1>1 DEF Dir!vars, Dir!history
  <2> QED BY <2>1, <2>2, RowsKept
<1> QED BY <1>1, DirSteps, DirStartTrue, DirEndTrue, DirAtOnceTrue

LEMMA SecretTold == ASSUME DirInv PROVE Dir!ToldSecretWorks
BY DEF DirInv, ToldTrue, TrueOf, Told, Rotating, Dir!ToldSecretWorks

LEMMA UpdateKeeps ==
  ASSUME DirInv, Dir!Next, NEW j \in Job \ outdated, job[j].op = "update", job'[j] = Dir!Idle,
         job[j].client \in DOMAIN clients
  PROVE  LET row == clients[job[j].client]
             new == clients'[job[j].client]
         IN  /\ "name" \notin job[j].asks => new.name = row.name
             /\ "redirectUris" \notin job[j].asks => new.redirectUris = row.redirectUris
             /\ "kind" \notin job[j].asks => new.public = row.public
<1>0. DirTyped /\ job[j] \in JobState /\ job'[j] # job[j]
  BY JobMade DEF DirInv, DirTyped
<1>1. DirEnds(j)
  <2>1. ~DirAtOnce
    BY <1>0 DEF DirAtOnce, Dir!AtOnce, Dir!AdminDeleteClient, Dir!SettingsModal, Dir!CreateClient,
                Dir!AdminCreateClient,
                Dir!AdminUpdateTenant, Dir!DeleteTenant, Dir!RevokeRootApiKey, Dir!CreateTenant,
                Dir!CreateRootApiKey,
                Dir!GetTenantConfig
  <2>2. ASSUME NEW i \in Job, DirStarts(i) PROVE FALSE
    <3>1. PICK q : Started(i, q)
      BY <1>0, <2>2, StartForms
    <3>2. job[i] = Dir!Idle /\ \A k \in Job \ {i} : job'[k] = job[k]
      BY <1>0, <3>1, StartedJob
    <3> QED BY <1>0, <3>2, JobMade
  <2>3. ASSUME NEW i \in Job, DirEnds(i), i # j PROVE FALSE
    BY <1>0, <2>3 DEF DirEnds, Dir!WriteClient, Dir!StoreSecret, Dir!TellSecret, Dir!DeleteBoth,
                      Dir!WriteTenant, Dir!Fails,
                      Dir!Becomes, DirTyped
  <2> QED BY <2>1, <2>2, <2>3, DirSteps
<1>2. Dir!WriteClient(j)
  BY <1>1 DEF DirEnds, Dir!WriteClient, Dir!StoreSecret, Dir!TellSecret, Dir!DeleteBoth,
              Dir!WriteTenant, Dir!Fails
<1>3. PICK c, r : c = job[j].client /\ r = Dir!Merged(job[j])
  OBVIOUS
<1>4. clients' = Dir!With(clients, c, r)
  BY <1>2, <1>3 DEF Dir!WriteClient
<1>5. /\ r \in Dir!ClientRow
      /\ "name" \notin job[j].asks => r.name = job[j].held.name
      /\ "redirectUris" \notin job[j].asks => r.redirectUris = job[j].held.redirectUris
      /\ "kind" \notin job[j].asks => r.public = job[j].held.public
  BY <1>0, <1>3, MergedRow
<1>6. clients'[c] = r
  BY <1>0, <1>4, <1>5, ClientWith
<1>7. SameFields(job[j].held, clients[c])
  BY <1>3 DEF DirInv, ReadsTrue, SameFields
<1> QED BY <1>3, <1>5, <1>6, <1>7 DEF SameFields

-----------------------------------------------------------------------------
(* Webhooks *)

\* The table of what is being sent has a row per dispatch.
HookTyped == Hooks!TypeOK /\ sending = [d \in Dispatch |-> sending[d]]

RowsOf(d, e) == {l \in logged : l.endpoint = e /\ l.dispatch = d}

\* What is logged, and what is received, was sent.
WasSent ==
  /\ \A l \in logged : l.endpoint \in DOMAIN sending[l.dispatch]
  /\ \A d \in Dispatch, e \in Hooks!Id :
       <<e, d>> \in received \cup refused => e \in DOMAIN sending[d]
  /\ \A d \in Dispatch : handler[d] = "ready" => DOMAIN sending[d] = {}

\* One row when it is done and none before; and the phase tells whether the
\* endpoint answered, unless its row was refused.
Tracked(d, e) ==
  /\ sending[d][e] # "done" => RowsOf(d, e) = {}
  /\ sending[d][e] = "done" =>
       \E outcome \in Hooks!Outcome :
         /\ RowsOf(d, e) = {Hooks!Row(d, e, outcome)}
         /\ outcome = "status" <=> <<e, d>> \in received \ refused
  /\ sending[d][e] = "post" => <<e, d>> \notin received \cup refused
  /\ sending[d][e] = "log" => <<e, d>> \in received \ refused
  /\ sending[d][e] = "logError" => <<e, d>> \notin received \ refused

AllTracked == \A d \in Dispatch : \A e \in DOMAIN sending[d] \cap DOMAIN endpoints : Tracked(d, e)

Returned(d) ==
  \/ \A e \in DOMAIN sending[d] : sending[d][e] = "done"
  \/ \E e \in DOMAIN sending[d] : sending[d][e] = "lost"

HookInv ==
  /\ HookTyped /\ WasSent /\ AllTracked
  /\ \A d \in Dispatch : handler[d] = "answered" => Returned(d)

LEMMA HookInit == ASSUME Hooks!Init PROVE HookInv
<1>1. HookTyped
  BY HubBounds DEF Hooks!Init, HookTyped, Hooks!TypeOK
<1>2. WasSent
  BY DEF Hooks!Init, WasSent
<1>3. AllTracked
  BY DEF Hooks!Init, AllTracked
<1>4. \A d \in Dispatch : handler[d] # "answered"
  BY DEF Hooks!Init
<1> QED BY <1>1, <1>2, <1>3, <1>4 DEF HookInv

\* The dispatch d goes on with the endpoint e alone.
LEMMA Moved ==
  ASSUME HookTyped, NEW d \in Dispatch, NEW e \in DOMAIN sending[d], NEW from, NEW to \in Hooks!Phase,
         Hooks!Moves(d, e, from, to)
  PROVE  /\ sending[d][e] = from /\ sending'[d][e] = to
         /\ sending' = [x \in Dispatch |-> sending'[x]]
         /\ \A x \in Dispatch : /\ DOMAIN sending'[x] = DOMAIN sending[x]
                                /\ sending'[x] \in [DOMAIN sending'[x] -> Hooks!Phase]
                                /\ \A f \in DOMAIN sending[x] :
                                     <<f, x>> # <<e, d>> => sending'[x][f] = sending[x][f]
<1>1. sending' = [sending EXCEPT ![d] = [sending[d] EXCEPT ![e] = to]]
  BY DEF Hooks!Moves
<1>2. \A x \in Dispatch : sending'[x] = IF x = d THEN [sending[d] EXCEPT ![e] = to] ELSE sending[x]
  BY <1>1 DEF HookTyped
<1>3. sending' = [x \in Dispatch |-> sending'[x]]
  BY <1>1 DEF HookTyped
<1>4. sending[d] \in [DOMAIN sending[d] -> Hooks!Phase]
  BY DEF HookTyped, Hooks!TypeOK
<1>5. /\ DOMAIN sending'[d] = DOMAIN sending[d] /\ sending'[d][e] = to
      /\ sending'[d] \in [DOMAIN sending[d] -> Hooks!Phase]
      /\ \A f \in DOMAIN sending[d] \ {e} : sending'[d][f] = sending[d][f]
  BY <1>2, <1>4
<1>6. \A x \in Dispatch \ {d} : sending'[x] = sending[x]
  BY <1>2
<1>7. \A x \in Dispatch : sending[x] \in [DOMAIN sending[x] -> Hooks!Phase]
  BY DEF HookTyped, Hooks!TypeOK
<1>8. sending[d][e] = from
  BY DEF Hooks!Moves
<1>9. ASSUME NEW x \in Dispatch
      PROVE  /\ DOMAIN sending'[x] = DOMAIN sending[x]
             /\ sending'[x] \in [DOMAIN sending'[x] -> Hooks!Phase]
             /\ \A f \in DOMAIN sending[x] :
                  <<f, x>> # <<e, d>> => sending'[x][f] = sending[x][f]
  BY <1>5, <1>6, <1>7
<1> QED BY <1>3, <1>5, <1>8, <1>9

\* One pair moves; the rows and the answers of the others stay.
LEMMA OthersTracked ==
  ASSUME HookInv, NEW d \in Dispatch, NEW e \in DOMAIN sending[d], NEW from, NEW to \in Hooks!Phase,
         Hooks!Moves(d, e, from, to), UNCHANGED <<endpoints, made, handler>>,
         logged' = logged \/ \E outcome \in Hooks!Outcome : logged' = logged \cup {Hooks!Row(d, e, outcome)}
                                                     /\ e \in DOMAIN endpoints,
         received' = received \/ received' = received \cup {<<e, d>>},
         refused' = refused \/ refused' = refused \cup {<<e, d>>},
         failures' \in 0 .. MaxFailures,
         from \notin {"done", "lost"},
         e \in DOMAIN endpoints => Tracked(d, e)'
  PROVE  HookInv'
<1>1. /\ sending[d][e] = from /\ sending'[d][e] = to
      /\ sending' = [x \in Dispatch |-> sending'[x]]
      /\ \A x \in Dispatch : /\ DOMAIN sending'[x] = DOMAIN sending[x]
                             /\ sending'[x] \in [DOMAIN sending'[x] -> Hooks!Phase]
                             /\ \A f \in DOMAIN sending[x] :
                                  <<f, x>> # <<e, d>> => sending'[x][f] = sending[x][f]
  BY Moved DEF HookInv
<1>2. e \in Hooks!Id
  BY HubBounds DEF HookInv, HookTyped, Hooks!TypeOK, Hooks!Id
<1>3. HookTyped'
  BY <1>1, <1>2 DEF HookInv, HookTyped, Hooks!TypeOK, Hooks!Row
<1>4. WasSent'
  <2>1. \A l \in logged' : l.dispatch \in Dispatch /\ l.endpoint \in DOMAIN sending[l.dispatch]
    BY DEF HookInv, HookTyped, Hooks!TypeOK, WasSent, Hooks!Row
  <2>2. \A x \in Dispatch, f \in Hooks!Id :
          <<f, x>> \in received' \cup refused' => f \in DOMAIN sending[x]
    BY DEF HookInv, WasSent
  <2> QED BY <1>1, <2>1, <2>2 DEF HookInv, WasSent
<1>5. ASSUME NEW x \in Dispatch, NEW f \in DOMAIN sending'[x] \cap DOMAIN endpoints',
             <<f, x>> # <<e, d>>
      PROVE  Tracked(x, f)'
  <2>1. RowsOf(x, f)' = RowsOf(x, f)
    BY <1>5 DEF RowsOf, Hooks!Row
  <2>2. /\ (<<f, x>> \in received') <=> (<<f, x>> \in received)
        /\ (<<f, x>> \in refused') <=> (<<f, x>> \in refused)
    BY <1>5
  <2>3. sending'[x][f] = sending[x][f] /\ Tracked(x, f)
    BY <1>1, <1>5 DEF HookInv, AllTracked
  <2> QED BY <2>1, <2>2, <2>3 DEF Tracked
<1>6. AllTracked'
  BY <1>1, <1>5 DEF AllTracked
<1>7. ASSUME NEW x \in Dispatch, handler'[x] = "answered" PROVE Returned(x)'
  <2>1. Returned(x)
    BY <1>7 DEF HookInv
  <2>2. CASE \A f \in DOMAIN sending[x] : sending[x][f] = "done"
    BY <1>1, <2>2 DEF Returned
  <2>3. CASE \E f \in DOMAIN sending[x] : sending[x][f] = "lost"
    BY <1>1, <2>3 DEF Returned
  <2> QED BY <2>1, <2>2, <2>3 DEF Returned
<1> QED BY <1>3, <1>4, <1>6, <1>7 DEF HookInv

LEMMA SendingTracked ==
  ASSUME HookInv, NEW d \in Dispatch, NEW e \in DOMAIN sending[d],
         Hooks!Answers(d, e) \/ Hooks!NoAnswer(d, e) \/ Hooks!LogStatus(d, e) \/ Hooks!LogError(d, e) \/ Hooks!Refused(d, e)
  PROVE  HookInv'
<1>0. /\ HookTyped /\ failures \in 0 .. MaxFailures
      /\ e \in DOMAIN endpoints => Tracked(d, e)
      /\ {"post", "log", "logError", "done", "lost"} \subseteq Hooks!Phase
  BY DEF HookInv, AllTracked, HookTyped, Hooks!TypeOK, Hooks!Phase
<1>1. CASE Hooks!Answers(d, e)
  <2>1. Hooks!Moves(d, e, "post", "log") /\ UNCHANGED <<endpoints, made, logged, handler, failures, refused>>
        /\ received' = received \cup {<<e, d>>}
    BY <1>1 DEF Hooks!Answers
  <2>2. sending[d][e] = "post" /\ sending'[d][e] = "log"
    BY <1>0, <2>1, Moved
  <2>3. e \in DOMAIN endpoints => Tracked(d, e)'
    BY <1>0, <2>1, <2>2 DEF Tracked, RowsOf
  <2> QED BY <1>0, <2>1, <2>3, OthersTracked
<1>2. CASE Hooks!NoAnswer(d, e)
  <2>1. Hooks!Moves(d, e, "post", "logError") /\ UNCHANGED <<endpoints, made, logged, handler, failures, received, refused>>
    BY <1>2 DEF Hooks!NoAnswer
  <2>2. sending[d][e] = "post" /\ sending'[d][e] = "logError"
    BY <1>0, <2>1, Moved
  <2>3. e \in DOMAIN endpoints => Tracked(d, e)'
    BY <1>0, <2>1, <2>2 DEF Tracked, RowsOf
  <2> QED BY <1>0, <2>1, <2>3, OthersTracked
<1>3. ASSUME NEW from \in {"log", "logError"}, NEW outcome \in Hooks!Outcome,
             outcome = "status" <=> from = "log",
             Hooks!Moves(d, e, from, "done"), e \in DOMAIN endpoints,
             logged' = logged \cup {Hooks!Row(d, e, outcome)},
             UNCHANGED <<endpoints, made, handler, failures, received, refused>>
      PROVE  HookInv'
  <2>1. sending[d][e] = from /\ sending'[d][e] = "done"
    BY <1>0, <1>3, Moved
  <2>2. RowsOf(d, e) = {}
    BY <1>0, <1>3, <2>1 DEF Tracked
  <2>3. RowsOf(d, e)' = {Hooks!Row(d, e, outcome)}
    BY <1>3, <2>2 DEF RowsOf, Hooks!Row
  <2>4. outcome = "status" <=> <<e, d>> \in received \ refused
    BY <1>0, <1>3, <2>1 DEF Tracked
  <2>5. Tracked(d, e)'
    BY <1>3, <2>1, <2>3, <2>4 DEF Tracked, Hooks!Row
  <2> QED BY <1>0, <1>3, <2>5, OthersTracked
<1>4. CASE Hooks!LogStatus(d, e)
  BY <1>3, <1>4 DEF Hooks!LogStatus, Hooks!Outcome
<1>5. CASE Hooks!LogError(d, e)
  BY <1>3, <1>5 DEF Hooks!LogError, Hooks!Outcome
<1>6. CASE Hooks!Refused(d, e)
  <2>1. PICK from, to : /\ <<from, to>> \in {<<"log", "logError">>, <<"logError", "lost">>}
                        /\ Hooks!Moves(d, e, from, to)
    BY <1>6 DEF Hooks!Refused
  <2>2. /\ UNCHANGED <<endpoints, made, logged, handler, received>>
        /\ failures' \in 0 .. MaxFailures
        /\ refused' = refused \cup {<<e, d>>}
    BY <1>0, <1>6, HubBounds DEF Hooks!Refused
  <2>3. sending[d][e] = from /\ sending'[d][e] = to /\ to \in {"logError", "lost"}
    BY <1>0, <2>1, Moved
  <2>4. e \in DOMAIN endpoints => Tracked(d, e)'
    BY <1>0, <2>1, <2>2, <2>3 DEF Tracked, RowsOf
  <2> QED BY <1>0, <2>1, <2>2, <2>4, OthersTracked
<1> QED BY <1>1, <1>2, <1>4, <1>5, <1>6

LEMMA HookStep ==
  ASSUME HookInv, NEW d \in Dispatch,
         \/ Hooks!Return(d) \/ Hooks!FindFails(d)
         \/ \E event \in Event, tenanted \in BOOLEAN : Hooks!Begin(d, event, tenanted)
  PROVE  HookInv'
<1>1. CASE Hooks!Return(d)
  <2>1. HookTyped'
    BY <1>1 DEF Hooks!Return, HookInv, HookTyped, Hooks!TypeOK
  <2>2. WasSent'
    BY <1>1 DEF Hooks!Return, HookInv, WasSent, HookTyped, Hooks!TypeOK
  <2>3. AllTracked'
    <3>1. \A x, e : Tracked(x, e)' <=> Tracked(x, e)
      BY <1>1 DEF Hooks!Return, Tracked, RowsOf
    <3> QED BY <1>1, <3>1 DEF Hooks!Return, HookInv, AllTracked
  <2>4. \A x \in Dispatch : handler'[x] = "answered" => Returned(x)'
    BY <1>1 DEF Hooks!Return, HookInv, Returned, HookTyped, Hooks!TypeOK
  <2> QED BY <2>1, <2>2, <2>3, <2>4 DEF HookInv
<1>2. ASSUME NEW event \in Event, NEW tenanted \in BOOLEAN, Hooks!Begin(d, event, tenanted)
      PROVE  HookInv'
  <2>1. PICK S : S = Hooks!Subscribed(event, tenanted)
    OBVIOUS
  <2>2. /\ S \subseteq DOMAIN endpoints /\ handler[d] = "ready"
        /\ sending' = [sending EXCEPT ![d] = [e \in S |-> "post"]]
        /\ handler' = [handler EXCEPT ![d] = "waiting"]
        /\ UNCHANGED <<endpoints, made, logged, failures, received, refused>>
    BY <1>2, <2>1 DEF Hooks!Begin, Hooks!Subscribed
  <2>3. /\ DOMAIN sending'[d] = S /\ \A e \in S : sending'[d][e] = "post"
        /\ sending' = [x \in Dispatch |-> sending'[x]]
        /\ \A x \in Dispatch \ {d} : sending'[x] = sending[x] /\ handler'[x] = handler[x]
        /\ handler'[d] = "waiting"
    BY <2>2 DEF HookInv, HookTyped, Hooks!TypeOK
  <2>4. sending'[d] \in [S -> Hooks!Phase]
    BY <2>2 DEF HookInv, HookTyped, Hooks!Phase
  <2>5. HookTyped'
    <3>1. \A x \in Dispatch : /\ DOMAIN sending'[x] \subseteq 1 .. made'
                              /\ sending'[x] \in [DOMAIN sending'[x] -> Hooks!Phase]
      BY <2>2, <2>3, <2>4 DEF HookInv, HookTyped, Hooks!TypeOK
    <3> QED BY <2>2, <2>3, <3>1 DEF HookInv, HookTyped, Hooks!TypeOK
  <2>6. \A e \in Hooks!Id : RowsOf(d, e) = {} /\ <<e, d>> \notin received \cup refused
    BY <2>2 DEF HookInv, WasSent, RowsOf
  <2>7. WasSent'
    <3>1. \A l \in logged : l.dispatch \in Dispatch /\ l.endpoint \in DOMAIN sending[l.dispatch]
      BY DEF HookInv, HookTyped, Hooks!TypeOK, WasSent
    <3>2. \A l \in logged : l.dispatch # d
      BY <2>2, <3>1 DEF HookInv, WasSent
    <3> QED BY <2>2, <2>3, <2>6, <3>1, <3>2 DEF HookInv, WasSent
  <2>8. AllTracked'
    <3>1. SUFFICES ASSUME NEW x \in Dispatch, NEW e \in DOMAIN sending'[x] \cap DOMAIN endpoints'
                   PROVE  Tracked(x, e)'
      BY DEF AllTracked
    <3>2. RowsOf(x, e)' = RowsOf(x, e)
      BY <2>2 DEF RowsOf
    <3>3. CASE x = d
      <4>1. e \in Hooks!Id /\ sending'[d][e] = "post"
        BY <2>2, <2>3, <3>1, <3>3, HubBounds DEF HookInv, HookTyped, Hooks!TypeOK, Hooks!Id
      <4> QED BY <2>2, <2>6, <3>2, <3>3, <4>1 DEF Tracked
    <3>4. CASE x # d
      <4>1. Tracked(x, e) /\ sending'[x] = sending[x]
        BY <2>2, <2>3, <3>1, <3>4 DEF HookInv, AllTracked
      <4> QED BY <2>2, <3>2, <4>1 DEF Tracked
    <3> QED BY <3>3, <3>4
  <2>9. \A x \in Dispatch : handler'[x] = "answered" => Returned(x)'
    BY <2>3 DEF HookInv, Returned
  <2> QED BY <2>5, <2>7, <2>8, <2>9 DEF HookInv
<1>3. CASE Hooks!FindFails(d)
  <2>1. /\ failures' \in 0 .. MaxFailures
        /\ handler' \in [Dispatch -> {"ready", "waiting", "answered", "failed"}]
        /\ \A x \in Dispatch : handler'[x] \in {"ready", "answered"} => handler'[x] = handler[x]
        /\ UNCHANGED <<endpoints, made, logged, sending, received, refused>>
    BY <1>3, HubBounds DEF Hooks!FindFails, HookInv, HookTyped, Hooks!TypeOK
  <2>2. HookTyped'
    BY <2>1 DEF HookInv, HookTyped, Hooks!TypeOK
  <2>3. WasSent'
    BY <2>1 DEF HookInv, WasSent
  <2>4. AllTracked'
    <3>1. \A x, e : Tracked(x, e)' <=> Tracked(x, e)
      BY <2>1 DEF Tracked, RowsOf
    <3> QED BY <2>1, <3>1 DEF HookInv, AllTracked
  <2>5. \A x \in Dispatch : handler'[x] = "answered" => Returned(x)'
    BY <2>1 DEF HookInv, Returned
  <2> QED BY <2>2, <2>3, <2>4, <2>5 DEF HookInv
<1> QED BY <1>1, <1>2, <1>3

LEMMA EndpointStep ==
  ASSUME HookInv,
         \/ \E events \in SUBSET Event : Hooks!CreateEndpoint(events)
         \/ \E e \in DOMAIN endpoints : Hooks!DeleteEndpoint(e)
  PROVE  HookInv'
<1>1. ASSUME NEW events \in SUBSET Event, Hooks!CreateEndpoint(events) PROVE HookInv'
  <2>1. /\ made' = made + 1 /\ made \in Nat /\ made' \in 0 .. MaxEndpoints
        /\ DOMAIN endpoints \subseteq 1 .. made
        /\ \A d \in Dispatch : DOMAIN sending[d] \subseteq 1 .. made
        /\ DOMAIN endpoints' = DOMAIN endpoints \cup {made'}
        /\ UNCHANGED <<logged, sending, handler, failures, received, refused>>
    BY <1>1, HubBounds DEF Hooks!CreateEndpoint, HookInv, HookTyped, Hooks!TypeOK
  <2>2. endpoints' \in [DOMAIN endpoints' -> SUBSET Event]
    BY <1>1 DEF Hooks!CreateEndpoint, HookInv, HookTyped, Hooks!TypeOK
  <2>3. HookTyped'
    BY <2>1, <2>2 DEF HookInv, HookTyped, Hooks!TypeOK
  <2>4. WasSent'
    BY <2>1 DEF HookInv, WasSent
  <2>5. AllTracked'
    BY <2>1 DEF HookInv, AllTracked, Tracked, RowsOf
  <2> QED BY <2>1, <2>3, <2>4, <2>5 DEF HookInv, Returned
<1>2. ASSUME NEW e \in DOMAIN endpoints, Hooks!DeleteEndpoint(e) PROVE HookInv'
  <2>1. /\ DOMAIN endpoints' = DOMAIN endpoints \ {e}
        /\ logged' = {l \in logged : l.endpoint # e}
        /\ UNCHANGED <<made, sending, handler, failures, received, refused>>
    BY <1>2 DEF Hooks!DeleteEndpoint
  <2>2. endpoints' \in [DOMAIN endpoints' -> SUBSET Event]
    BY <1>2 DEF Hooks!DeleteEndpoint, HookInv, HookTyped, Hooks!TypeOK
  <2>3. HookTyped'
    BY <2>1, <2>2 DEF HookInv, HookTyped, Hooks!TypeOK
  <2>4. WasSent'
    BY <2>1 DEF HookInv, WasSent
  <2>5. \A d, f : f # e => RowsOf(d, f)' = RowsOf(d, f)
    BY <2>1 DEF RowsOf
  <2>6. AllTracked'
    <3>1. \A d, f : f # e => (Tracked(d, f)' <=> Tracked(d, f))
      BY <2>1, <2>5 DEF Tracked
    <3> QED BY <2>1, <3>1 DEF HookInv, AllTracked
  <2> QED BY <2>1, <2>3, <2>4, <2>6 DEF HookInv, Returned
<1> QED BY <1>1, <1>2

LEMMA HookNext == ASSUME HookInv, [Hooks!Next]_(Hooks!vars) PROVE HookInv'
<1>1. CASE UNCHANGED Hooks!vars
  BY <1>1 DEF Hooks!vars, HookInv, HookTyped, Hooks!TypeOK, WasSent, AllTracked, Tracked, RowsOf,
              Returned
<1> QED BY <1>1, SendingTracked, HookStep, EndpointStep DEF Hooks!Next

LEMMA SameCardinality == ASSUME NEW S PROVE Hooks!Cardinality(S) = Cardinality(S)
BY DEF Hooks!Cardinality, Cardinality

LEMMA RowLogged == ASSUME HookInv PROVE Hooks!DeliveriesLogged
<1>1. SUFFICES ASSUME NEW d \in Dispatch, handler[d] = "answered",
                      NEW e \in DOMAIN sending[d] \cap DOMAIN endpoints
               PROVE  LET rows == {l \in logged : l.endpoint = e /\ l.dispatch = d}
                      IN  /\ \/ Hooks!Cardinality(rows) = 1
                             \/ /\ rows = {} /\ sending[d][e] # "done"
                                /\ \E f \in DOMAIN sending[d] : sending[d][f] = "lost"
                          /\ \A l \in rows : l.outcome = "status" <=> <<e, d>> \in received \ refused
  BY DEF Hooks!DeliveriesLogged
<1>0. RowsOf(d, e) = {l \in logged : l.endpoint = e /\ l.dispatch = d}
  BY DEF RowsOf
<1>2. Tracked(d, e) /\ Returned(d)
  BY <1>1 DEF HookInv, AllTracked
<1>3. CASE sending[d][e] = "done"
  <2>1. PICK outcome \in Hooks!Outcome :
          /\ RowsOf(d, e) = {Hooks!Row(d, e, outcome)}
          /\ outcome = "status" <=> <<e, d>> \in received \ refused
    BY <1>2, <1>3 DEF Tracked
  <2>2. Hooks!Cardinality(RowsOf(d, e)) = 1
    BY <2>1, FS_Singleton, SameCardinality
  <2> QED BY <1>0, <2>1, <2>2 DEF Hooks!Row
<1>4. CASE sending[d][e] # "done"
  BY <1>0, <1>1, <1>2, <1>4 DEF Tracked, Returned
<1> QED BY <1>3, <1>4

-----------------------------------------------------------------------------
(* Listing *)

CallState == {List!Idle} \cup List!Asked \cup List!Load \cup List!Made \cup List!Shown \cup List!Gone \cup List!Rest

LEMMA CallFields ==
  ASSUME NEW q \in CallState
  PROVE  /\ q.op = "load" => q.query \in List!Query /\ q.fills \in List!Fills
         /\ q.op = "loaded" => /\ q.query \in List!Query /\ q.fills \in List!Fills
                             /\ q.rows \in SUBSET List!Row
         /\ q.op = "create" => q.before \in SUBSET List!Row
         /\ q.op = "created" => q.before \in SUBSET List!Row /\ q.row \in List!Row
         /\ q.op = "delete" => q.row \in List!Row /\ [q EXCEPT !.op = "deleted"] \in CallState
         /\ q.op = "deleted" => q.row \in List!Row
         /\ q.op = "idle" => q = List!Idle
         /\ q.op \in {"load", "loaded"} =>
              /\ [q EXCEPT !.fills = "both"] \in CallState
              /\ [q EXCEPT !.fills = "both"].op = q.op
              /\ [q EXCEPT !.fills = "both"].fills = "both"
              /\ [q EXCEPT !.fills = "both"].query = q.query
              /\ q.op = "loaded" => [q EXCEPT !.fills = "both"].rows = q.rows
BY DEF CallState, List!Idle, List!Asked, List!Load, List!Made, List!Shown, List!Gone, List!Rest,
       List!Fills

LEMMA CallMade ==
  /\ List!Idle \in CallState /\ List!Idle.op = "idle"
  /\ \A q \in List!Query, fills \in {"view", "kept", "both"} :
       [op |-> "load", query |-> q, fills |-> fills] \in CallState
  /\ \A q \in List!Query, fills \in {"view", "kept", "both"}, rows \in SUBSET List!Row :
       [op |-> "loaded", query |-> q, fills |-> fills, rows |-> rows] \in CallState
  /\ \A before \in SUBSET List!Row : [op |-> "create", before |-> before] \in CallState
  /\ \A before \in SUBSET List!Row, row \in List!Row :
       [op |-> "created", before |-> before, row |-> row] \in CallState
  /\ \A row \in List!Row : [op |-> "delete", row |-> row] \in CallState
  /\ [op |-> "others"] \in CallState /\ [op |-> "othersGone"] \in CallState
BY DEF CallState, List!Idle, List!Asked, List!Load, List!Made, List!Shown, List!Gone, List!Rest,
       List!Fills

LEMMA CallMoves ==
  ASSUME call \in [Call -> CallState], NEW c \in Call, NEW q \in CallState, List!Becomes(c, q)
  PROVE  /\ call' \in [Call -> CallState]
         /\ call'[c] = q
         /\ \A d \in Call \ {c} : call'[d] = call[d]
BY DEF List!Becomes

\* What the choices of a page have to do with one another.
LEMMA PageChoices ==
  ASSUME page \in List!Pages
  PROVE  /\ page.create \in {"append", "prepend", "reload", "none"}
         /\ page.delete \in {"filter", "reload", "none"}
         /\ page.others \in {"filter", "reload", "none"}
         /\ page.limited => /\ page.create = "none" /\ page.others = "none"
                            /\ page.delete # "reload" /\ page # List!Dashboard
                            /\ page \in {List!CommandMenu, List!AdminUsers, List!AuditPage}
         /\ ~page.limited => page \notin {List!CommandMenu, List!AdminUsers, List!AuditPage}
         /\ page = List!CommandMenu => page.search /\ page.delete = "none"
         /\ page = List!AdminUsers => page.search /\ page.delete = "filter"
         /\ page = List!AuditPage => ~page.search
<1> USE DEF List!Pages, List!Applications, List!AdminClients, List!AdminTenants, List!AdminUsers,
            List!Webhooks, List!CommandMenu,
            List!SessionsPage, List!Dashboard, List!AuditPage
<1>1. /\ page.create \in {"append", "prepend", "reload", "none"}
      /\ page.delete \in {"filter", "reload", "none"}
      /\ page.others \in {"filter", "reload", "none"}
  OBVIOUS
<1>2. page.limited => /\ page.create = "none" /\ page.others = "none"
                      /\ page.delete # "reload" /\ page # List!Dashboard
  OBVIOUS
<1>3. page.limited => page \in {List!CommandMenu, List!AdminUsers, List!AuditPage}
  OBVIOUS
<1>4. ~page.limited => page \notin {List!CommandMenu, List!AdminUsers, List!AuditPage}
  OBVIOUS
<1>5. page = List!CommandMenu => page.search /\ page.delete = "none"
  OBVIOUS
<1>6. page = List!AdminUsers => page.search /\ page.delete = "filter"
  OBVIOUS
<1>7. page = List!AuditPage => ~page.search
  OBVIOUS
<1> HIDE DEF List!Pages, List!Applications, List!AdminClients, List!AdminTenants, List!AdminUsers,
             List!Webhooks, List!CommandMenu,
             List!SessionsPage, List!Dashboard, List!AuditPage
<1> QED BY <1>1, <1>2, <1>3, <1>4, <1>5, <1>6, <1>7

\* The answer to every query, as the table is.
Replies == [q \in List!Query |-> List!Answer(q)]

LEMMA RepliesSame == ASSUME UNCHANGED <<page, table>> PROVE Replies' = Replies
BY DEF Replies, List!Answer, List!Newest, List!Matches

LEMMA RepliesTable ==
  ASSUME page \in List!Pages, ~page.limited, NEW q \in List!Query
  PROVE  Replies[q] = table
BY PageChoices DEF Replies, List!Answer

LEMMA RepliesMatch ==
  ASSUME page \in List!Pages, page.limited, NEW q \in List!Query, ~page.search => ~q.search
  PROVE  Replies[q] \subseteq {r \in table : q.search => r % 2 = 0}
<1>1. Replies[q] = List!Answer(q)
  BY DEF Replies
<1>2. \A rows, p : List!Newest(rows, p) \subseteq rows
  BY DEF List!Newest
<1>3. CASE page = List!CommandMenu
  <2>1. page # List!AdminUsers /\ page # List!AuditPage
    BY <1>3, PageChoices
  <2>2. List!Answer(q) = IF q.search THEN List!Newest(List!Matches(q), 1) ELSE {}
    BY <1>3, <2>1 DEF List!Answer
  <2> QED BY <1>1, <1>2, <2>2 DEF List!Matches
<1>4. CASE page = List!AdminUsers
  <2>1. page # List!CommandMenu /\ page # List!AuditPage
    BY <1>4, PageChoices
  <2>2. List!Answer(q) = List!Newest(List!Matches(q), q.page)
    BY <1>4, <2>1 DEF List!Answer
  <2> QED BY <1>1, <1>2, <2>2 DEF List!Matches
<1>5. CASE page = List!AuditPage
  <2>1. page # List!CommandMenu /\ page # List!AdminUsers /\ ~q.search
    BY <1>5, PageChoices
  <2>2. List!Answer(q) = List!Newest(table, 1)
    BY <1>5, <2>1 DEF List!Answer
  <2> QED BY <1>1, <1>2, <2>1, <2>2
<1> QED BY <1>3, <1>4, <1>5, PageChoices

LEMMA RepliesRows ==
  ASSUME page \in List!Pages, table \subseteq List!Row, NEW q \in List!Query
  PROVE  Replies[q] \subseteq List!Row
<1>1. \A rows, p : List!Newest(rows, p) \subseteq rows
  BY DEF List!Newest
<1>2. Replies[q] = List!Answer(q)
  BY DEF Replies
<1>3. List!Matches(q) \subseteq table
  BY DEF List!Matches
<1>4. List!Answer(q) \subseteq table
  <2>1. List!Answer(q) = table \/ List!Answer(q) = {} \/ \E p : \/ List!Answer(q) = List!Newest(List!Matches(q), p)
                                                               \/ List!Answer(q) = List!Newest(table, p)
    BY PageChoices DEF List!Answer
  <2> QED BY <1>1, <1>3, <2>1
<1> QED BY <1>2, <1>4

LEMMA AnswerIsReply ==
  ASSUME NEW c \in Call, call[c].query \in List!Query
  PROVE  List!Answer(call[c].query) = Replies[call[c].query]
BY DEF Replies

-----------------------------------------------------------------------------
ListTyped == 
  /\ page \in List!Pages
  /\ born \in 0 .. MaxRows /\ table \subseteq 1 .. born
  /\ view \subseteq List!Row
  /\ query \in List!Query
  /\ reload \in BOOLEAN
  /\ call \in [Call -> CallState]
  /\ done \in 0 .. MaxLoads
  /\ sid \in 0 .. MaxRows /\ mine \in 0 .. MaxRows
  /\ kept \subseteq SUBSET List!Row /\ \A x, y \in kept : x = y
  /\ away \subseteq Call
  /\ old \subseteq Call \cup {"kept"}
  /\ doubt \in BOOLEAN

LEMMA ListTypes == (List!TypeOK <=> ListTyped) /\ (List!TypeOK' <=> ListTyped')
BY DEF List!TypeOK, ListTyped, CallState

LEMMA RowBounds ==
  ASSUME ListTyped
  PROVE  /\ table \subseteq List!Row /\ born \in Nat
         /\ born < MaxRows => /\ born + 1 \in 0 .. MaxRows /\ born + 1 \in List!Row
                              /\ born + 1 \notin table /\ table \subseteq 1 .. born + 1
                              /\ born + 1 \in 1 .. born + 1
BY HubBounds DEF ListTyped, List!Row

LEMMA StartsTyped ==
  ASSUME ListTyped, NEW c \in Call, NEW q \in CallState, List!Starts(c, q)
  PROVE  /\ call' \in [Call -> CallState] /\ done' \in 0 .. MaxLoads
         /\ call[c] = List!Idle /\ call'[c] = q
         /\ \A d \in Call \ {c} : call'[d] = call[d]
<1>1. done' \in 0 .. MaxLoads
  BY HubBounds DEF ListTyped, List!Starts
<1> QED BY <1>1, CallMoves DEF ListTyped, List!Starts

LEMMA StartTyped ==
  ASSUME ListTyped, NEW c \in Call,
         List!Reload(c) \/ List!Refill(c) \/ List!Create(c) \/ List!RevokeOthers(c) \/ \E r \in view : List!Delete(c, r)
  PROVE  ListTyped'
<1>1. ASSUME NEW q \in CallState, List!Starts(c, q), reload' \in BOOLEAN,
             UNCHANGED <<page, table, born, view, query, sid, mine, kept, away, old, doubt>>
      PROVE  ListTyped'
  BY <1>1, StartsTyped DEF ListTyped
<1>2. List!Reload(c) => ListTyped'
  BY <1>1, CallMade DEF List!Reload, ListTyped
<1>r. List!Refill(c) => ListTyped'
  BY <1>1, CallMade DEF List!Refill, ListTyped
<1>3. List!Create(c) => ListTyped'
  BY <1>1, CallMade DEF List!Create, ListTyped
<1>4. List!RevokeOthers(c) => ListTyped'
  BY <1>1, CallMade DEF List!RevokeOthers, ListTyped
<1>5. ASSUME NEW r \in view, List!Delete(c, r) PROVE ListTyped'
  BY <1>1, <1>5, CallMade DEF List!Delete, ListTyped
<1> QED BY <1>2, <1>r, <1>3, <1>4, <1>5

LEMMA ServerTyped ==
  ASSUME ListTyped, NEW c \in Call,
         List!AnswerLoad(c) \/ List!AnswerCreate(c) \/ List!AnswerDelete(c) \/ List!AnswerOthers(c) \/ List!CallFails(c)
  PROVE  ListTyped'
<1>0. call[c] \in CallState
  BY DEF ListTyped
<1>1. CASE List!AnswerLoad(c)
  <2>1. call[c].query \in List!Query /\ call[c].fills \in {"view", "kept", "both"}
    BY <1>0, <1>1, CallFields DEF List!AnswerLoad, List!Fills
  <2>2. List!Answer(call[c].query) \in SUBSET List!Row
    BY <2>1, AnswerIsReply, RepliesRows, RowBounds DEF ListTyped
  <2> DEFINE q == [op |-> "loaded", query |-> call[c].query, fills |-> call[c].fills,
                   rows |-> List!Answer(call[c].query)]
  <2>3. q \in CallState /\ List!Becomes(c, q)
    BY <1>1, <2>1, <2>2, CallMade DEF List!AnswerLoad
  <2> HIDE DEF q
  <2> QED BY <1>1, <2>3, CallMoves DEF List!AnswerLoad, ListTyped
<1>2. CASE List!AnswerCreate(c)
  <2> DEFINE q == [op |-> "created", before |-> call[c].before, row |-> born']
  <2>1. born' \in List!Row /\ call[c].before \in SUBSET List!Row /\ born' \in 0 .. MaxRows
        /\ table' \subseteq 1 .. born'
    BY <1>0, <1>2, CallFields, RowBounds DEF List!AnswerCreate
  <2>2. q \in CallState /\ List!Becomes(c, q)
    BY <1>2, <2>1, CallMade DEF List!AnswerCreate
  <2> HIDE DEF q
  <2> QED BY <1>2, <2>1, <2>2, CallMoves DEF List!AnswerCreate, List!Answered, ListTyped
<1>3. CASE List!AnswerDelete(c)
  BY <1>0, <1>3, CallFields, CallMoves DEF List!AnswerDelete, List!Answered, ListTyped
<1>4. CASE List!AnswerOthers(c)
  BY <1>4, CallMade, CallMoves DEF List!AnswerOthers, List!Answered, ListTyped
<1>5. CASE List!CallFails(c)
  <2>1. call' \in [Call -> CallState]
    BY <1>5, CallMade, CallMoves DEF List!CallFails, ListTyped
  <2>2. kept' \subseteq SUBSET List!Row /\ (\A x, y \in kept' : x = y) /\ old' \subseteq Call \cup {"kept"}
    BY <1>5 DEF List!CallFails, ListTyped
  <2> QED BY <1>5, <2>1, <2>2 DEF List!CallFails, ListTyped
<1> QED BY <1>1, <1>2, <1>3, <1>4, <1>5

\* What becomes of the calls when sessionsResource is dropped.
LEMMA DropMoves ==
  ASSUME ListTyped, NEW c \in Call, NEW q \in CallState, List!Drops(c, q)
  PROVE  /\ call' \in [Call -> CallState]
         /\ call'[c] = q
         /\ \A d \in Call \ {c} : call'[d] = IF d \in List!Lasting THEN List!Idle ELSE call[d]
         /\ kept' = {} /\ old' \subseteq old
BY CallMade DEF List!Drops, ListTyped

LEMMA PageTyped ==
  ASSUME ListTyped, NEW c \in Call,
         List!ShowLoaded(c) \/ List!ShowCreated(c) \/ List!ShowDeleted(c) \/ List!ShowOthersGone(c)
  PROVE  ListTyped'
<1>0. call[c] \in CallState
  BY DEF ListTyped
<1>1. CASE List!ShowLoaded(c)
  <2>1. call[c].rows \in SUBSET List!Row
    BY <1>0, <1>1, CallFields DEF List!ShowLoaded
  <2>2. call' \in [Call -> CallState]
    BY <1>1, CallMade, CallMoves DEF List!ShowLoaded, ListTyped
  <2>3. old' \subseteq Call \cup {"kept"}
    BY <1>1 DEF List!ShowLoaded, ListTyped
  <2>4. kept' \subseteq SUBSET List!Row /\ \A x, y \in kept' : x = y
    BY <1>1, <2>1 DEF List!ShowLoaded, ListTyped
  <2>5. view' \subseteq List!Row /\ doubt' \in BOOLEAN
    <3>1. CASE call[c].fills = "kept"
      BY <1>1, <3>1 DEF List!ShowLoaded, ListTyped
    <3>2. CASE call[c].fills # "kept"
      BY <1>1, <2>1, <3>2 DEF List!ShowLoaded
    <3> QED BY <3>1, <3>2
  <2> QED BY <1>1, <2>2, <2>3, <2>4, <2>5 DEF List!ShowLoaded, ListTyped
<1>2. CASE List!ShowCreated(c)
  <2>1. call[c].row \in List!Row /\ call[c].before \in SUBSET List!Row
    BY <1>0, <1>2, CallFields DEF List!ShowCreated
  <2>2. call' \in [Call -> CallState]
    BY <1>2, CallMade, CallMoves DEF List!ShowCreated, ListTyped
  <2>3. view' \subseteq List!Row
    BY <1>2, <2>1 DEF List!ShowCreated, ListTyped
  <2> QED BY <1>2, <2>2, <2>3 DEF List!ShowCreated, ListTyped
<1>3. CASE List!ShowDeleted(c)
  <2>1. call' \in [Call -> CallState] /\ kept' = {} /\ old' \subseteq old
    BY <1>3, CallMade, DropMoves DEF List!ShowDeleted
  <2>2. reload' \in BOOLEAN
    BY <1>3 DEF List!ShowDeleted
  <2> QED BY <1>3, <2>1, <2>2 DEF List!ShowDeleted, ListTyped
<1>4. CASE List!ShowOthersGone(c)
  <2> DEFINE q == IF page.others = "reload"
                  THEN [op |-> "load", query |-> query, fills |-> "view"] ELSE List!Idle
  <2>1. q \in CallState
    BY CallMade DEF ListTyped
  <2>2. List!Drops(c, List!Idle) \/ List!Drops(c, q)
    BY <1>4 DEF List!ShowOthersGone
  <2>3. call' \in [Call -> CallState] /\ kept' = {} /\ old' \subseteq old
    BY <2>1, <2>2, CallMade, DropMoves
  <2>4. reload' \in BOOLEAN /\ doubt' \in BOOLEAN /\ view' \subseteq List!Row
    BY <1>4 DEF List!ShowOthersGone, ListTyped
  <2> QED BY <1>4, <2>3, <2>4 DEF List!ShowOthersGone, ListTyped
<1> QED BY <1>1, <1>2, <1>3, <1>4

\* The calls of a Dashboard whose account has changed, and those of a page that opens.
LEMMA OtherMoves ==
  ASSUME ListTyped
  PROVE  \A c \in Call : LET q == List!OtherAccount(c) IN
           /\ q \in CallState
           /\ c \in List!Loads => /\ q.op = "loaded" /\ q.query = call[c].query
                                 /\ q.fills = call[c].fills
           /\ c \notin List!Loads => q.op \notin {"load", "loaded"}
           /\ q.op \in {"create", "created"} => call[c].op \in {"create", "created"}
           /\ q.op \in {"delete", "deleted"} => call[c].op \in {"delete", "deleted"}
           /\ q.op \in {"others", "othersGone"} => call[c].op \in {"others", "othersGone"}
           /\ call[c] = List!Idle => q = List!Idle
<1> TAKE c \in Call
<1>0. call[c] \in CallState /\ table \in SUBSET List!Row
  BY RowBounds DEF ListTyped
<1>1. CASE call[c].op = "load"
  <2> DEFINE q == [op |-> "loaded", query |-> call[c].query, fills |-> call[c].fills, rows |-> table]
  <2>1. call[c].query \in List!Query /\ call[c].fills \in {"view", "kept", "both"}
    BY <1>0, <1>1, CallFields DEF List!Fills
  <2>2. q \in CallState
    BY <1>0, <2>1, CallMade
  <2>3. List!OtherAccount(c) = q /\ q.op = "loaded" /\ q.query = call[c].query /\ q.fills = call[c].fills
    BY <1>1 DEF List!OtherAccount
  <2>4. call[c] # List!Idle /\ c \in List!Loads
    BY <1>1, CallMade DEF List!Loads
  <2> HIDE DEF q
  <2> QED BY <2>2, <2>3, <2>4
<1>2. CASE call[c].op = "delete"
  <2>1. List!OtherAccount(c) = [call[c] EXCEPT !.op = "deleted"]
    BY <1>2 DEF List!OtherAccount
  <2>2. [call[c] EXCEPT !.op = "deleted"] \in CallState /\ [call[c] EXCEPT !.op = "deleted"].op = "deleted"
    BY <1>0, <1>2 DEF CallState, List!Idle, List!Asked, List!Load, List!Made, List!Shown, List!Gone,
                      List!Rest
  <2> QED BY <1>2, <2>1, <2>2, CallMade DEF List!Loads
<1>3. CASE call[c].op = "others"
  <2>1. List!OtherAccount(c) = [op |-> "othersGone"] /\ [op |-> "othersGone"].op = "othersGone"
    BY <1>3 DEF List!OtherAccount
  <2> QED BY <1>3, <2>1, CallMade DEF List!Loads
<1>4. CASE call[c].op \notin {"load", "delete", "others"}
  <2>1. List!OtherAccount(c) = call[c]
    BY <1>4 DEF List!OtherAccount
  <2> QED BY <1>0, <1>4, <2>1 DEF List!Loads
<1> QED BY <1>1, <1>2, <1>3, <1>4

LEMMA OpenMoves ==
  ASSUME ListTyped, NEW left, List!Opens(left),
         \A c \in Call : /\ left[c] \in CallState
                         /\ c \in List!Loads => left[c].op \in {"load", "loaded"}
                         /\ c \notin List!Loads => left[c].op \notin {"load", "loaded"}
                         /\ call[c] = List!Idle => left[c] = List!Idle
  PROVE  /\ call' \in [Call -> CallState] /\ away' \subseteq Call
         /\ \A c \in List!Lasting :
              /\ call'[c].op = left[c].op /\ call'[c].op \in {"load", "loaded"}
              /\ call'[c].fills = "both"
              /\ call'[c].query = left[c].query
              /\ call'[c].op = "loaded" => call'[c].rows = left[c].rows
         /\ \A c \in List!Loads \ List!Lasting : call'[c] = List!Idle
         /\ \A c \in Call \ List!Loads : call'[c] = left[c]
         /\ \A c \in Call \ away' : call'[c].op \in {"load", "loaded", "idle"}
<1>1. List!Lasting \subseteq List!Loads /\ List!Loads \subseteq Call
  BY DEF List!Lasting, List!Loads
<1>2. ASSUME NEW c \in List!Lasting
      PROVE  /\ [left[c] EXCEPT !.fills = "both"] \in CallState
             /\ [left[c] EXCEPT !.fills = "both"].op = left[c].op
             /\ [left[c] EXCEPT !.fills = "both"].fills = "both"
             /\ [left[c] EXCEPT !.fills = "both"].query = left[c].query
             /\ left[c].op = "loaded" => [left[c] EXCEPT !.fills = "both"].rows = left[c].rows
  <2>1. left[c] \in CallState /\ left[c].op \in {"load", "loaded"}
    BY <1>1
  <2> QED BY <2>1, CallFields
<1>3. \A c \in Call : call'[c] = CASE c \in List!Lasting -> [left[c] EXCEPT !.fills = "both"]
                                    [] c \in List!Loads \ List!Lasting -> List!Idle
                                    [] OTHER -> left[c]
  BY DEF List!Opens
<1>4. \A c \in List!Lasting : call'[c] = [left[c] EXCEPT !.fills = "both"]
  BY <1>1, <1>3
<1>5. \A c \in List!Loads \ List!Lasting : call'[c] = List!Idle
  BY <1>1, <1>3
<1>6. \A c \in Call \ List!Loads : call'[c] = left[c]
  BY <1>1, <1>3
<1>7. ASSUME NEW c \in Call PROVE call'[c] \in CallState
  <2>1. CASE c \in List!Lasting
    BY <1>2, <1>4, <2>1
  <2>2. CASE c \in List!Loads \ List!Lasting
    BY <1>5, <2>2, CallMade
  <2>3. CASE c \notin List!Loads
    BY <1>6, <2>3
  <2> QED BY <2>1, <2>2, <2>3
<1>8. call' \in [Call -> CallState] /\ away' \subseteq Call
  BY <1>7 DEF List!Opens
<1>9. ASSUME NEW c \in List!Lasting PROVE
        /\ call'[c].op = left[c].op /\ call'[c].op \in {"load", "loaded"}
        /\ call'[c].fills = "both"
        /\ call'[c].query = left[c].query
        /\ call'[c].op = "loaded" => call'[c].rows = left[c].rows
  <2>1. left[c].op \in {"load", "loaded"}
    BY <1>1
  <2>2. call'[c] = [left[c] EXCEPT !.fills = "both"]
    BY <1>4
  <2> QED BY <1>2, <2>1, <2>2
<1>10. ASSUME NEW c \in Call \ away' PROVE call'[c].op \in {"load", "loaded", "idle"}
  <2>1. CASE c \in List!Lasting
    BY <1>9, <2>1
  <2>2. CASE c \in List!Loads \ List!Lasting
    BY <1>5, <2>2, CallMade
  <2>3. CASE c \notin List!Loads
    <3>1. call[c] = List!Idle
      BY <2>3 DEF List!Opens
    <3>2. call'[c] = List!Idle
      BY <1>6, <2>3, <3>1
    <3> QED BY <3>2, CallMade
  <2> QED BY <2>1, <2>2, <2>3
<1> QED BY <1>5, <1>6, <1>8, <1>9, <1>10

LEMMA ElseTyped ==
  ASSUME ListTyped,
         \/ \E q \in List!Query : List!Type(q)
         \/ List!ElseCreated \/ List!Rotated \/ List!Reopen \/ List!SwitchAccount
         \/ \E r \in table : List!ElseDeleted(r)
  PROVE  ListTyped'
<1>1. ASSUME NEW q \in List!Query, List!Type(q) PROVE ListTyped'
  BY <1>1 DEF List!Type, ListTyped
<1>2. CASE List!ElseCreated
  BY <1>2, RowBounds DEF List!ElseCreated, List!Answered, ListTyped
<1>3. CASE List!Rotated
  <2>1. born' \in 0 .. MaxRows /\ mine' \in 0 .. MaxRows /\ table' \subseteq 1 .. born'
    BY <1>3, RowBounds DEF List!Rotated
  <2> QED BY <1>3, <2>1 DEF List!Rotated, List!Answered, ListTyped
<1>4. CASE List!Reopen
  <2>1. call' \in [Call -> CallState] /\ away' \subseteq Call
    BY <1>4, OpenMoves DEF List!Reopen, List!Loads, ListTyped
  <2>2. query' \in List!Query /\ view' \subseteq List!Row /\ reload' \in BOOLEAN
    BY <1>4 DEF List!Reopen, List!Opens, List!Plain, List!Query, ListTyped
  <2> QED BY <1>4, <2>1, <2>2 DEF List!Reopen, ListTyped
<1>6. CASE List!SwitchAccount
  <2>1. call' \in [Call -> CallState] /\ away' \subseteq Call
    BY <1>6, OtherMoves, OpenMoves DEF List!SwitchAccount
  <2>2. query' \in List!Query /\ view' \subseteq List!Row /\ reload' \in BOOLEAN
    BY <1>6 DEF List!SwitchAccount, List!Opens, List!Plain, List!Query, ListTyped
  <2>3. born' \in 0 .. MaxRows /\ table' \subseteq 1 .. born' /\ mine' = born' /\ sid' = born'
    BY <1>6, RowBounds DEF List!SwitchAccount
  <2>4. old' \subseteq Call \cup {"kept"} /\ doubt' \in BOOLEAN
    BY <1>6 DEF List!SwitchAccount, List!Lasting, List!Loads
  <2> QED BY <1>6, <2>1, <2>2, <2>3, <2>4 DEF List!SwitchAccount, ListTyped
<1>5. ASSUME NEW r \in table, List!ElseDeleted(r) PROVE ListTyped'
  BY <1>5 DEF List!ElseDeleted, List!Answered, ListTyped
<1> QED BY <1>1, <1>2, <1>3, <1>4, <1>5, <1>6

LEMMA ListTypeStep == ASSUME ListTyped, [List!Next]_(List!vars) PROVE ListTyped'
<1>1. CASE UNCHANGED List!vars
  BY <1>1 DEF List!vars, ListTyped
<1> QED BY <1>1, StartTyped, ServerTyped, PageTyped, ElseTyped DEF List!Next

LEMMA ListTypeInit == ASSUME List!Init PROVE ListTyped
<1>1. born \in 0 .. MaxRows /\ table \subseteq 1 .. born /\ done \in 0 .. MaxLoads
  BY HubBounds DEF List!Init
<1>2. sid \in 0 .. MaxRows /\ mine \in 0 .. MaxRows
  BY HubBounds DEF List!Init
<1>3. query \in List!Query
  BY DEF List!Init, List!Plain, List!Query
<1>4. reload \in BOOLEAN /\ doubt \in BOOLEAN
  BY DEF List!Init
<1> QED BY <1>1, <1>2, <1>3, <1>4, CallMade DEF List!Init, ListTyped

-----------------------------------------------------------------------------
\* A call or an answer that is not old was asked for the query there is, and an
\* answer is what the server would say now.
AnswersTrue ==
  \A c \in Call \ old :
    /\ call[c].op \in {"load", "loaded"} => call[c].query = query
    /\ call[c].op = "loaded" => call[c].rows = Replies[query]

KeptTrue ==
  /\ kept # {} => page = List!Dashboard
  /\ "kept" \notin old => \A rows \in kept : rows = table

\* The number of a deleted row is not used again.
DeletedGone ==
  \A c \in Call \ away : call[c].op = "deleted" => call[c].row \in (1 .. born) \ table

\* A page makes the calls it offers.
CallsFit ==
  /\ \A c \in Call : /\ call[c].op \in {"create", "created"} => page.create # "none"
                     /\ call[c].op \in {"delete", "deleted"} => page.delete # "none"
                     /\ call[c].op \in {"others", "othersGone"} => page.others # "none"
                     /\ c \in List!Lasting => page = List!Dashboard
  /\ ~page.search => query = List!Plain

\* Rows the server has created or deleted and the page has not heard of.
RowsIn(op) == {r \in List!Row : \E c \in Call \ away : call[c].op = op /\ call[c].row = r}
Unheard  == RowsIn("created")
Deleted  == RowsIn("deleted")
Loading  == \E c \in List!Loads : call[c].fills # "kept"
OnlyMine == \E c \in Call \ away : call[c].op = "othersGone"

\* A view that no load is to replace differs from the table by those at most.
ViewFollows ==
  ~doubt /\ ~reload /\ ~Loading =>
    /\ page.limited => view \subseteq {r \in table : query.search => r % 2 = 0} \cup Deleted
    /\ ~page.limited => /\ table \ Unheard \subseteq view
                        /\ ~OnlyMine => view \subseteq table \cup Deleted

ListInv == ListTyped /\ AnswersTrue /\ KeptTrue /\ DeletedGone /\ CallsFit /\ ViewFollows

LEMMA ListInit == ASSUME List!Init PROVE ListInv
<1>1. \A c \in Call : call[c].op = "idle"
  BY CallMade DEF List!Init
<1>2. query = List!Plain
  BY DEF List!Init
<1>3. kept = {} /\ view = {}
  BY DEF List!Init
<1>4. ~reload => page = List!CommandMenu
  BY DEF List!Init
<1>5. ViewFollows
  BY <1>3, <1>4, ListTypeInit, PageChoices DEF ListTyped, ViewFollows
<1> QED BY <1>1, <1>2, <1>3, <1>5, ListTypeInit DEF ListInv, AnswersTrue, KeptTrue, DeletedGone,
                                                    CallsFit, List!Lasting, List!Loads

\* What the calls other than c have to do with the table and with the history.
LEMMA OthersKeep ==
  ASSUME ListInv, NEW c \in Call,
         \A d \in Call \ {c} : call'[d] = call[d] \/ call'[d] = List!Idle,
         UNCHANGED <<page, query, table>>, born' = born, away \ {c} \subseteq away',
         \A d \in (Call \ {c}) \ old' : d \notin old \/ call'[d] = List!Idle,
         c \notin old' => /\ call'[c].op \in {"load", "loaded"} => call'[c].query = query
                          /\ call'[c].op = "loaded" => call'[c].rows = Replies[query],
         c \notin away' /\ call'[c].op = "deleted" =>
           c \notin away /\ call[c].op = "deleted" /\ call'[c].row = call[c].row,
         call'[c].op \in {"create", "created"} => page.create # "none",
         call'[c].op \in {"delete", "deleted"} => page.delete # "none",
         call'[c].op \in {"others", "othersGone"} => page.others # "none",
         call'[c].op \in {"load", "loaded"} /\ call'[c].fills # "view" => page = List!Dashboard
  PROVE  AnswersTrue' /\ DeletedGone' /\ CallsFit'
<1>1. Replies' = Replies
  BY RepliesSame
<1>2. \A d \in Call \ {c} : call'[d] = call[d] \/ call'[d].op = "idle"
  BY CallMade
<1>3. AnswersTrue'
  <2> SUFFICES ASSUME NEW d \in Call, d \notin old'
               PROVE  /\ call'[d].op \in {"load", "loaded"} => call'[d].query = query'
                      /\ call'[d].op = "loaded" => call'[d].rows = Replies'[query']
    BY DEF AnswersTrue
  <2>1. CASE d = c
    BY <1>1, <2>1
  <2>2. CASE d # c /\ call'[d].op = "idle"
    BY <2>2
  <2>3. CASE d # c /\ call'[d] = call[d] /\ d \notin old
    BY <1>1, <2>3 DEF ListInv, AnswersTrue
  <2> QED BY <1>2, <2>1, <2>2, <2>3, CallMade
<1>4. DeletedGone'
  <2> SUFFICES ASSUME NEW d \in Call, d \notin away', call'[d].op = "deleted"
               PROVE  call'[d].row \in (1 .. born) \ table
    BY DEF DeletedGone
  <2>1. d \notin away /\ call[d].op = "deleted" /\ call'[d].row = call[d].row
    BY <1>2
  <2> QED BY <2>1 DEF ListInv, DeletedGone
<1>5. CallsFit'
  <2>1. \A d \in Call : d \in List!Lasting' => page = List!Dashboard
    BY <1>2 DEF ListInv, CallsFit, List!Lasting, List!Loads
  <2> QED BY <1>2, <2>1 DEF ListInv, CallsFit
<1> QED BY <1>3, <1>4, <1>5

LEMMA StartFollows ==
  ASSUME ListInv, NEW c \in Call,
         List!Reload(c) \/ List!Refill(c) \/ List!Create(c) \/ List!RevokeOthers(c) \/ \E r \in view : List!Delete(c, r)
  PROVE  ListInv'
<1>0. ListTyped' /\ ListTyped
  BY StartTyped DEF ListInv
<1>1. CASE List!Reload(c)
  <2> DEFINE fills == IF page = List!Dashboard THEN "both" ELSE "view"
             q == [op |-> "load", query |-> query, fills |-> fills]
  <2>1. q \in CallState /\ List!Starts(c, q)
    BY <1>0, <1>1, CallMade DEF List!Reload, ListTyped
  <2>2. call'[c] = q /\ \A d \in Call \ {c} : call'[d] = call[d]
    BY <1>0, <2>1, StartsTyped
  <2>3. AnswersTrue' /\ DeletedGone' /\ CallsFit'
    BY <1>1, <2>2, OthersKeep DEF List!Reload
  <2>4. KeptTrue'
    BY <1>1 DEF List!Reload, ListInv, KeptTrue
  <2>5. Loading'
    BY <2>2 DEF Loading, List!Loads
  <2> QED BY <1>0, <2>3, <2>4, <2>5 DEF ListInv, ViewFollows
<1>r. CASE List!Refill(c)
  <2> DEFINE q == [op |-> "load", query |-> query, fills |-> "kept"]
  <2>1. q \in CallState /\ List!Starts(c, q)
    BY <1>0, <1>r, CallMade DEF List!Refill, ListTyped
  <2>2. call'[c] = q /\ call[c].op = "idle" /\ \A d \in Call \ {c} : call'[d] = call[d]
    BY <1>0, <2>1, StartsTyped, CallMade
  <2>3. AnswersTrue' /\ DeletedGone' /\ CallsFit'
    BY <1>r, <2>2, OthersKeep DEF List!Refill
  <2>4. KeptTrue'
    BY <1>r DEF List!Refill, ListInv, KeptTrue
  <2>5. Unheard' = Unheard /\ Deleted' = Deleted /\ Loading' = Loading /\ OnlyMine' = OnlyMine
    BY <1>r, <2>2 DEF List!Refill, Unheard, Deleted, RowsIn, Loading, OnlyMine, List!Loads
  <2>6. ViewFollows'
    BY <1>r, <2>5 DEF List!Refill, ListInv, ViewFollows
  <2> QED BY <1>0, <2>3, <2>4, <2>6 DEF ListInv
<1>2. ASSUME NEW q \in CallState, List!Starts(c, q), q.op \in {"create", "delete", "others"},
             q.op = "create" => page.create # "none",
             q.op = "delete" => page.delete # "none",
             q.op = "others" => page.others # "none",
             UNCHANGED <<page, table, born, view, query, reload, sid, mine, kept, away, old,
                         doubt>>
      PROVE  ListInv'
  <2>1. call'[c] = q /\ call[c].op = "idle" /\ \A d \in Call \ {c} : call'[d] = call[d]
    BY <1>0, <1>2, StartsTyped, CallMade
  <2>2. AnswersTrue' /\ DeletedGone' /\ CallsFit'
    BY <1>2, <2>1, OthersKeep
  <2>3. KeptTrue'
    BY <1>2 DEF ListInv, KeptTrue
  <2>4. Unheard' = Unheard /\ Deleted' = Deleted /\ Loading' = Loading /\ OnlyMine' = OnlyMine
    BY <1>2, <2>1 DEF Unheard, Deleted, RowsIn, Loading, OnlyMine, List!Loads
  <2>5. ViewFollows'
    BY <1>2, <2>4 DEF ListInv, ViewFollows
  <2> QED BY <1>0, <2>2, <2>3, <2>5 DEF ListInv
<1>3. List!Create(c) => ListInv'
  BY <1>0, <1>2, CallMade DEF List!Create, ListTyped
<1>4. List!RevokeOthers(c) => ListInv'
  BY <1>2, CallMade DEF List!RevokeOthers
<1>5. ASSUME NEW r \in view, List!Delete(c, r) PROVE ListInv'
  BY <1>0, <1>2, <1>5, CallMade DEF List!Delete, ListTyped
<1> QED BY <1>1, <1>r, <1>3, <1>4, <1>5

\* A change of the table makes every answer old.
LEMMA TableChanges ==
  ASSUME ListInv, UNCHANGED <<page, query, kept>>, old' = old \cup List!Answered,
         \A c \in Call : call'[c].op \in {"load", "loaded"} => call'[c] = call[c]
  PROVE  AnswersTrue' /\ KeptTrue'
<1>1. AnswersTrue'
  BY DEF List!Answered, ListInv, AnswersTrue
<1>2. KeptTrue'
  BY DEF List!Answered, ListInv, KeptTrue
<1> QED BY <1>1, <1>2

LEMMA ServerFollows ==
  ASSUME ListInv, NEW c \in Call,
         List!AnswerLoad(c) \/ List!AnswerCreate(c) \/ List!AnswerDelete(c) \/ List!AnswerOthers(c) \/ List!CallFails(c)
  PROVE  ListInv'
<1>0. ListTyped' /\ ListTyped /\ call[c] \in CallState
  BY ServerTyped DEF ListInv, ListTyped
<1>a. ASSUME NEW q \in CallState, List!Becomes(c, q)
      PROVE  call'[c] = q /\ \A d \in Call \ {c} : call'[d] = call[d]
  BY <1>0, <1>a, CallMoves DEF ListTyped
<1>1. CASE List!AnswerLoad(c)
  <2> DEFINE q == [op |-> "loaded", query |-> call[c].query, fills |-> call[c].fills,
                   rows |-> List!Answer(call[c].query)]
  <2>1. call[c].query \in List!Query /\ call[c].fills \in {"view", "kept", "both"}
    BY <1>0, <1>1, CallFields DEF List!AnswerLoad, List!Fills
  <2>2. List!Answer(call[c].query) = Replies[call[c].query] /\ List!Answer(call[c].query) \in SUBSET List!Row
    BY <1>0, <2>1, AnswerIsReply, RepliesRows, RowBounds DEF ListTyped
  <2>3. q \in CallState /\ List!Becomes(c, q)
    BY <1>1, <2>1, <2>2, CallMade DEF List!AnswerLoad
  <2>4. /\ q.op = "loaded" /\ q.query = call[c].query /\ q.rows = Replies[call[c].query]
        /\ q.fills = call[c].fills /\ call[c].op = "load"
    BY <1>1, <2>2 DEF List!AnswerLoad
  <2> HIDE DEF q
  <2>5. call'[c] = q /\ \A d \in Call \ {c} : call'[d] = call[d]
    BY <1>a, <2>3
  <2>6. c \notin old => call[c].query = query
    BY <1>1 DEF List!AnswerLoad, ListInv, AnswersTrue
  <2>k. call[c].fills # "view" => page = List!Dashboard
    BY <2>4 DEF ListInv, CallsFit, List!Lasting, List!Loads
  <2>7. AnswersTrue' /\ DeletedGone' /\ CallsFit'
    BY <1>1, <2>4, <2>5, <2>6, <2>k, OthersKeep DEF List!AnswerLoad
  <2>8. Unheard' = Unheard /\ Deleted' = Deleted /\ Loading' = Loading /\ OnlyMine' = OnlyMine
    BY <1>1, <2>4, <2>5 DEF List!AnswerLoad, Unheard, Deleted, RowsIn, Loading, OnlyMine, List!Loads
  <2>9. KeptTrue'
    BY <1>1 DEF List!AnswerLoad, ListInv, KeptTrue
  <2>10. ViewFollows'
    BY <1>1, <2>8 DEF List!AnswerLoad, ListInv, ViewFollows
  <2> QED BY <1>0, <2>7, <2>9, <2>10 DEF ListInv
<1>2. CASE List!AnswerCreate(c)
  <2> DEFINE q == [op |-> "created", before |-> call[c].before, row |-> born']
  <2>1. /\ born' = born + 1 /\ born' \in List!Row /\ call[c].before \in SUBSET List!Row /\ born \in Nat
        /\ table' = table \cup {born'}
    BY <1>0, <1>2, CallFields, RowBounds DEF List!AnswerCreate
  <2>2. q \in CallState /\ List!Becomes(c, q)
    BY <1>2, <2>1, CallMade DEF List!AnswerCreate
  <2>3. q.op = "created" /\ q.row = born'
    OBVIOUS
  <2> HIDE DEF q
  <2>4. call'[c] = q /\ \A d \in Call \ {c} : call'[d] = call[d]
    BY <1>a, <2>2
  <2>5. AnswersTrue' /\ KeptTrue'
    BY <1>2, <2>3, <2>4, TableChanges DEF List!AnswerCreate
  <2>6. DeletedGone'
    BY <1>2, <2>1, <2>3, <2>4 DEF List!AnswerCreate, ListInv, DeletedGone
  <2>7. page.create # "none" /\ CallsFit'
    BY <1>2, <2>3, <2>4 DEF List!AnswerCreate, ListInv, CallsFit, List!Lasting,
                                   List!Loads
  <2>8. c \notin away => Unheard' = Unheard \cup {born'}
    BY <1>2, <2>1, <2>3, <2>4 DEF List!AnswerCreate, Unheard, RowsIn
  <2>9. Deleted' = Deleted /\ Loading' = Loading /\ OnlyMine' = OnlyMine
    BY <1>2, <2>3, <2>4 DEF List!AnswerCreate, Deleted, RowsIn, Loading, OnlyMine, List!Loads
  <2>10. ~page.limited
    BY <1>0, <2>7, PageChoices DEF ListTyped
  <2>11. ViewFollows'
    BY <1>2, <2>1, <2>8, <2>9, <2>10 DEF List!AnswerCreate, ListInv, ViewFollows
  <2> QED BY <1>0, <2>5, <2>6, <2>7, <2>11 DEF ListInv
<1>3. CASE List!AnswerDelete(c)
  <2> DEFINE q == [call[c] EXCEPT !.op = "deleted"]
             r == call[c].row
  <2>1. q \in CallState /\ r \in List!Row /\ List!Becomes(c, q) /\ q.op = "deleted" /\ q.row = r
    BY <1>0, <1>3, CallFields DEF List!AnswerDelete, CallState, List!Idle, List!Asked, List!Load,
                                  List!Made, List!Shown, List!Gone, List!Rest
  <2> HIDE DEF q
  <2>2. call'[c] = q /\ \A d \in Call \ {c} : call'[d] = call[d]
    BY <1>a, <2>1
  <2>3. AnswersTrue' /\ KeptTrue'
    BY <1>3, <2>1, <2>2, TableChanges DEF List!AnswerDelete
  <2>4. DeletedGone'
    BY <1>0, <1>3, <2>1, <2>2 DEF List!AnswerDelete, ListInv, DeletedGone, ListTyped
  <2>5. CallsFit'
    BY <1>3, <2>1, <2>2 DEF List!AnswerDelete, ListInv, CallsFit, List!Lasting,
                                   List!Loads
  <2>6. c \notin away => Deleted' = Deleted \cup {r}
    BY <1>3, <2>1, <2>2 DEF List!AnswerDelete, Deleted, RowsIn
  <2>7. Unheard' = Unheard /\ Loading' = Loading /\ OnlyMine' = OnlyMine
    BY <1>3, <2>1, <2>2 DEF List!AnswerDelete, Unheard, RowsIn, Loading, OnlyMine, List!Loads
  <2>8. ViewFollows'
    BY <1>3, <2>6, <2>7 DEF List!AnswerDelete, ListInv, ViewFollows
  <2> QED BY <1>0, <2>3, <2>4, <2>5, <2>8 DEF ListInv
<1>4. CASE List!AnswerOthers(c)
  <2> DEFINE q == [op |-> "othersGone"]
  <2>1. q \in CallState /\ List!Becomes(c, q) /\ q.op = "othersGone"
    BY <1>4, CallMade DEF List!AnswerOthers
  <2> HIDE DEF q
  <2>2. call'[c] = q /\ \A d \in Call \ {c} : call'[d] = call[d]
    BY <1>a, <2>1
  <2>3. AnswersTrue' /\ KeptTrue'
    BY <1>4, <2>1, <2>2, TableChanges DEF List!AnswerOthers
  <2>4. DeletedGone'
    BY <1>4, <2>1, <2>2 DEF List!AnswerOthers, ListInv, DeletedGone
  <2>5. page.others # "none" /\ CallsFit'
    BY <1>4, <2>1, <2>2 DEF List!AnswerOthers, ListInv, CallsFit, List!Lasting,
                                   List!Loads
  <2>6. Unheard' = Unheard /\ Loading' = Loading /\ (c \notin away => OnlyMine')
    BY <1>4, <2>1, <2>2 DEF List!AnswerOthers, Unheard, RowsIn, Loading, OnlyMine, List!Loads
  <2>7. ~page.limited
    BY <1>0, <2>5, PageChoices DEF ListTyped
  <2>8. ViewFollows'
    BY <1>4, <2>6, <2>7 DEF List!AnswerOthers, ListInv, ViewFollows
  <2> QED BY <1>0, <2>3, <2>4, <2>5, <2>8 DEF ListInv
<1>5. CASE List!CallFails(c)
  <2>1. call'[c].op = "idle" /\ \A d \in Call \ {c} : call'[d] = call[d]
    BY <1>5, <1>a, CallMade DEF List!CallFails
  <2>2. old \ {c} \subseteq old' /\ away' = away \ {c}
    BY <1>5 DEF List!CallFails
  <2>3. AnswersTrue' /\ DeletedGone' /\ CallsFit'
    BY <1>5, <2>1, <2>2, OthersKeep DEF List!CallFails
  <2>4. KeptTrue'
    <3>1. CASE c \in List!Lasting
      BY <1>5, <3>1 DEF List!CallFails, ListInv, KeptTrue, CallsFit
    <3>2. CASE c \notin List!Lasting
      BY <1>5, <3>2, HubBounds DEF List!CallFails, ListInv, KeptTrue
    <3> QED BY <3>1, <3>2
  <2>5. /\ UNCHANGED <<page, table, view, query, reload>>
        /\ ~doubt' => /\ ~doubt
                      /\ c \in List!Loads => call[c].fills = "kept"
                      /\ c \notin List!Loads /\ c \notin away => call[c].op \in {"create", "others"}
    BY <1>5 DEF List!CallFails
  <2>6. ASSUME ~doubt' PROVE Unheard' = Unheard /\ Deleted' = Deleted /\ OnlyMine' = OnlyMine
    <3>1. c \in away \/ call[c].op \notin {"created", "deleted", "othersGone"}
      BY <2>5, <2>6 DEF List!Loads
    <3> QED BY <2>1, <2>2, <3>1 DEF Unheard, Deleted, RowsIn, OnlyMine
  <2>7. ~doubt' => Loading' = Loading
    BY <2>1, <2>5 DEF Loading, List!Loads
  <2>8. ViewFollows'
    BY <2>5, <2>6, <2>7 DEF ListInv, ViewFollows
  <2> QED BY <1>0, <2>3, <2>4, <2>8 DEF ListInv
<1> QED BY <1>1, <1>2, <1>3, <1>4, <1>5

LEMMA PageFollows ==
  ASSUME ListInv, NEW c \in Call,
         List!ShowLoaded(c) \/ List!ShowCreated(c) \/ List!ShowDeleted(c) \/ List!ShowOthersGone(c)
  PROVE  ListInv'
<1>0. /\ ListTyped' /\ ListTyped /\ call[c] \in CallState /\ page \in List!Pages /\ query \in List!Query
      /\ table \subseteq List!Row
  BY PageTyped, RowBounds DEF ListInv, ListTyped
<1>a. ASSUME NEW q \in CallState, List!Becomes(c, q)
      PROVE  call'[c] = q /\ \A d \in Call \ {c} : call'[d] = call[d]
  BY <1>0, <1>a, CallMoves DEF ListTyped
<1>1. CASE List!ShowLoaded(c)
  <2>1. call'[c].op = "idle" /\ \A d \in Call \ {c} : call'[d] = call[d]
    BY <1>1, <1>a, CallMade DEF List!ShowLoaded
  <2>2. old \ {c, "kept"} \subseteq old' /\ away' = away
    BY <1>1 DEF List!ShowLoaded
  <2>3. AnswersTrue' /\ DeletedGone' /\ CallsFit'
    BY <1>1, <2>1, <2>2, HubBounds, OthersKeep DEF List!ShowLoaded
  <2>4. c \notin old => call[c].rows = Replies[query]
    BY <1>1 DEF List!ShowLoaded, ListInv, AnswersTrue
  <2>5. KeptTrue'
    <3>1. CASE c \in List!Lasting
      <4>1. "kept" \notin old' => c \notin old
        BY <1>1, <3>1 DEF List!ShowLoaded
      <4>2. kept' = {call[c].rows} /\ table' = table /\ page' = page /\ page = List!Dashboard
        BY <1>1, <3>1 DEF List!ShowLoaded, ListInv, CallsFit
      <4>3. ~page.limited
        BY <1>0, <4>2, PageChoices
      <4>4. Replies[query] = table
        BY <1>0, <4>3, RepliesTable
      <4> QED BY <2>4, <4>1, <4>2, <4>4 DEF KeptTrue
    <3>2. CASE c \notin List!Lasting
      <4>1. kept' = kept /\ old' = old \ {c} /\ table' = table /\ page' = page
        BY <1>1, <3>2 DEF List!ShowLoaded
      <4> QED BY <4>1, HubBounds DEF ListInv, KeptTrue
    <3> QED BY <3>1, <3>2
  <2>6. ASSUME ~doubt', call[c].fills # "kept" PROVE ViewFollows'
    <3>1. view' = Replies[query] /\ UNCHANGED <<page, table, query>>
      BY <1>1, <2>4, <2>6 DEF List!ShowLoaded
    <3>2. page.limited => Replies[query] \subseteq {r \in table : query.search => r % 2 = 0}
      BY <1>0, RepliesMatch DEF ListInv, CallsFit, List!Plain
    <3>3. ~page.limited => Replies[query] = table
      BY <1>0, RepliesTable
    <3> QED BY <3>1, <3>2, <3>3 DEF ViewFollows
  <2>7. ASSUME call[c].fills = "kept" PROVE ViewFollows'
    <3>1. UNCHANGED <<page, table, query, view, doubt, reload>> /\ call[c].op = "loaded"
      BY <1>1, <2>7 DEF List!ShowLoaded
    <3>2. Unheard' = Unheard /\ Deleted' = Deleted /\ Loading' = Loading /\ OnlyMine' = OnlyMine
      BY <2>1, <2>2, <2>7, <3>1 DEF Unheard, Deleted, RowsIn, Loading, OnlyMine, List!Loads
    <3> QED BY <3>1, <3>2 DEF ListInv, ViewFollows
  <2>8. ViewFollows'
    BY <2>6, <2>7 DEF ViewFollows
  <2> QED BY <1>0, <2>3, <2>5, <2>8 DEF ListInv
<1>2. CASE List!ShowCreated(c)
  <2>1. call'[c].op = "idle" /\ \A d \in Call \ {c} : call'[d] = call[d]
    BY <1>2, <1>a, CallMade DEF List!ShowCreated
  <2>2. AnswersTrue' /\ DeletedGone' /\ CallsFit'
    BY <1>2, <2>1, HubBounds, OthersKeep DEF List!ShowCreated
  <2>3. KeptTrue'
    BY <1>2, HubBounds DEF List!ShowCreated, ListInv, KeptTrue
  <2>4. /\ call[c].op = "created" /\ page.create \in {"append", "prepend", "reload"}
        /\ ~page.limited
    BY <1>0, <1>2, PageChoices DEF List!ShowCreated, ListInv, CallsFit
  <2>a. away' = away \ {c}
    BY <1>2 DEF List!ShowCreated
  <2>5. Unheard \subseteq Unheard' \cup {call[c].row}
    BY <2>1, <2>a DEF Unheard, RowsIn
  <2>6. Deleted' = Deleted /\ Loading' = Loading /\ OnlyMine' = OnlyMine
    BY <2>1, <2>4, <2>a DEF Deleted, RowsIn, Loading, OnlyMine, List!Loads
  <2>b. ASSUME c \in away PROVE ViewFollows'
    <3>1. Unheard' = Unheard
      BY <2>1, <2>a, <2>b DEF Unheard, RowsIn
    <3> QED BY <1>2, <2>6, <2>b, <3>1 DEF List!ShowCreated, ListInv, ViewFollows
  <2>7. ASSUME c \notin away, ~doubt', ~reload'
        PROVE  ~doubt /\ ~reload /\ view' = view \cup {call[c].row} /\ call[c].row \in table
    <3>1. page.create = "append" \/ page.create = "prepend"
      BY <1>2, <2>4, <2>7 DEF List!ShowCreated
    <3>2. ~doubt /\ ~reload /\ call[c].row \in table
      BY <1>2, <2>7, <3>1 DEF List!ShowCreated
    <3>3. view' = view \cup {call[c].row}
      BY <1>2, <2>7, <3>1 DEF List!ShowCreated
    <3> QED BY <3>2, <3>3
  <2>8. ASSUME c \notin away PROVE ViewFollows'
    <3> SUFFICES ASSUME ~doubt', ~reload', ~Loading'
                 PROVE  (table \ Unheard)' \subseteq view' /\ (~OnlyMine' => view' \subseteq table' \cup Deleted')
      BY <1>2, <2>4 DEF List!ShowCreated, ViewFollows
    <3>1. table \ Unheard \subseteq view /\ (~OnlyMine => view \subseteq table \cup Deleted)
      BY <2>4, <2>6, <2>7, <2>8 DEF ListInv, ViewFollows
    <3>2. table' = table
      BY <1>2 DEF List!ShowCreated
    <3> QED BY <2>5, <2>6, <2>7, <2>8, <3>1, <3>2
  <2> QED BY <1>0, <2>2, <2>3, <2>8, <2>b DEF ListInv
<1>c. ASSUME call[c].op \notin {"load", "loaded"}, ~List!AwaitsResource, Loading,
             \A d \in Call \ {c} : call'[d] = IF d \in List!Lasting THEN List!Idle ELSE call[d]
      PROVE  Loading'
  <2>1. PICK d \in List!Loads : call[d].fills # "kept"
    BY <1>c DEF Loading
  <2>2. d \in Call \ {c} /\ call[d] \in CallState /\ call[d].op \in {"load", "loaded"}
    BY <1>0, <1>c DEF List!Loads, ListTyped
  <2>3. call[d].fills = "view"
    <3>1. call[d].fills \in {"view", "kept", "both"}
      BY <2>2, CallFields DEF List!Fills
    <3> QED BY <1>c, <2>1, <3>1 DEF List!AwaitsResource, List!Lasting
  <2>4. call'[d] = call[d]
    BY <1>c, <2>2, <2>3 DEF List!Lasting
  <2> QED BY <2>1, <2>2, <2>4 DEF Loading, List!Loads
<1>3. CASE List!ShowDeleted(c)
  <2>1. /\ call'[c].op = "idle"
        /\ \A d \in Call \ {c} : call'[d] = IF d \in List!Lasting THEN List!Idle ELSE call[d]
        /\ kept' = {} /\ call' \in [Call -> CallState]
    BY <1>0, <1>3, CallMade, DropMoves DEF List!ShowDeleted
  <2>2. old' = old \ (List!Lasting \cup {"kept"}) /\ away' = away \ {c}
    BY <1>3 DEF List!ShowDeleted, List!Drops
  <2>3. AnswersTrue' /\ DeletedGone' /\ CallsFit'
    BY <1>3, <2>1, <2>2, HubBounds, OthersKeep DEF List!ShowDeleted
  <2>4. KeptTrue'
    BY <2>1 DEF KeptTrue
  <2>5. /\ call[c].op = "deleted" /\ page.delete \in {"filter", "reload"}
        /\ c \notin away => call[c].row \notin table
    BY <1>0, <1>3, PageChoices DEF List!ShowDeleted, ListInv, CallsFit, DeletedGone
  <2>6. /\ Deleted \subseteq Deleted' \cup {call[c].row} /\ (c \in away => Deleted' = Deleted)
        /\ Unheard' = Unheard /\ OnlyMine' = OnlyMine
    BY <2>1, <2>2, <2>5, CallMade DEF Deleted, Unheard, OnlyMine, RowsIn, List!Lasting, List!Loads
  <2>7. ~List!AwaitsResource /\ Loading => Loading'
    BY <1>c, <2>1, <2>5
  <2>8. ~reload' => /\ ~reload /\ ~List!AwaitsResource
                    /\ view' = IF c \in away THEN view ELSE view \ {call[c].row}
    BY <1>3, <2>5 DEF List!ShowDeleted
  <2>9. UNCHANGED <<page, table, query, doubt>>
    BY <1>3 DEF List!ShowDeleted
  <2>10. ViewFollows'
    BY <2>5, <2>6, <2>7, <2>8, <2>9 DEF ListInv, ViewFollows
  <2> QED BY <1>0, <2>3, <2>4, <2>10 DEF ListInv
<1>4. CASE List!ShowOthersGone(c)
  <2> DEFINE q == IF c \notin away /\ page.others = "reload"
                  THEN [op |-> "load", query |-> query, fills |-> "view"] ELSE List!Idle
  <2>1. q \in CallState /\ List!Drops(c, q)
    BY <1>0, <1>4, CallMade DEF List!ShowOthersGone
  <2>2. /\ c \notin away /\ page.others = "reload" =>
             q.op = "load" /\ q.query = query /\ q.fills = "view"
        /\ c \in away \/ page.others # "reload" => q.op = "idle"
    BY CallMade
  <2> HIDE DEF q
  <2>3. /\ call'[c] = q /\ call' \in [Call -> CallState]
        /\ \A d \in Call \ {c} : call'[d] = IF d \in List!Lasting THEN List!Idle ELSE call[d]
        /\ kept' = {}
    BY <1>0, <2>1, DropMoves
  <2>4. old' = old \ (List!Lasting \cup {"kept"}) /\ away' = away \ {c}
    BY <1>4, <2>1 DEF List!ShowOthersGone, List!Drops
  <2>5. AnswersTrue' /\ DeletedGone' /\ CallsFit'
    BY <1>4, <2>2, <2>3, <2>4, HubBounds, OthersKeep DEF List!ShowOthersGone
  <2>6. KeptTrue'
    BY <2>3 DEF KeptTrue
  <2>7. page.others \in {"filter", "reload"} /\ ~page.limited /\ call[c].op = "othersGone"
    BY <1>0, <1>4, PageChoices DEF List!ShowOthersGone, ListInv, CallsFit
  <2>8. c \notin away /\ page.others = "reload" => Loading'
    BY <2>2, <2>3 DEF Loading, List!Loads
  <2>l. ~List!AwaitsResource /\ Loading => Loading'
    BY <1>c, <2>3, <2>7
  <2>9. q.op = "idle" =>
          /\ Unheard' = Unheard /\ Deleted' = Deleted
          /\ c \in away => OnlyMine' = OnlyMine
    BY <2>3, <2>4, <2>7, CallMade DEF Unheard, Deleted, OnlyMine, RowsIn, List!Lasting, List!Loads
  <2>10. /\ UNCHANGED <<page, table, query>>
         /\ ~reload' => ~reload /\ ~List!AwaitsResource
         /\ c \in away => UNCHANGED <<view, doubt>>
         /\ c \notin away /\ ~doubt' =>
              ~doubt /\ sid = mine /\ table = {mine} /\ view' = view \cap {mine}
    BY <1>4 DEF List!ShowOthersGone
  <2>11. ASSUME c \in away PROVE ViewFollows'
    <3> SUFFICES ASSUME ~doubt', ~reload', ~Loading' PROVE ViewFollows'
      BY DEF ViewFollows
    <3>1. ~doubt /\ ~reload /\ ~Loading /\ view' = view
      BY <2>10, <2>11, <2>l
    <3>2. Unheard' = Unheard /\ Deleted' = Deleted /\ (OnlyMine => OnlyMine')
      BY <2>2, <2>9, <2>11
    <3> QED BY <2>7, <2>10, <3>1, <3>2 DEF ListInv, ViewFollows
  <2>12. ASSUME c \notin away PROVE ViewFollows'
    <3> SUFFICES ASSUME ~doubt', ~reload', ~Loading' PROVE ViewFollows'
      BY DEF ViewFollows
    <3>1. page.others # "reload"
      BY <2>8, <2>12
    <3>2. ~doubt /\ ~reload /\ ~Loading /\ table = {mine} /\ view' = view \cap {mine}
      BY <2>10, <2>12, <2>l
    <3>3. Unheard' = Unheard /\ Deleted' = Deleted
      BY <2>2, <2>9, <3>1
    <3>4. table \ Unheard \subseteq view
      BY <2>7, <3>2 DEF ListInv, ViewFollows
    <3> QED BY <2>7, <2>10, <3>2, <3>3, <3>4 DEF ViewFollows
  <2> QED BY <1>0, <2>5, <2>6, <2>11, <2>12 DEF ListInv
<1> QED BY <1>1, <1>2, <1>3, <1>4

LEMMA ElseFollows ==
  ASSUME ListInv,
         \/ \E q \in List!Query : List!Type(q)
         \/ List!ElseCreated \/ List!Rotated \/ List!Reopen \/ List!SwitchAccount
         \/ \E r \in table : List!ElseDeleted(r)
  PROVE  ListInv'
<1>0. /\ ListTyped' /\ ListTyped /\ page \in List!Pages /\ born \in Nat
  BY ElseTyped, RowBounds DEF ListInv, ListTyped
<1>1. ASSUME NEW q \in List!Query, List!Type(q) PROVE ListInv'
  <2>1. AnswersTrue'
    BY <1>1 DEF List!Type, ListInv, AnswersTrue
  <2>2. KeptTrue' /\ DeletedGone' /\ CallsFit'
    BY <1>1, HubBounds DEF List!Type, ListInv, KeptTrue, DeletedGone, CallsFit, List!Lasting, List!Loads
  <2>3. ~reload' => page = List!CommandMenu /\ ~query'.search /\ view' = {} /\ page' = page
    BY <1>1 DEF List!Type
  <2>4. page = List!CommandMenu => page.limited
    BY <1>0, PageChoices
  <2>5. ViewFollows'
    BY <2>3, <2>4 DEF ViewFollows
  <2> QED BY <1>0, <2>1, <2>2, <2>5 DEF ListInv
<1>2. ASSUME UNCHANGED <<page, query, kept, call, away>>, old' = old \cup List!Answered, doubt',
             born <= born', born' \in Nat, \A r \in 1 .. born : r \in table' => r \in table
      PROVE  ListInv'
  <2>1. AnswersTrue' /\ KeptTrue'
    BY <1>2, TableChanges
  <2>2. DeletedGone'
    BY <1>0, <1>2 DEF ListInv, DeletedGone
  <2>3. CallsFit' /\ ViewFollows'
    BY <1>2 DEF ListInv, CallsFit, ViewFollows, List!Lasting, List!Loads
  <2> QED BY <1>0, <2>1, <2>2, <2>3 DEF ListInv
<1>3. CASE List!ElseCreated
  BY <1>0, <1>2, <1>3 DEF List!ElseCreated
<1>4. CASE List!Rotated
  BY <1>0, <1>2, <1>4 DEF List!Rotated
<1>5. ASSUME NEW r \in table, List!ElseDeleted(r) PROVE ListInv'
  BY <1>0, <1>2, <1>5 DEF List!ElseDeleted
<1>6. CASE List!Reopen
  <2>1. /\ UNCHANGED <<page, table, born, kept>> /\ List!Opens(call)
        /\ old' = old \cap (List!Lasting \cup {"kept"})
        /\ ~doubt' => "kept" \notin old
    BY <1>6 DEF List!Reopen
  <2>2. /\ \A c \in List!Lasting :
             /\ call'[c].op = call[c].op /\ call'[c].op \in {"load", "loaded"}
             /\ call'[c].fills = "both"
             /\ call'[c].query = call[c].query
             /\ call'[c].op = "loaded" => call'[c].rows = call[c].rows
        /\ \A c \in List!Loads \ List!Lasting : call'[c] = List!Idle
        /\ \A c \in Call \ List!Loads : call'[c] = call[c]
        /\ \A c \in Call \ away' : call'[c].op \in {"load", "loaded", "idle"}
    <3>1. \A c \in Call : /\ call[c] \in CallState
                          /\ c \in List!Loads => call[c].op \in {"load", "loaded"}
                          /\ c \notin List!Loads => call[c].op \notin {"load", "loaded"}
      BY <1>0 DEF ListTyped, List!Loads
    <3> QED BY <1>0, <2>1, <3>1, OpenMoves
  <2>3. List!Lasting \subseteq List!Loads /\ List!Loads \subseteq Call
        /\ \A c \in Call : c \in List!Loads <=> call[c].op \in {"load", "loaded"}
    BY DEF List!Lasting, List!Loads
  <2>4. query' = List!Plain /\ view' = UNION kept /\ (~reload' => kept # {} \/ List!Lasting # {})
    BY <2>1 DEF List!Opens
  <2>5. List!Lasting # {} => query = List!Plain
    <3>1. page = List!Dashboard => ~page.search
      BY DEF List!Dashboard
    <3> QED BY <2>3, <3>1 DEF ListInv, CallsFit
  <2>6. Replies' = Replies
    BY <2>1, RepliesSame
  <2>7. AnswersTrue'
    <3> SUFFICES ASSUME NEW c \in Call, c \notin old', call'[c].op \in {"load", "loaded"}
                 PROVE  /\ call'[c].query = query'
                        /\ call'[c].op = "loaded" => call'[c].rows = Replies'[query']
      BY DEF AnswersTrue
    <3>1. c \in List!Lasting
      BY <2>2, <2>3, CallMade
    <3>2. c \notin old
      BY <2>1, <3>1
    <3> QED BY <2>2, <2>4, <2>5, <2>6, <3>1, <3>2 DEF ListInv, AnswersTrue
  <2>8. KeptTrue'
    BY <2>1 DEF ListInv, KeptTrue
  <2>9. DeletedGone'
    BY <2>2 DEF DeletedGone
  <2>10. CallsFit'
    <3>1. \A c \in Call : c \in List!Lasting' => c \in List!Lasting
      BY <2>2, <2>3, CallMade DEF List!Lasting, List!Loads
    <3> QED BY <2>1, <2>2, <2>3, <2>4, <3>1, CallMade DEF ListInv, CallsFit
  <2>11. List!Lasting # {} => Loading'
    BY <2>2, <2>3 DEF Loading, List!Loads
  <2>12. ASSUME ~doubt', ~reload', ~Loading' PROVE view' = table /\ ~page.limited
    <3>1. kept # {} /\ page = List!Dashboard
      BY <2>4, <2>11, <2>12 DEF ListInv, KeptTrue
    <3>2. UNION kept = table
      BY <2>1, <2>12, <3>1 DEF ListInv, KeptTrue
    <3> QED BY <1>0, <2>4, <3>1, <3>2, PageChoices
  <2>13. ViewFollows'
    BY <2>1, <2>12 DEF ViewFollows
  <2> QED BY <1>0, <2>7, <2>8, <2>9, <2>10, <2>13 DEF ListInv
<1>7. CASE List!SwitchAccount
  <2> DEFINE left == [c \in Call |-> List!OtherAccount(c)]
  <2>1. /\ UNCHANGED <<page, kept>> /\ List!Opens(left)
        /\ old' = List!Lasting \cup {k \in {"kept"} : kept # {}}
        /\ doubt' <=> kept # {}
        /\ page = List!Dashboard
    BY <1>7 DEF List!SwitchAccount
  <2>2. \A c \in Call : left[c] = List!OtherAccount(c)
    OBVIOUS
  <2> HIDE DEF left
  <2>3. List!Lasting \subseteq List!Loads /\ List!Loads \subseteq Call
        /\ \A c \in Call : c \in List!Loads <=> call[c].op \in {"load", "loaded"}
    BY DEF List!Lasting, List!Loads
  <2>4. /\ \A c \in List!Lasting : call'[c].op \in {"load", "loaded"} /\ call'[c].fills = "both"
        /\ \A c \in List!Loads \ List!Lasting : call'[c] = List!Idle
        /\ \A c \in Call \ List!Loads : call'[c] = left[c]
        /\ \A c \in Call \ away' : call'[c].op \in {"load", "loaded", "idle"}
    <3>1. ASSUME NEW c \in Call
          PROVE  /\ left[c] \in CallState
                 /\ c \in List!Loads => left[c].op \in {"load", "loaded"}
                 /\ c \notin List!Loads => left[c].op \notin {"load", "loaded"}
                 /\ call[c] = List!Idle => left[c] = List!Idle
      BY <1>0, <2>2, OtherMoves
    <3> QED BY <1>0, <2>1, <3>1, OpenMoves
  <2>5. \A c \in Call \ List!Lasting : call'[c].op \notin {"load", "loaded"}
    BY <1>0, <2>2, <2>4, OtherMoves, CallMade
  <2>6. AnswersTrue'
    BY <2>1, <2>5 DEF AnswersTrue
  <2>7. KeptTrue'
    BY <2>1 DEF ListInv, KeptTrue
  <2>8. DeletedGone'
    BY <2>4 DEF DeletedGone
  <2>9. CallsFit'
    <3>1. query' = List!Plain
      BY <2>1 DEF List!Opens
    <3>2. ASSUME NEW c \in Call
          PROVE  /\ call'[c].op \in {"create", "created"} => page.create # "none"
                 /\ call'[c].op \in {"delete", "deleted"} => page.delete # "none"
                 /\ call'[c].op \in {"others", "othersGone"} => page.others # "none"
      <4>1. CASE c \in List!Lasting \/ call'[c] = List!Idle
        BY <2>4, <4>1, CallMade
      <4>2. CASE call'[c] = left[c] /\ c \notin List!Loads
        BY <1>0, <2>2, <4>2, OtherMoves DEF ListInv, CallsFit
      <4> QED BY <2>4, <4>1, <4>2
    <3> QED BY <2>1, <3>1, <3>2 DEF CallsFit
  <2>10. List!Lasting # {} => Loading'
    BY <2>3, <2>4 DEF Loading, List!Loads
  <2>11. ~reload' => kept # {} \/ List!Lasting # {}
    BY <2>1 DEF List!Opens
  <2>12. ViewFollows'
    BY <2>1, <2>10, <2>11 DEF ViewFollows
  <2> QED BY <1>0, <2>6, <2>7, <2>8, <2>9, <2>12 DEF ListInv
<1> QED BY <1>1, <1>3, <1>4, <1>5, <1>6, <1>7

LEMMA ListNext == ASSUME ListInv, [List!Next]_(List!vars) PROVE ListInv'
<1>1. CASE UNCHANGED List!vars
  <2>1. Replies' = Replies
    BY <1>1, RepliesSame DEF List!vars
  <2>2. AnswersTrue' /\ KeptTrue' /\ DeletedGone' /\ CallsFit'
    BY <1>1, <2>1 DEF List!vars, ListInv, AnswersTrue, KeptTrue, DeletedGone, CallsFit,
                          List!Lasting, List!Loads
  <2>3. ViewFollows'
    BY <1>1 DEF List!vars, ListInv, ViewFollows, Unheard, Deleted, RowsIn, Loading, OnlyMine,
                     List!Loads
  <2> QED BY <2>2, <2>3, ListTypeStep DEF ListInv
<1> QED BY <1>1, StartFollows, ServerFollows, PageFollows, ElseFollows DEF List!Next

LEMMA RestingView == ASSUME ListInv PROVE List!ViewIsAnswer
<1>1. SUFFICES ASSUME ~doubt, ~reload, \A c \in Call : call[c] = List!Idle
               PROVE  IF page.limited THEN view \subseteq List!Matches(query) ELSE view = List!Answer(query)
  BY DEF List!ViewIsAnswer
<1>2. Unheard = {} /\ Deleted = {} /\ ~Loading /\ ~OnlyMine
  BY <1>1, CallMade DEF Unheard, Deleted, RowsIn, Loading, OnlyMine, List!Loads
<1>3. page \in List!Pages /\ query \in List!Query
  BY DEF ListInv, ListTyped
<1>4. CASE page.limited
  BY <1>1, <1>2, <1>4 DEF ListInv, ViewFollows, List!Matches
<1>5. CASE ~page.limited
  <2>1. List!Answer(query) = table
    BY <1>3, <1>5, RepliesTable DEF Replies
  <2>2. table \ Unheard \subseteq view /\ view \subseteq table \cup Deleted
    BY <1>1, <1>2, <1>5 DEF ListInv, ViewFollows
  <2>3. view = table
    BY <1>2, <2>2
  <2> QED BY <1>5, <2>1, <2>3
<1> QED BY <1>4, <1>5

-----------------------------------------------------------------------------
(* The hub: a step of it is a step of one component, and none of the others. *)

LEMMA MaintenanceInit == Maint!Init => MP!Init
BY DEF Maint!Init, MP!Init, Maint!Idle, MP!Idle

LEMMA MaintenanceStep == Maint!Next => MP!Next
BY DEF Maint!Next, Maint!Begin, Maint!GetCopy, Maint!ReadSetting, Maint!FillCopy, Maint!Decide,
       Maint!FailOpen, Maint!DropCopy, Maint!DropLost, Maint!UpdateSystemSettings,
       Maint!GetSystemSettings, Maint!CopyExpires, Maint!Effective, Maint!Becomes, Maint!Mode,
       MP!Next, MP!Begin, MP!GetCopy, MP!ReadSetting, MP!FillCopy, MP!Decide,
       MP!FailOpen, MP!DropCopy, MP!DropLost, MP!UpdateSystemSettings,
       MP!GetSystemSettings, MP!CopyExpires, MP!Effective, MP!Becomes, MP!Mode

\* The types of the setting, with the bounds.
LEMMA MaintenanceTyped ==
  ASSUME Maint!TypeOK, Maint!Next
  PROVE  Maint!TypeOK'
<1> DEFINE State == {Maint!Idle} \cup [op : {"get", "read"}]
                      \cup [op : {"fill", "decide"}, mode : Maint!Mode]
                      \cup [op : {"passed", "refused"}]
<1>1. /\ setting \in Maint!Mode \cup {"none"} /\ copy \in Maint!Mode \cup {"none"}
      /\ checks \in [Check -> State] /\ changing \subseteq Admin
      /\ begun \in 0 .. MaxChecks /\ changes \in 0 .. MaxChanges
      /\ due \in [Check -> Maint!Mode \cup {"none"}] /\ stale \in BOOLEAN
      /\ MaxChecks \in Nat /\ MaxChanges \in Nat
  BY HubBounds DEF Maint!TypeOK
<1>2. /\ "true" \in Maint!Mode /\ "false" \in Maint!Mode /\ Maint!Effective \in Maint!Mode
      /\ \A op \in {"get", "read", "passed", "refused"} : [op |-> op] \in State
      /\ \A op \in {"fill", "decide"}, mode \in Maint!Mode : [op |-> op, mode |-> mode] \in State
      /\ \A q \in State : q.op \in {"fill", "decide"} => q.mode \in Maint!Mode
  BY DEF Maint!Mode, Maint!Effective, Maint!Idle
<1>3. ASSUME NEW c \in Check, NEW q \in State, Maint!Becomes(c, q)
      PROVE  checks' \in [Check -> State]
  BY <1>1, <1>3 DEF Maint!Becomes
<1> HIDE DEF State
<1>4. ASSUME NEW c \in Check, Maint!Begin(c)
      PROVE  /\ checks' \in [Check -> State] /\ begun' \in 0 .. MaxChecks
             /\ due' \in [Check -> Maint!Mode \cup {"none"}]
             /\ UNCHANGED <<setting, copy, changing, changes, stale>>
  BY <1>1, <1>2, <1>3, <1>4 DEF Maint!Begin
<1>5. ASSUME NEW c \in Check, Maint!GetCopy(c) \/ Maint!ReadSetting(c) \/ Maint!Decide(c)
      PROVE  /\ checks' \in [Check -> State]
             /\ UNCHANGED <<setting, copy, changing, begun, changes, due, stale>>
  BY <1>1, <1>2, <1>3, <1>5 DEF Maint!GetCopy, Maint!ReadSetting, Maint!Decide
<1>6. ASSUME NEW c \in Check, Maint!FillCopy(c)
      PROVE  /\ checks' \in [Check -> State] /\ copy' \in Maint!Mode /\ stale' \in BOOLEAN
             /\ due' \in [Check -> Maint!Mode \cup {"none"}]
             /\ UNCHANGED <<setting, changing, begun, changes>>
  BY <1>1, <1>2, <1>3, <1>6 DEF Maint!FillCopy
<1>7. ASSUME NEW c \in Check, Maint!FailOpen(c)
      PROVE  /\ checks' \in [Check -> State]
             /\ due' \in [Check -> Maint!Mode \cup {"none"}]
             /\ UNCHANGED <<setting, copy, changing, begun, changes, stale>>
  BY <1>1, <1>2, <1>3, <1>7 DEF Maint!FailOpen
<1>8. ASSUME NEW a \in Admin, NEW mode \in Maint!Mode, Maint!UpdateSystemSettings(a, mode)
      PROVE  /\ setting' = mode /\ changing' \subseteq Admin /\ changes' \in 0 .. MaxChanges
             /\ due' \in [Check -> Maint!Mode \cup {"none"}]
             /\ UNCHANGED <<copy, checks, begun, stale>>
  BY <1>1, <1>8 DEF Maint!UpdateSystemSettings
<1>9. ASSUME \/ \E a \in Admin : Maint!DropCopy(a) \/ Maint!DropLost(a)
             \/ Maint!GetSystemSettings \/ Maint!CopyExpires
      PROVE  /\ setting' \in {setting, "false"} /\ copy' \in {copy, "none"}
             /\ changing' \subseteq Admin /\ stale' \in BOOLEAN
             /\ UNCHANGED <<checks, begun, changes, due>>
  BY <1>1, <1>9 DEF Maint!DropCopy, Maint!DropLost, Maint!GetSystemSettings, Maint!CopyExpires
<1>10. /\ setting' \in Maint!Mode \cup {"none"} /\ copy' \in Maint!Mode \cup {"none"}
       /\ checks' \in [Check -> State] /\ changing' \subseteq Admin
       /\ begun' \in 0 .. MaxChecks /\ changes' \in 0 .. MaxChanges
       /\ due' \in [Check -> Maint!Mode \cup {"none"}] /\ stale' \in BOOLEAN
  BY <1>1, <1>2, <1>4, <1>5, <1>6, <1>7, <1>8, <1>9 DEF Maint!Next
<1> QED BY <1>10 DEF State, Maint!TypeOK

LEMMA HubSteps ==
  ASSUME [HubNext]_hubVars
  PROVE  /\ [Next]_vars
         /\ [Maint!Next]_(Maint!vars)
         /\ [Dir!Next]_(Dir!vars)
         /\ [MP!Next]_(MP!vars)
         /\ [Hooks!Next]_(Hooks!vars)
         /\ [List!Next]_(List!vars)
<1>1. [Dir!Next]_(Dir!vars)
  BY DEF HubNext, AccountNext, DirectoryNext, MaintenanceNext, WebhooksNext, ListingNext, hubVars,
         directoryVars, Dir!vars, Dir!history
<1>2. [MP!Next]_(MP!vars)
  BY MaintenanceStep
     DEF HubNext, AccountNext, DirectoryNext, MaintenanceNext, WebhooksNext, ListingNext, hubVars,
         maintenanceVars, MP!vars
<1>3. [Hooks!Next]_(Hooks!vars)
  BY DEF HubNext, AccountNext, DirectoryNext, MaintenanceNext, WebhooksNext, ListingNext, hubVars,
         webhookVars, Hooks!vars
<1>4. [List!Next]_(List!vars)
  BY DEF HubNext, AccountNext, DirectoryNext, MaintenanceNext, WebhooksNext, ListingNext, hubVars,
         listingVars, List!vars
<1>5. [Next]_vars
  BY DEF HubNext, AccountNext, DirectoryNext, MaintenanceNext, WebhooksNext, ListingNext, hubVars,
         accountVars
<1>6. [Maint!Next]_(Maint!vars)
  BY DEF HubNext, AccountNext, DirectoryNext, MaintenanceNext, WebhooksNext, ListingNext, hubVars,
         maintenanceVars, Maint!vars
<1> QED BY <1>1, <1>2, <1>3, <1>4, <1>5, <1>6

LEMMA AlwaysDir == HubSpec => []DirInv
<1>1. HubInit => DirInv
  BY DirInit DEF HubInit
<1>2. DirInv /\ [HubNext]_hubVars => DirInv'
  BY HubSteps, DirNext
<1> QED BY <1>1, <1>2, PTL DEF HubSpec

LEMMA AlwaysHook == HubSpec => []HookInv
<1>1. HubInit => HookInv
  BY HookInit DEF HubInit
<1>2. HookInv /\ [HubNext]_hubVars => HookInv'
  BY HubSteps, HookNext
<1> QED BY <1>1, <1>2, PTL DEF HubSpec

LEMMA AlwaysList == HubSpec => []ListInv
<1>1. HubInit => ListInv
  BY ListInit DEF HubInit
<1>2. ListInv /\ [HubNext]_hubVars => ListInv'
  BY HubSteps, ListNext
<1> QED BY <1>1, <1>2, PTL DEF HubSpec

LEMMA AlwaysAccount == HubSpec => []TypeInv
<1>1. HubInit => TypeInv
  BY InitTypes DEF HubInit
<1>2. TypeInv /\ [HubNext]_hubVars => TypeInv'
  BY HubSteps, NextTypes
<1> QED BY <1>1, <1>2, PTL DEF HubSpec

LEMMA AlwaysMaintenance == HubSpec => []Maint!TypeOK
<1>1. HubInit => Maint!TypeOK
  <2>1. ASSUME Maint!Init
        PROVE  /\ setting \in {"none", "false"} /\ copy = "none" /\ changing = {}
               /\ begun = 0 /\ changes = 0 /\ stale = FALSE
               /\ checks = [c \in Check |-> Maint!Idle] /\ due = [c \in Check |-> "none"]
    BY <2>1 DEF Maint!Init
  <2>2. ASSUME Maint!Init
        PROVE  /\ begun \in 0 .. MaxChecks /\ changes \in 0 .. MaxChanges /\ stale \in BOOLEAN
               /\ setting \in Maint!Mode \cup {"none"}
    BY <2>1, <2>2, HubBounds DEF Maint!Mode
  <2> QED BY <2>1, <2>2 DEF HubInit, Maint!TypeOK
<1>2. Maint!TypeOK /\ [HubNext]_hubVars => Maint!TypeOK'
  <2>1. Maint!TypeOK /\ UNCHANGED Maint!vars => Maint!TypeOK'
    BY DEF Maint!TypeOK, Maint!vars
  <2> QED BY <2>1, HubSteps, MaintenanceTyped
<1> QED BY <1>1, <1>2, PTL DEF HubSpec

\* Every variable of every component keeps its type, whatever interleaves.
THEOREM HubTypes == HubSpec => []TypesOK
<1>1. TypeInv /\ DirInv /\ Maint!TypeOK /\ HookInv /\ ListInv => TypesOK
  BY TypeInvTypes, DirTypes, ListTypes DEF DirInv, HookInv, HookTyped, ListInv, TypesOK
<1> QED BY <1>1, AlwaysAccount, AlwaysDir, AlwaysMaintenance, AlwaysHook, AlwaysList, PTL

\* Once a change of the settings has been answered, a request that starts is
\* refused exactly when maintenance is on, in the hub too.
THEOREM HubMaintenance == HubSpec => []MaintenanceTakesEffect
<1>1. HubInit => MP!EffectInv
  BY MP!InitEffect, MaintenanceInit DEF HubInit
<1>2. MP!EffectInv /\ [HubNext]_hubVars => MP!EffectInv'
  BY HubSteps, MP!NextEffect
<1>3. MP!EffectInv => MaintenanceTakesEffect
  BY DEF MP!EffectInv, MP!OwedIsCarried, MP!Carries, MaintenanceTakesEffect,
         Maint!MaintenanceTakesEffect
<1> QED BY <1>1, <1>2, <1>3, PTL DEF HubSpec

\* rotateSecret: the secret a client's owner was told last is the one the token
\* endpoint accepts, unless two rotations of the client overlapped or one has
\* stored its secret and not answered yet.
THEOREM SecretToldWorks == HubSpec => []ToldSecretWorks
<1>1. DirInv => ToldSecretWorks
  BY SecretTold DEF ToldSecretWorks
<1> QED BY AlwaysDir, <1>1, PTL

\* updateClient: a field the caller did not send keeps what it holds, unless
\* another update of the client was written between the read and the write.
THEOREM FieldsAreKept == HubSpec => FieldsKept
<1> DEFINE Step ==
      \A j \in Job \ outdated :
        job[j].op = "update" /\ job'[j] = Dir!Idle /\ job[j].client \in DOMAIN clients =>
          LET row == clients[job[j].client]
              new == clients'[job[j].client]
          IN  /\ "name" \notin job[j].asks => new.name = row.name
              /\ "redirectUris" \notin job[j].asks => new.redirectUris = row.redirectUris
              /\ "kind" \notin job[j].asks => new.public = row.public
<1>1. DirInv /\ [HubNext]_hubVars => [Step]_(Dir!vars)
  <2>1. SUFFICES ASSUME DirInv, Dir!Next PROVE Step
    BY HubSteps
  <2> QED BY <2>1, UpdateKeeps
<1>2. HubSpec => [][Step]_(Dir!vars)
  BY AlwaysDir, <1>1, PTL DEF HubSpec
<1> QED BY <1>2 DEF FieldsKept, Dir!FieldsKept

\* WebhookService.dispatch: once the sign-in is answered, an endpoint that is
\* still there has one row for its event, unless a write was refused; and while
\* none was, the row says whether the endpoint answered.
THEOREM DeliveriesAreLogged == HubSpec => []DeliveriesLogged
<1>1. HookInv => DeliveriesLogged
  BY RowLogged DEF DeliveriesLogged
<1> QED BY AlwaysHook, <1>1, PTL

\* The pages: at rest, a page shows what the server would answer to its query,
\* unless a call failed, others changed the table or an old answer was shown.
THEOREM ViewsAreAnswers == HubSpec => []ViewIsAnswer
<1>1. ListInv => ViewIsAnswer
  BY RestingView DEF ViewIsAnswer
<1> QED BY AlwaysList, <1>1, PTL

\* The account in the hub is the account of Account: what AccountProofs proves of
\* its handlers holds of every behaviour of the hub.
THEOREM HubKeepsAccount ==
  HubSpec => /\ Spec
             /\ [](CachedProfileFollows /\ MailTokensOnce /\ SignInKept /\ EnabledSecretProved)
             /\ TotpStaysOn
<1>1. HubInit => Init
  BY DEF HubInit
<1>2. [HubNext]_hubVars => [Next]_vars
  BY HubSteps
<1>3. HubSpec => Spec
  BY <1>1, <1>2, PTL DEF HubSpec, Spec
<1> QED BY <1>3, CacheFollows, MailTokensWorkOnce, SignInIsKept, EnabledSecretIsProved,
           TotpIsKept, PTL
=============================================================================
