----------------------------- MODULE Directory -----------------------------
(***************************************************************************)
(* The tables behind the developer portal and the administration console:  *)
(* tenants, OAuth clients and root API keys.                               *)
(*                                                                         *)
(* One developer owns clients; administrators change any row.  A handler   *)
(* with an await between its read and its write is a job of two phases;    *)
(* a handler that is one statement or one transaction is one action.  The  *)
(* data of a row are versions: the number of the job that wrote them; the  *)
(* id of a row is the number of the job that created it.                   *)
(***************************************************************************)
EXTENDS Integers, FiniteSets

CONSTANTS
  Job,       \* handlers in flight at once
  MaxJobs    \* bound: handlers started

VARIABLES
  tenants,   \* the configuration of each tenant
  clients,   \* oauth_clients
  keys,      \* root_api_keys
  job,       \* what each handler is doing
  jobs,      \* handlers started so far
  form,      \* the tenant the branding page has loaded, if any
  \* History, read by no guard:
  shown,     \* the secret each client's owner was told last
  outdated,  \* jobs whose read another handler made untrue
  raced      \* clients two rotations of which overlapped

history == <<shown, outdated, raced>>
vars == <<tenants, clients, keys, job, jobs, form, history>>

Version == 0 .. MaxJobs
Id == 1 .. MaxJobs
Fields == {"name", "redirectUris", "kind"}

\* Secret 0 is the hash "none", which no secret verifies against; tenant 0 is
\* no tenant.
ClientRow == [public : BOOLEAN, secret : Version, tenant : Version,
              owned : BOOLEAN, name : Version, redirectUris : Version]

Idle     == [op |-> "idle"]
Updates  == [op : {"update"}, client : Id, held : ClientRow,
             asks : SUBSET Fields, public : BOOLEAN, nth : Version]
Rotates  == [op : {"rotate", "told"}, client : Id, nth : Version]
Deletes  == [op : {"delete"}, client : Id, tenant : Version]
Brands   == [op : {"brand", "default"}, tenant : Id, nth : Version]

TypeOK ==
  /\ DOMAIN tenants \subseteq Id
  /\ tenants \in [DOMAIN tenants -> Version]
  /\ DOMAIN clients \subseteq Id
  /\ clients \in [DOMAIN clients -> ClientRow]
  /\ \A c \in DOMAIN clients : clients[c].tenant \in DOMAIN tenants \cup {0}
  /\ keys \subseteq Id
  /\ job \in [Job -> {Idle} \cup Updates \cup Rotates \cup Deletes \cup Brands]
  /\ jobs \in 0 .. MaxJobs
  /\ form \subseteq Id
  /\ shown \in [Id -> Version]
  /\ outdated \subseteq Job
  /\ raced \subseteq Id

Becomes(j, q) == job' = [job EXCEPT ![j] = q]

\* Handler j starts; its number makes what it writes unlike anything before.
Starts(j, q) ==
  /\ job[j] = Idle
  /\ jobs < MaxJobs
  /\ jobs' = jobs + 1
  /\ Becomes(j, q)

\* A handler that is done in one step.
AtOnce == jobs < MaxJobs /\ jobs' = jobs + 1 /\ UNCHANGED job

With(f, x, y) == [z \in DOMAIN f \cup {x} |-> IF z = x THEN y ELSE f[z]]
Without(f, x) == [z \in DOMAIN f \ {x} |-> f[z]]

Init ==
  /\ tenants = [t \in {} |-> t]
  /\ clients = [c \in {} |-> c]
  /\ keys = {}
  /\ job = [j \in Job |-> Idle]
  /\ jobs = 0
  /\ form = {}
  /\ shown = [c \in Id |-> 0]
  /\ outdated = {} /\ raced = {}

\* Jobs but j that hold a read of client c.
Readers(c, j) == {i \in Job \ {j} : job[i].op = "update" /\ job[i].client = c}

-----------------------------------------------------------------------------
\* The developer portal

NewClient(public, tenant, owned) ==
  [public |-> public, secret |-> IF public THEN 0 ELSE jobs + 1, tenant |-> tenant,
   owned |-> owned, name |-> jobs + 1, redirectUris |-> jobs + 1]

\* One transaction: the tenant and its client, or neither.
CreateClient(public) ==
  /\ AtOnce
  /\ tenants' = With(tenants, jobs', 0)
  /\ clients' = With(clients, jobs', NewClient(public, jobs', TRUE))
  /\ shown' = [shown EXCEPT ![jobs'] = clients'[jobs'].secret]
  /\ UNCHANGED <<keys, form, outdated, raced>>

\* Every other handler reads the client and compares its owner first.
Owns(c) == clients[c].owned

UpdateClient(j, c, asks, public) ==
  /\ Owns(c)
  /\ asks # {} /\ ("kind" \notin asks => public)
  /\ Starts(j, [op |-> "update", client |-> c, held |-> clients[c], asks |-> asks,
                public |-> public, nth |-> jobs + 1])
  /\ UNCHANGED <<tenants, clients, keys, form, history>>

\* Mutant: a field that was not sent is written all the same.
MergedUnasked(q) ==
  [clients[q.client] EXCEPT !.name = q.nth,
     !.redirectUris = q.nth,
     !.public = IF "kind" \in q.asks THEN q.public ELSE q.held.public]

\* The fields that were not sent are written back as they were read.
Merged(q) ==
  [clients[q.client] EXCEPT !.name = IF "name" \in q.asks THEN q.nth ELSE q.held.name,
     !.redirectUris = IF "redirectUris" \in q.asks THEN q.nth ELSE q.held.redirectUris,
     !.public = IF "kind" \in q.asks THEN q.public ELSE q.held.public]

WriteClient(j) ==
  /\ job[j].op = "update"
  /\ job[j].client \in DOMAIN clients
  /\ clients' = With(clients, job[j].client, Merged(job[j]))
  /\ outdated' = (outdated \ {j}) \cup Readers(job[j].client, j)
  /\ Becomes(j, Idle)
  /\ UNCHANGED <<tenants, keys, jobs, form, shown, raced>>

\* A client that turns public between the read and the write keeps its secret.
RotateSecret(j, c) ==
  /\ Owns(c)
  /\ ~clients[c].public
  /\ Starts(j, [op |-> "rotate", client |-> c, nth |-> jobs + 1])
  /\ raced' = IF \E i \in Job : job[i].op \in {"rotate", "told"} /\ job[i].client = c
              THEN raced \cup {c} ELSE raced
  /\ UNCHANGED <<tenants, clients, keys, form, shown, outdated>>

\* Mutant: the answer is sent, and nothing is stored.
StoreNoSecret(j) ==
  /\ job[j].op = "rotate"
  /\ job[j].client \in DOMAIN clients
  /\ Becomes(j, [job[j] EXCEPT !.op = "told"])
  /\ UNCHANGED <<tenants, clients, keys, jobs, form, history>>

StoreSecret(j) ==
  /\ job[j].op = "rotate"
  /\ job[j].client \in DOMAIN clients
  /\ clients' = [clients EXCEPT ![job[j].client].secret = job[j].nth]
  /\ Becomes(j, [job[j] EXCEPT !.op = "told"])
  /\ UNCHANGED <<tenants, keys, jobs, form, history>>

\* The answer, the only place the secret is seen.
TellSecret(j) ==
  /\ job[j].op = "told"
  /\ shown' = [shown EXCEPT ![job[j].client] = job[j].nth]
  /\ Becomes(j, Idle)
  /\ UNCHANGED <<tenants, clients, keys, jobs, form, outdated, raced>>

DeleteClient(j, c) ==
  /\ Owns(c)
  /\ Starts(j, [op |-> "delete", client |-> c, tenant |-> clients[c].tenant])
  /\ UNCHANGED <<tenants, clients, keys, form, history>>

\* Mutant: they keep the id of a tenant that is gone.
NotOrphaned(cs, t) == cs

\* The clients of a tenant that goes lose it (onDelete: SetNull).
Orphaned(cs, t) ==
  [c \in DOMAIN cs |-> IF cs[c].tenant = t THEN [cs[c] EXCEPT !.tenant = 0] ELSE cs[c]]

\* One transaction: the client, and the tenant it had when it was read.
DeleteBoth(j) ==
  /\ job[j].op = "delete"
  /\ LET c == job[j].client
         t == job[j].tenant
     IN  /\ c \in DOMAIN clients /\ t \in DOMAIN tenants \cup {0}
         /\ clients' = Orphaned(Without(clients, c), t)
         /\ tenants' = Without(tenants, t)
         /\ shown' = [shown EXCEPT ![c] = 0]
  /\ Becomes(j, Idle)
  /\ UNCHANGED <<keys, jobs, form, outdated, raced>>

\* PATCH of the client's tenant, by callers that send no webhookUrl.
UpdateTenant(j, c) ==
  /\ Owns(c)
  /\ clients[c].tenant # 0
  /\ Starts(j, [op |-> "brand", tenant |-> clients[c].tenant, nth |-> jobs + 1])
  /\ UNCHANGED <<tenants, clients, keys, form, history>>

\* The settings modal always sends webhookUrl, which is no column of tenants:
\* Prisma refuses the update, whatever else it holds.
SettingsModal(c) ==
  /\ Owns(c)
  /\ clients[c].tenant # 0
  /\ AtOnce
  /\ UNCHANGED <<tenants, clients, keys, form, history>>

WriteTenant(j) ==
  /\ job[j].op \in {"brand", "default"}
  /\ job[j].tenant \in DOMAIN tenants
  /\ tenants' = [tenants EXCEPT ![job[j].tenant] = job[j].nth]
  /\ Becomes(j, Idle)
  /\ UNCHANGED <<clients, keys, jobs, form, history>>

\* The row to write is gone; Prisma throws, and a transaction is undone.
Fails(j) ==
  /\ \/ job[j].op \in {"update", "rotate"} /\ job[j].client \notin DOMAIN clients
     \/ /\ job[j].op = "delete"
        /\ job[j].client \notin DOMAIN clients
             \/ job[j].tenant \notin DOMAIN tenants \cup {0}
     \/ job[j].op \in {"brand", "default"} /\ job[j].tenant \notin DOMAIN tenants
  /\ Becomes(j, Idle)
  /\ outdated' = outdated \ {j}
  /\ UNCHANGED <<tenants, clients, keys, jobs, form, shown, raced>>

-----------------------------------------------------------------------------
\* Administration

AdminCreateClient(t, public) ==
  /\ t \in DOMAIN tenants \cup {0}
  /\ AtOnce
  /\ clients' = With(clients, jobs', NewClient(public, t, FALSE))
  /\ shown' = [shown EXCEPT ![jobs'] = clients'[jobs'].secret]
  /\ UNCHANGED <<tenants, keys, form, outdated, raced>>

\* The tenant of a developer's client stays.
AdminDeleteClient(c) ==
  /\ AtOnce
  /\ clients' = Without(clients, c)
  /\ shown' = [shown EXCEPT ![c] = 0]
  /\ UNCHANGED <<tenants, keys, form, outdated, raced>>

CreateTenant ==
  /\ AtOnce
  /\ tenants' = With(tenants, jobs', 0)
  /\ UNCHANGED <<clients, keys, form, history>>

AdminUpdateTenant(t) ==
  /\ AtOnce
  /\ tenants' = [tenants EXCEPT ![t] = jobs + 1]
  /\ UNCHANGED <<clients, keys, form, history>>

DeleteTenant(t) ==
  /\ AtOnce
  /\ tenants' = Without(tenants, t)
  /\ clients' = Orphaned(clients, t)
  /\ UNCHANGED <<keys, form, history>>

CreateRootApiKey ==
  /\ AtOnce
  /\ keys' = keys \cup {jobs'}
  /\ UNCHANGED <<tenants, clients, form, history>>

RevokeRootApiKey(k) ==
  /\ AtOnce
  /\ keys' = keys \ {k}
  /\ UNCHANGED <<tenants, clients, form, history>>

-----------------------------------------------------------------------------
\* The branding page, which edits "the default tenant"

\* The oldest tenant.
GetTenantConfig ==
  \E t \in DOMAIN tenants :
    /\ \A u \in DOMAIN tenants : t <= u
    /\ form' = {t}
    /\ UNCHANGED <<tenants, clients, keys, job, jobs, history>>

\* findFirst without an order: any tenant.  The page sends all it has loaded.
UpdateTenantConfig(j) ==
  /\ form # {}
  /\ \E t \in DOMAIN tenants : Starts(j, [op |-> "default", tenant |-> t, nth |-> jobs + 1])
  /\ UNCHANGED <<tenants, clients, keys, form, history>>

-----------------------------------------------------------------------------
Next ==
  \/ \E j \in Job :
       \/ WriteClient(j) \/ StoreSecret(j) \/ TellSecret(j) \/ DeleteBoth(j)
       \/ WriteTenant(j) \/ Fails(j) \/ UpdateTenantConfig(j)
       \/ \E c \in DOMAIN clients :
            \/ RotateSecret(j, c) \/ DeleteClient(j, c) \/ UpdateTenant(j, c)
            \/ \E asks \in SUBSET Fields, public \in BOOLEAN : UpdateClient(j, c, asks, public)
  \/ \E c \in DOMAIN clients : AdminDeleteClient(c) \/ SettingsModal(c)
  \/ \E public \in BOOLEAN :
       CreateClient(public) \/ \E t \in DOMAIN tenants \cup {0} : AdminCreateClient(t, public)
  \/ \E t \in DOMAIN tenants : AdminUpdateTenant(t) \/ DeleteTenant(t)
  \/ \E k \in keys : RevokeRootApiKey(k)
  \/ CreateTenant \/ CreateRootApiKey \/ GetTenantConfig

Spec == Init /\ [][Next]_vars

-----------------------------------------------------------------------------
\* updateClient changes the fields the caller sent and no other, unless another
\* update was written between its read and its write.
FieldsKept ==
  [][\A j \in Job \ outdated :
       job[j].op = "update" /\ job'[j] = Idle /\ job[j].client \in DOMAIN clients =>
         LET old == clients[job[j].client]
             new == clients'[job[j].client]
         IN  /\ "name" \notin job[j].asks => new.name = old.name
             /\ "redirectUris" \notin job[j].asks => new.redirectUris = old.redirectUris
             /\ "kind" \notin job[j].asks => new.public = old.public
    ]_vars

\* "Only time this is visible": outside a rotation, the secret a client's owner
\* was told last is the one in force, unless rotations of the client overlapped.
ToldSecretWorks ==
  \A c \in DOMAIN clients \ raced :
    (\A j \in Job : job[j].op = "rotate" => job[j].client # c)
      => shown[c] = clients[c].secret \/ \E j \in Job : job[j].op = "told" /\ job[j].client = c
=============================================================================
