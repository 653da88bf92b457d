------------------------------- MODULE MCHub -------------------------------
(***************************************************************************)
(* The components of the hub that share no state with one another, checked *)
(* in one run.  Their composition has every interleaving of their steps,   *)
(* but what one of them does is unseen by the others, so the steps of the  *)
(* other components are stutters of each: a behaviour here chooses one     *)
(* component, its focus, and takes the steps of that one alone.  The states *)
(* are the sum of those of the components instead of their product.        *)
(***************************************************************************)
EXTENDS Account, TLC

CONSTANTS
  Job, MaxJobs,                                           \* Directory
  Check, Admin, MaxChecks, MaxChanges,                    \* Maintenance
  Dispatch, Event, MaxEndpoints, MaxFailures,             \* Webhooks
  Call, Limit, MaxLoads, MaxRows                          \* Listing

\* The bounds are numbers; a page starts with a row; "kept" is the name of the
\* answer the Dashboard keeps, and of no call.
ASSUME HubBounds ==
  /\ {MaxJobs, MaxChecks, MaxChanges, MaxEndpoints, MaxFailures, MaxLoads} \subseteq Nat
  /\ MaxRows \in Nat \ {0}
  /\ "kept" \notin Call

VARIABLES
  focus,
  tenants, clients, keys, job, jobs, form, shown, outdated, raced,
  setting, copy, checks, changing, begun, changes, due, stale,
  endpoints, made, logged, sending, handler, failures, received, refused,
  page, table, born, view, query, reload, call, done, sid, mine, kept, away, old, doubt

Dir   == INSTANCE Directory
Maint == INSTANCE Maintenance
Hooks == INSTANCE Webhooks
List  == INSTANCE Listing

accountVars == vars  \* of Account
directoryVars == <<tenants, clients, keys, job, jobs, form, shown, outdated, raced>>
maintenanceVars == <<setting, copy, checks, changing, begun, changes, due, stale>>
webhookVars == <<endpoints, made, logged, sending, handler, failures, received, refused>>
listingVars == <<page, table, born, view, query, reload, call, done, sid, mine, kept, away,
                 old, doubt>>

hubVars == <<focus, accountVars, directoryVars, maintenanceVars, webhookVars, listingVars>>

\* Handlers and mail tokens are interchangeable: no action or property names one.
Symmetry == Permutations(Request) \cup Permutations(Mail)

-----------------------------------------------------------------------------
\* A component out of focus rests in one of its initial states.
HubInit ==
  /\ focus \in {"account", "directory", "maintenance", "webhooks", "listing"}
  /\ Init /\ Dir!Init /\ Maint!Init /\ Hooks!Init /\ List!Init
  /\ focus # "account"     => user.password /\ user.links = {}
  /\ focus # "maintenance" => setting = "false"
  /\ focus # "listing"     => page = List!AuditPage

AccountNext ==
  /\ focus = "account" /\ Next
  /\ UNCHANGED <<focus, directoryVars, maintenanceVars, webhookVars, listingVars>>

DirectoryNext ==
  /\ focus = "directory" /\ Dir!Next
  /\ UNCHANGED <<focus, accountVars, maintenanceVars, webhookVars, listingVars>>

MaintenanceNext ==
  /\ focus = "maintenance" /\ Maint!Next
  /\ UNCHANGED <<focus, accountVars, directoryVars, webhookVars, listingVars>>

WebhooksNext ==
  /\ focus = "webhooks" /\ Hooks!Next
  /\ UNCHANGED <<focus, accountVars, directoryVars, maintenanceVars, listingVars>>

ListingNext ==
  /\ focus = "listing" /\ List!Next
  /\ UNCHANGED <<focus, accountVars, directoryVars, maintenanceVars, webhookVars>>

HubNext == AccountNext \/ DirectoryNext \/ MaintenanceNext \/ WebhooksNext \/ ListingNext

HubSpec == HubInit /\ [][HubNext]_hubVars

-----------------------------------------------------------------------------
\* Every variable of every component keeps its type.
TypesOK == TypeOK /\ Dir!TypeOK /\ Maint!TypeOK /\ Hooks!TypeOK /\ List!TypeOK

\* updateClient changes no field the caller did not send.
FieldsKept == Dir!FieldsKept

\* The secret a client's owner was told last is the one that is accepted.
ToldSecretWorks == Dir!ToldSecretWorks

\* A change of the maintenance setting governs the requests that follow it.
MaintenanceTakesEffect == Maint!MaintenanceTakesEffect

\* A delivery that ended has its row in the log.
DeliveriesLogged == Hooks!DeliveriesLogged

\* A page at rest shows what the server would answer to its query.
ViewIsAnswer == List!ViewIsAnswer
=============================================================================
