------------------------------ MODULE Webhooks ------------------------------
(***************************************************************************)
(* Webhook endpoints, the dispatch of an event to them and the log of its  *)
(* deliveries.  register and login await the dispatch before they answer,  *)
(* so the handler that dispatches is part of the model, as is an endpoint  *)
(* that answers late or never and a database that fails.                   *)
(***************************************************************************)
EXTENDS Integers, FiniteSets

CONSTANTS
  Dispatch,      \* handlers that dispatch an event at once
  Event,         \* the names of events
  MaxEndpoints,  \* bound: endpoints created
  MaxFailures    \* bound: calls the database refuses

VARIABLES
  endpoints,  \* webhook_endpoints: what each subscribes to, by id
  made,       \* endpoints created so far
  logged,     \* webhook_deliveries: [endpoint, dispatch, outcome]
  sending,    \* what each dispatch is doing with each endpoint it found
  handler,    \* "ready", "waiting" for its dispatch, "answered", or "failed":
              \* answered without having found out whom to tell
  failures,   \* calls refused so far
  \* History, read by no guard:
  received,   \* <<endpoint, dispatch>> that reached the endpoint and were answered
  refused     \* <<endpoint, dispatch>> the database would not log at first

vars == <<endpoints, made, logged, sending, handler, failures, received, refused>>

Id == 1 .. MaxEndpoints
Phase == {"post", "log", "logError", "done", "lost"}
Outcome == {"status", "error"}

TypeOK ==
  /\ made \in 0 .. MaxEndpoints
  /\ DOMAIN endpoints \subseteq 1 .. made
  /\ endpoints \in [DOMAIN endpoints -> SUBSET Event]
  /\ logged \subseteq [endpoint : DOMAIN endpoints, dispatch : Dispatch, outcome : Outcome]
  /\ \A d \in Dispatch :
       /\ DOMAIN sending[d] \subseteq 1 .. made
       /\ sending[d] \in [DOMAIN sending[d] -> Phase]
  /\ handler \in [Dispatch -> {"ready", "waiting", "answered", "failed"}]
  /\ failures \in 0 .. MaxFailures
  /\ received \subseteq Id \X Dispatch
  /\ refused \subseteq Id \X Dispatch

Init ==
  /\ endpoints = [e \in {} |-> {}]
  /\ made = 0
  /\ logged = {}
  /\ sending = [d \in Dispatch |-> [e \in {} |-> "post"]]
  /\ handler = [d \in Dispatch |-> "ready"]
  /\ failures = 0
  /\ received = {}
  /\ refused = {}

-----------------------------------------------------------------------------
\* Endpoints.  Their tenant comes from req.user.tenantId, which authenticate
\* never sets: all of them are global, and everybody's.

CreateEndpoint(events) ==
  /\ made < MaxEndpoints
  /\ made' = made + 1
  /\ endpoints' = [e \in DOMAIN endpoints \cup {made'} |->
                     IF e = made' THEN events ELSE endpoints[e]]
  /\ UNCHANGED <<logged, sending, handler, failures, received, refused>>

\* The deliveries go with the endpoint (onDelete: Cascade).
DeleteEndpoint(e) ==
  /\ endpoints' = [f \in DOMAIN endpoints \ {e} |-> endpoints[f]]
  /\ logged' = {l \in logged : l.endpoint # e}
  /\ UNCHANGED <<made, sending, handler, failures, received, refused>>

-----------------------------------------------------------------------------
\* dispatch

\* An event of a user with a tenant looks among the endpoints of that tenant,
\* of which there are none.
Subscribed(event, tenanted) == {e \in DOMAIN endpoints : event \in endpoints[e] /\ ~tenanted}

Begin(d, event, tenanted) ==
  /\ handler[d] = "ready"
  /\ handler' = [handler EXCEPT ![d] = "waiting"]
  /\ sending' = [sending EXCEPT ![d] = [e \in Subscribed(event, tenanted) |-> "post"]]
  /\ UNCHANGED <<endpoints, made, logged, failures, received, refused>>

\* findMany rejects, which dispatch catches: nobody is told, and the handler
\* answers all the same.
FindFails(d) ==
  /\ handler[d] = "ready"
  /\ failures < MaxFailures
  /\ failures' = failures + 1
  /\ handler' = [handler EXCEPT ![d] = "failed"]
  /\ UNCHANGED <<endpoints, made, logged, sending, received, refused>>

Moves(d, e, from, to) ==
  /\ sending[d][e] = from
  /\ sending' = [sending EXCEPT ![d][e] = to]

Answers(d, e) ==
  /\ Moves(d, e, "post", "log")
  /\ received' = received \cup {<<e, d>>}
  /\ UNCHANGED <<endpoints, made, logged, handler, failures, refused>>

\* The connection fails, or ten seconds pass; the endpoint may have the event.
NoAnswer(d, e) ==
  /\ Moves(d, e, "post", "logError")
  /\ UNCHANGED <<endpoints, made, logged, handler, failures, received, refused>>

Row(d, e, outcome) == [endpoint |-> e, dispatch |-> d, outcome |-> outcome]

\* Mutant: only what was answered is logged.
LogNoError(d, e) ==
  /\ Moves(d, e, "logError", "done")
  /\ UNCHANGED <<endpoints, made, logged, handler, failures, received, refused>>

LogStatus(d, e) ==
  /\ Moves(d, e, "log", "done")
  /\ e \in DOMAIN endpoints
  /\ logged' = logged \cup {Row(d, e, "status")}
  /\ UNCHANGED <<endpoints, made, handler, failures, received, refused>>

LogError(d, e) ==
  /\ Moves(d, e, "logError", "done")
  /\ e \in DOMAIN endpoints
  /\ logged' = logged \cup {Row(d, e, "error")}
  /\ UNCHANGED <<endpoints, made, handler, failures, received, refused>>

\* The row of an endpoint that is gone is refused, and so is any when the
\* database fails.  A status is then logged as an error; an error rejects.
Refused(d, e) ==
  /\ \/ Moves(d, e, "log", "logError")
     \/ Moves(d, e, "logError", "lost")
  /\ \/ e \notin DOMAIN endpoints /\ UNCHANGED failures
     \/ failures < MaxFailures /\ failures' = failures + 1
  /\ refused' = refused \cup {<<e, d>>}
  /\ UNCHANGED <<endpoints, made, logged, handler, received>>

\* Promise.all: when all are done, or as soon as one has rejected; the others
\* go on without anyone waiting.
Return(d) ==
  /\ handler[d] = "waiting"
  /\ \/ \A e \in DOMAIN sending[d] : sending[d][e] = "done"
     \/ \E e \in DOMAIN sending[d] : sending[d][e] = "lost"
  /\ handler' = [handler EXCEPT ![d] = "answered"]
  /\ UNCHANGED <<endpoints, made, logged, sending, failures, received, refused>>

Next ==
  \/ \E d \in Dispatch :
       \/ FindFails(d) \/ Return(d)
       \/ \E event \in Event, tenanted \in BOOLEAN : Begin(d, event, tenanted)
       \/ \E e \in DOMAIN sending[d] :
            \/ Answers(d, e) \/ NoAnswer(d, e)
            \/ LogStatus(d, e) \/ LogError(d, e) \/ Refused(d, e)
  \/ \E events \in SUBSET Event : CreateEndpoint(events)
  \/ \E e \in DOMAIN endpoints : DeleteEndpoint(e)

Spec == Init /\ [][Next]_vars

-----------------------------------------------------------------------------
\* The deliveries page tells what became of an event.  When a sign-in has been
\* answered, each endpoint it found, and that is still there, has one row for it;
\* only a delivery still under way has none, and only if another one rejected,
\* with its row refused twice.  A row says "status" if and only if the endpoint
\* answered and the database took that row at once.
DeliveriesLogged ==
  \A d \in Dispatch :
    handler[d] = "answered" =>
      \A e \in DOMAIN sending[d] \cap DOMAIN endpoints :
        LET rows == {l \in logged : l.endpoint = e /\ l.dispatch = d}
        IN  /\ \/ Cardinality(rows) = 1
               \/ /\ rows = {} /\ sending[d][e] # "done"
                  /\ \E f \in DOMAIN sending[d] : sending[d][f] = "lost"
            /\ \A l \in rows : l.outcome = "status" <=> <<e, d>> \in received \ refused
=============================================================================
