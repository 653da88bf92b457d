-------------------------- MODULE SessionContract --------------------------
(***************************************************************************)
(* What the session handlers promise when requests do not overlap: signing *)
(* in opens a grant, a refresh hands the grant's session on to exactly one *)
(* successor, and a grant that was closed is closed for good.              *)
(***************************************************************************)
CONSTANTS
  User,   \* accounts
  Sid     \* session ids

VARIABLES
  grants,  \* the open grants: sign-in, user and current session
  drawn,   \* session ids used so far
  closed   \* sign-ins whose grant was closed

vars == <<grants, drawn, closed>>

Grant == [signIn : Sid, user : User, sid : Sid]

TypeOK ==
  /\ grants \subseteq Grant
  /\ drawn \subseteq Sid
  /\ closed \subseteq drawn

Init == grants = {} /\ drawn = {} /\ closed = {}

\* A new grant, its session named by an id never used before.
Open(u, s) ==
  /\ s \notin drawn
  /\ grants' = grants \cup {[signIn |-> s, user |-> u, sid |-> s]}
  /\ drawn' = drawn \cup {s}
  /\ UNCHANGED closed

\* The session of g is replaced; whoever held the old one holds nothing.
HandOn(g, s) ==
  /\ s \notin drawn
  /\ grants' = (grants \ {g}) \cup {[g EXCEPT !.sid = s]}
  /\ drawn' = drawn \cup {s}
  /\ UNCHANGED closed

Close(G) ==
  /\ grants' = grants \ G
  /\ closed' = closed \cup {g.signIn : g \in G}
  /\ UNCHANGED drawn

Next ==
  \/ \E u \in User, s \in Sid : Open(u, s)
  \/ \E g \in grants, s \in Sid : HandOn(g, s)
  \/ \E G \in SUBSET grants : Close(G)

Spec == Init /\ [][Next]_vars

\* A sign-in has one current session, and none once it was closed.
OneCurrentSession ==
  \A g1, g2 \in grants : g1.signIn = g2.signIn => g1 = g2
ClosedStaysClosed == \A g \in grants : g.signIn \notin closed
=============================================================================
