------------------------------- MODULE Listing -------------------------------
(***************************************************************************)
(* The pages that show a table of the server: how each loads its rows,     *)
(* what it does with them when the user creates or deletes one or types a  *)
(* search, and how the answers of the server meet on it.                   *)
(*                                                                         *)
(* The pages share one shape and differ in a few choices, so there is one  *)
(* model and a record of choices per page.  The table stands for the rows  *)
(* of one kind; a call is answered at one moment, and its answer arrives   *)
(* at another.                                                             *)
(***************************************************************************)
EXTENDS Integers, FiniteSets

CONSTANTS
  Call,      \* calls of the page in flight at once
  Limit,     \* rows an answer holds (20 users, 5 results of a kind)
  MaxLoads,  \* bound: calls made
  MaxRows    \* bound: rows created

VARIABLES
  page,      \* the page that is open
  table,     \* the rows at the server, by number; the newest is the largest
  born,      \* rows created so far
  view,      \* the rows the page shows
  query,     \* the search the user has typed: whether it is one, and the page
  reload,    \* a load is to start, after a debounce or at once
  call,      \* what each call is doing
  done,      \* calls made so far
  sid,       \* the session AuthContext knows as the current one; 0 elsewhere
  mine,      \* the session that is the current one
  kept,      \* sessionsResource: the answer the Dashboard keeps while it is closed
  away,      \* changes under way whose page the user has left
  \* History, read by no guard:
  old,       \* calls whose answer, or whose closure, is no longer true
  doubt      \* the view holds such an answer, or others have changed the table

vars == <<page, table, born, view, query, reload, call, done, sid, mine, kept, away,
          old, doubt>>

-----------------------------------------------------------------------------
\* The pages.  create: "append" to the rows the handler closed over, "prepend"
\* to those there are, or "reload"; delete: "filter" or "reload"; others, the
\* revocation of all sessions but the current one, the same.  search: the query
\* is sent to the server.  limited: an answer holds Limit rows.

Applications == [create |-> "append", delete |-> "reload", others |-> "none",
                 search |-> FALSE, limited |-> FALSE]
AdminClients == [create |-> "reload", delete |-> "filter", others |-> "none",
                 search |-> FALSE, limited |-> FALSE]
AdminTenants == [create |-> "prepend", delete |-> "none", others |-> "none",
                 search |-> FALSE, limited |-> FALSE]
AdminUsers   == [create |-> "none", delete |-> "filter", others |-> "none",
                 search |-> TRUE, limited |-> TRUE]
Webhooks     == [create |-> "reload", delete |-> "filter", others |-> "none",
                 search |-> FALSE, limited |-> FALSE]
CommandMenu  == [create |-> "none", delete |-> "none", others |-> "none",
                 search |-> TRUE, limited |-> TRUE]
SessionsPage == [create |-> "none", delete |-> "filter", others |-> "filter",
                 search |-> FALSE, limited |-> FALSE]
Dashboard    == [create |-> "none", delete |-> "filter", others |-> "reload",
                 search |-> FALSE, limited |-> FALSE]
AuditPage    == [create |-> "none", delete |-> "none", others |-> "none",
                 search |-> FALSE, limited |-> TRUE]

Pages == {Applications, AdminClients, AdminTenants, AdminUsers, Webhooks, CommandMenu,
          SessionsPage, Dashboard, AuditPage}

-----------------------------------------------------------------------------
Row == 1 .. MaxRows
Query == [search : BOOLEAN, page : {1, 2}]
Plain == [search |-> FALSE, page |-> 1]

Idle  == [op |-> "idle"]
\* What a load fills: the rows of the page, those the Dashboard keeps, or both.
Fills == {"view", "kept", "both"}
Asked == [op : {"load"}, query : Query, fills : Fills]
Load  == [op : {"loaded"}, query : Query, fills : Fills, rows : SUBSET Row]
Made  == [op : {"create"}, before : SUBSET Row]
Shown == [op : {"created"}, before : SUBSET Row, row : Row]
Gone  == [op : {"delete", "deleted"}, row : Row]
Rest  == [op : {"others", "othersGone"}]

TypeOK ==
  /\ page \in Pages
  /\ born \in 0 .. MaxRows /\ table \subseteq 1 .. born
  /\ view \subseteq Row
  /\ query \in Query
  /\ reload \in BOOLEAN
  /\ call \in [Call -> {Idle} \cup Asked \cup Load \cup Made \cup Shown \cup Gone \cup Rest]
  /\ done \in 0 .. MaxLoads
  /\ sid \in 0 .. MaxRows /\ mine \in 0 .. MaxRows
  /\ kept = {} \/ \E rows \in SUBSET Row : kept = {rows}
  /\ away \subseteq Call
  /\ old \subseteq Call \cup {"kept"}
  /\ doubt \in BOOLEAN

\* Every other row matches a search.
Matches(q) == {r \in table : q.search => r % 2 = 0}

\* The newest rows, those of page p.
Newest(rows, p) ==
  {r \in rows : Cardinality({s \in rows : s > r}) \in (p - 1) * Limit .. p * Limit - 1}

\* What the server answers.  A menu without a search asks for nothing.
Answer(q) ==
  CASE page = CommandMenu -> IF q.search THEN Newest(Matches(q), 1) ELSE {}
    [] page = AdminUsers  -> Newest(Matches(q), q.page)
    [] page = AuditPage   -> Newest(table, 1)
    [] OTHER              -> table

Becomes(c, q) == call' = [call EXCEPT ![c] = q]

Starts(c, q) ==
  /\ call[c] = Idle
  /\ done < MaxLoads
  /\ done' = done + 1
  /\ Becomes(c, q)

\* The page opens on one row; its first load is due.
Init ==
  /\ page \in Pages
  /\ born = 1 /\ table = {1}
  /\ view = {}
  /\ query = Plain
  /\ reload = (page # CommandMenu)
  /\ call = [c \in Call |-> Idle]
  /\ done = 0
  /\ mine = (IF page.others # "none" THEN 1 ELSE 0) /\ sid = mine
  /\ kept = {} /\ away = {}
  /\ old = {}
  /\ doubt = FALSE

\* The answers a change of the table makes old.
Answered ==
  {c \in Call : call[c].op = "loaded"} \cup {k \in {"kept"} : kept # {}}

Loads == {c \in Call : call[c].op \in {"load", "loaded"}}

\* The loads of sessionsResource, which outlive the page that began them.
Lasting == {c \in Loads : call[c].fills # "view"}

-----------------------------------------------------------------------------
\* What the user does

\* A letter typed, or another page of the table: the timer starts again.
Type(q) ==
  /\ page.search
  /\ q # query
  /\ q.search # query.search \/ page = CommandMenu => q.page = 1
  /\ query' = q
  /\ reload' = (page = CommandMenu => q.search)
  /\ view' = IF page = CommandMenu /\ ~q.search THEN {} ELSE view
  /\ old' = old \cup {c \in Call : call[c].op \in {"load", "loaded"} /\ call[c].query # q}
  /\ doubt' = (doubt /\ (page = CommandMenu => q.search))
  /\ UNCHANGED <<page, table, born, call, done, sid, mine, kept, away>>

\* useEffect, once the timer has run out or at once.
Reload(c) ==
  /\ reload
  /\ reload' = FALSE
  /\ Starts(c, [op |-> "load", query |-> query,
                fills |-> IF page = Dashboard THEN "both" ELSE "view"])
  /\ UNCHANGED <<page, table, born, view, query, sid, mine, kept, away, old, doubt>>

\* A Dashboard that is rendered again after its resource was dropped loads it
\* anew; its rows, useState's, stay as they are.
Refill(c) ==
  /\ page = Dashboard
  /\ ~reload /\ kept = {} /\ Lasting = {}
  /\ Starts(c, [op |-> "load", query |-> query, fills |-> "kept"])
  /\ UNCHANGED <<page, table, born, view, query, reload, sid, mine, kept, away, old, doubt>>

\* The form is disabled while it is being sent; that of Applications is not.
Create(c) ==
  /\ page.create # "none"
  /\ page.create # "append" =>
       \A d \in Call \ away : call[d].op \notin {"create", "created"}
  /\ born < MaxRows
  /\ Starts(c, [op |-> "create", before |-> view])
  /\ UNCHANGED <<page, table, born, view, query, reload, sid, mine, kept, away, old, doubt>>

\* Revoking the session known as the current one leaves the page instead.
Delete(c, r) ==
  /\ page.delete # "none"
  /\ r \in view /\ r # sid
  /\ Starts(c, [op |-> "delete", row |-> r])
  /\ UNCHANGED <<page, table, born, view, query, reload, sid, mine, kept, away, old, doubt>>

\* Offered when the page shows more than one session.
RevokeOthers(c) ==
  /\ page.others # "none"
  /\ Cardinality(view) > 1
  /\ Starts(c, [op |-> "others"])
  /\ UNCHANGED <<page, table, born, view, query, reload, sid, mine, kept, away, old, doubt>>

-----------------------------------------------------------------------------
\* What the server does

AnswerLoad(c) ==
  /\ call[c].op = "load"
  /\ Becomes(c, [op |-> "loaded", query |-> call[c].query, fills |-> call[c].fills,
                rows |-> Answer(call[c].query)])
  /\ UNCHANGED <<page, table, born, view, query, reload, done, sid, mine, kept, away, old, doubt>>

AnswerCreate(c) ==
  /\ call[c].op = "create"
  /\ born < MaxRows
  /\ born' = born + 1
  /\ table' = table \cup {born'}
  /\ old' = old \cup Answered
  /\ doubt' = (doubt \/ c \in away)
  /\ Becomes(c, [op |-> "created", before |-> call[c].before, row |-> born'])
  /\ UNCHANGED <<page, view, query, reload, done, sid, mine, kept, away>>

AnswerDelete(c) ==
  /\ call[c].op = "delete"
  /\ call[c].row \in table
  /\ table' = table \ {call[c].row}
  /\ old' = old \cup Answered
  /\ doubt' = (doubt \/ c \in away)
  /\ Becomes(c, [call[c] EXCEPT !.op = "deleted"])
  /\ UNCHANGED <<page, born, view, query, reload, done, sid, mine, kept, away>>

AnswerOthers(c) ==
  /\ call[c].op = "others"
  /\ table' = table \cap {mine}
  /\ old' = old \cup Answered
  /\ doubt' = (doubt \/ c \in away)
  /\ Becomes(c, [op |-> "othersGone"])
  /\ UNCHANGED <<page, born, view, query, reload, done, sid, mine, kept, away>>

\* The call fails, before the server acts on it (the row is gone, the name is
\* taken) or after (the answer is lost).  The page says so and keeps its rows, of
\* which some may be missing or gone.  sessionsResource takes a failure for an
\* answer without rows.
CallFails(c) ==
  /\ call[c] # Idle
  /\ Becomes(c, Idle)
  /\ IF c \in Lasting
     THEN kept' = {{}} /\ old' = (old \ {c}) \cup {"kept"}
     ELSE kept' = kept /\ old' = old \ {c}
  /\ away' = away \ {c}
  /\ doubt' = (\/ doubt
               \/ c \in Loads /\ call[c].fills # "kept"
               \/ c \notin Loads \cup away /\ call[c].op \notin {"create", "others"})
  /\ UNCHANGED <<page, table, born, view, query, reload, done, sid, mine>>

\* Somebody else creates or deletes a row.
ElseCreated ==
  /\ born < MaxRows
  /\ born' = born + 1
  /\ table' = table \cup {born'}
  /\ doubt' = TRUE /\ old' = old \cup Answered
  /\ UNCHANGED <<page, view, query, reload, call, done, sid, mine, kept, away>>

ElseDeleted(r) ==
  /\ r # mine
  /\ table' = table \ {r}
  /\ doubt' = TRUE /\ old' = old \cup Answered
  /\ UNCHANGED <<page, born, view, query, reload, call, done, sid, mine, kept, away>>

\* A rotation gives the current session another id.
Rotated ==
  /\ mine \in table
  /\ born < MaxRows
  /\ born' = born + 1 /\ mine' = born'
  /\ table' = (table \ {mine}) \cup {born'}
  /\ doubt' = TRUE /\ old' = old \cup Answered
  /\ UNCHANGED <<page, view, query, reload, call, done, sid, kept, away>>

-----------------------------------------------------------------------------
\* What the page does with an answer

\* The answer to any load replaces the rows, whatever was asked since.
ShowLoaded(c) ==
  /\ call[c].op = "loaded"
  /\ IF call[c].fills = "kept" THEN UNCHANGED <<view, doubt>>
                               ELSE view' = call[c].rows /\ doubt' = (c \in old)
  /\ IF c \in Lasting
     THEN kept' = {call[c].rows} /\ old' = (old \ {c, "kept"}) \cup {k \in {"kept"} : c \in old}
     ELSE kept' = kept /\ old' = old \ {c}
  /\ Becomes(c, Idle)
  /\ UNCHANGED <<page, table, born, query, reload, done, sid, mine, away>>

\* Of a page that was left, the answer is for nobody.
ShowCreated(c) ==
  /\ call[c].op = "created"
  /\ IF c \in away THEN UNCHANGED <<view, reload, doubt>> ELSE
       /\ view' = CASE page.create = "append"  -> call[c].before \cup {call[c].row}
                    [] page.create = "prepend" -> view \cup {call[c].row}
                    [] OTHER                   -> view
       /\ reload' = (reload \/ page.create = "reload")
       /\ doubt' = (\/ doubt
                    \/ page.create = "append" /\ view # call[c].before
                    \/ page.create # "reload" /\ call[c].row \notin table)
  /\ old' = old \ {c} /\ away' = away \ {c}
  /\ Becomes(c, Idle)
  /\ UNCHANGED <<page, table, born, query, done, sid, mine, kept>>

\* sessionsResource = null: the rows kept are dropped, and the answers of the
\* loads under way with them; a Dashboard that waits for one loads again.  Other
\* pages keep nothing.
Drops(c, q) ==
  /\ kept' = {}
  /\ old' = old \ (Lasting \cup {"kept"})
  /\ call' = [d \in Call |-> IF d = c THEN q ELSE IF d \in Lasting THEN Idle ELSE call[d]]

AwaitsResource == \E c \in Lasting : call[c].fills = "both"

\* Mutant: the page does not load again after a deletion.
ShowNoDeletion(c) ==
  /\ call[c].op = "deleted"
  /\ view' = IF page.delete = "filter" /\ c \notin away THEN view \ {call[c].row} ELSE view
  /\ reload' = (reload \/ AwaitsResource)
  /\ Drops(c, Idle)
  /\ away' = away \ {c}
  /\ UNCHANGED <<page, table, born, query, done, sid, mine, doubt>>

ShowDeleted(c) ==
  /\ call[c].op = "deleted"
  /\ view' = IF page.delete = "filter" /\ c \notin away THEN view \ {call[c].row} ELSE view
  /\ reload' = (\/ reload \/ AwaitsResource
                \/ page.delete = "reload" /\ c \notin away)
  /\ Drops(c, Idle)
  /\ away' = away \ {c}
  /\ UNCHANGED <<page, table, born, query, done, sid, mine, doubt>>

\* By the id AuthContext read when the application was opened.  The Dashboard
\* then loads the rows again.
ShowOthersGone(c) ==
  /\ call[c].op = "othersGone"
  /\ reload' = (reload \/ AwaitsResource)
  /\ IF c \in away
     THEN Drops(c, Idle) /\ UNCHANGED <<view, doubt>>
     ELSE /\ view' = view \cap {sid}
          /\ doubt' = (doubt \/ sid # mine \/ table # {mine})
          /\ Drops(c, IF page.others = "reload"
                      THEN [op |-> "load", query |-> query, fills |-> "view"] ELSE Idle)
  /\ away' = away \ {c}
  /\ UNCHANGED <<page, table, born, query, done, sid, mine>>

-----------------------------------------------------------------------------
\* Leaving a page

\* Of the calls under way, the Dashboard that opens waits for the load of its
\* resource; the rows of the other loads are for nobody; changes go on.
Opens(left) ==
  /\ view' = UNION kept
  /\ reload' = (kept = {} /\ Lasting = {})
  /\ query' = Plain
  /\ call' = [c \in Call |-> CASE c \in Lasting         -> [left[c] EXCEPT !.fills = "both"]
                             [] c \in Loads \ Lasting -> Idle
                             [] OTHER                  -> left[c]]
  /\ away' = {c \in Call \ Loads : call[c] # Idle}

\* The user leaves the page and comes back.  (The CommandMenu is part of every
\* page: to open it again is to Type nothing.)
Reopen ==
  /\ page # CommandMenu
  /\ Opens(call)
  /\ old' = old \cap (Lasting \cup {"kept"})
  /\ doubt' = ("kept" \in old)
  /\ UNCHANGED <<page, table, born, done, sid, mine, kept>>

\* The user signs out and another one signs in, on the same page: what the
\* Dashboard kept, and what it was loading, are sessions of the first account;
\* what was asked of the server is answered there.
OtherAccount(c) ==
  CASE call[c].op = "load"   -> [op |-> "loaded", query |-> call[c].query,
                                 fills |-> call[c].fills, rows |-> table]
    [] call[c].op = "delete" -> [call[c] EXCEPT !.op = "deleted"]
    [] call[c].op = "others" -> [op |-> "othersGone"]
    [] OTHER                 -> call[c]

SwitchAccount ==
  /\ page = Dashboard
  /\ born < MaxRows
  /\ born' = born + 1 /\ mine' = born' /\ sid' = born' /\ table' = {born'}
  /\ Opens([c \in Call |-> OtherAccount(c)])
  /\ old' = Lasting \cup {k \in {"kept"} : kept # {}}
  /\ doubt' = (kept # {})
  /\ UNCHANGED <<page, done, kept>>

Next ==
  \/ \E c \in Call :
       \/ Reload(c) \/ Refill(c) \/ Create(c) \/ RevokeOthers(c) \/ \E r \in view : Delete(c, r)
       \/ AnswerLoad(c) \/ AnswerCreate(c) \/ AnswerDelete(c) \/ AnswerOthers(c) \/ CallFails(c)
       \/ ShowLoaded(c) \/ ShowCreated(c) \/ ShowDeleted(c) \/ ShowOthersGone(c)
  \/ \E q \in Query : Type(q)
  \/ ElseCreated \/ Rotated \/ Reopen \/ SwitchAccount
  \/ \E r \in table : ElseDeleted(r)

Spec == Init /\ [][Next]_vars

-----------------------------------------------------------------------------
\* When nothing is under way, the page shows what the server would answer to
\* the search typed (on a limited page, some of it: rows that exist and match):
\* unless, since its rows were loaded, a call failed, its answer was lost or
\* somebody else changed the table; or the rows come from an answer that a later
\* change, a later search or the sign-in of another account had made old; or the
\* page was left with a change under way, which the page that opens next knows
\* nothing of.
ViewIsAnswer ==
  ~doubt /\ ~reload /\ (\A c \in Call : call[c] = Idle) =>
    IF page.limited THEN view \subseteq Matches(query) ELSE view = Answer(query)
=============================================================================
