------------------------------ MODULE Account ------------------------------
(***************************************************************************)
(* One account, everything that changes its row, the profile of it that    *)
(* Redis caches for GET /auth/me, and the copy of that profile the web     *)
(* application shows.                                                      *)
(*                                                                         *)
(* The handlers interleave at their awaits, so each is a request with one  *)
(* phase per database or Redis call, as in Sessions.  The scripts that     *)
(* make administrators are processes of their own and take part as well.   *)
(***************************************************************************)
EXTENDS Integers, FiniteSets

CONSTANTS
  Request,     \* handlers and scripts in flight at once
  Provider,    \* social accounts that can be linked
  Mail,        \* tokens randomBytes may draw for e-mails
  Method,      \* ids of TOTP rows
  MaxCalls,    \* bound: calls started
  MaxCrashes   \* bound: restarts of the process

ASSUME AccountBounds == MaxCalls \in Nat /\ MaxCrashes \in Nat

VARIABLES
  user,       \* the row of the account: name (a version), verified, password
              \* (whether it has one), links, admin
  methods,    \* TOTP rows of mfa_methods, by id
  cache,      \* hub:user:<id>:profile
  mail,       \* tokens in Redis, with the kind of key they are under
  screen,     \* the profile the pages show
  req,        \* what each request is doing
  calls,      \* calls started so far
  crashes,    \* restarts so far
  \* History, read by no guard:
  drawn,      \* mail tokens drawn so far
  used,       \* how often a mail token has had its effect
  excused,    \* mail tokens two requests held at once, or that were not
              \* deleted when they had their effect
  silent,     \* fields written since the cached profile was read, by someone
              \* who will not delete it
  proved,     \* TOTP secrets the user has shown a code of
  overtaken,  \* requests that hold a read some other request made untrue
  strayed     \* what such requests have written: TOTP rows, or "links"

history == <<drawn, used, excused, silent, proved, overtaken, strayed>>
vars == <<user, methods, cache, mail, screen, req, calls, crashes, history>>

Name == 0 .. MaxCalls  \* 0 is none
Secret == 1 .. MaxCalls
Kind == {"verify", "reset"}
Field == {"name", "verified", "password", "links", "admin", "totp"}

Row == [name : Name, verified : BOOLEAN, password : BOOLEAN,
        links : SUBSET Provider, admin : BOOLEAN]
Profile == [name : Name, verified : BOOLEAN, password : BOOLEAN,
            links : SUBSET Provider, admin : BOOLEAN, totp : BOOLEAN]

\* "partial" is what login stores: me does not find passwordHash in it.
NotCached == {[kind |-> "none"], [kind |-> "partial"]}
Cached == [kind : {"full"}, profile : Profile]

Idle     == [op |-> "idle"]
Refresh  == [op : {"refresh"}, admin : BOOLEAN]
Fill     == [op : {"fill"}, admin : BOOLEAN, profile : Profile]
Announce == [op : {"announce"}, fields : SUBSET Field, then : {"refresh", "end"}]
Redeem   == [op : {"redeem", "spend"}, mail : Mail, kind : Kind]
Enrol    == [op : {"enrol"}, found : SUBSET Method]
Confirm  == [op : {"confirm"}, method : Method]
Provided == [op : {"unlink", "upsert"}, provider : Provider]
Social   == [op : {"social"}, provider : Provider, missing : SUBSET {"name", "verified"}]

TypeOK ==
  /\ user \in Row
  /\ DOMAIN methods \subseteq Method
  /\ methods \in [DOMAIN methods -> [secret : Secret, enabled : BOOLEAN]]
  /\ cache \in NotCached \cup Cached
  /\ DOMAIN mail \subseteq drawn /\ drawn \subseteq Mail
  /\ mail \in [DOMAIN mail -> Kind]
  /\ screen \in Profile
  /\ req \in [Request -> {Idle} \cup Refresh \cup Fill \cup Announce \cup Redeem
                           \cup Enrol \cup Confirm \cup Provided \cup Social]
  /\ calls \in 0 .. MaxCalls
  /\ crashes \in 0 .. MaxCrashes
  /\ used \in [Mail -> Nat]
  /\ excused \subseteq Mail
  /\ silent \subseteq Field
  /\ proved \subseteq Secret
  /\ overtaken \subseteq Request
  /\ strayed \subseteq Method \cup {"links"}

-----------------------------------------------------------------------------
TotpOn == \E m \in DOMAIN methods : methods[m].enabled

\* What me selects.
Current == [name |-> user.name, verified |-> user.verified, password |-> user.password,
            links |-> user.links, admin |-> user.admin, totp |-> TotpOn]

Difference(p, q) == {f \in Field : p[f] # q[f]}

Becomes(r, q) == req' = [req EXCEPT ![r] = q]

Starts(r, q) ==
  /\ req[r] = Idle
  /\ calls < MaxCalls
  /\ calls' = calls + 1
  /\ Becomes(r, q)

\* A page asks for the profile.
Asking == [op |-> "refresh", admin |-> user.admin]

\* Fields a request has written and is yet to delete the cached profile for.
Effect(kind) == IF kind = "verify" THEN {"verified"} ELSE {"password"}
Pending(r) ==
  CASE req[r].op = "announce" -> req[r].fields
    [] req[r].op = "spend"    -> Effect(req[r].kind)
    [] OTHER                  -> {}

Init ==
  /\ user \in [name : {0}, verified : {FALSE}, password : BOOLEAN,
               links : {{}, Provider}, admin : {FALSE}]
  /\ user.password \/ user.links # {}
  /\ methods = [m \in {} |-> m]
  /\ cache = [kind |-> "none"]
  /\ mail = [m \in {} |-> m]
  /\ screen = Current
  /\ req = [r \in Request |-> Idle]
  /\ calls = 0
  /\ crashes = 0
  /\ drawn = {} /\ used = [m \in Mail |-> 0] /\ excused = {}
  /\ silent = {} /\ proved = {} /\ overtaken = {} /\ strayed = {}

-----------------------------------------------------------------------------
\* refreshProfile: me and role-check at once, then setUser

\* role-check reads the row, at any time while r waits for both answers.
RoleCheck(r) == {req[r].admin, user.admin}

\* setUser with what me answered and the roles role-check did.
Show(profile, roles) == \E admin \in roles : screen' = [profile EXCEPT !.admin = admin]

RefreshProfile(r) ==
  /\ Starts(r, Asking)
  /\ UNCHANGED <<user, methods, cache, mail, screen, crashes, history>>

MeCached(r) ==
  /\ req[r].op = "refresh"
  /\ cache.kind = "full"
  /\ Show(cache.profile, RoleCheck(r))
  /\ Becomes(r, Idle)
  /\ UNCHANGED <<user, methods, cache, mail, calls, crashes, drawn, used, excused, silent,
                 proved, overtaken, strayed>>

MeReads(r) ==
  /\ req[r].op = "refresh"
  /\ cache.kind # "full"
  /\ Becomes(r, [op |-> "fill", admin |-> req[r].admin, profile |-> Current])
  /\ UNCHANGED <<user, methods, cache, mail, screen, calls, crashes, history>>

\* setex with the row as it was read, whatever happened since.
MeFills(r) ==
  /\ req[r].op = "fill"
  /\ cache' = [kind |-> "full", profile |-> req[r].profile]
  /\ silent' = Difference(req[r].profile, Current)
  /\ Show(req[r].profile, RoleCheck(r))
  /\ Becomes(r, Idle)
  /\ UNCHANGED <<user, methods, mail, calls, crashes, drawn, used, excused,
                 proved, overtaken, strayed>>

\* redis.del of the cached profile; a page that waits for it then refreshes.
DropCached(r) ==
  /\ req[r].op = "announce"
  /\ cache' = [kind |-> "none"]
  /\ silent' = {}
  /\ Becomes(r, IF req[r].then = "refresh" THEN Asking ELSE Idle)
  /\ UNCHANGED <<user, methods, mail, screen, calls, crashes, drawn, used, excused,
                 proved, overtaken, strayed>>

CacheExpires ==
  /\ cache.kind # "none"
  /\ cache' = [kind |-> "none"]
  /\ silent' = {}
  /\ UNCHANGED <<user, methods, mail, screen, req, calls, crashes, drawn, used, excused,
                 proved, overtaken, strayed>>

\* login stores what it has read of the user.
LoginCaches(r) ==
  /\ req[r] = Idle /\ calls < MaxCalls /\ calls' = calls + 1
  /\ cache' = [kind |-> "partial"]
  /\ silent' = {}
  /\ UNCHANGED <<user, methods, mail, screen, req, crashes, drawn, used, excused,
                 proved, overtaken, strayed>>

-----------------------------------------------------------------------------
\* Writers of the row

\* The Profile page: PATCH /auth/profile, then refreshProfile.
UpdateProfile(r) ==
  /\ Starts(r, [op |-> "announce", fields |-> {"name"}, then |-> "refresh"])
  /\ user' = [user EXCEPT !.name = @ + 1]
  /\ UNCHANGED <<methods, cache, mail, screen, crashes, drawn, used, excused, silent,
                 proved, overtaken, strayed>>

\* The page hands login() the user of the reply, which lacks the other fields.
Bare(name) == [name |-> name, verified |-> FALSE, password |-> FALSE,
               links |-> {}, admin |-> FALSE, totp |-> FALSE]

CompleteProfile(r) ==
  /\ req[r] = Idle /\ calls < MaxCalls /\ calls' = calls + 1
  /\ user' = [user EXCEPT !.name = @ + 1]
  /\ silent' = silent \cup {"name"}
  /\ screen' = Bare(user.name + 1)
  /\ UNCHANGED <<methods, cache, mail, req, crashes, drawn, used, excused,
                 proved, overtaken, strayed>>

\* ChangePassword: neither the handler nor the page refreshes anything.
UpdatePassword(r) ==
  /\ req[r] = Idle /\ calls < MaxCalls /\ calls' = calls + 1
  /\ user' = [user EXCEPT !.password = TRUE]
  /\ silent' = silent \cup {"password"}
  /\ UNCHANGED <<methods, cache, mail, screen, req, crashes, drawn, used, excused,
                 proved, overtaken, strayed>>

\* A social callback with mode=link upserts the link; the page it redirects to
\* mounts the provider, which refreshes.
LinkProvider(r, p) ==
  /\ Starts(r, Asking)
  /\ p \notin screen.links
  /\ user' = [user EXCEPT !.links = @ \cup {p}]
  /\ silent' = IF p \in user.links THEN silent ELSE silent \cup {"links"}
  /\ UNCHANGED <<methods, cache, mail, screen, crashes, drawn, used, excused,
                 proved, overtaken, strayed>>

\* A social callback that signs in to the account finds what the row lacks of
\* what the provider knows.  GitHub always says the e-mail is verified, Google
\* may not; either may not know the name.
SocialSignIn(r, p, known) ==
  /\ LET missing == known \cap ((IF user.name = 0 THEN {"name"} ELSE {}) \cup
                                (IF user.verified THEN {} ELSE {"verified"}))
     IN  Starts(r, IF missing = {} THEN [op |-> "upsert", provider |-> p]
                   ELSE [op |-> "social", provider |-> p, missing |-> missing])
  /\ UNCHANGED <<user, methods, cache, mail, screen, crashes, history>>

\* What was missing is written, even if it is there by now.
SocialUpdate(r) ==
  /\ req[r].op = "social"
  /\ LET missing == req[r].missing
     IN  /\ user' = [user EXCEPT !.name = IF "name" \in missing THEN calls ELSE @,
                                 !.verified = @ \/ "verified" \in missing]
         /\ silent' = silent \cup missing
  /\ Becomes(r, [op |-> "upsert", provider |-> req[r].provider])
  /\ UNCHANGED <<methods, cache, mail, screen, calls, crashes, drawn, used, excused,
                 proved, overtaken, strayed>>

\* A link that belongs to another account stays there.
UpsertLink(r) ==
  /\ req[r].op = "upsert"
  /\ \E links \in {user.links, user.links \cup {req[r].provider}} :
       /\ user' = [user EXCEPT !.links = links]
       /\ silent' = IF links = user.links THEN silent ELSE silent \cup {"links"}
  /\ Becomes(r, Idle)
  /\ UNCHANGED <<methods, cache, mail, screen, calls, crashes, drawn, used, excused,
                 proved, overtaken, strayed>>

\* db/make-admin.ts deletes the cached profile, db/elevate-admin.ts a key
\* that me does not use.
MakeAdmin(r) ==
  /\ Starts(r, [op |-> "announce", fields |-> {"admin"}, then |-> "end"])
  /\ user' = [user EXCEPT !.admin = TRUE]
  /\ UNCHANGED <<methods, cache, mail, screen, crashes, drawn, used, excused, silent,
                 proved, overtaken, strayed>>

ElevateAdmin(r) ==
  /\ req[r] = Idle /\ calls < MaxCalls /\ calls' = calls + 1
  /\ user' = [user EXCEPT !.admin = TRUE]
  /\ silent' = silent \cup {"admin"}
  /\ UNCHANGED <<methods, cache, mail, screen, req, crashes, drawn, used, excused,
                 proved, overtaken, strayed>>

-----------------------------------------------------------------------------
\* Tokens sent by e-mail

SendMail(r, m, kind) ==
  /\ req[r] = Idle /\ calls < MaxCalls /\ calls' = calls + 1
  /\ kind = "verify" => ~user.verified
  /\ m \notin drawn
  /\ drawn' = drawn \cup {m}
  /\ mail' = [x \in DOMAIN mail \cup {m} |-> IF x = m THEN kind ELSE mail[x]]
  /\ UNCHANGED <<user, methods, cache, screen, req, crashes, used, excused, silent,
                 proved, overtaken, strayed>>

\* The requests that have read token m and not deleted it.
Holders(m) == {q \in Request : req[q].op \in {"redeem", "spend"} /\ req[q].mail = m}

RedeemMail(r, m) ==
  /\ m \in DOMAIN mail
  /\ Starts(r, [op |-> "redeem", mail |-> m, kind |-> mail[m]])
  /\ excused' = IF Holders(m) # {} THEN excused \cup {m} ELSE excused
  /\ UNCHANGED <<user, methods, cache, mail, screen, crashes, drawn, used, silent, proved,
                 overtaken, strayed>>

\* The row is written whether or not the token is still in Redis.
WriteRedeemed(r) ==
  /\ req[r].op = "redeem"
  /\ LET m == req[r].mail
     IN  /\ IF req[r].kind = "verify"
            THEN user' = [user EXCEPT !.verified = TRUE]
            ELSE user' = [user EXCEPT !.password = TRUE]
         /\ used' = [used EXCEPT ![m] = @ + 1]
  /\ Becomes(r, [req[r] EXCEPT !.op = "spend"])
  /\ UNCHANGED <<methods, cache, mail, screen, calls, crashes, drawn, excused, silent, proved,
                 overtaken, strayed>>

Without(f, x) == [y \in DOMAIN f \ {x} |-> f[y]]

\* Mutants: the token stays in Redis; or the cached profile stays.
KeepMail(r) ==
  /\ req[r].op = "spend"
  /\ Becomes(r, [op |-> "announce", fields |-> Effect(req[r].kind), then |-> "end"])
  /\ UNCHANGED <<user, methods, cache, mail, screen, calls, crashes, history>>

SpendMailOnly(r) ==
  /\ req[r].op = "spend"
  /\ mail' = Without(mail, req[r].mail)
  /\ Becomes(r, Idle)
  /\ UNCHANGED <<user, methods, cache, screen, calls, crashes, history>>

\* Of two that try, one has nothing left to delete.
SpendMail(r) ==
  /\ req[r].op = "spend"
  /\ mail' = Without(mail, req[r].mail)
  /\ Becomes(r, [op |-> "announce", fields |-> Effect(req[r].kind), then |-> "end"])
  /\ UNCHANGED <<user, methods, cache, screen, calls, crashes, history>>

MailExpires(m) ==
  /\ m \in DOMAIN mail
  /\ mail' = Without(mail, m)
  /\ UNCHANGED <<user, methods, cache, screen, req, calls, crashes, history>>

-----------------------------------------------------------------------------
\* TOTP

\* Mutant: enrolment does not look whether TOTP is enabled.
EnrolTotpAnyway(r) ==
  /\ \E found \in SUBSET DOMAIN methods :
       /\ Cardinality(found) = IF DOMAIN methods = {} THEN 0 ELSE 1
       /\ Starts(r, [op |-> "enrol", found |-> found])
  /\ UNCHANGED <<user, methods, cache, mail, screen, crashes, history>>

\* findFirst has no order: any TOTP row, or none when there is none.  One that
\* is enabled ends the request, here and in verifyTotp.
EnrolTotp(r) ==
  /\ \E found \in SUBSET DOMAIN methods :
       /\ Cardinality(found) = IF DOMAIN methods = {} THEN 0 ELSE 1
       /\ \A m \in found : ~methods[m].enabled
       /\ Starts(r, [op |-> "enrol", found |-> found])
  /\ UNCHANGED <<user, methods, cache, mail, screen, crashes, history>>

\* A new secret in the row found, or in a new row; not enabled.
StoreSecret(r) ==
  /\ req[r].op = "enrol"
  /\ \E m \in Method :
       /\ IF req[r].found = {} THEN m \notin DOMAIN methods ELSE m \in req[r].found
       /\ methods' = [x \in DOMAIN methods \cup {m} |->
                        IF x = m THEN [secret |-> calls, enabled |-> FALSE] ELSE methods[x]]
       /\ strayed' = IF r \in overtaken THEN strayed \cup {m} ELSE strayed
       /\ overtaken' = (overtaken \ {r}) \cup
                         {q \in Request : req[q].op = "confirm" /\ req[q].method = m}
  /\ silent' = IF TotpOn # (\E m \in DOMAIN methods' : methods'[m].enabled)
               THEN silent \cup {"totp"} ELSE silent
  /\ Becomes(r, Idle)
  /\ UNCHANGED <<user, cache, mail, screen, calls, crashes, drawn, used, excused, proved>>

\* Mutant: the code is not looked at.
VerifyTotpUnproved(r, m) ==
  /\ m \in DOMAIN methods
  /\ ~methods[m].enabled
  /\ Starts(r, [op |-> "confirm", method |-> m])
  /\ UNCHANGED <<user, methods, cache, mail, screen, crashes, history>>

\* The code sent is one of the secret read.
VerifyTotp(r, m) ==
  /\ m \in DOMAIN methods
  /\ ~methods[m].enabled
  /\ Starts(r, [op |-> "confirm", method |-> m])
  /\ proved' = proved \cup {methods[m].secret}
  /\ UNCHANGED <<user, methods, cache, mail, screen, crashes, drawn, used, excused, silent,
                 overtaken, strayed>>

\* Nothing deletes the cached profile, which still says TOTP is off.
EnableTotp(r) ==
  /\ req[r].op = "confirm"
  /\ LET m == req[r].method
     IN  /\ methods' = [methods EXCEPT ![m].enabled = TRUE]
         /\ strayed' = IF r \in overtaken THEN strayed \cup {m} ELSE strayed
         /\ overtaken' = (overtaken \ {r}) \cup
                           {q \in Request : req[q].op = "enrol" /\ m \in req[q].found}
  /\ silent' = silent \cup {"totp"}
  /\ Becomes(r, Idle)
  /\ UNCHANGED <<user, cache, mail, screen, calls, crashes, drawn, used, excused, proved>>

-----------------------------------------------------------------------------
\* DELETE /auth/providers/:id, from the Dashboard

\* Mutant: the count includes the link about to go.
CanUnlinkMiscounted(p) == user.password \/ Cardinality(user.links) > 0

\* The safety valve, judged by the row read.
CanUnlink(p) == user.password \/ user.links # {p}

\* A page that knows of a password has it verified first.
ReAuthenticated == screen.password => user.password

\* The Dashboard offers the links it shows; one that is gone is not found.
UnlinkProvider(r, p) ==
  /\ p \in screen.links /\ ReAuthenticated
  /\ p \in user.links
  /\ CanUnlink(p)
  /\ Starts(r, [op |-> "unlink", provider |-> p])
  /\ UNCHANGED <<user, methods, cache, mail, screen, crashes, history>>

\* Of a link that is gone, delete throws: then only Fails is left.
DeleteLink(r) ==
  /\ req[r].op = "unlink"
  /\ LET p == req[r].provider
     IN  /\ p \in user.links
         /\ user' = [user EXCEPT !.links = @ \ {p}]
  /\ strayed' = IF r \in overtaken THEN strayed \cup {"links"} ELSE strayed
  /\ overtaken' = (overtaken \ {r}) \cup
                    {q \in Request \ {r} : req[q].op = "unlink"}
  /\ Becomes(r, [op |-> "announce", fields |-> {"links"}, then |-> "refresh"])
  /\ UNCHANGED <<methods, cache, mail, screen, calls, crashes, drawn, used, excused, silent,
                 proved>>

-----------------------------------------------------------------------------
\* A call to the database or to Redis rejects and ends the handler, or the
\* script: the deletion of a link that is gone, or of the sessions or the token
\* after a reset.  What the handler was still to delete stays.  (A refresh that
\* fails has changed nothing here; the page then shows no user, as in ApiClient.)
Fails(r) ==
  /\ req[r].op \notin {"idle", "refresh", "fill"}
  /\ silent' = silent \cup Pending(r)
  /\ excused' = IF req[r].op = "spend" THEN excused \cup {req[r].mail} ELSE excused
  /\ overtaken' = overtaken \ {r}
  /\ Becomes(r, Idle)
  /\ UNCHANGED <<user, methods, cache, mail, screen, calls, crashes, drawn, used, proved, strayed>>

\* A restart forgets the requests; what they would have deleted stays.
Crash ==
  /\ crashes < MaxCrashes
  /\ crashes' = crashes + 1
  /\ silent' = silent \cup UNION {Pending(r) : r \in Request}
  /\ excused' = excused \cup {req[r].mail : r \in {q \in Request : req[q].op = "spend"}}
  /\ req' = [r \in Request |-> Idle]
  /\ overtaken' = {}
  /\ UNCHANGED <<user, methods, cache, mail, screen, calls, drawn, used, proved, strayed>>

Next ==
  \/ \E r \in Request :
       \/ RefreshProfile(r) \/ MeCached(r) \/ MeReads(r) \/ MeFills(r) \/ DropCached(r)
       \/ LoginCaches(r) \/ UpdateProfile(r) \/ CompleteProfile(r) \/ UpdatePassword(r)
       \/ MakeAdmin(r) \/ ElevateAdmin(r)
       \/ WriteRedeemed(r) \/ SpendMail(r)
       \/ EnrolTotp(r) \/ StoreSecret(r) \/ EnableTotp(r)
       \/ DeleteLink(r) \/ SocialUpdate(r) \/ UpsertLink(r) \/ Fails(r)
       \/ \E m \in Mail : RedeemMail(r, m) \/ \E kind \in Kind : SendMail(r, m, kind)
       \/ \E m \in Method : VerifyTotp(r, m)
       \/ \E p \in Provider : LinkProvider(r, p) \/ UnlinkProvider(r, p)
            \/ \E known \in SUBSET {"name", "verified"} : SocialSignIn(r, p, known)
  \/ \E m \in Mail : MailExpires(m)
  \/ CacheExpires
  \/ Crash

Spec == Init /\ [][Next]_vars

-----------------------------------------------------------------------------
\* A cached profile differs from the row only in what a writer who does not
\* delete it wrote since it was read, in what a failure or a restart kept a
\* writer from announcing, or while the deletion is under way (updateProfile's
\* "clear the cache so /me reflects changes immediately").
CachedProfileFollows ==
  cache.kind = "full" =>
    Difference(cache.profile, Current) \subseteq silent \cup UNION {Pending(r) : r \in Request}

\* A token sent by e-mail has its effect once, unless two requests held it at
\* once, or one that had its effect failed or was lost before its deletion.
MailTokensOnce == \A m \in Mail : used[m] > 1 => m \in excused

\* unlinkProvider's safety valve: the account keeps a password or a linked
\* account, unless two unlinks overlapped.
SignInKept == user.password \/ user.links # {} \/ "links" \in strayed

\* A TOTP row is enabled with a secret the user has shown a code of, unless an
\* enrolment replaced it while verifyTotp was about to enable it.
EnabledSecretProved ==
  \A m \in DOMAIN methods : methods[m].enabled => methods[m].secret \in proved \/ m \in strayed

\* TOTP, once on, is turned off by nobody but an enrolment that read its row
\* before it was enabled.
TotpStaysOn ==
  [][TotpOn /\ ~TotpOn' => \E r \in overtaken : req[r].op = "enrol" /\ req'[r] = Idle]_vars
=============================================================================
