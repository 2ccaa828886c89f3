------------------------------ MODULE Sessions ------------------------------
(***************************************************************************)
(* The way of a request through the middlewares (internal/httpapi/         *)
(* middleware.go, auth.go), logging in with the provider, the table of     *)
(* sessions, logging out and the cleaning job (internal/httpapi/server.go, *)
(* internal/user).  Every browser has several requests under way; they     *)
(* carry the cookies it had when they were sent, and their answers come in *)
(* any order, or never.                                                    *)
(*                                                                         *)
(* A token is a random value nobody else has: it is named for the request  *)
(* that made it, or for the browser that had it from the start.  What the  *)
(* requests are is fixed by a scene; a callback names the flow it ends.    *)
(***************************************************************************)
EXTENDS Naturals, FiniteSets

CONSTANTS
  Request,   \* requests to the API
  Browser,   \* clients, with a jar of cookies each
  User,      \* accounts at the provider
  Scenes,    \* what to look at: the job of each request, and the account
             \* each browser is logged in to at first
  TTL,       \* how long a session lives
  MaxRows,   \* rows a cleaning statement deletes when no number is given
  None, Keep

Token == Request \cup Browser

ASSUME SessionsAssumption ==
  /\ TTL \in Nat \ {0} /\ MaxRows \in Nat \ {0}
  /\ IsFiniteSet(Request) /\ Request \cap Browser = {}
  /\ None \notin Token \cup User /\ Keep \notin Token \cup {None}
  /\ \A s \in Scenes :
       /\ s.user \in [Browser -> User \cup {None}]
       /\ DOMAIN s.job \subseteq Request
       /\ \A r \in DOMAIN s.job :
            /\ s.job[r].by \in Browser /\ s.job[r].user \in User \cup {None}
            /\ s.job[r].kind = "callback" => s.job[r].of \in DOMAIN s.job

VARIABLES
  job,      \* what each request is that will be sent
  pc,       \* where it is
  carry,    \* the cookies it was sent with
  who,      \* the account it was resolved to
  answer,   \* its answer, with the cookies it sets
  cookie,   \* the session cookie of each browser
  flow,     \* its cookies of a login: state, nonce and verifier of a request
  owner,    \* sessions: the account of a row, None without one
  left,     \* expires_at - now() of the row
  spent     \* the provider: flows whose code was exchanged

requests == <<job, pc, carry, who, answer>>
jars == <<cookie, flow>>
table == <<owner, left>>
sessionVars == <<requests, jars, table, spent>>

Nothing == [code |-> None, session |-> Keep, flow |-> Keep]

Kind(r) == job[r].kind
At(r, p) == pc[r] = p
Goto(r, p) == pc' = [pc EXCEPT ![r] = p]
Live(t) == t # None /\ owner[t] # None /\ left[t] > 0

\* A browser may be logged in from before.
SessionsInit ==
  /\ pc = [r \in Request |-> "idle"]
  /\ carry = [r \in Request |-> [session |-> None, flow |-> None]]
  /\ who = [r \in Request |-> None]
  /\ answer = [r \in Request |-> Nothing]
  /\ flow = [b \in Browser |-> None]
  /\ \E s \in Scenes :
       /\ job = s.job
       /\ cookie = [b \in Browser |-> IF s.user[b] = None THEN None ELSE b]
       /\ owner = [t \in Token |-> IF t \in Browser THEN s.user[t] ELSE None]
  /\ left = [t \in Token |-> IF owner[t] = None THEN 0 ELSE TTL]
  /\ spent = {}

\* The answer of r, with the session and flow cookies it sets or clears.
Reply(r, code, s, f) ==
  /\ answer' = [answer EXCEPT ![r] = [code |-> code, session |-> s, flow |-> f]]
  /\ Goto(r, "answered")

Plain(r, code) == Reply(r, code, Keep, Keep)

\* A callback is sent when the provider sends the browser back, which it
\* does after the start of that login was answered.
Send(r) ==
  /\ r \in DOMAIN job /\ At(r, "idle")
  /\ Kind(r) = "callback" => At(job[r].of, "done")
  /\ carry' = [carry EXCEPT ![r] = [session |-> cookie[job[r].by], flow |-> flow[job[r].by]]]
  /\ Goto(r, "sent")
  /\ UNCHANGED <<job, who, answer, jars, table, spent>>

-----------------------------------------------------------------------------
(* The middlewares.                                                        *)

\* csrfGuard: what changes state must name an allowed origin, in Origin or
\* else in Referer.
StateChanging(r) == Kind(r) \in {"logout", "contact", "upload"}
Trusted(r) == job[r].origin = "ours" \/ (job[r].origin = "none" /\ job[r].referer = "ours")

\* bodyLimit, and the validator reading the body past it.
TooLarge(r) == job[r].large

Admitted(r) == (StateChanging(r) => Trusted(r)) /\ ~TooLarge(r)

\* What the API description wants a session for.
NeedsSession(r) == Kind(r) \in {"me", "logout", "upload"}

Turned(r) ==
  /\ At(r, "sent") /\ ~Admitted(r)
  /\ Plain(r, IF StateChanging(r) /\ ~Trusted(r) THEN "403" ELSE "413")
  /\ UNCHANGED <<job, carry, who, jars, table, spent>>

\* resolveSession with its one query, then the check of the description.
Resolved(r, u) ==
  /\ who' = [who EXCEPT ![r] = u]
  /\ IF NeedsSession(r) /\ u = None
     THEN Plain(r, "401")
     ELSE Goto(r, "handler") /\ UNCHANGED answer
  /\ UNCHANGED <<job, carry, jars, table, spent>>

FindLive(t) == IF Live(t) THEN owner[t] ELSE None

\* Mistake: every error of the query makes the visitor anonymous.
ResolveOrAnonymous(r) ==
  /\ At(r, "sent") /\ Admitted(r)
  /\ \E u \in {FindLive(carry[r].session), None} : Resolved(r, u)

\* An error of the database is not taken for a missing session.
ResolveSession(r) ==
  /\ At(r, "sent") /\ Admitted(r)
  /\ \/ Resolved(r, FindLive(carry[r].session))
     \/ /\ carry[r].session # None
        /\ Plain(r, "500")
        /\ UNCHANGED <<job, carry, who, jars, table, spent>>

-----------------------------------------------------------------------------
(* Logging in.                                                             *)

StartGoogleLogin(r) ==
  /\ At(r, "handler") /\ Kind(r) = "start"
  /\ Reply(r, "302", Keep, r)
  /\ UNCHANGED <<job, carry, who, jars, table, spent>>

\* The cookies of the flow are dropped before anything is looked at.
\* Without consent there is no code.
Callback(r) ==
  /\ At(r, "handler") /\ Kind(r) = "callback"
  /\ CASE carry[r].flow = None -> Reply(r, "login_expired", Keep, None)
       [] carry[r].flow \notin {None, job[r].of} -> Reply(r, "state_mismatch", Keep, None)
       [] carry[r].flow = job[r].of /\ job[job[r].of].user = None
            -> Reply(r, "access_denied", Keep, None)
       [] OTHER -> Goto(r, "exchange") /\ UNCHANGED answer
  /\ UNCHANGED <<job, carry, who, jars, table, spent>>

\* The provider takes a code once, with the verifier of its flow, or is out
\* of reach: a 401 in either case.
Exchange(r) ==
  /\ At(r, "exchange")
  /\ \/ /\ carry[r].flow \notin spent
        /\ spent' = spent \cup {carry[r].flow}
        /\ Goto(r, "create") /\ UNCHANGED answer
     \/ Reply(r, "401", Keep, None) /\ UNCHANGED spent
  /\ UNCHANGED <<job, carry, who, jars, table>>

\* Upsert and Create; an error may leave the row behind.
CreateSession(r) ==
  /\ At(r, "create")
  /\ \E stored, ok \in BOOLEAN :
       /\ ok => stored
       /\ owner' = IF stored THEN [owner EXCEPT ![r] = job[job[r].of].user] ELSE owner
       /\ left' = IF stored THEN [left EXCEPT ![r] = TTL] ELSE left
       /\ IF ok THEN Reply(r, "home", r, None) ELSE Reply(r, "login_failed", Keep, None)
  /\ UNCHANGED <<job, carry, who, jars, spent>>

-----------------------------------------------------------------------------
(* With a session.                                                         *)

GetMe(r) ==
  /\ At(r, "handler") /\ Kind(r) = "me"
  /\ Plain(r, "200")
  /\ UNCHANGED <<job, carry, who, jars, table, spent>>

\* Mistake: the cookie is cleared whether the row went or not.
LogoutAnyway(r) ==
  /\ At(r, "handler") /\ Kind(r) = "logout"
  /\ owner' \in {owner, [owner EXCEPT ![carry[r].session] = None]}
  /\ Reply(r, "204", None, Keep)
  /\ UNCHANGED <<job, carry, who, jars, left, spent>>

\* Delete; no row is as good, an error may have deleted it.
Logout(r) ==
  /\ At(r, "handler") /\ Kind(r) = "logout"
  /\ \/ /\ owner' = [owner EXCEPT ![carry[r].session] = None]
        /\ Reply(r, "204", None, Keep)
     \/ /\ owner' \in {owner, [owner EXCEPT ![carry[r].session] = None]}
        /\ Plain(r, "500")
  /\ UNCHANGED <<job, carry, who, jars, left, spent>>

-----------------------------------------------------------------------------
(* The browsers, time and the cleaning job.                                *)

After(old, new) == IF new = Keep THEN old ELSE new

Receive(r) ==
  /\ At(r, "answered")
  /\ Goto(r, "done")
  /\ LET b == job[r].by IN
       /\ cookie' = [cookie EXCEPT ![b] = After(@, answer[r].session)]
       /\ flow' = [flow EXCEPT ![b] = After(@, answer[r].flow)]
  /\ UNCHANGED <<job, carry, who, answer, table, spent>>

\* The answer does not reach the browser.
Lose(r) ==
  /\ At(r, "answered")
  /\ Goto(r, "done")
  /\ UNCHANGED <<job, carry, who, answer, jars, table, spent>>

\* The cookies of a login are kept for ten minutes.
FlowLapses(b) ==
  /\ flow[b] # None
  /\ flow' = [flow EXCEPT ![b] = None]
  /\ UNCHANGED <<requests, cookie, table, spent>>

Down(n) == IF n = 0 THEN 0 ELSE n - 1

SessionsAge == left' = [t \in Token |-> Down(left[t])]

Expired == {t \in Token : owner[t] # None /\ left[t] = 0}

\* Mistake: the number of rows goes to LIMIT as it is.
NotClamped(n) == n

\* clampMaxRows.  The job passes zero.
Clamped(n) == IF n = 0 THEN MaxRows ELSE n

Lesser(a, b) == IF a < b THEN a ELSE b

\* DeleteExpiredSessions; rounds follow until nothing is left.
DeleteExpired ==
  /\ Expired # {}
  /\ \E gone \in SUBSET Expired :
       /\ Cardinality(gone) = Lesser(Clamped(0), Cardinality(Expired))
       /\ owner' = [t \in Token |-> IF t \in gone THEN None ELSE owner[t]]
  /\ UNCHANGED <<requests, jars, left, spent>>

SessionStep(r) ==
  \/ Send(r) \/ Turned(r) \/ ResolveSession(r)
  \/ StartGoogleLogin(r) \/ Callback(r) \/ Exchange(r) \/ CreateSession(r)
  \/ GetMe(r) \/ Logout(r)
  \/ Receive(r) \/ Lose(r)

SessionsNext ==
  \/ \E r \in Request : SessionStep(r)
  \/ \E b \in Browser : FlowLapses(b)
  \/ DeleteExpired

-----------------------------------------------------------------------------
(* Properties.                                                             *)

Answered(r) == pc[r] \in {"answered", "done"}

\* Whoever has a session and has not left it is served as its owner or is
\* told of an error, never as a stranger: neither an error of the database
\* nor the cleaning job logs anybody out.
SignedIn ==
  \A r \in Request :
    Answered(r) /\ Live(carry[r].session) /\ answer[r].code \notin {"403", "413", "500"}
      => who[r] = owner[carry[r].session]

\* Once a logout is answered, its token is worth nothing to any request that
\* has yet to look it up, under way or still to come (one that has done so is
\* served): the cookie is dropped only when the row is gone.
LogoutIsFinal ==
  \A r \in Request :
    Answered(r) /\ Kind(r) = "logout" /\ answer[r].code = "204"
      => ~Live(carry[r].session)
=============================================================================
