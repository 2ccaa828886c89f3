----------------------------- MODULE Moderation -----------------------------
(***************************************************************************)
(* Roles, deletions and reports: the requests that administrators,         *)
(* moderators and users send (internal/moderation), as concurrent          *)
(* transactions on the rows of users, threads or comments, and reports.    *)
(*                                                                         *)
(* PostgreSQL at READ COMMITTED is modelled from how the queries use it:   *)
(* each statement sees what is committed when it starts, row locks last    *)
(* until the end of the transaction, and a transaction in a deadlock is    *)
(* rolled back.                                                            *)
(***************************************************************************)
EXTENDS Naturals, Sequences, FiniteSets, FiniteSetsExt

CONSTANTS
  User,
  Item,       \* threads, comments and images that can be deleted
  Request,
  None,
  Scenes,     \* who has which role at first, and what is asked
  MaxFails    \* bound: requests that lose their connection

Roles == {"user", "moderator", "admin"}
Reasons == {"spam", "abuse"}  \* two of the four, to tell reports apart
Verdicts == {"resolved", "rejected"}

Job ==
  [kind : {"role"}, actor : User, target : User, to : Roles]
    \cup [kind : {"login"}, actor : User, target : User, to : {"admin"}]
    \cup [kind : {"delete", "own"}, actor : User, target : Item, to : {None}]
    \cup [kind : {"report"}, actor : User, target : Item, to : Reasons]
    \cup [kind : {"resolve"}, actor : User, target : User \X Item, to : Verdicts]

\* by is resolved_by.
Report == [reason : Reasons, status : Verdicts \cup {"open"}, by : User \cup {None}]

ASSUME ModerationAssumption ==
  /\ IsFiniteSet(User)
  /\ None \notin Report
  /\ MaxFails \in Nat
  /\ Scenes \subseteq [role : [User -> Roles], job : [Request -> Job]]
  /\ \A s \in Scenes : \E u \in User : s.role[u] = "admin"

VARIABLES
  scene,     \* the initial roles and the requests
  pc,        \* where each request is, or how it ended; "ok": it took effect
  role,      \* users.role, committed
  alive,     \* items whose deleted_at is null, committed
  reports,   \* rows of reports, None where there is none
  log,       \* requests in the order of moderation_actions.id
  locks,     \* row locks of the transaction of each request
  rows,      \* LockAdminsAndCount: rows of its snapshot not locked yet
  counted,   \* LockAdminsAndCount: rows locked and still admin
  found,     \* what FindRole returned
  lost,      \* requests that took effect and were answered with an error
  overtaken  \* history: an admin was demoted by a request that had found
             \* somebody who was not one

store == <<role, alive, reports>>
counting == <<rows, counted, found>>
vars == <<scene, store, pc, log, locks, counting, lost, overtaken>>

Answers == {"ok", "denied", "lastAdmin", "notFound", "duplicate", "error"}
Steps == {"counting", "locking", "changing", "deleting", "recording",
          "committing", "withdrawing", "checking", "filing", "resolving"}

Kind(r) == scene.job[r].kind
Actor(r) == scene.job[r].actor
Target(r) == scene.job[r].target
To(r) == scene.job[r].to

Admins == {u \in User : role[u] = "admin"}

Init ==
  /\ scene \in Scenes
  /\ pc = [r \in Request |-> "new"]
  /\ role = scene.role
  /\ alive = Item
  /\ reports = [k \in User \X Item |-> None]
  /\ log = <<>>
  /\ locks = [r \in Request |-> {}]
  /\ rows = [r \in Request |-> {}]
  /\ counted = [r \in Request |-> {}]
  /\ found = [r \in Request |-> "user"]
  /\ lost = {}
  /\ overtaken = FALSE

Goto(r, p) == pc' = [pc EXCEPT ![r] = p]

Failures == Cardinality({q \in Request : pc[q] = "error"} \cup lost)

\* A request takes effect; the connection may break after the COMMIT, of a
\* statement that is its own transaction too, and the client gets an error.
Succeed(r) ==
  /\ Goto(r, "ok")
  /\ \/ UNCHANGED lost
     \/ Failures < MaxFails /\ lost' = lost \cup {r}

-----------------------------------------------------------------------------
(* Row locks: FOR UPDATE ("update"), an UPDATE of other columns than keys  *)
(* ("write"), and the check of a foreign key ("key").                      *)

Modes == {"update", "write", "key"}

Conflict(m, n) == m = "update" \/ n = "update" \/ (m = "write" /\ n = "write")

Holders(r, row, mode) ==
  {q \in Request \ {r} : \E l \in locks[q] : l[1] = row /\ Conflict(mode, l[2])}

Lock(r, row, mode) ==
  /\ Holders(r, row, mode) = {}
  /\ locks' = [locks EXCEPT ![r] = @ \cup {<<row, mode>>}]

Unlock(r) == locks' = [locks EXCEPT ![r] = {}]

\* What the statement of a transaction may have to wait for; one that is a
\* transaction of its own waits holding nothing, and cannot be in a cycle.
Needs(r) ==
  CASE pc[r] = "locking" -> rows[r] \X {"update"}
    [] pc[r] \in {"changing", "deleting"} -> {<<Target(r), "write">>}
    [] pc[r] = "recording" -> {<<Actor(r), "key">>}
    [] OTHER -> {}

WaitsFor(r) == UNION {Holders(r, n[1], n[2]) : n \in Needs(r)}

\* A cycle of waits leads back to the request.
Deadlocked(r) ==
  LET reach[n \in Nat] ==
        IF n = 0 THEN WaitsFor(r)
        ELSE LET near == reach[n - 1] IN near \cup UNION {WaitsFor(q) : q \in near}
  IN  WaitsFor(r) # {} /\ r \in reach[Cardinality(Request)]

-----------------------------------------------------------------------------
(* Authentication reads the role; it is not read again.                    *)

Permitted(r) ==
  CASE Kind(r) = "role" -> role[Actor(r)] = "admin" /\ Target(r) # Actor(r)
    [] Kind(r) \in {"delete", "resolve"} -> role[Actor(r)] \in {"moderator", "admin"}
    [] OTHER -> TRUE

\* Only a change to another role than admin counts the admins.
FirstStep(r) ==
  CASE Kind(r) = "role" -> IF To(r) = "admin" THEN "changing" ELSE "counting"
    [] Kind(r) = "delete" -> "deleting"
    [] Kind(r) = "own" -> "withdrawing"
    [] Kind(r) = "report" -> "checking"
    [] Kind(r) = "resolve" -> "resolving"

Authenticate(r) ==
  /\ pc[r] = "new" /\ Kind(r) # "login"
  /\ Goto(r, IF Permitted(r) THEN FirstStep(r) ELSE "denied")
  /\ UNCHANGED <<scene, store, log, locks, counting, lost, overtaken>>

\* A login of the bootstrap account: PromoteToAdmin, one statement, no record.
\* It neither changes nor waits for the row of somebody who is admin.
Login(r) ==
  /\ pc[r] = "new" /\ Kind(r) = "login"
  /\ role[Actor(r)] # "admin" => Holders(r, Actor(r), "write") = {}
  /\ role' = [role EXCEPT ![Actor(r)] = "admin"]
  /\ Succeed(r)
  /\ UNCHANGED <<scene, alive, reports, log, locks, counting, overtaken>>

-----------------------------------------------------------------------------
(* ChangeRole.                                                             *)

\* LockAdminsAndCount takes its snapshot ...
Snapshot(r) ==
  /\ pc[r] = "counting"
  /\ rows' = [rows EXCEPT ![r] = Admins]
  /\ Goto(r, "locking")
  /\ UNCHANGED <<scene, store, log, locks, counted, found, lost, overtaken>>

\* Mistake: the rows are counted without FOR UPDATE.
CountAdmin(r) ==
  /\ pc[r] = "locking"
  /\ \E u \in rows[r] :
       /\ rows' = [rows EXCEPT ![r] = @ \ {u}]
       /\ counted' = [counted EXCEPT ![r] = @ \cup {u}]
  /\ UNCHANGED <<scene, store, pc, log, locks, found, lost, overtaken>>

\* ... and locks its rows in the order of the scan; one that is no longer an
\* admin's stays locked and is not counted.
LockAdmin(r) ==
  /\ pc[r] = "locking"
  /\ \E u \in rows[r] :
       /\ Lock(r, u, "update")
       /\ rows' = [rows EXCEPT ![r] = @ \ {u}]
       /\ counted' = [counted EXCEPT ![r] = @ \cup ({u} \cap Admins)]
  /\ UNCHANGED <<scene, store, pc, log, found, lost, overtaken>>

LastAdmin(r) == Cardinality(counted[r]) <= 1

Refuse(r) == Goto(r, "lastAdmin") /\ Unlock(r)

\* FindRole reads the target without a lock.
FindRole(r) ==
  /\ pc[r] = "locking" /\ rows[r] = {}
  /\ found' = [found EXCEPT ![r] = role[Target(r)]]
  /\ IF role[Target(r)] = "admin" /\ LastAdmin(r)
     THEN Refuse(r)
     ELSE Goto(r, "changing") /\ UNCHANGED locks
  /\ UNCHANGED <<scene, store, log, rows, counted, lost, overtaken>>

\* Mistake: the change is a transaction of its own.
ChangeRoleAtOnce(r) ==
  /\ pc[r] = "changing"
  /\ Holders(r, Target(r), "write") = {}
  /\ role' = [role EXCEPT ![Target(r)] = To(r)]
  /\ Goto(r, "recording")
  /\ UNCHANGED <<scene, alive, reports, log, locks, counting, lost, overtaken>>

ChangeRole(r) ==
  /\ pc[r] = "changing"
  /\ Lock(r, Target(r), "write")
  /\ Goto(r, "recording")
  /\ UNCHANGED <<scene, store, log, counting, lost, overtaken>>

-----------------------------------------------------------------------------
(* Deletions, and what role changes and moderators' deletions share: the   *)
(* record, which waits for the actor's row, and the commit.                *)

\* Mistake: deleted_at IS NULL is not asked.
SoftDeleteAgain(r) ==
  /\ pc[r] = "deleting"
  /\ Lock(r, Target(r), "write")
  /\ Goto(r, "recording")
  /\ UNCHANGED <<scene, store, log, counting, lost, overtaken>>

SoftDelete(r) ==
  /\ pc[r] = "deleting"
  /\ \/ /\ Target(r) \in alive
        /\ Lock(r, Target(r), "write")
        /\ Goto(r, "recording")
     \/ /\ Target(r) \notin alive
        /\ Goto(r, "notFound")
        /\ UNCHANGED locks
  /\ UNCHANGED <<scene, store, log, counting, lost, overtaken>>

RecordAction(r) ==
  /\ pc[r] = "recording"
  /\ Lock(r, Actor(r), "key")
  /\ log' = Append(log, r)
  /\ Goto(r, "committing")
  /\ UNCHANGED <<scene, store, counting, lost, overtaken>>

Commit(r) ==
  /\ pc[r] = "committing"
  /\ \/ /\ Kind(r) = "role"
        /\ role' = [role EXCEPT ![Target(r)] = To(r)]
        /\ overtaken' = (overtaken \/ (found[r] # "admin" /\ role[Target(r)] = "admin"
                                         /\ To(r) # "admin"))
        /\ UNCHANGED alive
     \/ /\ Kind(r) = "delete"
        /\ alive' = alive \ {Target(r)}
        /\ UNCHANGED <<role, overtaken>>
  /\ Succeed(r)
  /\ Unlock(r)
  /\ UNCHANGED <<scene, reports, log, counting>>

\* The author deletes: one statement, no record.
Withdraw(r) ==
  /\ pc[r] = "withdrawing"
  /\ \/ /\ Target(r) \in alive
        /\ Holders(r, Target(r), "write") = {}
        /\ alive' = alive \ {Target(r)}
        /\ Succeed(r)
     \/ /\ Target(r) \notin alive
        /\ Goto(r, "notFound")
        /\ UNCHANGED <<alive, lost>>
  /\ UNCHANGED <<scene, role, reports, log, locks, counting, overtaken>>

-----------------------------------------------------------------------------
(* Reports: statements of their own.                                       *)

CheckTarget(r) ==
  /\ pc[r] = "checking"
  /\ Goto(r, IF Target(r) \in alive THEN "filing" ELSE "notFound")
  /\ UNCHANGED <<scene, store, log, locks, counting, lost, overtaken>>

\* On a conflict the first report is read back: no report is ever removed.
File(r) ==
  LET k == <<Actor(r), Target(r)>>
  IN  /\ pc[r] = "filing"
      /\ \/ /\ reports[k] = None
            /\ Holders(r, Actor(r), "key") = {}
            /\ reports' = [reports EXCEPT ![k] =
                             [reason |-> To(r), status |-> "open", by |-> None]]
            /\ Succeed(r)
         \/ /\ reports[k] # None
            /\ Goto(r, "duplicate")
            /\ UNCHANGED <<reports, lost>>
      /\ UNCHANGED <<scene, role, alive, log, locks, counting, overtaken>>

\* Mistake: status = 'open' is not asked.
IsFiled(k) == reports[k] # None

IsOpen(k) == reports[k] # None /\ reports[k].status = "open"

Resolve(r) ==
  /\ pc[r] = "resolving"
  /\ \/ /\ IsOpen(Target(r))
        /\ Holders(r, Actor(r), "key") = {}
        /\ reports' = [reports EXCEPT ![Target(r)] =
                         [reason |-> @.reason, status |-> To(r), by |-> Actor(r)]]
        /\ Succeed(r)
     \/ /\ ~IsOpen(Target(r))
        /\ Goto(r, "notFound")
        /\ UNCHANGED <<reports, lost>>
  /\ UNCHANGED <<scene, role, alive, log, locks, counting, overtaken>>

-----------------------------------------------------------------------------
(* Errors: nothing is retried, WithinTx rolls back.                        *)

Rollback(r) ==
  /\ Goto(r, "error")
  /\ Unlock(r)
  /\ UNCHANGED <<scene, store, log, counting, lost, overtaken>>

Fail(r) ==
  /\ pc[r] \in Steps
  /\ Failures < MaxFails
  /\ Rollback(r)

\* Mistake: lock waits are not searched for a cycle.
WaitForever(r) == Deadlocked(r) /\ UNCHANGED vars

DeadlockVictim(r) == Deadlocked(r) /\ Rollback(r)

Finished == (\A r \in Request : pc[r] \in Answers) /\ UNCHANGED vars

Serve(r) ==
  \/ Authenticate(r) \/ Login(r)
  \/ Snapshot(r) \/ LockAdmin(r) \/ FindRole(r) \/ ChangeRole(r)
  \/ SoftDelete(r) \/ RecordAction(r) \/ Commit(r) \/ Withdraw(r)
  \/ CheckTarget(r) \/ File(r) \/ Resolve(r)
  \/ DeadlockVictim(r)

Next == (\E r \in Request : Serve(r) \/ Fail(r)) \/ Finished

Spec == Init /\ [][Next]_vars

\* The server works on a request when it can on some; PostgreSQL looks for
\* deadlocks. Which request goes first is left open.
FairSpec == Spec /\ WF_vars(\E r \in Request : Serve(r))

-----------------------------------------------------------------------------
(* Properties.                                                             *)

\* The type invariant: also, a request that has been answered holds no lock.
TypeOK ==
  /\ scene \in Scenes
  /\ pc \in [Request -> {"new"} \cup Steps \cup Answers]
  /\ role \in [User -> Roles]
  /\ alive \subseteq Item
  /\ reports \in [User \X Item -> Report \cup {None}]
  /\ log \in Seq(Request)
  /\ locks \in [Request -> SUBSET ((User \cup Item) \X Modes)]
  /\ rows \in [Request -> SUBSET User]
  /\ counted \in [Request -> SUBSET User]
  /\ found \in [Request -> Roles]
  /\ lost \subseteq Request
  /\ overtaken \in BOOLEAN
  /\ \A r \in Request : pc[r] \in Answers => locks[r] = {}

\* Concurrent demotions leave an administrator (ensureAdminRemains), unless
\* one of them was overtaken: its target was promoted after FindRole.
AdminRemains == overtaken \/ Admins # {}

\* What the comments of ensureAdminRemains and ADR 0011 say: there is always
\* an administrator, however the requests overlap.
NeverWithoutAdmin == Admins # {}

NoPromotions ==
  \A r \in Request : Kind(r) # "login" /\ ~(Kind(r) = "role" /\ To(r) = "admin")

\* A demotion is refused for the sake of the last administrator only when its
\* target is that one, as long as nobody is being promoted.
RefusedOnlyLast ==
  [][\A r \in Request :
       /\ NoPromotions
       /\ pc[r] # "lastAdmin" /\ pc'[r] = "lastAdmin"
       => Admins = {Target(r)}]_vars

\* Where the committed role changes of a user are recorded.
ChangesOf(u) ==
  {i \in DOMAIN log : pc[log[i]] = "ok" /\ Kind(log[i]) = "role" /\ Target(log[i]) = u}

\* The records tell everybody's role: the last one on a user is the change
\* that set it, and a user without a record has the role of before. The
\* promotion at a login is the exception, it leaves none.
AuditTellsRole ==
  \A u \in User :
    (\A r \in Request : Kind(r) = "login" => Actor(r) # u)
      => \/ ChangesOf(u) = {} /\ role[u] = scene.role[u]
         \/ \E i \in ChangesOf(u) :
              role[u] = To(log[i]) /\ \A j \in ChangesOf(u) : j <= i

Deletions(x) ==
  {r \in Request : pc[r] = "ok" /\ Kind(r) \in {"delete", "own"} /\ Target(r) = x}

\* Of all who delete an item, moderators and author, exactly one has done it
\* and nobody else is told to have, and if that is a moderator it is on record.
DeletedOnce ==
  \A x \in Item :
    /\ x \in alive <=> Deletions(x) = {}
    /\ \A q, r \in Deletions(x) : q = r
    /\ \A r \in Deletions(x) : Kind(r) = "delete" => \E i \in DOMAIN log : log[i] = r

\* A report keeps the reason it was first filed with, and once it is resolved
\* nobody resolves it again or reopens it.
ReportsKept ==
  [][\A k \in User \X Item : reports[k] # None =>
       /\ reports'[k] # None /\ reports'[k].reason = reports[k].reason
       /\ reports[k].status # "open" => reports'[k] = reports[k]]_vars

Told ==
  [r \in Request |-> IF pc[r] = "filing" THEN "seen"
                     ELSE IF pc[r] \in Steps THEN "admitted"
                     ELSE IF pc[r] = "ok" /\ r \in lost THEN "error" ELSE pc[r]]

Recorded == {r \in Request : pc[r] = "ok" /\ \E i \in DOMAIN log : log[i] = r}

Latest ==
  [u \in User |-> IF ChangesOf(u) = {} THEN None ELSE log[Max(ChangesOf(u))]]

Board == INSTANCE ModerationBoard
  WITH told <- Told, latest <- Latest, recorded <- Recorded

\* Transactions that lock, wait and deadlock have the effect of requests
\* served one after the other: each takes effect at its commit, with its
\* record, in the order of the records on a user.
ImplementsBoard == Board!Spec

\* Every request is answered: deadlocks between a promotion and a demotion,
\* or between demotions, end.
Answered == <>(\A r \in Request : pc[r] \in Answers)
=============================================================================
