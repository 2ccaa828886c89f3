--------------------------- MODULE ModerationBoard ---------------------------
(***************************************************************************)
(* What roles, deletions and reports promise, and what Moderation is shown *)
(* to implement: no locks, snapshots or transactions.  A request is        *)
(* admitted by the role its user has when it comes, and takes effect later *)
(* in one step or not at all, together with its record and its answer.  An *)
(* error leaves open which.                                                *)
(***************************************************************************)
EXTENDS Naturals

CONSTANTS User, Item, Request, None, Scenes

VARIABLES
  scene,     \* the initial roles and the requests
  role, alive, reports,
  told,      \* "new", "admitted", "seen" or the answer of a request
  latest,    \* the request with the last record on a user, or None
  recorded,  \* requests on record
  overtaken  \* an admin was demoted by a request that took it for none

boardVars == <<scene, role, alive, reports, told, latest, recorded, overtaken>>

Kind(r) == scene.job[r].kind
Actor(r) == scene.job[r].actor
Target(r) == scene.job[r].target
To(r) == scene.job[r].to

Admins == {u \in User : role[u] = "admin"}
Demotes(r) == To(r) # "admin" /\ role[Target(r)] = "admin"
NoPromotions ==
  \A r \in Request : Kind(r) # "login" /\ ~(Kind(r) = "role" /\ To(r) = "admin")

Init ==
  /\ scene \in Scenes
  /\ role = scene.role /\ alive = Item
  /\ reports = [k \in User \X Item |-> None]
  /\ told = [r \in Request |-> "new"]
  /\ latest = [u \in User |-> None]
  /\ recorded = {} /\ overtaken = FALSE

Tell(r, before, after) ==
  /\ told[r] = before
  /\ told' = [told EXCEPT ![r] = after]

\* What has taken effect may still be answered with an error.
Effect(r, before) == \E after \in {"ok", "error"} : Tell(r, before, after)

Permitted(r) ==
  CASE Kind(r) = "role" -> role[Actor(r)] = "admin" /\ Target(r) # Actor(r)
    [] Kind(r) \in {"delete", "resolve"} -> role[Actor(r)] \in {"moderator", "admin"}
    [] OTHER -> TRUE

Admit(r) ==
  /\ Kind(r) # "login"
  /\ Tell(r, "new", IF Permitted(r) THEN "admitted" ELSE "denied")
  /\ UNCHANGED <<role, alive, reports, latest, recorded, overtaken>>

Login(r) ==
  /\ Kind(r) = "login" /\ Effect(r, "new")
  /\ role' = [role EXCEPT ![Actor(r)] = "admin"]
  /\ UNCHANGED <<alive, reports, latest, recorded, overtaken>>

\* The last administrator is not demoted, unless it became one while the
\* request was under way.
ChangeRole(r) ==
  /\ Kind(r) = "role" /\ Effect(r, "admitted")
  /\ overtaken' \in {overtaken, overtaken \/ Demotes(r)}
  /\ Demotes(r) => overtaken' \/ Admins # {Target(r)}
  /\ role' = [role EXCEPT ![Target(r)] = To(r)]
  /\ latest' = [latest EXCEPT ![Target(r)] = r]
  /\ recorded' = recorded \cup {r}
  /\ UNCHANGED <<alive, reports>>

Refuse(r) ==
  /\ Kind(r) = "role" /\ Tell(r, "admitted", "lastAdmin")
  /\ Target(r) \in Admins
  /\ NoPromotions => Admins = {Target(r)}
  /\ UNCHANGED <<role, alive, reports, latest, recorded, overtaken>>

\* Of those who delete an item one succeeds.
Delete(r) ==
  /\ Kind(r) \in {"delete", "own"} /\ Target(r) \in alive
  /\ Effect(r, "admitted")
  /\ alive' = alive \ {Target(r)}
  /\ recorded' = IF Kind(r) = "delete" THEN recorded \cup {r} ELSE recorded
  /\ UNCHANGED <<role, reports, latest, overtaken>>

Open(k) == reports[k] # None /\ reports[k].status = "open"

Miss(r) ==
  /\ \/ Kind(r) \in {"delete", "own", "report"} /\ Target(r) \notin alive
     \/ Kind(r) = "resolve" /\ ~Open(Target(r))
  /\ Tell(r, "admitted", "notFound")
  /\ UNCHANGED <<role, alive, reports, latest, recorded, overtaken>>

\* Who has seen an item may report it, also when it has gone since.
See(r) ==
  /\ Kind(r) = "report" /\ Target(r) \in alive
  /\ Tell(r, "admitted", "seen")
  /\ UNCHANGED <<role, alive, reports, latest, recorded, overtaken>>

File(r) ==
  LET k == <<Actor(r), Target(r)>> IN
    /\ Kind(r) = "report" /\ told[r] = "seen"
    /\ IF reports[k] = None
       THEN /\ reports' = [reports EXCEPT ![k] =
                             [reason |-> To(r), status |-> "open", by |-> None]]
            /\ Effect(r, "seen")
       ELSE Tell(r, "seen", "duplicate") /\ UNCHANGED reports
    /\ UNCHANGED <<role, alive, latest, recorded, overtaken>>

Resolve(r) ==
  /\ Kind(r) = "resolve" /\ Open(Target(r))
  /\ Effect(r, "admitted")
  /\ reports' = [reports EXCEPT ![Target(r)] =
                   [reason |-> @.reason, status |-> To(r), by |-> Actor(r)]]
  /\ UNCHANGED <<role, alive, latest, recorded, overtaken>>

Break(r) ==
  /\ \E before \in {"admitted", "seen"} : Tell(r, before, "error")
  /\ UNCHANGED <<role, alive, reports, latest, recorded, overtaken>>

Next ==
  \E r \in Request :
    /\ \/ Admit(r) \/ Login(r) \/ ChangeRole(r) \/ Refuse(r) \/ Delete(r) \/ Miss(r)
       \/ See(r) \/ File(r) \/ Resolve(r) \/ Break(r)
    /\ UNCHANGED scene

Spec == Init /\ [][Next]_boardVars
=============================================================================
