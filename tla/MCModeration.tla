---------------------------- MODULE MCModeration ----------------------------
(***************************************************************************)
(* Instances of Moderation for TLC: what the scenes ask.                   *)
(***************************************************************************)
EXTENDS Moderation, TLC

CONSTANTS a, b, c, x, r1, r2, r3, r4, r5

Change(u, v, to) == [kind |-> "role", actor |-> u, target |-> v, to |-> to]
LogIn(u) == [kind |-> "login", actor |-> u, target |-> u, to |-> "admin"]
Delete(u) == [kind |-> "delete", actor |-> u, target |-> x, to |-> None]
DeleteOwn(u) == [kind |-> "own", actor |-> u, target |-> x, to |-> None]
ReportItem(u, why) == [kind |-> "report", actor |-> u, target |-> x, to |-> why]
Close(u, v, to) == [kind |-> "resolve", actor |-> u, target |-> <<v, x>>, to |-> to]

Scene(admins, moderators, jobs) ==
  [role |-> [u \in User |-> IF u \in admins THEN "admin"
                            ELSE IF u \in moderators THEN "moderator" ELSE "user"],
   job |-> [r \in Request |->
              CASE r = r1 -> jobs[1] [] r = r2 -> jobs[2] [] r = r3 -> jobs[3]
                [] r = r4 -> jobs[4] [] r = r5 -> jobs[5]]]

\* Three administrators demote each other in a circle; one of them also
\* deletes, and another asks to be demoted, which nobody may.
Mutual == Scene({a, b, c}, {},
  <<Change(a, b, "user"), Change(b, c, "moderator"), Change(c, a, "user"),
    Delete(c), Change(a, a, "user")>>)

\* Demotions and promotions of the same user by two administrators.
Tug == Scene({a, b}, {c},
  <<Change(a, c, "user"), Change(b, c, "admin"), Change(a, b, "moderator"),
    Delete(c), Delete(b)>>)

\* One user reports an item twice while it is deleted, two moderators close
\* the report, and one of them is being demoted.
Queue == Scene({a}, {b},
  <<ReportItem(c, "spam"), ReportItem(c, "abuse"), Close(a, c, "rejected"),
    Close(b, c, "resolved"), Delete(a)>>)
\* While an administrator demotes a moderator both of them, and the author,
\* delete an item, which the administrator reports.
Gone == Scene({a}, {b},
  <<Change(a, b, "user"), Delete(b), DeleteOwn(c), ReportItem(a, "spam"), Delete(a)>>)

\* a demotes c, who is a user; b is promoted and demotes a; c logs in as the
\* bootstrap account and demotes b.
Relay == Scene({a}, {},
  <<Change(a, c, "moderator"), Change(a, b, "admin"), Change(b, a, "user"),
    LogIn(c), Change(c, b, "user")>>)

AllScenes == {Mutual, Tug, Queue, Gone, Relay}
OnlyRelay == {Relay}
=============================================================================
