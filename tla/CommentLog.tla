----------------------------- MODULE CommentLog -----------------------------
(***************************************************************************)
(* What posting a comment promises, in whichever COMMENT_POST_MODE, and    *)
(* what CommentPosting is shown to implement.  A thread is a log: a post   *)
(* takes the number after those already there, in one step, together with *)
(* the record of its key.  Nothing else ever adds, moves or removes a      *)
(* comment, and a request is told one outcome, once.                       *)
(***************************************************************************)
EXTENDS Naturals, FiniteSets

CONSTANTS Request, Thread, Key, NoKey, Nobody, ThreadOf, KeyOf, BodyOf

VARIABLES
  log,      \* the comments, as [req, seq]
  hidden,   \* requests whose comment is deleted
  closed,   \* threads deleted
  owner,    \* the request a key stands for, or Nobody
  told      \* the outcome a request was told

logVars == <<log, hidden, closed, owner, told>>

LogOf(t) == {c \in log : ThreadOf[c.req] = t}
Last(t) == Cardinality(LogOf(t))
Untold == [tag |-> "none", seq |-> 0]
Refusals == {"conflict", "not_found", "mismatch"}

Init ==
  /\ log = {} /\ hidden = {} /\ closed = {}
  /\ owner = [k \in Key |-> Nobody]
  /\ told = [r \in Request |-> Untold]

Tell(r, tag, n) ==
  /\ told[r] = Untold
  /\ told' = [told EXCEPT ![r] = [tag |-> tag, seq |-> n]]

\* The comment and the record of its key appear together.  A refusal is never
\* told of a post; 500, or nothing at all, may be.
Post(r) ==
  LET n == Last(ThreadOf[r]) + 1 IN
    /\ log' = log \cup {[req |-> r, seq |-> n]}
    /\ \/ KeyOf[r] = NoKey /\ UNCHANGED owner
       \/ /\ KeyOf[r] # NoKey /\ owner[KeyOf[r]] = Nobody
          /\ owner' = [owner EXCEPT ![KeyOf[r]] = r]
    /\ Tell(r, "created", n) \/ Tell(r, "internal", 0)
    /\ UNCHANGED <<hidden, closed>>

\* The same submission again: the number of the comment it made.
Repeat(r) ==
  /\ \E c \in log : /\ KeyOf[r] # NoKey /\ KeyOf[c.req] = KeyOf[r]
                    /\ BodyOf[c.req] = BodyOf[r]
                    /\ Tell(r, "replayed", c.seq)
  /\ UNCHANGED <<log, hidden, closed, owner>>

Refuse(r) ==
  /\ \E tag \in Refusals \cup {"internal"} : Tell(r, tag, 0)
  /\ UNCHANGED <<log, hidden, closed, owner>>

Hide(c) ==
  /\ hidden' = hidden \cup {c.req}
  /\ UNCHANGED <<log, closed, owner, told>>

Close(t) ==
  /\ closed' = closed \cup {t}
  /\ UNCHANGED <<log, hidden, owner, told>>

Forget(k) ==
  /\ owner' = [owner EXCEPT ![k] = Nobody]
  /\ UNCHANGED <<log, hidden, closed, told>>

Next ==
  \/ \E r \in Request : Post(r) \/ Repeat(r) \/ Refuse(r)
  \/ \E c \in log : Hide(c)
  \/ \E t \in Thread : Close(t)
  \/ \E k \in Key : Forget(k)

Spec == Init /\ [][Next]_logVars
=============================================================================
