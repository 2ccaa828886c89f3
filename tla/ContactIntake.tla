--------------------------- MODULE ContactIntake ----------------------------
(***************************************************************************)
(* Receiving contact messages (internal/contact/usecase/interactor.go,     *)
(* internal/httpapi/contact.go) and erasing the addresses they came from.  *)
(* The limit per address is a query of its own before the insertion.       *)
(***************************************************************************)
EXTENDS Sessions

CONSTANTS
  Addr,        \* addresses messages come from
  Window,      \* the time the limit is about
  RateMax,     \* messages an address may send in it
  Retention    \* how long the address is kept

ASSUME IntakeAssumption ==
  /\ Window \in Nat \ {0} /\ RateMax \in Nat \ {0} /\ Retention \in Nat
  /\ None \notin Addr

VARIABLES
  filed,     \* contact_messages: the rows, named for their requests
  age,       \* now() - created_at of a row, up to what anybody asks for
  erased,    \* rows without client_ip
  peak       \* history: the most submissions of an address in between at once

intakeVars == <<filed, age, erased, peak>>

Oldest == IF Window < Retention THEN Retention ELSE Window

\* clientIP: None when there is no address to be had.
Address(r) == job[r].ip

IntakeInit ==
  /\ filed = {} /\ erased = {}
  /\ age = [r \in Request |-> 0]
  /\ peak = [a \in Addr |-> 0]

\* Normalize accepts the fields of the form.
Valid(r) == job[r].form = "good"

\* Those who have passed the limit and are not stored yet.
Between(a) == {q \in Request : pc[q] = "save" /\ Address(q) = a}

\* CountRecentContacts.
Recent(a) == {q \in filed \ erased : Address(q) = a /\ age[q] < Window}

\* Mistake: one more than the limit.
AtLimit(a) == Cardinality(Recent(a)) <= RateMax

\* ensureUnderRateLimit lets a message without an address pass.
UnderRateLimit(a) == a = None \/ Cardinality(Recent(a)) < RateMax

Higher(a, b) == IF a < b THEN b ELSE a

\* Passing the limit, one more is in between.
Pass(r) ==
  /\ Goto(r, "save")
  /\ peak' = [a \in Addr |->
                IF a = Address(r) THEN Higher(peak[a], Cardinality(Between(a) \cup {r}))
                ELSE peak[a]]
  /\ UNCHANGED <<answer, filed, age, erased>>

Refuse(r, code) == Plain(r, code) /\ UNCHANGED intakeVars

\* Mistake: the row is written first and the limit looked at then.
SubmitFirst(r) ==
  /\ At(r, "handler") /\ Kind(r) = "contact"
  /\ filed' = IF Valid(r) THEN filed \cup {r} ELSE filed
  /\ Plain(r, IF job[r].form = "bad" THEN "400"
              ELSE IF UnderRateLimit(Address(r)) THEN "202" ELSE "429")
  /\ UNCHANGED <<job, carry, who, jars, table, spent, age, erased, peak>>

\* Submit: what fills in the hidden field is dropped and told nothing, then
\* the input is normalised, then the messages of the address are counted.
Submit(r) ==
  /\ At(r, "handler") /\ Kind(r) = "contact"
  /\ \/ job[r].form = "trap" /\ Refuse(r, "202")
     \/ job[r].form = "bad" /\ Refuse(r, "400")
     \/ Valid(r) /\ UnderRateLimit(Address(r)) /\ Pass(r)
     \/ Valid(r) /\ ~UnderRateLimit(Address(r)) /\ Refuse(r, "429")
     \/ Valid(r) /\ Address(r) # None /\ Refuse(r, "500")
  /\ UNCHANGED <<job, carry, who, jars, table, spent>>

\* CreateContactMessage; an error may leave the row behind.
Save(r) ==
  /\ At(r, "save")
  /\ \/ filed' = filed \cup {r} /\ Plain(r, "202")
     \/ filed' \in {filed, filed \cup {r}} /\ Plain(r, "500")
  /\ UNCHANGED <<job, carry, who, jars, table, spent, age, erased, peak>>

IntakeAges ==
  age' = [r \in Request |-> IF r \in filed THEN Lesser(age[r] + 1, Oldest) ELSE 0]

\* A row without an address is not looked at.
Erasable == {q \in filed \ erased : Address(q) # None /\ age[q] >= Retention}

\* ScrubContactClientIPs; rounds follow until nothing is left.
ScrubClientIPs ==
  /\ Erasable # {}
  /\ \E rows \in SUBSET Erasable :
       /\ Cardinality(rows) = Lesser(Clamped(0), Cardinality(Erasable))
       /\ erased' = erased \cup rows
  /\ UNCHANGED <<sessionVars, filed, age, peak>>

IntakeNext ==
  \/ \E r \in Request : Submit(r) \/ Save(r)
  \/ ScrubClientIPs

-----------------------------------------------------------------------------
(* Properties.                                                             *)

SentLately(a) == {q \in filed : Address(q) = a /\ age[q] < Window}

\* The limit of an address is exceeded by no more than the submissions that
\* were in between the count and the insertion at once, less one: exact when
\* they come one by one.  Addresses must be kept for the window.
LimitHolds ==
  Window <= Retention =>
    \A a \in Addr : Cardinality(SentLately(a)) < RateMax + Higher(peak[a], 1)

\* What the form says is what happened: a message answered with 202 is
\* stored unless the trap caught it, and one that is refused is not.
AcceptedIsStored ==
  \A r \in Request :
    /\ Answered(r) /\ Kind(r) = "contact" /\ answer[r].code # "500"
         => (r \in filed <=> answer[r].code = "202" /\ Valid(r))
    /\ r \in filed => Admitted(r) /\ Valid(r)
=============================================================================
