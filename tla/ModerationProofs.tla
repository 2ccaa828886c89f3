-------------------------- MODULE ModerationProofs --------------------------
(***************************************************************************)
(* Theorems about Moderation, for any users, items and requests.           *)
(***************************************************************************)
EXTENDS Moderation, FiniteSetTheorems, TLAPS

\* Which requests take which steps.
StepOfKind ==
  \A r \in Request :
    /\ pc[r] \in {"counting", "locking", "changing"} => Kind(r) = "role"
    /\ pc[r] = "deleting" => Kind(r) = "delete"
    /\ pc[r] \in {"recording", "committing"} => Kind(r) \in {"role", "delete"}
    /\ pc[r] = "withdrawing" => Kind(r) = "own"
    /\ pc[r] \in {"checking", "filing"} => Kind(r) = "report"
    /\ pc[r] = "resolving" => Kind(r) = "resolve"

\* Before their first statement, and in a transaction of one statement,
\* requests hold no lock.
Single == {"new", "counting", "deleting", "withdrawing", "checking", "filing", "resolving"}
Unlocked == \A r \in Request : pc[r] \in Single => locks[r] = {}

TypeInv == TypeOK /\ StepOfKind /\ Unlocked

\* What a request asks is of the type of its kind.
LEMMA JobTypes ==
  ASSUME TypeOK, NEW r \in Request
  PROVE  /\ Actor(r) \in User
         /\ Kind(r) \in {"role", "login", "delete", "own", "report", "resolve"}
         /\ Kind(r) = "role" => Target(r) \in User /\ To(r) \in Roles
         /\ Kind(r) \in {"delete", "own", "report"} => Target(r) \in Item
         /\ Kind(r) = "report" => To(r) \in Reasons
         /\ Kind(r) = "resolve" => Target(r) \in User \X Item /\ To(r) \in Verdicts
<1>1. scene.job[r] \in Job
  BY ModerationAssumption DEF TypeOK
<1> QED BY <1>1 DEF Job, Actor, Kind, Target, To

\* Requests start well typed.
LEMMA TypeInit == Init => TypeInv
<1> SUFFICES ASSUME Init PROVE TypeInv
  OBVIOUS
<1>1. scene \in Scenes /\ role \in [User -> Roles]
  BY ModerationAssumption DEF Init
<1>2. log \in Seq(Request)
  BY DEF Init
<1>3. TypeOK
  BY <1>1, <1>2 DEF Init, TypeOK, Roles, Report
<1>4. StepOfKind /\ Unlocked
  BY DEF Init, StepOfKind, Unlocked
<1> QED BY <1>3, <1>4 DEF TypeInv

\* A lock that is taken is a lock on a row.
LEMMA LockType ==
  ASSUME TypeOK, NEW r \in Request, NEW row \in User \cup Item, NEW mode \in Modes,
         Lock(r, row, mode)
  PROVE  /\ locks' \in [Request -> SUBSET ((User \cup Item) \X Modes)]
         /\ \A q \in Request : q # r => locks'[q] = locks[q]
         /\ locks'[r] = locks[r] \cup {<<row, mode>>}
BY DEF TypeOK, Lock

\* A rollback or a commit gives up the locks of one request.
LEMMA UnlockType ==
  ASSUME TypeOK, NEW r \in Request, Unlock(r)
  PROVE  /\ locks' \in [Request -> SUBSET ((User \cup Item) \X Modes)]
         /\ \A q \in Request : q # r => locks'[q] = locks[q]
         /\ locks'[r] = {}
BY DEF TypeOK, Unlock

\* The program counter of one request moves.
LEMMA GotoType ==
  ASSUME TypeOK, NEW r \in Request, NEW p \in {"new"} \cup Steps \cup Answers, Goto(r, p)
  PROVE  /\ pc' \in [Request -> {"new"} \cup Steps \cup Answers]
         /\ pc'[r] = p
         /\ \A q \in Request : q # r => pc'[q] = pc[q]
BY DEF TypeOK, Goto

\* What is asked does not change.
LEMMA JobsStay ==
  ASSUME UNCHANGED scene, NEW r \in Request
  PROVE  /\ Kind(r)' = Kind(r) /\ Actor(r)' = Actor(r)
         /\ Target(r)' = Target(r) /\ To(r)' = To(r)
BY DEF Kind, Actor, Target, To

\* Every step keeps the types and the steps of each kind.
LEMMA TypeStep == TypeInv /\ [Next]_vars => TypeInv'
<1> SUFFICES ASSUME TypeInv, [Next]_vars PROVE TypeInv'
  OBVIOUS
<1> USE DEF TypeInv
<1>1. CASE UNCHANGED vars
  BY <1>1 DEF vars, store, counting, TypeOK, StepOfKind, Unlocked, Kind
<1>2. ASSUME NEW r \in Request, Authenticate(r) PROVE TypeInv'
  <2>1. PICK p \in {FirstStep(r), "denied"} : Goto(r, p)
    BY <1>2 DEF Authenticate
  <2>2. /\ p \in (Single \ {"new"}) \cup {"changing", "denied"}
        /\ p \in {"counting", "changing"} => Kind(r) = "role"
        /\ p = "deleting" => Kind(r) = "delete"
        /\ p = "withdrawing" => Kind(r) = "own"
        /\ p = "checking" => Kind(r) = "report"
        /\ p = "resolving" => Kind(r) = "resolve"
        /\ p # "filing"
    BY <1>2, <2>1, JobTypes DEF Authenticate, FirstStep, Single
  <2>3. pc' \in [Request -> {"new"} \cup Steps \cup Answers] /\ pc'[r] = p
        /\ \A q \in Request : q # r => pc'[q] = pc[q]
    BY <2>1, <2>2, GotoType DEF Answers, Steps, Single
  <2>4. StepOfKind'
    BY <1>2, <2>2, <2>3, JobsStay DEF Authenticate, StepOfKind, Single
  <2>5. locks[r] = {}
    BY <1>2 DEF Authenticate, Unlocked, Single
  <2> QED BY <1>2, <2>3, <2>4, <2>5 DEF Authenticate, TypeOK, Unlocked, store, counting
<1>3. ASSUME NEW r \in Request, Login(r) PROVE TypeInv'
  <2>1. pc' \in [Request -> {"new"} \cup Steps \cup Answers] /\ pc'[r] = "ok"
        /\ \A q \in Request : q # r => pc'[q] = pc[q]
    BY <1>3, GotoType DEF Login, Answers, Succeed
  <2>2. role' \in [User -> Roles]
    BY <1>3, JobTypes DEF Login, TypeOK, Roles, Succeed
  <2>3. StepOfKind'
    BY <1>3, <2>1, JobsStay DEF Login, StepOfKind, Succeed
  <2>4. locks[r] = {}
    BY <1>3 DEF Login, Unlocked, Single, Succeed
  <2> QED BY <1>3, <2>1, <2>2, <2>3, <2>4 DEF Login, TypeOK, Unlocked, Single, counting,
                                              Succeed
<1>4. ASSUME NEW r \in Request, Snapshot(r) PROVE TypeInv'
  <2>1. pc' \in [Request -> {"new"} \cup Steps \cup Answers] /\ pc'[r] = "locking"
        /\ \A q \in Request : q # r => pc'[q] = pc[q]
    BY <1>4, GotoType DEF Snapshot, Steps
  <2>2. StepOfKind'
    BY <1>4, <2>1, JobsStay DEF Snapshot, StepOfKind
  <2>3. rows' \in [Request -> SUBSET User]
    BY <1>4 DEF Snapshot, TypeOK, Admins
  <2> QED BY <1>4, <2>1, <2>2, <2>3 DEF Snapshot, TypeOK, Unlocked, Single, Answers, store
<1>5. ASSUME NEW r \in Request, LockAdmin(r) PROVE TypeInv'
  <2>1. PICK u \in rows[r] :
          /\ Lock(r, u, "update")
          /\ rows' = [rows EXCEPT ![r] = @ \ {u}]
          /\ counted' = [counted EXCEPT ![r] = @ \cup ({u} \cap Admins)]
    BY <1>5 DEF LockAdmin
  <2>2. u \in User \cup Item /\ "update" \in Modes
    BY DEF TypeOK, Modes
  <2>3. locks' \in [Request -> SUBSET ((User \cup Item) \X Modes)]
        /\ \A q \in Request : q # r => locks'[q] = locks[q]
    BY <2>1, <2>2, LockType
  <2>4. rows' \in [Request -> SUBSET User] /\ counted' \in [Request -> SUBSET User]
    BY <2>1 DEF TypeOK, Admins
  <2>5. pc[r] = "locking" /\ pc' = pc
    BY <1>5 DEF LockAdmin
  <2>6. StepOfKind'
    BY <1>5, <2>5, JobsStay DEF LockAdmin, StepOfKind
  <2> QED BY <1>5, <2>3, <2>4, <2>5, <2>6
          DEF LockAdmin, TypeOK, Unlocked, Single, Answers, store
<1>6. ASSUME NEW r \in Request, FindRole(r) PROVE TypeInv'
  <2>1. Kind(r) = "role" /\ pc[r] = "locking" /\ Target(r) \in User
    BY <1>6, JobTypes DEF FindRole, StepOfKind
  <2>2. found' \in [Request -> Roles]
    BY <1>6, <2>1 DEF FindRole, TypeOK
  <2>3. CASE Refuse(r)
    <3>1. pc' \in [Request -> {"new"} \cup Steps \cup Answers] /\ pc'[r] = "lastAdmin"
          /\ \A q \in Request : q # r => pc'[q] = pc[q]
      BY <2>3, GotoType DEF Refuse, Answers
    <3>2. StepOfKind'
      BY <1>6, <3>1, JobsStay DEF FindRole, StepOfKind
    <3> QED BY <1>6, <2>2, <2>3, <3>1, <3>2, UnlockType
            DEF FindRole, Refuse, TypeOK, Unlocked, Single, store
  <2>4. CASE Goto(r, "changing") /\ UNCHANGED locks
    <3>1. pc' \in [Request -> {"new"} \cup Steps \cup Answers] /\ pc'[r] = "changing"
          /\ \A q \in Request : q # r => pc'[q] = pc[q]
      BY <2>4, GotoType DEF Steps
    <3>2. StepOfKind'
      BY <1>6, <2>1, <3>1, JobsStay DEF FindRole, StepOfKind
    <3> QED BY <1>6, <2>2, <2>4, <3>1, <3>2
            DEF FindRole, TypeOK, Unlocked, Single, Answers, store
  <2> QED BY <1>6, <2>3, <2>4 DEF FindRole
<1>7. ASSUME NEW r \in Request, ChangeRole(r) \/ SoftDelete(r) PROVE TypeInv'
  <2>1. Kind(r) \in {"role", "delete"} /\ Target(r) \in User \cup Item
        /\ UNCHANGED <<scene, store, log, counting, lost, overtaken>>
    BY <1>7, JobTypes DEF ChangeRole, SoftDelete, StepOfKind
  <2>2. CASE Lock(r, Target(r), "write") /\ Goto(r, "recording")
    <3>1. pc' \in [Request -> {"new"} \cup Steps \cup Answers] /\ pc'[r] = "recording"
          /\ \A q \in Request : q # r => pc'[q] = pc[q]
      BY <2>2, GotoType DEF Steps
    <3>2. locks' \in [Request -> SUBSET ((User \cup Item) \X Modes)]
          /\ \A q \in Request : q # r => locks'[q] = locks[q]
      BY <2>1, <2>2, LockType DEF Modes
    <3>3. StepOfKind'
      BY <2>1, <3>1, JobsStay DEF StepOfKind
    <3> QED BY <2>1, <3>1, <3>2, <3>3 DEF TypeOK, Unlocked, Single, Answers, store, counting
  <2>3. CASE SoftDelete(r) /\ Goto(r, "notFound") /\ UNCHANGED locks
    <3>1. pc' \in [Request -> {"new"} \cup Steps \cup Answers] /\ pc'[r] = "notFound"
          /\ \A q \in Request : q # r => pc'[q] = pc[q]
      BY <2>3, GotoType DEF Answers
    <3>2. locks[r] = {}
      BY <2>3 DEF SoftDelete, Unlocked, Single
    <3>3. StepOfKind'
      BY <2>1, <3>1, JobsStay DEF StepOfKind
    <3> QED BY <2>1, <2>3, <3>1, <3>2, <3>3 DEF TypeOK, Unlocked, Single, store, counting
  <2> QED BY <1>7, <2>2, <2>3 DEF ChangeRole, SoftDelete
<1>8. ASSUME NEW r \in Request, RecordAction(r) PROVE TypeInv'
  <2>1. pc' \in [Request -> {"new"} \cup Steps \cup Answers] /\ pc'[r] = "committing"
        /\ \A q \in Request : q # r => pc'[q] = pc[q]
    BY <1>8, GotoType DEF RecordAction, Steps
  <2>2. locks' \in [Request -> SUBSET ((User \cup Item) \X Modes)]
        /\ \A q \in Request : q # r => locks'[q] = locks[q]
    BY <1>8, LockType, JobTypes DEF RecordAction, Modes
  <2>3. log' \in Seq(Request)
    BY <1>8 DEF RecordAction, TypeOK
  <2>4. StepOfKind'
    BY <1>8, <2>1, JobsStay DEF RecordAction, StepOfKind
  <2> QED BY <1>8, <2>1, <2>2, <2>3, <2>4
          DEF RecordAction, TypeOK, Unlocked, Single, Answers, store, counting
<1>9. ASSUME NEW r \in Request, Commit(r) PROVE TypeInv'
  <2>1. pc' \in [Request -> {"new"} \cup Steps \cup Answers] /\ pc'[r] = "ok"
        /\ \A q \in Request : q # r => pc'[q] = pc[q]
    BY <1>9, GotoType DEF Commit, Answers, Succeed
  <2>2. locks' \in [Request -> SUBSET ((User \cup Item) \X Modes)]
        /\ locks'[r] = {} /\ \A q \in Request : q # r => locks'[q] = locks[q]
    BY <1>9, UnlockType DEF Commit, Succeed
  <2>3. role' \in [User -> Roles] /\ alive' \subseteq Item /\ overtaken' \in BOOLEAN
    <3>1. CASE Kind(r) = "role"
      <4>1. /\ role' = [role EXCEPT ![Target(r)] = To(r)] /\ UNCHANGED alive
            /\ overtaken' = (overtaken \/ (found[r] # "admin" /\ role[Target(r)] = "admin"
                                             /\ To(r) # "admin"))
        BY <1>9, <3>1 DEF Commit
      <4>2. overtaken' \in BOOLEAN
        BY <4>1
      <4> QED BY <3>1, <4>1, <4>2, JobTypes DEF TypeOK
    <3>2. CASE Kind(r) = "delete"
      BY <1>9, <3>2 DEF Commit, TypeOK
    <3> QED BY <1>9, <3>1, <3>2 DEF Commit
  <2>4. StepOfKind'
    BY <1>9, <2>1, JobsStay DEF Commit, StepOfKind, Succeed
  <2>5. lost' \subseteq Request
    BY <1>9 DEF Commit, Succeed, TypeOK
  <2> QED BY <1>9, <2>1, <2>2, <2>3, <2>4, <2>5
          DEF Commit, TypeOK, Unlocked, Single, counting
<1>10. ASSUME NEW r \in Request, Withdraw(r) PROVE TypeInv'
  <2>1. PICK p \in {"ok", "notFound"} : Goto(r, p)
    BY <1>10 DEF Withdraw, Succeed
  <2>2. pc' \in [Request -> {"new"} \cup Steps \cup Answers] /\ pc'[r] = p
        /\ \A q \in Request : q # r => pc'[q] = pc[q]
    BY <2>1, GotoType DEF Answers
  <2>3. locks[r] = {} /\ alive' \subseteq Item
    BY <1>10 DEF Withdraw, Unlocked, Single, TypeOK, Succeed
  <2>4. StepOfKind'
    BY <1>10, <2>2, JobsStay DEF Withdraw, StepOfKind, Succeed
  <2> QED BY <1>10, <2>2, <2>3, <2>4 DEF Withdraw, TypeOK, Unlocked, Single, counting,
                                         Succeed
<1>11. ASSUME NEW r \in Request, CheckTarget(r) PROVE TypeInv'
  <2>1. PICK p \in {"filing", "notFound"} : Goto(r, p)
    BY <1>11 DEF CheckTarget
  <2>2. pc' \in [Request -> {"new"} \cup Steps \cup Answers] /\ pc'[r] = p
        /\ \A q \in Request : q # r => pc'[q] = pc[q]
    BY <2>1, GotoType DEF Answers, Steps
  <2>3. locks[r] = {} /\ Kind(r) = "report"
    BY <1>11 DEF CheckTarget, Unlocked, Single, StepOfKind
  <2>4. StepOfKind'
    BY <1>11, <2>2, <2>3, JobsStay DEF CheckTarget, StepOfKind
  <2> QED BY <1>11, <2>2, <2>3, <2>4
          DEF CheckTarget, TypeOK, Unlocked, Single, counting, store
<1>12. ASSUME NEW r \in Request, File(r) PROVE TypeInv'
  <2>1. PICK p \in {"ok", "duplicate"} : Goto(r, p)
    BY <1>12 DEF File, Succeed
  <2>2. pc' \in [Request -> {"new"} \cup Steps \cup Answers] /\ pc'[r] = p
        /\ \A q \in Request : q # r => pc'[q] = pc[q]
    BY <2>1, GotoType DEF Answers
  <2>3. locks[r] = {} /\ Kind(r) = "report"
    BY <1>12 DEF File, Unlocked, Single, StepOfKind, Succeed
  <2>4. <<Actor(r), Target(r)>> \in User \X Item /\ To(r) \in Reasons
    BY <2>3, JobTypes
  <2>5. [reason |-> To(r), status |-> "open", by |-> None] \in Report
    BY <2>4 DEF Report
  <2>6. reports' \in [User \X Item -> Report \cup {None}]
    BY <1>12, <2>4, <2>5 DEF File, TypeOK, Succeed
  <2>7. StepOfKind'
    BY <1>12, <2>2, JobsStay DEF File, StepOfKind, Succeed
  <2> QED BY <1>12, <2>2, <2>3, <2>6, <2>7 DEF File, TypeOK, Unlocked, Single, counting,
                                               Succeed
<1>13. ASSUME NEW r \in Request, Resolve(r) PROVE TypeInv'
  <2>1. PICK p \in {"ok", "notFound"} : Goto(r, p)
    BY <1>13 DEF Resolve, Succeed
  <2>2. pc' \in [Request -> {"new"} \cup Steps \cup Answers] /\ pc'[r] = p
        /\ \A q \in Request : q # r => pc'[q] = pc[q]
    BY <2>1, GotoType DEF Answers
  <2>3. locks[r] = {} /\ Kind(r) = "resolve"
    BY <1>13 DEF Resolve, Unlocked, Single, StepOfKind, Succeed
  <2>4. Target(r) \in User \X Item /\ To(r) \in Verdicts /\ Actor(r) \in User
    BY <2>3, JobTypes
  <2>5. IsOpen(Target(r)) =>
          [reason |-> reports[Target(r)].reason, status |-> To(r), by |-> Actor(r)]
            \in Report
    BY <2>4 DEF IsOpen, Report, TypeOK
  <2>6. reports' \in [User \X Item -> Report \cup {None}]
    BY <1>13, <2>4, <2>5 DEF Resolve, TypeOK, Succeed
  <2>7. StepOfKind'
    BY <1>13, <2>2, JobsStay DEF Resolve, StepOfKind, Succeed
  <2> QED BY <1>13, <2>2, <2>3, <2>6, <2>7 DEF Resolve, TypeOK, Unlocked, Single, counting,
                                               Succeed
<1>14. ASSUME NEW r \in Request, Rollback(r) PROVE TypeInv'
  <2>1. pc' \in [Request -> {"new"} \cup Steps \cup Answers] /\ pc'[r] = "error"
        /\ \A q \in Request : q # r => pc'[q] = pc[q]
    BY <1>14, GotoType DEF Rollback, Answers
  <2>2. locks' \in [Request -> SUBSET ((User \cup Item) \X Modes)]
        /\ locks'[r] = {} /\ \A q \in Request : q # r => locks'[q] = locks[q]
    BY <1>14, UnlockType DEF Rollback
  <2>3. StepOfKind'
    BY <1>14, <2>1, JobsStay DEF Rollback, StepOfKind
  <2> QED BY <1>14, <2>1, <2>2, <2>3 DEF Rollback, TypeOK, Unlocked, Single, counting, store
<1> QED
  BY <1>1, <1>2, <1>3, <1>4, <1>5, <1>6, <1>7, <1>8, <1>9, <1>10, <1>11, <1>12,
     <1>13, <1>14
  DEF Next, Serve, Fail, DeadlockVictim, Finished

\* The type invariant, with the steps of each kind and the requests without
\* locks, is inductive.
LEMMA TypesKept == Spec => []TypeInv
BY TypeInit, TypeStep, PTL DEF Spec

\* Everything is of its type, and a request that was answered holds no lock.
THEOREM TypeCorrect == Spec => []TypeOK
<1>1. TypeInv => TypeOK
  BY DEF TypeInv
<1> QED BY <1>1, TypesKept, PTL

-----------------------------------------------------------------------------
(* Row locks exclude each other.                                           *)

Exclusion ==
  \A q, r \in Request : q # r =>
    \A k \in locks[q], l \in locks[r] : k[1] = l[1] => ~Conflict(k[2], l[2])

\* Two modes conflict in either order.
LEMMA ConflictSymmetric ==
  ASSUME NEW m, NEW n
  PROVE  Conflict(m, n) <=> Conflict(n, m)
BY DEF Conflict

\* A lock is only taken when nobody holds a conflicting one.
LEMMA LockExcludes ==
  ASSUME TypeOK, Exclusion, NEW r \in Request,
         NEW row \in User \cup Item, NEW mode \in Modes, Lock(r, row, mode)
  PROVE  Exclusion'
<1> SUFFICES ASSUME NEW p \in Request, NEW q \in Request, p # q,
                    NEW k \in locks'[p], NEW l \in locks'[q], k[1] = l[1]
             PROVE  ~Conflict(k[2], l[2])
  BY DEF Exclusion
<1>1. \A s \in Request : s # r => locks'[s] = locks[s]
  BY LockType
<1>2. locks'[r] = locks[r] \cup {<<row, mode>>}
  BY LockType
<1>3. \A s \in Request \ {r} : \A m \in locks[s] : m[1] = row => ~Conflict(mode, m[2])
  BY DEF Lock, Holders
<1>4. CASE p = r /\ k = <<row, mode>>
  BY <1>1, <1>3, <1>4
<1>5. CASE q = r /\ l = <<row, mode>>
  BY <1>1, <1>3, <1>5, ConflictSymmetric
<1>6. CASE k \in locks[p] /\ l \in locks[q]
  BY <1>6 DEF Exclusion
<1> QED BY <1>1, <1>2, <1>4, <1>5, <1>6

\* Giving up locks keeps the others apart.
LEMMA UnlockExcludes ==
  ASSUME TypeOK, Exclusion, NEW r \in Request, Unlock(r)
  PROVE  Exclusion'
<1>1. \A q \in Request : locks'[q] \subseteq locks[q]
  BY UnlockType
<1> QED BY <1>1 DEF Exclusion

\* Every step keeps the locks apart.
LEMMA ExclusionStep == TypeInv /\ Exclusion /\ [Next]_vars => Exclusion'
<1> SUFFICES ASSUME TypeInv, Exclusion, [Next]_vars PROVE Exclusion'
  OBVIOUS
<1>1. CASE UNCHANGED locks
  BY <1>1 DEF Exclusion
<1>2. ASSUME NEW r \in Request, LockAdmin(r) PROVE Exclusion'
  <2>1. PICK u \in rows[r] : Lock(r, u, "update")
    BY <1>2 DEF LockAdmin
  <2>2. u \in User
    BY DEF TypeInv, TypeOK
  <2> QED BY <2>1, <2>2, LockExcludes DEF TypeInv, Modes
<1>3. ASSUME NEW r \in Request, ChangeRole(r) \/ SoftDelete(r) PROVE Exclusion'
  <2>1. Target(r) \in User \cup Item
    BY <1>3, JobTypes DEF TypeInv, StepOfKind, ChangeRole, SoftDelete
  <2>2. Lock(r, Target(r), "write") \/ UNCHANGED locks
    BY <1>3 DEF ChangeRole, SoftDelete
  <2> QED BY <2>1, <2>2, <1>1, LockExcludes DEF TypeInv, Modes
<1>4. ASSUME NEW r \in Request, RecordAction(r) PROVE Exclusion'
  BY <1>4, JobTypes, LockExcludes DEF TypeInv, RecordAction, Modes
<1>5. ASSUME NEW r \in Request, Unlock(r) PROVE Exclusion'
  BY <1>5, UnlockExcludes DEF TypeInv
<1> QED
  BY <1>1, <1>2, <1>3, <1>4, <1>5
  DEF Next, Serve, Fail, DeadlockVictim, Finished, Rollback, Authenticate, Login,
      Snapshot, FindRole, Refuse, Commit, Withdraw, CheckTarget, File, Resolve, vars,
      Succeed

-----------------------------------------------------------------------------
(* An administrator remains.                                               *)

\* A request that changes a role or deletes holds the row it is to write.
WriteHeld ==
  \A r \in Request :
    pc[r] \in {"recording", "committing"} => <<Target(r), "write">> \in locks[r]

\* The admins a demotion has counted are admins, and locked.
CountedHeld ==
  \A r \in Request :
    /\ pc[r] \in {"new", "counting", "deleting"} => counted[r] = {}
    /\ pc[r] \in {"locking", "changing", "recording", "committing"} =>
         \A u \in counted[r] : role[u] = "admin" /\ <<u, "update">> \in locks[r]

\* A demotion that found an admin has counted another one.
AnotherCounted ==
  \A r \in Request :
    /\ pc[r] \in {"changing", "recording", "committing"}
    /\ Kind(r) = "role" /\ To(r) # "admin" /\ found[r] = "admin"
    => \E u \in counted[r] : u # Target(r)

AdminInv == Exclusion /\ WriteHeld /\ CountedHeld /\ AnotherCounted /\ AdminRemains

\* Of two or more admins counted, one is not the target.
LEMMA TwoHaveAnother ==
  ASSUME TypeInv, NEW r \in Request, ~LastAdmin(r), NEW t
  PROVE  \E u \in counted[r] : u # t
<1> SUFFICES ASSUME counted[r] \subseteq {t} PROVE FALSE
  OBVIOUS
<1>1. IsFiniteSet({t}) /\ Cardinality({t}) = 1
  BY FS_Singleton
<1>2. IsFiniteSet(counted[r]) /\ Cardinality(counted[r]) <= 1
  BY <1>1, FS_Subset
<1>3. Cardinality(counted[r]) \in Nat
  BY <1>2, FS_CardinalityType
<1> QED BY <1>2, <1>3 DEF LastAdmin

\* A lock on a row that another request's commit writes is impossible.
LEMMA WriteExcludes ==
  ASSUME AdminInv, NEW r \in Request, NEW q \in Request, q # r,
         pc[r] = "committing", NEW mode \in {"update", "write"}
  PROVE  <<Target(r), mode>> \notin locks[q]
<1> SUFFICES ASSUME <<Target(r), mode>> \in locks[q] PROVE FALSE
  OBVIOUS
<1>1. <<Target(r), "write">> \in locks[r]
  BY DEF AdminInv, WriteHeld
<1>2. ~Conflict(mode, "write")
  BY <1>1 DEF AdminInv, Exclusion
<1> QED BY <1>2 DEF Conflict

\* It is so at first: the scene has an admin.
LEMMA AdminInit == Init => AdminInv
<1> SUFFICES ASSUME Init PROVE AdminInv
  OBVIOUS
<1>1. \E u \in User : role[u] = "admin"
  BY ModerationAssumption DEF Init
<1> QED BY <1>1
        DEF Init, AdminInv, Exclusion, WriteHeld, CountedHeld, AnotherCounted,
            AdminRemains, Admins

\* Every step keeps the writer's lock.
LEMMA WriteHeldStep == TypeInv /\ AdminInv /\ [Next]_vars => WriteHeld'
<1> SUFFICES ASSUME TypeInv, AdminInv, [Next]_vars PROVE WriteHeld'
  OBVIOUS
<1> USE DEF AdminInv, TypeInv
<1>1. CASE UNCHANGED vars
  BY <1>1 DEF vars, WriteHeld, Target
<1>2. ASSUME NEW r \in Request,
             Authenticate(r) \/ Login(r) \/ Snapshot(r) \/ Withdraw(r) \/ CheckTarget(r)
               \/ File(r) \/ Resolve(r)
      PROVE WriteHeld'
  <2>1. PICK p \in Answers \cup {"counting", "locking", "changing", "deleting",
                                "withdrawing", "checking", "filing", "resolving"} :
          Goto(r, p) /\ UNCHANGED <<scene, locks>>
    <3>1. CASE Authenticate(r)
      BY <3>1, JobTypes DEF Authenticate, FirstStep, Answers
    <3> QED BY <1>2, <3>1
            DEF Login, Snapshot, Withdraw, CheckTarget, File, Resolve, Answers, Succeed
  <2>2. /\ pc'[r] = p
        /\ \A q \in Request : q # r => pc'[q] = pc[q]
    BY <2>1, GotoType DEF Steps
  <2> QED BY <2>1, <2>2, JobsStay DEF WriteHeld, Answers
<1>3. ASSUME NEW r \in Request, LockAdmin(r) PROVE WriteHeld'
  <2>1. PICK u \in rows[r] : Lock(r, u, "update")
    BY <1>3 DEF LockAdmin
  <2>2. \A q \in Request : locks[q] \subseteq locks'[q]
    BY <2>1, LockType DEF TypeOK, Modes
  <2> QED BY <1>3, <2>2, JobsStay DEF LockAdmin, WriteHeld
<1>4. ASSUME NEW r \in Request, FindRole(r) \/ Commit(r) \/ Rollback(r) PROVE WriteHeld'
  <2>1. PICK p \in Answers \cup {"changing"} :
          Goto(r, p) /\ (Unlock(r) \/ UNCHANGED locks) /\ UNCHANGED scene
    BY <1>4 DEF FindRole, Refuse, Commit, Rollback, Answers, Succeed
  <2>2. /\ pc'[r] = p
        /\ \A q \in Request : q # r => pc'[q] = pc[q]
    BY <2>1, GotoType DEF Steps
  <2>3. \A q \in Request : q # r => locks'[q] = locks[q]
    BY <2>1, UnlockType
  <2> QED BY <2>1, <2>2, <2>3, JobsStay DEF WriteHeld, Answers
<1>5. ASSUME NEW r \in Request, ChangeRole(r) \/ SoftDelete(r) PROVE WriteHeld'
  <2>1. Target(r) \in User \cup Item /\ UNCHANGED scene
    BY <1>5, JobTypes DEF StepOfKind, ChangeRole, SoftDelete
  <2>2. CASE Lock(r, Target(r), "write") /\ Goto(r, "recording")
    <3>1. /\ <<Target(r), "write">> \in locks'[r]
          /\ \A q \in Request : q # r => locks'[q] = locks[q]
      BY <2>1, <2>2, LockType DEF Modes
    <3>2. \A q \in Request : q # r => pc'[q] = pc[q]
      BY <2>2, GotoType DEF Steps
    <3> QED BY <2>1, <3>1, <3>2, JobsStay DEF WriteHeld
  <2>3. CASE Goto(r, "notFound") /\ UNCHANGED locks
    <3>1. /\ pc'[r] = "notFound"
          /\ \A q \in Request : q # r => pc'[q] = pc[q]
      BY <2>3, GotoType DEF Answers
    <3> QED BY <2>1, <2>3, <3>1, JobsStay DEF WriteHeld
  <2> QED BY <1>5, <2>2, <2>3 DEF ChangeRole, SoftDelete
<1>6. ASSUME NEW r \in Request, RecordAction(r) PROVE WriteHeld'
  <2>1. \A q \in Request : locks[q] \subseteq locks'[q]
    BY <1>6, LockType, JobTypes DEF RecordAction, Modes
  <2>2. \A q \in Request : q # r => pc'[q] = pc[q]
    BY <1>6, GotoType DEF RecordAction, Steps
  <2> QED BY <1>6, <2>1, <2>2, JobsStay DEF RecordAction, WriteHeld
<1> QED
  BY <1>1, <1>2, <1>3, <1>4, <1>5, <1>6
  DEF Next, Serve, Fail, DeadlockVictim, Finished

\* A step of the others does not take an admin's role who is counted.
LEMMA RolesStep ==
  ASSUME TypeInv, AdminInv, NEW r \in Request, Serve(r) \/ Fail(r),
         NEW q \in Request, NEW u \in counted[q],
         pc[q] \in {"locking", "changing", "recording", "committing"},
         q # r \/ UNCHANGED role
  PROVE  role'[u] = "admin"
<1> USE DEF AdminInv, TypeInv
<1>1. role[u] = "admin" /\ <<u, "update">> \in locks[q] /\ u \in User
  BY DEF CountedHeld, TypeOK
<1>2. CASE UNCHANGED role
  BY <1>1, <1>2
<1>3. CASE Login(r)
  BY <1>1, <1>3, JobTypes DEF Login, TypeOK, Succeed
<1>4. CASE Commit(r) /\ Kind(r) = "role" /\ q # r
  <2>1. u # Target(r)
    BY <1>1, <1>4, WriteExcludes DEF Commit, Succeed
  <2>2. role' = [role EXCEPT ![Target(r)] = To(r)]
    BY <1>4 DEF Commit, Succeed
  <2> QED BY <1>1, <2>1, <2>2 DEF TypeOK
<1> QED
  BY <1>2, <1>3, <1>4
  DEF Serve, Fail, DeadlockVictim, Rollback, Authenticate, Snapshot, LockAdmin, FindRole,
      ChangeRole, SoftDelete, RecordAction, Commit, Withdraw, CheckTarget, File, Resolve,
      store, Succeed

\* Every step keeps the counted admins admins, and locked.
LEMMA CountedHeldStep == TypeInv /\ AdminInv /\ [Next]_vars => CountedHeld'
<1> SUFFICES ASSUME TypeInv, AdminInv, [Next]_vars PROVE CountedHeld'
  OBVIOUS
<1> USE DEF AdminInv, TypeInv
<1>1. CASE UNCHANGED vars
  BY <1>1 DEF vars, store, counting, CountedHeld
<1>2. ASSUME NEW r \in Request, Serve(r) \/ Fail(r) PROVE CountedHeld'
  <2>1. ASSUME NEW q \in Request, q # r
        PROVE pc'[q] = pc[q] /\ locks'[q] = locks[q] /\ counted'[q] = counted[q]
    BY <1>2, <2>1
    DEF Serve, Fail, DeadlockVictim, Rollback, Authenticate, Login, Snapshot, LockAdmin,
        FindRole, Refuse, ChangeRole, SoftDelete, RecordAction, Commit, Withdraw,
        CheckTarget, File, Resolve, counting, Goto, Lock, Unlock, TypeOK, Succeed
  <2>2. ASSUME NEW q \in Request, q # r
        PROVE /\ pc'[q] \in {"new", "counting", "deleting"} => counted'[q] = {}
              /\ pc'[q] \in {"locking", "changing", "recording", "committing"} =>
                   \A u \in counted'[q] : role'[u] = "admin" /\ <<u, "update">> \in locks'[q]
    BY <1>2, <2>1, <2>2, RolesStep DEF CountedHeld
  <2>3. /\ pc'[r] \in {"new", "counting", "deleting"} => counted'[r] = {}
        /\ pc'[r] \in {"locking", "changing", "recording", "committing"} =>
             \A u \in counted'[r] : role'[u] = "admin" /\ <<u, "update">> \in locks'[r]
    <3>1. CASE LockAdmin(r)
      <4>1. PICK u \in rows[r] :
              Lock(r, u, "update") /\ counted'[r] = counted[r] \cup ({u} \cap Admins)
        BY <3>1 DEF LockAdmin, TypeOK
      <4>2. locks'[r] = locks[r] \cup {<<u, "update">>}
        BY <4>1 DEF Lock, TypeOK
      <4> QED BY <3>1, <4>1, <4>2 DEF LockAdmin, store, CountedHeld, Admins
    <3>2. CASE Authenticate(r)
      <4>1. counted'[r] = {} 
        BY <3>2 DEF Authenticate, counting, CountedHeld
      <4> QED BY <4>1
    <3>3. CASE Snapshot(r)
      <4>1. counted'[r] = {}
        BY <3>3 DEF Snapshot, CountedHeld
      <4> QED BY <4>1
    <3>4. CASE FindRole(r)
      <4>1. CASE Refuse(r)
        BY <3>4, <4>1 DEF Refuse, Goto, TypeOK
      <4>2. CASE Goto(r, "changing") /\ UNCHANGED locks
        <5>1. pc'[r] = "changing" /\ pc[r] = "locking"
              /\ counted' = counted /\ role' = role /\ locks' = locks
          BY <3>4, <4>2 DEF FindRole, Goto, TypeOK, store
        <5> QED BY <5>1 DEF CountedHeld
      <4> QED BY <3>4, <4>1, <4>2 DEF FindRole
    <3>5. CASE ChangeRole(r) \/ SoftDelete(r) \/ RecordAction(r)
      <4>1. CASE pc'[r] = "notFound"
        BY <4>1
      <4>2. CASE pc'[r] # "notFound"
        <5>1. /\ locks[r] \subseteq locks'[r]
              /\ counted' = counted /\ role' = role
              /\ pc'[r] \in {"recording", "committing"}
          BY <3>5, <4>2
          DEF ChangeRole, SoftDelete, RecordAction, Lock, Goto, TypeOK, store, counting
        <5>2. pc[r] = "deleting" \/ pc[r] \in {"changing", "recording"}
          BY <3>5 DEF ChangeRole, SoftDelete, RecordAction
        <5> QED BY <5>1, <5>2 DEF CountedHeld
      <4> QED BY <4>1, <4>2
    <3>6. CASE pc'[r] \in Answers \cup {"filing"}
      BY <3>6 DEF Answers
    <3> QED
      BY <1>2, <3>1, <3>2, <3>3, <3>4, <3>5, <3>6
      DEF Serve, Fail, DeadlockVictim, Rollback, Login, Commit, Withdraw, CheckTarget, File,
          Resolve, Goto, Answers, TypeOK, Succeed
  <2> QED BY <2>2, <2>3 DEF CountedHeld
<1> QED BY <1>1, <1>2 DEF Next, Finished

\* A demotion that goes on has counted an admin besides its target.
LEMMA AnotherCountedStep == TypeInv /\ AdminInv /\ [Next]_vars => AnotherCounted'
<1> SUFFICES ASSUME TypeInv, AdminInv, [Next]_vars PROVE AnotherCounted'
  OBVIOUS
<1> USE DEF AdminInv, TypeInv
<1>1. UNCHANGED scene
  BY DEF Next, Serve, Fail, DeadlockVictim, Finished, Rollback, Authenticate, Login,
         Snapshot, LockAdmin, FindRole, ChangeRole, SoftDelete, RecordAction, Commit,
         Withdraw, CheckTarget, File, Resolve, vars, Succeed
<1>2. CASE UNCHANGED vars
  BY <1>1, <1>2, JobsStay DEF vars, counting, AnotherCounted
<1>3. ASSUME NEW r \in Request, Serve(r) \/ Fail(r) PROVE AnotherCounted'
  <2>1. ASSUME NEW q \in Request, q # r
        PROVE pc'[q] = pc[q] /\ counted'[q] = counted[q] /\ found'[q] = found[q]
    BY <1>3, <2>1
    DEF Serve, Fail, DeadlockVictim, Rollback, Authenticate, Login, Snapshot, LockAdmin,
        FindRole, Refuse, ChangeRole, SoftDelete, RecordAction, Commit, Withdraw,
        CheckTarget, File, Resolve, counting, Goto, TypeOK, Succeed
  <2>2. ASSUME pc'[r] \in {"changing", "recording", "committing"},
               Kind(r) = "role", To(r) # "admin", found'[r] = "admin"
        PROVE \E u \in counted'[r] : u # Target(r)
    <3>1. CASE FindRole(r)
      <4>1. ~Refuse(r)
        BY <2>2 DEF Refuse, Goto, TypeOK
      <4>2. role[Target(r)] = "admin"
        BY <2>2, <3>1 DEF FindRole, TypeOK
      <4>3. ~LastAdmin(r) /\ counted' = counted
        BY <3>1, <4>1, <4>2 DEF FindRole
      <4> QED BY <4>3, TwoHaveAnother
    <3>2. CASE ChangeRole(r) \/ RecordAction(r)
      BY <2>2, <3>2 DEF ChangeRole, RecordAction, counting, AnotherCounted
    <3>3. ~Authenticate(r)
      BY <2>2, JobTypes DEF Authenticate, FirstStep, Goto, TypeOK
    <3> QED
      BY <1>3, <2>2, <3>1, <3>2, <3>3
      DEF Serve, Fail, DeadlockVictim, Rollback, Login, Snapshot, LockAdmin, SoftDelete,
          Commit, Withdraw, CheckTarget, File, Resolve, Goto, TypeOK, StepOfKind,
          Succeed
  <2> QED BY <1>1, <2>1, <2>2, JobsStay DEF AnotherCounted
<1> QED BY <1>2, <1>3 DEF Next, Finished

\* Every step leaves an administrator, or a demotion has been overtaken.
LEMMA AdminRemainsStep == TypeInv /\ AdminInv /\ [Next]_vars => AdminRemains'
<1> SUFFICES ASSUME TypeInv, AdminInv, [Next]_vars, ~overtaken'
             PROVE  \E u \in User : role'[u] = "admin"
  BY DEF AdminRemains, Admins
<1> USE DEF AdminInv, TypeInv
<1>1. CASE UNCHANGED <<role, overtaken>>
  BY <1>1 DEF AdminRemains, Admins
<1>2. ASSUME NEW r \in Request, Login(r) PROVE \E u \in User : role'[u] = "admin"
  BY <1>2, JobTypes DEF Login, TypeOK, Succeed
<1>3. ASSUME NEW r \in Request, Commit(r) PROVE \E u \in User : role'[u] = "admin"
  <2>1. CASE Kind(r) = "delete"
    BY <1>1, <1>3, <2>1 DEF Commit, Succeed
  <2>2. CASE Kind(r) = "role"
    <3>1. /\ role' = [role EXCEPT ![Target(r)] = To(r)]
          /\ ~overtaken
          /\ ~(found[r] # "admin" /\ role[Target(r)] = "admin" /\ To(r) # "admin")
      BY <1>3, <2>2 DEF Commit, TypeOK, Succeed
    <3>2. Target(r) \in User
      BY <2>2, JobTypes
    <3>3. CASE To(r) = "admin"
      BY <3>1, <3>2, <3>3 DEF TypeOK
    <3>4. CASE role[Target(r)] # "admin"
      BY <3>1, <3>2, <3>4 DEF TypeOK, AdminRemains, Admins
    <3>5. CASE To(r) # "admin" /\ found[r] = "admin"
      <4>1. PICK u \in counted[r] : u # Target(r)
        BY <1>3, <2>2, <3>5 DEF Commit, AnotherCounted, Succeed
      <4>2. u \in User /\ role[u] = "admin"
        BY <1>3, <4>1 DEF Commit, CountedHeld, TypeOK, Succeed
      <4> QED BY <3>1, <4>1, <4>2 DEF TypeOK
    <3> QED BY <3>1, <3>3, <3>4, <3>5
  <2> QED BY <1>3, <2>1, <2>2 DEF Commit, Succeed
<1> QED
  BY <1>1, <1>2, <1>3
  DEF Next, Serve, Fail, DeadlockVictim, Finished, Rollback, Authenticate, Snapshot,
      LockAdmin, FindRole, ChangeRole, SoftDelete, RecordAction, Withdraw, CheckTarget,
      File, Resolve, vars, store, Succeed

\* The invariant about the administrators holds throughout.
LEMMA AdminsKept == Spec => []AdminInv
<1>1. AdminInv /\ TypeInv /\ [Next]_vars => AdminInv'
  BY ExclusionStep, WriteHeldStep, CountedHeldStep, AnotherCountedStep, AdminRemainsStep
  DEF AdminInv
<1> QED BY <1>1, AdminInit, TypesKept, PTL DEF Spec

\* However demotions overlap, an administrator remains, unless somebody was
\* promoted after a demotion had looked at their role.
THEOREM SomebodyAdministers == Spec => []AdminRemains
<1>1. AdminInv => AdminRemains
  BY DEF AdminInv
<1> QED BY <1>1, AdminsKept, PTL

\* Where nobody is promoted, a demotion that found somebody who was no admin
\* does not find an admin when it is committed.
FoundStands ==
  NoPromotions =>
    /\ ~overtaken
    /\ \A r \in Request :
         /\ Kind(r) = "role" /\ pc[r] \in {"changing", "recording", "committing"}
         /\ found[r] # "admin"
         => role[Target(r)] # "admin"

-----------------------------------------------------------------------------
(* Deletions.                                                              *)

\* What a moderator is deleting is still there.
StillThere ==
  \A r \in Request :
    pc[r] \in {"recording", "committing"} /\ Kind(r) = "delete" => Target(r) \in alive

\* Who commits has a record, and so has who deleted.
Logged ==
  \A r \in Request :
    pc[r] = "committing" \/ (pc[r] = "ok" /\ Kind(r) = "delete")
      => \E i \in DOMAIN log : log[i] = r

DeleteInv == StillThere /\ Logged /\ DeletedOnce

\* Nothing is deleted at first.
LEMMA DeleteInit == Init => DeleteInv
BY DEF Init, DeleteInv, StillThere, Logged, DeletedOnce, Deletions

\* What the log holds it keeps.
LEMMA LogGrows ==
  ASSUME TypeInv, NEW r \in Request, log' = Append(log, r)
  PROVE  /\ \E i \in DOMAIN log' : log'[i] = r
         /\ \A q \in Request : (\E i \in DOMAIN log : log[i] = q)
                               => \E i \in DOMAIN log' : log'[i] = q
<1>1. log \in Seq(Request)
  BY DEF TypeInv, TypeOK
<1>2. DOMAIN log' = 1 .. Len(log) + 1 /\ log'[Len(log) + 1] = r
  BY <1>1
<1>3. \A i \in 1 .. Len(log) : log'[i] = log[i]
  BY <1>1
<1>4. DOMAIN log = 1 .. Len(log) /\ Len(log) \in Nat
  BY <1>1
<1> QED BY <1>2, <1>3, <1>4

\* A step of one request moves only that one, and the log only grows.
LEMMA OthersStay ==
  ASSUME TypeInv, NEW r \in Request, Serve(r) \/ Fail(r)
  PROVE  /\ UNCHANGED scene
         /\ \A q \in Request : q # r => pc'[q] = pc[q]
         /\ \A q \in Request : (\E i \in DOMAIN log : log[i] = q)
                               => \E i \in DOMAIN log' : log'[i] = q
<1>1. UNCHANGED log \/ log' = Append(log, r)
  BY DEF Serve, Fail, DeadlockVictim, Rollback, Authenticate, Login, Snapshot, LockAdmin,
         FindRole, ChangeRole, SoftDelete, RecordAction, Commit, Withdraw, CheckTarget,
         File, Resolve, Succeed
<1>2. UNCHANGED scene /\ \A q \in Request : q # r => pc'[q] = pc[q]
  BY DEF Serve, Fail, DeadlockVictim, Rollback, Authenticate, Login, Snapshot, LockAdmin,
         FindRole, Refuse, ChangeRole, SoftDelete, RecordAction, Commit, Withdraw,
         CheckTarget, File, Resolve, Goto, TypeInv, TypeOK, Succeed
<1> QED BY <1>1, <1>2, LogGrows

\* Only two steps delete: a moderator's commit and the author's statement.
DeletesNow(r) ==
  \/ Commit(r) /\ Kind(r) = "delete"
  \/ Withdraw(r) /\ Target(r) \in alive

\* The other steps delete nothing and answer nobody who deletes with success.
LEMMA NothingDeleted ==
  ASSUME TypeInv, NEW r \in Request, Serve(r) \/ Fail(r), ~DeletesNow(r)
  PROVE  /\ UNCHANGED alive
         /\ pc'[r] = "ok" => pc[r] = "ok" \/ Kind(r) \notin {"delete", "own"}
<1> USE DEF TypeInv
<1>1. CASE Authenticate(r)
  <2>1. FirstStep(r) # "ok"
    BY <1>1, JobTypes DEF Authenticate, FirstStep
  <2> QED BY <1>1, <2>1 DEF Authenticate, Goto, TypeOK, store
<1>2. CASE Commit(r)
  BY <1>2 DEF Commit, DeletesNow, Succeed
<1>5. CASE Withdraw(r)
  BY <1>5 DEF Withdraw, DeletesNow, Goto, TypeOK, Succeed
<1>3. CASE Login(r) \/ File(r) \/ Resolve(r)
  BY <1>3 DEF Login, File, Resolve, StepOfKind, Succeed
<1>4. CASE FindRole(r)
  BY <1>4 DEF FindRole, Refuse, Goto, TypeOK, store
<1> QED
  BY <1>1, <1>2, <1>3, <1>4, <1>5
  DEF Serve, Fail, DeadlockVictim, Rollback, Snapshot, LockAdmin, ChangeRole,
      SoftDelete, RecordAction, CheckTarget, Goto, TypeOK, store

\* A deletion deletes an item nobody had deleted, and nobody is deleting.
LEMMA OneDeleted ==
  ASSUME TypeInv, AdminInv, DeleteInv, NEW r \in Request, DeletesNow(r)
  PROVE  /\ Target(r) \in alive /\ alive' = alive \ {Target(r)}
         /\ pc'[r] = "ok" /\ Kind(r) \in {"delete", "own"}
         /\ Kind(r) = "delete" => \E i \in DOMAIN log : log[i] = r
         /\ \A q \in Request : q # r => <<Target(r), "write">> \notin locks[q]
<1> USE DEF TypeInv
<1>1. CASE Commit(r) /\ Kind(r) = "delete"
  BY <1>1, WriteExcludes DEF Commit, DeleteInv, StillThere, Logged, Goto, TypeOK,
                             Succeed
<1>2. CASE Withdraw(r) /\ Target(r) \in alive
  <2>1. Holders(r, Target(r), "write") = {}
    BY <1>2 DEF Withdraw, Succeed
  <2>2. \A q \in Request : q # r => <<Target(r), "write">> \notin locks[q]
    BY <2>1 DEF Holders, Conflict
  <2>3. Kind(r) = "own"
    BY <1>2 DEF Withdraw, StepOfKind, Succeed
  <2> QED BY <1>2, <2>2, <2>3 DEF Withdraw, Goto, TypeOK, Succeed
<1> QED BY <1>1, <1>2 DEF DeletesNow

\* Every step keeps what is being deleted there, ...
LEMMA StillThereStep == TypeInv /\ AdminInv /\ DeleteInv /\ [Next]_vars => StillThere'
<1> SUFFICES ASSUME TypeInv, AdminInv, DeleteInv, [Next]_vars PROVE StillThere'
  OBVIOUS
<1>1. CASE UNCHANGED vars
  BY <1>1, JobsStay DEF vars, store, DeleteInv, StillThere
<1>2. ASSUME NEW r \in Request, Serve(r) \/ Fail(r) PROVE StillThere'
  <2>1. ASSUME NEW q \in Request, pc'[q] \in {"recording", "committing"}, Kind(q) = "delete"
        PROVE Target(q) \in alive
    <3>1. CASE q # r \/ pc[q] = pc'[q]
      BY <1>2, <2>1, <3>1, OthersStay DEF DeleteInv, StillThere
    <3>2. CASE q = r /\ pc[q] # pc'[q]
      <4>1. CASE Authenticate(r)
        BY <2>1, <3>2, <4>1, JobTypes
        DEF Authenticate, FirstStep, Goto, TypeInv, TypeOK
      <4>2. CASE SoftDelete(r)
        BY <2>1, <3>2, <4>2 DEF SoftDelete, Goto, TypeInv, TypeOK
      <4>3. CASE RecordAction(r)
        BY <2>1, <3>2, <4>3 DEF RecordAction, DeleteInv, StillThere
      <4>4. CASE ChangeRole(r)
        BY <2>1, <3>2, <4>4 DEF ChangeRole, TypeInv, StepOfKind
      <4> QED
        BY <1>2, <2>1, <3>2, <4>1, <4>2, <4>3, <4>4
        DEF Serve, Fail, DeadlockVictim, Rollback, Login, Snapshot, LockAdmin, FindRole,
            Refuse, Commit, Withdraw, CheckTarget, File, Resolve, Goto, TypeInv, TypeOK,
            Succeed
    <3> QED BY <3>1, <3>2
  <2>2. CASE ~DeletesNow(r)
    BY <1>2, <2>1, <2>2, NothingDeleted, OthersStay, JobsStay DEF StillThere
  <2>3. CASE DeletesNow(r)
    <3>1. ASSUME NEW q \in Request, pc'[q] \in {"recording", "committing"}
          PROVE Target(q) # Target(r)
      <4>1. pc'[r] = "ok"
        BY <2>3, OneDeleted
      <4>2. q # r
        BY <3>1, <4>1
      <4>3. pc[q] \in {"recording", "committing"}
        BY <1>2, <3>1, <4>2, OthersStay
      <4>4. <<Target(q), "write">> \in locks[q]
        BY <4>3 DEF AdminInv, WriteHeld
      <4>5. <<Target(r), "write">> \notin locks[q]
        BY <2>3, <4>2, OneDeleted
      <4> QED BY <4>4, <4>5
    <3>2. alive' = alive \ {Target(r)} /\ UNCHANGED scene
      BY <1>2, <2>3, OneDeleted, OthersStay
    <3> QED BY <2>1, <3>1, <3>2, JobsStay DEF StillThere
  <2> QED BY <2>2, <2>3
<1> QED BY <1>1, <1>2 DEF Next, Finished

\* ... and its record in the log.
LEMMA LoggedStep == TypeInv /\ AdminInv /\ DeleteInv /\ [Next]_vars => Logged'
<1> SUFFICES ASSUME TypeInv, AdminInv, DeleteInv, [Next]_vars PROVE Logged'
  OBVIOUS
<1>1. CASE UNCHANGED vars
  BY <1>1, JobsStay DEF vars, DeleteInv, Logged
<1>2. ASSUME NEW r \in Request, Serve(r) \/ Fail(r) PROVE Logged'
  <2>1. ASSUME pc'[r] = "committing" \/ (pc'[r] = "ok" /\ Kind(r) = "delete")
        PROVE \E i \in DOMAIN log' : log'[i] = r
    <3>1. CASE RecordAction(r)
      BY <3>1, LogGrows DEF RecordAction
    <3>2. CASE DeletesNow(r)
      <4>1. Kind(r) = "delete"
        BY <2>1, <3>2 DEF DeletesNow, Withdraw, Goto, TypeInv, TypeOK, Succeed
      <4> QED BY <1>2, <3>2, <4>1, OneDeleted, OthersStay
    <3>3. CASE ~DeletesNow(r) /\ pc'[r] = "ok"
      BY <1>2, <2>1, <3>3, NothingDeleted, OthersStay DEF DeleteInv, Logged
    <3>4. CASE ~RecordAction(r) /\ pc'[r] = "committing"
      <4>1. pc[r] = "committing"
        <5>1. ~Authenticate(r)
          BY <3>4, JobTypes DEF Authenticate, FirstStep, Goto, TypeInv, TypeOK
        <5> QED
          BY <1>2, <3>4, <5>1
          DEF Serve, Fail, DeadlockVictim, Rollback, Login, Snapshot, LockAdmin, FindRole,
              Refuse, ChangeRole, SoftDelete, Commit, Withdraw, CheckTarget, File,
              Resolve, Goto, TypeInv, TypeOK, Succeed
      <4> QED BY <1>2, <4>1, OthersStay DEF DeleteInv, Logged
    <3> QED BY <2>1, <3>1, <3>2, <3>3, <3>4
  <2> QED BY <1>2, <2>1, OthersStay, JobsStay DEF DeleteInv, Logged
<1> QED BY <1>1, <1>2 DEF Next, Finished

\* A request that has succeeded does nothing more.
LEMMA NotAnswered ==
  ASSUME NEW r \in Request, Serve(r) \/ Fail(r)
  PROVE  pc[r] # "ok"
<1>1. pc[r] \in {"new"} \cup Steps \/ WaitsFor(r) # {}
  BY DEF Serve, Fail, DeadlockVictim, Deadlocked, Authenticate, Login, Snapshot, LockAdmin,
         FindRole, ChangeRole, SoftDelete, RecordAction, Commit, Withdraw, CheckTarget,
         File, Resolve, Steps, Succeed
<1>2. pc[r] = "ok" => WaitsFor(r) = {}
  BY DEF WaitsFor, Needs
<1> QED BY <1>1, <1>2 DEF Steps

\* Every step keeps each item's deletion the only one.
LEMMA DeletedOnceStep == TypeInv /\ AdminInv /\ DeleteInv /\ [Next]_vars => DeletedOnce'
<1> SUFFICES ASSUME TypeInv, AdminInv, DeleteInv, [Next]_vars, NEW x \in Item
             PROVE  /\ x \in alive' <=> Deletions(x)' = {}
                    /\ \A q, r \in Deletions(x)' : q = r
                    /\ \A r \in Deletions(x)' :
                         Kind(r)' = "delete" => \E i \in DOMAIN log' : log'[i] = r
  BY DEF DeletedOnce
<1>1. /\ x \in alive <=> Deletions(x) = {}
      /\ \A q, r \in Deletions(x) : q = r
      /\ \A r \in Deletions(x) : Kind(r) = "delete" => \E i \in DOMAIN log : log[i] = r
  BY DEF DeleteInv, DeletedOnce
<1>2. CASE UNCHANGED vars
  BY <1>1, <1>2 DEF vars, store, Deletions, Kind, Target
<1>3. ASSUME NEW r \in Request, Serve(r) \/ Fail(r), ~DeletesNow(r), pc[r] # "ok"
      PROVE  /\ x \in alive' <=> Deletions(x)' = {}
             /\ \A p, q \in Deletions(x)' : p = q
             /\ \A q \in Deletions(x)' :
                  Kind(q)' = "delete" => \E i \in DOMAIN log' : log'[i] = q
  <2>1. alive' = alive /\ (pc'[r] = "ok" => Kind(r) \notin {"delete", "own"})
    BY <1>3, NothingDeleted
  <2>2. Deletions(x)' = Deletions(x)
    BY <1>3, <2>1, OthersStay, JobsStay DEF Deletions
  <2>3. \A q \in Deletions(x) : q \in Request /\ Kind(q)' = Kind(q)
    BY <1>3, OthersStay, JobsStay DEF Deletions
  <2> QED BY <1>1, <1>3, <2>1, <2>2, <2>3, OthersStay
<1>4. ASSUME NEW r \in Request, Serve(r) \/ Fail(r), DeletesNow(r)
      PROVE  /\ x \in alive' <=> Deletions(x)' = {}
             /\ \A p, q \in Deletions(x)' : p = q
             /\ \A q \in Deletions(x)' :
                  Kind(q)' = "delete" => \E i \in DOMAIN log' : log'[i] = q
  <2>1. /\ Target(r) \in alive /\ alive' = alive \ {Target(r)}
        /\ pc'[r] = "ok" /\ Kind(r) \in {"delete", "own"}
        /\ Kind(r) = "delete" => \E i \in DOMAIN log : log[i] = r
    BY <1>4, OneDeleted
  <2>2. Deletions(x)' = IF x = Target(r) THEN Deletions(x) \cup {r} ELSE Deletions(x)
    <3>1. pc[r] # "ok"
      BY <1>4 DEF DeletesNow, Commit, Withdraw, Succeed
    <3> QED BY <1>4, <2>1, <3>1, OthersStay, JobsStay DEF Deletions
  <2>3. \A q \in Deletions(x)' : q \in Request /\ Kind(q)' = Kind(q)
    BY <1>4, OthersStay, JobsStay DEF Deletions
  <2>4. CASE x = Target(r)
    <3>1. Deletions(x) = {} /\ Deletions(x)' = {r}
      BY <1>1, <2>1, <2>2, <2>4
    <3> QED BY <1>4, <2>1, <2>3, <2>4, <3>1, OthersStay
  <2>5. CASE x # Target(r)
    <3>1. Deletions(x)' = Deletions(x) /\ (x \in alive' <=> x \in alive)
      BY <2>1, <2>2, <2>5
    <3> QED BY <1>1, <1>4, <2>3, <3>1, OthersStay
  <2> QED BY <2>4, <2>5
<1>5. ASSUME NEW r \in Request, Serve(r) \/ Fail(r) PROVE pc[r] # "ok"
  BY <1>5, NotAnswered
<1> QED BY <1>2, <1>3, <1>4, <1>5 DEF Next, Finished

\* The invariant about deletions holds throughout.
LEMMA DeletionsKept == Spec => []DeleteInv
<1>1. DeleteInv /\ AdminInv /\ TypeInv /\ [Next]_vars => DeleteInv'
  BY StillThereStep, LoggedStep, DeletedOnceStep DEF DeleteInv
<1> QED BY <1>1, DeleteInit, AdminsKept, TypesKept, PTL DEF Spec

\* However many delete an item, it is deleted once and by one of them, and if
\* that is a moderator there is a record of it.
THEOREM DeletedByOne == Spec => []DeletedOnce
<1>1. DeleteInv => DeletedOnce
  BY DEF DeleteInv
<1> QED BY <1>1, DeletionsKept, PTL

-----------------------------------------------------------------------------
(* Refusals and reports.                                                   *)

\* While nobody is promoted, a demotion has counted, or is going to, whoever
\* is an admin.
AllCounted ==
  NoPromotions =>
    \A r \in Request : pc[r] = "locking" => Admins \subseteq rows[r] \cup counted[r]

\* Without promotions there are no new admins.
LEMMA AdminsShrink ==
  ASSUME TypeInv, NoPromotions, NEW r \in Request, Serve(r) \/ Fail(r)
  PROVE  Admins' \subseteq Admins
<1> USE DEF TypeInv
<1>1. CASE UNCHANGED role
  BY <1>1 DEF Admins
<1>2. ~Login(r)
  BY DEF Login, NoPromotions, Succeed
<1>3. CASE Commit(r)
  <2>1. Kind(r) = "role" => To(r) # "admin"
    BY DEF NoPromotions
  <2> QED BY <1>3, <2>1, JobTypes DEF Commit, Admins, TypeOK, Succeed
<1> QED
  BY <1>1, <1>2, <1>3
  DEF Serve, Fail, DeadlockVictim, Rollback, Authenticate, Snapshot, LockAdmin, FindRole,
      ChangeRole, SoftDelete, RecordAction, Withdraw, CheckTarget, File, Resolve, store,
      Succeed

\* Every step keeps the count complete.
LEMMA AllCountedStep == TypeInv /\ AllCounted /\ [Next]_vars => AllCounted'
<1> SUFFICES ASSUME TypeInv, AllCounted, [Next]_vars, NoPromotions',
                    NEW q \in Request, pc'[q] = "locking"
             PROVE  Admins' \subseteq rows'[q] \cup counted'[q]
  BY DEF AllCounted
<1> USE DEF TypeInv
<1>1. UNCHANGED scene
  BY OthersStay DEF Next, Finished, vars
<1>2. NoPromotions
  BY <1>1, JobsStay DEF NoPromotions
<1>3. CASE UNCHANGED vars
  BY <1>2, <1>3 DEF vars, store, counting, AllCounted, Admins
<1>4. ASSUME NEW r \in Request, Serve(r) \/ Fail(r)
      PROVE  Admins' \subseteq rows'[q] \cup counted'[q]
  <2>1. Admins' \subseteq Admins
    BY <1>2, <1>4, AdminsShrink
  <2>2. CASE Snapshot(r) /\ q = r
    BY <2>1, <2>2 DEF Snapshot, TypeOK
  <2>3. CASE LockAdmin(r) /\ q = r
    <3>1. PICK u \in rows[r] :
            rows'[r] = rows[r] \ {u} /\ counted'[r] = counted[r] \cup ({u} \cap Admins)
      BY <2>3 DEF LockAdmin, TypeOK
    <3>2. pc[r] = "locking"
      BY <2>3 DEF LockAdmin
    <3> QED BY <1>2, <2>1, <2>3, <3>1, <3>2 DEF AllCounted
  <2>4. CASE pc[q] = "locking" /\ rows'[q] = rows[q] /\ counted'[q] = counted[q]
    BY <1>2, <2>1, <2>4 DEF AllCounted
  <2>5. ~(Authenticate(r) /\ q = r)
    BY JobTypes DEF Authenticate, FirstStep, Goto, TypeOK
  <2> QED
    BY <1>4, <2>2, <2>3, <2>4, <2>5
    DEF Serve, Fail, DeadlockVictim, Rollback, Authenticate, Login, Snapshot, LockAdmin,
        FindRole, Refuse, ChangeRole, SoftDelete, RecordAction, Commit, Withdraw,
        CheckTarget, File, Resolve, counting, Goto, TypeOK, Succeed
<1> QED BY <1>3, <1>4 DEF Next, Finished

\* Who is refused found the target an admin; that was the last one, as long as
\* nobody is promoted.
LEMMA RefusedIsLast ==
  ASSUME TypeInv, AdminInv, AllCounted, NEW r \in Request, FindRole(r), pc'[r] = "lastAdmin"
  PROVE  /\ Target(r) \in Admins
         /\ NoPromotions => Admins = {Target(r)}
<1> USE DEF TypeInv
<1>1. role[Target(r)] = "admin" /\ LastAdmin(r)
  BY DEF FindRole, Goto, TypeOK
<1>2. Target(r) \in Admins
  BY <1>1, JobTypes DEF FindRole, StepOfKind, Admins
<1>3. ASSUME NoPromotions PROVE Admins = {Target(r)}
  <2>1. Admins = counted[r]
    BY <1>3 DEF FindRole, AllCounted, AdminInv, CountedHeld, Admins, TypeOK
  <2>2. IsFiniteSet(counted[r])
    BY <2>1, ModerationAssumption, FS_Subset DEF Admins
  <2>3. ASSUME NEW u \in counted[r], u # Target(r) PROVE FALSE
    <3>1. {u, Target(r)} \subseteq counted[r] /\ Cardinality({u, Target(r)}) = 2
      <4>1. IsFiniteSet({u}) /\ Cardinality({u}) = 1
        BY FS_Singleton
      <4>2. Target(r) \notin {u}
        BY <2>3
      <4>3. Cardinality({u} \cup {Target(r)})
              = IF Target(r) \in {u} THEN Cardinality({u}) ELSE Cardinality({u}) + 1
        BY <4>1, FS_AddElement
      <4>4. Cardinality({u} \cup {Target(r)}) = 2
        BY <4>1, <4>2, <4>3
      <4>5. {u} \cup {Target(r)} = {u, Target(r)}
        OBVIOUS
      <4> QED BY <1>2, <2>1, <2>3, <4>4, <4>5
    <3>2. Cardinality(counted[r]) >= 2
      BY <2>2, <3>1, FS_Subset
    <3>3. Cardinality(counted[r]) \in Nat
      BY <2>2, FS_CardinalityType
    <3> QED BY <1>1, <3>2, <3>3 DEF LastAdmin
  <2> QED BY <1>2, <2>1, <2>3
<1> QED BY <1>2, <1>3

\* The count is complete throughout.
LEMMA AllCountedAlways == Spec => []AllCounted
<1>1. Init => AllCounted
  BY DEF Init, AllCounted
<1> QED BY <1>1, AllCountedStep, TypesKept, PTL DEF Spec

\* While nobody is promoted, only the demotion of the last admin is refused
\* for that reason.
THEOREM RefusalIsRight == Spec => RefusedOnlyLast
<1>1. TypeInv /\ AdminInv /\ AllCounted /\ [Next]_vars =>
        [\A r \in Request :
           /\ NoPromotions
           /\ pc[r] # "lastAdmin" /\ pc'[r] = "lastAdmin"
           => Admins = {Target(r)}]_vars
  <2> SUFFICES ASSUME TypeInv, AdminInv, AllCounted, Next, NoPromotions,
                      NEW r \in Request, pc[r] # "lastAdmin", pc'[r] = "lastAdmin"
               PROVE  Admins = {Target(r)}
    OBVIOUS
  <2> USE DEF TypeInv
  <2>1. PICK q \in Request : Serve(q) \/ Fail(q)
    BY DEF Next, Finished, vars
  <2>2. q = r
    BY <2>1, OthersStay
  <2>3. FindRole(r)
    <3>1. ~Authenticate(r)
      BY JobTypes DEF Authenticate, FirstStep, Goto, TypeOK
    <3> QED
      BY <2>1, <2>2, <3>1
      DEF Serve, Fail, DeadlockVictim, Rollback, Login, Snapshot, LockAdmin, ChangeRole,
          SoftDelete, RecordAction, Commit, Withdraw, CheckTarget, File, Resolve, Goto, TypeOK,
          Succeed
  <2> QED BY <2>3, RefusedIsLast
<1> QED BY <1>1, AllCountedAlways, TypesKept, AdminsKept, PTL DEF Spec, RefusedOnlyLast

\* Every step keeps it so.
LEMMA FoundStandsStep == TypeInv /\ FoundStands /\ [Next]_vars => FoundStands'
<1> SUFFICES ASSUME TypeInv, FoundStands, [Next]_vars, NoPromotions' PROVE FoundStands'
  BY DEF FoundStands
<1> USE DEF TypeInv
<1>1. UNCHANGED scene
  BY OthersStay DEF Next, Finished, vars
<1>2. NoPromotions /\ NoPromotions'
  BY <1>1, JobsStay DEF NoPromotions
<1>3. CASE UNCHANGED vars
  BY <1>3, <1>2, JobsStay DEF vars, store, counting, FoundStands
<1>4. ASSUME NEW r \in Request, Serve(r) \/ Fail(r) PROVE FoundStands'
  <2>1. Admins' \subseteq Admins
    BY <1>2, <1>4, AdminsShrink
  <2>2. ~overtaken'
    <3>1. CASE Commit(r)
      BY <1>2, <3>1 DEF Commit, FoundStands, Succeed
    <3>2. CASE ~Commit(r)
      BY <1>2, <1>4, <3>2
      DEF FoundStands, Serve, Fail, DeadlockVictim, Rollback, Authenticate, Login, Snapshot,
          LockAdmin, FindRole, ChangeRole, SoftDelete, RecordAction, Withdraw, CheckTarget,
          File, Resolve, Succeed
    <3> QED BY <3>1, <3>2
  <2>3. ASSUME NEW q \in Request, Kind(q) = "role",
               pc'[q] \in {"changing", "recording", "committing"}, found'[q] # "admin"
        PROVE  role'[Target(q)] # "admin"
    <3>1. Target(q) \in User
      BY <2>3, JobTypes
    <3>2. CASE q = r /\ FindRole(r)
      BY <2>3, <3>2 DEF FindRole, store, TypeOK
    <3>3. CASE ~(q = r /\ FindRole(r))
      <4>1. ~(q = r /\ Authenticate(r))
        <5> SUFFICES ASSUME q = r, Authenticate(r) PROVE FALSE
          OBVIOUS
        <5>1. To(r) # "admin"
          BY <1>2, <2>3 DEF NoPromotions
        <5> QED BY <2>3, <5>1 DEF Authenticate, FirstStep, Goto, TypeOK
      <4>2. pc[q] \in {"changing", "recording", "committing"} /\ found'[q] = found[q]
        BY <1>4, <2>3, <3>3, <4>1, OthersStay
        DEF Serve, Fail, DeadlockVictim, Rollback, Authenticate, Login, Snapshot, LockAdmin,
            FindRole, Refuse, ChangeRole, SoftDelete, RecordAction, Commit, Withdraw,
            CheckTarget, File, Resolve, counting, Goto, TypeOK, StepOfKind, Succeed
      <4>3. role[Target(q)] # "admin"
        BY <1>2, <2>3, <4>2 DEF FoundStands
      <4> QED BY <2>1, <3>1, <4>3 DEF Admins
    <3> QED BY <3>2, <3>3
  <2> QED BY <1>1, <2>2, <2>3, JobsStay DEF FoundStands
<1> QED BY <1>3, <1>4 DEF Next, Finished

\* What ensureAdminRemains says is true as long as nobody is promoted, at a
\* login or by an administrator: there is always an administrator.
THEOREM AlwaysAnAdmin == Spec => [](NoPromotions => NeverWithoutAdmin)
<1>1. Init => FoundStands
  BY DEF Init, FoundStands
<1>2. Spec => []FoundStands
  BY <1>1, FoundStandsStep, TypesKept, PTL DEF Spec
<1>3. FoundStands /\ AdminRemains => (NoPromotions => NeverWithoutAdmin)
  BY DEF FoundStands, AdminRemains, NeverWithoutAdmin
<1> QED BY <1>2, <1>3, SomebodyAdministers, PTL

\* A report keeps its reason, and one that is resolved stays as it is.
THEOREM ReportsStay == Spec => ReportsKept
<1>1. TypeInv /\ [Next]_vars =>
        [\A k \in User \X Item : reports[k] # None =>
           /\ reports'[k] # None /\ reports'[k].reason = reports[k].reason
           /\ reports[k].status # "open" => reports'[k] = reports[k]]_vars
  <2> SUFFICES ASSUME TypeInv, Next, NEW k \in User \X Item, reports[k] # None
               PROVE  /\ reports'[k] # None /\ reports'[k].reason = reports[k].reason
                      /\ reports[k].status # "open" => reports'[k] = reports[k]
    OBVIOUS
  <2> USE DEF TypeInv
  <2>1. CASE UNCHANGED reports
    BY <2>1
  <2>2. ASSUME NEW r \in Request, File(r)
        PROVE  /\ reports'[k] # None /\ reports'[k].reason = reports[k].reason
               /\ reports[k].status # "open" => reports'[k] = reports[k]
    BY <2>2 DEF File, TypeOK, Succeed
  <2>3. ASSUME NEW r \in Request, Resolve(r)
        PROVE  /\ reports'[k] # None /\ reports'[k].reason = reports[k].reason
               /\ reports[k].status # "open" => reports'[k] = reports[k]
    <3>2. CASE k # Target(r) \/ ~IsOpen(k)
      BY <2>3, <3>2 DEF Resolve, TypeOK, Succeed
    <3>3. CASE k = Target(r) /\ IsOpen(k)
      <4>1. reports'[k] = [reason |-> reports[k].reason, status |-> To(r), by |-> Actor(r)]
            \/ UNCHANGED reports
        BY <2>3, <3>3 DEF Resolve, TypeOK, Succeed
      <4>2. To(r) \in Verdicts /\ Actor(r) \in User /\ reports[k] \in Report
        BY <2>3, JobTypes DEF Resolve, StepOfKind, TypeOK, Succeed
      <4>3. [reason |-> reports[k].reason, status |-> To(r), by |-> Actor(r)] \in Report
        BY <4>2 DEF Report
      <4> QED BY <3>3, <4>1, <4>3, ModerationAssumption DEF IsOpen
    <3> QED BY <3>2, <3>3
  <2> QED
    BY <2>1, <2>2, <2>3
    DEF Next, Serve, Fail, DeadlockVictim, Finished, Rollback, Authenticate, Login,
        Snapshot, LockAdmin, FindRole, ChangeRole, SoftDelete, RecordAction, Commit,
        Withdraw, CheckTarget, vars, store, Succeed
<1> QED BY <1>1, TypesKept, PTL DEF Spec, ReportsKept
-----------------------------------------------------------------------------
(* The records and the roles.                                              *)

\* Whoever is about to commit a change of a role has the last record on its
\* target: the row is locked since before the record was written.
RecordedLast ==
  \A r \in Request : pc[r] = "committing" /\ Kind(r) = "role" =>
    \E i \in DOMAIN log :
      /\ log[i] = r
      /\ \A j \in DOMAIN log : log[j] = r \/ j \in ChangesOf(Target(r)) => j <= i

\* A record that is added is the last one.
LEMMA Appended ==
  ASSUME TypeOK, NEW r \in Request, log' = Append(log, r)
  PROVE  /\ DOMAIN log \subseteq Nat
         /\ DOMAIN log' = DOMAIN log \cup {Len(log) + 1}
         /\ Len(log) + 1 \notin DOMAIN log
         /\ \A i \in DOMAIN log : i <= Len(log) + 1 /\ log'[i] = log[i]
         /\ log'[Len(log) + 1] = r
<1>1. log \in Seq(Request)
  BY DEF TypeOK
<1>2. DOMAIN log = 1 .. Len(log) /\ Len(log) \in Nat
  BY <1>1
<1>3. DOMAIN log' = 1 .. Len(log) + 1 /\ log'[Len(log) + 1] = r
      /\ \A i \in 1 .. Len(log) : log'[i] = log[i]
  BY <1>1
<1> QED BY <1>2, <1>3

\* Other steps than the commit of a change leave everybody's changes as they
\* are.
LEMMA ChangesStay ==
  ASSUME TypeInv, NEW r \in Request, Serve(r) \/ Fail(r),
         ~(Commit(r) /\ Kind(r) = "role"), NEW u \in User
  PROVE  /\ ChangesOf(u)' = ChangesOf(u)
         /\ \A i \in DOMAIN log : i \in DOMAIN log' /\ log'[i] = log[i]
<1> USE DEF TypeInv
<1>1. pc[r] # "ok"
  BY NotAnswered
<1>2. pc'[r] = "ok" => Kind(r) # "role"
  BY <1>1, JobTypes
  DEF Serve, Fail, DeadlockVictim, Rollback, Authenticate, FirstStep, Login, Snapshot,
      LockAdmin, FindRole, Refuse, ChangeRole, SoftDelete, RecordAction, Commit, Withdraw,
      CheckTarget, File, Resolve, Goto, TypeOK, StepOfKind, Succeed
<1>3. \A q \in Request :
        (pc'[q] = "ok" /\ Kind(q) = "role") <=> (pc[q] = "ok" /\ Kind(q) = "role")
  BY <1>1, <1>2, OthersStay
<1>4. \A q \in Request : Kind(q)' = Kind(q) /\ Target(q)' = Target(q)
  BY OthersStay, JobsStay
<1>5. \A i \in DOMAIN log : log[i] \in Request
  BY DEF TypeOK
<1>6. CASE log' = log
  BY <1>3, <1>4, <1>5, <1>6 DEF ChangesOf
<1>7. CASE RecordAction(r)
  <2>1. log' = Append(log, r) /\ pc'[r] = "committing"
    BY <1>7 DEF RecordAction, Goto, TypeOK
  <2> QED BY <1>3, <1>4, <1>5, <2>1, Appended DEF ChangesOf
<1> QED
  BY <1>6, <1>7
  DEF Serve, Fail, DeadlockVictim, Rollback, Authenticate, Login, Snapshot, LockAdmin,
      FindRole, ChangeRole, SoftDelete, Commit, Withdraw, CheckTarget, File, Resolve,
      Succeed

\* A commit adds the change to those of its target.
LEMMA ChangesMore ==
  ASSUME TypeInv, NEW r \in Request, Commit(r), Kind(r) = "role", NEW u \in User
  PROVE  /\ log' = log
         /\ ChangesOf(u)' = IF u = Target(r)
                            THEN ChangesOf(u) \cup {i \in DOMAIN log : log[i] = r}
                            ELSE ChangesOf(u)
<1> USE DEF TypeInv
<1>1. log' = log /\ pc'[r] = "ok" /\ UNCHANGED scene
  BY DEF Commit, Goto, TypeOK, Succeed
<1>2. \A q \in Request : q # r => pc'[q] = pc[q]
  BY DEF Commit, Goto, TypeOK, Succeed
<1>3. \A q \in Request : Kind(q)' = Kind(q) /\ Target(q)' = Target(q)
  BY <1>1, JobsStay
<1>4. \A i \in DOMAIN log : log[i] \in Request
  BY DEF TypeOK
<1>5. pc[r] = "committing"
  BY DEF Commit, Succeed
<1> QED BY <1>1, <1>2, <1>3, <1>4, <1>5 DEF ChangesOf

\* Every step keeps the record of a change about to be committed the last one.
LEMMA RecordedLastStep == TypeInv /\ AdminInv /\ RecordedLast /\ [Next]_vars => RecordedLast'
<1> SUFFICES ASSUME TypeInv, AdminInv, RecordedLast, [Next]_vars,
                    NEW q \in Request, pc'[q] = "committing", Kind(q)' = "role"
             PROVE  \E i \in DOMAIN log' :
                      /\ log'[i] = q
                      /\ \A j \in DOMAIN log' :
                           log'[j] = q \/ j \in ChangesOf(Target(q))' => j <= i
  BY DEF RecordedLast
<1> USE DEF TypeInv
<1>1. CASE UNCHANGED vars
  BY <1>1 DEF vars, RecordedLast, ChangesOf, Kind, Target
<1>2. ASSUME NEW r \in Request, Serve(r) \/ Fail(r)
      PROVE  \E i \in DOMAIN log' :
               /\ log'[i] = q
               /\ \A j \in DOMAIN log' :
                    log'[j] = q \/ j \in ChangesOf(Target(q))' => j <= i
  <2>1. Kind(q) = "role" /\ Target(q)' = Target(q) /\ Target(q) \in User
    BY <1>2, OthersStay, JobsStay, JobTypes
  <2>2. CASE RecordAction(r)
    <3>1. log' = Append(log, r) /\ pc'[r] = "committing" /\ pc[r] = "recording"
      BY <2>2 DEF RecordAction, Goto, TypeOK
    <3>2. ~Commit(r)
      BY <3>1 DEF Commit, Succeed
    <3>3. ChangesOf(Target(q))' = ChangesOf(Target(q))
      BY <1>2, <2>1, <3>2, ChangesStay
    <3>4. ChangesOf(Target(q)) \subseteq DOMAIN log
      BY DEF ChangesOf
    <3>5. CASE q = r
      <4>1. Len(log) + 1 \in Nat
        BY DEF TypeOK
      <4>2. /\ Len(log) + 1 \in DOMAIN log' /\ log'[Len(log) + 1] = q
            /\ \A j \in DOMAIN log' : j <= Len(log) + 1
        BY <3>1, <3>5, <4>1, Appended
      <4> QED BY <4>2
    <3>6. CASE q # r
      <4>1. pc[q] = "committing"
        BY <1>2, <3>6, OthersStay
      <4>2. PICK i \in DOMAIN log :
              /\ log[i] = q
              /\ \A j \in DOMAIN log : log[j] = q \/ j \in ChangesOf(Target(q)) => j <= i
        BY <2>1, <4>1 DEF RecordedLast
      <4> QED BY <3>1, <3>3, <3>4, <3>6, <4>2, Appended
    <3> QED BY <3>5, <3>6
  <2>3. CASE ~RecordAction(r)
    <3>1. log' = log
      BY <1>2, <2>3
      DEF Serve, Fail, DeadlockVictim, Rollback, Authenticate, Login, Snapshot, LockAdmin,
          FindRole, ChangeRole, SoftDelete, Commit, Withdraw, CheckTarget, File, Resolve,
          Succeed
    <3>2. pc[q] = "committing" /\ ~(q = r /\ Commit(r))
      <4>1. ~Authenticate(r) \/ q # r
        BY JobTypes DEF Authenticate, FirstStep, Goto, TypeOK
      <4> QED
        BY <1>2, <2>3, <4>1, OthersStay
        DEF Serve, Fail, DeadlockVictim, Rollback, Login, Snapshot, LockAdmin, FindRole,
            Refuse, ChangeRole, SoftDelete, Commit, Withdraw, CheckTarget, File, Resolve,
            Goto, TypeOK, Succeed
    <3>3. ChangesOf(Target(q))' = ChangesOf(Target(q))
      <4>1. CASE Commit(r) /\ Kind(r) = "role"
        <5>1. q # r /\ pc[r] = "committing"
          BY <3>2, <4>1 DEF Commit, Succeed
        <5>2. <<Target(q), "write">> \in locks[q] /\ <<Target(r), "write">> \in locks[r]
          BY <3>2, <5>1 DEF AdminInv, WriteHeld
        <5>3. Target(q) # Target(r)
          BY <5>1, <5>2 DEF AdminInv, Exclusion, Conflict
        <5> QED BY <2>1, <4>1, <5>3, ChangesMore
      <4>2. CASE ~(Commit(r) /\ Kind(r) = "role")
        BY <1>2, <2>1, <4>2, ChangesStay
      <4> QED BY <4>1, <4>2
    <3> QED BY <2>1, <3>1, <3>2, <3>3 DEF RecordedLast
  <2> QED BY <2>2, <2>3
<1> QED BY <1>1, <1>2 DEF Next, Finished

\* It is the last one throughout.
LEMMA RecordedLastAlways == Spec => []RecordedLast
<1>1. Init => RecordedLast
  BY DEF Init, RecordedLast
<1> QED BY <1>1, RecordedLastStep, TypesKept, AdminsKept, PTL DEF Spec

\* Every step keeps the roles and the records in agreement.
LEMMA AuditStep ==
  TypeInv /\ RecordedLast /\ AuditTellsRole /\ [Next]_vars => AuditTellsRole'
<1> DEFINE Agrees(u) ==
             \/ ChangesOf(u) = {} /\ role[u] = scene.role[u]
             \/ \E i \in ChangesOf(u) :
                  role[u] = To(log[i]) /\ \A j \in ChangesOf(u) : j <= i
<1> SUFFICES ASSUME TypeInv, RecordedLast, AuditTellsRole, [Next]_vars,
                    NEW u \in User, \A r \in Request : Kind(r)' = "login" => Actor(r)' # u
             PROVE  Agrees(u)'
  BY DEF AuditTellsRole
<1> USE DEF TypeInv
<1>1. UNCHANGED scene
  BY OthersStay DEF Next, Finished, vars
<1>2. /\ \A r \in Request : Kind(r) = "login" => Actor(r) # u
      /\ \A r \in Request : To(r)' = To(r)
  BY <1>1, JobsStay
<1>3. Agrees(u)
  BY <1>2 DEF AuditTellsRole
<1>4. \A i \in ChangesOf(u) : i \in DOMAIN log /\ log[i] \in Request
  BY DEF ChangesOf, TypeOK
<1>5. CASE UNCHANGED vars
  BY <1>3, <1>5 DEF vars, store, ChangesOf, Kind, Target, To
<1>6. ASSUME NEW r \in Request, Serve(r) \/ Fail(r) PROVE Agrees(u)'
  <2>1. CASE Commit(r) /\ Kind(r) = "role"
    <3>1. pc[r] = "committing" /\ Target(r) \in User
          /\ role' = [role EXCEPT ![Target(r)] = To(r)]
      BY <2>1, JobTypes DEF Commit, Succeed
    <3>2. CASE u = Target(r)
      <4>1. PICK i \in DOMAIN log :
              /\ log[i] = r
              /\ \A j \in DOMAIN log : log[j] = r \/ j \in ChangesOf(u) => j <= i
        BY <2>1, <3>1, <3>2 DEF RecordedLast
      <4>2. log' = log
            /\ ChangesOf(u)' = ChangesOf(u) \cup {k \in DOMAIN log : log[k] = r}
        BY <2>1, <3>2, ChangesMore
      <4>3. i \in ChangesOf(u)' /\ \A j \in ChangesOf(u)' : j <= i
        BY <1>4, <4>1, <4>2
      <4>4. role'[u] = To(r)
        BY <3>1, <3>2 DEF TypeOK
      <4>5. role'[u] = To(log[i])'
        BY <1>2, <4>1, <4>2, <4>4
      <4> QED BY <4>3, <4>5
    <3>3. CASE u # Target(r)
      <4>1. log' = log /\ ChangesOf(u)' = ChangesOf(u) /\ role'[u] = role[u]
        BY <2>1, <3>1, <3>3, ChangesMore DEF TypeOK
      <4> QED BY <1>1, <1>2, <1>3, <1>4, <4>1
    <3> QED BY <3>2, <3>3
  <2>2. CASE ~(Commit(r) /\ Kind(r) = "role")
    <3>1. /\ ChangesOf(u)' = ChangesOf(u)
          /\ \A i \in DOMAIN log : log'[i] = log[i]
      BY <1>6, <2>2, ChangesStay
    <3>2. role'[u] = role[u]
      <4>1. CASE Login(r)
        BY <1>2, <4>1 DEF Login, TypeOK, Succeed
      <4>2. CASE Commit(r)
        BY <2>2, <4>2 DEF Commit, Succeed
      <4> QED
        BY <1>6, <4>1, <4>2
        DEF Serve, Fail, DeadlockVictim, Rollback, Authenticate, Snapshot, LockAdmin,
            FindRole, ChangeRole, SoftDelete, RecordAction, Withdraw, CheckTarget, File,
            Resolve, store, Succeed
    <3> QED BY <1>1, <1>2, <1>3, <1>4, <3>1, <3>2
  <2> QED BY <2>1, <2>2
<1> QED BY <1>5, <1>6 DEF Next, Finished

\* The last record on somebody is the change that gave the role
\* (ChangeRole: the change and its record are one transaction).
THEOREM RecordsTellRoles == Spec => []AuditTellsRole
<1>1. Init => AuditTellsRole
  BY DEF Init, AuditTellsRole, ChangesOf
<1> QED BY <1>1, AuditStep, RecordedLastAlways, TypesKept, PTL DEF Spec

-----------------------------------------------------------------------------
(* The transactions implement ModerationBoard.                             *)

\* Only changes and deletions are recorded, and the records of a user's changes
\* have a last one.
OfKind == \A i \in DOMAIN log : Kind(log[i]) \in {"role", "delete"}
HasLast ==
  \A u \in User : ChangesOf(u) # {} => \E i \in ChangesOf(u) : \A j \in ChangesOf(u) : j <= i

LogInv == OfKind /\ HasLast

\* Every step keeps the log to that.
LEMMA LogInvStep == TypeInv /\ RecordedLast /\ LogInv /\ [Next]_vars => LogInv'
<1> SUFFICES ASSUME TypeInv, RecordedLast, LogInv, [Next]_vars PROVE LogInv'
  OBVIOUS
<1> USE DEF TypeInv, LogInv
<1>1. CASE UNCHANGED vars
  BY <1>1 DEF vars, OfKind, HasLast, ChangesOf, Kind, Target
<1>2. ASSUME NEW r \in Request, Serve(r) \/ Fail(r) PROVE LogInv'
  <2>1. \A q \in Request : Kind(q)' = Kind(q)
    BY <1>2, OthersStay, JobsStay
  <2>2. \A i \in DOMAIN log : log[i] \in Request
    BY DEF TypeOK
  <2>3. OfKind'
    <3>1. CASE RecordAction(r)
      <4>1. Kind(r) \in {"role", "delete"} /\ log' = Append(log, r)
        BY <3>1 DEF RecordAction, StepOfKind
      <4> QED BY <2>1, <2>2, <4>1, Appended DEF OfKind
    <3>2. CASE ~RecordAction(r)
      <4>1. log' = log
        BY <1>2, <3>2
        DEF Serve, Fail, DeadlockVictim, Rollback, Authenticate, Login, Snapshot, LockAdmin,
            FindRole, ChangeRole, SoftDelete, Commit, Withdraw, CheckTarget, File, Resolve,
            Succeed
      <4> QED BY <2>1, <2>2, <4>1 DEF OfKind
    <3> QED BY <3>1, <3>2
  <2>4. ASSUME NEW u \in User, ChangesOf(u)' # {}
        PROVE  \E i \in ChangesOf(u)' : \A j \in ChangesOf(u)' : j <= i
    <3>1. CASE Commit(r) /\ Kind(r) = "role" /\ u = Target(r)
      <4>1. PICK i \in DOMAIN log :
              /\ log[i] = r
              /\ \A j \in DOMAIN log : log[j] = r \/ j \in ChangesOf(u) => j <= i
        BY <3>1 DEF RecordedLast, Commit, Succeed
      <4>2. ChangesOf(u)' = ChangesOf(u) \cup {k \in DOMAIN log : log[k] = r}
        BY <3>1, ChangesMore
      <4>3. ChangesOf(u) \subseteq DOMAIN log
        BY DEF ChangesOf
      <4> QED BY <4>1, <4>2, <4>3
    <3>2. CASE ~(Commit(r) /\ Kind(r) = "role" /\ u = Target(r))
      <4>1. ChangesOf(u)' = ChangesOf(u)
        BY <1>2, <3>2, ChangesStay, ChangesMore
      <4> QED BY <2>4, <4>1 DEF HasLast
    <3> QED BY <3>1, <3>2
  <2> QED BY <2>3, <2>4 DEF HasLast
<1> QED BY <1>1, <1>2 DEF Next, Finished

BoardInv == TypeInv /\ AdminInv /\ DeleteInv /\ AllCounted /\ RecordedLast /\ LogInv

\* What the refinement rests on holds throughout.
LEMMA BoardInvAlways == Spec => []BoardInv
<1>1. Init => LogInv
  BY DEF Init, LogInv, OfKind, HasLast, ChangesOf
<1>2. Spec => []LogInv
  BY <1>1, LogInvStep, RecordedLastAlways, TypesKept, PTL DEF Spec
<1>3. TypeInv /\ AdminInv /\ DeleteInv /\ AllCounted /\ RecordedLast /\ LogInv => BoardInv
  BY DEF BoardInv
<1> QED
  BY <1>2, <1>3, TypesKept, AdminsKept, DeletionsKept, AllCountedAlways,
     RecordedLastAlways, PTL

\* The last record on a user is a record.
LEMMA MaxIsLast ==
  ASSUME LogInv, TypeOK, NEW u \in User, ChangesOf(u) # {}
  PROVE  Max(ChangesOf(u)) \in DOMAIN log
<1>1. PICK i \in ChangesOf(u) : \A j \in ChangesOf(u) : j <= i
  BY DEF LogInv, HasLast
<1>2. ChangesOf(u) \subseteq DOMAIN log /\ DOMAIN log \subseteq Nat
  BY DEF ChangesOf, TypeOK
<1>3. \E m \in ChangesOf(u) : \A j \in ChangesOf(u) : m >= j
  BY <1>1, <1>2
<1>4. Max(ChangesOf(u)) \in ChangesOf(u)
  BY <1>3 DEF Max
<1> QED BY <1>2, <1>4

\* What the greatest number of a set is.
LEMMA GreatestIsMax ==
  ASSUME NEW S \in SUBSET Nat, NEW m \in S, \A j \in S : j <= m
  PROVE  Max(S) = m
<1>1. \A j \in S : m >= j
  OBVIOUS
<1>2. Max(S) \in S /\ \A j \in S : Max(S) >= j
  BY <1>1 DEF Max
<1>3. Max(S) \in Nat /\ m \in Nat /\ Max(S) <= m /\ Max(S) >= m
  BY <1>2
<1> QED BY <1>3

\* Other steps than the commit of a change leave the last records as they are.
LEMMA LatestStays ==
  ASSUME BoardInv, NEW r \in Request, Serve(r) \/ Fail(r), ~(Commit(r) /\ Kind(r) = "role")
  PROVE  UNCHANGED Latest
<1> USE DEF BoardInv
<1>1. ASSUME NEW u \in User
      PROVE  (IF ChangesOf(u)' = {} THEN None ELSE log'[Max(ChangesOf(u)')])
               = IF ChangesOf(u) = {} THEN None ELSE log[Max(ChangesOf(u))]
  <2>1. /\ ChangesOf(u)' = ChangesOf(u)
        /\ \A i \in DOMAIN log : log'[i] = log[i]
    BY ChangesStay
  <2> QED BY <2>1, MaxIsLast DEF TypeInv
<1> QED BY <1>1 DEF Latest

\* The commit of a change is the last record on its target.
LEMMA LatestChanges ==
  ASSUME BoardInv, NEW r \in Request, Commit(r), Kind(r) = "role"
  PROVE  Latest' = [Latest EXCEPT ![Target(r)] = r]
<1> USE DEF BoardInv
<1>1. pc[r] = "committing" /\ Target(r) \in User /\ log' = log
  BY JobTypes DEF Commit, TypeInv, Succeed
<1>2. PICK i \in DOMAIN log :
        /\ log[i] = r
        /\ \A j \in DOMAIN log : log[j] = r \/ j \in ChangesOf(Target(r)) => j <= i
  BY <1>1 DEF RecordedLast
<1>3. ASSUME NEW u \in User
      PROVE  (IF ChangesOf(u)' = {} THEN None ELSE log'[Max(ChangesOf(u)')])
               = IF u = Target(r) THEN r
                 ELSE IF ChangesOf(u) = {} THEN None ELSE log[Max(ChangesOf(u))]
  <2>1. CASE u = Target(r)
    <3>1. ChangesOf(u)' = ChangesOf(u) \cup {k \in DOMAIN log : log[k] = r}
      BY <2>1, ChangesMore
    <3>2. ChangesOf(u) \subseteq DOMAIN log /\ DOMAIN log \subseteq Nat
      BY DEF ChangesOf, TypeInv, TypeOK
    <3>3. /\ ChangesOf(u)' \in SUBSET Nat /\ i \in ChangesOf(u)'
          /\ \A j \in ChangesOf(u)' : j <= i
      BY <1>2, <2>1, <3>1, <3>2
    <3>4. Max(ChangesOf(u)') = i
      BY <3>3, GreatestIsMax
    <3> QED BY <1>1, <1>2, <2>1, <3>3, <3>4
  <2>2. CASE u # Target(r)
    BY <1>1, <2>2, ChangesMore
  <2> QED BY <2>1, <2>2
<1> QED BY <1>1, <1>3 DEF Latest

\* Where a request is told how it has got on.
LEMMA ToldMoves ==
  ASSUME TypeOK, NEW r \in Request, NEW p, p # "ok", Goto(r, p), UNCHANGED lost
  PROVE  Told' = [Told EXCEPT ![r] = IF p = "filing" THEN "seen"
                                     ELSE IF p \in Steps THEN "admitted" ELSE p]
BY DEF TypeOK, Goto, Told

\* Whoever takes effect is told so, or of an error.
LEMMA ToldEffect ==
  ASSUME TypeOK, NEW r \in Request, Succeed(r)
  PROVE  \E after \in {"ok", "error"} : Told' = [Told EXCEPT ![r] = after]
<1>1. \A q \in Request : q # r => pc'[q] = pc[q] /\ (q \in lost' <=> q \in lost)
  BY DEF TypeOK, Goto, Succeed
<1>2. pc'[r] = "ok" /\ "ok" \notin Steps
  BY DEF TypeOK, Goto, Succeed, Steps
<1>3. Told' = [Told EXCEPT ![r] = Told'[r]] /\ Told'[r] \in {"ok", "error"}
  BY <1>1, <1>2 DEF Told
<1> QED BY <1>3

\* Between its admission and its end a request is not told anything.
LEMMA NothingTold ==
  ASSUME TypeOK, NEW r \in Request, NEW p, Goto(r, p), UNCHANGED lost,
         pc[r] \in Steps \ {"filing"}, p \in Steps \ {"filing"}
  PROVE  UNCHANGED Told
<1>1. \A q \in Request : pc'[q] = IF q = r THEN p ELSE pc[q]
  BY DEF TypeOK, Goto
<1> QED BY <1>1 DEF Told

\* Requests that are not answered with success, or that leave no record, put
\* nothing on record.
LEMMA RecordedStays ==
  ASSUME BoardInv, NEW r \in Request, Serve(r) \/ Fail(r),
         pc'[r] # "ok" \/ Kind(r) \notin {"role", "delete"}
  PROVE  UNCHANGED Recorded
<1> USE DEF BoardInv
<1>1. pc[r] # "ok"
  BY NotAnswered
<1>2. \A i \in DOMAIN log : log[i] \in Request
  BY DEF TypeInv, TypeOK
<1>3. ASSUME pc'[r] = "ok" PROVE ~\E i \in DOMAIN log' : log'[i] = r
  <2>1. Kind(r) \notin {"role", "delete"}
    BY <1>3
  <2>2. ~RecordAction(r)
    BY <2>1 DEF RecordAction, TypeInv, StepOfKind
  <2>3. log' = log
    BY <2>2
    DEF Serve, Fail, DeadlockVictim, Rollback, Authenticate, Login, Snapshot, LockAdmin,
        FindRole, ChangeRole, SoftDelete, Commit, Withdraw, CheckTarget, File, Resolve,
        Succeed
  <2> QED BY <2>1, <2>3 DEF LogInv, OfKind
<1>4. \A q \in Request : q # r => pc'[q] = pc[q]
  BY OthersStay DEF BoardInv
<1>5. \A q \in Request : q # r =>
        ((\E i \in DOMAIN log' : log'[i] = q) <=> (\E i \in DOMAIN log : log[i] = q))
  <2>1. CASE log' = log
    BY <2>1
  <2>2. CASE log' = Append(log, r)
    BY <2>2, Appended DEF TypeInv
  <2> QED
    BY <2>1, <2>2
    DEF Serve, Fail, DeadlockVictim, Rollback, Authenticate, Login, Snapshot, LockAdmin,
        FindRole, ChangeRole, SoftDelete, RecordAction, Commit, Withdraw, CheckTarget,
        File, Resolve, Succeed
<1> QED BY <1>1, <1>3, <1>4, <1>5 DEF Recorded

\* A commit puts its request on record.
LEMMA RecordedMore ==
  ASSUME BoardInv, NEW r \in Request, Commit(r)
  PROVE  Recorded' = Recorded \cup {r}
<1>1. log' = log /\ pc[r] = "committing"
  BY DEF Commit, Succeed
<1>2. \A q \in Request : pc'[q] = IF q = r THEN "ok" ELSE pc[q]
  BY DEF Commit, Goto, BoardInv, TypeInv, TypeOK, Succeed
<1>3. \E i \in DOMAIN log : log[i] = r
  BY <1>1 DEF BoardInv, DeleteInv, Logged
<1> QED BY <1>1, <1>2, <1>3 DEF Recorded

\* The board and the model read a request alike.
LEMMA SameRequest ==
  ASSUME NEW r
  PROVE  /\ Board!Kind(r) = Kind(r) /\ Board!Actor(r) = Actor(r)
         /\ Board!Target(r) = Target(r) /\ Board!To(r) = To(r)
         /\ Board!Permitted(r) = Permitted(r)
         /\ Board!Admins = Admins /\ Board!NoPromotions = NoPromotions
BY DEF Board!Kind, Board!Actor, Board!Target, Board!To, Board!Permitted, Board!Admins,
       Board!NoPromotions, Kind, Actor, Target, To, Permitted, Admins, NoPromotions

\* Each step of the board that a step of a request is.
Served(r) ==
  \/ Board!Admit(r) \/ Board!Login(r) \/ Board!ChangeRole(r) \/ Board!Refuse(r)
  \/ Board!Delete(r) \/ Board!Miss(r) \/ Board!See(r) \/ Board!File(r)
  \/ Board!Resolve(r) \/ Board!Break(r)

\* Admissions and logins.
LEMMA AdmissionSimulates ==
  ASSUME BoardInv, NEW r \in Request, Authenticate(r) \/ Login(r)
  PROVE  Served(r)
<1> USE DEF BoardInv, TypeInv
<1>1. pc[r] = "new" /\ Told[r] = "new"
  BY DEF Authenticate, Login, Told, Steps, Succeed
<1>2. Serve(r)
  BY DEF Serve
<1>3. UNCHANGED Latest
  BY <1>1, <1>2, LatestStays DEF Commit, Succeed
<1>4. CASE Authenticate(r)
  <2>1. PICK p : p = (IF Permitted(r) THEN FirstStep(r) ELSE "denied") /\ Goto(r, p)
    BY <1>4 DEF Authenticate
  <2>2. Kind(r) # "login" /\ FirstStep(r) \in Steps \ {"filing"}
    BY <1>4, JobTypes DEF Authenticate, FirstStep, Steps
  <2>3. Told' = [Told EXCEPT ![r] = IF Permitted(r) THEN "admitted" ELSE "denied"]
    <3>1. UNCHANGED lost /\ p # "ok"
      BY <1>4, <2>1, <2>2 DEF Authenticate, Steps
    <3> QED BY <2>1, <2>2, <3>1, ToldMoves DEF Steps
  <2>4. UNCHANGED Recorded
    <3>1. pc'[r] # "ok"
      BY <2>1, <2>2 DEF Goto, TypeOK, Steps
    <3> QED BY <1>2, <3>1, RecordedStays
  <2>5. Board!Tell(r, "new", IF Board!Permitted(r) THEN "admitted" ELSE "denied")
    BY <1>1, <2>3, SameRequest DEF Board!Tell
  <2>6. UNCHANGED <<role, alive, reports, overtaken>>
    BY <1>4 DEF Authenticate, store
  <2>7. Board!Admit(r)
    BY <1>3, <2>2, <2>4, <2>5, <2>6, SameRequest DEF Board!Admit
  <2> QED BY <2>7 DEF Served
<1>5. CASE Login(r)
  <2>1. Kind(r) = "login" /\ Succeed(r) /\ UNCHANGED <<alive, reports, overtaken>>
        /\ role' = [role EXCEPT ![Actor(r)] = "admin"]
    BY <1>5 DEF Login
  <2>2. \E after \in {"ok", "error"} : Told' = [Told EXCEPT ![r] = after]
    BY <2>1, ToldEffect
  <2>3. UNCHANGED Recorded
    BY <1>2, <2>1, RecordedStays
  <2>4. Board!Effect(r, "new")
    BY <1>1, <2>2 DEF Board!Effect, Board!Tell
  <2>5. Board!Login(r)
    BY <1>3, <2>1, <2>3, <2>4, SameRequest DEF Board!Login
  <2> QED BY <2>5 DEF Served
<1> QED BY <1>4, <1>5

\* The steps of a transaction before its end are not seen from outside.
LEMMA QuietSteps ==
  ASSUME BoardInv, NEW r \in Request,
         \/ Snapshot(r) \/ LockAdmin(r) \/ ChangeRole(r) \/ RecordAction(r)
         \/ FindRole(r) /\ pc'[r] # "lastAdmin"
         \/ SoftDelete(r) /\ pc'[r] # "notFound"
  PROVE  UNCHANGED Board!boardVars
<1> USE DEF BoardInv, TypeInv
<1>1. Serve(r) /\ ~Commit(r)
  BY DEF Serve, Commit, Snapshot, LockAdmin, ChangeRole, RecordAction, FindRole, SoftDelete,
         Succeed
<1>2. UNCHANGED Latest
  BY <1>1, LatestStays
<1>3. UNCHANGED <<scene, role, alive, reports, overtaken>>
  BY DEF Snapshot, LockAdmin, ChangeRole, RecordAction, FindRole, SoftDelete, store
<1>4. UNCHANGED Told /\ pc'[r] # "ok"
  <2>1. CASE LockAdmin(r)
    BY <2>1 DEF LockAdmin, Told
  <2>2. CASE ~LockAdmin(r)
    <3>1. PICK p \in Steps \ {"filing"} : Goto(r, p)
      BY <2>2
      DEF Snapshot, ChangeRole, RecordAction, FindRole, SoftDelete, Refuse, Goto, TypeOK,
          Steps
    <3>2. pc[r] \in Steps \ {"filing"}
      BY <2>2 DEF Snapshot, ChangeRole, RecordAction, FindRole, SoftDelete, Steps
    <3>3. pc'[r] = p
      BY <3>1 DEF Goto, TypeOK
    <3>4. UNCHANGED lost
      BY <2>2 DEF Snapshot, ChangeRole, RecordAction, FindRole, SoftDelete
    <3> QED BY <3>1, <3>2, <3>3, <3>4, NothingTold DEF Steps
  <2> QED BY <2>1, <2>2 DEF LockAdmin, Steps
<1>5. UNCHANGED Recorded
  BY <1>1, <1>4, RecordedStays
<1> QED BY <1>2, <1>3, <1>4, <1>5 DEF Board!boardVars

\* A refusal.
LEMMA RefusalSimulates ==
  ASSUME BoardInv, NEW r \in Request, FindRole(r), pc'[r] = "lastAdmin"
  PROVE  Served(r)
<1> USE DEF BoardInv, TypeInv
<1>1. Goto(r, "lastAdmin") /\ pc[r] = "locking" /\ Kind(r) = "role" /\ UNCHANGED lost
  BY DEF FindRole, Refuse, Goto, TypeOK, StepOfKind
<1>2. Serve(r) /\ ~Commit(r)
  BY <1>1 DEF Serve, Commit, Succeed
<1>3. UNCHANGED Latest /\ UNCHANGED Recorded
  BY <1>2, LatestStays, RecordedStays
<1>4. Board!Tell(r, "admitted", "lastAdmin")
  BY <1>1, ToldMoves DEF Board!Tell, Told, Steps
<1>5. UNCHANGED <<role, alive, reports, overtaken>>
  BY DEF FindRole, store
<1>6. Target(r) \in Admins /\ (NoPromotions => Admins = {Target(r)})
  BY RefusedIsLast
<1>7. Board!Refuse(r)
  BY <1>1, <1>3, <1>4, <1>5, <1>6, SameRequest DEF Board!Refuse
<1> QED BY <1>7 DEF Served

\* The commit of a change: if its target is still an admin, either it was found
\* to be one, and then another admin has been counted, or it was promoted since.
LEMMA ChangeSimulates ==
  ASSUME BoardInv, NEW r \in Request, Commit(r), Kind(r) = "role"
  PROVE  Served(r)
<1> USE DEF BoardInv, TypeInv
<1>1. pc[r] = "committing" /\ Succeed(r) /\ Target(r) \in User
  BY JobTypes DEF Commit
<1>2. /\ role' = [role EXCEPT ![Target(r)] = To(r)]
      /\ overtaken' = (overtaken \/ (found[r] # "admin" /\ role[Target(r)] = "admin"
                                       /\ To(r) # "admin"))
      /\ UNCHANGED <<alive, reports>>
  BY DEF Commit, Succeed
<1>3. Board!Effect(r, "admitted")
  BY <1>1, ToldEffect DEF Board!Effect, Board!Tell, Told, Steps
<1>4. Latest' = [Latest EXCEPT ![Target(r)] = r] /\ Recorded' = Recorded \cup {r}
  BY LatestChanges, RecordedMore
<1>5. Board!Demotes(r) <=> To(r) # "admin" /\ role[Target(r)] = "admin"
  BY SameRequest DEF Board!Demotes
<1>6. overtaken' \in {overtaken, overtaken \/ Board!Demotes(r)}
  <2>1. CASE found[r] # "admin"
    BY <1>2, <1>5, <2>1, Zenon
  <2>2. CASE found[r] = "admin"
    <3>1. overtaken' = overtaken
      BY <1>2, <2>2 DEF TypeOK
    <3> QED BY <3>1
  <2> QED BY <2>1, <2>2
<1>7. ASSUME Board!Demotes(r), ~overtaken' PROVE Admins # {Target(r)}
  <2>1. found[r] = "admin"
    BY <1>2, <1>5, <1>7
  <2>2. PICK u \in counted[r] : u # Target(r)
    BY <1>1, <1>5, <1>7, <2>1 DEF AdminInv, AnotherCounted
  <2>3. u \in User /\ role[u] = "admin"
    BY <1>1, <2>2 DEF AdminInv, CountedHeld, TypeOK
  <2> QED BY <2>2, <2>3 DEF Admins
<1>8. Board!ChangeRole(r)
  BY <1>2, <1>3, <1>4, <1>6, <1>7, SameRequest DEF Board!ChangeRole
<1> QED BY <1>8 DEF Served

\* Deletions, by a moderator's commit or the author's statement.
LEMMA DeletionSimulates ==
  ASSUME BoardInv, NEW r \in Request, DeletesNow(r)
  PROVE  Served(r)
<1> USE DEF BoardInv, TypeInv
<1>1. Target(r) \in alive /\ alive' = alive \ {Target(r)} /\ Kind(r) \in {"delete", "own"}
  BY OneDeleted
<1>2. /\ pc[r] \in {"committing", "withdrawing"} /\ Succeed(r) /\ Serve(r)
      /\ UNCHANGED <<role, reports, overtaken>>
  BY <1>1 DEF DeletesNow, Commit, Withdraw, Serve, Goto, TypeOK
<1>3. Board!Effect(r, "admitted")
  BY <1>2, ToldEffect DEF Board!Effect, Board!Tell, Told, Steps
<1>4. UNCHANGED Latest
  BY <1>1, <1>2, LatestStays
<1>5. Recorded' = IF Kind(r) = "delete" THEN Recorded \cup {r} ELSE Recorded
  <2>1. CASE Commit(r) /\ Kind(r) = "delete"
    BY <2>1, RecordedMore
  <2>2. CASE Withdraw(r)
    <3>1. Kind(r) = "own"
      BY <2>2 DEF Withdraw, StepOfKind, Succeed
    <3> QED BY <1>2, <3>1, RecordedStays
  <2> QED BY <2>1, <2>2 DEF DeletesNow
<1>6. Board!Delete(r)
  BY <1>1, <1>2, <1>3, <1>4, <1>5, SameRequest DEF Board!Delete
<1> QED BY <1>6 DEF Served

\* Requests about what is not there, or not open any more.
LEMMA MissSimulates ==
  ASSUME BoardInv, NEW r \in Request, pc'[r] = "notFound",
         SoftDelete(r) \/ Withdraw(r) \/ CheckTarget(r) \/ Resolve(r)
  PROVE  Served(r)
<1> USE DEF BoardInv, TypeInv
<1>1. /\ pc[r] \in Steps \ {"filing"} /\ Goto(r, "notFound") /\ Serve(r) /\ ~Commit(r)
      /\ UNCHANGED <<role, alive, reports, lost, overtaken>>
  BY DEF SoftDelete, Withdraw, CheckTarget, Resolve, Goto, TypeOK, Steps, Serve, Commit, store,
         Succeed
<1>2. \/ Kind(r) \in {"delete", "own", "report"} /\ Target(r) \notin alive
      \/ Kind(r) = "resolve" /\ ~IsOpen(Target(r))
  BY DEF SoftDelete, Withdraw, CheckTarget, Resolve, Goto, TypeOK, StepOfKind, Succeed
<1>3. UNCHANGED Latest /\ UNCHANGED Recorded
  BY <1>1, LatestStays, RecordedStays
<1>4. Board!Tell(r, "admitted", "notFound")
  BY <1>1, ToldMoves DEF Board!Tell, Told, Steps
<1>5. Board!Open(Board!Target(r)) <=> IsOpen(Target(r))
  BY SameRequest DEF Board!Open, IsOpen
<1>6. Board!Miss(r)
  BY <1>1, <1>2, <1>3, <1>4, <1>5, SameRequest DEF Board!Miss
<1> QED BY <1>6 DEF Served

\* Reports are filed and resolved.
LEMMA ReportSimulates ==
  ASSUME BoardInv, NEW r \in Request, pc'[r] # "notFound",
         CheckTarget(r) \/ File(r) \/ Resolve(r)
  PROVE  Served(r)
<1> USE DEF BoardInv, TypeInv
<1>1. Serve(r) /\ ~Commit(r) /\ Kind(r) \in {"report", "resolve"}
  BY DEF Serve, CheckTarget, File, Resolve, Commit, StepOfKind, Succeed
<1>2. UNCHANGED Latest /\ UNCHANGED Recorded
  BY <1>1, LatestStays, RecordedStays
<1>3. CASE CheckTarget(r)
  <2>1. /\ pc[r] = "checking" /\ Target(r) \in alive /\ Goto(r, "filing")
        /\ UNCHANGED <<role, alive, reports, lost, overtaken>> /\ Kind(r) = "report"
    BY <1>3 DEF CheckTarget, Goto, TypeOK, StepOfKind, store
  <2>2. Board!Tell(r, "admitted", "seen")
    BY <2>1, ToldMoves DEF Board!Tell, Told, Steps
  <2>3. Board!See(r)
    BY <1>2, <2>1, <2>2, SameRequest DEF Board!See
  <2> QED BY <2>3 DEF Served
<1>4. CASE File(r)
  <2>1. /\ pc[r] = "filing" /\ Kind(r) = "report" /\ Told[r] = "seen"
        /\ UNCHANGED <<role, alive, overtaken>>
    BY <1>4 DEF File, StepOfKind, Told, Succeed
  <2>2. CASE reports[<<Actor(r), Target(r)>>] = None
    <3>1. Succeed(r) /\ reports' = [reports EXCEPT ![<<Actor(r), Target(r)>>] =
                                      [reason |-> To(r), status |-> "open", by |-> None]]
      BY <1>4, <2>2 DEF File
    <3>2. Board!Effect(r, "seen")
      BY <2>1, <3>1, ToldEffect DEF Board!Effect, Board!Tell
    <3>3. Board!File(r)
      BY <1>2, <2>1, <2>2, <3>1, <3>2, SameRequest DEF Board!File
    <3> QED BY <3>3 DEF Served
  <2>3. CASE reports[<<Actor(r), Target(r)>>] # None
    <3>1. Goto(r, "duplicate") /\ UNCHANGED <<reports, lost>>
      BY <1>4, <2>3 DEF File, Succeed
    <3>2. Board!Tell(r, "seen", "duplicate")
      BY <2>1, <3>1, ToldMoves DEF Board!Tell, Steps
    <3>3. Board!File(r)
      BY <1>2, <2>1, <2>3, <3>1, <3>2, SameRequest DEF Board!File
    <3> QED BY <3>3 DEF Served
  <2> QED BY <2>2, <2>3
<1>5. CASE Resolve(r)
  <2>1. /\ pc[r] = "resolving" /\ Kind(r) = "resolve" /\ IsOpen(Target(r)) /\ Succeed(r)
        /\ reports' = [reports EXCEPT ![Target(r)] =
                         [reason |-> @.reason, status |-> To(r), by |-> Actor(r)]]
        /\ UNCHANGED <<role, alive, overtaken>>
    BY <1>5 DEF Resolve, Goto, TypeOK, StepOfKind
  <2>2. Board!Effect(r, "admitted")
    BY <2>1, ToldEffect DEF Board!Effect, Board!Tell, Told, Steps
  <2>3. Board!Open(Board!Target(r))
    BY <2>1, SameRequest DEF Board!Open, IsOpen
  <2>4. Board!Resolve(r)
    BY <1>2, <2>1, <2>2, <2>3, SameRequest DEF Board!Resolve
  <2> QED BY <2>4 DEF Served
<1> QED BY <1>3, <1>4, <1>5

\* A request that loses its connection before its end, or is the victim of a
\* deadlock, has no effect.
LEMMA ErrorSimulates ==
  ASSUME BoardInv, NEW r \in Request, Fail(r) \/ DeadlockVictim(r)
  PROVE  Served(r)
<1> USE DEF BoardInv, TypeInv
<1>1. Goto(r, "error") /\ UNCHANGED <<role, alive, reports, lost, overtaken>>
  BY DEF Fail, DeadlockVictim, Rollback, store
<1>2. pc[r] \in Steps
  <2>1. CASE Fail(r)
    BY <2>1 DEF Fail
  <2>2. CASE DeadlockVictim(r)
    <3>1. WaitsFor(r) # {}
      BY <2>2 DEF DeadlockVictim, Deadlocked
    <3>2. pc[r] \in {"locking", "changing", "deleting", "recording"}
      BY <3>1 DEF WaitsFor, Needs
    <3> QED BY <3>2 DEF Steps
  <2> QED BY <2>1, <2>2
<1>3. UNCHANGED Latest /\ UNCHANGED Recorded
  <2>1. pc'[r] = "error"
    BY <1>1 DEF Goto, TypeOK
  <2>2. ~Commit(r)
    BY <2>1 DEF Commit, Goto, TypeOK, Succeed
  <2> QED BY <2>1, <2>2, LatestStays, RecordedStays DEF Serve
<1>4. \E before \in {"admitted", "seen"} : Board!Tell(r, before, "error")
  BY <1>1, <1>2, ToldMoves DEF Board!Tell, Told, Steps
<1>5. Board!Break(r)
  BY <1>1, <1>3, <1>4 DEF Board!Break
<1> QED BY <1>5 DEF Served

\* Every step is one of the board's, or none.
LEMMA BoardStep == BoardInv /\ [Next]_vars => [Board!Next]_(Board!boardVars)
<1> SUFFICES ASSUME BoardInv, [Next]_vars PROVE Board!Next \/ UNCHANGED Board!boardVars
  OBVIOUS
<1>1. CASE UNCHANGED vars
  <2>1. UNCHANGED <<scene, role, alive, reports, pc, log, lost, overtaken>>
    BY <1>1 DEF vars, store
  <2>2. UNCHANGED <<Told, Recorded, Latest>>
    BY <2>1 DEF Told, Recorded, Latest, ChangesOf, Kind, Target
  <2> QED BY <2>1, <2>2 DEF Board!boardVars
<1>2. ASSUME NEW r \in Request, Serve(r) \/ Fail(r)
      PROVE  Board!Next \/ UNCHANGED Board!boardVars
  <2>1. Served(r) \/ UNCHANGED Board!boardVars
    <3>1. CASE Authenticate(r) \/ Login(r)
      BY <3>1, AdmissionSimulates
    <3>2. CASE Snapshot(r) \/ LockAdmin(r) \/ FindRole(r) \/ ChangeRole(r)
      BY <3>2, QuietSteps, RefusalSimulates
    <3>3. CASE SoftDelete(r) \/ RecordAction(r)
      BY <3>3, QuietSteps, MissSimulates
    <3>4. CASE Commit(r)
      BY <3>4, ChangeSimulates, DeletionSimulates DEF Commit, DeletesNow, Succeed
    <3>5. CASE Withdraw(r)
      <4>1. CASE Target(r) \in alive
        BY <3>5, <4>1, DeletionSimulates DEF DeletesNow
      <4>2. CASE Target(r) \notin alive
        BY <3>5, <4>2, MissSimulates DEF Withdraw, Goto, BoardInv, TypeInv, TypeOK,
                                         Succeed
      <4> QED BY <4>1, <4>2
    <3>6. CASE CheckTarget(r) \/ File(r) \/ Resolve(r)
      <4>1. File(r) => pc'[r] # "notFound"
        BY DEF File, Goto, BoardInv, TypeInv, TypeOK, Succeed
      <4> QED BY <3>6, <4>1, MissSimulates, ReportSimulates
    <3>7. CASE Fail(r) \/ DeadlockVictim(r)
      BY <3>7, ErrorSimulates
    <3> QED BY <1>2, <3>1, <3>2, <3>3, <3>4, <3>5, <3>6, <3>7 DEF Serve
  <2>2. UNCHANGED scene
    BY <1>2, OthersStay DEF BoardInv
  <2> QED BY <2>1, <2>2 DEF Served, Board!Next
<1> QED BY <1>1, <1>2 DEF Next, Finished

\* Requests that lock, wait, deadlock and roll back implement the board, where
\* each takes effect in one step (WithinTx, LockAdminsAndCount).
THEOREM ModerationIsBoard == Spec => ImplementsBoard
<1>1. Init => Board!Init
  BY DEF Init, Board!Init, Told, Latest, Recorded, ChangesOf, Steps
<1>2. BoardInv /\ [Next]_vars => [Board!Next]_(Board!boardVars)
  BY BoardStep
<1> QED BY <1>1, <1>2, BoardInvAlways, PTL DEF Spec, ImplementsBoard, Board!Spec

=============================================================================
