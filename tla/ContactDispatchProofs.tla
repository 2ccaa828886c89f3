------------------------ MODULE ContactDispatchProofs ------------------------
(***************************************************************************)
(* Theorems about ContactDispatch, for any number of contacts, replicas,   *)
(* crashes and attempts and any lengths of the lease and the backoff.      *)
(***************************************************************************)
EXTENDS ContactDispatch, TLAPS

\* Every variable has its type.  Of wait only the hidden rows are of
\* interest, see Hidden.
Typed ==
  /\ scene \in Scene
  /\ status \in [Contact -> {"none", "pending", "sent", "failed"}]
  /\ attempts \in [Contact -> Nat]
  /\ wait = [c \in Contact |-> wait[c]]
  /\ pc \in [Worker -> {"idle", "loop", "sending", "mark", "reply", "record"}]
  /\ queue \in [Worker -> SUBSET Message]
  /\ cur \in [Worker -> Message]
  /\ elapsed \in [Worker -> 0 .. Lease]
  /\ busy \in [Worker -> Nat]
  /\ delivered \in [Contact -> Nat]
  /\ unconfirmed \in [Contact -> Nat]
  /\ replies \in [Contact -> Nat]

Handles(w, c) == pc[w] \in {"sending", "mark", "record"} /\ cur[w].id = c
Queued(w, c) == \E m \in queue[w] : m.id = c

\* The rows a worker sends or may still send.
Holds(w, c) == Handles(w, c) \/ (Queued(w, c) /\ elapsed[w] < Budget)

\* A worker has every row once.
Once ==
  \A w \in Worker :
    /\ \A m, n \in queue[w] : m.id = n.id => m = n
    /\ pc[w] \in {"sending", "mark", "record", "reply"} => ~Queued(w, cur[w].id)
    /\ pc[w] = "idle" => queue[w] = {}

\* What a worker knows of the attempts is not more than the table does, and
\* counts the one it makes.
AttemptsKnown ==
  \A w \in Worker :
    /\ cur[w].attempt <= attempts[cur[w].id]
    /\ pc[w] \notin {"idle", "loop"} => cur[w].attempt > 0
    /\ \A m \in queue[w] : 0 < m.attempt /\ m.attempt <= attempts[m.id]

\* NothingLost, with the mails whose rows are about to be marked, or are.
Kept ==
  /\ NothingLost
  /\ \A w \in Worker : pc[w] \in {"mark", "reply"} => delivered[cur[w].id] > 0

\* A connection was opened within the budget.
InTime ==
  \A w \in Worker :
    /\ busy[w] <= scene.sendMax
    /\ pc[w] \in {"sending", "mark", "record"} => elapsed[w] < Budget + busy[w]

\* What a worker holds is pending and hidden until its lease is over.
Hidden ==
  LeaseFits => \A w \in Worker, c \in Contact :
    Holds(w, c) => status[c] = "pending" /\ wait[c] \in Nat
                   /\ Lease <= wait[c] + elapsed[w]

\* No two workers hold one row.
Alone ==
  LeaseFits => \A v, w \in Worker, c \in Contact :
    Holds(v, c) /\ Holds(w, c) => v = w

\* A mail is accounted for by its row, by the worker about to mark it, or as
\* unconfirmed.
Accounted ==
  LeaseFits => \A c \in Contact :
    IF status[c] = "sent" \/ \E w \in Worker : pc[w] = "mark" /\ cur[w].id = c
    THEN delivered[c] = unconfirmed[c] + 1
    ELSE delivered[c] = unconfirmed[c]

\* OneReply, with the workers that are sending the reply.
ReplyPending ==
  LeaseFits =>
    /\ \A c \in Contact : replies[c] <= 1 /\ (replies[c] = 1 => status[c] = "sent")
    /\ \A w \in Worker : pc[w] = "reply" =>
         status[cur[w].id] = "sent" /\ replies[cur[w].id] = 0
    /\ \A v, w \in Worker :
         pc[v] = "reply" /\ pc[w] = "reply" /\ cur[v].id = cur[w].id => v = w

DispatchInv ==
  /\ Typed /\ Once /\ AttemptsKnown /\ Kept /\ InTime /\ Hidden /\ Alone
  /\ Accounted /\ ReplyPending

\* What the budget leaves of the lease is enough for a connection.
LEMMA BudgetFits ==
  /\ Budget \in Nat
  /\ LeaseFits /\ scene \in Scene => Budget + scene.sendMax <= Lease
<1>1. Lease \div 4 \in Nat /\ 4 * (Lease \div 4) <= Lease
      /\ \A k \in Nat : 4 * k <= Lease => k <= Lease \div 4
  BY DispatchAssumption
<1>2. scene \in Scene => scene.sendMax \in Nat
  BY DEF Scene
<1> QED BY <1>1, <1>2, DispatchAssumption DEF Budget, LeaseFits

\* A row that is held is not due.
LEMMA HeldNotDue ==
  ASSUME DispatchInv, LeaseFits, NEW w \in Worker, NEW c \in Contact, Holds(w, c)
  PROVE  wait[c] > 0 /\ c \notin Due
<1>1. elapsed[w] < Lease
  BY BudgetFits, DispatchAssumption
     DEF DispatchInv, Typed, InTime, Holds, Handles, Scene, Message
<1> QED BY <1>1, DispatchAssumption DEF DispatchInv, Typed, Hidden, Due

\* A worker that has handled a row no longer holds it, nor does another.
LEMMA LetGo ==
  ASSUME DispatchInv, LeaseFits, NEW w \in Worker, pc[w] \in {"sending", "mark", "record"},
         pc'[w] \in {"loop", "reply"},
         \A v \in Worker \ {w} : pc'[v] = pc[v], UNCHANGED <<queue, cur, elapsed>>,
         NEW v \in Worker, NEW c \in Contact, Holds(v, c)'
  PROVE  Holds(v, c) /\ c # cur[w].id
<1>1. Holds(w, cur[w].id) /\ ~Queued(w, cur[w].id) /\ cur[w].id \in Contact
  BY DEF Holds, Handles, DispatchInv, Once, Typed, Message
<1>2. CASE v = w
  BY <1>1, <1>2 DEF Holds, Handles, Queued
<1>3. CASE v # w
  <2>1. Holds(v, c)
    BY <1>3 DEF Holds, Handles, Queued
  <2> QED BY <1>1, <1>3, <2>1 DEF DispatchInv, Alone
<1> QED BY <1>2, <1>3

\* A row about to be handled is pending, and nobody else has it.
LEMMA InHand ==
  ASSUME DispatchInv, LeaseFits, NEW w \in Worker, pc[w] \in {"sending", "mark", "record"}
  PROVE  /\ cur[w].id \in Contact /\ status[cur[w].id] = "pending"
         /\ \A v \in Worker :
              pc[v] \in {"sending", "mark", "record"} /\ cur[v].id = cur[w].id => v = w
<1>1. cur[w].id \in Contact /\ Holds(w, cur[w].id)
  BY DEF Holds, Handles, DispatchInv, Typed, Message
<1> QED BY <1>1 DEF DispatchInv, Hidden, Alone, Holds, Handles

\* A message received is held by nobody.
LEMMA SaveKeeps ==
  ASSUME DispatchInv, NEW c \in Contact, Save(c)
  PROVE  DispatchInv'
<1> USE DispatchAssumption, BudgetFits
     DEF DispatchInv, Save, table, worker, history
<1>1. Typed'
  BY DEF Typed, Message, Scene
<1>2. Kept'
  BY DEF Kept, Typed, NothingLost, Message
<1>3. Hidden'
  BY DEF Hidden, Typed, LeaseFits, Holds, Handles, Queued, Message
<1>4. Accounted'
  BY DEF Accounted, Typed, LeaseFits, Message
<1>5. ReplyPending'
  BY DEF ReplyPending, Typed, LeaseFits, Message
<1>6. Once' /\ AttemptsKnown' /\ InTime' /\ Alone'
  BY DEF Once, Typed, Queued, Message, AttemptsKnown, InTime, Scene, Alone,
         LeaseFits, Holds, Handles
<1> QED BY <1>1, <1>2, <1>3, <1>4, <1>5, <1>6

\* Only due rows are claimed, and those nobody holds.
LEMMA ClaimPendingKeeps ==
  ASSUME DispatchInv, NEW w \in Worker, ClaimPending(w)
  PROVE  DispatchInv'
<1> USE DispatchAssumption, BudgetFits
     DEF DispatchInv, ClaimPending, Goto, Due, table, worker, history
<1>0. PICK batch \in SUBSET Due :
        /\ attempts' = [c \in Contact |-> attempts[c] + IF c \in batch THEN 1 ELSE 0]
        /\ wait' = [c \in Contact |-> IF c \in batch THEN Lease ELSE wait[c]]
        /\ queue' = [queue EXCEPT ![w] = {[id |-> c, attempt |-> attempts'[c]] : c \in batch}]
  OBVIOUS
<1>a. /\ elapsed' = [elapsed EXCEPT ![w] = 0] /\ pc' = [pc EXCEPT ![w] = "loop"]
      /\ pc[w] = "idle" /\ UNCHANGED <<status, cur, busy, history>>
  OBVIOUS
<1> HIDE DEF ClaimPending, Due
<1>b. /\ attempts' \in [Contact -> Nat]
      /\ \A c \in Contact : attempts[c] <= attempts'[c]
      /\ \A c \in batch : attempts'[c] > 0
  <2>1. \A c \in Contact : attempts'[c] = attempts[c] \/ attempts'[c] = attempts[c] + 1
    BY <1>0 DEF Typed
  <2>2. attempts' = [c \in Contact |-> attempts'[c]]
    BY <1>0
  <2>3. \A c \in batch : c \in Contact /\ attempts'[c] = attempts[c] + 1
    BY <1>0 DEF Due
  <2> QED BY <2>1, <2>2, <2>3 DEF Typed
<1>c. /\ batch \subseteq Contact
      /\ \A c \in batch : wait'[c] = Lease /\ status[c] = "pending"
      /\ \A c \in Contact \ batch : wait'[c] = wait[c]
  BY <1>0 DEF Due
<1>d. /\ queue' \in [Worker -> SUBSET Message]
      /\ \A m \in queue'[w] : m.id \in batch /\ m.attempt = attempts'[m.id]
      /\ \A m, n \in queue'[w] : m.id = n.id => m = n
      /\ \A v \in Worker \ {w} : queue'[v] = queue[v]
  <2> DEFINE taken == {[id |-> c, attempt |-> attempts'[c]] : c \in batch}
  <2>1. /\ \A m \in taken : m.id \in batch /\ m = [id |-> m.id, attempt |-> attempts'[m.id]]
        /\ taken \subseteq Message
    BY <1>b, <1>c DEF Message
  <2>2. queue' = [queue EXCEPT ![w] = taken]
    BY <1>0
  <2> HIDE DEF taken
  <2>3. queue' \in [Worker -> SUBSET Message] /\ queue'[w] = taken
        /\ \A v \in Worker \ {w} : queue'[v] = queue[v]
    BY <2>1, <2>2 DEF Typed
  <2>4. \A m \in taken : m.attempt = attempts'[m.id]
    BY <2>1
  <2>5. \A m, n \in taken : m.id = n.id => m = n
    BY <2>1
  <2> QED BY <2>1, <2>3, <2>4, <2>5
<1>e. /\ elapsed'[w] = 0 /\ pc'[w] = "loop"
      /\ \A v \in Worker \ {w} : elapsed'[v] = elapsed[v] /\ pc'[v] = pc[v]
  BY <1>a DEF Typed
<1>1. Typed'
  <2>1. wait' = [c \in Contact |-> wait'[c]]
    BY <1>0
  <2>2. elapsed' \in [Worker -> 0 .. Lease] /\ pc' \in [Worker ->
          {"idle", "loop", "sending", "mark", "reply", "record"}]
    BY <1>a DEF Typed
  <2> QED BY <1>a, <1>b, <1>d, <2>1, <2>2 DEF Typed
<1>2. Once'
  BY <1>a, <1>d, <1>e DEF Once, Queued, Typed
<1>3. AttemptsKnown'
  BY <1>a, <1>b, <1>c, <1>d, <1>e DEF AttemptsKnown, Typed, Message
<1>4. Kept'
  BY <1>a, <1>b, <1>e DEF Kept, Typed, NothingLost, Scene
<1>5. InTime'
  BY <1>a, <1>e DEF InTime, Typed
<1>6. Hidden'
  <2> SUFFICES ASSUME LeaseFits, NEW v \in Worker, NEW c \in Contact, Holds(v, c)'
               PROVE  (status[c] = "pending" /\ wait[c] \in Nat
                       /\ Lease <= wait[c] + elapsed[v])'
    BY <1>a DEF Hidden, LeaseFits
  <2>1. CASE v = w
    <3>1. c \in batch
      BY <1>d, <1>e, <2>1 DEF Holds, Handles, Queued
    <3> QED BY <1>a, <1>c, <1>e, <2>1, <3>1
  <2>2. CASE v # w
    <3>1. Holds(v, c)
      BY <1>a, <1>d, <1>e, <2>2 DEF Holds, Handles, Queued
    <3>2. c \notin batch
      BY <3>1, HeldNotDue
    <3> QED BY <1>a, <1>c, <1>e, <2>2, <3>1, <3>2 DEF Hidden
  <2> QED BY <2>1, <2>2
<1>7. Alone'
  <2> SUFFICES ASSUME LeaseFits, NEW u \in Worker, NEW v \in Worker, NEW c \in Contact,
                      Holds(u, c)', Holds(v, c)'
               PROVE  u = v
    BY <1>a DEF Alone, LeaseFits
  <2>1. ASSUME NEW x \in Worker, Holds(x, c)'
        PROVE  IF x = w THEN c \in batch ELSE Holds(x, c) /\ c \notin batch
    <3>1. CASE x = w
      BY <1>d, <1>e, <2>1, <3>1 DEF Holds, Handles, Queued
    <3>2. CASE x # w
      <4>1. Holds(x, c)
        BY <1>a, <1>d, <1>e, <2>1, <3>2 DEF Holds, Handles, Queued
      <4> QED BY <3>2, <4>1, HeldNotDue
    <3> QED BY <3>1, <3>2
  <2> QED BY <2>1 DEF Alone
<1>8. Accounted'
  BY <1>a, <1>e DEF Accounted, LeaseFits, Typed
<1>9. ReplyPending'
  BY <1>a, <1>e DEF ReplyPending, LeaseFits, Typed
<1> QED BY <1>1, <1>2, <1>3, <1>4, <1>5, <1>6, <1>7, <1>8, <1>9

\* The next message was queued and the budget is not used up.
LEMMA StartSendKeeps ==
  ASSUME DispatchInv, NEW w \in Worker, StartSend(w)
  PROVE  DispatchInv'
<1> USE DispatchAssumption, BudgetFits
     DEF DispatchInv, StartSend, Goto, table, worker, history
<1>1. Typed'
  BY DEF Typed, Message, Scene
<1>2. Once'
  BY DEF Once, Typed, Queued, Message
<1>3. AttemptsKnown'
  BY DEF AttemptsKnown, Typed, Message
<1>4. Kept'
  BY DEF Kept, Typed, NothingLost, Message
<1>5. InTime'
  BY DEF InTime, Typed, Scene
<1>6. Hidden'
  BY DEF Hidden, Typed, LeaseFits, Holds, Handles, Queued, Message
<1>7. Alone'
  BY DEF Alone, Typed, LeaseFits, Holds, Handles, Queued, Message
<1>8. Accounted'
  BY DEF Accounted, Typed, LeaseFits, Message
<1>9. ReplyPending'
  BY DEF ReplyPending, Typed, LeaseFits, Message
<1> QED BY <1>1, <1>2, <1>3, <1>4, <1>5, <1>6, <1>7, <1>8, <1>9

\* A round that ends holds nothing.
LEMMA EndRoundKeeps ==
  ASSUME DispatchInv, NEW w \in Worker, EndRound(w)
  PROVE  DispatchInv'
<1> USE DispatchAssumption, BudgetFits
     DEF DispatchInv, EndRound, Goto, table, worker, history
<1>1. Typed'
  BY DEF Typed, Message, Scene
<1>2. Once'
  BY DEF Once, Typed, Queued, Message
<1>3. AttemptsKnown'
  BY DEF AttemptsKnown, Typed, Message
<1>4. Kept'
  BY DEF Kept, Typed, NothingLost, Message
<1>5. InTime'
  BY DEF InTime, Typed, Scene
<1>6. Hidden'
  BY DEF Hidden, Typed, LeaseFits, Holds, Handles, Queued, Message
<1>7. Alone'
  BY DEF Alone, Typed, LeaseFits, Holds, Handles, Queued, Message
<1>8. Accounted'
  BY DEF Accounted, Typed, LeaseFits, Message
<1>9. ReplyPending'
  BY DEF ReplyPending, Typed, LeaseFits, Message
<1> QED BY <1>1, <1>2, <1>3, <1>4, <1>5, <1>6, <1>7, <1>8, <1>9

\* The mail is delivered, and its row about to be marked.
LEMMA SendKeeps ==
  ASSUME DispatchInv, NEW w \in Worker, Send(w)
  PROVE  DispatchInv'
<1> USE DispatchAssumption, BudgetFits
     DEF DispatchInv, Send, Goto, table, worker, history
<1>1. Typed'
  BY DEF Typed, Message, Scene
<1>2. Once'
  BY DEF Once, Typed, Queued, Message
<1>3. Kept'
  BY DEF Kept, Typed, NothingLost, Message
<1>4. InTime'
  BY DEF InTime, Typed, Scene
<1>5. Hidden'
  BY DEF Hidden, Typed, LeaseFits, Holds, Handles, Queued, Message
<1>6. Alone'
  BY DEF Alone, Typed, LeaseFits, Holds, Handles, Queued, Message
<1>7. Accounted'
  <2> SUFFICES ASSUME LeaseFits PROVE Accounted'
    BY DEF Accounted, LeaseFits
  <2>1. /\ cur[w].id \in Contact /\ status[cur[w].id] = "pending"
        /\ \A v \in Worker : pc[v] = "mark" => cur[v].id # cur[w].id
    BY InHand
  <2> QED BY <2>1 DEF Accounted, Typed, LeaseFits, Message
<1>8. ReplyPending'
  BY DEF ReplyPending, Typed, LeaseFits, Message
<1>9. AttemptsKnown'
  BY DEF AttemptsKnown, Typed, Message
<1> QED BY <1>1, <1>2, <1>3, <1>4, <1>5, <1>6, <1>7, <1>8, <1>9

\* A mail taken by the server in spite of the error is unconfirmed.
LEMMA SendFailsKeeps ==
  ASSUME DispatchInv, NEW w \in Worker, SendFails(w)
  PROVE  DispatchInv'
<1> USE DispatchAssumption, BudgetFits
     DEF DispatchInv, SendFails, Goto, Count, table, worker, history
<1>1. Typed'
  BY DEF Typed, Message, Scene
<1>2. Once'
  BY DEF Once, Typed, Queued, Message
<1>3. Kept'
  BY DEF Kept, Typed, NothingLost, Message
<1>4. InTime'
  BY DEF InTime, Typed, Scene
<1>5. Hidden'
  BY DEF Hidden, Typed, LeaseFits, Holds, Handles, Queued, Message
<1>6. Alone'
  BY DEF Alone, Typed, LeaseFits, Holds, Handles, Queued, Message
<1>7. Accounted'
  BY DEF Accounted, Typed, LeaseFits, Message
<1>8. ReplyPending'
  BY DEF ReplyPending, Typed, LeaseFits, Message
<1>9. AttemptsKnown'
  BY DEF AttemptsKnown, Typed, Message
<1> QED BY <1>1, <1>2, <1>3, <1>4, <1>5, <1>6, <1>7, <1>8, <1>9

\* The row is pending, for the worker holds it.
LEMMA MarkSentKeeps ==
  ASSUME DispatchInv, NEW w \in Worker, MarkSent(w)
  PROVE  DispatchInv'
<1> USE DispatchAssumption, BudgetFits
     DEF DispatchInv, MarkSent, Goto, table, worker, history
<1>1. Typed'
  BY DEF Typed, Message, Scene
<1>2. Once'
  BY DEF Once, Typed, Queued, Message
<1>3. Kept'
  BY DEF Kept, Typed, NothingLost, Message
<1>4. InTime'
  BY DEF InTime, Typed, Scene
<1>5. Hidden'
  <2> SUFFICES ASSUME LeaseFits, NEW v \in Worker, NEW c \in Contact, Holds(v, c)'
               PROVE  (status[c] = "pending" /\ wait[c] \in Nat
                       /\ Lease <= wait[c] + elapsed[v])'
    BY DEF Hidden, LeaseFits
  <2>1. Holds(v, c) /\ c # cur[w].id
    BY LetGo DEF Typed
  <2> QED BY <2>1 DEF Hidden, Typed
<1>6. Alone'
  BY DEF Alone, Typed, LeaseFits, Holds, Handles, Queued, Message
<1>7. Accounted'
  <2> SUFFICES ASSUME LeaseFits PROVE Accounted'
    BY DEF Accounted, LeaseFits
  <2>1. cur[w].id \in Contact /\ status[cur[w].id] = "pending"
    BY InHand
  <2>2. /\ status' = [status EXCEPT ![cur[w].id] = "sent"]
        /\ pc'[w] # "mark" /\ \A v \in Worker \ {w} : pc'[v] = pc[v]
    BY <2>1 DEF Typed
  <2> QED BY <2>1, <2>2 DEF Accounted, Typed, LeaseFits, Message
<1>8. ReplyPending'
  <2> SUFFICES ASSUME LeaseFits PROVE ReplyPending'
    BY DEF ReplyPending, LeaseFits
  <2>1. cur[w].id \in Contact /\ status[cur[w].id] = "pending"
    BY InHand
  <2>2. /\ status' = [status EXCEPT ![cur[w].id] = "sent"]
        /\ \A v \in Worker \ {w} : pc'[v] = pc[v]
    BY <2>1 DEF Typed
  <2>3. replies[cur[w].id] = 0
    <3>1. replies[cur[w].id] \in Nat /\ replies[cur[w].id] <= 1
      BY <2>1 DEF ReplyPending, Typed
    <3>2. replies[cur[w].id] # 1
      BY <2>1 DEF ReplyPending
    <3> QED BY <3>1, <3>2
  <2>4. \A v \in Worker : pc[v] = "reply" => cur[v].id # cur[w].id
    BY <2>1 DEF ReplyPending
  <2> QED BY <2>1, <2>2, <2>3, <2>4 DEF ReplyPending, Typed, LeaseFits, Message
<1>9. AttemptsKnown'
  BY DEF AttemptsKnown, Typed, Message
<1> QED BY <1>1, <1>2, <1>3, <1>4, <1>5, <1>6, <1>7, <1>8, <1>9

\* One worker sends the reply, once.
LEMMA SendAutoReplyKeeps ==
  ASSUME DispatchInv, NEW w \in Worker, SendAutoReply(w)
  PROVE  DispatchInv'
<1> USE DispatchAssumption, BudgetFits
     DEF DispatchInv, SendAutoReply, Goto, Count, table, worker, history
<1>1. Typed'
  BY DEF Typed, Message, Scene
<1>2. Once'
  BY DEF Once, Typed, Queued, Message
<1>3. Kept'
  BY DEF Kept, Typed, NothingLost, Message
<1>4. InTime'
  BY DEF InTime, Typed, Scene
<1>5. Hidden'
  BY DEF Hidden, Typed, LeaseFits, Holds, Handles, Queued, Message
<1>6. Alone'
  BY DEF Alone, Typed, LeaseFits, Holds, Handles, Queued, Message
<1>7. Accounted'
  BY DEF Accounted, Typed, LeaseFits, Message
<1>8. ReplyPending'
  BY DEF ReplyPending, Typed, LeaseFits, Message
<1>9. AttemptsKnown'
  BY DEF AttemptsKnown, Typed, Message
<1> QED BY <1>1, <1>2, <1>3, <1>4, <1>5, <1>6, <1>7, <1>8, <1>9

\* A row is given up by the worker that holds it.
LEMMA FailKeeps ==
  ASSUME DispatchInv, NEW w \in Worker, Fail(w)
  PROVE  DispatchInv'
<1> USE DispatchAssumption, BudgetFits
     DEF DispatchInv, Fail, Goto, table, worker, history
<1>1. Typed'
  BY DEF Typed, Message, Scene
<1>2. Once'
  BY DEF Once, Typed, Queued, Message
<1>3. Kept'
  <2>1. attempts[cur[w].id] >= scene.maxAttempts
    BY DEF AttemptsKnown, Typed, Message, Scene
  <2> QED BY <2>1 DEF Kept, NothingLost, Typed, Message
<1>4. InTime'
  BY DEF InTime, Typed, Scene
<1>5. Hidden'
  <2> SUFFICES ASSUME LeaseFits, NEW v \in Worker, NEW c \in Contact, Holds(v, c)'
               PROVE  (status[c] = "pending" /\ wait[c] \in Nat
                       /\ Lease <= wait[c] + elapsed[v])'
    BY DEF Hidden, LeaseFits
  <2>1. Holds(v, c) /\ c # cur[w].id
    BY LetGo DEF Typed
  <2> QED BY <2>1 DEF Hidden, Typed
<1>6. Alone'
  BY DEF Alone, Typed, LeaseFits, Holds, Handles, Queued, Message
<1>7. Accounted'
  BY DEF Accounted, Typed, LeaseFits, Message
<1>8. ReplyPending'
  BY DEF ReplyPending, Typed, LeaseFits, Message
<1>9. AttemptsKnown'
  BY DEF AttemptsKnown, Typed, Message
<1> QED BY <1>1, <1>2, <1>3, <1>4, <1>5, <1>6, <1>7, <1>8, <1>9

\* A row put off is no longer held.
LEMMA RescheduleKeeps ==
  ASSUME DispatchInv, NEW w \in Worker, Reschedule(w)
  PROVE  DispatchInv'
<1> USE DispatchAssumption, BudgetFits
     DEF DispatchInv, Reschedule, Goto, table, worker, history
<1>1. Typed'
  BY DEF Typed, Message, Scene
<1>2. Once'
  BY DEF Once, Typed, Queued, Message
<1>3. Kept'
  BY DEF Kept, Typed, NothingLost, Message
<1>4. InTime'
  BY DEF InTime, Typed, Scene
<1>5. Hidden'
  <2> SUFFICES ASSUME LeaseFits, NEW v \in Worker, NEW c \in Contact, Holds(v, c)'
               PROVE  (status[c] = "pending" /\ wait[c] \in Nat
                       /\ Lease <= wait[c] + elapsed[v])'
    BY DEF Hidden, LeaseFits
  <2>1. Holds(v, c) /\ c # cur[w].id
    BY LetGo DEF Typed
  <2> QED BY <2>1 DEF Hidden, Typed
<1>6. Alone'
  BY DEF Alone, Typed, LeaseFits, Holds, Handles, Queued, Message
<1>7. Accounted'
  BY DEF Accounted, Typed, LeaseFits, Message
<1>8. ReplyPending'
  BY DEF ReplyPending, Typed, LeaseFits, Message
<1>9. AttemptsKnown'
  BY DEF AttemptsKnown, Typed, Message
<1> QED BY <1>1, <1>2, <1>3, <1>4, <1>5, <1>6, <1>7, <1>8, <1>9

\* A mail whose worker died before marking it is unconfirmed.
LEMMA CrashKeeps ==
  ASSUME DispatchInv, NEW w \in Worker, Crash(w)
  PROVE  DispatchInv'
<1> USE DispatchAssumption, BudgetFits
     DEF DispatchInv, Crash, Goto, Count, table, worker, history
<1>1. Typed'
  BY DEF Typed, Message, Scene
<1>2. Once'
  BY DEF Once, Typed, Queued, Message
<1>3. AttemptsKnown'
  BY DEF AttemptsKnown, Typed, Message
<1>4. Kept'
  BY DEF Kept, Typed, NothingLost, Message
<1>5. InTime'
  BY DEF InTime, Typed, Scene
<1>6. Hidden'
  BY DEF Hidden, Typed, LeaseFits, Holds, Handles, Queued, Message
<1>7. Alone'
  BY DEF Alone, Typed, LeaseFits, Holds, Handles, Queued, Message
<1>8. Accounted'
  <2> SUFFICES ASSUME LeaseFits PROVE Accounted'
    BY DEF Accounted, LeaseFits
  <2>1. /\ cur[w].id \in Contact /\ UNCHANGED <<scene, status, cur>>
        /\ pc'[w] = "idle" /\ \A v \in Worker \ {w} : pc'[v] = pc[v]
    BY DEF Typed, Message
  <2>2. PICK taken \in BOOLEAN :
          /\ taken => pc[w] = "sending"
          /\ delivered' = Count(delivered, cur[w].id, taken)
          /\ unconfirmed' = Count(unconfirmed, cur[w].id, taken \/ pc[w] = "mark")
    OBVIOUS
  <2>3. CASE pc[w] = "mark"
    <3>1. status[cur[w].id] = "pending" /\ \A v \in Worker \ {w} : pc[v] = "mark" => cur[v].id # cur[w].id
      BY <2>3, InHand
    <3>2. delivered' = delivered /\ unconfirmed' = [unconfirmed EXCEPT ![cur[w].id] = @ + 1]
      BY <2>2, <2>3
    <3> QED BY <2>1, <2>3, <3>1, <3>2 DEF Accounted, Typed, LeaseFits
  <2>4. CASE pc[w] # "mark" /\ taken
    <3>1. /\ delivered' = [delivered EXCEPT ![cur[w].id] = @ + 1]
          /\ unconfirmed' = [unconfirmed EXCEPT ![cur[w].id] = @ + 1]
      BY <2>2, <2>4
    <3> QED BY <2>1, <2>4, <3>1 DEF Accounted, Typed, LeaseFits
  <2>5. CASE pc[w] # "mark" /\ ~taken
    <3>1. delivered' = delivered /\ unconfirmed' = unconfirmed
      BY <2>2, <2>5
    <3> QED BY <2>1, <2>5, <3>1 DEF Accounted, Typed, LeaseFits
  <2> QED BY <2>3, <2>4, <2>5
<1>9. ReplyPending'
  BY DEF ReplyPending, Typed, LeaseFits, Message
<1> QED BY <1>1, <1>2, <1>3, <1>4, <1>5, <1>6, <1>7, <1>8, <1>9

\* Time takes as much of the lease as of the budget.
LEMMA TickKeeps ==
  ASSUME DispatchInv, Tick
  PROVE  DispatchInv'
<1> USE DispatchAssumption, BudgetFits
     DEF DispatchInv, Tick, InSmtp, Lesser, table, worker, history
<1>0. \A v \in Worker, c \in Contact :
        Holds(v, c)' => Holds(v, c) /\ elapsed'[v] = Lesser(elapsed[v] + 1, Lease)
  BY DEF Once, Typed, InSmtp, Lesser, Holds, Handles, Queued
<1>1. Typed'
  BY DEF Typed, Message, Scene
<1>2. InTime'
  BY DEF InTime, Typed, Scene
<1>3. Hidden'
  <2> SUFFICES ASSUME LeaseFits, NEW v \in Worker, NEW c \in Contact, Holds(v, c)'
               PROVE  (status[c] = "pending" /\ wait[c] \in Nat
                       /\ Lease <= wait[c] + elapsed[v])'
    BY DEF Hidden, LeaseFits
  <2>1. Holds(v, c)
    BY <1>0
  <2>2. wait[c] \in Nat \ {0} /\ wait'[c] = wait[c] - 1
    BY <2>1, HeldNotDue DEF Hidden, Typed
  <2>3. elapsed'[v] = Lesser(elapsed[v] + 1, Lease)
    BY <1>0, <2>1
  <2>4. status[c] = "pending" /\ Lease <= wait[c] + elapsed[v] /\ elapsed[v] \in 0 .. Lease
    BY <2>1 DEF Hidden, Typed
  <2>5. Lease <= wait'[c] + elapsed'[v]
    BY <2>2, <2>3, <2>4 DEF Lesser
  <2> QED BY <2>2, <2>4, <2>5
<1>4. Alone'
  BY <1>0 DEF Alone, LeaseFits
<1>5. Once' /\ AttemptsKnown' /\ Kept' /\ Accounted' /\ ReplyPending'
  BY DEF Once, Typed, Queued, Message, AttemptsKnown, Kept, NothingLost,
         Accounted, LeaseFits, ReplyPending
<1> QED BY <1>1, <1>2, <1>3, <1>4, <1>5

\* Nothing is received at the start.
LEMMA DispatchInit == Init => DispatchInv
<1> SUFFICES ASSUME Init PROVE DispatchInv
  OBVIOUS
<1> USE DispatchAssumption DEF Init
<1>1. NoMessage \in Message /\ NoMessage.attempt = 0
  BY DEF NoMessage, Message
<1>2. Typed
  BY <1>1 DEF Typed
<1>3. Once /\ AttemptsKnown /\ Kept
  BY <1>1 DEF Once, Queued, AttemptsKnown, Kept, NothingLost, Message
<1>4. InTime /\ Hidden /\ Alone
  BY DEF InTime, Hidden, Alone, Holds, Handles, Queued, Scene
<1>5. Accounted /\ ReplyPending
  BY DEF Accounted, ReplyPending
<1> QED BY <1>2, <1>3, <1>4, <1>5 DEF DispatchInv

\* A stuttering step keeps everything.
LEMMA DispatchStutter ==
  ASSUME DispatchInv, UNCHANGED vars
  PROVE  DispatchInv'
<1> USE DEF vars, table, worker, history, DispatchInv
<1>1. Typed' /\ Once' /\ AttemptsKnown' /\ Kept' /\ InTime'
  BY DEF Typed, Once, Queued, AttemptsKnown, Kept, NothingLost, InTime
<1>2. Hidden' /\ Alone' /\ Accounted' /\ ReplyPending'
  BY DEF Hidden, Alone, Accounted, ReplyPending, LeaseFits, Holds, Handles, Queued
<1> QED BY <1>1, <1>2

\* Every step of a worker, a crash and the clock keep it.
LEMMA DispatchStep == DispatchInv /\ [Next]_vars => DispatchInv'
<1> SUFFICES ASSUME DispatchInv, [Next]_vars PROVE DispatchInv'
  OBVIOUS
<1>1. ASSUME NEW c \in Contact, Save(c)
      PROVE  DispatchInv'
  BY <1>1, SaveKeeps
<1>2. ASSUME NEW w \in Worker, Work(w) \/ Crash(w)
      PROVE  DispatchInv'
  BY <1>2, ClaimPendingKeeps, StartSendKeeps, EndRoundKeeps, SendKeeps,
     SendFailsKeeps, MarkSentKeeps, SendAutoReplyKeeps, FailKeeps, RescheduleKeeps,
     CrashKeeps DEF Work
<1>3. CASE Tick
  BY <1>3, TickKeeps
<1>4. CASE UNCHANGED vars
  BY <1>4, DispatchStutter
<1> QED BY <1>1, <1>2, <1>3, <1>4 DEF Next

\* The invariant holds in every state of every behaviour.
THEOREM DispatchAlways == Spec => []DispatchInv
<1>1. Init => DispatchInv
  BY DispatchInit
<1>2. DispatchInv /\ [Next]_vars => DispatchInv'
  BY DispatchStep
<1> QED BY <1>1, <1>2, PTL DEF Spec

\* Two replicas never send one message at the same time, whatever the sizes of
\* the lease, the batch and the backoff, if a connection takes no longer than
\* a quarter of the lease.
THEOREM SendingIsExclusive == Spec => []ExclusiveSend
<1>1. DispatchInv => ExclusiveSend
  <2> SUFFICES ASSUME DispatchInv, LeaseFits, NEW v \in Worker, NEW w \in Worker,
                      pc[v] = "sending", pc[w] = "sending", cur[v].id = cur[w].id
               PROVE  v = w
    BY DEF ExclusiveSend
  <2> QED BY InHand
<1> QED BY <1>1, DispatchAlways, PTL

\* A second mail needs a first one that no worker could record.
THEOREM DuplicatesHaveCause == Spec => []DuplicatesExplained
<1>1. DispatchInv => DuplicatesExplained
  <2> SUFFICES ASSUME DispatchInv, LeaseFits, NEW c \in Contact
               PROVE  delivered[c] <= 1 + unconfirmed[c]
    BY DEF DuplicatesExplained
  <2>1. delivered[c] \in Nat /\ unconfirmed[c] \in Nat
    BY DEF DispatchInv, Typed
  <2>2. delivered[c] = unconfirmed[c] + 1 \/ delivered[c] = unconfirmed[c]
    BY DEF DispatchInv, Accounted
  <2> QED BY <2>1, <2>2
<1> QED BY <1>1, DispatchAlways, PTL

\* A visitor gets one auto reply at most, and only for what was sent.
THEOREM RepliedOnce == Spec => []OneReply
<1>1. DispatchInv => OneReply
  BY DEF DispatchInv, ReplyPending, OneReply
<1> QED BY <1>1, DispatchAlways, PTL

\* What is marked as sent was delivered, and what was given up had all its
\* attempts, whatever the lease.
THEOREM NothingIsLost == Spec => []NothingLost
<1>1. DispatchInv => NothingLost
  BY DEF DispatchInv, Kept
<1> QED BY <1>1, DispatchAlways, PTL

\* An outcome, once recorded, is never changed.
THEOREM OutcomeForGood == Spec => OutcomeStays
<1>1. ASSUME DispatchInv, [Next]_vars, NEW c \in Contact, status[c] \in {"sent", "failed"}
      PROVE  status'[c] = status[c]
  <2> USE <1>1 DEF table
  <2>1. ASSUME NEW d \in Contact, Save(d)
        PROVE  status'[c] = status[c]
    BY <2>1 DEF Save, DispatchInv, Typed
  <2>2. ASSUME NEW w \in Worker, MarkSent(w) \/ Fail(w)
        PROVE  status'[c] = status[c]
    BY <2>2 DEF MarkSent, Fail, DispatchInv, Typed
  <2>3. ASSUME NEW w \in Worker, Work(w) \/ Crash(w), ~(MarkSent(w) \/ Fail(w))
        PROVE  status'[c] = status[c]
    BY <2>3 DEF Work, ClaimPending, StartSend, EndRound, Send, SendFails,
       SendAutoReply, Reschedule, Crash
  <2>4. CASE Tick \/ UNCHANGED vars
    BY <2>4 DEF Tick, vars
  <2> QED BY <2>1, <2>2, <2>3, <2>4 DEF Next
<1>2. DispatchInv /\ [Next]_vars =>
        [\A c \in Contact : status[c] \in {"sent", "failed"} => status'[c] = status[c]]_vars
  BY <1>1
<1> QED BY <1>2, DispatchAlways, PTL DEF Spec, OutcomeStays

-----------------------------------------------------------------------------
(* The mailbox that the dispatch implements.                               *)

\* Of a mail that is being sent nothing is known to have arrived.
LEMMA SendingUnarrived ==
  ASSUME DispatchInv, LeaseFits, NEW w \in Worker, pc[w] \in {"sending", "record"}
  PROVE  status[cur[w].id] = "pending" /\ delivered[cur[w].id] = unconfirmed[cur[w].id]
<1>1. /\ cur[w].id \in Contact /\ status[cur[w].id] = "pending"
      /\ \A v \in Worker : pc[v] = "mark" => cur[v].id # cur[w].id
  BY InHand
<1> QED BY <1>1 DEF DispatchInv, Accounted

\* A mail that is about to be marked has arrived and is not known to others.
LEMMA MarkingArrived ==
  ASSUME DispatchInv, LeaseFits, NEW w \in Worker, pc[w] = "mark"
  PROVE  status[cur[w].id] = "pending" /\ delivered[cur[w].id] = unconfirmed[cur[w].id] + 1
<1>1. cur[w].id \in Contact /\ status[cur[w].id] = "pending"
  BY InHand
<1> QED BY <1>1 DEF DispatchInv, Accounted

\* Where no row, mail or reply is touched, the mailbox stays as it is.
LEMMA MailboxStays ==
  ASSUME UNCHANGED <<scene, status, attempts, delivered, unconfirmed, replies>>
  PROVE  UNCHANGED Mailbox!mailboxVars
BY DEF Mailbox!mailboxVars, Mailbox!mailbox, LeaseFits

\* Every step of a worker is a step of the mailbox or none.
LEMMA DispatchSimulates ==
  ASSUME DispatchInv, [Next]_vars
  PROVE  [Mailbox!Next]_(Mailbox!mailboxVars)
<1> USE DEF table, worker, history
<1>0. ASSUME UNCHANGED scene PROVE UNCHANGED <<LeaseFits, scene.maxAttempts>>
  BY <1>0 DEF LeaseFits
<1>1. ASSUME NEW c \in Contact, Save(c)
      PROVE  Mailbox!Next
  <2>1. Mailbox!Receive(c)
    BY <1>1 DEF Save, Mailbox!Receive
  <2> QED BY <1>0, <1>1, <2>1 DEF Save, Mailbox!Next
<1>2. ASSUME NEW w \in Worker, ClaimPending(w)
      PROVE  Mailbox!Next
  <2>1. PICK batch \in SUBSET Due :
          attempts' = [c \in Contact |-> attempts[c] + IF c \in batch THEN 1 ELSE 0]
    BY <1>2 DEF ClaimPending
  <2>2. batch \in SUBSET Contact /\ \A c \in batch : status[c] = "pending"
    BY DEF Due
  <2>3. UNCHANGED <<scene, status, delivered, unconfirmed, replies>>
    BY <1>2 DEF ClaimPending
  <2>4. Mailbox!TakeUp(batch)
    BY <2>1, <2>2, <2>3 DEF Mailbox!TakeUp, Mailbox!Open
  <2> QED BY <1>0, <2>2, <2>3, <2>4 DEF Mailbox!Next
<1>3. ASSUME NEW w \in Worker, StartSend(w) \/ EndRound(w) \/ Reschedule(w)
      PROVE  UNCHANGED Mailbox!mailboxVars
  BY <1>3, MailboxStays DEF StartSend, EndRound, Reschedule
<1>4. ASSUME NEW w \in Worker, pc[w] = "sending", UNCHANGED <<scene, status, attempts, replies>>,
             delivered' = [delivered EXCEPT ![cur[w].id] = @ + 1],
             unconfirmed' \in {unconfirmed, [unconfirmed EXCEPT ![cur[w].id] = @ + 1]}
      PROVE  Mailbox!Next
  <2>1. cur[w].id \in Contact /\ attempts[cur[w].id] > 0
    BY <1>4 DEF DispatchInv, AttemptsKnown, Typed, Message
  <2>2. Mailbox!Mail(cur[w].id)
    BY <1>4, <2>1, SendingUnarrived DEF Mailbox!Mail, Mailbox!Open, Mailbox!Unarrived
  <2> QED BY <1>0, <1>4, <2>1, <2>2 DEF Mailbox!Next
<1>5. ASSUME NEW w \in Worker, Send(w)
      PROVE  Mailbox!Next
  BY <1>4, <1>5 DEF Send
<1>6. ASSUME NEW w \in Worker, SendFails(w)
      PROVE  Mailbox!Next \/ UNCHANGED Mailbox!mailboxVars
  <2>1. PICK taken \in BOOLEAN :
          /\ delivered' = Count(delivered, cur[w].id, taken)
          /\ unconfirmed' = Count(unconfirmed, cur[w].id, taken)
    BY <1>6 DEF SendFails
  <2>2. CASE taken
    BY <1>4, <1>6, <2>1, <2>2 DEF SendFails, Count
  <2>3. CASE ~taken
    BY <1>6, <2>1, <2>3, MailboxStays DEF SendFails, Count
  <2> QED BY <2>2, <2>3
<1>7. ASSUME NEW w \in Worker, MarkSent(w)
      PROVE  Mailbox!Next \/ UNCHANGED Mailbox!mailboxVars
  <2>1. /\ cur[w].id \in Contact /\ delivered[cur[w].id] > 0
        /\ UNCHANGED <<scene, attempts, delivered, unconfirmed, replies>>
    BY <1>7 DEF MarkSent, DispatchInv, Kept, Typed, Message
  <2>2. CASE status[cur[w].id] = "pending"
    <3>1. Mailbox!Sent(cur[w].id)
      BY <1>7, <2>1, <2>2, MarkingArrived
         DEF MarkSent, Mailbox!Sent, Mailbox!Settle, Mailbox!Open, Mailbox!Arrived
    <3> QED BY <1>0, <2>1, <3>1 DEF Mailbox!Next
  <2>3. CASE status[cur[w].id] # "pending"
    BY <1>7, <2>1, <2>3, MailboxStays DEF MarkSent
  <2> QED BY <2>2, <2>3
<1>8. ASSUME NEW w \in Worker, SendAutoReply(w)
      PROVE  Mailbox!Next \/ UNCHANGED Mailbox!mailboxVars
  <2>1. PICK ok \in BOOLEAN : replies' = Count(replies, cur[w].id, ok)
    BY <1>8 DEF SendAutoReply
  <2>2. CASE ok
    <3>1. cur[w].id \in Contact /\ delivered[cur[w].id] > 0
      BY <1>8 DEF SendAutoReply, DispatchInv, Kept, Typed, Message
    <3>2. LeaseFits => status[cur[w].id] = "sent" /\ replies[cur[w].id] = 0
      BY <1>8 DEF SendAutoReply, DispatchInv, ReplyPending
    <3>3. Mailbox!Reply(cur[w].id)
      BY <1>8, <2>1, <2>2, <3>1, <3>2 DEF SendAutoReply, Count, Mailbox!Reply
    <3> QED BY <1>0, <1>8, <3>1, <3>3 DEF SendAutoReply, Mailbox!Next
  <2>3. CASE ~ok
    BY <1>8, <2>1, <2>3, MailboxStays DEF SendAutoReply, Count
  <2> QED BY <2>2, <2>3
<1>9. ASSUME NEW w \in Worker, Fail(w)
      PROVE  Mailbox!Next \/ UNCHANGED Mailbox!mailboxVars
  <2>1. /\ cur[w].id \in Contact /\ attempts[cur[w].id] >= scene.maxAttempts
        /\ UNCHANGED <<scene, attempts, delivered, unconfirmed, replies>>
    BY <1>9 DEF Fail, DispatchInv, AttemptsKnown, Typed, Message, Scene
  <2>2. CASE status[cur[w].id] = "pending"
    <3>1. Mailbox!GiveUp(cur[w].id)
      BY <1>9, <2>1, <2>2, SendingUnarrived
         DEF Fail, Mailbox!GiveUp, Mailbox!Settle, Mailbox!Open, Mailbox!Unarrived
    <3> QED BY <1>0, <2>1, <3>1 DEF Mailbox!Next
  <2>3. CASE status[cur[w].id] # "pending"
    BY <1>9, <2>1, <2>3, MailboxStays DEF Fail
  <2> QED BY <2>2, <2>3
<1>10. ASSUME NEW w \in Worker, Crash(w)
       PROVE  Mailbox!Next \/ UNCHANGED Mailbox!mailboxVars
  <2>1. PICK taken \in BOOLEAN :
          /\ taken => pc[w] = "sending"
          /\ delivered' = Count(delivered, cur[w].id, taken)
          /\ unconfirmed' = Count(unconfirmed, cur[w].id, taken \/ pc[w] = "mark")
    BY <1>10 DEF Crash
  <2>2. UNCHANGED <<scene, status, attempts, replies>>
    BY <1>10 DEF Crash
  <2>3. CASE taken
    BY <1>4, <2>1, <2>2, <2>3 DEF Count
  <2>4. CASE ~taken /\ pc[w] = "mark"
    <3>1. cur[w].id \in Contact /\ delivered[cur[w].id] > 0
      BY <2>4 DEF DispatchInv, Kept, Typed, Message
    <3>2. delivered' = delivered /\ unconfirmed' = [unconfirmed EXCEPT ![cur[w].id] = @ + 1]
      BY <2>1, <2>4 DEF Count
    <3>3. Mailbox!Forget(cur[w].id)
      BY <2>2, <2>4, <3>1, <3>2, MarkingArrived
         DEF Mailbox!Forget, Mailbox!Open, Mailbox!Arrived
    <3> QED BY <1>0, <2>2, <3>1, <3>3 DEF Mailbox!Next
  <2>5. CASE ~taken /\ pc[w] # "mark"
    BY <2>1, <2>2, <2>5, MailboxStays DEF Count
  <2> QED BY <2>3, <2>4, <2>5
<1>11. CASE Tick \/ UNCHANGED vars
  BY <1>11, MailboxStays DEF Tick, vars
<1> QED
  BY <1>1, <1>2, <1>3, <1>5, <1>6, <1>7, <1>8, <1>9, <1>10, <1>11 DEF Next, Work

\* Replicas that claim, crash and time out implement the mailbox that settles
\* every message once.
THEOREM DispatchIsMailbox == Spec => ImplementsMailbox
<1>1. Init => Mailbox!Init
  BY DispatchAssumption DEF Init, Mailbox!Init, Scene, LeaseFits
<1>2. DispatchInv /\ [Next]_vars => [Mailbox!Next]_(Mailbox!mailboxVars)
  BY DispatchSimulates
<1> QED BY <1>1, <1>2, DispatchAlways, PTL DEF Spec, ImplementsMailbox, Mailbox!Spec

=============================================================================
