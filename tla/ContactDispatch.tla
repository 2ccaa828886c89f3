-------------------------- MODULE ContactDispatch ---------------------------
(***************************************************************************)
(* Sending contact messages by mail (internal/contact/usecase/             *)
(* dispatcher.go, contact_repository.go, db/query/contact.sql).  Every     *)
(* replica runs a worker: it claims a batch of due rows under a lease,     *)
(* talks SMTP outside any transaction, and records the outcome of each     *)
(* row.  A worker may crash or be shut down between any two steps.         *)
(*                                                                         *)
(* Time is discrete.  Only SMTP and waiting take time: a worker that is    *)
(* between two messages, or about to write an outcome, does so before the  *)
(* next tick.  wait[c] is what is left until next_attempt_at.              *)
(***************************************************************************)
EXTENDS Naturals, FiniteSets

CONSTANTS
  Contact,      \* rows of contact_messages
  Worker,       \* replicas of the API process
  Replying,     \* contacts with a verified address for the auto reply
  BatchSize,    \* rows claimed at once
  Lease,        \* how long a claimed row is hidden
  BaseBackoff,  \* the wait after the first failure
  MaxBackoff,   \* the longest wait
  Scenes        \* the settings to look at, see Scene

\* A setting: the contacts that write, the attempts before a row is given
\* up, the longest an SMTP connection takes, and a bound on the crashes and
\* shutdowns of workers in a behaviour.
Scene == [rows : SUBSET Contact, maxAttempts : Nat \ {0},
          sendMax : Nat \ {0}, maxCrashes : Nat]

ASSUME DispatchAssumption ==
  /\ Replying \subseteq Contact /\ Contact # {}
  /\ BatchSize \in Nat \ {0} /\ Lease \in Nat \ {0}
  /\ BaseBackoff \in Nat \ {0} /\ MaxBackoff \in Nat \ {0}
  /\ \A s \in Scenes : s \in Scene

VARIABLES
  scene,        \* the setting of this behaviour
  status,       \* of each row; "none" before it is received
  attempts,     \* attempt_count
  wait,         \* next_attempt_at - now()
  pc,           \* where each worker is
  queue,        \* claimed and not yet handled, as [id, attempt]
  cur,          \* the message being handled
  elapsed,      \* time since the claim
  busy,         \* time in the current SMTP connection
  crashes,      \* history: crashes so far
  delivered,    \* history: mails the operators got, per contact
  unconfirmed,  \* history: of these, those no worker recorded as sent
  replies       \* history: auto replies that went out

table == <<status, attempts, wait>>
worker == <<pc, queue, cur, elapsed, busy>>
history == <<scene, crashes, delivered, unconfirmed, replies>>
vars == <<table, worker, history>>

\* leaseBudget: lease / 4 * 3, in integers.
Budget == (Lease \div 4) * 3

Lesser(a, b) == IF a < b THEN a ELSE b

\* backoff: doubling from the base up to the maximum.
Backoff(n) == Lesser(BaseBackoff * 2 ^ (n - 1), MaxBackoff)

Due == {c \in Contact : status[c] = "pending" /\ wait[c] = 0}

NoMessage == [id |-> CHOOSE c \in Contact : TRUE, attempt |-> 0]

Init ==
  /\ scene \in Scenes
  /\ status = [c \in Contact |-> "none"]
  /\ attempts = [c \in Contact |-> 0]
  /\ wait = [c \in Contact |-> 0]
  /\ pc = [w \in Worker |-> "idle"]
  /\ queue = [w \in Worker |-> {}]
  /\ cur = [w \in Worker |-> NoMessage]
  /\ elapsed = [w \in Worker |-> 0]
  /\ busy = [w \in Worker |-> 0]
  /\ crashes = 0
  /\ delivered = [c \in Contact |-> 0]
  /\ unconfirmed = [c \in Contact |-> 0]
  /\ replies = [c \in Contact |-> 0]

Goto(w, p) == pc' = [pc EXCEPT ![w] = p]
Count(h, c, yes) == IF yes THEN [h EXCEPT ![c] = @ + 1] ELSE h

\* Save: a row is pending and due at once.
Save(c) ==
  /\ c \in scene.rows /\ status[c] = "none"
  /\ status' = [status EXCEPT ![c] = "pending"]
  /\ UNCHANGED <<attempts, wait, worker, history>>

-----------------------------------------------------------------------------
(* A round of a worker.                                                    *)

\* Mistake: the claim hides nothing from the others.
ClaimUnhidden(w) ==
  /\ pc[w] = "idle" /\ Due # {}
  /\ \E c \in Due :
       /\ attempts' = [attempts EXCEPT ![c] = @ + 1]
       /\ queue' = [queue EXCEPT ![w] = {[id |-> c, attempt |-> attempts'[c]]}]
  /\ elapsed' = [elapsed EXCEPT ![w] = 0]
  /\ Goto(w, "loop")
  /\ UNCHANGED <<status, wait, cur, busy, history>>

\* Mistake: rows at the limit are no longer claimed, not even to be failed.
ClaimBelowLimit(w) ==
  /\ pc[w] = "idle"
  /\ \E c \in Due :
       /\ attempts[c] < scene.maxAttempts
       /\ attempts' = [attempts EXCEPT ![c] = @ + 1]
       /\ wait' = [wait EXCEPT ![c] = Lease]
       /\ queue' = [queue EXCEPT ![w] = {[id |-> c, attempt |-> attempts'[c]]}]
  /\ elapsed' = [elapsed EXCEPT ![w] = 0]
  /\ Goto(w, "loop")
  /\ UNCHANGED <<status, cur, busy, history>>

\* ClaimPendingContacts: up to BatchSize due rows, in an order left open.
\* The attempt is counted and the row hidden before anything is sent.
ClaimPending(w) ==
  /\ pc[w] = "idle" /\ Due # {}
  /\ \E batch \in SUBSET Due :
       /\ Cardinality(batch) = Lesser(BatchSize, Cardinality(Due))
       /\ attempts' = [c \in Contact |-> attempts[c] + IF c \in batch THEN 1 ELSE 0]
       /\ wait' = [c \in Contact |-> IF c \in batch THEN Lease ELSE wait[c]]
       /\ queue' = [queue EXCEPT ![w] = {[id |-> c, attempt |-> attempts'[c]] : c \in batch}]
  /\ elapsed' = [elapsed EXCEPT ![w] = 0]
  /\ Goto(w, "loop")
  /\ UNCHANGED <<status, cur, busy, history>>

\* Mistake: no budget.
StartSendAnyway(w) ==
  /\ pc[w] = "loop"
  /\ \E m \in queue[w] :
       /\ cur' = [cur EXCEPT ![w] = m]
       /\ queue' = [queue EXCEPT ![w] = @ \ {m}]
  /\ busy' = [busy EXCEPT ![w] = 0]
  /\ Goto(w, "sending")
  /\ UNCHANGED <<table, elapsed, history>>

\* The next message, unless the lease budget is used up.
StartSend(w) ==
  /\ pc[w] = "loop" /\ elapsed[w] < Budget
  /\ \E m \in queue[w] :
       /\ cur' = [cur EXCEPT ![w] = m]
       /\ queue' = [queue EXCEPT ![w] = @ \ {m}]
  /\ busy' = [busy EXCEPT ![w] = 0]
  /\ Goto(w, "sending")
  /\ UNCHANGED <<table, elapsed, history>>

\* The round is over; rows not handled wait for their lease to lapse.
EndRound(w) ==
  /\ pc[w] = "loop" /\ (queue[w] = {} \/ elapsed[w] >= Budget)
  /\ Goto(w, "idle")
  /\ queue' = [queue EXCEPT ![w] = {}]
  /\ UNCHANGED <<table, cur, elapsed, busy, history>>

\* Mistake: the auto reply goes out before the row is marked.
SendThenReply(w) ==
  /\ pc[w] = "sending"
  /\ delivered' = [delivered EXCEPT ![cur[w].id] = @ + 1]
  /\ replies' = Count(replies, cur[w].id, cur[w].id \in Replying)
  /\ Goto(w, "mark")
  /\ UNCHANGED <<scene, table, queue, cur, elapsed, busy, crashes, unconfirmed>>

\* Send succeeds, ...
Send(w) ==
  /\ pc[w] = "sending"
  /\ delivered' = [delivered EXCEPT ![cur[w].id] = @ + 1]
  /\ Goto(w, "mark")
  /\ UNCHANGED <<scene, table, queue, cur, elapsed, busy, crashes, unconfirmed, replies>>

\* ... or fails, before or after the server took the mail.
SendFails(w) ==
  /\ pc[w] = "sending"
  /\ \E taken \in BOOLEAN :
       /\ delivered' = Count(delivered, cur[w].id, taken)
       /\ unconfirmed' = Count(unconfirmed, cur[w].id, taken)
  /\ Goto(w, "record")
  /\ UNCHANGED <<scene, table, queue, cur, elapsed, busy, crashes, replies>>

\* MarkContactSent, WHERE status = 'pending': no row is no error, and the
\* auto reply follows in either case.
MarkSent(w) ==
  /\ pc[w] = "mark"
  /\ status' = IF status[cur[w].id] = "pending"
               THEN [status EXCEPT ![cur[w].id] = "sent"] ELSE status
  /\ busy' = [busy EXCEPT ![w] = 0]
  /\ Goto(w, IF cur[w].id \in Replying THEN "reply" ELSE "loop")
  /\ UNCHANGED <<attempts, wait, queue, cur, elapsed, history>>

\* sendAutoReply: sent or not, the round goes on.
SendAutoReply(w) ==
  /\ pc[w] = "reply"
  /\ \E ok \in BOOLEAN : replies' = Count(replies, cur[w].id, ok)
  /\ Goto(w, "loop")
  /\ UNCHANGED <<scene, table, queue, cur, elapsed, busy, crashes, delivered, unconfirmed>>

\* Mistake: FailContact without status = 'pending'.
FailAnyStatus(w) ==
  /\ pc[w] = "record" /\ cur[w].attempt >= scene.maxAttempts
  /\ status' = [status EXCEPT ![cur[w].id] = "failed"]
  /\ Goto(w, "loop")
  /\ UNCHANGED <<attempts, wait, queue, cur, elapsed, busy, history>>

\* Mistake: the last attempt is one too early.
FailEarly(w) ==
  /\ pc[w] = "record" /\ cur[w].attempt + 1 >= scene.maxAttempts
  /\ status' = [status EXCEPT ![cur[w].id] = "failed"]
  /\ Goto(w, "loop")
  /\ UNCHANGED <<attempts, wait, queue, cur, elapsed, busy, history>>

\* recordFailure with FailContact ...
Fail(w) ==
  /\ pc[w] = "record" /\ cur[w].attempt >= scene.maxAttempts
  /\ status' = IF status[cur[w].id] = "pending"
               THEN [status EXCEPT ![cur[w].id] = "failed"] ELSE status
  /\ Goto(w, "loop")
  /\ UNCHANGED <<attempts, wait, queue, cur, elapsed, busy, history>>

\* ... or RescheduleContact.
Reschedule(w) ==
  /\ pc[w] = "record" /\ cur[w].attempt < scene.maxAttempts
  /\ wait' = IF status[cur[w].id] = "pending"
             THEN [wait EXCEPT ![cur[w].id] = Backoff(cur[w].attempt)] ELSE wait
  /\ Goto(w, "loop")
  /\ UNCHANGED <<status, attempts, queue, cur, elapsed, busy, history>>

-----------------------------------------------------------------------------
(* Faults and time.                                                        *)

\* The process dies, is shut down between two messages, or the database
\* fails while an outcome is written: Dispatch returns, and what it had
\* claimed stays as it is.
Crash(w) ==
  /\ pc[w] # "idle" /\ crashes < scene.maxCrashes
  /\ crashes' = crashes + 1
  /\ \E taken \in BOOLEAN :
       /\ taken => pc[w] = "sending"
       /\ delivered' = Count(delivered, cur[w].id, taken)
       /\ unconfirmed' = Count(unconfirmed, cur[w].id, taken \/ pc[w] = "mark")
  /\ Goto(w, "idle")
  /\ queue' = [queue EXCEPT ![w] = {}]
  /\ UNCHANGED <<scene, table, cur, elapsed, busy, replies>>

InSmtp(w) == pc[w] \in {"sending", "reply"}

Tick ==
  /\ \A w \in Worker : pc[w] = "idle" \/ (InSmtp(w) /\ busy[w] < scene.sendMax)
  /\ wait' = [c \in Contact |-> IF wait[c] = 0 THEN 0 ELSE wait[c] - 1]
  /\ elapsed' = [w \in Worker |-> IF InSmtp(w) THEN Lesser(elapsed[w] + 1, Lease)
                                               ELSE 0]
  /\ busy' = [w \in Worker |-> IF InSmtp(w) THEN busy[w] + 1 ELSE 0]
  /\ UNCHANGED <<status, attempts, pc, queue, cur, history>>

-----------------------------------------------------------------------------
Work(w) ==
  \/ ClaimPending(w)
  \/ StartSend(w)
  \/ EndRound(w)
  \/ Send(w)
  \/ SendFails(w)
  \/ MarkSent(w)
  \/ SendAutoReply(w)
  \/ Fail(w)
  \/ Reschedule(w)

Next ==
  \/ \E c \in Contact : Save(c)
  \/ \E w \in Worker : Work(w) \/ Crash(w)
  \/ Tick

Spec == Init /\ [][Next]_vars

\* The scheduler of each replica runs its worker again and again.
FairSpec == Spec /\ WF_vars(Tick) /\ \A w \in Worker : WF_vars(Work(w))

-----------------------------------------------------------------------------
(* Properties.                                                             *)

Message == [id : Contact, attempt : Nat]

TypeOK ==
  /\ status \in [Contact -> {"none", "pending", "sent", "failed"}]
  /\ attempts \in [Contact -> Nat]
  /\ wait \in [Contact -> (0 .. Lease) \cup (0 .. MaxBackoff)]
  /\ pc \in [Worker -> {"idle", "loop", "sending", "mark", "reply", "record"}]
  /\ queue \in [Worker -> SUBSET Message]
  /\ cur \in [Worker -> Message]
  /\ elapsed \in [Worker -> 0 .. Lease]
  /\ busy \in [Worker -> 0 .. scene.sendMax]
  /\ crashes \in 0 .. scene.maxCrashes
  /\ delivered \in [Contact -> Nat]
  /\ unconfirmed \in [Contact -> Nat]
  /\ replies \in [Contact -> Nat]

\* A connection takes no longer than the quarter of the lease that the
\* budget keeps back.
LeaseFits == 4 * scene.sendMax <= Lease

\* No two replicas send the same message at the same time, as long as a
\* connection fits into what the budget leaves of the lease: neither the
\* batch nor the auto replies between the messages can use it up.
ExclusiveSend ==
  LeaseFits => \A v, w \in Worker :
    v # w /\ pc[v] = "sending" /\ pc[w] = "sending" => cur[v].id # cur[w].id

\* At least once, and no more often than faults explain: a second mail needs
\* a first one whose success no worker could record.
DuplicatesExplained ==
  LeaseFits => \A c \in Contact : delivered[c] <= 1 + unconfirmed[c]

\* A message marked as sent was delivered, and one given up had all its
\* attempts: no interleaving of stale workers loses a message early.
NothingLost ==
  \A c \in Contact :
    /\ status[c] = "sent" => delivered[c] > 0
    /\ status[c] = "failed" => attempts[c] >= scene.maxAttempts

\* A visitor gets one auto reply at most, and only for a message that is
\* recorded as sent to the operators.
OneReply ==
  LeaseFits => \A c \in Contact :
    /\ replies[c] <= 1
    /\ replies[c] = 1 => status[c] = "sent"

\* A worker whose lease has lapsed cannot change an outcome another worker
\* has recorded.
OutcomeStays ==
  [][\A c \in Contact : status[c] \in {"sent", "failed"} =>
       status'[c] = status[c]]_vars

Mailbox == INSTANCE ContactMailbox
  WITH exact <- LeaseFits, limit <- scene.maxAttempts, outcome <- status,
       tries <- attempts, mails <- delivered, lost <- unconfirmed

\* Replicas, leases and crashes implement the mailbox of a single worker
\* that settles every message once: exactly, while connections fit their
\* lease, and without a loss in any case.
ImplementsMailbox == Mailbox!Spec

\* Every message received is sent or given up, whatever crashes there are,
\* as long as they end.
Settled == \A c \in Contact : status[c] = "pending" ~> status[c] \in {"sent", "failed"}

\* ContactRepository.ClaimPending: a row that crashes its worker again and
\* again reaches the limit and is given up too.
CutOffAtLimit == \A c \in Contact : attempts[c] <= scene.maxAttempts

=============================================================================
