--------------------------- MODULE ContactMailbox ---------------------------
(***************************************************************************)
(* What the sending of contact messages promises, and what ContactDispatch *)
(* is shown to implement: no replicas, leases or clocks.  A message is     *)
(* mailed as often as that takes, and settled once.                        *)
(*                                                                         *)
(* As long as leases hold (exact), a message is mailed only while it is    *)
(* open and no mail of it is known to have arrived, and each reply follows *)
(* the record of its message.  Without, mails and replies may be too many, *)
(* but never too few.                                                      *)
(***************************************************************************)
EXTENDS Naturals

CONSTANT Contact

VARIABLES
  exact,    \* leases hold in this behaviour
  limit,    \* tries before a message is given up
  outcome,  \* "none", "pending", "sent" or "failed"
  tries,    \* how often it was taken up
  mails,    \* mails that arrived
  lost,     \* of these, those nobody knows of
  replies   \* replies that went out

mailbox == <<outcome, tries, mails, lost, replies>>
mailboxVars == <<exact, limit, mailbox>>

Init ==
  /\ exact \in BOOLEAN /\ limit \in Nat \ {0}
  /\ outcome = [c \in Contact |-> "none"]
  /\ tries = [c \in Contact |-> 0]
  /\ mails = [c \in Contact |-> 0]
  /\ lost = [c \in Contact |-> 0]
  /\ replies = [c \in Contact |-> 0]

Open(c) == outcome[c] = "pending"
Arrived(c) == mails[c] = lost[c] + 1
Unarrived(c) == mails[c] = lost[c]

Receive(c) ==
  /\ outcome[c] = "none"
  /\ outcome' = [outcome EXCEPT ![c] = "pending"]
  /\ UNCHANGED <<tries, mails, lost, replies>>

\* Several messages are taken up at once.
TakeUp(batch) ==
  /\ \A c \in batch : Open(c)
  /\ tries' = [c \in Contact |-> tries[c] + IF c \in batch THEN 1 ELSE 0]
  /\ UNCHANGED <<outcome, mails, lost, replies>>

\* A mail arrives, and this is known for now or not at all.
Mail(c) ==
  /\ tries[c] > 0
  /\ exact => Open(c) /\ Unarrived(c)
  /\ mails' = [mails EXCEPT ![c] = @ + 1]
  /\ lost' \in {lost, [lost EXCEPT ![c] = @ + 1]}
  /\ UNCHANGED <<outcome, tries, replies>>

\* Who knew of the mail dies.
Forget(c) ==
  /\ mails[c] > 0
  /\ exact => Open(c) /\ Arrived(c)
  /\ lost' = [lost EXCEPT ![c] = @ + 1]
  /\ UNCHANGED <<outcome, tries, mails, replies>>

Settle(c, o) ==
  /\ Open(c)
  /\ outcome' = [outcome EXCEPT ![c] = o]
  /\ UNCHANGED <<tries, mails, lost, replies>>

Sent(c) ==
  /\ mails[c] > 0 /\ (exact => Arrived(c))
  /\ Settle(c, "sent")

\* Without a lease a mail may have arrived after all.
GiveUp(c) ==
  /\ tries[c] >= limit /\ (exact => Unarrived(c))
  /\ Settle(c, "failed")

Reply(c) ==
  /\ mails[c] > 0
  /\ exact => outcome[c] = "sent" /\ replies[c] = 0
  /\ replies' = [replies EXCEPT ![c] = @ + 1]
  /\ UNCHANGED <<outcome, tries, mails, lost>>

Next ==
  /\ \/ \E batch \in SUBSET Contact : TakeUp(batch)
     \/ \E c \in Contact : Receive(c) \/ Mail(c) \/ Forget(c) \/ Sent(c) \/ GiveUp(c) \/ Reply(c)
  /\ UNCHANGED <<exact, limit>>

Spec == Init /\ [][Next]_mailboxVars
=============================================================================
