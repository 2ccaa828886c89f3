------------------------ MODULE CommentPostingProofs ------------------------
(***************************************************************************)
(* Theorems about CommentPosting, for any number of requests, threads and  *)
(* keys, in every mode.                                                    *)
(***************************************************************************)
EXTENDS CommentPosting, TLAPS

(* The numbers a request has in hand: everything below them is taken.      *)
Reached(r, n) == n \in Nat \ {0} /\ 1 .. (n - 1) \subseteq Used(ThreadOf[r])

\* Used is an initial segment of the naturals.
Segments == \A t \in Thread : \E n \in Nat : Used(t) = 1 .. n

\* Whatever a pending attempt holds, its number is at most the next one.
NumbersInHand ==
  \A r \in Request :
    /\ pc[r] \in {"insert", "inserted", "recorded"} => Reached(r, seq[r])
    /\ pc[r] \in InTx /\ mode = "ssi" /\ Keyed(r) => Reached(r, snap[r].next)

\* The unique index: an uncommitted entry clashes with no other.
EntriesFree ==
  \A r \in Request : HoldsEntry(r) =>
    /\ seq[r] \notin Used(ThreadOf[r])
    /\ ~EntryBusy(r)

NumberInv ==
  TypeOK /\ SeqUnique /\ Segments /\ NumbersInHand /\ EntriesFree

\* MAX(seq) + 1 over an initial segment 1..n is n + 1, for n = 0 too.
LEMMA NextSeqIsNext ==
  ASSUME NEW t, NEW n \in Nat, Used(t) = 1 .. n
  PROVE  NextSeq(t) = n + 1
<1>1. CASE n = 0
  BY <1>1, 1 .. 0 = {} DEF NextSeq
<1>2. CASE n > 0
  <2>1. Used(t) # {} /\ n \in Used(t) /\ \A y \in Used(t) : n >= y
    BY <1>2
  <2>2. Max(Used(t)) = n
    BY <2>1 DEF Max
  <2> QED BY <2>1, <2>2 DEF NextSeq
<1> QED BY <1>1, <1>2

-----------------------------------------------------------------------------
(* Types.                                                                  *)

\* What a snapshot shows of the thread and the key is well typed, and its
\* next number has every smaller one in use.
LEMMA ViewType ==
  ASSUME NumberInv, NEW r \in Request
  PROVE  /\ Reached(r, NextSeq(ThreadOf[r]))
         /\ View(r) \in [alive : BOOLEAN, next : Nat, key : Records]
         /\ View(r).next = NextSeq(ThreadOf[r])
<1>1. ThreadOf[r] \in Thread
  BY RequestAssumption
<1>2. PICK n \in Nat : Used(ThreadOf[r]) = 1 .. n
  BY <1>1 DEF NumberInv, Segments
<1>3. NextSeq(ThreadOf[r]) = n + 1
  BY <1>2, NextSeqIsNext
<1>4. Keyed(r) => keys[KeyOf[r]] \in Records
  BY RequestAssumption DEF NumberInv, TypeOK, Keyed
<1>5. View(r).key \in Records
  BY <1>4 DEF View, Records
<1> QED BY <1>2, <1>3, <1>5 DEF View, Reached

\* Answering a request keeps its place and its answer well typed.
LEMMA ReplyType ==
  ASSUME TypeOK, NEW r \in Request, NEW tag \in Tags, NEW n \in Nat,
         Reply(r, tag, n)
  PROVE  pc' \in [Request -> Pcs] /\ answer' \in [Request -> [tag : Tags, seq : Nat]]
<1>1. [tag |-> tag, seq |-> n] \in [tag : Tags, seq : Nat]
  OBVIOUS
<1>2. "done" \in Pcs
  BY DEF Pcs
<1> QED BY <1>1, <1>2 DEF Reply, Goto, TypeOK

\* Giving up or starting the next attempt keeps the types, and the attempts
\* within their limit.
LEMMA GiveUpOrRetryType ==
  ASSUME TypeOK, NEW r \in Request, NEW b \in BOOLEAN, GiveUpOrRetry(r, b)
  PROVE  TypeOK'
<1>1. CASE attempt[r] < Attempts /\ Goto(r, "begin")
  <2>1. Attempts \in Nat /\ Attempts <= MaxAttempts /\ MaxAttempts \in Nat
    BY AttemptsAssumption DEF Attempts
  <2>2. NoView \in [alive : BOOLEAN, next : Nat, key : Records]
    BY DEF NoView, Records
  <2>3. attempt[r] + 1 \in 0 .. MaxAttempts
    BY <1>1, <2>1 DEF TypeOK
  <2>4. UNCHANGED <<rows, born>>
    BY DEF GiveUpOrRetry
  <2>5. ~(Goto(r, "done"))
    BY <1>1 DEF Goto, TypeOK
  <2>6. /\ attempt' = [attempt EXCEPT ![r] = @ + 1]
        /\ seq' = [seq EXCEPT ![r] = 0]
        /\ snap' = [snap EXCEPT ![r] = NoView]
        /\ UNCHANGED answer
    BY <2>5 DEF GiveUpOrRetry, Reply
  <2>7. pc' \in [Request -> Pcs]
    BY <1>1 DEF TypeOK, Goto, Pcs
  <2>8. attempt' \in [Request -> 0 .. MaxAttempts] /\ seq' \in [Request -> Nat]
    BY <2>3, <2>6 DEF TypeOK
  <2>9. snap' \in [Request -> [alive : BOOLEAN, next : Nat, key : Records]]
    BY <2>2, <2>6 DEF TypeOK
  <2> QED BY <2>4, <2>6, <2>7, <2>8, <2>9 DEF TypeOK, rows
<1>2. CASE \E tag \in {"conflict", "internal"} : Reply(r, tag, 0)
  <2>1. {"conflict", "internal"} \subseteq Tags
    BY DEF Tags
  <2>2. pc' \in [Request -> Pcs] /\ answer' \in [Request -> [tag : Tags, seq : Nat]]
    BY <1>2, <2>1, ReplyType
  <2>3. ~Goto(r, "begin")
    <3>1. pc'[r] = "done"
      BY <1>2 DEF Reply, Goto, TypeOK
    <3> QED BY <3>1 DEF Goto, TypeOK
  <2> QED BY <2>2, <2>3 DEF TypeOK, GiveUpOrRetry, rows
<1> QED BY <1>1, <1>2 DEF GiveUpOrRetry

\* Every step of the handlers, the failures and the deletions keeps the types.
LEMMA TypeStep ==
  ASSUME NumberInv, Next
  PROVE  TypeOK'
<1> USE DEF Goto, rows, Pcs, InTx
<1>0. TypeOK /\ MaxAttempts \in Nat \ {0}
  BY AttemptsAssumption DEF NumberInv
<1>R. ASSUME NEW r \in Request, NEW tag \in Tags, NEW n \in Nat, Reply(r, tag, n),
             UNCHANGED <<rows, attempt, seq, snap, born>>
      PROVE  TypeOK'
  BY <1>0, <1>R, ReplyType DEF TypeOK
<1>T. {"created", "replayed", "conflict", "not_found", "mismatch", "incomplete",
       "internal"} \subseteq Tags
  BY DEF Tags
<1>1. ASSUME NEW r \in Request, Arrive(r) PROVE TypeOK'
  BY <1>0, <1>1 DEF TypeOK, Arrive, CommentsOf
<1>2. ASSUME NEW r \in Request, BeginClaim(r) PROVE TypeOK'
  <2>1. View(r) \in [alive : BOOLEAN, next : Nat, key : Records]
    BY ViewType
  <2>2. NoView \in [alive : BOOLEAN, next : Nat, key : Records]
    BY DEF NoView, Records
  <2> QED BY <1>0, <1>2, <2>1, <2>2 DEF TypeOK, BeginClaim
<1>3. ASSUME NEW r \in Request, Claim(r) PROVE TypeOK'
  <2>1. CASE GiveUpOrRetry(r, TRUE)
    BY <1>0, <2>1, GiveUpOrRetryType
  <2>2. CASE ~GiveUpOrRetry(r, TRUE)
    BY <1>0, <1>3, <2>2 DEF TypeOK, Claim
  <2> QED BY <2>1, <2>2
<1>4. ASSUME NEW r \in Request, Replay(r) PROVE TypeOK'
  <2>1. /\ ViewOf(r).key \in Records
        /\ ViewOf(r).key # NoRecord => ViewOf(r).key.seq \in Nat
    BY <1>0, ViewType DEF ViewOf, TypeOK, Records
  <2> QED BY <1>4, <1>R, <1>T, <2>1 DEF Replay
<1>5. ASSUME NEW r \in Request, ReadInOneSnapshot(r) PROVE TypeOK'
  <2>1. ViewOf(r).next \in Nat
    BY <1>0, ViewType DEF ViewOf, TypeOK
  <2> QED
    BY <1>0, <1>5, <1>R, <1>T, <2>1
       DEF TypeOK, ReadInOneSnapshot, ReadNumber, ThreadGone
<1>6. ASSUME NEW r \in Request, EnsureThreadAlive(r) PROVE TypeOK'
  BY <1>0, <1>6, <1>R, <1>T DEF TypeOK, EnsureThreadAlive, ThreadGone
<1>7. ASSUME NEW r \in Request, NextCommentSeq(r) PROVE TypeOK'
  <2>1. NextSeq(ThreadOf[r]) \in Nat
    BY ViewType DEF Reached
  <2> QED BY <1>0, <1>7, <2>1 DEF TypeOK, NextCommentSeq, ReadNumber
<1>8. ASSUME NEW r \in Request, Insert(r) PROVE TypeOK'
  <2>1. CASE GiveUpOrRetry(r, RetriesConflict(r))
    <3>1. RetriesConflict(r) \in BOOLEAN
      BY DEF RetriesConflict, Keyed
    <3> QED BY <1>0, <2>1, <3>1, GiveUpOrRetryType
  <2>2. CASE /\ Goto(r, "inserted")
             /\ UNCHANGED <<rows, attempt, seq, snap, answer, born>>
    BY <1>0, <2>2 DEF TypeOK
  <2> QED BY <1>8, <2>1, <2>2 DEF Insert
<1>9. ASSUME NEW r \in Request, Complete(r) PROVE TypeOK'
  BY <1>0, <1>9 DEF TypeOK, Complete
<1>10. ASSUME NEW r \in Request, Commit(r) PROVE TypeOK'
  <2>1. [req |-> r, seq |-> seq[r]] \in [req : Request, seq : Nat]
    BY <1>0 DEF TypeOK
  <2>2. [req |-> r, seq |-> seq[r], done |-> pc[r] = "recorded"] \in Records
    BY <1>0 DEF TypeOK, Records
  <2>3. keys' \in [Key -> Records]
    BY <1>0, <1>10, <2>2, RequestAssumption DEF TypeOK, Commit, Keyed
  <2>4. pc' \in [Request -> Pcs] /\ answer' \in [Request -> [tag : Tags, seq : Nat]]
    BY <1>0, <1>10, <1>T, ReplyType DEF Commit, TypeOK
  <2> QED BY <1>0, <1>10, <2>1, <2>3, <2>4 DEF TypeOK, Commit
<1>11. ASSUME NEW r \in Request, Suffer(r) PROVE TypeOK'
  <2>1. CASE SerializationFailure(r)
    BY <1>0, <2>1, GiveUpOrRetryType DEF SerializationFailure
  <2>2. CASE ClaimTimeout(r) \/ Abandon(r)
    BY <2>2, <1>R, <1>T DEF ClaimTimeout, Abandon
  <2> QED BY <1>11, <2>1, <2>2 DEF Suffer
<1>12. ASSUME NEW t \in Thread, DeleteThread(t) PROVE TypeOK'
  BY <1>0, <1>12 DEF TypeOK, DeleteThread
<1>13. ASSUME NEW c \in comments, DeleteComment(c) PROVE TypeOK'
  BY <1>0, <1>13 DEF TypeOK, DeleteComment
<1>14. ASSUME NEW k \in Key, ExpireKey(k) PROVE TypeOK'
  <2>1. keys[k] \in [req : Request, seq : Nat, done : BOOLEAN]
    BY <1>0, <1>14 DEF TypeOK, ExpireKey, Records
  <2> QED BY <1>0, <1>14, <2>1 DEF TypeOK, ExpireKey, Records
<1>15. CASE Finished
  BY <1>0, <1>15 DEF TypeOK, Finished, vars
<1> QED
  BY <1>1, <1>2, <1>3, <1>4, <1>5, <1>6, <1>7, <1>8, <1>9, <1>10, <1>11,
     <1>12, <1>13, <1>14, <1>15 DEF Next, Proceed

-----------------------------------------------------------------------------
(* Numbers.                                                                *)

\* What a step that commits nothing owes the invariant, for the request r
\* that takes it.
Owes(r) ==
  /\ \A o \in Request \ {r} :
       pc'[o] = pc[o] /\ seq'[o] = seq[o] /\ snap'[o] = snap[o]
  /\ pc'[r] \in {"insert", "inserted", "recorded"} => Reached(r, seq'[r])
  /\ pc'[r] \in InTx /\ mode = "ssi" /\ Keyed(r) => Reached(r, snap'[r].next)
  /\ pc'[r] \in {"inserted", "recorded"} =>
       /\ seq'[r] \notin Used(ThreadOf[r])
       /\ \A o \in Request \ {r} :
            ~(ThreadOf[o] = ThreadOf[r] /\ seq[o] = seq'[r] /\ HoldsEntry(o))

\* A step that commits nothing and leaves the number of its request free and
\* reached keeps the invariant: the other requests see the same rows.
LEMMA UncommittedStep ==
  ASSUME NumberInv, TypeOK', UNCHANGED <<comments, mode>>, NEW r \in Request, Owes(r)
  PROVE  NumberInv'
<1>1. \A t \in Thread : Used(t)' = Used(t)
  BY DEF Used, CommentsOf
<1>2. \A o \in Request : ThreadOf[o] \in Thread /\ Used(ThreadOf[o])' = Used(ThreadOf[o])
  BY <1>1, RequestAssumption
<1>3. SeqUnique' /\ Segments'
  BY <1>1 DEF NumberInv, SeqUnique, Segments
<1>4. NumbersInHand'
  BY <1>2 DEF NumberInv, NumbersInHand, Owes, Reached, InTx, Keyed
<1>5. EntriesFree'
  <2> SUFFICES ASSUME NEW o \in Request, HoldsEntry(o)'
               PROVE  seq'[o] \notin Used(ThreadOf[o]) /\ ~EntryBusy(o)'
    BY <1>2 DEF EntriesFree
  <2>1. CASE o = r
    BY <2>1 DEF Owes, HoldsEntry, EntryBusy
  <2>2. CASE o # r
    <3>1. HoldsEntry(o) /\ seq'[o] = seq[o]
      BY <2>2 DEF Owes, HoldsEntry
    <3>2. seq[o] \notin Used(ThreadOf[o]) /\ ~EntryBusy(o)
      BY <3>1 DEF NumberInv, EntriesFree
    <3>3. ASSUME NEW q \in Request \ {o}, ThreadOf[q] = ThreadOf[o],
                 seq'[q] = seq'[o], HoldsEntry(q)'
          PROVE  FALSE
      BY <2>2, <3>1, <3>2, <3>3 DEF Owes, HoldsEntry, EntryBusy
    <3> QED BY <3>1, <3>2, <3>3 DEF EntryBusy
  <2> QED BY <2>1, <2>2
<1> QED BY <1>3, <1>4, <1>5 DEF NumberInv

\* Giving up or retrying drops the number a request had in hand.
LEMMA GiveUpOrRetryOwes ==
  ASSUME NumberInv, NEW r \in Request, NEW b, GiveUpOrRetry(r, b)
  PROVE  UNCHANGED <<comments, mode>> /\ Owes(r)
<1>1. UNCHANGED <<comments, mode>>
  BY DEF GiveUpOrRetry, rows
<1>2. pc'[r] \in {"begin", "done"} /\ \A o \in Request \ {r} : pc'[o] = pc[o]
  BY DEF NumberInv, TypeOK, GiveUpOrRetry, Goto, Reply
<1>3. \A o \in Request \ {r} : seq'[o] = seq[o] /\ snap'[o] = snap[o]
  BY DEF NumberInv, TypeOK, GiveUpOrRetry
<1> QED BY <1>1, <1>2, <1>3 DEF Owes, InTx

\* So does an answer.
LEMMA ReplyOwes ==
  ASSUME NumberInv, NEW r \in Request, NEW tag, NEW n, Reply(r, tag, n),
         UNCHANGED <<seq, snap>>
  PROVE  Owes(r)
BY DEF NumberInv, TypeOK, Reply, Goto, Owes, InTx

\* A number that was read has every smaller one in use.
LEMMA ReadNumberOwes ==
  ASSUME NumberInv, NEW r \in Request, NEW n, ReadNumber(r, n), Reached(r, n),
         pc[r] \in InTx \/ ~Keyed(r)
  PROVE  Owes(r)
BY DEF NumberInv, TypeOK, NumbersInHand, ReadNumber, Goto, Owes, InTx

\* A commit extends the numbers of its thread by the next one, and its entry
\* in the index clashes with none in hand.
LEMMA CommitStep ==
  ASSUME NumberInv, TypeOK', NEW r \in Request, Commit(r)
  PROVE  NumberInv'
<1> DEFINE t == ThreadOf[r]
           new == [req |-> r, seq |-> seq[r]]
<1>1. /\ t \in Thread /\ HoldsEntry(r) /\ Reached(r, seq[r])
      /\ seq[r] \notin Used(t) /\ ~EntryBusy(r)
  BY RequestAssumption
     DEF NumberInv, NumbersInHand, EntriesFree, Commit, HoldsEntry
<1>2. comments' = comments \cup {new} /\ UNCHANGED <<mode, seq, snap>>
  BY DEF Commit
<1>3. pc' = [pc EXCEPT ![r] = "done"]
  BY DEF Commit, Reply, Goto
<1>4. Used(t)' = Used(t) \cup {seq[r]}
  <2>1. CommentsOf(t)' = CommentsOf(t) \cup {new}
    BY <1>2 DEF CommentsOf
  <2>2. new.seq = seq[r]
    OBVIOUS
  <2> HIDE DEF new
  <2> QED BY <2>1, <2>2 DEF Used
<1>5. \A u \in Thread \ {t} : Used(u)' = Used(u)
  BY <1>2 DEF Used, CommentsOf
<1>6. SeqUnique'
  <2>1. \A c \in comments : ThreadOf[c.req] = t => c.seq # seq[r]
    BY <1>1 DEF Used, CommentsOf
  <2> QED BY <1>2, <2>1 DEF NumberInv, SeqUnique
<1>7. Segments'
  <2>1. PICK n \in Nat : Used(t) = 1 .. n
    BY <1>1 DEF NumberInv, Segments
  <2>2. seq[r] = n + 1
    BY <1>1, <2>1 DEF Reached
  <2>3. Used(t)' = 1 .. (n + 1)
    BY <1>4, <2>1, <2>2
  <2> QED BY <1>5, <2>1, <2>3 DEF NumberInv, Segments
<1>8. \A o \in Request : Used(ThreadOf[o]) \subseteq Used(ThreadOf[o])'
  BY <1>4, <1>5, RequestAssumption
<1>9. \A o \in Request \ {r} : pc'[o] = pc[o]
  BY <1>3 DEF NumberInv, TypeOK
<1>10. pc'[r] = "done"
  BY <1>3 DEF NumberInv, TypeOK
<1>11. NumbersInHand'
  BY <1>2, <1>8, <1>9, <1>10
     DEF NumberInv, NumbersInHand, Reached, InTx, Keyed
<1>12. EntriesFree'
  <2> SUFFICES ASSUME NEW o \in Request, HoldsEntry(o)'
               PROVE  seq'[o] \notin Used(ThreadOf[o])' /\ ~EntryBusy(o)'
    BY DEF EntriesFree
  <2>1. o # r /\ HoldsEntry(o)
    BY <1>9, <1>10 DEF HoldsEntry
  <2>2. seq[o] \notin Used(ThreadOf[o]) /\ ~EntryBusy(o)
    BY <2>1 DEF NumberInv, EntriesFree
  <2>3. ThreadOf[o] = t => seq[o] # seq[r]
    BY <1>1, <2>1 DEF EntryBusy
  <2>4. seq'[o] \notin Used(ThreadOf[o])'
    BY <1>2, <1>4, <1>5, <2>2, <2>3, RequestAssumption
  <2>5. ~EntryBusy(o)'
    BY <1>2, <1>9, <1>10, <2>2 DEF EntryBusy, HoldsEntry
  <2> QED BY <2>4, <2>5
<1> QED BY <1>6, <1>7, <1>11, <1>12 DEF NumberInv

\* Every step keeps the invariant on numbers.
LEMMA NumberStep ==
  ASSUME NumberInv, Next
  PROVE  NumberInv'
<1>0. TypeOK /\ TypeOK'
  BY TypeStep DEF NumberInv
<1>1. SUFFICES ASSUME ~ \E r \in Request : Commit(r)
               PROVE  NumberInv'
  BY <1>0, CommitStep
<1>2. SUFFICES ASSUME TRUE
               PROVE  UNCHANGED <<comments, mode>> /\ \E r \in Request : Owes(r)
  BY <1>0, UncommittedStep
<1>3. ASSUME NEW r \in Request, Arrive(r)
      PROVE  UNCHANGED <<comments, mode>> /\ Owes(r)
  BY <1>0, <1>3 DEF TypeOK, Arrive, Goto, rows, Owes, InTx
<1>4. ASSUME NEW r \in Request, BeginClaim(r)
      PROVE  UNCHANGED <<comments, mode>> /\ Owes(r)
  <2>1. mode = "ssi" => Reached(r, snap'[r].next)
    BY <1>0, <1>4, ViewType DEF TypeOK, BeginClaim
  <2> QED BY <1>0, <1>4, <2>1 DEF TypeOK, BeginClaim, Goto, rows, Owes
<1>5. ASSUME NEW r \in Request, Claim(r)
      PROVE  UNCHANGED <<comments, mode>> /\ Owes(r)
  <2>1. CASE GiveUpOrRetry(r, TRUE)
    BY <2>1, GiveUpOrRetryOwes
  <2>2. CASE /\ Goto(r, "claimed") \/ Goto(r, "replay")
             /\ UNCHANGED <<rows, attempt, seq, snap, answer, born>>
    BY <1>0, <1>5, <2>2
       DEF NumberInv, NumbersInHand, TypeOK, Claim, Goto, rows, Owes, InTx
  <2> QED BY <1>5, <2>1, <2>2 DEF Claim
<1>6. ASSUME NEW r \in Request, Replay(r)
      PROVE  UNCHANGED <<comments, mode>> /\ Owes(r)
  BY <1>6, ReplyOwes DEF Replay, rows
<1>7. ASSUME NEW r \in Request, ReadInOneSnapshot(r)
      PROVE  UNCHANGED <<comments, mode>> /\ Owes(r)
  <2>1. CASE ThreadGone(r)
    BY <2>1, ReplyOwes DEF ThreadGone, rows
  <2>2. CASE ReadNumber(r, ViewOf(r).next)
    <3>1. pc[r] \in InTx \/ ~Keyed(r)
      BY <1>7 DEF ReadInOneSnapshot, AtInsertion, InTx
    <3>2. Reached(r, ViewOf(r).next)
      BY <3>1, ViewType DEF NumberInv, NumbersInHand, ViewOf
    <3> QED BY <2>2, <3>1, <3>2, ReadNumberOwes DEF ReadNumber, rows
  <2> QED BY <1>7, <2>1, <2>2 DEF ReadInOneSnapshot
<1>8. ASSUME NEW r \in Request, EnsureThreadAlive(r)
      PROVE  UNCHANGED <<comments, mode>> /\ Owes(r)
  <2>1. CASE ThreadGone(r)
    BY <2>1, ReplyOwes DEF ThreadGone, rows
  <2>2. CASE /\ Goto(r, "number")
             /\ UNCHANGED <<rows, attempt, seq, snap, answer, born>>
    BY <1>0, <1>8, <2>2 DEF TypeOK, EnsureThreadAlive, Goto, rows, Owes
  <2> QED BY <1>8, <2>1, <2>2 DEF EnsureThreadAlive
<1>9. ASSUME NEW r \in Request, NextCommentSeq(r)
      PROVE  UNCHANGED <<comments, mode>> /\ Owes(r)
  <2>1. pc[r] \in InTx
    BY <1>9 DEF NextCommentSeq, InTx
  <2> QED BY <1>9, <2>1, ViewType, ReadNumberOwes
          DEF NextCommentSeq, ReadNumber, rows
<1>10. ASSUME NEW r \in Request, Insert(r)
       PROVE  UNCHANGED <<comments, mode>> /\ Owes(r)
  <2>1. CASE GiveUpOrRetry(r, RetriesConflict(r))
    BY <2>1, GiveUpOrRetryOwes
  <2>2. CASE /\ seq[r] \notin Used(ThreadOf[r])
             /\ Goto(r, "inserted")
             /\ UNCHANGED <<rows, attempt, seq, snap, answer, born>>
    BY <1>0, <1>10, <2>2
       DEF NumberInv, NumbersInHand, TypeOK, Insert, EntryBusy, Goto, rows,
           Owes, InTx
  <2> QED BY <1>10, <2>1, <2>2 DEF Insert
<1>11. ASSUME NEW r \in Request, Complete(r)
       PROVE  UNCHANGED <<comments, mode>> /\ Owes(r)
  BY <1>0, <1>11
     DEF NumberInv, NumbersInHand, EntriesFree, EntryBusy, HoldsEntry, TypeOK,
         Complete, Goto, rows, Owes, InTx
<1>12. ASSUME NEW r \in Request, Suffer(r)
       PROVE  UNCHANGED <<comments, mode>> /\ Owes(r)
  <2>1. CASE SerializationFailure(r)
    BY <2>1, GiveUpOrRetryOwes DEF SerializationFailure
  <2>2. CASE ClaimTimeout(r) \/ Abandon(r)
    BY <2>2, ReplyOwes DEF ClaimTimeout, Abandon, rows
  <2> QED BY <1>12, <2>1, <2>2 DEF Suffer
<1>13. ASSUME UNCHANGED <<comments, mode, pc, seq, snap>>
       PROVE  \A r \in Request : Owes(r)
  BY <1>13 DEF NumberInv, NumbersInHand, EntriesFree, EntryBusy, HoldsEntry, Owes
<1>14. CASE \/ \E t \in Thread : DeleteThread(t)
            \/ \E c \in comments : DeleteComment(c)
            \/ \E k \in Key : ExpireKey(k)
            \/ Finished
  <2>1. UNCHANGED <<comments, mode, pc, seq, snap>>
    BY <1>14 DEF DeleteThread, DeleteComment, ExpireKey, Finished, vars
  <2> QED BY <1>13, <2>1, RequestAssumption
<1> QED
  BY <1>1, <1>3, <1>4, <1>5, <1>6, <1>7, <1>8, <1>9, <1>10, <1>11, <1>12,
     <1>14 DEF Next, Proceed

\* Empty threads satisfy the invariant.
LEMMA NumberInit == Init => NumberInv
<1> SUFFICES ASSUME Init PROVE NumberInv
  OBVIOUS
<1>1. TypeOK
  BY AttemptsAssumption
     DEF Init, TypeOK, NoView, NoAnswer, Records, Pcs, InTx, Tags
<1>2. \A t \in Thread : Used(t) = {}
  BY DEF Init, Used, CommentsOf
<1>3. Segments
  BY <1>2, 1 .. 0 = {} DEF Segments
<1>4. SeqUnique /\ NumbersInHand /\ EntriesFree
  BY DEF Init, SeqUnique, NumbersInHand, EntriesFree, HoldsEntry, InTx
<1> QED BY <1>1, <1>3, <1>4 DEF NumberInv

\* A stuttering step changes nothing the invariant reads.
LEMMA NumberStutter ==
  ASSUME NumberInv, UNCHANGED vars
  PROVE  NumberInv'
BY DEF NumberInv, TypeOK, SeqUnique, Segments, NumbersInHand, EntriesFree,
       Used, CommentsOf, Reached, HoldsEntry, EntryBusy, vars

\* The inductive invariant behind the theorems below: numbers in use form an
\* initial segment, numbers in hand are at most one beyond it, and the unique
\* index keeps uncommitted entries apart.
THEOREM NumberInvariant == Spec => []NumberInv
<1>1. NumberInv /\ [Next]_vars => NumberInv'
  BY NumberStep, NumberStutter
<1> QED BY <1>1, NumberInit, PTL DEF Spec

\* Every variable keeps its type; the numbers read from the rows stay
\* natural numbers, which needs the invariant.
THEOREM TypeCorrect == Spec => []TypeOK
<1>1. NumberInv => TypeOK
  BY DEF NumberInv
<1> QED BY <1>1, NumberInvariant, PTL

\* In every mode, for any number of concurrent requests, retries, crashes
\* and deletions: no two comments of a thread share a number.
THEOREM NumbersUnique == Spec => []SeqUnique
<1>1. NumberInv => SeqUnique
  BY DEF NumberInv
<1> QED BY <1>1, NumberInvariant, PTL

\* ... and the numbers in use are 1..n, with no hole.
THEOREM NumbersGapFree == Spec => []GapFree
<1>1. ASSUME NumberInv PROVE GapFree
  <2> SUFFICES ASSUME NEW t \in Thread
               PROVE  \E n \in {0} \cup Used(t) : Used(t) = 1 .. n
    BY DEF GapFree
  <2>1. PICK n \in Nat : Used(t) = 1 .. n
    BY <1>1 DEF NumberInv, Segments
  <2>2. n \in {0} \cup Used(t)
    BY <2>1
  <2> QED BY <2>1, <2>2
<1> QED BY <1>1, NumberInvariant, PTL

\* No step renumbers or removes a comment, or revives a deleted one.
THEOREM NumbersKept == Spec => NeverRenumbered
<1>1. ASSUME [Next]_vars
      PROVE  comments \subseteq comments' /\ deleted \subseteq deleted'
  BY <1>1 DEF Next, Proceed, Suffer, Arrive, BeginClaim, Claim, Replay,
       ReadInOneSnapshot, EnsureThreadAlive, NextCommentSeq, Insert, Complete,
       Commit, SerializationFailure, ClaimTimeout, Abandon, DeleteThread,
       DeleteComment, ExpireKey, Finished, GiveUpOrRetry, ThreadGone,
       ReadNumber, rows, vars
<1> QED BY <1>1, PTL DEF Spec, NeverRenumbered
=============================================================================
