-------------------------- MODULE CommentLogProofs --------------------------
(***************************************************************************)
(* Theorems about keys, answers and the log that CommentPosting            *)
(* implements, for any number of requests, threads and keys, in every mode.*)
(***************************************************************************)
EXTENDS CommentPostingProofs, FiniteSetTheorems

\* Only requests with a key go through the steps of a claim.
PlacesFit ==
  \A r \in Request :
    pc[r] \in {"claiming", "claimed", "replay", "recorded"} => Keyed(r)

\* Whoever has claimed a key is alone, and nothing is recorded under it yet.
KeyHeld ==
  \A r \in Request : HoldsKey(r) => keys[KeyOf[r]] = NoRecord /\ ~KeyBusy(r)

\* A request posts once, in its last step, and is answered in it.
AnsweredLast ==
  /\ \A r \in Request : pc[r] # "done" => answer[r] = NoAnswer
  /\ \A c \in comments :
       pc[c.req] = "done" /\ answer[c.req].tag \in {"created", "internal"}
  /\ \A c, d \in comments : c.req = d.req => c = d

\* A record names a comment posted under its key.
Genuine(k, rec) ==
  rec # NoRecord =>
    /\ rec.done
    /\ KeyOf[rec.req] = k
    /\ [req |-> rec.req, seq |-> rec.seq] \in comments

\* Records are genuine, those that only a snapshot still shows too, and a
\* comment has one until that is forgotten.
RecordsGenuine ==
  /\ \A k \in Key : Genuine(k, keys[k])
  /\ \A r \in Request : Keyed(r) => Genuine(KeyOf[r], snap[r].key)
  /\ \A c \in comments : Keyed(c.req) /\ c.req \notin forgotten =>
       keys[KeyOf[c.req]] # NoRecord /\ keys[KeyOf[c.req]].req = c.req

\* The thread of r was alive when r arrived, if r has seen it alive since, and
\* whom r found there had posted.
AsBorn(r) ==
  /\ pc[r] # "idle" /\ ~born[r].alive => ThreadOf[r] \in dead
  /\ pc[r] \in {"number", "insert", "inserted", "recorded"} => born[r].alive
  /\ snap[r].alive => pc[r] # "idle" /\ born[r].alive
  /\ born[r].rows \subseteq {c.req : c \in comments}

\* Who posted in the thread of r since r arrived, below a number or at all.
Won(r) == {c.req : c \in CommentsOf(ThreadOf[r])} \ born[r].rows
WonBelow(r, n) ==
  {c.req : c \in {d \in CommentsOf(ThreadOf[r]) : d.seq < n}} \ born[r].rows

\* ConflictMeansProgress, and the count as it was when the number was read.
Overtaken(r) ==
  mode = "unique" /\ pc[r] # "idle" =>
    /\ attempt[r] - 1 <= Cardinality(Won(r) \ {r})
    /\ pc[r] = "insert" =>
         /\ attempt[r] - 1 <= Cardinality(WonBelow(r, seq[r]) \ {r})
         /\ \A c \in CommentsOf(ThreadOf[r]) : c.req \in born[r].rows => c.seq < seq[r]
    /\ ~Keyed(r) /\ answer[r].tag = "conflict" =>
         attempt[r] = MaxAttempts /\ MaxAttempts <= Cardinality(Won(r))

PostInv ==
  /\ NumberInv /\ IsFiniteSet(comments)
  /\ PlacesFit /\ KeyHeld /\ AnsweredLast /\ RecordsGenuine
  /\ AnswerIsStored
  /\ \A r \in Request : AsBorn(r) /\ Overtaken(r)

-----------------------------------------------------------------------------
(* Steps of one request that commit nothing.                               *)

\* What such a step owes the invariant, for the request r that takes it.
OwesPost(r) ==
  /\ pc[r] # "done"
  /\ \A o \in Request \ {r} :
       /\ pc'[o] = pc[o] /\ seq'[o] = seq[o] /\ snap'[o] = snap[o]
       /\ answer'[o] = answer[o] /\ attempt'[o] = attempt[o] /\ born'[o] = born[o]
  /\ pc'[r] # "done" => answer'[r] = NoAnswer
  /\ pc'[r] \in {"claiming", "claimed", "replay", "recorded"} => Keyed(r)
  /\ HoldsKey(r)' => HoldsKey(r) \/ (keys[KeyOf[r]] = NoRecord /\ ~KeyBusy(r))
  /\ Keyed(r) => Genuine(KeyOf[r], snap'[r].key)
  /\ answer'[r].tag # "created"
  /\ answer'[r].tag = "replayed" =>
       \E c \in comments : c.seq = answer'[r].seq /\ BodyOf[c.req] = BodyOf[r]
  /\ AsBorn(r)'
  /\ Overtaken(r)'

\* A step that pays what it owes keeps the invariant.
LEMMA PostStep ==
  ASSUME PostInv, NumberInv', UNCHANGED rows, NEW r \in Request, OwesPost(r)
  PROVE  PostInv'
<1>1. UNCHANGED <<mode, comments, dead, keys, forgotten>>
  BY DEF rows
<1>2. \A c \in comments : c.req # r /\ c.req \in Request
  BY DEF PostInv, AnsweredLast, OwesPost, NumberInv, TypeOK
<1>3. IsFiniteSet(comments)' /\ PlacesFit'
  BY <1>1 DEF PostInv, PlacesFit, OwesPost, Keyed
<1>4. KeyHeld'
  <2>1. ASSUME NEW o \in Request, HoldsKey(o)', NEW q \in Request \ {o},
               KeyOf[q] = KeyOf[o], HoldsKey(q)'
        PROVE  FALSE
    <3>1. CASE o = r
      BY <2>1, <3>1 DEF PostInv, KeyHeld, OwesPost, KeyBusy, HoldsKey, Keyed
    <3>2. CASE q = r
      BY <2>1, <3>2 DEF PostInv, KeyHeld, OwesPost, KeyBusy, HoldsKey, Keyed
    <3>3. CASE o # r /\ q # r
      BY <2>1, <3>3 DEF PostInv, KeyHeld, OwesPost, KeyBusy, HoldsKey, Keyed
    <3> QED BY <3>1, <3>2, <3>3
  <2>2. \A o \in Request : HoldsKey(o)' => keys'[KeyOf[o]] = NoRecord
    BY <1>1 DEF PostInv, KeyHeld, OwesPost, HoldsKey, Keyed
  <2> QED BY <2>1, <2>2 DEF KeyHeld, KeyBusy
<1>5. AnsweredLast'
  BY <1>1, <1>2 DEF PostInv, AnsweredLast, OwesPost
<1>6. RecordsGenuine'
  BY <1>1 DEF PostInv, RecordsGenuine, OwesPost, Genuine, Keyed
<1>7. AnswerIsStored'
  BY <1>1 DEF PostInv, AnswerIsStored, OwesPost
<1>8. \A o \in Request \ {r} : AsBorn(o)' /\ Overtaken(o)'
  <2> SUFFICES ASSUME NEW o \in Request \ {r}
               PROVE  AsBorn(o)' /\ Overtaken(o)'
    OBVIOUS
  <2>1. AsBorn(o) /\ Overtaken(o)
    BY DEF PostInv
  <2>2. /\ pc'[o] = pc[o] /\ seq'[o] = seq[o] /\ snap'[o] = snap[o]
        /\ answer'[o] = answer[o] /\ attempt'[o] = attempt[o] /\ born'[o] = born[o]
    BY DEF OwesPost
  <2>3. CommentsOf(ThreadOf[o])' = CommentsOf(ThreadOf[o])
    BY <1>1 DEF CommentsOf
  <2>4. Won(o)' = Won(o) /\ WonBelow(o, seq[o])' = WonBelow(o, seq[o])
    BY <2>2, <2>3 DEF Won, WonBelow
  <2>5. AsBorn(o)'
    BY <1>1, <2>1, <2>2 DEF AsBorn
  <2>6. Overtaken(o)'
    BY <1>1, <2>1, <2>2, <2>3, <2>4 DEF Overtaken
  <2> QED BY <2>5, <2>6
<1>9. \A o \in Request : AsBorn(o)' /\ Overtaken(o)'
  BY <1>8 DEF OwesPost
<1> QED BY <1>3, <1>4, <1>5, <1>6, <1>7, <1>9 DEF PostInv

\* The winners are finitely many.
LEMMA WonFinite ==
  ASSUME PostInv, NEW r
  PROVE  /\ IsFiniteSet(Won(r)) /\ IsFiniteSet(Won(r) \ {r})
         /\ Cardinality(Won(r)) \in Nat /\ Cardinality(Won(r) \ {r}) \in Nat
         /\ Cardinality(Won(r) \ {r}) <= Cardinality(Won(r))
<1> DEFINE all == {c.req : c \in CommentsOf(ThreadOf[r])}
<1>1. IsFiniteSet(CommentsOf(ThreadOf[r]))
  BY FS_Subset DEF PostInv, CommentsOf
<1>2. IsFiniteSet(all)
  <2> DEFINE f == [c \in CommentsOf(ThreadOf[r]) |-> c.req]
  <2>1. all = {f[c] : c \in CommentsOf(ThreadOf[r])}
    OBVIOUS
  <2>2. f \in Surjection(CommentsOf(ThreadOf[r]), all)
    BY DEF Surjection
  <2> HIDE DEF f, all
  <2> QED BY <1>1, <2>2, FS_Surjection
<1>3. Won(r) \in SUBSET all /\ Won(r) \ {r} \in SUBSET Won(r)
  BY DEF Won
<1> HIDE DEF all
<1> QED BY <1>2, <1>3, FS_Subset, FS_CardinalityType

\* A step that only goes on, other than to the insertion.
LEMMA GoOnOwes ==
  ASSUME PostInv, NEW r \in Request, NEW p, Goto(r, p),
         UNCHANGED <<rows, attempt, seq, snap, answer, born>>,
         pc[r] \notin {"idle", "done"}, p \notin {"insert", "idle", "done", "begin"},
         p \in {"claiming", "claimed", "replay", "recorded"} => Keyed(r),
         HoldsKey(r)' => HoldsKey(r) \/ (keys[KeyOf[r]] = NoRecord /\ ~KeyBusy(r)),
         p \in {"number", "inserted", "recorded"} => born[r].alive
  PROVE  OwesPost(r)
<1>1. pc' = [pc EXCEPT ![r] = p] /\ pc'[r] = p
  BY DEF Goto, PostInv, NumberInv, TypeOK
<1>2. answer[r] = NoAnswer
  BY DEF PostInv, AnsweredLast
<1>3. AsBorn(r)'
  BY <1>1 DEF PostInv, AsBorn, rows
<1>4. Overtaken(r)'
  BY <1>1, <1>2 DEF PostInv, Overtaken, Won, WonBelow, CommentsOf, Keyed, rows, NoAnswer
<1>5. Keyed(r) => Genuine(KeyOf[r], snap'[r].key)
  BY DEF PostInv, RecordsGenuine
<1>6. \A o \in Request \ {r} : pc'[o] = pc[o]
  BY <1>1 DEF PostInv, NumberInv, TypeOK
<1> QED BY <1>1, <1>2, <1>3, <1>4, <1>5, <1>6 DEF OwesPost, NoAnswer

\* An answer other than to the comment just posted.
LEMMA AnswerOwes ==
  ASSUME PostInv, NEW r \in Request, NEW tag, NEW n, Reply(r, tag, n),
         UNCHANGED <<rows, attempt, seq, snap, born>>,
         pc[r] \notin {"idle", "done"}, tag # "created",
         tag = "replayed" =>
           \E c \in comments : c.seq = n /\ BodyOf[c.req] = BodyOf[r],
         tag = "conflict" => Keyed(r) \/ mode # "unique"
  PROVE  OwesPost(r)
<1>1. /\ pc' = [pc EXCEPT ![r] = "done"] /\ pc'[r] = "done"
      /\ answer'[r] = [tag |-> tag, seq |-> n]
      /\ \A o \in Request \ {r} : answer'[o] = answer[o] /\ pc'[o] = pc[o]
  BY DEF Reply, Goto, PostInv, NumberInv, TypeOK
<1>2. answer'[r].tag = tag /\ answer'[r].seq = n
  BY <1>1
<1>3. AsBorn(r)'
  BY <1>1 DEF PostInv, AsBorn, rows
<1>4. Overtaken(r)'
  BY <1>1, <1>2 DEF PostInv, Overtaken, Won, WonBelow, CommentsOf, Keyed, rows
<1>5. Keyed(r) => Genuine(KeyOf[r], snap'[r].key)
  BY DEF PostInv, RecordsGenuine
<1> QED BY <1>1, <1>2, <1>3, <1>4, <1>5 DEF OwesPost, HoldsKey

\* Giving up or trying again: in the unique mode that is paid for by a winner
\* more than there were attempts before.
LEMMA GiveUpOrRetryOwesPost ==
  ASSUME PostInv, NEW r \in Request, NEW b, GiveUpOrRetry(r, b),
         pc[r] \notin {"idle", "done"},
         mode = "unique" => attempt[r] <= Cardinality(Won(r) \ {r})
  PROVE  OwesPost(r)
<1>1. TypeOK /\ UNCHANGED <<rows, born>> /\ answer[r] = NoAnswer
  BY DEF GiveUpOrRetry, PostInv, AnsweredLast, NumberInv
<1>2. CASE /\ Goto(r, "begin")
           /\ attempt' = [attempt EXCEPT ![r] = @ + 1]
           /\ seq' = [seq EXCEPT ![r] = 0]
           /\ snap' = [snap EXCEPT ![r] = NoView]
           /\ UNCHANGED <<rows, answer, born>>
  <2>1. /\ pc'[r] = "begin" /\ attempt'[r] = attempt[r] + 1 /\ attempt[r] \in Nat
        /\ snap'[r] = NoView
        /\ \A o \in Request \ {r} : /\ pc'[o] = pc[o] /\ seq'[o] = seq[o]
                                    /\ snap'[o] = snap[o] /\ attempt'[o] = attempt[o]
    BY <1>1, <1>2 DEF Goto, TypeOK
  <2>2. ~NoView.alive /\ NoView.key = NoRecord
    BY DEF NoView
  <2>3. AsBorn(r)'
    BY <1>1, <2>1, <2>2 DEF PostInv, AsBorn, rows
  <2>4. Overtaken(r)'
    <3>1. (Won(r) \ {r})' = Won(r) \ {r}
      BY <1>1 DEF Won, CommentsOf, rows
    <3>2. answer'[r].tag # "conflict"
      BY <1>1, <1>2 DEF NoAnswer
    <3>3. mode' = mode
      BY <1>1 DEF rows
    <3>4. mode = "unique" => attempt'[r] - 1 <= Cardinality(Won(r) \ {r})
      BY <2>1, WonFinite
    <3> QED BY <2>1, <3>1, <3>2, <3>3, <3>4 DEF Overtaken
  <2> QED BY <1>1, <1>2, <2>1, <2>2, <2>3, <2>4 DEF OwesPost, HoldsKey, Genuine, NoAnswer
<1>3. CASE /\ ~(b /\ attempt[r] < Attempts)
           /\ Reply(r, IF b THEN "conflict" ELSE "internal", 0)
           /\ UNCHANGED <<rows, attempt, seq, snap, born>>
  <2>1. PICK tag \in {"conflict", "internal"} :
          Reply(r, tag, 0) /\ (tag = "conflict" => ~(attempt[r] < Attempts))
    BY <1>3
  <2>2. /\ pc'[r] = "done" /\ answer'[r] = [tag |-> tag, seq |-> 0]
        /\ \A o \in Request \ {r} : answer'[o] = answer[o] /\ pc'[o] = pc[o]
    BY <1>1, <2>1 DEF Reply, Goto, TypeOK
  <2>3. answer'[r].tag = tag
    BY <2>2
  <2>4. AsBorn(r)'
    BY <1>3, <2>2 DEF PostInv, AsBorn, rows
  <2>5. Overtaken(r)'
    <3>1. Won(r)' = Won(r) /\ (Won(r) \ {r})' = Won(r) \ {r}
      BY <1>1 DEF Won, CommentsOf, rows
    <3>2. mode' = mode /\ attempt'[r] = attempt[r]
      BY <1>3 DEF rows
    <3>3. mode = "unique" => Attempts = MaxAttempts
      BY DEF Attempts
    <3>4. attempt[r] \in Nat /\ attempt[r] <= MaxAttempts /\ MaxAttempts \in Nat
      BY <1>1, AttemptsAssumption DEF TypeOK
    <3>5. mode = "unique" /\ tag = "conflict" =>
            attempt[r] = MaxAttempts /\ MaxAttempts <= Cardinality(Won(r))
      <4>1. /\ Cardinality(Won(r)) \in Nat /\ Cardinality(Won(r) \ {r}) \in Nat
            /\ Cardinality(Won(r) \ {r}) <= Cardinality(Won(r))
        BY WonFinite
      <4> QED BY <2>1, <3>3, <3>4, <4>1
    <3>6. mode = "unique" => attempt[r] - 1 <= Cardinality(Won(r) \ {r})
      BY DEF PostInv, Overtaken
    <3> QED BY <2>2, <2>3, <3>1, <3>2, <3>5, <3>6 DEF Overtaken
  <2>6. Keyed(r) => Genuine(KeyOf[r], snap'[r].key)
    BY <1>3 DEF PostInv, RecordsGenuine
  <2> QED BY <1>3, <2>1, <2>2, <2>3, <2>4, <2>5, <2>6 DEF OwesPost, HoldsKey
<1> QED BY <1>2, <1>3 DEF GiveUpOrRetry

\* A number is read: in the unique mode, everybody who has posted since the
\* request arrived has a smaller one.
LEMMA ReadNumberOwesPost ==
  ASSUME PostInv, NEW r \in Request, NEW n \in Nat, ReadNumber(r, n),
         pc[r] \in {"claimed", "begin", "number"}, pc[r] = "claimed" <=> Keyed(r) /\ pc[r] # "number",
         born[r].alive,
         mode = "unique" => n = NextSeq(ThreadOf[r])
  PROVE  OwesPost(r)
<1>1. /\ pc'[r] = "insert" /\ seq'[r] = n /\ UNCHANGED <<rows, attempt, snap, answer, born>>
      /\ \A o \in Request \ {r} : pc'[o] = pc[o] /\ seq'[o] = seq[o]
  BY DEF ReadNumber, Goto, PostInv, NumberInv, TypeOK
<1>2. answer[r] = NoAnswer
  BY DEF PostInv, AnsweredLast
<1>3. AsBorn(r)'
  BY <1>1 DEF PostInv, AsBorn, rows
<1>4. Overtaken(r)'
  <2> SUFFICES ASSUME mode = "unique"
               PROVE  Overtaken(r)'
    BY <1>1 DEF Overtaken, rows
  <2>1. \A c \in CommentsOf(ThreadOf[r]) : c.seq < n
    <3>1. PICK m \in Nat : Used(ThreadOf[r]) = 1 .. m
      BY RequestAssumption DEF PostInv, NumberInv, Segments
    <3>2. n = m + 1
      BY <3>1, NextSeqIsNext
    <3>3. \A c \in CommentsOf(ThreadOf[r]) : c.seq \in 1 .. m
      BY <3>1 DEF Used
    <3> QED BY <3>2, <3>3
  <2>2. /\ CommentsOf(ThreadOf[r])' = CommentsOf(ThreadOf[r])
        /\ {c \in CommentsOf(ThreadOf[r]) : c.seq < n} = CommentsOf(ThreadOf[r])
    BY <1>1, <2>1 DEF CommentsOf, rows
  <2>3. Won(r)' = Won(r) /\ WonBelow(r, seq[r])' = Won(r)
    <3>1. born'[r] = born[r]
      BY <1>1
    <3> QED BY <1>1, <2>2, <3>1 DEF Won, WonBelow
  <2>4. attempt[r] - 1 <= Cardinality(Won(r) \ {r})
    BY DEF PostInv, Overtaken
  <2> QED BY <1>1, <1>2, <2>1, <2>2, <2>3, <2>4 DEF Overtaken, NoAnswer
<1>5. Keyed(r) => Genuine(KeyOf[r], snap'[r].key)
  BY <1>1 DEF PostInv, RecordsGenuine
<1>6. HoldsKey(r)' => HoldsKey(r)
  BY DEF HoldsKey
<1> QED BY <1>1, <1>2, <1>3, <1>4, <1>5, <1>6 DEF OwesPost, NoAnswer

\* A request that arrives owes nothing to those before it.
LEMMA ArriveOwes ==
  ASSUME PostInv, NEW r \in Request, Arrive(r)
  PROVE  UNCHANGED rows /\ OwesPost(r)
<1>1. /\ pc[r] = "idle" /\ pc'[r] = "begin" /\ attempt'[r] = 1
      /\ born'[r] = [alive |-> ThreadOf[r] \notin dead,
                     rows |-> {c.req : c \in CommentsOf(ThreadOf[r])}]
      /\ UNCHANGED <<rows, seq, snap, answer>>
      /\ \A o \in Request \ {r} :
           pc'[o] = pc[o] /\ attempt'[o] = attempt[o] /\ born'[o] = born[o]
  BY DEF Arrive, Goto, PostInv, NumberInv, TypeOK
<1>2. answer[r] = NoAnswer /\ ~snap[r].alive
  BY <1>1 DEF PostInv, AnsweredLast, AsBorn
<1>3. born'[r].alive = (ThreadOf[r] \notin dead)
      /\ born'[r].rows = {c.req : c \in CommentsOf(ThreadOf[r])}
  BY <1>1
<1>4. AsBorn(r)'
  BY <1>1, <1>2, <1>3 DEF AsBorn, CommentsOf, rows
<1>5. Overtaken(r)'
  <2>1. Won(r)' = {}
    BY <1>1, <1>3 DEF Won, CommentsOf, rows
  <2>2. Cardinality({}) = 0
    BY FS_EmptySet
  <2> QED BY <1>1, <1>2, <2>1, <2>2 DEF Overtaken, NoAnswer
<1>6. Keyed(r) => Genuine(KeyOf[r], snap'[r].key)
  BY <1>1 DEF PostInv, RecordsGenuine
<1> QED BY <1>1, <1>2, <1>4, <1>5, <1>6 DEF OwesPost, HoldsKey, NoAnswer

\* The snapshot of a claim shows what is committed.
LEMMA BeginClaimOwes ==
  ASSUME PostInv, NEW r \in Request, BeginClaim(r)
  PROVE  UNCHANGED rows /\ OwesPost(r)
<1>1. /\ pc[r] = "begin" /\ Keyed(r) /\ pc'[r] = "claiming"
      /\ snap'[r] = IF mode = "ssi" THEN View(r) ELSE NoView
      /\ UNCHANGED <<rows, attempt, seq, answer, born>>
      /\ \A o \in Request \ {r} : pc'[o] = pc[o] /\ snap'[o] = snap[o]
  BY DEF BeginClaim, Goto, PostInv, NumberInv, TypeOK
<1>2. answer[r] = NoAnswer
  BY <1>1 DEF PostInv, AnsweredLast
<1>3. /\ View(r).alive = (ThreadOf[r] \notin dead) /\ View(r).key = keys[KeyOf[r]]
      /\ ~NoView.alive /\ NoView.key = NoRecord
  BY <1>1 DEF View, NoView
<1>4. AsBorn(r)'
  <2>1. ThreadOf[r] \notin dead => born[r].alive
    BY <1>1 DEF PostInv, AsBorn
  <2> QED BY <1>1, <1>3, <2>1 DEF PostInv, AsBorn, rows
<1>5. Overtaken(r)'
  BY <1>1, <1>2 DEF PostInv, Overtaken, Won, CommentsOf, Keyed, rows, NoAnswer
<1>6. Genuine(KeyOf[r], snap'[r].key)
  <2>1. KeyOf[r] \in Key
    BY <1>1, RequestAssumption DEF Keyed
  <2>2. Genuine(KeyOf[r], keys[KeyOf[r]])
    BY <2>1 DEF PostInv, RecordsGenuine
  <2> QED BY <1>1, <1>3, <2>2 DEF Genuine
<1> QED BY <1>1, <1>2, <1>4, <1>5, <1>6 DEF OwesPost, HoldsKey, NoAnswer

\* A claim is granted when nobody else has the key.
LEMMA ClaimOwes ==
  ASSUME PostInv, NEW r \in Request, Claim(r)
  PROVE  UNCHANGED rows /\ OwesPost(r)
<1>1. pc[r] = "claiming" /\ ~KeyBusy(r) /\ Keyed(r)
  BY DEF Claim, PostInv, PlacesFit
<1>2. CASE /\ keys[KeyOf[r]] = NoRecord /\ Goto(r, "claimed")
           /\ UNCHANGED <<rows, attempt, seq, snap, answer, born>>
  BY <1>1, <1>2, GoOnOwes
<1>3. CASE /\ Goto(r, "replay")
           /\ UNCHANGED <<rows, attempt, seq, snap, answer, born>>
  <2>1. ~HoldsKey(r)'
    BY <1>3 DEF HoldsKey, Goto, PostInv, NumberInv, TypeOK
  <2> QED BY <1>1, <1>3, <2>1, GoOnOwes
<1>4. CASE ViewOf(r).key # keys[KeyOf[r]] /\ GiveUpOrRetry(r, TRUE)
  <2>1. mode = "ssi"
    BY <1>1, <1>4 DEF ViewOf, View
  <2>2. UNCHANGED rows
    BY <1>4 DEF GiveUpOrRetry
  <2> QED BY <1>1, <1>4, <2>1, <2>2, GiveUpOrRetryOwesPost
<1> QED BY <1>2, <1>3, <1>4 DEF Claim

\* What a replay reads is genuine: it is complete, and its comment is there.
LEMMA ReplayOwes ==
  ASSUME PostInv, NEW r \in Request, Replay(r)
  PROVE  UNCHANGED rows /\ OwesPost(r)
<1> DEFINE rec == ViewOf(r).key
<1>1. pc[r] = "replay" /\ Keyed(r) /\ UNCHANGED <<rows, attempt, seq, snap, born>>
  BY DEF Replay, PostInv, PlacesFit
<1>2. Genuine(KeyOf[r], rec)
  <2>1. KeyOf[r] \in Key
    BY <1>1, RequestAssumption DEF Keyed
  <2> QED BY <1>1, <2>1 DEF PostInv, RecordsGenuine, ViewOf, View
<1>3. PICK tag \in {"not_found", "mismatch", "replayed", "incomplete"}, n \in {0, rec.seq} :
        /\ Reply(r, tag, n)
        /\ tag = "replayed" =>
             n = rec.seq /\ rec # NoRecord /\ BodyOf[rec.req] = BodyOf[r]
  BY DEF Replay
<1>4. tag = "replayed" => \E c \in comments : c.seq = n /\ BodyOf[c.req] = BodyOf[r]
  BY <1>2, <1>3 DEF Genuine
<1> QED BY <1>1, <1>3, <1>4, AnswerOwes

\* The thread is looked up, alive or gone.
LEMMA LookupOwes ==
  ASSUME PostInv, NEW r \in Request,
         ReadInOneSnapshot(r) \/ EnsureThreadAlive(r) \/ NextCommentSeq(r)
  PROVE  UNCHANGED rows /\ OwesPost(r)
<1>1. NextSeq(ThreadOf[r]) \in Nat /\ View(r).next = NextSeq(ThreadOf[r])
  BY ViewType DEF PostInv, Reached
<1>2. ThreadOf[r] \notin dead /\ pc[r] # "idle" => born[r].alive
  BY DEF PostInv, AsBorn
<1>3. CASE ThreadGone(r) /\ AtInsertion(r)
  <2>1. pc[r] \notin {"idle", "done"}
    BY <1>3 DEF AtInsertion
  <2> QED BY <1>3, <2>1, AnswerOwes DEF ThreadGone
<1>4. CASE /\ mode \in {"unique", "ssi"} /\ AtInsertion(r)
           /\ ViewOf(r).alive /\ ReadNumber(r, ViewOf(r).next)
  <2>1. pc[r] \in {"claimed", "begin"} /\ (pc[r] = "claimed" <=> Keyed(r))
    BY <1>4 DEF AtInsertion
  <2>2. born[r].alive
    BY <1>2, <1>4, <2>1 DEF ViewOf, View, PostInv, AsBorn
  <2>3. /\ ViewOf(r).next \in Nat
        /\ mode = "unique" => ViewOf(r).next = NextSeq(ThreadOf[r])
    BY <1>1 DEF ViewOf, PostInv, NumberInv, TypeOK
  <2> QED BY <1>4, <2>1, <2>2, <2>3, ReadNumberOwesPost DEF ReadNumber
<1>5. CASE /\ mode \in {"naive", "pessimistic"} /\ AtInsertion(r)
           /\ ThreadOf[r] \notin dead /\ Goto(r, "number")
           /\ UNCHANGED <<rows, attempt, seq, snap, answer, born>>
  <2>1. pc[r] \in {"claimed", "begin"} /\ (Keyed(r) => pc[r] = "claimed")
    BY <1>5 DEF AtInsertion
  <2>2. HoldsKey(r)' => HoldsKey(r)
    BY <2>1 DEF HoldsKey
  <2> QED BY <1>2, <1>5, <2>1, <2>2, GoOnOwes
<1>6. CASE NextCommentSeq(r)
  <2>1. pc[r] = "number" /\ ReadNumber(r, NextSeq(ThreadOf[r])) /\ born[r].alive
    BY <1>6 DEF NextCommentSeq, PostInv, AsBorn
  <2> QED BY <1>1, <2>1, ReadNumberOwesPost DEF ReadNumber
<1> QED BY <1>3, <1>4, <1>5, <1>6 DEF ReadInOneSnapshot, EnsureThreadAlive

\* Whoever finds its number taken has been overtaken once more.
LEMMA InsertOwes ==
  ASSUME PostInv, NEW r \in Request, Insert(r)
  PROVE  UNCHANGED rows /\ OwesPost(r)
<1>1. pc[r] = "insert" /\ born[r].alive
  BY DEF Insert, PostInv, AsBorn
<1>2. CASE /\ Goto(r, "inserted")
           /\ UNCHANGED <<rows, attempt, seq, snap, answer, born>>
  <2>1. HoldsKey(r)' => HoldsKey(r)
    BY <1>1 DEF HoldsKey
  <2> QED BY <1>1, <1>2, <2>1, GoOnOwes
<1>3. CASE seq[r] \in Used(ThreadOf[r]) /\ GiveUpOrRetry(r, RetriesConflict(r))
  <2>1. mode = "unique" => attempt[r] <= Cardinality(Won(r) \ {r})
    <3> SUFFICES ASSUME mode = "unique"
                 PROVE  attempt[r] <= Cardinality(Won(r) \ {r})
      OBVIOUS
    <3>1. PICK c \in CommentsOf(ThreadOf[r]) : c.seq = seq[r]
      BY <1>3 DEF Used
    <3>2. /\ attempt[r] - 1 <= Cardinality(WonBelow(r, seq[r]) \ {r})
          /\ \A d \in CommentsOf(ThreadOf[r]) : d.req \in born[r].rows => d.seq < seq[r]
      BY <1>1 DEF PostInv, Overtaken
    <3>3. c.req # r /\ c.req \notin born[r].rows /\ c \in comments /\ seq[r] \in Nat
      BY <1>1, <3>1, <3>2 DEF CommentsOf, PostInv, AnsweredLast, NumberInv, TypeOK
    <3>4. c.req \notin WonBelow(r, seq[r])
      BY <3>1, <3>3 DEF WonBelow, CommentsOf, PostInv, AnsweredLast
    <3> DEFINE W == WonBelow(r, seq[r]) \ {r}
    <3>5. W \cup {c.req} \subseteq Won(r) \ {r}
      BY <3>1, <3>3 DEF WonBelow, Won
    <3>6. c.req \notin W
      BY <3>4
    <3>7. IsFiniteSet(Won(r) \ {r})
      BY WonFinite
    <3> HIDE DEF W
    <3>8. /\ IsFiniteSet(W) /\ IsFiniteSet(W \cup {c.req})
          /\ Cardinality(W \cup {c.req}) <= Cardinality(Won(r) \ {r})
      BY <3>5, <3>7, FS_Subset
    <3>9. Cardinality(W \cup {c.req}) = Cardinality(W) + 1
      BY <3>6, <3>8, FS_AddElement
    <3>10. /\ Cardinality(W) \in Nat /\ Cardinality(Won(r) \ {r}) \in Nat
           /\ attempt[r] \in Nat
      BY <3>7, <3>8, FS_CardinalityType DEF PostInv, NumberInv, TypeOK
    <3>11. attempt[r] - 1 <= Cardinality(W)
      BY <3>2 DEF W
    <3> QED BY <3>8, <3>9, <3>10, <3>11
  <2>2. UNCHANGED rows
    BY <1>3 DEF GiveUpOrRetry
  <2> QED BY <1>1, <1>3, <2>1, <2>2, GiveUpOrRetryOwesPost
<1> QED BY <1>2, <1>3 DEF Insert

\* The response goes into the record, and failures befall a request.
LEMMA CompleteOrSufferOwes ==
  ASSUME PostInv, NEW r \in Request, Complete(r) \/ Suffer(r)
  PROVE  UNCHANGED rows /\ OwesPost(r)
<1>1. CASE Complete(r)
  <2>1. HoldsKey(r)' => HoldsKey(r)
    BY <1>1 DEF Complete, HoldsKey
  <2>2. born[r].alive
    BY <1>1 DEF Complete, PostInv, AsBorn
  <2> QED BY <1>1, <2>1, <2>2, GoOnOwes DEF Complete
<1>2. CASE SerializationFailure(r)
  <2>1. pc[r] \notin {"idle", "done"} /\ mode = "ssi"
    BY <1>2 DEF SerializationFailure, InTx
  <2>2. GiveUpOrRetry(r, TRUE) /\ UNCHANGED rows
    BY <1>2 DEF SerializationFailure, GiveUpOrRetry
  <2> QED BY <2>1, <2>2, GiveUpOrRetryOwesPost
<1>3. CASE ClaimTimeout(r)
  <2>1. Keyed(r)
    BY <1>3 DEF ClaimTimeout, PostInv, PlacesFit
  <2> QED BY <1>3, <2>1, AnswerOwes DEF ClaimTimeout
<1>4. CASE Abandon(r)
  <2>1. pc[r] \notin {"idle", "done"}
    BY <1>4 DEF Abandon, InTx
  <2> QED BY <1>4, <2>1, AnswerOwes DEF Abandon
<1> QED BY <1>1, <1>2, <1>3, <1>4 DEF Suffer

-----------------------------------------------------------------------------
(* The other steps.                                                        *)

\* A commit adds to the winners of the others.
LEMMA WonGrows ==
  ASSUME PostInv, NEW r \in Request, NEW o \in Request, NEW n \in Nat, UNCHANGED born,
         comments' = comments \cup {[req |-> r, seq |-> n]}
  PROVE  /\ Cardinality(Won(o) \ {o}) <= Cardinality(Won(o) \ {o})'
         /\ Cardinality(Won(o)) <= Cardinality(Won(o))'
         /\ \A m \in Nat : Cardinality(WonBelow(o, m) \ {o})
                             <= Cardinality(WonBelow(o, m) \ {o})'
         /\ \A m \in Nat : Cardinality(WonBelow(o, m) \ {o}) \in Nat
                           /\ Cardinality(WonBelow(o, m) \ {o})' \in Nat
         /\ Cardinality(Won(o))' \in Nat /\ Cardinality(Won(o) \ {o})' \in Nat
<1> DEFINE new == [req |-> r, seq |-> n]
<1>1. CommentsOf(ThreadOf[o]) \subseteq CommentsOf(ThreadOf[o])'
      /\ CommentsOf(ThreadOf[o])' \subseteq CommentsOf(ThreadOf[o]) \cup {new}
  BY DEF CommentsOf
<1>2. Won(o) \subseteq Won(o)' /\ Won(o)' \subseteq Won(o) \cup {r}
  BY <1>1 DEF Won
<1>3. \A m \in Nat : WonBelow(o, m) \subseteq WonBelow(o, m)' /\ WonBelow(o, m)' \subseteq Won(o)'
  BY <1>1 DEF Won, WonBelow
<1>4. IsFiniteSet(Won(o))
  BY WonFinite
<1>5. IsFiniteSet(Won(o) \cup {r})
  BY <1>4, FS_AddElement
<1>6. IsFiniteSet(Won(o)')
  BY <1>2, <1>5, FS_Subset
<1> DEFINE A == Won(o)
           B == Won(o)'
<1>7. /\ A \in SUBSET B /\ A \ {o} \in SUBSET (B \ {o}) /\ B \ {o} \in SUBSET B
      /\ IsFiniteSet(B)
  BY <1>2, <1>6
<1>8. \A m \in Nat : /\ WonBelow(o, m) \ {o} \in SUBSET (WonBelow(o, m)' \ {o})
                     /\ WonBelow(o, m)' \ {o} \in SUBSET B
  BY <1>3
<1>9. IsFiniteSet(B \ {o}) /\ Cardinality(A) <= Cardinality(B)
  BY <1>7, FS_Subset
<1>10. Cardinality(A \ {o}) <= Cardinality(B \ {o})
  BY <1>7, <1>9, FS_Subset
<1>11. ASSUME NEW m \in Nat
       PROVE  /\ Cardinality(WonBelow(o, m) \ {o}) <= Cardinality(WonBelow(o, m)' \ {o})
              /\ Cardinality(WonBelow(o, m) \ {o}) \in Nat
              /\ Cardinality(WonBelow(o, m)' \ {o}) \in Nat
  <2>1. IsFiniteSet(WonBelow(o, m)' \ {o})
    BY <1>7, <1>8, FS_Subset
  <2>2. /\ IsFiniteSet(WonBelow(o, m) \ {o})
        /\ Cardinality(WonBelow(o, m) \ {o}) <= Cardinality(WonBelow(o, m)' \ {o})
    BY <1>8, <2>1, FS_Subset
  <2> QED BY <2>1, <2>2, FS_CardinalityType
<1>12. Cardinality(B) \in Nat /\ Cardinality(B \ {o}) \in Nat
  BY <1>7, <1>9, FS_CardinalityType
<1> QED BY <1>9, <1>10, <1>11, <1>12

\* A commit stores the comment, the record of its key and the answer at once.
LEMMA CommitKeeps ==
  ASSUME PostInv, NumberInv', NEW r \in Request, Commit(r)
  PROVE  PostInv'
<1> DEFINE new == [req |-> r, seq |-> seq[r]]
<1>1. /\ comments' = comments \cup {new} /\ pc'[r] = "done"
      /\ answer'[r].tag \in {"created", "internal"}
      /\ answer'[r].tag = "created" => answer'[r].seq = seq[r]
      /\ \A o \in Request \ {r} : pc'[o] = pc[o] /\ answer'[o] = answer[o]
      /\ UNCHANGED <<mode, dead, deleted, forgotten, attempt, seq, snap, born>>
  BY DEF Commit, Reply, Goto, PostInv, NumberInv, TypeOK
<1>2. /\ pc[r] \in {"inserted", "recorded"} /\ born[r].alive /\ seq[r] \in Nat
      /\ Keyed(r) => pc[r] = "recorded" /\ HoldsKey(r)
  BY DEF Commit, PostInv, AsBorn, HoldsKey, NumberInv, TypeOK
<1>3. \A c \in comments : c.req # r /\ c.req \in Request
  BY <1>2 DEF PostInv, AnsweredLast, NumberInv, TypeOK
<1>4. new.req = r /\ new.seq = seq[r]
  OBVIOUS
<1>5. /\ Keyed(r) => /\ keys[KeyOf[r]] = NoRecord /\ ~KeyBusy(r) /\ KeyOf[r] \in Key
                     /\ keys' = [keys EXCEPT ![KeyOf[r]] =
                                  [req |-> r, seq |-> seq[r], done |-> TRUE]]
      /\ ~Keyed(r) => keys' = keys
  BY <1>2, RequestAssumption DEF Commit, PostInv, KeyHeld, Keyed
<1>6. keys \in [Key -> Records]
  BY DEF PostInv, NumberInv, TypeOK
<1> DEFINE rec == [req |-> r, seq |-> seq[r], done |-> TRUE]
<1>7. rec # NoRecord /\ rec.req = r /\ rec.seq = seq[r] /\ rec.done
  <2>1. rec \in [req : Request, seq : Nat, done : BOOLEAN]
    BY <1>2
  <2> QED BY <2>1, NoRecordAssumption
<1>8. Keyed(r) => keys'[KeyOf[r]] = rec
  BY <1>5, <1>6
<1>9. \A k \in Key : keys'[k] = keys[k] \/ (Keyed(r) /\ k = KeyOf[r])
  BY <1>5, <1>6
<1> HIDE DEF new, rec
<1>10. IsFiniteSet(comments)'
  BY <1>1, FS_AddElement DEF PostInv
<1>11. PlacesFit'
  BY <1>1 DEF PostInv, PlacesFit, Keyed
<1>12. KeyHeld'
  <2> SUFFICES ASSUME NEW o \in Request, HoldsKey(o)'
               PROVE  keys'[KeyOf[o]] = NoRecord /\ ~KeyBusy(o)'
    BY DEF KeyHeld
  <2>1. o # r /\ HoldsKey(o)
    BY <1>1 DEF HoldsKey, Keyed
  <2>2. keys[KeyOf[o]] = NoRecord /\ ~KeyBusy(o) /\ KeyOf[o] \in Key
    BY <2>1, RequestAssumption DEF PostInv, KeyHeld, HoldsKey, Keyed
  <2>3. ~(Keyed(r) /\ KeyOf[o] = KeyOf[r])
    BY <1>2, <2>1, <2>2 DEF KeyBusy
  <2>4. ~KeyBusy(o)'
    BY <1>1, <2>2 DEF KeyBusy, HoldsKey, Keyed
  <2> QED BY <1>9, <2>2, <2>3, <2>4
<1>13. AnsweredLast'
  <2>1. \A o \in Request : pc'[o] # "done" => answer'[o] = NoAnswer
    BY <1>1 DEF PostInv, AnsweredLast
  <2>2. \A c \in comments' : pc'[c.req] = "done" /\ answer'[c.req].tag \in {"created", "internal"}
    BY <1>1, <1>3, <1>4 DEF PostInv, AnsweredLast
  <2>3. \A c, d \in comments' : c.req = d.req => c = d
    BY <1>1, <1>3, <1>4 DEF PostInv, AnsweredLast
  <2> QED BY <2>1, <2>2, <2>3 DEF AnsweredLast
<1>14. RecordsGenuine'
  <2>1. ASSUME NEW k, NEW any, Genuine(k, any) PROVE Genuine(k, any)'
    BY <1>1, <2>1 DEF Genuine
  <2>2. \A k \in Key : Genuine(k, keys[k])'
    <3> SUFFICES ASSUME NEW k \in Key, keys'[k] # NoRecord
                 PROVE  /\ keys'[k].done /\ KeyOf[keys'[k].req] = k
                        /\ [req |-> keys'[k].req, seq |-> keys'[k].seq] \in comments'
      BY DEF Genuine
    <3>1. CASE keys'[k] = keys[k]
      BY <1>1, <3>1 DEF PostInv, RecordsGenuine, Genuine
    <3>2. CASE Keyed(r) /\ k = KeyOf[r]
      BY <1>1, <1>7, <1>8, <3>2 DEF new
    <3> QED BY <1>9, <3>1, <3>2
  <2>3. \A o \in Request : Keyed(o) => Genuine(KeyOf[o], snap[o].key)'
    BY <1>1 DEF PostInv, RecordsGenuine, Genuine
  <2>4. ASSUME NEW c \in comments', Keyed(c.req), c.req \notin forgotten'
        PROVE  keys'[KeyOf[c.req]] # NoRecord /\ keys'[KeyOf[c.req]].req = c.req
    <3>1. CASE c = new
      BY <1>4, <1>7, <1>8, <2>4, <3>1
    <3>2. CASE c \in comments
      <4>1. keys[KeyOf[c.req]] # NoRecord /\ keys[KeyOf[c.req]].req = c.req
        BY <1>1, <2>4, <3>2 DEF PostInv, RecordsGenuine
      <4>2. KeyOf[c.req] \in Key
        BY <1>3, <2>4, <3>2, RequestAssumption DEF Keyed
      <4> QED BY <1>5, <1>9, <4>1, <4>2
    <3> QED BY <1>1, <3>1, <3>2
  <2> QED BY <2>2, <2>3, <2>4 DEF RecordsGenuine, Keyed
<1>15. AnswerIsStored'
  <2>1. ASSUME NEW o \in Request, answer'[o].tag \in {"created", "replayed"}
        PROVE  \E c \in comments' : /\ c.seq = answer'[o].seq
                                    /\ BodyOf[c.req] = BodyOf[o]
                                    /\ answer'[o].tag = "created" => c.req = o
    <3>1. CASE o = r
      BY <1>1, <1>4, <2>1, <3>1
    <3>2. CASE o # r
      BY <1>1, <2>1, <3>2 DEF PostInv, AnswerIsStored
    <3> QED BY <3>1, <3>2
  <2> QED BY <2>1 DEF AnswerIsStored
<1>16. \A o \in Request : AsBorn(o)'
  <2> SUFFICES ASSUME NEW o \in Request PROVE AsBorn(o)'
    OBVIOUS
  <2>1. AsBorn(o)
    BY DEF PostInv
  <2>2. pc'[o] = pc[o] \/ (pc'[o] = "done" /\ pc[o] # "idle")
    BY <1>1, <1>2
  <2> QED BY <1>1, <2>1, <2>2 DEF AsBorn
<1>17. ASSUME NEW o \in Request PROVE Overtaken(o)'
  <2> SUFFICES ASSUME mode = "unique", pc'[o] # "idle"
               PROVE  Overtaken(o)'
    BY <1>1 DEF Overtaken
  <2>1. /\ Overtaken(o) /\ pc[o] # "idle" /\ (pc'[o] = "insert" => pc[o] = "insert")
        /\ answer'[o].tag = "conflict" => answer'[o] = answer[o]
    BY <1>1, <1>2 DEF PostInv
  <2>2. /\ seq[o] \in Nat /\ attempt[o] \in Nat /\ MaxAttempts \in Nat
        /\ Cardinality(Won(o)) \in Nat /\ Cardinality(Won(o) \ {o}) \in Nat
    <3>1. seq[o] \in Nat /\ attempt[o] \in 0 .. MaxAttempts /\ MaxAttempts \in Nat
      BY AttemptsAssumption DEF PostInv, NumberInv, TypeOK
    <3> QED BY <3>1, WonFinite
  <2>3. /\ Cardinality(Won(o) \ {o}) <= Cardinality(Won(o) \ {o})'
        /\ Cardinality(Won(o)) <= Cardinality(Won(o))'
        /\ Cardinality(WonBelow(o, seq[o]) \ {o}) <= Cardinality(WonBelow(o, seq[o]) \ {o})'
        /\ Cardinality(WonBelow(o, seq[o]) \ {o}) \in Nat
        /\ Cardinality(WonBelow(o, seq[o]) \ {o})' \in Nat
        /\ Cardinality(Won(o))' \in Nat /\ Cardinality(Won(o) \ {o})' \in Nat
    <3>1. comments' = comments \cup {[req |-> r, seq |-> seq[r]]} /\ UNCHANGED <<born, seq>>
      BY <1>1 DEF new
    <3> QED BY <1>2, <2>2, <3>1, WonGrows
  <2>4. attempt'[o] - 1 <= Cardinality(Won(o) \ {o})'
    <3>1. attempt[o] - 1 <= Cardinality(Won(o) \ {o})
      BY <1>1, <2>1 DEF Overtaken
    <3> QED BY <1>1, <2>2, <2>3, <3>1
  <2>5. pc'[o] = "insert" => attempt'[o] - 1 <= Cardinality(WonBelow(o, seq[o]) \ {o})'
    <3>1. pc[o] = "insert" => attempt[o] - 1 <= Cardinality(WonBelow(o, seq[o]) \ {o})
      BY <1>1, <2>1 DEF Overtaken
    <3> QED BY <1>1, <2>1, <2>2, <2>3, <3>1
  <2>6. pc'[o] = "insert" =>
          \A c \in CommentsOf(ThreadOf[o])' : c.req \in born'[o].rows => c.seq < seq'[o]
    <3>1. r \notin born[o].rows
      BY <1>3 DEF PostInv, AsBorn
    <3>2. pc[o] = "insert" =>
            \A c \in CommentsOf(ThreadOf[o]) : c.req \in born[o].rows => c.seq < seq[o]
      BY <1>1, <2>1 DEF Overtaken
    <3> QED BY <1>1, <1>4, <2>1, <3>1, <3>2 DEF CommentsOf
  <2>7. ~Keyed(o) /\ answer'[o].tag = "conflict" =>
          attempt'[o] = MaxAttempts /\ MaxAttempts <= Cardinality(Won(o))'
    <3>1. ~Keyed(o) /\ answer[o].tag = "conflict" =>
            attempt[o] = MaxAttempts /\ MaxAttempts <= Cardinality(Won(o))
      BY <1>1, <2>1 DEF Overtaken
    <3> QED BY <1>1, <2>1, <2>2, <2>3, <3>1
  <2> QED BY <2>4, <2>5, <2>6, <2>7 DEF Overtaken, Keyed
<1> QED BY <1>10, <1>11, <1>12, <1>13, <1>14, <1>15, <1>16, <1>17 DEF PostInv

\* A step of others that keeps requests and comments: deletions and expiry.
LEMMA OthersKeep ==
  ASSUME PostInv, NumberInv',
         UNCHANGED <<mode, comments, pc, attempt, seq, snap, answer, born>>,
         dead \subseteq dead', forgotten \subseteq forgotten',
         \A k \in Key : \/ keys'[k] = keys[k]
                        \/ keys'[k] = NoRecord /\ keys[k].req \in forgotten'
  PROVE  PostInv'
<1>1. IsFiniteSet(comments)' /\ PlacesFit' /\ AnsweredLast' /\ AnswerIsStored'
  BY DEF PostInv, PlacesFit, AnsweredLast, AnswerIsStored, Keyed
<1>2. KeyHeld'
  <2>1. \A o \in Request : HoldsKey(o)' = HoldsKey(o) /\ KeyBusy(o)' = KeyBusy(o)
    BY DEF HoldsKey, KeyBusy, Keyed
  <2>2. \A o \in Request : HoldsKey(o) => KeyOf[o] \in Key
    BY RequestAssumption DEF HoldsKey, Keyed
  <2> QED BY <2>1, <2>2 DEF PostInv, KeyHeld
<1>3. RecordsGenuine'
  <2>1. \A c \in comments : c.req \in Request
    BY DEF PostInv, NumberInv, TypeOK
  <2>2. \A c \in comments : Keyed(c.req) => KeyOf[c.req] \in Key
    BY <2>1, RequestAssumption DEF Keyed
  <2>3. \A k \in Key : Genuine(k, keys[k])'
    BY DEF PostInv, RecordsGenuine, Genuine
  <2>4. \A r \in Request : Keyed(r) => Genuine(KeyOf[r], snap[r].key)'
    BY DEF PostInv, RecordsGenuine, Genuine
  <2>5. \A c \in comments : Keyed(c.req) /\ c.req \notin forgotten' =>
          keys'[KeyOf[c.req]] # NoRecord /\ keys'[KeyOf[c.req]].req = c.req
    BY <2>2 DEF PostInv, RecordsGenuine
  <2> QED BY <2>3, <2>4, <2>5 DEF RecordsGenuine, Keyed
<1>4. \A o \in Request : AsBorn(o)'
  BY DEF PostInv, AsBorn
<1>5. \A o \in Request : Overtaken(o)'
  <2>1. \A o \in Request : CommentsOf(ThreadOf[o])' = CommentsOf(ThreadOf[o])
    BY DEF CommentsOf
  <2>2. \A o \in Request : Won(o)' = Won(o) /\ WonBelow(o, seq[o])' = WonBelow(o, seq[o])
    BY <2>1 DEF Won, WonBelow
  <2> QED BY <2>1, <2>2 DEF PostInv, Overtaken, Keyed
<1> QED BY <1>1, <1>2, <1>3, <1>4, <1>5 DEF PostInv

\* Empty tables satisfy the invariant.
LEMMA PostInit == Init => PostInv
<1> SUFFICES ASSUME Init PROVE PostInv
  OBVIOUS
<1>1. NumberInv /\ IsFiniteSet(comments)
  BY NumberInit, FS_EmptySet DEF Init
<1>2. NoView.key = NoRecord /\ ~NoView.alive /\ NoAnswer.tag = "none"
  BY DEF NoView, NoAnswer
<1>3. PlacesFit /\ KeyHeld /\ AnsweredLast /\ AnswerIsStored
  BY <1>2 DEF Init, PlacesFit, KeyHeld, HoldsKey, AnsweredLast, AnswerIsStored
<1>4. RecordsGenuine
  BY <1>2 DEF Init, RecordsGenuine, Genuine
<1>5. \A r \in Request : AsBorn(r) /\ Overtaken(r)
  <2> SUFFICES ASSUME NEW r \in Request PROVE AsBorn(r) /\ Overtaken(r)
    OBVIOUS
  <2>1. /\ pc[r] = "idle" /\ snap[r] = NoView
        /\ born[r] = [alive |-> TRUE, rows |-> {}]
    BY DEF Init
  <2> QED BY <1>2, <2>1 DEF AsBorn, Overtaken
<1> QED BY <1>1, <1>3, <1>4, <1>5 DEF PostInv

\* The inductive invariant behind the theorems below: a key that is held has
\* no record, a record has its comment, and a request answers last.
THEOREM PostInvariant == Spec => []PostInv
<1>1. ASSUME PostInv, [Next]_vars PROVE PostInv'
  <2>1. NumberInv'
    BY <1>1, NumberStep, NumberStutter DEF PostInv
  <2>2. ASSUME NEW r \in Request, Arrive(r) \/ Proceed(r) \/ Suffer(r)
        PROVE  PostInv'
    <3>1. CASE Commit(r)
      BY <1>1, <2>1, <3>1, CommitKeeps
    <3>2. CASE ~Commit(r)
      <4>1. UNCHANGED rows /\ OwesPost(r)
        BY <1>1, <2>2, <3>2, ArriveOwes, BeginClaimOwes, ClaimOwes, ReplayOwes,
           LookupOwes, InsertOwes, CompleteOrSufferOwes DEF Proceed
      <4> QED BY <1>1, <2>1, <4>1, PostStep
    <3> QED BY <3>1, <3>2
  <2>3. CASE \/ \E t \in Thread : DeleteThread(t)
             \/ \E c \in comments : DeleteComment(c)
             \/ \E k \in Key : ExpireKey(k)
             \/ Finished \/ UNCHANGED vars
    <3>1. keys \in [Key -> Records]
      BY <1>1 DEF PostInv, NumberInv, TypeOK
    <3>2. /\ UNCHANGED <<mode, comments, pc, attempt, seq, snap, answer, born>>
          /\ dead \subseteq dead' /\ forgotten \subseteq forgotten'
      BY <2>3 DEF DeleteThread, DeleteComment, ExpireKey, Finished, vars
    <3>3. \A k \in Key : \/ keys'[k] = keys[k]
                         \/ keys'[k] = NoRecord /\ keys[k].req \in forgotten'
      BY <2>3, <3>1 DEF DeleteThread, DeleteComment, ExpireKey, Finished, vars
    <3> QED BY <1>1, <2>1, <3>2, <3>3, OthersKeep
  <2> QED BY <1>1, <2>2, <2>3 DEF Next
<1> QED BY <1>1, PostInit, PTL DEF Spec

\* However often and however concurrently a call is repeated under a key, one
\* comment is stored until the key's record is deleted (createInTx).
THEOREM PostedOnce == Spec => []OnePostPerKey
<1>1. PostInv => OnePostPerKey
  <2> SUFFICES ASSUME PostInv, NEW c \in comments, NEW d \in comments,
                      Keyed(c.req), KeyOf[c.req] = KeyOf[d.req],
                      c.req \notin forgotten, d.req \notin forgotten
               PROVE  c = d
    BY DEF OnePostPerKey
  <2>1. Keyed(d.req)
    BY DEF Keyed
  <2>2. c.req = d.req
    BY <2>1 DEF PostInv, RecordsGenuine
  <2> QED BY <2>2 DEF PostInv, AnsweredLast
<1> QED BY <1>1, PostInvariant, PTL

\* A record and the comment it stands for are stored together, and a record is
\* never seen incomplete (CompleteIdempotencyKey, replayRecorded).
THEOREM RecordedTogether == Spec => []KeyRecordedWithPost
<1>1. PostInv => KeyRecordedWithPost
  BY DEF PostInv, RecordsGenuine, Genuine, KeyRecordedWithPost
<1> QED BY <1>1, PostInvariant, PTL

\* Whoever is told of a comment finds it stored, under that number.
THEOREM ToldIsStored == Spec => []AnswerIsStored
<1>1. PostInv => AnswerIsStored
  BY DEF PostInv
<1> QED BY <1>1, PostInvariant, PTL

\* Whoever is refused with anything but 500 has stored nothing, in whichever
\* mode and however often it was tried (retrier.do, createInTx).
THEOREM RefusalStoresNothing == Spec => []RefusedStoresNothing
<1>1. PostInv => RefusedStoresNothing
  BY DEF PostInv, AnsweredLast, RefusedStoresNothing
<1> QED BY <1>1, PostInvariant, PTL

\* In the unique mode each attempt that failed was beaten by another comment,
\* and a refusal by as many as there are attempts.
THEOREM ConflictsHaveWinners == Spec => []ConflictMeansProgress
<1>1. PostInv => ConflictMeansProgress
  BY DEF PostInv, Overtaken, Won, ConflictMeansProgress
<1> QED BY <1>1, PostInvariant, PTL

\* Whoever holds the row of its thread (SELECT ... FOR UPDATE) keeps it alive.
HeldAlive == \A r \in Request : HoldsThread(r) => ThreadOf[r] \notin dead

\* The lock is taken on a live row, and a deletion waits for it.
LEMMA HeldAliveStep ==
  ASSUME TypeOK, HeldAlive, [Next]_vars
  PROVE  HeldAlive'
<1>1. ASSUME UNCHANGED <<mode, dead>>, NEW r \in Request,
             HoldsThread(r)' => HoldsThread(r) \/ ThreadOf[r] \notin dead,
             \A o \in Request \ {r} : pc'[o] = pc[o]
      PROVE  HeldAlive'
  BY <1>1 DEF HeldAlive, HoldsThread
<1>2. ASSUME NEW r \in Request, NEW p, Goto(r, p)
      PROVE  pc'[r] = p /\ \A o \in Request \ {r} : pc'[o] = pc[o]
  BY <1>2 DEF TypeOK, Goto
<1>3. ASSUME NEW r \in Request, NEW p, Goto(r, p), UNCHANGED <<mode, dead>>,
             p \notin {"number", "insert", "inserted", "recorded"}
      PROVE  HeldAlive'
  BY <1>1, <1>2, <1>3 DEF HoldsThread
<1>4. ASSUME NEW r \in Request, NEW p, Goto(r, p), UNCHANGED <<mode, dead>>,
             pc[r] \in {"number", "insert", "inserted", "recorded"} \/ mode # "pessimistic"
      PROVE  HeldAlive'
  BY <1>1, <1>2, <1>4 DEF HoldsThread
<1>5. ASSUME NEW r \in Request, NEW b, GiveUpOrRetry(r, b)
      PROVE  HeldAlive'
  BY <1>3, <1>5 DEF GiveUpOrRetry, Reply, rows
<1>6. CASE \E r \in Request : Arrive(r) \/ BeginClaim(r) \/ Replay(r) \/ Commit(r)
  BY <1>3, <1>6 DEF Arrive, BeginClaim, Replay, Commit, Reply, rows
<1>7. CASE \E r \in Request : NextCommentSeq(r) \/ Complete(r)
  BY <1>4, <1>7 DEF NextCommentSeq, ReadNumber, Complete, rows
<1>8. CASE \E r \in Request : Claim(r)
  BY <1>3, <1>5, <1>8 DEF Claim, rows
<1>9. CASE \E r \in Request : ReadInOneSnapshot(r)
  BY <1>3, <1>4, <1>9 DEF ReadInOneSnapshot, ReadNumber, ThreadGone, Reply, rows
<1>10. CASE \E r \in Request : EnsureThreadAlive(r)
  <2>1. PICK r \in Request : EnsureThreadAlive(r)
    BY <1>10
  <2>2. UNCHANGED <<mode, dead>>
    BY <2>1 DEF EnsureThreadAlive, ThreadGone, rows
  <2>3. CASE ThreadOf[r] \notin dead /\ Goto(r, "number")
    BY <1>1, <1>2, <2>2, <2>3
  <2>4. CASE ThreadGone(r)
    BY <1>3, <2>2, <2>4 DEF ThreadGone, Reply
  <2> QED BY <2>1, <2>3, <2>4 DEF EnsureThreadAlive
<1>11. CASE \E r \in Request : Insert(r)
  BY <1>4, <1>5, <1>11 DEF Insert, rows
<1>12. CASE \E r \in Request : Suffer(r)
  BY <1>3, <1>5, <1>12 DEF Suffer, SerializationFailure, ClaimTimeout, Abandon, Reply, rows
<1>13. CASE \E t \in Thread : DeleteThread(t)
  BY <1>13 DEF DeleteThread, ThreadBusy, HeldAlive, HoldsThread
<1>14. CASE \/ \E c \in comments : DeleteComment(c)
            \/ \E k \in Key : ExpireKey(k)
            \/ Finished \/ UNCHANGED vars
  BY <1>14 DEF DeleteComment, ExpireKey, Finished, vars, HeldAlive, HoldsThread
<1> QED BY <1>6, <1>7, <1>8, <1>9, <1>10, <1>11, <1>12, <1>13, <1>14 DEF Next, Proceed

\* Nobody who comes after the thread was deleted posts in it, in any mode, and
\* in the pessimistic one nobody whose thread is deleted before the COMMIT
\* (ensureThreadAlive, createAutoSeq).
THEOREM LateIsRefused == Spec => LatePostRefused
<1>1. ASSUME PostInv, HeldAlive, [Next]_vars
      PROVE  \A c \in comments' \ comments :
               /\ born[c.req].alive
               /\ mode = "pessimistic" => ThreadOf[c.req] \notin dead
  <2> DEFINE Timely == \A c \in comments' \ comments :
                         /\ born[c.req].alive
                         /\ mode = "pessimistic" => ThreadOf[c.req] \notin dead
  <2>1. ASSUME NEW r \in Request, Commit(r)
        PROVE  Timely
    <3>1. comments' = comments \cup {[req |-> r, seq |-> seq[r]]}
          /\ pc[r] \in {"inserted", "recorded"}
      BY <2>1 DEF Commit
    <3>2. born[r].alive /\ (mode = "pessimistic" => ThreadOf[r] \notin dead)
      BY <1>1, <3>1 DEF PostInv, AsBorn, HeldAlive, HoldsThread
    <3> QED BY <3>1, <3>2
  <2>2. ASSUME NEW r \in Request, Arrive(r) \/ Proceed(r) \/ Suffer(r), ~Commit(r)
        PROVE  Timely
    <3>1. UNCHANGED rows
      BY <1>1, <2>2, ArriveOwes, BeginClaimOwes, ClaimOwes, ReplayOwes,
         LookupOwes, InsertOwes, CompleteOrSufferOwes DEF Proceed
    <3> QED BY <3>1 DEF rows
  <2>3. CASE \/ \E t \in Thread : DeleteThread(t)
             \/ \E c \in comments : DeleteComment(c)
             \/ \E k \in Key : ExpireKey(k)
             \/ Finished \/ UNCHANGED vars
    <3>1. UNCHANGED comments
      BY <2>3 DEF DeleteThread, DeleteComment, ExpireKey, Finished, vars
    <3> QED BY <3>1
  <2> QED BY <1>1, <2>1, <2>2, <2>3 DEF Next
<1>2. Init => HeldAlive
  BY DEF Init, HeldAlive, HoldsThread
<1> QED
  BY <1>1, <1>2, HeldAliveStep, TypeCorrect, PostInvariant, PTL
     DEF Spec, LatePostRefused

-----------------------------------------------------------------------------
(* The refinement.                                                         *)

\* A thread has as many comments as its last number says.
LEMMA LastNumber ==
  ASSUME PostInv, NEW t \in Thread, NEW n \in Nat, Used(t) = 1 .. n
  PROVE  Cardinality(CommentsOf(t)) = n
<1> DEFINE f == [c \in CommentsOf(t) |-> c.seq]
<1>1. f \in Bijection(CommentsOf(t), 1 .. n)
  <2>1. f \in [CommentsOf(t) -> 1 .. n]
    BY DEF Used
  <2>2. \A c, d \in CommentsOf(t) : f[c] = f[d] => c = d
    BY DEF PostInv, NumberInv, SeqUnique, CommentsOf
  <2>3. \A i \in 1 .. n : \E c \in CommentsOf(t) : f[c] = i
    BY DEF Used
  <2> HIDE DEF f
  <2>4. f \in Injection(CommentsOf(t), 1 .. n)
    BY <2>1, <2>2 DEF Injection, IsInjective
  <2>5. f \in Surjection(CommentsOf(t), 1 .. n)
    BY <2>1, <2>3 DEF Surjection
  <2> QED BY <2>4, <2>5 DEF Bijection
<1>2. IsFiniteSet(CommentsOf(t))
  BY FS_Subset DEF PostInv, CommentsOf
<1>3. IsFiniteSet(1 .. n) /\ Cardinality(1 .. n) = n
  BY FS_Interval
<1> HIDE DEF f
<1> QED BY <1>1, <1>2, <1>3, FS_Bijection DEF ExistsBijection

\* What a step of a request that does not commit tells it.
Outcome(r) ==
  \/ UNCHANGED answer
  \/ pc[r] # "done" /\ \E tag \in Log!Refusals \cup {"internal"} : Reply(r, tag, 0)
  \/ /\ pc[r] # "done"
     /\ \E c \in comments : /\ Keyed(r) /\ KeyOf[c.req] = KeyOf[r]
                            /\ BodyOf[c.req] = BodyOf[r]
                            /\ Reply(r, "replayed", c.seq)

\* A replay tells of the comment that was posted under the key.
LEMMA ReplayOutcome ==
  ASSUME PostInv, NEW r \in Request, Replay(r)
  PROVE  Outcome(r)
<1> DEFINE rec == ViewOf(r).key
<1>1. pc[r] = "replay" /\ Keyed(r)
  BY DEF Replay, PostInv, PlacesFit
<1>2. Genuine(KeyOf[r], rec)
  <2>1. KeyOf[r] \in Key
    BY <1>1, RequestAssumption DEF Keyed
  <2> QED BY <1>1, <2>1 DEF PostInv, RecordsGenuine, ViewOf, View
<1>3. CASE \E tag \in {"not_found", "mismatch"} : Reply(r, tag, 0)
  BY <1>1, <1>3 DEF Outcome, Log!Refusals
<1>4. CASE rec # NoRecord /\ BodyOf[rec.req] = BodyOf[r] /\ rec.done
           /\ Reply(r, "replayed", rec.seq)
  <2> DEFINE c == [req |-> rec.req, seq |-> rec.seq]
  <2>1. c \in comments /\ KeyOf[c.req] = KeyOf[r] /\ c.seq = rec.seq /\ c.req = rec.req
    BY <1>2, <1>4 DEF Genuine
  <2> HIDE DEF c, rec
  <2>2. Reply(r, "replayed", c.seq) /\ BodyOf[c.req] = BodyOf[r]
    BY <1>4, <2>1
  <2> QED BY <1>1, <2>1, <2>2 DEF Outcome
<1> QED BY <1>2, <1>3, <1>4 DEF Replay, Genuine

\* The other steps refuse, or tell nothing.
LEMMA StepOutcome ==
  ASSUME PostInv, NEW r \in Request, Arrive(r) \/ Proceed(r) \/ Suffer(r), ~Commit(r)
  PROVE  Outcome(r)
<1>1. ASSUME NEW b, GiveUpOrRetry(r, b), pc[r] # "done" PROVE Outcome(r)
  BY <1>1 DEF GiveUpOrRetry, Outcome, Log!Refusals
<1>2. CASE Arrive(r) \/ BeginClaim(r) \/ NextCommentSeq(r) \/ Complete(r)
  BY <1>2 DEF Arrive, BeginClaim, NextCommentSeq, Complete, ReadNumber, Outcome
<1>3. CASE Claim(r) \/ Insert(r)
  BY <1>1, <1>3 DEF Claim, Insert, Outcome
<1>4. CASE Replay(r)
  BY <1>4, ReplayOutcome
<1>5. CASE ReadInOneSnapshot(r) \/ EnsureThreadAlive(r)
  <2>1. pc[r] # "done"
    BY <1>5 DEF ReadInOneSnapshot, EnsureThreadAlive, AtInsertion
  <2> QED BY <1>5, <2>1 DEF ReadInOneSnapshot, EnsureThreadAlive, ReadNumber,
                            ThreadGone, Outcome, Log!Refusals
<1>6. CASE Suffer(r)
  <2>1. pc[r] # "done"
    BY <1>6 DEF Suffer, SerializationFailure, ClaimTimeout, Abandon, InTx
  <2> QED BY <1>1, <1>6, <2>1 DEF Suffer, SerializationFailure, ClaimTimeout,
                                  Abandon, Outcome, Log!Refusals
<1> QED BY <1>2, <1>3, <1>4, <1>5, <1>6 DEF Proceed

\* What an outcome is in the log: a refusal, a repetition or nothing at all.
LEMMA OutcomeInLog ==
  ASSUME PostInv, NEW r \in Request, Outcome(r), UNCHANGED rows
  PROVE  Log!Refuse(r) \/ Log!Repeat(r) \/ UNCHANGED Log!logVars
<1>1. UNCHANGED <<comments, deleted, dead, keys>>
  BY DEF rows
<1>2. [k \in Key |-> OwnerOf(k)]' = [k \in Key |-> OwnerOf(k)]
  BY <1>1 DEF OwnerOf
<1>3. pc[r] # "done" => answer[r] = Log!Untold
  BY DEF PostInv, AnsweredLast, NoAnswer, Log!Untold
<1>4. CASE UNCHANGED answer
  BY <1>1, <1>2, <1>4 DEF Log!logVars
<1>5. CASE pc[r] # "done" /\ \E tag \in Log!Refusals \cup {"internal"} : Reply(r, tag, 0)
  BY <1>1, <1>2, <1>3, <1>5 DEF Log!Refuse, Log!Tell, Reply
<1>6. ASSUME pc[r] # "done", NEW c \in comments, Keyed(r), KeyOf[c.req] = KeyOf[r],
             BodyOf[c.req] = BodyOf[r], Reply(r, "replayed", c.seq)
      PROVE  Log!Repeat(r)
  BY <1>1, <1>2, <1>3, <1>6 DEF Log!Repeat, Log!Tell, Reply, Keyed
<1> QED BY <1>4, <1>5, <1>6 DEF Outcome

\* A commit is an append to the log.
LEMMA CommitInLog ==
  ASSUME PostInv, NEW r \in Request, Commit(r)
  PROVE  Log!Post(r)
<1> DEFINE t == ThreadOf[r]
<1>1. t \in Thread /\ pc[r] \in {"inserted", "recorded"}
  BY RequestAssumption DEF Commit
<1>2. PICK n \in Nat : Used(t) = 1 .. n
  BY <1>1 DEF PostInv, NumberInv, Segments
<1>3. seq[r] = n + 1
  <2>1. Reached(r, seq[r]) /\ seq[r] \notin Used(t)
    BY <1>1 DEF PostInv, NumberInv, NumbersInHand, EntriesFree, HoldsEntry
  <2>2. seq[r] \in Nat \ {0} /\ 1 .. (seq[r] - 1) \subseteq 1 .. n /\ seq[r] \notin 1 .. n
    BY <1>2, <2>1 DEF Reached
  <2> QED BY <2>2
<1>4. Log!Last(t) + 1 = seq[r]
  <2>1. Log!LogOf(t) = CommentsOf(t)
    BY DEF Log!LogOf, CommentsOf
  <2>2. Cardinality(CommentsOf(t)) = n
    BY <1>1, <1>2, LastNumber
  <2>3. Log!Last(t) = n
    <3>1. Log!Cardinality(CommentsOf(t)) = Cardinality(CommentsOf(t))
      BY DEF Log!Cardinality, Cardinality
    <3> QED BY <2>1, <2>2, <3>1 DEF Log!Last
  <2> QED BY <1>3, <2>3
<1>5. answer[r] = Log!Untold
  BY <1>1 DEF PostInv, AnsweredLast, NoAnswer, Log!Untold
<1>6. Log!Tell(r, "created", seq[r]) \/ Log!Tell(r, "internal", 0)
  BY <1>5 DEF Commit, Reply, Log!Tell
<1>7. CASE ~Keyed(r)
  <2>1. keys' = keys
    BY <1>7 DEF Commit
  <2>2. [k \in Key |-> OwnerOf(k)]' = [k \in Key |-> OwnerOf(k)]
    BY <2>1 DEF OwnerOf
  <2> QED BY <1>4, <1>6, <1>7, <2>2 DEF Commit, Log!Post, Keyed
<1>8. CASE Keyed(r)
  <2> DEFINE rec == [req |-> r, seq |-> seq[r], done |-> pc[r] = "recorded"]
  <2>1. /\ KeyOf[r] \in Key /\ keys[KeyOf[r]] = NoRecord
        /\ keys' = [keys EXCEPT ![KeyOf[r]] = rec]
    BY <1>1, <1>8, RequestAssumption DEF PostInv, KeyHeld, HoldsKey, Keyed, Commit
  <2>2. rec # NoRecord /\ rec.req = r
    <3>1. rec \in [req : Request, seq : Nat, done : BOOLEAN]
      BY DEF PostInv, NumberInv, TypeOK
    <3> QED BY <3>1, NoRecordAssumption
  <2>3. keys \in [Key -> Records]
    BY DEF PostInv, NumberInv, TypeOK
  <2> HIDE DEF rec
  <2>4. OwnerOf(KeyOf[r]) = NoRecord
    BY <2>1 DEF OwnerOf
  <2>5. \A k \in Key : OwnerOf(k)' = IF k = KeyOf[r] THEN r ELSE OwnerOf(k)
    BY <2>1, <2>2, <2>3 DEF OwnerOf
  <2>6. [k \in Key |-> OwnerOf(k)]' = [[k \in Key |-> OwnerOf(k)] EXCEPT ![KeyOf[r]] = r]
    BY <2>1, <2>5
  <2> QED BY <1>4, <1>6, <1>8, <2>1, <2>4, <2>6 DEF Commit, Log!Post, Keyed
<1> QED BY <1>7, <1>8

\* In every mode the concurrent transactions, with their retries, crashes and
\* lost answers, amount to appends of the next number, each with the record of
\* its key, and every request is told one outcome.
THEOREM PostingImplementsLog == Spec => ImplementsLog
<1>1. Init => Log!Init
  BY DEF Init, Log!Init, OwnerOf, NoAnswer, Log!Untold
<1>2. ASSUME PostInv, [Next]_vars
      PROVE  [Log!Next]_(Log!logVars)
  <2>1. ASSUME NEW r \in Request, Arrive(r) \/ Proceed(r) \/ Suffer(r)
        PROVE  [Log!Next]_(Log!logVars)
    <3>1. CASE Commit(r)
      BY <1>2, <3>1, CommitInLog DEF Log!Next
    <3>2. CASE ~Commit(r)
      <4>1. UNCHANGED rows
        BY <1>2, <2>1, <3>2, ArriveOwes, BeginClaimOwes, ClaimOwes, ReplayOwes,
           LookupOwes, InsertOwes, CompleteOrSufferOwes DEF Proceed
      <4> QED BY <1>2, <2>1, <3>2, <4>1, StepOutcome, OutcomeInLog DEF Log!Next
    <3> QED BY <3>1, <3>2
  <2>2. ASSUME keys' = keys
        PROVE  [k \in Key |-> OwnerOf(k)]' = [k \in Key |-> OwnerOf(k)]
    BY <2>2 DEF OwnerOf
  <2>3. CASE \E t \in Thread : DeleteThread(t)
    BY <2>2, <2>3 DEF DeleteThread, Log!Close, Log!Next
  <2>4. CASE \E c \in comments : DeleteComment(c)
    BY <2>2, <2>4 DEF DeleteComment, Log!Hide, Log!Next
  <2>5. ASSUME NEW k \in Key, ExpireKey(k)
        PROVE  Log!Forget(k)
    <3>1. keys \in [Key -> Records] /\ keys' = [keys EXCEPT ![k] = NoRecord]
      BY <1>2, <2>5 DEF PostInv, NumberInv, TypeOK, ExpireKey
    <3>2. \A j \in Key : OwnerOf(j)' = IF j = k THEN NoRecord ELSE OwnerOf(j)
      BY <3>1 DEF OwnerOf
    <3>3. [j \in Key |-> OwnerOf(j)]' = [[j \in Key |-> OwnerOf(j)] EXCEPT ![k] = NoRecord]
      BY <3>2
    <3> QED BY <2>5, <3>3 DEF ExpireKey, Log!Forget
  <2>6. CASE Finished \/ UNCHANGED vars
    BY <2>2, <2>6 DEF Finished, vars, Log!logVars
  <2> QED BY <1>2, <2>1, <2>3, <2>4, <2>5, <2>6 DEF Next, Log!Next
<1> QED BY <1>1, <1>2, PostInvariant, PTL DEF Spec, ImplementsLog, Log!Spec
-----------------------------------------------------------------------------
(* Why posts end: nobody is in a circle of waits, and who moves gets nearer *)
(* to its end.                                                              *)

\* The order in which transactions wait for each other.
LEMMA WaitsUpwards ==
  ASSUME NEW r \in Request, NEW o \in Request, WaitsFor(r, o)
  PROVE  \/ pc[r] = "claiming" /\ pc[o] # "claiming"
         \/ /\ pc[r] \in {"begin", "claimed"}
            /\ pc[o] \notin {"claiming", "begin", "claimed"}
         \/ pc[r] = "insert" /\ pc[o] \in {"inserted", "recorded"}
BY DEF WaitsFor, HoldsKey, AtInsertion, HoldsThread, HoldsEntry

\* Posts, of any number and in any mode, never wait for one another in a
\* circle.
THEOREM WaitsEnd == Spec => []NoWaitCycle
<1>1. NoWaitCycle
  <2> SUFFICES ASSUME NEW S \in (SUBSET Request) \ {{}}
               PROVE  \E r \in S : \A o \in S : ~WaitsFor(r, o)
    BY DEF NoWaitCycle
  <2>1. CASE \E r \in S : pc[r] \notin {"claiming", "begin", "claimed", "insert"}
    BY <2>1, WaitsUpwards
  <2>2. CASE /\ \A r \in S : pc[r] \in {"claiming", "begin", "claimed", "insert"}
             /\ \E r \in S : pc[r] = "insert"
    BY <2>2, WaitsUpwards
  <2>3. CASE /\ \A r \in S : pc[r] \in {"claiming", "begin", "claimed"}
             /\ \E r \in S : pc[r] \in {"begin", "claimed"}
    BY <2>3, WaitsUpwards
  <2>4. CASE \A r \in S : pc[r] = "claiming"
    BY <2>4, WaitsUpwards
  <2> QED BY <2>1, <2>2, <2>3, <2>4
<1> QED BY <1>1, PTL

\* What a step of r owes the number of steps left.
OwesStep(r) ==
  /\ StepsLeft(r)' < StepsLeft(r) /\ pc'[r] # pc[r]
  /\ \A o \in Request \ {r} : pc'[o] = pc[o] /\ attempt'[o] = attempt[o]

LEMMA AttemptsLeft ==
  ASSUME TypeOK, NEW r \in Request
  PROVE  /\ attempt[r] \in Nat /\ MaxAttempts \in Nat /\ MaxAttempts >= 1
         /\ attempt[r] <= MaxAttempts /\ Attempts <= MaxAttempts
         /\ \A p : Remaining(p) \in 1 .. 8
         /\ pc[r] # "done" => StepsLeft(r) > 0
<1>1. \A p : Remaining(p) \in 1 .. 8
  BY DEF Remaining
<1>2. /\ attempt[r] \in Nat /\ MaxAttempts \in Nat /\ MaxAttempts >= 1
      /\ attempt[r] <= MaxAttempts /\ Attempts <= MaxAttempts
  BY AttemptsAssumption DEF TypeOK, Attempts
<1>3. pc[r] # "done" => StepsLeft(r) > 0
  BY <1>1, <1>2 DEF StepsLeft
<1> QED BY <1>1, <1>2, <1>3

\* An answer is the end.
LEMMA ReplyUsesStep ==
  ASSUME TypeOK, NEW r \in Request, NEW tag, NEW n, Reply(r, tag, n),
         pc[r] # "done", UNCHANGED attempt
  PROVE  OwesStep(r)
<1>1. pc'[r] = "done" /\ \A o \in Request \ {r} : pc'[o] = pc[o]
  BY DEF TypeOK, Reply, Goto
<1> QED BY <1>1, AttemptsLeft DEF StepsLeft, OwesStep

\* Within an attempt it goes downhill.
LEMMA GotoUsesStep ==
  ASSUME TypeOK, NEW r \in Request, NEW p \in Pcs \ {"idle", "done"}, Goto(r, p),
         pc[r] \notin {"idle", "done"}, UNCHANGED attempt,
         Remaining(p) < Remaining(pc[r])
  PROVE  OwesStep(r)
<1>1. pc'[r] = p /\ \A o \in Request \ {r} : pc'[o] = pc[o]
  BY DEF TypeOK, Goto
<1>2. /\ StepsLeft(r) = 9 * (MaxAttempts - attempt[r]) + Remaining(pc[r])
      /\ StepsLeft(r)' = 9 * (MaxAttempts - attempt[r]) + Remaining(p)
  BY <1>1 DEF StepsLeft
<1>3. StepsLeft(r)' < StepsLeft(r) /\ p # pc[r]
  BY <1>2, AttemptsLeft
<1> QED BY <1>1, <1>3 DEF OwesStep

\* Another attempt is one that was left.
LEMMA GiveUpOrRetryUsesStep ==
  ASSUME TypeOK, NEW r \in Request, NEW b, GiveUpOrRetry(r, b), pc[r] \in InTx
  PROVE  OwesStep(r)
<1>1. pc[r] \notin {"idle", "begin", "done"}
  BY DEF InTx
<1>2. CASE /\ b /\ attempt[r] < Attempts
           /\ Goto(r, "begin")
           /\ attempt' = [attempt EXCEPT ![r] = @ + 1]
  <2>1. /\ pc'[r] = "begin" /\ attempt'[r] = attempt[r] + 1
        /\ \A o \in Request \ {r} : pc'[o] = pc[o] /\ attempt'[o] = attempt[o]
    BY <1>2 DEF TypeOK, Goto
  <2>2. /\ StepsLeft(r) = 9 * (MaxAttempts - attempt[r]) + Remaining(pc[r])
        /\ StepsLeft(r)' = 9 * (MaxAttempts - (attempt[r] + 1)) + 8
    BY <1>1, <2>1 DEF StepsLeft, Remaining
  <2>3. StepsLeft(r)' < StepsLeft(r)
    BY <1>2, <2>2, AttemptsLeft
  <2> QED BY <1>1, <2>1, <2>3 DEF OwesStep
<1>3. CASE UNCHANGED attempt /\ \E tag : Reply(r, tag, 0)
  BY <1>1, <1>3, ReplyUsesStep
<1> QED BY <1>2, <1>3 DEF GiveUpOrRetry

LEMMA ProceedUsesStep ==
  ASSUME TypeOK, NEW r \in Request, Proceed(r)
  PROVE  OwesStep(r)
<1>1. CASE BeginClaim(r) \/ NextCommentSeq(r) \/ Complete(r)
  BY <1>1, GotoUsesStep
     DEF BeginClaim, NextCommentSeq, ReadNumber, Complete, Remaining, Pcs, InTx
<1>2. CASE Claim(r)
  <2>1. CASE GiveUpOrRetry(r, TRUE)
    BY <1>2, <2>1, GiveUpOrRetryUsesStep DEF Claim, InTx
  <2>2. CASE (Goto(r, "claimed") \/ Goto(r, "replay")) /\ UNCHANGED attempt
    BY <1>2, <2>2, GotoUsesStep DEF Claim, Remaining, Pcs, InTx
  <2> QED BY <1>2, <2>1, <2>2 DEF Claim
<1>3. CASE Replay(r)
  BY <1>3, ReplyUsesStep DEF Replay
<1>4. CASE ReadInOneSnapshot(r) \/ EnsureThreadAlive(r)
  <2>1. pc[r] \in {"begin", "claimed"}
    BY <1>4 DEF ReadInOneSnapshot, EnsureThreadAlive, AtInsertion
  <2>2. CASE ThreadGone(r)
    BY <2>1, <2>2, ReplyUsesStep DEF ThreadGone
  <2>3. CASE (Goto(r, "insert") \/ Goto(r, "number")) /\ UNCHANGED attempt
    BY <2>1, <2>3, GotoUsesStep DEF Remaining, Pcs, InTx
  <2> QED BY <1>4, <2>2, <2>3 DEF ReadInOneSnapshot, EnsureThreadAlive, ReadNumber
<1>5. CASE Insert(r)
  <2>1. CASE GiveUpOrRetry(r, RetriesConflict(r))
    BY <1>5, <2>1, GiveUpOrRetryUsesStep DEF Insert, InTx
  <2>2. CASE Goto(r, "inserted") /\ UNCHANGED attempt
    BY <1>5, <2>2, GotoUsesStep DEF Insert, Remaining, Pcs, InTx
  <2> QED BY <1>5, <2>1, <2>2 DEF Insert
<1>6. CASE Commit(r)
  BY <1>6, ReplyUsesStep DEF Commit
<1> QED BY <1>1, <1>2, <1>3, <1>4, <1>5, <1>6 DEF Proceed

LEMMA OtherwiseUsesStep ==
  ASSUME TypeOK, NEW r \in Request, Arrive(r) \/ Suffer(r)
  PROVE  OwesStep(r)
<1>1. CASE Arrive(r)
  <2>1. /\ pc[r] = "idle" /\ pc'[r] = "begin" /\ attempt'[r] = 1
        /\ \A o \in Request \ {r} : pc'[o] = pc[o] /\ attempt'[o] = attempt[o]
    BY <1>1 DEF TypeOK, Arrive, Goto
  <2>2. /\ StepsLeft(r) = 9 * MaxAttempts
        /\ StepsLeft(r)' = 9 * (MaxAttempts - 1) + 8
    BY <2>1 DEF StepsLeft, Remaining
  <2>3. StepsLeft(r)' < StepsLeft(r)
    BY <2>2, AttemptsLeft
  <2> QED BY <2>1, <2>3 DEF OwesStep
<1>2. CASE SerializationFailure(r)
  BY <1>2, GiveUpOrRetryUsesStep DEF SerializationFailure
<1>3. CASE ClaimTimeout(r) \/ Abandon(r)
  BY <1>3, ReplyUsesStep DEF ClaimTimeout, Abandon, InTx
<1> QED BY <1>1, <1>2, <1>3 DEF Suffer

\* A post takes nine steps for each attempt at most, whatever happens to it
\* and to the others.
THEOREM PostsRunOut == Spec => RetriesEnd
<1>1. ASSUME TypeOK, [Next]_vars
      PROVE  \A r \in Request : IF pc'[r] = pc[r] THEN StepsLeft(r)' = StepsLeft(r)
                                ELSE StepsLeft(r)' < StepsLeft(r)
  <2>1. ASSUME NEW q \in Request, OwesStep(q), NEW r \in Request
        PROVE  IF pc'[r] = pc[r] THEN StepsLeft(r)' = StepsLeft(r)
               ELSE StepsLeft(r)' < StepsLeft(r)
    BY <2>1 DEF OwesStep, StepsLeft
  <2>2. CASE UNCHANGED <<pc, attempt>>
    BY <2>2 DEF StepsLeft
  <2>3. CASE \E q \in Request : Arrive(q) \/ Proceed(q) \/ Suffer(q)
    BY <1>1, <2>1, <2>3, ProceedUsesStep, OtherwiseUsesStep
  <2>4. CASE \/ \E t \in Thread : DeleteThread(t)
             \/ \E c \in comments : DeleteComment(c)
             \/ \E k \in Key : ExpireKey(k)
             \/ Finished
             \/ UNCHANGED vars
    BY <2>2, <2>4 DEF DeleteThread, DeleteComment, ExpireKey, Finished, vars
  <2> QED BY <1>1, <2>3, <2>4 DEF Next
<1> QED BY <1>1, TypeCorrect, PTL DEF Spec, RetriesEnd
=============================================================================
