--------------------------- MODULE CommentPosting ---------------------------
(***************************************************************************)
(* Posting a comment: how concurrent requests number the comments of a     *)
(* thread, in the four modes of COMMENT_POST_MODE, and how an              *)
(* Idempotency-Key is claimed, recorded and replayed in the same           *)
(* transaction as the insertion (internal/infrastructure/postgres/         *)
(* comment_repository.go, db/query/comments.sql and idempotency.sql).      *)
(*                                                                         *)
(* A request is one call of CommentRepository.Create or CreateIdempotent.  *)
(* A step is one SQL statement, or the part of one before and after it     *)
(* waits for a row or index entry of another transaction.  A client that   *)
(* repeats a call is another request with the same key.                    *)
(***************************************************************************)
EXTENDS Naturals, FiniteSets, FiniteSetsExt

CONSTANTS
  Request,      \* calls of Create and CreateIdempotent
  Thread,       \* rows of threads
  Key,          \* (user_id, key) pairs of idempotency_keys
  NoKey,        \* KeyOf[r] when r carries no Idempotency-Key
  NoRecord,     \* keys[k] when the table has no row for k
  ThreadOf,     \* the thread a request posts to
  KeyOf,        \* the key it carries
  BodyOf,       \* its request_hash
  Configured,   \* the values COMMENT_POST_MODE may have
  MaxAttempts   \* RetryPolicy.MaxAttempts

Modes == {"unique", "ssi", "pessimistic", "naive"}

ASSUME RequestAssumption ==
  /\ ThreadOf \in [Request -> Thread]
  /\ KeyOf \in [Request -> Key \cup {NoKey}]
  /\ NoKey \notin Key
  /\ Request # {}
ASSUME ModeAssumption == Configured \subseteq Modes
ASSUME AttemptsAssumption == MaxAttempts \in Nat \ {0}
ASSUME NoRecordAssumption ==
  NoRecord \notin [req : Request, seq : Nat, done : BOOLEAN]

VARIABLES
  mode,       \* COMMENT_POST_MODE, read when the servers start
  comments,   \* committed rows of comments, as [req, seq]
  deleted,    \* requests whose comment has deleted_at set
  dead,       \* threads with deleted_at set
  keys,       \* committed rows of idempotency_keys
  pc,         \* where each request is
  attempt,    \* the attempt the retrier is in
  seq,        \* the number the attempt has read, and then inserted
  snap,       \* what the snapshot of a serializable transaction shows
  answer,     \* what the caller is told
  born,       \* history: the thread as it was when the request arrived
  forgotten   \* history: requests whose key record was deleted as expired

vars == <<mode, comments, deleted, dead, keys, pc, attempt, seq, snap, answer,
          born, forgotten>>
rows == <<mode, comments, deleted, dead, keys, forgotten>>

-----------------------------------------------------------------------------
(* What a statement reads.                                                 *)

Keyed(r) == KeyOf[r] # NoKey

CommentsOf(t) == {c \in comments : ThreadOf[c.req] = t}
Used(t) == {c.seq : c \in CommentsOf(t)}

\* Mistake: COALESCE(MAX(seq) + 1, 0).
NextSeqFromZero(t) == IF Used(t) = {} THEN 0 ELSE Max(Used(t)) + 1

\* NextCommentSeq and the MAX of CreateCommentAutoSeq: deleted rows count.
NextSeq(t) == IF Used(t) = {} THEN 1 ELSE Max(Used(t)) + 1

\* Mistake: the thread's deleted_at is not in the WHERE clause.
ViewOfAnyThread(r) ==
  [alive |-> TRUE, next |-> NextSeq(ThreadOf[r]),
   key |-> IF Keyed(r) THEN keys[KeyOf[r]] ELSE NoRecord]

\* The database as one statement of r sees it.
View(r) ==
  [alive |-> ThreadOf[r] \notin dead,
   next  |-> NextSeq(ThreadOf[r]),
   key   |-> IF Keyed(r) THEN keys[KeyOf[r]] ELSE NoRecord]

NoView == [alive |-> FALSE, next |-> 0, key |-> NoRecord]

\* SERIALIZABLE keeps the snapshot of the first statement, READ COMMITTED
\* takes one for each.
ViewOf(r) == IF mode = "ssi" /\ Keyed(r) THEN snap[r] ELSE View(r)

\* Mistake: a transaction that inserted is never closed.
HoldsEntryForever(r) == seq[r] # 0 /\ pc[r] \in {"inserted", "recorded", "done"}

\* What a transaction has written and not committed.
HoldsKey(r) == Keyed(r) /\ pc[r] \in {"claimed", "number", "insert", "inserted",
                                      "recorded"}
HoldsEntry(r) == pc[r] \in {"inserted", "recorded"}
HoldsThread(r) == mode = "pessimistic"
                  /\ pc[r] \in {"number", "insert", "inserted", "recorded"}

KeyBusy(r) == \E o \in Request \ {r} : KeyOf[o] = KeyOf[r] /\ HoldsKey(o)
EntryBusy(r) == \E o \in Request \ {r} :
  ThreadOf[o] = ThreadOf[r] /\ seq[o] = seq[r] /\ HoldsEntry(o)
ThreadBusy(t) == \E o \in Request : ThreadOf[o] = t /\ HoldsThread(o)

InTx == {"claiming", "claimed", "replay", "number", "insert", "inserted",
         "recorded"}
Pcs == InTx \cup {"idle", "begin", "done"}
\* "internal" is 500, or no answer at all when the process dies or the
\* connection to the client breaks: its caller knows as little in both cases.
Tags == {"none", "created", "replayed", "conflict", "not_found", "mismatch",
         "incomplete", "internal"}

NoAnswer == [tag |-> "none", seq |-> 0]

-----------------------------------------------------------------------------
Init ==
  /\ mode \in Configured
  /\ comments = {} /\ deleted = {} /\ dead = {} /\ forgotten = {}
  /\ keys = [k \in Key |-> NoRecord]
  /\ pc = [r \in Request |-> "idle"]
  /\ attempt = [r \in Request |-> 0]
  /\ seq = [r \in Request |-> 0]
  /\ snap = [r \in Request |-> NoView]
  /\ answer = [r \in Request |-> NoAnswer]
  /\ born = [r \in Request |-> [alive |-> TRUE, rows |-> {}]]

Goto(r, p) == pc' = [pc EXCEPT ![r] = p]

\* The handler returns; its transaction, if any, is over.
Reply(r, tag, n) ==
  /\ Goto(r, "done")
  /\ answer' = [answer EXCEPT ![r] = [tag |-> tag, seq |-> n]]

Arrive(r) ==
  /\ pc[r] = "idle"
  /\ Goto(r, "begin")
  /\ attempt' = [attempt EXCEPT ![r] = 1]
  /\ born' = [born EXCEPT ![r] = [alive |-> ThreadOf[r] \notin dead,
                                  rows |-> {c.req : c \in CommentsOf(ThreadOf[r])}]]
  /\ UNCHANGED <<rows, seq, snap, answer>>

-----------------------------------------------------------------------------
(* The retrier.  A seq conflict is SQLSTATE 23505, or 40001 in ssi mode,   *)
(* where both are retried; createInTx does not retry a 23505.              *)

Attempts == IF mode = "naive" THEN 1 ELSE MaxAttempts
RetriesConflict(r) == mode \in {"unique", "ssi"} \/ Keyed(r)

\* ROLLBACK, then another attempt or the answer of a given-up one.
GiveUpOrRetry(r, retryable) ==
  \/ /\ retryable /\ attempt[r] < Attempts
     /\ Goto(r, "begin")
     /\ attempt' = [attempt EXCEPT ![r] = @ + 1]
     /\ seq' = [seq EXCEPT ![r] = 0]
     /\ snap' = [snap EXCEPT ![r] = NoView]
     /\ UNCHANGED <<rows, answer, born>>
  \/ /\ ~(retryable /\ attempt[r] < Attempts)
     /\ Reply(r, IF retryable THEN "conflict" ELSE "internal", 0)
     /\ UNCHANGED <<rows, attempt, seq, snap, born>>

\* SERIALIZABLE may abort a transaction at any statement, COMMIT included.
SerializationFailure(r) ==
  /\ mode = "ssi" /\ pc[r] \in InTx
  /\ GiveUpOrRetry(r, TRUE)

-----------------------------------------------------------------------------
(* ClaimIdempotencyKey and replayRecorded.                                 *)

\* BEGIN, and the start of the INSERT ... ON CONFLICT DO NOTHING.
BeginClaim(r) ==
  /\ pc[r] = "begin" /\ Keyed(r)
  /\ Goto(r, "claiming")
  /\ snap' = [snap EXCEPT ![r] = IF mode = "ssi" THEN View(r) ELSE NoView]
  /\ UNCHANGED <<rows, attempt, seq, answer, born>>

\* Mistake: SELECT the key, then INSERT it, without waiting for a rival.
ClaimUnlessRecorded(r) ==
  /\ pc[r] = "claiming" /\ keys[KeyOf[r]] = NoRecord
  /\ Goto(r, "claimed")
  /\ UNCHANGED <<rows, attempt, seq, snap, answer, born>>

\* Mistake: the claim is a transaction of its own, committed at once.
ClaimAndCommit(r) ==
  /\ pc[r] = "claiming" /\ ~KeyBusy(r) /\ keys[KeyOf[r]] = NoRecord
  /\ keys' = [keys EXCEPT ![KeyOf[r]] = [req |-> r, seq |-> 0, done |-> FALSE]]
  /\ Goto(r, "claimed")
  /\ UNCHANGED <<mode, comments, deleted, dead, forgotten, attempt, seq, snap,
                 answer, born>>

\* The INSERT waits for a transaction that has inserted the key, and then
\* claims it, finds a record, or cannot serialize with a record committed
\* after the snapshot.
Claim(r) ==
  /\ pc[r] = "claiming" /\ ~KeyBusy(r)
  /\ \/ /\ keys[KeyOf[r]] = NoRecord
        /\ Goto(r, "claimed")
        /\ UNCHANGED <<rows, attempt, seq, snap, answer, born>>
     \/ /\ keys[KeyOf[r]] # NoRecord
        /\ ViewOf(r).key = keys[KeyOf[r]]
        /\ Goto(r, "replay")
        /\ UNCHANGED <<rows, attempt, seq, snap, answer, born>>
     \/ /\ keys[KeyOf[r]] # NoRecord
        /\ ViewOf(r).key # keys[KeyOf[r]]
        /\ GiveUpOrRetry(r, TRUE)

\* idempotencyWaitTimeout: 57014 is answered with 409 and not retried.
ClaimTimeout(r) ==
  /\ pc[r] = "claiming" /\ KeyBusy(r)
  /\ Reply(r, "conflict", 0)
  /\ UNCHANGED <<rows, attempt, seq, snap, born>>

\* Mistake: request_hash is not compared.
ReplayAnyBody(r) ==
  /\ pc[r] = "replay"
  /\ LET rec == ViewOf(r).key IN
       IF rec = NoRecord THEN Reply(r, "not_found", 0)
                         ELSE Reply(r, "replayed", rec.seq)
  /\ UNCHANGED <<rows, attempt, seq, snap, born>>

\* GetIdempotencyKey is a statement of its own, so the record may be gone.
Replay(r) ==
  /\ pc[r] = "replay"
  /\ LET rec == ViewOf(r).key IN
       \/ /\ rec = NoRecord
          /\ Reply(r, "not_found", 0)
       \/ /\ rec # NoRecord /\ BodyOf[rec.req] # BodyOf[r]
          /\ Reply(r, "mismatch", 0)
       \/ /\ rec # NoRecord /\ BodyOf[rec.req] = BodyOf[r]
          /\ IF rec.done THEN Reply(r, "replayed", rec.seq)
                         ELSE Reply(r, "incomplete", 0)
  /\ UNCHANGED <<rows, attempt, seq, snap, born>>

-----------------------------------------------------------------------------
(* Numbering and inserting.                                                *)

AtInsertion(r) == pc[r] = IF Keyed(r) THEN "claimed" ELSE "begin"

ThreadGone(r) ==
  /\ Reply(r, "not_found", 0)
  /\ UNCHANGED <<rows, attempt, seq, snap, born>>

ReadNumber(r, n) ==
  /\ Goto(r, "insert")
  /\ seq' = [seq EXCEPT ![r] = n]
  /\ UNCHANGED <<rows, attempt, snap, answer, born>>

\* One snapshot shows the thread and the MAX: the single statement
\* CreateCommentAutoSeq, or ThreadExists and NextCommentSeq of an ssi
\* transaction.
ReadInOneSnapshot(r) ==
  /\ mode \in {"unique", "ssi"} /\ AtInsertion(r)
  /\ \/ ViewOf(r).alive /\ ReadNumber(r, ViewOf(r).next)
     \/ ~ViewOf(r).alive /\ ThreadGone(r)

\* ensureThreadAlive: a plain read (naive), or SELECT ... FOR UPDATE, which
\* waits and then sees the row as the transaction before left it.
EnsureThreadAlive(r) ==
  /\ mode \in {"naive", "pessimistic"} /\ AtInsertion(r)
  /\ mode = "pessimistic" => ~ThreadBusy(ThreadOf[r])
  /\ \/ /\ ThreadOf[r] \notin dead
        /\ Goto(r, "number")
        /\ UNCHANGED <<rows, attempt, seq, snap, answer, born>>
     \/ ThreadOf[r] \in dead /\ ThreadGone(r)

NextCommentSeq(r) ==
  /\ pc[r] = "number"
  /\ ReadNumber(r, NextSeq(ThreadOf[r]))

\* Mistake: a number somebody has not committed yet counts as a conflict.
InsertNoWait(r) ==
  /\ pc[r] = "insert"
  /\ IF EntryBusy(r) \/ seq[r] \in Used(ThreadOf[r])
       THEN GiveUpOrRetry(r, RetriesConflict(r))
       ELSE /\ Goto(r, "inserted")
            /\ UNCHANGED <<rows, attempt, seq, snap, answer, born>>

\* The unique index (thread_id, seq): wait for an uncommitted entry, fail on
\* a committed one.
Insert(r) ==
  /\ pc[r] = "insert" /\ ~EntryBusy(r)
  /\ \/ /\ seq[r] \notin Used(ThreadOf[r])
        /\ Goto(r, "inserted")
        /\ UNCHANGED <<rows, attempt, seq, snap, answer, born>>
     \/ /\ seq[r] \in Used(ThreadOf[r])
        /\ GiveUpOrRetry(r, RetriesConflict(r))

\* CompleteIdempotencyKey: the response goes into the row claimed above.
Complete(r) ==
  /\ pc[r] = "inserted" /\ Keyed(r)
  /\ Goto(r, "recorded")
  /\ UNCHANGED <<rows, attempt, seq, snap, answer, born>>

\* Mistake: an error of COMMIT is answered as a conflict.
CommitOrConflict(r) ==
  /\ pc[r] = IF Keyed(r) THEN "recorded" ELSE "inserted"
  /\ comments' = comments \cup {[req |-> r, seq |-> seq[r]]}
  /\ Reply(r, "conflict", 0)
  /\ UNCHANGED <<mode, keys, deleted, dead, forgotten, attempt, seq, snap, born>>

\* COMMIT, or the single statement of createAutoSeq.  When it has taken effect
\* and its answer is an error (the connection breaks), runInTx returns that
\* error, the retrier does not try again, and the caller is told 500 of a
\* comment that is stored.
Commit(r) ==
  /\ pc[r] = IF Keyed(r) THEN "recorded" ELSE "inserted"
  /\ comments' = comments \cup {[req |-> r, seq |-> seq[r]]}
  /\ keys' = IF Keyed(r)
             THEN [keys EXCEPT ![KeyOf[r]] = [req |-> r, seq |-> seq[r],
                                              done |-> pc[r] = "recorded"]]
             ELSE keys
  /\ \/ Reply(r, "created", seq[r])
     \/ Reply(r, "internal", 0)
  /\ UNCHANGED <<mode, deleted, dead, forgotten, attempt, seq, snap, born>>

-----------------------------------------------------------------------------
(* What else happens to a request and to the rows.                         *)

\* Before COMMIT takes effect a statement fails with an error that is not
\* retried, the client goes away or the process dies.  The transaction is
\* rolled back.
Abandon(r) ==
  /\ pc[r] \in InTx \cup {"begin"}
  /\ Reply(r, "internal", 0)
  /\ UNCHANGED <<rows, attempt, seq, snap, born>>

\* Mistake: the deletion does not wait for FOR UPDATE.
DeleteThreadAtOnce(t) ==
  /\ t \notin dead
  /\ dead' = dead \cup {t}
  /\ UNCHANGED <<mode, comments, deleted, keys, forgotten, pc, attempt, seq,
                 snap, answer, born>>

\* SoftDeleteThread and SoftDeleteOwnThread: the UPDATE waits for FOR UPDATE
\* and not for the FOR KEY SHARE of the foreign key.
DeleteThread(t) ==
  /\ t \notin dead /\ ~ThreadBusy(t)
  /\ dead' = dead \cup {t}
  /\ UNCHANGED <<mode, comments, deleted, keys, forgotten, pc, attempt, seq,
                 snap, answer, born>>

\* SoftDeleteComment and SoftDeleteOwnComment.
DeleteComment(c) ==
  /\ c \in comments /\ c.req \notin deleted
  /\ deleted' = deleted \cup {c.req}
  /\ UNCHANGED <<mode, comments, dead, keys, forgotten, pc, attempt, seq, snap,
                 answer, born>>

\* DeleteExpiredIdempotencyKeys, at any time: the retention is not modelled.
ExpireKey(k) ==
  /\ keys[k] # NoRecord
  /\ keys' = [keys EXCEPT ![k] = NoRecord]
  /\ forgotten' = forgotten \cup {keys[k].req}
  /\ UNCHANGED <<mode, comments, deleted, dead, pc, attempt, seq, snap, answer,
                 born>>

\* Every request is over and nothing is left to delete.
Finished ==
  /\ \A r \in Request : pc[r] = "done"
  /\ UNCHANGED vars

-----------------------------------------------------------------------------
\* The steps the handler takes by itself.
Proceed(r) ==
  \/ BeginClaim(r)
  \/ Claim(r)
  \/ Replay(r)
  \/ ReadInOneSnapshot(r)
  \/ EnsureThreadAlive(r)
  \/ NextCommentSeq(r)
  \/ Insert(r)
  \/ Complete(r)
  \/ Commit(r)

\* What may befall it.
Suffer(r) == SerializationFailure(r) \/ ClaimTimeout(r) \/ Abandon(r)

Next ==
  \/ \E r \in Request : Arrive(r) \/ Proceed(r) \/ Suffer(r)
  \/ \E t \in Thread : DeleteThread(t)
  \/ \E c \in comments : DeleteComment(c)
  \/ \E k \in Key : ExpireKey(k)
  \/ Finished

Spec == Init /\ [][Next]_vars

\* A request that has arrived runs on its own goroutine and connection.
FairSpec == Spec /\ \A r \in Request : WF_vars(Proceed(r))

-----------------------------------------------------------------------------
(* Properties.                                                             *)

Records == [req : Request, seq : Nat, done : BOOLEAN] \cup {NoRecord}

TypeOK ==
  /\ mode \in Configured
  /\ comments \subseteq [req : Request, seq : Nat]
  /\ deleted \subseteq Request
  /\ dead \subseteq Thread
  /\ forgotten \subseteq Request
  /\ keys \in [Key -> Records]
  /\ pc \in [Request -> Pcs]
  /\ attempt \in [Request -> 0 .. MaxAttempts]
  /\ seq \in [Request -> Nat]
  /\ snap \in [Request -> [alive : BOOLEAN, next : Nat, key : Records]]
  /\ answer \in [Request -> [tag : Tags, seq : Nat]]
  /\ born \in [Request -> [alive : BOOLEAN, rows : SUBSET Request]]

\* Two comments of a thread never share a number, whatever the mode.
SeqUnique ==
  \A c, d \in comments :
    ThreadOf[c.req] = ThreadOf[d.req] /\ c.seq = d.seq => c = d

\* The numbers handed out in a thread are exactly 1..n: an aborted attempt
\* leaves no hole and a deleted comment keeps its number.
GapFree ==
  \A t \in Thread : \E n \in {0} \cup Used(t) : Used(t) = 1 .. n

\* A caller told of a comment, as created or replayed, finds that comment
\* stored under that number: its own, or that of the same request body.
AnswerIsStored ==
  \A r \in Request : answer[r].tag \in {"created", "replayed"} =>
    \E c \in comments : /\ c.seq = answer[r].seq
                        /\ BodyOf[c.req] = BodyOf[r]
                        /\ answer[r].tag = "created" => c.req = r

\* A caller refused with 404, 409 or 422, whatever COMMIT went through in the
\* attempts before, stored nothing, so that trying again cannot post twice;
\* nor did one answered with an earlier comment.  A 500 says nothing either
\* way (Commit), and is what the key is for.
RefusedStoresNothing ==
  \A r \in Request :
    answer[r].tag \in {"conflict", "not_found", "mismatch", "incomplete",
                       "replayed"} =>
      \A c \in comments : c.req # r

\* However often a call is repeated under a key, and wherever it was cut
\* off, one comment is stored until the key's record is deleted as expired.
OnePostPerKey ==
  \A c, d \in comments :
    Keyed(c.req) /\ KeyOf[c.req] = KeyOf[d.req] /\ c # d =>
      {c.req, d.req} \cap forgotten # {}

\* "The key was recorded but nothing posted" and its converse never happen:
\* a live key record is complete and names a stored comment.
KeyRecordedWithPost ==
  /\ \A k \in Key : keys[k] # NoRecord =>
       keys[k].done /\ [req |-> keys[k].req, seq |-> keys[k].seq] \in comments
  /\ \A c \in comments : Keyed(c.req) /\ c.req \notin forgotten =>
       keys[KeyOf[c.req]] # NoRecord /\ keys[KeyOf[c.req]].req = c.req

\* A failed attempt of the unique mode is paid for by a comment somebody
\* else committed in the thread since the request arrived: a post is
\* refused with 409 only when MaxAttempts others went in before it.
ConflictMeansProgress ==
  \A r \in Request : mode = "unique" /\ pc[r] # "idle" =>
    LET won == {c.req : c \in CommentsOf(ThreadOf[r])} \ born[r].rows IN
      /\ attempt[r] - 1 <= Cardinality(won \ {r})
      /\ ~Keyed(r) /\ answer[r].tag = "conflict" =>
           attempt[r] = MaxAttempts /\ MaxAttempts <= Cardinality(won)

\* A comment is stored only for a request that found its thread alive after
\* it arrived; and in the pessimistic mode the thread is still alive at
\* COMMIT, whatever went on between the look and the insertion.  In the other
\* modes a thread deleted in that window gets the comment.
LatePostRefused ==
  [][\A c \in comments' \ comments :
       /\ born[c.req].alive
       /\ mode = "pessimistic" => ThreadOf[c.req] \notin dead]_vars

\* A comment once committed keeps its number and its place: no step
\* renumbers, moves or removes a row, and a deleted one stays deleted.
NeverRenumbered ==
  [][comments \subseteq comments' /\ deleted \subseteq deleted']_vars

\* r is in a statement that waits for the transaction of o to end: for its
\* key, its thread's row or its index entry.
WaitsFor(r, o) ==
  \/ pc[r] = "claiming" /\ o # r /\ KeyOf[o] = KeyOf[r] /\ HoldsKey(o)
  \/ /\ mode = "pessimistic" /\ AtInsertion(r)
     /\ ThreadOf[o] = ThreadOf[r] /\ HoldsThread(o)
  \/ /\ pc[r] = "insert" /\ o # r
     /\ ThreadOf[o] = ThreadOf[r] /\ seq[o] = seq[r] /\ HoldsEntry(o)

\* All modes lock in one order, key, thread, index entry: in any group of
\* requests somebody waits for nobody of the group, so that no deadlock holds
\* them up.
NoWaitCycle ==
  \A S \in (SUBSET Request) \ {{}} : \E r \in S : \A o \in S : ~WaitsFor(r, o)

\* How far an attempt is from its end.
Remaining(p) ==
  CASE p = "begin" -> 8 [] p = "claiming" -> 7 [] p = "claimed" -> 6
    [] p = "number" -> 5 [] p = "insert" -> 4 [] p = "inserted" -> 3
    [] p = "recorded" -> 2 [] OTHER -> 1

\* The steps a request can still take, those of further attempts included.
StepsLeft(r) ==
  CASE pc[r] = "idle" -> 9 * MaxAttempts
    [] pc[r] = "done" -> 0
    [] OTHER -> 9 * (MaxAttempts - attempt[r]) + Remaining(pc[r])

\* Whatever others do and whatever fails, a request that moves has fewer steps
\* left than before: no retry, conflict or replay goes round for ever.
RetriesEnd ==
  [][\A r \in Request : IF pc'[r] = pc[r] THEN StepsLeft(r)' = StepsLeft(r)
                        ELSE StepsLeft(r)' < StepsLeft(r)]_vars

\* Every request that arrives is answered, or cut off: none waits for ever
\* on a key, an index entry or a row lock of another.  A request runs once,
\* so in the end none is pending.
Answered == <>[](\A r \in Request : pc[r] \in {"idle", "done"})

-----------------------------------------------------------------------------
(* The log the handlers implement.                                         *)

OwnerOf(k) == IF keys[k] = NoRecord THEN NoRecord ELSE keys[k].req

Log == INSTANCE CommentLog WITH
  Nobody <- NoRecord, log <- comments, hidden <- deleted, closed <- dead,
  owner <- [k \in Key |-> OwnerOf(k)], told <- answer

\* In every mode the concurrent transactions, their retries and lost answers
\* amount to one append at COMMIT: the number after the last, the key's
\* record with it, one outcome per request.
ImplementsLog == Log!Spec
=============================================================================
