# Verification of the bulletin board's API

TLA+ specifications of the Go API in `src/apps/go-api`: the parts in which
several requests, replicas, transactions and background jobs act on the same
rows, memory and external services. Each module is a translation of the code
and SQL it names; TLC checks small instances of it, and TLAPS proves the most
important facts for every instance. Paths below are relative to
`src/apps/go-api`.

    tlc -workers 2 -config CommentRaces.cfg MCCommentPosting     # one run
    tlapm CommentPostingProofs.tla                               # its proofs

`PROJECT.json` lists the components, the runs, the source lines behind every
definition (`map`), the hazards the properties are for, the theorems, and for
each checked property a mutant: a plausible mistake (kept in the module as a
definition marked "Mistake:") under which TLC finds the property violated.

## 1. Inventory

The program is one Go binary (`cmd/api/main.go`), run in several replicas over
one PostgreSQL database, an object storage (S3), an SMTP server and an OIDC
provider. Replicas share nothing but the database and the storage: no leader,
no queue, no distributed lock. All coordination is rows, row locks, unique
indexes and `FOR UPDATE SKIP LOCKED`.

| Component | State it keeps | Operations | What makes it hard | What makes it correct |
|---|---|---|---|---|
| Comment posting (`internal/comment`, `postgres/comment_repository.go`, `tx.go`) | `comments(thread_id, seq)`, `threads.deleted_at` | post, in four modes (`unique`, `ssi`, `pessimistic`, `naive`); soft deletions | racing `MAX(seq)+1`, retries, isolation levels, a COMMIT whose answer is lost | numbers are unique and 1..n; nothing is renumbered; a 409 is honest; every post ends |
| Idempotency keys (`internal/idempotency`, `idempotency.sql`) | `idempotency_keys` | claim, record, replay, expire | two uses at once, a crash between claim and record, expiry in between | one post per key; record and post together; a replay names the stored comment |
| Contact dispatch (`contact/usecase/dispatcher.go`) | `contact_messages` (status, attempts, next attempt) | save, claim a batch, send, reply, mark, fail, reschedule | several replicas, SMTP outside any transaction, a lease that may lapse, crashes | at least once, duplicates only where unavoidable, settled in the end, outcomes not overwritten |
| Contact intake (`contact/usecase/interactor.go`, `httpapi/contact.go`) | `contact_messages`, with `client_ip` | trap, check, rate limit, save, erase addresses | count followed by insert, addresses erased meanwhile | the limit per address holds up to the races the code accepts; 202 means stored |
| View counting (`internal/viewcount`, `internal/scheduler`, `main.go`) | counts and visitor gate in memory, `threads.view_count` | record, flush, restore, sweep, shutdown | two flushes, failed and ambiguous writes, draining with one deadline | nothing counted is lost in memory; a clean shutdown writes all; one view per visitor and window |
| Images (`internal/image`, `image_repository.go`, `images.sql`, `users.sql`) | `images` rows, storage objects, `avatar_image_id`, `comments/threads.image_id` | upload, attach, avatar change, moderate, reclaim | database and storage share no transaction; snapshots and row rechecks; replicas sweep together | what is referenced is kept, what is not goes in the end, no object without a row |
| Roles and moderation (`internal/moderation`) | `users.role`, `moderation_actions` | change a role, delete as a moderator or author, promote at login | admins demoting each other, a role read without a lock, deadlocks with the audit record | an admin remains; the audit log tells everybody's role; an item is deleted once |
| Reports (`moderation/usecase/report.go`) | `reports` | report, list, resolve | check then insert, two moderators | one report per person and target, resolved once |
| Login and sessions (`internal/user`, `httpapi/auth.go`) | `sessions`, cookies, codes at the provider | login, callback, use, logout, cleaning | tabs of one browser, answers out of order or lost, replayed callbacks, database errors | nobody is logged out by an error, and a logout that was answered is final |
| Image decoding (`image/usecase/interactor.go`, `encode.go`) | slots of the decoder, memory | wait, decode, scale, encode | waiting without a deadline, sizes chosen by the client | decoders stay within their memory, and a slot is not held for the storage |
| Pagination and listing (`internal/pagination`, `threads.sql`, `comments.sql`, `reports.sql`) | cursors held by clients | list, search, rank, own posts, queue of reports | rows change between two pages, late commits, cursors of other lists | nothing shown twice, nothing stable skipped, the walk ends |
| HTTP layer (`internal/httpapi`) | - | origin check, body limit, session lookup, translation | the order of the middlewares | who is refused has changed nothing |
| Mail transport, storage and OIDC clients, configuration, load generator, web front end, infrastructure | - | translation and I/O | - | not modelled but for their outcomes, see section 11 |

Interactions: requests call interactors, which call repositories; the
repositories share the tables. The scheduler runs the dispatch, flush, reclaim
and cleaning jobs in every replica. Posting attaches images and therefore
competes with the reclaim job; deletions compete with posting; shutdown
competes with everything that is in memory. Roles, moderation and reports
compete for rows of `users`, which the audit record refers to.

## 2. Plan

In order of importance; all of it is done but for what the last item names.

1. `CommentLog` (abstract) and `CommentPosting` (implements it), `CommentPostingProofs`
   (numbers) and `CommentLogProofs` (keys, answers, the refinement).
2. `ContactMailbox` (abstract) and `ContactDispatch` (implements it),
   `ContactDispatchProofs`.
3. `ViewCount`, `ViewCountProofs`.
4. `ImageStore` (abstract) and `ImageLifecycle` (implements it), `ImageLifecycleProofs`.
5. `ModerationBoard` (abstract) and `Moderation` (implements it), `ModerationProofs`:
   roles, deletions, reports.
6. `Sessions`, extended by `ContactIntake` and by `Decoding`, composed in
   `Requests`, with `RequestsProofs`: what one request meets on its way, and
   several meet in the tables and the decoder.
7. `Listing`: pages of every list under changes, `ListingProofs`.
8. Left: `SyncCounter`; an abstract counter for `ViewCount`; and for the components
   other than posting what `WaitsEnd` and `PostsRunOut` say of it.

The components meet in the database only, and each module contains the part of
its neighbours that touches its rows: `CommentPosting` has thread deletion and
key expiry, `ImageLifecycle` has posts, avatar changes and moderation,
`ViewCount` has the scheduler and the shutdown sequence, `Moderation` has
deletions by authors and promotions at login. `Requests` composes sessions, the
contact form and the decoder, which share the path of a request. Four components
have an abstract specification, which says what the clients of the component can rely
on and nothing of how it is done: `CommentLog`, `ContactMailbox`, `ImageStore` and
`ModerationBoard`, each an `INSTANCE` of the detailed module under a refinement mapping.

Conventions: actions take the replica, request or row they are about; a step is
one SQL statement, one call of an external service, or one critical section,
because other processes can act between any two of these and not within one.
History variables are marked as such, and no action reads one except to keep it.

## 3. CommentPosting and CommentLog

`CommentPosting` is one call of `CommentRepository.Create` or
`CreateIdempotent` per request. `pc` is the place in the transaction:

    idle -> begin -> [claiming -> claimed | replay] -> [number] -> insert
         -> inserted -> [recorded] -> done

- `comments`, `deleted`, `dead`, `keys` are the *committed* rows. What a
  transaction has written and not committed is derived from `pc`, `seq` and the
  request's key (`HoldsKey`, `HoldsEntry`, `HoldsThread`), and is what other
  transactions wait for (`KeyBusy`, `EntryBusy`, `ThreadBusy`).
- `mode` is `COMMENT_POST_MODE`, read when the servers start. `ReadInOneSnapshot`
  is the single statement `CreateCommentAutoSeq` (`unique`), or `ThreadExists`
  and `NextCommentSeq` under one snapshot (`ssi`); `EnsureThreadAlive` and
  `NextCommentSeq` are two statements in `naive` and `pessimistic`, the first
  with `FOR UPDATE` in the latter.
- In `ssi` mode the snapshot of a request with a key is taken by the claim
  (`snap`). PostgreSQL may abort a serializable transaction at any statement or
  at COMMIT, also without a true conflict: `SerializationFailure`.
- `GiveUpOrRetry` is `retrier.do`: which errors are retried depends on the mode
  and on whether there is a key (`RetriesConflict`, `Attempts`).
- `Claim` is `INSERT ... ON CONFLICT DO NOTHING`, which waits for a transaction
  that holds the key; `ClaimTimeout` is the statement timeout, answered with 409
  and not retried. `Replay` reads the record in a statement of its own.
- `Commit` may take effect and yet return an error (`tx.go:279`). That error is not
  retried and is answered with a 500, of a comment that is stored: the tag `internal`
  stands for this, for every other 500, and for no answer at all when the process
  dies or the client has gone (`Abandon`, before COMMIT). A 500 thus leaves the caller
  in doubt; a 404, 409 or 422 may not, which is `RefusedStoresNothing`, and who tries
  again under a key finds out (`OnePostPerKey`, `AnswerIsStored`).
- Soft deletion of the thread is not blocked by the foreign key's
  `FOR KEY SHARE`, only by the `FOR UPDATE` of the pessimistic mode. So a comment
  may be committed into a thread deleted after the post looked at it, in three of the
  four modes. `LatePostRefused` states what holds in all of them, that who comes after
  the deletion posts nothing, and what the row lock adds: in the pessimistic mode the
  thread is alive at the COMMIT, also after look, deletion and insertion had to wait
  for each other. Two mutants break one half each: a look that ignores `deleted_at`,
  and a deletion that does not wait for the lock.

`CommentLog` is the promise: a post is one append of number n+1, together with
the record of its key, and each request is told one outcome. `ImplementsLog`
is `Log!Spec` under a refinement mapping that maps the committed rows to the log.

| Run | Instance | Checks |
|---|---|---|
| `comment_keys` | 3 uses of one key, one with another body; 4 modes; 2 attempts | `OnePostPerKey`, `KeyRecordedWithPost`, `AnswerIsStored`, `ImplementsLog` |
| `comment_races` | 3 posts to one thread, one with a key; 4 modes; 2 attempts | `GapFree`, `RefusedStoresNothing`, `ConflictMeansProgress`, `LatePostRefused`, `Answered` |

Why the bounds suffice: threads do not interact, so one is enough; a conflict
needs two posts and giving up needs one more; two attempts distinguish the
first, a retried and the last one. Three uses of a key are a first, a
repetition that may run beside it, and a mistaken reuse. Symmetry is used only
where two requests are indistinguishable and no liveness is checked.

Fairness (`FairSpec`): weak fairness of each request's own steps. A request that
has arrived runs on its own goroutine and connection, so it continues; the
claim that times out, serialization failures and crashes are not assumed to
happen. `Answered` then says that the waits on keys, index entries and row
locks never form a cycle.

## 4. ContactDispatch

A worker per replica: `ClaimPending` counts an attempt on up to `BatchSize` due
rows and hides them for the lease; `StartSend` takes the next one while
`elapsed` is below the budget (three quarters of the lease); `Send`/`SendFails`
is the SMTP dialogue, which may fail after the server took the mail; `MarkSent`,
`Fail` and `Reschedule` write outcomes guarded by `status = 'pending'`;
`SendAutoReply` follows the mark. `Crash` stands for a crash, a shutdown between
two messages and an error while an outcome is written: all leave the row as it
is.

What varies is chosen in `Init` as a scene: the messages, the attempts, the longest
connection and `maxCrashes`, the bound on crashes. Time is discrete, a tick being
75 s in the instances (lease 4, budget 3): only SMTP and waiting take time, and
`sendMax` is the connection's deadline. The order in which due rows are claimed
is left open. The metric of the oldest pending message only reads.

| Run | Instance | Checks |
|---|---|---|
| `contact_mail` | 2 replicas; a batch of 3, 2 with replies, without a crash; 2 messages and a crash; 1 message with connections longer than the lease, 2 attempts and a crash | `ExclusiveSend`, `DuplicatesExplained`, `OneReply`, `NothingLost`, `ImplementsMailbox`, `Settled` |
| `contact_crashing` | 1 row, 3 crashes, 2 attempts | `CutOffAtLimit`, *violated* |

A batch of three with two replies is the shortest that uses up the lease. In the
third scene stale workers do overlap, which `LeaseFits` excludes elsewhere.
`LeaseFits` (4 * sendMax <= Lease) is the relation between the default lease and
the SMTP timeout that the budget relies on.

`ContactMailbox` is the promise: a message is received, taken up, mailed, and settled
once, as sent when a mail arrived and as failed when its attempts are used up. There
are no workers and no time in it. Its `exact` is `LeaseFits`: with it, a message is
mailed only while it is open and no mail of it is known to have arrived, is given up
only if none did, and is replied to once; without it, mails and replies may be
too many, and all else still holds.

Fairness: weak fairness of time and of each worker, as the scheduler of each
replica starts the job again and again; crashes need not happen and are finite.

Finding: a row whose worker crashes every time is claimed for ever, because the
limit of attempts is looked at only after a failed send. Comments on the claim
say that it is cut off.

## 5. ViewCount

`Record` is two critical sections, the gate (`AllowUnknown`, `Suppress`,
`Allow`) and the counter (`Count`); `Flush` is `Take`, `Written` or
`WriteFails`, and `Restore`, run by the scheduler's job and once more by
`main` at the end. `phase` is the shutdown sequence: `srv.Shutdown`,
`sched.Wait` and the last flush, all under one deadline (`GraceOver`).
`WriteFails` may have committed (`MaxBroken` bounds how often). However `run` returns,
after the last flush (`Return`), at the deadline (`DrainTimeout`) or because the server
failed (`ServerFails`), the phase is `closing`: the deferred `pool.Close` (`main.go:65`)
waits for every connection that is out, of a flush (`fpc`) or of a request or another
job that nobody waited for (`lent`, which `GiveBack` may end), and then the process ends
(`Exit`). Requests go on meanwhile, a flush finds the pool closed, and `Die` is a kill at
any time.
One replica: others only add their own increments. `SyncCounter`, which writes
each view at once, is not modelled. Ages are capped at the window.

| Run | Instance | Checks |
|---|---|---|
| `view_counting` | 4 views (a visitor twice, another one, nobody), window of 2 units, room for 1 key, 1 ambiguous write | `Conserved`, `CleanExitWritesAll`, `OncePerWindow`, `ShutdownEnds`, `EventuallyWritten` |

Two units to the window let the sweep fall in the middle of a key's window,
which is where a wrong sweep shows; one key of room makes the gate overflow.

Fairness: the job's timer, the deadline, `main` and each flush go on; the write
of the job returns, and succeeds if it can again and again (strong fairness). Requests
may hang for ever, with a connection too (no fairness of `GiveBack`), and nobody need
shut the process down. `ShutdownEnds` therefore says that `run` returns in any case, and
the process ends unless a connection never comes back.

A remark: the comment at `main.go:424-425` says that once the grace is used up the
process goes down without waiting. `run` returns then, but the deferred `pool.Close`
waits without a deadline for what the jobs and requests still hold, and `pool.go` sets
no timeout of statements: a call that hangs keeps the process until it is killed. This is
the state that `ShutdownEnds` has to except (`lent` for ever).

Another: a write that was committed and whose answer is lost is put back and
written again, although a comment of `viewcount.go` says that nothing is counted
twice. `Conserved` allows for exactly these writes (`MaxBroken`).

## 6. ImageLifecycle

`row`, `claimed`, `attached`, `aged` are the columns of `images`, `object` the
storage, `posts` and `avatar` what refers to images. An upload is row, object,
row (`CreatePending`, `Put`, `Commit`). A post checks the image (`EnsureOwned`)
and later attaches it under a row lock that looks again (`Attach`); an avatar
change locks the user first (`LockUser`). The reclaim statement is two steps:
`Scan` takes the snapshot, `Lock` is `FOR UPDATE SKIP LOCKED`, which looks at a
changed row again but not at the tables that refer to it: this is why the code
keeps `attached_at`. Then `Claim` commits, and objects and rows are deleted one by
one, any of which may fail.

An upload is over within the grace (guard of `Age`): the grace is hours, an
upload has a request timeout. Avatars are those of one user, ownership and kind
are in `Wants`. `failed` and `excused` record the failures the code logs, claims
cut short by a crash, and images moderated while still uploading, which
`images.sql` accepts as a leak.

`ImageStore` is the promise, without requests under way, locks, snapshots and
replicas: an image is used only while it can be shown, is claimed only if a moderator
deleted it or nobody uses it, and once claimed loses its object before its row. Its
`lost` is `failed` and `excused` together. That a referenced image keeps row and
object (`ReferencedKept`) follows from it (section 10).

| Run | Instance | Checks |
|---|---|---|
| `image_posts` | 2 posts of one image, an avatar, 2 sweepers | `ImplementsStore`, `NoLeak`, `OneSweeper` |
| `image_avatars` | an avatar set and removed, an orphan, 1 sweeper | `AttachedIsReferenced`, `Reclaimed` |

Deadlock checking is off in these runs: requests happen once, and when they are
over and nothing is left to reclaim the model stops.

Fairness: requests end, the reclaim job goes on, and a replica is not restarted
at the same statement every time (strong fairness of `Lock` and `Claim`).

A remark: an object whose deletion failed is never tried again, as its row stays
claimed (`reclaim.go:135`); the comment on `ReclaimResult.Failed` (`reclaim.go:36`)
says that the next round does. `NoLeak` and `Reclaimed` count these objects.

## 7. Moderation

A state has one `pc` per request, the committed `role`, `alive` and `reports`,
and the row locks of each transaction. Roles changed and items deleted by a
transaction are written by `Commit`; before it, they are only the locks that
others wait for. What is asked, by whom and of whom, is a *scene* chosen in
`Init`, with the roles everybody starts with.

- `Authenticate` is the session lookup and the checks of permission: the only
  time the actor's role is read.
- A change to another role than `admin` runs `ensureAdminRemains`: `Snapshot`
  and one `LockAdmin` per row are `LockAdminsAndCount` (the row is locked, then
  looked at again, and counted if it is still an administrator's), `FindRole`
  reads the target's role and decides. A change to `admin` counts nothing.
- `ChangeRole` or `SoftDelete` takes the row, `RecordAction` appends to `log`
  (the order of `moderation_actions.id`; a record whose request is not "ok" in the end
  was rolled back) and needs `FOR KEY SHARE` on the actor's row, which
  `FOR UPDATE` of a count excludes. Hence deadlocks: a promotion holds its
  target's row and wants its actor's, a demotion holds the actor's and wants the
  target's. `DeadlockVictim` is PostgreSQL's answer; the code does not retry.
- `Withdraw` (the author deletes), `Login`, `CheckTarget`, `File` and `Resolve`
  are statements of their own, with the locks their foreign keys need.
- `Succeed` ends what takes effect, a transaction or a single statement. Its answer
  may be an error nevertheless, when the connection breaks after the COMMIT: the request
  is then "ok" and in `lost`, and was told of an error. Nothing here is retried, so
  that neither this nor a failure before the COMMIT (`Fail`) is tried again; `MaxFails`
  bounds both together.
- `overtaken` is a history variable: a demotion that had found somebody who was
  not an administrator met one when it committed.

The order in which a count locks rows is open, as the query has no `ORDER BY`;
two counts may therefore deadlock too. Accounts are not withdrawn: no statement of the program sets
`users.deleted_at`.

`ModerationBoard` is the promise: a request is admitted by the role its user has when
it comes, and later takes effect in one step, together with its record and its
answer, or not at all; an answer "ok" is of a request that took effect, a refusal of one
that did not, and an error may be of either (`Effect`, `Break`). The last administrator is demoted only if it became one
meanwhile, one of those who delete an item succeeds, and a report keeps its reason
and its verdict (`ReportsKept`). The mapping shows a request as admitted while it
is in a transaction and as told of an error when its answer was lost (`Told`), counts
only records of requests that took effect
(`Recorded`), and takes the last of these on each user (`Latest`).

| Run | Instance | Checks |
|---|---|---|
| `moderating` | 3 users, 1 item, 5 scenes of 5 requests, 1 connection lost before or after a COMMIT | `AdminRemains`, `AuditTellsRole`, `DeletedOnce`, `ImplementsBoard`, `Answered` |
| `without_admin` | the scene `Relay`, no failure | `NeverWithoutAdmin`, *violated* |

The scenes are five because the requests of different kinds meet in few rows:
administrators demoting each other in a circle and one asking for its own demotion,
which is denied (`Mutual`), demotions against
promotions of the same users (`Tug`), one report filed and resolved twice while
its target is deleted (`Queue`), moderators and the author deleting one item, which is
reported, while one of them loses the role (`Gone`), and the passing of the role from one to the
next (`Relay`). Three administrators are the fewest of whom two may go.

Fairness (`FairSpec`): the server does not stop while some request can go on, and
PostgreSQL's deadlock detection is one of these steps. Which request goes first is
open, so `Answered` says that no order leads to a wait without end. The scenes
are finite and requests are not repeated, so starvation is not in question.

Finding: `FindRole` reads a role nobody has locked, and the update that follows
is unconditional. If the target was not an administrator then, but has become the
only one since, the demotion leaves none, against the comments of
`ensureAdminRemains` and ADR 0011. `AdminRemains` states what does hold, and
`overtaken` is exactly that window.

## 8. Sessions, ContactIntake, Decoding and Requests

`Sessions` follows a request from the browser that sends it to the answer the
browser takes, or never gets:

    idle -> sent -> handler -> [exchange -> create | save | wait -> decode -> store]
         -> answered -> done

- `Send` takes the cookies the browser has at that moment, `Receive` applies those
  of the answer: answers of several tabs overtake one another, and `Lose` drops
  them. `FlowLapses` is the ten minutes of the login cookies.
- `Turned` is `csrfGuard` and the limit of the body, in this order before the session
  is looked up; `ResolveSession` is that one query, and what the API
  description demands (`NeedsSession`). An error of the query is a 500.
- `StartGoogleLogin`, `Callback`, `Exchange` and `CreateSession` are the login; the
  provider (external) takes a code once. `Logout` deletes the row and only then
  clears the cookie. Errors of a statement may leave its effect behind.
- Tokens are random: a token is the request whose callback made it.
- `SessionsAge` and `DeleteExpired` are the clock and the cleaning job, which passes
  zero rows to a statement that puts a default in its place (`Clamped`).

`ContactIntake` adds the form: `Submit` is trap, check, limit in this order, `Save`
the insertion in a statement of its own, `ScrubClientIPs` the erasing of addresses.
`peak` is a history variable: how many were between the count and the insertion at
once. `Decoding` adds uploads: `Acquire` a slot, `Reencode`, and `Store` without the
slot. Headers may name any size (`DecodingAssumption`); what gets as far as the decoder
is `Decodable`. Its sizes are those of the code (25 million pixels, 1600, 614 MB), so
that the sums are done with the real numbers. `PeakBytes` is what is alive at once while
a PNG of 16 bits, the kind the estimate is made for, is scaled: what the estimate counts
(`CountedBytes`: source, buffer and result) and what it does not, the two rows the
decoder unfilters in (`RowBytes`) and the weights of `CatmullRom.Scale` (`TableBytes`,
64 bytes for every row and column of the source). `Requests` is the product, with one clock.

What requests there are is fixed by a *scene*: a job for each request, and who is
logged in at first.

| Run | Instance | Checks |
|---|---|---|
| `serving` | 2 browsers behind one address, 2 to 4 requests, 9 scenes; sessions live 2 ticks, a limit of 1 in a window of 1, addresses kept for 2, one row per cleaning statement | `SignedIn`, `LogoutIsFinal`, `LimitHolds`, `AcceptedIsStored`, `MemoryHolds`, `DecoderFree`, `OldDataGoes` |
| `thin_image` | one upload of 1 x 25000000 | `EstimateHolds`, *violated* |

The scenes are: in and out, from nobody and from another account; two tabs, one of
which is refused consent; one callback opened twice and in another browser; three
submissions of one address; submissions without an address, invalid, foreign, caught
by the trap, too large; three uploads; a picture 200000 wide and 125 high, just in
proportion, and one without any pixel.
Kinds that share no row are not mixed. A limit
of one with three submissions has one accepted, one in between and one refused. One
row per statement makes every cleaning take several rounds.

Fairness: decoders end, the channel of slots serves a waiting upload, and the cleaning
jobs are started again and again. Nothing is assumed of clients, storage or provider:
`DecoderFree` therefore says that no upload waits because of a slow storage, and
`OldDataGoes` that again and again nothing expired is left.

Finding: the scaler's buffer is as wide as the result and as high as the source. For a
thin image the short side is rounded up to one, the proportion is lost, and the buffer
has as many cells as the source has pixels: 800 MB, more than the estimate and the
whole budget. `EstimateHolds` is the sentence of the comment, about the buffer alone.
`MemoryHolds` states what does hold: no side of the result is rounded up to one when
neither side of the image is more than 1600 times the other (`InProportion`), and then
all that `PeakBytes` counts fits the budget. A flat image is excluded too: its buffer is
small, but the weights of 25000000 x 1 take 1.6 GB, of which the estimate says nothing.

Remarks on behaviour that no property of ours forbids: every error of the exchange is
answered with 401, an unreachable provider too; a logout answer that arrives after
the answer of a newer login drops the new cookie (the row lives on until it expires);
`CONTACT_IP_RETENTION_DAYS=0` erases addresses before the limit can count them, hence
`Window <= Retention` in `LimitHolds`.

## 9. Listing

A client reads a list page by page: `Open`, then `Follow` with the cursor of the last
answer, or `Paste` it into another list of threads, or `Damage` it. `Refuse` is
`DecodeCursor` and the comparison of orders. Each of the list statements is an operator
from a cursor to the rows behind it (`ListThreads`, `ListPopular`, `ListReports`, ...),
and an answer is the first `size` of them in the order of the list (`IsPage`). The
queue of reports reads one row more than it shows; the other lists may end with an
empty page.

Meanwhile `Insert` gives out an id before its row becomes visible (`Finish`), `Remove`
deletes a row or resolves a report, `Flush` raises view counts of several threads in
one statement, and `DeleteThread` removes the thread between the two statements of
`FetchComments`. `seen`, `again` and `due` are history: what was shown, whether twice,
and what was in the list all along. A thread that climbs past the reader in the order
of popularity is no longer due: ADR 0006 (143-150) and a comment of
`threads.sql.go` (531-535) accept that loss.

A remark: both say that rows are repeated as well as left out when a count moves between
two pages. Nothing is repeated: counts only rise, so that a thread already shown moves
away from the pages to come, and `NoRepeat` holds with counts that rise at any time, in
the run and as a theorem. The documents are too pessimistic in this.

| Run | Instance | Checks |
|---|---|---|
| `listing` | 3 rows, counts up to 2, pages of 1 and 2, all 8 lists | `NoRepeat`, `NothingSkipped`, `WalkEnds` |

Three rows and pages of one or two give a first, a middle and a last page, and a page
that is full though nothing follows. The initial states are all contents of a table,
so that nothing need happen before the walk, and changes stop when it is over. Two
counts above zero let a thread overtake another one, or draw level.

Fairness: a request is answered, and a client with a cursor goes on. `WalkEnds` holds
since ids only grow and counts are bounded in the instance: against a table that
grows faster than it is read the queue of reports, the oldest first, has no end.

Deadlock checking is off: the walk ends.

## 10. What is proved

For any sets of requests, threads, keys, visitors and users, any mode and any limit,
from the named assumptions on the constants in each module alone. Few
of the properties are inductive as they stand: each module names the strengthening.

- `CommentPostingProofs`: `TypeCorrect`, `NumbersUnique`, `NumbersGapFree`,
  `NumbersKept`. None but the last is inductive. `NumberInv` adds to `TypeOK` and
  `SeqUnique` that the numbers in use in a thread are an initial segment
  (`Segments`), that a number in hand, also one only in a serializable
  snapshot, has every smaller one in use (`NumbersInHand`), and that an
  uncommitted index entry is neither in use nor in another hand
  (`EntriesFree`). Every step but `Commit` changes one request and no comment,
  and owes the invariant only that request's number (`Owes`,
  `UncommittedStep`); `CommitStep` then shows that the committed number is
  exactly n + 1. Type correctness itself needs the invariant: `Max` of the used
  numbers is a natural number only because they are an initial segment.
- `CommentLogProofs`: the remaining properties of posting, and `PostingImplementsLog`.
  `PostInv` adds to `NumberInv` that whoever has claimed a key is alone with it and
  nothing is recorded under it (`KeyHeld`), that a request posts in its last step, and
  then answers "created" or with a 500 (`AnsweredLast`), that every record, one seen only in a snapshot included,
  names a comment posted under its key (`RecordsGenuine`), that whoever has seen the
  thread alive arrived while it was (`AsBorn`), and, for honest conflicts, that
  each failed attempt has its winner: of the comments below the number in hand, at
  least one for each attempt came in since the request did (`Overtaken`). The
  refinement then takes one lemma per kind of step: a commit is the log's `Post`,
  the expiry of a key its forgetting, a deletion its deletion, the last step of a
  request its outcome, and all else stutters. Of `Answered`, two halves are within the
  prover's reach: `WaitsEnd`, that posts wait for one another in one order, key, thread,
  index entry, so that in any group of them somebody waits for nobody in it; and
  `PostsRunOut`, that every move of a request uses up one of its steps, nine for each
  attempt at most, whatever others do. What remains is that a request which waits for
  nobody moves, which is fairness.
- `ViewCountProofs`: `ViewTypes`, with the gate never over its limit;
  `ViewsConserved`, by an invariant that an idle flush holds no batch
  (`BatchesHeld`) and an account of each step; `CleanExit`, by an invariant
  (`ShutdownInv`) that says for each phase of a clean shutdown, `closing` included, which
  requests and flushes are over and that nothing is left where they worked; `OneViewPerWindow`,
  by an invariant (`Remembered`) that a key within its window is in the gate with
  its true age, unless the gate was full.
- `ContactDispatchProofs`: `SendingIsExclusive`, `DuplicatesHaveCause`, `RepliedOnce`,
  `NothingIsLost`, `OutcomeForGood`, for any lease, batch, backoff and number of
  attempts. `DispatchInv` says that a worker holds a row once (`Once`) and knows no
  more attempts than the table (`AttemptsKnown`), that a connection was opened within
  the budget (`InTime`), and hence that the rows a worker sends or will send stay
  hidden until its lease is over (`Hidden`) and are nobody else's (`Alone`); each mail
  is then accounted for by its row, by the worker about to mark it, or as unconfirmed
  (`Accounted`, `ReplyPending`). Whatever concerns two workers assumes `LeaseFits`.
  That the backoff is a natural number is not proved, as it is a power; `Typed`
  leaves the range of `wait` open, and nothing else depends on it. The refinement
  `DispatchIsMailbox` needs no `LeaseFits`, as the mailbox itself knows whether leases
  hold: where they do, `DispatchInv` gives the evidence the mailbox asks for with
  each mail, mark, reply and giving up, and where they do not, what is asked for is that
  a mail was sent or the attempts used up.
- `ImageLifecycleProofs`: `ImageTypes`, `ReferencedImagesKept`, `AttachedExactly`,
  `OneSweeperAtATime`, `NothingLeaks`, `DeletedForGood`. `ImageInv` says that posts and
  avatars want different images (`KindsApart`), that one avatar change is under way
  (`OneChange`) and that locks exclude each other (`LocksApart`); what is about
  to be written is usable (`WrittenUsable`), what a sweeper has locked is still to be
  reclaimed and what it works on is claimed (`SweepInv`), an upload that is over left
  its object (`UploadInv`), and a claimed object nobody failed to delete is still on
  the list of the sweeper that claimed it (`Followed`). `LifecycleIsStore` follows
  step by step: what is written at a commit is usable then (`WrittenUsable`), what a
  sweeper claims is unused then (`SweepInv`), and all else stutters or is one step of
  the store. `StoreKeepsUsed` proves of the abstract store alone that what is
  referred to keeps row and object, so that `ImplementsStore` is the stronger property.
- `ModerationProofs`: `TypeCorrect`, `SomebodyAdministers`, `DeletedByOne`,
  `RefusalIsRight`, `ReportsStay`, `RecordsTellRoles`, for any users, items, requests
  and scenes that start with an administrator, and any number of failures.
  `AdminRemains` is not inductive. `AdminInv` adds that locks held by two transactions
  never conflict (`Exclusion`), that whoever is about to record or commit holds the
  row it changes (`WriteHeld`), that whom a request has counted is an administrator
  whose row it holds `FOR UPDATE` (`CountedHeld`), and that a request past its check,
  having found an administrator, has counted another one (`AnotherCounted`): that
  one cannot be changed before the request commits. `DeleteInv` likewise adds
  that whoever is about to commit a deletion finds the item alive and is on
  record; `RefusalIsRight` adds that without promotions every administrator is
  counted or still to be (`AllCounted`), and `RecordsTellRoles` that whoever is about to
  commit a change has the last record on its target (`RecordedLast`). `ModerationIsBoard`
  needs all of these at once (`BoardInv`), and that records are of the requests that
  keep one, and the changes of a user have a last one (`LogInv`). Then the record that a
  commit makes visible becomes the last on its target (`LatestChanges`), and those on
  others stay as they were (`LatestStays`).
  `AlwaysAnAdmin` shows that what the comments say without condition, and the run
  `without_admin` refutes, is true where nobody is promoted meanwhile: what
  `FindRole` has read then still stands at the commit (`FoundStands`).
- `RequestsProofs`: `ServedAsOwner`, `LoggedOutForGood`, `LimitIsKept`,
  `FormTellsTruth`, `DecodersKeepToMemory`, `PeakBound`, for any scenes. `RequestsInv`
  says that a token somebody carries exists (`TokensMade`): its owner was signed in at
  first or the callback that made it has been answered, so that no row appears behind a
  token in use; where a request can be and what let it come there (`PlacesFit`); that it
  is served as the owner of its session from the lookup on (`Served`); what is stored
  (`Stored`) and what was erased (`ErasedLate`). For the limit, those stored lately and
  those in between are counted together (`LimitKept`), which is what a submission that
  passes can see. `DecodersKeepToMemory` sums over the decoders, and a sum is defined by
  recursion; but one decoder at most holds the slot (`OneDecoder`), so that the sum is
  over no element or one, which its definition gives without induction (`SumOfFew`).
  What one image takes is `PeakBound`: for any size that is `Decodable` and `InProportion`
  the peak is within the budget. It is non-linear arithmetic, laid out by hand: the
  shorter side of the result follows in proportion (`Quotient`), the product of it and
  the source's height is no more than 1600 times the shorter side of the source, and
  that side is at most the root of the pixels (`ShorterSide`), which gives the part the
  estimate counts (`CountedBound`); rows and tables grow with the longer side, and that
  is 200000 at most (`LongerSide`), for which the budget has room beside the estimate.
- `ListingProofs`: `NothingTwice` and `AllShown`, for tables, counts and pages of any
  size. `ListingInv` says that a cursor has the fields of its order (`CountFits`) and
  that only an acceptable one is answered (`TokenFits`), that all that was shown lies
  behind the reader (`SeenReached`) and all that is due was shown or lies ahead
  (`DueAhead`). The lemmas on pages show that the rows of a page come before all others
  behind the cursor, and that the last of them, the next cursor, has exactly the
  remaining ones behind it.

Type invariants, `SeqUnique`, `NeverRenumbered`, `NoWaitCycle`, `RetriesEnd`,
`RefusedOnlyLast` and `DeletedStays` are proved and not run; nor are `OutcomeStays`,
`ReportsKept` and `ReferencedKept` any more, which the runs of `ImplementsMailbox`,
`ImplementsBoard` and `ImplementsStore` include.

Only model-checked, on the instances above:

- liveness, which is out of the prover's reach, as are fairness and `ENABLED`:
  `Answered` (twice), `Settled`, `ShutdownEnds`, `EventuallyWritten`, `Reclaimed`,
  `WalkEnds`, `DecoderFree`, `OldDataGoes`;
- the three properties that are violated, of two of which a theorem says when they
  hold (`AlwaysAnAdmin`, `PeakBound`).

## 11. What is not modelled

- Of the HTTP layer, the translation of bodies, parameters and errors; code generated
  by oapi-codegen and sqlc (the statements themselves are modelled from the SQL);
  parsing and validation of fields, the parser of search terms, the SMTP dialogue, the
  S3 and OIDC clients, configuration and logging: translation and I/O. Their outcomes
  appear as choices in the modules above.
- Of a decoder's memory, all but the scaling of a plain PNG: the coefficients of a
  progressive JPEG and the passes of an interlaced PNG, which are gone before the
  scaler runs, turning by EXIF, the uploaded bytes, the encoder, and what Go's collector
  has not returned yet.
- Pixel work and the table of EXIF orientations, the load generator, the web front end,
  Terraform and the log queries: no shared state with the API's protocols.
- `SyncCounter`, the interactor that measures N+1 queries and the metric of the oldest
  pending message, which exist for measurements.
- In the modelled parts: content and ownership of posts, the retention of keys
  (a key may expire at any time after its commit), backoff times between
  retries of a post, and clock differences between replicas.
