------------------------------ MODULE ViewCount ------------------------------
(***************************************************************************)
(* Counting views in memory and writing them to threads.view_count         *)
(* (internal/viewcount/viewcount.go), by the scheduler's flush job         *)
(* (internal/scheduler/scheduler.go) and once more when the process is     *)
(* shut down (cmd/api/main.go).                                            *)
(*                                                                         *)
(* One replica: others only add their own increments to the same rows.     *)
(* Time is discrete, in units the deduplication window is a multiple of.   *)
(***************************************************************************)
EXTENDS Naturals, FiniteSets

CONSTANTS
  Request,      \* page views; a repetition is another request
  Visitor,      \* session IDs and client addresses
  Thread,
  Nobody,       \* VisitorOf[r] when r cannot be attributed
  VisitorOf,
  ThreadOf,
  Window,       \* the deduplication window
  MaxVisitors,  \* how many keys the gate remembers
  MaxBroken     \* bound: writes that commit and yet return an error

ASSUME ViewAssumption ==
  /\ IsFiniteSet(Request)
  /\ Nobody \notin Visitor
  /\ VisitorOf \in [Request -> Visitor \cup {Nobody}]
  /\ ThreadOf \in [Request -> Thread]
  /\ Window \in Nat \ {0}
  /\ MaxVisitors \in Nat \ {0}
  /\ MaxBroken \in Nat

Flusher == {"job", "final"}
VisitKey == Visitor \X Thread

VARIABLES
  pc,       \* where the Record of each request is
  known,    \* keys in visitorGate.seen
  age,      \* time since seen[k] was set, Window if longer
  sweep,    \* time since lastEvict, Window if longer
  counts,   \* Buffer.counts
  fpc,      \* where each Flush is
  batch,    \* what it took
  views,    \* threads.view_count
  phase,    \* the shutdown sequence of main
  grace,    \* shutdownCtx has not expired
  clean,    \* history: no step of the shutdown sequence failed
  lent,     \* when run has returned: a request or another job still holds a
            \* connection of the pool
  since,    \* history: time since a view of the key was last let through
  unseen,   \* history: keys last let through without being remembered
  doubled,  \* history: increments committed although the write failed
  broken    \* history: how many writes did so

gate == <<known, age, sweep, since, unseen>>
flush == <<fpc, batch>>
faults == <<doubled, broken>>
main == <<phase, grace, clean, lent>>
vars == <<pc, gate, counts, flush, views, main, faults>>

Key(r) == <<VisitorOf[r], ThreadOf[r]>>
Nothing == [t \in Thread |-> 0]
Plus(f, g) == [t \in Thread |-> f[t] + g[t]]
Older(n) == IF n < Window THEN n + 1 ELSE Window

Init ==
  /\ pc = [r \in Request |-> "idle"]
  /\ known = {} /\ unseen = {}
  /\ age = [k \in VisitKey |-> Window]
  /\ since = [k \in VisitKey |-> Window]
  /\ sweep = 0
  /\ counts = Nothing
  /\ fpc = [f \in Flusher |-> "idle"]
  /\ batch = [f \in Flusher |-> Nothing]
  /\ views = Nothing
  /\ phase = "up" /\ grace = TRUE /\ clean = TRUE /\ lent = FALSE
  /\ doubled = Nothing /\ broken = 0

Tick ==
  /\ phase # "exited"
  /\ age' = [k \in VisitKey |-> Older(age[k])]
  /\ since' = [k \in VisitKey |-> Older(since[k])]
  /\ sweep' = Older(sweep)
  /\ UNCHANGED <<pc, known, unseen, counts, flush, views, main, faults>>

-----------------------------------------------------------------------------
(* visitorGate and Buffer.Record.                                          *)

\* Mistake: the sweep forgets everybody.
SweepAll == IF sweep >= Window THEN {} ELSE known

\* evictExpiredLocked, once per window.
Swept == IF sweep >= Window THEN {k \in known : age[k] < Window} ELSE known

HasRoom(seen) == Cardinality(seen) < MaxVisitors

Goto(r, p) == pc' = [pc EXCEPT ![r] = p]

\* A request is served while the server runs or drains, and one that was not
\* waited for as long as the process is there.
Serving ==
  \/ phase \in {"up", "draining"}
  \/ phase = "closing" /\ fpc["final"] = "idle"

\* allow without a visitor: nothing to remember.
AllowUnknown(r) ==
  /\ Serving /\ pc[r] = "idle" /\ VisitorOf[r] = Nobody
  /\ Goto(r, "allowed")
  /\ UNCHANGED <<gate, counts, flush, views, main, faults>>

\* A view within the window of the last one is not counted, ...
Suppress(r) ==
  /\ Serving /\ pc[r] = "idle" /\ VisitorOf[r] # Nobody
  /\ Key(r) \in Swept /\ age[Key(r)] < Window
  /\ Goto(r, "ignored")
  /\ known' = Swept
  /\ sweep' = IF sweep >= Window THEN 0 ELSE sweep
  /\ UNCHANGED <<age, since, unseen, counts, flush, views, main, faults>>

\* ... any other is, and is remembered as long as there is room.
Allow(r) ==
  LET k == Key(r)
      remembers == k \in Swept \/ HasRoom(Swept) IN
    /\ Serving /\ pc[r] = "idle" /\ VisitorOf[r] # Nobody
    /\ ~(k \in Swept /\ age[k] < Window)
    /\ Goto(r, "allowed")
    /\ known' = IF remembers THEN Swept \cup {k} ELSE Swept
    /\ age' = IF remembers THEN [age EXCEPT ![k] = 0] ELSE age
    /\ sweep' = IF sweep >= Window THEN 0 ELSE sweep
    /\ since' = [since EXCEPT ![k] = 0]
    /\ unseen' = IF remembers THEN unseen \ {k} ELSE unseen \cup {k}
    /\ UNCHANGED <<counts, flush, views, main, faults>>

\* The second critical section of Record.
Count(r) ==
  /\ Serving /\ pc[r] = "allowed"
  /\ Goto(r, "counted")
  /\ counts' = [counts EXCEPT ![ThreadOf[r]] = @ + 1]
  /\ UNCHANGED <<gate, flush, views, main, faults>>

-----------------------------------------------------------------------------
(* Buffer.Flush.                                                           *)

Step(f, p) == fpc' = [fpc EXCEPT ![f] = p]
Over(f) == IF f = "job" THEN "idle" ELSE "done"

\* The context of the jobs is cancelled by SIGTERM, not by a server that
\* fails: pool.Close is the first of the deferred calls.
Cancelled ==
  \/ phase \notin {"up", "closing"}
  \/ phase = "closing" /\ (~grace \/ fpc["final"] # "idle")

\* The timer of the job fires; not once its context is cancelled.
Fire ==
  /\ ~Cancelled /\ fpc["job"] = "idle"
  /\ Step("job", "take")
  /\ UNCHANGED <<pc, gate, counts, batch, views, main, faults>>

\* evictExpired and take: the buffer is emptied before anything is written.
\* A pool that is closed has no connection to write with.
Take(f) ==
  /\ phase # "exited" /\ fpc[f] = "take"
  /\ known' = Swept
  /\ sweep' = IF sweep >= Window THEN 0 ELSE sweep
  /\ batch' = [batch EXCEPT ![f] = counts]
  /\ counts' = Nothing
  /\ Step(f, IF counts = Nothing THEN Over(f)
             ELSE IF phase = "closing" THEN "restore" ELSE "write")
  /\ UNCHANGED <<pc, age, since, unseen, views, main, faults>>

\* The final flush runs under shutdownCtx.
CanWrite(f) == f = "final" => grace

\* IncrementViewCounts succeeds, ...
Written(f) ==
  /\ phase # "exited" /\ fpc[f] = "write" /\ CanWrite(f)
  /\ views' = Plus(views, batch[f])
  /\ batch' = [batch EXCEPT ![f] = Nothing]
  /\ Step(f, Over(f))
  /\ UNCHANGED <<pc, gate, counts, main, faults>>

\* ... or returns an error, having committed or not: the statement is its
\* own transaction and the connection may break, or the context of the job
\* be cancelled, after the COMMIT.
WriteFails(f) ==
  /\ phase # "exited" /\ fpc[f] = "write"
  /\ \/ UNCHANGED <<views, faults>>
     \/ /\ CanWrite(f) /\ broken < MaxBroken
        /\ broken' = broken + 1
        /\ views' = Plus(views, batch[f])
        /\ doubled' = Plus(doubled, batch[f])
  /\ Step(f, "restore")
  /\ UNCHANGED <<pc, gate, counts, batch, main>>

\* Mistake: what was taken replaces what has come in since.
RestoreOver(f) ==
  /\ phase # "exited" /\ fpc[f] = "restore"
  /\ counts' = [t \in Thread |-> IF batch[f][t] > 0 THEN batch[f][t] ELSE counts[t]]
  /\ batch' = [batch EXCEPT ![f] = Nothing]
  /\ Step(f, Over(f))
  /\ clean' = (clean /\ f = "job")
  /\ UNCHANGED <<pc, gate, views, phase, grace, lent, faults>>

\* Mistake: a failed write is only logged.
RestoreNothing(f) ==
  /\ phase # "exited" /\ fpc[f] = "restore"
  /\ batch' = [batch EXCEPT ![f] = Nothing]
  /\ Step(f, Over(f))
  /\ clean' = (clean /\ f = "job")
  /\ UNCHANGED <<pc, gate, counts, views, phase, grace, lent, faults>>

\* restore adds to what has come in since.
Restore(f) ==
  /\ phase # "exited" /\ fpc[f] = "restore"
  /\ counts' = Plus(counts, batch[f])
  /\ batch' = [batch EXCEPT ![f] = Nothing]
  /\ Step(f, Over(f))
  /\ clean' = (clean /\ f = "job")
  /\ UNCHANGED <<pc, gate, views, phase, grace, lent, faults>>

-----------------------------------------------------------------------------
(* The shutdown sequence of main.                                          *)

Move(p, ok) == phase' = p /\ clean' = (clean /\ ok)
rest == <<pc, gate, counts, batch, views, faults>>

\* SIGTERM: srv.Shutdown waits for the requests being served.
Shutdown ==
  /\ phase = "up" /\ Move("draining", TRUE)
  /\ UNCHANGED <<rest, fpc, grace, lent>>

\* The time of SHUTDOWN_TIMEOUT, shared by all that follows.
GraceOver ==
  /\ phase \in {"draining", "waiting", "flushing"} /\ grace
  /\ grace' = FALSE
  /\ UNCHANGED <<rest, fpc, phase, clean, lent>>

\* Mistake: the last flush comes before the requests are drained.
DrainedAtOnce ==
  /\ phase = "draining"
  /\ Move("waiting", TRUE)
  /\ UNCHANGED <<rest, fpc, grace, lent>>

Drained ==
  /\ phase = "draining" /\ \A r \in Request : pc[r] # "allowed"
  /\ Move("waiting", TRUE)
  /\ UNCHANGED <<rest, fpc, grace, lent>>

\* Mistake: Shutdown is given a context without a deadline.
DrainForever ==
  /\ phase = "draining" /\ ~grace /\ \A r \in Request : pc[r] # "allowed"
  /\ Move("closing", FALSE)
  /\ UNCHANGED <<rest, fpc, grace, lent>>

\* srv.Shutdown returns an error, and so does run: nothing is flushed, and
\* the requests go on, with the connections they have.
DrainTimeout ==
  /\ phase = "draining" /\ ~grace
  /\ Move("closing", FALSE)
  /\ lent' \in BOOLEAN
  /\ UNCHANGED <<rest, fpc, grace>>

\* sched.Wait, until no job runs or the grace is over.
Waited ==
  /\ phase = "waiting" /\ (fpc["job"] = "idle" \/ ~grace)
  /\ Move("flushing", fpc["job"] = "idle")
  /\ Step("final", "take")
  /\ UNCHANGED <<rest, grace, lent>>

\* run returns.  Jobs that Wait gave up on may still hold connections.
Return ==
  /\ phase = "flushing" /\ fpc["final"] = "done"
  /\ Move("closing", TRUE)
  /\ lent' \in {FALSE, ~grace}
  /\ UNCHANGED <<rest, fpc, grace>>

\* ListenAndServe fails, and run returns its error without a shutdown.
ServerFails ==
  /\ phase = "up"
  /\ Move("closing", FALSE)
  /\ lent' \in BOOLEAN
  /\ UNCHANGED <<rest, fpc, grace>>

\* What the requests and the other jobs still asked of the database returns.
GiveBack ==
  /\ phase = "closing" /\ lent
  /\ lent' = FALSE
  /\ UNCHANGED <<rest, fpc, phase, grace, clean>>

\* The deferred pool.Close returns when every connection has come back, and
\* the process ends.
Exit ==
  /\ phase = "closing" /\ ~lent /\ \A f \in Flusher : fpc[f] # "write"
  /\ Move("exited", TRUE)
  /\ UNCHANGED <<rest, fpc, grace, lent>>

\* The process is killed.
Die ==
  /\ phase # "exited"
  /\ Move("exited", FALSE)
  /\ UNCHANGED <<rest, fpc, grace, lent>>

Ended == phase = "exited" /\ UNCHANGED vars

-----------------------------------------------------------------------------
Record(r) == AllowUnknown(r) \/ Suppress(r) \/ Allow(r) \/ Count(r)
Flush(f) == Take(f) \/ Written(f) \/ WriteFails(f) \/ Restore(f)
Main == Drained \/ DrainTimeout \/ Waited \/ Return \/ Exit

Next ==
  \/ Tick
  \/ \E r \in Request : Record(r)
  \/ Fire
  \/ \E f \in Flusher : Flush(f)
  \/ Shutdown \/ GraceOver \/ Main \/ ServerFails \/ GiveBack \/ Die
  \/ Ended

Spec == Init /\ [][Next]_vars

\* The job runs again and again, its writes return and do not fail for
\* ever, deadlines come.  Requests may hang, with a connection too, and nobody
\* need shut down.  The last flush may fail.
FairSpec ==
  /\ Spec
  /\ WF_vars(Fire) /\ WF_vars(GraceOver) /\ WF_vars(Main)
  /\ \A f \in Flusher : WF_vars(Flush(f))
  /\ SF_vars(Written("job"))

-----------------------------------------------------------------------------
(* Properties.                                                             *)

Increments == [Thread -> Nat]

TypeOK ==
  /\ pc \in [Request -> {"idle", "allowed", "ignored", "counted"}]
  /\ known \subseteq VisitKey /\ Cardinality(known) <= MaxVisitors
  /\ unseen \subseteq VisitKey
  /\ age \in [VisitKey -> 0 .. Window]
  /\ since \in [VisitKey -> 0 .. Window]
  /\ sweep \in 0 .. Window
  /\ counts \in Increments
  /\ fpc \in [Flusher -> {"idle", "take", "write", "restore", "done"}]
  /\ batch \in [Flusher -> Increments]
  /\ views \in Increments
  /\ phase \in {"up", "draining", "waiting", "flushing", "closing", "exited"}
  /\ grace \in BOOLEAN /\ clean \in BOOLEAN /\ lent \in BOOLEAN
  /\ doubled \in Increments
  /\ broken \in 0 .. MaxBroken

Counted(t) == {r \in Request : pc[r] = "counted" /\ ThreadOf[r] = t}

\* Every counted view is in the buffer, in the hands of one flush or in the
\* table, once: the buffer emptied while others count, the failed writes and
\* the two flushes of a shutdown neither drop nor repeat one, except those a
\* failed write had committed.
Conserved ==
  \A t \in Thread :
    views[t] + counts[t] + batch["job"][t] + batch["final"][t]
      = Cardinality(Counted(t)) + doubled[t]

\* A shutdown in which no step failed leaves nothing in memory: every view
\* counted is in the table, those of the last requests and of a flush that
\* was running included.
CleanExitWritesAll ==
  phase = "exited" /\ clean =>
    /\ \A r \in Request : pc[r] # "allowed"
    /\ \A t \in Thread : views[t] = Cardinality(Counted(t)) + doubled[t]

\* A visitor's view of a thread is let through once per window, however the
\* views, the sweeps of the gate and those of the flush interleave, unless
\* the gate was full when it was last let through.
OncePerWindow ==
  [][\A r \in Request :
       /\ pc[r] = "idle" /\ pc'[r] = "allowed" /\ VisitorOf[r] # Nobody
       /\ Key(r) \notin unseen
       => since[Key(r)] >= Window]_vars

\* A shutdown that has begun ends, with requests that hang or a database that
\* does not answer: run returns within its deadline, and then the process, but
\* for a call without a deadline that never gives its connection back, which
\* pool.Close waits for.
ShutdownEnds ==
  <>[](phase \in {"up", "exited"} \/ (phase = "closing" /\ lent))

\* What was counted reaches the table after failures, as long as the process
\* runs its jobs.
EventuallyWritten ==
  <>[](\/ phase \in {"closing", "exited"}
       \/ \A t \in Thread : views[t] >= Cardinality(Counted(t)))

=============================================================================
