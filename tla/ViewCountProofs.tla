--------------------------- MODULE ViewCountProofs ---------------------------
(***************************************************************************)
(* Theorems about ViewCount, for any number of requests, visitors and      *)
(* threads, any window and any limit of the gate.                          *)
(***************************************************************************)
EXTENDS ViewCount, FiniteSetTheorems, TLAPS

TypeInv == TypeOK /\ IsFiniteSet(known)

\* What is left of a sweep is part of what was remembered.
LEMMA SweptSmaller ==
  ASSUME TypeInv
  PROVE  /\ Swept \subseteq known
         /\ IsFiniteSet(Swept)
         /\ Cardinality(Swept) \in Nat
         /\ Cardinality(Swept) <= MaxVisitors
<1>1. Swept \in SUBSET known
  BY DEF Swept
<1>2. IsFiniteSet(Swept) /\ Cardinality(Swept) <= Cardinality(known)
  BY <1>1, FS_Subset DEF TypeInv
<1>3. Cardinality(Swept) \in Nat /\ Cardinality(known) \in Nat
  BY <1>2, FS_CardinalityType DEF TypeInv
<1> QED BY <1>1, <1>2, <1>3, ViewAssumption DEF TypeInv, TypeOK

\* Sums of increments are increments.
LEMMA PlusType ==
  ASSUME NEW f \in Increments, NEW g \in Increments
  PROVE  Plus(f, g) \in Increments
BY DEF Plus, Increments

\* The empty buffer is a buffer.
LEMMA NothingType == Nothing \in Increments
BY DEF Nothing, Increments

\* The process starts well typed.
LEMMA TypeInit == Init => TypeInv
<1> SUFFICES ASSUME Init PROVE TypeInv
  OBVIOUS
<1>1. IsFiniteSet(known) /\ Cardinality(known) = 0
  BY FS_EmptySet DEF Init
<1>2. grace \in BOOLEAN /\ clean \in BOOLEAN /\ lent \in BOOLEAN
  BY DEF Init
<1> QED
  BY <1>1, <1>2, NothingType, ViewAssumption DEF Init, TypeInv, TypeOK, Flusher

\* A view that is let through: the gate stays within its limit.
LEMMA AllowType ==
  ASSUME TypeInv, NEW r \in Request, Allow(r)
  PROVE  TypeInv'
<1> DEFINE k == Key(r)
<1>1. k \in VisitKey
  BY ViewAssumption DEF Allow, Key, VisitKey
<1>2. IsFiniteSet(Swept \cup {k})
      /\ Cardinality(Swept \cup {k})
           = IF k \in Swept THEN Cardinality(Swept) ELSE Cardinality(Swept) + 1
  BY SweptSmaller, FS_AddElement
<1>3. known' \subseteq VisitKey /\ IsFiniteSet(known')
      /\ Cardinality(known') <= MaxVisitors
  BY <1>1, <1>2, SweptSmaller, ViewAssumption
     DEF Allow, HasRoom, TypeInv, TypeOK
<1>4. age' \in [VisitKey -> 0 .. Window] /\ since' \in [VisitKey -> 0 .. Window]
      /\ unseen' \subseteq VisitKey /\ sweep' \in 0 .. Window
  BY <1>1, ViewAssumption DEF Allow, TypeInv, TypeOK
<1>5. pc' \in [Request -> {"idle", "allowed", "ignored", "counted"}]
  BY DEF Allow, Goto, TypeInv, TypeOK
<1> QED BY <1>3, <1>4, <1>5 DEF Allow, TypeInv, TypeOK, flush, main, faults

\* Every other step keeps the types too.
LEMMA TypeStep == TypeInv /\ [Next]_vars => TypeInv'
<1> SUFFICES ASSUME TypeInv, [Next]_vars PROVE TypeInv'
  OBVIOUS
<1> USE DEF TypeInv, TypeOK, gate, flush, main, faults, rest
<1>1. CASE Tick
  <2>1. \A n \in 0 .. Window : Older(n) \in 0 .. Window
    BY ViewAssumption DEF Older
  <2> QED BY <1>1, <2>1 DEF Tick
<1>2. ASSUME NEW r \in Request, Record(r) PROVE TypeInv'
  <2>1. CASE AllowUnknown(r)
    BY <2>1 DEF AllowUnknown, Goto
  <2>2. CASE Suppress(r)
    BY <2>2, SweptSmaller, ViewAssumption DEF Suppress, Goto
  <2>3. CASE Allow(r)
    BY <2>3, AllowType
  <2>4. CASE Count(r)
    <3>1. pc' \in [Request -> {"idle", "allowed", "ignored", "counted"}]
      BY <2>4 DEF Count, Goto
    <3>2. counts' \in Increments
      BY <2>4, ViewAssumption DEF Count, Increments
    <3> QED BY <2>4, <3>1, <3>2 DEF Count
  <2> QED BY <1>2, <2>1, <2>2, <2>3, <2>4 DEF Record
<1>3. CASE Fire
  BY <1>3 DEF Fire, Step, Flusher
<1>4. ASSUME NEW f \in Flusher, Flush(f) PROVE TypeInv'
  <2>1. CASE Take(f)
    BY <2>1, SweptSmaller, NothingType, ViewAssumption DEF Take, Step, Over
  <2>2. CASE Written(f)
    BY <2>2, NothingType, PlusType DEF Written, Step, Over
  <2>3. CASE WriteFails(f)
    BY <2>3, PlusType, ViewAssumption DEF WriteFails, Step
  <2>4. CASE Restore(f)
    BY <2>4, NothingType, PlusType DEF Restore, Step, Over
  <2> QED BY <1>4, <2>1, <2>2, <2>3, <2>4 DEF Flush
<1>5. CASE Shutdown \/ GraceOver \/ Main \/ ServerFails \/ GiveBack \/ Die
  BY <1>5 DEF Shutdown, GraceOver, Main, Drained, DrainTimeout, Waited, Return,
              Exit, ServerFails, GiveBack, Die, Move, Step, Flusher
<1>6. CASE UNCHANGED vars
  BY <1>6 DEF vars
<1> QED BY <1>1, <1>2, <1>3, <1>4, <1>5, <1>6 DEF Next, Ended

\* The types, the bound of the gate included, hold in every state.
THEOREM ViewTypes == Spec => []TypeOK
<1>1. Spec => []TypeInv
  BY TypeInit, TypeStep, PTL DEF Spec
<1>2. TypeInv => TypeOK
  BY DEF TypeInv
<1> QED BY <1>1, <1>2, PTL

-----------------------------------------------------------------------------
(* No increment is lost or repeated.                                       *)

\* One request more is counted.
LEMMA CountedMore ==
  ASSUME TypeInv, NEW r \in Request, Count(r), NEW t \in Thread
  PROVE  Cardinality(Counted(t)')
           = Cardinality(Counted(t)) + IF t = ThreadOf[r] THEN 1 ELSE 0
<1>1. IsFiniteSet(Counted(t))
  BY ViewAssumption, FS_Subset DEF Counted
<1>2. r \notin Counted(t)
  BY DEF Count, Counted
<1>3. Counted(t)' = IF t = ThreadOf[r] THEN Counted(t) \cup {r} ELSE Counted(t)
  BY DEF Count, Goto, Counted, TypeInv, TypeOK
<1>4. Cardinality(Counted(t) \cup {r}) = Cardinality(Counted(t)) + 1
  BY <1>1, <1>2, FS_AddElement
<1>5. Cardinality(Counted(t)) \in Nat
  BY <1>1, FS_CardinalityType
<1> QED BY <1>3, <1>4, <1>5

\* Requests that stay counted, or stay uncounted, leave the count as it is.
LEMMA CountedSame ==
  ASSUME NEW t \in Thread,
         \A r \in Request : pc'[r] = "counted" <=> pc[r] = "counted"
  PROVE  Counted(t)' = Counted(t)
BY DEF Counted

\* The views counted are finitely many.
LEMMA CountedType ==
  ASSUME NEW t \in Thread
  PROVE  Cardinality(Counted(t)) \in Nat
<1>1. IsFiniteSet(Counted(t))
  BY ViewAssumption, FS_Subset DEF Counted
<1> QED BY <1>1, FS_CardinalityType

\* At the start nothing is counted and nothing is held.
LEMMA ConservedInit == Init => Conserved
<1> SUFFICES ASSUME Init, NEW t \in Thread
             PROVE  views[t] + counts[t] + batch["job"][t] + batch["final"][t]
                      = Cardinality(Counted(t)) + doubled[t]
  BY DEF Conserved
<1>1. Counted(t) = {}
  BY DEF Init, Counted
<1>2. Cardinality(Counted(t)) = 0
  BY <1>1, FS_EmptySet
<1> QED BY <1>2 DEF Init, Nothing, Flusher

\* A flush holds increments only between taking and giving them back, and the
\* final one begins once.
BatchesHeld ==
  /\ \A f \in Flusher : fpc[f] \notin {"write", "restore"} => batch[f] = Nothing
  /\ fpc["final"] # "idle" => phase \in {"flushing", "closing", "exited"}

\* Each step leaves a flush either as it is or with empty hands.
LEMMA BatchesHeldStep == TypeInv /\ BatchesHeld /\ [Next]_vars => BatchesHeld'
<1> SUFFICES ASSUME TypeInv, BatchesHeld, [Next]_vars PROVE BatchesHeld'
  OBVIOUS
<1> USE DEF BatchesHeld, TypeInv, TypeOK, gate, flush, main, faults, rest
<1>1. CASE Tick \/ UNCHANGED vars
  BY <1>1 DEF Tick, vars
<1>2. ASSUME NEW r \in Request, Record(r) PROVE BatchesHeld'
  BY <1>2 DEF Record, AllowUnknown, Suppress, Allow, Count
<1>3. CASE Fire
  BY <1>3 DEF Fire, Step, Flusher
<1>4. ASSUME NEW f \in Flusher, Flush(f) PROVE BatchesHeld'
  <2>1. fpc[f] # "idle" /\ UNCHANGED phase
    BY <1>4 DEF Flush, Take, Written, WriteFails, Restore
  <2> QED BY <1>4, <2>1
          DEF Flush, Take, Written, WriteFails, Restore, Step, Over, Flusher
<1>5. CASE \/ Shutdown \/ GraceOver \/ Drained \/ DrainTimeout
           \/ Return \/ Exit \/ ServerFails \/ GiveBack \/ Die
  BY <1>5 DEF Shutdown, GraceOver, Drained, DrainTimeout, Return, Exit,
              ServerFails, GiveBack, Die, Move
<1>6. CASE Waited
  BY <1>6 DEF Waited, Move, Step, Flusher
<1> QED BY <1>1, <1>2, <1>3, <1>4, <1>5, <1>6 DEF Next, Ended, Main

\* The sum per thread, step by step.
LEMMA ConservedStep ==
  TypeInv /\ BatchesHeld /\ Conserved /\ [Next]_vars => Conserved'
<1> SUFFICES ASSUME TypeInv, BatchesHeld, Conserved, [Next]_vars, NEW t \in Thread
             PROVE  (views[t] + counts[t] + batch["job"][t] + batch["final"][t]
                       = Cardinality(Counted(t)) + doubled[t])'
  BY DEF Conserved
<1>1. views[t] + counts[t] + batch["job"][t] + batch["final"][t]
        = Cardinality(Counted(t)) + doubled[t]
  BY DEF Conserved
<1>2. /\ views[t] \in Nat /\ counts[t] \in Nat /\ doubled[t] \in Nat
      /\ batch["job"][t] \in Nat /\ batch["final"][t] \in Nat
      /\ Cardinality(Counted(t)) \in Nat
  BY CountedType DEF TypeInv, TypeOK, Increments, Flusher
<1>3. CASE UNCHANGED <<pc, counts, batch, views, doubled>>
  BY <1>1, <1>3 DEF Counted
<1>4. ASSUME NEW r \in Request, Record(r)
      PROVE  (views[t] + counts[t] + batch["job"][t] + batch["final"][t]
                = Cardinality(Counted(t)) + doubled[t])'
  <2>1. CASE Count(r)
    <3>1. counts'[t] = counts[t] + IF t = ThreadOf[r] THEN 1 ELSE 0
      BY <2>1, <1>2 DEF Count, TypeInv, TypeOK, Increments
    <3>2. UNCHANGED <<views, batch, doubled>>
      BY <2>1 DEF Count, flush, faults
    <3> QED BY <1>1, <1>2, <2>1, <3>1, <3>2, CountedMore
  <2>2. CASE AllowUnknown(r) \/ Suppress(r) \/ Allow(r)
    <3>1. \A q \in Request : pc'[q] = "counted" <=> pc[q] = "counted"
      BY <2>2 DEF AllowUnknown, Suppress, Allow, Goto, TypeInv, TypeOK
    <3>2. UNCHANGED <<views, counts, batch, doubled>>
      BY <2>2 DEF AllowUnknown, Suppress, Allow, flush, faults
    <3> QED BY <1>1, <3>1, <3>2, CountedSame
  <2> QED BY <1>4, <2>1, <2>2 DEF Record
<1>5. ASSUME NEW f \in Flusher, Flush(f)
      PROVE  (views[t] + counts[t] + batch["job"][t] + batch["final"][t]
                = Cardinality(Counted(t)) + doubled[t])'
  <2>0. Counted(t)' = Counted(t)
    BY <1>5 DEF Flush, Take, Written, WriteFails, Restore, Counted
  <2>1. /\ batch' \in [Flusher -> Increments]
        /\ \A g \in Flusher : g # f => batch'[g] = batch[g]
        /\ batch'[f] \in {batch[f], counts, Nothing}
    BY <1>5, NothingType
       DEF Flush, Take, Written, WriteFails, Restore, TypeInv, TypeOK
  <2>2. views[t] + counts[t] + batch[f][t] + doubled'[t]
          = views'[t] + counts'[t] + batch'[f][t] + doubled[t]
        /\ views'[t] \in Nat /\ counts'[t] \in Nat /\ doubled'[t] \in Nat
    <3> USE DEF TypeInv, TypeOK, Increments
    <3>1. CASE Take(f)
      BY <3>1, <1>2 DEF Take, BatchesHeld, Nothing, faults
    <3>2. CASE Written(f)
      BY <3>2, <1>2 DEF Written, Plus, Nothing, faults
    <3>3. CASE WriteFails(f)
      BY <3>3, <1>2 DEF WriteFails, Plus, faults
    <3>4. CASE Restore(f)
      BY <3>4, <1>2 DEF Restore, Plus, Nothing, faults
    <3> QED BY <1>5, <3>1, <3>2, <3>3, <3>4 DEF Flush
  <2>3. batch'["job"][t] \in Nat /\ batch'["final"][t] \in Nat
    BY <2>1 DEF Flusher, Increments
  <2>4. CASE f = "job"
    <3>1. batch'["final"][t] = batch["final"][t]
      BY <2>1, <2>4 DEF Flusher
    <3> QED BY <1>1, <1>2, <2>0, <2>2, <2>3, <2>4, <3>1
  <2>5. CASE f = "final"
    <3>1. batch'["job"][t] = batch["job"][t]
      BY <2>1, <2>5 DEF Flusher
    <3> QED BY <1>1, <1>2, <2>0, <2>2, <2>3, <2>5, <3>1
  <2> QED BY <2>4, <2>5 DEF Flusher
<1>6. CASE \/ Tick \/ Fire \/ Shutdown \/ GraceOver \/ Main
           \/ ServerFails \/ GiveBack \/ Die \/ UNCHANGED vars
  <2>1. UNCHANGED <<pc, counts, batch, views, doubled>>
    BY <1>6 DEF Tick, Fire, Shutdown, GraceOver, Main, Drained, DrainTimeout,
                Waited, Return, Exit, ServerFails, GiveBack, Die, vars, flush,
                faults, rest
  <2> QED BY <2>1, <1>3
<1> QED BY <1>4, <1>5, <1>6 DEF Next, Ended

\* Types, hands and sums together are inductive.
LEMMA Bookkeeping == Spec => [](TypeInv /\ BatchesHeld /\ Conserved)
<1>1. Init => TypeInv /\ BatchesHeld /\ Conserved
  BY TypeInit, ConservedInit DEF Init, BatchesHeld, Flusher
<1>2. TypeInv /\ BatchesHeld /\ Conserved /\ [Next]_vars
        => (TypeInv /\ BatchesHeld /\ Conserved)'
  BY TypeStep, BatchesHeldStep, ConservedStep
<1> QED BY <1>1, <1>2, PTL DEF Spec

\* However requests, flushes, failed writes and a shutdown interleave, no
\* counted view is dropped or repeated, but by a write that commits and fails.
THEOREM ViewsConserved == Spec => []Conserved
<1>1. TypeInv /\ BatchesHeld /\ Conserved => Conserved
  OBVIOUS
<1> QED BY Bookkeeping, <1>1, PTL

-----------------------------------------------------------------------------
(* A clean shutdown.                                                       *)

\* What the shutdown sequence has established, unless a step of it failed.
ShutdownInv ==
  /\ fpc["job"] # "done"
  /\ clean /\ phase \in {"waiting", "flushing", "closing", "exited"} =>
       \A r \in Request : pc[r] # "allowed"
  /\ clean /\ phase \in {"flushing", "closing", "exited"} => fpc["job"] = "idle"
  /\ clean /\ fpc["final"] \in {"write", "done"} => counts = Nothing
  /\ clean /\ phase \in {"closing", "exited"} => fpc["final"] = "done"

\* Every step keeps what the shutdown sequence has established.
LEMMA ShutdownStep ==
  TypeInv /\ BatchesHeld /\ ShutdownInv /\ [Next]_vars => ShutdownInv'
<1> SUFFICES ASSUME TypeInv, BatchesHeld, ShutdownInv, [Next]_vars
             PROVE  ShutdownInv'
  OBVIOUS
<1> USE DEF BatchesHeld, ShutdownInv, TypeInv, TypeOK, gate, flush, main, faults, rest
<1>1. CASE Tick \/ UNCHANGED vars
  BY <1>1 DEF Tick, vars
<1>2. ASSUME NEW r \in Request, Record(r) PROVE ShutdownInv'
  BY <1>2 DEF Record, AllowUnknown, Suppress, Allow, Count, Goto, Serving
<1>3. CASE Fire
  BY <1>3 DEF Fire, Cancelled, Step, Flusher
<1>4. ASSUME NEW f \in Flusher, Flush(f) PROVE ShutdownInv'
  <2>1. CASE Take(f)
    BY <2>1 DEF Take, Step, Over, Flusher
  <2>2. CASE Written(f)
    BY <2>2 DEF Written, Step, Over, Flusher
  <2>3. CASE WriteFails(f)
    BY <2>3 DEF WriteFails, Step, Flusher
  <2>4. CASE Restore(f)
    BY <2>4 DEF Restore, Step, Over, Flusher
  <2> QED BY <1>4, <2>1, <2>2, <2>3, <2>4 DEF Flush
<1>5. CASE Shutdown \/ GraceOver \/ Drained
  BY <1>5 DEF Shutdown, GraceOver, Drained, Move
<1>6. CASE Waited
  BY <1>6 DEF Waited, Move, Step, Flusher
<1>7. CASE DrainTimeout \/ ServerFails \/ Die
  <2>1. ~clean' /\ UNCHANGED fpc
    BY <1>7 DEF DrainTimeout, ServerFails, Die, Move
  <2> QED BY <2>1
<1>8. CASE Return \/ Exit
  <2>1. /\ clean' = clean /\ UNCHANGED <<fpc, pc, counts>>
        /\ phase \in {"flushing", "closing"} /\ phase' \in {"closing", "exited"}
    BY <1>8 DEF Return, Exit, Move
  <2>2. phase = "flushing" => fpc["final"] = "done"
    BY <1>8 DEF Return, Exit
  <2> QED BY <2>1, <2>2
<1>9. CASE GiveBack
  <2>1. UNCHANGED <<clean, fpc, pc, counts, phase>>
    BY <1>9 DEF GiveBack
  <2> QED BY <2>1
<1> QED
  BY <1>1, <1>2, <1>3, <1>4, <1>5, <1>6, <1>7, <1>8, <1>9 DEF Next, Ended, Main

\* A shutdown in which nothing failed leaves nothing in memory.
THEOREM CleanExit == Spec => []CleanExitWritesAll
<1>1. Init => ShutdownInv
  BY DEF Init, ShutdownInv, Flusher
<1>2. Spec => []ShutdownInv
  BY <1>1, ShutdownStep, Bookkeeping, PTL DEF Spec
<1>3. TypeInv /\ BatchesHeld /\ Conserved /\ ShutdownInv => CleanExitWritesAll
  <2> SUFFICES ASSUME TypeInv, BatchesHeld, Conserved, ShutdownInv,
                      phase = "exited", clean, NEW t \in Thread
               PROVE  views[t] = Cardinality(Counted(t)) + doubled[t]
    BY DEF CleanExitWritesAll, ShutdownInv
  <2>1. counts = Nothing /\ batch["job"] = Nothing /\ batch["final"] = Nothing
    BY DEF ShutdownInv, BatchesHeld, Flusher
  <2>2. views[t] \in Nat
    BY DEF TypeInv, TypeOK, Increments
  <2> QED BY <2>1, <2>2 DEF Conserved, Nothing
<1> QED BY <1>2, <1>3, Bookkeeping, PTL
-----------------------------------------------------------------------------
(* One view of a visitor per window.                                       *)

\* A key last let through less than a window ago is remembered, with its age,
\* unless the gate was full.
Remembered ==
  \A k \in VisitKey : k \notin unseen =>
    since[k] = Window \/ (k \in known /\ age[k] = since[k])

\* A sweep forgets only keys whose window is over.
LEMMA SweepRemembers ==
  ASSUME TypeInv, Remembered, NEW k \in VisitKey, k \notin unseen
  PROVE  since[k] = Window \/ (k \in Swept /\ age[k] = since[k])
BY ViewAssumption DEF Remembered, Swept, TypeInv, TypeOK

\* Every step keeps the gate's memory.
LEMMA RememberedStep == TypeInv /\ Remembered /\ [Next]_vars => Remembered'
<1> SUFFICES ASSUME TypeInv, Remembered, [Next]_vars,
                    NEW k \in VisitKey, k \notin unseen'
             PROVE  since'[k] = Window \/ (k \in known' /\ age'[k] = since'[k])
  BY DEF Remembered
<1> USE DEF TypeInv, TypeOK
<1>1. CASE Tick
  BY <1>1, ViewAssumption DEF Tick, Older, Remembered
<1>2. ASSUME NEW r \in Request, Record(r)
      PROVE  since'[k] = Window \/ (k \in known' /\ age'[k] = since'[k])
  <2>1. CASE AllowUnknown(r) \/ Count(r)
    BY <2>1 DEF AllowUnknown, Count, gate, Remembered
  <2>2. CASE Suppress(r)
    BY <2>2, SweepRemembers DEF Suppress
  <2>3. CASE Allow(r) /\ k = Key(r)
    BY <2>3 DEF Allow
  <2>4. CASE Allow(r) /\ k # Key(r)
    <3>1. k \notin unseen /\ since'[k] = since[k] /\ age'[k] = age[k]
      BY <2>4 DEF Allow
    <3> QED BY <2>4, <3>1, SweepRemembers DEF Allow
  <2> QED BY <1>2, <2>1, <2>2, <2>3, <2>4 DEF Record
<1>3. ASSUME NEW f \in Flusher, Take(f)
      PROVE  since'[k] = Window \/ (k \in known' /\ age'[k] = since'[k])
  BY <1>3, SweepRemembers DEF Take
<1>4. CASE UNCHANGED gate
  BY <1>4 DEF gate, Remembered
<1> QED
  BY <1>1, <1>2, <1>3, <1>4
  DEF Next, Flush, Fire, Written, WriteFails, Restore, Shutdown, GraceOver, Main,
      Drained, DrainTimeout, Waited, Return, Exit, ServerFails, GiveBack, Die,
      Ended, rest, vars

\* Whatever the sweeps of the gate and of the flushes, a visitor's views of a
\* thread are counted once per window (visitorGate.allow), unless the gate was
\* full when one was let through.
THEOREM OneViewPerWindow == Spec => OncePerWindow
<1>1. Init => Remembered
  BY DEF Init, Remembered
<1>2. Spec => []Remembered
  BY <1>1, RememberedStep, Bookkeeping, PTL DEF Spec
<1>3. TypeInv /\ Remembered /\ [Next]_vars =>
        [\A r \in Request :
           /\ pc[r] = "idle" /\ pc'[r] = "allowed" /\ VisitorOf[r] # Nobody
           /\ Key(r) \notin unseen
           => since[Key(r)] >= Window]_vars
  <2> SUFFICES ASSUME TypeInv, Remembered, Next, NEW r \in Request,
                      pc[r] = "idle", pc'[r] = "allowed", VisitorOf[r] # Nobody,
                      Key(r) \notin unseen
               PROVE  since[Key(r)] >= Window
    OBVIOUS
  <2> USE DEF TypeInv, TypeOK
  <2>1. PICK q \in Request : Record(q)
    BY DEF Next, Tick, Fire, Flush, Take, Written, WriteFails, Restore, Shutdown,
           GraceOver, Main, Drained, DrainTimeout, Waited, Return, Exit,
           ServerFails, GiveBack, Die, Ended, rest, vars
  <2>2. Allow(r)
    BY <2>1 DEF Record, AllowUnknown, Suppress, Allow, Count, Goto
  <2>3. Key(r) \in VisitKey
    BY ViewAssumption DEF Key, VisitKey
  <2>4. CASE since[Key(r)] = Window
    BY <2>4, ViewAssumption
  <2>5. CASE Key(r) \in Swept /\ age[Key(r)] = since[Key(r)]
    BY <2>2, <2>3, <2>5, ViewAssumption DEF Allow
  <2> QED BY <2>3, <2>4, <2>5, SweepRemembers
<1> QED BY <1>2, <1>3, Bookkeeping, PTL DEF Spec, OncePerWindow
=============================================================================
