------------------------------ MODULE Requests ------------------------------
(***************************************************************************)
(* The requests of Sessions, ContactIntake and Decoding together, as the   *)
(* server of internal/httpapi/server.go handles them: each in a goroutine  *)
(* of its own, over the same tables, with the jobs of cmd/api/main.go.     *)
(***************************************************************************)
EXTENDS ContactIntake, Decoding

vars == <<sessionVars, intakeVars>>

Init == SessionsInit /\ IntakeInit

\* A step of the clock ages all rows.
Tick ==
  /\ SessionsAge /\ IntakeAges
  /\ UNCHANGED <<requests, jars, owner, spent, filed, erased, peak>>

Next ==
  \/ SessionsNext /\ UNCHANGED intakeVars
  \/ IntakeNext
  \/ DecodingNext /\ UNCHANGED intakeVars
  \/ Tick

Spec == Init /\ [][Next]_vars

\* Decoders run to their end, the channel of slots serves whoever waits, and
\* the cleaning jobs are started again and again.  Nothing is assumed of
\* clients, of the storage or of the provider.
FairSpec ==
  /\ Spec
  /\ \A r \in Request :
       /\ WF_vars(Acquire(r) /\ UNCHANGED intakeVars)
       /\ WF_vars(Reencode(r) /\ UNCHANGED intakeVars)
  /\ WF_vars(DeleteExpired /\ UNCHANGED intakeVars)
  /\ WF_vars(ScrubClientIPs)

\* What has passed its time goes in the end, also more rows than one
\* statement takes: again and again there is no expired session left, and no
\* address kept for too long.
OldDataGoes == []<>(Expired = {} /\ Erasable = {})
=============================================================================
