------------------------- MODULE MCContactDispatch --------------------------
(***************************************************************************)
(* Instances of ContactDispatch for TLC.  Times are in units of 75         *)
(* seconds: the lease of 5 minutes is 4, its budget 3.                     *)
(***************************************************************************)
EXTENDS ContactDispatch, TLC

CONSTANTS c1, c2, c3, w1, w2

\* A batch of three that uses up the lease, with two replies between.
LongBatch == [rows |-> {c1, c2, c3}, maxAttempts |-> 1, sendMax |-> 1, maxCrashes |-> 0]

\* Two messages, and a crash between any two steps.
CutShort == [rows |-> {c1, c3}, maxAttempts |-> 1, sendMax |-> 1, maxCrashes |-> 1]

\* Connections slower than the lease allows, so that workers do overlap.
Overrun == [rows |-> {c1}, maxAttempts |-> 2, sendMax |-> 5, maxCrashes |-> 1]

MailScenes == {LongBatch, CutShort, Overrun}

\* A row whose worker crashes at every attempt.
CrashLoop ==
  {[rows |-> {c1}, maxAttempts |-> 2, sendMax |-> 1, maxCrashes |-> 3]}
=============================================================================
