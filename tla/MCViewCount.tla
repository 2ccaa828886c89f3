----------------------------- MODULE MCViewCount -----------------------------
(***************************************************************************)
(* Instances of ViewCount for TLC.                                         *)
(***************************************************************************)
EXTENDS ViewCount, TLC

CONSTANTS q1, q2, q3, q4, v1, v2, t1, t2

\* Somebody twice, somebody else, and a view that cannot be attributed.
Viewers == (q1 :> v1) @@ (q2 :> v1) @@ (q3 :> v2) @@ (q4 :> Nobody)
\* Views that all count.
Unattributed == [r \in Request |-> Nobody]

OneThread == [r \in Request |-> t1]
TwoThreads == (q1 :> t1) @@ (q2 :> t1) @@ (q3 :> t2) @@ (q4 :> t2)
=============================================================================
