-------------------------- MODULE MCCommentPosting --------------------------
(***************************************************************************)
(* Instances of CommentPosting for TLC.  Bodies are small numbers.         *)
(***************************************************************************)
EXTENDS CommentPosting, TLC

CONSTANTS r1, r2, r3, t1, k1

OneThread == [r \in Request |-> t1]

\* Three posts of different people, one of them with a key.
OneKeyed == (r1 :> k1) @@ (r2 :> NoKey) @@ (r3 :> NoKey)
OwnBodies == (r1 :> 1) @@ (r2 :> 2) @@ (r3 :> 3)

\* Three uses of one key: a repetition, and another body by mistake.
ReusedKey == [r \in Request |-> k1]
MixedBodies == (r1 :> 1) @@ (r2 :> 1) @@ (r3 :> 3)

\* The repetition is indistinguishable from the first use.
Repetition == Permutations({r1, r2})
=============================================================================
