-------------------------- MODULE MCImageLifecycle ---------------------------
(***************************************************************************)
(* Instances of ImageLifecycle for TLC.                                    *)
(***************************************************************************)
EXTENDS ImageLifecycle, TLC

CONSTANTS i1, i2, p1, p2, k1, k2, k3, w1, w2

\* Two posts with the same image, and an image nobody uses.
SameImage == (p1 :> i1) @@ (p2 :> i1)

\* The same, and an avatar.
PostsAndAvatar == SameImage @@ (k1 :> i2)

\* An avatar replaced, taken back, and removed.
Avatars == (k1 :> i1) @@ (k2 :> i2) @@ (k3 :> i1)
Removed == (k1 :> i1) @@ (k2 :> None)
=============================================================================
