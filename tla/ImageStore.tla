----------------------------- MODULE ImageStore -----------------------------
(***************************************************************************)
(* What the images promise, and what ImageLifecycle is shown to implement: *)
(* one store, without requests under way, row locks, snapshots or          *)
(* replicas.  An image is used only while it can be shown, what is used is *)
(* never claimed unless a moderator deleted it, and what is claimed loses  *)
(* its object before its row.                                              *)
(***************************************************************************)
CONSTANTS Image, None

VARIABLES
  row,      \* "none", "pending", "committed", "deleted" or "gone"
  object,   \* images whose object is in the storage
  claimed,  \* images given over to reclaiming, for good
  posts, avatar,
  lost      \* images whose object may stay behind: a failure, or a deletion
            \* during the upload

storeVars == <<row, object, claimed, posts, avatar, lost>>

Referenced == posts \cup ({avatar} \ {None})
Usable(i) == row[i] = "committed" /\ i \in object /\ i \notin claimed

Init ==
  /\ row = [i \in Image |-> "none"]
  /\ object = {} /\ claimed = {} /\ posts = {} /\ avatar = None /\ lost = {}

Become(i, status) == row' = [row EXCEPT ![i] = status]

Begin(i) ==
  /\ row[i] = "none" /\ Become(i, "pending")
  /\ UNCHANGED <<object, claimed, posts, avatar, lost>>

Store(i) ==
  /\ \/ row[i] = "pending" /\ i \notin claimed
     \/ row[i] = "deleted" /\ i \in lost
  /\ object' = object \cup {i}
  /\ UNCHANGED <<row, claimed, posts, avatar, lost>>

Publish(i) ==
  /\ row[i] = "pending" /\ i \in object \ claimed /\ Become(i, "committed")
  /\ UNCHANGED <<object, claimed, posts, avatar, lost>>

Moderate(i) ==
  /\ row[i] \in {"pending", "committed"} /\ i \notin claimed /\ Become(i, "deleted")
  /\ lost' = IF row[i] = "pending" THEN lost \cup {i} ELSE lost
  /\ UNCHANGED <<object, claimed, posts, avatar>>

Post(i) ==
  /\ Usable(i) /\ posts' = posts \cup {i}
  /\ UNCHANGED <<row, object, claimed, avatar, lost>>

ShowAvatar(i) ==
  /\ i # None => Usable(i)
  /\ avatar' = i
  /\ UNCHANGED <<row, object, claimed, posts, lost>>

Claim(S) ==
  /\ \A i \in S : row[i] = "deleted"
                  \/ (row[i] \in {"pending", "committed"} /\ i \notin Referenced)
  /\ S \cap claimed = {}
  /\ claimed' = claimed \cup S
  /\ UNCHANGED <<row, object, posts, avatar, lost>>

\* The object goes, or it is known that it may not have gone.
Discard(i) ==
  /\ i \in claimed
  /\ object' \in {object, object \ {i}} /\ lost' \in {lost, lost \cup {i}}
  /\ i \notin object' \/ i \in lost'
  /\ UNCHANGED <<row, claimed, posts, avatar>>

Abandon(S) ==
  /\ S \subseteq claimed /\ lost' = lost \cup S
  /\ UNCHANGED <<row, object, claimed, posts, avatar>>

Forget(i) ==
  /\ i \in claimed \ Referenced /\ row[i] \in {"pending", "committed"}
  /\ i \notin object \/ i \in lost
  /\ Become(i, "gone")
  /\ UNCHANGED <<object, claimed, posts, avatar, lost>>

Next ==
  \/ \E i \in Image : \/ Begin(i) \/ Store(i) \/ Publish(i) \/ Moderate(i)
                      \/ Post(i) \/ Discard(i) \/ Forget(i)
  \/ \E i \in Image \cup {None} : ShowAvatar(i)
  \/ \E S \in SUBSET Image : Claim(S) \/ Abandon(S)

Spec == Init /\ [][Next]_storeVars
=============================================================================
