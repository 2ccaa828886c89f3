--------------------------- MODULE ImageLifecycle ----------------------------
(***************************************************************************)
(* An uploaded image, from its row in images and its object in the object *)
(* storage to what refers to it, to its deletion by a moderator and to the *)
(* reclaiming of what nobody refers to (internal/image/usecase,            *)
(* image_repository.go, db/query/images.sql, and the statements of         *)
(* comments.sql, threads.sql and users.sql that attach an image).          *)
(*                                                                         *)
(* The database and the storage share no transaction: an upload writes     *)
(* row, object, row; a reclaimer claims rows, deletes objects, deletes     *)
(* rows; a request, a replica or the storage may fail between any two.     *)
(* Ownership and kind only say which request may ask for which image, and  *)
(* are in Wants: nobody asks for an avatar as the image of a post, for     *)
(* EnsureOwned compares the kind.  Avatars are those of one user.          *)
(***************************************************************************)
EXTENDS Naturals, FiniteSets

CONSTANTS
  Image,
  Poster,     \* requests that create a comment or a thread with an image
  Changer,    \* requests that change the avatar of a user
  None,       \* no image
  Wants,      \* the image a request asks for
  Sweeper,    \* replicas running the reclaim job
  BatchSize   \* images claimed at once

Request == Poster \cup Changer

ASSUME ImageAssumption ==
  /\ Poster \cap Changer = {}
  /\ None \notin Image
  /\ Image \cap {"idle", "scanned", "locked", "objects"} = {}
  /\ Wants \in [Request -> Image \cup {None}]
  /\ \A p \in Poster : Wants[p] # None
  /\ \A p \in Poster, c \in Changer : Wants[p] # Wants[c]
  /\ BatchSize \in Nat \ {0}

VARIABLES
  row,       \* images.status, "none" before the row and "gone" after it
  claimed,   \* object_reclaimed_at is set
  attached,  \* attached_at is set
  aged,      \* created_at is longer ago than the grace
  object,    \* objects in the storage
  up,        \* where the upload of each image is
  posts,     \* images of comments and threads
  avatar,    \* avatar_image_id of the user
  pc,        \* where each request is
  prev,      \* the avatar a request is about to replace
  spc,       \* where each sweeper is
  batch,     \* the images it has found, locked or claimed
  failed,    \* history: images counted in ReclaimResult.Failed
  excused    \* history: claims cut short, and images moderated while pending

table == <<row, claimed, attached, aged>>
uses == <<posts, avatar>>
requests == <<pc, prev>>
sweep == <<spc, batch>>
history == <<failed, excused>>
vars == <<table, object, up, uses, requests, sweep, history>>

Referenced == posts \cup ({avatar} \ {None})
Lesser(a, b) == IF a < b THEN a ELSE b

Init ==
  /\ row = [i \in Image |-> "none"]
  /\ claimed = {} /\ attached = {} /\ aged = {} /\ object = {}
  /\ up = [i \in Image |-> "idle"]
  /\ posts = {} /\ avatar = None
  /\ pc = [r \in Request |-> "idle"]
  /\ prev = [r \in Request |-> None]
  /\ spc = [w \in Sweeper |-> "idle"]
  /\ batch = [w \in Sweeper |-> {}]
  /\ failed = {} /\ excused = {}

-----------------------------------------------------------------------------
(* Row locks of open transactions.                                         *)

\* The images a request has updated and not committed.
Touched(r) == IF pc[r] = "written" THEN {Wants[r], prev[r]} \ {None} ELSE {}

Locked(i) ==
  \/ \E r \in Request : i \in Touched(r)
  \/ \E w \in Sweeper : spc[w] = "locked" /\ i \in batch[w]

\* FindOwned, and the CTE "image" of every attaching statement.
Usable(i) == row[i] = "committed" /\ i \notin claimed

\* No image is always accepted: it takes the avatar off.
Acceptable(r) == IF Wants[r] = None THEN TRUE ELSE Usable(Wants[r])

-----------------------------------------------------------------------------
(* Upload.                                                                 *)

CreatePending(i) ==
  /\ row[i] = "none"
  /\ row' = [row EXCEPT ![i] = "pending"]
  /\ up' = [up EXCEPT ![i] = "put"]
  /\ UNCHANGED <<claimed, attached, aged, object, uses, requests, sweep, history>>

\* Put succeeds, ...
Put(i) ==
  /\ up[i] = "put"
  /\ object' = object \cup {i}
  /\ up' = [up EXCEPT ![i] = "commit"]
  /\ UNCHANGED <<table, uses, requests, sweep, history>>

\* Mistake: the failed upload takes its pending row back.
PutFailsAndForgets(i) ==
  /\ up[i] = "put"
  /\ \/ UNCHANGED object
     \/ object' = object \cup {i}
  /\ up' = [up EXCEPT ![i] = "failed"]
  /\ row' = [row EXCEPT ![i] = "gone"]
  /\ UNCHANGED <<claimed, attached, aged, uses, requests, sweep, history>>

\* ... or the request ends here, with the object stored or not: the pending
\* row stays.
PutFails(i) ==
  /\ up[i] = "put"
  /\ \/ UNCHANGED object
     \/ object' = object \cup {i}
  /\ up' = [up EXCEPT ![i] = "failed"]
  /\ UNCHANGED <<table, uses, requests, sweep, history>>

\* CommitImage, only from 'pending'.
Commit(i) ==
  /\ up[i] = "commit" /\ ~Locked(i)
  /\ \/ /\ row[i] = "pending"
        /\ row' = [row EXCEPT ![i] = "committed"]
        /\ up' = [up EXCEPT ![i] = "ok"]
     \/ /\ row[i] # "pending"
        /\ up' = [up EXCEPT ![i] = "failed"]
        /\ UNCHANGED row
  /\ UNCHANGED <<claimed, attached, aged, object, uses, requests, sweep, history>>

\* The request ends before it commits.
CommitFails(i) ==
  /\ up[i] = "commit"
  /\ up' = [up EXCEPT ![i] = "failed"]
  /\ UNCHANGED <<table, object, uses, requests, sweep, history>>

\* The grace passes.  An upload is over by then.
Age(i) ==
  /\ row[i] # "none" /\ i \notin aged
  /\ up[i] \notin {"put", "commit"}
  /\ aged' = aged \cup {i}
  /\ UNCHANGED <<row, claimed, attached, object, up, uses, requests, sweep, history>>

\* MarkImageDeleted.  Deleting an image whose upload still runs may leave
\* its object behind, which the query accepts.
Moderate(i) ==
  /\ row[i] \in {"pending", "committed"} /\ i \notin claimed /\ ~Locked(i)
  /\ row' = [row EXCEPT ![i] = "deleted"]
  /\ excused' = IF row[i] = "pending" THEN excused \cup {i} ELSE excused
  /\ UNCHANGED <<claimed, attached, aged, object, up, uses, requests, sweep, failed>>

-----------------------------------------------------------------------------
(* Attaching.                                                              *)

Goto(r, p) == pc' = [pc EXCEPT ![r] = p]

\* EnsureOwned, before and outside the transaction that attaches.
EnsureOwned(r) ==
  /\ pc[r] = "idle"
  /\ Goto(r, IF Acceptable(r) THEN "checked" ELSE "done")
  /\ UNCHANGED <<table, object, up, uses, prev, sweep, history>>

\* Mistake: the statement relies on the check made before it.
AttachChecked(p) ==
  /\ pc[p] = "checked" /\ ~Locked(Wants[p])
  /\ Goto(p, "written")
  /\ UNCHANGED <<table, object, up, uses, prev, sweep, history>>

\* CreateComment... and CreateThread: FOR NO KEY UPDATE waits for the row and
\* looks at it again; a row that is no longer usable inserts nothing.
Attach(p) ==
  /\ pc[p] = "checked" /\ ~Locked(Wants[p])
  /\ Goto(p, IF Usable(Wants[p]) THEN "written" ELSE "done")
  /\ UNCHANGED <<table, object, up, uses, prev, sweep, history>>

\* Mistake: attached_at is left to another statement.
CommitUnmarked(p) ==
  /\ pc[p] = "written"
  /\ Goto(p, "done")
  /\ posts' = posts \cup {Wants[p]}
  /\ UNCHANGED <<table, object, up, avatar, prev, sweep, history>>

CommitPost(p) ==
  /\ pc[p] = "written"
  /\ Goto(p, "done")
  /\ posts' = posts \cup {Wants[p]}
  /\ attached' = attached \cup {Wants[p]}
  /\ UNCHANGED <<row, claimed, aged, object, up, avatar, prev, sweep, history>>

\* Mistake: no LockUserForAvatarChange.
ReadAvatarUnlocked(c) ==
  /\ pc[c] = "checked"
  /\ Goto(c, "locked")
  /\ prev' = [prev EXCEPT ![c] = avatar]
  /\ UNCHANGED <<table, object, up, uses, sweep, history>>

\* LockUserForAvatarChange waits for the user's row; the snapshot of the
\* next statement then shows the avatar to replace.
LockUser(c) ==
  /\ pc[c] = "checked"
  /\ \A o \in Changer : pc[o] \notin {"locked", "written"}
  /\ Goto(c, "locked")
  /\ prev' = [prev EXCEPT ![c] = avatar]
  /\ UNCHANGED <<table, object, up, uses, sweep, history>>

\* SetUserAvatarImage: the new image locked and looked at again, the old one
\* updated, unless they are the same.
SetAvatar(c) ==
  /\ pc[c] = "locked"
  /\ \A o \in Changer : pc[o] # "written"
  /\ ~Locked(Wants[c])
  /\ \/ /\ Acceptable(c)
        /\ prev[c] # Wants[c] => ~Locked(prev[c])
        /\ Goto(c, "written")
     \/ /\ ~Acceptable(c)
        /\ Goto(c, "done")
  /\ UNCHANGED <<table, object, up, uses, prev, sweep, history>>

\* Mistake: the old image stays attached.
CommitKeepingOld(c) ==
  /\ pc[c] = "written"
  /\ Goto(c, "done")
  /\ avatar' = Wants[c]
  /\ attached' = attached \cup ({Wants[c]} \ {None})
  /\ UNCHANGED <<row, claimed, aged, object, up, posts, prev, sweep, history>>

CommitAvatar(c) ==
  /\ pc[c] = "written"
  /\ Goto(c, "done")
  /\ avatar' = Wants[c]
  /\ attached' = (attached \ {prev[c]}) \cup ({Wants[c]} \ {None})
  /\ UNCHANGED <<row, claimed, aged, object, up, posts, prev, sweep, history>>

\* The transaction fails or the request is cut off.
Rollback(r) ==
  /\ pc[r] \in {"checked", "locked", "written"}
  /\ Goto(r, "done")
  /\ UNCHANGED <<table, object, up, uses, prev, sweep, history>>

-----------------------------------------------------------------------------
(* Reclaiming.                                                             *)

Step(w, p) == spc' = [spc EXCEPT ![w] = p]

\* The WHERE clause of ListReclaimableImages, the columns of the row ...
RowReclaimable(i) ==
  /\ row[i] \in {"pending", "committed", "deleted"}
  /\ i \notin claimed
  /\ i \notin attached \/ row[i] = "deleted"
  /\ row[i] = "deleted" \/ i \in aged

\* ... and the tables that may refer to it.
Reclaimable(i) == RowReclaimable(i) /\ (row[i] = "deleted" \/ i \notin Referenced)

\* The statement takes its snapshot.
Scan(w) ==
  /\ spc[w] = "idle"
  /\ \E i \in Image : Reclaimable(i)
  /\ Step(w, "scanned")
  /\ batch' = [batch EXCEPT ![w] = {i \in Image : Reclaimable(i)}]
  /\ UNCHANGED <<table, object, up, uses, requests, history>>

\* Mistake: the rows found are taken as they were found.
LockFound(w) ==
  /\ spc[w] = "scanned"
  /\ \E b \in SUBSET {i \in batch[w] : ~Locked(i)} :
       /\ Cardinality(b) <= BatchSize
       /\ batch' = [batch EXCEPT ![w] = b]
       /\ Step(w, IF b = {} THEN "idle" ELSE "locked")
  /\ UNCHANGED <<table, object, up, uses, requests, history>>

\* FOR UPDATE SKIP LOCKED: a row that changed since the snapshot is looked
\* at again, the tables that refer to it are not.
Lock(w) ==
  /\ spc[w] = "scanned"
  /\ LET found == {i \in batch[w] : ~Locked(i) /\ RowReclaimable(i)} IN
       \E b \in SUBSET found :
         /\ Cardinality(b) = Lesser(BatchSize, Cardinality(found))
         /\ batch' = [batch EXCEPT ![w] = b]
         /\ Step(w, IF b = {} THEN "idle" ELSE "locked")
  /\ UNCHANGED <<table, object, up, uses, requests, history>>

\* MarkImageReclaimed and COMMIT: claimed before anything is deleted.
Claim(w) ==
  /\ spc[w] = "locked"
  /\ claimed' = claimed \cup batch[w]
  /\ Step(w, "objects")
  /\ UNCHANGED <<row, attached, aged, object, up, uses, requests, batch, history>>

\* storage.Delete, and, unless a moderator deleted the image, DeleteImage.
DeleteObject(w, i) ==
  /\ spc[w] = "objects" /\ i \in batch[w]
  /\ object' = object \ {i}
  /\ batch' = [batch EXCEPT ![w] = @ \ {i}]
  /\ IF row[i] = "deleted" THEN UNCHANGED spc ELSE Step(w, i)
  /\ UNCHANGED <<table, up, uses, requests, history>>

\* The foreign keys refuse to delete the row of a referenced image.
DeleteImage(w, i) ==
  /\ spc[w] = i
  /\ row' = IF i \in Referenced THEN row ELSE [row EXCEPT ![i] = "gone"]
  /\ Step(w, "objects")
  /\ UNCHANGED <<claimed, attached, aged, object, up, uses, requests, batch, history>>

\* An error of the storage, or of DeleteImage: the image stays claimed.
StorageFails(w, i) ==
  /\ spc[w] = "objects" /\ i \in batch[w]
  /\ object' \in {object, object \ {i}}
  /\ batch' = [batch EXCEPT ![w] = @ \ {i}]
  /\ failed' = failed \cup {i}
  /\ UNCHANGED <<table, up, uses, requests, spc, excused>>

RowFails(w, i) ==
  /\ spc[w] = i
  /\ Step(w, "objects")
  /\ failed' = failed \cup {i}
  /\ UNCHANGED <<table, object, up, uses, requests, batch, excused>>

EndRound(w) ==
  /\ spc[w] = "objects" /\ batch[w] = {}
  /\ Step(w, "idle")
  /\ UNCHANGED <<table, object, up, uses, requests, batch, history>>

\* The replica dies, or is not given the time to finish: the claims it has
\* committed are never looked at again.
Crash(w) ==
  /\ spc[w] # "idle"
  /\ excused' = CASE spc[w] = "objects" -> excused \cup batch[w]
                  [] spc[w] \in Image -> excused \cup batch[w] \cup {spc[w]}
                  [] OTHER -> excused
  /\ Step(w, "idle")
  /\ batch' = [batch EXCEPT ![w] = {}]
  /\ UNCHANGED <<table, object, up, uses, requests, failed>>

-----------------------------------------------------------------------------
Upload(i) == CreatePending(i) \/ Put(i) \/ PutFails(i) \/ Commit(i) \/ CommitFails(i)
Post(p) == EnsureOwned(p) \/ Attach(p) \/ CommitPost(p)
Change(c) == EnsureOwned(c) \/ LockUser(c) \/ SetAvatar(c) \/ CommitAvatar(c)
Reclaim(w) ==
  \/ Scan(w) \/ Lock(w) \/ Claim(w) \/ EndRound(w)
  \/ \E i \in Image :
       DeleteObject(w, i) \/ DeleteImage(w, i) \/ StorageFails(w, i) \/ RowFails(w, i)

Next ==
  \/ \E i \in Image : Upload(i) \/ Age(i) \/ Moderate(i)
  \/ \E p \in Poster : Post(p)
  \/ \E c \in Changer : Change(c)
  \/ \E r \in Request : Rollback(r)
  \/ \E w \in Sweeper : Reclaim(w) \/ Crash(w)

Spec == Init /\ [][Next]_vars

\* Requests end, every replica's reclaim job goes on, and it is not cut off
\* by a restart in the same place every time.
FairSpec ==
  /\ Spec
  /\ \A p \in Poster : WF_vars(Post(p))
  /\ \A c \in Changer : WF_vars(Change(c))
  /\ \A w \in Sweeper :
       WF_vars(Reclaim(w)) /\ SF_vars(Lock(w)) /\ SF_vars(Claim(w))

-----------------------------------------------------------------------------
(* Properties.                                                             *)

TypeOK ==
  /\ row \in [Image -> {"none", "pending", "committed", "deleted", "gone"}]
  /\ claimed \subseteq Image /\ attached \subseteq Image /\ aged \subseteq Image
  /\ object \subseteq Image /\ posts \subseteq Image
  /\ failed \subseteq Image /\ excused \subseteq Image
  /\ up \in [Image -> {"idle", "put", "commit", "ok", "failed"}]
  /\ avatar \in Image \cup {None}
  /\ pc \in [Request -> {"idle", "checked", "locked", "written", "done"}]
  /\ prev \in [Request -> Image \cup {None}]
  /\ spc \in [Sweeper -> {"idle", "scanned", "locked", "objects"} \cup Image]
  /\ batch \in [Sweeper -> SUBSET Image]

\* An image that something refers to keeps its row, and unless a moderator
\* deleted it its object: no reclaimer takes it between the check of a
\* request and its commit, nor finds it by an old snapshot.
ReferencedKept ==
  \A i \in Referenced :
    /\ row[i] \in {"committed", "deleted"}
    /\ row[i] = "committed" => i \in object /\ i \notin claimed

\* attached_at says exactly what is referred to: an image set without a
\* reference would never be reclaimed, one missing would rely on the last
\* snapshot.
AttachedIsReferenced == attached = Referenced

\* Every object has a row that leads to it, and a claim is followed by the
\* deletion of the object, but for the failures that are logged.
NoLeak ==
  \A i \in object \ (failed \cup excused) :
    /\ row[i] \notin {"none", "gone"}
    /\ i \in claimed => \E w \in Sweeper : i \in batch[w]

\* A sweeper never works on an image another one has in hand.
OneSweeper ==
  \A v, w \in Sweeper :
    v # w /\ spc[v] \notin {"idle", "scanned"} /\ spc[w] \notin {"idle", "scanned"}
      => (batch[v] \cup {spc[v]}) \cap (batch[w] \cup {spc[w]}) \cap Image = {}

\* What a moderator has deleted stays deleted, and leaves its row to those
\* that refer to it: no upload that ends late brings it back.
DeletedStays ==
  [][\A i \in Image : row[i] = "deleted" => row'[i] = "deleted"]_vars

Lost(i) == i \in failed \cup excused

Store == INSTANCE ImageStore WITH lost <- failed \cup excused

\* Uploads, attaching requests and reclaimers that overlap and are cut off
\* amount to the steps of one store: an image is used while it can be shown,
\* claimed while nobody uses it, and loses its object before its row.
ImplementsStore == Store!Spec

\* What nobody refers to is reclaimed in the end, unless someone comes to
\* use it, and so is the object of what a moderator deleted.
Reclaimed ==
  \A i \in Image :
    /\ row[i] \in {"pending", "committed"} /\ i \in aged /\ i \notin Referenced
         ~> row[i] \in {"gone", "deleted"} \/ i \in Referenced \/ Lost(i)
    /\ row[i] = "deleted" ~> i \notin object \/ Lost(i)

=============================================================================
