------------------------ MODULE ImageLifecycleProofs -------------------------
(***************************************************************************)
(* Theorems about ImageLifecycle, for any number of images, requests and   *)
(* replicas and any size of a batch.                                       *)
(***************************************************************************)
EXTENDS ImageLifecycle, TLAPS

\* What a sweeper has locked or claimed and not dealt with.
InHand(w) == batch[w] \cup ({spc[w]} \cap Image)

\* The kinds of images are apart: posts and the avatar show different ones.
KindsApart ==
  /\ \A i \in posts : \E p \in Poster : Wants[p] = i
  /\ avatar = None \/ \E c \in Changer : Wants[c] = avatar
  /\ \A p \in Poster : prev[p] = None /\ pc[p] # "locked"

\* One change of the avatar at a time, and it replaces the one there is.
OneChange ==
  /\ \A c, d \in Changer :
       pc[c] \in {"locked", "written"} /\ pc[d] \in {"locked", "written"} => c = d
  /\ \A c \in Changer : pc[c] \in {"locked", "written"} => prev[c] = avatar

\* No image is locked twice.
LocksApart ==
  /\ \A r, s \in Request : r # s => Touched(r) \cap Touched(s) = {}
  /\ \A r \in Request, w \in Sweeper :
       spc[w] = "locked" => Touched(r) \cap batch[w] = {}

\* What a request is about to commit stays usable.
WrittenUsable ==
  \A r \in Request : pc[r] = "written" /\ Wants[r] # None => Usable(Wants[r])

\* What a sweeper has locked stays to be reclaimed; what it has claimed is
\* claimed.
SweepInv ==
  \A w \in Sweeper :
    /\ spc[w] = "locked" => \A i \in batch[w] : RowReclaimable(i)
    /\ spc[w] \in {"objects"} \cup Image => InHand(w) \subseteq claimed

\* An upload that is over has left its object, unless it was reclaimed.
UploadInv ==
  \A i \in Image :
    /\ row[i] = "none" => up[i] = "idle" /\ i \notin aged
    /\ row[i] = "committed" => up[i] = "ok"
    /\ up[i] \in {"commit", "ok"} /\ i \notin claimed => i \in object
    /\ up[i] \in {"put", "commit"} =>
         i \notin aged /\ (row[i] \in {"pending", "deleted"})
    /\ up[i] \in {"put", "commit"} /\ row[i] = "deleted" => i \in excused

\* A row is claimed when it is old or a moderator has deleted it.
ClaimedInv ==
  /\ \A i \in claimed : i \in aged \/ row[i] = "deleted"
  /\ \A i \in Image : row[i] = "none" => i \notin claimed
  /\ \A w \in Sweeper, i \in Image :
       spc[w] = i => i \in aged /\ row[i] # "deleted"
                     /\ (i \notin object \/ i \in failed \cup excused)

\* NoLeak, with what makes it hold: a claimed object that nobody has failed
\* to delete is still on the list of the sweeper that claimed it.
Followed ==
  \A i \in object \ (failed \cup excused) :
    /\ row[i] \notin {"none", "gone"}
    /\ i \in claimed => \E w \in Sweeper :
         spc[w] \in {"objects"} \cup Image /\ i \in batch[w]

ImageInv ==
  /\ TypeOK /\ KindsApart /\ OneChange /\ LocksApart /\ WrittenUsable
  /\ SweepInv /\ UploadInv /\ ClaimedInv
  /\ AttachedIsReferenced /\ ReferencedKept /\ OneSweeper /\ Followed

\* A new row: nothing can have used its image.
LEMMA CreatePendingKeeps ==
  ASSUME ImageInv, NEW i \in Image, CreatePending(i)
  PROVE  ImageInv'
<1> USE ImageAssumption
        DEF ImageInv, CreatePending, table, uses, requests, sweep, history
<1>1. TypeOK'
  BY DEF TypeOK, Request
<1>2. WrittenUsable'
  BY DEF TypeOK, WrittenUsable, Usable
<1>3. SweepInv'
  BY DEF TypeOK, SweepInv, InHand, RowReclaimable
<1>4. UploadInv'
  BY DEF TypeOK, UploadInv
<1>5. ClaimedInv'
  BY DEF TypeOK, ClaimedInv
<1>6. ReferencedKept'
  BY DEF TypeOK, ReferencedKept, Referenced
<1>7. Followed'
  BY DEF TypeOK, Followed
<1>8. KindsApart' /\ OneChange' /\ LocksApart' /\ AttachedIsReferenced' /\
      OneSweeper'
  BY DEF KindsApart, OneChange, LocksApart, AttachedIsReferenced, OneSweeper,
         Touched, Referenced
<1> QED BY <1>1, <1>2, <1>3, <1>4, <1>5, <1>6, <1>7, <1>8

\* The object arrives while its row is pending, hence not aged and not
\* claimed.
LEMMA PutKeeps ==
  ASSUME ImageInv, NEW i \in Image, Put(i)
  PROVE  ImageInv'
<1> USE ImageAssumption DEF ImageInv, Put, table, uses, requests, sweep, history
<1>1. TypeOK'
  BY DEF TypeOK, Request
<1>2. UploadInv'
  BY DEF TypeOK, UploadInv
<1>3. ClaimedInv'
  BY DEF TypeOK, ClaimedInv, UploadInv
<1>4. ReferencedKept'
  BY DEF TypeOK, ReferencedKept, Referenced
<1>5. Followed'
  BY DEF TypeOK, Followed, UploadInv, ClaimedInv
<1>6. KindsApart' /\ OneChange' /\ LocksApart' /\ WrittenUsable' /\
      SweepInv' /\ AttachedIsReferenced' /\ OneSweeper'
  BY DEF KindsApart, OneChange, LocksApart, WrittenUsable, SweepInv,
         AttachedIsReferenced, OneSweeper, Touched, Usable, InHand,
         RowReclaimable, Referenced
<1> QED BY <1>1, <1>2, <1>3, <1>4, <1>5, <1>6

\* An upload cut off, with its object stored or not, leaves its row.
LEMMA PutFailsKeeps ==
  ASSUME ImageInv, NEW i \in Image, PutFails(i)
  PROVE  ImageInv'
<1> USE ImageAssumption
        DEF ImageInv, PutFails, table, uses, requests, sweep, history
<1>1. TypeOK'
  BY DEF TypeOK, Request
<1>2. UploadInv'
  BY DEF TypeOK, UploadInv
<1>3. ClaimedInv'
  BY DEF TypeOK, ClaimedInv, UploadInv
<1>4. ReferencedKept'
  BY DEF TypeOK, ReferencedKept, Referenced
<1>5. Followed'
  BY DEF TypeOK, Followed, UploadInv, ClaimedInv
<1>6. KindsApart' /\ OneChange' /\ LocksApart' /\ WrittenUsable' /\
      SweepInv' /\ AttachedIsReferenced' /\ OneSweeper'
  BY DEF KindsApart, OneChange, LocksApart, WrittenUsable, SweepInv,
         AttachedIsReferenced, OneSweeper, Touched, Usable, InHand,
         RowReclaimable, Referenced
<1> QED BY <1>1, <1>2, <1>3, <1>4, <1>5, <1>6

\* A row becomes committed with its object in place.
LEMMA CommitKeeps ==
  ASSUME ImageInv, NEW i \in Image, Commit(i)
  PROVE  ImageInv'
<1> USE ImageAssumption
        DEF ImageInv, Commit, table, uses, requests, sweep, history
<1>1. TypeOK'
  BY DEF TypeOK, Request
<1>2. WrittenUsable'
  BY DEF TypeOK, WrittenUsable, Usable
<1>3. SweepInv'
  BY DEF TypeOK, SweepInv, InHand, RowReclaimable
<1>4. UploadInv'
  BY DEF TypeOK, UploadInv
<1>5. ClaimedInv'
  BY DEF TypeOK, ClaimedInv
<1>6. ReferencedKept'
  BY DEF TypeOK, ReferencedKept, Referenced
<1>7. Followed'
  BY DEF TypeOK, Followed
<1>8. KindsApart' /\ OneChange' /\ LocksApart' /\ AttachedIsReferenced' /\
      OneSweeper'
  BY DEF KindsApart, OneChange, LocksApart, AttachedIsReferenced, OneSweeper,
         Touched, Referenced
<1> QED BY <1>1, <1>2, <1>3, <1>4, <1>5, <1>6, <1>7, <1>8

\* An upload cut off before it commits.
LEMMA CommitFailsKeeps ==
  ASSUME ImageInv, NEW i \in Image, CommitFails(i)
  PROVE  ImageInv'
<1> USE ImageAssumption
        DEF ImageInv, CommitFails, table, uses, requests, sweep, history
<1>1. TypeOK'
  BY DEF TypeOK, Request
<1>2. UploadInv'
  BY DEF TypeOK, UploadInv
<1>3. KindsApart' /\ OneChange' /\ LocksApart' /\ WrittenUsable' /\
      SweepInv' /\ ClaimedInv' /\ AttachedIsReferenced' /\ ReferencedKept' /\
      OneSweeper' /\ Followed'
  BY DEF KindsApart, OneChange, LocksApart, WrittenUsable, SweepInv,
         ClaimedInv, AttachedIsReferenced, ReferencedKept, OneSweeper,
         Followed, Touched, Usable, InHand, RowReclaimable, Referenced
<1> QED BY <1>1, <1>2, <1>3

\* An image ages when its upload is over: nothing will bring it back.
LEMMA AgeKeeps ==
  ASSUME ImageInv, NEW i \in Image, Age(i)
  PROVE  ImageInv'
<1> USE ImageAssumption DEF ImageInv, Age, table, uses, requests, sweep, history
<1>1. TypeOK'
  BY DEF TypeOK, Request
<1>2. SweepInv'
  BY DEF TypeOK, SweepInv, InHand, RowReclaimable
<1>3. UploadInv'
  BY DEF TypeOK, UploadInv
<1>4. ClaimedInv'
  BY DEF TypeOK, ClaimedInv
<1>5. KindsApart' /\ OneChange' /\ LocksApart' /\ WrittenUsable' /\
      AttachedIsReferenced' /\ ReferencedKept' /\ OneSweeper' /\ Followed'
  BY DEF KindsApart, OneChange, LocksApart, WrittenUsable,
         AttachedIsReferenced, ReferencedKept, OneSweeper, Followed, Touched,
         Usable, Referenced
<1> QED BY <1>1, <1>2, <1>3, <1>4, <1>5

\* A moderator cannot delete what is locked, so no request loses what it is
\* about to commit.
LEMMA ModerateKeeps ==
  ASSUME ImageInv, NEW i \in Image, Moderate(i)
  PROVE  ImageInv'
<1> USE ImageAssumption
        DEF ImageInv, Moderate, table, uses, requests, sweep, history
<1>1. TypeOK'
  BY DEF TypeOK, Request
<1>2. WrittenUsable'
  BY DEF TypeOK, WrittenUsable, Usable, Locked, Touched
<1>3. SweepInv'
  BY DEF TypeOK, SweepInv, InHand, RowReclaimable
<1>4. UploadInv'
  BY DEF TypeOK, UploadInv
<1>5. ClaimedInv'
  BY DEF TypeOK, ClaimedInv, SweepInv, InHand
<1>6. ReferencedKept'
  BY DEF TypeOK, ReferencedKept, Referenced
<1>7. Followed'
  BY DEF TypeOK, Followed
<1>8. KindsApart' /\ OneChange' /\ LocksApart' /\ AttachedIsReferenced' /\
      OneSweeper'
  BY DEF KindsApart, OneChange, LocksApart, AttachedIsReferenced, OneSweeper,
         Touched, Referenced
<1> QED BY <1>1, <1>2, <1>3, <1>4, <1>5, <1>6, <1>7, <1>8

\* The check outside the transaction promises nothing.
LEMMA EnsureOwnedKeeps ==
  ASSUME ImageInv, NEW r \in Request, EnsureOwned(r)
  PROVE  ImageInv'
<1> USE ImageAssumption
        DEF ImageInv, EnsureOwned, Goto, table, uses, requests, sweep, history
<1>1. TypeOK'
  BY DEF TypeOK, Request
<1>2. KindsApart'
  BY DEF TypeOK, KindsApart
<1>3. OneChange'
  BY DEF TypeOK, OneChange
<1>4. LocksApart'
  BY DEF TypeOK, LocksApart, Touched
<1>5. WrittenUsable'
  BY DEF TypeOK, WrittenUsable, Usable
<1>6. SweepInv' /\ UploadInv' /\ ClaimedInv' /\ AttachedIsReferenced' /\
      ReferencedKept' /\ OneSweeper' /\ Followed'
  BY DEF SweepInv, UploadInv, ClaimedInv, AttachedIsReferenced,
         ReferencedKept, OneSweeper, Followed, InHand, RowReclaimable,
         Referenced
<1> QED BY <1>1, <1>2, <1>3, <1>4, <1>5, <1>6

\* The row is looked at again under its lock.
LEMMA AttachKeeps ==
  ASSUME ImageInv, NEW p \in Poster, Attach(p)
  PROVE  ImageInv'
<1> USE ImageAssumption
        DEF ImageInv, Attach, Goto, Request, table, uses, requests, sweep,
            history
<1>1. TypeOK'
  BY DEF TypeOK, Request
<1>2. KindsApart'
  BY DEF TypeOK, KindsApart
<1>3. OneChange'
  BY DEF TypeOK, OneChange
<1>4. LocksApart'
  <2>1. \A q \in Request : q # p => Touched(q)' = Touched(q)
    BY DEF TypeOK, Touched
  <2>2. Touched(p)' \subseteq {Wants[p]}
    BY DEF TypeOK, Touched, KindsApart
  <2>3. /\ \A q \in Request : Wants[p] \notin Touched(q)
        /\ \A w \in Sweeper : spc[w] = "locked" => Wants[p] \notin batch[w]
    BY DEF Locked
  <2> QED BY <2>1, <2>2, <2>3 DEF LocksApart, TypeOK
<1>5. WrittenUsable'
  BY DEF TypeOK, WrittenUsable, Usable
<1>6. SweepInv' /\ UploadInv' /\ ClaimedInv' /\ AttachedIsReferenced' /\
      ReferencedKept' /\ OneSweeper' /\ Followed'
  BY DEF SweepInv, UploadInv, ClaimedInv, AttachedIsReferenced,
         ReferencedKept, OneSweeper, Followed, InHand, RowReclaimable,
         Referenced
<1> QED BY <1>1, <1>2, <1>3, <1>4, <1>5, <1>6

\* The reference and attached_at appear together.
LEMMA CommitPostKeeps ==
  ASSUME ImageInv, NEW p \in Poster, CommitPost(p)
  PROVE  ImageInv'
<1> USE ImageAssumption
        DEF ImageInv, CommitPost, Goto, Request, table, uses, requests, sweep,
            history
<1>1. TypeOK'
  BY DEF TypeOK, Request
<1>2. KindsApart'
  BY DEF TypeOK, KindsApart
<1>3. OneChange'
  BY DEF TypeOK, OneChange
<1>4. LocksApart'
  BY DEF TypeOK, LocksApart, Touched
<1>5. WrittenUsable'
  BY DEF TypeOK, WrittenUsable, Usable
<1>6. SweepInv'
  BY DEF TypeOK, SweepInv, InHand, RowReclaimable, LocksApart, Touched
<1>7. AttachedIsReferenced'
  BY DEF TypeOK, AttachedIsReferenced, Referenced
<1>8. ReferencedKept'
  BY DEF TypeOK, ReferencedKept, Referenced, WrittenUsable, Usable, UploadInv
<1>9. UploadInv' /\ ClaimedInv' /\ OneSweeper' /\ Followed'
  BY DEF UploadInv, ClaimedInv, OneSweeper, Followed
<1> QED BY <1>1, <1>2, <1>3, <1>4, <1>5, <1>6, <1>7, <1>8, <1>9

\* The lock on the user makes the avatar to replace the current one.
LEMMA LockUserKeeps ==
  ASSUME ImageInv, NEW c \in Changer, LockUser(c)
  PROVE  ImageInv'
<1> USE ImageAssumption
        DEF ImageInv, LockUser, Goto, Request, table, uses, requests, sweep,
            history
<1>1. TypeOK'
  BY DEF TypeOK, Request
<1>2. KindsApart'
  BY DEF TypeOK, KindsApart
<1>3. OneChange'
  BY DEF TypeOK, OneChange
<1>4. LocksApart'
  BY DEF TypeOK, LocksApart, Touched
<1>5. WrittenUsable'
  BY DEF TypeOK, WrittenUsable, Usable
<1>6. SweepInv' /\ UploadInv' /\ ClaimedInv' /\ AttachedIsReferenced' /\
      ReferencedKept' /\ OneSweeper' /\ Followed'
  BY DEF SweepInv, UploadInv, ClaimedInv, AttachedIsReferenced,
         ReferencedKept, OneSweeper, Followed, InHand, RowReclaimable,
         Referenced
<1> QED BY <1>1, <1>2, <1>3, <1>4, <1>5, <1>6

\* Both images are locked, and the new one looked at again.
LEMMA SetAvatarKeeps ==
  ASSUME ImageInv, NEW c \in Changer, SetAvatar(c)
  PROVE  ImageInv'
<1> USE ImageAssumption
        DEF ImageInv, SetAvatar, Goto, Request, table, uses, requests, sweep,
            history
<1>1. TypeOK'
  BY DEF TypeOK, Request
<1>2. KindsApart'
  BY DEF TypeOK, KindsApart
<1>3. OneChange'
  BY DEF TypeOK, OneChange, KindsApart
<1>4. LocksApart'
  <2>1. \A q \in Request : q # c => Touched(q)' = Touched(q)
    BY DEF TypeOK, Touched
  <2>2. \A i \in Touched(c)' : ~Locked(i)
    BY DEF TypeOK, Touched
  <2> QED BY <2>1, <2>2 DEF LocksApart, Locked, TypeOK
<1>5. WrittenUsable'
  BY DEF TypeOK, WrittenUsable, Usable, Acceptable
<1>6. SweepInv' /\ UploadInv' /\ ClaimedInv' /\ AttachedIsReferenced' /\
      ReferencedKept' /\ OneSweeper' /\ Followed'
  BY DEF SweepInv, UploadInv, ClaimedInv, AttachedIsReferenced,
         ReferencedKept, OneSweeper, Followed, InHand, RowReclaimable,
         Referenced
<1> QED BY <1>1, <1>2, <1>3, <1>4, <1>5, <1>6

\* The old image is released and the new one taken in one step.
LEMMA CommitAvatarKeeps ==
  ASSUME ImageInv, NEW c \in Changer, CommitAvatar(c)
  PROVE  ImageInv'
<1> USE ImageAssumption
        DEF ImageInv, CommitAvatar, Goto, Request, table, uses, requests,
            sweep, history
<1>1. TypeOK'
  BY DEF TypeOK, Request
<1>2. KindsApart'
  BY DEF TypeOK, KindsApart
<1>3. OneChange'
  BY DEF TypeOK, OneChange
<1>4. LocksApart'
  BY DEF TypeOK, LocksApart, Touched
<1>5. WrittenUsable'
  BY DEF TypeOK, WrittenUsable, Usable
<1>6. SweepInv'
  BY DEF TypeOK, SweepInv, InHand, RowReclaimable, LocksApart, Touched
<1>7. AttachedIsReferenced'
  BY DEF TypeOK, AttachedIsReferenced, Referenced, KindsApart, OneChange
<1>8. ReferencedKept'
  BY DEF TypeOK, ReferencedKept, Referenced, WrittenUsable, Usable, UploadInv
<1>9. UploadInv' /\ ClaimedInv' /\ OneSweeper' /\ Followed'
  BY DEF UploadInv, ClaimedInv, OneSweeper, Followed
<1> QED BY <1>1, <1>2, <1>3, <1>4, <1>5, <1>6, <1>7, <1>8, <1>9

\* A transaction that ends without committing leaves the tables as they were.
LEMMA RollbackKeeps ==
  ASSUME ImageInv, NEW r \in Request, Rollback(r)
  PROVE  ImageInv'
<1> USE ImageAssumption
        DEF ImageInv, Rollback, Goto, table, uses, requests, sweep, history
<1>1. TypeOK'
  BY DEF TypeOK, Request
<1>2. KindsApart'
  BY DEF TypeOK, KindsApart
<1>3. OneChange'
  BY DEF TypeOK, OneChange
<1>4. LocksApart'
  BY DEF TypeOK, LocksApart, Touched
<1>5. WrittenUsable'
  BY DEF TypeOK, WrittenUsable, Usable
<1>6. SweepInv' /\ UploadInv' /\ ClaimedInv' /\ AttachedIsReferenced' /\
      ReferencedKept' /\ OneSweeper' /\ Followed'
  BY DEF SweepInv, UploadInv, ClaimedInv, AttachedIsReferenced,
         ReferencedKept, OneSweeper, Followed, InHand, RowReclaimable,
         Referenced
<1> QED BY <1>1, <1>2, <1>3, <1>4, <1>5, <1>6

\* A snapshot locks nothing.
LEMMA ScanKeeps ==
  ASSUME ImageInv, NEW w \in Sweeper, Scan(w)
  PROVE  ImageInv'
<1> USE ImageAssumption
        DEF ImageInv, Scan, Step, table, uses, requests, sweep, history
<1>1. TypeOK'
  BY DEF TypeOK, Request
<1>2. LocksApart'
  BY DEF TypeOK, LocksApart, Touched
<1>3. SweepInv'
  BY DEF TypeOK, SweepInv, InHand, RowReclaimable
<1>4. ClaimedInv'
  BY DEF TypeOK, ClaimedInv
<1>5. OneSweeper'
  BY DEF TypeOK, OneSweeper
<1>6. Followed'
  BY DEF TypeOK, Followed
<1>7. KindsApart' /\ OneChange' /\ WrittenUsable' /\ UploadInv' /\
      AttachedIsReferenced' /\ ReferencedKept'
  BY DEF KindsApart, OneChange, WrittenUsable, UploadInv,
         AttachedIsReferenced, ReferencedKept, Usable, Referenced
<1> QED BY <1>1, <1>2, <1>3, <1>4, <1>5, <1>6, <1>7

\* What is locked is looked at again, and nobody else has it.
LEMMA LockKeeps ==
  ASSUME ImageInv, NEW w \in Sweeper, Lock(w)
  PROVE  ImageInv'
<1> USE ImageAssumption
        DEF ImageInv, Lock, Step, table, uses, requests, sweep, history
<1>1. TypeOK'
  BY DEF TypeOK, Request
<1>2. LocksApart'
  <2>1. \A r \in Request : Touched(r)' = Touched(r)
    BY DEF Touched
  <2>2. \A i \in batch'[w] : ~Locked(i)
    BY DEF TypeOK
  <2>3. \A v \in Sweeper : v # w => spc'[v] = spc[v] /\ batch'[v] = batch[v]
    BY DEF TypeOK
  <2> QED BY <2>1, <2>2, <2>3 DEF LocksApart, Locked, TypeOK
<1>3. SweepInv'
  BY DEF TypeOK, SweepInv, InHand, RowReclaimable
<1>4. ClaimedInv'
  BY DEF TypeOK, ClaimedInv
<1>5. OneSweeper'
  BY DEF TypeOK, OneSweeper, Locked, SweepInv, InHand, RowReclaimable
<1>6. Followed'
  BY DEF TypeOK, Followed
<1>7. KindsApart' /\ OneChange' /\ WrittenUsable' /\ UploadInv' /\
      AttachedIsReferenced' /\ ReferencedKept'
  BY DEF KindsApart, OneChange, WrittenUsable, UploadInv,
         AttachedIsReferenced, ReferencedKept, Usable, Referenced
<1> QED BY <1>1, <1>2, <1>3, <1>4, <1>5, <1>6, <1>7

\* What is claimed is not referred to, or was deleted.
LEMMA ClaimKeeps ==
  ASSUME ImageInv, NEW w \in Sweeper, Claim(w)
  PROVE  ImageInv'
<1> USE ImageAssumption
        DEF ImageInv, Claim, Step, table, uses, requests, sweep, history
<1>1. TypeOK'
  BY DEF TypeOK, Request
<1>2. LocksApart'
  BY DEF TypeOK, LocksApart, Touched
<1>3. WrittenUsable'
  BY DEF TypeOK, WrittenUsable, Usable, LocksApart, Touched
<1>4. SweepInv'
  BY DEF TypeOK, SweepInv, InHand, RowReclaimable, OneSweeper
<1>5. UploadInv'
  BY DEF TypeOK, UploadInv
<1>6. ClaimedInv'
  BY DEF TypeOK, ClaimedInv, SweepInv, RowReclaimable
<1>7. ReferencedKept'
  BY DEF TypeOK, ReferencedKept, Referenced, SweepInv, RowReclaimable,
         AttachedIsReferenced
<1>8. OneSweeper'
  BY DEF TypeOK, OneSweeper
<1>9. Followed'
  BY DEF TypeOK, Followed
<1>10. KindsApart' /\ OneChange' /\ AttachedIsReferenced'
  BY DEF KindsApart, OneChange, AttachedIsReferenced, Referenced
<1> QED BY <1>1, <1>2, <1>3, <1>4, <1>5, <1>6, <1>7, <1>8, <1>9, <1>10

\* A round ends with nothing in hand.
LEMMA EndRoundKeeps ==
  ASSUME ImageInv, NEW w \in Sweeper, EndRound(w)
  PROVE  ImageInv'
<1> USE ImageAssumption
        DEF ImageInv, EndRound, Step, table, uses, requests, sweep, history
<1>1. TypeOK'
  BY DEF TypeOK, Request
<1>2. LocksApart'
  BY DEF TypeOK, LocksApart, Touched
<1>3. SweepInv'
  BY DEF TypeOK, SweepInv, InHand, RowReclaimable
<1>4. ClaimedInv'
  BY DEF TypeOK, ClaimedInv
<1>5. OneSweeper'
  BY DEF TypeOK, OneSweeper
<1>6. Followed'
  BY DEF TypeOK, Followed
<1>7. KindsApart' /\ OneChange' /\ WrittenUsable' /\ UploadInv' /\
      AttachedIsReferenced' /\ ReferencedKept'
  BY DEF KindsApart, OneChange, WrittenUsable, UploadInv,
         AttachedIsReferenced, ReferencedKept, Usable, Referenced
<1> QED BY <1>1, <1>2, <1>3, <1>4, <1>5, <1>6, <1>7

\* An object deleted is that of a claimed image.
LEMMA DeleteObjectKeeps ==
  ASSUME ImageInv, NEW w \in Sweeper, NEW i \in Image, DeleteObject(w, i)
  PROVE  ImageInv'
<1> USE ImageAssumption
        DEF ImageInv, DeleteObject, Step, table, uses, requests, sweep,
            history
<1>1. TypeOK'
  BY DEF TypeOK, Request
<1>2. LocksApart'
  BY DEF TypeOK, LocksApart, Touched
<1>3. SweepInv'
  BY DEF TypeOK, SweepInv, InHand, RowReclaimable
<1>4. UploadInv'
  BY DEF TypeOK, UploadInv, SweepInv, InHand
<1>5. ClaimedInv'
  BY DEF TypeOK, ClaimedInv, SweepInv, InHand
<1>6. ReferencedKept'
  BY DEF TypeOK, ReferencedKept, Referenced, SweepInv, InHand
<1>7. OneSweeper'
  BY DEF TypeOK, OneSweeper
<1>8. Followed'
  BY DEF TypeOK, Followed, OneSweeper
<1>9. KindsApart' /\ OneChange' /\ WrittenUsable' /\ AttachedIsReferenced'
  BY DEF KindsApart, OneChange, WrittenUsable, AttachedIsReferenced, Usable,
         Referenced
<1> QED BY <1>1, <1>2, <1>3, <1>4, <1>5, <1>6, <1>7, <1>8, <1>9

\* A row deleted is that of an image nobody refers to.
LEMMA DeleteImageKeeps ==
  ASSUME ImageInv, NEW w \in Sweeper, NEW i \in Image, DeleteImage(w, i)
  PROVE  ImageInv'
<1> USE ImageAssumption
        DEF ImageInv, DeleteImage, Step, table, uses, requests, sweep, history
<1>1. TypeOK'
  BY DEF TypeOK, Request
<1>2. LocksApart'
  BY DEF TypeOK, LocksApart, Touched
<1>3. WrittenUsable'
  BY DEF TypeOK, WrittenUsable, Usable, SweepInv, InHand
<1>4. SweepInv'
  BY DEF TypeOK, SweepInv, InHand, RowReclaimable
<1>5. UploadInv'
  BY DEF TypeOK, UploadInv, ClaimedInv
<1>6. ClaimedInv'
  BY DEF TypeOK, ClaimedInv
<1>7. ReferencedKept'
  BY DEF TypeOK, ReferencedKept, Referenced
<1>8. OneSweeper'
  BY DEF TypeOK, OneSweeper
<1>9. Followed'
  BY DEF TypeOK, Followed, ClaimedInv
<1>10. KindsApart' /\ OneChange' /\ AttachedIsReferenced'
  BY DEF KindsApart, OneChange, AttachedIsReferenced, Referenced
<1> QED BY <1>1, <1>2, <1>3, <1>4, <1>5, <1>6, <1>7, <1>8, <1>9, <1>10

\* A failure of the storage is counted.
LEMMA StorageFailsKeeps ==
  ASSUME ImageInv, NEW w \in Sweeper, NEW i \in Image, StorageFails(w, i)
  PROVE  ImageInv'
<1> USE ImageAssumption
        DEF ImageInv, StorageFails, Step, table, uses, requests, sweep,
            history
<1>1. TypeOK'
  BY DEF TypeOK, Request
<1>2. LocksApart'
  BY DEF TypeOK, LocksApart, Touched
<1>3. SweepInv'
  BY DEF TypeOK, SweepInv, InHand, RowReclaimable
<1>4. UploadInv'
  BY DEF TypeOK, UploadInv, SweepInv, InHand
<1>5. ClaimedInv'
  BY DEF TypeOK, ClaimedInv
<1>6. ReferencedKept'
  BY DEF TypeOK, ReferencedKept, Referenced, SweepInv, InHand
<1>7. OneSweeper'
  BY DEF TypeOK, OneSweeper
<1>8. Followed'
  BY DEF TypeOK, Followed
<1>9. KindsApart' /\ OneChange' /\ WrittenUsable' /\ AttachedIsReferenced'
  BY DEF KindsApart, OneChange, WrittenUsable, AttachedIsReferenced, Usable,
         Referenced
<1> QED BY <1>1, <1>2, <1>3, <1>4, <1>5, <1>6, <1>7, <1>8, <1>9

\* A failure to delete the row is counted.
LEMMA RowFailsKeeps ==
  ASSUME ImageInv, NEW w \in Sweeper, NEW i \in Image, RowFails(w, i)
  PROVE  ImageInv'
<1> USE ImageAssumption
        DEF ImageInv, RowFails, Step, table, uses, requests, sweep, history
<1>1. TypeOK'
  BY DEF TypeOK, Request
<1>2. LocksApart'
  BY DEF TypeOK, LocksApart, Touched
<1>3. SweepInv'
  BY DEF TypeOK, SweepInv, InHand, RowReclaimable
<1>4. ClaimedInv'
  BY DEF TypeOK, ClaimedInv
<1>5. OneSweeper'
  BY DEF TypeOK, OneSweeper
<1>6. Followed'
  BY DEF TypeOK, Followed
<1>7. KindsApart' /\ OneChange' /\ WrittenUsable' /\ UploadInv' /\
      AttachedIsReferenced' /\ ReferencedKept'
  BY DEF KindsApart, OneChange, WrittenUsable, UploadInv,
         AttachedIsReferenced, ReferencedKept, Usable, Referenced
<1> QED BY <1>1, <1>2, <1>3, <1>4, <1>5, <1>6, <1>7

\* What a sweeper had in hand when it died is excused.
LEMMA CrashKeeps ==
  ASSUME ImageInv, NEW w \in Sweeper, Crash(w)
  PROVE  ImageInv'
<1> USE ImageAssumption
        DEF ImageInv, Crash, Step, table, uses, requests, sweep, history
<1>1. TypeOK'
  BY DEF TypeOK, Request
<1>2. LocksApart'
  BY DEF TypeOK, LocksApart, Touched
<1>3. SweepInv'
  BY DEF TypeOK, SweepInv, InHand, RowReclaimable
<1>4. UploadInv'
  BY DEF TypeOK, UploadInv
<1>5. ClaimedInv'
  BY DEF TypeOK, ClaimedInv
<1>6. OneSweeper'
  BY DEF TypeOK, OneSweeper
<1>7. Followed'
  BY DEF TypeOK, Followed
<1>8. KindsApart' /\ OneChange' /\ WrittenUsable' /\ AttachedIsReferenced' /\
      ReferencedKept'
  BY DEF KindsApart, OneChange, WrittenUsable, AttachedIsReferenced,
         ReferencedKept, Usable, Referenced
<1> QED BY <1>1, <1>2, <1>3, <1>4, <1>5, <1>6, <1>7, <1>8

\* Nothing is uploaded, referred to or claimed at the start.
LEMMA ImageInit == Init => ImageInv
<1> SUFFICES ASSUME Init PROVE ImageInv
  OBVIOUS
<1> USE ImageAssumption DEF Init
<1>1. TypeOK
  BY DEF TypeOK, Request
<1>2. KindsApart /\ OneChange /\ LocksApart /\ WrittenUsable
  BY DEF KindsApart, OneChange, LocksApart, WrittenUsable, Touched, Request
<1>3. SweepInv /\ UploadInv /\ ClaimedInv
  BY DEF SweepInv, UploadInv, ClaimedInv, InHand
<1>4. AttachedIsReferenced /\ ReferencedKept /\ OneSweeper /\ Followed
  BY DEF AttachedIsReferenced, ReferencedKept, OneSweeper, Followed, Referenced
<1> QED BY <1>1, <1>2, <1>3, <1>4 DEF ImageInv

\* A stuttering step keeps everything.
LEMMA ImageStutter ==
  ASSUME ImageInv, UNCHANGED vars
  PROVE  ImageInv'
<1> USE DEF vars, table, uses, requests, sweep, history
<1>1. TypeOK' /\ KindsApart' /\ OneChange' /\ LocksApart' /\ WrittenUsable'
  BY DEF ImageInv, TypeOK, KindsApart, OneChange, LocksApart, WrittenUsable,
         Touched, Usable
<1>2. SweepInv' /\ UploadInv' /\ ClaimedInv'
  BY DEF ImageInv, SweepInv, UploadInv, ClaimedInv, InHand, RowReclaimable
<1>3. AttachedIsReferenced' /\ ReferencedKept' /\ OneSweeper' /\ Followed'
  BY DEF ImageInv, AttachedIsReferenced, ReferencedKept, OneSweeper, Followed,
         Referenced
<1> QED BY <1>1, <1>2, <1>3 DEF ImageInv

\* The uploads, the requests and the sweepers all keep the invariant.
LEMMA ImageStep == ImageInv /\ [Next]_vars => ImageInv'
<1> SUFFICES ASSUME ImageInv, [Next]_vars PROVE ImageInv'
  OBVIOUS
<1>1. ASSUME NEW i \in Image, Upload(i) \/ Age(i) \/ Moderate(i)
      PROVE  ImageInv'
  BY <1>1, CreatePendingKeeps, PutKeeps, PutFailsKeeps, CommitKeeps,
     CommitFailsKeeps, AgeKeeps, ModerateKeeps DEF Upload
<1>2. ASSUME NEW p \in Poster, Post(p)
      PROVE  ImageInv'
  BY <1>2, EnsureOwnedKeeps, AttachKeeps, CommitPostKeeps DEF Post, Request
<1>3. ASSUME NEW c \in Changer, Change(c)
      PROVE  ImageInv'
  BY <1>3, EnsureOwnedKeeps, LockUserKeeps, SetAvatarKeeps, CommitAvatarKeeps
     DEF Change, Request
<1>4. ASSUME NEW r \in Request, Rollback(r)
      PROVE  ImageInv'
  BY <1>4, RollbackKeeps
<1>5. ASSUME NEW w \in Sweeper, Reclaim(w) \/ Crash(w)
      PROVE  ImageInv'
  BY <1>5, ScanKeeps, LockKeeps, ClaimKeeps, EndRoundKeeps, DeleteObjectKeeps,
     DeleteImageKeeps, StorageFailsKeeps, RowFailsKeeps, CrashKeeps DEF Reclaim
<1>6. CASE UNCHANGED vars
  BY <1>6, ImageStutter
<1> QED BY <1>1, <1>2, <1>3, <1>4, <1>5, <1>6 DEF Next

\* The invariant holds in every state of every behaviour.
THEOREM ImageAlways == Spec => []ImageInv
<1>1. Init => ImageInv
  BY ImageInit
<1>2. ImageInv /\ [Next]_vars => ImageInv'
  BY ImageStep
<1> QED BY <1>1, <1>2, PTL DEF Spec

\* Every variable keeps its type.
THEOREM ImageTypes == Spec => []TypeOK
<1>1. ImageInv => TypeOK
  BY DEF ImageInv
<1> QED BY <1>1, ImageAlways, PTL

\* What is referred to keeps its row and, unless a moderator deleted it, its
\* object, whatever the requests and the replicas interleave.
THEOREM ReferencedImagesKept == Spec => []ReferencedKept
<1>1. ImageInv => ReferencedKept
  BY DEF ImageInv
<1> QED BY <1>1, ImageAlways, PTL

\* attached_at is set exactly on what is referred to.
THEOREM AttachedExactly == Spec => []AttachedIsReferenced
<1>1. ImageInv => AttachedIsReferenced
  BY DEF ImageInv
<1> QED BY <1>1, ImageAlways, PTL

\* Two replicas never have one image in hand.
THEOREM OneSweeperAtATime == Spec => []OneSweeper
<1>1. ImageInv => OneSweeper
  BY DEF ImageInv
<1> QED BY <1>1, ImageAlways, PTL

\* No object is left without a row that leads to it, or claimed and
\* forgotten, but for the failures that are counted.
THEOREM NothingLeaks == Spec => []NoLeak
<1>1. ImageInv => NoLeak
  BY DEF ImageInv, Followed, NoLeak
<1> QED BY <1>1, ImageAlways, PTL

\* No upload and no sweeper brings back, or forgets, what a moderator has
\* deleted.
THEOREM DeletedForGood == Spec => DeletedStays
<1>1. ASSUME ImageInv, [Next]_vars, NEW i \in Image, row[i] = "deleted"
      PROVE  row'[i] = "deleted"
  <2> USE <1>1
  <2>1. ASSUME NEW j \in Image, Upload(j) \/ Age(j) \/ Moderate(j)
        PROVE  row'[i] = "deleted"
    BY <2>1 DEF Upload, CreatePending, Put, PutFails, Commit, CommitFails, Age,
       Moderate, table, ImageInv, TypeOK
  <2>2. ASSUME NEW p \in Poster, Post(p)
        PROVE  row'[i] = "deleted"
    BY <2>2 DEF Post, EnsureOwned, Attach, CommitPost, table
  <2>3. ASSUME NEW c \in Changer, Change(c)
        PROVE  row'[i] = "deleted"
    BY <2>3 DEF Change, EnsureOwned, LockUser, SetAvatar, CommitAvatar, table
  <2>4. ASSUME NEW r \in Request, Rollback(r)
        PROVE  row'[i] = "deleted"
    BY <2>4 DEF Rollback, table
  <2>5. ASSUME NEW w \in Sweeper, NEW j \in Image, DeleteImage(w, j)
        PROVE  row'[i] = "deleted"
    <3>1. row[j] # "deleted"
      BY <2>5 DEF DeleteImage, ImageInv, ClaimedInv
    <3> QED BY <3>1, <2>5 DEF DeleteImage, ImageInv, TypeOK
  <2>6. ASSUME NEW w \in Sweeper, Reclaim(w) \/ Crash(w),
               \A j \in Image : ~DeleteImage(w, j)
        PROVE  row'[i] = "deleted"
    BY <2>6 DEF Reclaim, Scan, Lock, Claim, EndRound, DeleteObject,
       StorageFails, RowFails, Crash, table
  <2>7. CASE UNCHANGED vars
    BY <2>7 DEF vars, table
  <2> QED BY <2>1, <2>2, <2>3, <2>4, <2>5, <2>6, <2>7 DEF Next
<1>2. ImageInv /\ [Next]_vars =>
        [\A i \in Image : row[i] = "deleted" => row'[i] = "deleted"]_vars
  BY <1>1
<1> QED BY <1>2, ImageAlways, PTL DEF Spec, DeletedStays

-----------------------------------------------------------------------------
(* The whole implements ImageStore.                                        *)

\* A step that leaves what the store shows is none of its steps.
LEMMA StoreStays ==
  ASSUME UNCHANGED <<row, object, claimed, posts, avatar, failed, excused>>
  PROVE  UNCHANGED Store!storeVars
BY DEF Store!storeVars

\* What a request is about to commit can be shown.
LEMMA UsableHere ==
  ASSUME ImageInv, NEW i \in Image, Usable(i)
  PROVE  Store!Usable(i)
BY DEF ImageInv, UploadInv, Usable, Store!Usable

\* An upload: the object of a row that is pending, or deleted in between; a
\* commit only of what is stored.
LEMMA UploadSimulates ==
  ASSUME ImageInv, NEW i \in Image, Upload(i) \/ Age(i) \/ Moderate(i)
  PROVE  Store!Next \/ UNCHANGED Store!storeVars
<1> USE DEF ImageInv
<1>1. CASE CreatePending(i)
  <2>1. Store!Begin(i)
    BY <1>1 DEF CreatePending, uses, history, Store!Begin, Store!Become
  <2> QED BY <2>1 DEF Store!Next
<1>2. ASSUME up[i] = "put", UNCHANGED <<table, uses, history>>,
             object' \in {object, object \cup {i}}
      PROVE  Store!Next \/ UNCHANGED Store!storeVars
  <2>1. row[i] \in {"pending", "deleted"} /\ i \notin aged
        /\ (row[i] = "deleted" => i \in excused)
    BY <1>2 DEF UploadInv
  <2>2. row[i] = "pending" => i \notin claimed
    BY <2>1 DEF ClaimedInv
  <2>3. CASE object' = object
    BY <1>2, <2>3, StoreStays DEF table, uses, history
  <2>4. CASE object' = object \cup {i}
    <3>1. Store!Store(i)
      BY <1>2, <2>1, <2>2, <2>4 DEF table, uses, history, Store!Store
    <3> QED BY <3>1 DEF Store!Next
  <2> QED BY <1>2, <2>3, <2>4
<1>3. CASE Put(i) \/ PutFails(i)
  BY <1>2, <1>3 DEF Put, PutFails
<1>4. CASE Commit(i)
  <2>1. CASE row[i] = "pending"
    <3>1. i \notin aged /\ i \notin claimed /\ i \in object
      BY <1>4, <2>1 DEF Commit, UploadInv, ClaimedInv
    <3>2. Store!Publish(i)
      BY <1>4, <2>1, <3>1 DEF Commit, uses, history, Store!Publish, Store!Become
    <3> QED BY <3>2 DEF Store!Next
  <2>2. CASE row[i] # "pending"
    BY <1>4, <2>2, StoreStays DEF Commit, uses, history
  <2> QED BY <2>1, <2>2
<1>5. CASE CommitFails(i) \/ Age(i)
  BY <1>5, StoreStays DEF CommitFails, Age, table, uses, history
<1>6. CASE Moderate(i)
  <2>1. (failed \cup excused)'
          = IF row[i] = "pending" THEN (failed \cup excused) \cup {i} ELSE failed \cup excused
    BY <1>6 DEF Moderate
  <2>2. Store!Moderate(i)
    BY <1>6, <2>1 DEF Moderate, uses, Store!Moderate, Store!Become
  <2> QED BY <2>2 DEF Store!Next
<1> QED BY <1>1, <1>3, <1>4, <1>5, <1>6 DEF Upload

\* A post or a new avatar takes effect at its commit, on an image that has
\* stayed usable since it was looked at.
LEMMA RequestSimulates ==
  ASSUME ImageInv, NEW r \in Request, Rollback(r) \/ (r \in Poster /\ Post(r))
                                        \/ (r \in Changer /\ Change(r))
  PROVE  Store!Next \/ UNCHANGED Store!storeVars
<1> USE ImageAssumption DEF ImageInv
<1>1. CASE r \in Poster /\ CommitPost(r)
  <2>1. Wants[r] \in Image /\ Usable(Wants[r])
    BY <1>1 DEF CommitPost, WrittenUsable
  <2>2. Store!Post(Wants[r])
    BY <1>1, <2>1, UsableHere DEF CommitPost, history, Store!Post
  <2> QED BY <2>1, <2>2 DEF Store!Next
<1>2. CASE r \in Changer /\ CommitAvatar(r)
  <2>1. Wants[r] \in Image \cup {None} /\ (Wants[r] # None => Usable(Wants[r]))
    BY <1>2 DEF CommitAvatar, WrittenUsable
  <2>2. Wants[r] # None => Store!Usable(Wants[r])
    BY <2>1, UsableHere
  <2>3. Store!ShowAvatar(Wants[r])
    BY <1>2, <2>2 DEF CommitAvatar, history, Store!ShowAvatar
  <2> QED BY <2>1, <2>3 DEF Store!Next
<1>3. CASE UNCHANGED <<table, object, uses, history>>
  BY <1>3, StoreStays DEF table, uses, history
<1> QED
  BY <1>1, <1>2, <1>3
  DEF Post, Change, Rollback, EnsureOwned, Attach, LockUser, SetAvatar

\* What a sweeper claims was looked at under its lock, and what it has in hand
\* is claimed.
LEMMA SweepSimulates ==
  ASSUME ImageInv, NEW w \in Sweeper, Reclaim(w) \/ Crash(w)
  PROVE  Store!Next \/ UNCHANGED Store!storeVars
<1> USE ImageAssumption DEF ImageInv
<1>1. batch[w] \in SUBSET Image
  BY DEF TypeOK
<1>2. CASE Scan(w) \/ Lock(w) \/ EndRound(w)
  BY <1>2, StoreStays DEF Scan, Lock, EndRound, table, uses, history
<1>3. CASE Claim(w)
  <2>1. \A i \in batch[w] : RowReclaimable(i)
    BY <1>3 DEF Claim, SweepInv
  <2>2. \A i \in batch[w] :
          /\ row[i] = "deleted" \/ (row[i] \in {"pending", "committed"} /\ i \notin Referenced)
          /\ i \notin claimed
    BY <2>1 DEF RowReclaimable, AttachedIsReferenced
  <2>3. Store!Claim(batch[w])
    BY <1>3, <2>2 DEF Claim, uses, history, Referenced, Store!Claim, Store!Referenced
  <2> QED BY <1>1, <2>3 DEF Store!Next
<1>4. ASSUME NEW i \in Image, DeleteObject(w, i) \/ StorageFails(w, i) \/ RowFails(w, i)
      PROVE  Store!Next
  <2>1. i \in claimed
    BY <1>4 DEF DeleteObject, StorageFails, RowFails, SweepInv, InHand
  <2>2. object' \in {object, object \ {i}}
    BY <1>4 DEF DeleteObject, StorageFails, RowFails
  <2>3. (failed \cup excused)' \in {failed \cup excused, (failed \cup excused) \cup {i}}
    BY <1>4 DEF DeleteObject, StorageFails, RowFails, history
  <2>4. i \notin object' \/ i \in (failed \cup excused)'
    BY <1>4 DEF DeleteObject, StorageFails, RowFails
  <2>5. Store!Discard(i)
    BY <1>4, <2>1, <2>2, <2>3, <2>4
    DEF DeleteObject, StorageFails, RowFails, table, uses, Store!Discard
  <2> QED BY <2>5 DEF Store!Next
<1>5. ASSUME NEW i \in Image, DeleteImage(w, i)
      PROVE  Store!Next \/ UNCHANGED Store!storeVars
  <2>1. i \in claimed /\ row[i] # "deleted" /\ (i \notin object \/ i \in failed \cup excused)
    BY <1>5 DEF DeleteImage, SweepInv, InHand, ClaimedInv
  <2>2. row[i] \in {"pending", "committed", "gone"}
    BY <2>1 DEF TypeOK, ClaimedInv
  <2>3. CASE i \notin Referenced /\ row[i] # "gone"
    <3>1. Store!Forget(i)
      BY <1>5, <2>1, <2>2, <2>3
      DEF DeleteImage, uses, history, Referenced, Store!Forget, Store!Become,
          Store!Referenced
    <3> QED BY <3>1 DEF Store!Next
  <2>4. CASE i \in Referenced \/ row[i] = "gone"
    <3>1. row' = row
      BY <1>5, <2>4 DEF DeleteImage, TypeOK
    <3> QED BY <1>5, <3>1, StoreStays DEF DeleteImage, uses, history
  <2> QED BY <2>3, <2>4
<1>6. CASE Crash(w)
  <2>1. PICK S \in SUBSET Image : S \subseteq InHand(w) /\ excused' = excused \cup S
                                  /\ (S = {} \/ spc[w] \in {"objects"} \cup Image)
    <3>1. CASE spc[w] = "objects"
      BY <1>1, <1>6, <3>1 DEF Crash, InHand
    <3>2. CASE spc[w] \in Image
      <4>1. batch[w] \cup {spc[w]} \in SUBSET Image
        BY <1>1, <3>2
      <4>2. excused' = excused \cup (batch[w] \cup {spc[w]})
        BY <1>6, <3>2 DEF Crash
      <4> QED BY <3>2, <4>1, <4>2 DEF InHand
    <3>3. CASE spc[w] \notin {"objects"} \cup Image
      <4>1. excused' = excused \cup {}
        BY <1>6, <3>3 DEF Crash
      <4> QED BY <4>1
    <3> QED BY <3>1, <3>2, <3>3
  <2>2. S \subseteq claimed
    BY <2>1 DEF SweepInv
  <2>3. Store!Abandon(S)
    BY <1>6, <2>1, <2>2 DEF Crash, table, uses, Store!Abandon
  <2> QED BY <2>1, <2>3 DEF Store!Next
<1> QED BY <1>2, <1>3, <1>4, <1>5, <1>6 DEF Reclaim

\* Every step is one of the store's, or none.
LEMMA StoreStep == ImageInv /\ [Next]_vars => [Store!Next]_(Store!storeVars)
<1>1. UNCHANGED vars => UNCHANGED Store!storeVars
  BY StoreStays DEF vars, table, uses, history
<1> QED BY <1>1, UploadSimulates, RequestSimulates, SweepSimulates DEF Next, Request

\* Uploads, posts, changes of the avatar, moderators and replicas that claim,
\* fail and die implement the store, where each is one step.
THEOREM LifecycleIsStore == Spec => ImplementsStore
<1>1. Init => Store!Init
  BY DEF Init, Store!Init
<1>2. ImageInv /\ [Next]_vars => [Store!Next]_(Store!storeVars)
  BY StoreStep
<1> QED BY <1>1, <1>2, ImageAlways, PTL DEF Spec, ImplementsStore, Store!Spec

\* What the store has in use it can show, or a moderator has deleted it.
StoreInv ==
  /\ row \in [Image -> {"none", "pending", "committed", "deleted", "gone"}]
  /\ Referenced \subseteq Image
  /\ ReferencedKept

\* Every step of the store keeps that.
LEMMA StoreInvStep == StoreInv /\ [Store!Next]_(Store!storeVars) => StoreInv'
<1> SUFFICES ASSUME StoreInv, [Store!Next]_(Store!storeVars) PROVE StoreInv'
  OBVIOUS
<1> USE ImageAssumption
        DEF StoreInv, ReferencedKept, Referenced, Store!Referenced, Store!Usable, Store!Become
<1>1. CASE UNCHANGED Store!storeVars
  BY <1>1 DEF Store!storeVars
<1>2. ASSUME NEW i \in Image, Store!Begin(i) \/ Store!Publish(i) \/ Store!Moderate(i)
                                \/ Store!Forget(i)
      PROVE  StoreInv'
  BY <1>2 DEF Store!Begin, Store!Publish, Store!Moderate, Store!Forget
<1>3. ASSUME NEW i \in Image, Store!Store(i) \/ Store!Discard(i)
      PROVE  StoreInv'
  BY <1>3 DEF Store!Store, Store!Discard
<1>4. ASSUME NEW i \in Image, Store!Post(i)
      PROVE  StoreInv'
  BY <1>4 DEF Store!Post
<1>5. ASSUME NEW i \in Image \cup {None}, Store!ShowAvatar(i)
      PROVE  StoreInv'
  BY <1>5 DEF Store!ShowAvatar
<1>6. ASSUME NEW S \in SUBSET Image, Store!Claim(S) \/ Store!Abandon(S)
      PROVE  StoreInv'
  BY <1>6 DEF Store!Claim, Store!Abandon
<1> QED BY <1>1, <1>2, <1>3, <1>4, <1>5, <1>6 DEF Store!Next

\* The store alone keeps what is referred to: whatever implements it does.
THEOREM StoreKeepsUsed == ImplementsStore => []ReferencedKept
<1>1. Store!Init => StoreInv
  BY DEF Store!Init, StoreInv, ReferencedKept, Referenced
<1>2. StoreInv => ReferencedKept
  BY DEF StoreInv
<1> QED BY <1>1, <1>2, StoreInvStep, PTL DEF ImplementsStore, Store!Spec

=============================================================================
