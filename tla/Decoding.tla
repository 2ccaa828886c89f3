------------------------------ MODULE Decoding ------------------------------
(***************************************************************************)
(* Uploads waiting for a slot of the decoder, and the memory a decoder     *)
(* takes (internal/image/usecase/interactor.go and encode.go).  What the   *)
(* upload leaves in the database and the storage is in ImageLifecycle.     *)
(* Sizes are those of the program: an image is <<width, height>>.          *)
(***************************************************************************)
EXTENDS Sessions, Integers, FiniteSetsExt

\* The header of a file may name any size.
ASSUME DecodingAssumption ==
  \A s \in Scenes : \A r \in DOMAIN s.job : s.job[r].image \in Int \X Int

MaxPixels == 25000000

\* MaxDimension of a comment attachment, the larger of the two.
MaxDimension == 1600

\* Of an assumed gigabyte, six tenths.
DecodeMemoryBudget == (1073741824 \div 10) * 6

\* Mistake: the number the comments started from.
TwoSlots == 2

DefaultMaxConcurrentDecodes == 1

Image(r) == job[r].image
Width(i) == i[1]
Height(i) == i[2]
Pixels(i) == Width(i) * Height(i)

\* What gets as far as the decoder itself.
Decodable(i) == Width(i) > 0 /\ Height(i) > 0 /\ Pixels(i) <= MaxPixels

AtLeastOne(n) == IF n < 1 THEN 1 ELSE n

Fits(i) == Width(i) <= MaxDimension /\ Height(i) <= MaxDimension

\* resizeToFit: the longer side becomes the maximum, the other follows, and
\* is one at least.
ResizeToFit(i) ==
  IF Fits(i) THEN i
  ELSE IF Width(i) >= Height(i)
  THEN <<MaxDimension, AtLeastOne((Height(i) * MaxDimension) \div Width(i))>>
  ELSE <<AtLeastOne((Width(i) * MaxDimension) \div Height(i)), MaxDimension>>

\* The buffer of the scaler has 32 bytes for a cell, and is as wide as the
\* result and as high as the source.
ScratchBytes(i) ==
  IF Fits(i) THEN 0 ELSE 32 * Width(ResizeToFit(i)) * Height(i)

\* What the estimate counts: eight bytes for a pixel of the source, four for
\* one of the result, and the buffer.
CountedBytes(i) ==
  8 * Pixels(i) + ScratchBytes(i)
    + (IF Fits(i) THEN 0 ELSE 4 * Pixels(ResizeToFit(i)))

\* The tables of the scaler, one for each axis: 24 bytes for a line of the
\* result, and 16 for each line of the source that has a weight in it, which
\* are four times the lines of the source, and two more for each of the result.
TableBytes(i) ==
  LET out == ResizeToFit(i) IN
    IF Fits(i) THEN 0
    ELSE 64 * (Width(i) + Height(i)) + 56 * (Width(out) + Height(out))

\* The two rows that a PNG is unfiltered in.
RowBytes(i) == 16 * (Width(i) + 1)

\* What is alive at once while a PNG of 16 bits is scaled.
PeakBytes(i) == CountedBytes(i) + RowBytes(i) + TableBytes(i)

\* The root of MaxPixels.
Root == CHOOSE n \in 0 .. 6000 : n * n <= MaxPixels /\ (n + 1) * (n + 1) > MaxPixels

EstimatedPeakBytesPerDecode ==
  8 * MaxPixels + 32 * MaxDimension * Root + 4 * MaxDimension * MaxDimension

\* Mistake: the slot is held until the image is stored.
HoldingToTheEnd == {r \in Request : pc[r] \in {"decode", "store"}}

Holding == {r \in Request : pc[r] = "decode"}

\* Upload asks for a slot once the form and the kind are in order.
Upload(r) ==
  /\ At(r, "handler") /\ Kind(r) = "upload"
  /\ IF job[r].form = "good" THEN Goto(r, "wait") /\ UNCHANGED answer ELSE Plain(r, "400")
  /\ UNCHANGED <<job, carry, who, jars, table, spent>>

Acquire(r) ==
  /\ At(r, "wait")
  /\ Cardinality(Holding) < DefaultMaxConcurrentDecodes
  /\ Goto(r, "decode")
  /\ UNCHANGED <<job, carry, who, answer, jars, table, spent>>

\* The client has gone while it waited.
GiveUp(r) ==
  /\ At(r, "wait")
  /\ Plain(r, "500")
  /\ UNCHANGED <<job, carry, who, jars, table, spent>>

\* reencode: what is no image, or damaged, or has no pixels, is refused; too
\* many pixels are before they are decoded; and encoding may fail.
Reencode(r) ==
  /\ At(r, "decode")
  /\ \/ Plain(r, "400")
     \/ Pixels(Image(r)) > MaxPixels /\ Plain(r, "413")
     \/ Decodable(Image(r)) /\ Plain(r, "500")
     \/ Decodable(Image(r)) /\ Goto(r, "store") /\ UNCHANGED answer
  /\ UNCHANGED <<job, carry, who, jars, table, spent>>

\* CreatePending, Put and Commit, which take as long as the storage takes.
Store(r) ==
  /\ At(r, "store")
  /\ Plain(r, "201") \/ Plain(r, "500")
  /\ UNCHANGED <<job, carry, who, jars, table, spent>>

DecodingNext ==
  \E r \in Request : Upload(r) \/ Acquire(r) \/ GiveUp(r) \/ Reencode(r) \/ Store(r)

-----------------------------------------------------------------------------
(* Properties.                                                             *)

Decoders == {r \in Request : pc[r] = "decode" /\ Decodable(Image(r))}

\* Neither side of the result need be rounded up to one.
InProportion(i) ==
  /\ Height(i) <= MaxDimension * Width(i)
  /\ Width(i) <= MaxDimension * Height(i)

\* All decoders together stay within the memory set aside for them, with the
\* pictures the estimate takes for the worst, PNGs of 16 bits, as long as none is
\* so thin or so flat that a side of its result is longer than in proportion.
MemoryHolds ==
  (\A r \in Decoders : InProportion(Image(r))) =>
    MapThenSumSet(LAMBDA r : PeakBytes(Image(r)), Decoders) <= DecodeMemoryBudget

\* What the comment of estimatedPeakBytesPerDecode says of the scaler's
\* buffer: the longest side of a result times the root of MaxPixels bounds it.
EstimateHolds ==
  \A r \in Decoders : ScratchBytes(Image(r)) <= 32 * MaxDimension * Root

\* An upload that waits for a slot gets one or leaves, however slow the
\* storage is for the others.
DecoderFree == \A r \in Request : pc[r] = "wait" ~> pc[r] # "wait"
=============================================================================
