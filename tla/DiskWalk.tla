------------------------------ MODULE DiskWalk ------------------------------
(***************************************************************************)
(* What canRequestMatch answers, as a function of its two lists.  The loop *)
(* itself is in DiskMatch, which is checked against this; HostPathPV asks  *)
(* it about the disks of a node.                                           *)
(***************************************************************************)
EXTENDS Integers, Sequences, SequencesExt

\* Seeded fault: a disk takes one volume only.
PutNextOnce(walk, size) ==
  LET j == SelectInSubSeq(walk.free, walk.at, Len(walk.free), LAMBDA room : size <= room)
  IN  [walk EXCEPT !.fits = @ /\ j # 0, !.at = IF j = 0 THEN @ ELSE j + 1]

\* Put the next volume on the first disk, from the present one on, with room.
PutNext(walk, size) ==
  LET j == SelectInSubSeq(walk.free, walk.at, Len(walk.free), LAMBDA room : size <= room)
  IN  IF j = 0 THEN [walk EXCEPT !.fits = FALSE, !.at = Len(walk.free) + 1]
               ELSE [walk EXCEPT !.free[j] = @ - size, !.at = j]

CanRequestMatch(request, haveNow) ==
  FoldLeft(PutNext, [free |-> haveNow, at |-> 1, fits |-> TRUE], request).fits
=============================================================================
