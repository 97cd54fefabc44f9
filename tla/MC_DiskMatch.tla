---------------------------- MODULE MC_DiskMatch ----------------------------
(***************************************************************************)
(* DiskMatch for up to MaxVolumes volumes on up to MaxDisks disks; MaxSize *)
(* bounds the sizes.                                                       *)
(***************************************************************************)
EXTENDS DiskMatch

CONSTANTS MaxVolumes, MaxDisks, MaxSize

AscendingUpTo(n, sizes) ==
  UNION { { list \in [1..k -> sizes] : Ascending(list) } : k \in 0..n }

MCRequestLists == AscendingUpTo(MaxVolumes, 1..MaxSize)
MCHaveLists == AscendingUpTo(MaxDisks, 0..(MaxSize + 1))
=============================================================================
