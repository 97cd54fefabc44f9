----------------------- MODULE MC_HostPathScheduling -----------------------
(***************************************************************************)
(* Small clusters for HostPathScheduling.                                  *)
(***************************************************************************)
EXTENDS HostPathScheduling

CONSTANTS p1, p2, p3, p4, own, other, home, n1, n2, d1, d2

MC_Disk(path, size) == [path |-> path, allocable |-> size, disabled |-> FALSE]

MC_Same == {<<d, d>> : d \in Disks}

\* The volumes of each pod: two pods with a kept volume of their own and one
\* with the shared one, all with the same volume, or two volumes each.
MC_TwoKinds == [p \in Pods |-> IF p \in {p3, p4} THEN <<home>> ELSE <<own>>]
MC_AllHome == [p \in Pods |-> <<home>>]
MC_AllOwn == [p \in Pods |-> <<own>>]
MC_Pair == [p \in Pods |-> <<own, other>>]
MC_Both == [p \in Pods |-> CASE p = p1 -> <<own, home>> [] p = p2 -> <<own>> [] OTHER -> <<home>>]
MC_OneEach == [p \in Pods |-> IF p = p1 THEN <<own>> ELSE <<other>>]

MC_Sizes == [pv \in Volumes |-> IF pv = own THEN 2 ELSE 1]
MC_Small == [pv \in Volumes |-> 1]

\* Two nodes with little room, and with room to spare.
MC_Tight == n1 :> <<MC_Disk(d1, 3)>> @@ n2 :> <<MC_Disk(d1, 1), MC_Disk(d2, 2)>>
\* One of two disks disabled; two disks of different size; one disk whose path
\* begins that of the other.
MC_OneDisabled ==
  [n \in Nodes |-> <<MC_Disk(d1, 1), [path |-> d2, allocable |-> 3, disabled |-> TRUE]>>]
MC_Uneven == [n \in Nodes |-> <<MC_Disk(d1, 1), MC_Disk(d2, 2)>>]
MC_Alias == MC_Same \cup {<<d1, d2>>}

MC_Ample == n1 :> <<MC_Disk(d1, 9)>> @@ n2 :> <<MC_Disk(d1, 9)>>
=============================================================================
