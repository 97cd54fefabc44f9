--------------------------- MODULE MC_Prioritize ---------------------------
(***************************************************************************)
(* Three nodes, one without disks, a kept volume of size 2 and a shared    *)
(* one of size 1, and caches in which a directory, an unrecorded pod and a *)
(* missing volume come and go.                                             *)
(***************************************************************************)
EXTENDS Prioritize

CONSTANTS p1, p2, p3, own, home, n1, n2, n3, d1

MC_Sizes == [pv \in Volumes |-> IF pv = own THEN 2 ELSE 1]
MC_VolumesOf == [p \in Pods |-> IF p = p1 THEN <<own, home>> ELSE IF p = p2 THEN <<own>> ELSE <<home>>]
MC_OwnOnly == [p \in Pods |-> <<own>>]

MC_Disk(size) == <<[path |-> d1, allocable |-> size, disabled |-> FALSE]>>
MC_DisksOf == [n \in Nodes |-> IF n = n1 THEN MC_Disk(3) ELSE IF n = n2 THEN MC_Disk(10) ELSE <<>>]
MC_Same == {<<d, d>> : d \in Disks}

MC_Dir(pv, p) == [disk |-> d1, volume |-> pv, maker |-> p]
MC_On(n, pv, p) == n :> {MC_Dir(pv, p)}
MC_None == [n \in {} |-> {}]

\* The nodes of p1, p2 and p3, and the annotations of the two volumes.
MC_View(a, b, c, ownMount, homeMount, bound) ==
  [pods |-> [p \in Pods |-> [life |-> "live", node |-> IF p = p1 THEN a ELSE IF p = p2 THEN b ELSE c]],
   mounts |-> [pv \in Volumes |-> IF pv = own THEN ownMount ELSE homeMount],
   bound |-> bound]

\* A directory of p2, and on n1 a pod whose volume has no entry there; beside
\* p2 the pod p1, whose directory of its own no annotation names yet, and the
\* shared volume on both nodes; the same volumes elsewhere, and a missing claim.
MC_Views ==
  { MC_View(NoNode, n2, n1, MC_On(n2, own, p2), MC_None, Volumes),
    MC_View(n2, n2, n1, MC_On(n2, own, p2), MC_On(n1, home, NoPod) @@ MC_On(n2, home, NoPod), Volumes),
    MC_View(NoNode, n1, n2, MC_On(n1, own, p2), MC_On(n2, home, NoPod), {own}) }
=============================================================================
