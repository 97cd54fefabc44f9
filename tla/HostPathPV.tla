----------------------------- MODULE HostPathPV -----------------------------
(***************************************************************************)
(* What the two hostpath predicates decide about one pod and one node.     *)
(* Both read the same caches, passed here as a view v:                     *)
(*   v.pods[p]    the life of pod p and the node it is bound to;           *)
(*   v.mounts[pv] the mount annotation of pv: for each node with an entry  *)
(*                the set of its directories;                              *)
(*   v.bound      the volumes whose claim the caches hold, bound.          *)
(* A directory is named by its disk, its volume and the pod it was made    *)
(* for, which is what its path spells.  Only hostpath volumes are          *)
(* modelled: every other volume is skipped by both predicates.             *)
(***************************************************************************)
EXTENDS Integers, Sequences, FiniteSets, SequencesExt, FiniteSetsExt, DiskWalk

CONSTANTS
  Nodes, NoNode,
  Pods, NoPod,
  Volumes,      \* the hostpath PersistentVolumes
  Disks,        \* the mount paths of quota disks
  Shared, Keep, \* the volumes annotated as shared, and as kept
  Capacity,     \* the capacity of each volume
  VolumesOf,    \* the volumes of each pod, in the order of its spec
  DisksOf,      \* the disks in each node's annotation, in its order
  PathPrefix    \* <<d, e>>: the path of disk d is a prefix of that of disk e

ASSUME HostPathAssumption ==
  /\ NoNode \notin Nodes /\ NoPod \notin Pods
  /\ Shared \subseteq Volumes /\ Keep \subseteq Volumes
  /\ Capacity \in [Volumes -> Nat]
  /\ VolumesOf \in [Pods -> Seq(Volumes)]
  /\ DisksOf \in [Nodes -> Seq([path : Disks, allocable : Nat, disabled : BOOLEAN])]
  /\ PathPrefix \subseteq Disks \X Disks
  /\ \A d \in Disks : <<d, d>> \in PathPrefix

Directory == [disk : Disks, volume : Volumes, maker : Pods \cup {NoPod}]

\* Neither finished nor being deleted.
IsPodReady(pod) == pod.life = "live"

UsesVolume(p, pv) == pv \in Range(VolumesOf[p])

\* Seeded fault: a pod that ends still counts as a user.
UsersPresent(v, pv) == {p \in Pods : v.pods[p].life \in {"live", "ending"} /\ UsesVolume(p, pv)}

\* FilterByNodeAndPVC without and with a node.
ReadyUsers(v, pv) == {p \in Pods : IsPodReady(v.pods[p]) /\ UsesVolume(p, pv)}
ReadyUsersOn(v, pv, n) == {p \in ReadyUsers(v, pv) : v.pods[p].node = n}

HasEntry(v, pv, n) == n \in DOMAIN v.mounts[pv]

HasEmptyItemForNode(v, pv, n) ==
  /\ HasEntry(v, pv, n)
  /\ \/ pv \in Shared
     \/ /\ pv \in Keep
        /\ Cardinality(ReadyUsersOn(v, pv, n)) < Cardinality(v.mounts[pv][n])

---------------------------------------------------------------------------
(* Affinity. *)

\* GetHostPathPVUsedNodeMap: a pod the cache holds as unbound is read from
\* the API server.
UsedNodes(v, api, pv) ==
  {IF v.pods[p].node # NoNode THEN v.pods[p].node ELSE api[p].node : p \in ReadyUsers(v, pv)}
    \ {NoNode}

\* Seeded fault: a pod that is not bound yet counts as not found.
UsedNodesFailsUnbound(v, api, pv) ==
  \E p \in ReadyUsers(v, pv) : v.pods[p].node = NoNode /\ api[p].node = NoNode

\* That read finds no such pod: the predicate reports an error.
UsedNodesFails(v, api, pv) ==
  \E p \in ReadyUsers(v, pv) : v.pods[p].node = NoNode /\ api[p].life = "gone"

\* Seeded fault: the nodes the annotation names are not compared.
SharedKeepMatchLoose(v, api, pv, n) ==
  DOMAIN v.mounts[pv] # {} \/ UsedNodes(v, api, pv) \subseteq {n}

SharedKeepMatch(v, api, pv, n) ==
  IF DOMAIN v.mounts[pv] = {}
  THEN /\ ~UsedNodesFails(v, api, pv)
       /\ UsedNodes(v, api, pv) = {} \/ n \in UsedNodes(v, api, pv)
  ELSE HasEntry(v, pv, n)

OwnKeepMatch(v, pv, n) ==
  \/ HasEmptyItemForNode(v, pv, n)
  \/ ~\E m \in DOMAIN v.mounts[pv] : HasEmptyItemForNode(v, pv, m)

VolumeMatch(v, api, pv, n) ==
  /\ pv \in v.bound
  /\ pv \in Keep \cap Shared => SharedKeepMatch(v, api, pv, n)
  /\ pv \in Keep \ Shared => OwnKeepMatch(v, pv, n)

AffinityMatch(v, api, p, n) == \A pv \in Range(VolumesOf[p]) : VolumeMatch(v, api, pv, n)

---------------------------------------------------------------------------
(* Disk pressure. *)

\* The sizes a function gives, in ascending order: the k-th is the one with
\* fewer than k below it and at least k that are not above it.
SortedSizes(size) ==
  [k \in 1..Cardinality(DOMAIN size) |->
     CHOOSE x \in Range(size) :
       /\ Cardinality({i \in DOMAIN size : size[i] < x}) < k
       /\ k <= Cardinality({i \in DOMAIN size : size[i] <= x})]

\* The volumes the pod needs a new directory for, by their places in its spec.
Requests(v, p, n) == {i \in DOMAIN VolumesOf[p] : ~HasEmptyItemForNode(v, VolumesOf[p][i], n)}

RequestList(v, p, n) == SortedSizes([i \in Requests(v, p, n) |-> Capacity[VolumesOf[p][i]]])

\* The directories the annotations name on node n, each path once.
Mounted(v, n) == UNION {v.mounts[pv][n] : pv \in {w \in v.bound : HasEntry(v, w, n)}}

\* How many pods run with volume pv on node n without a directory of their
\* own in its entry for the node.
Unrecorded(v, pv, n) ==
  LET users == Cardinality(ReadyUsersOn(v, pv, n))
      items == Cardinality(v.mounts[pv][n])
  IN  IF pv \in Shared
      THEN IF items = 0 /\ users > 0 THEN 1 ELSE 0
      ELSE IF users > items THEN users - items ELSE 0

UnrecordedSize(v, n) ==
  MapThenSumSet(LAMBDA pv : Unrecorded(v, pv, n) * Capacity[pv],
                {pv \in v.bound : HasEntry(v, pv, n)})

\* A directory is charged to the first disk whose path is a prefix of its own.
ChargedTo(n, dir) ==
  SelectInSeq(DisksOf[n], LAMBDA disk : <<disk.path, dir.disk>> \in PathPrefix)

\* What is left of disk i of node n: what no annotation has placed yet could
\* be on any disk.
FreeOn(v, n, i) ==
  Max({0, DisksOf[n][i].allocable
           - MapThenSumSet(LAMBDA dir : Capacity[dir.volume],
                           {dir \in Mounted(v, n) : ChargedTo(n, dir) = i})
           - UnrecordedSize(v, n)})

HaveList(v, n) == SortedSizes([i \in DOMAIN DisksOf[n] |-> FreeOn(v, n, i)])

SumSeq(sizes) == FoldLeft(+, 0, sizes)

\* Seeded fault: only the total is compared.
PressureMatchTotal(v, p, n) ==
  /\ Range(VolumesOf[p]) \subseteq v.bound
  /\ SumSeq(RequestList(v, p, n)) <= SumSeq(HaveList(v, n))

PressureMatch(v, p, n) ==
  /\ Range(VolumesOf[p]) \subseteq v.bound
  /\ \E request \in {RequestList(v, p, n)}, haveNow \in {HaveList(v, n)} :
       \/ SumSeq(request) = 0
       \/ SumSeq(request) <= SumSeq(haveNow) /\ CanRequestMatch(request, haveNow)
=============================================================================
