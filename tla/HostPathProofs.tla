-------------------------- MODULE HostPathProofs --------------------------
(***************************************************************************)
(* Proofs about HostPathScheduling, for any nodes, pods, disks and volumes *)
(* and caches that lag by any number of events: the types, and that the    *)
(* pods of a shared kept volume end up on one node when binds are awaited, *)
(* the caches know the pods there are, and no pod ends.  In a settled      *)
(* cluster, where pods may end: one home again, the way back to a kept     *)
(* directory, and room for what is admitted.                               *)
(***************************************************************************)
EXTENDS HostPathScheduling, DiskWalkProofs

-----------------------------------------------------------------------------
(* Types. *)

Annotation == UNION {[D -> SUBSET Directory] : D \in SUBSET Nodes}
MountEvent == [key : Volumes, value : Annotation]

\* Caching with the annotations as one set, for the sequence of events.
Feeds ==
  /\ pods \in [Pods -> PodState]
  /\ mounts \in [Volumes -> Annotation]
  /\ seen \in [pods : [Pods -> PodState], mounts : [Volumes -> Annotation], bound : SUBSET Volumes]
  /\ podFeed \in Seq(PodEvent)
  /\ pvFeed \in Seq(MountEvent)

Shape == Feeds /\ Cycling /\ dirs \subseteq OnNode

LEMMA AnnotationIs ==
  ASSUME NEW mount \in Annotation
  PROVE  IsAnnotation(mount)
<1>1. PICK D \in SUBSET Nodes : mount \in [D -> SUBSET Directory]
  BY DEF Annotation
<1> QED BY <1>1 DEF IsAnnotation

LEMMA ShapeIsTyped == Shape => TypeOK
<1> SUFFICES ASSUME Shape PROVE TypeOK
  OBVIOUS
<1>1. \A all \in {mounts, seen.mounts} : DOMAIN all = Volumes /\ \A pv \in Volumes : IsAnnotation(all[pv])
  <2>1. mounts \in [Volumes -> Annotation] /\ seen.mounts \in [Volumes -> Annotation]
    BY DEF Shape, Feeds
  <2> QED BY <2>1, AnnotationIs
<1>2. \A i \in DOMAIN pvFeed : pvFeed[i].key \in Volumes /\ IsAnnotation(pvFeed[i].value)
  <2> TAKE i \in DOMAIN pvFeed
  <2>1. pvFeed \in Seq(MountEvent)
    BY DEF Shape, Feeds
  <2>2. pvFeed[i] \in MountEvent
    BY <2>1, ElementOfSeq, LenProperties
  <2> QED BY <2>2, AnnotationIs DEF MountEvent
<1>3. DOMAIN seen = {"pods", "mounts", "bound"}
  BY DEF Shape, Feeds
<1> QED BY <1>1, <1>2, <1>3 DEF Shape, Feeds, Caching, TypeOK

LEMMA InitShape == Init => Shape
<1> SUFFICES ASSUME Init PROVE Shape
  OBVIOUS
<1>1. NoMount \in Annotation
  <2>1. NoMount \in [{} -> SUBSET Directory]
    BY DEF NoMount
  <2> QED BY <2>1 DEF Annotation
<1>2. Unborn \in PodState
  BY DEF Unborn, PodState
<1>3. Feeds
  BY <1>1, <1>2 DEF Init, Feeds
<1>4. Cycling
  BY HostPathAssumption DEF Init, Cycling, Idle
<1> QED BY <1>3, <1>4 DEF Shape, Init

LEMMA TellPodFeeds ==
  ASSUME Shape, NEW p \in Pods, NEW pod \in PodState, TellPod(p, pod), UNCHANGED <<mounts, pvFeed>>
  PROVE  Feeds'
<1>1. CASE Synced
  BY <1>1 DEF TellPod, Shape, Feeds
<1>2. CASE ~Synced
  <2>1. [key |-> p, value |-> pod] \in PodEvent
    BY DEF PodEvent
  <2>2. Append(podFeed, [key |-> p, value |-> pod]) \in Seq(PodEvent)
    BY <2>1, AppendProperties DEF Shape, Feeds
  <2> QED BY <1>2, <2>2 DEF TellPod, Shape, Feeds
<1> QED BY <1>1, <1>2

LEMMA TellMountFeeds ==
  ASSUME Shape, NEW pv \in Volumes, NEW mount \in Annotation, TellMount(pv, mount),
         UNCHANGED <<pods, podFeed>>
  PROVE  Feeds'
<1>1. CASE Synced
  BY <1>1 DEF TellMount, Shape, Feeds
<1>2. CASE ~Synced
  <2>1. [key |-> pv, value |-> mount] \in MountEvent
    BY DEF MountEvent
  <2>2. Append(pvFeed, [key |-> pv, value |-> mount]) \in Seq(MountEvent)
    BY <2>1, AppendProperties DEF Shape, Feeds
  <2> QED BY <1>2, <2>2 DEF TellMount, Shape, Feeds
<1> QED BY <1>1, <1>2

\* A judgement keeps the cycle well formed, whatever the predicate said.
LEMMA JudgeCycles ==
  ASSUME Cycling, cycle.pod # NoPod, NEW n \in cycle.left, NEW holds \in BOOLEAN,
         NEW phase \in {"affinity", "choose"}, Judge(n, holds, phase), UNCHANGED binding
  PROVE  Cycling'
<1> DEFINE left == cycle.left \ {n}
           fits == IF holds THEN cycle.fits \cup {n} ELSE cycle.fits
<1>1. left \in SUBSET Nodes /\ fits \in SUBSET Nodes /\ left \cap fits = {}
  BY DEF Cycling
<1>2. CASE left # {}
  <2>1. cycle' = [cycle EXCEPT !.left = left, !.fits = fits]
    BY <1>2 DEF Judge
  <2> HIDE DEF left, fits
  <2> QED BY <1>1, <2>1 DEF Cycling
<1>3. CASE left = {} /\ fits = {}
  BY <1>3, HostPathAssumption DEF Judge, Cycling, Idle
<1>4. CASE left = {} /\ fits # {}
  <2>1. cycle' = [cycle EXCEPT !.pc = phase, !.fits = IF phase = "affinity" THEN {} ELSE fits,
                               !.left = IF phase = "affinity" THEN fits ELSE {}]
    BY <1>4 DEF Judge
  <2> HIDE DEF left, fits
  <2> QED BY <1>1, <2>1 DEF Cycling
<1> QED BY <1>2, <1>3, <1>4

-----------------------------------------------------------------------------
(* Every step keeps the types, one lemma per part of Next. *)

LEMMA CycleShape ==
  ASSUME Shape, Cycle
  PROVE  Shape'
<1>1. ASSUME NEW p \in Pods, Pick(p) PROVE Shape'
  BY <1>1, HostPathAssumption DEF Pick, Shape, Feeds, Cycling
<1>2. ASSUME NEW n \in Nodes, AskPressure(n) PROVE Shape'
  <2>1. cycle.pod # NoPod /\ n \in cycle.left /\ UNCHANGED binding
    BY <1>2 DEF AskPressure, Shape, Cycling
  <2>2. PressureMatch(seen, cycle.pod, n) \in BOOLEAN
    BY DEF PressureMatch
  <2>3. Judge(n, PressureMatch(seen, cycle.pod, n), "affinity")
    BY <1>2 DEF AskPressure
  <2>4. Cycling'
    BY <2>1, <2>2, <2>3, JudgeCycles DEF Shape
  <2> QED BY <1>2, <2>4 DEF AskPressure, Shape, Feeds
<1>3. ASSUME NEW n \in Nodes, AskAffinity(n) PROVE Shape'
  <2>1. cycle.pod # NoPod /\ n \in cycle.left /\ UNCHANGED binding
    BY <1>3 DEF AskAffinity, Shape, Cycling
  <2>2. AffinityMatch(seen, pods, cycle.pod, n) \in BOOLEAN
    BY DEF AffinityMatch
  <2>3. Judge(n, AffinityMatch(seen, pods, cycle.pod, n), "choose")
    BY <1>3 DEF AskAffinity
  <2>4. Cycling'
    BY <2>1, <2>2, <2>3, JudgeCycles DEF Shape
  <2> QED BY <1>3, <2>4 DEF AskAffinity, Shape, Feeds
<1>4. ASSUME NEW n \in Nodes, Assume(n) PROVE Shape'
  BY <1>4 DEF Assume, Idle, Shape, Feeds, Cycling
<1> QED BY <1>1, <1>2, <1>3, <1>4 DEF Cycle

LEMMA DeliverShape ==
  ASSUME Shape, Deliver
  PROVE  Shape'
<1>1. ASSUME DeliverPod PROVE Shape'
  <2>1. Head(podFeed) \in PodEvent /\ Tail(podFeed) \in Seq(PodEvent)
    BY <1>1, HeadTailProperties DEF DeliverPod, Shape, Feeds
  <2> QED BY <1>1, <2>1 DEF DeliverPod, PodEvent, Shape, Feeds, Cycling
<1>2. ASSUME DeliverMount PROVE Shape'
  <2>1. Head(pvFeed) \in MountEvent /\ Tail(pvFeed) \in Seq(MountEvent)
    BY <1>2, HeadTailProperties DEF DeliverMount, Shape, Feeds
  <2> QED BY <1>2, <2>1 DEF DeliverMount, MountEvent, Shape, Feeds, Cycling
<1>3. ASSUME NEW pv \in Volumes, DeliverClaim(pv) PROVE Shape'
  BY <1>3 DEF DeliverClaim, Shape, Feeds, Cycling
<1> QED BY <1>1, <1>2, <1>3 DEF Deliver

LEMMA LifetimeShape ==
  ASSUME Shape, Lifetime
  PROVE  Shape'
<1>1. ASSUME NEW p \in Pods, CreatePod(p) PROVE Shape'
  <2>1. [life |-> "live", node |-> NoNode] \in PodState
    BY DEF PodState
  <2>2. Feeds'
    BY <1>1, <2>1, TellPodFeeds DEF CreatePod
  <2> QED BY <1>1, <2>2 DEF CreatePod, Shape, Cycling
<1>2. ASSUME NEW p \in Pods, EndPod(p) PROVE Shape'
  <2>1. [pods[p] EXCEPT !.life = "ending"] \in PodState
    BY DEF PodState, Shape, Feeds
  <2>2. Feeds'
    BY <1>2, <2>1, TellPodFeeds DEF EndPod
  <2> QED BY <1>2, <2>2 DEF EndPod, Shape, Cycling
<1>3. ASSUME NEW p \in Pods, RemovePod(p) PROVE Shape'
  <2>1. [pods[p] EXCEPT !.life = "gone"] \in PodState
    BY DEF PodState, Shape, Feeds
  <2>2. Feeds'
    BY <1>3, <2>1, TellPodFeeds DEF RemovePod
  <2> QED BY <1>3, <2>2 DEF RemovePod, Shape, Cycling
<1>4. ASSUME NEW p \in Pods, Bind(p) PROVE Shape'
  <2>1. [pods[p] EXCEPT !.node = binding[p]] \in PodState
    BY DEF PodState, Shape, Feeds, Cycling
  <2>2. Feeds'
    <3>1. CASE pods[p].life = "live"
      BY <1>4, <2>1, <3>1, TellPodFeeds DEF Bind
    <3>2. CASE pods[p].life # "live"
      BY <1>4, <3>2 DEF Bind, Shape, Feeds
    <3> QED BY <3>1, <3>2
  <2>3. Cycling'
    BY <1>4 DEF Bind, Shape, Cycling
  <2> QED BY <1>4, <2>2, <2>3 DEF Bind, Shape
<1> QED BY <1>1, <1>2, <1>3, <1>4 DEF Lifetime

\* What a pod may reuse are directories on its node, of its volume.
LEMMA ReusableAreThere ==
  ASSUME NEW n \in Nodes, NEW p \in Pods, NEW pv \in Volumes, NEW d \in Reusable(n, p, pv)
  PROVE  d \in dirs /\ d.node = n /\ d.volume = pv
BY DEF Reusable, Owned, Unowned

LEMMA DiskAt ==
  ASSUME NEW n \in Nodes, NEW i \in DOMAIN DisksOf[n]
  PROVE  DisksOf[n][i] \in [path : Disks, allocable : Nat, disabled : BOOLEAN]
<1>1. DisksOf[n] \in Seq([path : Disks, allocable : Nat, disabled : BOOLEAN])
  BY HostPathAssumption
<1> QED BY <1>1, LenProperties, ElementOfSeq

LEMMA PluginShape ==
  ASSUME Shape, Plugin
  PROVE  Shape'
<1>1. ASSUME NEW p \in Pods, NEW pv \in Volumes, Reuse(p, pv) PROVE Shape'
  <2>1. pods[p].node \in Nodes
    BY <1>1 DEF Reuse, Waits, Shape, Feeds, PodState
  <2>2. PICK d \in Reusable(pods[p].node, p, pv) :
          dirs' = (dirs \ {d}) \cup {[d EXCEPT !.owner = OwnerOf(p, pv), !.users = @ \cup {p}]}
    BY <1>1 DEF Reuse
  <2>3. d \in OnNode
    BY <2>1, <2>2, ReusableAreThere DEF Shape
  <2>4. [d EXCEPT !.owner = OwnerOf(p, pv), !.users = @ \cup {p}] \in OnNode
    BY <2>3 DEF OnNode, OwnerOf
  <2> QED BY <1>1, <2>2, <2>4 DEF Reuse, Shape, Feeds, Cycling
<1>2. ASSUME NEW p \in Pods, NEW pv \in Volumes, MakeDirectory(p, pv) PROVE Shape'
  <2>1. pods[p].node \in Nodes
    BY <1>2 DEF MakeDirectory, Waits, Shape, Feeds, PodState
  <2>2. PICK maker \in MakerOf(pods[p].node, p, pv) : \E i \in BestDisks(pods[p].node, maker, pv) :
          dirs' = dirs \cup {[node |-> pods[p].node, disk |-> DisksOf[pods[p].node][i].path, volume |-> pv,
                              maker |-> maker, owner |-> OwnerOf(p, pv), users |-> {p}]}
    BY <1>2 DEF MakeDirectory
  <2>7. PICK i \in BestDisks(pods[p].node, maker, pv) :
          dirs' = dirs \cup {[node |-> pods[p].node, disk |-> DisksOf[pods[p].node][i].path, volume |-> pv,
                              maker |-> maker, owner |-> OwnerOf(p, pv), users |-> {p}]}
    BY <2>2
  <2>3. maker \in Pods \cup {NoPod}
    BY DEF MakerOf, MakersFor, OwnerOf, Shape, OnNode
  <2>4. DisksOf[pods[p].node][i].path \in Disks
    <3>1. i \in DOMAIN DisksOf[pods[p].node]
      BY <2>7 DEF BestDisks
    <3> QED BY <2>1, <3>1, HostPathAssumption, DiskAt
  <2>5. OwnerOf(p, pv) \in Pods \cup {NoPod}
    BY DEF OwnerOf
  <2>6. [node |-> pods[p].node, disk |-> DisksOf[pods[p].node][i].path, volume |-> pv,
         maker |-> maker, owner |-> OwnerOf(p, pv), users |-> {p}] \in OnNode
    BY <2>1, <2>3, <2>4, <2>5 DEF OnNode
  <2> QED BY <1>2, <2>7, <2>6 DEF MakeDirectory, Shape, Feeds, Cycling
<1>3. ASSUME NEW p \in Pods, NEW pv \in Volumes, Unpublish(p, pv) PROVE Shape'
  <2>1. PICK d \in dirs : dirs' = (dirs \ {d}) \cup {[d EXCEPT !.users = @ \ {p}]}
    BY <1>3 DEF Unpublish
  <2>2. [d EXCEPT !.users = @ \ {p}] \in OnNode
    BY DEF OnNode, Shape
  <2> QED BY <1>3, <2>1, <2>2 DEF Unpublish, Shape, Feeds, Cycling
<1>4. ASSUME NEW n \in Nodes, NEW pv \in Volumes, Annotate(n, pv) PROVE Shape'
  <2> DEFINE old == IF n \in DOMAIN mounts[pv] THEN mounts[pv][n] ELSE {}
             new == IF pv \in Keep THEN old \cup InUse(n, pv) ELSE InUse(n, pv)
             known == (DOMAIN mounts[pv] \ {n}) \cup (IF new = {} THEN {} ELSE {n})
             mount == [m \in known |-> IF m = n THEN new ELSE mounts[pv][m]]
  <2>1. PICK D \in SUBSET Nodes : mounts[pv] \in [D -> SUBSET Directory]
    BY DEF Shape, Feeds, Annotation
  <2>2. InUse(n, pv) \subseteq Directory
    BY DEF InUse, PathOf, Directory, Shape, OnNode
  <2>3. new \in SUBSET Directory /\ known \in SUBSET Nodes
    BY <2>1, <2>2
  <2>4. mount \in [known -> SUBSET Directory]
    BY <2>1, <2>3
  <2>5. mount \in Annotation
    BY <2>3, <2>4 DEF Annotation
  <2>6. TellMount(pv, mount)
    BY <1>4 DEF Annotate
  <2>7. Feeds'
    BY <1>4, <2>5, <2>6, TellMountFeeds DEF Annotate
  <2> QED BY <1>4, <2>7 DEF Annotate, Shape, Cycling
<1>5. ASSUME NEW d \in dirs, Clean(d) PROVE Shape'
  BY <1>5 DEF Clean, Shape, Feeds, Cycling
<1> QED BY <1>1, <1>2, <1>3, <1>4, <1>5 DEF Plugin

LEMMA StepShape ==
  ASSUME Shape, [Next]_vars
  PROVE  Shape'
<1>1. CASE UNCHANGED vars
  BY <1>1 DEF vars, Shape, Feeds, Cycling
<1> QED BY <1>1, CycleShape, DeliverShape, LifetimeShape, PluginShape DEF Next

LEMMA ShapeAlways == Spec => []Shape
<1> QED BY InitShape, StepShape, PTL DEF Spec

\* Every state has its type, whatever the cluster promises: a cycle judges no
\* node twice, and never schedules a pod whose bind is in flight.
THEOREM TypeCorrect == Spec => []TypeOK
<1>1. Shape => TypeOK
  BY ShapeIsTyped
<1> QED BY <1>1, ShapeAlways, PTL

-----------------------------------------------------------------------------
(* One home for a shared kept volume.  The promises it takes: a cycle starts *)
(* only when no bind is in flight and the cache knows every pod there is,  *)
(* and no pod ends.                                                        *)

Promised == {"bound", "known", "lasting"} \subseteq Promises
Together == Shared \cap Keep

\* A pod is on n, or a bind in flight names n.
Aims(p, n) == pods[p].node = n \/ binding[p] = n

\* Pods only come and are bound; what the cache holds of one, and what is on
\* its way there, is no more than what is so.
Lasting ==
  \A p \in Pods :
    /\ pods[p].life \in {"unborn", "live"}
    /\ pods[p].life = "unborn" => pods[p].node = NoNode
    /\ seen.pods[p].life \in {"unborn", "live"}
    /\ seen.pods[p].node \in {NoNode, pods[p].node}

Underway ==
  \A i \in 1..Len(podFeed) :
    /\ podFeed[i].value.life = "live"
    /\ podFeed[i].value.node \in {NoNode, pods[podFeed[i].key].node}

\* A pod is bound once.
BoundOnce ==
  /\ \A p \in Pods : binding[p] # NoNode => pods[p].node = NoNode
  /\ cycle.pod # NoPod => pods[cycle.pod].node = NoNode

\* While a cycle runs no bind is in flight and the cache has every bound pod.
Waited ==
  cycle.pod # NoPod =>
    \A p \in Pods : /\ binding[p] = NoNode
                    /\ pods[p].node # NoNode => seen.pods[p].life = "live"

\* Directories, and the annotations the cache holds or will hold, are on nodes
\* where a user of the volume is.
UserOn(pv, n) == n \in Nodes /\ \E p \in Pods : UsesVolume(p, pv) /\ pods[p].node = n

Inhabited ==
  /\ \A d \in dirs : UserOn(d.volume, d.node)
  /\ \A pv \in Volumes : \A n \in DOMAIN mounts[pv] \cup DOMAIN seen.mounts[pv] : UserOn(pv, n)
  /\ \A i \in 1..Len(pvFeed) : \A n \in DOMAIN pvFeed[i].value : UserOn(pvFeed[i].key, n)

\* The users of such a volume aim at one node,
OneAim ==
  \A pv \in Together : \A p, q \in Pods : \A n, m \in Nodes :
    UsesVolume(p, pv) /\ UsesVolume(q, pv) /\ Aims(p, n) /\ Aims(q, m) => n = m

\* and a node the affinity predicate has kept is that one.
Kept ==
  cycle.pc \in {"affinity", "choose"} =>
    \A n \in cycle.fits : \A pv \in Together : \A q \in Pods : \A m \in Nodes :
      UsesVolume(cycle.pod, pv) /\ UsesVolume(q, pv) /\ pods[q].node = m => m = n

Home == Lasting /\ Underway /\ BoundOnce /\ Waited /\ Inhabited /\ OneAim /\ Kept

LEMMA InitHome == Init /\ Promised => Home
<1> SUFFICES ASSUME Init PROVE Home
  OBVIOUS
<1>1. \A p \in Pods : pods[p] = Unborn /\ seen.pods[p] = Unborn /\ binding[p] = NoNode
  BY DEF Init
<1>2. \A pv \in Volumes : DOMAIN mounts[pv] = {} /\ DOMAIN seen.mounts[pv] = {}
  BY DEF Init, NoMount
<1>3. podFeed = <<>> /\ pvFeed = <<>> /\ dirs = {} /\ cycle.pc = "idle" /\ cycle.pod = NoPod
  BY DEF Init, Idle
<1> QED BY <1>1, <1>2, <1>3, HostPathAssumption
       DEF Home, Lasting, Underway, BoundOnce, Waited, Inhabited, OneAim, Kept, Aims, Unborn

\* Affinity keeps a node only if it is where the volume's other users are.
LEMMA AffinityFindsHome ==
  ASSUME Shape, Home, cycle.pod \in Pods, NEW n \in Nodes,
         AffinityMatch(seen, pods, cycle.pod, n),
         NEW pv \in Together, UsesVolume(cycle.pod, pv),
         NEW q \in Pods, UsesVolume(q, pv), pods[q].node \in Nodes
  PROVE  pods[q].node = n
<1>1. SharedKeepMatch(seen, pods, pv, n)
  BY DEF AffinityMatch, VolumeMatch, UsesVolume, Together
<1>2. pv \in Volumes
  BY HostPathAssumption DEF Together
<1>3. ASSUME UserOn(pv, n) PROVE pods[q].node = n
  BY <1>3 DEF UserOn, Home, OneAim, Aims
<1>4. CASE DOMAIN seen.mounts[pv] = {}
  <2> DEFINE NodeOf(p) == IF seen.pods[p].node # NoNode THEN seen.pods[p].node ELSE pods[p].node
  <2>1. \A p \in Pods : NodeOf(p) = pods[p].node
    BY DEF Home, Lasting
  <2>2. q \in ReadyUsers(seen, pv)
    BY HostPathAssumption DEF ReadyUsers, IsPodReady, Home, Waited
  <2>3. UsedNodes(seen, pods, pv) = {NodeOf(p) : p \in ReadyUsers(seen, pv)} \ {NoNode}
    BY DEF UsedNodes
  <2> HIDE DEF NodeOf
  <2>4. pods[q].node \in UsedNodes(seen, pods, pv)
    BY <2>1, <2>2, <2>3, HostPathAssumption
  <2>5. n \in UsedNodes(seen, pods, pv)
    BY <1>1, <1>4, <2>4 DEF SharedKeepMatch
  <2>6. PICK p \in ReadyUsers(seen, pv) : NodeOf(p) = n
    BY <2>3, <2>5
  <2>7. p \in Pods /\ UsesVolume(p, pv)
    BY DEF ReadyUsers
  <2> QED BY <1>3, <2>1, <2>6, <2>7 DEF UserOn
<1>5. CASE DOMAIN seen.mounts[pv] # {}
  <2>1. n \in DOMAIN seen.mounts[pv]
    BY <1>1, <1>5 DEF SharedKeepMatch, HasEntry
  <2> QED BY <1>2, <1>3, <2>1 DEF Home, Inhabited
<1> QED BY <1>4, <1>5

\* What a judgement does to the nodes kept.
LEMMA JudgeKeeps ==
  ASSUME Cycling, cycle.pod # NoPod, NEW n \in cycle.left, NEW holds \in BOOLEAN,
         NEW phase \in {"affinity", "choose"}, Judge(n, holds, phase)
  PROVE  /\ cycle'.pod \in {NoPod, cycle.pod}
         /\ cycle'.pod = NoPod => cycle'.pc = "idle"
         /\ cycle'.pc \in {"idle", cycle.pc, phase}
         /\ cycle'.fits \subseteq cycle.fits \cup {m \in {n} : holds}
         /\ phase = "affinity" /\ cycle'.pc = "affinity" /\ cycle.pc # "affinity" => cycle'.fits = {}
<1> DEFINE left == cycle.left \ {n}
           fits == IF holds THEN cycle.fits \cup {n} ELSE cycle.fits
<1>1. fits \subseteq cycle.fits \cup {m \in {n} : holds}
  OBVIOUS
<1>2. CASE left # {}
  <2>1. cycle' = [cycle EXCEPT !.left = left, !.fits = fits]
    BY <1>2 DEF Judge
  <2> HIDE DEF left, fits
  <2> QED BY <1>1, <2>1 DEF Cycling
<1>3. CASE left = {} /\ fits = {}
  BY <1>3 DEF Judge, Cycling, Idle
<1>4. CASE left = {} /\ fits # {}
  <2>1. cycle' = [cycle EXCEPT !.pc = phase, !.fits = IF phase = "affinity" THEN {} ELSE fits,
                               !.left = IF phase = "affinity" THEN fits ELSE {}]
    BY <1>4 DEF Judge
  <2> HIDE DEF left, fits
  <2> QED BY <1>1, <2>1 DEF Cycling
<1> QED BY <1>2, <1>3, <1>4

-----------------------------------------------------------------------------
(* Every step keeps the home. *)

\* A pod event that says no more than what becomes true of the pod.
LEMMA TellPodHome ==
  ASSUME Shape, Home, NEW p \in Pods, NEW pod \in PodState, TellPod(p, pod),
         pod.life = "live", pods[p].node = NoNode \/ pod.node = pods[p].node
  PROVE  Lasting' /\ Underway'
<1>1. pods' = [pods EXCEPT ![p] = pod] /\ pods' \in [Pods -> PodState]
  BY DEF TellPod, Shape, Feeds
<1>2. \A q \in Pods : pods[q].node \in {NoNode, pods'[q].node}
  BY <1>1 DEF Shape, Feeds
<1>3. CASE Synced
  <2>1. seen' = [seen EXCEPT !.pods[p] = pod] /\ podFeed' = podFeed
    BY <1>3 DEF TellPod
  <2>2. \A q \in Pods : seen'.pods[q] = IF q = p THEN pod ELSE seen.pods[q]
    BY <2>1 DEF Shape, Feeds
  <2>3. Lasting'
    BY <1>1, <1>2, <2>2 DEF Home, Lasting, Shape, Feeds
  <2>4. Underway'
    <3> SUFFICES ASSUME NEW i \in 1..Len(podFeed)
                 PROVE /\ podFeed[i].value.life = "live"
                       /\ podFeed[i].value.node \in {NoNode, pods'[podFeed[i].key].node}
      BY <2>1 DEF Underway
    <3>1. podFeed[i] \in PodEvent
      BY ElementOfSeq DEF Shape, Feeds
    <3> QED BY <1>2, <3>1 DEF Home, Underway, PodEvent
  <2> QED BY <2>3, <2>4
<1>4. CASE ~Synced
  <2>1. seen' = seen /\ podFeed' = Append(podFeed, [key |-> p, value |-> pod])
    BY <1>4 DEF TellPod
  <2>2. Lasting'
    BY <1>1, <1>2, <2>1 DEF Home, Lasting, Shape, Feeds
  <2>3. Len(podFeed) \in Nat /\ Len(podFeed') = Len(podFeed) + 1
        /\ podFeed'[Len(podFeed) + 1] = [key |-> p, value |-> pod]
        /\ \A i \in 1..Len(podFeed) : podFeed'[i] = podFeed[i]
    BY <2>1, AppendProperties, LenProperties DEF Shape, Feeds
  <2>4. Underway'
    <3> SUFFICES ASSUME NEW i \in 1..Len(podFeed')
                 PROVE /\ podFeed'[i].value.life = "live"
                       /\ podFeed'[i].value.node \in {NoNode, pods'[podFeed'[i].key].node}
      BY DEF Underway
    <3>1. CASE i = Len(podFeed) + 1
      BY <1>1, <2>3, <3>1 DEF Shape, Feeds
    <3>2. CASE i \in 1..Len(podFeed)
      <4>1. podFeed[i] \in PodEvent
        BY <3>2, ElementOfSeq DEF Shape, Feeds
      <4> QED BY <1>2, <2>3, <3>2, <4>1 DEF Home, Underway, PodEvent
    <3> QED BY <2>3, <3>1, <3>2
  <2> QED BY <2>2, <2>4
<1> QED BY <1>3, <1>4

LEMMA CycleHome ==
  ASSUME Shape, Home, Promised, Cycle
  PROVE  Home'
<1>1. ASSUME NEW p \in Pods, Pick(p) PROVE Home'
  <2>1. \A q \in Pods : binding[q] = NoNode
    BY <1>1 DEF Pick, Quiet, Promised
  <2>2. \A q \in Pods : pods[q].node # NoNode => seen.pods[q].life = "live"
    BY <1>1 DEF Pick, Quiet, Promised, Home, Lasting
  <2>3. cycle' = [pc |-> "pressure", pod |-> p, left |-> Nodes, fits |-> {}] /\ pods[p].node = NoNode
        /\ UNCHANGED <<pods, mounts, seen, podFeed, pvFeed, binding, dirs>>
    BY <1>1 DEF Pick
  <2> QED BY <2>1, <2>2, <2>3
         DEF Home, Lasting, Underway, BoundOnce, Waited, Inhabited, UserOn, OneAim, Kept, Aims
<1>2. ASSUME NEW n \in Nodes, AskPressure(n) PROVE Home'
  <2>1. cycle.pod # NoPod /\ n \in cycle.left /\ cycle.pc = "pressure"
        /\ UNCHANGED <<pods, mounts, seen, podFeed, pvFeed, binding, dirs>>
    BY <1>2 DEF AskPressure, Shape, Cycling
  <2>2. PressureMatch(seen, cycle.pod, n) \in BOOLEAN
    BY DEF PressureMatch
  <2>3. /\ cycle'.pod \in {NoPod, cycle.pod}
        /\ cycle'.pod = NoPod => cycle'.pc = "idle"
        /\ cycle'.pc \in {"idle", "pressure", "affinity"}
        /\ cycle'.pc = "affinity" => cycle'.fits = {}
    BY <1>2, <2>1, <2>2, JudgeKeeps DEF AskPressure, Shape
  <2> QED BY <2>1, <2>3
         DEF Home, Lasting, Underway, BoundOnce, Waited, Inhabited, UserOn, OneAim, Kept, Aims
<1>3. ASSUME NEW n \in Nodes, AskAffinity(n) PROVE Home'
  <2>1. cycle.pod \in Pods /\ cycle.pod # NoPod /\ n \in cycle.left /\ cycle.pc = "affinity"
        /\ UNCHANGED <<pods, mounts, seen, podFeed, pvFeed, binding, dirs>>
    BY <1>3, HostPathAssumption DEF AskAffinity, Shape, Cycling
  <2> DEFINE holds == AffinityMatch(seen, pods, cycle.pod, n)
  <2>2. holds \in BOOLEAN
    BY DEF AffinityMatch
  <2>3. /\ cycle'.pod \in {NoPod, cycle.pod}
        /\ cycle'.pod = NoPod => cycle'.pc = "idle"
        /\ cycle'.pc \in {"idle", "affinity", "choose"}
        /\ cycle'.fits \subseteq cycle.fits \cup {m \in {n} : holds}
    BY <1>3, <2>1, <2>2, JudgeKeeps DEF AskAffinity, Shape
  <2>4. Kept'
    <3> SUFFICES ASSUME cycle'.pc \in {"affinity", "choose"}, NEW k \in cycle'.fits, NEW pv \in Together,
                        NEW q \in Pods, NEW m \in Nodes,
                        UsesVolume(cycle'.pod, pv), UsesVolume(q, pv), pods[q].node = m
                 PROVE  m = k
      BY <2>1 DEF Kept
    <3>1. cycle'.pod = cycle.pod
      BY <2>3
    <3>2. CASE k \in cycle.fits
      BY <2>1, <3>1, <3>2 DEF Home, Kept
    <3>3. CASE k = n /\ holds
      BY <2>1, <3>1, <3>3, AffinityFindsHome
    <3> QED BY <2>3, <3>2, <3>3
  <2> QED BY <2>1, <2>3, <2>4
         DEF Home, Lasting, Underway, BoundOnce, Waited, Inhabited, UserOn, OneAim, Aims
<1>4. ASSUME NEW n \in Nodes, Assume(n) PROVE Home'
  <2>1. /\ cycle.pc = "choose" /\ n \in cycle.fits /\ cycle.pod \in Pods /\ cycle.pod # NoPod
        /\ binding' = [binding EXCEPT ![cycle.pod] = n]
        /\ cycle'.pc = "idle" /\ cycle'.pod = NoPod
        /\ UNCHANGED <<pods, mounts, seen, podFeed, pvFeed, dirs>>
    BY <1>4, HostPathAssumption DEF Assume, Shape, Cycling, Idle
  <2>2. \A q \in Pods : binding'[q] = IF q = cycle.pod THEN n ELSE binding[q]
    BY <2>1 DEF Shape, Cycling
  <2>3. BoundOnce'
    BY <2>1, <2>2 DEF Home, BoundOnce
  <2>4. OneAim'
    <3> SUFFICES ASSUME NEW pv \in Together, NEW p \in Pods, NEW q \in Pods, NEW k \in Nodes, NEW m \in Nodes,
                        UsesVolume(p, pv), UsesVolume(q, pv), Aims(p, k)', Aims(q, m)'
                 PROVE  k = m
      BY DEF OneAim
    <3>1. pods[p].node = k \/ (p = cycle.pod /\ k = n)
      BY <2>1, <2>2, HostPathAssumption DEF Aims, Home, Waited
    <3>2. pods[q].node = m \/ (q = cycle.pod /\ m = n)
      BY <2>1, <2>2, HostPathAssumption DEF Aims, Home, Waited
    <3> QED BY <2>1, <3>1, <3>2 DEF Home, OneAim, Aims, Kept
  <2> QED BY <2>1, <2>3, <2>4
         DEF Home, Lasting, Underway, Waited, Inhabited, UserOn, Kept
<1> QED BY <1>1, <1>2, <1>3, <1>4 DEF Cycle

LEMMA DeliverHome ==
  ASSUME Shape, Home, Deliver
  PROVE  Home'
<1>1. ASSUME DeliverPod PROVE Home'
  <2>1. Head(podFeed) = podFeed[1] /\ Len(Tail(podFeed)) = Len(podFeed) - 1 /\ Len(podFeed) \in Nat
        /\ Len(podFeed) # 0 /\ \A i \in 1..Len(Tail(podFeed)) : Tail(podFeed)[i] = podFeed[i + 1]
    BY <1>1, HeadTailProperties, EmptySeq, LenProperties DEF DeliverPod, Shape, Feeds
  <2>2. PICK e \in PodEvent : e = podFeed[1]
    BY <2>1, ElementOfSeq DEF Shape, Feeds
  <2>3. seen' = [seen EXCEPT !.pods[e.key] = e.value] /\ podFeed' = Tail(podFeed)
        /\ UNCHANGED <<pods, mounts, pvFeed, cycle, binding, dirs>>
    BY <1>1, <2>1, <2>2 DEF DeliverPod
  <2>4. e.value.life = "live" /\ e.value.node \in {NoNode, pods[e.key].node}
    BY <2>1, <2>2 DEF Home, Underway
  <2>5. seen'.mounts = seen.mounts
        /\ \A q \in Pods : seen'.pods[q] = IF q = e.key THEN e.value ELSE seen.pods[q]
    BY <2>3 DEF Shape, Feeds
  <2>6. Lasting' /\ Waited'
    BY <2>3, <2>4, <2>5 DEF Home, Lasting, Waited
  <2>7. Underway'
    BY <2>1, <2>3 DEF Home, Underway
  <2> QED BY <2>3, <2>5, <2>6, <2>7 DEF Home, BoundOnce, Inhabited, UserOn, OneAim, Kept, Aims
<1>2. ASSUME DeliverMount PROVE Home'
  <2>1. Head(pvFeed) = pvFeed[1] /\ Len(Tail(pvFeed)) = Len(pvFeed) - 1 /\ Len(pvFeed) \in Nat
        /\ Len(pvFeed) # 0 /\ \A i \in 1..Len(Tail(pvFeed)) : Tail(pvFeed)[i] = pvFeed[i + 1]
    BY <1>2, HeadTailProperties, EmptySeq, LenProperties DEF DeliverMount, Shape, Feeds
  <2>2. PICK e \in MountEvent : e = pvFeed[1]
    BY <2>1, ElementOfSeq DEF Shape, Feeds
  <2>3. seen' = [seen EXCEPT !.mounts[e.key] = e.value] /\ pvFeed' = Tail(pvFeed)
        /\ UNCHANGED <<pods, mounts, podFeed, cycle, binding, dirs>>
    BY <1>2, <2>1, <2>2 DEF DeliverMount
  <2>4. \A n \in DOMAIN e.value : UserOn(e.key, n)
    BY <2>1, <2>2 DEF Home, Inhabited
  <2>5. seen'.pods = seen.pods
        /\ \A pv \in Volumes : seen'.mounts[pv] = IF pv = e.key THEN e.value ELSE seen.mounts[pv]
    BY <2>3 DEF Shape, Feeds
  <2>6. Inhabited'
    BY <2>1, <2>3, <2>4, <2>5 DEF Home, Inhabited, UserOn
  <2> QED BY <2>3, <2>5, <2>6 DEF Home, Lasting, Underway, BoundOnce, Waited, OneAim, Kept, Aims
<1>3. ASSUME NEW pv \in Volumes, DeliverClaim(pv) PROVE Home'
  <2>1. seen'.pods = seen.pods /\ seen'.mounts = seen.mounts
        /\ UNCHANGED <<pods, mounts, podFeed, pvFeed, cycle, binding, dirs>>
    BY <1>3 DEF DeliverClaim, Shape, Feeds
  <2> QED
    BY <2>1 DEF Home, Lasting, Underway, BoundOnce, Waited, Inhabited, UserOn, OneAim, Kept,
       Aims
<1> QED BY <1>1, <1>2, <1>3 DEF Deliver

LEMMA LifetimeHome ==
  ASSUME Shape, Home, Promised, Lifetime
  PROVE  Home'
<1>1. ASSUME NEW p \in Pods, CreatePod(p) PROVE Home'
  <2> DEFINE pod == [life |-> "live", node |-> NoNode]
  <2>1. pods[p].node = NoNode /\ TellPod(p, pod) /\ pod \in PodState
        /\ UNCHANGED <<mounts, pvFeed, cycle, binding, dirs>>
    BY <1>1 DEF CreatePod, PodState, Home, Lasting
  <2>2. \A q \in Pods : pods'[q].node = pods[q].node
    BY <2>1 DEF TellPod, Shape, Feeds
  <2>3. seen'.mounts = seen.mounts
        /\ \A q \in Pods : seen'.pods[q].life \in {"live", seen.pods[q].life}
    BY <2>1 DEF TellPod, Shape, Feeds
  <2>4. Lasting' /\ Underway'
    BY <2>1, TellPodHome
  <2>5. BoundOnce' /\ Waited'
    BY <2>1, <2>2, <2>3, HostPathAssumption DEF Home, BoundOnce, Waited, Shape, Cycling
  <2>6. OneAim' /\ Kept'
    BY <2>1, <2>2 DEF Home, OneAim, Kept, Aims
  <2>7. Inhabited'
    BY <2>1, <2>2, <2>3 DEF Home, Inhabited, UserOn
  <2> QED BY <2>4, <2>5, <2>6, <2>7 DEF Home
<1>2. ASSUME NEW p \in Pods, EndPod(p) PROVE Home'
  BY <1>2 DEF EndPod, Promised
<1>3. ASSUME NEW p \in Pods, RemovePod(p) PROVE Home'
  BY <1>3 DEF RemovePod, Home, Lasting
<1>4. ASSUME NEW p \in Pods, Bind(p) PROVE Home'
  <2>1. binding[p] # NoNode /\ binding[p] \in Nodes /\ pods[p].node = NoNode
        /\ binding' = [binding EXCEPT ![p] = NoNode]
        /\ UNCHANGED <<mounts, pvFeed, cycle, dirs>>
    BY <1>4 DEF Bind, Home, BoundOnce, Shape, Cycling
  <2>2. cycle.pod = NoPod /\ cycle.pc = "idle"
    BY <2>1 DEF Home, Waited, Shape, Cycling
  <2>3. \A q \in Pods : binding'[q] = IF q = p THEN NoNode ELSE binding[q]
    BY <2>1 DEF Shape, Cycling
  <2>4. CASE pods[p].life = "live"
    <3> DEFINE pod == [pods[p] EXCEPT !.node = binding[p]]
    <3>1. pod \in PodState /\ pod.life = "live" /\ pod.node = binding[p] /\ TellPod(p, pod)
      BY <1>4, <2>1, <2>4 DEF Bind, PodState, Shape, Feeds
    <3> HIDE DEF pod
    <3>2. \A q \in Pods : pods'[q].node = IF q = p THEN binding[p] ELSE pods[q].node
      BY <3>1 DEF TellPod, Shape, Feeds
    <3>3. seen'.mounts = seen.mounts
      BY <3>1 DEF TellPod, Shape, Feeds
    <3>4. Lasting' /\ Underway'
      BY <2>1, <3>1, TellPodHome
    <3>5. BoundOnce' /\ Waited' /\ Kept'
      BY <2>1, <2>2, <2>3, <3>2 DEF Home, BoundOnce, Waited, Kept
    <3>6. \A q \in Pods, n \in Nodes : Aims(q, n)' => Aims(q, n)
      BY <2>1, <2>3, <3>2, HostPathAssumption DEF Aims
    <3>7. OneAim'
      BY <3>6 DEF Home, OneAim
    <3>8. \A pv, n : UserOn(pv, n) => UserOn(pv, n)'
      BY <2>1, <3>2, HostPathAssumption DEF UserOn
    <3>9. Inhabited'
      BY <2>1, <3>3, <3>8 DEF Home, Inhabited
    <3> QED BY <3>4, <3>5, <3>7, <3>9 DEF Home
  <2>5. CASE pods[p].life # "live"
    <3>1. UNCHANGED <<pods, seen, podFeed>>
      BY <1>4, <2>5 DEF Bind
    <3>2. \A q \in Pods, n \in Nodes : Aims(q, n)' => Aims(q, n)
      BY <2>3, <3>1, HostPathAssumption DEF Aims
    <3>3. OneAim'
      BY <3>2 DEF Home, OneAim
    <3> QED BY <2>1, <2>2, <2>3, <3>1, <3>3
           DEF Home, Lasting, Underway, BoundOnce, Waited, Inhabited, UserOn, Kept
  <2> QED BY <2>4, <2>5
<1> QED BY <1>1, <1>2, <1>3, <1>4 DEF Lifetime

LEMMA PluginHome ==
  ASSUME Shape, Home, Plugin
  PROVE  Home'
<1>1. ASSUME UNCHANGED <<pods, mounts, seen, podFeed, pvFeed, cycle, binding>>,
             \A d \in dirs' : UserOn(d.volume, d.node)
      PROVE Home'
  BY <1>1 DEF Home, Lasting, Underway, BoundOnce, Waited, Inhabited, UserOn, OneAim, Kept, Aims
<1>2. ASSUME NEW p \in Pods, NEW pv \in Volumes, Reuse(p, pv) PROVE Home'
  <2>1. pods[p].node \in Nodes
    BY <1>2 DEF Reuse, Waits, Shape, Feeds, PodState
  <2>2. PICK d \in Reusable(pods[p].node, p, pv) :
          dirs' = (dirs \ {d}) \cup {[d EXCEPT !.owner = OwnerOf(p, pv), !.users = @ \cup {p}]}
    BY <1>2 DEF Reuse
  <2>3. d \in OnNode /\ UserOn(d.volume, d.node)
    BY <2>1, <2>2, ReusableAreThere DEF Shape, Home, Inhabited
  <2>4. [d EXCEPT !.owner = OwnerOf(p, pv), !.users = @ \cup {p}].node = d.node
        /\ [d EXCEPT !.owner = OwnerOf(p, pv), !.users = @ \cup {p}].volume = d.volume
    BY <2>3 DEF OnNode
  <2>5. \A e \in dirs' : UserOn(e.volume, e.node)
    BY <2>2, <2>3, <2>4 DEF Home, Inhabited
  <2> QED BY <1>1, <1>2, <2>5 DEF Reuse
<1>3. ASSUME NEW p \in Pods, NEW pv \in Volumes, MakeDirectory(p, pv) PROVE Home'
  <2>1. UserOn(pv, pods[p].node)
    BY <1>3 DEF MakeDirectory, Waits, UserOn, Shape, Feeds, PodState
  <2>2. \A d \in dirs' : d \in dirs \/ (d.node = pods[p].node /\ d.volume = pv)
    BY <1>3 DEF MakeDirectory
  <2>3. \A d \in dirs' : UserOn(d.volume, d.node)
    BY <2>1, <2>2 DEF Home, Inhabited
  <2> QED BY <1>1, <1>3, <2>3 DEF MakeDirectory
<1>4. ASSUME NEW p \in Pods, NEW pv \in Volumes, Unpublish(p, pv) PROVE Home'
  BY <1>4 DEF Unpublish, Home, Lasting
<1>5. ASSUME NEW n \in Nodes, NEW pv \in Volumes, Annotate(n, pv) PROVE Home'
  <2>1. PICK mount : TellMount(pv, mount) /\ DOMAIN mount \subseteq DOMAIN mounts[pv] \cup {n}
    <3> DEFINE old == IF n \in DOMAIN mounts[pv] THEN mounts[pv][n] ELSE {}
               new == IF pv \in Keep THEN old \cup InUse(n, pv) ELSE InUse(n, pv)
               known == (DOMAIN mounts[pv] \ {n}) \cup (IF new = {} THEN {} ELSE {n})
    <3>1. TellMount(pv, [m \in known |-> IF m = n THEN new ELSE mounts[pv][m]])
      BY <1>5 DEF Annotate
    <3> QED BY <3>1
  <2>2. UserOn(pv, n)
    BY <1>5 DEF Annotate, Home, Inhabited
  <2>3. \A m \in DOMAIN mount : UserOn(pv, m)
    BY <2>1, <2>2 DEF Home, Inhabited
  <2>4. UNCHANGED <<pods, podFeed, cycle, binding, dirs>> /\ seen'.pods = seen.pods
        /\ mounts' = [mounts EXCEPT ![pv] = mount]
    BY <1>5, <2>1 DEF Annotate, TellMount, Shape, Feeds
  <2>5. \A w \in Volumes : mounts'[w] = IF w = pv THEN mount ELSE mounts[w]
    BY <2>4 DEF Shape, Feeds
  <2>6. CASE Synced
    <3>1. UNCHANGED pvFeed /\ \A w \in Volumes : seen'.mounts[w] = IF w = pv THEN mount ELSE seen.mounts[w]
      BY <2>1, <2>6 DEF TellMount, Shape, Feeds
    <3>2. Inhabited'
      BY <2>3, <2>4, <2>5, <3>1 DEF Home, Inhabited, UserOn
    <3> QED BY <2>4, <3>2 DEF Home, Lasting, Underway, BoundOnce, Waited, OneAim, Kept, Aims
  <2>7. CASE ~Synced
    <3>1. UNCHANGED seen /\ pvFeed' = Append(pvFeed, [key |-> pv, value |-> mount])
      BY <2>1, <2>7 DEF TellMount
    <3>2. Len(pvFeed) \in Nat /\ Len(pvFeed') = Len(pvFeed) + 1
          /\ pvFeed'[Len(pvFeed) + 1] = [key |-> pv, value |-> mount]
          /\ \A i \in 1..Len(pvFeed) : pvFeed'[i] = pvFeed[i]
      BY <3>1, AppendProperties, LenProperties DEF Shape, Feeds
    <3>3. \A i \in 1..Len(pvFeed') : i \in 1..Len(pvFeed) \/ i = Len(pvFeed) + 1
      BY <3>2
    <3>4. Inhabited'
      BY <2>3, <2>4, <2>5, <3>1, <3>2, <3>3 DEF Home, Inhabited, UserOn
    <3> QED
      BY <2>4, <3>1, <3>4 DEF Home, Lasting, Underway, BoundOnce, Waited, OneAim, Kept, Aims
  <2> QED BY <2>6, <2>7
<1>6. ASSUME NEW d \in dirs, Clean(d) PROVE Home'
  <2>1. \A e \in dirs' : UserOn(e.volume, e.node)
    BY <1>6 DEF Clean, Home, Inhabited
  <2> QED BY <1>1, <1>6, <2>1 DEF Clean
<1> QED BY <1>2, <1>3, <1>4, <1>5, <1>6 DEF Plugin

LEMMA StepHome ==
  ASSUME Shape, Home, Promised, [Next]_vars
  PROVE  Home'
<1>1. CASE UNCHANGED vars
  BY <1>1 DEF vars, Home, Lasting, Underway, BoundOnce, Waited, Inhabited, UserOn, OneAim,
     Kept, Aims
<1> QED BY <1>1, CycleHome, DeliverHome, LifetimeHome, PluginHome DEF Next

LEMMA GatheredIsOne ==
  ASSUME \A pv \in Together : \A d, e \in dirs : d.volume = pv /\ e.volume = pv => d.node = e.node
  PROVE  OneHome
<1> SUFFICES ASSUME NEW pv \in Shared \cap Keep
             PROVE Cardinality({d.node : d \in {e \in dirs : e.volume = pv}}) <= 1
  BY DEF OneHome
<1> DEFINE homes == {d.node : d \in {e \in dirs : e.volume = pv}}
<1>1. \A n, m \in homes : n = m
  BY DEF Together
<1> HIDE DEF homes
<1>2. homes = {} \/ \E n : homes = {n}
  BY <1>1
<1>3. Cardinality(homes) \in {0, 1}
  BY <1>2, FS_EmptySet, FS_Singleton
<1> QED BY <1>3 DEF homes

LEMMA HomeIsOne == Home => OneHome
<1> SUFFICES ASSUME Home, NEW pv \in Together, NEW d \in dirs, NEW e \in dirs, d.volume = pv, e.volume = pv
             PROVE d.node = e.node
  BY GatheredIsOne
<1>1. UserOn(pv, d.node) /\ UserOn(pv, e.node)
  BY DEF Home, Inhabited
<1> QED BY <1>1 DEF UserOn, Home, OneAim, Aims

\* The pods of a shared kept volume all find its data, for any number of pods
\* and nodes and caches any number of events behind, where a cycle waits for
\* the binds before it and for the pods it has to know, and no pod ends.
THEOREM OneHomeAlways == Promised => (Spec => []OneHome)
<1> SUFFICES ASSUME Promised PROVE Spec => []OneHome
  OBVIOUS
<1>1. Init => Shape /\ Home
  BY InitShape, InitHome
<1>2. Shape /\ Home /\ [Next]_vars => (Shape /\ Home)'
  BY StepShape, StepHome
<1>3. Home => OneHome
  BY HomeIsOne
<1> QED BY <1>1, <1>2, <1>3, PTL DEF Spec

-----------------------------------------------------------------------------
(* A settled cluster: a cycle starts only when no bind is in flight, every *)
(* bound pod has its directories and every directory is annotated, and the *)
(* caches are up to date.  Pods may end.                                   *)

Settled == {"bound", "placed", "synced"} \subseteq Promises

DirsOf(pv, n) == {d \in dirs : d.volume = pv /\ d.node = n}
Annotated(d) == d.node \in DOMAIN mounts[d.volume] /\ PathOf(d) \in mounts[d.volume][d.node]

UpToDate ==
  /\ seen.pods = pods /\ seen.mounts = mounts /\ seen.bound = Volumes
  /\ podFeed = <<>> /\ pvFeed = <<>>

\* A pod is bound once, after it was created, and never during a cycle.
Once ==
  /\ \A p \in Pods :
       /\ pods[p].life = "unborn" => pods[p].node = NoNode /\ binding[p] = NoNode /\ cycle.pod # p
       /\ binding[p] # NoNode => pods[p].node = NoNode
  /\ cycle.pod # NoPod => pods[cycle.pod].node = NoNode /\ \A p \in Pods : binding[p] = NoNode

\* The owner, the maker and the users of a directory are on its node; the
\* maker owns it as long as it runs, and a pod only mounts what it owns.
Owners ==
  \A d \in dirs :
    /\ d.volume \in Shared => d.owner = NoPod /\ d.maker = NoPod
    /\ d.volume \notin Shared =>
         /\ d.owner \in Pods /\ pods[d.owner].node = d.node /\ UsesVolume(d.owner, d.volume)
         /\ d.maker \in Pods /\ pods[d.maker].node = d.node
         /\ IsPodReady(pods[d.maker]) => d.owner = d.maker
    /\ \A p \in d.users : /\ pods[p].node = d.node
                          /\ IsPodReady(pods[p]) => d.owner = OwnerOf(p, d.volume)

\* A volume has one directory on a node under one maker, and one of one owner;
\* the directories of one maker do not belong to two pods that run.
Distinct ==
  \A d, e \in dirs : d.node = e.node =>
    /\ d.volume = e.volume /\ (d.owner = e.owner \/ d.maker = e.maker) => d = e
    /\ /\ d.maker = e.maker /\ d.volume \notin Shared /\ e.volume \notin Shared
       /\ IsPodReady(pods[d.owner]) /\ IsPodReady(pods[e.owner])
       => d.owner = e.owner

\* What an annotation names is there.
Entered ==
  \A pv \in Volumes : \A n \in DOMAIN mounts[pv] :
    mounts[pv][n] # {} /\ mounts[pv][n] \subseteq {PathOf(d) : d \in DirsOf(pv, n)}

\* What a cycle waited for stays so while it runs.
Standing ==
  cycle.pod # NoPod =>
    /\ \A p \in Pods, pv \in Volumes : ~Waits(p, pv)
    /\ \A d \in dirs : d.volume \in Keep => Annotated(d)

SInv == UpToDate /\ Once /\ Owners /\ Distinct /\ Entered /\ Standing /\ IsFiniteSet(dirs)

LEMMA InitSInv == Init /\ Settled => SInv
<1> SUFFICES ASSUME Init, Settled PROVE SInv
  OBVIOUS
<1>1. \A p \in Pods : pods[p] = Unborn /\ binding[p] = NoNode
  BY DEF Init
<1>2. \A pv \in Volumes : DOMAIN mounts[pv] = {}
  BY DEF Init, NoMount
<1>3. dirs = {} /\ cycle.pod = NoPod
  BY DEF Init, Idle
<1>4. UpToDate
  BY DEF Init, UpToDate, Settled, Synced
<1>5. IsFiniteSet(dirs)
  BY <1>3, FS_EmptySet
<1> QED BY <1>1, <1>2, <1>3, <1>4, <1>5, HostPathAssumption
       DEF SInv, Once, Owners, Distinct, Entered, Standing, Unborn

\* A pod that is told of is told of at once.
LEMMA ToldPod ==
  ASSUME Shape, UpToDate, Settled, NEW p \in Pods, NEW pod \in PodState, TellPod(p, pod),
         UNCHANGED <<mounts, pvFeed>>
  PROVE  UpToDate' /\ \A q \in Pods : pods'[q] = IF q = p THEN pod ELSE pods[q]
BY DEF TellPod, UpToDate, Settled, Synced, Shape, Feeds

LEMMA ToldMount ==
  ASSUME Shape, UpToDate, Settled, NEW pv \in Volumes, NEW mount, TellMount(pv, mount),
         UNCHANGED <<pods, podFeed>>
  PROVE  UpToDate' /\ \A w \in Volumes : mounts'[w] = IF w = pv THEN mount ELSE mounts[w]
BY DEF TellMount, UpToDate, Settled, Synced, Shape, Feeds

\* A bound pod stays where it is and does not start to run again: the
\* directories keep their owners.
LEMMA OwnersStay ==
  ASSUME Shape, Owners, Distinct, dirs' = dirs,
         \A q \in Pods : pods[q].node # NoNode =>
           pods'[q].node = pods[q].node /\ (IsPodReady(pods'[q]) => IsPodReady(pods[q]))
  PROVE  Owners' /\ Distinct'
<1>1. \A d \in dirs : /\ d.node \in Nodes /\ d.node # NoNode /\ d.users \subseteq Pods
                      /\ d.owner \in Pods \cup {NoPod} /\ d.maker \in Pods \cup {NoPod}
  BY HostPathAssumption DEF Shape, OnNode
<1>2. Owners'
  BY <1>1 DEF Owners, OwnerOf
<1>3. \A d \in dirs : d.volume \notin Shared /\ IsPodReady(pods'[d.owner]) => IsPodReady(pods[d.owner])
  BY <1>1 DEF Owners
<1>4. Distinct'
  BY <1>3 DEF Distinct
<1> QED BY <1>2, <1>4

LEMMA CycleSettled ==
  ASSUME Shape, SInv, Settled, Cycle
  PROVE  SInv'
<1>0. /\ UNCHANGED <<pods, mounts, seen, podFeed, pvFeed, dirs>>
      /\ (Standing /\ Once)' => SInv'
  <2>1. UNCHANGED <<pods, mounts, seen, podFeed, pvFeed, dirs>>
    BY DEF Cycle, Pick, AskPressure, AskAffinity, Assume
  <2>2. UpToDate' /\ Entered'
    BY <2>1 DEF SInv, UpToDate, Entered, DirsOf, PathOf
  <2>3. Owners' /\ Distinct'
    BY <2>1, OwnersStay DEF SInv
  <2> QED BY <2>1, <2>2, <2>3 DEF SInv
<1>1. ASSUME NEW p \in Pods, Pick(p) PROVE SInv'
  <2>1. AllPlaced /\ (\A q \in Pods : binding[q] = NoNode) /\ cycle'.pod = p /\ UNCHANGED binding
        /\ pods[p].life = "live" /\ pods[p].node = NoNode
    BY <1>1 DEF Pick, Quiet, Settled
  <2>2. Standing'
    BY <1>0, <2>1 DEF AllPlaced, Standing, Waits, UsesVolume, Mounts, Annotated, HasEntry, PathOf
  <2>3. Once'
    BY <1>0, <2>1 DEF SInv, Once
  <2> QED BY <1>0, <2>2, <2>3
<1>2. ASSUME NEW n \in Nodes, AskPressure(n) \/ AskAffinity(n) PROVE SInv'
  <2>1. UNCHANGED binding /\ cycle'.pod \in {NoPod, cycle.pod}
    <3>1. cycle.pod # NoPod /\ n \in cycle.left
      BY <1>2 DEF AskPressure, AskAffinity, Shape, Cycling
    <3>2. PressureMatch(seen, cycle.pod, n) \in BOOLEAN /\ AffinityMatch(seen, pods, cycle.pod, n) \in BOOLEAN
      BY DEF PressureMatch, AffinityMatch
    <3> QED BY <1>2, <3>1, <3>2, JudgeKeeps DEF AskPressure, AskAffinity, Shape
  <2>2. Standing'
    BY <1>0, <2>1 DEF SInv, Standing, Waits, Mounts, Annotated, PathOf
  <2>3. Once'
    BY <1>0, HostPathAssumption, <2>1 DEF SInv, Once
  <2> QED BY <1>0, <2>2, <2>3
<1>3. ASSUME NEW n \in Nodes, Assume(n) PROVE SInv'
  <2>1. cycle.pod \in Pods /\ cycle.pod # NoPod /\ cycle'.pod = NoPod
        /\ binding' = [binding EXCEPT ![cycle.pod] = n]
    BY <1>3, HostPathAssumption DEF Assume, Shape, Cycling, Idle
  <2>2. \A q \in Pods : binding'[q] = IF q = cycle.pod THEN n ELSE binding[q]
    BY <2>1 DEF Shape, Cycling
  <2>3. Once' /\ Standing'
    BY <1>0, HostPathAssumption, <2>1, <2>2 DEF SInv, Once, Standing
  <2> QED BY <1>0, <2>3
<1> QED BY <1>1, <1>2, <1>3 DEF Cycle

\* The informers have nothing to deliver.
LEMMA DeliverSettled ==
  ASSUME SInv, Deliver
  PROVE  FALSE
BY DEF SInv, UpToDate, Deliver, DeliverPod, DeliverMount, DeliverClaim

LEMMA LifetimeSettled ==
  ASSUME Shape, SInv, Settled, Lifetime
  PROVE  SInv'
<1>0. UNCHANGED <<mounts, pvFeed, cycle, dirs>>
  BY DEF Lifetime, CreatePod, EndPod, RemovePod, Bind
<1>1. ASSUME UpToDate', Once',
             \A q \in Pods : pods[q].node # NoNode =>
               pods'[q].node = pods[q].node /\ (IsPodReady(pods'[q]) => IsPodReady(pods[q])),
             \A q \in Pods : pods[q].node = NoNode /\ cycle.pod # NoPod => pods'[q].node = NoNode
      PROVE  SInv'
  <2>1. Owners' /\ Distinct'
    BY <1>0, <1>1, OwnersStay DEF SInv
  <2>2. Entered'
    BY <1>0 DEF SInv, Entered, DirsOf, PathOf
  <2>3. Standing'
    <3>1. \A q \in Pods, pv \in Volumes : cycle.pod # NoPod /\ Waits(q, pv)' => Waits(q, pv)
      BY <1>0, <1>1 DEF Waits, Mounts, IsPodReady
    <3> QED BY <1>0, <3>1 DEF SInv, Standing, Annotated, PathOf
  <2> QED BY <1>0, <1>1, <2>1, <2>2, <2>3 DEF SInv
<1>2. ASSUME NEW p \in Pods, CreatePod(p) PROVE SInv'
  <2> DEFINE pod == [life |-> "live", node |-> NoNode]
  <2>1. pods[p].life = "unborn" /\ pods[p].node = NoNode /\ TellPod(p, pod) /\ UNCHANGED binding /\ pod \in PodState
    BY <1>2 DEF CreatePod, SInv, Once, PodState
  <2>2. pod.life = "live" /\ pod.node = NoNode
    OBVIOUS
  <2> HIDE DEF pod
  <2>3. UpToDate' /\ \A q \in Pods : pods'[q] = IF q = p THEN pod ELSE pods[q]
    BY <1>0, <2>1, ToldPod DEF SInv
  <2>4. Once'
    BY <1>0, <2>1, <2>2, <2>3 DEF SInv, Once, Shape, Cycling
  <2> QED BY <1>1, <2>1, <2>2, <2>3, <2>4
<1>3. ASSUME NEW p \in Pods, EndPod(p) \/ RemovePod(p) PROVE SInv'
  <2>1. PICK life \in {"ending", "gone"} : TellPod(p, [pods[p] EXCEPT !.life = life])
    BY <1>3 DEF EndPod, RemovePod
  <2>2. pods[p].life # "unborn" /\ UNCHANGED binding
    BY <1>3 DEF EndPod, RemovePod
  <2> DEFINE pod == [pods[p] EXCEPT !.life = life]
  <2>3. pod \in PodState /\ pod.node = pods[p].node /\ pod.life = life
    BY DEF Shape, Feeds, PodState
  <2> HIDE DEF pod
  <2>4. UpToDate' /\ \A q \in Pods : pods'[q] = IF q = p THEN pod ELSE pods[q]
    BY <1>0, <2>1, <2>3, ToldPod DEF SInv, pod
  <2>5. Once'
    BY <1>0, <2>2, <2>3, <2>4 DEF SInv, Once, Shape, Cycling
  <2>6. \A q \in Pods : pods'[q].node = pods[q].node /\ (IsPodReady(pods'[q]) => IsPodReady(pods[q]))
    BY <2>3, <2>4 DEF IsPodReady
  <2> QED BY <1>1, <2>4, <2>5, <2>6
<1>4. ASSUME NEW p \in Pods, Bind(p) PROVE SInv'
  <2>1. /\ binding[p] # NoNode /\ pods[p].node = NoNode /\ cycle.pod = NoPod /\ pods[p].life # "unborn"
        /\ binding' = [binding EXCEPT ![p] = NoNode]
    BY <1>4 DEF Bind, SInv, Once
  <2>2. \A q \in Pods : binding'[q] = IF q = p THEN NoNode ELSE binding[q]
    BY <2>1 DEF Shape, Cycling
  <2>3. CASE pods[p].life = "live"
    <3> DEFINE pod == [pods[p] EXCEPT !.node = binding[p]]
    <3>1. pod \in PodState /\ pod.life = "live" /\ TellPod(p, pod)
      BY <1>4, <2>3 DEF Bind, PodState, Shape, Feeds, Cycling
    <3> HIDE DEF pod
    <3>2. UpToDate' /\ \A q \in Pods : pods'[q] = IF q = p THEN pod ELSE pods[q]
      BY <1>0, <3>1, ToldPod DEF SInv
    <3>3. Once'
      BY <1>0, <2>1, <2>2, <3>1, <3>2 DEF SInv, Once
    <3> QED BY <1>1, <2>1, <3>2, <3>3
  <2>4. CASE pods[p].life # "live"
    <3>1. UNCHANGED <<pods, seen, podFeed>>
      BY <1>4, <2>4 DEF Bind
    <3>2. Once' /\ UpToDate'
      BY <1>0, <2>1, <2>2, <3>1 DEF SInv, Once, UpToDate
    <3> QED BY <1>1, <3>1, <3>2
  <2> QED BY <2>3, <2>4
<1> QED BY <1>2, <1>3, <1>4 DEF Lifetime

\* What the plugin may reuse is the pod's own already, or has lost its owner
\* to a pod that no longer runs; and nothing of the same maker belongs to
\* another pod that runs.
LEMMA ReuseFacts ==
  ASSUME Shape, SInv, NEW p \in Pods, NEW pv \in Volumes, Waits(p, pv),
         NEW d \in Reusable(pods[p].node, p, pv)
  PROVE  /\ d \in dirs /\ d.node = pods[p].node /\ d.volume = pv
         /\ pv \in Shared => d.owner = NoPod
         /\ pv \notin Shared =>
              /\ IsPodReady(pods[d.owner]) => d.owner = p
              /\ \A e \in dirs : e.node = pods[p].node /\ e.volume = pv /\ e.owner = p => e = d
              /\ \A e \in dirs : e.node = pods[p].node /\ e.maker = d.maker /\ e.volume \notin Shared
                                   /\ IsPodReady(pods[e.owner]) => e.owner = p
<1> DEFINE n == pods[p].node
<1>1. IsPodReady(pods[p]) /\ p # NoPod
  BY HostPathAssumption DEF Waits, IsPodReady
<1>2. \A e \in dirs : e.volume \notin Shared => e.owner \in Pods /\ e.owner # NoPod
  BY HostPathAssumption DEF SInv, Owners
<1>3. CASE Owned(n, p, pv) # {}
  <2>1. d \in Owned(n, p, pv)
    BY <1>3 DEF Reusable
  <2>2. d \in dirs /\ d.node = n /\ d.volume = pv /\ d.owner = OwnerOf(p, pv)
    BY <2>1 DEF Owned
  <2> QED BY <1>1, <2>2 DEF OwnerOf, SInv, Distinct
<1>4. CASE Owned(n, p, pv) = {} /\ pv \in Keep \ Shared /\ MakersFor(n, p) # {}
  <2>1. d \in dirs /\ d.node = n /\ d.volume = pv /\ d.maker \in MakersFor(n, p)
    BY <1>4 DEF Reusable
  <2>2. PICK e0 \in dirs : e0.node = n /\ e0.owner = p /\ e0.maker = d.maker
    BY <2>1 DEF MakersFor
  <2>3. e0.volume \notin Shared
    BY <1>1, <2>2 DEF SInv, Owners
  <2>4. \A e \in dirs : e.node = n /\ e.maker = d.maker /\ e.volume \notin Shared
                          /\ IsPodReady(pods[e.owner]) => e.owner = p
    BY <1>1, <2>2, <2>3 DEF SInv, Distinct
  <2>5. \A e \in dirs : e.node = n /\ e.volume = pv /\ e.owner = p => FALSE
    BY <1>4 DEF Owned, OwnerOf
  <2> QED BY <1>4, <2>1, <2>4, <2>5
<1>5. CASE Owned(n, p, pv) = {} /\ ~(pv \in Keep \ Shared /\ MakersFor(n, p) # {})
  <2>1. d \in Unowned(n, pv) /\ d.maker \notin MakersTaken(n)
    BY <1>5 DEF Reusable
  <2>2. d \in dirs /\ d.node = n /\ d.volume = pv /\ pv \notin Shared /\ ~IsPodReady(pods[d.owner])
    BY <2>1 DEF Unowned
  <2>3. \A e \in dirs : e.node = n /\ e.maker = d.maker /\ e.volume \notin Shared
                          /\ IsPodReady(pods[e.owner]) => FALSE
    BY <1>2, <2>1 DEF MakersTaken
  <2>4. \A e \in dirs : e.node = n /\ e.volume = pv /\ e.owner = p => FALSE
    BY <1>5, <2>2 DEF Owned, OwnerOf
  <2> QED BY <2>2, <2>3, <2>4
<1> QED BY <1>3, <1>4, <1>5

\* A directory that changes hands or users keeps its path.
LEMMA PathsStay ==
  ASSUME SInv, UNCHANGED mounts, NEW d \in dirs, NEW owner, NEW users,
         dirs' = (dirs \ {d}) \cup {[d EXCEPT !.owner = owner, !.users = users]}, d \in OnNode
  PROVE  Entered' /\ IsFiniteSet(dirs')
<1> DEFINE new == [d EXCEPT !.owner = owner, !.users = users]
<1>1. new.volume = d.volume /\ new.node = d.node /\ new.disk = d.disk /\ new.maker = d.maker
  BY DEF OnNode
<1>2. new \in dirs' /\ \A e \in dirs : e # d => e \in dirs'
  OBVIOUS
<1>3. IsFiniteSet(dirs')
  <2> HIDE DEF new
  <2>1. IsFiniteSet(dirs \ {d})
    BY FS_RemoveElement DEF SInv
  <2> QED BY <2>1, FS_AddElement DEF new
<1> HIDE DEF new
<1>4. ASSUME NEW pv \in Volumes, NEW n \in DOMAIN mounts[pv], NEW path \in mounts[pv][n]
      PROVE  \E e \in dirs' : e.volume = pv /\ e.node = n /\ path = PathOf(e)
  <2>1. PICK e \in dirs : e.volume = pv /\ e.node = n /\ path = PathOf(e)
    BY <1>4 DEF SInv, Entered, DirsOf
  <2>2. CASE e = d
    <3>1. PathOf(new) = path
      BY <1>1, <2>1, <2>2 DEF PathOf
    <3> QED BY <1>1, <1>2, <2>1, <2>2, <3>1
  <2> QED BY <1>2, <2>1, <2>2
<1>5. \A pv \in Volumes : \A n \in DOMAIN mounts[pv] :
        mounts[pv][n] # {} /\ \A path \in mounts[pv][n] : \E e \in dirs' : e.volume = pv /\ e.node = n /\ path = PathOf(e)
  BY <1>4 DEF SInv, Entered
<1>6. \A pv, n, path : (\E e \in dirs' : e.volume = pv /\ e.node = n /\ path = PathOf(e))
                         => path \in {PathOf(e) : e \in DirsOf(pv, n)'}
  BY DEF DirsOf
<1>7. Entered'
  BY <1>5, <1>6 DEF Entered, PathOf
<1> QED BY <1>3, <1>7

LEMMA ReuseSettled ==
  ASSUME Shape, SInv, NEW p \in Pods, NEW pv \in Volumes, Reuse(p, pv)
  PROVE  SInv'
<1>0. Waits(p, pv) /\ UNCHANGED <<pods, mounts, seen, podFeed, pvFeed, cycle, binding>>
  BY DEF Reuse
<1>1. PICK d \in Reusable(pods[p].node, p, pv) :
        dirs' = (dirs \ {d}) \cup {[d EXCEPT !.owner = OwnerOf(p, pv), !.users = @ \cup {p}]}
  BY DEF Reuse
<1>2. /\ d \in dirs /\ d.node = pods[p].node /\ d.volume = pv
      /\ pv \in Shared => d.owner = NoPod
      /\ pv \notin Shared =>
           /\ IsPodReady(pods[d.owner]) => d.owner = p
           /\ \A e \in dirs : e.node = pods[p].node /\ e.volume = pv /\ e.owner = p => e = d
           /\ \A e \in dirs : e.node = pods[p].node /\ e.maker = d.maker /\ e.volume \notin Shared
                                /\ IsPodReady(pods[e.owner]) => e.owner = p
  BY <1>0, ReuseFacts
<1> DEFINE new == [d EXCEPT !.owner = OwnerOf(p, pv), !.users = @ \cup {p}]
<1>3. /\ new.node = d.node /\ new.volume = d.volume /\ new.maker = d.maker
      /\ new.owner = OwnerOf(p, pv) /\ new.users = d.users \cup {p}
  BY <1>2 DEF Shape, OnNode
<1>4. \A e \in dirs' : e = new \/ (e \in dirs /\ e # d)
  BY <1>1
<1>5. Entered' /\ IsFiniteSet(dirs')
  <2>1. d \in OnNode /\ new = [d EXCEPT !.owner = OwnerOf(p, pv), !.users = d.users \cup {p}]
    BY <1>2 DEF Shape, OnNode
  <2> QED BY <1>0, <1>1, <1>2, <2>1, PathsStay
<1> HIDE DEF new
<1>6. cycle.pod = NoPod
  BY <1>0 DEF SInv, Standing
<1>7. IsPodReady(pods[p]) /\ UsesVolume(p, pv)
  BY <1>0 DEF Waits, IsPodReady
<1>8. Owners'
  <2>1. ASSUME pv \in Shared PROVE Owners'
    <3>1. /\ new.owner = NoPod /\ new.maker = NoPod
          /\ \A q \in new.users : pods[q].node = new.node
      BY <1>2, <1>3, <2>1 DEF SInv, Owners, OwnerOf
    <3> QED BY <1>0, <1>2, <1>3, <1>4, <2>1, <3>1 DEF SInv, Owners, OwnerOf
  <2>2. ASSUME pv \notin Shared PROVE Owners'
    <3>1. /\ new.owner = p /\ new.maker \in Pods /\ pods[new.maker].node = new.node
          /\ IsPodReady(pods[new.maker]) => new.maker = p
          /\ \A q \in new.users : pods[q].node = new.node /\ (IsPodReady(pods[q]) => q = p)
      BY <1>2, <1>3, <1>7, <2>2 DEF SInv, Owners, OwnerOf
    <3> QED BY <1>0, <1>2, <1>3, <1>4, <1>7, <2>2, <3>1 DEF SInv, Owners, OwnerOf
  <2> QED BY <2>1, <2>2
<1>9. Distinct'
  <2>1. \A e \in dirs : e.node = new.node /\ e # d =>
          /\ e.volume = pv => e.owner # new.owner /\ e.maker # new.maker
          /\ e.maker = new.maker /\ e.volume \notin Shared /\ pv \notin Shared /\ IsPodReady(pods[e.owner])
             => e.owner = p
    BY <1>2, <1>3 DEF SInv, Distinct, OwnerOf, Owners
  <2> QED BY <1>0, <1>2, <1>3, <1>4, <1>7, <2>1 DEF SInv, Distinct, OwnerOf
<1>10. UpToDate' /\ Once' /\ Standing'
  BY <1>0, <1>6 DEF SInv, UpToDate, Once, Standing
<1> QED BY <1>5, <1>8, <1>9, <1>10 DEF SInv

LEMMA MakeSettled ==
  ASSUME Shape, SInv, NEW p \in Pods, NEW pv \in Volumes, MakeDirectory(p, pv)
  PROVE  SInv'
<1> DEFINE n == pods[p].node
<1>0. Waits(p, pv) /\ Reusable(n, p, pv) = {} /\ UNCHANGED <<pods, mounts, seen, podFeed, pvFeed, cycle, binding>>
  BY DEF MakeDirectory
<1>1. PICK maker \in MakerOf(n, p, pv) : \E disk :
        dirs' = dirs \cup {[node |-> n, disk |-> disk, volume |-> pv, maker |-> maker,
                            owner |-> OwnerOf(p, pv), users |-> {p}]}
  BY DEF MakeDirectory
<1>2. PICK disk :
        dirs' = dirs \cup {[node |-> n, disk |-> disk, volume |-> pv, maker |-> maker,
                            owner |-> OwnerOf(p, pv), users |-> {p}]}
  BY <1>1
<1> DEFINE new == [node |-> n, disk |-> disk, volume |-> pv, maker |-> maker,
                   owner |-> OwnerOf(p, pv), users |-> {p}]
<1>3. /\ new.node = n /\ new.volume = pv /\ new.maker = maker
      /\ new.owner = OwnerOf(p, pv) /\ new.users = {p}
  OBVIOUS
<1> HIDE DEF new
<1>4. dirs' = dirs \cup {new}
  BY <1>2 DEF new
<1>5. IsPodReady(pods[p]) /\ UsesVolume(p, pv) /\ p # NoPod
  BY <1>0, HostPathAssumption DEF Waits, IsPodReady
<1>6. cycle.pod = NoPod
  BY <1>0 DEF SInv, Standing
<1>7. Owned(n, p, pv) = {}
  BY <1>0 DEF Reusable
<1>8. pv \in Shared => maker = NoPod
  BY DEF MakerOf, OwnerOf
<1>9. pv \notin Shared =>
        /\ maker \in Pods /\ pods[maker].node = n /\ (IsPodReady(pods[maker]) => maker = p)
        /\ \A e \in dirs : e.node = n /\ e.maker = maker /\ e.volume \notin Shared =>
             e.volume # pv /\ (IsPodReady(pods[e.owner]) => e.owner = p)
  <2> SUFFICES ASSUME pv \notin Shared
               PROVE /\ maker \in Pods /\ pods[maker].node = n /\ (IsPodReady(pods[maker]) => maker = p)
                     /\ \A e \in dirs : e.node = n /\ e.maker = maker /\ e.volume \notin Shared =>
                          e.volume # pv /\ (IsPodReady(pods[e.owner]) => e.owner = p)
    OBVIOUS
  <2>1. CASE pv \in Keep \ Shared /\ MakersFor(n, p) # {}
    <3>1. PICK e0 \in dirs : e0.node = n /\ e0.owner = p /\ e0.maker = maker
      BY <2>1 DEF MakerOf, MakersFor
    <3>2. e0.volume \notin Shared
      BY <1>5, <3>1 DEF SInv, Owners
    <3>3. Reusable(n, p, pv) = {d \in dirs : d.node = n /\ d.volume = pv /\ d.maker \in MakersFor(n, p)}
      BY <1>7, <2>1 DEF Reusable
    <3>4. \A e \in dirs : e.node = n /\ e.maker = maker => e.volume # pv
      BY <1>0, <2>1, <3>3 DEF MakerOf
    <3>5. \A e \in dirs : e.node = n /\ e.maker = maker /\ e.volume \notin Shared /\ IsPodReady(pods[e.owner])
                            => e.owner = p
      BY <1>5, <3>1, <3>2 DEF SInv, Distinct
    <3> QED BY <3>1, <3>2, <3>4, <3>5 DEF SInv, Owners
  <2>2. CASE ~(pv \in Keep \ Shared /\ MakersFor(n, p) # {})
    <3>1. maker = p
      BY <2>2 DEF MakerOf, OwnerOf
    <3>2. \A e \in dirs : e.node = n /\ e.maker = p /\ e.volume \notin Shared => e.owner = p
      BY <1>5 DEF SInv, Owners
    <3>3. \A e \in dirs : e.node = n /\ e.volume = pv => e.owner # p
      BY <1>7 DEF Owned, OwnerOf
    <3> QED BY <3>1, <3>2, <3>3
  <2> QED BY <2>1, <2>2
<1>10. pv \in Shared => \A e \in dirs : e.node = n => e.volume # pv
  BY <1>7 DEF Owned, OwnerOf, SInv, Owners
<1>11. \A e \in dirs' : e = new \/ e \in dirs
  BY <1>4
<1>12. Owners'
  <2>1. CASE pv \in Shared
    BY <1>0, <1>3, <1>5, <1>8, <1>11, <2>1 DEF SInv, Owners, OwnerOf
  <2>2. CASE pv \notin Shared
    BY <1>0, <1>3, <1>5, <1>9, <1>11, <2>2 DEF SInv, Owners, OwnerOf
  <2> QED BY <2>1, <2>2
<1>13. Distinct'
  <2>1. CASE pv \in Shared
    BY <1>0, <1>3, <1>10, <1>11, <2>1 DEF SInv, Distinct
  <2>2. CASE pv \notin Shared
    <3>1. \A e \in dirs : e.node = n =>
            /\ e.volume = pv => e.owner # new.owner /\ e.maker # maker
            /\ e.maker = maker /\ e.volume \notin Shared /\ IsPodReady(pods[e.owner]) => e.owner = p
      BY <1>3, <1>7, <1>9, <2>2 DEF Owned
    <3> QED BY <1>0, <1>3, <1>11, <2>2, <3>1 DEF SInv, Distinct, OwnerOf
  <2> QED BY <2>1, <2>2
<1>14. IsFiniteSet(dirs')
  BY <1>4, FS_AddElement DEF SInv
<1>15. Entered'
  <2>1. \A w, m : DirsOf(w, m) \subseteq DirsOf(w, m)'
    BY <1>4 DEF DirsOf
  <2> QED BY <1>0, <2>1 DEF SInv, Entered, PathOf
<1>16. UpToDate' /\ Once' /\ Standing'
  BY <1>0, <1>6 DEF SInv, UpToDate, Once, Standing
<1> QED BY <1>12, <1>13, <1>14, <1>15, <1>16 DEF SInv

LEMMA UnpublishSettled ==
  ASSUME Shape, SInv, NEW p \in Pods, NEW pv \in Volumes, Unpublish(p, pv)
  PROVE  SInv'
<1>0. ~IsPodReady(pods[p]) /\ UNCHANGED <<pods, mounts, seen, podFeed, pvFeed, cycle, binding>>
  BY DEF Unpublish, IsPodReady
<1>1. PICK d \in dirs : p \in d.users /\ dirs' = (dirs \ {d}) \cup {[d EXCEPT !.users = @ \ {p}]}
  BY DEF Unpublish
<1> DEFINE new == [d EXCEPT !.users = @ \ {p}]
<1>2. /\ new.node = d.node /\ new.volume = d.volume /\ new.maker = d.maker /\ new.disk = d.disk
      /\ new.owner = d.owner /\ new.users = d.users \ {p}
  BY DEF Shape, OnNode
<1>3. Entered' /\ IsFiniteSet(dirs')
  <2>1. d \in OnNode /\ new = [d EXCEPT !.owner = d.owner, !.users = d.users \ {p}]
    BY DEF Shape, OnNode
  <2> QED BY <1>0, <1>1, <2>1, PathsStay
<1>4. dirs' = (dirs \ {d}) \cup {new}
  BY <1>1
<1> HIDE DEF new
<1>5. \A e \in dirs' : e = new \/ (e \in dirs /\ e # d)
  BY <1>4
<1>6. Owners'
  BY <1>0, <1>2, <1>5 DEF SInv, Owners, OwnerOf
<1>7. Distinct'
  BY <1>0, <1>2, <1>5 DEF SInv, Distinct
<1>8. Standing'
  <2>1. \A q \in Pods, w \in Volumes : Waits(q, w)' => Waits(q, w)
    <3>1. \A q \in Pods, w \in Volumes : q # p /\ Mounts(q, w) => Mounts(q, w)'
      BY <1>2, <1>4 DEF Mounts
    <3> QED BY <1>0, <3>1 DEF Waits, IsPodReady
  <2>2. PathOf(new) = PathOf(d)
    BY <1>2 DEF PathOf
  <2>3. \A e \in dirs' : \E f \in dirs : e.volume = f.volume /\ e.node = f.node /\ PathOf(e) = PathOf(f)
    BY <1>2, <1>5, <2>2
  <2>4. \A e \in dirs' : cycle.pod # NoPod /\ e.volume \in Keep =>
          e.node \in DOMAIN mounts[e.volume] /\ PathOf(e) \in mounts[e.volume][e.node]
    BY <2>3 DEF SInv, Standing, Annotated
  <2> QED BY <1>0, <2>1, <2>4 DEF SInv, Standing, Annotated, PathOf
<1>9. UpToDate' /\ Once'
  BY <1>0 DEF SInv, UpToDate, Once
<1> QED BY <1>3, <1>6, <1>7, <1>8, <1>9 DEF SInv

\* The entry of a kept volume only grows: what is annotated stays so.
LEMMA AnnotatedStays ==
  ASSUME Shape, SInv, Settled, NEW n \in Nodes, NEW pv \in Volumes, Annotate(n, pv),
         NEW d \in dirs, Annotated(d), d.volume \in Keep
  PROVE  Annotated(d)'
<1> DEFINE old == IF n \in DOMAIN mounts[pv] THEN mounts[pv][n] ELSE {}
           new == IF pv \in Keep THEN old \cup InUse(n, pv) ELSE InUse(n, pv)
           others == DOMAIN mounts[pv] \ {n}
           mount == [m \in others \cup (IF new = {} THEN {} ELSE {n}) |->
                       IF m = n THEN new ELSE mounts[pv][m]]
<1>1. TellMount(pv, mount) /\ UNCHANGED <<pods, podFeed, cycle, binding, dirs>>
  BY DEF Annotate
<1>2. pv \in Keep => old \subseteq new
  OBVIOUS
<1>3. /\ \A m : m \in DOMAIN mount <=> m \in others \/ (m = n /\ new # {})
      /\ \A m \in DOMAIN mount : mount[m] = IF m = n THEN new ELSE mounts[pv][m]
  OBVIOUS
<1>4. /\ n \in DOMAIN mounts[pv] => old = mounts[pv][n]
      /\ \A m : m \in others <=> m \in DOMAIN mounts[pv] /\ m # n
  OBVIOUS
<1> HIDE DEF old, new, others, mount
<1>5. \A w \in Volumes : mounts'[w] = IF w = pv THEN mount ELSE mounts[w]
  BY <1>1, ToldMount DEF SInv
<1>6. d.volume \in Volumes
  BY DEF Shape, OnNode
<1>7. CASE d.volume = pv /\ d.node = n
  <2>1. PathOf(d) \in old
    BY <1>4, <1>7 DEF Annotated
  <2> QED BY <1>2, <1>3, <1>5, <1>6, <1>7, <2>1 DEF Annotated, PathOf
<1>8. CASE d.volume = pv /\ d.node # n
  BY <1>3, <1>4, <1>5, <1>6, <1>8 DEF Annotated, PathOf
<1>9. CASE d.volume # pv
  BY <1>5, <1>6, <1>9 DEF Annotated, PathOf
<1> QED BY <1>7, <1>8, <1>9

LEMMA AnnotateSettled ==
  ASSUME Shape, SInv, Settled, NEW n \in Nodes, NEW pv \in Volumes, Annotate(n, pv)
  PROVE  SInv'
<1> DEFINE old == IF n \in DOMAIN mounts[pv] THEN mounts[pv][n] ELSE {}
           new == IF pv \in Keep THEN old \cup InUse(n, pv) ELSE InUse(n, pv)
           others == DOMAIN mounts[pv] \ {n}
           mount == [m \in others \cup (IF new = {} THEN {} ELSE {n}) |->
                       IF m = n THEN new ELSE mounts[pv][m]]
<1>1. TellMount(pv, mount) /\ UNCHANGED <<pods, podFeed, cycle, binding, dirs>>
  BY DEF Annotate
<1>2. new \subseteq {PathOf(d) : d \in DirsOf(pv, n)}
  <2>1. old \subseteq {PathOf(d) : d \in DirsOf(pv, n)}
    BY DEF SInv, Entered
  <2>2. InUse(n, pv) \subseteq {PathOf(d) : d \in DirsOf(pv, n)}
    BY DEF InUse, DirsOf
  <2> QED BY <2>1, <2>2
<1>3. /\ \A m : m \in DOMAIN mount <=> m \in others \/ (m = n /\ new # {})
      /\ \A m \in DOMAIN mount : mount[m] = IF m = n THEN new ELSE mounts[pv][m]
  OBVIOUS
<1>4. /\ n \in DOMAIN mounts[pv] => old = mounts[pv][n]
      /\ \A m : m \in others <=> m \in DOMAIN mounts[pv] /\ m # n
  OBVIOUS
<1> HIDE DEF old, new, others, mount
<1>5. UpToDate' /\ \A w \in Volumes : mounts'[w] = IF w = pv THEN mount ELSE mounts[w]
  BY <1>1, ToldMount DEF SInv
<1>6. Entered'
  <2>1. \A w \in Volumes : \A m \in DOMAIN mounts'[w] :
          mounts'[w][m] # {} /\ mounts'[w][m] \subseteq {PathOf(d) : d \in DirsOf(w, m)}
    BY <1>2, <1>3, <1>4, <1>5 DEF SInv, Entered
  <2> QED BY <1>1, <2>1 DEF Entered, DirsOf, PathOf
<1>7. Standing'
  BY <1>1, AnnotatedStays DEF SInv, Standing, Waits, Mounts
<1>8. Owners' /\ Distinct' /\ Once'
  BY <1>1 DEF SInv, Owners, OwnerOf, Distinct, Once
<1> QED BY <1>1, <1>5, <1>6, <1>7, <1>8 DEF SInv

LEMMA CleanSettled ==
  ASSUME Shape, SInv, NEW d \in dirs, Clean(d)
  PROVE  SInv'
<1>1. /\ d.users = {} /\ dirs' = dirs \ {d} /\ ~Annotated(d)
      /\ UNCHANGED <<pods, mounts, seen, podFeed, pvFeed, cycle, binding>>
  BY DEF Clean, Annotated
<1>2. Entered'
  <2>1. ASSUME NEW pv \in Volumes, NEW n \in DOMAIN mounts[pv], NEW path \in mounts[pv][n]
        PROVE  path \in {PathOf(e) : e \in DirsOf(pv, n)'}
    <3>1. PICK e \in DirsOf(pv, n) : path = PathOf(e)
      BY DEF SInv, Entered
    <3>2. e # d
      BY <1>1, <3>1 DEF Annotated, DirsOf
    <3> QED BY <1>1, <3>1, <3>2 DEF DirsOf
  <2>2. \A pv \in Volumes : \A n \in DOMAIN mounts[pv] :
          mounts[pv][n] # {} /\ mounts[pv][n] \subseteq {PathOf(e) : e \in DirsOf(pv, n)'}
    BY <2>1 DEF SInv, Entered
  <2> QED BY <1>1, <2>2 DEF Entered, PathOf
<1>3. IsFiniteSet(dirs')
  BY <1>1, FS_RemoveElement DEF SInv
<1>4. Standing'
  <2>1. \A q \in Pods, w \in Volumes : Waits(q, w)' => Waits(q, w)
    BY <1>1 DEF Waits, Mounts
  <2> QED BY <1>1, <2>1 DEF SInv, Standing, Annotated, PathOf
<1>5. UpToDate' /\ Once' /\ Owners' /\ Distinct'
  BY <1>1 DEF SInv, UpToDate, Once, Owners, OwnerOf, Distinct
<1> QED BY <1>2, <1>3, <1>4, <1>5 DEF SInv

LEMMA StepSettled ==
  ASSUME Settled
  PROVE  Shape /\ SInv /\ [Next]_vars => (Shape /\ SInv)'
<1> SUFFICES ASSUME Shape, SInv, [Next]_vars PROVE SInv'
  BY StepShape
<1>1. CASE Cycle
  BY <1>1, CycleSettled
<1>2. CASE Deliver
  BY <1>2, DeliverSettled
<1>3. CASE Lifetime
  BY <1>3, LifetimeSettled
<1>4. CASE Plugin
  BY <1>4, ReuseSettled, MakeSettled, UnpublishSettled, AnnotateSettled, CleanSettled DEF Plugin
<1>5. CASE UNCHANGED vars
  BY <1>5 DEF vars, SInv, UpToDate, Once, Owners, OwnerOf, UsesVolume, Distinct, Entered, DirsOf, PathOf,
              Standing, Waits, Mounts, Annotated
<1> QED BY <1>1, <1>2, <1>3, <1>4, <1>5 DEF Next

-----------------------------------------------------------------------------
(* In a settled cluster the annotations count the directories and their    *)
(* owners, so affinity sees which directories wait for a pod.              *)

\* The image of a finite set under a function that tells its elements apart.
LEMMA ImageSize ==
  ASSUME NEW S, IsFiniteSet(S), NEW f, \A x, y \in S : f[x] = f[y] => x = y
  PROVE  IsFiniteSet({f[x] : x \in S}) /\ Cardinality({f[x] : x \in S}) = Cardinality(S)
<1> DEFINE T == {f[x] : x \in S}
           g == [x \in S |-> f[x]]
<1>1. g \in Bijection(S, T)
  BY DEF Bijection, Injection, Surjection, IsInjective
<1>2. ExistsBijection(S, T)
  BY <1>1 DEF ExistsBijection
<1> HIDE DEF T
<1>3. IsFiniteSet(T) /\ Cardinality(T) = Cardinality(S)
  BY <1>2, FS_Bijection
<1> QED BY <1>3 DEF T

\* During a cycle the entry of a kept volume for a node names its directories
\* there, one path each.
LEMMA EntryIsDirs ==
  ASSUME Shape, SInv, cycle.pod # NoPod, NEW pv \in Keep, NEW n \in Nodes
  PROVE  /\ IsFiniteSet(DirsOf(pv, n))
         /\ HasEntry(seen, pv, n) <=> DirsOf(pv, n) # {}
         /\ HasEntry(seen, pv, n) =>
              /\ seen.mounts[pv][n] = {PathOf(d) : d \in DirsOf(pv, n)}
              /\ Cardinality(seen.mounts[pv][n]) = Cardinality(DirsOf(pv, n))
<1> DEFINE D == DirsOf(pv, n)
<1>1. seen.mounts = mounts /\ pv \in Volumes
  BY HostPathAssumption DEF SInv, UpToDate
<1>2. \A d \in D : n \in DOMAIN mounts[pv] /\ PathOf(d) \in mounts[pv][n]
  BY DEF SInv, Standing, Annotated, DirsOf
<1>3. n \in DOMAIN mounts[pv] => mounts[pv][n] # {} /\ mounts[pv][n] \subseteq {PathOf(d) : d \in D}
  BY <1>1 DEF SInv, Entered
<1>4. \A d, e \in D : PathOf(d) = PathOf(e) => d = e
  BY DEF SInv, Distinct, DirsOf, PathOf
<1>5. IsFiniteSet(D)
  BY FS_Subset DEF SInv, DirsOf
<1> HIDE DEF D
<1> DEFINE f == [d \in D |-> PathOf(d)]
<1>6. Cardinality({f[d] : d \in D}) = Cardinality(D)
  <2>1. \A d, e \in D : f[d] = f[e] => d = e
    BY <1>4
  <2> HIDE DEF f
  <2> QED BY <1>5, <2>1, ImageSize
<1>7. {f[d] : d \in D} = {PathOf(d) : d \in D}
  OBVIOUS
<1>8. n \in DOMAIN mounts[pv] <=> D # {}
  BY <1>2, <1>3
<1>9. n \in DOMAIN mounts[pv] => mounts[pv][n] = {PathOf(d) : d \in D}
  BY <1>2, <1>3
<1> HIDE DEF f
<1> QED BY <1>1, <1>5, <1>6, <1>7, <1>8, <1>9 DEF D, HasEntry

\* The pods that run with it on the node, finitely many, own one directory
\* each, and the rest waits for a pod.
LEMMA FreeIsEmptyItem ==
  ASSUME Shape, SInv, cycle.pod # NoPod, NEW pv \in Keep \ Shared, NEW n \in Nodes
  PROVE  /\ HasEmptyItemForNode(seen, pv, n) <=> Unowned(n, pv) # {}
         /\ IsFiniteSet(ReadyUsersOn(seen, pv, n))
<1> DEFINE D == DirsOf(pv, n)
           L == {d \in D : IsPodReady(pods[d.owner])}
           P == ReadyUsersOn(seen, pv, n)
           f == [d \in L |-> d.owner]
<1>1. /\ IsFiniteSet(D) /\ (HasEntry(seen, pv, n) <=> D # {})
      /\ HasEntry(seen, pv, n) => Cardinality(seen.mounts[pv][n]) = Cardinality(D)
  BY EntryIsDirs
<1>2. P = {p \in Pods : IsPodReady(pods[p]) /\ UsesVolume(p, pv) /\ pods[p].node = n}
  BY DEF SInv, UpToDate, ReadyUsersOn, ReadyUsers
<1>3. \A d \in L : d.owner \in P
  BY <1>2 DEF SInv, Owners, DirsOf
<1>4. \A p \in P : \E d \in L : d.owner = p
  <2> SUFFICES ASSUME NEW p \in P PROVE \E d \in L : d.owner = p
    OBVIOUS
  <2>1. p \in Pods /\ IsPodReady(pods[p]) /\ UsesVolume(p, pv) /\ pods[p].node = n /\ pv \in Volumes
    BY <1>2, HostPathAssumption
  <2>2. Mounts(p, pv)
    BY <2>1, HostPathAssumption DEF SInv, Standing, Waits, IsPodReady
  <2>3. PICK d \in dirs : d.volume = pv /\ p \in d.users
    BY <2>2 DEF Mounts
  <2>4. d.owner = p /\ d.node = n
    BY <2>1, <2>3 DEF SInv, Owners, OwnerOf
  <2> QED BY <2>1, <2>3, <2>4 DEF DirsOf
<1>5. \A d, e \in L : d.owner = e.owner => d = e
  BY DEF SInv, Distinct, DirsOf
<1>6. {f[d] : d \in L} = P
  BY <1>3, <1>4
<1>7. \A d, e \in L : f[d] = f[e] => d = e
  BY <1>5
<1>8. Unowned(n, pv) = D \ L
  BY DEF Unowned, DirsOf
<1>9. L \in SUBSET D
  OBVIOUS
<1> HIDE DEF D, L, P, f
<1>10. IsFiniteSet(L) /\ Cardinality(L) <= Cardinality(D) /\ (Cardinality(D) = Cardinality(L) => D = L)
  BY <1>1, <1>9, FS_Subset
<1>11. IsFiniteSet(P) /\ Cardinality(P) = Cardinality(L)
  BY <1>6, <1>7, <1>10, ImageSize
<1>12. Cardinality(L) \in Nat /\ Cardinality(D) \in Nat
  BY <1>1, <1>10, FS_CardinalityType
<1>13. Cardinality(P) < Cardinality(D) <=> Unowned(n, pv) # {}
  BY <1>8, <1>9, <1>10, <1>11, <1>12
<1>14. Unowned(n, pv) # {} => D # {}
  BY <1>8
<1> QED BY <1>1, <1>11, <1>13, <1>14 DEF HasEmptyItemForNode, P

\* In a settled cluster a step of the affinity phase keeps a node without a
\* directory that waits for the pod only if no node has one
\* (hostpathpv_affinity.go:98-124), whatever the nodes, pods and volumes are:
\* the cardinalities that the code compares tell the two apart.
THEOREM KeptReturn == Settled => (Spec => KeepReturns)
<1> DEFINE Returns ==
      \A n \in Nodes : cycle.pc = "affinity" /\ n \in cycle'.fits \ cycle.fits =>
        \A pv \in Range(VolumesOf[cycle.pod]) \cap (Keep \ Shared) :
          FreeHomes(pv) # {} => n \in FreeHomes(pv)
<1> SUFFICES ASSUME Settled PROVE Spec => KeepReturns
  OBVIOUS
<1>1. Init => Shape /\ SInv
  BY InitShape, InitSInv
<1>2. Shape /\ SInv /\ [Next]_vars => (Shape /\ SInv)'
  BY StepSettled
<1>3. Shape /\ SInv /\ [Next]_vars => [Returns]_vars
  <2> SUFFICES ASSUME Shape, SInv, Next, cycle.pc = "affinity", NEW n \in Nodes, n \in cycle'.fits \ cycle.fits,
                      NEW pv \in Range(VolumesOf[cycle.pod]) \cap (Keep \ Shared), FreeHomes(pv) # {}
               PROVE  n \in FreeHomes(pv)
    BY DEF vars
  <2>1. cycle.pod # NoPod /\ cycle # Idle
    BY DEF Shape, Cycling, Idle
  <2>2. PICK m \in Nodes : AskAffinity(m)
    <3>1. ~\E p \in Pods : Pick(p)
      BY <2>1 DEF Pick
    <3>2. \A m \in Nodes : ~AskPressure(m) /\ ~Assume(m)
      BY DEF AskPressure, Assume
    <3>3. ~UNCHANGED cycle
      OBVIOUS
    <3> QED BY <3>1, <3>2, <3>3
           DEF Next, Cycle, Deliver, DeliverPod, DeliverMount, DeliverClaim, Lifetime, CreatePod, EndPod, RemovePod,
               Bind, Plugin, Reuse, MakeDirectory, Unpublish, Annotate, Clean
  <2>3. m = n /\ AffinityMatch(seen, pods, cycle.pod, n)
    <3>1. m \in cycle.left /\ Judge(m, AffinityMatch(seen, pods, cycle.pod, m), "choose")
      BY <2>2 DEF AskAffinity
    <3>2. AffinityMatch(seen, pods, cycle.pod, m) \in BOOLEAN
      BY DEF AffinityMatch
    <3>3. cycle'.fits \subseteq cycle.fits \cup {k \in {m} : AffinityMatch(seen, pods, cycle.pod, m)}
      BY <2>1, <3>1, <3>2, JudgeKeeps DEF Shape
    <3> QED BY <3>3
  <2>4. OwnKeepMatch(seen, pv, n)
    BY <2>3 DEF AffinityMatch, VolumeMatch
  <2>5. PICK k \in Nodes : Unowned(k, pv) # {}
    BY DEF FreeHomes
  <2>6. HasEmptyItemForNode(seen, pv, k) /\ k \in DOMAIN seen.mounts[pv]
    BY <2>1, <2>5, FreeIsEmptyItem DEF HasEmptyItemForNode, HasEntry
  <2>7. HasEmptyItemForNode(seen, pv, n)
    BY <2>4, <2>6 DEF OwnKeepMatch
  <2>8. Unowned(n, pv) # {}
    BY <2>1, <2>7, FreeIsEmptyItem
  <2> QED BY <2>8 DEF FreeHomes
<1>4. Spec => [][Returns]_vars
  BY <1>1, <1>2, <1>3, PTL DEF Spec
<1> QED BY <1>4 DEF KeepReturns

-----------------------------------------------------------------------------
(* One home once more, where pods may end but the cluster is settled before *)
(* each cycle: the pods that run, and those that are about to, aim at the  *)
(* node the directories are on.                                            *)

Gathered ==
  \A pv \in Together :
    /\ \A d, e \in dirs : d.volume = pv /\ e.volume = pv => d.node = e.node
    /\ \A p \in Pods, n \in Nodes : UsesVolume(p, pv) /\ IsPodReady(pods[p]) /\ Aims(p, n) =>
         /\ \A d \in dirs : d.volume = pv => d.node = n
         /\ \A q \in Pods, m \in Nodes : UsesVolume(q, pv) /\ IsPodReady(pods[q]) /\ Aims(q, m) => n = m

\* A node the affinity predicate has kept is the one with the directories.
FitsHome ==
  cycle.pc \in {"affinity", "choose"} =>
    \A n \in cycle.fits, pv \in Together : UsesVolume(cycle.pod, pv) =>
      \A d \in dirs : d.volume = pv => d.node = n

LEMMA InitGathered == Init => Gathered /\ FitsHome
<1> SUFFICES ASSUME Init PROVE Gathered /\ FitsHome
  OBVIOUS
<1>1. (\A p \in Pods : pods[p].life = "unborn") /\ dirs = {} /\ cycle.pc = "idle"
  BY DEF Init, Unborn, Idle
<1> QED BY <1>1 DEF Gathered, FitsHome, IsPodReady

\* Once a volume has a directory its annotation names it, and affinity keeps
\* no other node.
LEMMA AffinityFindsDirs ==
  ASSUME Shape, SInv, Gathered, cycle.pod # NoPod, NEW n \in Nodes,
         AffinityMatch(seen, pods, cycle.pod, n),
         NEW pv \in Together, UsesVolume(cycle.pod, pv), NEW d \in dirs, d.volume = pv
  PROVE  d.node = n
<1>1. SharedKeepMatch(seen, pods, pv, n) /\ pv \in Keep
  BY DEF AffinityMatch, VolumeMatch, UsesVolume, Together
<1>2. d.node \in DOMAIN mounts[pv]
  BY <1>1 DEF SInv, Standing, Annotated
<1>3. HasEntry(seen, pv, n)
  BY <1>1, <1>2 DEF SharedKeepMatch, SInv, UpToDate
<1>4. DirsOf(pv, n) # {}
  BY <1>1, <1>3, EntryIsDirs
<1> QED BY <1>4 DEF DirsOf, Gathered

LEMMA CycleGathered ==
  ASSUME Shape, SInv, Gathered, FitsHome, Cycle
  PROVE  Gathered' /\ FitsHome'
<1>0. UNCHANGED <<pods, mounts, seen, dirs>>
  BY DEF Cycle, Pick, AskPressure, AskAffinity, Assume
<1>1. ASSUME NEW p \in Pods, Pick(p) PROVE Gathered' /\ FitsHome'
  <2>1. cycle'.pc = "pressure" /\ UNCHANGED binding
    BY <1>1 DEF Pick
  <2> QED BY <1>0, <2>1 DEF Gathered, FitsHome, Aims
<1>2. ASSUME NEW n \in Nodes, AskPressure(n) PROVE Gathered' /\ FitsHome'
  <2>1. cycle.pod # NoPod /\ n \in cycle.left /\ cycle.pc = "pressure" /\ UNCHANGED binding
    BY <1>2 DEF AskPressure, Shape, Cycling
  <2>2. PressureMatch(seen, cycle.pod, n) \in BOOLEAN
    BY DEF PressureMatch
  <2>3. cycle'.pc \in {"idle", "pressure", "affinity"} /\ (cycle'.pc = "affinity" => cycle'.fits = {})
    BY <1>2, <2>1, <2>2, JudgeKeeps DEF AskPressure, Shape
  <2> QED BY <1>0, <2>1, <2>3 DEF Gathered, FitsHome, Aims
<1>3. ASSUME NEW n \in Nodes, AskAffinity(n) PROVE Gathered' /\ FitsHome'
  <2>1. cycle.pod # NoPod /\ n \in cycle.left /\ cycle.pc = "affinity" /\ UNCHANGED binding
    BY <1>3 DEF AskAffinity, Shape, Cycling
  <2> DEFINE holds == AffinityMatch(seen, pods, cycle.pod, n)
  <2>2. holds \in BOOLEAN
    BY DEF AffinityMatch
  <2>3. /\ cycle'.pod \in {NoPod, cycle.pod}
        /\ cycle'.pod = NoPod => cycle'.pc = "idle"
        /\ cycle'.fits \subseteq cycle.fits \cup {m \in {n} : holds}
    BY <1>3, <2>1, <2>2, JudgeKeeps DEF AskAffinity, Shape
  <2>4. holds => \A pv \in Together : UsesVolume(cycle.pod, pv) => \A d \in dirs : d.volume = pv => d.node = n
    BY <2>1, AffinityFindsDirs
  <2> HIDE DEF holds
  <2>5. FitsHome'
    BY <1>0, <2>1, <2>3, <2>4 DEF FitsHome
  <2> QED BY <1>0, <2>1, <2>5 DEF Gathered, Aims
<1>4. ASSUME NEW n \in Nodes, Assume(n) PROVE Gathered' /\ FitsHome'
  <2>1. /\ cycle.pc = "choose" /\ n \in cycle.fits /\ cycle.pod \in Pods /\ cycle.pod # NoPod
        /\ binding' = [binding EXCEPT ![cycle.pod] = n] /\ cycle'.pc = "idle"
    BY <1>4, HostPathAssumption DEF Assume, Shape, Cycling, Idle
  <2>2. \A q \in Pods : /\ binding[q] = NoNode /\ binding'[q] = IF q = cycle.pod THEN n ELSE NoNode
                        /\ pods[cycle.pod].node = NoNode
    BY <2>1 DEF Shape, Cycling, SInv, Once
  <2>3. \A q \in Pods, m \in Nodes : Aims(q, m)' => (q = cycle.pod /\ m = n) \/ (q # cycle.pod /\ pods[q].node = m)
    BY <1>0, <2>2, HostPathAssumption DEF Aims
  <2>4. ASSUME NEW pv \in Together, UsesVolume(cycle.pod, pv), NEW q \in Pods, UsesVolume(q, pv),
               IsPodReady(pods[q]), pods[q].node \in Nodes
        PROVE  pods[q].node = n
    <3>1. Mounts(q, pv)
      BY <2>1, <2>4, HostPathAssumption DEF SInv, Standing, Waits, IsPodReady, Together
    <3>2. PICK d \in dirs : d.volume = pv /\ q \in d.users
      BY <3>1 DEF Mounts
    <3>3. pods[q].node = d.node
      BY <3>2 DEF SInv, Owners
    <3> QED BY <2>1, <2>4, <3>2, <3>3 DEF FitsHome
  <2>5. \A pv \in Together : UsesVolume(cycle.pod, pv) => \A d \in dirs : d.volume = pv => d.node = n
    BY <2>1 DEF FitsHome
  <2>6. \A q \in Pods, m \in Nodes : pods[q].node = m => Aims(q, m)
    BY DEF Aims
  <2>7. Gathered'
    BY <1>0, <2>3, <2>4, <2>5, <2>6 DEF Gathered, UsesVolume
  <2> QED BY <2>1, <2>7 DEF FitsHome
<1> QED BY <1>1, <1>2, <1>3, <1>4 DEF Cycle

LEMMA LifetimeGathered ==
  ASSUME Shape, SInv, SInv', Settled, Gathered, FitsHome, Lifetime
  PROVE  Gathered' /\ FitsHome'
<1>0. UNCHANGED <<mounts, cycle, dirs>>
  BY DEF Lifetime, CreatePod, EndPod, RemovePod, Bind
<1>1. \A q \in Pods, n \in Nodes : IsPodReady(pods[q])' /\ Aims(q, n)' => IsPodReady(pods[q]) /\ Aims(q, n)
  <2>1. PICK p \in Pods : CreatePod(p) \/ EndPod(p) \/ RemovePod(p) \/ Bind(p)
    BY DEF Lifetime
  <2>2. \A q \in Pods : q # p => pods'[q] = pods[q] /\ binding'[q] = binding[q]
    BY <2>1 DEF CreatePod, EndPod, RemovePod, Bind, TellPod, Shape, Feeds, Cycling
  <2>3. CASE CreatePod(p)
    <3>1. pods'[p] = [life |-> "live", node |-> NoNode] /\ binding'[p] = NoNode
      BY <2>3 DEF CreatePod, TellPod, Shape, Feeds, SInv, Once
    <3>2. \A n \in Nodes : ~Aims(p, n)'
      BY <3>1, HostPathAssumption DEF Aims
    <3>3. \A q \in Pods, n \in Nodes : q # p /\ IsPodReady(pods[q])' /\ Aims(q, n)' => IsPodReady(pods[q]) /\ Aims(q, n)
      BY <2>2 DEF Aims, IsPodReady
    <3> QED BY <3>2, <3>3
  <2>4. CASE EndPod(p) \/ RemovePod(p)
    <3>1. pods'[p].life \in {"ending", "gone"}
      BY <2>4 DEF EndPod, RemovePod, TellPod, Shape, Feeds, PodState
    <3> QED BY <2>2, <3>1 DEF Aims, IsPodReady
  <2>5. CASE Bind(p)
    <3>1. binding'[p] = NoNode
      BY <2>5 DEF Bind, Shape, Cycling
    <3>2. CASE pods[p].life = "live"
      <4>1. pods'[p] = [pods[p] EXCEPT !.node = binding[p]]
        BY <2>5, <3>2 DEF Bind, TellPod, Shape, Feeds
      <4>2. pods'[p].node = binding[p] /\ pods'[p].life = "live"
        BY <3>2, <4>1 DEF Shape, Feeds, PodState
      <4> QED BY <2>2, <3>1, <3>2, <4>2, HostPathAssumption DEF Aims, IsPodReady
    <3>3. CASE pods[p].life # "live"
      <4>1. UNCHANGED pods
        BY <2>5, <3>3 DEF Bind
      <4> QED BY <2>2, <3>3, <4>1 DEF Aims, IsPodReady
    <3> QED BY <3>2, <3>3
  <2> QED BY <2>1, <2>3, <2>4, <2>5
<1>2. Gathered'
  BY <1>0, <1>1 DEF Gathered
<1> QED BY <1>0, <1>2 DEF FitsHome

LEMMA PluginGathered ==
  ASSUME Shape, SInv, Gathered, FitsHome, Plugin
  PROVE  Gathered' /\ FitsHome'
<1>0. UNCHANGED <<pods, cycle, binding>>
  BY DEF Plugin, Reuse, MakeDirectory, Unpublish, Annotate, Clean
<1>1. ASSUME \A d \in dirs' : \/ \E e \in dirs : d.volume = e.volume /\ d.node = e.node
                              \/ /\ cycle.pod = NoPod /\ d.node \in Nodes
                                 /\ \E p \in Pods : UsesVolume(p, d.volume) /\ IsPodReady(pods[p]) /\ Aims(p, d.node)
      PROVE  Gathered' /\ FitsHome'
  <2>1. \A pv \in Together : \A d \in dirs' : d.volume = pv =>
          \/ \E e \in dirs : e.volume = pv /\ d.node = e.node
          \/ d.node \in Nodes /\ \E p \in Pods : UsesVolume(p, pv) /\ IsPodReady(pods[p]) /\ Aims(p, d.node)
    BY <1>1
  <2>2. \A pv \in Together : \A d, e \in dirs' : d.volume = pv /\ e.volume = pv => d.node = e.node
    BY <2>1 DEF Gathered
  <2>3. \A pv \in Together : \A p \in Pods, n \in Nodes : UsesVolume(p, pv) /\ IsPodReady(pods[p]) /\ Aims(p, n) =>
          \A d \in dirs' : d.volume = pv => d.node = n
    BY <2>1 DEF Gathered
  <2>4. Gathered'
    BY <1>0, <2>2, <2>3 DEF Gathered, UsesVolume, Aims
  <2>5. FitsHome'
    <3>1. cycle.pc \in {"affinity", "choose"} => cycle.pod # NoPod
      BY DEF Shape, Cycling
    <3>2. cycle.pc \in {"affinity", "choose"} =>
            \A d \in dirs' : \E e \in dirs : d.volume = e.volume /\ d.node = e.node
      BY <1>1, <3>1
    <3> QED BY <1>0, <3>2 DEF FitsHome
  <2> QED BY <2>4, <2>5
<1>2. ASSUME NEW p \in Pods, NEW pv \in Volumes, Reuse(p, pv) PROVE Gathered' /\ FitsHome'
  <2>1. PICK d \in Reusable(pods[p].node, p, pv) :
          dirs' = (dirs \ {d}) \cup {[d EXCEPT !.owner = OwnerOf(p, pv), !.users = @ \cup {p}]}
    BY <1>2 DEF Reuse
  <2>2. d \in dirs
    BY <1>2, ReuseFacts DEF Reuse
  <2> QED BY <1>1, <2>1, <2>2 DEF Shape, OnNode
<1>3. ASSUME NEW p \in Pods, NEW pv \in Volumes, MakeDirectory(p, pv) PROVE Gathered' /\ FitsHome'
  <2>1. Waits(p, pv)
    BY <1>3 DEF MakeDirectory
  <2>2. pods[p].node \in Nodes /\ UsesVolume(p, pv) /\ IsPodReady(pods[p]) /\ Aims(p, pods[p].node) /\ cycle.pod = NoPod
    BY <2>1 DEF Waits, IsPodReady, Aims, Shape, Feeds, PodState, SInv, Standing
  <2>3. PICK maker : \E i : dirs' = dirs \cup {[node |-> pods[p].node, disk |-> DisksOf[pods[p].node][i].path,
                              volume |-> pv, maker |-> maker, owner |-> OwnerOf(p, pv), users |-> {p}]}
    BY <1>3 DEF MakeDirectory
  <2>4. \A d \in dirs' : d \in dirs \/ (d.volume = pv /\ d.node = pods[p].node)
    BY <2>3
  <2> QED BY <1>1, <2>2, <2>4
<1>4. ASSUME NEW p \in Pods, NEW pv \in Volumes, Unpublish(p, pv) PROVE Gathered' /\ FitsHome'
  <2>1. PICK d \in dirs : dirs' = (dirs \ {d}) \cup {[d EXCEPT !.users = @ \ {p}]}
    BY <1>4 DEF Unpublish
  <2> QED BY <1>1, <2>1 DEF Shape, OnNode
<1>5. ASSUME dirs' \subseteq dirs PROVE Gathered' /\ FitsHome'
  BY <1>1, <1>5
<1> QED BY <1>2, <1>3, <1>4, <1>5 DEF Plugin, Annotate, Clean

\* The pods of a shared kept volume all find its data though pods end and
\* their directories go, for any number of pods and nodes, where a cycle waits
\* for the binds and for the plugin and the caches are up to date.
THEOREM OneHomeSettled == Settled => (Spec => []OneHome)
<1> SUFFICES ASSUME Settled PROVE Spec => []OneHome
  OBVIOUS
<1> DEFINE Inv == Shape /\ SInv /\ Gathered /\ FitsHome
<1>1. Init => Inv
  BY InitShape, InitSInv, InitGathered
<1>2. Inv /\ [Next]_vars => Inv'
  <2> SUFFICES ASSUME Inv, [Next]_vars PROVE Gathered' /\ FitsHome'
    BY StepSettled
  <2>1. SInv'
    BY StepSettled
  <2>2. CASE UNCHANGED vars
    BY <2>2 DEF vars, Gathered, FitsHome, Aims, UsesVolume, IsPodReady
  <2> QED BY <2>1, <2>2, CycleGathered, DeliverSettled, LifetimeGathered, PluginGathered DEF Next
<1>3. Inv => OneHome
  BY GatheredIsOne DEF Gathered
<1> QED BY <1>1, <1>2, <1>3, PTL DEF Spec

-----------------------------------------------------------------------------
(* What the disk pressure predicate computes, for any disks.               *)

\* Every place in the order is taken, by one of the sizes.
LEMMA SortedSizesOf ==
  ASSUME NEW size, IsFiniteSet(DOMAIN size), \A i \in DOMAIN size : size[i] \in Int
  PROVE  /\ SortedSizes(size) \in Seq(Int) /\ Len(SortedSizes(size)) = Cardinality(DOMAIN size)
         /\ \A k \in 1..Cardinality(DOMAIN size) : SortedSizes(size)[k] \in Range(size)
<1> DEFINE D == DOMAIN size
           N == Cardinality(D)
           Below(x) == {i \in D : size[i] < x}
           UpTo(x) == {i \in D : size[i] <= x}
           R == Range(size)
<1>1. N \in Nat
  BY FS_CardinalityType
<1>2. R \subseteq Int /\ IsFiniteSet(R)
  <2>1. R = {size[i] : i \in D}
    BY DEF Range
  <2>2. R \subseteq Int
    BY <2>1
  <2>3. [i \in D |-> size[i]] \in Surjection(D, R)
    BY <2>1 DEF Surjection
  <2> HIDE DEF R
  <2>4. IsFiniteSet(R)
    BY <2>3, FS_Surjection
  <2> QED BY <2>2, <2>4
<1>3. \A x : /\ IsFiniteSet(Below(x)) /\ Cardinality(Below(x)) \in Nat
             /\ IsFiniteSet(UpTo(x)) /\ Cardinality(UpTo(x)) \in Nat
  <2> TAKE x
  <2>1. Below(x) \in SUBSET D /\ UpTo(x) \in SUBSET D
    OBVIOUS
  <2> HIDE DEF D, Below, UpTo
  <2> QED BY <2>1, FS_Subset, FS_CardinalityType DEF D
<1>4. ASSUME NEW k \in 1..N
      PROVE  \E x \in R : Cardinality(Below(x)) < k /\ k <= Cardinality(UpTo(x))
  <2> DEFINE U == {x \in R : k <= Cardinality(UpTo(x))}
  <2>0. k \in Nat /\ 1 <= k /\ k <= N
    BY <1>1
  <2>1. U \subseteq Int /\ IsFiniteSet(U)
    <3>1. U \in SUBSET R
      OBVIOUS
    <3> HIDE DEF U, R
    <3> QED BY <1>2, <3>1, FS_Subset
  <2>2. U # {}
    <3>1. D # {}
      BY <2>0, FS_EmptySet
    <3>2. R # {}
      BY <3>1 DEF Range
    <3>3. Max(R) \in R /\ \A x \in R : x <= Max(R)
      <4> HIDE DEF R
      <4> QED BY <1>2, <3>2, FiniteMax
    <3>4. \A i \in D : size[i] \in R
      BY DEF Range
    <3>5. UpTo(Max(R)) = D
      BY <3>3, <3>4
    <3> QED BY <2>0, <3>3, <3>5
  <2> HIDE DEF U
  <2>3. Min(U) \in U /\ \A x \in U : Min(U) <= x
    BY <2>1, <2>2, FiniteMin
  <2> DEFINE x == Min(U)
  <2>4. x \in R /\ x \in Int /\ k <= Cardinality(UpTo(x))
    BY <2>1, <2>3 DEF U
  <2>5. Cardinality(Below(x)) < k
    <3>1. CASE Below(x) = {}
      <4>1. Cardinality(Below(x)) = 0
        BY <3>1, FS_EmptySet
      <4> QED BY <2>0, <4>1
    <3>2. CASE Below(x) # {}
      <4> DEFINE V == {y \in R : y < x}
      <4>1. V \subseteq Int /\ IsFiniteSet(V)
        <5>1. V \in SUBSET R
          OBVIOUS
        <5> HIDE DEF V, R
        <5> QED BY <1>2, <5>1, FS_Subset
      <4>2. V # {}
        <5>1. PICK i \in D : size[i] < x
          BY <3>2
        <5>2. size[i] \in R
          BY DEF Range
        <5> QED BY <5>1, <5>2
      <4> HIDE DEF V, x
      <4>3. Max(V) \in V /\ \A y \in V : y <= Max(V)
        BY <4>1, <4>2, FiniteMax
      <4>4. Max(V) \in R /\ Max(V) < x /\ Max(V) \in Int
        BY <4>1, <4>3 DEF V
      <4>5. Below(x) = UpTo(Max(V))
        <5>1. \A i \in D : size[i] < x => size[i] \in V
          BY DEF V, Range
        <5> QED BY <2>4, <4>3, <4>4, <5>1
      <4>6. Max(V) \notin U
        BY <2>1, <2>3, <2>4, <4>4 DEF x
      <4>7. ~(k <= Cardinality(UpTo(Max(V))))
        BY <4>4, <4>6 DEF U
      <4> HIDE DEF Below, UpTo
      <4> QED BY <1>3, <2>0, <4>5, <4>7
    <3> QED BY <3>1, <3>2
  <2> QED BY <2>4, <2>5
<1> DEFINE Choice(k) == CHOOSE x \in R : Cardinality(Below(x)) < k /\ k <= Cardinality(UpTo(x))
<1>5. SortedSizes(size) = [k \in 1..N |-> Choice(k)]
  BY DEF SortedSizes
<1>6. \A k \in 1..N : Choice(k) \in R
  <2> HIDE DEF R, N, Below, UpTo
  <2> QED BY <1>4
<1> HIDE DEF Choice
<1>7. /\ SortedSizes(size) \in [1..N -> Int] /\ DOMAIN SortedSizes(size) = 1..N
      /\ \A k \in 1..N : SortedSizes(size)[k] \in R
  <2> HIDE DEF R, N
  <2> QED BY <1>2, <1>5, <1>6
<1> HIDE DEF N, R
<1>8. SortedSizes(size) \in Seq(Int)
  BY <1>1, <1>7, IsASeq
<1>9. Len(SortedSizes(size)) = N
  BY <1>1, <1>7, <1>8, LenProperties
<1> QED BY <1>7, <1>8, <1>9 DEF N, R

\* The sum of one size is that size.
LEMMA SumSeqOfOne ==
  ASSUME NEW sizes \in Seq(Int), Len(sizes) = 1, sizes[1] \in Nat
  PROVE  SumSeq(sizes) = sizes[1]
<1> DEFINE S == DOMAIN sizes
           c == [s \in SUBSET S |-> Max(s)]
           h == [p \in Nat \X S |-> p[1] + sizes[p[2]]]
           D(f) == f = [s \in SUBSET S |-> IF s = {} THEN 0 ELSE f[s \ {Max(s)}] + sizes[Max(s)]]
           d == CHOOSE f : D(f)
<1>1. S = {1} /\ sizes[1] \in Nat
  BY LenProperties
<1>2. IsFiniteSet(S)
  BY <1>1, FS_Singleton
<1>3. \A s \in SUBSET S : s = {} \/ s = {1}
  BY <1>1
<1>4. Max({1}) = 1
  <2> DEFINE T == {1}
  <2>1. IsFiniteSet(T)
    BY FS_Singleton
  <2>2. T \in SUBSET Int /\ T # {} /\ \A x \in T : x = 1
    OBVIOUS
  <2> HIDE DEF T
  <2>3. Max(T) \in T
    BY <2>1, <2>2, FiniteMax
  <2>4. Max(T) = 1
    BY <2>2, <2>3
  <2> QED BY <2>4 DEF T
<1>5. Takes(c, S)
  <2>1. \A s \in SUBSET S : s # {} => Max(s) \in s
    <3> TAKE s \in SUBSET S
    <3>1. CASE s = {1}
      <4>1. Max(s) = 1
        BY <1>4, <3>1, Zenon
      <4> QED BY <3>1, <4>1
    <3> QED BY <1>3, <3>1
  <2> QED BY <2>1 DEF Takes
<1>6. PICK k : Folds(k, h, c, 0, S)
  <2> HIDE DEF c, h, S
  <2> QED BY <1>2, <1>5, FoldsExist
<1>7. k = [s \in SUBSET S |-> IF s = {} THEN 0 ELSE h[<<k[s \ {c[s]}], c[s]>>]]
  BY <1>6 DEF Folds
<1>8. k[{}] = 0
  BY <1>7
<1>9. \A s \in SUBSET S : s # {} => h[<<k[s \ {c[s]}], c[s]>>] = k[s \ {Max(s)}] + sizes[Max(s)]
  <2>1. h[<<k[{}], 1>>] = k[{}] + sizes[1]
    BY <1>1, <1>8
  <2>2. c[{1}] = 1 /\ {1} \ {1} = {}
    <3>1. {1} \in SUBSET S
      BY <1>1
    <3>2. c[{1}] = Max({1})
      BY <3>1
    <3> QED BY <1>4, <3>2
  <2>3. h[<<k[{1} \ {c[{1}]}], c[{1}]>>] = k[{1} \ {Max({1})}] + sizes[Max({1})]
    BY <1>4, <2>1, <2>2
  <2> HIDE DEF c, h, S
  <2> QED BY <1>3, <2>3
<1>10. D(k)
  <2> HIDE DEF c, h
  <2> QED BY <1>7, <1>9
<1>11. D(d)
  <2> HIDE DEF D
  <2> QED BY <1>10
<1>12. SumSeq(sizes) = d[S]
  BY DEF SumSeq, FoldLeft, MapThenFoldSet
<1> HIDE DEF d
<1>13. d[{}] = 0
  BY <1>11
<1>14. d[{1}] = d[{}] + sizes[1]
  <2>1. {1} \ {Max({1})} = {}
    BY <1>4
  <2>2. d[{1}] = d[{1} \ {Max({1})}] + sizes[Max({1})]
    BY <1>1, <1>11
  <2> QED BY <1>4, <2>1, <2>2
<1> QED BY <1>1, <1>12, <1>13, <1>14

\* The capacities a set of directories takes, as a sum.
Size(R) == [d \in R |-> Capacity[d.volume]]

LEMMA CapacitiesSum ==
  ASSUME NEW R, IsFiniteSet(R), \A d \in R : d.volume \in Volumes
  PROVE  /\ \A d \in R : Size(R)[d] \in Nat
         /\ MapThenSumSet(LAMBDA d : Capacity[d.volume], R) = SumOf(Size(R), R)
         /\ SumOf(Size(R), R) \in Nat
<1> DEFINE g == Size(R)
           D(f) == f = [s \in SUBSET R |->
                     IF s = {} THEN 0
                     ELSE Capacity[(CHOOSE x \in s : TRUE).volume] + f[s \ {CHOOSE x \in s : TRUE}]]
           d == CHOOSE f : D(f)
           e == CHOOSE f : Sums(f, g, R)
<1>1. MapThenSumSet(LAMBDA x : Capacity[x.volume], R) = d[R]
  BY DEF MapThenSumSet, MapThenFoldSet
<1>2. \A x \in R : g[x] = Capacity[x.volume] /\ g[x] \in Nat
  BY HostPathAssumption DEF Size
<1>3. \A f : D(f) <=> Sums(f, g, R)
  <2> TAKE f
  <2>1. \A s \in SUBSET R : s # {} => (CHOOSE x \in s : TRUE) \in R
    BY ChosenIn DEF Chosen
  <2> HIDE DEF g
  <2> QED BY <1>2, <2>1 DEF Sums, Chosen
<1> HIDE DEF D, g
<1>4. Sums(e, g, R)
  BY <1>2, SumsExist
<1>5. D(d)
  BY <1>3, <1>4
<1>6. Sums(d, g, R)
  BY <1>3, <1>5
<1> HIDE DEF d, e
<1>7. d[R] = e[R]
  BY <1>4, <1>6, SumsAgree
<1>8. SumOf(g, R) \in Nat
  BY <1>2, SumNat
<1>9. SumOf(g, R) = e[R]
  BY DEF SumOf, e
<1> QED BY <1>1, <1>2, <1>7, <1>8, <1>9 DEF g

-----------------------------------------------------------------------------
(* Room for what is admitted.  The premises, beyond a settled cluster, are *)
(* those without which TLC finds AdmittedFits violated: a pod has no more  *)
(* than one volume, every volume is kept and has a size, no disk is        *)
(* disabled, and no disk's path begins that of another of its node.        *)

Plain ==
  /\ \A p \in Pods : Len(VolumesOf[p]) <= 1
  /\ Volumes \subseteq Keep
  /\ \A pv \in Volumes : Capacity[pv] > 0
  /\ \A n \in Nodes : \A i \in DOMAIN DisksOf[n] : ~DisksOf[n][i].disabled
  /\ \A n \in Nodes : \A i, j \in DOMAIN DisksOf[n] :
       <<DisksOf[n][i].path, DisksOf[n][j].path>> \in PathPrefix => i = j

\* A directory is on a disk of its node, and its maker had use for it.
Made ==
  \A d \in dirs :
    /\ d.maker # NoPod => UsesVolume(d.maker, d.volume)
    /\ \E i \in DOMAIN DisksOf[d.node] : d.disk = DisksOf[d.node][i].path

LEMMA OneVolume ==
  ASSUME Plain, NEW p \in Pods, NEW pv, UsesVolume(p, pv)
  PROVE  /\ DOMAIN VolumesOf[p] = {1} /\ VolumesOf[p][1] = pv /\ pv \in Volumes
         /\ \A w : UsesVolume(p, w) => w = pv
<1>1. VolumesOf[p] \in Seq(Volumes)
  BY HostPathAssumption
<1>2. Len(VolumesOf[p]) \in Nat /\ DOMAIN VolumesOf[p] = 1..Len(VolumesOf[p])
  BY <1>1, LenProperties
<1>3. PICK i \in DOMAIN VolumesOf[p] : VolumesOf[p][i] = pv
  BY DEF UsesVolume, Range
<1>4. Len(VolumesOf[p]) = 1
  <2>1. Len(VolumesOf[p]) <= 1
    BY Zenon DEF Plain
  <2>2. i \in 1..Len(VolumesOf[p])
    BY <1>2
  <2> DEFINE l == Len(VolumesOf[p])
  <2>3. l \in Nat /\ l <= 1 /\ i \in 1..l
    BY <1>2, <2>1, <2>2
  <2> HIDE DEF l
  <2>4. l = 1
    BY <2>3
  <2> QED BY <2>4 DEF l
<1>5. DOMAIN VolumesOf[p] = {1}
  BY <1>2, <1>4
<1>6. VolumesOf[p][1] = pv
  BY <1>3, <1>5
<1>7. pv \in Volumes
  BY <1>1, <1>3, <1>5, <1>6, ElementOfSeq, <1>4
<1>8. ASSUME NEW w, UsesVolume(p, w) PROVE w = pv
  BY <1>5, <1>6, <1>8 DEF UsesVolume, Range
<1> QED BY <1>5, <1>6, <1>7, <1>8

LEMMA RoomSum ==
  ASSUME Shape, IsFiniteSet(dirs), NEW n \in Nodes, NEW i \in DOMAIN DisksOf[n]
  PROVE  LET S == OnDisk(n, DisksOf[n][i].path)
         IN  /\ IsFiniteSet(S) /\ \A d \in S : Size(S)[d] \in Nat
             /\ Room(n, i) = DisksOf[n][i].allocable - SumOf(Size(S), S)
             /\ Room(n, i) \in Int
<1> DEFINE S == OnDisk(n, DisksOf[n][i].path)
<1>1. S \in SUBSET dirs
  BY DEF OnDisk
<1>2. \A d \in S : d.volume \in Volumes
  BY <1>1 DEF Shape, OnNode
<1>3. Room(n, i) = DisksOf[n][i].allocable - MapThenSumSet(LAMBDA d : Capacity[d.volume], S)
  BY DEF Room
<1> HIDE DEF S
<1>4. IsFiniteSet(S)
  BY <1>1, FS_Subset
<1>5. /\ \A d \in S : Size(S)[d] \in Nat
      /\ MapThenSumSet(LAMBDA d : Capacity[d.volume], S) = SumOf(Size(S), S)
      /\ SumOf(Size(S), S) \in Nat
  BY <1>2, <1>4, CapacitiesSum
<1>6. DisksOf[n][i].allocable \in Nat
  BY DiskAt
<1> QED BY <1>3, <1>4, <1>5, <1>6 DEF S

\* A directory that changes hands or users takes the room it took before.
LEMMA RoomStays ==
  ASSUME Shape, Shape', SInv, SInv', NEW d \in dirs, NEW new,
         dirs' = (dirs \ {d}) \cup {new}, d \notin dirs' \/ new = d,
         new.node = d.node, new.disk = d.disk, new.volume = d.volume, new.maker = d.maker,
         NEW n \in Nodes, NEW i \in DOMAIN DisksOf[n]
  PROVE  Room(n, i)' = Room(n, i)
<1> DEFINE S == OnDisk(n, DisksOf[n][i].path)
           T == OnDisk(n, DisksOf[n][i].path)'
           f == [e \in S |-> IF e = d THEN new ELSE e]
<1>1. new \in dirs \ {d} => FALSE
  <2> SUFFICES ASSUME new \in dirs, new # d PROVE FALSE
    OBVIOUS
  <2> QED BY DEF SInv, Distinct
<1>2. T = {f[e] : e \in S}
  <2>1. T = {e \in dirs' : e.node = n /\ <<DisksOf[n][i].path, e.disk>> \in PathPrefix}
    BY DEF OnDisk
  <2>2. S = {e \in dirs : e.node = n /\ <<DisksOf[n][i].path, e.disk>> \in PathPrefix}
    BY DEF OnDisk
  <2> HIDE DEF S, T
  <2>3. \A e \in T : \E c \in S : f[c] = e
    BY <2>1, <2>2
  <2>4. \A e \in S : f[e] \in T
    BY <2>1, <2>2
  <2> HIDE DEF f
  <2> QED BY <2>3, <2>4
<1>3. \A e, c \in S : f[e] = f[c] => e = c
  <2>1. S \subseteq dirs
    BY DEF OnDisk
  <2> HIDE DEF S
  <2> QED BY <1>1, <2>1
<1>4. \A e \in S : f[e].volume = e.volume /\ f[e] \in T
  <2> HIDE DEF S, T
  <2>1. \A e \in S : f[e].volume = e.volume
    OBVIOUS
  <2> HIDE DEF f
  <2> QED BY <1>2, <2>1
<1>5. /\ IsFiniteSet(S) /\ \A e \in S : Size(S)[e] \in Nat
      /\ Room(n, i) = DisksOf[n][i].allocable - SumOf(Size(S), S)
  BY RoomSum DEF SInv
<1>6. Room(n, i)' = DisksOf[n][i].allocable - SumOf(Size(T), T)
  <2>1. (Shape /\ IsFiniteSet(dirs) /\ n \in Nodes /\ i \in DOMAIN DisksOf[n] =>
           Room(n, i) = DisksOf[n][i].allocable - SumOf(Size(OnDisk(n, DisksOf[n][i].path)), OnDisk(n, DisksOf[n][i].path)))'
    BY RoomSum, PTL
  <2> QED BY <2>1 DEF SInv, Size
<1>7. \A e \in S : Size(T)[f[e]] = Size(S)[e]
  <2> HIDE DEF S, T, f
  <2> QED BY <1>4 DEF Size
<1> HIDE DEF S, T, f
<1>8. SumOf(Size(T), {f[e] : e \in S}) = SumOf(Size(S), S)
  BY <1>3, <1>5, <1>7, SumImage
<1> QED BY <1>2, <1>5, <1>6, <1>8

\* What the extender thinks no annotation has placed yet is a size.
LEMMA UnrecordedNat ==
  ASSUME Shape, SInv, cycle.pod # NoPod, Volumes \subseteq Keep, NEW n \in Nodes
  PROVE  UnrecordedSize(seen, n) \in Nat
<1> DEFINE U == {pv \in seen.bound : HasEntry(seen, pv, n)}
           g == [pv \in U |-> Unrecorded(seen, pv, n) * Capacity[pv]]
           D(f) == f = [s \in SUBSET U |->
                     IF s = {} THEN 0
                     ELSE Unrecorded(seen, CHOOSE x \in s : TRUE, n) * Capacity[CHOOSE x \in s : TRUE]
                          + f[s \ {CHOOSE x \in s : TRUE}]]
           d == CHOOSE f : D(f)
<1>1. seen.bound = Volumes
  BY DEF SInv, UpToDate
<1>2. IsFiniteSet(U)
  <2> DEFINE volumes == {e.volume : e \in dirs}
  <2>1. IsFiniteSet(volumes)
    <3>1. [e \in dirs |-> e.volume] \in Surjection(dirs, volumes)
      BY DEF Surjection
    <3> HIDE DEF volumes
    <3> QED BY <3>1, FS_Surjection DEF SInv
  <2>2. \A pv \in U : DirsOf(pv, n) # {}
    BY <1>1, EntryIsDirs
  <2>3. U \in SUBSET volumes
    BY <2>2 DEF DirsOf
  <2> HIDE DEF U, volumes
  <2> QED BY <2>1, <2>3, FS_Subset
<1>3. \A pv \in U : Unrecorded(seen, pv, n) \in Nat
  <2> TAKE pv \in U
  <2> DEFINE users == Cardinality(ReadyUsersOn(seen, pv, n))
             items == Cardinality(seen.mounts[pv][n])
  <2>1. pv \in Keep /\ HasEntry(seen, pv, n)
    BY <1>1
  <2>2. items \in Nat
    <3>1. IsFiniteSet(DirsOf(pv, n)) /\ items = Cardinality(DirsOf(pv, n))
      BY <2>1, EntryIsDirs
    <3> QED BY <3>1, FS_CardinalityType
  <2>3. pv \notin Shared => users \in Nat
    BY <2>1, FreeIsEmptyItem, FS_CardinalityType
  <2>4. Unrecorded(seen, pv, n) = IF pv \in Shared
                                  THEN IF items = 0 /\ users > 0 THEN 1 ELSE 0
                                  ELSE IF users > items THEN users - items ELSE 0
    BY DEF Unrecorded
  <2> HIDE DEF users, items
  <2> QED BY <2>2, <2>3, <2>4
<1>4. \A pv \in U : g[pv] = Unrecorded(seen, pv, n) * Capacity[pv] /\ g[pv] \in Nat
  <2> TAKE pv \in U
  <2>1. Unrecorded(seen, pv, n) \in Nat /\ Capacity[pv] \in Nat
    BY <1>1, <1>3, HostPathAssumption
  <2> QED BY <2>1
<1>5. UnrecordedSize(seen, n) = d[U]
  BY DEF UnrecordedSize, MapThenSumSet, MapThenFoldSet
<1>6. \A f : D(f) <=> Sums(f, g, U)
  <2> TAKE f
  <2>1. \A s \in SUBSET U : s # {} => (CHOOSE x \in s : TRUE) \in U
    BY ChosenIn DEF Chosen
  <2>2. \A pv \in U : g[pv] = Unrecorded(seen, pv, n) * Capacity[pv]
    BY <1>4
  <2> HIDE DEF g, U
  <2> QED BY <2>1, <2>2 DEF Sums, Chosen
<1> DEFINE e == CHOOSE f : Sums(f, g, U)
<1> HIDE DEF D, g, U
<1>7. Sums(e, g, U)
  BY <1>2, <1>4, SumsExist
<1>8. D(d)
  BY <1>6, <1>7
<1>9. Sums(d, g, U)
  BY <1>6, <1>8
<1> HIDE DEF d, e
<1>10. d[U] = e[U]
  BY <1>2, <1>7, <1>9, SumsAgree
<1>11. SumOf(g, U) \in Nat
  BY <1>2, <1>4, SumNat
<1>12. SumOf(g, U) = e[U]
  BY DEF SumOf, e
<1> QED BY <1>5, <1>10, <1>11, <1>12

\* The disk a directory is charged to is the one it is on.
LEMMA ChargedToItsDisk ==
  ASSUME Shape, Plain, Made, NEW d \in dirs, NEW i \in DOMAIN DisksOf[d.node]
  PROVE  ChargedTo(d.node, PathOf(d)) = i <=> <<DisksOf[d.node][i].path, d.disk>> \in PathPrefix
<1> DEFINE n == d.node
           Fits(k) == <<DisksOf[n][k].path, d.disk>> \in PathPrefix
           I == {k \in 1..Len(DisksOf[n]) : Fits(k)}
<1>1. n \in Nodes /\ PathOf(d).disk = d.disk
  BY DEF Shape, OnNode, PathOf
<1>2. DOMAIN DisksOf[n] = 1..Len(DisksOf[n]) /\ Len(DisksOf[n]) \in Nat
  <2>1. DisksOf[n] \in Seq([path : Disks, allocable : Nat, disabled : BOOLEAN])
    BY <1>1, HostPathAssumption
  <2> QED BY <2>1, LenProperties
<1>3. PICK j \in DOMAIN DisksOf[n] : d.disk = DisksOf[n][j].path
  BY Zenon DEF Made
<1>4. \A k \in DOMAIN DisksOf[n] : Fits(k) <=> k = j
  <2>1. d.disk \in Disks
    BY DEF Shape, OnNode
  <2>2. Fits(j)
    BY <1>3, <2>1, HostPathAssumption
  <2>3. \A k \in DOMAIN DisksOf[n] : <<DisksOf[n][k].path, DisksOf[n][j].path>> \in PathPrefix => k = j
    BY <1>1, Zenon DEF Plain
  <2> QED BY <1>3, <2>2, <2>3
<1>5. ChargedTo(n, PathOf(d)) = IF I # {} THEN Min(I) ELSE 0
  BY <1>1 DEF ChargedTo, SelectInSeq
<1>6. I = {j} /\ j \in Int
  BY <1>2, <1>4
<1> HIDE DEF Fits, n
<1>7. Min(I) \in I
  <2>1. I \in SUBSET Int /\ I # {}
    BY <1>6
  <2>2. IsFiniteSet(I)
    BY <1>6, FS_Singleton
  <2> HIDE DEF I
  <2> QED BY <2>1, <2>2, FiniteMin
<1>8. ChargedTo(n, PathOf(d)) = j
  BY <1>5, <1>6, <1>7
<1> QED BY <1>4, <1>8 DEF n, Fits

\* What the extender thinks is free on a disk during a cycle is, when it is
\* anything, no more than what the plugin will find.
LEMMA FreeIsRoom ==
  ASSUME Shape, SInv, Plain, Made, cycle.pod # NoPod, NEW n \in Nodes, NEW i \in DOMAIN DisksOf[n]
  PROVE  /\ FreeOn(seen, n, i) \in Int
         /\ \A c \in Nat : 0 < c /\ c <= FreeOn(seen, n, i) => c <= Room(n, i)
<1> DEFINE S == OnDisk(n, DisksOf[n][i].path)
           M == {dir \in Mounted(seen, n) : ChargedTo(n, dir) = i}
           f == [d \in S |-> PathOf(d)]
           U == {pv \in seen.bound : HasEntry(seen, pv, n)}
           total == MapThenSumSet(LAMBDA dir : Capacity[dir.volume], M)
<1>1. seen.bound = Volumes /\ \A pv \in Volumes : pv \in Keep
  BY Zenon DEF SInv, UpToDate, Plain
<1>2. Mounted(seen, n) = {PathOf(d) : d \in {e \in dirs : e.node = n}}
  <2>1. \A pv \in U : pv \in Volumes /\ seen.mounts[pv][n] = {PathOf(d) : d \in DirsOf(pv, n)}
    BY <1>1, EntryIsDirs
  <2>2. \A d \in dirs : d.node = n => d.volume \in U /\ d \in DirsOf(d.volume, n)
    <3> TAKE d \in dirs
    <3> SUFFICES ASSUME d.node = n PROVE d.volume \in U /\ d \in DirsOf(d.volume, n)
      OBVIOUS
    <3>1. d.volume \in Volumes /\ d \in DirsOf(d.volume, n)
      BY DEF Shape, OnNode, DirsOf
    <3> QED BY <1>1, <3>1, EntryIsDirs
  <2>3. Mounted(seen, n) = UNION {seen.mounts[pv][n] : pv \in U}
    BY DEF Mounted
  <2>4. \A pv \in U : \A d \in DirsOf(pv, n) : d \in dirs /\ d.node = n
    BY DEF DirsOf
  <2> HIDE DEF U
  <2> QED BY <2>1, <2>2, <2>3, <2>4
<1>3. \A d \in dirs : d.node = n => (ChargedTo(n, PathOf(d)) = i <=> d \in S)
  BY ChargedToItsDisk DEF OnDisk
<1>4. M = {f[d] : d \in S}
  <2>1. \A d \in S : d \in dirs /\ d.node = n
    BY DEF OnDisk
  <2> HIDE DEF S
  <2> QED BY <1>2, <1>3, <2>1
<1>5. \A d, e \in S : f[d] = f[e] => d = e
  <2>1. \A d, e \in S : PathOf(d) = PathOf(e) => d.volume = e.volume /\ d.maker = e.maker
    BY DEF PathOf
  <2>2. \A d, e \in S : d \in dirs /\ e \in dirs /\ d.node = e.node
    BY DEF OnDisk
  <2>3. \A d, e \in dirs : d.node = e.node /\ d.volume = e.volume /\ d.maker = e.maker => d = e
    BY DEF SInv, Distinct
  <2> HIDE DEF S
  <2> QED BY <2>1, <2>2, <2>3
<1>6. \A d \in S : f[d].volume = d.volume /\ d.volume \in Volumes
  BY DEF OnDisk, PathOf, Shape, OnNode
<1>7. /\ IsFiniteSet(S) /\ \A d \in S : Size(S)[d] \in Nat
      /\ Room(n, i) = DisksOf[n][i].allocable - SumOf(Size(S), S)
      /\ Room(n, i) \in Int
  BY RoomSum DEF SInv
<1>8. FreeOn(seen, n, i) = Max({0, DisksOf[n][i].allocable - total - UnrecordedSize(seen, n)})
  BY DEF FreeOn
<1> HIDE DEF S, f, M
<1>9. \A d \in S : Size(M)[f[d]] = Size(S)[d]
  BY <1>4, <1>6 DEF Size
<1>10. IsFiniteSet(M) /\ SumOf(Size(M), M) = SumOf(Size(S), S)
  <2>0. \A d \in S : Size(S)[d] \in Nat /\ Size(M)[f[d]] = Size(S)[d]
    BY <1>7, <1>9
  <2>1. IsFiniteSet({f[d] : d \in S}) /\ SumOf(Size(M), {f[d] : d \in S}) = SumOf(Size(S), S)
    BY <1>5, <1>7, <2>0, SumImage
  <2> QED BY <1>4, <2>1
<1>11. total = SumOf(Size(M), M) /\ SumOf(Size(M), M) \in Nat
  <2>1. \A dir \in M : dir.volume \in Volumes
    BY <1>4, <1>6
  <2> QED BY <1>10, <2>1, CapacitiesSum
<1>12. UnrecordedSize(seen, n) \in Nat
  BY <1>1, UnrecordedNat
<1>13. DisksOf[n][i].allocable \in Nat
  BY DiskAt
<1> HIDE DEF total
<1> DEFINE left == DisksOf[n][i].allocable - total - UnrecordedSize(seen, n)
<1>14. left \in Int /\ left <= Room(n, i)
  <2> DEFINE a == DisksOf[n][i].allocable
             r == Room(n, i)
             u == UnrecordedSize(seen, n)
  <2>1. a \in Nat /\ total \in Nat /\ u \in Nat /\ r = a - total
    BY <1>7, <1>10, <1>11, <1>12, <1>13
  <2> HIDE DEF a, r, u
  <2>2. a - total - u \in Int /\ a - total - u <= r
    BY <2>1
  <2> QED BY <2>2 DEF a, r, u
<1> HIDE DEF left
<1>15. Max({0, left}) \in {0, left}
  <2>1. {0, left} \in SUBSET Int /\ {0, left} # {}
    BY <1>14
  <2>2. IsFiniteSet({0, left})
    <3>1. IsFiniteSet({0} \cup {left})
      BY FS_Singleton, FS_AddElement
    <3>2. {0, left} = {0} \cup {left}
      OBVIOUS
    <3> QED BY <3>1, <3>2
  <2> QED BY <2>1, <2>2, FiniteMax
<1>16. FreeOn(seen, n, i) = Max({0, left})
  BY <1>8 DEF left
<1> QED BY <1>7, <1>14, <1>15, <1>16

\* A pod that the disk pressure predicate finds a node to match has a place
\* for its volume there.
Holds(n, p, pv) ==
  \/ Owned(n, p, pv) # {} \/ Unowned(n, pv) # {}
  \/ \E i \in DOMAIN DisksOf[n] : CanHold(n, pv, i)

LEMMA PressureHolds ==
  ASSUME Shape, SInv, Plain, Made, cycle.pod # NoPod, NEW n \in Nodes,
         PressureMatch(seen, cycle.pod, n), NEW pv \in Volumes, UsesVolume(cycle.pod, pv)
  PROVE  Holds(n, cycle.pod, pv)
<1> DEFINE p == cycle.pod
           sizes == [i \in Requests(seen, p, n) |-> Capacity[VolumesOf[p][i]]]
           free == [i \in DOMAIN DisksOf[n] |-> FreeOn(seen, n, i)]
           request == RequestList(seen, p, n)
           haveNow == HaveList(seen, n)
<1>0. p \in Pods /\ pv \in Keep
  BY Zenon DEF Shape, Cycling, Plain
<1>1. CASE HasEmptyItemForNode(seen, pv, n)
  <2>1. CASE pv \in Shared
    <3>1. DirsOf(pv, n) # {}
      BY <1>0, <1>1, EntryIsDirs DEF HasEmptyItemForNode
    <3>2. PICK d \in dirs : d.volume = pv /\ d.node = n
      BY <3>1 DEF DirsOf
    <3>3. d.owner = OwnerOf(p, pv)
      BY <2>1, <3>2 DEF SInv, Owners, OwnerOf
    <3>4. d \in Owned(n, p, pv)
      BY <3>2, <3>3 DEF Owned
    <3> QED BY <3>4 DEF Holds
  <2>2. CASE pv \notin Shared
    BY <1>0, <1>1, <2>2, FreeIsEmptyItem DEF Holds
  <2> QED BY <2>1, <2>2
<1>2. CASE ~HasEmptyItemForNode(seen, pv, n)
  <2>1. DOMAIN VolumesOf[p] = {1} /\ VolumesOf[p][1] = pv
    BY <1>0, OneVolume
  <2>2. Capacity[pv] \in Nat /\ Capacity[pv] > 0
    <3>1. Capacity[pv] > 0
      BY Zenon DEF Plain
    <3> QED BY <3>1, HostPathAssumption
  <2>3. Requests(seen, p, n) = {1}
    BY <1>2, <2>1 DEF Requests
  <2>4. DOMAIN sizes = {1} /\ sizes[1] = Capacity[pv] /\ Range(sizes) = {Capacity[pv]}
    BY <2>1, <2>3 DEF Range
  <2>5. request = SortedSizes(sizes)
    BY DEF RequestList
  <2>6. IsFiniteSet(DOMAIN sizes) /\ Cardinality(DOMAIN sizes) = 1
    <3>1. IsFiniteSet({1}) /\ Cardinality({1}) = 1
      BY FS_Singleton
    <3> HIDE DEF sizes
    <3> QED BY <2>4, <3>1, Zenon
  <2> HIDE DEF sizes, request
  <2>7. request \in Seq(Int) /\ Len(request) = 1 /\ request[1] = Capacity[pv]
    <3>1. \A i \in DOMAIN sizes : sizes[i] \in Int
      BY <2>2, <2>4
    <3>2. /\ request \in Seq(Int) /\ Len(request) = 1
          /\ \A k \in 1..1 : request[k] \in Range(sizes)
      BY <2>5, <2>6, <3>1, SortedSizesOf
    <3> QED BY <2>4, <3>2
  <2>8. SumSeq(request) = Capacity[pv]
    BY <2>2, <2>7, SumSeqOfOne
  <2>9. CanRequestMatch(request, haveNow)
    BY <2>2, <2>8 DEF PressureMatch, request
  <2>10. haveNow = SortedSizes(free)
    BY DEF HaveList
  <2>11. DOMAIN free = DOMAIN DisksOf[n] /\ IsFiniteSet(DOMAIN free)
    <3>1. DisksOf[n] \in Seq([path : Disks, allocable : Nat, disabled : BOOLEAN])
      BY HostPathAssumption
    <3>2. DOMAIN DisksOf[n] = 1..Len(DisksOf[n]) /\ Len(DisksOf[n]) \in Nat
      BY <3>1, LenProperties
    <3>3. IsFiniteSet(DOMAIN DisksOf[n])
      BY <3>2, FS_Interval
    <3> QED BY <3>3
  <2>12. \A i \in DOMAIN DisksOf[n] : free[i] = FreeOn(seen, n, i) /\ free[i] \in Int
    BY FreeIsRoom
  <2> HIDE DEF free, haveNow
  <2>13. /\ haveNow \in Seq(Int) /\ Len(haveNow) = Cardinality(DOMAIN free)
         /\ \A k \in 1..Cardinality(DOMAIN free) : haveNow[k] \in Range(free)
    BY <2>10, <2>11, <2>12, SortedSizesOf
  <2>14. PICK walk \in [0..Len(request) -> Walk] :
           /\ walk[0] = Start(haveNow)
           /\ \A i \in 1..Len(request) : walk[i] = PutNext(walk[i - 1], request[i])
           /\ CanRequestMatch(request, haveNow) = walk[Len(request)].fits
    BY <2>7, <2>13, WalkOfList
  <2>15. walk[1] = PutNext(Start(haveNow), Capacity[pv]) /\ walk[1].fits
    <3>1. 1 \in 1..Len(request) /\ 1 - 1 = 0
      BY <2>7
    <3>2. walk[1] = PutNext(walk[0], request[1])
      BY <2>14, <3>1
    <3>3. walk[1].fits
      BY <2>7, <2>9, <2>14, Zenon
    <3> QED BY <2>7, <2>14, <3>2, <3>3, Zenon
  <2>16. PutNext(Start(haveNow), Capacity[pv]).fits
    BY <2>15
  <2>17. Start(haveNow) \in Walk /\ Start(haveNow).free = haveNow /\ Start(haveNow).at = 1
    BY <2>13 DEF Start, Walk
  <2>18. \E j \in 1..Len(haveNow) : Capacity[pv] <= haveNow[j]
    <3>1. \E j \in Start(haveNow).at..Len(Start(haveNow).free) : Capacity[pv] <= Start(haveNow).free[j]
      BY <2>2, <2>16, <2>17, PutNextFits
    <3> QED BY <2>17, <3>1
  <2>19. PICK i \in DOMAIN DisksOf[n] : Capacity[pv] <= free[i]
    <3>1. PICK j \in 1..Len(haveNow) : Capacity[pv] <= haveNow[j]
      BY <2>18
    <3>2. haveNow[j] \in Range(free)
      BY <2>13, <3>1
    <3> QED BY <2>11, <3>1, <3>2 DEF Range
  <2>20. Capacity[pv] <= Room(n, i)
    BY <2>2, <2>12, <2>19, FreeIsRoom
  <2>21. ~DisksOf[n][i].disabled
    BY Zenon DEF Plain
  <2>22. CanHold(n, pv, i)
    BY <2>20, <2>21, Zenon DEF CanHold
  <2> QED BY <2>22 DEF Holds
<1> QED BY <1>1, <1>2

\* Who could still come to node n, or has come and has no directory there yet:
\* the pod of the cycle where it is admitted so far, the pod a bind in flight
\* takes there, the pod that waits for the plugin.
Admitted == IF cycle.pc = "affinity" THEN cycle.left \cup cycle.fits ELSE cycle.fits

Risks(p, n) ==
  \/ cycle.pod = p /\ n \in Admitted
  \/ binding[p] = n
  \/ pods[p].node = n /\ \E pv \in Volumes : Waits(p, pv)

\* There is one such pod at a time, what it needs is still there, and the
\* directories are annotated: nothing is cleaned meanwhile.
Fitting ==
  \A p \in Pods, n \in Nodes : Risks(p, n) =>
    /\ \A pv \in Volumes : UsesVolume(p, pv) => Holds(n, p, pv)
    /\ \A d \in dirs : Annotated(d)
    /\ \A q \in Pods, m \in Nodes : Risks(q, m) => q = p

LEMMA InitFitting == Init => Made /\ Fitting
<1> SUFFICES ASSUME Init PROVE Made /\ Fitting
  OBVIOUS
<1>1. dirs = {} /\ cycle.pod = NoPod /\ \A p \in Pods : binding[p] = NoNode /\ pods[p].node = NoNode
  BY DEF Init, Idle, Unborn
<1> QED BY <1>1, HostPathAssumption DEF Made, Fitting, Risks

\* Where it fits, the plugin places it.
LEMMA FittingPlaces ==
  ASSUME Shape, SInv, Plain, Made, Fitting
  PROVE  AdmittedFits
<1> SUFFICES ASSUME NEW p \in Pods, NEW pv \in Volumes, Waits(p, pv)
             PROVE  Placeable(pods[p].node, p, pv)
  BY DEF AdmittedFits
<1> DEFINE n == pods[p].node
<1>1. n \in Nodes /\ IsPodReady(pods[p]) /\ UsesVolume(p, pv) /\ p # NoPod
  BY HostPathAssumption DEF Waits, IsPodReady, Shape, Feeds, PodState
<1>2. Holds(n, p, pv)
  BY <1>1 DEF Fitting, Risks
<1> HIDE DEF n
<1>3. CASE Owned(n, p, pv) # {}
  BY <1>3 DEF Reusable, Placeable, n
<1>4. CASE Owned(n, p, pv) = {}
  <2>1. MakersFor(n, p) = {}
    <3> SUFFICES ASSUME NEW e \in dirs, e.node = n, e.owner = p PROVE FALSE
      BY DEF MakersFor
    <3>1. UsesVolume(p, e.volume) /\ e.volume \notin Shared
      BY <1>1 DEF SInv, Owners
    <3>2. e.volume = pv
      BY <1>1, <3>1, OneVolume
    <3>3. e \in Owned(n, p, pv)
      BY <3>1, <3>2 DEF Owned, OwnerOf
    <3> QED BY <1>4, <3>3
  <2>2. Reusable(n, p, pv) = {d \in Unowned(n, pv) : d.maker \notin MakersTaken(n)}
    BY <1>4, <2>1 DEF Reusable
  <2>3. CASE Unowned(n, pv) # {}
    <3>1. PICK d \in Unowned(n, pv) : TRUE
      BY <2>3
    <3>2. d \in dirs /\ d.node = n /\ d.volume = pv /\ pv \notin Shared /\ ~IsPodReady(pods[d.owner])
      BY DEF Unowned
    <3>3. d.maker \in Pods /\ d.maker # NoPod
      BY <3>2, HostPathAssumption DEF SInv, Owners
    <3>4. d.maker \notin MakersTaken(n)
      <4> SUFFICES ASSUME NEW e \in dirs, e.node = n, e.maker = d.maker, IsPodReady(pods[e.owner]) PROVE FALSE
        BY DEF MakersTaken
      <4>1. UsesVolume(d.maker, pv) /\ UsesVolume(d.maker, e.volume)
        BY <3>2, <3>3, Zenon DEF Made
      <4>2. e.volume = pv
        BY <3>3, <4>1, OneVolume
      <4>3. e = d
        BY <3>2, <4>2 DEF SInv, Distinct
      <4> QED BY <3>2, <4>3
    <3> QED BY <2>2, <3>4 DEF Placeable, n
  <2>4. CASE \E i \in DOMAIN DisksOf[n] : CanHold(n, pv, i)
    <3> DEFINE maker == OwnerOf(p, pv)
               can == {i \in DOMAIN DisksOf[n] : CanHold(n, pv, i)}
               apart == {i \in can : ~Crowded(n, maker, i)}
               pool == IF apart # {} THEN apart ELSE can
               rooms == {Room(n, i) : i \in pool}
    <3>1. MakerOf(n, p, pv) = {maker}
      BY <2>1 DEF MakerOf
    <3>2. pool # {} /\ pool \subseteq DOMAIN DisksOf[n]
      BY <2>4
    <3>3. BestDisks(n, maker, pv) = {i \in pool : \A j \in pool : Room(n, j) <= Room(n, i)}
      BY DEF BestDisks
    <3> HIDE DEF maker, pool
    <3>4. IsFiniteSet(pool)
      <4>1. DisksOf[n] \in Seq([path : Disks, allocable : Nat, disabled : BOOLEAN])
        BY <1>1, HostPathAssumption
      <4>2. DOMAIN DisksOf[n] = 1..Len(DisksOf[n]) /\ Len(DisksOf[n]) \in Nat
        BY <4>1, LenProperties
      <4>3. IsFiniteSet(DOMAIN DisksOf[n])
        BY <4>2, FS_Interval
      <4> QED BY <3>2, <4>3, FS_Subset
    <3>5. rooms \subseteq Int /\ rooms # {}
      <4>1. \A i \in pool : Room(n, i) \in Int
        BY <1>1, <3>2, RoomSum DEF SInv
      <4> QED BY <3>2, <4>1
    <3>6. IsFiniteSet(rooms)
      <4>1. [i \in pool |-> Room(n, i)] \in Surjection(pool, rooms)
        BY DEF Surjection
      <4> HIDE DEF rooms
      <4> QED BY <3>4, <4>1, FS_Surjection
    <3>7. Max(rooms) \in rooms /\ \A x \in rooms : x <= Max(rooms)
      <4> HIDE DEF rooms
      <4> QED BY <3>5, <3>6, FiniteMax
    <3>8. PICK i \in pool : Room(n, i) = Max(rooms)
      BY <3>7
    <3>9. i \in BestDisks(n, maker, pv)
      BY <3>3, <3>7, <3>8
    <3> QED BY <3>1, <3>9 DEF Placeable, n
  <2> QED BY <1>2, <1>4, <2>3, <2>4 DEF Holds
<1> QED BY <1>3, <1>4

\* What Made says stays so.
LEMMA StepMade ==
  ASSUME Shape, SInv, Plain, Made, [Next]_vars
  PROVE  Made'
<1>1. ASSUME \A d \in dirs' :
               \/ \E e \in dirs : d.node = e.node /\ d.disk = e.disk /\ d.volume = e.volume /\ d.maker = e.maker
               \/ /\ d.maker # NoPod => UsesVolume(d.maker, d.volume)
                  /\ \E i \in DOMAIN DisksOf[d.node] : d.disk = DisksOf[d.node][i].path
      PROVE  Made'
  BY <1>1, Zenon DEF Made, UsesVolume
<1>2. ASSUME dirs' \subseteq dirs PROVE Made'
  BY <1>1, <1>2
<1>3. ASSUME NEW p \in Pods, NEW pv \in Volumes, Reuse(p, pv) PROVE Made'
  <2>1. PICK d \in Reusable(pods[p].node, p, pv) :
          dirs' = (dirs \ {d}) \cup {[d EXCEPT !.owner = OwnerOf(p, pv), !.users = @ \cup {p}]}
    BY <1>3 DEF Reuse
  <2>2. d \in dirs
    BY <1>3, ReuseFacts DEF Reuse
  <2> QED BY <1>1, <2>1, <2>2 DEF Shape, OnNode
<1>4. ASSUME NEW p \in Pods, NEW pv \in Volumes, Unpublish(p, pv) PROVE Made'
  <2>1. PICK d \in dirs : dirs' = (dirs \ {d}) \cup {[d EXCEPT !.users = @ \ {p}]}
    BY <1>4 DEF Unpublish
  <2> QED BY <1>1, <2>1 DEF Shape, OnNode
<1>5. ASSUME NEW p \in Pods, NEW pv \in Volumes, MakeDirectory(p, pv) PROVE Made'
  <2> DEFINE n == pods[p].node
             Dir(maker, i) == [node |-> n, disk |-> DisksOf[n][i].path, volume |-> pv,
                               maker |-> maker, owner |-> OwnerOf(p, pv), users |-> {p}]
  <2>1. PICK maker \in MakerOf(n, p, pv) : \E i \in BestDisks(n, maker, pv) : dirs' = dirs \cup {Dir(maker, i)}
    BY <1>5 DEF MakeDirectory
  <2>2. PICK i \in BestDisks(n, maker, pv) : dirs' = dirs \cup {Dir(maker, i)}
    BY <2>1
  <2>3. i \in DOMAIN DisksOf[n]
    BY DEF BestDisks
  <2>4. UsesVolume(p, pv) /\ p # NoPod
    BY <1>5, HostPathAssumption DEF MakeDirectory, Waits
  <2>5. maker # NoPod => UsesVolume(maker, pv)
    <3>1. CASE maker = OwnerOf(p, pv)
      BY <2>4, <3>1 DEF OwnerOf
    <3>2. CASE maker \in MakersFor(n, p)
      <4>1. PICK e \in dirs : e.node = n /\ e.owner = p /\ e.maker = maker
        BY <3>2 DEF MakersFor
      <4>2. UsesVolume(p, e.volume)
        BY <2>4, <4>1 DEF SInv, Owners
      <4>3. e.volume = pv
        BY <2>4, <4>2, OneVolume
      <4> QED BY <4>1, <4>3, Zenon DEF Made
    <3> QED BY <3>1, <3>2 DEF MakerOf
  <2>6. Dir(maker, i).node = n /\ Dir(maker, i).disk = DisksOf[n][i].path /\ Dir(maker, i).volume = pv
        /\ Dir(maker, i).maker = maker
    OBVIOUS
  <2> HIDE DEF Dir, n
  <2>7. \A d \in dirs' : d \in dirs \/ d = Dir(maker, i)
    BY <2>2
  <2>8. \E k \in DOMAIN DisksOf[n] : Dir(maker, i).disk = DisksOf[n][k].path
    BY <2>3, <2>6
  <2> QED BY <1>1, <2>5, <2>6, <2>7, <2>8
<1>6. CASE Next
  BY <1>2, <1>3, <1>4, <1>5, <1>6
     DEF Next, Cycle, Pick, AskPressure, AskAffinity, Assume, Deliver, DeliverPod, DeliverMount, DeliverClaim,
         Lifetime, CreatePod, EndPod, RemovePod, Bind, Plugin, Annotate, Clean
<1> QED BY <1>2, <1>6 DEF vars



\* Whom a judgement admits: the first phase nobody but the node judged, the
\* second phase nobody new.
LEMMA JudgeAdmits ==
  ASSUME Cycling, cycle.pod # NoPod, NEW n \in cycle.left, NEW holds \in BOOLEAN,
         NEW phase \in {"affinity", "choose"}, Judge(n, holds, phase)
  PROVE  /\ cycle.pc = "pressure" /\ phase = "affinity" => Admitted' \subseteq Admitted \cup {m \in {n} : holds}
         /\ cycle.pc = "affinity" /\ phase = "choose" => Admitted' \subseteq Admitted
<1> DEFINE left == cycle.left \ {n}
           fits == IF holds THEN cycle.fits \cup {n} ELSE cycle.fits
<1>1. fits \subseteq cycle.fits \cup {m \in {n} : holds} /\ left \subseteq cycle.left
  OBVIOUS
<1>2. CASE left # {}
  <2>1. cycle' = [cycle EXCEPT !.left = left, !.fits = fits]
    BY <1>2 DEF Judge
  <2> HIDE DEF left, fits
  <2>2. cycle'.pc = cycle.pc /\ cycle'.left = left /\ cycle'.fits = fits
    BY <2>1 DEF Cycling
  <2> QED BY <1>1, <2>2 DEF Admitted
<1>3. CASE left = {} /\ fits = {}
  <2>1. cycle'.pc = "idle" /\ cycle'.fits = {}
    BY <1>3 DEF Judge, Idle
  <2> QED BY <2>1 DEF Admitted
<1>4. CASE left = {} /\ fits # {}
  <2>1. cycle' = [cycle EXCEPT !.pc = phase, !.fits = IF phase = "affinity" THEN {} ELSE fits,
                               !.left = IF phase = "affinity" THEN fits ELSE {}]
    BY <1>4 DEF Judge
  <2> HIDE DEF left, fits
  <2>2. /\ cycle'.pc = phase /\ cycle'.fits = (IF phase = "affinity" THEN {} ELSE fits)
        /\ cycle'.left = (IF phase = "affinity" THEN fits ELSE {})
    BY <2>1 DEF Cycling
  <2>3. CASE phase = "affinity"
    BY <1>1, <2>2, <2>3 DEF Admitted
  <2>4. CASE phase = "choose"
    BY <1>1, <2>2, <2>4 DEF Admitted
  <2> QED BY <2>3, <2>4
<1> QED BY <1>2, <1>3, <1>4

\* What a node holds for a pod it still holds when no directory changes and
\* no bound pod starts to run again.
LEMMA HoldsStays ==
  ASSUME Shape, Shape', SInv, dirs' = dirs,
         \A q \in Pods : pods[q].node # NoNode => (IsPodReady(pods'[q]) => IsPodReady(pods[q])),
         NEW n \in Nodes, NEW p \in Pods, NEW pv \in Volumes, Holds(n, p, pv)
  PROVE  Holds(n, p, pv)'
<1>1. Owned(n, p, pv)' = Owned(n, p, pv)
  BY DEF Owned, OwnerOf
<1>2. Unowned(n, pv) \subseteq Unowned(n, pv)'
  <2> SUFFICES ASSUME NEW d \in Unowned(n, pv) PROVE d \in Unowned(n, pv)'
    OBVIOUS
  <2>1. d \in dirs /\ d.node = n /\ d.volume = pv /\ pv \in Keep \ Shared /\ ~IsPodReady(pods[d.owner])
    BY DEF Unowned
  <2>2. d.owner \in Pods /\ pods[d.owner].node # NoNode
    BY <2>1, HostPathAssumption DEF SInv, Owners
  <2> QED BY <2>1, <2>2 DEF Unowned
<1>3. \A i \in DOMAIN DisksOf[n] : Room(n, i)' = Room(n, i)
  <2> TAKE i \in DOMAIN DisksOf[n]
  <2>1. OnDisk(n, DisksOf[n][i].path)' = OnDisk(n, DisksOf[n][i].path)
    BY DEF OnDisk
  <2> DEFINE S == OnDisk(n, DisksOf[n][i].path)
  <2>2. Room(n, i) = DisksOf[n][i].allocable - SumOf(Size(S), S)
    BY RoomSum DEF SInv
  <2>3. (Shape /\ IsFiniteSet(dirs) /\ n \in Nodes /\ i \in DOMAIN DisksOf[n] =>
           Room(n, i) = DisksOf[n][i].allocable - SumOf(Size(OnDisk(n, DisksOf[n][i].path)), OnDisk(n, DisksOf[n][i].path)))'
    BY RoomSum, PTL
  <2>4. Room(n, i)' = DisksOf[n][i].allocable - SumOf(Size(S'), S')
    BY <2>3 DEF SInv, Size
  <2> HIDE DEF S
  <2> QED BY <2>1, <2>2, <2>4 DEF S
<1>4. \A i \in DOMAIN DisksOf[n] : CanHold(n, pv, i) => CanHold(n, pv, i)'
  BY <1>3, Zenon DEF CanHold
<1> QED BY <1>1, <1>2, <1>4 DEF Holds

\* A step that adds no risk, moves no directory and takes no annotation away.
LEMMA FittingStays ==
  ASSUME Shape, Shape', SInv, Fitting, dirs' = dirs,
         \A q \in Pods : pods[q].node # NoNode => (IsPodReady(pods'[q]) => IsPodReady(pods[q])),
         \A q \in Pods, m \in Nodes : Risks(q, m)' => Risks(q, m),
         \A d \in dirs : Annotated(d) => Annotated(d)'
  PROVE  Fitting'
<1> SUFFICES ASSUME NEW p \in Pods, NEW n \in Nodes, Risks(p, n)'
             PROVE  /\ \A pv \in Volumes : UsesVolume(p, pv) => Holds(n, p, pv)'
                    /\ \A d \in dirs' : Annotated(d)'
                    /\ \A q \in Pods, m \in Nodes : Risks(q, m)' => q = p
  BY DEF Fitting, UsesVolume
<1>1. /\ \A pv \in Volumes : UsesVolume(p, pv) => Holds(n, p, pv)
      /\ \A d \in dirs : Annotated(d)
      /\ \A q \in Pods, m \in Nodes : Risks(q, m) => q = p
  BY DEF Fitting
<1> QED BY <1>1, HoldsStays

\* Without a risk there is nothing to fit.
LEMMA NoRisk ==
  ASSUME \A q \in Pods, m \in Nodes : ~Risks(q, m)'
  PROVE  Fitting'
BY DEF Fitting

LEMMA CycleFitting ==
  ASSUME Shape, Shape', SInv, Settled, Plain, Made, Fitting, Cycle
  PROVE  Fitting'
<1>0. /\ UNCHANGED <<pods, mounts, seen, podFeed, pvFeed, dirs>>
      /\ \A d \in dirs : Annotated(d) => Annotated(d)'
      /\ \A q \in Pods, pv \in Volumes : Waits(q, pv)' <=> Waits(q, pv)
  <2>1. UNCHANGED <<pods, mounts, seen, podFeed, pvFeed, dirs>>
    BY DEF Cycle, Pick, AskPressure, AskAffinity, Assume
  <2> QED BY <2>1 DEF Annotated, PathOf, Waits, Mounts, UsesVolume
<1>1. ASSUME NEW p \in Pods, Pick(p) PROVE Fitting'
  <2>1. /\ AllPlaced /\ \A q \in Pods : binding[q] = NoNode
        /\ UNCHANGED binding /\ cycle'.pc = "pressure" /\ cycle'.fits = {}
    BY <1>1 DEF Pick, Quiet, Settled
  <2>2. \A q \in Pods, pv \in Volumes : ~Waits(q, pv)
    BY <2>1 DEF AllPlaced, Waits, UsesVolume
  <2>3. \A q \in Pods, m \in Nodes : ~Risks(q, m)'
    <3> SUFFICES ASSUME NEW q \in Pods, NEW m \in Nodes, Risks(q, m)' PROVE FALSE
      OBVIOUS
    <3>1. Admitted' = {}
      BY <2>1 DEF Admitted
    <3>2. binding'[q] = NoNode /\ m # NoNode
      BY <2>1, HostPathAssumption
    <3> QED BY <1>0, <2>2, <3>1, <3>2 DEF Risks
  <2> QED BY <2>3, NoRisk
<1>2. ASSUME NEW n \in Nodes, AskPressure(n) PROVE Fitting'
  <2>0. PICK p \in Pods : p = cycle.pod
    BY <1>2 DEF AskPressure, Shape, Cycling
  <2> DEFINE holds == PressureMatch(seen, cycle.pod, n)
  <2>1. cycle.pod # NoPod /\ n \in cycle.left /\ cycle.pc = "pressure" /\ UNCHANGED binding
        /\ holds \in BOOLEAN /\ Judge(n, holds, "affinity")
    BY <1>2 DEF AskPressure, Shape, Cycling, PressureMatch
  <2>2. cycle'.pod \in {NoPod, p} /\ Admitted' \subseteq Admitted \cup {m \in {n} : holds}
    BY <2>0, <2>1, JudgeKeeps, JudgeAdmits DEF Shape
  <2>3. /\ \A q \in Pods : binding[q] = NoNode
        /\ \A q \in Pods, pv \in Volumes : ~Waits(q, pv)
        /\ \A d \in dirs : Annotated(d)
    <3>1. \A d \in dirs : d.volume \in Keep
      <4>1. Volumes \subseteq Keep
        BY Zenon DEF Plain
      <4> QED BY <4>1 DEF Shape, OnNode
    <3> QED BY <2>1, <3>1 DEF SInv, Once, Standing
  <2>4. holds => \A pv \in Volumes : UsesVolume(p, pv) => Holds(n, p, pv)
    BY <2>0, <2>1, PressureHolds
  <2> HIDE DEF holds
  <2>5. \A q \in Pods, m \in Nodes : Risks(q, m)' => q = p /\ (Risks(q, m) \/ (m = n /\ holds))
    <3> SUFFICES ASSUME NEW q \in Pods, NEW m \in Nodes, Risks(q, m)'
                 PROVE  q = p /\ (Risks(q, m) \/ (m = n /\ holds))
      OBVIOUS
    <3>1. binding'[q] # m /\ ~\E pv \in Volumes : Waits(q, pv)'
      BY <1>0, <2>1, <2>3, HostPathAssumption
    <3>2. cycle'.pod = q /\ m \in Admitted'
      BY <3>1 DEF Risks
    <3>3. q = p
      BY <2>0, <2>2, <3>2, HostPathAssumption
    <3> QED BY <2>0, <2>2, <3>2, <3>3 DEF Risks
  <2>6. \A pv \in Volumes, m \in Nodes : Holds(m, p, pv) => Holds(m, p, pv)'
    BY <1>0, HoldsStays
  <2>7. ASSUME NEW q \in Pods, NEW m \in Nodes, Risks(q, m)'
        PROVE  /\ \A pv \in Volumes : UsesVolume(q, pv) => Holds(m, q, pv)'
               /\ \A d \in dirs' : Annotated(d)'
               /\ \A r \in Pods, k \in Nodes : Risks(r, k)' => r = q
    <3>1. q = p /\ (Risks(p, m) \/ (m = n /\ holds))
      BY <2>5, <2>7
    <3>2. \A pv \in Volumes : UsesVolume(p, pv) => Holds(m, p, pv)
      <4>1. CASE Risks(p, m)
        BY <2>1, <4>1 DEF Fitting
      <4>2. CASE m = n /\ holds
        BY <2>4, <4>2
      <4> QED BY <3>1, <4>1, <4>2
    <3>3. \A pv \in Volumes : UsesVolume(p, pv) => Holds(m, p, pv)'
      BY <2>6, <3>2
    <3>4. \A d \in dirs' : Annotated(d)'
      BY <1>0, <2>3
    <3> QED BY <2>5, <3>1, <3>3, <3>4
  <2> QED BY <2>7 DEF Fitting, UsesVolume
<1>3. ASSUME NEW n \in Nodes, AskAffinity(n) PROVE Fitting'
  <2>1. /\ cycle.pod # NoPod /\ n \in cycle.left /\ cycle.pc = "affinity" /\ UNCHANGED binding
        /\ AffinityMatch(seen, pods, cycle.pod, n) \in BOOLEAN
        /\ Judge(n, AffinityMatch(seen, pods, cycle.pod, n), "choose")
    BY <1>3 DEF AskAffinity, Shape, Cycling, AffinityMatch
  <2>2. cycle'.pod \in {NoPod, cycle.pod} /\ Admitted' \subseteq Admitted
    BY <2>1, JudgeKeeps, JudgeAdmits DEF Shape
  <2>3. \A q \in Pods, m \in Nodes : Risks(q, m)' => Risks(q, m)
    BY <1>0, <2>1, <2>2, HostPathAssumption DEF Risks
  <2> QED BY <1>0, <2>3, FittingStays
<1>4. ASSUME NEW n \in Nodes, Assume(n) PROVE Fitting'
  <2>1. /\ cycle.pc = "choose" /\ n \in cycle.fits /\ cycle.pod \in Pods /\ cycle.pod # NoPod
        /\ binding' = [binding EXCEPT ![cycle.pod] = n] /\ cycle'.pod = NoPod
    BY <1>4, HostPathAssumption DEF Assume, Shape, Cycling, Idle
  <2>2. \A q \in Pods : binding[q] = NoNode /\ binding'[q] = IF q = cycle.pod THEN n ELSE NoNode
    BY <2>1 DEF Shape, Cycling, SInv, Once
  <2>3. Risks(cycle.pod, n)
    BY <2>1 DEF Risks, Admitted
  <2>4. \A q \in Pods, m \in Nodes : Risks(q, m)' => Risks(q, m)
    <3> SUFFICES ASSUME NEW q \in Pods, NEW m \in Nodes, Risks(q, m)' PROVE Risks(q, m)
      OBVIOUS
    <3>1. q # NoPod /\ m # NoNode
      BY HostPathAssumption
    <3>2. CASE binding'[q] = m
      BY <2>2, <2>3, <3>1, <3>2
    <3>3. CASE binding'[q] # m
      BY <1>0, <2>1, <3>1, <3>3 DEF Risks
    <3> QED BY <3>2, <3>3
  <2> QED BY <1>0, <2>4, FittingStays
<1> QED BY <1>1, <1>2, <1>3, <1>4 DEF Cycle


LEMMA LifetimeFitting ==
  ASSUME Shape, Shape', SInv, Fitting, Lifetime
  PROVE  Fitting'
<1>0. /\ UNCHANGED <<mounts, cycle, dirs>>
      /\ \A d \in dirs : Annotated(d) => Annotated(d)'
  <2>1. UNCHANGED <<mounts, cycle, dirs>>
    BY DEF Lifetime, CreatePod, EndPod, RemovePod, Bind
  <2> QED BY <2>1 DEF Annotated, PathOf
<1>1. PICK p \in Pods : CreatePod(p) \/ EndPod(p) \/ RemovePod(p) \/ Bind(p)
  BY DEF Lifetime
<1>2. \A q \in Pods : q # p => pods'[q] = pods[q] /\ binding'[q] = binding[q]
  BY <1>1 DEF CreatePod, EndPod, RemovePod, Bind, TellPod, Shape, Feeds, Cycling
<1>3. /\ \A q \in Pods, pv \in Volumes : Mounts(q, pv)' = Mounts(q, pv)
      /\ Admitted' = Admitted /\ cycle'.pod = cycle.pod
  BY <1>0 DEF Mounts, Admitted
<1>4. \A q \in Pods, m \in Nodes : q # p /\ Risks(q, m)' => Risks(q, m)
  BY <1>2, <1>3 DEF Risks, Waits, UsesVolume
<1>5. ASSUME \A m \in Nodes : Risks(p, m)' => Risks(p, m),
             pods[p].node # NoNode => (IsPodReady(pods'[p]) => IsPodReady(pods[p]))
      PROVE  Fitting'
  <2>1. \A q \in Pods : pods[q].node # NoNode => (IsPodReady(pods'[q]) => IsPodReady(pods[q]))
    BY <1>2, <1>5
  <2>2. \A q \in Pods, m \in Nodes : Risks(q, m)' => Risks(q, m)
    BY <1>4, <1>5
  <2> QED BY <1>0, <2>1, <2>2, FittingStays
<1>6. CASE CreatePod(p)
  <2>1. pods'[p].node = NoNode /\ pods[p].node = NoNode /\ UNCHANGED binding
    BY <1>6 DEF CreatePod, TellPod, Shape, Feeds, SInv, Once
  <2>2. \A m \in Nodes : Risks(p, m)' => Risks(p, m)
    BY <1>3, <2>1, HostPathAssumption DEF Risks
  <2> QED BY <1>5, <2>1, <2>2
<1>7. CASE EndPod(p) \/ RemovePod(p)
  <2>1. pods'[p].life \in {"ending", "gone"} /\ UNCHANGED binding
    BY <1>7 DEF EndPod, RemovePod, TellPod, Shape, Feeds, PodState
  <2>2. \A m \in Nodes : Risks(p, m)' => Risks(p, m)
    BY <1>3, <2>1 DEF Risks, Waits
  <2> QED BY <1>5, <2>1, <2>2 DEF IsPodReady
<1>8. CASE Bind(p)
  <2>1. binding'[p] = NoNode /\ binding[p] # NoNode
    BY <1>8 DEF Bind, Shape, Cycling
  <2>2. CASE pods[p].life = "live"
    <3>1. pods'[p] = [pods[p] EXCEPT !.node = binding[p]]
      BY <1>8, <2>2 DEF Bind, TellPod, Shape, Feeds
    <3>2. pods'[p].node = binding[p] /\ pods'[p].life = "live"
      BY <2>2, <3>1 DEF Shape, Feeds, PodState
    <3>3. \A m \in Nodes : Risks(p, m)' => Risks(p, m)
      BY <1>3, <2>1, <3>2, HostPathAssumption DEF Risks
    <3> QED BY <1>5, <2>2, <3>3 DEF IsPodReady
  <2>3. CASE pods[p].life # "live"
    <3>1. UNCHANGED pods
      BY <1>8, <2>3 DEF Bind
    <3>2. \A m \in Nodes : Risks(p, m)' => Risks(p, m)
      BY <1>3, <2>1, <3>1, HostPathAssumption DEF Risks, Waits, UsesVolume
    <3> QED BY <1>5, <3>1, <3>2
  <2> QED BY <2>2, <2>3
<1> QED BY <1>1, <1>6, <1>7, <1>8

\* The pod that waited has its directory: nobody is left to wait for one.
LEMMA PlacedFitting ==
  ASSUME Shape, SInv, Plain, Fitting, UNCHANGED <<pods, cycle, binding>>,
         NEW p \in Pods, NEW pv \in Volumes, Waits(p, pv), Mounts(p, pv)',
         \A q \in Pods, w \in Volumes : Mounts(q, w) => Mounts(q, w)'
  PROVE  Fitting'
<1> SUFFICES ASSUME NEW q \in Pods, NEW m \in Nodes, Risks(q, m)' PROVE FALSE
  BY NoRisk
<1>1. pods[p].node \in Nodes /\ pods[p].node # NoNode /\ UsesVolume(p, pv)
  BY HostPathAssumption DEF Waits, Shape, Feeds, PodState
<1>2. Risks(p, pods[p].node)
  BY <1>1 DEF Risks
<1>3. \A r \in Pods, k \in Nodes : Risks(r, k) => r = p
  BY <1>1, <1>2 DEF Fitting
<1>4. Admitted' = Admitted
  BY DEF Admitted
<1>5. \A w \in Volumes : Waits(q, w)' => Waits(q, w) /\ ~Mounts(q, w)'
  BY DEF Waits, UsesVolume
<1>6. Risks(q, m)
  BY <1>4, <1>5 DEF Risks
<1>7. q = p
  BY <1>3, <1>6
<1>8. cycle.pod = NoPod /\ binding[p] = NoNode
  BY <1>1 DEF SInv, Once, Standing
<1>9. PICK w \in Volumes : Waits(p, w)'
  BY <1>7, <1>8, HostPathAssumption DEF Risks
<1>10. w = pv
  BY <1>1, <1>9, OneVolume DEF Waits, UsesVolume
<1> QED BY <1>5, <1>7, <1>9, <1>10

LEMMA PluginFitting ==
  ASSUME Shape, Shape', SInv, SInv', Settled, Plain, Made, Fitting, Plugin
  PROVE  Fitting'
<1>0. UNCHANGED <<pods, cycle, binding>> /\ Admitted' = Admitted
  BY DEF Plugin, Reuse, MakeDirectory, Unpublish, Annotate, Clean, TellMount, Admitted
<1>1. ASSUME NEW p \in Pods, NEW pv \in Volumes, Reuse(p, pv) PROVE Fitting'
  <2>1. PICK d \in Reusable(pods[p].node, p, pv) :
          dirs' = (dirs \ {d}) \cup {[d EXCEPT !.owner = OwnerOf(p, pv), !.users = @ \cup {p}]}
    BY <1>1 DEF Reuse
  <2>2. d \in dirs /\ d.volume = pv /\ Waits(p, pv)
    BY <1>1, ReuseFacts DEF Reuse
  <2> DEFINE new == [d EXCEPT !.owner = OwnerOf(p, pv), !.users = @ \cup {p}]
  <2>3. new \in dirs' /\ new.volume = d.volume /\ new.users = d.users \cup {p}
    BY <2>1, <2>2 DEF Shape, OnNode
  <2> HIDE DEF new
  <2>4. \A e \in dirs : e # d => e \in dirs'
    BY <2>1
  <2>5. Mounts(p, pv)' /\ \A q \in Pods, w \in Volumes : Mounts(q, w) => Mounts(q, w)'
    BY <2>2, <2>3, <2>4 DEF Mounts
  <2> QED BY <1>0, <2>2, <2>5, PlacedFitting
<1>2. ASSUME NEW p \in Pods, NEW pv \in Volumes, MakeDirectory(p, pv) PROVE Fitting'
  <2> DEFINE n == pods[p].node
             Dir(maker, i) == [node |-> n, disk |-> DisksOf[n][i].path, volume |-> pv,
                               maker |-> maker, owner |-> OwnerOf(p, pv), users |-> {p}]
  <2>1. PICK maker \in MakerOf(n, p, pv) : \E i \in BestDisks(n, maker, pv) : dirs' = dirs \cup {Dir(maker, i)}
    BY <1>2 DEF MakeDirectory
  <2>2. PICK i \in BestDisks(n, maker, pv) : dirs' = dirs \cup {Dir(maker, i)}
    BY <2>1
  <2>3. Dir(maker, i).volume = pv /\ p \in Dir(maker, i).users /\ Waits(p, pv)
    BY <1>2 DEF MakeDirectory
  <2> HIDE DEF Dir, n
  <2>4. Mounts(p, pv)' /\ \A q \in Pods, w \in Volumes : Mounts(q, w) => Mounts(q, w)'
    BY <2>2, <2>3 DEF Mounts
  <2> QED BY <1>0, <2>3, <2>4, PlacedFitting
<1>3. ASSUME NEW p \in Pods, NEW pv \in Volumes, Unpublish(p, pv) PROVE Fitting'
  <2>1. PICK d \in dirs : p \in d.users /\ dirs' = (dirs \ {d}) \cup {[d EXCEPT !.users = @ \ {p}]}
    BY <1>3 DEF Unpublish
  <2> DEFINE new == [d EXCEPT !.users = @ \ {p}]
  <2>2. /\ new.node = d.node /\ new.volume = d.volume /\ new.maker = d.maker /\ new.disk = d.disk
        /\ new.owner = d.owner /\ new.users = d.users \ {p} /\ new # d
    BY <2>1 DEF Shape, OnNode
  <2>3. dirs' = (dirs \ {d}) \cup {new}
    BY <2>1
  <2> HIDE DEF new
  <2>4. \A e \in dirs' : e = new \/ e \in dirs
    BY <2>3
  <2>5. \A q \in Pods, w \in Volumes : Waits(q, w)' => Waits(q, w)
    <3>1. \A q \in Pods, w \in Volumes : q # p /\ Mounts(q, w) => Mounts(q, w)'
      BY <2>2, <2>3 DEF Mounts
    <3>2. pods[p].life # "live"
      BY <1>3 DEF Unpublish
    <3> QED BY <1>0, <3>1, <3>2 DEF Waits, UsesVolume
  <2>6. \A q \in Pods, m \in Nodes : Risks(q, m)' => Risks(q, m)
    BY <1>0, <2>5 DEF Risks
  <2>7. \A n \in Nodes : \A i \in DOMAIN DisksOf[n] : Room(n, i)' = Room(n, i)
    BY <2>2, <2>3, RoomStays
  <2>8. ASSUME NEW q \in Pods, NEW n \in Nodes, NEW w \in Volumes, Holds(n, q, w) PROVE Holds(n, q, w)'
    <3>1. CASE Owned(n, q, w) # {}
      <4>1. PICK e \in dirs : e.node = n /\ e.volume = w /\ e.owner = OwnerOf(q, w)
        BY <3>1 DEF Owned
      <4>2. \E c \in dirs' : c.node = n /\ c.volume = w /\ c.owner = OwnerOf(q, w)
        BY <2>2, <2>3, <4>1
      <4> QED BY <4>2 DEF Holds, Owned, OwnerOf
    <3>2. CASE Unowned(n, w) # {}
      <4>1. PICK e \in dirs : e.node = n /\ e.volume = w /\ w \in Keep \ Shared /\ ~IsPodReady(pods[e.owner])
        BY <3>2 DEF Unowned
      <4>2. \E c \in dirs' : c.node = n /\ c.volume = w /\ w \in Keep \ Shared /\ ~IsPodReady(pods[c.owner])
        BY <2>2, <2>3, <4>1
      <4> QED BY <1>0, <4>2 DEF Holds, Unowned
    <3>3. CASE \E i \in DOMAIN DisksOf[n] : CanHold(n, w, i)
      <4>1. \A i \in DOMAIN DisksOf[n] : CanHold(n, w, i) => CanHold(n, w, i)'
        BY <2>7, Zenon DEF CanHold
      <4> QED BY <3>3, <4>1 DEF Holds
    <3> QED BY <2>8, <3>1, <3>2, <3>3 DEF Holds
  <2>9. ASSUME \A e \in dirs : Annotated(e) PROVE \A e \in dirs' : Annotated(e)'
    <3>1. PathOf(new) = PathOf(d)
      BY <2>2 DEF PathOf
    <3>2. \A e \in dirs' : e.node \in DOMAIN mounts[e.volume] /\ PathOf(e) \in mounts[e.volume][e.node]
      BY <2>2, <2>4, <2>9, <3>1 DEF Annotated
    <3>3. UNCHANGED mounts
      BY <1>3 DEF Unpublish
    <3> QED BY <3>2, <3>3 DEF Annotated, PathOf
  <2>10. ASSUME NEW q \in Pods, NEW m \in Nodes, Risks(q, m)'
         PROVE  /\ \A w \in Volumes : UsesVolume(q, w) => Holds(m, q, w)'
                /\ \A e \in dirs' : Annotated(e)'
                /\ \A r \in Pods, k \in Nodes : Risks(r, k)' => r = q
    <3>1. /\ \A w \in Volumes : UsesVolume(q, w) => Holds(m, q, w)
          /\ \A e \in dirs : Annotated(e)
          /\ \A r \in Pods, k \in Nodes : Risks(r, k) => r = q
      BY <2>6, <2>10 DEF Fitting
    <3> QED BY <2>6, <2>8, <2>9, <3>1
  <2> QED BY <2>10 DEF Fitting, UsesVolume
<1>4. ASSUME NEW n \in Nodes, NEW pv \in Volumes, Annotate(n, pv) PROVE Fitting'
  <2>1. UNCHANGED dirs
    BY <1>4 DEF Annotate
  <2>2. \A q \in Pods, m \in Nodes : Risks(q, m)' => Risks(q, m)
    BY <1>0, <2>1 DEF Risks, Waits, Mounts, UsesVolume
  <2>3. \A d \in dirs : d.volume \in Keep
    <3>1. Volumes \subseteq Keep
      BY Zenon DEF Plain
    <3> QED BY <3>1 DEF Shape, OnNode
  <2>4. \A d \in dirs : Annotated(d) => Annotated(d)'
    BY <1>4, <2>3, AnnotatedStays
  <2> QED BY <1>0, <2>1, <2>2, <2>4, FittingStays
<1>5. ASSUME NEW d \in dirs, Clean(d) PROVE Fitting'
  <2>1. ~Annotated(d) /\ dirs' = dirs \ {d} /\ d.users = {}
    BY <1>5 DEF Clean, Annotated
  <2>2. \A q \in Pods, m \in Nodes : ~Risks(q, m)
    BY <2>1 DEF Fitting
  <2>3. \A q \in Pods, w \in Volumes : Waits(q, w)' => Waits(q, w)
    BY <1>0, <2>1 DEF Waits, Mounts, UsesVolume
  <2>4. \A q \in Pods, m \in Nodes : ~Risks(q, m)'
    BY <1>0, <2>2, <2>3 DEF Risks
  <2> QED BY <2>4, NoRisk
<1> QED BY <1>1, <1>2, <1>3, <1>4, <1>5 DEF Plugin

\* No pod is bound to a node whose plugin cannot place its volume
\* (AdmittedFits; README-zh.md:102, hostpathpv_disk_pressure.go:162-190), in a
\* settled cluster and where pods, volumes and disks are plain: what the disk
\* pressure predicate found room for is there when the plugin comes.
THEOREM RoomForAdmitted == Settled /\ Plain => (Spec => []AdmittedFits)
<1> SUFFICES ASSUME Settled, Plain PROVE Spec => []AdmittedFits
  OBVIOUS
<1> DEFINE Inv == Shape /\ SInv /\ Made /\ Fitting
<1>1. Init => Inv
  BY InitShape, InitSInv, InitFitting
<1>2. Inv /\ [Next]_vars => Inv'
  <2> SUFFICES ASSUME Inv, [Next]_vars PROVE Fitting'
    BY StepSettled, StepMade
  <2>1. Shape' /\ SInv'
    BY StepSettled
  <2>2. CASE UNCHANGED vars
    <3>1. \A q \in Pods, m \in Nodes : Risks(q, m)' => Risks(q, m)
      BY <2>2 DEF vars, Risks, Admitted, Waits, Mounts, UsesVolume
    <3>2. \A d \in dirs : Annotated(d) => Annotated(d)'
      BY <2>2 DEF vars, Annotated, PathOf
    <3>3. UNCHANGED <<pods, dirs>>
      BY <2>2 DEF vars
    <3> QED BY <2>1, <3>1, <3>2, <3>3, FittingStays
  <2> QED BY <2>1, <2>2, CycleFitting, DeliverSettled, LifetimeFitting, PluginFitting DEF Next
<1>3. Inv => AdmittedFits
  BY FittingPlaces
<1> QED BY <1>1, <1>2, <1>3, PTL DEF Spec

=============================================================================
