------------------------- MODULE HostPathScheduling -------------------------
(***************************************************************************)
(* A pod with hostpath volumes from its creation to its directory: the     *)
(* kube-scheduler runs one cycle at a time and asks the extender node by   *)
(* node, first for disk pressure and then for affinity; it binds in the    *)
(* background; the volume plugin on the node makes or reuses a directory   *)
(* and writes it to the volume's annotation later; the extender sees all   *)
(* of it through informers that deliver events in order, and late.         *)
(***************************************************************************)
EXTENDS HostPathPV

CONSTANT Promises \* what the cluster keeps to; see Quiet, Tell and EndPod

ASSUME PromisesAssumption ==
  Promises \subseteq {"bound", "placed", "synced", "known", "lasting"}

VARIABLES
  pods,     \* the pods at the API server
  mounts,   \* the mount annotations at the API server
  seen,     \* the extender's caches, as a view
  podFeed,  \* the pod events the informer has not delivered
  pvFeed,   \* the volume events the informer has not delivered
  cycle,    \* the scheduling cycle
  binding,  \* for each pod, the node a bind in flight names
  dirs      \* the directories on the nodes' disks

vars == <<pods, mounts, seen, podFeed, pvFeed, cycle, binding, dirs>>

NoMount == [n \in {} |-> {}]
Unborn == [life |-> "unborn", node |-> NoNode]
Idle == [pc |-> "idle", pod |-> NoPod, left |-> {}, fits |-> {}]

\* A directory together with its node, its owner and the pods that mount it.
PathOf(d) == [disk |-> d.disk, volume |-> d.volume, maker |-> d.maker]

Synced == "synced" \in Promises

Init ==
  /\ pods = [p \in Pods |-> Unborn]
  /\ mounts = [pv \in Volumes |-> NoMount]
  /\ seen = [pods |-> pods, mounts |-> mounts, bound |-> IF Synced THEN Volumes ELSE {}]
  /\ podFeed = <<>> /\ pvFeed = <<>>
  /\ cycle = Idle
  /\ binding = [p \in Pods |-> NoNode]
  /\ dirs = {}

---------------------------------------------------------------------------
(* The API server and the informers. *)

\* A pod changes at the API server; the informer delivers it at once or later.
TellPod(p, pod) ==
  /\ pods' = [pods EXCEPT ![p] = pod]
  /\ IF Synced
     THEN seen' = [seen EXCEPT !.pods[p] = pod] /\ UNCHANGED podFeed
     ELSE podFeed' = Append(podFeed, [key |-> p, value |-> pod]) /\ UNCHANGED seen

TellMount(pv, mount) ==
  /\ mounts' = [mounts EXCEPT ![pv] = mount]
  /\ IF Synced
     THEN seen' = [seen EXCEPT !.mounts[pv] = mount] /\ UNCHANGED pvFeed
     ELSE pvFeed' = Append(pvFeed, [key |-> pv, value |-> mount]) /\ UNCHANGED seen

DeliverPod ==
  /\ podFeed # <<>>
  /\ seen' = [seen EXCEPT !.pods[Head(podFeed).key] = Head(podFeed).value]
  /\ podFeed' = Tail(podFeed)
  /\ UNCHANGED <<pods, mounts, pvFeed, cycle, binding, dirs>>

DeliverMount ==
  /\ pvFeed # <<>>
  /\ seen' = [seen EXCEPT !.mounts[Head(pvFeed).key] = Head(pvFeed).value]
  /\ pvFeed' = Tail(pvFeed)
  /\ UNCHANGED <<pods, mounts, podFeed, cycle, binding, dirs>>

\* The caches hold the volume and its bound claim from now on.
DeliverClaim(pv) ==
  /\ pv \notin seen.bound
  /\ seen' = [seen EXCEPT !.bound = @ \cup {pv}]
  /\ UNCHANGED <<pods, mounts, podFeed, pvFeed, cycle, binding, dirs>>

CreatePod(p) ==
  /\ pods[p].life = "unborn"
  /\ TellPod(p, [life |-> "live", node |-> NoNode])
  /\ UNCHANGED <<mounts, pvFeed, cycle, binding, dirs>>

\* The pod finishes or its deletion begins.
EndPod(p) ==
  /\ "lasting" \notin Promises
  /\ pods[p].life = "live"
  /\ TellPod(p, [pods[p] EXCEPT !.life = "ending"])
  /\ UNCHANGED <<mounts, pvFeed, cycle, binding, dirs>>

RemovePod(p) ==
  /\ pods[p].life = "ending"
  /\ TellPod(p, [pods[p] EXCEPT !.life = "gone"])
  /\ UNCHANGED <<mounts, pvFeed, cycle, binding, dirs>>

---------------------------------------------------------------------------
(* The scheduling cycle. *)

Mounts(p, pv) == \E d \in dirs : d.volume = pv /\ p \in d.users

\* Every bound pod has its directories, and every directory is annotated.
AllPlaced ==
  /\ \A p \in Pods : pods[p].life = "live" /\ pods[p].node # NoNode =>
       \A pv \in Range(VolumesOf[p]) : Mounts(p, pv)
  /\ \A d \in dirs : HasEntry([mounts |-> mounts], d.volume, d.node)
                       /\ PathOf(d) \in mounts[d.volume][d.node]

\* When a cycle may start.
Quiet ==
  /\ "bound" \in Promises => \A p \in Pods : binding[p] = NoNode
  /\ "placed" \in Promises => AllPlaced
  /\ "known" \in Promises => \A p \in Pods : pods[p].life # "unborn" => seen.pods[p].life # "unborn"

Pick(p) ==
  /\ cycle = Idle /\ Quiet
  /\ pods[p].life = "live" /\ pods[p].node = NoNode /\ binding[p] = NoNode
  /\ cycle' = [pc |-> "pressure", pod |-> p, left |-> Nodes, fits |-> {}]
  /\ UNCHANGED <<pods, mounts, seen, podFeed, pvFeed, binding, dirs>>

\* Seeded fault: the node judged is left in the list.
JudgeAgain(n, holds, phase) ==
  cycle' = [cycle EXCEPT !.fits = IF holds THEN @ \cup {n} ELSE @]

\* The node is kept when the predicate holds of it; after the last node the
\* nodes kept go on to the next phase, and a pod that keeps none is put back.
Judge(n, holds, phase) ==
  LET left == cycle.left \ {n}
      fits == IF holds THEN cycle.fits \cup {n} ELSE cycle.fits
  IN  cycle' = CASE left # {} -> [cycle EXCEPT !.left = left, !.fits = fits]
                 [] left = {} /\ fits = {} -> Idle
                 [] OTHER -> [cycle EXCEPT !.pc = phase, !.fits = IF phase = "affinity" THEN {} ELSE fits,
                                           !.left = IF phase = "affinity" THEN fits ELSE {}]

AskPressure(n) ==
  /\ cycle.pc = "pressure" /\ n \in cycle.left
  /\ Judge(n, PressureMatch(seen, cycle.pod, n), "affinity")
  /\ UNCHANGED <<pods, mounts, seen, podFeed, pvFeed, binding, dirs>>

AskAffinity(n) ==
  /\ cycle.pc = "affinity" /\ n \in cycle.left
  /\ Judge(n, AffinityMatch(seen, pods, cycle.pod, n), "choose")
  /\ UNCHANGED <<pods, mounts, seen, podFeed, pvFeed, binding, dirs>>

\* The scores only order the nodes: any that is left may be the best.
Assume(n) ==
  /\ cycle.pc = "choose" /\ n \in cycle.fits
  /\ binding' = [binding EXCEPT ![cycle.pod] = n]
  /\ cycle' = Idle
  /\ UNCHANGED <<pods, mounts, seen, podFeed, pvFeed, dirs>>

\* The API server refuses a pod that ends.
Bind(p) ==
  /\ binding[p] # NoNode
  /\ binding' = [binding EXCEPT ![p] = NoNode]
  /\ IF pods[p].life = "live"
     THEN TellPod(p, [pods[p] EXCEPT !.node = binding[p]])
     ELSE UNCHANGED <<pods, seen, podFeed>>
  /\ UNCHANGED <<mounts, pvFeed, cycle, dirs>>

---------------------------------------------------------------------------
(* The volume plugin of a node. *)

\* The directories whose path starts with that of the disk: the plugin, too,
\* compares prefixes.
OnDisk(n, disk) == {d \in dirs : d.node = n /\ <<disk, d.disk>> \in PathPrefix}

Room(n, i) ==
  DisksOf[n][i].allocable
    - MapThenSumSet(LAMBDA d : Capacity[d.volume], OnDisk(n, DisksOf[n][i].path))

CanHold(n, pv, i) == ~DisksOf[n][i].disabled /\ Capacity[pv] <= Room(n, i)

\* The plugin keeps a pod's directories on different disks when it can.
Crowded(n, p, i) == \E d \in OnDisk(n, DisksOf[n][i].path) : p # NoPod /\ p \in {d.owner, d.maker}

\* The disks sorting puts first.
BestDisks(n, p, pv) ==
  LET can == {i \in DOMAIN DisksOf[n] : CanHold(n, pv, i)}
      apart == {i \in can : ~Crowded(n, p, i)}
      pool == IF apart # {} THEN apart ELSE can
  IN  {i \in pool : \A j \in pool : Room(n, j) <= Room(n, i)}

OwnerOf(p, pv) == IF pv \in Shared THEN NoPod ELSE p

\* The directory that already is this pod's, or this shared volume's.
Owned(n, p, pv) == {d \in dirs : d.node = n /\ d.volume = pv /\ d.owner = OwnerOf(p, pv)}

\* The kept directories whose owner no longer runs.
Unowned(n, pv) ==
  {d \in dirs : /\ d.node = n /\ d.volume = pv /\ pv \in Keep \ Shared
                /\ ~IsPodReady(pods[d.owner])}

\* The volumes of one pod stay together: a pod that owns a kept directory gets
\* its next one under the name of the same maker.
MakersFor(n, p) == {d.maker : d \in {e \in dirs : e.node = n /\ e.owner = p /\ e.volume \in Keep}}
MakersTaken(n) == {d.maker : d \in {e \in dirs : e.node = n /\ e.owner # NoPod /\ IsPodReady(pods[e.owner])}}

\* Where the plugin may put volume pv of pod p: the directories it reuses and
\* the disks it may make one on.
Reusable(n, p, pv) ==
  CASE Owned(n, p, pv) # {} -> Owned(n, p, pv)
    [] Owned(n, p, pv) = {} /\ pv \in Keep \ Shared /\ MakersFor(n, p) # {} ->
         {d \in dirs : d.node = n /\ d.volume = pv /\ d.maker \in MakersFor(n, p)}
    [] OTHER -> {d \in Unowned(n, pv) : d.maker \notin MakersTaken(n)}

MakerOf(n, p, pv) ==
  IF pv \in Keep \ Shared /\ MakersFor(n, p) # {} THEN MakersFor(n, p) ELSE {OwnerOf(p, pv)}

Placeable(n, p, pv) ==
  Reusable(n, p, pv) # {} \/ \E maker \in MakerOf(n, p, pv) : BestDisks(n, maker, pv) # {}

Waits(p, pv) ==
  /\ pods[p].life = "live" /\ pods[p].node # NoNode
  /\ UsesVolume(p, pv) /\ ~Mounts(p, pv)

Reuse(p, pv) ==
  /\ Waits(p, pv)
  /\ \E d \in Reusable(pods[p].node, p, pv) :
       dirs' = (dirs \ {d})
         \cup {[d EXCEPT !.owner = OwnerOf(p, pv), !.users = @ \cup {p}]}
  /\ UNCHANGED <<pods, mounts, seen, podFeed, pvFeed, cycle, binding>>

MakeDirectory(p, pv) ==
  LET n == pods[p].node IN
  /\ Waits(p, pv)
  /\ Reusable(n, p, pv) = {}
  /\ \E maker \in MakerOf(n, p, pv) : \E i \in BestDisks(n, maker, pv) :
       dirs' = dirs \cup {[node |-> n, disk |-> DisksOf[n][i].path, volume |-> pv,
                           maker |-> maker, owner |-> OwnerOf(p, pv), users |-> {p}]}
  /\ UNCHANGED <<pods, mounts, seen, podFeed, pvFeed, cycle, binding>>

Unpublish(p, pv) ==
  /\ pods[p].life \in {"ending", "gone"}
  /\ \E d \in dirs :
       /\ d.volume = pv /\ p \in d.users
       /\ dirs' = (dirs \ {d}) \cup {[d EXCEPT !.users = @ \ {p}]}
  /\ UNCHANGED <<pods, mounts, seen, podFeed, pvFeed, cycle, binding>>

\* The directories of pv some pod that still exists mounts on node n.
InUse(n, pv) ==
  {PathOf(d) : d \in {e \in dirs : /\ e.node = n /\ e.volume = pv
                                   /\ \E p \in e.users : pods[p].life # "gone"}}

\* syncQuotaPathUsage and setPVMountInfo: a kept volume's entry only grows.
Annotate(n, pv) ==
  LET old == IF n \in DOMAIN mounts[pv] THEN mounts[pv][n] ELSE {}
      new == IF pv \in Keep THEN old \cup InUse(n, pv) ELSE InUse(n, pv)
      others == DOMAIN mounts[pv] \ {n}
  IN  /\ \E d \in dirs : d.node = n /\ d.volume = pv
      /\ new # old
      /\ TellMount(pv, [m \in others \cup (IF new = {} THEN {} ELSE {n}) |->
                          IF m = n THEN new ELSE mounts[pv][m]])
      /\ UNCHANGED <<pods, podFeed, cycle, binding, dirs>>

\* A directory no annotation names and no pod uses is deleted.
Clean(d) ==
  /\ d.users = {}
  /\ ~(d.node \in DOMAIN mounts[d.volume] /\ PathOf(d) \in mounts[d.volume][d.node])
  /\ d.owner # NoPod => ~IsPodReady(pods[d.owner])
  /\ dirs' = dirs \ {d}
  /\ UNCHANGED <<pods, mounts, seen, podFeed, pvFeed, cycle, binding>>

---------------------------------------------------------------------------
Cycle == (\E p \in Pods : Pick(p)) \/ (\E n \in Nodes : AskPressure(n) \/ AskAffinity(n) \/ Assume(n))
Deliver == DeliverPod \/ DeliverMount \/ (\E pv \in Volumes : DeliverClaim(pv))
Lifetime == \E p \in Pods : CreatePod(p) \/ EndPod(p) \/ RemovePod(p) \/ Bind(p)
Plugin ==
  \/ \E p \in Pods, pv \in Volumes : Reuse(p, pv) \/ MakeDirectory(p, pv) \/ Unpublish(p, pv)
  \/ \E n \in Nodes, pv \in Volumes : Annotate(n, pv)
  \/ \E d \in dirs : Clean(d)

Next == Cycle \/ Deliver \/ Lifetime \/ Plugin

Spec == Init /\ [][Next]_vars

\* The scheduler's queue serves every pod, a bind is sent, the informers and
\* the plugin keep working.
Fairness ==
  /\ \A p \in Pods : SF_vars(Pick(p)) /\ WF_vars(Bind(p))
  /\ WF_vars(\E n \in Nodes : AskPressure(n) \/ AskAffinity(n) \/ Assume(n))
  /\ WF_vars(DeliverPod) /\ WF_vars(DeliverMount)
  /\ \A pv \in Volumes : WF_vars(DeliverClaim(pv))

FairSpec == Spec /\ Fairness

---------------------------------------------------------------------------
PodState == [life : {"unborn", "live", "ending", "gone"}, node : Nodes \cup {NoNode}]
PodEvent == [key : Pods, value : PodState]
OnNode == [node : Nodes, disk : Disks, volume : Volumes, maker : Pods \cup {NoPod},
           owner : Pods \cup {NoPod}, users : SUBSET Pods]

\* For each node with an entry, a set of directories.
IsAnnotation(mount) == DOMAIN mount \subseteq Nodes /\ mount \in [DOMAIN mount -> SUBSET Directory]

\* What the API server holds, what the caches hold of it, and what each event
\* between them says.
Caching ==
  /\ pods \in [Pods -> PodState]
  /\ DOMAIN mounts = Volumes /\ \A pv \in Volumes : IsAnnotation(mounts[pv])
  /\ DOMAIN seen = {"pods", "mounts", "bound"}
  /\ seen.pods \in [Pods -> PodState] /\ seen.bound \subseteq Volumes
  /\ DOMAIN seen.mounts = Volumes /\ \A pv \in Volumes : IsAnnotation(seen.mounts[pv])
  /\ podFeed \in Seq(PodEvent)
  /\ \A i \in DOMAIN pvFeed : pvFeed[i].key \in Volumes /\ IsAnnotation(pvFeed[i].value)

\* A cycle runs for one pod, has judged no node it still has to judge, and its
\* pod has no bind in flight.
Cycling ==
  /\ cycle \in [pc : {"idle", "pressure", "affinity", "choose"}, pod : Pods \cup {NoPod},
                left : SUBSET Nodes, fits : SUBSET Nodes]
  /\ cycle.left \cap cycle.fits = {}
  /\ cycle.pc = "idle" <=> cycle.pod = NoPod
  /\ binding \in [Pods -> Nodes \cup {NoNode}]
  /\ cycle.pod # NoPod => binding[cycle.pod] = NoNode

\* The types of the state: what the API server, the caches, the feeds, the
\* scheduling cycle and the disks hold.
TypeOK == Caching /\ Cycling /\ dirs \subseteq OnNode

\* The pods of a shared kept volume all find its data: the volume has its
\* directories on one node (README-zh.md:106, hostpathpv_affinity.go:66-94).
OneHome ==
  \A pv \in Shared \cap Keep : Cardinality({d.node : d \in {e \in dirs : e.volume = pv}}) <= 1

\* No pod is bound to a node whose plugin cannot place its volumes
\* (README-zh.md:102, hostpathpv_disk_pressure.go:162-190).
AdmittedFits ==
  \A p \in Pods, pv \in Volumes : Waits(p, pv) => Placeable(pods[p].node, p, pv)

\* The nodes where a directory of pv waits for a pod.
FreeHomes(pv) == {n \in Nodes : Unowned(n, pv) # {}}

\* While a directory of a kept, unshared volume waits for a pod, affinity
\* keeps only nodes that have one (hostpathpv_affinity.go:98-124).
KeepReturns ==
  [][\A n \in Nodes : cycle.pc = "affinity" /\ n \in cycle'.fits \ cycle.fits =>
       \A pv \in Range(VolumesOf[cycle.pod]) \cap (Keep \ Shared) :
         FreeHomes(pv) # {} => n \in FreeHomes(pv)]_vars

\* With room to spare every pod is bound in the end, whatever the caches have
\* missed on the way (hostpathpv_affinity.go:54-144).
EveryPodBinds ==
  \A p \in Pods : pods[p].life = "live" ~> pods[p].node # NoNode \/ pods[p].life # "live"
=============================================================================
