# Verification of the hostpath and namespace scheduler extender

This directory holds TLA+ models of the scheduler extender in `src/pkg`, the TLC
configurations that check them on small instances, and proofs that TLAPS checks
for every value of the constants. `PROJECT.json` lists the runs, the seeded
faults, the source lines of every definition, the hazards and the theorems.

## 1. The system

The program is one Go binary. `kube-scheduler` calls it over HTTP while it
schedules a pod (`/predicates/...`, `/priorities/...`); administrators call a
second HTTP server to say which nodes the pods of a namespace may use. It may run
as one process with both servers or as two (`-runMode`), and in several replicas.

| Component | State it keeps | Operations | Interacts with |
|---|---|---|---|
| Start-up, `pkg/main.go` | run mode, which servers listen | build clients, start the policy server, `Init`, start informers, wait, install handlers, serve | all components, systemd or kubelet |
| Predicate framework, `predicate/predicate.go` | list of predicates, `inited` | `Regist`, `Init`, `Ready`, `InstallHttpServer`, `Handler` | kube-scheduler |
| Namespace node selector, `predicate/namespaces_nodeselector.go` | package-wide cache of one ConfigMap, 5 s | `getConfigCM`, `GetNsConfigByConfigMap`, `GetNsLabelSelector`, `PodMatchNode` | API server |
| Its server, `predicate/namespaces_nodeselector_httpserver.go` | a second cache (10 s) that points to the same object | get, check, nodelabels, refresh, add, update, delete | API server, nodes, pods |
| Hostpath affinity, `predicate/hostpathpv_affinity.go` | informer caches | `PodMatchNode` | PV annotations, API server |
| Disk pressure, `predicate/hostpathpv_disk_pressure.go` | informer caches | `PodMatchNode`, `canRequestMatch` | PV and node annotations |
| Hostpath helpers, `algorithm/hostpathpv.go`, `algorithm/common.go` | none | what a volume has where, who uses it | informer caches, API server |
| Prioritize framework and functions, `prioritize/*.go` | per call: scores, errors | one goroutine per node, reduce | kube-scheduler, informer caches |
| hostpathpv CSI plugin (vendored) | directories with quotas on the disks | publish, unpublish, annotate, clean up | writes the annotations the predicates read |
| Authentication and TLS, version and health endpoints | password file, certificate | constant answers, login | start-up, the kubelet's probe |

What is hard here:

* *Namespace configuration.* Two caches hold pointers to one mutable object. A
  handler edits that object before the API server has accepted the edit. Reads,
  writes, time-outs, restarts and other replicas fall between its steps. Correct
  means: an acknowledged edit is stored and stays, one edit does not disturb
  another namespace, an addition never opens a node, the default that keeps
  namespaces off system nodes holds, caches come back to the stored content, and
  a refresh deletes only pods that do not match.
* *Hostpath volumes.* The truth is a directory on a disk of a node. The extender
  sees it through an annotation that is written seconds later and informers that
  deliver later still, while the scheduler binds in the background. Correct
  means: a shared kept volume has one home, a kept directory is returned to, an
  admitted pod finds room, and no pod is refused for ever by a stale view.
* *Scores.* One goroutine per node reads caches that move, errors are collected
  by goroutines that fail together. Correct means: no error is lost or answered
  with a score, the ranking follows the readings, every call ends.
* *Start-up.* Two servers in one or two processes, five plugins that share one
  informer factory, a goroutine that ends the whole process, files and ports that may
  be missing or taken, two kinds of supervisor. Correct means: what answers is
  ready, nobody is served without the password file that was named, one server does not take
  the other down, and what should serve serves in the end.
* *`canRequestMatch`.* A greedy walk over two sorted lists; it must not accept
  what does not fit, and it is meant to accept what does.

## 2. Modules

    NsSelector              data and pure functions of the namespace selector
      NsSelectorProofs      lemmas on them
      NsConfigRegister      abstract: one configuration, atomic edits
        NsConfigProofs      theorems
      NsNodeSelector        detailed: processes, goroutines, caches, API server
                            (INSTANCE NsConfigRegister: ImplementsRegister)
        NsNodeSelectorProofs  theorems: any overlap, one request at a time, paced
                              replicas, operators; the refinement
    DiskWalk                canRequestMatch as a function of its two lists
      DiskWalkProofs        lemmas on walks, sums, folds and sorted lists
      DiskMatch             canRequestMatch, one loop iteration per step
        DiskMatchProofs     theorems
    HostPathPV              what the two hostpath predicates decide from a view (extends DiskWalk)
      HostPathScheduling    scheduler, informers, API server, plugin, extender
        HostPathProofs      theorems
      Prioritize            the two priority functions
        PrioritizeProofs    theorems
    Startup                 from exec to serving, with supervisors, ports, files
      StartupProofs         theorems
    MC_*                    constants of the instances

How they correspond to the code:

**NsSelector.** `NsConfig` is the JSON item of the ConfigMap: four maps per
namespace, where a nil map (`NilMap`) differs from an empty one, because
`GetNsConfigByConfigMap` fills in the default for a nil `NotMatch` only. Values
`""` and `"*"` are one model value, `Wildcard`: both turn a term into an existence
test. `BadKeys` are the keys `labels.Parse` refuses; `EmptyKey` is skipped by
`GetNsLabelSelector`. `BadJson` is an item `json.Unmarshal` refuses, `NilData` a
ConfigMap without a Data map. `LabelSelector` and `TermMatches` are what the
selector string means once parsed. `EditAllowed` and `EditedConfig` are `tmpFun`
and the assignments around it.

**NsConfigRegister.** The promise: a configuration that every request edits in one
step. The base of an edit is the stored content with the defaults of the listed
namespaces, so a request also writes those defaults out.

**NsNodeSelector.** `globalCM` and `globalFresh` are the package variables of the
filter, `selectorCM` and `selectorFresh` those of the `SchedulerConfig`; both hold
*objects*, and `heap` gives an object its content, so that
`SetNsNodeSelectorConfigMapNsConfig` (`SetNsConfig`) changes what every holder of
the pointer sees. A goroutine's `pc` is cut at each call of the API server and
between reads and writes of shared memory: `GetConfigMap` is the server's answer,
`Install` the assignments after it. `GetCurrent` and `Write` are the Get and the
Create or Update of `CreateOrUpdateSchedulerPolicyConfigMap`; a changed version
makes `Write` impossible and `WriteRefused` possible. `lone` and `acked` are
history: which additions were answered with OK and not touched since by any
request for the same entry. The configuration is asked for once per node in a
filter call, as in `Handler`.

**DiskMatch.** `PutOnDisk`, `NextDisk` and `Return` are the two branches of the loop
and its end; `disk` is history (which disk a volume was put on). **DiskWalk** is the same walk as a
fold, which is what `HostPathPV` can ask of the disks of a node; `LoopIsWalk` says that the loop and the
fold answer alike, so that what is shown of the loop holds of the predicate.

**HostPathPV.** A view has the pods, the mount annotations and the volumes with a
bound claim. Every operator is one function or branch of the predicates; the scores
and predicates share `Unrecorded`, the pods no annotation has placed yet. `SortedSizes` is what `sort.Sort`
leaves of a list of disks or requests: its sizes in ascending order, which is all the walk looks at.

**HostPathScheduling.** `cycle` is the one scheduling cycle of kube-scheduler, which
asks the extender for each node, disk pressure before affinity; `binding` the
asynchronous binds; `podFeed` and `pvFeed` the watch events that are not delivered;
`dirs` the directories on the disks. The plugin's actions are translated from the
vendored `csi-plugin`: which disk a new directory goes to, which kept directory is
reused, when the annotation follows (`Annotate`), what is cleaned up.
The constant `Promises` names what a run assumes of the cluster:

| Promise | Meaning |
|---|---|
| `bound` | a cycle starts when no bind is in flight |
| `placed` | ... and when every bound pod has its directories and every directory is annotated |
| `synced` | informers deliver at once |
| `known` | a cycle starts when the cache has every pod that was created |
| `lasting` | pods do not end |

The code enforces none of them: a run with a promise shows what holds when the
cluster is slow enough, and the runs without show what fails or still holds.

**Prioritize.** One call: `Fork` starts a goroutine, `List` takes the snapshot of the
volumes, `CountVolume` reads pods for one volume, `Lock` and `AppendError` are the
critical section, `Score` writes the slot of the node, `Leave` is `wg.Done`, `Wait`
the end of `wg.Wait` and the panic of the route when there are errors.

**Startup.** `proc[i].pc` is where the main goroutine of process `i` stands, cut where
`main` waits or where the goroutine of the policy server may end the process; `admin` is that
goroutine. The registration lists are constants (`predicateList`, `prioritizeList`),
filled by package initialisers before `main`; a plugin is what its `Init` asks of the
informer factory and what its `Ready` waits for. `asked`, `running` and `synced` are the
informers on their way. `Exit` gives the ports back and keeps the status, which is what
systemd (`Restart=on-failure`) and the kubelet tell apart. `Unit` is one process as a unit
file or a manifest describes it. `Patient` says whether a probe spares a process whose caches
are on their way.

*Seeded faults.* An operator under the comment "Seeded fault" (`SetNsConfigCopy`,
`GlobalHitForever`, `LockNot`, ...) is never used by a specification. It is a
variant of the definition below it with a plausible mistake; `PROJECT.json` says
which property each of them breaks.

## 3. Runs

All sizes are complete searches with two workers.

| Run | Instance | Distinct states | What it shows |
|---|---|---|---|
| `register` | 2 namespaces, 4 keys (a system, a plain, a malformed, an empty one), 1 value and the wildcard, 5 initial contents | 1,636 | An addition never opens a node, a request never moves another namespace. |
| `ns_serial` | 1 process, 1 goroutine, all seven requests, 3 edits, 1 restart, 2 nodes, 2 pods | 1,041,334 | Caches agree with the API server between requests, decisions are exact, a refresh spares matching pods, and the service implements the register. |
| `ns_paced` | 2 replicas, 3 edits, 1 write refused or its answer lost, filters at any time | 560,717 | No edit is lost when an edit waits until no other is served and no cache is fresh. |
| `ns_free` | 1 process, 2 goroutines, 2 edits, filters, 1 failed read or write, 1 restart at any step | 422,538 | Unrestricted overlap on the shared object: guarded namespaces stay off system nodes, and caches converge. |
| `ns_operator` | 1 process, 2 edits, refreshes, 1 hand edit (malformed, without Data, empty item), 1 relabelled node, 1 failed call of any kind but reads of the ConfigMap | 755,996 | Acknowledged additions stay, caches converge. |
| `ns_lost_update` | 2 replicas, one addition each | violation | See section 6. |
| `disk_match` | up to 4 volumes of size 1..4, up to 3 disks with 0..5 free, all ascending lists | 35,323 | A match is a placement, a refused volume fits nowhere, one and two volumes are answered exactly, the loop ends and agrees with the fold that `HostPathPV` uses. |
| `hp_settled` | 4 pods, 2 nodes, 3 tight disks, a kept and a shared kept volume; `bound`, `placed`, `synced` | 770,142 | One home, room for what is admitted, kept directories are returned to. |
| `hp_binds` | 2 pods, 2 nodes, a shared kept volume, no promise at all | 218,086 | Every pod that stays is bound in the end: no error or refusal from a stale cache lasts. |
| `hp_unrecorded` | 2 pods with different kept volumes, 2 nodes | violation | See section 6. |
| `prioritize` | 3 nodes (allocable 3, 10 and none), 3 pods, both functions, 3 contents of the caches, annotations that parse or not | 183,631 | Scores rank nodes as read, and when caches stand still by what every ready pod takes (above a node only if each volume used there has an entry, see section 6); no error is lost or answered; every call ends. |
| `startup` | 2 processes, 3 deployments (unit beside pod, two pods on one port, a unit for everything and a misspelt mode), every set of readable files, 1 trouble (death, seized port or outage) | 204,060 | What answers is ready, a named password file guards, modes do not disturb each other, extender and administrative server serve in the end. |

*Why the bounds are enough.* In `NsNodeSelector` every hazard needs at most two edits
and one event between two of their steps; `MaxEdits` is 2 or 3, `MaxFaults`,
`MaxHandEdits`, `MaxRestarts` and `MaxRelabels` are at most 1 (a restart in `ns_serial` and `ns_free`). They bound how often the
environment acts and never what a handler does. Two nodes (one ordinary, one with
the system label) suffice to tell selectors apart, and two nodes are judged in one
call. `Objects` has more members than there are pointers, so allocation never fails
(`NsAssumption`). In `HostPathScheduling` pods are born once, so behaviours are
finite up to stuttering; three or four pods are enough for a directory to be made,
kept, freed, reused and competed for. Sizes 1 to 3 are chosen so that sums reach the
room of a disk exactly. In `Startup` one trouble at a time (`MaxTrouble`) meets every point
of every start, because starts repeat; what is missing at first (files, API server) is
not counted. `MC_HpLate.cfg` is a further configuration that passes: 3 pods, a shared kept volume,
any lag, under `bound`, `known` and `lasting`, the instance of the theorem on `OneHome` (7,836 states).

*Deadlock* is checked except where the system may stop: when the bounded edits and
pods are used up (`ns_paced`, `ns_free`, the `hp_` runs), when the ConfigMap has no Data
map (`register`: every edit panics) when the loop has returned (`disk_match`),
and when every process serves and no trouble is left (`startup`).

*Fairness.* `NsNodeSelector`: a handler that runs goes on, because every call of the API
server returns, and the package cache times out because its age is compared with the
clock (weak fairness). No fairness for requests, faults, restarts or operators.
`HostPathScheduling`: the scheduler's queue retries every unscheduled pod, so `Pick` is
strongly fair (it is disabled while another cycle runs); binds, the steps of a cycle
and informer deliveries are weakly fair; the plugin gets none. `Prioritize`: the Go
runtime runs every goroutine; `Goroutine(n)` is strongly fair because the mutex is
disabled again and again while others hold it, and `sync.Mutex` does not starve a
waiter. `DiskMatch`: the loop runs.
`Startup`: the goroutines of a process run, a supervisor starts what it should start, an
outage ends, a seized port is given back and a missing file is put in place (weak
fairness each); none for deaths, seizures and the kills of a probe.

## 4. Proofs

Every theorem holds for all constants that satisfy the assumptions of its module.

**NsConfigProofs** (`NsConfigRegister`, from `SelectorAssumption`, `MarkerAssumption`
and `RegisterAssumption`):

* `TypeCorrect`: the stored configuration keeps its type; `EditStores` shows that an
  edit always writes a well-formed configuration, even from one that does not parse.
* `OthersUnmovedAlways`: the edit writes every item back, with defaults filled in.
  `Read` is what an item means; `DefaultType` (filling in twice is filling in once)
  and `SelectorOf` (what is accepted depends on `Read` only) give `OthersReadAlike`.
* `AddNarrowsAlways`: `AddKeepsTerms` shows that an addition keeps every term of the
  selector, because the key was absent (`EditAllowed`) and the default was already
  part of the base; a larger conjunction accepts less and parses less.

The type invariant is inductive, and the two action properties follow from it and
a lemma about one step.

**DiskWalkProofs** holds the lemmas that three of the modules below share: what the walk of `canRequestMatch`
does with any two lists, sums over finite sets and over lists, and sorted lists. The library sums take elements away in an order
of their own; `SumRemove` shows that the order does not matter. Its induction over finite sets is
`FiniteInduction`: a least set outside a given set of sets does not exist.

**DiskMatchProofs** (`DiskMatch`, from `DiskMatchAssumption`): `TypeCorrect`,
`RefusalJustified`, `OneVolume`, `TwoVolumes`, `MatchIsPlacement`, `LoopIsTheWalk`. `TypeOK` alone says nothing about why a
disk was passed, so the invariant `IInv` adds `Passed` (a disk that was passed is too small
for every volume still to place, which is where both lists being sorted matters),
`AtEnd` (where the loop stands when it returns), and `First`, `Second`, `Third`, which
follow the first placements exactly. For `MatchIsPlacement`, `PInv` adds `Balanced`: what the volumes on a disk
take and what the disk has left make up what it had. `LoopIsTheWalk` needs `InStep`: before each
volume the fold has left the same room as the loop and is no further on. The fold puts a volume in one step where the loop needs an iteration for every
disk it passes, and `Passed` says that these disks were too small.

**PrioritizeProofs** (`Prioritize`, from `PrioritizeAssumption` and `HostPathAssumption`),
for any number of nodes, five theorems. For `NoErrorAnswered` and `NoErrorLost` the invariant counts:
`Counted` (the WaitGroup is the number of goroutines at work), `Started` and `Joined` (all
are started before the wait and none works after it), `Reported` (each error met is in
the list as often as it was met, or its goroutine is about to append it), and
`Exclusive` (the goroutine that appends has read the list as it still is: the mutex).
`Exclusive` is what makes `Reported` inductive. `TypeCorrect` and `ReadingRanks` are about the scores: an answer is the
scaling of the percentages the goroutines have read, all of them, because `Wait` ends after the
last of them. The scaling keeps order because the quotient of integer division does (`Quotient`, `QuotientMonotone`,
from the definition of `\div` by its remainder), and stays within 0..10 because the largest count, which exists
in a finite set (`FiniteMax`), is the divisor. `TrulyRanks` adds `Exact`: when the caches have not moved since the
call began, the tally of a goroutine without an error is the sum over the volumes it has counted. The property itself does not count as
the code does: `TakenOn` gives every ready pod its directory, named or not. `TakenSum` shows that the tally never exceeds it and reaches it on a node
that is `Known` (each volume used there has an entry), and `NotFullerCounted` that an undercount only makes a node look emptier.
So only the node that is ranked below has to be known; without that premise the property is false (`MC_PrioritizeUnrecorded.cfg`).
`TypeOK` includes `JobOK`, what a goroutine holds at each place: in `append` the mutex and the present list of errors, in `count` only volumes with an entry.
`PrioritizeAssumption` asks that a view has finitely many bound volumes and that an annotation of a volume lists directories of
that volume: an annotation is part of its volume.

**NsNodeSelectorProofs** (`NsNodeSelector`, from `NsAssumption` and the assumptions of
`NsSelector`), for any number of processes, goroutines, requests, restarts and failures:

* `TypeCorrect`: `TypeOK` includes `Holds`, what a handler has in hand at each place: a
  pointer between the read of the configuration and the write, an answer before it is
  acknowledged; so no handler follows a nil pointer. `ImageIsSmall` counts the pointers, so that `Install` always finds an unused object.
* `SystemNodesGuardedAlways`, under `SystemShut`: the namespaces can be listed (without that it
  is false, `MC_NsGuard.cfg`), and what is stored at first or written by hand does not open
  the namespaces that are asked for. Content is `Shut` when a guarded namespace has no NotMatch map
  in it, where the default applies, or one that still holds the system label with the wildcard. `IInv` says
  that the stored content, every object and every content a handler holds is shut, and that what a
  filter has accepted so far is without the label. `EditKeepsShut` and `ReadShuts` show that no permitted edit and
  no filling in of defaults opens one.

The other theorems on this module need a premise on who writes, because without one they are false
(`ns_lost_update` is the counterexample).

*One request at a time* (`OneAtATime`: one process, `Pacing = "serial"`, no hand edits, no failing call of
the ConfigMap; restarts, failed lists and deletions may happen), for any number of goroutines and edits:

* `CacheCoherentAlways`, `AckedStoredAlways`, `DecisionsExactAlways`. The invariant `CInv` says that at most one
  handler is served (`OneServed`), that a fresh cache points to an object (`Points`),
  that its content is what is stored whenever no handler holds an edited one (`Settled`), and for the handler that is served how
  far object, cache and store have come apart (`Fit`): the edit is in the object before it is stored.
* `ServiceImplementsRegister`, while the namespaces can be listed: a refinement mapping to the atomic register.
  `RInv` adds to `CInv` that what a handler is about to write is the stored content with one permitted
  edit (`Based`); the successful `Write` is then the step of the register, every other step a stutter.
  The copies of the data operators that INSTANCE makes are shown equal in `SameData`.
* `RefreshSparesMatchingAlways`, when no node is relabelled (`NewLabels = {}`: the refresh reads the nodes first, and a label
  that changes between that read and a deletion makes the property false). `FInv` adds `Spares`: the nodes a refresh has
  selected are those the stored configuration accepts, and what it is about to delete is on none of them.

*Paced replicas* (`EditsArePaced`: any number of processes and overlapping handlers, an edit is sent when none is served and
no cache is fresh; no hand edits, no failing read of the ConfigMap, every other failure and restarts):

* `AckedStoredPaced`. `PInv` says that one edit is under way at most (`OneEdit`), that until it writes into the shared object whatever
  is read, by whom ever, is what is stored (`FreshRead`), and that the content it carries holds everything acknowledged
  and its own entry (`Carries`). Other handlers go on reading the edited object, which is why nothing is said of them.
* `ReplicasImplementRegister`, while the namespaces can be listed: `QInv` is `PInv` and `Based`, and the refinement mapping
  is that of one process. The premises are those of the run `ns_paced`.

*Operators* (`OneServer`: one process, one request at a time; any hand edits, refused writes, lost answers, restarts, failed lists):

* `AckedStoredServed`. Here a cache may hold an edit that was never stored, or miss what was written by hand, and the next edit still starts
  from it. `WInv` does not ask caches to agree with the store, only that whatever an edit may start from holds everything acknowledged
  (`CachesSafe`, `Warrants`): an edit that was overtaken by hand writes over the operator's content, but is not acknowledged as
  alone. It implies `AckedStoredAlways`, and its premises are those of `ns_operator`.

**HostPathProofs** (`HostPathScheduling`, from its assumptions), for any pods, nodes, disks and lag:

* `TypeCorrect`: `TypeOK` is `Caching` (the API server, the caches and every event on its way), `Cycling` (what a cycle has found so far)
  and the type of `dirs`; `Feeds` restates `Caching` in the form the proofs use.
* `OneHomeAlways`, under `Promised` (`bound`, `known`, `lasting`). `Home` says: a cache never says more of a pod than is so
  (`Lasting`), a directory or annotation is where a user of the volume is (`Inhabited`), the pods of a shared kept volume
  aim at one node (`OneAim`), and a node that was found fit is the one they are on (`Kept`): the direct read of
  pods the cache shows without a node is what makes a late cache harmless.

In a settled cluster (`Settled`: the promises `bound`, `placed` and `synced` of the run `hp_settled`), with pods that end:

* `KeptReturn` and `OneHomeSettled`. The invariant says that caches are up to date (`UpToDate`), that a pod is bound once and never
  during a cycle (`Once`), how directories, their owners and the pods on the node belong together (`Owners`, `Distinct`), that an annotation names what is there
  (`Entered`), and that what a cycle waited for stays so while it runs (`Standing`). Then the two numbers that `IsHostPathPVHasEmptyItemForNode`
  compares count the same pods, and it says so exactly when a directory is free.
* `RoomForAdmitted`, when also `Plain` holds: a pod has one volume at most, volumes are kept and have a size, no disk is disabled,
  and no disk's path begins that of another. It relates two computations over different data: the predicate subtracts the capacities that the annotations
  charge to a disk and walks the sorted rest; the plugin sums the directories that are on a disk and looks for room. `JudgeAdmits` shows that a walk
  that matches one volume has met a disk with room for it; `FreeIsRoom`, that what the predicate takes for free is room. The inductive part is
  `Fitting`: of the pods that are on their way to a node without a directory there (`Risks`) there is one at a time, its node still holds what it needs, and
  all directories are annotated. Each part of `Plain` is needed, or TLC finds `AdmittedFits`
  violated: `MC_HpPair.cfg` (two volumes), `MC_HpDisabled.cfg`, `MC_HpAlias.cfg`; an unkept volume gets a new directory although the predicate
  sees an old one.

**StartupProofs** (`Startup`, from `StartupAssumption`), for any number of processes, ports and deployments:
`TypeCorrect`, `HealthTellsTruthAlways`, `AdminGuardedAlways`, `ModesIsolateAlways`. The invariant follows the main
goroutine: what has been asked, started and awaited at each label, and that in mode `scheduleronly` no administrative server is under way.

Only model-checked: liveness, which is beyond the prover under fairness (`Converges`, `EveryPodBinds`, `Answers`,
`ExtenderServes`, `AdminServes`, and `Terminates`, the end of the loop). Every other property of a passing run is stated by a theorem,
under the premises above. These are facts of the instances, too: `SystemShut` holds in `ns_free`, `ns_paced` and `ns_serial`,
`OneAtATime` and `NewLabels = {}` in `ns_serial`, `EditsArePaced` in `ns_paced`, `OneServer` in `ns_operator`, `Settled` and `Plain` in `hp_settled`,
`Promised` in `MC_HpLate.cfg`. RECURSIVE operators are not used.

## 5. What is not modelled, and why

* Bound volumes that are no hostpath volumes in the predicates (both skip them; the
  spread score does not, see below); in-line CSI sources; PV annotations
  that do not parse; the scale of a capacity.
* `nodelabels`, which lists nodes and changes nothing; the text of answers.
* The comparison of a login with the password list, the TLS handshake and the text of
  the version and health answers: no state that changes.
* systemd's limit on the rate of restarts, image and build files. `metric-address` is
  parsed and never used; the Chinese README names a flag `--nodeselector-server-only` that
  the program does not have.
* The plugin's quota enforcement, mounts and quota files; failed binds and the
  kube-scheduler's own preemption. The scores only order nodes in
  `HostPathScheduling`: any node that is left may be chosen.
* The Data map of a shared ConfigMap object is a Go map that `SetNsNodeSelectorConfigMapNsConfig` writes without a lock
  (`namespaces_nodeselector_httpserver.go:51`) while another handler may read or marshal it. When the Go runtime notices, it
  ends the process. That end has no action of its own: for the state it is a `Restart`, which `ns_free` (two goroutines) allows
  once, at every step.
* Two writes that are one step. `Install` assigns the pointer and the update time of the package cache together
  (`namespaces_nodeselector.go:61-62`), and the cache of the `SchedulerConfig` is set and read again in one step
  (`namespaces_nodeselector_httpserver.go:131-135`). A handler between the two writes of another could see the new pointer with the old time, or return
  the pointer that another has just installed.
* `Write` is the encoding of the object and the commit at the API server in one step. A process that dies before it has not
  written; an Update that is sent, outlives its process and lands later is left out.
* Failed reads of the ConfigMap in a run about stored edits: a failed Get is served
  as an empty configuration, and an edit based on it erases every item.

## 6. Where the code and its documents disagree

Two runs show a disagreement and are listed as findings:

* `ns_lost_update`: `CreateOrUpdateSchedulerPolicyConfigMap` reads the ConfigMap for its
  version only and replaces the whole Data by one derived from an earlier read. An
  addition that was answered with OK is erased by the next one of another replica.
* `hp_unrecorded`: pods whose directory is not yet annotated are only counted for
  volumes that already have an entry for the node, so two pods in quick succession are
  admitted to the same room. `hostpathpvdiskuse` counts the same way: a node with such a pod ranks above an emptier one
  (`MC_PrioritizeUnrecorded.cfg`).

Further configurations are kept beside the runs; each reproduces one behaviour with
`tlc -config <cfg> <module>` and ends in a counterexample. Some hazards in `PROJECT.json` are shown here only: the runs
exclude them by a promise or a premise, and no property of a run is credited with them.

| Configuration | Property | What the code does |
|---|---|---|
| `MC_NsGuard.cfg` | `SystemNodesGuarded` | A failure to list namespaces is ignored; an added NotMatch key then replaces the default that keeps a namespace off system nodes. |
| `MC_NsRefresh.cfg` | `RefreshKeepsSoftMismatch` | A refresh deletes pods that only fail Match or NotMatch, which the type comments exclude. |
| `MC_DiskMatchEnough.cfg` | `EnoughIsMatch` | Volumes 1, 2, 2 are refused by disks with 2 and 3 free. |
| `MC_HpDisabled.cfg` | `AdmittedFits` | Disabled disks count as room. |
| `MC_HpPair.cfg` | `AdmittedFits` | The plugin fills disks in another order than the predicate. |
| `MC_HpAlias.cfg` | `AdmittedFits` | A directory is charged to the first disk whose path is a string prefix of its own. |
| `MC_HpSplit.cfg` | `OneHome` | A shared kept volume gets a second home when its pod ends before the directory is annotated. |
| `MC_HpTorn.cfg` | `EveryPodBinds` | A pod of two kept volumes whose data lies on different nodes is refused for ever. |
| `MC_StartupExit.cfg` | `UnitComesBack` | A port that is taken makes main return with status 0, and systemd does not start the unit again. |
| `MC_StartupDark.cfg` | `AdminRuns` | A password file that cannot be read keeps the administrative server away; in mode backendonly the process then waits for ever. |
| `MC_StartupPort.cfg` | `ExtenderUndisturbed` | An administrative port that is taken ends the whole process, the extender with it. |
| `MC_StartupProbe.cfg` | `ExtenderServes` | A liveness probe without a delay kills a process whose caches are slow to fill, again and again. |
| `MC_PrioritizeUnrecorded.cfg` | `EveryPodCounts` | A pod of a volume that has no entry for its node is not counted: the node ranks above an emptier one. |
| `MC_PrioritizeOther.cfg` | `SpreadSkipsOther` | Bound volumes that are no hostpath volumes count in the spread score. |

## 7. Plan

Done: all modules of section 2, most important behaviour first (namespace
configuration, disk matching, hostpath scheduling, scores, start-up), and the theorems
of section 4, which cover every safety and action property of the runs. What would come next:

1. `RoomForAdmitted` for pods of several volumes on disks of one size, where the orders of predicate and plugin agree.
2. `CacheCoherent` and `DecisionsExact` for paced replicas, in the form they hold there: a cache is at most one edit behind.
3. `AckedStored` for paced replicas with hand edits.
