----------------------------- MODULE Prioritize -----------------------------
(***************************************************************************)
(* One call of a priority function, hostpathpvdiskuse or hostpathpvspread: *)
(* a goroutine per node reads the informer caches and writes its slot of   *)
(* the score list, errors are collected under a mutex, the handler waits   *)
(* for all of them, scales the scores to 0..10 and answers; with an error  *)
(* it panics and the connection is closed.  The two functions share        *)
(* nothing but the caches, so their calls are modelled one after another.  *)
(***************************************************************************)
EXTENDS HostPathPV

CONSTANTS
  Kinds,      \* the priority functions that are called
  Other,      \* the volumes that are no hostpath volumes
  BrokenSets, \* the nodes whose disk annotation does not parse, in one call
  Views       \* what the caches may hold

ASSUME PrioritizeAssumption ==
  /\ Kinds \subseteq {"diskuse", "spread"}
  /\ Other \subseteq Volumes /\ BrokenSets \subseteq SUBSET Nodes
  /\ IsFiniteSet(Nodes) /\ Nodes # {} /\ IsFiniteSet(Pods)
  /\ \A v \in Views :
       /\ v = [pods |-> v.pods, mounts |-> v.mounts, bound |-> v.bound]
       /\ v.bound \subseteq Volumes /\ IsFiniteSet(v.bound)
       /\ \A pv \in Volumes, n \in Nodes : HasEntry(v, pv, n) =>
            /\ IsFiniteSet(v.mounts[pv][n])
            /\ \A dir \in v.mounts[pv][n] : dir.volume = pv

VARIABLES
  view,   \* the caches
  moved,  \* whether they have changed during this call
  kind,   \* the function called
  pod,    \* the pod to score nodes for
  broken, \* the nodes of the call whose disk annotation does not parse
  pc,     \* the handler: idle, fork, wait, max, scale, sent or aborted
  wg,     \* the WaitGroup's counter
  mu,     \* the goroutine that holds the mutex
  errs,   \* the errors collected
  list,   \* the score list
  top,    \* the largest score of the list
  job     \* the goroutine of each node

handler == <<kind, pod, broken, pc, top>>
vars == <<view, moved, kind, pod, broken, pc, wg, mu, errs, list, top, job>>

\* snap: the volumes a goroutine has listed; tally: what it has counted;
\* copy: the errors it has read; failures: the errors it has met.
NoJob == [pc |-> "none", snap |-> NoNode, left |-> {}, tally |-> 0, copy |-> <<>>, failures |-> 0]

Init ==
  /\ view \in Views /\ moved = FALSE
  /\ kind \in Kinds /\ pod \in Pods /\ broken \in BrokenSets
  /\ pc = "idle" /\ wg = 0 /\ mu = NoNode /\ errs = <<>> /\ top = 0
  /\ list = [n \in Nodes |-> 0]
  /\ job = [n \in Nodes |-> NoJob]

\* Informer events, in an order and number that do not matter to a call.
CachesMove ==
  /\ \E v \in Views \ {view} : view' = v
  /\ moved' = TRUE
  /\ UNCHANGED <<handler, wg, mu, errs, list, job>>

---------------------------------------------------------------------------
(* The handler, up to the wait. *)

Begin(k, p, unread) ==
  /\ pc \in {"idle", "sent", "aborted"}
  /\ kind' = k /\ pod' = p /\ broken' = unread /\ pc' = "fork"
  /\ moved' = FALSE /\ wg' = 0 /\ errs' = <<>> /\ top' = 0
  /\ list' = [n \in Nodes |-> 0]
  /\ job' = [n \in Nodes |-> NoJob]
  /\ UNCHANGED <<view, mu>>

Fork(n) ==
  /\ pc = "fork" /\ job[n].pc = "none"
  /\ wg' = wg + 1
  /\ job' = [job EXCEPT ![n].pc = "list"]
  /\ pc' = IF \E m \in Nodes \ {n} : job[m].pc = "none" THEN "fork" ELSE "wait"
  /\ UNCHANGED <<view, moved, kind, pod, broken, mu, errs, list, top>>

---------------------------------------------------------------------------
(* mapScoringNode. *)

\* hostpathpvdiskuse lists the volumes once; hostpathpvspread looks up the
\* volumes of the pod one by one.
List(n) ==
  /\ job[n].pc = "list"
  /\ job' = [job EXCEPT ![n] =
       CASE kind = "diskuse" /\ n \in broken -> [@ EXCEPT !.pc = "lock", !.failures = 1]
         [] kind = "diskuse" /\ n \notin broken ->
              [@ EXCEPT !.pc = "count", !.snap = view.mounts,
                        !.left = {pv \in view.bound \ Other : HasEntry(view, pv, n)}]
         [] kind = "spread" -> [@ EXCEPT !.pc = "count", !.left = Range(VolumesOf[pod])]]
  /\ UNCHANGED <<view, moved, handler, wg, mu, errs, list>>

\* What volume pv takes on node n: the volumes were listed before, the pods
\* are looked up now.
QuotaRecorded(n, pv) == Cardinality(job[n].snap[pv][n]) * Capacity[pv]  \* seeded fault

Quota(n, pv) ==
  LET v == [view EXCEPT !.mounts = job[n].snap]
  IN  (Cardinality(v.mounts[pv][n]) + Unrecorded(v, pv, n)) * Capacity[pv]

\* How many pods use pv on n; a shared volume counts once.
Users(n, pv) ==
  LET users == Cardinality(ReadyUsersOn(view, pv, n))
  IN  IF pv \in Shared /\ users > 1 THEN 1 ELSE users

CountVolume(n, pv) ==
  /\ job[n].pc = "count" /\ pv \in job[n].left
  /\ \/ /\ kind = "diskuse"
        /\ job' = [job EXCEPT ![n].left = @ \ {pv}, ![n].tally = @ + Quota(n, pv)]
     \/ /\ kind = "spread" /\ pv \in view.bound
        /\ job' = [job EXCEPT ![n].left = @ \ {pv}, ![n].tally = @ + Users(n, pv)]
     \/ /\ kind = "spread" /\ pv \notin view.bound
        /\ job' = [job EXCEPT ![n].left = @ \ {pv}, ![n].pc = "lock", ![n].failures = @ + 1]
  /\ UNCHANGED <<view, moved, handler, wg, mu, errs, list>>

\* Seeded fault: the mutex is not taken.
LockNot(n) ==
  /\ job[n].pc = "lock"
  /\ job' = [job EXCEPT ![n].pc = "append", ![n].copy = errs]
  /\ UNCHANGED <<view, moved, handler, wg, mu, errs, list>>

Lock(n) ==
  /\ job[n].pc = "lock" /\ mu = NoNode
  /\ mu' = n
  /\ job' = [job EXCEPT ![n].pc = "append", ![n].copy = errs]
  /\ UNCHANGED <<view, moved, handler, wg, errs, list>>

AppendError(n) ==
  /\ job[n].pc = "append"
  /\ errs' = Append(job[n].copy, n)
  /\ mu' = NoNode
  /\ job' = [job EXCEPT ![n].pc = "count", ![n].copy = <<>>]
  /\ UNCHANGED <<view, moved, handler, wg, list>>

Allocable(n) == FoldLeft(LAMBDA sum, disk : sum + disk.allocable, 0, DisksOf[n])

\* The part of the node's room that is free, in percent.
FreePercent(n, quota) ==
  LET allocable == IF n \in broken THEN 0 ELSE Allocable(n)
  IN  IF allocable <= quota THEN 0 ELSE (100 * (allocable - quota)) \div allocable

RawScore(n) == IF kind = "diskuse" THEN FreePercent(n, job[n].tally) ELSE job[n].tally

\* Seeded fault: the WaitGroup is told before the slot is written.
ScoreLate(n) ==
  \/ /\ job[n].pc = "count" /\ job[n].left = {}
     /\ wg' = wg - 1
     /\ job' = [job EXCEPT ![n].pc = "late"]
     /\ UNCHANGED <<view, moved, handler, mu, errs, list>>
  \/ /\ job[n].pc = "late"
     /\ list' = [list EXCEPT ![n] = RawScore(n)]
     /\ job' = [job EXCEPT ![n].pc = "done"]
     /\ UNCHANGED <<view, moved, handler, wg, mu, errs>>

Score(n) ==
  /\ job[n].pc = "count" /\ job[n].left = {}
  /\ list' = [list EXCEPT ![n] = RawScore(n)]
  /\ job' = [job EXCEPT ![n].pc = "leave"]
  /\ UNCHANGED <<view, moved, handler, wg, mu, errs>>

\* Seeded fault: a goroutine that met an error does not tell the WaitGroup.
LeaveWhenGood(n) ==
  /\ job[n].pc = "leave" /\ job[n].failures = 0
  /\ wg' = wg - 1
  /\ job' = [job EXCEPT ![n].pc = "done"]
  /\ UNCHANGED <<view, moved, handler, mu, errs, list>>

Leave(n) ==
  /\ job[n].pc = "leave"
  /\ wg' = wg - 1
  /\ job' = [job EXCEPT ![n].pc = "done"]
  /\ UNCHANGED <<view, moved, handler, mu, errs, list>>

---------------------------------------------------------------------------
(* The handler, after the wait. *)

\* Seeded fault: an error is logged and the scores are sent.
WaitAnyway ==
  /\ pc = "wait" /\ wg = 0
  /\ pc' = "max"
  /\ UNCHANGED <<view, moved, kind, pod, broken, wg, mu, errs, list, top, job>>

\* With an error the route panics.
Wait ==
  /\ pc = "wait" /\ wg = 0
  /\ pc' = IF errs = <<>> THEN "max" ELSE "aborted"
  /\ UNCHANGED <<view, moved, kind, pod, broken, wg, mu, errs, list, top, job>>

FindMax ==
  /\ pc = "max"
  /\ top' = Max({0} \cup {list[n] : n \in Nodes})
  /\ pc' = "scale"
  /\ UNCHANGED <<view, moved, kind, pod, broken, wg, mu, errs, list, job>>

Tenths(part) == (10 * part) \div top

Scaled(n) ==
  CASE kind = "diskuse" /\ top > 0 -> Tenths(list[n])
    [] kind = "diskuse" /\ top = 0 -> 0
    [] kind = "spread" /\ top > 0 -> Tenths(top - list[n])
    [] kind = "spread" /\ top = 0 -> 10

Scale ==
  /\ pc = "scale"
  /\ list' = [n \in Nodes |-> Scaled(n)]
  /\ pc' = "sent"
  /\ UNCHANGED <<view, moved, kind, pod, broken, wg, mu, errs, top, job>>

Goroutine(n) ==
  \/ List(n) \/ (\E pv \in Volumes : CountVolume(n, pv))
  \/ Lock(n) \/ AppendError(n) \/ Score(n) \/ Leave(n)
Handle == (\E n \in Nodes : Fork(n)) \/ Wait \/ FindMax \/ Scale

Next ==
  \/ CachesMove
  \/ \E k \in Kinds, p \in Pods, unread \in BrokenSets : Begin(k, p, unread)
  \/ Handle
  \/ \E n \in Nodes : Goroutine(n)

Spec == Init /\ [][Next]_vars

\* The Go scheduler runs the handler and every goroutine; the mutex is handed
\* on because its holder only appends.
Fairness == WF_vars(Handle) /\ \A n \in Nodes : SF_vars(Goroutine(n))
FairSpec == Spec /\ Fairness

---------------------------------------------------------------------------
\* What a goroutine holds where it is: no error before it has looked, the
\* mutex and the present list of errors while it appends, and to count only
\* volumes with an entry for its node in the list it has read.
JobOK(n) ==
  /\ job[n].pc \in {"none", "list", "count", "lock", "append", "leave", "done"}
  /\ job[n].left \subseteq Volumes /\ job[n].tally \in Nat /\ job[n].failures \in Nat
  /\ job[n].pc \in {"none", "list"} => job[n].failures = 0
  /\ job[n].pc = "append" => mu = n /\ job[n].copy = errs
  /\ kind = "diskuse" /\ job[n].left # {} =>
       \E w \in Views : job[n].snap = w.mounts /\ \A pv \in job[n].left : HasEntry(w, pv, n)

\* The types of the state, with what each goroutine holds where it is; the
\* WaitGroup counts those that work, and a score that is sent is one of 0..10.
TypeOK ==
  /\ view \in Views /\ moved \in BOOLEAN /\ kind \in Kinds /\ pod \in Pods
  /\ broken \in BrokenSets
  /\ pc \in {"idle", "fork", "wait", "max", "scale", "sent", "aborted"}
  /\ \A n \in Nodes : JobOK(n)
  /\ wg = Cardinality({n \in Nodes : job[n].pc \notin {"none", "done"}})
  /\ mu \in Nodes \cup {NoNode} /\ errs \in Seq(Nodes)
  /\ list \in [Nodes -> IF pc = "sent" THEN 0..10 ELSE Nat]

\* Scores are only sent when every goroutine has come to its end without an
\* error: no node gets the 0 of a failed look-up, and none the 0 of a slot
\* nobody has written (hostpathpv_diskuse.go:118-125).
AnswerWhole ==
  pc \in {"max", "scale", "sent"} => \A n \in Nodes : job[n].pc = "done" /\ job[n].failures = 0

\* No error is lost between goroutines that fail at once: those the aggregate
\* reports are those that happened (hostpathpv_diskuse.go:112-116).
ErrorsKept ==
  pc = "aborted" =>
    \A n \in Nodes : Cardinality({i \in DOMAIN errs : errs[i] = n}) = job[n].failures

\* The free share of node a, given what is used on both, is at least that of
\* b; a node without quota disks has nothing free.
NotFuller(a, quotaA, b, quotaB) ==
  LET free(n, quota) == IF quota > Allocable(n) THEN 0 ELSE Allocable(n) - quota
  IN  \/ free(b, quotaB) = 0
      \/ Allocable(a) > 0 /\ free(a, quotaA) * Allocable(b) >= free(b, quotaB) * Allocable(a)

\* The scores rank the nodes as the goroutines' readings do, whatever happens
\* to the caches meanwhile (hostpathpv_diskuse.go:83-103 and
\* hostpathpv_spread.go:87-107).
RankedByReading ==
  pc = "sent" => \A a, b \in Nodes :
    (IF kind = "diskuse" THEN NotFuller(a, job[a].tally, b, job[b].tally)
                         ELSE job[a].tally <= job[b].tally)
      => list[a] >= list[b]

\* The directories the ready pods on n need for volume pv: one for each, or
\* one for all if it is shared; and those its annotation names there.
Needed(n, pv) ==
  IF pv \in Shared THEN IF ReadyUsersOn(view, pv, n) = {} THEN 0 ELSE 1
                   ELSE Cardinality(ReadyUsersOn(view, pv, n))
Recorded(n, pv) == IF HasEntry(view, pv, n) THEN Cardinality(view.mounts[pv][n]) ELSE 0

\* The room taken on n: every ready pod has its directory, named or not.
TakenOn(n) ==
  MapThenSumSet(LAMBDA pv : Max({Recorded(n, pv), Needed(n, pv)}) * Capacity[pv], view.bound)

UsersOn(n) == MapThenSumSet(LAMBDA pv : Needed(n, pv), Range(VolumesOf[pod]))

\* Each volume that ready pods use on n has an entry for n in its annotation.
Known(n) == \A pv \in view.bound : ReadyUsersOn(view, pv, n) # {} => HasEntry(view, pv, n)

\* While the caches stand still, a node with at least the free share of
\* another is never ranked below it, pods whose directory no annotation names
\* yet included (README-zh.md:114), nor a node with fewer pods of the same
\* volumes below one with more (README-zh.md:118).  The fuller node must be
\* known: where a volume has no entry for the node the code counts none of
\* its pods (hostpathpv.go:189), and the node passes for emptier than it is.
\* Nothing is asked of the emptier one, which such pods only make look better.
RankedTruly ==
  pc = "sent" /\ ~moved /\ Other = {} => \A a, b \in Nodes :
    (IF kind = "diskuse" THEN Known(b) /\ NotFuller(a, TakenOn(a), b, TakenOn(b))
                         ELSE UsersOn(a) <= UsersOn(b))
      => list[a] >= list[b]

\* The same of every two nodes, as README-zh.md:114 words it: the first pod of
\* a volume on a node is not counted until the annotation has its entry, so a
\* fuller node can be ranked above an emptier one.
EveryPodCounts ==
  pc = "sent" /\ ~moved /\ Other = {} /\ kind = "diskuse" => \A a, b \in Nodes :
    NotFuller(a, TakenOn(a), b, TakenOn(b)) => list[a] >= list[b]

\* Volumes that are no hostpath volumes do not tell the nodes apart: the
\* comment at hostpathpv_spread.go:65 skips them.
SpreadSkipsOther ==
  pc = "sent" /\ kind = "spread" /\ Range(VolumesOf[pod]) \subseteq Other =>
    \A a, b \in Nodes : list[a] = list[b]

\* Every call comes to an answer or a closed connection.
Answers == pc = "fork" ~> pc \in {"sent", "aborted"}
=============================================================================
