--------------------------- MODULE NsNodeSelector ---------------------------
(***************************************************************************)
(* The namespace node selector at work: the processes that answer the      *)
(* scheduler's filter calls and the administrator's requests, their two    *)
(* caches of the ConfigMap, the ConfigMap in the API server, and the pods  *)
(* a refresh deletes.                                                      *)
(*                                                                         *)
(* A cache holds a pointer: handlers of one process share the object, and  *)
(* an edit writes into it before the API server has accepted the edit.     *)
(* heap maps each object to the content of its Data map.  A handler is a   *)
(* goroutine; its steps are cut where it calls the API server and between  *)
(* its reads and writes of shared memory.                                  *)
(***************************************************************************)
EXTENDS NsSelector

CONSTANTS
  Procs,        \* processes: replicas of the extender or of the server
  Threads,      \* handler goroutines
  ProcOf,       \* the process a goroutine runs in
  Serves,       \* the requests a goroutine may receive
  Objects,      \* ConfigMap objects in memory
  Nil,          \* the nil pointer
  Nodes, Pods,
  PodNs,        \* the namespace of a pod
  Listed,       \* what GetNamespaces returns when it succeeds
  InitStores,   \* initial contents of the API server's ConfigMap
  InitLabels,   \* initial labels of the nodes
  InitPlaces,   \* initial places of the pods
  HandEdits,    \* contents an operator may write past the service
  NewLabels,    \* labels a node may be given later
  Faults,       \* API calls that may fail: see Fails
  Pacing,       \* "free", "serial" or "paced": see MayBegin
  MaxEdits, MaxFaults, MaxHandEdits, MaxRestarts, MaxRelabels   \* bounds

Pending == "pending"   \* a pod with no node
Gone == "gone"         \* a deleted pod

Kinds == EditKinds \cup {"filter", "get", "check", "refresh"}
Request == [kind : Kinds, ns : Namespaces, type : MatchTypes, key : Keys,
            vals : SUBSET Values, pod : Pods \cup {Nil}]

ASSUME NsAssumption ==
  /\ ProcOf \in [Threads -> Procs]
  /\ Serves \in [Threads -> SUBSET Request]
  /\ Nil \notin Objects \cup Pods
  /\ IsFiniteSet(Objects) /\ IsFiniteSet(Procs) /\ IsFiniteSet(Threads)
  /\ Namespaces # {}
  /\ Cardinality(Objects) > 2 * Cardinality(Procs) + Cardinality(Threads)
  /\ PodNs \in [Pods -> Namespaces]
  /\ Nodes \cap {Pending, Gone} = {}
  /\ Listed \subseteq Namespaces
  /\ InitStores \subseteq CMData \cup {Nil}
  /\ HandEdits \subseteq CMData
  /\ NewLabels \subseteq NodeLabels
  /\ InitLabels \subseteq [Nodes -> NodeLabels]
  /\ InitPlaces \subseteq [Pods -> Nodes \cup {Pending}]
  /\ Faults \subseteq {"read", "list", "write", "lost", "delete"}
  /\ Pacing \in {"free", "serial", "paced"}
  /\ {MaxEdits, MaxFaults, MaxHandEdits, MaxRestarts, MaxRelabels} \subseteq Nat
  /\ Nil \notin CMData

VARIABLES
  store,        \* the ConfigMap's Data in the API server; Nil: no such object
  version,      \* its resourceVersion
  heap,         \* the Data of each object in memory
  globalCM,     \* nsNodeSelectorConfigMap, per process
  globalFresh,  \* whether nsNodeSelectorConfigMapUpdateTime is recent enough
  selectorCM,   \* SchedulerConfig.nsNodeSelectorConfigMap, per process
  selectorFresh,\* whether its update time is within configMapTimeOut
  h,            \* the handler of each goroutine
  nodeLabels,   \* the labels of the nodes
  place,        \* where each pod is
  acked,        \* acknowledged additions no other request has touched since
  spent         \* how much of each bound is used

caches == <<globalCM, globalFresh, selectorCM, selectorFresh>>
cluster == <<nodeLabels, place>>
api == <<store, version>>
vars == <<store, version, heap, globalCM, globalFresh, selectorCM, selectorFresh,
          h, nodeLabels, place, acked, spent>>

NoRequest == [kind |-> "filter", ns |-> CHOOSE n \in Namespaces : TRUE, type |-> "match",
              key |-> SysKey, vals |-> {}, pod |-> Nil]

Idle == [pc |-> "idle", req |-> NoRequest, cm |-> Nil, resp |-> Nil, cfg |-> BadJson,
         rv |-> 0, labels |-> <<>>, todo |-> {}, ok |-> {}, lone |-> TRUE]

IsEdit(t) == h[t].req.kind \in EditKinds
At(t, label) == h[t].pc = label
Goto(t, label) == h' = [h EXCEPT ![t].pc = label]
Finish(t) == h' = [h EXCEPT ![t] = Idle]

Spend(what) == spent' = [spent EXCEPT ![what] = @ + 1]
Fails(call) == call \in Faults /\ spent["fault"] < MaxFaults /\ Spend("fault")

StoredData == IF store = Nil THEN EmptyConfig ELSE store

InUse == { globalCM[p] : p \in Procs } \cup { selectorCM[p] : p \in Procs }
           \cup { h[t].cm : t \in Threads }
NewObject == CHOOSE o \in Objects : o \notin InUse

\* A new object with this content; the objects nothing points to are forgotten.
Allocate(data) ==
  heap' = [o \in Objects |-> IF o = NewObject THEN data
                             ELSE IF o \in InUse THEN heap[o] ELSE EmptyConfig]

Init ==
  /\ store \in InitStores
  /\ version = 0
  /\ heap = [o \in Objects |-> EmptyConfig]
  /\ globalCM = [p \in Procs |-> Nil]
  /\ globalFresh = [p \in Procs |-> FALSE]
  /\ selectorCM = [p \in Procs |-> Nil]
  /\ selectorFresh = [p \in Procs |-> FALSE]
  /\ h = [t \in Threads |-> Idle]
  /\ nodeLabels \in InitLabels
  /\ place \in InitPlaces
  /\ acked = {}
  /\ spent = [what \in {"edit", "fault", "hand", "restart", "relabel"} |-> 0]

-----------------------------------------------------------------------------
(* A request arrives.  "free": handlers overlap as they please.  "serial": *)
(* a request is sent when no other is being served.  "paced": only edits   *)
(* wait, until none is being served and no cache of the ConfigMap is fresh. *)
AllIdle == \A t \in Threads : At(t, "idle")

MayBegin(r) ==
  /\ Pacing = "serial" => AllIdle
  /\ Pacing = "paced" /\ r.kind \in EditKinds => AllIdle /\ \A p \in Procs : ~globalFresh[p]

SameEntry(a, b) == a.ns = b.ns /\ a.type = b.type /\ a.key = b.key
Touches(t, r) == ~At(t, "idle") /\ IsEdit(t) /\ SameEntry(h[t].req, r)
Alone(r) == ~\E t \in Threads : Touches(t, r)

\* The handlers once t serves this edit: none that touches its entry is alone.
WithEdit(t, r) ==
  [u \in Threads |->
     IF u = t THEN [Idle EXCEPT !.pc = "config", !.req = r, !.lone = Alone(r)]
     ELSE IF Touches(u, r) THEN [h[u] EXCEPT !.lone = FALSE] ELSE h[u]]

Begin(t, r) ==
  /\ At(t, "idle") /\ MayBegin(r)
  /\ CASE r.kind \in EditKinds ->
           /\ spent["edit"] < MaxEdits /\ Spend("edit")
           /\ acked' = { a \in acked : ~SameEntry(a, r) }
           /\ h' = WithEdit(t, r)
       [] r.kind = "filter" ->
           /\ place[r.pod] = Pending
           /\ h' = [h EXCEPT ![t] = [Idle EXCEPT !.pc = "config", !.req = r,
                                                 !.labels = nodeLabels, !.todo = Nodes]]
           /\ UNCHANGED <<acked, spent>>
       [] r.kind \in {"check", "refresh"} ->
           /\ h' = [h EXCEPT ![t] = [Idle EXCEPT !.pc = "nodes", !.req = r]]
           /\ UNCHANGED <<acked, spent>>
       [] r.kind = "get" ->
           /\ h' = [h EXCEPT ![t] = [Idle EXCEPT !.pc = "config", !.req = r]]
           /\ UNCHANGED <<acked, spent>>
  /\ UNCHANGED <<api, heap, caches, cluster>>

(* GetNodes, the first call of the check and refresh handlers.             *)
GetNodes(t) ==
  /\ At(t, "nodes")
  /\ \/ /\ h' = [h EXCEPT ![t].pc = "config", ![t].labels = nodeLabels]
        /\ UNCHANGED spent
     \/ Fails("list") /\ Finish(t)
  /\ UNCHANGED <<api, heap, caches, cluster, acked>>

(* getNsNodeSelectorConfigMap(false) finds its own cache usable; only the   *)
(* handlers that show and check the configuration ask for it.              *)
SelectorHit(t) ==
  /\ h[t].req.kind \in {"get", "check"}
  /\ selectorCM[ProcOf[t]] # Nil /\ selectorFresh[ProcOf[t]]

HitSelectorCache(t) ==
  /\ At(t, "config") /\ SelectorHit(t)
  /\ h' = [h EXCEPT ![t].pc = "use", ![t].cm = selectorCM[ProcOf[t]]]
  /\ UNCHANGED <<api, heap, caches, cluster, acked, spent>>

(* Every handler but the filter goes through the SchedulerConfig, which    *)
(* remembers the object it is given, the placeholder of a failure included. *)
Remember(t, o) ==
  IF h[t].req.kind = "filter" THEN UNCHANGED <<selectorCM, selectorFresh>>
  ELSE /\ selectorCM' = [selectorCM EXCEPT ![ProcOf[t]] = o]
       /\ selectorFresh' = [selectorFresh EXCEPT ![ProcOf[t]] = TRUE]

(* getConfigCM and getSelectorConfigMap: the package variables are shared. *)
GlobalHitForever(t) == globalCM[ProcOf[t]] # Nil   \* seeded fault: no timeout
GlobalHit(t) == globalCM[ProcOf[t]] # Nil /\ globalFresh[ProcOf[t]]

HitGlobalCache(t) ==
  /\ At(t, "config") /\ ~SelectorHit(t) /\ GlobalHit(t)
  /\ h' = [h EXCEPT ![t].pc = "use", ![t].cm = globalCM[ProcOf[t]]]
  /\ Remember(t, globalCM[ProcOf[t]])
  /\ UNCHANGED <<api, heap, globalCM, globalFresh, cluster, acked, spent>>

(* The API server answers the Get of a cache miss; the answer is on its    *)
(* way until Install.  A failure and a missing object are answered alike.  *)
GetConfigMap(t) ==
  /\ At(t, "config") /\ ~SelectorHit(t) /\ ~GlobalHit(t)
  /\ \/ h' = [h EXCEPT ![t].pc = "install", ![t].resp = store] /\ UNCHANGED spent
     \/ Fails("read") /\ h' = [h EXCEPT ![t].pc = "install", ![t].resp = Nil]
  /\ UNCHANGED <<api, heap, caches, cluster, acked>>

Install(t) ==
  /\ At(t, "install")
  /\ Allocate(IF h[t].resp = Nil THEN EmptyConfig ELSE h[t].resp)
  /\ IF h[t].resp = Nil THEN UNCHANGED <<globalCM, globalFresh>>
     ELSE /\ globalCM' = [globalCM EXCEPT ![ProcOf[t]] = NewObject]
          /\ globalFresh' = [globalFresh EXCEPT ![ProcOf[t]] = TRUE]
  /\ Remember(t, NewObject)
  /\ h' = [h EXCEPT ![t].pc = "use", ![t].cm = NewObject, ![t].resp = Nil]
  /\ UNCHANGED <<api, cluster, acked, spent>>

-----------------------------------------------------------------------------
(* The filter: Handler judges one node after another and asks for the      *)
(* configuration again for each.  The scheduler then binds the pod.        *)
Accepted(t, n) ==
  NodeAccepted(NsConfigOf(heap[h[t].cm], {}), h[t].req.ns, h[t].labels[n])

Judge(t, n) ==
  /\ At(t, "use") /\ h[t].req.kind = "filter" /\ n \in h[t].todo
  /\ h' = [h EXCEPT ![t].todo = @ \ {n},
                    ![t].ok = IF Accepted(t, n) THEN @ \cup {n} ELSE @,
                    ![t].cm = Nil,
                    ![t].pc = IF h[t].todo = {n} THEN "bind" ELSE "config"]
  /\ UNCHANGED <<api, heap, caches, cluster, acked, spent>>

Bind(t) ==
  /\ At(t, "bind") /\ Finish(t)
  /\ IF h[t].ok = {} \/ place[h[t].req.pod] # Pending THEN UNCHANGED place
     ELSE \E n \in h[t].ok : place' = [place EXCEPT ![h[t].req.pod] = n]
  /\ UNCHANGED <<api, heap, caches, nodeLabels, acked, spent>>

(* NsNodeSelectorGet shows the configuration it was given, its defaults    *)
(* filled in; a failure to list the namespaces is ignored.                 *)
Show(t) ==
  /\ At(t, "use") /\ h[t].req.kind = "get" /\ Finish(t)
  /\ UNCHANGED <<api, heap, caches, cluster, acked, spent>>

(* CheckNamespaceSchedulerNodes answers with the accepted nodes.           *)
Check(t) ==
  /\ At(t, "use") /\ h[t].req.kind = "check" /\ Finish(t)
  /\ UNCHANGED <<api, heap, caches, cluster, acked, spent>>

(* NsNodeSelectorRefresh: the accepted nodes, then the pods, then one      *)
(* delete per pod that is on another node.                                 *)
SelectNodes(t) ==
  /\ At(t, "use") /\ h[t].req.kind = "refresh"
  /\ IF ParseFails(LabelSelector(NsConfigOf(heap[h[t].cm], {}), h[t].req.ns)) THEN Finish(t)
     ELSE h' = [h EXCEPT ![t].ok = { n \in Nodes : Accepted(t, n) }, ![t].pc = "pods", ![t].cm = Nil]
  /\ UNCHANGED <<api, heap, caches, cluster, acked, spent>>

GetPods(t) ==
  /\ At(t, "pods")
  /\ \/ /\ h' = [h EXCEPT ![t].pc = "delete",
              ![t].todo = { p \in Pods : PodNs[p] = h[t].req.ns /\ place[p] \in Nodes \ h[t].ok }]
        /\ UNCHANGED spent
     \/ Fails("list") /\ Finish(t)
  /\ UNCHANGED <<api, heap, caches, cluster, acked>>

DeletePod(t, p) ==
  /\ At(t, "delete") /\ p \in h[t].todo
  /\ h' = [h EXCEPT ![t].todo = @ \ {p}]
  /\ \/ place' = [place EXCEPT ![p] = Gone] /\ UNCHANGED spent
     \/ Fails("delete") /\ UNCHANGED place
  /\ UNCHANGED <<api, heap, caches, nodeLabels, acked>>

Refreshed(t) ==
  /\ At(t, "delete") /\ h[t].todo = {} /\ Finish(t)
  /\ UNCHANGED <<api, heap, caches, cluster, acked, spent>>

-----------------------------------------------------------------------------
(* NsNodeSelectorAddUpdateOrDelete.  The namespaces are listed (an error   *)
(* is ignored), the configuration is read from the shared object and       *)
(* edited in a copy; "is existed" and "not exist" end the request here.    *)
EditCopy(t) ==
  /\ At(t, "use") /\ IsEdit(t)
  /\ \E listed \in {Listed, {}} :
       LET base == NsConfigOf(heap[h[t].cm], listed)
       IN  /\ IF listed = Listed THEN UNCHANGED spent ELSE Fails("list")
           /\ IF EditAllowed(base, h[t].req)
              THEN h' = [h EXCEPT ![t].pc = "set", ![t].cfg = EditedConfig(base, h[t].req)]
              ELSE Finish(t)
  /\ UNCHANGED <<api, heap, caches, cluster, acked>>

(* SetNsNodeSelectorConfigMapNsConfig writes into the object every cache   *)
(* may point to.  Assigning into a nil map panics: the request dies.       *)
\* Seeded fault: the edit goes to a copy, the caches keep the old object.
SetNsConfigCopy(t) ==
  /\ At(t, "set")
  /\ Allocate(h[t].cfg)
  /\ h' = [h EXCEPT ![t].pc = "current", ![t].cfg = BadJson, ![t].cm = NewObject]
  /\ UNCHANGED <<api, caches, cluster, acked, spent>>

SetNsConfig(t) ==
  /\ At(t, "set")
  /\ IF heap[h[t].cm] = NilData THEN Finish(t) /\ UNCHANGED heap
     ELSE /\ heap' = [heap EXCEPT ![h[t].cm] = h[t].cfg]
          /\ h' = [h EXCEPT ![t].pc = "current", ![t].cfg = BadJson]
  /\ UNCHANGED <<api, caches, cluster, acked, spent>>

(* CreateOrUpdateSchedulerPolicyConfigMap reads the current version ...    *)
GetCurrent(t) ==
  /\ At(t, "current")
  /\ \/ /\ h' = [h EXCEPT ![t].pc = IF store = Nil THEN "create" ELSE "put", ![t].rv = version]
        /\ UNCHANGED spent
     \/ Fails("read") /\ Finish(t)
  /\ UNCHANGED <<api, heap, caches, cluster, acked>>

(* ... and writes the whole Data of the edited object under that version.  *)
WriteConflict(t) ==
  IF At(t, "create") THEN store # Nil ELSE h[t].rv # version \/ store = Nil

Write(t) ==
  /\ At(t, "create") \/ At(t, "put")
  /\ ~WriteConflict(t)
  /\ store' = heap[h[t].cm]
  /\ version' = version + 1
  /\ \/ h' = [h EXCEPT ![t].pc = "ack", ![t].resp = heap[h[t].cm]] /\ UNCHANGED spent
     \/ Fails("lost") /\ Finish(t)
  /\ UNCHANGED <<heap, caches, cluster, acked>>

WriteRefused(t) ==
  /\ At(t, "create") \/ At(t, "put")
  /\ IF WriteConflict(t) THEN UNCHANGED spent ELSE Fails("write")
  /\ Finish(t)
  /\ UNCHANGED <<api, heap, caches, cluster, acked>>

(* The answer is OK; the cache of the SchedulerConfig takes the object the *)
(* API server returned, its update time stays.                             *)
Ack(t) ==
  /\ At(t, "ack")
  /\ Allocate(h[t].resp)
  /\ selectorCM' = [selectorCM EXCEPT ![ProcOf[t]] = NewObject]
  /\ acked' = IF h[t].req.kind # "delete" /\ h[t].lone THEN acked \cup {h[t].req} ELSE acked
  /\ Finish(t)
  /\ UNCHANGED <<api, globalCM, globalFresh, selectorFresh, cluster, spent>>

-----------------------------------------------------------------------------
(* Time passes, operators act, processes are killed and started again.     *)
ExpireGlobalNever(p) == FALSE /\ p \in Procs /\ UNCHANGED vars   \* seeded fault

ExpireGlobal(p) ==
  /\ globalFresh[p]
  /\ globalFresh' = [globalFresh EXCEPT ![p] = FALSE]
  /\ UNCHANGED <<api, heap, globalCM, selectorCM, selectorFresh, h, cluster, acked, spent>>

ExpireSelector(p) ==
  /\ selectorFresh[p]
  /\ selectorFresh' = [selectorFresh EXCEPT ![p] = FALSE]
  /\ UNCHANGED <<api, heap, globalCM, globalFresh, selectorCM, h, cluster, acked, spent>>

HandEdit(data) ==
  /\ spent["hand"] < MaxHandEdits /\ Spend("hand")
  /\ store' = data /\ version' = version + 1
  /\ acked' = {}
  /\ h' = [t \in Threads |-> IF At(t, "idle") THEN h[t] ELSE [h[t] EXCEPT !.lone = FALSE]]
  /\ UNCHANGED <<heap, caches, cluster>>

Relabel(n, labels) ==
  /\ spent["relabel"] < MaxRelabels /\ Spend("relabel")
  /\ nodeLabels' = [nodeLabels EXCEPT ![n] = labels]
  /\ UNCHANGED <<api, heap, caches, h, place, acked>>

Restart(p) ==
  /\ spent["restart"] < MaxRestarts /\ Spend("restart")
  /\ globalCM' = [globalCM EXCEPT ![p] = Nil]
  /\ globalFresh' = [globalFresh EXCEPT ![p] = FALSE]
  /\ selectorCM' = [selectorCM EXCEPT ![p] = Nil]
  /\ selectorFresh' = [selectorFresh EXCEPT ![p] = FALSE]
  /\ h' = [t \in Threads |-> IF ProcOf[t] = p THEN Idle ELSE h[t]]
  /\ UNCHANGED <<api, heap, cluster, acked>>

Step(t) ==
  \/ GetNodes(t) \/ HitSelectorCache(t) \/ HitGlobalCache(t) \/ GetConfigMap(t) \/ Install(t)
  \/ (\E n \in Nodes : Judge(t, n)) \/ Bind(t) \/ Show(t) \/ Check(t)
  \/ SelectNodes(t) \/ GetPods(t) \/ (\E p \in Pods : DeletePod(t, p)) \/ Refreshed(t)
  \/ EditCopy(t) \/ SetNsConfig(t) \/ GetCurrent(t) \/ Write(t) \/ WriteRefused(t) \/ Ack(t)

Environment ==
  \/ \E p \in Procs : ExpireGlobal(p) \/ ExpireSelector(p) \/ Restart(p)
  \/ \E data \in HandEdits : HandEdit(data)
  \/ \E n \in Nodes, labels \in NewLabels : Relabel(n, labels)

Next == (\E t \in Threads : (\E r \in Serves[t] : Begin(t, r)) \/ Step(t)) \/ Environment

(* A handler that runs goes on: its calls of the API server return.  A     *)
(* cache times out because time passes.                                    *)
Fairness ==
  /\ \A t \in Threads : WF_vars(Step(t))
  /\ \A p \in Procs : WF_vars(ExpireGlobal(p))

Spec == Init /\ [][Next]_vars
FairSpec == Spec /\ Fairness

-----------------------------------------------------------------------------
(* The types of the variables.                                             *)
Handler == [pc : {"idle", "nodes", "config", "install", "use", "bind", "pods", "delete",
                  "set", "current", "create", "put", "ack"},
            req : Request, cm : Objects \cup {Nil}, resp : CMData \cup {Nil},
            cfg : NsConfig \cup {BadJson}, rv : Nat, labels : [Nodes -> NodeLabels] \cup {<<>>},
            todo : SUBSET (Nodes \cup Pods), ok : SUBSET Nodes, lone : BOOLEAN]

\* What a handler holds when a later step of it uses it: an object, wherever
\* the code follows the pointer, and the written ConfigMap once it is answered.
Holds(s) ==
  /\ s.pc \in {"use", "set", "current", "create", "put"} => s.cm \in Objects
  /\ s.pc = "ack" => s.resp \in CMData

(* The types of the state; every handler holds what its place in the code  *)
(* says, whatever has expired, failed or restarted meanwhile.              *)
TypeOK ==
  /\ store \in CMData \cup {Nil}
  /\ version \in Nat
  /\ heap \in [Objects -> CMData]
  /\ globalCM \in [Procs -> Objects \cup {Nil}] /\ globalFresh \in [Procs -> BOOLEAN]
  /\ selectorCM \in [Procs -> Objects \cup {Nil}] /\ selectorFresh \in [Procs -> BOOLEAN]
  /\ h \in [Threads -> Handler] /\ \A t \in Threads : Holds(h[t])
  /\ nodeLabels \in [Nodes -> NodeLabels]
  /\ place \in [Pods -> Nodes \cup {Pending, Gone}]
  /\ acked \subseteq Request
  /\ spent \in [{"edit", "fault", "hand", "restart", "relabel"} -> Nat]

(* Requests one at a time, one process: outside an edit's window between   *)
(* SetNsNodeSelectorConfigMapNsConfig and the write, a cache that is used  *)
(* holds what the API server holds.                                        *)
Writing(t) == h[t].pc \in {"current", "create", "put"}

CacheCoherent ==
  (\A t \in Threads : ~Writing(t)) =>
    \A p \in Procs :
      /\ globalFresh[p] => heap[globalCM[p]] = StoredData
      /\ selectorFresh[p] /\ (\A t \in Threads : ~At(t, "ack")) =>
           heap[selectorCM[p]] = StoredData

(* Every node the filter judges and every node a check reports is judged   *)
(* by the configuration in the API server at that moment.                  *)
StoreAccepts(ns, labels) == NodeAccepted(NsConfigOf(StoredData, {}), ns, labels)

DecisionsExact ==
  [][\A t \in Threads : \A n \in Nodes :
       Judge(t, n) \/ Check(t) =>
         (Accepted(t, n) <=> StoreAccepts(h[t].req.ns, h[t].labels[n]))]_vars

(* A refresh (NsNodeSelectorRefresh) deletes no pod whose node the stored  *)
(* configuration accepts.                                                  *)
RefreshSparesMatching ==
  [][\A p \in Pods : place[p] \in Nodes /\ place'[p] = Gone =>
       ~StoreAccepts(PodNs[p], nodeLabels[place[p]])]_vars

(* The comments on NsConfigItem: a pod that only fails Match or NotMatch   *)
(* was there before and is not deleted; MustMatch and MustNotMatch delete. *)
MustOnly(nsConfig) ==
  [ns \in Namespaces |->
     IF nsConfig[ns] = Absent THEN Absent
     ELSE [nsConfig[ns] EXCEPT !["match"] = EmptyMap, !["notmatch"] = EmptyMap]]

RefreshKeepsSoftMismatch ==
  [][\A p \in Pods : place[p] \in Nodes /\ place'[p] = Gone =>
       ~NodeAccepted(MustOnly(StoredData), PodNs[p], nodeLabels[place[p]])]_vars

(* The ConfigMap is the configuration of NsConfigRegister: each write is   *)
(* one acknowledged (or lost) edit of what was stored, none is undone.     *)
EditsServed == UNION { { [kind |-> r.kind, ns |-> r.ns, type |-> r.type, key |-> r.key,
                          vals |-> r.vals] : r \in { q \in Serves[t] : q.kind \in EditKinds } } :
                       t \in Threads }

Register == INSTANCE NsConfigRegister WITH
              config <- StoredData, EditRequests <- EditsServed,
              InitConfigs <- { IF s = Nil THEN EmptyConfig ELSE s : s \in InitStores }
ImplementsRegister == Register!Spec

(* An addition answered with OK is in the API server until another request *)
(* for that entry, or an operator, touches it.                             *)
Stored(r) ==
  /\ StoredData \in NsConfig
  /\ StoredData[r.ns] # Absent
  /\ MakeMap(StoredData[r.ns][r.type])[r.key] = r.vals

AckedStored == \A r \in acked : Stored(r)

(* Whatever overlaps, fails or is stale: a listed namespace whose NotMatch *)
(* entry for the system label no request removes is kept off the nodes     *)
(* that carry it (the default of GetNsConfigByConfigMap).                  *)
Guarded == { ns \in Listed :
               \A t \in Threads : \A r \in Serves[t] :
                 r.ns = ns /\ r.type = "notmatch" /\ r.key = SysKey => r.kind \in {"add", "filter"} }

SystemNodesGuarded ==
  \A t \in Threads : \A n \in h[t].ok :
    At(t, "bind") /\ h[t].req.ns \in Guarded => h[t].labels[n][SysKey] = Absent

(* When the edits stop, every cache comes to agree with the API server,    *)
(* also one that holds an edit the API server refused.                     *)
Converges ==
  <>[](\A p \in Procs : globalFresh[p] => heap[globalCM[p]] = StoredData)
=============================================================================
