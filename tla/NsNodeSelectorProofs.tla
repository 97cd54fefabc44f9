------------------------ MODULE NsNodeSelectorProofs ------------------------
(***************************************************************************)
(* Proofs about NsNodeSelector, for any processes, goroutines, requests,   *)
(* operators and failing calls, whatever the pacing: the types, and that   *)
(* the nodes of the system stay closed to the guarded namespaces.  Then,   *)
(* with premises stated where each part begins: one request at a time,     *)
(* replicas whose edits are paced, and one process beside operators who    *)
(* edit by hand.                                                           *)
(***************************************************************************)
EXTENDS NsNodeSelector, NsSelectorProofs, FiniteSetTheorems

-----------------------------------------------------------------------------
(* Types. *)

LEMMA IdleState == Idle \in Handler /\ Idle.pc = "idle" /\ Holds(Idle) /\ Idle.ok = {} /\ Idle.resp = Nil
<1>1. SysKey \in Keys /\ (CHOOSE n \in Namespaces : TRUE) \in Namespaces
  BY NsAssumption, SelectorAssumption
<1>2. NoRequest \in Request
  BY <1>1 DEF NoRequest, Request, Kinds, MatchTypes
<1> QED BY <1>2 DEF Idle, Handler, Holds

LEMMA DataTypes == EmptyConfig \in CMData /\ BadJson \in CMData /\ NilData \in CMData
BY EmptyTypes DEF CMData

\* There are more objects than pointers to them.
LEMMA ImageIsSmall ==
  ASSUME NEW S, IsFiniteSet(S), NEW f
  PROVE  /\ IsFiniteSet({ f[x] : x \in S }) /\ Cardinality({ f[x] : x \in S }) \in Nat
         /\ Cardinality({ f[x] : x \in S }) <= Cardinality(S)
<1> DEFINE T == { f[x] : x \in S }
           g == [x \in S |-> f[x]]
<1>1. g \in Surjection(S, T)
  BY DEF Surjection
<1>2. IsFiniteSet(T) /\ Cardinality(T) <= Cardinality(S)
  <2> HIDE DEF T, g
  <2> QED BY <1>1, FS_Surjection
<1>3. Cardinality(T) \in Nat
  <2> HIDE DEF T
  <2> QED BY <1>2, FS_CardinalityType
<1> QED BY <1>2, <1>3

LEMMA FreshObject == NewObject \in Objects /\ NewObject \notin InUse
<1> DEFINE G == { globalCM[p] : p \in Procs }
           L == { selectorCM[p] : p \in Procs }
           c == [t \in Threads |-> h[t].cm]
           H == { c[t] : t \in Threads }
<1>1. /\ IsFiniteSet(Objects) /\ IsFiniteSet(Procs) /\ IsFiniteSet(Threads)
      /\ Cardinality(Objects) > 2 * Cardinality(Procs) + Cardinality(Threads)
  BY NsAssumption
<1>2. /\ Cardinality(Procs) \in Nat /\ Cardinality(Threads) \in Nat /\ Cardinality(Objects) \in Nat
  BY <1>1, FS_CardinalityType
<1>3. /\ IsFiniteSet(G) /\ Cardinality(G) \in Nat /\ Cardinality(G) <= Cardinality(Procs)
      /\ IsFiniteSet(L) /\ Cardinality(L) \in Nat /\ Cardinality(L) <= Cardinality(Procs)
      /\ IsFiniteSet(H) /\ Cardinality(H) \in Nat /\ Cardinality(H) <= Cardinality(Threads)
  <2> HIDE DEF c
  <2> QED BY <1>1, ImageIsSmall
<1>4. InUse = (G \cup L) \cup H
  BY DEF InUse
<1> HIDE DEF G, L, H, c
<1>5. ASSUME NEW A, NEW B, IsFiniteSet(A), IsFiniteSet(B)
      PROVE  /\ IsFiniteSet(A \cup B) /\ Cardinality(A \cup B) \in Nat
             /\ Cardinality(A \cup B) <= Cardinality(A) + Cardinality(B)
  <2>1. IsFiniteSet(A \cup B) /\ IsFiniteSet(A \cap B)
        /\ Cardinality(A \cup B) = Cardinality(A) + Cardinality(B) - Cardinality(A \cap B)
    BY <1>5, FS_Union, FS_Intersection
  <2>2. Cardinality(A) \in Nat /\ Cardinality(B) \in Nat /\ Cardinality(A \cap B) \in Nat
        /\ Cardinality(A \cup B) \in Nat
    BY <1>5, <2>1, FS_CardinalityType
  <2> QED BY <2>1, <2>2
<1>6. IsFiniteSet(InUse) /\ Cardinality(InUse) < Cardinality(Objects) /\ Cardinality(InUse) \in Nat
  <2>1. IsFiniteSet(G \cup L) /\ Cardinality(G \cup L) \in Nat
        /\ Cardinality(G \cup L) <= Cardinality(G) + Cardinality(L)
    BY <1>3, <1>5
  <2>2. IsFiniteSet(InUse) /\ Cardinality(InUse) \in Nat
        /\ Cardinality(InUse) <= Cardinality(G \cup L) + Cardinality(H)
    BY <1>3, <1>4, <1>5, <2>1
  <2> QED BY <1>1, <1>2, <1>3, <2>1, <2>2
<1>7. ~(Objects \subseteq InUse)
  <2> SUFFICES ASSUME Objects \subseteq InUse PROVE FALSE
    OBVIOUS
  <2>1. Cardinality(Objects) <= Cardinality(InUse)
    BY <1>6, FS_Subset
  <2> QED BY <1>2, <1>6, <2>1
<1> QED BY <1>7 DEF NewObject

LEMMA ReadTypes ==
  ASSUME NEW data \in CMData, NEW listed
  PROVE  NsConfigOf(data, listed) \in NsConfig \cup {BadJson}
<1>1. CASE data = BadJson
  BY <1>1 DEF NsConfigOf
<1>2. CASE data = NilData
  <2>1. EmptyConfig \in NsConfig /\ EmptyConfig # BadJson /\ EmptyConfig # NilData
        /\ NilData # BadJson
    BY EmptyTypes, MarkerAssumption
  <2>2. NsConfigOf(data, listed) = NsConfigOf(EmptyConfig, listed)
    BY <1>2, <2>1 DEF NsConfigOf
  <2> QED BY <2>1, <2>2, ConfigOf
<1>3. CASE data \in NsConfig
  BY <1>3, ConfigOf
<1> QED BY <1>1, <1>2, <1>3 DEF CMData

\* The types of everything but the handlers.
Bounds == {"edit", "fault", "hand", "restart", "relabel"}

Rest ==
  /\ store \in CMData \cup {Nil} /\ version \in Nat /\ heap \in [Objects -> CMData]
  /\ globalCM \in [Procs -> Objects \cup {Nil}] /\ globalFresh \in [Procs -> BOOLEAN]
  /\ selectorCM \in [Procs -> Objects \cup {Nil}] /\ selectorFresh \in [Procs -> BOOLEAN]
  /\ nodeLabels \in [Nodes -> NodeLabels] /\ place \in [Pods -> Nodes \cup {Pending, Gone}]
  /\ acked \subseteq Request /\ spent \in [Bounds -> Nat]

LEMMA ShapeIs == TypeOK <=> Rest /\ h \in [Threads -> Handler] /\ \A t \in Threads : Holds(h[t])
BY DEF TypeOK, Rest, Bounds

LEMMA InitShape == Init => TypeOK
<1> SUFFICES ASSUME Init PROVE TypeOK
  OBVIOUS
<1>1. Rest
  BY NsAssumption, DataTypes DEF Init, Rest, Bounds
<1>2. h \in [Threads -> Handler] /\ \A t \in Threads : Holds(h[t])
  BY IdleState DEF Init
<1> QED BY <1>1, <1>2, ShapeIs

LEMMA SpendTyped ==
  ASSUME TypeOK, NEW what \in Bounds, Spend(what)
  PROVE  spent' \in [Bounds -> Nat]
BY DEF TypeOK, Spend, Bounds

LEMMA AllocateTyped ==
  ASSUME TypeOK, NEW data \in CMData, Allocate(data)
  PROVE  heap' \in [Objects -> CMData]
BY DataTypes DEF TypeOK, Allocate

\* A step of one handler.
LEMMA AdvanceShape ==
  ASSUME TypeOK, NEW t \in Threads, NEW s \in Handler, Holds(s), h' = [h EXCEPT ![t] = s], Rest'
  PROVE  TypeOK'
<1>1. h' \in [Threads -> Handler] /\ \A u \in Threads : h'[u] = IF u = t THEN s ELSE h[u]
  BY ShapeIs
<1>2. \A u \in Threads : Holds(h[u])'
  BY <1>1, ShapeIs DEF Holds
<1> QED BY <1>1, <1>2 DEF TypeOK, Rest, Bounds

LEMMA FinishShape ==
  ASSUME TypeOK, NEW t \in Threads, Finish(t), Rest'
  PROVE  TypeOK'
BY IdleState, AdvanceShape DEF Finish

LEMMA FailsTyped ==
  ASSUME TypeOK, NEW call, Fails(call) \/ UNCHANGED spent
  PROVE  spent' \in [Bounds -> Nat]
<1>1. "fault" \in Bounds /\ spent \in [Bounds -> Nat]
  BY ShapeIs DEF Bounds, Rest
<1> QED BY <1>1, SpendTyped DEF Fails

\* The steps that read the ConfigMap.
LEMMA ReadShape ==
  ASSUME TypeOK, NEW t \in Threads,
         GetNodes(t) \/ HitSelectorCache(t) \/ HitGlobalCache(t) \/ GetConfigMap(t) \/ Install(t)
  PROVE  TypeOK'
<1>a. /\ h[t] \in Handler /\ Holds(h[t]) /\ Rest /\ ProcOf[t] \in Procs
      /\ spent \in [Bounds -> Nat]
  BY NsAssumption, ShapeIs DEF Rest
<1>b. globalCM[ProcOf[t]] \in Objects \cup {Nil} /\ selectorCM[ProcOf[t]] \in Objects \cup {Nil}
      /\ Nil \notin Objects
  BY <1>a, NsAssumption DEF Rest
<1>1. ASSUME GetNodes(t) PROVE TypeOK'
  <2> DEFINE s == [h[t] EXCEPT !.pc = "config", !.labels = nodeLabels]
  <2>1. Rest'
    <3>1. spent' \in [Bounds -> Nat]
      BY <1>1, FailsTyped DEF GetNodes
    <3> QED BY <1>1, <1>a, <3>1 DEF GetNodes, Rest, api, caches, cluster
  <2>2. s \in Handler /\ Holds(s)
    BY <1>a DEF Handler, Holds, Rest
  <2>3. Finish(t) \/ h' = [h EXCEPT ![t] = s]
    BY <1>1, ShapeIs DEF GetNodes
  <2> HIDE DEF s
  <2> QED BY <2>1, <2>2, <2>3, FinishShape, AdvanceShape
<1>2. ASSUME HitSelectorCache(t) PROVE TypeOK'
  <2> DEFINE s == [h[t] EXCEPT !.pc = "use", !.cm = selectorCM[ProcOf[t]]]
  <2>1. Rest'
    BY <1>2, <1>a DEF HitSelectorCache, Rest, api, caches, cluster
  <2>2. s \in Handler /\ Holds(s)
    BY <1>2, <1>a, <1>b DEF HitSelectorCache, SelectorHit, Handler, Holds
  <2>3. h' = [h EXCEPT ![t] = s]
    BY <1>2, ShapeIs DEF HitSelectorCache
  <2> HIDE DEF s
  <2> QED BY <2>1, <2>2, <2>3, AdvanceShape
<1>3. ASSUME HitGlobalCache(t) PROVE TypeOK'
  <2> DEFINE s == [h[t] EXCEPT !.pc = "use", !.cm = globalCM[ProcOf[t]]]
  <2>1. Rest'
    BY <1>3, <1>a, <1>b DEF HitGlobalCache, Remember, Rest, api, cluster
  <2>2. s \in Handler /\ Holds(s)
    BY <1>3, <1>a, <1>b DEF HitGlobalCache, GlobalHit, Handler, Holds
  <2>3. h' = [h EXCEPT ![t] = s]
    BY <1>3, ShapeIs DEF HitGlobalCache
  <2> HIDE DEF s
  <2> QED BY <2>1, <2>2, <2>3, AdvanceShape
<1>4. ASSUME GetConfigMap(t) PROVE TypeOK'
  <2>1. Rest'
    <3>1. spent' \in [Bounds -> Nat]
      BY <1>4, FailsTyped DEF GetConfigMap
    <3> QED BY <1>4, <1>a, <3>1 DEF GetConfigMap, Rest, api, caches, cluster
  <2>2. PICK data \in CMData \cup {Nil} :
          h' = [h EXCEPT ![t] = [h[t] EXCEPT !.pc = "install", !.resp = data]]
    BY <1>4, <1>a, ShapeIs DEF GetConfigMap, Rest
  <2> DEFINE s == [h[t] EXCEPT !.pc = "install", !.resp = data]
  <2>3. s \in Handler /\ Holds(s)
    BY <1>a DEF Handler, Holds
  <2> HIDE DEF s
  <2> QED BY <2>1, <2>2, <2>3, AdvanceShape DEF s
<1>5. ASSUME Install(t) PROVE TypeOK'
  <2> DEFINE s == [h[t] EXCEPT !.pc = "use", !.cm = NewObject, !.resp = Nil]
             data == IF h[t].resp = Nil THEN EmptyConfig ELSE h[t].resp
  <2>1. NewObject \in Objects
    BY FreshObject
  <2>2. data \in CMData
    BY <1>a, DataTypes DEF Handler
  <2>3. heap' \in [Objects -> CMData]
    <3>1. Allocate(data)
      BY <1>5 DEF Install
    <3> QED BY <2>2, <3>1, AllocateTyped
  <2>4. Rest'
    BY <1>5, <1>a, <2>1, <2>3 DEF Install, Remember, Rest, api, cluster
  <2>5. s \in Handler /\ Holds(s)
    BY <1>a, <2>1 DEF Handler, Holds
  <2>6. h' = [h EXCEPT ![t] = s]
    BY <1>5, ShapeIs DEF Install
  <2> HIDE DEF s
  <2> QED BY <2>4, <2>5, <2>6, AdvanceShape
<1> QED BY <1>1, <1>2, <1>3, <1>4, <1>5

\* The steps that use it to judge nodes and to delete pods.
LEMMA JudgeShape ==
  ASSUME TypeOK, NEW t \in Threads,
         \/ \E n \in Nodes : Judge(t, n)
         \/ Bind(t) \/ Show(t) \/ Check(t) \/ SelectNodes(t) \/ GetPods(t)
         \/ \E p \in Pods : DeletePod(t, p)
         \/ Refreshed(t)
  PROVE  TypeOK'
<1>a. /\ h[t] \in Handler /\ Holds(h[t]) /\ Rest
      /\ h[t].todo \subseteq Nodes \cup Pods /\ h[t].ok \subseteq Nodes
  BY ShapeIs DEF Handler
<1>1. ASSUME NEW n \in Nodes, Judge(t, n) PROVE TypeOK'
  <2> DEFINE s == [h[t] EXCEPT !.todo = h[t].todo \ {n},
                               !.ok = IF Accepted(t, n) THEN h[t].ok \cup {n} ELSE h[t].ok,
                               !.cm = Nil, !.pc = IF h[t].todo = {n} THEN "bind" ELSE "config"]
  <2>1. Rest'
    BY <1>1, <1>a DEF Judge, Rest, api, caches, cluster
  <2>2. s \in Handler /\ Holds(s)
    BY <1>a DEF Handler, Holds
  <2>3. h' = [h EXCEPT ![t] = s]
    BY <1>1, ShapeIs DEF Judge
  <2> HIDE DEF s
  <2> QED BY <2>1, <2>2, <2>3, AdvanceShape
<1>2. ASSUME Bind(t) PROVE TypeOK'
  <2>1. place' \in [Pods -> Nodes \cup {Pending, Gone}]
    BY <1>2, <1>a DEF Bind, Rest
  <2>2. Rest' /\ Finish(t)
    BY <1>2, <1>a, <2>1 DEF Bind, Rest, api, caches
  <2> QED BY <2>2, FinishShape
<1>3. ASSUME Show(t) \/ Check(t) \/ Refreshed(t) PROVE TypeOK'
  <2>1. Rest' /\ Finish(t)
    BY <1>3, <1>a DEF Show, Check, Refreshed, Rest, api, caches, cluster
  <2> QED BY <2>1, FinishShape
<1>4. ASSUME SelectNodes(t) PROVE TypeOK'
  <2> DEFINE ok == { n \in Nodes : Accepted(t, n) }
             s == [h[t] EXCEPT !.ok = ok, !.pc = "pods", !.cm = Nil]
  <2>1. Rest'
    BY <1>4, <1>a DEF SelectNodes, Rest, api, caches, cluster
  <2>2. s \in Handler /\ Holds(s)
    <3>1. ok \in SUBSET Nodes
      OBVIOUS
    <3> HIDE DEF ok
    <3> QED BY <1>a, <3>1 DEF Handler, Holds
  <2>3. Finish(t) \/ h' = [h EXCEPT ![t] = s]
    BY <1>4, ShapeIs DEF SelectNodes
  <2> HIDE DEF s
  <2> QED BY <2>1, <2>2, <2>3, FinishShape, AdvanceShape
<1>5. ASSUME GetPods(t) PROVE TypeOK'
  <2> DEFINE todo == { p \in Pods : PodNs[p] = h[t].req.ns /\ place[p] \in Nodes \ h[t].ok }
             s == [h[t] EXCEPT !.pc = "delete", !.todo = todo]
  <2>1. Rest'
    <3>1. spent' \in [Bounds -> Nat]
      BY <1>5, FailsTyped DEF GetPods
    <3> QED BY <1>5, <1>a, <3>1 DEF GetPods, Rest, api, caches, cluster
  <2>2. s \in Handler /\ Holds(s)
    <3>1. todo \in SUBSET (Nodes \cup Pods)
      OBVIOUS
    <3> HIDE DEF todo
    <3> QED BY <1>a, <3>1 DEF Handler, Holds
  <2>3. Finish(t) \/ h' = [h EXCEPT ![t] = s]
    BY <1>5, ShapeIs DEF GetPods
  <2> HIDE DEF s
  <2> QED BY <2>1, <2>2, <2>3, FinishShape, AdvanceShape
<1>6. ASSUME NEW p \in Pods, DeletePod(t, p) PROVE TypeOK'
  <2> DEFINE s == [h[t] EXCEPT !.todo = h[t].todo \ {p}]
  <2>1. Rest'
    <3>1. spent' \in [Bounds -> Nat]
      BY <1>6, FailsTyped DEF DeletePod
    <3>2. place' \in [Pods -> Nodes \cup {Pending, Gone}]
      BY <1>6, <1>a DEF DeletePod, Rest
    <3> QED BY <1>6, <1>a, <3>1, <3>2 DEF DeletePod, Rest, api, caches
  <2>2. s \in Handler /\ Holds(s)
    BY <1>a DEF Handler, Holds
  <2>3. h' = [h EXCEPT ![t] = s]
    BY <1>6, ShapeIs DEF DeletePod
  <2> HIDE DEF s
  <2> QED BY <2>1, <2>2, <2>3, AdvanceShape
<1> QED BY <1>1, <1>2, <1>3, <1>4, <1>5, <1>6

\* The steps of an edit.
LEMMA EditShape ==
  ASSUME TypeOK, NEW t \in Threads,
         EditCopy(t) \/ SetNsConfig(t) \/ GetCurrent(t) \/ Write(t) \/ WriteRefused(t) \/ Ack(t)
  PROVE  TypeOK'
<1>a. /\ h[t] \in Handler /\ Holds(h[t]) /\ Rest /\ ProcOf[t] \in Procs
      /\ h[t].req \in Request /\ h[t].cfg \in NsConfig \cup {BadJson}
  BY NsAssumption, ShapeIs DEF Handler
<1>1. ASSUME EditCopy(t) PROVE TypeOK'
  <2>1. Rest'
    <3>1. spent' \in [Bounds -> Nat]
      BY <1>1, FailsTyped DEF EditCopy
    <3> QED BY <1>1, <1>a, <3>1 DEF EditCopy, Rest, api, caches, cluster
  <2>2. PICK listed \in {Listed, {}} :
          LET base == NsConfigOf(heap[h[t].cm], listed)
          IN  IF EditAllowed(base, h[t].req)
              THEN h' = [h EXCEPT ![t].pc = "set", ![t].cfg = EditedConfig(base, h[t].req)]
              ELSE Finish(t)
    BY <1>1 DEF EditCopy
  <2> DEFINE cfg == EditedConfig(NsConfigOf(heap[h[t].cm], listed), h[t].req)
             s == [h[t] EXCEPT !.pc = "set", !.cfg = cfg]
  <2>3. heap[h[t].cm] \in CMData /\ h[t].pc = "use"
    BY <1>1, <1>a DEF EditCopy, At, Holds, Rest
  <2>4. cfg \in NsConfig
    <3>1. NsConfigOf(heap[h[t].cm], listed) \in NsConfig \cup {BadJson}
      BY <2>3, ReadTypes
    <3>2. /\ h[t].req.ns \in Namespaces /\ h[t].req.type \in MatchTypes
          /\ h[t].req.key \in Keys /\ h[t].req.vals \in SUBSET Values
      BY <1>a DEF Request
    <3> QED BY <3>1, <3>2, EditIsTyped
  <2>5. Finish(t) \/ h' = [h EXCEPT ![t] = s]
    BY <2>2, ShapeIs
  <2> HIDE DEF cfg
  <2>6. s \in Handler /\ Holds(s)
    BY <1>a, <2>3, <2>4 DEF Handler, Holds
  <2> HIDE DEF s
  <2> QED BY <2>1, <2>5, <2>6, FinishShape, AdvanceShape
<1>2. ASSUME SetNsConfig(t) PROVE TypeOK'
  <2> DEFINE s == [h[t] EXCEPT !.pc = "current", !.cfg = BadJson]
  <2>1. heap' \in [Objects -> CMData]
    BY <1>2, <1>a DEF SetNsConfig, Rest, CMData
  <2>2. Rest'
    BY <1>2, <1>a, <2>1 DEF SetNsConfig, Rest, api, caches, cluster
  <2>3. s \in Handler /\ Holds(s)
    BY <1>2, <1>a DEF SetNsConfig, At, Handler, Holds
  <2>4. Finish(t) \/ h' = [h EXCEPT ![t] = s]
    BY <1>2, ShapeIs DEF SetNsConfig
  <2> HIDE DEF s
  <2> QED BY <2>2, <2>3, <2>4, FinishShape, AdvanceShape
<1>3. ASSUME GetCurrent(t) PROVE TypeOK'
  <2> DEFINE s == [h[t] EXCEPT !.pc = IF store = Nil THEN "create" ELSE "put", !.rv = version]
  <2>1. Rest'
    <3>1. spent' \in [Bounds -> Nat]
      BY <1>3, FailsTyped DEF GetCurrent
    <3> QED BY <1>3, <1>a, <3>1 DEF GetCurrent, Rest, api, caches, cluster
  <2>2. s \in Handler /\ Holds(s)
    BY <1>3, <1>a DEF GetCurrent, At, Handler, Holds, Rest
  <2>3. Finish(t) \/ h' = [h EXCEPT ![t] = s]
    BY <1>3, ShapeIs DEF GetCurrent
  <2> HIDE DEF s
  <2> QED BY <2>1, <2>2, <2>3, FinishShape, AdvanceShape
<1>4. ASSUME Write(t) PROVE TypeOK'
  <2> DEFINE s == [h[t] EXCEPT !.pc = "ack", !.resp = heap[h[t].cm]]
  <2>1. heap[h[t].cm] \in CMData
    BY <1>4, <1>a DEF Write, At, Holds, Rest
  <2>2. Rest'
    <3>1. spent' \in [Bounds -> Nat]
      BY <1>4, FailsTyped DEF Write
    <3>2. version' \in Nat /\ store' \in CMData
      BY <1>4, <1>a, <2>1 DEF Write, Rest
    <3> QED BY <1>4, <1>a, <3>1, <3>2 DEF Write, Rest, caches, cluster
  <2>3. s \in Handler /\ Holds(s)
    BY <1>a, <2>1 DEF Handler, Holds
  <2>4. Finish(t) \/ h' = [h EXCEPT ![t] = s]
    BY <1>4, ShapeIs DEF Write
  <2> HIDE DEF s
  <2> QED BY <2>2, <2>3, <2>4, FinishShape, AdvanceShape
<1>5. ASSUME WriteRefused(t) PROVE TypeOK'
  <2>1. spent' \in [Bounds -> Nat]
    BY <1>5, FailsTyped DEF WriteRefused
  <2>2. Rest' /\ Finish(t)
    BY <1>5, <1>a, <2>1 DEF WriteRefused, Rest, api, caches, cluster
  <2> QED BY <2>2, FinishShape
<1>6. ASSUME Ack(t) PROVE TypeOK'
  <2>1. h[t].resp \in CMData /\ Allocate(h[t].resp)
    BY <1>6, <1>a DEF Ack, At, Holds
  <2>2. heap' \in [Objects -> CMData] /\ NewObject \in Objects
    BY <2>1, AllocateTyped, FreshObject
  <2>3. Rest' /\ Finish(t)
    BY <1>6, <1>a, <2>2 DEF Ack, Rest, api, cluster
  <2> QED BY <2>3, FinishShape
<1> QED BY <1>1, <1>2, <1>3, <1>4, <1>5, <1>6

\* A request arrives.
LEMMA BeginShape ==
  ASSUME TypeOK, NEW t \in Threads, NEW r \in Serves[t], Begin(t, r)
  PROVE  TypeOK'
<1>a. /\ Rest /\ r \in Request /\ "edit" \in Bounds
      /\ h \in [Threads -> Handler] /\ \A u \in Threads : Holds(h[u])
  BY NsAssumption, ShapeIs DEF Bounds
<1>1. spent' \in [Bounds -> Nat] /\ acked' \subseteq Request
  <2>1. CASE r.kind \in EditKinds
    BY <1>a, <2>1, SpendTyped DEF Begin, Rest
  <2>2. CASE r.kind = "filter"
    BY <1>a, <2>2 DEF Begin, Rest, EditKinds
  <2>3. CASE r.kind \in {"check", "refresh", "get"}
    BY <1>a, <2>3 DEF Begin, Rest, EditKinds
  <2> QED BY <1>a, <2>1, <2>2, <2>3 DEF Request, Kinds
<1>2. Rest'
  BY <1>1, <1>a DEF Begin, Rest, api, caches, cluster
<1>3. PICK s \in Handler :
        /\ Holds(s)
        /\ \A u \in Threads : h'[u] \in { IF u = t THEN s ELSE h[u], [h[u] EXCEPT !.lone = FALSE] }
        /\ h' \in [Threads -> { h'[u] : u \in Threads }]
  <2> DEFINE edit == [Idle EXCEPT !.pc = "config", !.req = r,
                                  !.lone = Alone(r)]
             filter == [Idle EXCEPT !.pc = "config", !.req = r,
                                    !.labels = nodeLabels, !.todo = Nodes]
             check == [Idle EXCEPT !.pc = "nodes", !.req = r]
             get == [Idle EXCEPT !.pc = "config", !.req = r]
  <2>1. /\ edit \in Handler /\ Holds(edit) /\ filter \in Handler /\ Holds(filter)
        /\ check \in Handler /\ Holds(check) /\ get \in Handler /\ Holds(get)
    <3>1. nodeLabels \in [Nodes -> NodeLabels] /\ Alone(r) \in BOOLEAN
      BY <1>a DEF Rest, Alone
    <3> QED BY <1>a, <3>1, IdleState DEF Handler, Holds
  <2>2. CASE r.kind \in EditKinds
    <3>1. h' = WithEdit(t, r)
      BY <2>2 DEF Begin, EditKinds
    <3>2. WithEdit(t, r) = [u \in Threads |-> IF u = t THEN edit
                              ELSE IF Touches(u, r) THEN [h[u] EXCEPT !.lone = FALSE] ELSE h[u]]
      BY DEF WithEdit
    <3> HIDE DEF edit
    <3> QED BY <2>1, <3>1, <3>2
  <2>3. CASE r.kind = "filter"
    <3>1. h' = [h EXCEPT ![t] = filter]
      BY <2>3 DEF Begin, EditKinds
    <3> HIDE DEF filter
    <3> QED BY <1>a, <2>1, <3>1
  <2>4. CASE r.kind \in {"check", "refresh"}
    <3>1. h' = [h EXCEPT ![t] = check]
      BY <2>4 DEF Begin, EditKinds
    <3> HIDE DEF check
    <3> QED BY <1>a, <2>1, <3>1
  <2>5. CASE r.kind = "get"
    <3>1. h' = [h EXCEPT ![t] = get]
      BY <2>5 DEF Begin, EditKinds
    <3> HIDE DEF get
    <3> QED BY <1>a, <2>1, <3>1
  <2> QED BY <1>a, <2>2, <2>3, <2>4, <2>5 DEF Request, Kinds
<1>4. \A u \in Threads : [h[u] EXCEPT !.lone = FALSE] \in Handler
                         /\ Holds([h[u] EXCEPT !.lone = FALSE])
  BY <1>a DEF Handler, Holds
<1>5. \A u \in Threads : h'[u] \in Handler /\ Holds(h'[u])
  BY <1>3, <1>4, <1>a
<1>6. h' \in [Threads -> Handler]
  BY <1>3, <1>5
<1> QED BY <1>2, <1>5, <1>6 DEF TypeOK, Rest, Bounds, Holds

\* Time, operators and restarts.
LEMMA EnvironmentShape ==
  ASSUME TypeOK, Environment
  PROVE  TypeOK'
<1>a. /\ Rest /\ Bounds = {"edit", "fault", "hand", "restart", "relabel"}
      /\ h \in [Threads -> Handler] /\ \A u \in Threads : Holds(h[u])
  BY ShapeIs DEF Bounds
<1>1. ASSUME NEW p \in Procs, ExpireGlobal(p) \/ ExpireSelector(p) PROVE TypeOK'
  <2>1. h' = h /\ Rest'
    BY <1>1, <1>a DEF ExpireGlobal, ExpireSelector, Rest, api, cluster
  <2> QED BY <1>a, <2>1 DEF TypeOK, Rest, Bounds, Holds
<1>2. ASSUME NEW p \in Procs, Restart(p) PROVE TypeOK'
  <2>1. spent' \in [Bounds -> Nat]
    BY <1>2, <1>a, SpendTyped DEF Restart
  <2>2. Rest'
    BY <1>2, <1>a, <2>1 DEF Restart, Rest, api, cluster
  <2>3. h' \in [Threads -> Handler] /\ \A u \in Threads : Holds(h'[u])
    BY <1>2, <1>a, IdleState DEF Restart
  <2> QED BY <2>2, <2>3 DEF TypeOK, Rest, Bounds, Holds
<1>3. ASSUME NEW data \in HandEdits, HandEdit(data) PROVE TypeOK'
  <2>1. spent' \in [Bounds -> Nat]
    BY <1>3, <1>a, SpendTyped DEF HandEdit
  <2>2. Rest'
    BY <1>3, <1>a, <2>1, NsAssumption DEF HandEdit, Rest, caches, cluster
  <2>3. h' \in [Threads -> Handler] /\ \A u \in Threads : Holds(h'[u])
    <3>1. \A u \in Threads : [h[u] EXCEPT !.lone = FALSE] \in Handler
                             /\ Holds([h[u] EXCEPT !.lone = FALSE])
      BY <1>a DEF Handler, Holds
    <3> QED BY <1>3, <1>a, <3>1 DEF HandEdit
  <2> QED BY <2>2, <2>3 DEF TypeOK, Rest, Bounds, Holds
<1>4. ASSUME NEW n \in Nodes, NEW labels \in NewLabels, Relabel(n, labels) PROVE TypeOK'
  <2>1. spent' \in [Bounds -> Nat]
    BY <1>4, <1>a, SpendTyped DEF Relabel
  <2>2. h' = h /\ Rest'
    BY <1>4, <1>a, <2>1, NsAssumption DEF Relabel, Rest, api, caches
  <2> QED BY <1>a, <2>2 DEF TypeOK, Rest, Bounds, Holds
<1> QED BY <1>1, <1>2, <1>3, <1>4 DEF Environment

LEMMA NextShape ==
  ASSUME TypeOK, [Next]_vars
  PROVE  TypeOK'
<1>1. CASE UNCHANGED vars
  BY <1>1 DEF vars, TypeOK, Holds
<1>2. ASSUME NEW t \in Threads, Step(t) PROVE TypeOK'
  BY <1>2, ReadShape, JudgeShape, EditShape DEF Step
<1> QED BY <1>1, <1>2, BeginShape, EnvironmentShape DEF Next

(* Whatever overlaps, fails or restarts, the variables keep their types; in *)
(* particular a handler never follows a nil pointer to a ConfigMap: it holds *)
(* an object at every place of the code that uses one.                      *)
THEOREM TypeCorrect == Spec => []TypeOK
BY InitShape, NextShape, PTL DEF Spec

-----------------------------------------------------------------------------
(* The nodes of the system.  A configuration shuts them to a namespace     *)
(* when its NotMatch map, or the default for it, has the system label.     *)

ShutFor(data, ns) ==
  \/ data = NilData
  \/ /\ data \in NsConfig
     /\ data[ns] # Absent /\ data[ns]["notmatch"] # NilMap => Wildcard \in data[ns]["notmatch"][SysKey]

\* The guarded namespaces that nothing but the service could open either.
Closed == { ns \in Guarded : \A data \in (InitStores \cup HandEdits) \ {Nil} : ShutFor(data, ns) }
Shut(data) == \A ns \in Closed : ShutFor(data, ns)

\* The namespaces can be listed, and pods are filtered for closed ones.
SystemShut ==
  /\ "list" \notin Faults
  /\ \A t \in Threads : \A r \in Serves[t] : r.kind = "filter" /\ r.ns \in Guarded => r.ns \in Closed

LEMMA EmptyShut == Shut(EmptyConfig) /\ Closed \subseteq Guarded /\ Guarded \subseteq Listed
                   /\ Closed \subseteq Namespaces
<1>1. Closed \subseteq Guarded /\ Guarded \subseteq Listed /\ Listed \subseteq Namespaces
  BY NsAssumption DEF Closed, Guarded
<1>2. EmptyConfig \in NsConfig /\ \A ns \in Namespaces : EmptyConfig[ns] = Absent
  BY EmptyTypes DEF EmptyConfig
<1> QED BY <1>1, <1>2 DEF Shut, ShutFor

\* The map an item is read with.
LEMMA ReadShuts ==
  ASSUME NEW stored \in NsConfig, NEW ns \in Namespaces, ShutFor(stored, ns),
         NEW item, item = Read(stored, ns)
  PROVE  /\ item \in NsConfigItem /\ item["notmatch"] \in LabelValues
         /\ Wildcard \in item["notmatch"][SysKey]
<1> DEFINE given == IF stored[ns] = Absent THEN EmptyItem ELSE stored[ns]
<1>1. given \in NsConfigItem /\ item = WithDefault(given)
  BY EmptyTypes DEF Read, NsConfig
<1>2. item \in NsConfigItem /\ item["notmatch"] \in LabelValues
  <2> HIDE DEF given
  <2> QED BY <1>1, DefaultType
<1>3. given["notmatch"] # NilMap => Wildcard \in given["notmatch"][SysKey]
  <2>1. stored # NilData /\ EmptyItem["notmatch"] = NilMap
    BY MarkerAssumption DEF EmptyItem, MatchTypes
  <2> QED BY <2>1 DEF ShutFor
<1>4. Wildcard \in SystemLabel[SysKey]
  BY SelectorAssumption DEF SystemLabel, EmptyMap
<1>5. Wildcard \in item["notmatch"][SysKey]
  <2> HIDE DEF given
  <2>1. "notmatch" \in MatchTypes
    BY DEF MatchTypes
  <2> QED BY <1>1, <1>3, <1>4, <2>1 DEF WithDefault, NsConfigItem
<1> QED BY <1>2, <1>5

\* A node a shut configuration accepts does not carry the system label.
LEMMA ShutRefuses ==
  ASSUME NEW data, NEW ns \in Namespaces, ShutFor(data, ns), NEW labels,
         NodeAccepted(NsConfigOf(data, {}), ns, labels)
  PROVE  labels[SysKey] = Absent
<1>1. PICK stored \in NsConfig : ShutFor(stored, ns) /\ NsConfigOf(stored, {}) = NsConfigOf(data, {})
  <2>1. CASE data = NilData
    <3>1. EmptyConfig \in NsConfig /\ EmptyConfig # BadJson /\ EmptyConfig # NilData
          /\ NilData # BadJson /\ EmptyConfig[ns] = Absent
      BY EmptyTypes, MarkerAssumption DEF EmptyConfig
    <3>2. NsConfigOf(EmptyConfig, {}) = NsConfigOf(data, {})
      BY <2>1, <3>1 DEF NsConfigOf
    <3> QED BY <3>1, <3>2 DEF ShutFor
  <2>2. CASE data # NilData
    BY <2>2 DEF ShutFor
  <2> QED BY <2>1, <2>2
<1> DEFINE item == Read(stored, ns)
           term == TermOf(item, "notmatch", SysKey)
<1>2. /\ item["notmatch"] \in LabelValues /\ Wildcard \in item["notmatch"][SysKey]
  BY <1>1, ReadShuts
<1>3. SelectorMatches(ItemTerms(item), labels)
  BY <1>1, AcceptedRead
<1> HIDE DEF item
<1>4. MakeMap(item["notmatch"]) = item["notmatch"]
  BY <1>2, MarkerAssumption DEF MakeMap
<1>5. term \in ItemTerms(item)
  <2>1. HasTerm(item, "notmatch", SysKey) /\ "notmatch" \in MatchTypes /\ SysKey \in Keys
    BY <1>2, <1>4, SelectorAssumption DEF HasTerm, MatchTypes
  <2>2. \A t : t \in ItemTerms(item) <=>
          \E m \in MatchTypes, k \in Keys : HasTerm(item, m, k) /\ t = TermOf(item, m, k)
    BY TermsAre
  <2> QED BY <2>1, <2>2
<1>6. term.key = SysKey /\ term.neg = TRUE /\ Wildcard \in term.vals
  BY <1>2, <1>4 DEF TermOf, Term
<1>7. TermMatches(term, labels)
  <2> HIDE DEF term
  <2> QED BY <1>3, <1>5 DEF SelectorMatches
<1> HIDE DEF term
<1> QED BY <1>6, <1>7 DEF TermMatches

\* No edit request of the service opens a closed namespace: the only one
\* for its entry is an add, and the entry is there.
LEMMA EditKeepsShut ==
  ASSUME NEW data \in NsConfig, Shut(data), NEW t \in Threads, NEW r \in Serves[t],
         r.kind \in EditKinds, EditAllowed(NsConfigOf(data, Listed), r)
  PROVE  Shut(EditedConfig(NsConfigOf(data, Listed), r))
<1> DEFINE base == NsConfigOf(data, Listed)
<1>1. /\ r.ns \in Namespaces /\ r.type \in MatchTypes /\ r.key \in Keys /\ r.vals \in SUBSET Values
  BY NsAssumption DEF Request
<1>2. base \in NsConfig /\ base # BadJson
      /\ \A ns \in Namespaces : base[ns] = ItemOf(data, ns, Listed)
  BY ConfigOf, MarkerAssumption
<1>3. \A ns \in Closed : /\ base[ns] = Read(data, ns) /\ base[ns] \in NsConfigItem
                         /\ base[ns]["notmatch"] \in LabelValues
                         /\ Wildcard \in base[ns]["notmatch"][SysKey]
  <2> SUFFICES ASSUME NEW ns \in Closed
               PROVE  /\ base[ns] = Read(data, ns) /\ base[ns] \in NsConfigItem
                      /\ base[ns]["notmatch"] \in LabelValues
                      /\ Wildcard \in base[ns]["notmatch"][SysKey]
    OBVIOUS
  <2>1. ns \in Listed /\ ns \in Namespaces /\ ShutFor(data, ns)
    BY EmptyShut DEF Shut
  <2>2. base[ns] = Read(data, ns)
    <3> HIDE DEF base
    <3> QED BY <1>2, <2>1 DEF ItemOf, Read
  <2> HIDE DEF base
  <2> QED BY <2>1, <2>2, ReadShuts
<1> HIDE DEF base
<1>4. /\ EditBase(base) = base /\ RequestMap(base, r) \in LabelValues
      /\ EditedMap(base, r) \in LabelValues /\ EditedConfig(base, r) \in NsConfig
      /\ RequestItem(base, r) \in NsConfigItem
  BY <1>1, <1>2, EditIsTyped DEF EditBase
<1> SUFFICES ASSUME NEW ns \in Closed PROVE ShutFor(EditedConfig(base, r), ns)
  BY DEF Shut, base
<1>5. ns \in Namespaces /\ base[ns] # Absent
  BY <1>3, EmptyShut, MarkerAssumption
<1>6. CASE ns # r.ns
  <2>1. EditedConfig(base, r)[ns] = base[ns]
    BY <1>2, <1>4, <1>5, <1>6 DEF EditedConfig, NsConfig
  <2> QED BY <1>3, <1>4, <2>1 DEF ShutFor
<1>7. CASE ns = r.ns
  <2>1. RequestItem(base, r) = base[ns]
    BY <1>4, <1>5, <1>7 DEF RequestItem
  <2>2. EditedConfig(base, r)[ns] = [base[ns] EXCEPT ![r.type] = EditedMap(base, r)]
    BY <1>1, <1>2, <1>4, <1>7, <2>1 DEF EditedConfig, NsConfig
  <2>3. CASE r.type # "notmatch"
    <3>1. EditedConfig(base, r)[ns]["notmatch"] = base[ns]["notmatch"]
      BY <1>3, <2>2, <2>3 DEF NsConfigItem, MatchTypes
    <3> QED BY <1>3, <1>4, <3>1 DEF ShutFor
  <2>4. CASE r.type = "notmatch"
    <3>1. EditedConfig(base, r)[ns]["notmatch"] = EditedMap(base, r)
      BY <1>3, <2>2, <2>4 DEF NsConfigItem, MatchTypes
    <3>2. RequestMap(base, r) = base[ns]["notmatch"]
      BY <1>3, <2>1, <2>4, MarkerAssumption DEF RequestMap, MakeMap
    <3>3. r.key # SysKey
      <4>1. r.key = SysKey => r.kind \in {"add", "filter"}
        BY <1>7, <2>4, EmptyShut DEF Guarded
      <4>2. r.key = SysKey => r.kind # "add"
        BY <1>3, <3>2 DEF EditAllowed, base
      <4> QED BY <4>1, <4>2 DEF EditKinds
    <3>4. EditedMap(base, r)[SysKey] = base[ns]["notmatch"][SysKey]
      BY <1>4, <3>2, <3>3, SelectorAssumption DEF EditedMap, LabelValues
    <3> QED BY <1>3, <1>4, <3>1, <3>4 DEF ShutFor
  <2> QED BY <2>3, <2>4
<1> QED BY <1>6, <1>7

\* What a handler carries keeps the closed namespaces closed.
Sound(t, s) ==
  /\ s.pc # "idle" => s.req \in Serves[t]
  /\ s.resp = Nil \/ Shut(s.resp)
  /\ s.pc = "set" => Shut(s.cfg)
  /\ s.pc = "bind" => s.req.kind = "filter"
  /\ s.pc = "nodes" => s.ok = {}
  /\ s.req.kind = "filter" =>
       \A n \in s.ok : s.req.ns \in Closed => s.labels[n][SysKey] = Absent

AllShut == (store = Nil \/ Shut(store)) /\ \A o \in Objects : Shut(heap[o])

IInv == TypeOK /\ AllShut /\ \A t \in Threads : Sound(t, h[t])

LEMMA IdleSound == \A t : Sound(t, Idle)
BY IdleState DEF Sound, Idle

LEMMA InitIInv == SystemShut /\ Init => IInv
<1> SUFFICES ASSUME SystemShut, Init PROVE IInv
  OBVIOUS
<1>1. TypeOK
  BY InitShape
<1>2. AllShut
  BY EmptyShut DEF Init, AllShut, Shut, Closed
<1>3. \A t \in Threads : Sound(t, h[t])
  BY IdleSound DEF Init
<1> QED BY <1>1, <1>2, <1>3 DEF IInv

\* A step of one handler.
LEMMA AdvanceIInv ==
  ASSUME IInv, TypeOK', AllShut', NEW t \in Threads, NEW s, Sound(t, s), h' = [h EXCEPT ![t] = s]
  PROVE  IInv'
<1>1. \A u \in Threads : h'[u] = IF u = t THEN s ELSE h[u]
  BY ShapeIs DEF IInv
<1>2. \A u \in Threads : Sound(u, h'[u])
  BY <1>1 DEF IInv
<1> QED BY <1>2 DEF IInv

LEMMA FinishIInv ==
  ASSUME IInv, TypeOK', AllShut', NEW t \in Threads, Finish(t)
  PROVE  IInv'
BY IdleSound, AdvanceIInv DEF Finish

LEMMA AllocateShut ==
  ASSUME AllShut, NEW data, Shut(data), Allocate(data)
  PROVE  \A o \in Objects : Shut(heap'[o])
BY EmptyShut DEF AllShut, Allocate

LEMMA ReadIInv ==
  ASSUME IInv, NEW t \in Threads, TypeOK',
         GetNodes(t) \/ HitSelectorCache(t) \/ HitGlobalCache(t) \/ GetConfigMap(t) \/ Install(t)
  PROVE  IInv'
<1>a. h[t] \in Handler /\ Sound(t, h[t]) /\ AllShut /\ h \in [Threads -> Handler]
  BY ShapeIs DEF IInv
<1>1. ASSUME GetNodes(t) PROVE IInv'
  <2> DEFINE s == [h[t] EXCEPT !.pc = "config", !.labels = nodeLabels]
  <2>1. AllShut' /\ (Finish(t) \/ h' = [h EXCEPT ![t] = s])
    BY <1>1, <1>a DEF GetNodes, api, AllShut
  <2>2. Sound(t, s)
    BY <1>1, <1>a DEF GetNodes, At, Handler, Sound
  <2> HIDE DEF s
  <2> QED BY <2>1, <2>2, FinishIInv, AdvanceIInv
<1>2. ASSUME HitSelectorCache(t) \/ HitGlobalCache(t) PROVE IInv'
  <2>1. PICK o : h' = [h EXCEPT ![t] = [h[t] EXCEPT !.pc = "use", !.cm = o]]
    BY <1>2, <1>a DEF HitSelectorCache, HitGlobalCache
  <2> DEFINE s == [h[t] EXCEPT !.pc = "use", !.cm = o]
  <2>2. AllShut'
    BY <1>2, <1>a DEF HitSelectorCache, HitGlobalCache, api, AllShut
  <2>3. Sound(t, s)
    BY <1>2, <1>a DEF HitSelectorCache, HitGlobalCache, At, Handler, Sound
  <2> HIDE DEF s
  <2> QED BY <2>1, <2>2, <2>3, AdvanceIInv DEF s
<1>3. ASSUME GetConfigMap(t) PROVE IInv'
  <2>1. PICK data \in {store, Nil} :
          h' = [h EXCEPT ![t] = [h[t] EXCEPT !.pc = "install", !.resp = data]]
    BY <1>3, <1>a DEF GetConfigMap
  <2> DEFINE s == [h[t] EXCEPT !.pc = "install", !.resp = data]
  <2>2. AllShut' /\ (data = Nil \/ Shut(data))
    BY <1>3, <1>a DEF GetConfigMap, api, AllShut
  <2>3. Sound(t, s)
    BY <1>3, <1>a, <2>2 DEF GetConfigMap, At, Handler, Sound
  <2> HIDE DEF s
  <2> QED BY <2>1, <2>2, <2>3, AdvanceIInv DEF s
<1>4. ASSUME Install(t) PROVE IInv'
  <2> DEFINE s == [h[t] EXCEPT !.pc = "use", !.cm = NewObject, !.resp = Nil]
             data == IF h[t].resp = Nil THEN EmptyConfig ELSE h[t].resp
  <2>1. Shut(data)
    BY <1>a, EmptyShut DEF Sound
  <2>2. Allocate(data) /\ UNCHANGED store
    BY <1>4 DEF Install, api
  <2> HIDE DEF data
  <2>3. AllShut'
    BY <1>a, <2>1, <2>2, AllocateShut DEF AllShut
  <2>4. Sound(t, s) /\ h' = [h EXCEPT ![t] = s]
    BY <1>4, <1>a DEF Install, At, Handler, Sound
  <2> HIDE DEF s
  <2> QED BY <2>3, <2>4, AdvanceIInv
<1> QED BY <1>1, <1>2, <1>3, <1>4

LEMMA JudgeIInv ==
  ASSUME IInv, NEW t \in Threads, TypeOK',
         \/ \E n \in Nodes : Judge(t, n)
         \/ Bind(t) \/ Show(t) \/ Check(t) \/ SelectNodes(t) \/ GetPods(t)
         \/ \E p \in Pods : DeletePod(t, p)
         \/ Refreshed(t)
  PROVE  IInv'
<1>a. /\ h[t] \in Handler /\ Sound(t, h[t]) /\ AllShut /\ h \in [Threads -> Handler]
      /\ Holds(h[t]) /\ h[t].req.ns \in Namespaces
  BY ShapeIs DEF IInv, Handler, Request
<1>b. AllShut'
  BY <1>a DEF Judge, Bind, Show, Check, SelectNodes, GetPods, DeletePod, Refreshed, api, AllShut
<1>1. ASSUME NEW n \in Nodes, Judge(t, n) PROVE IInv'
  <2> DEFINE ok == IF Accepted(t, n) THEN h[t].ok \cup {n} ELSE h[t].ok
             s == [h[t] EXCEPT !.todo = h[t].todo \ {n}, !.ok = ok,
                               !.cm = Nil, !.pc = IF h[t].todo = {n} THEN "bind" ELSE "config"]
  <2>1. h' = [h EXCEPT ![t] = s]
    BY <1>1, <1>a DEF Judge
  <2>2. h[t].req.ns \in Closed /\ Accepted(t, n) => h[t].labels[n][SysKey] = Absent
    <3>1. h[t].cm \in Objects
      BY <1>1, <1>a DEF Judge, At, Holds
    <3>2. h[t].req.ns \in Closed => ShutFor(heap[h[t].cm], h[t].req.ns)
      BY <1>a, <3>1 DEF AllShut, Shut
    <3> QED BY <1>a, <3>2, ShutRefuses DEF Accepted
  <2>3. \A m \in ok : h[t].req.ns \in Closed => h[t].labels[m][SysKey] = Absent
    BY <1>1, <1>a, <2>2 DEF Judge, Sound
  <2> HIDE DEF ok
  <2>4. Sound(t, s)
    BY <1>1, <1>a, <2>3 DEF Judge, At, Handler, Sound
  <2> HIDE DEF s
  <2> QED BY <1>b, <2>1, <2>4, AdvanceIInv
<1>2. ASSUME Bind(t) \/ Show(t) \/ Check(t) \/ Refreshed(t) PROVE IInv'
  BY <1>2, <1>b, FinishIInv DEF Bind, Show, Check, Refreshed
<1>3. ASSUME SelectNodes(t) PROVE IInv'
  <2> DEFINE ok == { n \in Nodes : Accepted(t, n) }
             s == [h[t] EXCEPT !.ok = ok, !.pc = "pods", !.cm = Nil]
  <2>1. Finish(t) \/ h' = [h EXCEPT ![t] = s]
    BY <1>3, <1>a DEF SelectNodes
  <2> HIDE DEF ok
  <2>2. Sound(t, s)
    BY <1>3, <1>a DEF SelectNodes, At, Handler, Sound
  <2> HIDE DEF s
  <2> QED BY <1>b, <2>1, <2>2, FinishIInv, AdvanceIInv
<1>4. ASSUME GetPods(t) PROVE IInv'
  <2> DEFINE todo == { p \in Pods : PodNs[p] = h[t].req.ns /\ place[p] \in Nodes \ h[t].ok }
             s == [h[t] EXCEPT !.pc = "delete", !.todo = todo]
  <2>1. Finish(t) \/ h' = [h EXCEPT ![t] = s]
    BY <1>4, <1>a DEF GetPods
  <2> HIDE DEF todo
  <2>2. Sound(t, s)
    BY <1>4, <1>a DEF GetPods, At, Handler, Sound
  <2> HIDE DEF s
  <2> QED BY <1>b, <2>1, <2>2, FinishIInv, AdvanceIInv
<1>5. ASSUME NEW p \in Pods, DeletePod(t, p) PROVE IInv'
  <2> DEFINE s == [h[t] EXCEPT !.todo = h[t].todo \ {p}]
  <2>1. h' = [h EXCEPT ![t] = s] /\ Sound(t, s)
    BY <1>5, <1>a DEF DeletePod, At, Handler, Sound
  <2> HIDE DEF s
  <2> QED BY <1>b, <2>1, AdvanceIInv
<1> QED BY <1>1, <1>2, <1>3, <1>4, <1>5

LEMMA EditIInv ==
  ASSUME SystemShut, IInv, NEW t \in Threads, TypeOK',
         EditCopy(t) \/ SetNsConfig(t) \/ GetCurrent(t) \/ Write(t) \/ WriteRefused(t) \/ Ack(t)
  PROVE  IInv'
<1>a. /\ h[t] \in Handler /\ Sound(t, h[t]) /\ AllShut /\ h \in [Threads -> Handler]
      /\ Holds(h[t]) /\ heap \in [Objects -> CMData]
  BY ShapeIs DEF IInv, Rest
<1>1. ASSUME EditCopy(t) PROVE IInv'
  <2> DEFINE base == NsConfigOf(heap[h[t].cm], Listed)
             cfg == EditedConfig(base, h[t].req)
             s == [h[t] EXCEPT !.pc = "set", !.cfg = cfg]
  <2>1. \/ Finish(t)
        \/ EditAllowed(base, h[t].req) /\ h' = [h EXCEPT ![t] = s]
    BY <1>1, <1>a DEF EditCopy, Fails, SystemShut
  <2>2. AllShut'
    BY <1>1, <1>a DEF EditCopy, api, AllShut
  <2>3. ASSUME EditAllowed(base, h[t].req) PROVE Shut(cfg)
    <3>1. /\ h[t].req \in Serves[t] /\ h[t].req.kind \in EditKinds
          /\ heap[h[t].cm] \in CMData /\ Shut(heap[h[t].cm])
      BY <1>1, <1>a DEF EditCopy, At, IsEdit, Holds, Sound, AllShut
    <3>2. PICK data \in CMData : /\ data # NilData /\ Shut(data)
                                 /\ NsConfigOf(data, Listed) = base
      <4>1. CASE heap[h[t].cm] = NilData
        <5>1. EmptyConfig \in NsConfig /\ EmptyConfig # BadJson /\ EmptyConfig # NilData
              /\ NilData # BadJson
          BY EmptyTypes, MarkerAssumption
        <5>2. NsConfigOf(EmptyConfig, Listed) = base
          BY <4>1, <5>1 DEF NsConfigOf
        <5> HIDE DEF base
        <5> QED BY <5>1, <5>2, EmptyShut DEF CMData
      <4>2. CASE heap[h[t].cm] # NilData
        BY <3>1, <4>2
      <4> QED BY <4>1, <4>2
    <3>3. CASE data \in NsConfig
      <4> HIDE DEF base
      <4>1. Shut(EditedConfig(NsConfigOf(data, Listed), h[t].req))
        BY <2>3, <3>1, <3>2, <3>3, EditKeepsShut
      <4> QED BY <3>2, <4>1
    <3>4. CASE data \notin NsConfig
      <4>1. Closed = {}
        BY <3>2, <3>4 DEF Shut, ShutFor
      <4> QED BY <4>1 DEF Shut
    <3> QED BY <3>3, <3>4
  <2> HIDE DEF cfg, base
  <2>4. EditAllowed(base, h[t].req) => Sound(t, s)
    BY <1>1, <1>a, <2>3 DEF EditCopy, At, Handler, Sound
  <2> HIDE DEF s
  <2> QED BY <2>1, <2>2, <2>4, FinishIInv, AdvanceIInv
<1>2. ASSUME SetNsConfig(t) PROVE IInv'
  <2> DEFINE s == [h[t] EXCEPT !.pc = "current", !.cfg = BadJson]
  <2>1. AllShut'
    BY <1>2, <1>a DEF SetNsConfig, At, Sound, api, AllShut
  <2>2. Finish(t) \/ h' = [h EXCEPT ![t] = s]
    BY <1>2, <1>a DEF SetNsConfig
  <2>3. Sound(t, s)
    BY <1>2, <1>a DEF SetNsConfig, At, Handler, Sound
  <2> HIDE DEF s
  <2> QED BY <2>1, <2>2, <2>3, FinishIInv, AdvanceIInv
<1>3. ASSUME GetCurrent(t) PROVE IInv'
  <2> DEFINE s == [h[t] EXCEPT !.pc = IF store = Nil THEN "create" ELSE "put", !.rv = version]
  <2>1. AllShut' /\ (Finish(t) \/ h' = [h EXCEPT ![t] = s])
    BY <1>3, <1>a DEF GetCurrent, api, AllShut
  <2>2. Sound(t, s)
    BY <1>3, <1>a DEF GetCurrent, At, Handler, Sound
  <2> HIDE DEF s
  <2> QED BY <2>1, <2>2, FinishIInv, AdvanceIInv
<1>4. ASSUME Write(t) PROVE IInv'
  <2> DEFINE s == [h[t] EXCEPT !.pc = "ack", !.resp = heap[h[t].cm]]
  <2>1. Shut(heap[h[t].cm])
    BY <1>4, <1>a DEF Write, At, Holds, AllShut
  <2>2. AllShut' /\ (Finish(t) \/ h' = [h EXCEPT ![t] = s])
    BY <1>4, <1>a, <2>1 DEF Write, AllShut
  <2>3. Sound(t, s)
    BY <1>4, <1>a, <2>1 DEF Write, At, Handler, Sound
  <2> HIDE DEF s
  <2> QED BY <2>2, <2>3, FinishIInv, AdvanceIInv
<1>5. ASSUME WriteRefused(t) PROVE IInv'
  BY <1>5, <1>a, FinishIInv DEF WriteRefused, api, AllShut
<1>6. ASSUME Ack(t) PROVE IInv'
  <2>1. Shut(h[t].resp) /\ Allocate(h[t].resp) /\ UNCHANGED store /\ Finish(t)
    BY <1>6, <1>a, NsAssumption DEF Ack, At, Holds, Sound, api
  <2>2. AllShut'
    BY <1>a, <2>1, AllocateShut DEF AllShut
  <2> QED BY <2>1, <2>2, FinishIInv
<1> QED BY <1>1, <1>2, <1>3, <1>4, <1>5, <1>6

LEMMA NextIInv ==
  ASSUME SystemShut, IInv, [Next]_vars
  PROVE  IInv'
<1>a. TypeOK' /\ AllShut /\ h \in [Threads -> Handler] /\ \A t \in Threads : Sound(t, h[t])
  BY NextShape, ShapeIs DEF IInv
<1>1. CASE UNCHANGED vars
  BY <1>1, <1>a DEF vars, IInv, AllShut
<1>2. ASSUME NEW t \in Threads, Step(t) PROVE IInv'
  BY <1>2, <1>a, ReadIInv, JudgeIInv, EditIInv DEF Step
<1>3. ASSUME NEW t \in Threads, NEW r \in Serves[t], Begin(t, r) PROVE IInv'
  <2>1. AllShut'
    BY <1>3, <1>a DEF Begin, api, AllShut
  <2> DEFINE filter == [Idle EXCEPT !.pc = "config", !.req = r,
                                    !.labels = nodeLabels, !.todo = Nodes]
             check == [Idle EXCEPT !.pc = "nodes", !.req = r]
             get == [Idle EXCEPT !.pc = "config", !.req = r]
             edit == [Idle EXCEPT !.pc = "config", !.req = r, !.lone = Alone(r)]
  <2>2. Sound(t, filter) /\ Sound(t, check) /\ Sound(t, get) /\ Sound(t, edit)
    BY DEF Sound, Idle
  <2>3. CASE r.kind \in EditKinds
    <3>1. h' = WithEdit(t, r)
      BY <1>3, <2>3 DEF Begin, EditKinds
    <3>2. \A u \in Threads : h'[u] \in {IF u = t THEN edit ELSE h[u], [h[u] EXCEPT !.lone = FALSE]}
      BY <3>1 DEF WithEdit
    <3>3. \A u \in Threads : Sound(u, [h[u] EXCEPT !.lone = FALSE])
      BY <1>a DEF Sound, Handler
    <3> HIDE DEF edit
    <3>4. \A u \in Threads : Sound(u, h'[u])
      BY <1>a, <2>2, <3>2, <3>3
    <3> QED BY <1>a, <2>1, <3>4 DEF IInv
  <2>4. CASE r.kind \notin EditKinds
    <3>1. h' = [h EXCEPT ![t] = filter] \/ h' = [h EXCEPT ![t] = check] \/ h' = [h EXCEPT ![t] = get]
      <4>1. r.kind \in Kinds
        BY NsAssumption DEF Request
      <4> QED BY <1>3, <2>4, <4>1 DEF Begin, EditKinds, Kinds
    <3> HIDE DEF filter, check, get
    <3> QED BY <1>a, <2>1, <2>2, <3>1, AdvanceIInv
  <2> QED BY <2>3, <2>4
<1>4. ASSUME Environment PROVE IInv'
  <2>1. AllShut'
    <3>1. ASSUME NEW data \in HandEdits, HandEdit(data) PROVE AllShut'
      BY <1>a, <3>1, NsAssumption DEF HandEdit, AllShut, Shut, Closed
    <3> QED BY <1>4, <1>a, <3>1
            DEF Environment, ExpireGlobal, ExpireSelector, Restart, Relabel, api, AllShut
  <2>2. \A t \in Threads : h'[t] \in {h[t], Idle, [h[t] EXCEPT !.lone = FALSE]}
    BY <1>4, <1>a DEF Environment, ExpireGlobal, ExpireSelector, Restart, Relabel, HandEdit
  <2>3. \A t \in Threads : Sound(t, [h[t] EXCEPT !.lone = FALSE])
    BY <1>a DEF Sound, Handler
  <2>4. \A t \in Threads : Sound(t, h'[t])
    BY <1>a, <2>2, <2>3, IdleSound
  <2> QED BY <1>a, <2>1, <2>4 DEF IInv
<1> QED BY <1>1, <1>2, <1>3, <1>4 DEF Next

(* The default of GetNsConfigByConfigMap holds: while the namespaces can    *)
(* be listed and no operator opens the namespace by hand, no overlap of    *)
(* handlers, no stale cache, lost answer or restart lets a pod of a        *)
(* guarded namespace onto a node that carries the system label.            *)
THEOREM SystemNodesGuardedAlways == SystemShut => (Spec => []SystemNodesGuarded)
<1> SUFFICES ASSUME SystemShut PROVE Spec => []SystemNodesGuarded
  OBVIOUS
<1>1. Init => IInv
  BY InitIInv
<1>2. IInv /\ [Next]_vars => IInv'
  BY NextIInv
<1>3. IInv => SystemNodesGuarded
  <2> SUFFICES ASSUME IInv, NEW t \in Threads, NEW n \in h[t].ok, At(t, "bind"),
                      h[t].req.ns \in Guarded
               PROVE  h[t].labels[n][SysKey] = Absent
    BY DEF SystemNodesGuarded
  <2>1. Sound(t, h[t])
    BY DEF IInv
  <2>2. h[t].req \in Serves[t] /\ h[t].req.kind = "filter"
    BY <2>1 DEF At, Sound
  <2>3. h[t].req.ns \in Closed
    BY <2>2 DEF SystemShut
  <2> QED BY <2>1, <2>2, <2>3 DEF Sound
<1> QED BY <1>1, <1>2, <1>3, PTL DEF Spec

-----------------------------------------------------------------------------
(***************************************************************************)
(* In this part: one process that is asked one request at a time, and the  *)
(* API server answers.  For any number of goroutines, requests, restarts   *)
(* and timeouts the two caches hold what is stored, nodes are judged by    *)
(* it, and what was acknowledged is in it.                                 *)
(***************************************************************************)
OneAtATime ==
  /\ Pacing = "serial" /\ HandEdits = {} /\ Faults \cap {"read", "write"} = {}
  /\ \A p, q \in Procs : p = q

-----------------------------------------------------------------------------
(* Entries of a configuration. *)

Entry(data, a) ==
  /\ data \in NsConfig /\ data[a.ns] # Absent /\ data[a.ns][a.type] # NilMap
  /\ data[a.ns][a.type][a.key] = a.vals

\* An edit leaves the other entries as they are ...
LEMMA OthersStay ==
  ASSUME NEW data, NEW listed, NEW a \in Request, Entry(data, a),
         NEW r \in Request, ~SameEntry(a, r)
  PROVE  Entry(EditedConfig(NsConfigOf(data, listed), r), a)
<1> DEFINE base == NsConfigOf(data, listed)
<1>1. /\ a.ns \in Namespaces /\ a.type \in MatchTypes /\ a.key \in Keys
      /\ r.ns \in Namespaces /\ r.type \in MatchTypes /\ r.key \in Keys /\ r.vals \in SUBSET Values
  BY DEF Request
<1>2. data \in NsConfig /\ data[a.ns] \in NsConfigItem /\ data[a.ns] # Absent
  BY <1>1 DEF Entry, NsConfig
<1>3. base \in NsConfig /\ base # BadJson /\ base[a.ns] = WithDefault(data[a.ns])
  BY <1>1, <1>2, ConfigOf, MarkerAssumption DEF ItemOf
<1>4. base[a.ns] \in NsConfigItem /\ base[a.ns] # Absent
  BY <1>2, <1>3, DefaultType, MarkerAssumption
<1>5. base[a.ns][a.type] = data[a.ns][a.type]
  BY <1>1, <1>2, <1>3 DEF WithDefault, Entry, NsConfigItem
<1> HIDE DEF base
<1>6. /\ EditBase(base) = base /\ EditedMap(base, r) \in LabelValues
      /\ EditedConfig(base, r) \in NsConfig /\ RequestItem(base, r) \in NsConfigItem
      /\ RequestMap(base, r) \in LabelValues
  BY <1>1, <1>3, EditIsTyped DEF EditBase
<1>7. base[a.ns][a.type] # NilMap /\ base[a.ns][a.type][a.key] = a.vals
  BY <1>5 DEF Entry
<1>8. CASE a.ns # r.ns
  <2>1. EditedConfig(base, r)[a.ns] = base[a.ns]
    BY <1>1, <1>3, <1>6, <1>8 DEF EditedConfig, NsConfig
  <2> QED BY <1>4, <1>6, <1>7, <2>1 DEF Entry, base
<1>9. CASE a.ns = r.ns
  <2>1. RequestItem(base, r) = base[a.ns]
    BY <1>4, <1>6, <1>9 DEF RequestItem
  <2>2. EditedConfig(base, r)[a.ns] = [base[a.ns] EXCEPT ![r.type] = EditedMap(base, r)]
    BY <1>1, <1>3, <1>6, <1>9, <2>1 DEF EditedConfig, NsConfig
  <2>3. EditedConfig(base, r)[a.ns] # Absent
    <3>1. [base[a.ns] EXCEPT ![r.type] = EditedMap(base, r)] \in NsConfigItem
      BY <1>4, <1>6 DEF NsConfigItem
    <3> QED BY <2>2, <3>1, MarkerAssumption
  <2>4. CASE a.type # r.type
    <3>1. EditedConfig(base, r)[a.ns][a.type] = base[a.ns][a.type]
      BY <1>1, <1>4, <2>2, <2>4 DEF NsConfigItem
    <3> QED BY <1>6, <1>7, <2>3, <3>1 DEF Entry, base
  <2>5. CASE a.type = r.type
    <3>1. EditedConfig(base, r)[a.ns][a.type] = EditedMap(base, r)
      BY <1>1, <1>4, <2>2, <2>5 DEF NsConfigItem
    <3>2. RequestMap(base, r) = base[a.ns][a.type]
      BY <1>7, <2>1, <2>5 DEF RequestMap, MakeMap
    <3>3. a.key # r.key
      BY <1>9, <2>5 DEF SameEntry
    <3>4. EditedMap(base, r)[a.key] = base[a.ns][a.type][a.key]
      BY <1>1, <1>6, <3>2, <3>3 DEF EditedMap, LabelValues
    <3>5. EditedMap(base, r) # NilMap
      BY <1>6, MarkerAssumption
    <3> QED BY <1>6, <1>7, <2>3, <3>1, <3>4, <3>5 DEF Entry, base
  <2> QED BY <2>4, <2>5
<1> QED BY <1>8, <1>9

\* ... and puts its own in.
LEMMA OwnEntry ==
  ASSUME NEW base \in NsConfig \cup {BadJson}, NEW r \in Request, r.kind # "delete"
  PROVE  Entry(EditedConfig(base, r), r)
<1>1. /\ r.ns \in Namespaces /\ r.type \in MatchTypes /\ r.key \in Keys /\ r.vals \in SUBSET Values
  BY DEF Request
<1>2. /\ EditBase(base) \in NsConfig /\ EditedMap(base, r) \in LabelValues
      /\ EditedConfig(base, r) \in NsConfig /\ RequestItem(base, r) \in NsConfigItem
      /\ RequestMap(base, r) \in LabelValues
  BY <1>1, EditIsTyped
<1> DEFINE item == [RequestItem(base, r) EXCEPT ![r.type] = EditedMap(base, r)]
<1>3. item \in NsConfigItem /\ item[r.type] = EditedMap(base, r)
  BY <1>1, <1>2 DEF NsConfigItem
<1>4. EditedConfig(base, r)[r.ns] = item
  BY <1>1, <1>2 DEF EditedConfig, NsConfig
<1>5. EditedMap(base, r)[r.key] = r.vals
  BY <1>1, <1>2 DEF EditedMap, LabelValues
<1> HIDE DEF item
<1> QED BY <1>2, <1>3, <1>4, <1>5, MarkerAssumption DEF Entry

-----------------------------------------------------------------------------
(* The invariant. *)

Holding == {"current", "create", "put"}

\* A configuration that holds everything acknowledged and, once r is
\* answered, the entry of r.
Keeps(data, r) == (\A a \in acked : Entry(data, a)) /\ (r.kind # "delete" => Entry(data, r))

Fit(t, s) ==
  /\ s.pc \in {"use", "set"} => heap[s.cm] = StoredData
  /\ s.pc \in {"set"} \cup Holding \/ (s.pc = "use" /\ s.req.kind \in EditKinds) =>
       /\ globalFresh[ProcOf[t]] => globalCM[ProcOf[t]] = s.cm
       /\ selectorFresh[ProcOf[t]] => selectorCM[ProcOf[t]] = s.cm
  /\ s.pc = "install" => s.resp = store /\ ~globalFresh[ProcOf[t]]
  /\ s.pc = "create" => store = Nil
  /\ s.pc = "put" => store # Nil /\ s.rv = version
  /\ s.pc = "ack" => s.resp = store
  /\ s.pc # "idle" /\ s.req.kind \in EditKinds => \A a \in acked : ~SameEntry(a, s.req)
  /\ s.pc = "set" => Keeps(s.cfg, s.req)
  /\ s.pc \in Holding => Keeps(heap[s.cm], s.req)
  /\ s.pc = "ack" => Keeps(s.resp, s.req)

OneServed == \A t, u \in Threads : h[t].pc # "idle" /\ h[u].pc # "idle" => t = u

Points ==
  \A p \in Procs : /\ globalFresh[p] => globalCM[p] \in Objects
                   /\ selectorFresh[p] => selectorCM[p] \in Objects

Agree ==
  \A p \in Procs : /\ globalFresh[p] => heap[globalCM[p]] = StoredData
                   /\ selectorFresh[p] => heap[selectorCM[p]] = StoredData

AckedIn == \A a \in acked : Entry(StoredData, a)

Settled == (\A t \in Threads : h[t].pc \notin Holding) => Agree

CInv == /\ TypeOK /\ OneServed /\ Points /\ Settled /\ AckedIn
        /\ \A t \in Threads : Fit(t, h[t])

LEMMA InitCInv == Init => CInv
<1> SUFFICES ASSUME Init PROVE CInv
  OBVIOUS
<1>1. \A t \in Threads : h[t] = Idle
  BY DEF Init
<1>2. OneServed /\ \A t \in Threads : Fit(t, h[t])
  BY <1>1, IdleState DEF OneServed, Fit, Holding
<1>3. Points /\ Settled /\ AckedIn
  BY DEF Init, Points, Settled, Agree, AckedIn
<1> QED BY <1>2, <1>3, InitShape DEF CInv

\* A step of the handler that is served.
LEMMA AdvanceCInv ==
  ASSUME CInv, TypeOK', NEW t \in Threads, h[t].pc # "idle", NEW s, h' = [h EXCEPT ![t] = s],
         Fit(t, h[t])', Points', AckedIn', s.pc \in Holding \/ Agree'
  PROVE  CInv'
<1>1. \A u \in Threads : h'[u] = IF u = t THEN s ELSE h[u]
  BY ShapeIs DEF CInv
<1>2. \A u \in Threads \ {t} : h'[u].pc = "idle"
  BY <1>1 DEF CInv, OneServed
<1>3. OneServed'
  BY <1>2 DEF OneServed
<1>4. \A u \in Threads : Fit(u, h[u])'
  BY <1>2 DEF Fit, Holding
<1>5. Settled'
  BY <1>1 DEF Settled
<1> QED BY <1>3, <1>4, <1>5 DEF CInv

LEMMA FinishCInv ==
  ASSUME CInv, TypeOK', NEW t \in Threads, h[t].pc # "idle", Finish(t),
         Points', AckedIn', Agree'
  PROVE  CInv'
<1>1. h' = [h EXCEPT ![t] = Idle] /\ h'[t] = Idle
  BY ShapeIs DEF CInv, Finish
<1>2. Fit(t, h[t])'
  BY <1>1, IdleState DEF Fit, Holding
<1> QED BY <1>1, <1>2, AdvanceCInv

\* When the handler served is not writing, the caches agree.
LEMMA ServedAgree ==
  ASSUME CInv, NEW t \in Threads, h[t].pc \notin {"idle"} \cup Holding
  PROVE  Agree
<1>1. \A u \in Threads : h[u].pc \notin Holding
  BY DEF CInv, OneServed, Holding
<1> QED BY <1>1 DEF CInv, Settled

\* What is in use survives the making of an object.
LEMMA AllocateKeeps ==
  ASSUME CInv, NEW data, Allocate(data)
  PROVE  /\ \A o \in Objects : o \in InUse => heap'[o] = heap[o]
         /\ heap'[NewObject] = data /\ NewObject \in Objects
         /\ \A p \in Procs : globalCM[p] \in InUse /\ selectorCM[p] \in InUse
<1>1. NewObject \in Objects /\ NewObject \notin InUse
  BY FreshObject
<1>2. \A p \in Procs : globalCM[p] \in InUse /\ selectorCM[p] \in InUse
  BY DEF InUse
<1> QED BY <1>1, <1>2 DEF Allocate

\* A step that only moves the handler on.
LEMMA QuietCInv ==
  ASSUME CInv, TypeOK', NEW t \in Threads, h[t].pc # "idle",
         UNCHANGED <<api, heap, caches, acked>>, Agree,
         NEW s, Finish(t) \/ (h' = [h EXCEPT ![t] = s] /\ Fit(t, s))
  PROVE  CInv'
<1>1. Points' /\ AckedIn' /\ Agree'
  BY DEF CInv, Points, AckedIn, Agree, StoredData, api, caches
<1>2. CASE Finish(t)
  BY <1>1, <1>2, FinishCInv
<1>3. CASE h' = [h EXCEPT ![t] = s] /\ Fit(t, s)
  <2>1. h'[t] = s
    BY <1>3, ShapeIs DEF CInv
  <2>2. Fit(t, h[t])'
    BY <1>3, <2>1 DEF Fit, Holding, StoredData, Keeps, api, caches
  <2> QED BY <1>1, <1>3, <2>2, AdvanceCInv
<1> QED BY <1>2, <1>3

-----------------------------------------------------------------------------
(* The steps. *)

LEMMA ReadCInv ==
  ASSUME OneAtATime, CInv, NEW t \in Threads, TypeOK',
         GetNodes(t) \/ HitSelectorCache(t) \/ HitGlobalCache(t) \/ GetConfigMap(t) \/ Install(t)
  PROVE  CInv'
<1>a. /\ h[t] \in Handler /\ Fit(t, h[t]) /\ h \in [Threads -> Handler] /\ Rest
      /\ h[t].pc \notin {"idle"} \cup Holding /\ ProcOf[t] \in Procs
  BY ShapeIs, NsAssumption
     DEF CInv, GetNodes, HitSelectorCache, HitGlobalCache, GetConfigMap, Install, At, Holding
<1>b. Agree /\ Points /\ AckedIn
  BY <1>a, ServedAgree DEF CInv
<1>1. ASSUME GetNodes(t) PROVE CInv'
  <2> DEFINE s == [h[t] EXCEPT !.pc = "config", !.labels = nodeLabels]
  <2>1. UNCHANGED <<api, heap, caches, acked>> /\ (Finish(t) \/ h' = [h EXCEPT ![t] = s])
    BY <1>1, <1>a DEF GetNodes
  <2>2. Fit(t, s)
    BY <1>a DEF Handler, Fit, Holding
  <2> HIDE DEF s
  <2> QED BY <1>a, <1>b, <2>1, <2>2, QuietCInv
<1>2. ASSUME HitSelectorCache(t) PROVE CInv'
  <2> DEFINE s == [h[t] EXCEPT !.pc = "use", !.cm = selectorCM[ProcOf[t]]]
  <2>1. UNCHANGED <<api, heap, caches, acked>> /\ h' = [h EXCEPT ![t] = s]
    BY <1>2, <1>a DEF HitSelectorCache
  <2>2. heap[selectorCM[ProcOf[t]]] = StoredData /\ h[t].req.kind \notin EditKinds
    BY <1>2, <1>a, <1>b DEF HitSelectorCache, SelectorHit, Agree, EditKinds
  <2>3. Fit(t, s)
    BY <1>a, <2>2 DEF Handler, Fit, Holding
  <2> HIDE DEF s
  <2> QED BY <1>a, <1>b, <2>1, <2>3, QuietCInv
<1>3. ASSUME HitGlobalCache(t) PROVE CInv'
  <2> DEFINE s == [h[t] EXCEPT !.pc = "use", !.cm = globalCM[ProcOf[t]]]
  <2>1. h' = [h EXCEPT ![t] = s] /\ h'[t] = s
        /\ UNCHANGED <<api, heap, globalCM, globalFresh, acked>>
    BY <1>3, <1>a DEF HitGlobalCache
  <2>2. heap[globalCM[ProcOf[t]]] = StoredData /\ globalCM[ProcOf[t]] \in Objects
    BY <1>3, <1>a, <1>b DEF HitGlobalCache, GlobalHit, Agree, Points
  <2>3. \A p \in Procs : /\ selectorFresh'[p] => heap[selectorCM'[p]] = StoredData
                         /\ selectorFresh'[p] => selectorCM'[p] \in Objects
    BY <1>3, <1>a, <1>b, <2>2 DEF HitGlobalCache, Remember, Agree, Points, Rest
  <2>4. Points' /\ AckedIn' /\ Agree'
    BY <1>b, <2>1, <2>3 DEF Points, AckedIn, Agree, StoredData, api
  <2>5. h[t].req.kind \in EditKinds => selectorCM'[ProcOf[t]] = globalCM[ProcOf[t]]
    BY <1>3, <1>a DEF HitGlobalCache, Remember, EditKinds, Rest
  <2>6. s.pc = "use" /\ s.cm = globalCM[ProcOf[t]] /\ s.req = h[t].req
    BY <1>a DEF Handler
  <2> HIDE DEF s
  <2>7. Fit(t, h[t])'
    BY <1>a, <2>1, <2>2, <2>5, <2>6 DEF Fit, Holding, StoredData, api
  <2> QED BY <1>a, <2>1, <2>4, <2>7, AdvanceCInv
<1>4. ASSUME GetConfigMap(t) PROVE CInv'
  <2> DEFINE s == [h[t] EXCEPT !.pc = "install", !.resp = store]
  <2>1. UNCHANGED <<api, heap, caches, acked>> /\ h' = [h EXCEPT ![t] = s]
    BY <1>4, <1>a DEF GetConfigMap, Fails, OneAtATime
  <2>2. ~globalFresh[ProcOf[t]]
    BY <1>4, <1>a, <1>b, NsAssumption DEF GetConfigMap, GlobalHit, Points, Rest
  <2>3. Fit(t, s)
    BY <1>a, <2>2 DEF Handler, Fit, Holding
  <2> HIDE DEF s
  <2> QED BY <1>a, <1>b, <2>1, <2>3, QuietCInv
<1>5. ASSUME Install(t) PROVE CInv'
  <2> DEFINE s == [h[t] EXCEPT !.pc = "use", !.cm = NewObject, !.resp = Nil]
  <2>1. h' = [h EXCEPT ![t] = s] /\ h'[t] = s /\ UNCHANGED <<api, acked>>
    BY <1>5, <1>a DEF Install
  <2>2. h[t].resp = store /\ ~globalFresh[ProcOf[t]] /\ Allocate(StoredData)
    BY <1>5, <1>a DEF Install, At, Fit, StoredData
  <2>3. /\ \A o \in Objects : o \in InUse => heap'[o] = heap[o]
        /\ heap'[NewObject] = StoredData /\ NewObject \in Objects
        /\ \A p \in Procs : globalCM[p] \in InUse /\ selectorCM[p] \in InUse
    BY <2>2, AllocateKeeps
  <2>4. /\ s.pc = "use" /\ s.cm = NewObject /\ s.req = h[t].req
    BY <1>a DEF Handler
  <2>5. \/ UNCHANGED <<globalCM, globalFresh>>
        \/ /\ globalCM' = [globalCM EXCEPT ![ProcOf[t]] = NewObject]
           /\ globalFresh' = [globalFresh EXCEPT ![ProcOf[t]] = TRUE]
    BY <1>5 DEF Install
  <2>6. \/ UNCHANGED <<selectorCM, selectorFresh>> /\ h[t].req.kind \notin EditKinds
        \/ /\ selectorCM' = [selectorCM EXCEPT ![ProcOf[t]] = NewObject]
           /\ selectorFresh' = [selectorFresh EXCEPT ![ProcOf[t]] = TRUE]
    BY <1>5 DEF Install, Remember, EditKinds
  <2> HIDE DEF s
  <2>7. \A p \in Procs : globalFresh'[p] => /\ globalCM'[p] \in Objects
                                            /\ heap'[globalCM'[p]] = StoredData
    BY <1>a, <1>b, <2>3, <2>5 DEF Points, Agree, Rest
  <2>8. \A p \in Procs : selectorFresh'[p] => /\ selectorCM'[p] \in Objects
                                              /\ heap'[selectorCM'[p]] = StoredData
    BY <1>a, <1>b, <2>3, <2>6 DEF Points, Agree, Rest
  <2>9. Points' /\ AckedIn' /\ Agree'
    BY <1>b, <2>1, <2>7, <2>8 DEF Points, AckedIn, Agree, StoredData, api
  <2>10. /\ globalFresh'[ProcOf[t]] => globalCM'[ProcOf[t]] = NewObject
         /\ h[t].req.kind \in EditKinds => selectorCM'[ProcOf[t]] = NewObject
    BY <1>a, <2>2, <2>5, <2>6 DEF Rest
  <2>11. Fit(t, h[t])'
    BY <1>a, <2>1, <2>3, <2>4, <2>10 DEF Fit, Holding, StoredData, api
  <2> QED BY <1>a, <2>1, <2>9, <2>11, AdvanceCInv
<1> QED BY <1>1, <1>2, <1>3, <1>4, <1>5

LEMMA JudgeCInv ==
  ASSUME CInv, NEW t \in Threads, TypeOK',
         \/ \E n \in Nodes : Judge(t, n)
         \/ Bind(t) \/ Show(t) \/ Check(t) \/ SelectNodes(t) \/ GetPods(t)
         \/ \E p \in Pods : DeletePod(t, p)
         \/ Refreshed(t)
  PROVE  CInv'
<1>a. /\ h[t] \in Handler /\ Fit(t, h[t]) /\ h \in [Threads -> Handler]
      /\ h[t].pc \notin {"idle"} \cup Holding
      /\ UNCHANGED <<api, heap, caches, acked>>
  BY ShapeIs
     DEF CInv, Judge, Bind, Show, Check, SelectNodes, GetPods, DeletePod, Refreshed, At, Holding
<1>b. Agree
  BY <1>a, ServedAgree
<1>1. ASSUME NEW n \in Nodes, Judge(t, n) PROVE CInv'
  <2> DEFINE s == [h[t] EXCEPT !.todo = h[t].todo \ {n},
                               !.ok = IF Accepted(t, n) THEN h[t].ok \cup {n} ELSE h[t].ok,
                               !.cm = Nil, !.pc = IF h[t].todo = {n} THEN "bind" ELSE "config"]
  <2>1. h' = [h EXCEPT ![t] = s] /\ h[t].req.kind \notin EditKinds
    BY <1>1, <1>a DEF Judge, EditKinds
  <2>2. s.pc \in {"bind", "config"} /\ s.req = h[t].req
    BY <1>a DEF Handler
  <2> HIDE DEF s
  <2>3. Fit(t, s)
    BY <2>1, <2>2 DEF Fit, Holding
  <2> QED BY <1>a, <1>b, <2>1, <2>3, QuietCInv
<1>2. ASSUME Bind(t) \/ Show(t) \/ Check(t) \/ Refreshed(t) PROVE CInv'
  BY <1>2, <1>a, <1>b, QuietCInv DEF Bind, Show, Check, Refreshed
<1>3. ASSUME SelectNodes(t) PROVE CInv'
  <2> DEFINE ok == { n \in Nodes : Accepted(t, n) }
             s == [h[t] EXCEPT !.ok = ok, !.pc = "pods", !.cm = Nil]
  <2>1. Finish(t) \/ h' = [h EXCEPT ![t] = s]
    BY <1>3, <1>a DEF SelectNodes
  <2> HIDE DEF ok
  <2>2. Fit(t, s)
    BY <1>3, <1>a DEF SelectNodes, At, Handler, Fit, Holding
  <2> HIDE DEF s
  <2> QED BY <1>a, <1>b, <2>1, <2>2, QuietCInv
<1>4. ASSUME GetPods(t) PROVE CInv'
  <2> DEFINE todo == { p \in Pods : PodNs[p] = h[t].req.ns /\ place[p] \in Nodes \ h[t].ok }
             s == [h[t] EXCEPT !.pc = "delete", !.todo = todo]
  <2>1. Finish(t) \/ h' = [h EXCEPT ![t] = s]
    BY <1>4, <1>a DEF GetPods
  <2> HIDE DEF todo
  <2>2. Fit(t, s)
    BY <1>4, <1>a DEF GetPods, At, Handler, Fit, Holding
  <2> HIDE DEF s
  <2> QED BY <1>a, <1>b, <2>1, <2>2, QuietCInv
<1>5. ASSUME NEW p \in Pods, DeletePod(t, p) PROVE CInv'
  <2> DEFINE s == [h[t] EXCEPT !.todo = h[t].todo \ {p}]
  <2>1. h' = [h EXCEPT ![t] = s] /\ Fit(t, s)
    BY <1>5, <1>a DEF DeletePod, At, Handler, Fit, Holding
  <2> HIDE DEF s
  <2> QED BY <1>a, <1>b, <2>1, QuietCInv
<1> QED BY <1>1, <1>2, <1>3, <1>4, <1>5

\* The steps of an edit, which hold the one object both caches point to.
LEMMA EditCInv ==
  ASSUME OneAtATime, CInv, NEW t \in Threads, TypeOK',
         EditCopy(t) \/ SetNsConfig(t) \/ GetCurrent(t) \/ Write(t) \/ WriteRefused(t) \/ Ack(t)
  PROVE  CInv'
<1>a. /\ h[t] \in Handler /\ Fit(t, h[t]) /\ h \in [Threads -> Handler] /\ Rest
      /\ h[t].pc # "idle" /\ ProcOf[t] \in Procs /\ Holds(h[t]) /\ h[t].req \in Request
      /\ \A p \in Procs : p = ProcOf[t]
  BY ShapeIs, NsAssumption
     DEF CInv, EditCopy, SetNsConfig, GetCurrent, Write, WriteRefused, Ack, At, Handler, OneAtATime
<1>b. Points /\ AckedIn /\ acked \subseteq Request
  BY <1>a DEF CInv, Rest
<1>1. ASSUME EditCopy(t) PROVE CInv'
  <2>1. h[t].pc = "use" /\ h[t].req.kind \in EditKinds /\ heap[h[t].cm] = StoredData
        /\ UNCHANGED <<api, heap, caches, acked>>
    BY <1>1, <1>a DEF EditCopy, At, IsEdit, Fit
  <2>2. PICK listed \in {Listed, {}} :
          LET base == NsConfigOf(heap[h[t].cm], listed)
          IN  IF EditAllowed(base, h[t].req)
              THEN h' = [h EXCEPT ![t].pc = "set", ![t].cfg = EditedConfig(base, h[t].req)]
              ELSE Finish(t)
    BY <1>1 DEF EditCopy
  <2> DEFINE cfg == EditedConfig(NsConfigOf(StoredData, listed), h[t].req)
             s == [h[t] EXCEPT !.pc = "set", !.cfg = cfg]
  <2>3. Finish(t) \/ h' = [h EXCEPT ![t] = s]
    BY <1>a, <2>1, <2>2
  <2>4. Keeps(cfg, h[t].req)
    <3>1. \A a \in acked : Entry(cfg, a)
      BY <1>a, <1>b, <2>1, OthersStay DEF AckedIn, Fit
    <3>2. NsConfigOf(StoredData, listed) \in NsConfig \cup {BadJson}
      <4>1. StoredData \in CMData
        BY <1>a, DataTypes DEF StoredData, Rest
      <4> QED BY <4>1, ReadTypes
    <3>3. h[t].req.kind # "delete" => Entry(cfg, h[t].req)
      BY <1>a, <3>2, OwnEntry
    <3> HIDE DEF cfg
    <3> QED BY <3>1, <3>3 DEF Keeps
  <2> HIDE DEF cfg
  <2>5. s.pc = "set" /\ s.cm = h[t].cm /\ s.req = h[t].req /\ s.cfg = cfg
    BY <1>a DEF Handler
  <2> HIDE DEF s
  <2>6. Fit(t, s)
    BY <1>a, <2>1, <2>4, <2>5 DEF Fit, Holding
  <2>7. Agree
    BY <1>a, <2>1, ServedAgree DEF Holding
  <2> QED BY <1>a, <2>1, <2>3, <2>6, <2>7, QuietCInv
<1>2. ASSUME SetNsConfig(t) PROVE CInv'
  <2> DEFINE s == [h[t] EXCEPT !.pc = "current", !.cfg = BadJson]
  <2>1. h[t].pc = "set" /\ UNCHANGED <<api, caches, acked>> /\ Keeps(h[t].cfg, h[t].req)
        /\ h[t].cm \in Objects
    BY <1>2, <1>a DEF SetNsConfig, At, Fit, Holds
  <2>2. Points' /\ AckedIn'
    BY <1>b, <2>1 DEF Points, AckedIn, StoredData, api, caches
  <2>3. CASE heap[h[t].cm] = NilData
    <3>1. Finish(t) /\ UNCHANGED heap
      BY <1>2, <2>3 DEF SetNsConfig
    <3>2. Agree
      BY <1>a, <2>1, ServedAgree DEF Holding
    <3>3. Agree'
      BY <2>1, <3>1, <3>2 DEF Agree, StoredData, api, caches
    <3> QED BY <1>a, <2>2, <3>1, <3>3, FinishCInv
  <2>4. CASE heap[h[t].cm] # NilData
    <3>1. heap' = [heap EXCEPT ![h[t].cm] = h[t].cfg] /\ h' = [h EXCEPT ![t] = s] /\ h'[t] = s
      BY <1>2, <1>a, <2>4 DEF SetNsConfig
    <3>2. heap'[h[t].cm] = h[t].cfg
      BY <1>a, <2>1, <3>1 DEF Rest
    <3>3. s.pc = "current" /\ s.cm = h[t].cm /\ s.req = h[t].req
      BY <1>a DEF Handler
    <3> HIDE DEF s
    <3>4. Fit(t, h[t])'
      <4>1. /\ globalFresh[ProcOf[t]] => globalCM[ProcOf[t]] = h[t].cm
            /\ selectorFresh[ProcOf[t]] => selectorCM[ProcOf[t]] = h[t].cm
            /\ h[t].req.kind \in EditKinds => \A a \in acked : ~SameEntry(a, h[t].req)
        BY <1>a, <2>1 DEF Fit, Holding
      <4>2. Keeps(heap[h[t].cm], h[t].req)'
        BY <2>1, <3>1, <3>2, <3>3 DEF Keeps, Entry
      <4> QED BY <2>1, <3>1, <3>3, <4>1, <4>2 DEF Fit, Holding, caches
    <3>5. s.pc \in Holding
      BY <3>3 DEF Holding
    <3> QED BY <1>a, <2>2, <3>1, <3>4, <3>5, AdvanceCInv
  <2> QED BY <2>3, <2>4
<1>3. ASSUME GetCurrent(t) PROVE CInv'
  <2> DEFINE s == [h[t] EXCEPT !.pc = IF store = Nil THEN "create" ELSE "put", !.rv = version]
  <2>1. h[t].pc = "current" /\ UNCHANGED <<api, heap, caches, acked>>
        /\ h' = [h EXCEPT ![t] = s] /\ h'[t] = s
    BY <1>3, <1>a DEF GetCurrent, At, Fails, OneAtATime
  <2>2. /\ s.pc = IF store = Nil THEN "create" ELSE "put"
        /\ s.cm = h[t].cm /\ s.req = h[t].req /\ s.rv = version
    BY <1>a DEF Handler
  <2>3. Points' /\ AckedIn'
    BY <1>b, <2>1 DEF Points, AckedIn, StoredData, api, caches
  <2> HIDE DEF s
  <2>4. Fit(t, s)
    BY <1>a, <2>1, <2>2 DEF Fit, Holding
  <2>5. Fit(t, h[t])'
    BY <2>1, <2>4 DEF Fit, Holding, StoredData, Keeps, api, caches
  <2>6. s.pc \in Holding
    BY <2>2 DEF Holding
  <2> QED BY <1>a, <2>1, <2>3, <2>5, <2>6, AdvanceCInv
<1>4. ASSUME Write(t) PROVE CInv'
  <2> DEFINE s == [h[t] EXCEPT !.pc = "ack", !.resp = heap[h[t].cm]]
  <2>1. h[t].pc \in Holding /\ UNCHANGED <<heap, caches, acked>> /\ store' = heap[h[t].cm]
        /\ h[t].cm \in Objects /\ (Finish(t) \/ h' = [h EXCEPT ![t] = s])
    BY <1>4, <1>a DEF Write, At, Holding, Holds
  <2>2. StoredData' = heap[h[t].cm]
    <3>1. heap[h[t].cm] # Nil
      BY <1>a, <2>1, NsAssumption DEF Rest
    <3> QED BY <2>1, <3>1 DEF StoredData
  <2>3. Keeps(heap[h[t].cm], h[t].req)
    BY <1>a, <2>1 DEF Fit
  <2>4. Agree'
    <3>1. /\ globalFresh[ProcOf[t]] => globalCM[ProcOf[t]] = h[t].cm
          /\ selectorFresh[ProcOf[t]] => selectorCM[ProcOf[t]] = h[t].cm
      BY <1>a, <2>1 DEF Fit
    <3> QED BY <1>a, <2>1, <2>2, <3>1 DEF Agree, caches
  <2>5. Points' /\ AckedIn'
    BY <1>b, <2>1, <2>2, <2>3 DEF Points, AckedIn, Keeps, caches
  <2>6. CASE Finish(t)
    BY <1>a, <2>4, <2>5, <2>6, FinishCInv
  <2>7. CASE h' = [h EXCEPT ![t] = s]
    <3>1. s.pc = "ack" /\ s.resp = heap[h[t].cm] /\ s.req = h[t].req /\ h'[t] = s
      BY <1>a, <2>7 DEF Handler
    <3> HIDE DEF s
    <3>2. h[t].req.kind \in EditKinds => \A a \in acked : ~SameEntry(a, h[t].req)
      BY <1>a DEF Fit
    <3>3. Fit(t, h[t])'
      <4>1. Keeps(h[t].resp, h[t].req)'
        BY <2>1, <2>3, <3>1 DEF Keeps, Entry
      <4> QED BY <2>1, <3>1, <3>2, <4>1 DEF Fit, Holding
    <3> QED BY <1>a, <2>4, <2>5, <2>7, <3>3, AdvanceCInv
  <2> QED BY <2>1, <2>6, <2>7
<1>5. ASSUME WriteRefused(t) PROVE CInv'
  \* It cannot happen: nobody else writes, and the API server accepts.
  <2>1. h[t].pc \in {"create", "put"} /\ (WriteConflict(t) \/ "write" \in Faults)
    BY <1>5 DEF WriteRefused, At, Fails
  <2>2. ~WriteConflict(t)
    BY <1>a, <2>1 DEF WriteConflict, At, Fit
  <2> QED BY <2>1, <2>2 DEF OneAtATime
<1>6. ASSUME Ack(t) PROVE CInv'
  <2>1. /\ h[t].pc = "ack" /\ h[t].resp = store /\ store \in CMData /\ Keeps(store, h[t].req)
        /\ Allocate(store) /\ Finish(t) /\ UNCHANGED <<api, globalCM, globalFresh, selectorFresh>>
        /\ selectorCM' = [selectorCM EXCEPT ![ProcOf[t]] = NewObject]
    BY <1>6, <1>a DEF Ack, At, Holds, Fit
  <2>2. /\ \A o \in Objects : o \in InUse => heap'[o] = heap[o]
        /\ heap'[NewObject] = store /\ NewObject \in Objects
        /\ \A p \in Procs : globalCM[p] \in InUse /\ selectorCM[p] \in InUse
    BY <2>1, AllocateKeeps
  <2>3. StoredData = store /\ StoredData' = store
    BY <2>1, NsAssumption DEF StoredData, api
  <2>4. Agree
    BY <1>a, <2>1, ServedAgree DEF Holding
  <2>5. Points' /\ Agree'
    BY <1>a, <1>b, <2>1, <2>2, <2>3, <2>4 DEF Points, Agree, Rest
  <2>6. AckedIn'
    <3>1. \A a \in acked' : a \in acked \/ (a = h[t].req /\ h[t].req.kind # "delete")
      BY <1>6 DEF Ack
    <3> QED BY <2>1, <2>3, <3>1 DEF AckedIn, Keeps
  <2> QED BY <1>a, <2>1, <2>5, <2>6, FinishCInv
<1> QED BY <1>1, <1>2, <1>3, <1>4, <1>5, <1>6

\* A request arrives when none is served.
LEMMA BeginCInv ==
  ASSUME OneAtATime, CInv, TypeOK', NEW t \in Threads, NEW r \in Serves[t], Begin(t, r)
  PROVE  CInv'
<1>a. /\ \A u \in Threads : h[u].pc = "idle"
      /\ h \in [Threads -> Handler] /\ UNCHANGED <<api, heap, caches>>
      /\ r \in Request
  BY ShapeIs, NsAssumption DEF Begin, MayBegin, AllIdle, At, OneAtATime, CInv
<1>b. Agree /\ Points /\ AckedIn
  BY <1>a DEF CInv, Settled, Holding
<1>1. acked' \subseteq acked /\ (r.kind \in EditKinds => \A a \in acked' : ~SameEntry(a, r))
  <2>1. r.kind \in Kinds
    BY <1>a DEF Request
  <2> QED BY <2>1 DEF Begin, EditKinds, Kinds
<1>2. \A u \in Threads : u # t => h'[u] = h[u]
  <2>1. CASE r.kind \in EditKinds
    <3>1. h' = WithEdit(t, r)
      BY <2>1 DEF Begin, EditKinds
    <3>2. \A u \in Threads : ~Touches(u, r)
      BY <1>a DEF Touches, At
    <3> QED BY <3>1, <3>2 DEF WithEdit
  <2>2. CASE r.kind \notin EditKinds
    <3>1. r.kind \in Kinds
      BY <1>a DEF Request
    <3> QED BY <1>a, <2>2, <3>1 DEF Begin, EditKinds, Kinds
  <2> QED BY <2>1, <2>2
<1>3. h'[t].pc \in {"nodes", "config"} /\ h'[t].req = r
  <2>1. CASE r.kind \in EditKinds
    <3>1. h' = WithEdit(t, r)
      BY <2>1 DEF Begin, EditKinds
    <3> QED BY <3>1 DEF WithEdit, Idle
  <2>2. CASE r.kind \notin EditKinds
    <3>1. r.kind \in Kinds
      BY <1>a DEF Request
    <3> QED BY <1>a, <2>2, <3>1 DEF Begin, EditKinds, Kinds, Idle
  <2> QED BY <2>1, <2>2
<1>4. \A u \in Threads : Fit(u, h[u])'
  <2>1. Fit(t, h[t])'
    BY <1>1, <1>3 DEF Fit, Holding
  <2>2. \A u \in Threads : u # t => h'[u].pc = "idle"
    BY <1>a, <1>2
  <2>3. \A u \in Threads : u # t => Fit(u, h[u])'
    BY <2>2 DEF Fit, Holding
  <2> QED BY <2>1, <2>3
<1>5. OneServed'
  BY <1>a, <1>2 DEF OneServed
<1>6. Points' /\ Agree' /\ AckedIn'
  BY <1>a, <1>b, <1>1 DEF Points, Agree, AckedIn, StoredData, api, caches
<1> QED BY <1>4, <1>5, <1>6 DEF CInv, Settled

LEMMA EnvironmentCInv ==
  ASSUME OneAtATime, CInv, TypeOK', Environment
  PROVE  CInv'
<1>a. Rest /\ h \in [Threads -> Handler] /\ Points /\ AckedIn /\ Settled /\ OneServed
      /\ \A t \in Threads : Fit(t, h[t])
  BY ShapeIs DEF CInv
<1>1. ASSUME NEW p \in Procs, ExpireGlobal(p) \/ ExpireSelector(p) PROVE CInv'
  <2>1. /\ UNCHANGED <<api, heap, globalCM, selectorCM, h, acked>>
        /\ \A q \in Procs : (globalFresh'[q] => globalFresh[q]) /\ (selectorFresh'[q] => selectorFresh[q])
    BY <1>1, <1>a DEF ExpireGlobal, ExpireSelector, Rest
  <2>2. Points' /\ Settled' /\ AckedIn' /\ OneServed'
    BY <1>a, <2>1 DEF Points, Settled, Agree, AckedIn, OneServed, StoredData, api
  <2>3. \A t \in Threads : Fit(t, h[t])'
    <3> SUFFICES ASSUME NEW t \in Threads PROVE Fit(t, h[t])'
      OBVIOUS
    <3>1. ProcOf[t] \in Procs /\ Fit(t, h[t])
      BY <1>a, NsAssumption
    <3> QED BY <2>1, <3>1 DEF Fit, Holding, Keeps, StoredData, api
  <2> QED BY <2>2, <2>3 DEF CInv
<1>2. ASSUME NEW p \in Procs, Restart(p) PROVE CInv'
  <2>1. /\ UNCHANGED <<api, heap, acked>>
        /\ \A t \in Threads : h'[t] = Idle
        /\ \A q \in Procs : ~globalFresh'[q] /\ ~selectorFresh'[q]
    <3>1. \A q \in Procs : q = p
      BY DEF OneAtATime
    <3>2. \A t \in Threads : ProcOf[t] = p
      BY <3>1, NsAssumption
    <3> QED BY <1>2, <1>a, <3>1, <3>2 DEF Restart, Rest
  <2>2. OneServed' /\ \A t \in Threads : Fit(t, h[t])'
    BY <2>1, IdleState DEF OneServed, Fit, Holding
  <2>3. Points' /\ Settled'
    BY <2>1 DEF Points, Settled, Agree
  <2>4. AckedIn'
    BY <1>a, <2>1 DEF AckedIn, StoredData, api
  <2> QED BY <2>2, <2>3, <2>4 DEF CInv
<1>3. ASSUME NEW n \in Nodes, NEW labels \in NewLabels, Relabel(n, labels) PROVE CInv'
  <2>1. UNCHANGED <<api, heap, caches, h, acked>>
    BY <1>3 DEF Relabel
  <2>2. Points' /\ Settled' /\ AckedIn' /\ OneServed'
    BY <1>a, <2>1 DEF Points, Settled, Agree, AckedIn, OneServed, StoredData, api, caches
  <2>3. \A t \in Threads : Fit(t, h[t])'
    BY <1>a, <2>1 DEF Fit, Holding, Keeps, StoredData, api, caches
  <2> QED BY <2>2, <2>3 DEF CInv
<1> QED BY <1>1, <1>2, <1>3 DEF Environment, OneAtATime

LEMMA NextCInv ==
  ASSUME OneAtATime, CInv, [Next]_vars
  PROVE  CInv'
<1>a. TypeOK'
  BY NextShape DEF CInv
<1>1. CASE UNCHANGED vars
  BY <1>1, <1>a DEF vars, CInv, OneServed, Points, Settled, Agree, AckedIn, Fit, Holding,
     Keeps, StoredData
<1>2. ASSUME NEW t \in Threads, Step(t) PROVE CInv'
  BY <1>2, <1>a, ReadCInv, JudgeCInv, EditCInv DEF Step
<1> QED BY <1>1, <1>2, <1>a, BeginCInv, EnvironmentCInv DEF Next

LEMMA Always == OneAtATime => (Spec => []CInv)
<1> SUFFICES ASSUME OneAtATime PROVE Spec => []CInv
  OBVIOUS
<1>1. CInv /\ [Next]_vars => CInv'
  BY NextCInv
<1> QED BY <1>1, InitCInv, PTL DEF Spec

-----------------------------------------------------------------------------
(* getConfigCM and getNsNodeSelectorConfigMap: a cache that is used holds  *)
(* what the API server holds, except while an edit is on its way from      *)
(* SetNsNodeSelectorConfigMapNsConfig to the API server.                   *)
THEOREM CacheCoherentAlways == OneAtATime => (Spec => []CacheCoherent)
<1>1. CInv => CacheCoherent
  BY DEF CInv, Settled, Agree, CacheCoherent, Writing, Holding
<1> QED BY <1>1, Always, PTL

(* NsNodeSelectorAddUpdateOrDelete: an addition answered with OK stays in  *)
(* the API server, whatever other entries are edited after it and however  *)
(* often the process restarts, until a request for its entry arrives.      *)
THEOREM AckedStoredAlways == OneAtATime => (Spec => []AckedStored)
<1>1. CInv => AckedStored
  BY DEF CInv, AckedIn, Entry, AckedStored, Stored, MakeMap
<1> QED BY <1>1, Always, PTL

(* PodMatchNode and CheckNamespaceSchedulerNodes: what the filter and the  *)
(* check judge a node by is the configuration in the API server.           *)
THEOREM DecisionsExactAlways == OneAtATime => (Spec => DecisionsExact)
<1> SUFFICES ASSUME OneAtATime PROVE Spec => DecisionsExact
  OBVIOUS
<1>1. CInv /\ [Next]_vars =>
        [\A t \in Threads : \A n \in Nodes :
           Judge(t, n) \/ Check(t) =>
             (Accepted(t, n) <=> StoreAccepts(h[t].req.ns, h[t].labels[n]))]_vars
  <2> SUFFICES ASSUME CInv, NEW t \in Threads, NEW n \in Nodes, Judge(t, n) \/ Check(t)
               PROVE  Accepted(t, n) <=> StoreAccepts(h[t].req.ns, h[t].labels[n])
    OBVIOUS
  <2>1. heap[h[t].cm] = StoredData
    BY DEF CInv, Fit, Judge, Check, At
  <2> QED BY <2>1 DEF Accepted, StoreAccepts
<1> QED BY <1>1, Always, PTL DEF Spec, DecisionsExact

-----------------------------------------------------------------------------
(* The service implements the register: the write of an edit is the edit   *)
(* of what is stored at that moment, every other step leaves it alone.     *)

Base == NsConfigOf(StoredData, Listed)

Based(t, s) ==
  /\ s.pc # "idle" => s.req \in Serves[t]
  /\ s.pc \in {"set"} \cup Holding =>
       s.req.kind \in EditKinds /\ EditAllowed(Base, s.req)
  /\ s.pc = "set" => s.cfg = EditedConfig(Base, s.req)
  /\ s.pc \in Holding => heap[s.cm] = EditedConfig(Base, s.req) /\ StoredData # NilData

RInv == CInv /\ \A t \in Threads : Based(t, h[t])

LEMMA InitRInv == Init => RInv
<1> SUFFICES ASSUME Init PROVE RInv
  OBVIOUS
<1>1. \A t \in Threads : h[t] = Idle
  BY DEF Init
<1> QED BY <1>1, IdleState, InitCInv DEF RInv, Based, Holding

\* A step of the handler served, the others being idle.
LEMMA AdvanceRInv ==
  ASSUME RInv, CInv', NEW t \in Threads, h[t].pc # "idle", Based(t, h[t])',
         \A u \in Threads \ {t} : h'[u] = h[u]
  PROVE  RInv'
<1>1. \A u \in Threads \ {t} : h'[u].pc = "idle"
  BY DEF RInv, CInv, OneServed
<1>2. \A u \in Threads : Based(u, h[u])'
  BY <1>1 DEF Based, Holding
<1> QED BY <1>2 DEF RInv

\* Where a handler is after its step, and that its request is the same.
LEMMA StepMoves ==
  ASSUME TypeOK, NEW t \in Threads, Step(t)
  PROVE  /\ h[t].pc # "idle" /\ \A u \in Threads \ {t} : h'[u] = h[u]
         /\ h'[t].pc # "idle" => h'[t].req = h[t].req
         /\ h'[t].pc \in {"set"} \cup Holding =>
              EditCopy(t) \/ SetNsConfig(t) \/ GetCurrent(t)
<1>a. h \in [Threads -> Handler] /\ h[t] \in Handler
  BY ShapeIs
<1>1. h[t].pc # "idle"
  BY DEF Step, GetNodes, HitSelectorCache, HitGlobalCache, GetConfigMap, Install, Judge, Bind,
         Show, Check, SelectNodes, GetPods, DeletePod, Refreshed, EditCopy, SetNsConfig,
         GetCurrent, Write, WriteRefused, Ack, At
<1>2. CASE \/ GetNodes(t) \/ HitSelectorCache(t) \/ HitGlobalCache(t) \/ GetConfigMap(t) \/ Install(t)
  BY <1>a, <1>1, <1>2, IdleState
     DEF GetNodes, HitSelectorCache, HitGlobalCache, GetConfigMap, Install, Finish, Handler, Holding
<1>3. ASSUME NEW n \in Nodes, Judge(t, n)
      PROVE  /\ \A u \in Threads \ {t} : h'[u] = h[u]
             /\ h'[t].req = h[t].req /\ h'[t].pc \notin {"set"} \cup Holding
  BY <1>a, <1>3 DEF Judge, Handler, Holding
<1>4. CASE Bind(t) \/ Show(t) \/ Check(t) \/ SelectNodes(t) \/ GetPods(t) \/ Refreshed(t)
  <2>1. CASE Finish(t)
    BY <1>a, <1>1, <2>1, IdleState DEF Finish, Holding
  <2>2. ASSUME NEW ok, h' = [h EXCEPT ![t].ok = ok, ![t].pc = "pods", ![t].cm = Nil]
        PROVE  /\ \A u \in Threads \ {t} : h'[u] = h[u]
               /\ h'[t].req = h[t].req /\ h'[t].pc \notin {"set"} \cup Holding
    BY <1>a, <2>2 DEF Handler, Holding
  <2>3. ASSUME NEW todo, h' = [h EXCEPT ![t].pc = "delete", ![t].todo = todo]
        PROVE  /\ \A u \in Threads \ {t} : h'[u] = h[u]
               /\ h'[t].req = h[t].req /\ h'[t].pc \notin {"set"} \cup Holding
    BY <1>a, <2>3 DEF Handler, Holding
  <2> QED BY <1>1, <1>4, <2>1, <2>2, <2>3
          DEF Bind, Show, Check, SelectNodes, GetPods, Refreshed
<1>5. ASSUME NEW p \in Pods, DeletePod(t, p)
      PROVE  /\ \A u \in Threads \ {t} : h'[u] = h[u]
             /\ h'[t].req = h[t].req /\ h'[t].pc \notin {"set"} \cup Holding
  BY <1>a, <1>5 DEF DeletePod, At, Handler, Holding
<1>6. CASE EditCopy(t) \/ SetNsConfig(t) \/ GetCurrent(t)
  <2>1. /\ \A u \in Threads \ {t} : h'[u] = h[u]
        /\ h'[t].pc # "idle" => h'[t].req = h[t].req
    BY <1>a, <1>6, IdleState DEF EditCopy, SetNsConfig, GetCurrent, Finish, Handler
  <2> QED BY <1>1, <1>6, <2>1
<1>7. CASE Write(t) \/ WriteRefused(t) \/ Ack(t)
  BY <1>a, <1>1, <1>7, IdleState DEF Write, WriteRefused, Ack, Finish, Handler, Holding
<1> QED BY <1>1, <1>2, <1>3, <1>4, <1>5, <1>6, <1>7 DEF Step

\* An edit is worked out from what is stored and carried on unchanged.
LEMMA StepBased ==
  ASSUME "list" \notin Faults, TypeOK, NEW t \in Threads, Step(t), Based(t, h[t]),
         h[t].pc \in {"use", "set"} /\ h[t].req.kind \in EditKinds => heap[h[t].cm] = StoredData
  PROVE  Based(t, h[t])'
<1>a. /\ h[t] \in Handler /\ h \in [Threads -> Handler] /\ Rest /\ Holds(h[t])
  BY ShapeIs
<1>b. /\ h[t].pc # "idle" /\ \A u \in Threads \ {t} : h'[u] = h[u]
      /\ h'[t].pc # "idle" => h'[t].req = h[t].req
      /\ h'[t].pc \in {"set"} \cup Holding => EditCopy(t) \/ SetNsConfig(t) \/ GetCurrent(t)
  BY <1>a, StepMoves
<1>1. h[t].req \in Serves[t]
  BY <1>a, <1>b DEF Based
<1>2. CASE h'[t].pc \notin {"set"} \cup Holding
  BY <1>b, <1>1, <1>2 DEF Based, Holding
<1>3. ASSUME EditCopy(t), h'[t].pc \in {"set"} \cup Holding PROVE Based(t, h[t])'
  <2>1. /\ h[t].pc = "use" /\ heap[h[t].cm] = StoredData /\ h[t].req.kind \in EditKinds
        /\ UNCHANGED <<api, heap>>
    BY <1>3, <1>a DEF EditCopy, At, IsEdit
  <2>2. /\ EditAllowed(Base, h[t].req)
        /\ h' = [h EXCEPT ![t].pc = "set", ![t].cfg = EditedConfig(Base, h[t].req)]
    BY <1>3, <1>a, <2>1, IdleState DEF EditCopy, Fails, Finish, Base, Holding
  <2>3. h'[t].pc = "set" /\ h'[t].cfg = EditedConfig(Base, h[t].req) /\ h'[t].req = h[t].req
    BY <1>a, <2>2 DEF Handler
  <2>4. Base' = Base
    BY <2>1 DEF Base, StoredData, api
  <2> QED BY <1>1, <2>1, <2>2, <2>3, <2>4 DEF Based, Holding
<1>4. ASSUME SetNsConfig(t), h'[t].pc \in {"set"} \cup Holding PROVE Based(t, h[t])'
  <2>1. /\ h[t].pc = "set" /\ heap[h[t].cm] = StoredData /\ h[t].cm \in Objects
        /\ h[t].req.kind \in EditKinds /\ EditAllowed(Base, h[t].req)
        /\ h[t].cfg = EditedConfig(Base, h[t].req)
    BY <1>4, <1>a DEF SetNsConfig, At, Based, Holds
  <2>2. /\ heap[h[t].cm] # NilData /\ UNCHANGED api
        /\ heap' = [heap EXCEPT ![h[t].cm] = h[t].cfg]
        /\ h' = [h EXCEPT ![t].pc = "current", ![t].cfg = BadJson]
    BY <1>4, <1>a, IdleState DEF SetNsConfig, Finish, Holding
  <2>3. h'[t].pc = "current" /\ h'[t].cm = h[t].cm /\ h'[t].req = h[t].req
        /\ heap'[h[t].cm] = h[t].cfg
    BY <1>a, <2>1, <2>2 DEF Handler, Rest
  <2>4. Base' = Base /\ StoredData' = StoredData
    BY <2>2 DEF Base, StoredData, api
  <2> QED BY <1>1, <2>1, <2>2, <2>3, <2>4 DEF Based, Holding
<1>5. ASSUME GetCurrent(t), h'[t].pc \in {"set"} \cup Holding PROVE Based(t, h[t])'
  <2>1. /\ h[t].pc \in Holding /\ UNCHANGED <<api, heap>>
        /\ h'[t].pc \in {"create", "put"} /\ h'[t].cm = h[t].cm /\ h'[t].req = h[t].req
    BY <1>5, <1>a, IdleState DEF GetCurrent, At, Finish, Holding, Handler
  <2>2. Base' = Base /\ StoredData' = StoredData
    BY <2>1 DEF Base, StoredData, api
  <2> QED BY <1>a, <1>1, <2>1, <2>2 DEF Based, Holding
<1> QED BY <1>b, <1>2, <1>3, <1>4, <1>5

LEMMA StepRInv ==
  ASSUME OneAtATime, "list" \notin Faults, RInv, CInv', NEW t \in Threads, Step(t)
  PROVE  RInv'
<1>1. TypeOK /\ Based(t, h[t]) /\ (h[t].pc \in {"use", "set"} => heap[h[t].cm] = StoredData)
  BY DEF RInv, CInv, Fit
<1>2. h[t].pc # "idle" /\ \A u \in Threads \ {t} : h'[u] = h[u]
  BY <1>1, StepMoves
<1>3. Based(t, h[t])'
  BY <1>1, StepBased
<1> QED BY <1>2, <1>3, AdvanceRInv

LEMMA NextRInv ==
  ASSUME OneAtATime, "list" \notin Faults, RInv, [Next]_vars
  PROVE  RInv'
<1>a. CInv' /\ TypeOK /\ h \in [Threads -> Handler] /\ \A t \in Threads : Based(t, h[t])
  BY NextCInv, ShapeIs DEF RInv, CInv
<1>1. ASSUME NEW t \in Threads, Step(t) PROVE RInv'
  BY <1>1, <1>a, StepRInv
<1>2. ASSUME NEW t \in Threads, NEW r \in Serves[t], Begin(t, r) PROVE RInv'
  <2>1. r.kind \in Kinds
    BY NsAssumption DEF Request
  <2>2. h'[t].pc \in {"nodes", "config"} /\ h'[t].req = r
    <3>1. CASE r.kind \in EditKinds
      BY <1>2, <3>1 DEF Begin, EditKinds, WithEdit, Idle
    <3>2. CASE r.kind \notin EditKinds
      BY <1>2, <1>a, <2>1, <3>2 DEF Begin, EditKinds, Kinds, Idle
    <3> QED BY <3>1, <3>2
  <2>3. \A u \in Threads \ {t} : h'[u].pc = "idle"
    <3>1. \A u \in Threads \ {t} : h[u].pc = "idle" /\ ~Touches(u, r)
      BY <1>2 DEF Begin, MayBegin, AllIdle, At, OneAtATime, Touches
    <3>2. CASE r.kind \in EditKinds
      BY <1>2, <3>1, <3>2 DEF Begin, EditKinds, WithEdit
    <3>3. CASE r.kind \notin EditKinds
      BY <1>2, <1>a, <2>1, <3>1, <3>3 DEF Begin, EditKinds, Kinds
    <3> QED BY <3>2, <3>3
  <2>4. \A u \in Threads : Based(u, h[u])'
    BY <2>2, <2>3 DEF Based, Holding
  <2> QED BY <1>a, <2>4 DEF RInv
<1>3. CASE Environment \/ UNCHANGED vars
  <2>1. UNCHANGED <<store, heap>> /\ \A t \in Threads : h'[t] \in {h[t], Idle}
    BY <1>3, <1>a DEF Environment, ExpireGlobal, ExpireSelector, Restart, HandEdit, Relabel,
                      OneAtATime, api, vars
  <2>2. \A t \in Threads : Based(t, h[t])'
    <3> SUFFICES ASSUME NEW t \in Threads PROVE Based(t, h[t])'
      OBVIOUS
    <3>1. CASE h'[t] = Idle
      BY <3>1, IdleState DEF Based, Holding
    <3>2. CASE h'[t] = h[t]
      BY <1>a, <2>1, <3>2 DEF Based, Holding, Base, StoredData
    <3> QED BY <2>1, <3>1, <3>2
  <2> QED BY <1>a, <2>2 DEF RInv
<1> QED BY <1>1, <1>2, <1>3 DEF Next

\* The register is stated over the same data.
LEMMA SameData ==
  ASSUME NEW data, NEW listed, NEW r
  PROVE  /\ Register!NsConfigOf(data, listed) = NsConfigOf(data, listed)
         /\ Register!EditAllowed(data, r) <=> EditAllowed(data, r)
         /\ Register!EditedConfig(data, r) = EditedConfig(data, r)
<1>1. /\ Register!EmptyMap = EmptyMap /\ Register!EmptyConfig = EmptyConfig
      /\ Register!MatchTypes = MatchTypes
  BY DEF EmptyMap, EmptyConfig, MatchTypes,
         Register!EmptyMap, Register!EmptyConfig, Register!MatchTypes
<1>2. Register!EmptyItem = EmptyItem /\ Register!SystemLabel = SystemLabel
  BY <1>1 DEF EmptyItem, SystemLabel, Register!EmptyItem, Register!SystemLabel
<1>3. \A item : /\ Register!WithDefault(item) = WithDefault(item)
                /\ Register!MakeMap(item) = MakeMap(item)
  BY <1>1, <1>2 DEF WithDefault, MakeMap, Register!WithDefault, Register!MakeMap
<1>4. Register!NsConfigOf(data, listed) = NsConfigOf(data, listed)
  BY <1>1, <1>2, <1>3 DEF NsConfigOf, Register!NsConfigOf
<1>5. Register!EditBase(data) = EditBase(data)
  BY <1>1 DEF EditBase, Register!EditBase
<1>6. Register!RequestItem(data, r) = RequestItem(data, r)
  BY <1>2, <1>5 DEF RequestItem, Register!RequestItem
<1>7. Register!RequestMap(data, r) = RequestMap(data, r)
  BY <1>3, <1>6 DEF RequestMap, Register!RequestMap
<1>8. Register!EditedMap(data, r) = EditedMap(data, r)
  BY <1>7 DEF EditedMap, Register!EditedMap
<1>9. Register!EditAllowed(data, r) <=> EditAllowed(data, r)
  BY <1>7 DEF EditAllowed, Register!EditAllowed
<1>10. Register!EditedConfig(data, r) = EditedConfig(data, r)
  BY <1>5, <1>6, <1>8 DEF EditedConfig, Register!EditedConfig
<1> QED BY <1>4, <1>9, <1>10

\* The write of an edit is the register's edit.
LEMMA WriteIsEdit ==
  ASSUME TypeOK, NEW t \in Threads, Based(t, h[t]), Write(t)
  PROVE  Register!Next
<1>a. Rest /\ Holds(h[t])
  BY ShapeIs
<1>1. /\ h[t].pc \in Holding /\ h[t].cm \in Objects /\ store' = heap[h[t].cm]
  BY <1>a DEF Write, At, Holding, Holds
<1>2. /\ h[t].req \in Serves[t] /\ h[t].req.kind \in EditKinds /\ EditAllowed(Base, h[t].req)
      /\ heap[h[t].cm] = EditedConfig(Base, h[t].req) /\ StoredData # NilData
  BY <1>a, <1>1 DEF Based, Holding
<1>3. StoredData' = EditedConfig(Base, h[t].req)
  BY <1>a, <1>1, <1>2, NsAssumption DEF StoredData, Rest
<1> DEFINE q == h[t].req
           r == [kind |-> q.kind, ns |-> q.ns, type |-> q.type, key |-> q.key, vals |-> q.vals]
<1>4. r \in EditsServed
  BY <1>2 DEF EditsServed
<1>5. EditAllowed(Base, r) /\ StoredData' = EditedConfig(Base, r)
  BY <1>2, <1>3 DEF EditAllowed, EditedConfig, EditedMap, RequestMap, RequestItem
<1>6. Register!Edit(r)
  <2> HIDE DEF r
  <2> QED BY <1>2, <1>5, SameData DEF Register!Edit, Base
<1> QED BY <1>4, <1>6 DEF Register!Next

LEMMA OthersStutter ==
  ASSUME HandEdits = {}, [Next]_vars, \A t \in Threads : ~Write(t)
  PROVE  StoredData' = StoredData
<1>1. UNCHANGED store
  <2>1. ASSUME NEW t \in Threads, Step(t) PROVE UNCHANGED store
    BY <2>1 DEF Step, GetNodes, HitSelectorCache, HitGlobalCache, GetConfigMap, Install,
       Judge, Bind,
                Show, Check, SelectNodes, GetPods, DeletePod, Refreshed, EditCopy, SetNsConfig,
                GetCurrent, WriteRefused, Ack, api
  <2>2. ASSUME NEW t \in Threads, NEW r \in Serves[t], Begin(t, r) PROVE UNCHANGED store
    BY <2>2 DEF Begin, api
  <2>3. CASE Environment \/ UNCHANGED vars
    BY <2>3 DEF Environment, ExpireGlobal, ExpireSelector, Restart, HandEdit, Relabel,
                api, vars
  <2> QED BY <2>1, <2>2, <2>3 DEF Next
<1> QED BY <1>1 DEF StoredData

(* NsNodeSelectorAddUpdateOrDelete over the ConfigMap is the one           *)
(* configuration of NsConfigRegister, each request an atomic edit of it,   *)
(* restarts, timeouts and lost answers included.                           *)
THEOREM ServiceImplementsRegister ==
  OneAtATime /\ "list" \notin Faults => (Spec => ImplementsRegister)
<1> SUFFICES ASSUME OneAtATime, "list" \notin Faults PROVE Spec => ImplementsRegister
  OBVIOUS
<1>1. Init => RInv
  BY InitRInv
<1>2. RInv /\ [Next]_vars => RInv'
  BY NextRInv
<1>3. Init => Register!Init
  BY DEF Init, StoredData, Register!Init
<1>4. RInv /\ [Next]_vars => [Register!Next]_StoredData
  BY WriteIsEdit, OthersStutter DEF RInv, CInv, OneAtATime
<1> QED BY <1>1, <1>2, <1>3, <1>4, PTL DEF Spec, ImplementsRegister, Register!Spec

-----------------------------------------------------------------------------
(* A refresh: what it has found out about nodes and pods stays true until  *)
(* its last delete, while no node is labelled anew.                        *)

Spares(s) ==
  /\ s.req.kind = "refresh" /\ s.pc \in {"config", "install", "use"} => s.labels = nodeLabels
  /\ s.pc = "pods" => \A n \in Nodes : n \in s.ok <=> StoreAccepts(s.req.ns, nodeLabels[n])
  /\ s.pc = "delete" =>
       \A p \in s.todo : /\ p \in Pods => PodNs[p] = s.req.ns
                         /\ p \in Pods /\ place[p] \in Nodes => ~StoreAccepts(s.req.ns, nodeLabels[place[p]])

FInv == CInv /\ \A t \in Threads : Spares(h[t])

LEMMA IdleSpares == Spares(Idle)
BY IdleState DEF Spares

LEMMA InitFInv == Init => FInv
<1> SUFFICES ASSUME Init PROVE FInv
  OBVIOUS
<1>1. \A t \in Threads : h[t] = Idle
  BY DEF Init
<1> QED BY <1>1, IdleSpares, InitCInv DEF FInv

\* A step of the handler served, the others being idle.
LEMMA AdvanceFInv ==
  ASSUME FInv, CInv', NEW t \in Threads, h[t].pc # "idle", Spares(h[t])',
         \A u \in Threads \ {t} : h'[u] = h[u]
  PROVE  FInv'
<1>1. \A u \in Threads \ {t} : h'[u].pc = "idle"
  BY DEF FInv, CInv, OneServed
<1>2. \A u \in Threads : Spares(h[u])'
  BY <1>1 DEF Spares
<1> QED BY <1>2 DEF FInv

LEMMA StepFInv ==
  ASSUME FInv, CInv', NEW t \in Threads, Step(t)
  PROVE  FInv'
<1>a. /\ h[t] \in Handler /\ h \in [Threads -> Handler] /\ Rest
      /\ Fit(t, h[t]) /\ Spares(h[t]) /\ TypeOK
  BY ShapeIs DEF FInv, CInv
<1>b. /\ h[t].pc # "idle" /\ \A u \in Threads \ {t} : h'[u] = h[u]
      /\ h'[t].pc # "idle" => h'[t].req = h[t].req
  BY <1>a, StepMoves
<1>c. ASSUME Spares(h[t])' PROVE FInv'
  BY <1>b, <1>c, AdvanceFInv
<1>d. ASSUME h'[t].pc \notin {"config", "install", "use", "pods", "delete"} PROVE FInv'
  <2>1. Spares(h[t])'
    BY <1>d DEF Spares
  <2> QED BY <1>c, <2>1
<1>1. CASE GetNodes(t) \/ HitSelectorCache(t) \/ HitGlobalCache(t) \/ GetConfigMap(t) \/ Install(t)
  <2>1. CASE h'[t].pc = "idle"
    BY <1>d, <2>1
  <2>2. CASE h'[t].pc # "idle"
    <3>1. h'[t].pc \in {"config", "install", "use"} /\ UNCHANGED nodeLabels
      BY <1>1, <1>a, <2>2, IdleState
         DEF GetNodes, HitSelectorCache, HitGlobalCache, GetConfigMap, Install, Finish, Handler, cluster
    <3>2. h'[t].labels = nodeLabels \/ (h'[t].labels = h[t].labels /\ h[t].pc \in {"config", "install"})
      BY <1>1, <1>a, <2>2, IdleState
         DEF GetNodes, HitSelectorCache, HitGlobalCache, GetConfigMap, Install, Finish, Handler, At
    <3>3. Spares(h[t])'
      BY <1>a, <1>b, <2>2, <3>1, <3>2 DEF Spares
    <3> QED BY <1>c, <3>3
  <2> QED BY <2>1, <2>2
<1>2. ASSUME NEW n \in Nodes, Judge(t, n) PROVE FInv'
  <2>1. h'[t].pc \in {"bind", "config"} /\ h'[t].req = h[t].req /\ h[t].req.kind = "filter"
    BY <1>2, <1>a DEF Judge, Handler
  <2>2. Spares(h[t])'
    BY <2>1 DEF Spares
  <2> QED BY <1>c, <2>2
<1>3. CASE Bind(t) \/ Show(t) \/ Check(t) \/ Refreshed(t)
  <2>1. h'[t].pc = "idle"
    BY <1>3, <1>a, IdleState DEF Bind, Show, Check, Refreshed, Finish
  <2> QED BY <1>d, <2>1
<1>4. CASE SelectNodes(t)
  <2>1. CASE Finish(t)
    BY <1>a, <1>d, <2>1, IdleState DEF Finish
  <2>2. CASE ~Finish(t)
    <3> DEFINE ok == { n \in Nodes : Accepted(t, n) }
    <3>1. h' = [h EXCEPT ![t].ok = ok, ![t].pc = "pods", ![t].cm = Nil]
          /\ h[t].pc = "use" /\ h[t].req.kind = "refresh" /\ UNCHANGED <<store, nodeLabels>>
      BY <1>4, <2>2 DEF SelectNodes, At, api, cluster
    <3>2. heap[h[t].cm] = StoredData /\ h[t].labels = nodeLabels
      BY <1>a, <3>1 DEF Fit, Spares
    <3>3. \A n \in Nodes : n \in ok <=> StoreAccepts(h[t].req.ns, nodeLabels[n])
      BY <3>2 DEF Accepted, StoreAccepts
    <3> HIDE DEF ok
    <3>4. h'[t].pc = "pods" /\ h'[t].ok = ok /\ h'[t].req = h[t].req
      BY <1>a, <3>1 DEF Handler
    <3>5. Spares(h[t])'
      BY <3>1, <3>3, <3>4 DEF Spares, StoreAccepts, StoredData
    <3> QED BY <1>c, <3>5
  <2> QED BY <2>1, <2>2
<1>5. CASE GetPods(t)
  <2>1. CASE Finish(t)
    BY <1>a, <1>d, <2>1, IdleState DEF Finish
  <2>2. CASE ~Finish(t)
    <3> DEFINE todo == { p \in Pods : PodNs[p] = h[t].req.ns /\ place[p] \in Nodes \ h[t].ok }
    <3>1. h' = [h EXCEPT ![t].pc = "delete", ![t].todo = todo]
          /\ h[t].pc = "pods" /\ UNCHANGED <<store, nodeLabels, place>>
      BY <1>5, <2>2 DEF GetPods, At, api, cluster
    <3>2. \A p \in todo : PodNs[p] = h[t].req.ns /\ ~StoreAccepts(h[t].req.ns, nodeLabels[place[p]])
      BY <1>a, <3>1 DEF Spares
    <3> HIDE DEF todo
    <3>3. h'[t].pc = "delete" /\ h'[t].todo = todo /\ h'[t].req = h[t].req
      BY <1>a, <3>1 DEF Handler
    <3>4. Spares(h[t])'
      BY <3>1, <3>2, <3>3 DEF Spares, StoreAccepts, StoredData
    <3> QED BY <1>c, <3>4
  <2> QED BY <2>1, <2>2
<1>6. ASSUME NEW p \in Pods, DeletePod(t, p) PROVE FInv'
  <2>1. /\ h[t].pc = "delete" /\ UNCHANGED <<store, nodeLabels>>
        /\ h'[t].pc = "delete" /\ h'[t].todo = h[t].todo \ {p} /\ h'[t].req = h[t].req
    BY <1>6, <1>a DEF DeletePod, At, api, Handler
  <2>2. \A q \in Pods : q # p => place'[q] = place[q]
    BY <1>6, <1>a DEF DeletePod, Rest
  <2>3. Spares(h[t])'
    BY <1>a, <2>1, <2>2 DEF Spares, StoreAccepts, StoredData
  <2> QED BY <1>c, <2>3
<1>7. CASE EditCopy(t) \/ SetNsConfig(t) \/ GetCurrent(t) \/ Write(t) \/ WriteRefused(t) \/ Ack(t)
  <2>1. h'[t].pc \in {"idle", "set", "current", "create", "put", "ack"}
    BY <1>7, <1>a, IdleState DEF EditCopy, SetNsConfig, GetCurrent, Write, WriteRefused, Ack, Finish, Handler
  <2> QED BY <1>d, <2>1
<1> QED BY <1>1, <1>2, <1>3, <1>4, <1>5, <1>6, <1>7 DEF Step

LEMMA NextFInv ==
  ASSUME OneAtATime, NewLabels = {}, FInv, [Next]_vars
  PROVE  FInv'
<1>a. CInv' /\ TypeOK /\ h \in [Threads -> Handler] /\ \A t \in Threads : Spares(h[t])
  BY NextCInv, ShapeIs DEF FInv, CInv
<1>1. ASSUME NEW t \in Threads, Step(t) PROVE FInv'
  BY <1>1, <1>a, StepFInv
<1>2. ASSUME NEW t \in Threads, NEW r \in Serves[t], Begin(t, r) PROVE FInv'
  <2>1. r.kind \in Kinds
    BY NsAssumption DEF Request
  <2>2. h'[t].pc \in {"nodes", "config"} /\ h'[t].req = r /\ (r.kind = "refresh" => h'[t].pc = "nodes")
    <3>1. CASE r.kind \in EditKinds
      BY <1>2, <3>1 DEF Begin, EditKinds, WithEdit, Idle
    <3>2. CASE r.kind \notin EditKinds
      BY <1>2, <1>a, <2>1, <3>2 DEF Begin, EditKinds, Kinds, Idle
    <3> QED BY <3>1, <3>2
  <2>3. \A u \in Threads \ {t} : h'[u].pc = "idle"
    <3>1. \A u \in Threads \ {t} : h[u].pc = "idle" /\ ~Touches(u, r)
      BY <1>2 DEF Begin, MayBegin, AllIdle, At, OneAtATime, Touches
    <3>2. CASE r.kind \in EditKinds
      BY <1>2, <3>1, <3>2 DEF Begin, EditKinds, WithEdit
    <3>3. CASE r.kind \notin EditKinds
      BY <1>2, <1>a, <2>1, <3>1, <3>3 DEF Begin, EditKinds, Kinds
    <3> QED BY <3>2, <3>3
  <2>4. \A u \in Threads : Spares(h[u])'
    BY <2>2, <2>3 DEF Spares
  <2> QED BY <1>a, <2>4 DEF FInv
<1>3. CASE Environment \/ UNCHANGED vars
  <2>1. UNCHANGED <<store, nodeLabels, place>> /\ \A t \in Threads : h'[t] \in {h[t], Idle}
    BY <1>3, <1>a DEF Environment, ExpireGlobal, ExpireSelector, Restart,
                      OneAtATime, api, cluster, vars
  <2>2. \A t \in Threads : Spares(h[t])'
    <3> SUFFICES ASSUME NEW t \in Threads PROVE Spares(h[t])'
      OBVIOUS
    <3>1. CASE h'[t] = Idle
      BY <3>1, IdleState DEF Spares
    <3>2. CASE h'[t] = h[t]
      BY <1>a, <2>1, <3>2 DEF Spares, StoreAccepts, StoredData
    <3> QED BY <2>1, <3>1, <3>2
  <2> QED BY <1>a, <2>2 DEF FInv
<1> QED BY <1>1, <1>2, <1>3 DEF Next

\* Only a refresh that has the pod on its list deletes it.
LEMMA DeletedWasListed ==
  ASSUME TypeOK, [Next]_vars, NEW p \in Pods, place[p] \in Nodes, place'[p] = Gone
  PROVE  \E t \in Threads : h[t].pc = "delete" /\ p \in h[t].todo
<1>a. place \in [Pods -> Nodes \cup {Pending, Gone}] /\ Gone \notin Nodes /\ Pending \notin Nodes
  BY ShapeIs, NsAssumption DEF Rest
<1>b. place' # place
  BY <1>a
<1>1. ASSUME NEW t \in Threads, Step(t) PROVE \E u \in Threads : h[u].pc = "delete" /\ p \in h[u].todo
  <2>1. CASE \E q \in Pods : DeletePod(t, q)
    <3>1. PICK q \in Pods : DeletePod(t, q)
      BY <2>1
    <3>2. q = p
      BY <1>a, <3>1 DEF DeletePod
    <3> QED BY <3>1, <3>2 DEF DeletePod, At
  <2>2. CASE Bind(t)
    <3>1. CASE h[t].ok = {} \/ place[h[t].req.pod] # Pending
      BY <1>b, <2>2, <3>1 DEF Bind
    <3>2. CASE ~(h[t].ok = {} \/ place[h[t].req.pod] # Pending)
      <4>1. PICK n \in h[t].ok : place' = [place EXCEPT ![h[t].req.pod] = n]
        BY <2>2, <3>2 DEF Bind
      <4>2. n \in Nodes
        BY ShapeIs DEF Handler
      <4> QED BY <1>a, <4>1, <4>2
    <3> QED BY <3>1, <3>2
  <2>3. CASE ~Bind(t) /\ ~\E q \in Pods : DeletePod(t, q)
    BY <1>1, <1>b, <2>3
       DEF Step, GetNodes, HitSelectorCache, HitGlobalCache, GetConfigMap, Install, Judge, Show, Check,
           SelectNodes, GetPods, Refreshed, EditCopy, SetNsConfig, GetCurrent, Write, WriteRefused, Ack, cluster
  <2> QED BY <2>1, <2>2, <2>3
<1>2. ASSUME NEW t \in Threads, NEW r \in Serves[t], Begin(t, r) PROVE FALSE
  BY <1>2, <1>b DEF Begin, cluster
<1>3. CASE Environment \/ UNCHANGED vars
  BY <1>3, <1>b DEF Environment, ExpireGlobal, ExpireSelector, Restart, HandEdit, Relabel, cluster, vars
<1> QED BY <1>1, <1>2, <1>3 DEF Next

(* NsNodeSelectorRefresh deletes no pod whose node the stored              *)
(* configuration accepts, from the node list it read first to the last of  *)
(* its deletes, failed lists and deletes included.                         *)
THEOREM RefreshSparesMatchingAlways ==
  OneAtATime /\ NewLabels = {} => (Spec => RefreshSparesMatching)
<1> SUFFICES ASSUME OneAtATime, NewLabels = {} PROVE Spec => RefreshSparesMatching
  OBVIOUS
<1>1. Init => FInv
  BY InitFInv
<1>2. FInv /\ [Next]_vars => FInv'
  BY NextFInv
<1>3. FInv /\ [Next]_vars =>
        [\A p \in Pods : place[p] \in Nodes /\ place'[p] = Gone =>
           ~StoreAccepts(PodNs[p], nodeLabels[place[p]])]_vars
  <2> SUFFICES ASSUME FInv, [Next]_vars, NEW p \in Pods, place[p] \in Nodes, place'[p] = Gone
               PROVE  ~StoreAccepts(PodNs[p], nodeLabels[place[p]])
    OBVIOUS
  <2>1. PICK t \in Threads : h[t].pc = "delete" /\ p \in h[t].todo
    BY DeletedWasListed DEF FInv, CInv
  <2> QED BY <2>1 DEF FInv, Spares
<1> QED BY <1>1, <1>2, <1>3, PTL DEF Spec, RefreshSparesMatching


-----------------------------------------------------------------------------
(***************************************************************************)
(* In this part: any number of processes, whose handlers overlap as they   *)
(* please, where only the edits are paced: one is sent when no request is  *)
(* served and no cache of the ConfigMap is fresh.  The API server may      *)
(* refuse a write, lose an answer or fail a list; processes restart.       *)
(***************************************************************************)
EditsArePaced == Pacing = "paced" /\ HandEdits = {} /\ "read" \notin Faults

\* A handler that serves an edit, and what it has done up to its own write
\* into the shared object.
Working(s) == s.pc # "idle" /\ s.req.kind \in EditKinds
Early == {"config", "install", "use", "set"}

Kinded(s) ==
  /\ s.pc \in {"set", "ack"} \cup Holding => s.req.kind \in EditKinds
  /\ s.pc = "nodes" => s.req.kind \notin EditKinds

\* What the handler of an edit is about to write holds all that is
\* acknowledged, and its own entry.
Carries(s) ==
  /\ s.pc \in {"use", "set"} => heap[s.cm] = StoredData
  /\ s.pc = "set" => Keeps(s.cfg, s.req)
  /\ s.pc \in Holding => Keeps(heap[s.cm], s.req)
  /\ s.pc = "ack" => s.resp = store /\ Keeps(s.resp, s.req)
  /\ \A a \in acked : ~SameEntry(a, s.req)

OneEdit == \A t, u \in Threads : Working(h[t]) /\ Working(h[u]) => t = u

\* Until it writes, what was read since the edit began is what is stored.
FreshRead ==
  (\E t \in Threads : Working(h[t]) /\ h[t].pc \in Early) =>
    /\ \A p \in Procs : globalFresh[p] => globalCM[p] \in Objects /\ heap[globalCM[p]] = StoredData
    /\ \A u \in Threads : h[u].pc = "install" => h[u].resp = store

PInv ==
  /\ TypeOK /\ OneEdit /\ FreshRead /\ AckedIn
  /\ \A t \in Threads : Kinded(h[t]) /\ (Working(h[t]) => Carries(h[t]))

LEMMA InitPInv == Init => PInv
<1> SUFFICES ASSUME Init PROVE PInv
  OBVIOUS
<1>1. acked = {} /\ \A t \in Threads : h[t] = Idle
  BY DEF Init
<1> QED BY <1>1, IdleState, InitShape DEF PInv, OneEdit, FreshRead, AckedIn, Kinded, Working, Holding

\* A step of one handler.
LEMMA AdvancePInv ==
  ASSUME PInv, TypeOK', NEW t \in Threads, h[t].pc # "idle",
         \A u \in Threads \ {t} : h'[u] = h[u],
         h'[t].pc # "idle" => h'[t].req = h[t].req,
         Kinded(h'[t]), FreshRead', AckedIn',
         Working(h'[t]) => Carries(h[t])',
         \A u \in Threads \ {t} : Working(h[u]) => Carries(h[u])'
  PROVE  PInv'
<1>1. \A u \in Threads : Working(h'[u]) => Working(h[u])
  BY DEF Working
<1>2. OneEdit'
  BY <1>1 DEF PInv, OneEdit, Working
<1>3. \A u \in Threads : Kinded(h[u])'
  BY DEF PInv, Kinded
<1>4. \A u \in Threads : Working(h[u])' => Carries(h[u])'
  BY DEF Working
<1> QED BY <1>2, <1>3, <1>4 DEF PInv

\* What every step but those of an edit leaves: the API server, what is
\* acknowledged, and the objects in use.
LEMMA ReadKeeps ==
  ASSUME "read" \notin Faults, TypeOK, NEW t \in Threads,
         \/ GetNodes(t) \/ HitSelectorCache(t) \/ HitGlobalCache(t) \/ GetConfigMap(t) \/ Install(t)
         \/ (\E n \in Nodes : Judge(t, n)) \/ Bind(t) \/ Show(t) \/ Check(t)
         \/ SelectNodes(t) \/ GetPods(t) \/ (\E p \in Pods : DeletePod(t, p)) \/ Refreshed(t)
  PROVE  /\ UNCHANGED <<store, version, acked>>
         /\ \A o \in Objects : o \in InUse => heap'[o] = heap[o]
         /\ h'[t].pc \in {"idle", "config", "install", "use", "bind", "pods", "delete"}
         /\ h'[t].pc = "config" => h[t].pc = "nodes" \/ h[t].req.kind = "filter"
         /\ h'[t].pc = "install" => h[t].pc = "config" /\ ~GlobalHit(t) /\ h'[t].resp = store
         /\ h'[t].pc = "use" /\ h[t].req.kind \in EditKinds =>
              \/ /\ h[t].pc = "config" /\ h'[t].cm = globalCM[ProcOf[t]] /\ globalFresh[ProcOf[t]]
              \/ /\ h[t].pc = "install" /\ h'[t].cm \in Objects
                 /\ heap'[h'[t].cm] = IF h[t].resp = Nil THEN EmptyConfig ELSE h[t].resp
         /\ \A p \in Procs : globalFresh'[p] =>
              \/ globalFresh[p] /\ globalCM'[p] = globalCM[p]
              \/ /\ h[t].pc = "install" /\ h[t].resp # Nil
                 /\ globalCM'[p] = h'[t].cm /\ h'[t].cm \in Objects /\ heap'[h'[t].cm] = h[t].resp
<1>a. /\ h[t] \in Handler /\ h \in [Threads -> Handler] /\ Rest /\ ProcOf[t] \in Procs
  BY ShapeIs, NsAssumption
<1>1. CASE Install(t)
  <2> DEFINE data == IF h[t].resp = Nil THEN EmptyConfig ELSE h[t].resp
  <2>1. /\ h[t].pc = "install" /\ Allocate(data) /\ UNCHANGED <<api, acked>>
        /\ h' = [h EXCEPT ![t].pc = "use", ![t].cm = NewObject, ![t].resp = Nil]
        /\ IF h[t].resp = Nil THEN UNCHANGED <<globalCM, globalFresh>>
           ELSE /\ globalCM' = [globalCM EXCEPT ![ProcOf[t]] = NewObject]
                /\ globalFresh' = [globalFresh EXCEPT ![ProcOf[t]] = TRUE]
    BY <1>1 DEF Install, At
  <2>2. /\ \A o \in Objects : o \in InUse => heap'[o] = heap[o]
        /\ heap'[NewObject] = data /\ NewObject \in Objects
    BY <2>1, FreshObject DEF Allocate
  <2>3. h'[t].pc = "use" /\ h'[t].cm = NewObject
    BY <1>a, <2>1 DEF Handler
  <2> HIDE DEF data
  <2>4. \A p \in Procs : globalFresh'[p] =>
              \/ globalFresh[p] /\ globalCM'[p] = globalCM[p]
              \/ h[t].resp # Nil /\ globalCM'[p] = NewObject
    BY <1>a, <2>1 DEF Rest
  <2> QED BY <2>1, <2>2, <2>3, <2>4 DEF api, data
<1>2. CASE GetNodes(t) \/ HitSelectorCache(t) \/ HitGlobalCache(t) \/ GetConfigMap(t)
  <2>1. /\ UNCHANGED <<store, version, acked, heap, globalCM, globalFresh>>
        /\ h'[t].pc \in {"idle", "config", "install", "use"}
        /\ h'[t].pc = "config" => h[t].pc = "nodes"
    BY <1>2, <1>a, IdleState
       DEF GetNodes, HitSelectorCache, HitGlobalCache, GetConfigMap, Finish, Handler, At, api, caches
  <2>2. h'[t].pc = "install" => h[t].pc = "config" /\ ~GlobalHit(t) /\ h'[t].resp = store
    BY <1>2, <1>a, IdleState
       DEF GetNodes, HitSelectorCache, HitGlobalCache, GetConfigMap, Finish, Handler, At, Fails
  <2>3. h'[t].pc = "use" /\ h[t].req.kind \in EditKinds =>
          h[t].pc = "config" /\ h'[t].cm = globalCM[ProcOf[t]] /\ globalFresh[ProcOf[t]]
    BY <1>2, <1>a, IdleState
       DEF GetNodes, HitSelectorCache, HitGlobalCache, GetConfigMap, Finish, Handler, At,
           SelectorHit, GlobalHit, EditKinds
  <2> QED BY <2>1, <2>2, <2>3
<1>3. CASE \/ (\E n \in Nodes : Judge(t, n)) \/ Bind(t) \/ Show(t) \/ Check(t)
           \/ SelectNodes(t) \/ GetPods(t) \/ (\E p \in Pods : DeletePod(t, p)) \/ Refreshed(t)
  <2>1. UNCHANGED <<store, version, acked, heap, globalCM, globalFresh>>
    BY <1>3 DEF Judge, Bind, Show, Check, SelectNodes, GetPods, DeletePod, Refreshed, api, caches
  <2>2. ASSUME NEW n \in Nodes, Judge(t, n)
        PROVE  h'[t].pc \in {"bind", "config"} /\ h[t].req.kind = "filter"
    BY <2>2, <1>a DEF Judge, Handler
  <2>3. CASE Bind(t) \/ Show(t) \/ Check(t) \/ Refreshed(t)
    <3>1. h'[t].pc = "idle"
      BY <1>a, <2>3, IdleState DEF Bind, Show, Check, Refreshed, Finish
    <3> QED BY <2>1, <3>1
  <2>4. CASE SelectNodes(t) \/ GetPods(t)
    <3>1. CASE Finish(t)
      BY <1>a, <2>1, <3>1, IdleState DEF Finish
    <3>2. ASSUME NEW ok, h' = [h EXCEPT ![t].ok = ok, ![t].pc = "pods", ![t].cm = Nil]
          PROVE  h'[t].pc = "pods"
      BY <1>a, <3>2 DEF Handler
    <3>3. ASSUME NEW todo, h' = [h EXCEPT ![t].pc = "delete", ![t].todo = todo]
          PROVE  h'[t].pc = "delete"
      BY <1>a, <3>3 DEF Handler
    <3> QED BY <2>1, <2>4, <3>1, <3>2, <3>3 DEF SelectNodes, GetPods
  <2>5. ASSUME NEW p \in Pods, DeletePod(t, p) PROVE h'[t].pc = "delete"
    BY <2>5, <1>a DEF DeletePod, At, Handler
  <2> QED BY <1>3, <2>1, <2>2, <2>3, <2>4, <2>5
<1> QED BY <1>1, <1>2, <1>3

LEMMA ReadPInv ==
  ASSUME EditsArePaced, PInv, TypeOK', NEW t \in Threads, Step(t),
         \/ GetNodes(t) \/ HitSelectorCache(t) \/ HitGlobalCache(t) \/ GetConfigMap(t) \/ Install(t)
         \/ (\E n \in Nodes : Judge(t, n)) \/ Bind(t) \/ Show(t) \/ Check(t)
         \/ SelectNodes(t) \/ GetPods(t) \/ (\E p \in Pods : DeletePod(t, p)) \/ Refreshed(t)
  PROVE  PInv'
<1>a. /\ TypeOK /\ Rest /\ h[t].pc # "idle" /\ \A u \in Threads \ {t} : h'[u] = h[u]
      /\ h'[t].pc # "idle" => h'[t].req = h[t].req
      /\ Kinded(h[t]) /\ (Working(h[t]) => Carries(h[t])) /\ ProcOf[t] \in Procs
  BY ShapeIs, StepMoves, NsAssumption DEF PInv
<1>b. /\ UNCHANGED <<store, version, acked>>
      /\ \A o \in Objects : o \in InUse => heap'[o] = heap[o]
      /\ h'[t].pc \in {"idle", "config", "install", "use", "bind", "pods", "delete"}
      /\ h'[t].pc = "config" => h[t].pc = "nodes" \/ h[t].req.kind = "filter"
      /\ h'[t].pc = "install" => h[t].pc = "config" /\ h'[t].resp = store
      /\ h'[t].pc = "use" /\ h[t].req.kind \in EditKinds =>
           \/ /\ h[t].pc = "config" /\ h'[t].cm = globalCM[ProcOf[t]] /\ globalFresh[ProcOf[t]]
           \/ /\ h[t].pc = "install" /\ h'[t].cm \in Objects
              /\ heap'[h'[t].cm] = IF h[t].resp = Nil THEN EmptyConfig ELSE h[t].resp
      /\ \A p \in Procs : globalFresh'[p] =>
           \/ globalFresh[p] /\ globalCM'[p] = globalCM[p]
           \/ /\ h[t].pc = "install" /\ h[t].resp # Nil
              /\ globalCM'[p] \in Objects /\ heap'[globalCM'[p]] = h[t].resp
  BY <1>a, ReadKeeps DEF EditsArePaced
<1>c. /\ StoredData' = StoredData /\ AckedIn'
      /\ \A p \in Procs : globalCM[p] \in InUse
      /\ \A u \in Threads : h[u].cm \in InUse
  BY <1>b DEF PInv, AckedIn, StoredData, InUse
<1>1. Kinded(h'[t])
  BY <1>b DEF Kinded, Holding
<1>2. Working(h'[t]) => h[t].pc \in {"config", "install"} \/ h'[t].pc \notin Early
  BY <1>a, <1>b DEF Working, Kinded, Early, EditKinds
<1>3. (\E u \in Threads : Working(h'[u]) /\ h'[u].pc \in Early) => \E u \in Threads : Working(h[u]) /\ h[u].pc \in Early
  BY <1>a, <1>2 DEF Working, Early
<1>4. FreshRead'
  <2> SUFFICES ASSUME \E u \in Threads : Working(h'[u]) /\ h'[u].pc \in Early
               PROVE  /\ \A p \in Procs : globalFresh'[p] => globalCM'[p] \in Objects /\ heap'[globalCM'[p]] = StoredData
                      /\ \A u \in Threads : h'[u].pc = "install" => h'[u].resp = store
    BY <1>b, <1>c DEF FreshRead
  <2>1. /\ \A p \in Procs : globalFresh[p] => globalCM[p] \in Objects /\ heap[globalCM[p]] = StoredData
        /\ \A u \in Threads : h[u].pc = "install" => h[u].resp = store
    BY <1>3 DEF PInv, FreshRead
  <2>2. h[t].pc = "install" /\ h[t].resp # Nil => h[t].resp = StoredData
    BY <2>1 DEF StoredData
  <2> QED BY <1>a, <1>b, <1>c, <2>1, <2>2
<1>5. Working(h'[t]) => Carries(h[t])'
  <2> SUFFICES ASSUME Working(h'[t]) PROVE Carries(h[t])'
    OBVIOUS
  <2>1. Working(h[t]) /\ Carries(h[t]) /\ h'[t].req = h[t].req
    BY <1>a DEF Working
  <2>2. h'[t].pc = "use" => heap'[h'[t].cm] = StoredData
    <3> SUFFICES ASSUME h'[t].pc = "use" PROVE heap'[h'[t].cm] = StoredData
      OBVIOUS
    <3>1. h[t].pc \in Early
      BY <1>b, <2>1 DEF Working, Early
    <3>2. /\ \A p \in Procs : globalFresh[p] => globalCM[p] \in Objects /\ heap[globalCM[p]] = StoredData
          /\ \A u \in Threads : h[u].pc = "install" => h[u].resp = store
      BY <2>1, <3>1 DEF PInv, FreshRead
    <3> QED BY <1>a, <1>b, <1>c, <2>1, <3>2 DEF Working, StoredData
  <2> QED BY <1>b, <1>c, <2>1, <2>2 DEF Carries, Holding
<1>6. \A u \in Threads \ {t} : Working(h[u]) => Carries(h[u])'
  <2> SUFFICES ASSUME NEW u \in Threads \ {t}, Working(h[u]) PROVE Carries(h[u])'
    OBVIOUS
  <2>1. Carries(h[u]) /\ h'[u] = h[u] /\ Holds(h[u]) /\ h[u].cm \in InUse
    BY <1>a, <1>c, ShapeIs DEF PInv
  <2>2. h[u].pc \in {"use", "set"} \cup Holding => heap'[h[u].cm] = heap[h[u].cm]
    BY <1>b, <2>1 DEF Holds, Holding
  <2> QED BY <1>b, <1>c, <2>1, <2>2 DEF Carries, Keeps, Holding
<1> QED BY <1>a, <1>c, <1>1, <1>4, <1>5, <1>6, AdvancePInv

\* The handler of the edit goes on past its last read.
LEMMA WriterPInv ==
  ASSUME PInv, TypeOK', NEW t \in Threads, Working(h[t]),
         \A u \in Threads \ {t} : h'[u] = h[u],
         h'[t].pc # "idle" => h'[t].req = h[t].req,
         h'[t].pc \in {"idle", "ack"} \cup Holding, AckedIn',
         Working(h'[t]) => Carries(h[t])'
  PROVE  PInv'
<1>1. \A u \in Threads \ {t} : ~Working(h[u])
  BY DEF PInv, OneEdit
<1>2. Kinded(h'[t])
  BY DEF Kinded, Working, Holding
<1>3. FreshRead'
  BY <1>1 DEF FreshRead, Working, Early, Holding
<1> QED BY <1>1, <1>2, <1>3, AdvancePInv DEF Working

LEMMA EditPInv ==
  ASSUME EditsArePaced, PInv, TypeOK', NEW t \in Threads,
         EditCopy(t) \/ SetNsConfig(t) \/ GetCurrent(t) \/ Write(t) \/ WriteRefused(t) \/ Ack(t)
  PROVE  PInv'
<1>a. /\ h[t] \in Handler /\ h \in [Threads -> Handler] /\ Rest /\ Holds(h[t]) /\ h[t].req \in Request
      /\ Kinded(h[t]) /\ AckedIn /\ acked \subseteq Request
  BY ShapeIs DEF PInv, Handler, Rest
<1>b. /\ h[t].pc # "idle" /\ \A u \in Threads \ {t} : h'[u] = h[u]
      /\ h'[t].pc # "idle" => h'[t].req = h[t].req
  BY StepMoves DEF Step, PInv
<1>c. Working(h[t])
  BY <1>a, <1>b
     DEF EditCopy, SetNsConfig, GetCurrent, Write, WriteRefused, Ack, At, IsEdit, Working, Kinded, Holding
<1>d. Carries(h[t]) /\ \A u \in Threads \ {t} : ~Working(h[u])
  BY <1>c DEF PInv, OneEdit
<1>1. ASSUME EditCopy(t) PROVE PInv'
  <2>1. h[t].pc = "use" /\ heap[h[t].cm] = StoredData /\ UNCHANGED <<api, heap, caches, acked>>
    BY <1>1, <1>d DEF EditCopy, At, Carries
  <2>2. PICK listed \in {Listed, {}} :
          LET base == NsConfigOf(heap[h[t].cm], listed)
          IN  IF EditAllowed(base, h[t].req)
              THEN h' = [h EXCEPT ![t].pc = "set", ![t].cfg = EditedConfig(base, h[t].req)]
              ELSE Finish(t)
    BY <1>1 DEF EditCopy
  <2> DEFINE cfg == EditedConfig(NsConfigOf(StoredData, listed), h[t].req)
             s == [h[t] EXCEPT !.pc = "set", !.cfg = cfg]
  <2>3. h'[t] = Idle \/ h'[t] = s
    BY <1>a, <2>1, <2>2 DEF Finish
  <2>4. Keeps(cfg, h[t].req)
    <3>1. \A a \in acked : Entry(cfg, a)
      BY <1>a, <1>d, <2>1, OthersStay DEF AckedIn, Carries
    <3>2. NsConfigOf(StoredData, listed) \in NsConfig \cup {BadJson}
      <4>1. StoredData \in CMData
        BY <1>a, DataTypes DEF StoredData, Rest
      <4> QED BY <4>1, ReadTypes
    <3>3. h[t].req.kind # "delete" => Entry(cfg, h[t].req)
      BY <1>a, <3>2, OwnEntry
    <3> HIDE DEF cfg
    <3> QED BY <3>1, <3>3 DEF Keeps
  <2> HIDE DEF cfg
  <2>5. s.pc = "set" /\ s.cm = h[t].cm /\ s.req = h[t].req /\ s.cfg = cfg
    BY <1>a DEF Handler
  <2> HIDE DEF s
  <2>6. StoredData' = StoredData /\ AckedIn'
    BY <1>a, <2>1 DEF AckedIn, StoredData, api
  <2>7. Kinded(h'[t]) /\ (h'[t].pc = "idle" \/ h'[t].pc = "set")
    BY <1>c, <2>3, <2>5, IdleState DEF Kinded, Holding, Working
  <2>8. Working(h'[t]) => Carries(h[t])'
    <3> SUFFICES ASSUME Working(h'[t]) PROVE Carries(h[t])'
      OBVIOUS
    <3>1. h'[t] = s
      BY <2>3, IdleState DEF Working
    <3> QED BY <1>d, <2>1, <2>4, <2>5, <2>6, <3>1 DEF Carries, Keeps, Holding
  <2>9. FreshRead'
    <3> SUFFICES ASSUME \E u \in Threads : Working(h'[u]) /\ h'[u].pc \in Early
                 PROVE  /\ \A p \in Procs : globalFresh'[p] => globalCM'[p] \in Objects /\ heap'[globalCM'[p]] = StoredData'
                        /\ \A u \in Threads : h'[u].pc = "install" => h'[u].resp = store'
      BY DEF FreshRead
    <3>1. /\ \A p \in Procs : globalFresh[p] => globalCM[p] \in Objects /\ heap[globalCM[p]] = StoredData
          /\ \A u \in Threads : h[u].pc = "install" => h[u].resp = store
      BY <1>c, <2>1 DEF PInv, FreshRead, Early
    <3> QED BY <1>b, <2>1, <2>6, <2>7, <3>1 DEF api, caches
  <2> QED BY <1>b, <1>d, <2>6, <2>7, <2>8, <2>9, AdvancePInv
<1>2. ASSUME SetNsConfig(t) PROVE PInv'
  <2> DEFINE s == [h[t] EXCEPT !.pc = "current", !.cfg = BadJson]
  <2>1. h[t].pc = "set" /\ UNCHANGED <<api, caches, acked>> /\ Keeps(h[t].cfg, h[t].req)
        /\ h[t].cm \in Objects
    BY <1>2, <1>a, <1>d DEF SetNsConfig, At, Carries, Holds
  <2>2. AckedIn'
    BY <1>a, <2>1 DEF AckedIn, StoredData, api
  <2>3. CASE heap[h[t].cm] = NilData
    <3>1. h'[t] = Idle
      BY <1>2, <1>a, <2>3 DEF SetNsConfig, Finish
    <3> QED BY <1>b, <1>c, <2>2, <3>1, IdleState, WriterPInv DEF Working
  <2>4. CASE heap[h[t].cm] # NilData
    <3>1. heap' = [heap EXCEPT ![h[t].cm] = h[t].cfg] /\ h'[t] = s
      BY <1>2, <1>a, <2>4 DEF SetNsConfig
    <3>2. heap'[h[t].cm] = h[t].cfg
      BY <1>a, <2>1, <3>1 DEF Rest
    <3>3. s.pc = "current" /\ s.cm = h[t].cm /\ s.req = h[t].req
      BY <1>a DEF Handler
    <3> HIDE DEF s
    <3>4. Carries(h[t])'
      <4>1. Keeps(heap[h[t].cm], h[t].req)'
        BY <2>1, <3>1, <3>2, <3>3 DEF Keeps, Entry
      <4> QED BY <1>d, <2>1, <3>1, <3>3, <4>1 DEF Carries, Holding
    <3> QED BY <1>b, <1>c, <2>2, <3>1, <3>3, <3>4, WriterPInv DEF Holding
  <2> QED BY <2>3, <2>4
<1>3. ASSUME GetCurrent(t) PROVE PInv'
  <2> DEFINE s == [h[t] EXCEPT !.pc = IF store = Nil THEN "create" ELSE "put", !.rv = version]
  <2>1. h[t].pc = "current" /\ UNCHANGED <<api, heap, caches, acked>> /\ h'[t] = s
    BY <1>3, <1>a DEF GetCurrent, At, Fails, EditsArePaced
  <2>2. /\ s.pc \in {"create", "put"} /\ s.cm = h[t].cm /\ s.req = h[t].req
    BY <1>a DEF Handler
  <2>3. AckedIn'
    BY <1>a, <2>1 DEF AckedIn, StoredData, api
  <2> HIDE DEF s
  <2>4. Carries(h[t])'
    BY <1>d, <2>1, <2>2 DEF Carries, Holding, Keeps
  <2> QED BY <1>b, <1>c, <2>1, <2>2, <2>3, <2>4, WriterPInv DEF Holding
<1>4. ASSUME Write(t) PROVE PInv'
  <2> DEFINE s == [h[t] EXCEPT !.pc = "ack", !.resp = heap[h[t].cm]]
  <2>1. h[t].pc \in Holding /\ UNCHANGED <<heap, caches, acked>> /\ store' = heap[h[t].cm]
        /\ h[t].cm \in Objects /\ (h'[t] = Idle \/ h'[t] = s)
    BY <1>4, <1>a DEF Write, At, Holding, Holds, Finish
  <2>2. StoredData' = heap[h[t].cm]
    <3>1. heap[h[t].cm] # Nil
      BY <1>a, <2>1, NsAssumption DEF Rest
    <3> QED BY <2>1, <3>1 DEF StoredData
  <2>3. Keeps(heap[h[t].cm], h[t].req)
    BY <1>d, <2>1 DEF Carries
  <2>4. AckedIn'
    BY <2>1, <2>2, <2>3 DEF AckedIn, Keeps
  <2>5. CASE h'[t] = Idle
    BY <1>b, <1>c, <2>4, <2>5, IdleState, WriterPInv DEF Working
  <2>6. CASE h'[t] = s
    <3>1. s.pc = "ack" /\ s.resp = heap[h[t].cm] /\ s.req = h[t].req
      BY <1>a DEF Handler
    <3> HIDE DEF s
    <3>2. Carries(h[t])'
      <4>1. Keeps(h[t].resp, h[t].req)'
        BY <2>1, <2>3, <2>6, <3>1 DEF Keeps, Entry
      <4> QED BY <1>d, <2>1, <2>6, <3>1, <4>1 DEF Carries, Holding
    <3> QED BY <1>b, <1>c, <2>4, <2>6, <3>1, <3>2, WriterPInv
  <2> QED BY <2>1, <2>5, <2>6
<1>5. ASSUME WriteRefused(t) PROVE PInv'
  <2>1. UNCHANGED <<store, acked>> /\ h'[t] = Idle
    BY <1>5, <1>a DEF WriteRefused, Finish, api
  <2>2. AckedIn'
    BY <1>a, <2>1 DEF AckedIn, StoredData
  <2> QED BY <1>b, <1>c, <2>1, <2>2, IdleState, WriterPInv DEF Working
<1>6. ASSUME Ack(t) PROVE PInv'
  <2>1. /\ h[t].pc = "ack" /\ h[t].resp = store /\ store \in CMData /\ Keeps(store, h[t].req)
        /\ UNCHANGED store /\ h'[t] = Idle
    BY <1>6, <1>a, <1>d DEF Ack, At, Holds, Carries, Finish, api
  <2>2. StoredData' = store
    BY <2>1, NsAssumption DEF StoredData
  <2>3. AckedIn'
    <3>1. \A a \in acked' : a \in acked \/ (a = h[t].req /\ h[t].req.kind # "delete")
      BY <1>6 DEF Ack
    <3> QED BY <2>1, <2>2, <3>1 DEF AckedIn, Keeps
  <2> QED BY <1>b, <1>c, <2>1, <2>3, IdleState, WriterPInv DEF Working
<1> QED BY <1>1, <1>2, <1>3, <1>4, <1>5, <1>6

\* A request arrives: an edit only when nothing is served or fresh.
LEMMA BeginPInv ==
  ASSUME EditsArePaced, PInv, TypeOK', NEW t \in Threads, NEW r \in Serves[t], Begin(t, r)
  PROVE  PInv'
<1>a. /\ h \in [Threads -> Handler] /\ UNCHANGED <<api, heap, caches>> /\ h[t].pc = "idle"
      /\ r.kind \in Kinds /\ StoredData' = StoredData
  BY ShapeIs, NsAssumption DEF Begin, At, PInv, Request, StoredData, api
<1>1. CASE r.kind \in EditKinds
  <2>1. /\ \A u \in Threads : h[u].pc = "idle"
        /\ \A p \in Procs : ~globalFresh[p]
        /\ acked' = { a \in acked : ~SameEntry(a, r) } /\ h' = WithEdit(t, r)
    BY <1>1 DEF Begin, MayBegin, AllIdle, At, EditsArePaced, EditKinds
  <2>2. /\ h'[t].pc = "config" /\ h'[t].req = r
        /\ \A u \in Threads \ {t} : h'[u].pc = "idle"
    BY <2>1 DEF WithEdit, Idle, Touches, At
  <2>3. OneEdit' /\ FreshRead' /\ AckedIn'
    BY <1>a, <2>1, <2>2 DEF OneEdit, FreshRead, AckedIn, Working, PInv, caches
  <2>4. \A u \in Threads : Kinded(h'[u]) /\ (Working(h'[u]) => u = t)
    BY <2>2 DEF Kinded, Working, Holding
  <2>5. Carries(h[t])'
    BY <2>1, <2>2 DEF Carries, Holding
  <2> QED BY <2>3, <2>4, <2>5 DEF PInv
<1>2. CASE r.kind \notin EditKinds
  <2>1. /\ h'[t].pc \in {"nodes", "config"} /\ h'[t].req = r
        /\ \A u \in Threads \ {t} : h'[u] = h[u]
        /\ UNCHANGED acked
    BY <1>a, <1>2 DEF Begin, EditKinds, Kinds, Idle
  <2>2. ~Working(h'[t]) /\ Kinded(h'[t]) /\ ~Working(h[t])
    BY <1>a, <1>2, <2>1 DEF Working, Kinded, Holding, EditKinds, Kinds
  <2>3. OneEdit'
    BY <2>1, <2>2 DEF PInv, OneEdit
  <2>4. FreshRead'
    BY <1>a, <2>1, <2>2 DEF PInv, FreshRead, api, caches
  <2>5. \A u \in Threads : Kinded(h'[u]) /\ (Working(h'[u]) => Carries(h[u])')
    <3> SUFFICES ASSUME NEW u \in Threads \ {t} PROVE Kinded(h'[u]) /\ (Working(h'[u]) => Carries(h[u])')
      BY <2>2
    <3>1. Kinded(h[u]) /\ (Working(h[u]) => Carries(h[u])) /\ h'[u] = h[u]
      BY <2>1 DEF PInv
    <3> QED BY <1>a, <2>1, <3>1 DEF Carries, Keeps, Holding, api
  <2>6. AckedIn'
    BY <1>a, <2>1 DEF PInv, AckedIn
  <2> QED BY <2>3, <2>4, <2>5, <2>6 DEF PInv
<1> QED BY <1>1, <1>2

\* Time passes, processes are killed: handlers vanish, caches grow old.
LEMMA EnvironmentPInv ==
  ASSUME EditsArePaced, PInv, TypeOK', Environment \/ UNCHANGED vars
  PROVE  PInv'
<1>a. h \in [Threads -> Handler] /\ Rest
  BY ShapeIs DEF PInv
<1>1. /\ UNCHANGED <<store, heap, acked>> /\ \A t \in Threads : h'[t] \in {h[t], Idle}
      /\ \A p \in Procs : globalFresh'[p] => globalFresh[p] /\ globalCM'[p] = globalCM[p]
  <2>1. ASSUME NEW p \in Procs, Restart(p)
        PROVE  /\ UNCHANGED <<store, heap, acked>> /\ \A t \in Threads : h'[t] \in {h[t], Idle}
               /\ \A q \in Procs : globalFresh'[q] => globalFresh[q] /\ globalCM'[q] = globalCM[q]
    BY <2>1, <1>a DEF Restart, Rest, api
  <2>2. ASSUME NEW p \in Procs, ExpireGlobal(p) \/ ExpireSelector(p)
        PROVE  /\ UNCHANGED <<store, heap, acked, h, globalCM>>
               /\ \A q \in Procs : globalFresh'[q] => globalFresh[q]
    BY <2>2, <1>a DEF ExpireGlobal, ExpireSelector, Rest, api
  <2>3. CASE (\E n \in Nodes, labels \in NewLabels : Relabel(n, labels)) \/ UNCHANGED vars
    BY <2>3 DEF Relabel, api, caches, vars
  <2> QED BY <2>1, <2>2, <2>3 DEF Environment, EditsArePaced
<1>2. StoredData' = StoredData
  BY <1>1 DEF StoredData
<1>3. \A t \in Threads : h'[t] # h[t] => h'[t] = Idle /\ ~Working(h'[t]) /\ Kinded(h'[t])
  BY <1>1, IdleState DEF Working, Kinded, Holding
<1>4. OneEdit' /\ AckedIn'
  BY <1>1, <1>2, <1>3 DEF PInv, OneEdit, AckedIn
<1>5. FreshRead'
  BY <1>1, <1>2, <1>3, IdleState DEF PInv, FreshRead
<1>6. \A t \in Threads : Kinded(h'[t]) /\ (Working(h'[t]) => Carries(h[t])')
  <2> SUFFICES ASSUME NEW t \in Threads, h'[t] = h[t]
               PROVE  Kinded(h'[t]) /\ (Working(h'[t]) => Carries(h[t])')
    BY <1>3
  <2>1. Kinded(h[t]) /\ (Working(h[t]) => Carries(h[t]))
    BY DEF PInv
  <2> QED BY <1>1, <1>2, <2>1 DEF Carries, Keeps, Holding
<1> QED BY <1>4, <1>5, <1>6 DEF PInv

LEMMA NextPInv ==
  ASSUME EditsArePaced, PInv, [Next]_vars
  PROVE  PInv'
<1>a. TypeOK'
  BY NextShape DEF PInv
<1>1. ASSUME NEW t \in Threads, Step(t) PROVE PInv'
  BY <1>1, <1>a, ReadPInv, EditPInv DEF Step
<1> QED BY <1>1, <1>a, BeginPInv, EnvironmentPInv DEF Next

(* With several replicas, overlapping handlers, refused writes, lost       *)
(* answers and restarts, an addition that NsNodeSelectorAddUpdateOrDelete  *)
(* answered with OK stays in the ConfigMap: pacing the edits is enough.    *)
THEOREM AckedStoredPaced == EditsArePaced => (Spec => []AckedStored)
<1> SUFFICES ASSUME EditsArePaced PROVE Spec => []AckedStored
  OBVIOUS
<1>1. Init => PInv
  BY InitPInv
<1>2. PInv /\ [Next]_vars => PInv'
  BY NextPInv
<1>3. PInv => AckedStored
  BY DEF PInv, AckedIn, AckedStored, Stored, Entry, MakeMap
<1> QED BY <1>1, <1>2, <1>3, PTL DEF Spec

\* The paced edits are those of the register too.
QInv == PInv /\ \A t \in Threads : Based(t, h[t])

LEMMA InitQInv == Init => QInv
<1> SUFFICES ASSUME Init PROVE QInv
  OBVIOUS
<1>1. \A t \in Threads : h[t] = Idle
  BY DEF Init
<1> QED BY <1>1, IdleState, InitPInv DEF QInv, Based, Holding

LEMMA StepQInv ==
  ASSUME EditsArePaced, "list" \notin Faults, QInv, PInv', NEW t \in Threads, Step(t)
  PROVE  QInv'
<1>a. TypeOK /\ Rest /\ h[t].pc # "idle" /\ \A u \in Threads \ {t} : h'[u] = h[u]
  BY ShapeIs, StepMoves DEF QInv, PInv
<1>1. Based(t, h[t])'
  <2>1. h[t].pc \in {"use", "set"} /\ h[t].req.kind \in EditKinds => heap[h[t].cm] = StoredData
    BY DEF QInv, PInv, Working, Carries
  <2> QED BY <1>a, <2>1, StepBased DEF QInv
<1>2. ASSUME NEW u \in Threads \ {t} PROVE Based(u, h[u])'
  <2>1. Based(u, h[u]) /\ Kinded(h[u]) /\ h'[u] = h[u] /\ Holds(h[u]) /\ h[u].cm \in InUse
    BY <1>a, ShapeIs DEF QInv, PInv, InUse
  <2>2. CASE h[u].pc \notin {"set"} \cup Holding
    BY <2>1, <2>2 DEF Based, Holding
  <2>3. CASE h[u].pc \in {"set"} \cup Holding
    <3>1. ~Working(h[t])
      BY <2>1, <2>3 DEF QInv, PInv, OneEdit, Working, Kinded, Holding
    <3>2. Kinded(h[t])
      BY DEF QInv, PInv
    <3>3. ~(EditCopy(t) \/ SetNsConfig(t) \/ GetCurrent(t) \/ Write(t) \/ WriteRefused(t) \/ Ack(t))
      BY <1>a, <3>1, <3>2
         DEF EditCopy, SetNsConfig, GetCurrent, Write, WriteRefused, Ack, At, IsEdit, Working, Kinded, Holding
    <3>4. UNCHANGED store /\ \A o \in Objects : o \in InUse => heap'[o] = heap[o]
      BY <1>a, <3>3, ReadKeeps DEF Step, EditsArePaced
    <3>5. heap'[h[u].cm] = heap[h[u].cm] /\ StoredData' = StoredData /\ Base' = Base
      BY <2>1, <2>3, <3>4 DEF Holds, Holding, StoredData, Base
    <3> QED BY <2>1, <3>5 DEF Based, Holding
  <2> QED BY <2>2, <2>3
<1> QED BY <1>1, <1>2 DEF QInv

LEMMA NextQInv ==
  ASSUME EditsArePaced, "list" \notin Faults, QInv, [Next]_vars
  PROVE  QInv'
<1>a. PInv' /\ h \in [Threads -> Handler] /\ \A t \in Threads : Based(t, h[t]) /\ Kinded(h[t])
  BY NextPInv, ShapeIs DEF QInv, PInv
<1>1. ASSUME NEW t \in Threads, Step(t) PROVE QInv'
  BY <1>1, <1>a, StepQInv
<1>2. ASSUME NEW t \in Threads, NEW r \in Serves[t], Begin(t, r) PROVE QInv'
  <2>1. r.kind \in Kinds /\ UNCHANGED <<store, heap>>
    BY <1>2, NsAssumption DEF Request, Begin, api
  <2>2. Base' = Base /\ StoredData' = StoredData
    BY <2>1 DEF Base, StoredData
  <2>3. /\ h'[t].pc \in {"nodes", "config"} /\ h'[t].req = r
        /\ \A u \in Threads \ {t} : h'[u] = h[u]
    <3>1. CASE r.kind \in EditKinds
      <4>1. h' = WithEdit(t, r) /\ \A u \in Threads : h[u].pc = "idle"
        BY <1>2, <3>1 DEF Begin, MayBegin, AllIdle, At, EditsArePaced, EditKinds
      <4> QED BY <1>a, <4>1 DEF WithEdit, Idle, Touches, At
    <3>2. CASE r.kind \notin EditKinds
      BY <1>2, <1>a, <2>1, <3>2 DEF Begin, EditKinds, Kinds, Idle
    <3> QED BY <3>1, <3>2
  <2>4. \A u \in Threads : Based(u, h[u])'
    BY <1>a, <2>1, <2>2, <2>3 DEF Based, Holding
  <2> QED BY <1>a, <2>4 DEF QInv
<1>3. CASE Environment \/ UNCHANGED vars
  <2>1. UNCHANGED <<store, heap>> /\ \A t \in Threads : h'[t] \in {h[t], Idle}
    BY <1>3, <1>a DEF Environment, ExpireGlobal, ExpireSelector, Restart, Relabel,
                      EditsArePaced, api, vars
  <2>2. \A t \in Threads : Based(t, h[t])'
    <3> SUFFICES ASSUME NEW t \in Threads PROVE Based(t, h[t])'
      OBVIOUS
    <3>1. CASE h'[t] = Idle
      BY <3>1, IdleState DEF Based, Holding
    <3>2. CASE h'[t] = h[t]
      BY <1>a, <2>1, <3>2 DEF Based, Holding, Base, StoredData
    <3> QED BY <2>1, <3>1, <3>2
  <2> QED BY <1>a, <2>2 DEF QInv
<1> QED BY <1>1, <1>2, <1>3 DEF Next

(* NsNodeSelectorAddUpdateOrDelete on several replicas, over the ConfigMap *)
(* they share, is the one configuration of NsConfigRegister, as long as    *)
(* the edits are paced: whatever is read meanwhile, however a write fails  *)
(* and whichever process is killed, no edit undoes another.                *)
THEOREM ReplicasImplementRegister ==
  EditsArePaced /\ "list" \notin Faults => (Spec => ImplementsRegister)
<1> SUFFICES ASSUME EditsArePaced, "list" \notin Faults PROVE Spec => ImplementsRegister
  OBVIOUS
<1>1. Init => QInv
  BY InitQInv
<1>2. QInv /\ [Next]_vars => QInv'
  BY NextQInv
<1>3. Init => Register!Init
  BY DEF Init, StoredData, Register!Init
<1>4. QInv /\ [Next]_vars => [Register!Next]_StoredData
  BY WriteIsEdit, OthersStutter DEF QInv, PInv, EditsArePaced
<1> QED BY <1>1, <1>2, <1>3, <1>4, PTL DEF Spec, ImplementsRegister, Register!Spec

-----------------------------------------------------------------------------
(***************************************************************************)
(* In this part: one process that is asked one request at a time, while    *)
(* operators edit the ConfigMap by hand and writes are refused.  A cache   *)
(* may then hold what was never stored, or miss what was stored by hand,   *)
(* and is still used for the next edit.                                    *)
(***************************************************************************)
OneServer == Pacing = "serial" /\ "read" \notin Faults /\ \A p, q \in Procs : p = q

Safe(data) == \A a \in acked : Entry(data, a)

\* What an edit may still read holds everything acknowledged.
CachesSafe ==
  \A p \in Procs : globalFresh[p] => globalCM[p] \in Objects /\ Safe(heap[globalCM[p]])

Warrants(t, s) ==
  /\ s.pc = "install" => /\ ~globalFresh[ProcOf[t]]
                         /\ Safe(IF s.resp = Nil THEN EmptyConfig ELSE s.resp)
  /\ s.pc \in {"use", "set"} \cup Holding /\ s.req.kind \in EditKinds =>
       /\ globalFresh[ProcOf[t]] => globalCM[ProcOf[t]] = s.cm
       /\ Safe(heap[s.cm])
  /\ s.pc = "set" => Keeps(s.cfg, s.req)
  /\ s.pc \in Holding => Keeps(heap[s.cm], s.req)
  /\ s.pc = "ack" => /\ Keeps(s.resp, s.req)
                     /\ globalFresh[ProcOf[t]] => Keeps(heap[globalCM[ProcOf[t]]], s.req)
                     /\ s.lone => s.resp = store
  /\ Working(s) => \A a \in acked : ~SameEntry(a, s.req)

WInv ==
  /\ TypeOK /\ OneServed /\ AckedIn /\ CachesSafe
  /\ \A t \in Threads : Kinded(h[t]) /\ Warrants(t, h[t])

LEMMA IdleWarrants ==
  ASSUME NEW t, NEW s, s.pc = "idle"
  PROVE  Kinded(s) /\ Warrants(t, s)
BY DEF Kinded, Warrants, Working, Holding

LEMMA InitWInv == Init => WInv
<1> SUFFICES ASSUME Init PROVE WInv
  OBVIOUS
<1>1. /\ acked = {} /\ \A t \in Threads : h[t].pc = "idle"
      /\ \A p \in Procs : ~globalFresh[p]
  BY IdleState DEF Init
<1> QED BY <1>1, IdleWarrants, InitShape DEF WInv, OneServed, AckedIn, CachesSafe

\* A step of the handler served.
LEMMA AdvanceWInv ==
  ASSUME WInv, TypeOK', NEW t \in Threads, h[t].pc # "idle",
         \A u \in Threads \ {t} : h'[u] = h[u],
         AckedIn', CachesSafe', Kinded(h'[t]), Warrants(t, h[t])'
  PROVE  WInv'
<1>1. \A u \in Threads \ {t} : h'[u].pc = "idle"
  BY DEF WInv, OneServed
<1>2. OneServed'
  BY <1>1 DEF OneServed
<1>3. \A u \in Threads : Kinded(h'[u]) /\ Warrants(u, h[u])'
  BY <1>1 DEF Kinded, Warrants, Working, Holding
<1> QED BY <1>2, <1>3 DEF WInv

LEMMA ReadWInv ==
  ASSUME OneServer, WInv, TypeOK', NEW t \in Threads, Step(t),
         \/ GetNodes(t) \/ HitSelectorCache(t) \/ HitGlobalCache(t) \/ GetConfigMap(t) \/ Install(t)
         \/ (\E n \in Nodes : Judge(t, n)) \/ Bind(t) \/ Show(t) \/ Check(t)
         \/ SelectNodes(t) \/ GetPods(t) \/ (\E p \in Pods : DeletePod(t, p)) \/ Refreshed(t)
  PROVE  WInv'
<1>a. /\ TypeOK /\ Rest /\ h[t].pc # "idle" /\ \A u \in Threads \ {t} : h'[u] = h[u]
      /\ h'[t].pc # "idle" => h'[t].req = h[t].req
      /\ Kinded(h[t]) /\ Warrants(t, h[t]) /\ CachesSafe /\ AckedIn
      /\ ProcOf[t] \in Procs /\ \A p \in Procs : p = ProcOf[t]
  BY ShapeIs, StepMoves, NsAssumption DEF WInv, OneServer
<1>b. /\ UNCHANGED <<store, version, acked>>
      /\ \A o \in Objects : o \in InUse => heap'[o] = heap[o]
      /\ h'[t].pc \in {"idle", "config", "install", "use", "bind", "pods", "delete"}
      /\ h'[t].pc = "install" => h[t].pc = "config" /\ ~GlobalHit(t) /\ h'[t].resp = store
      /\ h'[t].pc = "use" /\ h[t].req.kind \in EditKinds =>
           \/ /\ h[t].pc = "config" /\ h'[t].cm = globalCM[ProcOf[t]] /\ globalFresh[ProcOf[t]]
           \/ /\ h[t].pc = "install" /\ h'[t].cm \in Objects
              /\ heap'[h'[t].cm] = IF h[t].resp = Nil THEN EmptyConfig ELSE h[t].resp
      /\ \A p \in Procs : globalFresh'[p] =>
           \/ globalFresh[p] /\ globalCM'[p] = globalCM[p]
           \/ /\ h[t].pc = "install" /\ h[t].resp # Nil
              /\ globalCM'[p] = h'[t].cm /\ h'[t].cm \in Objects /\ heap'[h'[t].cm] = h[t].resp
  BY <1>a, ReadKeeps DEF OneServer
<1>c. /\ StoredData' = StoredData /\ AckedIn' /\ \A p \in Procs : globalCM[p] \in InUse
  BY <1>a, <1>b DEF AckedIn, StoredData, InUse
<1>1. CachesSafe'
  <2> SUFFICES ASSUME NEW p \in Procs, globalFresh'[p]
               PROVE  globalCM'[p] \in Objects /\ Safe(heap[globalCM[p]])'
    BY DEF CachesSafe
  <2>1. CASE globalFresh[p] /\ globalCM'[p] = globalCM[p]
    BY <1>a, <1>b, <1>c, <2>1 DEF CachesSafe, Safe
  <2>2. CASE /\ h[t].pc = "install" /\ h[t].resp # Nil
             /\ globalCM'[p] = h'[t].cm /\ h'[t].cm \in Objects /\ heap'[h'[t].cm] = h[t].resp
    BY <1>a, <1>b, <2>2 DEF Warrants, Safe
  <2> QED BY <1>b, <2>1, <2>2
<1>2. Kinded(h'[t])
  BY <1>a, <1>b, ReadKeeps DEF Kinded, Holding, OneServer
<1>3. Warrants(t, h[t])'
  <2>1. h'[t].pc = "install" => ~globalFresh'[ProcOf[t]]
    BY <1>a, <1>b, NsAssumption DEF GlobalHit, CachesSafe
  <2>2. h'[t].pc = "install" => Safe(IF h[t].resp = Nil THEN EmptyConfig ELSE h[t].resp)'
    BY <1>a, <1>b DEF AckedIn, StoredData, Safe
  <2>3. h'[t].pc = "use" /\ h'[t].req.kind \in EditKinds =>
          /\ globalFresh'[ProcOf[t]] => globalCM'[ProcOf[t]] = h'[t].cm
          /\ Safe(heap[h[t].cm])'
    <3> SUFFICES ASSUME h'[t].pc = "use", h[t].req.kind \in EditKinds
                 PROVE  /\ globalFresh'[ProcOf[t]] => globalCM'[ProcOf[t]] = h'[t].cm
                        /\ Safe(heap[h[t].cm])'
      BY <1>a
    <3>1. CASE h[t].pc = "config" /\ h'[t].cm = globalCM[ProcOf[t]] /\ globalFresh[ProcOf[t]]
      BY <1>a, <1>b, <1>c, <3>1 DEF CachesSafe, Safe
    <3>2. CASE /\ h[t].pc = "install" /\ h'[t].cm \in Objects
               /\ heap'[h'[t].cm] = IF h[t].resp = Nil THEN EmptyConfig ELSE h[t].resp
      BY <1>a, <1>b, <3>2 DEF Warrants, Safe
    <3> QED BY <1>b, <3>1, <3>2
  <2>4. Working(h'[t]) => \A a \in acked' : ~SameEntry(a, h'[t].req)
    BY <1>a, <1>b DEF Warrants, Working
  <2> QED BY <1>b, <2>1, <2>2, <2>3, <2>4 DEF Warrants, Holding
<1> QED BY <1>a, <1>c, <1>1, <1>2, <1>3, AdvanceWInv


LEMMA EditWInv ==
  ASSUME OneServer, WInv, TypeOK', NEW t \in Threads,
         EditCopy(t) \/ SetNsConfig(t) \/ GetCurrent(t) \/ Write(t) \/ WriteRefused(t) \/ Ack(t)
  PROVE  WInv'
<1>a. /\ h[t] \in Handler /\ h \in [Threads -> Handler] /\ Rest /\ Holds(h[t]) /\ h[t].req \in Request
      /\ Kinded(h[t]) /\ Warrants(t, h[t]) /\ AckedIn /\ CachesSafe /\ acked \subseteq Request
      /\ ProcOf[t] \in Procs /\ \A p \in Procs : p = ProcOf[t]
  BY ShapeIs, NsAssumption DEF WInv, Handler, Rest, OneServer
<1>b. /\ h[t].pc # "idle" /\ \A u \in Threads \ {t} : h'[u] = h[u]
      /\ h'[t].pc # "idle" => h'[t].req = h[t].req
  BY StepMoves DEF Step, WInv
<1>c. h[t].req.kind \in EditKinds /\ \A a \in acked : ~SameEntry(a, h[t].req)
  BY <1>a, <1>b
     DEF EditCopy, SetNsConfig, GetCurrent, Write, WriteRefused, Ack, At, IsEdit, Working, Kinded, Holding, Warrants
<1>1. ASSUME EditCopy(t) PROVE WInv'
  <2>1. /\ h[t].pc = "use" /\ UNCHANGED <<api, heap, caches, acked>> /\ Safe(heap[h[t].cm])
        /\ h[t].cm \in Objects /\ (globalFresh[ProcOf[t]] => globalCM[ProcOf[t]] = h[t].cm)
    BY <1>1, <1>a, <1>c DEF EditCopy, At, Warrants, Holds
  <2>2. PICK listed \in {Listed, {}} :
          LET base == NsConfigOf(heap[h[t].cm], listed)
          IN  IF EditAllowed(base, h[t].req)
              THEN h' = [h EXCEPT ![t].pc = "set", ![t].cfg = EditedConfig(base, h[t].req)]
              ELSE Finish(t)
    BY <1>1 DEF EditCopy
  <2> DEFINE cfg == EditedConfig(NsConfigOf(heap[h[t].cm], listed), h[t].req)
             s == [h[t] EXCEPT !.pc = "set", !.cfg = cfg]
  <2>3. h'[t] = Idle \/ h'[t] = s
    BY <1>a, <2>2 DEF Finish
  <2>4. Keeps(cfg, h[t].req)
    <3>1. \A a \in acked : Entry(cfg, a)
      BY <1>a, <1>c, <2>1, OthersStay DEF Safe
    <3>2. NsConfigOf(heap[h[t].cm], listed) \in NsConfig \cup {BadJson}
      <4>1. heap[h[t].cm] \in CMData
        BY <1>a, <2>1 DEF Rest
      <4> QED BY <4>1, ReadTypes
    <3>3. h[t].req.kind # "delete" => Entry(cfg, h[t].req)
      BY <1>a, <3>2, OwnEntry
    <3> HIDE DEF cfg
    <3> QED BY <3>1, <3>3 DEF Keeps
  <2> HIDE DEF cfg
  <2>5. s.pc = "set" /\ s.cm = h[t].cm /\ s.req = h[t].req /\ s.cfg = cfg
    BY <1>a DEF Handler
  <2> HIDE DEF s
  <2>6. AckedIn' /\ CachesSafe'
    BY <1>a, <2>1 DEF AckedIn, CachesSafe, Safe, StoredData, api, caches
  <2>7. CASE h'[t] = Idle
    BY <1>b, <2>6, <2>7, IdleState, IdleWarrants, AdvanceWInv DEF Kinded, Warrants, Working, Holding
  <2>8. CASE h'[t] = s
    <3>1. Kinded(h'[t])
      BY <1>c, <2>5, <2>8 DEF Kinded, Holding
    <3>2. Warrants(t, h[t])'
      BY <1>c, <2>1, <2>4, <2>5, <2>8 DEF Warrants, Keeps, Safe, Holding, caches
    <3> QED BY <1>b, <2>6, <3>1, <3>2, AdvanceWInv
  <2> QED BY <2>3, <2>7, <2>8
<1>2. ASSUME SetNsConfig(t) PROVE WInv'
  <2> DEFINE s == [h[t] EXCEPT !.pc = "current", !.cfg = BadJson]
  <2>1. h[t].pc = "set" /\ UNCHANGED <<api, caches, acked>> /\ Keeps(h[t].cfg, h[t].req)
        /\ h[t].cm \in Objects /\ (globalFresh[ProcOf[t]] => globalCM[ProcOf[t]] = h[t].cm)
    BY <1>2, <1>a, <1>c DEF SetNsConfig, At, Warrants, Holds
  <2>2. AckedIn'
    BY <1>a, <2>1 DEF AckedIn, StoredData, api
  <2>3. CASE heap[h[t].cm] = NilData
    <3>1. h'[t] = Idle /\ UNCHANGED heap
      BY <1>2, <1>a, <2>3 DEF SetNsConfig, Finish
    <3>2. CachesSafe'
      BY <1>a, <2>1, <3>1 DEF CachesSafe, Safe, caches
    <3> QED BY <1>b, <2>2, <3>1, <3>2, IdleState, AdvanceWInv DEF Kinded, Warrants, Working, Holding
  <2>4. CASE heap[h[t].cm] # NilData
    <3>1. heap' = [heap EXCEPT ![h[t].cm] = h[t].cfg] /\ h'[t] = s
      BY <1>2, <1>a, <2>4 DEF SetNsConfig
    <3>2. heap'[h[t].cm] = h[t].cfg
      BY <1>a, <2>1, <3>1 DEF Rest
    <3>3. s.pc = "current" /\ s.cm = h[t].cm /\ s.req = h[t].req
      BY <1>a DEF Handler
    <3> HIDE DEF s
    <3>4. Safe(heap[h[t].cm])' /\ Keeps(heap[h[t].cm], h[t].req)'
      BY <2>1, <3>1, <3>2, <3>3 DEF Keeps, Safe, Entry
    <3>5. CachesSafe'
      BY <1>a, <2>1, <3>1, <3>3, <3>4 DEF CachesSafe, Safe, caches
    <3>6. Kinded(h'[t]) /\ Warrants(t, h[t])'
      BY <1>c, <2>1, <3>1, <3>3, <3>4 DEF Kinded, Warrants, Holding, caches
    <3> QED BY <1>b, <2>2, <3>5, <3>6, AdvanceWInv
  <2> QED BY <2>3, <2>4
<1>3. ASSUME GetCurrent(t) PROVE WInv'
  <2> DEFINE s == [h[t] EXCEPT !.pc = IF store = Nil THEN "create" ELSE "put", !.rv = version]
  <2>1. h[t].pc = "current" /\ UNCHANGED <<api, heap, caches, acked>> /\ h'[t] = s
    BY <1>3, <1>a DEF GetCurrent, At, Fails, OneServer
  <2>2. /\ s.pc \in {"create", "put"} /\ s.cm = h[t].cm /\ s.req = h[t].req
    BY <1>a DEF Handler
  <2>3. AckedIn' /\ CachesSafe'
    BY <1>a, <2>1 DEF AckedIn, CachesSafe, Safe, StoredData, api, caches
  <2> HIDE DEF s
  <2>4. Kinded(h'[t]) /\ Warrants(t, h[t])'
    BY <1>a, <1>c, <2>1, <2>2 DEF Kinded, Warrants, Holding, Keeps, Safe, caches
  <2> QED BY <1>b, <2>3, <2>4, AdvanceWInv
<1>4. ASSUME Write(t) PROVE WInv'
  <2> DEFINE s == [h[t] EXCEPT !.pc = "ack", !.resp = heap[h[t].cm]]
  <2>1. h[t].pc \in Holding /\ UNCHANGED <<heap, caches, acked>> /\ store' = heap[h[t].cm]
        /\ h[t].cm \in Objects /\ (h'[t] = Idle \/ h'[t] = s)
    BY <1>4, <1>a DEF Write, At, Holding, Holds, Finish
  <2>2. StoredData' = heap[h[t].cm]
    <3>1. heap[h[t].cm] # Nil
      BY <1>a, <2>1, NsAssumption DEF Rest
    <3> QED BY <2>1, <3>1 DEF StoredData
  <2>3. Keeps(heap[h[t].cm], h[t].req) /\ (globalFresh[ProcOf[t]] => globalCM[ProcOf[t]] = h[t].cm)
    BY <1>a, <1>c, <2>1 DEF Warrants
  <2>4. AckedIn' /\ CachesSafe'
    BY <1>a, <2>1, <2>2, <2>3 DEF AckedIn, CachesSafe, Safe, Keeps, caches
  <2>5. CASE h'[t] = Idle
    BY <1>b, <2>4, <2>5, IdleState, AdvanceWInv DEF Kinded, Warrants, Working, Holding
  <2>6. CASE h'[t] = s
    <3>1. s.pc = "ack" /\ s.resp = heap[h[t].cm] /\ s.req = h[t].req
      BY <1>a DEF Handler
    <3> HIDE DEF s
    <3>2. Keeps(h[t].resp, h[t].req)' /\ (globalFresh'[ProcOf[t]] => Keeps(heap[globalCM[ProcOf[t]]], h[t].req)')
      BY <2>1, <2>3, <2>6, <3>1 DEF Keeps, Entry, caches
    <3>3. Kinded(h'[t]) /\ Warrants(t, h[t])'
      BY <1>c, <2>1, <2>6, <3>1, <3>2 DEF Kinded, Warrants, Holding
    <3> QED BY <1>b, <2>4, <3>3, AdvanceWInv
  <2> QED BY <2>1, <2>5, <2>6
<1>5. ASSUME WriteRefused(t) PROVE WInv'
  <2>1. UNCHANGED <<store, heap, caches, acked>> /\ h'[t] = Idle
    BY <1>5, <1>a DEF WriteRefused, Finish, api
  <2>2. AckedIn' /\ CachesSafe'
    BY <1>a, <2>1 DEF AckedIn, CachesSafe, Safe, StoredData, caches
  <2> QED BY <1>b, <2>1, <2>2, IdleState, AdvanceWInv DEF Kinded, Warrants, Working, Holding
<1>6. ASSUME Ack(t) PROVE WInv'
  <2>1. /\ h[t].pc = "ack" /\ Allocate(h[t].resp) /\ Keeps(h[t].resp, h[t].req)
        /\ globalFresh[ProcOf[t]] => Keeps(heap[globalCM[ProcOf[t]]], h[t].req)
        /\ h[t].lone => h[t].resp = store /\ store \in CMData
        /\ UNCHANGED <<store, globalCM, globalFresh>> /\ h'[t] = Idle
    BY <1>6, <1>a DEF Ack, At, Holds, Warrants, Finish, api
  <2>2. \A o \in Objects : o \in InUse => heap'[o] = heap[o]
    <3>1. NewObject \notin InUse
      BY FreshObject DEF WInv, TypeOK
    <3> QED BY <2>1, <3>1 DEF Allocate
  <2>3. \A a \in acked' : a \in acked \/ (a = h[t].req /\ h[t].req.kind # "delete" /\ h[t].lone)
    BY <1>6 DEF Ack
  <2>4. AckedIn'
    <3>1. h[t].lone => StoredData' = h[t].resp
      BY <2>1, NsAssumption DEF StoredData
    <3>2. StoredData' = StoredData
      BY <2>1 DEF StoredData
    <3> QED BY <1>a, <2>1, <2>3, <3>1, <3>2 DEF AckedIn, Keeps
  <2>5. CachesSafe'
    <3> SUFFICES ASSUME NEW p \in Procs, globalFresh[p]
                 PROVE  globalCM[p] \in Objects /\ \A a \in acked' : Entry(heap'[globalCM[p]], a)
      BY <2>1 DEF CachesSafe, Safe
    <3>1. p = ProcOf[t] /\ globalCM[p] \in InUse /\ globalCM[p] \in Objects /\ Safe(heap[globalCM[p]])
      BY <1>a DEF CachesSafe, InUse
    <3> QED BY <2>1, <2>2, <2>3, <3>1 DEF Safe, Keeps
  <2> QED BY <1>b, <2>1, <2>4, <2>5, IdleState, AdvanceWInv DEF Kinded, Warrants, Working, Holding
<1> QED BY <1>1, <1>2, <1>3, <1>4, <1>5, <1>6

\* A request arrives when none is served.
LEMMA BeginWInv ==
  ASSUME OneServer, WInv, TypeOK', NEW t \in Threads, NEW r \in Serves[t], Begin(t, r)
  PROVE  WInv'
<1>a. /\ h \in [Threads -> Handler] /\ UNCHANGED <<api, heap, caches>> /\ r.kind \in Kinds
      /\ \A u \in Threads : h[u].pc = "idle"
  BY ShapeIs, NsAssumption DEF Begin, At, MayBegin, AllIdle, OneServer, WInv, Request
<1>1. /\ acked' \subseteq acked /\ (r.kind \in EditKinds => \A a \in acked' : ~SameEntry(a, r))
      /\ h'[t].pc \in {"nodes", "config"} /\ h'[t].req = r /\ \A u \in Threads \ {t} : h'[u] = h[u]
      /\ r.kind \in EditKinds => h'[t].pc = "config"
  <2>1. CASE r.kind \in EditKinds
    <3>1. h' = WithEdit(t, r) /\ acked' = { a \in acked : ~SameEntry(a, r) }
      BY <2>1 DEF Begin, EditKinds
    <3>2. \A u \in Threads : ~Touches(u, r)
      BY <1>a DEF Touches, At
    <3> QED BY <1>a, <3>1, <3>2 DEF WithEdit, Idle
  <2>2. CASE r.kind \notin EditKinds
    BY <1>a, <2>2 DEF Begin, EditKinds, Kinds, Idle
  <2> QED BY <2>1, <2>2
<1>2. OneServed' /\ AckedIn' /\ CachesSafe'
  BY <1>a, <1>1 DEF WInv, OneServed, AckedIn, CachesSafe, Safe, StoredData, api, caches
<1>3. \A u \in Threads : Kinded(h'[u]) /\ Warrants(u, h[u])'
  BY <1>a, <1>1 DEF Kinded, Warrants, Working, Holding
<1> QED BY <1>2, <1>3 DEF WInv

\* Whoever writes past the service takes back what was acknowledged, and
\* leaves the caches as they are.
LEMMA HandEditWInv ==
  ASSUME WInv, TypeOK', NEW data \in HandEdits, HandEdit(data)
  PROVE  WInv'
<1>a. h \in [Threads -> Handler]
  BY ShapeIs DEF WInv
<1>1. acked' = {} /\ UNCHANGED <<heap, caches>>
  BY DEF HandEdit
<1>2. \A t \in Threads : /\ h'[t].pc = h[t].pc /\ h'[t].req = h[t].req /\ h'[t].cm = h[t].cm
                         /\ h'[t].resp = h[t].resp /\ h'[t].cfg = h[t].cfg
                         /\ h'[t].pc # "idle" => ~h'[t].lone
  BY <1>a DEF HandEdit, At, Handler
<1>3. OneServed' /\ AckedIn' /\ CachesSafe'
  BY <1>1, <1>2 DEF WInv, OneServed, AckedIn, CachesSafe, Safe, caches
<1>4. \A t \in Threads : Kinded(h'[t]) /\ Warrants(t, h[t])'
  <2> SUFFICES ASSUME NEW t \in Threads PROVE Kinded(h'[t]) /\ Warrants(t, h[t])'
    OBVIOUS
  <2>1. Kinded(h[t]) /\ Warrants(t, h[t])
    BY DEF WInv
  <2> QED BY <1>1, <1>2, <2>1 DEF Kinded, Warrants, Working, Holding, Safe, Keeps, caches
<1> QED BY <1>3, <1>4 DEF WInv

LEMMA EnvironmentWInv ==
  ASSUME OneServer, WInv, TypeOK', Environment \/ UNCHANGED vars
  PROVE  WInv'
<1>a. h \in [Threads -> Handler] /\ Rest /\ \A t \in Threads : ProcOf[t] \in Procs
  BY ShapeIs, NsAssumption DEF WInv
<1>1. CASE \/ \E p \in Procs : ExpireGlobal(p) \/ ExpireSelector(p) \/ Restart(p)
           \/ \E n \in Nodes, labels \in NewLabels : Relabel(n, labels)
           \/ UNCHANGED vars
  <2>1. /\ UNCHANGED <<store, heap, acked>> /\ \A t \in Threads : h'[t] \in {h[t], Idle}
        /\ \A p \in Procs : globalFresh'[p] => globalFresh[p] /\ globalCM'[p] = globalCM[p]
    <3>1. ASSUME NEW p \in Procs, Restart(p)
          PROVE  /\ UNCHANGED <<store, heap, acked>> /\ \A t \in Threads : h'[t] \in {h[t], Idle}
                 /\ \A q \in Procs : globalFresh'[q] => globalFresh[q] /\ globalCM'[q] = globalCM[q]
      BY <3>1, <1>a DEF Restart, Rest, api
    <3>2. ASSUME NEW p \in Procs, ExpireGlobal(p) \/ ExpireSelector(p)
          PROVE  /\ UNCHANGED <<store, heap, acked, h, globalCM>>
                 /\ \A q \in Procs : globalFresh'[q] => globalFresh[q]
      BY <3>2, <1>a DEF ExpireGlobal, ExpireSelector, Rest, api
    <3>3. CASE (\E n \in Nodes, labels \in NewLabels : Relabel(n, labels)) \/ UNCHANGED vars
      BY <3>3 DEF Relabel, api, caches, vars
    <3> QED BY <1>1, <3>1, <3>2, <3>3
  <2>2. \A t \in Threads : h'[t] # h[t] => h'[t].pc = "idle"
    BY <2>1, IdleState
  <2>3. OneServed' /\ AckedIn' /\ CachesSafe'
    BY <2>1, <2>2 DEF WInv, OneServed, AckedIn, CachesSafe, Safe, StoredData
  <2>4. \A t \in Threads : Kinded(h'[t]) /\ Warrants(t, h[t])'
    <3> SUFFICES ASSUME NEW t \in Threads PROVE Kinded(h'[t]) /\ Warrants(t, h[t])'
      OBVIOUS
    <3>1. CASE h'[t].pc = "idle"
      BY <3>1 DEF Kinded, Warrants, Working, Holding
    <3>2. CASE h'[t] = h[t]
      <4>1. Kinded(h[t]) /\ Warrants(t, h[t]) /\ ProcOf[t] \in Procs
        BY <1>a DEF WInv
      <4> QED BY <2>1, <3>2, <4>1 DEF Warrants, Keeps, Safe, Holding
    <3> QED BY <2>2, <3>1, <3>2
  <2> QED BY <2>3, <2>4 DEF WInv
<1> QED BY <1>1, HandEditWInv DEF Environment

LEMMA NextWInv ==
  ASSUME OneServer, WInv, [Next]_vars
  PROVE  WInv'
<1>a. TypeOK'
  BY NextShape DEF WInv
<1>1. ASSUME NEW t \in Threads, Step(t) PROVE WInv'
  BY <1>1, <1>a, ReadWInv, EditWInv DEF Step
<1> QED BY <1>1, <1>a, BeginWInv, EnvironmentWInv DEF Next

(* NsNodeSelectorAddUpdateOrDelete of one process: whatever operators      *)
(* write by hand, and however a write is refused or its answer lost, an    *)
(* addition answered with OK stays in the ConfigMap until a request for    *)
(* its entry, or an operator, touches it.                                  *)
THEOREM AckedStoredServed == OneServer => (Spec => []AckedStored)
<1> SUFFICES ASSUME OneServer PROVE Spec => []AckedStored
  OBVIOUS
<1>1. Init => WInv
  BY InitWInv
<1>2. WInv /\ [Next]_vars => WInv'
  BY NextWInv
<1>3. WInv => AckedStored
  BY DEF WInv, AckedIn, AckedStored, Stored, Entry, MakeMap
<1> QED BY <1>1, <1>2, <1>3, PTL DEF Spec

=============================================================================
