--------------------------- MODULE StartupProofs ---------------------------
(***************************************************************************)
(* Proofs about Startup, for any processes, ports and deployments and any  *)
(* amount of trouble: the types, that a process which answers is ready,    *)
(* and that a run mode keeps what it leaves out from doing harm.           *)
(***************************************************************************)
EXTENDS Startup, TLAPS

Labels == {"down", "flags", "clients", "policy", "parked", "init", "start", "waitPredicates",
           "waitPriorities", "install", "listen", "serving"}
AllRoutes == {f.name : f \in Plugins} \cup InstallCommon
ProcState ==
  [pc : Labels, admin : {"none", "starting", "serving"}, guarded : BOOLEAN,
   inited : SUBSET {"predicates", "priorities"}, asked : SUBSET Informers,
   running : SUBSET Informers, synced : SUBSET Informers, routes : SUBSET AllRoutes]

\* How far the main goroutine must have come for what is there.
Early == {"down", "flags", "clients", "policy"}
PastPredicates == {"waitPriorities", "install", "listen", "serving"}
PastPriorities == {"install", "listen", "serving"}
PastInstall == {"listen", "serving"}

Progress(i) ==
  /\ proc[i].pc \in Early => proc[i].admin = "none"
  /\ proc[i].pc \in PastPredicates => \A f \in predicateList : HasSynced(i, f)
  /\ proc[i].pc \in PastPriorities => \A f \in prioritizeList : HasSynced(i, f)
  /\ proc[i].pc \in PastInstall => proc[i].routes = AllRoutes
  /\ proc[i].admin # "none" => /\ unit[i].mode # "scheduleronly"
                               /\ "basicauth" \in unit[i].files => proc[i].guarded

Listens(i, p) ==
  \/ p = unit[i].extender /\ proc[i].pc = "serving"
  \/ p = unit[i].admin /\ proc[i].admin = "serving"

Shape ==
  /\ unit \in Deployments
  /\ proc \in [Instances -> ProcState]
  /\ exit \in [Instances -> {NotYet, 0, 1, 4, 255, Killed}]
  /\ holder \in [Ports -> Instances \cup {Free, Other}]
  /\ files \in [Instances -> SUBSET Files]
  /\ api \in BOOLEAN /\ trouble \in 0..MaxTrouble

IInv ==
  /\ Shape
  /\ \A i \in Instances : Progress(i)
  /\ \A i \in Instances, p \in Ports : holder[p] = i => Listens(i, p)

-----------------------------------------------------------------------------
LEMMA IInvIsTyped == IInv => TypeOK
BY DEF IInv, Shape, ProcState, Labels, AllRoutes, Listens, TypeOK, At

LEMMA DownState == Down \in ProcState /\ Down.pc = "down" /\ Down.admin = "none"
BY DEF Down, ProcState, Labels

LEMMA InitIInv == Init => IInv
<1> SUFFICES ASSUME Init PROVE IInv
  OBVIOUS
<1>1. Shape
  BY StartupAssumption, DownState DEF Init, Shape
<1>2. \A i \in Instances : proc[i].pc = "down" /\ proc[i].admin = "none"
  BY DownState DEF Init
<1>3. \A i \in Instances : Progress(i)
  BY <1>2 DEF Progress, Early, PastPredicates, PastPriorities, PastInstall
<1> QED BY <1>1, <1>3, StartupAssumption DEF IInv, Init

\* A process that ends leaves nothing behind.
LEMMA ExitIInv ==
  ASSUME IInv, NEW i \in Instances, NEW status \in {0, 1, 4, 255, Killed}, Exit(i, status),
         UNCHANGED unit, files' \in [Instances -> SUBSET Files], api' \in BOOLEAN, trouble' \in 0..MaxTrouble
  PROVE  IInv'
<1>1. Shape'
  BY DownState, StartupAssumption DEF IInv, Shape, Exit
<1>2. \A j \in Instances : proc'[j] = IF j = i THEN Down ELSE proc[j]
  BY DEF IInv, Shape, Exit
<1>3. \A j \in Instances : Progress(j)'
  BY <1>2, DownState
     DEF IInv, Progress, HasSynced, Early, PastPredicates, PastPriorities, PastInstall
<1>4. \A p \in Ports : holder'[p] = IF holder[p] = i THEN Free ELSE holder[p]
  BY DEF Exit
<1>5. \A j \in Instances, p \in Ports : holder'[p] = j => Listens(j, p)'
  BY <1>2, <1>4, StartupAssumption DEF IInv, Listens
<1> QED BY <1>1, <1>3, <1>5 DEF IInv

\* A step that changes one process and takes no port from it.
LEMMA AdvanceIInv ==
  ASSUME IInv, NEW i \in Instances, NEW state \in ProcState, proc' = [proc EXCEPT ![i] = state],
         Progress(i)', state.pc = "serving" \/ proc[i].pc # "serving",
         state.admin = "serving" \/ proc[i].admin # "serving",
         \A p \in Ports : holder'[p] = holder[p] \/ (holder'[p] = i /\ Listens(i, p)'),
         holder' \in [Ports -> Instances \cup {Free, Other}],
         UNCHANGED <<exit, unit, files, api, trouble>>
  PROVE  IInv'
<1>1. Shape'
  BY DEF IInv, Shape
<1>2. \A j \in Instances : proc'[j] = IF j = i THEN state ELSE proc[j]
  BY DEF IInv, Shape
<1>3. \A j \in Instances : Progress(j)'
  BY <1>2 DEF IInv, Progress, HasSynced
<1>4. \A j \in Instances, p \in Ports : holder'[p] = j => Listens(j, p)'
  BY <1>2 DEF IInv, Listens
<1> QED BY <1>1, <1>3, <1>4 DEF IInv

-----------------------------------------------------------------------------
(* Every step keeps the invariant. *)

LEMMA AskedTyped == UNION {f.asks : f \in Plugins} \in SUBSET Informers
BY DEF Plugins, predicateList, prioritizeList, HostPathPVAffinity, HostPathPVDiskPressure,
       NamespacesNodeSelector, HostPathPVDiskUse, HostPathPVSpread

LEMMA RoutesAll == InstallPredicates \cup InstallPriorities \cup InstallCommon = AllRoutes
BY DEF InstallPredicates, InstallPriorities, AllRoutes, Plugins

LEMMA MainIInv ==
  ASSUME IInv, NEW i \in Instances, Main(i)
  PROVE  IInv'
<1>a. proc \in [Instances -> ProcState] /\ proc[i] \in ProcState /\ Progress(i) /\ unit[i] \in Unit
      /\ holder \in [Ports -> Instances \cup {Free, Other}]
  BY StartupAssumption DEF IInv, Shape
<1> USE DEF Modes
<1>0. ASSUME NEW status \in {0, 1, 4, 255}, Exit(i, status), UNCHANGED environment PROVE IInv'
  BY <1>0, ExitIInv DEF environment, IInv, Shape
<1>1. ASSUME ParseMode(i) PROVE IInv'
  <2>1. CASE ~(unit[i].mode \in Modes)
    BY <1>0, <1>1, <2>1 DEF ParseMode
  <2>2. CASE unit[i].mode \in Modes
    <3> DEFINE state == [proc[i] EXCEPT !.pc = "clients"]
    <3>1. state \in ProcState /\ proc' = [proc EXCEPT ![i] = state] /\ proc'[i] = state
          /\ UNCHANGED <<unit, exit, holder, files, api, trouble>>
      BY <1>a, <1>1, <2>2 DEF ParseMode, At, Goto, environment, ProcState, Labels
    <3>2. Progress(i)' /\ proc[i].pc # "serving" /\ (state.admin = "serving" \/ proc[i].admin # "serving")
      BY <1>a, <1>1, <2>2, <3>1 DEF ParseMode, At, Progress, HasSynced, Early, PastPredicates,
         PastPriorities, PastInstall
    <3> HIDE DEF state
    <3> QED BY <3>1, <3>2, AdvanceIInv DEF IInv, Shape
  <2> QED BY <2>1, <2>2
<1>2. ASSUME GetClientset(i) PROVE IInv'
  <2>1. CASE ~(CanRead(i, "kubeconfig"))
    BY <1>0, <1>2, <2>1 DEF GetClientset
  <2>2. CASE CanRead(i, "kubeconfig")
    <3> DEFINE state == [proc[i] EXCEPT !.pc = "policy"]
    <3>1. state \in ProcState /\ proc' = [proc EXCEPT ![i] = state] /\ proc'[i] = state
          /\ UNCHANGED <<unit, exit, holder, files, api, trouble>>
      BY <1>a, <1>2, <2>2 DEF GetClientset, At, Goto, environment, ProcState, Labels
    <3>2. Progress(i)' /\ proc[i].pc # "serving" /\ (state.admin = "serving" \/ proc[i].admin # "serving")
      BY <1>a, <1>2, <2>2, <3>1 DEF GetClientset, At, Progress, HasSynced, Early,
         PastPredicates, PastPriorities, PastInstall
    <3> HIDE DEF state
    <3> QED BY <3>1, <3>2, AdvanceIInv DEF IInv, Shape
  <2> QED BY <2>1, <2>2
<1>3. ASSUME StartPolicyHttpServer(i) PROVE IInv'
  <2> DEFINE state == [proc[i] EXCEPT
           !.admin = IF StartsPolicy(i) THEN "starting" ELSE "none",
           !.guarded = "basicauth" \in unit[i].files \cap files[i],
           !.pc = IF unit[i].mode = "backendonly" THEN "parked" ELSE "init"]
  <2>1. state \in ProcState /\ proc' = [proc EXCEPT ![i] = state] /\ proc'[i] = state
        /\ UNCHANGED <<unit, exit, holder, files, api, trouble>>
    BY <1>a, <1>3 DEF StartPolicyHttpServer, At, Goto, environment, ProcState, Labels,
       StartsPolicy, CanRead
  <2>3. /\ proc[i].pc = "policy" /\ state.pc \in {"parked", "init"}
        /\ state.admin = IF StartsPolicy(i) THEN "starting" ELSE "none"
        /\ state.guarded = ("basicauth" \in unit[i].files \cap files[i])
    BY <1>a, <1>3 DEF StartPolicyHttpServer, At, ProcState
  <2> HIDE DEF state
  <2>4. proc[i].admin = "none"
    BY <1>a, <2>3 DEF Progress, Early
  <2>5. state.admin # "none" => /\ unit[i].mode # "scheduleronly"
                                /\ "basicauth" \in unit[i].files => state.guarded
    BY <2>3 DEF StartsPolicy, CanRead
  <2>2. Progress(i)' /\ proc[i].pc # "serving" /\ (state.admin = "serving" \/ proc[i].admin # "serving")
    BY <2>1, <2>3, <2>4, <2>5 DEF Progress, HasSynced, Early, PastPredicates, PastPriorities,
       PastInstall
  <2> QED BY <2>1, <2>2, AdvanceIInv DEF IInv, Shape
<1>4. ASSUME InitAll(i) PROVE IInv'
  <2> DEFINE state == [proc[i] EXCEPT
           !.inited = {"predicates", "priorities"}, !.pc = "start", !.asked = UNION {f.asks : f \in Plugins}]
  <2>1. state \in ProcState /\ proc' = [proc EXCEPT ![i] = state] /\ proc'[i] = state
        /\ UNCHANGED <<unit, exit, holder, files, api, trouble>>
    BY <1>a, <1>4, AskedTyped DEF InitAll, At, Goto, environment, ProcState, Labels
  <2>3. proc[i].pc = "init" /\ state.pc = "start" /\ state.admin = proc[i].admin /\ state.guarded = proc[i].guarded
    BY <1>a, <1>4 DEF InitAll, At, ProcState
  <2> HIDE DEF state
  <2>2. Progress(i)' /\ proc[i].pc # "serving" /\ (state.admin = "serving" \/ proc[i].admin # "serving")
    BY <1>a, <2>1, <2>3 DEF Progress, HasSynced, Early, PastPredicates, PastPriorities,
       PastInstall
  <2> QED BY <2>1, <2>2, AdvanceIInv DEF IInv, Shape
<1>5. ASSUME StartInformers(i) PROVE IInv'
  <2> DEFINE state == [proc[i] EXCEPT !.running = proc[i].asked, !.pc = "waitPredicates"]
  <2>1. state \in ProcState /\ proc' = [proc EXCEPT ![i] = state] /\ proc'[i] = state
        /\ UNCHANGED <<unit, exit, holder, files, api, trouble>>
    BY <1>a, <1>5 DEF StartInformers, At, Goto, environment, ProcState, Labels
  <2>2. Progress(i)' /\ proc[i].pc # "serving" /\ (state.admin = "serving" \/ proc[i].admin # "serving")
    BY <1>a, <1>5, <2>1 DEF StartInformers, At, Progress, HasSynced, Early, PastPredicates,
       PastPriorities, PastInstall
  <2> HIDE DEF state
  <2> QED BY <2>1, <2>2, AdvanceIInv DEF IInv, Shape
<1>6. ASSUME WaitPredicates(i) PROVE IInv'
  <2> DEFINE state == [proc[i] EXCEPT !.pc = "waitPriorities"]
  <2>1. state \in ProcState /\ proc' = [proc EXCEPT ![i] = state] /\ proc'[i] = state
        /\ UNCHANGED <<unit, exit, holder, files, api, trouble>>
    BY <1>a, <1>6 DEF WaitPredicates, At, Goto, environment, ProcState, Labels, PredicatesReady
  <2>2. Progress(i)' /\ proc[i].pc # "serving" /\ (state.admin = "serving" \/ proc[i].admin # "serving")
    BY <1>a, <1>6, <2>1 DEF WaitPredicates, At, Progress, HasSynced, Early, PastPredicates,
       PastPriorities, PastInstall, PredicatesReady
  <2> HIDE DEF state
  <2> QED BY <2>1, <2>2, AdvanceIInv DEF IInv, Shape
<1>7. ASSUME WaitPriorities(i) PROVE IInv'
  <2> DEFINE state == [proc[i] EXCEPT !.pc = "install"]
  <2>1. state \in ProcState /\ proc' = [proc EXCEPT ![i] = state] /\ proc'[i] = state
        /\ UNCHANGED <<unit, exit, holder, files, api, trouble>>
    BY <1>a, <1>7 DEF WaitPriorities, At, Goto, environment, ProcState, Labels, PrioritiesReady
  <2>2. Progress(i)' /\ proc[i].pc # "serving" /\ (state.admin = "serving" \/ proc[i].admin # "serving")
    BY <1>a, <1>7, <2>1 DEF WaitPriorities, At, Progress, HasSynced, Early, PastPredicates,
       PastPriorities, PastInstall, PrioritiesReady
  <2> HIDE DEF state
  <2> QED BY <2>1, <2>2, AdvanceIInv DEF IInv, Shape
<1>8. ASSUME InstallHttpServer(i) PROVE IInv'
  <2>1. CASE ~(proc[i].inited = {"predicates", "priorities"})
    BY <1>0, <1>8, <2>1 DEF InstallHttpServer
  <2>2. CASE proc[i].inited = {"predicates", "priorities"}
    <3> DEFINE state == [proc[i] EXCEPT !.pc = "listen",
             !.routes = InstallPredicates \cup InstallPriorities \cup InstallCommon]
    <3>1. state \in ProcState /\ proc' = [proc EXCEPT ![i] = state] /\ proc'[i] = state
          /\ UNCHANGED <<unit, exit, holder, files, api, trouble>>
      BY <1>a, <1>8, <2>2, RoutesAll DEF InstallHttpServer, At, Goto, environment, ProcState,
         Labels
    <3>2. Progress(i)' /\ proc[i].pc # "serving" /\ (state.admin = "serving" \/ proc[i].admin # "serving")
      BY <1>a, <1>8, <2>2, <3>1, RoutesAll DEF InstallHttpServer, At, Progress, HasSynced,
         Early, PastPredicates, PastPriorities, PastInstall
    <3> HIDE DEF state
    <3> QED BY <3>1, <3>2, AdvanceIInv DEF IInv, Shape
  <2> QED BY <2>1, <2>2
<1>9. ASSUME ListenAndServe(i) PROVE IInv'
  <2>1. CASE holder[unit[i].extender] # Free
    BY <1>0, <1>9, <2>1 DEF ListenAndServe
  <2>2. CASE holder[unit[i].extender] = Free
    <3> DEFINE state == [proc[i] EXCEPT !.pc = "serving"]
    <3>1. state \in ProcState /\ proc' = [proc EXCEPT ![i] = state] /\ proc'[i] = state
          /\ UNCHANGED <<unit, exit, files, api, trouble>>
          /\ holder' = [holder EXCEPT ![unit[i].extender] = i]
      BY <1>a, <1>9, <2>2 DEF ListenAndServe, At, Goto, environment, ProcState, Labels
    <3>2. Progress(i)' /\ state.pc = "serving" /\ (state.admin = "serving" \/ proc[i].admin # "serving")
      BY <1>a, <1>9, <2>2, <3>1 DEF ListenAndServe, At, ProcState, Progress, HasSynced, Early,
         PastPredicates, PastPriorities, PastInstall
    <3>3. \A p \in Ports : holder'[p] = holder[p] \/ (holder'[p] = i /\ Listens(i, p)')
      BY <1>a, <3>1, <3>2 DEF Listens, Unit
    <3>4. holder' \in [Ports -> Instances \cup {Free, Other}]
      BY <1>a, <3>1 DEF Unit
    <3> HIDE DEF state
    <3> QED BY <3>1, <3>2, <3>3, <3>4, AdvanceIInv
  <2> QED BY <2>1, <2>2
<1> QED BY <1>1, <1>2, <1>3, <1>4, <1>5, <1>6, <1>7, <1>8, <1>9 DEF Main

LEMMA GoroutineIInv ==
  ASSUME IInv, NEW i \in Instances, PolicyListen(i) \/ \E informer \in Informers : Sync(i, informer)
  PROVE  IInv'
<1>a. proc \in [Instances -> ProcState] /\ proc[i] \in ProcState /\ Progress(i) /\ unit[i] \in Unit
      /\ holder \in [Ports -> Instances \cup {Free, Other}]
  BY StartupAssumption DEF IInv, Shape
<1>1. ASSUME PolicyListen(i) PROVE IInv'
  <2>1. CASE ~(holder[unit[i].admin] = Free /\ CanRead(i, "cert"))
    BY <1>1, <2>1, ExitIInv DEF PolicyListen, environment, IInv, Shape
  <2>2. CASE holder[unit[i].admin] = Free /\ CanRead(i, "cert")
    <3> DEFINE state == [proc[i] EXCEPT !.admin = "serving"]
    <3>1. state \in ProcState /\ proc' = [proc EXCEPT ![i] = state] /\ proc'[i] = state
          /\ UNCHANGED <<unit, exit, files, api, trouble>>
          /\ holder' = [holder EXCEPT ![unit[i].admin] = i]
      BY <1>a, <1>1, <2>2 DEF PolicyListen, environment, ProcState
    <3>2. Progress(i)' /\ state.admin = "serving" /\ state.pc = proc[i].pc
      BY <1>a, <1>1, <2>2, <3>1 DEF PolicyListen, ProcState, Progress, HasSynced, Early,
         PastPredicates, PastPriorities, PastInstall
    <3>3. \A p \in Ports : holder'[p] = holder[p] \/ (holder'[p] = i /\ Listens(i, p)')
      BY <1>a, <3>1, <3>2 DEF Listens, Unit
    <3>4. holder' \in [Ports -> Instances \cup {Free, Other}]
      BY <1>a, <3>1 DEF Unit
    <3> HIDE DEF state
    <3> QED BY <3>1, <3>2, <3>3, <3>4, AdvanceIInv
  <2> QED BY <2>1, <2>2
<1>2. ASSUME NEW informer \in Informers, Sync(i, informer) PROVE IInv'
  <2> DEFINE state == [proc[i] EXCEPT !.synced = @ \cup {informer}]
  <2>1. state \in ProcState /\ proc' = [proc EXCEPT ![i] = state] /\ proc'[i] = state
        /\ UNCHANGED <<unit, exit, holder, files, api, trouble>>
    BY <1>a, <1>2 DEF Sync, environment, ProcState
  <2>2. Progress(i)' /\ state.admin = proc[i].admin /\ state.pc = proc[i].pc
    BY <1>a, <1>2, <2>1 DEF ProcState, Progress, HasSynced, Early, PastPredicates,
       PastPriorities, PastInstall
  <2> HIDE DEF state
  <2> QED BY <2>1, <2>2, AdvanceIInv DEF IInv, Shape
<1> QED BY <1>1, <1>2

LEMMA AroundIInv ==
  ASSUME IInv, (\E i \in Instances : Supervise(i)) \/ Host
  PROVE  IInv'
<1>1. ASSUME NEW i \in Instances, Launch(i) PROVE IInv'
  <2>3. proc \in [Instances -> ProcState] /\ proc[i] \in ProcState /\ Progress(i)
    BY DEF IInv, Shape
  <2> DEFINE state == [proc[i] EXCEPT !.pc = "flags"]
  <2>1. state \in ProcState /\ proc' = [proc EXCEPT ![i] = state] /\ proc'[i] = state
        /\ UNCHANGED <<unit, exit, holder, files, api, trouble>>
    BY <1>1, <2>3 DEF Launch, Goto, environment, ProcState, Labels
  <2>2. Progress(i)' /\ proc[i].pc # "serving" /\ state.admin = proc[i].admin
    BY <1>1, <2>1, <2>3 DEF Launch, At, ProcState, Progress, HasSynced, Early, PastPredicates,
       PastPriorities, PastInstall
  <2> HIDE DEF state
  <2> QED BY <2>1, <2>2, AdvanceIInv DEF IInv, Shape
<1>2. ASSUME NEW i \in Instances, ProbeKill(i) PROVE IInv'
  BY <1>2, ExitIInv DEF ProbeKill, environment, IInv, Shape
<1>3. ASSUME NEW i \in Instances, Kill(i) PROVE IInv'
  BY <1>3, ExitIInv, StartupAssumption DEF Kill, Trouble, IInv, Shape
<1>4. ASSUME NEW p \in Ports, Seize(p) PROVE IInv'
  BY <1>4, StartupAssumption DEF Seize, Trouble, IInv, Shape, Progress, HasSynced, Early,
     PastPredicates, PastPriorities, PastInstall, Listens
<1>5. ASSUME NEW p \in Ports, Release(p) PROVE IInv'
  BY <1>5, StartupAssumption DEF Release, environment, IInv, Shape, Progress, HasSynced,
     Early, PastPredicates, PastPriorities, PastInstall, Listens
<1>6. ASSUME ApiDown PROVE IInv'
  <2>1. api' \in BOOLEAN
    BY <1>6 DEF ApiDown
  <2>2. trouble < MaxTrouble /\ trouble' = trouble + 1
    BY <1>6 DEF ApiDown, Trouble
  <2>3. trouble' \in 0..MaxTrouble
    BY <2>2, StartupAssumption DEF IInv, Shape
  <2> QED
    BY <1>6, <2>1, <2>3 DEF ApiDown, IInv, Shape, Progress, HasSynced, Early, PastPredicates,
       PastPriorities, PastInstall, Listens
<1>7. ASSUME ApiUp PROVE IInv'
  BY <1>7 DEF ApiUp, IInv, Shape, Progress, HasSynced, Early, PastPredicates, PastPriorities,
     PastInstall, Listens
<1>8. ASSUME NEW i \in Instances, NEW file \in Files, Repair(i, file) PROVE IInv'
  BY <1>8 DEF Repair, IInv, Shape, Progress, HasSynced, Early, PastPredicates, PastPriorities,
     PastInstall, Listens
<1> QED BY <1>1, <1>2, <1>3, <1>4, <1>5, <1>6, <1>7, <1>8 DEF Supervise, Host

LEMMA StepIInv ==
  ASSUME IInv, [Next]_vars
  PROVE  IInv'
<1>1. CASE UNCHANGED vars
  BY <1>1 DEF vars, IInv, Shape, Progress, HasSynced, Early, PastPredicates, PastPriorities,
     PastInstall, Listens
<1> QED BY <1>1, MainIInv, GoroutineIInv, AroundIInv DEF Next, Process

LEMMA IInvAlways == Spec => []IInv
<1> QED BY InitIInv, StepIInv, PTL DEF Spec

-----------------------------------------------------------------------------
\* Every state has its type, and a port belongs to a process that serves it.
THEOREM TypeCorrect == Spec => []TypeOK
<1> QED BY IInvIsTyped, IInvAlways, PTL

\* What answers /health is ready: nothing is installed before every informer
\* a handler reads has been filled, whatever happened before.
THEOREM HealthTellsTruthAlways == Spec => []HealthTellsTruth
<1>1. \A f \in Plugins : f.asks = f.waits
  BY DEF Plugins, predicateList, prioritizeList, HostPathPVAffinity, HostPathPVDiskPressure,
         NamespacesNodeSelector, HostPathPVDiskUse, HostPathPVSpread
<1>2. IInv => HealthTellsTruth
  BY <1>1 DEF IInv, Progress, HasSynced, HealthTellsTruth, At, Plugins, AllRoutes,
              PastPredicates, PastPriorities, PastInstall
<1> QED BY <1>2, IInvAlways, PTL

\* A named password file is in force wherever the server is up.
THEOREM AdminGuardedAlways == Spec => []AdminGuarded
<1>1. IInv => AdminGuarded
  BY DEF IInv, Progress, AdminGuarded
<1> QED BY <1>1, IInvAlways, PTL

\* Nothing but a kill ends a scheduleronly process in service.
THEOREM ModesIsolateAlways == Spec => ModesIsolate
<1> DEFINE Isolated ==
      \A i \in Instances :
        unit[i].mode = "scheduleronly" /\ At(i, "serving") /\ ~At(i, "serving")' => exit'[i] = Killed
<1>1. ASSUME IInv, [Next]_vars PROVE [Isolated]_vars
  <2> SUFFICES ASSUME NEW i \in Instances, Next, unit[i].mode = "scheduleronly",
                      At(i, "serving"), ~At(i, "serving")'
               PROVE exit'[i] = Killed
    BY <1>1
  <2>1. proc[i].admin = "none" /\ exit \in [Instances -> {NotYet, 0, 1, 4, 255, Killed}]
        /\ proc \in [Instances -> ProcState]
    BY <1>1 DEF IInv, Shape, Progress, ProcState
  <2>2. ASSUME NEW j \in Instances, Process(j) PROVE FALSE
    <3>1. j # i \/ ~(Main(j) \/ PolicyListen(j))
      BY <2>1 DEF Main, PolicyListen, ParseMode, GetClientset, StartPolicyHttpServer, InitAll,
         StartInformers,
                  WaitPredicates, WaitPriorities, InstallHttpServer, ListenAndServe, At
    <3>2. \E state : proc' = [proc EXCEPT ![j] = state]
      BY <2>2 DEF Process, Main, PolicyListen, ParseMode, GetClientset, StartPolicyHttpServer,
         InitAll,
                  StartInformers, WaitPredicates, WaitPriorities, InstallHttpServer, ListenAndServe, Sync,
                  Goto, Exit
    <3>3. j = i => proc'[i].pc = proc[i].pc
      BY <2>1, <2>2, <3>1 DEF Process, Sync, ProcState
    <3> QED BY <2>1, <3>2, <3>3 DEF At
  <2>3. ASSUME NEW j \in Instances, Launch(j) PROVE FALSE
    BY <2>1, <2>3 DEF Launch, Goto, At, ProcState
  <2>4. ASSUME NEW j \in Instances, ProbeKill(j) \/ Kill(j) PROVE exit'[i] = Killed
    BY <2>1, <2>4 DEF ProbeKill, Kill, Exit, At
  <2>5. ASSUME UNCHANGED proc PROVE FALSE
    BY <2>5 DEF At
  <2> QED
    BY <2>2, <2>3, <2>4, <2>5 DEF Next, Supervise, Host, Seize, Release, ApiDown, ApiUp,
       Repair
<1> QED BY <1>1, IInvAlways, PTL DEF Spec, ModesIsolate
=============================================================================
