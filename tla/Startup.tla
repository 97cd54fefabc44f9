------------------------------ MODULE Startup ------------------------------
(***************************************************************************)
(* From exec to serving: the processes of a deployment, each with its run  *)
(* mode, its informers and its one or two servers; the supervisor that     *)
(* starts them again; the API server, the ports and the files they need.   *)
(*                                                                         *)
(* The main goroutine is cut where it waits or where another goroutine may *)
(* end the process: the administrative server listens in a goroutine of    *)
(* its own, whose failure is fatal to the whole process.                   *)
(***************************************************************************)
EXTENDS Integers, FiniteSets

CONSTANTS
  Instances,    \* the deployed processes
  Ports,
  Deployments,  \* what may be deployed: see Unit
  Free, Other,  \* a port nobody, or some other program, listens on
  Patient,      \* whether a probe waits for caches that are on their way
  MaxTrouble    \* bound: how often the environment interferes

Modes == {"all", "scheduleronly", "backendonly"}
Informers == {"pv", "pvc", "pod"}
Files == {"kubeconfig", "basicauth", "cert"}

\* One process as its unit or its Deployment describes it; files are the ones
\* its command line names.
Unit == [mode : Modes \cup {"unknown"}, extender : Ports, admin : Ports, files : SUBSET Files,
         supervisor : {"systemd", "kubelet"}, probed : BOOLEAN]

ASSUME StartupAssumption ==
  /\ Deployments \subseteq [Instances -> Unit]
  /\ Free # Other /\ {Free, Other} \cap Instances = {}
  /\ Patient \in BOOLEAN /\ MaxTrouble \in Nat

\* What a predicate or priority asks the informer factory for in Init, which
\* is what its handler reads, and what its Ready waits for.
HostPathPVAffinity == [name |-> "hostpathpvaffinity", asks |-> Informers, waits |-> Informers]
HostPathPVDiskPressure == [name |-> "hostpathpvdiskpressure", asks |-> Informers, waits |-> Informers]
NamespacesNodeSelector == [name |-> "namespacenodeselector", asks |-> {}, waits |-> {}]
HostPathPVDiskUse == [name |-> "hostpathpvdiskuse", asks |-> Informers, waits |-> Informers]
HostPathPVSpread == [name |-> "hostpathpvspread", asks |-> Informers, waits |-> Informers]

\* The lists the package initialisers register into.
predicateList == {HostPathPVAffinity, HostPathPVDiskPressure, NamespacesNodeSelector}
prioritizeList == {HostPathPVDiskUse, HostPathPVSpread}
Plugins == predicateList \cup prioritizeList

VARIABLES
  unit,    \* what is deployed
  proc,    \* the state of each process
  exit,    \* how it ended the last time
  holder,  \* who listens on each port
  files,   \* for each instance, the files that can be read
  api,     \* whether the API server answers
  trouble  \* how often the environment has interfered

vars == <<unit, proc, exit, holder, files, api, trouble>>
environment == <<unit, files, api, trouble>>

NotYet == -1  \* an instance that has never run
Killed == 137

Down == [pc |-> "down", admin |-> "none", guarded |-> FALSE, inited |-> {}, asked |-> {}, running |-> {},
         synced |-> {}, routes |-> {}]

Init ==
  /\ unit \in Deployments
  /\ proc = [i \in Instances |-> Down]
  /\ exit = [i \in Instances |-> NotYet]
  /\ holder = [p \in Ports |-> Free]
  /\ files \in {there \in [Instances -> SUBSET Files] : \A i \in Instances : there[i] \subseteq unit[i].files}
  /\ api \in BOOLEAN
  /\ trouble = 0

At(i, label) == proc[i].pc = label
Goto(i, label) == proc' = [proc EXCEPT ![i].pc = label]
CanRead(i, file) == file \in unit[i].files => file \in files[i]

\* Seeded fault: a port outlives its process.
ExitHolding(i, status) ==
  /\ proc' = [proc EXCEPT ![i] = Down] /\ exit' = [exit EXCEPT ![i] = status] /\ UNCHANGED holder

\* The process ends, and its ports are free.
Exit(i, status) ==
  /\ proc' = [proc EXCEPT ![i] = Down]
  /\ exit' = [exit EXCEPT ![i] = status]
  /\ holder' = [p \in Ports |-> IF holder[p] = i THEN Free ELSE holder[p]]

---------------------------------------------------------------------------
(* The main goroutine. *)

ParseMode(i) ==
  /\ At(i, "flags")
  /\ IF unit[i].mode \in Modes
     THEN Goto(i, "clients") /\ UNCHANGED <<exit, holder>>
     ELSE Exit(i, 255)
  /\ UNCHANGED environment

\* The clients are built from a file; the API server is not asked yet.
GetClientset(i) ==
  /\ At(i, "clients")
  /\ IF CanRead(i, "kubeconfig")
     THEN Goto(i, "policy") /\ UNCHANGED <<exit, holder>>
     ELSE Exit(i, 1)
  /\ UNCHANGED environment

\* Seeded fault: the run mode is not asked for.
StartsPolicyAlways(i) == CanRead(i, "basicauth")

\* Seeded fault: without an authenticator the server starts all the same.
StartsPolicyOpen(i) == unit[i].mode # "scheduleronly"

\* Only an authenticator that cannot be built keeps the server from starting.
StartsPolicy(i) == unit[i].mode # "scheduleronly" /\ CanRead(i, "basicauth")

StartPolicyHttpServer(i) ==
  /\ At(i, "policy")
  /\ proc' = [proc EXCEPT ![i].admin = IF StartsPolicy(i) THEN "starting" ELSE "none",
                          ![i].guarded = "basicauth" \in unit[i].files \cap files[i],
                          ![i].pc = IF unit[i].mode = "backendonly" THEN "parked" ELSE "init"]
  /\ UNCHANGED <<environment, exit, holder>>

\* Both frameworks ask the factory for their informers.  No Init fails.
InitAll(i) ==
  /\ At(i, "init")
  /\ proc' = [proc EXCEPT ![i].inited = {"predicates", "priorities"}, ![i].pc = "start",
                          ![i].asked = UNION {f.asks : f \in Plugins}]
  /\ UNCHANGED <<environment, exit, holder>>

\* Seeded fault: the factory is started before anything was asked of it.
StartInformersEarly(i) ==
  /\ At(i, "start")
  /\ Goto(i, "waitPredicates")
  /\ UNCHANGED <<environment, exit, holder>>

StartInformers(i) ==
  /\ At(i, "start")
  /\ proc' = [proc EXCEPT ![i].running = proc[i].asked, ![i].pc = "waitPredicates"]
  /\ UNCHANGED <<environment, exit, holder>>

\* Seeded fault: one of the informers is enough.
HasSyncedSome(i, f) == f.waits = {} \/ f.waits \cap proc[i].synced # {}

HasSynced(i, f) == f.waits \subseteq proc[i].synced

PredicatesReady(i) == "predicates" \in proc[i].inited /\ \A f \in predicateList : HasSynced(i, f)
PrioritiesReady(i) == "priorities" \in proc[i].inited /\ \A f \in prioritizeList : HasSynced(i, f)

\* The stop channel is never closed: the wait has no end but success.
WaitPredicates(i) ==
  /\ At(i, "waitPredicates") /\ PredicatesReady(i)
  /\ Goto(i, "waitPriorities")
  /\ UNCHANGED <<environment, exit, holder>>

WaitPriorities(i) ==
  /\ At(i, "waitPriorities") /\ PrioritiesReady(i)
  /\ Goto(i, "install")
  /\ UNCHANGED <<environment, exit, holder>>

InstallPredicates == {f.name : f \in predicateList}
InstallPriorities == {f.name : f \in prioritizeList}
InstallCommon == {"version", "health"}

InstallHttpServer(i) ==
  /\ At(i, "install")
  /\ IF proc[i].inited = {"predicates", "priorities"}
     THEN /\ proc' = [proc EXCEPT ![i].pc = "listen",
                        ![i].routes = InstallPredicates \cup InstallPriorities \cup InstallCommon]
          /\ UNCHANGED <<exit, holder>>
     ELSE Exit(i, 4)
  /\ UNCHANGED environment

\* A listener that fails is logged; main returns, with status 0.
ListenAndServe(i) ==
  /\ At(i, "listen")
  /\ IF holder[unit[i].extender] = Free
     THEN /\ holder' = [holder EXCEPT ![unit[i].extender] = i]
          /\ Goto(i, "serving") /\ UNCHANGED exit
     ELSE Exit(i, 0)
  /\ UNCHANGED environment

Main(i) ==
  \/ ParseMode(i) \/ GetClientset(i) \/ StartPolicyHttpServer(i) \/ InitAll(i)
  \/ StartInformers(i) \/ WaitPredicates(i) \/ WaitPriorities(i)
  \/ InstallHttpServer(i) \/ ListenAndServe(i)

---------------------------------------------------------------------------
(* The other goroutines. *)

\* Seeded fault: the failure of the listener is only logged.
PolicyListenLogged(i) ==
  /\ proc[i].admin = "starting"
  /\ IF holder[unit[i].admin] = Free /\ CanRead(i, "cert")
     THEN /\ holder' = [holder EXCEPT ![unit[i].admin] = i]
          /\ proc' = [proc EXCEPT ![i].admin = "serving"]
     ELSE proc' = [proc EXCEPT ![i].admin = "none"] /\ UNCHANGED holder
  /\ UNCHANGED <<environment, exit>>

PolicyListen(i) ==
  /\ proc[i].admin = "starting"
  /\ IF holder[unit[i].admin] = Free /\ CanRead(i, "cert")
     THEN /\ holder' = [holder EXCEPT ![unit[i].admin] = i]
          /\ proc' = [proc EXCEPT ![i].admin = "serving"] /\ UNCHANGED exit
     ELSE Exit(i, 255)
  /\ UNCHANGED environment

Sync(i, informer) ==
  /\ api /\ informer \in proc[i].running \ proc[i].synced
  /\ proc' = [proc EXCEPT ![i].synced = @ \cup {informer}]
  /\ UNCHANGED <<environment, exit, holder>>

---------------------------------------------------------------------------
(* The supervisors and the rest of the host. *)

\* systemd restarts on failure only, the kubelet always.
Launch(i) ==
  /\ At(i, "down")
  /\ unit[i].supervisor = "kubelet" \/ exit[i] # 0
  /\ Goto(i, "flags")
  /\ UNCHANGED <<environment, exit, holder>>

\* The kubelet asks /health of the extender's port.
ProbeKill(i) ==
  /\ unit[i].probed /\ ~At(i, "down") /\ ~At(i, "serving")
  /\ Patient => ~api
  /\ Exit(i, Killed)
  /\ UNCHANGED environment

Trouble == trouble < MaxTrouble /\ trouble' = trouble + 1

Kill(i) ==
  /\ ~At(i, "down") /\ Trouble
  /\ Exit(i, Killed)
  /\ UNCHANGED <<unit, files, api>>

Seize(p) ==
  /\ holder[p] = Free /\ Trouble
  /\ holder' = [holder EXCEPT ![p] = Other]
  /\ UNCHANGED <<unit, proc, exit, files, api>>

Release(p) ==
  /\ holder[p] = Other
  /\ holder' = [holder EXCEPT ![p] = Free]
  /\ UNCHANGED <<environment, proc, exit>>

ApiDown == api /\ Trouble /\ api' = FALSE /\ UNCHANGED <<unit, proc, exit, holder, files>>
ApiUp == ~api /\ api' = TRUE /\ UNCHANGED <<unit, proc, exit, holder, files, trouble>>

Repair(i, file) ==
  /\ ~CanRead(i, file)
  /\ files' = [files EXCEPT ![i] = @ \cup {file}]
  /\ UNCHANGED <<unit, proc, exit, holder, api, trouble>>

---------------------------------------------------------------------------
Process(i) == Main(i) \/ PolicyListen(i) \/ \E informer \in Informers : Sync(i, informer)
Supervise(i) == Launch(i) \/ ProbeKill(i)
Host ==
  \/ \E i \in Instances : Kill(i) \/ \E file \in Files : Repair(i, file)
  \/ \E p \in Ports : Seize(p) \/ Release(p)
  \/ ApiDown \/ ApiUp

Next == (\E i \in Instances : Process(i) \/ Supervise(i)) \/ Host

Spec == Init /\ [][Next]_vars

\* Goroutines run and supervisors supervise; an outage ends, a port is given
\* back, a missing file is put in place.
Fairness ==
  /\ \A i \in Instances :
       /\ WF_vars(Main(i)) /\ WF_vars(PolicyListen(i)) /\ WF_vars(Launch(i))
       /\ \A informer \in Informers : WF_vars(Sync(i, informer))
       /\ \A file \in Files : WF_vars(Repair(i, file))
  /\ WF_vars(ApiUp) /\ \A p \in Ports : WF_vars(Release(p))

FairSpec == Spec /\ Fairness

---------------------------------------------------------------------------
TypeOK ==
  /\ unit \in Deployments
  /\ proc \in [Instances ->
       [pc : {"down", "flags", "clients", "policy", "parked", "init", "start", "waitPredicates",
              "waitPriorities", "install", "listen", "serving"},
        admin : {"none", "starting", "serving"}, guarded : BOOLEAN,
        inited : SUBSET {"predicates", "priorities"},
        asked : SUBSET Informers, running : SUBSET Informers, synced : SUBSET Informers,
        routes : SUBSET ({f.name : f \in Plugins} \cup InstallCommon)]]
  /\ exit \in [Instances -> {NotYet, 0, 1, 4, 255, Killed}]
  /\ holder \in [Ports -> Instances \cup {Free, Other}]
  /\ files \in [Instances -> SUBSET Files]
  /\ api \in BOOLEAN /\ trouble \in 0..MaxTrouble
  \* a process listens where its unit says, and only where it serves
  /\ \A i \in Instances, p \in Ports : holder[p] = i =>
       \/ p = unit[i].extender /\ At(i, "serving")
       \/ p = unit[i].admin /\ proc[i].admin = "serving"

\* /health answers only where every predicate and priority is installed and
\* every cache their handlers read has been filled once: what a readiness
\* probe and the scheduler take its answer for (main.go:140-151).
HealthTellsTruth ==
  \A i \in Instances : At(i, "serving") =>
    /\ {f.name : f \in Plugins} \cup InstallCommon \subseteq proc[i].routes
    /\ \A f \in Plugins : f.asks \subseteq proc[i].synced

\* Where a password file is named nobody is served without it: the file that
\* cannot be read keeps the server away and does not open it
\* (StartPolicyHttpServer, WithAuthentication).
AdminGuarded ==
  \A i \in Instances :
    proc[i].admin # "none" /\ "basicauth" \in unit[i].files => proc[i].guarded

\* A scheduleronly process in service is ended from outside only: whatever
\* happens to administrative ports, certificates and password files, its
\* filter stays up (main.go:119, and the glog.Fatal of the policy server).
ModesIsolate ==
  [][\A i \in Instances :
       unit[i].mode = "scheduleronly" /\ At(i, "serving") /\ ~At(i, "serving")'
         => exit'[i] = Killed]_vars

PortsOf(i) ==
  CASE unit[i].mode = "all" -> {unit[i].extender, unit[i].admin}
    [] unit[i].mode = "scheduleronly" -> {unit[i].extender}
    [] unit[i].mode = "backendonly" -> {unit[i].admin}
    [] OTHER -> {}
Extends(i) == unit[i].mode \in {"all", "scheduleronly"}
Administers(i) == unit[i].mode \in {"all", "backendonly"}
Alone(i) == \A j \in Instances \ {i} : PortsOf(i) \cap PortsOf(j) = {}

\* After outages, deaths, port conflicts and files that come late, an extender
\* that shares no port with another process serves for good.  The exception
\* is main's return when the port is taken: systemd takes status 0 for
\* success and does not start it again (main.go:151, enndata-scheduler.service).
ExtenderServes ==
  \A i \in Instances : Extends(i) /\ Alone(i) =>
    \/ <>[]At(i, "serving")
    \/ unit[i].supervisor = "systemd" /\ <>[](At(i, "down") /\ exit[i] = 0)

\* An administrative port is served for good, by one or the other of the
\* processes that want it: a process that loses it dies and tries again, and
\* does not live on without its server.  It does live on if its password file
\* could not be read when it started.
AdminServes ==
  \A i \in Instances :
    /\ Administers(i) /\ (unit[i].supervisor = "kubelet" \/ unit[i].mode = "backendonly")
    /\ \A j \in Instances : Administers(j) => CanRead(j, "basicauth")
    => <>[](holder[unit[i].admin] \in Instances)
=============================================================================
