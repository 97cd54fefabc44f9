---------------------------- MODULE MC_Startup ----------------------------
(* Instances of Startup: three deployments of two processes on one host.    *)
EXTENDS Startup

CONSTANTS a, b, e1, e2, a1, a2, free, other

MCInstances == {a, b}
MCPorts == {e1, e2, a1, a2}

Process1(mode, extender, admin, needed, supervisor, probed) ==
  [mode |-> mode, extender |-> extender, admin |-> admin, files |-> needed,
   supervisor |-> supervisor, probed |-> probed]

Both(forA, forB) == [i \in MCInstances |-> IF i = a THEN forA ELSE forB]

SystemdUnit == Process1("scheduleronly", e1, a2, {"kubeconfig"}, "systemd", FALSE)
WholePod == Process1("all", e2, a2, {"basicauth", "cert"}, "kubelet", TRUE)
AdminPod == Process1("backendonly", e2, a2, {"basicauth", "cert"}, "kubelet", FALSE)

\* enndata-scheduler.service beside the pod of enndata-scheduler.yaml
Shipped == Both(SystemdUnit, WholePod)
\* that pod and the one of nsnodeselector-server.yaml, were they put on the
\* host's network: the manifests give each pod its own
Contended == Both(WholePod, AdminPod)
\* a unit for everything, and one whose run mode is misspelt
Mistaken == Both(Process1("all", e1, a1, {"kubeconfig", "basicauth"}, "systemd", FALSE),
                 Process1("unknown", e2, a2, {}, "kubelet", FALSE))

MCDeployments == {Shipped, Contended, Mistaken}
MCShipped == {Shipped}
MCContended == {Contended}

\* What one might expect and the program does not give; each has a
\* configuration that shows how it fails.

\* A unit of systemd comes back whatever ended it (main.go:151).
UnitComesBack == \A i \in MCInstances : Extends(i) /\ Alone(i) => <>[]At(i, "serving")

\* The administrative server is up wherever its process runs (main.go:120).
AdminRuns == Administers(b) => <>[](proc[b].admin = "serving")

\* An extender is not disturbed by who holds the administrative port.
ExtenderUndisturbed == Extends(a) => <>[]At(a, "serving")
=============================================================================
