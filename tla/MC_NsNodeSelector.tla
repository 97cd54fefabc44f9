------------------------- MODULE MC_NsNodeSelector -------------------------
(***************************************************************************)
(* Instances of NsNodeSelector: two namespaces, an ordinary node and a     *)
(* system node, one pod to be scheduled and one that runs.                 *)
(***************************************************************************)
EXTENDS NsNodeSelector, TLC

CONSTANTS p1, p2, t1, t2, prod, dev, sys, zone, va, n1, n2, pod1, pod2, none

Req(kind, ns, type, key, vals, pod) ==
  [kind |-> kind, ns |-> ns, type |-> type, key |-> key, vals |-> vals, pod |-> pod]

AddMatch == Req("add", prod, "match", zone, {va}, Nil)
UpdateMatch == Req("update", prod, "match", zone, {Wildcard}, Nil)
DeleteMatch == Req("delete", prod, "match", zone, {}, Nil)
AddNotMatch == Req("add", prod, "notmatch", zone, {va}, Nil)
UpdateNotMatch == Req("update", prod, "notmatch", zone, {Wildcard}, Nil)
DeleteNotMatch == Req("delete", prod, "notmatch", zone, {}, Nil)
AddMustMatch == Req("add", prod, "mustmatch", zone, {va}, Nil)
OpenDev == Req("delete", dev, "notmatch", sys, {}, Nil)
Filter == Req("filter", prod, "match", zone, {}, pod1)
CheckProd == Req("check", prod, "match", zone, {}, Nil)
GetAll == Req("get", prod, "match", zone, {}, Nil)
RefreshProd == Req("refresh", prod, "match", zone, {}, Nil)

NoLabels == [k \in Keys |-> Absent]
OneLabeling == { (n1 :> [NoLabels EXCEPT ![zone] = va] @@ n2 :> [NoLabels EXCEPT ![sys] = va]) }
OnePlacing == { (pod1 :> Pending @@ pod2 :> n1), (pod1 :> Pending @@ pod2 :> n2) }
PodWaits == { (pod1 :> Pending) }
PodNamespace == (pod1 :> prod)
PodNamespaces == (pod1 :> prod @@ pod2 :> prod)

\* A ConfigMap without the item, one that was never created, one with entries.
DevOpen == [EmptyConfig EXCEPT ![dev] = [EmptyItem EXCEPT !["notmatch"] = EmptyMap]]
Stores == { Nil, DevOpen }

PodRuns == { (pod2 :> n1) }
RunningNamespace == (pod2 :> prod)
Created == { DevOpen }

OneProcess == (t1 :> p1)
TwoProcesses == (t1 :> p1 @@ t2 :> p2)
SharedProcess == (t1 :> p1 @@ t2 :> p1)

SerialServes == (t1 :> { AddNotMatch, UpdateNotMatch, DeleteNotMatch, AddMatch, OpenDev, Filter,
                         GetAll, CheckProd, RefreshProd })
PacedServes == (t1 :> { AddMatch, DeleteMatch } @@ t2 :> { UpdateMatch, AddMustMatch, Filter })
FreeServes == (t1 :> { AddMatch } @@ t2 :> { AddNotMatch, Filter })
OperatorServes == (t1 :> { AddMatch, AddNotMatch, DeleteMatch, RefreshProd })
ByHand == { BadJson, NilData, [EmptyConfig EXCEPT ![prod] = EmptyItem] }
Relabelled == { [NoLabels EXCEPT ![sys] = va] }
RefreshServes == (t1 :> { RefreshProd, AddMatch })
GuardServes == (t1 :> { AddNotMatch, Filter })
TwoEditors == (t1 :> { AddMatch } @@ t2 :> { AddMustMatch })
=============================================================================
