-------------------------- MODULE NsConfigRegister --------------------------
(***************************************************************************)
(* What the nsnodeselector service promises: one configuration, which each *)
(* acknowledged request edits atomically.  The base of an edit is the      *)
(* stored configuration with the defaults of the listed namespaces.        *)
(***************************************************************************)
EXTENDS NsSelector

CONSTANTS
  Listed,        \* the namespaces GetNamespaces returns
  EditRequests,  \* the add, update and delete requests
  InitConfigs    \* the contents the ConfigMap may start with

ASSUME RegisterAssumption ==
  /\ Listed \subseteq Namespaces
  /\ EditRequests \subseteq [kind : EditKinds, ns : Namespaces, type : MatchTypes,
                             key : Keys, vals : (SUBSET Values) \ {{}}]
  /\ InitConfigs \subseteq CMData

VARIABLE config

Edit(r) ==
  /\ config # NilData
  /\ EditAllowed(NsConfigOf(config, Listed), r)
  /\ config' = EditedConfig(NsConfigOf(config, Listed), r)

Init == config \in InitConfigs
Next == \E r \in EditRequests : Edit(r)
Spec == Init /\ [][Next]_config

TypeOK == config \in CMData

(* What the extender answers from the present configuration.               *)
Accepts(ns, labels) == NodeAccepted(NsConfigOf(config, {}), ns, labels)

(* No add request makes a node schedulable for a listed namespace that was *)
(* not schedulable before: an add only puts one more term in a conjunction *)
(* (GetNsLabelSelector), and writing the defaults out changes nothing.  An *)
(* item that does not parse is replaced whole, so it is left out.          *)
AddNarrows ==
  [][\A r \in EditRequests : r.kind = "add" /\ r.ns \in Listed /\ config # BadJson /\ Edit(r) =>
       \A ns \in Namespaces, labels \in NodeLabels :
         Accepts(ns, labels)' => Accepts(ns, labels)]_config

(* A request for one namespace never moves another namespace: the whole    *)
(* item map is written back by every request, the other items with it.     *)
OthersUnmoved ==
  [][\A r \in EditRequests : Edit(r) /\ config # BadJson =>
       \A ns \in Namespaces \ {r.ns}, labels \in NodeLabels :
         Accepts(ns, labels)' = Accepts(ns, labels)]_config
=============================================================================
