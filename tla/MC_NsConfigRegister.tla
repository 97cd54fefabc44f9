------------------------ MODULE MC_NsConfigRegister ------------------------
(***************************************************************************)
(* A small instance of NsConfigRegister: two listed namespaces, the system *)
(* label, one other label and one malformed key.                           *)
(***************************************************************************)
EXTENDS NsConfigRegister

CONSTANTS prod, dev, sys, zone, bad, none, va

Vals == { {va}, {Wildcard} }

\* One request per combination that a step of the handler tells apart.
MCRequests ==
  [kind : EditKinds, ns : {prod}, type : {"match", "notmatch"}, key : {sys, zone}, vals : Vals]
  \cup [kind : EditKinds, ns : {dev}, type : {"mustnotmatch"}, key : {zone, bad, none}, vals : {{va}}]

MCInitConfigs ==
  { EmptyConfig, BadJson, NilData,
    [EmptyConfig EXCEPT ![prod] = EmptyItem],
    [EmptyConfig EXCEPT ![dev] = [EmptyItem EXCEPT !["notmatch"] = EmptyMap,
                                                   !["match"] = [EmptyMap EXCEPT ![zone] = {va}]]] }
=============================================================================
