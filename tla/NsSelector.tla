----------------------------- MODULE NsSelector -----------------------------
(***************************************************************************)
(* The data of the namespace node selector, and the pure functions over    *)
(* it: what the JSON item of the ConfigMap means, the label selector of a  *)
(* namespace, whether a node matches it, and the edit one administrative   *)
(* request makes.  No state is kept here; NsNodeSelector adds it.          *)
(*                                                                         *)
(* Label values are abstracted to what a selector tells apart: Wildcard    *)
(* stands for the values "" and "*", which turn a term into an existence   *)
(* test; BadKeys are the keys labels.Parse refuses; EmptyKey is "".        *)
(***************************************************************************)
EXTENDS Naturals, FiniteSets

CONSTANTS
  Namespaces,   \* the namespaces a request or a configuration may name
  Keys,         \* label keys, SysKey and possibly EmptyKey among them
  SysKey,       \* Nsnodeselector_systemlabel, enndata.cn/systemnode
  EmptyKey,     \* the key "", which GetNsLabelSelector skips
  BadKeys,      \* keys that make labels.Parse fail
  Values,       \* label values
  Wildcard,     \* the value "" or "*" in a configuration
  NilMap,       \* a nil LabelValues
  Absent,       \* no entry for a namespace, or no label on a node
  BadJson,      \* an item json.Unmarshal refuses; also a nil NsConfig
  NilData       \* a ConfigMap whose Data map is nil

ASSUME SelectorAssumption ==
  /\ SysKey \in Keys /\ SysKey # EmptyKey /\ SysKey \notin BadKeys
  /\ EmptyKey \notin BadKeys
  /\ Wildcard \in Values
  /\ Absent \notin Values

MatchTypes == {"match", "mustmatch", "notmatch", "mustnotmatch"}
EditKinds == {"add", "update", "delete"}

(* map[string]map[string]struct{}: the empty set of values stands for a key *)
(* that is not in the map.                                                 *)
LabelValues == [Keys -> SUBSET Values]
NsConfigItem == [MatchTypes -> LabelValues \cup {NilMap}]
NsConfig == [Namespaces -> NsConfigItem \cup {Absent}]
CMData == NsConfig \cup {BadJson, NilData}

\* The markers are not values of the types they stand beside.
ASSUME MarkerAssumption ==
  /\ NilMap \notin LabelValues /\ Absent \notin NsConfigItem
  /\ BadJson \notin NsConfig /\ NilData \notin NsConfig /\ NilData # BadJson

\* The API server admits no label with an empty or malformed key.
NodeLabels == { l \in [Keys -> Values \cup {Absent}] :
                  \A k \in BadKeys \cup {EmptyKey} : k \in Keys => l[k] = Absent }

EmptyMap == [k \in Keys |-> {}]
EmptyItem == [m \in MatchTypes |-> NilMap]
EmptyConfig == [n \in Namespaces |-> Absent]
SystemLabel == [EmptyMap EXCEPT ![SysKey] = {Wildcard}]

MakeMap(lbvs) == IF lbvs = NilMap THEN EmptyMap ELSE lbvs

(* GetNsConfigByConfigMap: every namespace of the cluster gets an item, and *)
(* an item without a NotMatch map gets the one that keeps it off the nodes *)
(* that carry the system label.                                            *)
NoDefault(item) == item   \* seeded fault: the default is not filled in

WithDefault(item) ==
  IF item["notmatch"] = NilMap THEN [item EXCEPT !["notmatch"] = SystemLabel] ELSE item

NsConfigOf(data, listed) ==
  LET stored == IF data = NilData THEN EmptyConfig ELSE data
      Item(n) == IF stored[n] = Absent /\ n \in listed THEN EmptyItem ELSE stored[n]
  IN  IF data = BadJson THEN BadJson
      ELSE [n \in Namespaces |-> IF Item(n) = Absent THEN Absent ELSE WithDefault(Item(n))]

-----------------------------------------------------------------------------
(* GetNsLabelSelector: a conjunction of terms.  labels.Parse fails, and    *)
(* with it the whole selector, when the key of a term is malformed.        *)
Term(key, neg, vals) == [key |-> key, neg |-> neg, vals |-> vals]
DefaultSelector == {Term(SysKey, TRUE, {Wildcard})}

ItemTerms(item) ==
  { Term(e[2], e[1] \in {"notmatch", "mustnotmatch"}, MakeMap(item[e[1]])[e[2]]) :
      e \in { f \in MatchTypes \X (Keys \ {EmptyKey}) : MakeMap(item[f[1]])[f[2]] # {} } }

LabelSelector(nsConfig, ns) ==
  IF nsConfig = BadJson THEN DefaultSelector
  ELSE IF nsConfig[ns] = Absent THEN DefaultSelector
  ELSE ItemTerms(nsConfig[ns])

ParseFails(selector) == \E t \in selector : t.key \in BadKeys

(* labels.Requirement.Matches: in, exists, notin and the negated existence. *)
TermMatches(t, labels) ==
  LET hit == labels[t.key] # Absent /\ (Wildcard \in t.vals \/ labels[t.key] \in t.vals)
  IN  IF t.neg THEN ~hit ELSE hit

SelectorMatches(selector, labels) == \A t \in selector : TermMatches(t, labels)

(* PodMatchNode: a selector that does not parse is an error for the node.  *)
NodeAccepted(nsConfig, ns, labels) ==
  LET selector == LabelSelector(nsConfig, ns)
  IN  ~ParseFails(selector) /\ SelectorMatches(selector, labels)

-----------------------------------------------------------------------------
(* The edit of one add, update or delete request: tmpFun on the map of the *)
(* requested type.  An add wants the key absent, the other two present.    *)
EditBase(nsConfig) == IF nsConfig = BadJson THEN EmptyConfig ELSE nsConfig

RequestItem(nsConfig, r) ==
  IF EditBase(nsConfig)[r.ns] = Absent THEN EmptyItem ELSE EditBase(nsConfig)[r.ns]

RequestMap(nsConfig, r) == MakeMap(RequestItem(nsConfig, r)[r.type])

EditAllowed(nsConfig, r) == (r.kind = "add") <=> (RequestMap(nsConfig, r)[r.key] = {})

\* Seeded fault: a delete leaves a tombstone in the map.
EditedMapTombstone(nsConfig, r) ==
  [RequestMap(nsConfig, r) EXCEPT ![r.key] = IF r.kind = "delete" THEN {Absent} ELSE r.vals]

EditedMap(nsConfig, r) ==
  [RequestMap(nsConfig, r) EXCEPT ![r.key] = IF r.kind = "delete" THEN {} ELSE r.vals]

\* Seeded fault: the items of the other namespaces are not carried over.
EditedConfigAlone(nsConfig, r) ==
  [EmptyConfig EXCEPT
     ![r.ns] = [RequestItem(nsConfig, r) EXCEPT ![r.type] = EditedMap(nsConfig, r)]]

EditedConfig(nsConfig, r) ==
  [EditBase(nsConfig) EXCEPT
     ![r.ns] = [RequestItem(nsConfig, r) EXCEPT ![r.type] = EditedMap(nsConfig, r)]]
=============================================================================
