--------------------------- MODULE NsConfigProofs ---------------------------
(***************************************************************************)
(* Proofs about NsConfigRegister, for any namespaces, labels and requests: *)
(* what one administrative request may change.                             *)
(***************************************************************************)
EXTENDS NsConfigRegister, NsSelectorProofs

-----------------------------------------------------------------------------
(* What an edit does to the configuration, and to what is read from it.    *)

LEMMA RequestType ==
  ASSUME NEW r \in EditRequests
  PROVE  /\ r.kind \in EditKinds /\ r.ns \in Namespaces /\ r.type \in MatchTypes
         /\ r.key \in Keys /\ r.vals \in SUBSET Values /\ r.vals # {}
BY RegisterAssumption

LEMMA EditTypes ==
  ASSUME NEW base \in NsConfig \cup {BadJson}, NEW r \in EditRequests
  PROVE  /\ EditBase(base) \in NsConfig
         /\ RequestItem(base, r) \in NsConfigItem
         /\ RequestMap(base, r) \in LabelValues
         /\ EditedMap(base, r) \in LabelValues
         /\ EditedConfig(base, r) \in NsConfig
BY RequestType, EditIsTyped

LEMMA EditStores ==
  ASSUME TypeOK, NEW r \in EditRequests, Edit(r)
  PROVE  config' \in NsConfig /\ (config # BadJson => config \in NsConfig)
<1>1. config \in NsConfig \cup {BadJson}
  BY DEF TypeOK, CMData, Edit
<1>2. NsConfigOf(config, Listed) \in NsConfig \cup {BadJson}
  <2>1. CASE config \in NsConfig
    BY <2>1, ConfigOf
  <2>2. CASE config = BadJson
    BY <2>2 DEF NsConfigOf
  <2> QED
    BY <1>1, <2>1, <2>2
<1> QED
  BY <1>1, <1>2, EditTypes DEF Edit

\* The base of an edit holds what is read, for every namespace it holds.
LEMMA BaseReads ==
  ASSUME NEW stored \in NsConfig, NEW ns \in Namespaces
  PROVE  LET base == NsConfigOf(stored, Listed)
         IN  /\ base \in NsConfig /\ EditBase(base) = base
             /\ base[ns] # Absent => base[ns] = Read(stored, ns)
             /\ base[ns] = Absent => stored[ns] = Absent /\ ns \notin Listed
<1> DEFINE base == NsConfigOf(stored, Listed)
<1>1. base \in NsConfig /\ base[ns] = ItemOf(stored, ns, Listed)
  BY ConfigOf
<1>2. EditBase(base) = base
  BY <1>1, MarkerAssumption DEF EditBase
<1>3. stored[ns] # Absent => WithDefault(stored[ns]) # Absent
  <2>1. stored[ns] \in NsConfigItem \cup {Absent}
    BY DEF NsConfig
  <2> QED
    BY <2>1, DefaultType, MarkerAssumption
<1>4. WithDefault(EmptyItem) # Absent
  BY EmptyTypes, DefaultType, MarkerAssumption
<1> QED
  BY <1>1, <1>2, <1>3, <1>4 DEF ItemOf, Read

LEMMA OthersReadAlike ==
  ASSUME TypeOK, NEW r \in EditRequests, Edit(r), config # BadJson,
         NEW ns \in Namespaces \ {r.ns}
  PROVE  Read(config', ns) = Read(config, ns)
<1> DEFINE base == NsConfigOf(config, Listed)
<1>1. config \in NsConfig
  BY EditStores
<1>2. /\ base \in NsConfig /\ EditBase(base) = base
      /\ base[ns] # Absent => base[ns] = Read(config, ns)
      /\ base[ns] = Absent => config[ns] = Absent
  BY <1>1, BaseReads
<1>3. config'[ns] = base[ns]
  BY <1>2, RequestType DEF Edit, EditedConfig, NsConfig
<1>4. CASE base[ns] = Absent
  BY <1>2, <1>3, <1>4 DEF Read
<1>5. CASE base[ns] # Absent
  <2>1. Read(config', ns) = WithDefault(Read(config, ns))
    BY <1>2, <1>3, <1>5 DEF Read
  <2>2. (IF config[ns] = Absent THEN EmptyItem ELSE config[ns]) \in NsConfigItem
    BY <1>1, EmptyTypes DEF NsConfig
  <2>3. WithDefault(Read(config, ns)) = Read(config, ns)
    BY <2>2, DefaultType DEF Read
  <2> QED
    BY <2>1, <2>3
<1> QED
  BY <1>4, <1>5

\* An addition keeps every term of its namespace.
LEMMA AddKeepsTerms ==
  ASSUME TypeOK, NEW r \in EditRequests, Edit(r), config # BadJson,
         r.kind = "add", r.ns \in Listed
  PROVE  ItemTerms(Read(config, r.ns)) \subseteq ItemTerms(Read(config', r.ns))
<1> DEFINE base == NsConfigOf(config, Listed)
           old == Read(config, r.ns)
           new == [old EXCEPT ![r.type] = EditedMap(base, r)]
<1>1. config \in NsConfig
  BY EditStores
<1>2. base \in NsConfig /\ EditBase(base) = base /\ base[r.ns] = old /\ old # Absent
  BY <1>1, BaseReads, RequestType
<1>3. RequestItem(base, r) = old
  BY <1>2 DEF RequestItem
<1>4. old \in NsConfigItem /\ old["notmatch"] \in LabelValues
  <2>1. (IF config[r.ns] = Absent THEN EmptyItem ELSE config[r.ns]) \in NsConfigItem
    BY <1>1, EmptyTypes, RequestType DEF NsConfig
  <2> QED
    BY <2>1, DefaultType DEF Read
<1>5. /\ EditedMap(base, r) \in LabelValues
      /\ RequestMap(base, r) = MakeMap(old[r.type])
      /\ RequestMap(base, r) \in LabelValues
      /\ RequestMap(base, r)[r.key] = {}
      /\ EditedMap(base, r) = [RequestMap(base, r) EXCEPT ![r.key] = r.vals]
  BY <1>2, <1>3, EditTypes DEF RequestMap, EditedMap, Edit, EditAllowed
<1>6. config'[r.ns] = new
  BY <1>2, <1>3, RequestType DEF Edit, EditedConfig, NsConfig
<1>7. /\ new \in NsConfigItem /\ new["notmatch"] # NilMap
      /\ new[r.type] = EditedMap(base, r)
      /\ \A m \in MatchTypes \ {r.type} : new[m] = old[m]
  BY <1>4, <1>5, RequestType, MarkerAssumption DEF NsConfigItem, MatchTypes
<1> HIDE DEF base, old, new
<1>8. Read(config', r.ns) = new
  BY <1>6, <1>7, MarkerAssumption DEF Read, WithDefault
<1>9. ASSUME NEW m \in MatchTypes, NEW k \in Keys, HasTerm(old, m, k)
      PROVE  HasTerm(new, m, k) /\ TermOf(new, m, k) = TermOf(old, m, k)
  <2>1. CASE m # r.type
    BY <1>7, <1>9, <2>1 DEF HasTerm, TermOf
  <2>2. CASE m = r.type
    <3>1. k # r.key
      BY <1>5, <1>9, <2>2 DEF HasTerm
    <3>2. MakeMap(new[m]) = EditedMap(base, r)
      BY <1>5, <1>7, <2>2, MarkerAssumption DEF MakeMap
    <3>3. MakeMap(new[m])[k] = MakeMap(old[m])[k]
      BY <1>5, <2>2, <3>1, <3>2 DEF LabelValues
    <3> QED
      BY <1>9, <3>3 DEF HasTerm, TermOf
  <2> QED
    BY <2>1, <2>2
<1> SUFFICES ASSUME NEW t \in ItemTerms(old) PROVE t \in ItemTerms(new)
  BY <1>8 DEF old
<1>10. PICK m \in MatchTypes, k \in Keys : HasTerm(old, m, k) /\ t = TermOf(old, m, k)
  BY TermsAre
<1>11. HasTerm(new, m, k) /\ t = TermOf(new, m, k)
  BY <1>9, <1>10
<1> QED
  BY <1>11, TermsAre

-----------------------------------------------------------------------------
(* The configuration keeps its type through any sequence of requests: an   *)
(* edit never writes an item that json.Unmarshal would refuse.             *)
THEOREM TypeCorrect == Spec => []TypeOK
<1>1. Init => TypeOK
  BY RegisterAssumption DEF Init, TypeOK
<1>2. TypeOK /\ [Next]_config => TypeOK'
  <2> SUFFICES ASSUME TypeOK, [Next]_config PROVE TypeOK'
    OBVIOUS
  <2>1. CASE UNCHANGED config
    BY <2>1 DEF TypeOK
  <2>2. ASSUME NEW r \in EditRequests, Edit(r) PROVE TypeOK'
    BY <2>2, EditStores DEF TypeOK, CMData
  <2> QED
    BY <2>1, <2>2 DEF Next
<1> QED
  BY <1>1, <1>2, PTL DEF Spec

LEMMA OthersStep ==
  TypeOK => \A r \in EditRequests : Edit(r) /\ config # BadJson =>
              \A ns \in Namespaces \ {r.ns}, labels \in NodeLabels :
                Accepts(ns, labels)' = Accepts(ns, labels)
<1> SUFFICES ASSUME TypeOK, NEW r \in EditRequests, Edit(r), config # BadJson,
                    NEW ns \in Namespaces \ {r.ns}, NEW labels \in NodeLabels
             PROVE  Accepts(ns, labels)' = Accepts(ns, labels)
  OBVIOUS
<1>1. config \in NsConfig /\ config' \in NsConfig
  BY EditStores
<1>2. Read(config', ns) = Read(config, ns)
  BY OthersReadAlike
<1>3. NodeAccepted(NsConfigOf(config', {}), ns, labels) <=>
        NodeAccepted(NsConfigOf(config, {}), ns, labels)
  BY <1>1, <1>2, AcceptedRead
<1>4. NodeAccepted(NsConfigOf(config', {}), ns, labels) \in BOOLEAN
      /\ NodeAccepted(NsConfigOf(config, {}), ns, labels) \in BOOLEAN
  BY DEF NodeAccepted, ParseFails, SelectorMatches
<1> QED
  BY <1>3, <1>4 DEF Accepts

(* A request for one namespace leaves what is answered for every other     *)
(* namespace as it was, although the whole item map is written back.       *)
THEOREM OthersUnmovedAlways == Spec => OthersUnmoved
BY TypeCorrect, OthersStep, PTL DEF OthersUnmoved

LEMMA AddStep ==
  TypeOK => \A r \in EditRequests :
    r.kind = "add" /\ r.ns \in Listed /\ config # BadJson /\ Edit(r) =>
      \A ns \in Namespaces, labels \in NodeLabels :
        Accepts(ns, labels)' => Accepts(ns, labels)
<1> SUFFICES ASSUME TypeOK, NEW r \in EditRequests,
                    r.kind = "add", r.ns \in Listed, config # BadJson, Edit(r),
                    NEW ns \in Namespaces, NEW labels \in NodeLabels
             PROVE  Accepts(ns, labels)' => Accepts(ns, labels)
  OBVIOUS
<1>1. config \in NsConfig /\ config' \in NsConfig
  BY EditStores
<1>2. ItemTerms(Read(config, ns)) \subseteq ItemTerms(Read(config', ns))
  <2>1. CASE ns = r.ns
    BY <2>1, AddKeepsTerms
  <2>2. CASE ns # r.ns
    BY <2>2, OthersReadAlike
  <2> QED
    BY <2>1, <2>2
<1> QED
  BY <1>1, <1>2, AcceptedRead, MoreTermsNarrow DEF Accepts

(* An add never makes a node schedulable for a listed namespace that was   *)
(* not before: it keeps every term of the selector, the defaults with them.*)
THEOREM AddNarrowsAlways == Spec => AddNarrows
BY TypeCorrect, AddStep, PTL DEF AddNarrows
=============================================================================
