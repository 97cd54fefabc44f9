-------------------------- MODULE NsSelectorProofs --------------------------
(***************************************************************************)
(* What the functions of NsSelector return, for any namespaces, keys and   *)
(* values; NsConfigProofs and NsNodeSelectorProofs build on it.            *)
(***************************************************************************)
EXTENDS NsSelector, TLAPS

-----------------------------------------------------------------------------
(* Types of the helpers.                                                   *)

LEMMA EmptyTypes ==
  /\ EmptyMap \in LabelValues /\ SystemLabel \in LabelValues
  /\ EmptyItem \in NsConfigItem /\ EmptyConfig \in NsConfig
<1>1. EmptyMap \in LabelValues
  BY DEF EmptyMap, LabelValues
<1>2. SystemLabel \in LabelValues
  BY SelectorAssumption, <1>1 DEF SystemLabel, LabelValues
<1>3. EmptyItem \in NsConfigItem
  BY DEF EmptyItem, NsConfigItem
<1>4. EmptyConfig \in NsConfig
  BY DEF EmptyConfig, NsConfig
<1> QED
  BY <1>1, <1>2, <1>3, <1>4

LEMMA MapType ==
  ASSUME NEW lbvs \in LabelValues \cup {NilMap}
  PROVE  MakeMap(lbvs) \in LabelValues
BY EmptyTypes DEF MakeMap

\* An item with its defaults has a NotMatch map and is its own default.
LEMMA DefaultType ==
  ASSUME NEW item \in NsConfigItem
  PROVE  /\ WithDefault(item) \in NsConfigItem
         /\ WithDefault(item)["notmatch"] \in LabelValues
         /\ WithDefault(WithDefault(item)) = WithDefault(item)
<1>1. "notmatch" \in MatchTypes
  BY DEF MatchTypes
<1>2. WithDefault(item) \in NsConfigItem /\ WithDefault(item)["notmatch"] \in LabelValues
  BY <1>1, EmptyTypes DEF WithDefault, NsConfigItem
<1> QED
  BY <1>2, MarkerAssumption DEF WithDefault

\* What a namespace's item is read as.
ItemOf(stored, ns, listed) ==
  IF stored[ns] # Absent THEN WithDefault(stored[ns])
  ELSE IF ns \in listed THEN WithDefault(EmptyItem) ELSE Absent

LEMMA ConfigOf ==
  ASSUME NEW stored \in NsConfig, NEW listed
  PROVE  /\ NsConfigOf(stored, listed) \in NsConfig
         /\ \A ns \in Namespaces : NsConfigOf(stored, listed)[ns] = ItemOf(stored, ns, listed)
<1>1. stored # BadJson /\ stored # NilData
  BY MarkerAssumption
<1>2. NsConfigOf(stored, listed) =
        [ns \in Namespaces |-> ItemOf(stored, ns, listed)]
  <2>1. EmptyItem # Absent
    BY EmptyTypes, MarkerAssumption
  <2> QED
    BY <1>1, <2>1 DEF NsConfigOf, ItemOf
<1>3. \A ns \in Namespaces : ItemOf(stored, ns, listed) \in NsConfigItem \cup {Absent}
  <2> TAKE ns \in Namespaces
  <2>1. stored[ns] \in NsConfigItem \cup {Absent}
    BY DEF NsConfig
  <2> QED
    BY <2>1, DefaultType, EmptyTypes DEF ItemOf
<1> QED
  BY <1>2, <1>3 DEF NsConfig

-----------------------------------------------------------------------------
(* The selector of a namespace: always the terms of its item as read.      *)

Read(stored, ns) == WithDefault(IF stored[ns] = Absent THEN EmptyItem ELSE stored[ns])

\* The terms, one by one.
TermOf(item, m, k) == Term(k, m \in {"notmatch", "mustnotmatch"}, MakeMap(item[m])[k])
HasTerm(item, m, k) == k # EmptyKey /\ MakeMap(item[m])[k] # {}

LEMMA TermsAre ==
  ASSUME NEW item
  PROVE  \A t : t \in ItemTerms(item) <=>
           \E m \in MatchTypes, k \in Keys : HasTerm(item, m, k) /\ t = TermOf(item, m, k)
<1> DEFINE Entries == { f \in MatchTypes \X (Keys \ {EmptyKey}) : MakeMap(item[f[1]])[f[2]] # {} }
           TermAt(e) == Term(e[2], e[1] \in {"notmatch", "mustnotmatch"},
                             MakeMap(item[e[1]])[e[2]])
<1>1. ItemTerms(item) = { TermAt(e) : e \in Entries }
  BY DEF ItemTerms
<1>2. \A m \in MatchTypes, k \in Keys :
        /\ <<m, k>> \in Entries <=> HasTerm(item, m, k)
        /\ TermAt(<<m, k>>) = TermOf(item, m, k)
  BY DEF HasTerm, TermOf
<1>3. \A e \in Entries : \E m \in MatchTypes, k \in Keys : e = <<m, k>>
  <2> TAKE e \in Entries
  <2>1. e \in MatchTypes \X (Keys \ {EmptyKey})
    OBVIOUS
  <2>2. e = <<e[1], e[2]>> /\ e[1] \in MatchTypes /\ e[2] \in Keys
    BY <2>1
  <2> QED
    BY <2>2
<1> HIDE DEF Entries, TermAt
<1> TAKE t
<1>4. ASSUME t \in ItemTerms(item)
      PROVE  \E m \in MatchTypes, k \in Keys : HasTerm(item, m, k) /\ t = TermOf(item, m, k)
  <2>1. PICK e \in Entries : t = TermAt(e)
    BY <1>1, <1>4
  <2>2. PICK m \in MatchTypes, k \in Keys : e = <<m, k>>
    BY <1>3
  <2>3. HasTerm(item, m, k) /\ t = TermOf(item, m, k)
    BY <1>2, <2>1, <2>2
  <2> QED
    BY <2>3
<1>5. ASSUME NEW m \in MatchTypes, NEW k \in Keys, HasTerm(item, m, k), t = TermOf(item, m, k)
      PROVE  t \in ItemTerms(item)
  <2>1. <<m, k>> \in Entries /\ t = TermAt(<<m, k>>)
    BY <1>2, <1>5
  <2> QED
    BY <1>1, <2>1
<1> QED
  BY <1>4, <1>5

LEMMA DefaultTerms == ItemTerms(WithDefault(EmptyItem)) = DefaultSelector
<1> DEFINE item == WithDefault(EmptyItem)
<1>1. /\ item \in NsConfigItem /\ item["notmatch"] = SystemLabel
      /\ \A m \in MatchTypes \ {"notmatch"} : item[m] = NilMap
  <2>1. \A m \in MatchTypes : EmptyItem[m] = NilMap
    BY DEF EmptyItem
  <2>2. "notmatch" \in MatchTypes
    BY DEF MatchTypes
  <2>3. item = [EmptyItem EXCEPT !["notmatch"] = SystemLabel]
    BY <2>1, <2>2 DEF WithDefault
  <2> HIDE DEF item
  <2>4. item["notmatch"] = SystemLabel /\ \A m \in MatchTypes \ {"notmatch"} : item[m] = NilMap
    BY <2>1, <2>2, <2>3, EmptyTypes DEF NsConfigItem
  <2> QED
    BY <2>4, DefaultType, EmptyTypes DEF item
<1>2. SystemLabel # NilMap
  BY EmptyTypes, MarkerAssumption
<1>3. \A m \in MatchTypes, k \in Keys :
        MakeMap(item[m])[k] = IF m = "notmatch" /\ k = SysKey THEN {Wildcard} ELSE {}
  BY <1>1, <1>2, SelectorAssumption DEF MakeMap, SystemLabel, EmptyMap
<1> HIDE DEF item
<1>4. \A m \in MatchTypes, k \in Keys : HasTerm(item, m, k) <=> m = "notmatch" /\ k = SysKey
  BY <1>3, SelectorAssumption DEF HasTerm
<1>5. "notmatch" \in MatchTypes /\ TermOf(item, "notmatch", SysKey) = Term(SysKey, TRUE, {Wildcard})
  BY <1>3, SelectorAssumption DEF TermOf, MatchTypes
<1>6. \A t : t \in ItemTerms(item) <=> t = Term(SysKey, TRUE, {Wildcard})
  <2>1. \A t : t \in ItemTerms(item) <=>
          \E m \in MatchTypes, k \in Keys : HasTerm(item, m, k) /\ t = TermOf(item, m, k)
    BY TermsAre
  <2> TAKE t
  <2>2. ASSUME t \in ItemTerms(item) PROVE t = Term(SysKey, TRUE, {Wildcard})
    <3>1. PICK m \in MatchTypes, k \in Keys : HasTerm(item, m, k) /\ t = TermOf(item, m, k)
      BY <2>1, <2>2
    <3>2. m = "notmatch" /\ k = SysKey
      BY <1>4, <3>1
    <3> QED
      BY <1>5, <3>1, <3>2
  <2>3. ASSUME t = Term(SysKey, TRUE, {Wildcard}) PROVE t \in ItemTerms(item)
    <3>1. HasTerm(item, "notmatch", SysKey) /\ t = TermOf(item, "notmatch", SysKey)
      BY <1>4, <1>5, <2>3, SelectorAssumption
    <3> QED
      BY <1>5, <2>1, <3>1, SelectorAssumption
  <2> QED
    BY <2>2, <2>3
<1> QED
  BY <1>6 DEF DefaultSelector, item

LEMMA SelectorOf ==
  ASSUME NEW stored \in NsConfig, NEW ns \in Namespaces
  PROVE  LabelSelector(NsConfigOf(stored, {}), ns) = ItemTerms(Read(stored, ns))
<1>1. /\ NsConfigOf(stored, {}) \in NsConfig
      /\ NsConfigOf(stored, {})[ns] = ItemOf(stored, ns, {})
  BY ConfigOf
<1>2. NsConfigOf(stored, {}) # BadJson
  BY <1>1, MarkerAssumption
<1>3. CASE stored[ns] = Absent
  BY <1>1, <1>2, <1>3, DefaultTerms DEF LabelSelector, ItemOf, Read
<1>4. CASE stored[ns] # Absent
  <2>1. WithDefault(stored[ns]) # Absent
    <3>1. stored[ns] \in NsConfigItem
      BY <1>4 DEF NsConfig
    <3> QED
      BY <3>1, DefaultType, MarkerAssumption
  <2> QED
    BY <1>1, <1>2, <1>4, <2>1 DEF LabelSelector, ItemOf, Read
<1> QED
  BY <1>3, <1>4

-----------------------------------------------------------------------------
(* The edit of a request is a configuration.                              *)

LEMMA EditIsTyped ==
  ASSUME NEW base \in NsConfig \cup {BadJson}, NEW r,
         r.ns \in Namespaces, r.type \in MatchTypes, r.key \in Keys, r.vals \in SUBSET Values
  PROVE  /\ EditBase(base) \in NsConfig
         /\ RequestItem(base, r) \in NsConfigItem
         /\ RequestMap(base, r) \in LabelValues
         /\ EditedMap(base, r) \in LabelValues
         /\ EditedConfig(base, r) \in NsConfig
<1>1. EditBase(base) \in NsConfig
  BY EmptyTypes DEF EditBase
<1>2. RequestItem(base, r) \in NsConfigItem
  <2>1. EditBase(base)[r.ns] \in NsConfigItem \cup {Absent}
    BY <1>1 DEF NsConfig
  <2> QED
    BY <2>1, EmptyTypes DEF RequestItem
<1>3. RequestMap(base, r) \in LabelValues
  <2>1. RequestItem(base, r)[r.type] \in LabelValues \cup {NilMap}
    BY <1>2 DEF NsConfigItem
  <2> QED
    BY <2>1, MapType DEF RequestMap
<1>4. EditedMap(base, r) \in LabelValues
  BY <1>3 DEF EditedMap, LabelValues
<1>5. [RequestItem(base, r) EXCEPT ![r.type] = EditedMap(base, r)] \in NsConfigItem
  BY <1>2, <1>4 DEF NsConfigItem
<1>6. EditedConfig(base, r) \in NsConfig
  BY <1>1, <1>5 DEF EditedConfig, NsConfig
<1> QED
  BY <1>1, <1>2, <1>3, <1>4, <1>6

-----------------------------------------------------------------------------
(* What is accepted depends on the stored configuration only through what  *)
(* is read from it.                                                        *)

LEMMA AcceptedRead ==
  ASSUME NEW stored \in NsConfig, NEW ns \in Namespaces, NEW labels
  PROVE  NodeAccepted(NsConfigOf(stored, {}), ns, labels) <=>
           LET selector == ItemTerms(Read(stored, ns))
           IN  ~ParseFails(selector) /\ SelectorMatches(selector, labels)
BY SelectorOf DEF NodeAccepted

LEMMA MoreTermsNarrow ==
  ASSUME NEW few, NEW many, few \subseteq many, NEW labels,
         ~ParseFails(many), SelectorMatches(many, labels)
  PROVE  ~ParseFails(few) /\ SelectorMatches(few, labels)
BY DEF ParseFails, SelectorMatches
=============================================================================
