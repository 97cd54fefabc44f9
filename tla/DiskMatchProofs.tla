-------------------------- MODULE DiskMatchProofs --------------------------
(***************************************************************************)
(* Proofs about DiskMatch, for all lists of volumes and disks: the types,  *)
(* what a refusal means, that one or two volumes are answered exactly,     *)
(* that a match is a placement which overfills no disk, and that the loop  *)
(* answers as the fold of DiskWalk does.                                   *)
(***************************************************************************)
EXTENDS DiskMatch, DiskWalkProofs

-----------------------------------------------------------------------------
(* The inductive invariant, in parts.                                      *)

\* Where the loop stands when it returns.
AtEnd ==
  /\ result = "match" => ir = Len(request) + 1
  /\ result = "nomatch" => ir <= Len(request) /\ ih = Len(free) + 1

\* A disk that was passed is too small for every volume still to place.
Passed ==
  \A d \in 1..(ih - 1), i \in ir..Len(request) : haveNow[d] < request[i]

\* Up to the first placement nothing is taken; it finds a disk with the room.
First ==
  /\ ir = 1 => haveNow = free
  /\ ir > 1 => \E d \in DOMAIN free : request[1] <= free[d]

\* After the first placement: only that disk has less than it had, and the
\* disks before it were too small.
Second ==
  ir = 2 =>
    /\ disk[1] \in 1..ih /\ disk[1] \in DOMAIN free
    /\ request[1] <= free[disk[1]]
    /\ \A d \in 1..(disk[1] - 1) : free[d] < request[1]
    /\ haveNow = [free EXCEPT ![disk[1]] = @ - request[1]]

\* After the second: the two volumes fit together.
Third == ir > 2 => PairFits

Sorted == Ascending(request) /\ Ascending(free)

IInv == TypeOK /\ Sorted /\ AtEnd /\ Passed /\ First /\ Second /\ Third

-----------------------------------------------------------------------------
(* The lists as functions on their indices.                                *)
LEMMA Shape ==
  ASSUME TypeOK
  PROVE  /\ Len(request) \in Nat /\ Len(free) \in Nat /\ Len(haveNow) = Len(free)
         /\ DOMAIN request = 1..Len(request) /\ DOMAIN free = 1..Len(free)
         /\ DOMAIN haveNow = 1..Len(free)
         /\ \A i \in 1..Len(request) : request[i] \in Nat
         /\ \A d \in 1..Len(free) : free[d] \in Nat /\ haveNow[d] \in Nat
         /\ ir \in Nat /\ ih \in Nat
BY LenProperties, ElementOfSeq DEF TypeOK

LEMMA InitIInv == Init => IInv
<1> SUFFICES ASSUME Init PROVE IInv
  OBVIOUS
<1> USE DiskMatchAssumption DEF Init
<1>1. request \in Seq(Nat) /\ free \in Seq(Nat) /\ Sorted
  BY DEF Sorted
<1>2. TypeOK
  BY <1>1 DEF TypeOK
<1>3. AtEnd /\ Passed /\ First /\ Second /\ Third
  BY <1>1 DEF AtEnd, Passed, First, Second, Third
<1> QED
  BY <1>1, <1>2, <1>3 DEF IInv

LEMMA PutOnDiskIInv == ASSUME IInv, PutOnDisk PROVE IInv'
<1> USE DEF PutOnDisk, Looping
<1>0. TypeOK /\ Sorted /\ AtEnd /\ Passed /\ First /\ Second /\ Third
  BY DEF IInv
<1>1. /\ Len(request) \in Nat /\ Len(free) \in Nat /\ Len(haveNow) = Len(free)
      /\ DOMAIN request = 1..Len(request) /\ DOMAIN free = 1..Len(free)
      /\ \A i \in 1..Len(request) : request[i] \in Nat
      /\ \A d \in 1..Len(free) : free[d] \in Nat /\ haveNow[d] \in Nat
  BY <1>0, Shape
<1>2. ir \in 1..Len(request) /\ ih \in 1..Len(free)
  BY <1>0, <1>1 DEF TypeOK
<1>3. request[ir] \in Nat /\ haveNow[ih] \in Nat /\ haveNow[ih] - request[ir] \in Nat
  BY <1>1, <1>2
<1>4. /\ haveNow' \in Seq(Nat) /\ Len(haveNow') = Len(free)
      /\ \A d \in 1..Len(free) : haveNow'[d] = IF d = ih THEN haveNow[ih] - request[ir] ELSE haveNow[d]
  <2>1. haveNow \in Seq(Nat) /\ ih \in 1..Len(haveNow)
    BY <1>0, <1>1, <1>2 DEF TypeOK
  <2> QED
    BY <1>1, <1>3, <2>1, ExceptSeq
<1>5. TypeOK'
  <2>1. disk' \in [DOMAIN request -> 0..Len(free)]
    BY <1>0, <1>1, <1>2 DEF TypeOK
  <2> QED
    BY <1>0, <1>1, <1>2, <1>4, <2>1 DEF TypeOK
<1>6. Sorted' /\ AtEnd'
  BY <1>0 DEF Sorted, Ascending, AtEnd
<1>7. Passed'
  <2> SUFFICES ASSUME NEW d \in 1..(ih - 1), NEW i \in (ir + 1)..Len(request)
               PROVE haveNow'[d] < request[i]
    BY DEF Passed
  <2>1. d \in 1..Len(free) /\ d # ih /\ i \in ir..Len(request)
    BY <1>1, <1>2
  <2> QED
    BY <1>0, <1>4, <2>1 DEF Passed
<1>8. First'
  <2>1. CASE ir = 1
    BY <1>0, <1>1, <1>2, <2>1 DEF First
  <2>2. CASE ir > 1
    BY <1>0, <1>1, <1>2, <2>2 DEF First
  <2> QED
    BY <1>2, <2>1, <2>2
<1>9. Second'
  <2>1. CASE ir = 1
    <3>1. haveNow = free
      BY <1>0, <2>1 DEF First
    <3>2. disk'[1] = ih
      BY <1>0, <1>1, <1>2, <2>1 DEF TypeOK
    <3>3. \A d \in 1..(ih - 1) : free[d] < request[1]
      BY <1>0, <1>2, <2>1, <3>1 DEF Passed
    <3>4. request[1] <= free[ih]
      BY <2>1, <3>1
    <3>5. haveNow' = [free EXCEPT ![ih] = @ - request[1]]
      BY <2>1, <3>1
    <3>6. disk'[1] \in 1..ih' /\ disk'[1] \in DOMAIN free'
      BY <1>1, <1>2, <3>2
    <3> QED
      BY <3>2, <3>3, <3>4, <3>5, <3>6 DEF Second
  <2>2. CASE ir > 1
    BY <1>2, <2>2 DEF Second
  <2> QED
    BY <1>2, <2>1, <2>2
<1>10. Third'
  <2>1. CASE ir = 2
    <3>1. /\ disk[1] \in 1..Len(free) /\ request[1] <= free[disk[1]]
          /\ request[1] \in Nat /\ free[disk[1]] \in Nat
          /\ haveNow = [free EXCEPT ![disk[1]] = @ - request[1]]
      BY <1>0, <1>1, <1>2, <2>1 DEF Second
    <3>2. CASE ih = disk[1]
      <4>1. request[2] <= free[ih] - request[1]
        BY <1>1, <1>2, <2>1, <3>1, <3>2
      <4>2. request[1] + request[2] <= free[ih]
        BY <1>1, <1>2, <1>3, <2>1, <3>1, <3>2, <4>1
      <4> QED
        BY <1>1, <1>2, <4>2 DEF Third, PairFits
    <3>3. CASE ih # disk[1]
      <4>1. request[2] <= free[ih]
        BY <1>1, <1>2, <2>1, <3>1, <3>3
      <4> QED
        BY <1>1, <1>2, <3>1, <3>3, <4>1 DEF Third, PairFits
    <3> QED
      BY <3>2, <3>3
  <2>2. CASE ir # 2
    BY <1>0, <1>2, <2>2 DEF Third, PairFits
  <2> QED
    BY <2>1, <2>2
<1> QED
  BY <1>5, <1>6, <1>7, <1>8, <1>9, <1>10 DEF IInv

LEMMA NextDiskIInv == ASSUME IInv, NextDisk PROVE IInv'
<1> USE DEF NextDisk, Looping
<1>0. TypeOK /\ Sorted /\ AtEnd /\ Passed /\ First /\ Second /\ Third
  BY DEF IInv
<1>1. /\ Len(request) \in Nat /\ Len(free) \in Nat /\ Len(haveNow) = Len(free)
      /\ DOMAIN request = 1..Len(request)
      /\ \A i \in 1..Len(request) : request[i] \in Nat
      /\ \A d \in 1..Len(free) : haveNow[d] \in Nat
  BY <1>0, Shape
<1>2. ir \in 1..Len(request) /\ ih \in 1..Len(free)
  BY <1>0, <1>1 DEF TypeOK
<1>3. TypeOK'
  BY <1>0, <1>1, <1>2 DEF TypeOK
<1>4. Sorted' /\ AtEnd' /\ First'
  BY <1>0 DEF Sorted, Ascending, AtEnd, First
<1>5. Second' /\ Third'
  BY <1>0, <1>1, <1>2 DEF Second, Third, PairFits
<1>6. Passed'
  <2> SUFFICES ASSUME NEW d \in 1..((ih + 1) - 1), NEW i \in ir..Len(request)
               PROVE haveNow[d] < request[i]
    BY DEF Passed
  <2>1. CASE d = ih
    <3>0. ir \in DOMAIN request /\ i \in DOMAIN request /\ ir <= i
      BY <1>1, <1>2
    <3>1. request[ir] <= request[i]
      BY <1>0, <3>0 DEF Sorted, Ascending
    <3>2. request[i] \in Nat /\ request[ir] \in Nat /\ haveNow[ih] \in Nat
      BY <1>1, <1>2
    <3> QED
      BY <2>1, <3>1, <3>2
  <2>2. CASE d # ih
    BY <1>0, <1>2, <2>2 DEF Passed
  <2> QED
    BY <2>1, <2>2
<1> QED
  BY <1>3, <1>4, <1>5, <1>6 DEF IInv

LEMMA ReturnIInv == ASSUME IInv, Return PROVE IInv'
<1> USE DEF Return, Looping
<1>0. TypeOK /\ Sorted /\ AtEnd /\ Passed /\ First /\ Second /\ Third
  BY DEF IInv
<1>1. TypeOK' /\ Sorted' /\ Passed' /\ First' /\ Second' /\ Third'
  BY <1>0 DEF TypeOK, Sorted, Ascending, Passed, First, Second, Third, PairFits
<1>2. AtEnd'
  <2>1. /\ Len(request) \in Nat /\ Len(free) \in Nat /\ Len(haveNow) = Len(free)
        /\ ir \in 1..(Len(request) + 1) /\ ih \in 1..(Len(free) + 1)
    BY <1>0, Shape DEF TypeOK
  <2> QED
    BY <2>1 DEF AtEnd
<1> QED
  BY <1>1, <1>2 DEF IInv

LEMMA StutterIInv == ASSUME IInv, UNCHANGED vars PROVE IInv'
BY DEF IInv, vars, TypeOK, Sorted, Ascending, AtEnd, Passed, First, Second, Third, PairFits

(* The invariant holds of every run of canRequestMatch.                    *)
THEOREM Invariance == Spec => []IInv
<1>1. IInv /\ [Next]_vars => IInv'
  BY PutOnDiskIInv, NextDiskIInv, ReturnIInv, StutterIInv DEF Next
<1> QED
  BY InitIInv, <1>1, PTL DEF Spec

(* The indices stay within the lists and no disk goes below zero.          *)
THEOREM TypeCorrect == Spec => []TypeOK
<1>1. IInv => TypeOK
  BY DEF IInv
<1> QED
  BY Invariance, <1>1, PTL

(* When canRequestMatch refuses, the volume it is at fits on no disk.      *)
THEOREM RefusalJustified == Spec => []RefusedFitsNowhere
<1>1. IInv => RefusedFitsNowhere
  <2> SUFFICES ASSUME IInv, result = "nomatch", NEW d \in DOMAIN free
               PROVE ir <= Len(request) /\ haveNow[d] < request[ir]
    BY DEF RefusedFitsNowhere, IInv, AtEnd
  <2>1. ir <= Len(request) /\ d \in 1..(ih - 1)
    BY Shape DEF IInv, AtEnd
  <2> QED
    BY <2>1, Shape DEF IInv, Passed
<1> QED
  BY Invariance, <1>1, PTL

(* One volume: a match exactly when some disk has the room.                *)
THEOREM OneVolume == Spec => []OneVolumeExact
<1>1. IInv => OneVolumeExact
  <2> SUFFICES ASSUME IInv, Len(request) = 1, result # "running"
               PROVE result = "match" <=> \E d \in DOMAIN free : request[1] <= free[d]
    BY DEF OneVolumeExact
  <2>1. CASE result = "match"
    BY <2>1 DEF IInv, AtEnd, First
  <2>2. CASE result = "nomatch"
    <3>1. ir = 1 /\ ih = Len(free) + 1
      BY <2>2 DEF IInv, AtEnd, TypeOK
    <3>2. haveNow = free
      BY <3>1 DEF IInv, First
    <3>3. /\ \A d \in DOMAIN free : free[d] < request[1] /\ free[d] \in Nat
          /\ request[1] \in Nat
      BY <3>1, <3>2, Shape DEF IInv, Passed
    <3> QED
      BY <2>2, <3>3
  <2> QED
    BY <2>1, <2>2 DEF IInv, TypeOK
<1> QED
  BY Invariance, <1>1, PTL

(* Two volumes: a match exactly when they fit, on one disk or on two.      *)
THEOREM TwoVolumes == Spec => []TwoVolumesExact
<1>1. IInv => TwoVolumesExact
  <2> SUFFICES ASSUME IInv, Len(request) = 2, result # "running"
               PROVE result = "match" <=> PairFits
    BY DEF TwoVolumesExact
  <2>0. TypeOK /\ Sorted /\ AtEnd /\ Passed /\ First /\ Second /\ Third
    BY DEF IInv
  <2>1. /\ request[1] \in Nat /\ request[2] \in Nat
        /\ DOMAIN request = 1..2 /\ DOMAIN free = 1..Len(free) /\ Len(free) \in Nat
        /\ \A d \in DOMAIN free : free[d] \in Nat /\ haveNow[d] \in Nat
    BY <2>0, Shape
  <2>2. /\ request[1] <= request[2]
        /\ \A d, e \in DOMAIN free : d <= e => free[d] <= free[e]
    BY <2>0, <2>1 DEF Sorted, Ascending
  <2>3. CASE result = "match"
    BY <2>0, <2>3 DEF AtEnd, Third
  <2>4. CASE result = "nomatch" /\ ir = 1
    <3>1. haveNow = free /\ ih = Len(free) + 1
      BY <2>0, <2>4 DEF AtEnd, First
    <3>2. \A d \in DOMAIN free : free[d] < request[1]
      BY <2>0, <2>1, <2>4, <3>1 DEF Passed
    <3> QED
      BY <2>1, <2>4, <3>2 DEF PairFits
  <2>5. CASE result = "nomatch" /\ ir = 2
    <3> DEFINE f == disk[1]
    <3>1. f \in DOMAIN free /\ request[1] <= free[f]
            /\ haveNow = [free EXCEPT ![f] = @ - request[1]]
      BY <2>0, <2>5 DEF Second
    <3>2. \A d \in DOMAIN free : haveNow[d] < request[2]
      BY <2>0, <2>1, <2>5 DEF AtEnd, Passed
    <3>3. haveNow[f] = free[f] - request[1]
      BY <2>1, <3>1
    <3>4. free[f] < request[1] + request[2]
      BY <2>1, <3>1, <3>2, <3>3
    <3>5. \A d \in DOMAIN free : d # f => free[d] < request[2]
      BY <2>1, <3>1, <3>2
    <3>6. ASSUME NEW d \in DOMAIN free, d # f, request[2] <= free[f] PROVE free[d] < request[1]
      <4>1. free[d] < free[f]
        BY <2>1, <3>1, <3>5, <3>6
      <4>2. d < f
        BY <2>1, <2>2, <3>1, <4>1
      <4> QED
        BY <2>0, <2>1, <2>5, <3>1, <4>2 DEF Second
    <3>7. \A d \in DOMAIN free : free[d] < request[1] + request[2]
      <4> TAKE d \in DOMAIN free
      <4>1. CASE d = f
        BY <3>4, <4>1
      <4>2. CASE d # f
        BY <2>1, <3>5, <4>2
      <4> QED
        BY <4>1, <4>2
    <3>8. ASSUME NEW d \in DOMAIN free, NEW e \in DOMAIN free, d # e,
                 request[1] <= free[d], request[2] <= free[e]
          PROVE  FALSE
      <4>1. e = f
        BY <2>1, <3>5, <3>8
      <4>2. d # f /\ request[2] <= free[f]
        BY <3>8, <4>1
      <4> QED
        BY <2>1, <3>6, <3>8, <4>2
    <3>9. ~PairFits
      BY <2>1, <3>7, <3>8 DEF PairFits
    <3> QED
      BY <2>5, <3>9
  <2> QED
    BY <2>0, <2>3, <2>4, <2>5 DEF AtEnd, TypeOK
<1> QED
  BY Invariance, <1>1, PTL

-----------------------------------------------------------------------------
(* A match is a placement: the volumes put on a disk take, together, what  *)
(* the disk has lost.                                                      *)
On(d) == { i \in 1..Len(request) : disk[i] = d }

Placed ==
  /\ \A i \in 1..(ir - 1) : disk[i] \in 1..Len(free)
  /\ \A i \in ir..Len(request) : disk[i] = 0

Balanced == \A d \in 1..Len(free) : SumOf(request, On(d)) + haveNow[d] = free[d]

PInv == IInv /\ Placed /\ Balanced

\* The library's sum is the one the lemmas are about.
LEMMA SizeIsSum == ASSUME NEW S PROVE SizeOf(S) = SumOf(request, S)
BY DEF SizeOf, MapThenSumSet, MapThenFoldSet, SumOf, Sums, Chosen

LEMMA OnFinite ==
  ASSUME TypeOK, NEW d
  PROVE  IsFiniteSet(On(d)) /\ \A i \in On(d) : i \in 1..Len(request) /\ request[i] \in Nat
<1>1. Len(request) \in Nat /\ \A i \in 1..Len(request) : request[i] \in Nat
  BY Shape
<1>2. IsFiniteSet(1..Len(request))
  BY <1>1, FS_Interval
<1>3. On(d) \subseteq 1..Len(request)
  BY DEF On
<1> QED
  BY <1>1, <1>2, <1>3, FS_Subset

LEMMA InitPInv == Init => PInv
<1> SUFFICES ASSUME Init PROVE PInv
  OBVIOUS
<1>1. IInv /\ TypeOK
  BY InitIInv DEF IInv
<1>2. /\ Len(request) \in Nat /\ DOMAIN request = 1..Len(request)
      /\ \A d \in 1..Len(free) : free[d] \in Nat
  BY <1>1, Shape
<1>3. Placed
  BY <1>2 DEF Init, Placed
<1>4. Balanced
  <2> SUFFICES ASSUME NEW d \in 1..Len(free) PROVE SumOf(request, On(d)) + haveNow[d] = free[d]
    BY DEF Balanced
  <2>1. d # 0
    BY <1>1, Shape
  <2>2. On(d) = {}
    BY <1>2, <2>1 DEF Init, On
  <2>3. SumOf(request, {}) = 0
    BY SumStep, FS_EmptySet
  <2> QED
    BY <1>2, <2>2, <2>3 DEF Init
<1> QED
  BY <1>1, <1>3, <1>4 DEF PInv

LEMMA PutOnDiskPInv == ASSUME PInv, PutOnDisk PROVE PInv'
<1> USE DEF PutOnDisk, Looping
<1>0. IInv /\ TypeOK /\ Placed /\ Balanced
  BY DEF PInv, IInv
<1>1. /\ Len(request) \in Nat /\ Len(free) \in Nat /\ Len(haveNow) = Len(free)
      /\ DOMAIN request = 1..Len(request) /\ DOMAIN haveNow = 1..Len(free)
      /\ \A i \in 1..Len(request) : request[i] \in Nat
      /\ \A d \in 1..Len(free) : free[d] \in Nat /\ haveNow[d] \in Nat
  BY <1>0, Shape
<1>2. ir \in 1..Len(request) /\ ih \in 1..Len(free)
  BY <1>0, <1>1 DEF TypeOK
<1>3. \A i \in 1..Len(request) : disk'[i] = IF i = ir THEN ih ELSE disk[i]
  BY <1>0, <1>1, <1>2 DEF TypeOK
<1>4. \A d \in 1..Len(free) : haveNow'[d] = IF d = ih THEN haveNow[d] - request[ir] ELSE haveNow[d]
  BY <1>1, <1>2
<1>5. disk[ir] = 0
  BY <1>0, <1>1, <1>2 DEF Placed
<1>6. Placed'
  <2>1. \A i \in 1..((ir + 1) - 1) : disk'[i] \in 1..Len(free)
    BY <1>0, <1>1, <1>2, <1>3 DEF Placed
  <2>2. \A i \in (ir + 1)..Len(request) : disk'[i] = 0
    BY <1>0, <1>1, <1>2, <1>3 DEF Placed
  <2> QED
    BY <2>1, <2>2 DEF Placed
<1>7. Balanced'
  <2> SUFFICES ASSUME NEW d \in 1..Len(free)
               PROVE  SumOf(request, On(d)') + haveNow'[d] = free[d]
    BY DEF Balanced
  <2>1. SumOf(request, On(d)) + haveNow[d] = free[d]
    BY <1>0 DEF Balanced
  <2>2. CASE d = ih
    <3>1. On(d)' = On(d) \cup {ir} /\ ir \notin On(d)
      BY <1>1, <1>2, <1>3, <1>5, <2>2 DEF On
    <3>2. IsFiniteSet(On(d) \cup {ir}) /\ \A i \in On(d) \cup {ir} : request[i] \in Nat
      BY <1>0, <1>1, <1>2, OnFinite, FS_AddElement
    <3>3. SumOf(request, On(d) \cup {ir})
            = request[ir] + SumOf(request, (On(d) \cup {ir}) \ {ir})
      BY <3>2, SumRemove
    <3>4. (On(d) \cup {ir}) \ {ir} = On(d)
      BY <3>1
    <3>5. SumOf(request, On(d)) \in Nat
      BY <1>0, OnFinite, SumNat
    <3>6. request[ir] \in Nat /\ haveNow[d] \in Nat /\ free[d] \in Nat
      BY <1>1, <1>2
    <3>7. SumOf(request, On(d)') = request[ir] + SumOf(request, On(d))
      BY <3>1, <3>3, <3>4
    <3>8. haveNow'[d] = haveNow[d] - request[ir]
      BY <1>4, <2>2
    <3> HIDE DEF PutOnDisk, Looping
    <3> QED
      BY <2>1, <3>5, <3>6, <3>7, <3>8
  <2>3. CASE d # ih
    <3>1. On(d)' = On(d)
      <4>1. d # 0
        BY <1>1
      <4> QED
        BY <1>1, <1>2, <1>3, <1>5, <2>3, <4>1 DEF On
    <3> QED
      BY <1>4, <2>1, <2>3, <3>1
  <2> QED
    BY <2>2, <2>3
<1>8. IInv'
  BY <1>0, PutOnDiskIInv
<1> QED
  BY <1>6, <1>7, <1>8 DEF PInv

(* Every volume is on a disk and no disk holds more than it has room for,  *)
(* whatever the lists, when canRequestMatch answers that they match.       *)
THEOREM MatchIsPlacement == Spec => []MatchFits
<1>1. ASSUME PInv, [Next]_vars PROVE PInv'
  <2>0. IInv
    BY <1>1 DEF PInv
  <2>1. CASE PutOnDisk
    BY <1>1, <2>1, PutOnDiskPInv
  <2>2. CASE NextDisk
    <3>1. IInv'
      BY <2>0, <2>2, NextDiskIInv
    <3>2. Placed' /\ Balanced'
      BY <1>1, <2>2 DEF PInv, Placed, Balanced, On, NextDisk
    <3> QED
      BY <3>1, <3>2 DEF PInv
  <2>3. CASE Return
    <3>1. IInv'
      BY <2>0, <2>3, ReturnIInv
    <3>2. Placed' /\ Balanced'
      BY <1>1, <2>3 DEF PInv, Placed, Balanced, On, Return
    <3> QED
      BY <3>1, <3>2 DEF PInv
  <2>4. CASE UNCHANGED vars
    <3>1. IInv'
      BY <2>0, <2>4, StutterIInv
    <3>2. Placed' /\ Balanced'
      BY <1>1, <2>4 DEF PInv, Placed, Balanced, On, vars
    <3> QED
      BY <3>1, <3>2 DEF PInv
  <2> QED
    BY <1>1, <2>1, <2>2, <2>3, <2>4 DEF Next
<1>2. PInv => MatchFits
  <2> SUFFICES ASSUME PInv, result = "match" PROVE MatchFits
    BY DEF MatchFits
  <2>0. IInv /\ TypeOK /\ Placed /\ Balanced
    BY DEF PInv, IInv
  <2>1. /\ Len(request) \in Nat /\ DOMAIN request = 1..Len(request)
        /\ Len(free) \in Nat /\ DOMAIN free = 1..Len(free)
        /\ \A d \in 1..Len(free) : free[d] \in Nat /\ haveNow[d] \in Nat
    BY <2>0, Shape
  <2>2. ir = Len(request) + 1
    BY <2>0 DEF IInv, AtEnd
  <2>3. \A i \in DOMAIN request : disk[i] # 0
    BY <2>0, <2>1, <2>2 DEF Placed
  <2>4. ASSUME NEW d \in DOMAIN free PROVE Load(d) <= free[d]
    <3>1. Load(d) = SumOf(request, On(d))
      BY <2>1, SizeIsSum DEF Load, On
    <3>2. SumOf(request, On(d)) \in Nat
      BY <2>0, OnFinite, SumNat
    <3>3. SumOf(request, On(d)) + haveNow[d] = free[d]
      BY <2>0, <2>1, <2>4 DEF Balanced
    <3> QED
      BY <2>1, <2>4, <3>1, <3>2, <3>3
  <2> QED
    BY <2>3, <2>4 DEF MatchFits
<1> QED
  BY InitPInv, <1>1, <1>2, PTL DEF Spec

-----------------------------------------------------------------------------
(* The loop and the walk of DiskWalk.  The walk puts one volume where the  *)
(* loop needs an iteration for every disk it passes.                       *)
Follows(walk) ==
  /\ walk \in [0..Len(request) -> Walk]
  /\ walk[0] = Start(free)
  /\ \A i \in 1..Len(request) : walk[i] = PutNext(walk[i - 1], request[i])
  /\ CanRequestMatch(request, free) = walk[Len(request)].fits

\* Before volume ir the walk has left the same room and is no further on.
InStep ==
  \A walk : Follows(walk) =>
    /\ walk[ir - 1].free = haveNow /\ walk[ir - 1].fits
    /\ walk[ir - 1].at <= ih

WInv == IInv /\ InStep

\* What a step of the walk does with a volume.
LEMMA StepOfWalk ==
  ASSUME TypeOK, NEW walk, Follows(walk), NEW i \in 1..Len(request)
  PROVE  /\ walk[i - 1] \in Walk /\ walk[i] = PutNext(walk[i - 1], request[i])
         /\ request[i] \in Int /\ i - 1 \in 0..Len(request)
<1>1. /\ Len(request) \in Nat /\ \A k \in 1..Len(request) : request[k] \in Nat
  BY Shape
<1>2. i - 1 \in 0..Len(request)
  BY <1>1
<1> QED
  BY <1>1, <1>2 DEF Follows

\* A volume that found no disk is not made good by a later one.
LEMMA LostIsLost ==
  ASSUME TypeOK, NEW walk, Follows(walk), NEW m \in 0..Len(request), ~walk[m].fits
  PROVE  ~walk[Len(request)].fits
<1> SUFFICES ASSUME walk[Len(request)].fits PROVE FALSE
  OBVIOUS
<1> DEFINE Lost == {i \in 0..Len(request) : ~walk[i].fits}
           last == Max(Lost)
<1>1. Len(request) \in Nat
  BY Shape
<1>2. last \in Lost /\ \A i \in Lost : i <= last
  <2>1. Lost \subseteq 0..Len(request) /\ IsFiniteSet(0..Len(request)) /\ m \in Lost
    BY <1>1, FS_Interval
  <2>2. IsFiniteSet(Lost) /\ Lost \in SUBSET Int
    BY <2>1, FS_Subset
  <2> HIDE DEF Lost
  <2> QED BY <2>1, <2>2, FiniteMax
<1> HIDE DEF last
<1>3. last + 1 \in 1..Len(request) /\ last + 1 \notin Lost
  <2>1. last # Len(request)
    BY <1>2
  <2> QED BY <1>1, <1>2, <2>1
<1>4. walk[last] \in Walk /\ walk[last + 1] = PutNext(walk[last], request[last + 1])
      /\ request[last + 1] \in Int
  <2>1. (last + 1) - 1 = last
    BY <1>2
  <2> QED BY <1>3, <2>1, StepOfWalk
<1>5. ~walk[last + 1].fits
  <2>1. ~walk[last].fits
    BY <1>2
  <2> QED BY <1>4, <2>1, PutNextFits
<1>6. last + 1 \in 0..Len(request)
  BY <1>1, <1>3
<1> QED BY <1>3, <1>5, <1>6

LEMMA PutOnDiskInStep == ASSUME WInv, PutOnDisk PROVE InStep'
<1>0. IInv /\ TypeOK /\ InStep /\ Passed
  BY DEF WInv, IInv
<1>1. /\ request' = request /\ free' = free /\ ir' = ir + 1 /\ ih' = ih
      /\ haveNow' = [haveNow EXCEPT ![ih] = @ - request[ir]]
      /\ ir <= Len(request) /\ ih <= Len(haveNow) /\ request[ir] <= haveNow[ih]
  BY DEF PutOnDisk, Looping
<1> SUFFICES ASSUME NEW walk, Follows(walk)
             PROVE  /\ walk[ir].free = haveNow' /\ walk[ir].fits
                    /\ walk[ir].at <= ih
  <2>1. ir \in Nat
    BY <1>0, Shape
  <2>2. ir' - 1 = ir /\ \A walk : Follows(walk)' <=> Follows(walk)
    BY <1>1, <2>1 DEF Follows
  <2> QED BY <1>1, <2>2 DEF InStep
<1>2. /\ Len(free) \in Nat /\ Len(haveNow) = Len(free) /\ Len(request) \in Nat
      /\ \A i \in 1..Len(request) : request[i] \in Nat
      /\ \A d \in 1..Len(free) : haveNow[d] \in Nat
      /\ ir \in Nat /\ ih \in Nat
  BY <1>0, Shape
<1>3. ir \in 1..Len(request) /\ ih \in 1..Len(free)
  BY <1>0, <1>1, <1>2 DEF TypeOK
<1> DEFINE w == walk[ir - 1]
<1>4. w \in Walk /\ walk[ir] = PutNext(w, request[ir]) /\ request[ir] \in Int
  BY <1>0, <1>3, StepOfWalk
<1>5. w.free = haveNow /\ w.fits /\ w.at <= ih
  BY <1>0 DEF InStep
<1>6. w.at \in Nat /\ w.at > 0
  BY <1>4 DEF Walk
<1> HIDE DEF w
<1>7. \A k \in w.at..(ih - 1) : haveNow[k] < request[ir]
  BY <1>0, <1>2, <1>3, <1>6 DEF Passed
<1>8. ASSUME NEW j \in w.at..Len(haveNow), request[ir] <= haveNow[j],
             \A k \in w.at..(j - 1) : haveNow[k] < request[ir]
      PROVE  j = ih
  <2>1. ~(j < ih)
    <3> SUFFICES ASSUME j < ih PROVE FALSE
      OBVIOUS
    <3>1. j \in w.at..(ih - 1) /\ j \in 1..Len(free)
      BY <1>2, <1>3, <1>6, <1>8
    <3>2. haveNow[j] < request[ir] /\ haveNow[j] \in Nat /\ request[ir] \in Nat
      BY <1>2, <1>3, <1>7, <3>1
    <3> QED BY <1>8, <3>2
  <2>2. ~(ih < j)
    <3> SUFFICES ASSUME ih < j PROVE FALSE
      OBVIOUS
    <3>1. ih \in w.at..(j - 1)
      BY <1>2, <1>3, <1>5, <1>6, <1>8
    <3>2. haveNow[ih] < request[ir] /\ haveNow[ih] \in Nat /\ request[ir] \in Nat
      BY <1>2, <1>3, <1>8, <3>1
    <3> QED BY <1>1, <3>2
  <2> QED BY <1>2, <1>6, <2>1, <2>2
<1>9. walk[ir] = [free |-> [haveNow EXCEPT ![ih] = @ - request[ir]], at |-> ih, fits |-> w.fits]
  <2>1. CASE \A k \in w.at..Len(haveNow) : haveNow[k] < request[ir]
    <3>1. ih \in w.at..Len(haveNow)
      BY <1>2, <1>3, <1>5, <1>6
    <3>2. haveNow[ih] < request[ir] /\ haveNow[ih] \in Nat /\ request[ir] \in Nat
      BY <1>2, <1>3, <2>1, <3>1
    <3> QED BY <1>1, <3>2
  <2>2. CASE \E j \in w.at..Len(haveNow) :
               /\ request[ir] <= haveNow[j] /\ \A k \in w.at..(j - 1) : haveNow[k] < request[ir]
               /\ walk[ir] = [free |-> [haveNow EXCEPT ![j] = @ - request[ir]], at |-> j, fits |-> w.fits]
    BY <1>8, <2>2
  <2> QED BY <1>4, <1>5, <2>1, <2>2, PutNextDoes
<1> QED BY <1>1, <1>2, <1>5, <1>9

(* The loop answers what the walk answers, whatever the lists: what is     *)
(* shown of canRequestMatch here holds of HostPathPV, which asks the walk. *)
THEOREM LoopIsTheWalk == Spec => []LoopIsWalk
<1>1. Init => WInv
  <2> SUFFICES ASSUME Init, NEW walk, Follows(walk)
               PROVE  walk[ir - 1].free = haveNow /\ walk[ir - 1].fits /\ walk[ir - 1].at <= ih
    BY InitIInv DEF WInv, InStep
  <2>1. walk[ir - 1] = Start(free)
    BY DEF Init, Follows
  <2> QED BY <2>1 DEF Init, Start
<1>2. ASSUME WInv, [Next]_vars PROVE WInv'
  <2>0. IInv /\ TypeOK /\ InStep
    BY <1>2 DEF WInv, IInv
  <2>1. CASE PutOnDisk
    BY <1>2, <2>0, <2>1, PutOnDiskIInv, PutOnDiskInStep DEF WInv
  <2>2. CASE NextDisk
    <3>1. IInv'
      BY <2>0, <2>2, NextDiskIInv
    <3>2. /\ request' = request /\ free' = free /\ ir' = ir /\ ih' = ih + 1 /\ haveNow' = haveNow
      BY <2>2 DEF NextDisk
    <3>3. ih \in Nat /\ ir \in 1..(Len(request) + 1) /\ Len(request) \in Nat
      BY <2>0, Shape DEF TypeOK
    <3>4. ASSUME NEW walk, Follows(walk)' PROVE walk[ir - 1].at <= ih + 1 /\ walk[ir - 1].free = haveNow /\ walk[ir - 1].fits
      <4>1. Follows(walk)
        BY <3>2, <3>4 DEF Follows
      <4>2. walk[ir - 1].at <= ih /\ walk[ir - 1].free = haveNow /\ walk[ir - 1].fits
        BY <2>0, <4>1 DEF InStep
      <4>3. walk[ir - 1] \in Walk
        BY <3>3, <4>1 DEF Follows
      <4> QED BY <3>3, <4>2, <4>3 DEF Walk
    <3> QED BY <3>1, <3>2, <3>4 DEF WInv, InStep
  <2>3. CASE Return \/ UNCHANGED vars
    <3>1. IInv'
      BY <2>0, <2>3, ReturnIInv, StutterIInv
    <3>2. InStep'
      <4>1. UNCHANGED <<request, free, haveNow, ir, ih>>
        BY <2>3 DEF Return, vars
      <4> QED BY <2>0, <4>1 DEF InStep, Follows
    <3> QED BY <3>1, <3>2 DEF WInv
  <2> QED BY <1>2, <2>1, <2>2, <2>3 DEF Next
<1>3. WInv => LoopIsWalk
  <2> SUFFICES ASSUME WInv, result # "running"
               PROVE  result = "match" <=> CanRequestMatch(request, free)
    BY DEF LoopIsWalk
  <2>0. IInv /\ TypeOK /\ InStep /\ AtEnd /\ Passed
    BY DEF WInv, IInv
  <2>1. /\ Len(request) \in Nat /\ Len(free) \in Nat /\ Len(haveNow) = Len(free)
        /\ \A i \in 1..Len(request) : request[i] \in Nat
        /\ ir \in 1..(Len(request) + 1)
    BY <2>0, Shape DEF TypeOK
  <2>2. PICK walk : Follows(walk)
    <3>1. request \in Seq(Int) /\ free \in Seq(Int)
      BY <2>0, SeqMonotonic DEF TypeOK
    <3> QED BY <3>1, WalkOfList DEF Follows
  <2>3. CASE result = "match"
    <3>1. ir - 1 = Len(request)
      BY <2>0, <2>1, <2>3 DEF AtEnd
    <3>2. walk[Len(request)].fits
      BY <2>0, <2>2, <3>1 DEF InStep
    <3> QED BY <2>2, <2>3, <3>2 DEF Follows
  <2>4. CASE result = "nomatch"
    <3>1. ir \in 1..Len(request) /\ ih = Len(free) + 1
      BY <2>0, <2>1, <2>4 DEF AtEnd
    <3> DEFINE w == walk[ir - 1]
    <3>2. w \in Walk /\ walk[ir] = PutNext(w, request[ir]) /\ request[ir] \in Int
      BY <2>0, <2>2, <3>1, StepOfWalk
    <3>3. w.free = haveNow
      BY <2>0, <2>2 DEF InStep
    <3>4. w.at \in Nat /\ w.at > 0
      BY <3>2 DEF Walk
    <3> HIDE DEF w
    <3>5. \A k \in w.at..Len(haveNow) : haveNow[k] < request[ir]
      BY <2>0, <2>1, <3>1, <3>4 DEF Passed
    <3>6. ~\E k \in w.at..Len(haveNow) : request[ir] <= haveNow[k]
      <4>1. \A k \in w.at..Len(haveNow) : haveNow[k] \in Nat
        BY <2>0, <2>1, <3>4, Shape
      <4> QED BY <2>1, <3>1, <3>5, <4>1
    <3>7. ~walk[ir].fits
      BY <3>2, <3>3, <3>6, PutNextFits
    <3>8. ~walk[Len(request)].fits
      BY <2>0, <2>1, <2>2, <3>1, <3>7, LostIsLost
    <3> QED BY <2>2, <2>4, <3>8 DEF Follows
  <2> QED BY <2>0, <2>3, <2>4 DEF TypeOK
<1> QED
  BY <1>1, <1>2, <1>3, PTL DEF Spec
=============================================================================
