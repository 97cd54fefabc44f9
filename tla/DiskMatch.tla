----------------------------- MODULE DiskMatch -----------------------------
(***************************************************************************)
(* canRequestMatch of the disk-pressure predicate: walk the volumes a pod  *)
(* asks for and the free space of a node's disks, both in ascending order, *)
(* and put each volume on the first disk, from the present one on, that    *)
(* still has room.  One iteration of the loop is one step; the indices     *)
(* count from 1.                                                           *)
(***************************************************************************)
EXTENDS Integers, Sequences, FiniteSetsExt, DiskWalk

CONSTANTS
  RequestLists,  \* the sizes of the volumes: ascending, as sort.Sort leaves them
  HaveLists      \* the free space of the disks: ascending, none negative

Ascending(list) == \A i, j \in DOMAIN list : i <= j => list[i] <= list[j]

ASSUME DiskMatchAssumption ==
  /\ RequestLists \subseteq Seq(Nat) /\ HaveLists \subseteq Seq(Nat)
  /\ \A list \in RequestLists \cup HaveLists : Ascending(list)

VARIABLES
  request,  \* the list of requests
  free,     \* haveNow when the function is called
  haveNow,  \* haveNow as the loop leaves it
  ir, ih,   \* the two indices
  disk,     \* for each request, the disk it was put on; 0 is none
  result    \* "running", "match" or "nomatch"

vars == <<request, free, haveNow, ir, ih, disk, result>>

Init ==
  /\ request \in RequestLists
  /\ free \in HaveLists
  /\ haveNow = free
  /\ ir = 1 /\ ih = 1
  /\ disk = [i \in DOMAIN request |-> 0]
  /\ result = "running"

Looping == result = "running" /\ ir <= Len(request) /\ ih <= Len(haveNow)

\* Seeded fault: the room left is not compared.
PutOnDiskUnchecked ==
  /\ Looping
  /\ haveNow' = [haveNow EXCEPT ![ih] = @ - request[ir]]
  /\ disk' = [disk EXCEPT ![ir] = ih]
  /\ ir' = ir + 1
  /\ UNCHANGED <<request, free, ih, result>>

\* Seeded fault: the room taken is not subtracted.
PutOnDiskForgetful ==
  /\ Looping
  /\ request[ir] <= haveNow[ih]
  /\ disk' = [disk EXCEPT ![ir] = ih]
  /\ ir' = ir + 1
  /\ UNCHANGED <<request, free, haveNow, ih, result>>

PutOnDisk ==
  /\ Looping
  /\ request[ir] <= haveNow[ih]
  /\ haveNow' = [haveNow EXCEPT ![ih] = @ - request[ir]]
  /\ disk' = [disk EXCEPT ![ir] = ih]
  /\ ir' = ir + 1
  /\ UNCHANGED <<request, free, ih, result>>

\* Seeded fault: the index of the disk is not advanced.
NextDiskStuck ==
  /\ Looping
  /\ request[ir] > haveNow[ih]
  /\ UNCHANGED vars

\* Seeded fault: a volume as large as the room left is sent on.
NextDiskEager ==
  /\ Looping
  /\ request[ir] >= haveNow[ih]
  /\ ih' = ih + 1
  /\ UNCHANGED <<request, free, haveNow, ir, disk, result>>

NextDisk ==
  /\ Looping
  /\ request[ir] > haveNow[ih]
  /\ ih' = ih + 1
  /\ UNCHANGED <<request, free, haveNow, ir, disk, result>>

\* Seeded fault: running out of disks counts as a match.
ReturnEither ==
  /\ result = "running" /\ ~Looping
  /\ result' = IF ir > Len(request) \/ ih > Len(haveNow) THEN "match" ELSE "nomatch"
  /\ UNCHANGED <<request, free, haveNow, ir, ih, disk>>

Return ==
  /\ result = "running" /\ ~Looping
  /\ result' = IF ir > Len(request) THEN "match" ELSE "nomatch"
  /\ UNCHANGED <<request, free, haveNow, ir, ih, disk>>

Next == PutOnDisk \/ NextDisk \/ Return

Spec == Init /\ [][Next]_vars /\ WF_vars(Next)

-----------------------------------------------------------------------------
TypeOK ==
  /\ request \in Seq(Nat) /\ free \in Seq(Nat) /\ haveNow \in Seq(Nat)
  /\ Len(haveNow) = Len(free)
  /\ ir \in 1..(Len(request) + 1) /\ ih \in 1..(Len(free) + 1)
  /\ disk \in [DOMAIN request -> 0..Len(free)]
  /\ result \in {"running", "match", "nomatch"}

(* A match is a placement of every volume that overfills no disk.          *)
SizeOf(S) == MapThenSumSet(LAMBDA i : request[i], S)
Load(d) == SizeOf({ i \in DOMAIN request : disk[i] = d })

MatchFits ==
  result = "match" =>
    /\ \A i \in DOMAIN request : disk[i] # 0
    /\ \A d \in DOMAIN free : Load(d) <= free[d]

(* When canRequestMatch gives up, the volume it is at fits on no disk, not *)
(* even on those it has passed: the disks passed for a smaller volume are  *)
(* too full for a larger one, because both lists are sorted.               *)
RefusedFitsNowhere ==
  result = "nomatch" => ir <= Len(request) /\ \A d \in DOMAIN free : haveNow[d] < request[ir]

(* For one volume, the answer is whether some disk has the room; the walk  *)
(* never misses it.                                                        *)
OneVolumeExact ==
  Len(request) = 1 /\ result # "running" =>
    (result = "match" <=> \E d \in DOMAIN free : request[1] <= free[d])

(* For two volumes, the answer is whether one disk has the room for both   *)
(* or two disks have it for one each: taking the smallest disk for the     *)
(* smaller volume never spoils the larger one.  With three volumes it may: *)
(* see EnoughIsMatch.                                                      *)
PairFits ==
  \/ \E d \in DOMAIN free : request[1] + request[2] <= free[d]
  \/ \E d, e \in DOMAIN free : d # e /\ request[1] <= free[d] /\ request[2] <= free[e]

TwoVolumesExact ==
  Len(request) = 2 /\ result # "running" => (result = "match" <=> PairFits)

\* Some placement exists, in whatever order the volumes are put on disks.
Placements == [DOMAIN request -> DOMAIN free]
Fits(p) == \A d \in DOMAIN free : SizeOf({ i \in DOMAIN request : p[i] = d }) <= free[d]
Placeable == \E p \in Placements : Fits(p)

(* What README-zh.md says the predicate decides: whether the node has      *)
(* enough hostpath for the volumes of the pod.                             *)
EnoughIsMatch == result = "nomatch" => ~Placeable

(* The two indices of the loop and the walk of one volume after another    *)
(* (DiskWalk), by which HostPathPV judges a node, come to one answer: what *)
(* is shown of the loop here holds of the predicate there.                 *)
LoopIsWalk ==
  result # "running" => (result = "match" <=> CanRequestMatch(request, free))

(* The loop ends.                                                          *)
Terminates == <>(result # "running")
=============================================================================
