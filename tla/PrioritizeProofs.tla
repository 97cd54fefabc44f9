------------------------- MODULE PrioritizeProofs -------------------------
(***************************************************************************)
(* Proofs about Prioritize, for any number of nodes, pods, volumes and any *)
(* contents of the caches: the types and the range of the scores, that no  *)
(* error is lost and no answer hides one, and that the scores rank the     *)
(* nodes as they were read, and as they are when the caches stand still.   *)
(***************************************************************************)
EXTENDS Prioritize, DiskWalkProofs

\* The goroutines the WaitGroup counts, and those with an error still to append.
Working == {n \in Nodes : job[n].pc \notin {"none", "done"}}
Reporting(n) == job[n].pc \in {"lock", "append"}
Occurrences(n) == {i \in DOMAIN errs : errs[i] = n}
Occurs(n) == Cardinality(Occurrences(n))

Fields == {"pc", "snap", "left", "tally", "copy", "failures"}
IsJob(j) == j = [f \in Fields |-> j[f]]

-----------------------------------------------------------------------------
(* The inductive invariant, in parts.                                      *)

Shape ==
  /\ kind \in {"diskuse", "spread"}
  /\ job = [n \in Nodes |-> job[n]]
  /\ \A n \in Nodes : IsJob(job[n])
  /\ errs \in Seq(Nodes)

\* The WaitGroup counts the goroutines that work.
Counted == wg = Cardinality(Working)

\* All have been started when the handler waits, none before it begins.
Started ==
  /\ pc \in {"wait", "max", "scale", "sent", "aborted"} => \A n \in Nodes : job[n].pc # "none"
  /\ \A n \in Nodes : job[n].pc \in {"none", "list"} => job[n].failures = 0

\* After the wait none works.
Joined == pc \in {"idle", "max", "scale", "sent", "aborted"} => Working = {}

\* An error is in the list, or its goroutine is about to put it there.
Reported ==
  \A n \in Nodes :
    job[n].failures \in Nat /\ job[n].failures = Occurs(n) + (IF Reporting(n) THEN 1 ELSE 0)

\* The goroutine that appends holds the mutex and has read the present list.
Exclusive == \A n \in Nodes : job[n].pc = "append" => mu = n /\ job[n].copy = errs

Clean == pc \in {"max", "scale", "sent"} => errs = <<>>

IInv == Shape /\ Counted /\ Started /\ Joined /\ Reported /\ Exclusive /\ Clean

-----------------------------------------------------------------------------
LEMMA NodesFinite == IsFiniteSet(Nodes) /\ NoNode \notin Nodes
BY PrioritizeAssumption, HostPathAssumption

LEMMA WorkingFinite == IsFiniteSet(Working) /\ Cardinality(Working) \in Nat
<1>1. Working \subseteq Nodes
  BY DEF Working
<1> QED
  BY <1>1, NodesFinite, FS_Subset, FS_CardinalityType

\* A sequence without elements holds no occurrence.
LEMMA EmptyErrs ==
  ASSUME errs = <<>>, NEW n
  PROVE  Occurs(n) = 0
<1>1. Occurrences(n) = {}
  BY DEF Occurrences
<1> QED
  BY <1>1, FS_EmptySet DEF Occurs

\* The occurrences are a finite number.
LEMMA OccursNat ==
  ASSUME errs \in Seq(Nodes), NEW m \in Nodes
  PROVE  IsFiniteSet(Occurrences(m)) /\ Occurs(m) \in Nat
<1>1. Occurrences(m) \in SUBSET (1..Len(errs)) /\ Len(errs) \in Nat
  BY LenProperties DEF Occurrences
<1>2. IsFiniteSet(1..Len(errs))
  BY <1>1, FS_Interval
<1> QED
  BY <1>1, <1>2, FS_Subset, FS_CardinalityType DEF Occurs

\* Appending n to the list adds one occurrence of n and none of another.
LEMMA AppendOccurs ==
  ASSUME errs \in Seq(Nodes), NEW n \in Nodes, errs' = Append(errs, n), NEW m \in Nodes
  PROVE  /\ Occurs(m)' = Occurs(m) + (IF m = n THEN 1 ELSE 0)
         /\ Occurs(m) \in Nat
<1>1. Len(errs) \in Nat /\ DOMAIN errs = 1..Len(errs)
  BY LenProperties
<1>2. /\ DOMAIN errs' = 1..(Len(errs) + 1)
      /\ \A i \in 1..Len(errs) : errs'[i] = errs[i]
      /\ errs'[Len(errs) + 1] = n
  BY AppendProperties, <1>1, LenProperties
<1>3. IsFiniteSet(Occurrences(m))
  BY OccursNat
<1>4. Occurs(m) \in Nat
  BY OccursNat
<1>5. CASE m = n
  <2>1. Occurrences(m)' = Occurrences(m) \cup {Len(errs) + 1}
    BY <1>1, <1>2, <1>5 DEF Occurrences
  <2>2. Len(errs) + 1 \notin Occurrences(m)
    BY <1>1 DEF Occurrences
  <2>3. Cardinality(Occurrences(m) \cup {Len(errs) + 1}) = Cardinality(Occurrences(m)) + 1
    BY <1>3, <2>2, FS_AddElement
  <2> QED
    BY <1>4, <1>5, <2>1, <2>3 DEF Occurs
<1>6. CASE m # n
  <2>1. Occurrences(m)' = Occurrences(m)
    BY <1>1, <1>2, <1>6 DEF Occurrences
  <2> QED
    BY <1>4, <1>6, <2>1 DEF Occurs
<1> QED
  BY <1>5, <1>6

-----------------------------------------------------------------------------
(* What one step of a goroutine does to its record.                        *)
Replaces(n) ==
  /\ job' = [m \in Nodes |-> job'[m]]
  /\ IsJob(job'[n])
  /\ \A m \in Nodes \ {n} : job'[m] = job[m]

Walks(n) ==
  /\ job[n].pc \in {"list", "count"} /\ job'[n].pc \in {"count", "leave"}
  /\ job'[n].failures = job[n].failures
  /\ UNCHANGED <<errs, mu, wg>>

Stumbles(n) ==
  /\ job[n].pc \in {"list", "count"} /\ job'[n].pc = "lock"
  /\ job'[n].failures = job[n].failures + 1
  /\ UNCHANGED <<errs, mu, wg>>

Locks(n) ==
  /\ job[n].pc = "lock" /\ job'[n].pc = "append"
  /\ job'[n].failures = job[n].failures /\ job'[n].copy = errs
  /\ mu = NoNode /\ mu' = n /\ UNCHANGED <<errs, wg>>

Appends(n) ==
  /\ job[n].pc = "append" /\ job'[n].pc = "count"
  /\ job'[n].failures = job[n].failures
  /\ errs' = Append(job[n].copy, n) /\ UNCHANGED wg

Leaves(n) ==
  /\ job[n].pc = "leave" /\ job'[n].pc = "done"
  /\ job'[n].failures = job[n].failures
  /\ wg' = wg - 1 /\ UNCHANGED <<errs, mu>>

\* Replacing the record of one goroutine leaves the others alone.
LEMMA Replaced ==
  ASSUME Shape, NEW n \in Nodes, NEW j, IsJob(j), job' = [job EXCEPT ![n] = j]
  PROVE  Replaces(n) /\ job'[n] = j
BY DEF Shape, Replaces

LEMMA Goroutines ==
  ASSUME IInv, NEW n \in Nodes, Goroutine(n)
  PROVE  /\ Replaces(n) /\ UNCHANGED handler
         /\ Walks(n) \/ Stumbles(n) \/ Locks(n) \/ Appends(n) \/ Leaves(n)
<1> DEFINE j == job[n]
<1>0. Shape /\ IsJob(j) /\ (j.pc = "list" => j.failures = 0)
  BY DEF IInv, Shape, Started
<1>1. CASE List(n)
  <2>1. CASE kind = "diskuse" /\ n \in broken
    <3> DEFINE k == [j EXCEPT !.pc = "lock", !.failures = 1]
    <3>1. job' = [job EXCEPT ![n] = k] /\ j.pc = "list"
      BY <1>1, <2>1 DEF List
    <3>2. IsJob(k) /\ k.pc = "lock" /\ k.failures = 1
      BY <1>0 DEF IsJob, Fields
    <3>3. j.failures + 1 = 1
      BY <1>0, <3>1
    <3> HIDE DEF k, j
    <3>4. Replaces(n) /\ job'[n] = k
      BY <1>0, <3>1, <3>2, Replaced DEF j
    <3>5. job[n].pc = "list" /\ job[n].failures + 1 = 1
      BY <3>1, <3>3 DEF j
    <3> QED
      BY <1>1, <3>2, <3>4, <3>5 DEF List, Stumbles
  <2>2. CASE kind = "diskuse" /\ n \notin broken
    <3> DEFINE k == [j EXCEPT !.pc = "count", !.snap = view.mounts,
                              !.left = {pv \in view.bound \ Other : HasEntry(view, pv, n)}]
    <3>1. job' = [job EXCEPT ![n] = k] /\ j.pc = "list"
      BY <1>1, <2>2 DEF List
    <3>2. IsJob(k) /\ k.pc = "count" /\ k.failures = j.failures
      BY <1>0 DEF IsJob, Fields
    <3> HIDE DEF k, j
    <3> QED
      BY <1>0, <1>1, <3>1, <3>2, Replaced DEF List, Walks, j
  <2>3. CASE kind = "spread"
    <3> DEFINE k == [j EXCEPT !.pc = "count", !.left = Range(VolumesOf[pod])]
    <3>1. job' = [job EXCEPT ![n] = k] /\ j.pc = "list"
      BY <1>1, <2>3 DEF List
    <3>2. IsJob(k) /\ k.pc = "count" /\ k.failures = j.failures
      BY <1>0 DEF IsJob, Fields
    <3> HIDE DEF k, j
    <3> QED
      BY <1>0, <1>1, <3>1, <3>2, Replaced DEF List, Walks, j
  <2> QED
    BY <1>0, <2>1, <2>2, <2>3 DEF Shape
<1>2. ASSUME NEW pv \in Volumes, CountVolume(n, pv)
      PROVE  Replaces(n) /\ UNCHANGED handler /\ (Walks(n) \/ Stumbles(n))
  <2>0. job[n].pc = "count" /\ UNCHANGED handler /\ UNCHANGED <<errs, mu, wg>>
    BY <1>2 DEF CountVolume
  <2>1. CASE kind = "diskuse"
    <3> DEFINE k == [j EXCEPT !.left = j.left \ {pv}, !.tally = j.tally + Quota(n, pv)]
    <3>1. job' = [job EXCEPT ![n] = k] /\ j.pc = "count"
      BY <1>2, <2>1 DEF CountVolume
    <3>2. IsJob(k) /\ k.pc = j.pc /\ k.failures = j.failures
      BY <1>0 DEF IsJob, Fields
    <3> HIDE DEF k, j
    <3> QED
      BY <1>0, <2>0, <3>1, <3>2, Replaced DEF Walks, j
  <2>2. CASE kind = "spread" /\ pv \in view.bound
    <3> DEFINE k == [j EXCEPT !.left = j.left \ {pv}, !.tally = j.tally + Users(n, pv)]
    <3>1. job' = [job EXCEPT ![n] = k] /\ j.pc = "count"
      BY <1>2, <2>2 DEF CountVolume
    <3>2. IsJob(k) /\ k.pc = j.pc /\ k.failures = j.failures
      BY <1>0 DEF IsJob, Fields
    <3> HIDE DEF k, j
    <3> QED
      BY <1>0, <2>0, <3>1, <3>2, Replaced DEF Walks, j
  <2>3. CASE kind = "spread" /\ pv \notin view.bound
    <3> DEFINE k == [j EXCEPT !.left = j.left \ {pv}, !.pc = "lock", !.failures = j.failures + 1]
    <3>1. job' = [job EXCEPT ![n] = k] /\ j.pc = "count"
      BY <1>2, <2>3 DEF CountVolume
    <3>2. IsJob(k) /\ k.pc = "lock" /\ k.failures = j.failures + 1
      BY <1>0 DEF IsJob, Fields
    <3> HIDE DEF k, j
    <3> QED
      BY <1>0, <2>0, <3>1, <3>2, Replaced DEF Stumbles, j
  <2> QED
    BY <1>0, <2>1, <2>2, <2>3 DEF Shape
<1>3. CASE Lock(n)
  <2> DEFINE k == [j EXCEPT !.pc = "append", !.copy = errs]
  <2>1. job' = [job EXCEPT ![n] = k] /\ j.pc = "lock"
    BY <1>3 DEF Lock
  <2>2. IsJob(k) /\ k.pc = "append" /\ k.copy = errs /\ k.failures = j.failures
    BY <1>0 DEF IsJob, Fields
  <2> HIDE DEF k, j
  <2> QED
    BY <1>0, <1>3, <2>1, <2>2, Replaced DEF Lock, Locks, j
<1>4. CASE AppendError(n)
  <2> DEFINE k == [j EXCEPT !.pc = "count", !.copy = <<>>]
  <2>1. job' = [job EXCEPT ![n] = k] /\ j.pc = "append"
    BY <1>4 DEF AppendError
  <2>2. IsJob(k) /\ k.pc = "count" /\ k.failures = j.failures
    BY <1>0 DEF IsJob, Fields
  <2> HIDE DEF k, j
  <2> QED
    BY <1>0, <1>4, <2>1, <2>2, Replaced DEF AppendError, Appends, j
<1>5. CASE Score(n)
  <2> DEFINE k == [j EXCEPT !.pc = "leave"]
  <2>1. job' = [job EXCEPT ![n] = k] /\ j.pc = "count"
    BY <1>5 DEF Score
  <2>2. IsJob(k) /\ k.pc = "leave" /\ k.failures = j.failures
    BY <1>0 DEF IsJob, Fields
  <2> HIDE DEF k, j
  <2> QED
    BY <1>0, <1>5, <2>1, <2>2, Replaced DEF Score, Walks, j
<1>6. CASE Leave(n)
  <2> DEFINE k == [j EXCEPT !.pc = "done"]
  <2>1. job' = [job EXCEPT ![n] = k] /\ j.pc = "leave"
    BY <1>6 DEF Leave
  <2>2. IsJob(k) /\ k.pc = "done" /\ k.failures = j.failures
    BY <1>0 DEF IsJob, Fields
  <2> HIDE DEF k, j
  <2> QED
    BY <1>0, <1>6, <2>1, <2>2, Replaced DEF Leave, Leaves, j
<1> QED
  BY <1>1, <1>2, <1>3, <1>4, <1>5, <1>6 DEF Goroutine

-----------------------------------------------------------------------------
\* A goroutine's step keeps the invariant.
LEMMA GoroutineKeeps ==
  ASSUME IInv, NEW n \in Nodes, Goroutine(n)
  PROVE  IInv'
<1>1. /\ Replaces(n) /\ UNCHANGED handler
      /\ Walks(n) \/ Stumbles(n) \/ Locks(n) \/ Appends(n) \/ Leaves(n)
  BY Goroutines
<1>2. pc' = pc /\ kind' = kind
  BY <1>1 DEF handler
<1>3. /\ job[n].pc \in {"list", "count", "lock", "append", "leave"}
      /\ job'[n].pc \in {"count", "lock", "append", "leave", "done"}
      /\ job'[n].pc # "append" \/ Locks(n)
  BY <1>1 DEF Walks, Stumbles, Locks, Appends, Leaves
<1>4. Appends(n) => errs' = Append(errs, n)
  BY DEF IInv, Exclusive, Appends
<1>5. Shape'
  <2>1. errs' \in Seq(Nodes)
    BY <1>1, <1>4, AppendProperties DEF IInv, Shape, Walks, Stumbles, Locks, Appends, Leaves
  <2>2. \A m \in Nodes : IsJob(job'[m])
    BY <1>1 DEF IInv, Shape, Replaces
  <2> QED
    BY <1>1, <1>2, <2>1, <2>2 DEF IInv, Shape, Replaces, IsJob, Fields
<1>6. Counted'
  <2>1. n \in Working /\ Working \subseteq Nodes
    BY <1>3 DEF Working
  <2>2. CASE Leaves(n)
    <3>1. Working' = Working \ {n}
      BY <1>1, <2>1, <2>2 DEF Working, Replaces, Leaves
    <3>2. Cardinality(Working \ {n}) = Cardinality(Working) - 1
      BY <2>1, WorkingFinite, FS_RemoveElement
    <3> QED
      BY <2>2, <3>1, <3>2 DEF IInv, Counted, Leaves
  <2>3. CASE ~Leaves(n)
    <3>1. job'[n].pc # "done" /\ wg' = wg
      BY <1>1, <2>3 DEF Walks, Stumbles, Locks, Appends
    <3>2. Working' = Working
      BY <1>1, <1>3, <2>1, <3>1 DEF Working, Replaces
    <3> QED
      BY <3>1, <3>2 DEF IInv, Counted
  <2> QED
    BY <2>2, <2>3
<1>7. Started'
  BY <1>1, <1>2, <1>3 DEF IInv, Started, Replaces
<1>8. Joined'
  <2>1. n \in Working
    BY <1>3 DEF Working
  <2> QED
    BY <1>2, <2>1 DEF IInv, Joined
<1>9. Reported'
  <2> SUFFICES ASSUME NEW m \in Nodes
               PROVE  /\ job'[m].failures \in Nat
                      /\ job'[m].failures = Occurs(m)' + (IF Reporting(m)' THEN 1 ELSE 0)
    BY DEF Reported
  <2>1. /\ job[m].failures \in Nat
        /\ job[m].failures = Occurs(m) + (IF Reporting(m) THEN 1 ELSE 0)
    BY DEF IInv, Reported
  <2>2. CASE Appends(n)
    <3>1. Occurs(m)' = Occurs(m) + (IF m = n THEN 1 ELSE 0) /\ Occurs(m) \in Nat
      BY <1>4, <2>2, AppendOccurs DEF IInv, Shape
    <3>2. m = n => Reporting(m) /\ ~Reporting(m)' /\ job'[m].failures = job[m].failures
      BY <2>2 DEF Appends, Reporting
    <3>3. m # n => job'[m] = job[m] /\ Reporting(m)' = Reporting(m)
      BY <1>1 DEF Replaces, Reporting
    <3> QED
      BY <2>1, <3>1, <3>2, <3>3
  <2>3. CASE ~Appends(n)
    <3>1. errs' = errs /\ Occurs(m)' = Occurs(m)
      BY <1>1, <2>3 DEF Walks, Stumbles, Locks, Leaves, Occurs, Occurrences
    <3>2. CASE m = n
      <4>1. Occurs(m) \in Nat
        BY OccursNat DEF IInv, Shape
      <4>2. CASE Stumbles(n)
        <5>1. ~Reporting(m) /\ Reporting(m)' /\ job'[m].failures = job[m].failures + 1
          BY <3>2, <4>2 DEF Stumbles, Reporting
        <5> QED
          BY <2>1, <3>1, <4>1, <5>1
      <4>3. CASE ~Stumbles(n)
        <5>1. Reporting(m)' = Reporting(m) /\ job'[m].failures = job[m].failures
          BY <1>1, <2>3, <3>2, <4>3 DEF Walks, Locks, Leaves, Reporting
        <5> QED
          BY <2>1, <3>1, <5>1
      <4> QED
        BY <4>2, <4>3
    <3>3. CASE m # n
      BY <1>1, <2>1, <3>1, <3>3 DEF Replaces, Reporting
    <3> QED
      BY <3>2, <3>3
  <2> QED
    BY <2>2, <2>3
<1>10. Exclusive'
  <2> SUFFICES ASSUME NEW m \in Nodes, job'[m].pc = "append"
               PROVE  mu' = m /\ job'[m].copy = errs'
    BY DEF Exclusive
  <2>1. CASE m = n
    BY <1>3, <2>1 DEF Locks
  <2>2. CASE m # n
    <3>1. job'[m] = job[m] /\ mu = m /\ job[m].copy = errs
      BY <1>1, <2>2 DEF IInv, Exclusive, Replaces
    <3>2. ~Locks(n) /\ ~Appends(n)
      BY <2>2, <3>1, NodesFinite DEF IInv, Exclusive, Locks, Appends
    <3> QED
      BY <1>1, <3>1, <3>2 DEF Walks, Stumbles, Leaves
  <2> QED
    BY <2>1, <2>2
<1>11. Clean'
  <2>1. n \in Working
    BY <1>3 DEF Working
  <2> QED
    BY <1>2, <2>1 DEF IInv, Joined, Clean
<1> QED
  BY <1>5, <1>6, <1>7, <1>8, <1>9, <1>10, <1>11 DEF IInv

\* A start of a goroutine keeps the invariant.
LEMMA ForkKeeps ==
  ASSUME IInv, NEW n \in Nodes, Fork(n)
  PROVE  IInv'
<1> DEFINE k == [job[n] EXCEPT !.pc = "list"]
<1>0. IsJob(job[n]) /\ Shape /\ job[n].pc = "none" /\ job[n].failures = 0
  BY DEF IInv, Shape, Started, Fork
<1>1. job' = [job EXCEPT ![n] = k]
  BY DEF Fork
<1>2. IsJob(k) /\ k.pc = "list" /\ k.failures = job[n].failures
  BY <1>0 DEF IsJob, Fields
<1> HIDE DEF k
<1>3. Replaces(n) /\ job'[n] = k
  BY <1>0, <1>1, <1>2, Replaced
<1>4. /\ wg' = wg + 1 /\ kind' = kind /\ mu' = mu /\ errs' = errs /\ pc = "fork"
      /\ pc' \in {"fork", "wait"}
      /\ pc' = "wait" => \A m \in Nodes \ {n} : job[m].pc # "none"
  BY DEF Fork
<1>5. Shape'
  BY <1>0, <1>2, <1>3, <1>4 DEF Shape, Replaces, IsJob, Fields
<1>6. Counted'
  <2>1. n \notin Working /\ Working' = Working \cup {n}
    BY <1>0, <1>2, <1>3 DEF Working, Replaces
  <2> QED
    BY <1>4, <2>1, WorkingFinite, FS_AddElement DEF IInv, Counted
<1>7. Started'
  BY <1>0, <1>2, <1>3, <1>4 DEF IInv, Started, Replaces
<1>8. Joined' /\ Clean'
  BY <1>4 DEF Joined, Clean
<1>9. Reported'
  <2> SUFFICES ASSUME NEW m \in Nodes
               PROVE  /\ job'[m].failures \in Nat
                      /\ job'[m].failures = Occurs(m)' + (IF Reporting(m)' THEN 1 ELSE 0)
    BY DEF Reported
  <2>1. job'[m].failures = job[m].failures /\ Reporting(m)' = Reporting(m)
    BY <1>0, <1>2, <1>3 DEF Replaces, Reporting
  <2>2. Occurs(m)' = Occurs(m)
    BY <1>4 DEF Occurs, Occurrences
  <2> QED
    BY <2>1, <2>2 DEF IInv, Reported
<1>10. Exclusive'
  BY <1>2, <1>3, <1>4 DEF IInv, Exclusive, Replaces
<1> QED
  BY <1>5, <1>6, <1>7, <1>8, <1>9, <1>10 DEF IInv

-----------------------------------------------------------------------------
\* No goroutine and no error: the state a call starts from.
Fresh == job = [n \in Nodes |-> NoJob] /\ errs = <<>> /\ wg = 0

LEMMA FreshOK ==
  ASSUME Fresh, kind \in Kinds, pc \in {"idle", "fork"}
  PROVE  IInv
<1>1. \A n \in Nodes : job[n] = NoJob
  BY DEF Fresh
<1>2. Working = {}
  BY <1>1 DEF Working, NoJob
<1>3. Shape
  <2>1. kind \in {"diskuse", "spread"}
    BY PrioritizeAssumption
  <2>2. IsJob(NoJob)
    BY DEF IsJob, Fields, NoJob
  <2> QED
    BY <1>1, <2>1, <2>2, EmptySeq DEF Shape, Fresh
<1>4. Counted
  BY <1>2, FS_EmptySet DEF Counted, Fresh
<1>5. Started /\ Joined /\ Exclusive /\ Clean
  BY <1>1, <1>2 DEF Started, Joined, Exclusive, Clean, NoJob
<1>6. Reported
  <2>1. \A n \in Nodes : Occurs(n) = 0
    BY EmptyErrs DEF Fresh
  <2> QED
    BY <1>1, <2>1 DEF Reported, Reporting, NoJob
<1> QED
  BY <1>3, <1>4, <1>5, <1>6 DEF IInv

LEMMA FreshImplies == Fresh /\ kind \in Kinds /\ pc \in {"idle", "fork"} => IInv
BY FreshOK

LEMMA FreshNext == (Fresh /\ kind \in Kinds /\ pc \in {"idle", "fork"})' => IInv'
BY FreshImplies, PTL

LEMMA InitIInv == Init => IInv
<1> SUFFICES ASSUME Init PROVE IInv
  OBVIOUS
<1>1. Fresh /\ kind \in Kinds /\ pc = "idle"
  BY DEF Init, Fresh
<1> QED
  BY <1>1, FreshOK

\* What only touches the handler and its scores keeps all but the two parts
\* that speak of where the handler is.
LEMMA HandlerKeeps ==
  ASSUME IInv, UNCHANGED <<kind, job, errs, wg, mu>>
  PROVE  /\ Shape' /\ Counted' /\ Reported' /\ Exclusive' /\ Working' = Working
         /\ (\A n \in Nodes : job[n].pc \in {"none", "list"} => job[n].failures = 0)'
<1>1. Working' = Working /\ \A n : Occurs(n)' = Occurs(n) /\ (Reporting(n)' <=> Reporting(n))
  BY DEF Working, Occurs, Occurrences, Reporting
<1>2. Shape' /\ Counted' /\ Exclusive'
  BY <1>1 DEF IInv, Shape, Counted, Exclusive, IsJob, Fields
<1>3. Reported'
  BY <1>1 DEF IInv, Reported
<1> QED
  BY <1>1, <1>2, <1>3 DEF IInv, Started

LEMMA WaitKeeps ==
  ASSUME IInv, Wait
  PROVE  IInv'
<1>1. /\ pc = "wait" /\ wg = 0 /\ UNCHANGED <<kind, job, errs, wg, mu>>
      /\ pc' \in {"max", "aborted"} /\ (pc' = "max" => errs = <<>>)
  BY DEF Wait
<1>2. Working = {}
  <2>1. Cardinality(Working) = 0
    BY <1>1 DEF IInv, Counted
  <2> QED
    BY <2>1, WorkingFinite, FS_EmptySet
<1>3. Started'
  BY <1>1, HandlerKeeps DEF IInv, Started
<1>4. Joined' /\ Clean'
  BY <1>1, <1>2, HandlerKeeps DEF Joined, Clean
<1> QED
  BY <1>1, <1>3, <1>4, HandlerKeeps DEF IInv

LEMMA AnswerKeeps ==
  ASSUME IInv, FindMax \/ Scale
  PROVE  IInv'
<1>1. /\ pc \in {"max", "scale"} /\ pc' \in {"scale", "sent"}
      /\ UNCHANGED <<kind, job, errs, wg, mu>>
  BY DEF FindMax, Scale
<1>2. Started' /\ Joined' /\ Clean'
  BY <1>1, HandlerKeeps DEF IInv, Started, Joined, Clean
<1> QED
  BY <1>1, <1>2, HandlerKeeps DEF IInv

LEMMA BeginKeeps ==
  ASSUME IInv, NEW k \in Kinds, NEW p \in Pods, NEW unread \in BrokenSets, Begin(k, p, unread)
  PROVE  IInv'
<1>1. Fresh' /\ kind' \in Kinds /\ pc' = "fork"
  BY DEF Begin, Fresh
<1> QED
  BY <1>1, FreshNext

LEMMA NextIInv == IInv /\ [Next]_vars => IInv'
<1> SUFFICES ASSUME IInv, [Next]_vars PROVE IInv'
  OBVIOUS
<1>1. CASE CachesMove \/ UNCHANGED vars
  <2>1. UNCHANGED <<kind, pc, job, errs, wg, mu>>
    BY <1>1 DEF CachesMove, vars, handler
  <2>2. Started' /\ Joined' /\ Clean'
    BY <2>1, HandlerKeeps DEF IInv, Started, Joined, Clean
  <2> QED
    BY <2>1, <2>2, HandlerKeeps DEF IInv
<1>2. ASSUME NEW k \in Kinds, NEW p \in Pods, NEW unread \in BrokenSets, Begin(k, p, unread) PROVE IInv'
  BY <1>2, BeginKeeps
<1>3. CASE Handle
  <2>1. ASSUME NEW n \in Nodes, Fork(n) PROVE IInv'
    BY <2>1, ForkKeeps
  <2> QED
    BY <1>3, <2>1, WaitKeeps, AnswerKeeps DEF Handle
<1>4. ASSUME NEW n \in Nodes, Goroutine(n) PROVE IInv'
  BY <1>4, GoroutineKeeps
<1> QED
  BY <1>1, <1>2, <1>3, <1>4 DEF Next

-----------------------------------------------------------------------------
LEMMA Safety == Spec => []IInv
BY InitIInv, NextIInv, PTL DEF Spec

LEMMA InvAnswers == IInv => AnswerWhole
<1> SUFFICES ASSUME IInv, pc \in {"max", "scale", "sent"}, NEW n \in Nodes
             PROVE  job[n].pc = "done" /\ job[n].failures = 0
  BY DEF AnswerWhole
<1>1. job[n].pc = "done"
  BY DEF IInv, Started, Joined, Working
<1>2. Occurs(n) = 0
  BY EmptyErrs DEF IInv, Clean
<1> QED
  BY <1>1, <1>2 DEF IInv, Reported, Reporting

\* The barrier and the error list of NodesScoring: scores go out only after
\* every goroutine has ended, and only when none met an error.
THEOREM NoErrorAnswered == Spec => []AnswerWhole
BY InvAnswers, Safety, PTL

\* The mutex of appendError: goroutines that fail at once lose no error.
THEOREM NoErrorLost == Spec => []ErrorsKept
<1>1. IInv => ErrorsKept
  <2> SUFFICES ASSUME IInv, pc = "aborted", NEW n \in Nodes
               PROVE  Occurs(n) = job[n].failures
    BY DEF ErrorsKept, Occurs, Occurrences
  <2>1. ~Reporting(n)
    BY DEF IInv, Joined, Working, Reporting
  <2>2. Occurs(n) \in Nat
    BY OccursNat DEF IInv, Shape
  <2> QED
    BY <2>1, <2>2 DEF IInv, Reported
<1> QED
  BY <1>1, Safety, PTL

-----------------------------------------------------------------------------
(* Arithmetic: what the scaling of the scores rests on.                    *)

\* What \div answers.
LEMMA Quotient ==
  ASSUME NEW x \in Nat, NEW c \in Nat \ {0}
  PROVE  /\ x \div c \in Nat
         /\ (x \div c) * c <= x
         /\ x < (x \div c + 1) * c
<1> DEFINE q == x \div c
           r == x % c
<1>1. q \in Int /\ r \in 0..(c - 1) /\ x = c * q + r
  OBVIOUS
<1>2. q >= 0
  OBVIOUS
<1> HIDE DEF q, r
<1>3. c * q = q * c /\ (q + 1) * c = q * c + c /\ q * c \in Int
  BY <1>1
<1> QED BY <1>1, <1>2, <1>3 DEF q

LEMMA TimesMonotone ==
  ASSUME NEW a \in Int, NEW b \in Int, NEW c \in Nat, a <= b
  PROVE  a * c <= b * c
OBVIOUS

\* Fractions in order have quotients in order.
LEMMA QuotientMonotone ==
  ASSUME NEW x \in Nat, NEW y \in Nat, NEW c \in Nat \ {0}, NEW d \in Nat \ {0}, y * c <= x * d
  PROVE  y \div d <= x \div c
<1> DEFINE p == x \div c
           q == y \div d
<1>1. p \in Nat /\ x < (p + 1) * c
  BY Quotient
<1>2. q \in Nat /\ q * d <= y
  BY Quotient
<1> HIDE DEF p, q
<1> SUFFICES ASSUME p + 1 <= q PROVE FALSE
  BY <1>1, <1>2 DEF p, q
<1>3. (p + 1) * c <= q * c
  BY <1>1, <1>2, TimesMonotone
<1>4. x + 1 <= q * c
  BY <1>1, <1>2, <1>3
<1>5. (x + 1) * d <= (q * c) * d
  BY <1>2, <1>4, TimesMonotone
<1>6. (q * d) * c <= y * c
  BY <1>2, TimesMonotone
<1>7. (q * c) * d = (q * d) * c /\ (x + 1) * d = x * d + d
  BY <1>2
<1> QED BY <1>2, <1>5, <1>6, <1>7

-----------------------------------------------------------------------------
(* What the goroutines read are numbers.                                   *)

LEMMA UsersCounted ==
  ASSUME NEW v, NEW pv, NEW n
  PROVE  Cardinality(ReadyUsersOn(v, pv, n)) \in Nat
<1>1. ReadyUsersOn(v, pv, n) \in SUBSET Pods
  BY DEF ReadyUsersOn, ReadyUsers
<1> QED BY <1>1, PrioritizeAssumption, FS_Subset, FS_CardinalityType

LEMMA UsersNat ==
  ASSUME NEW n \in Nodes, NEW pv \in Volumes
  PROVE  Users(n, pv) \in Nat
<1>1. Cardinality(ReadyUsersOn(view, pv, n)) \in Nat
  BY UsersCounted
<1> QED BY <1>1 DEF Users

LEMMA QuotaNat ==
  ASSUME NEW n \in Nodes, NEW pv \in Volumes, view \in Views, NEW w \in Views,
         job[n].snap = w.mounts, HasEntry(w, pv, n)
  PROVE  Quota(n, pv) \in Nat
<1> DEFINE v == [view EXCEPT !.mounts = job[n].snap]
<1>1. v.mounts = w.mounts
  BY PrioritizeAssumption
<1>2. Cardinality(v.mounts[pv][n]) \in Nat
  BY <1>1, PrioritizeAssumption, FS_CardinalityType
<1>3. Cardinality(ReadyUsersOn(v, pv, n)) \in Nat
  BY UsersCounted
<1> HIDE DEF v
<1>4. Unrecorded(v, pv, n) \in Nat
  BY <1>2, <1>3 DEF Unrecorded
<1>5. Capacity[pv] \in Nat
  BY HostPathAssumption
<1>6. Quota(n, pv) = (Cardinality(v.mounts[pv][n]) + Unrecorded(v, pv, n)) * Capacity[pv]
  BY DEF Quota, v
<1> QED BY <1>2, <1>4, <1>5, <1>6

\* The room of a node is the sum of naturals.
LEMMA AllocableNat == ASSUME NEW n \in Nodes PROVE Allocable(n) \in Nat
<1> DEFINE disks == DisksOf[n]
           S == DOMAIN disks
           c == [s \in SUBSET S |-> Max(s)]
           h == [p \in Nat \X S |-> p[1] + disks[p[2]].allocable]
           IsSum(f) == f = [s \in SUBSET S |-> IF s = {} THEN 0
                                               ELSE f[s \ {Max(s)}] + disks[Max(s)].allocable]
           sum == CHOOSE f : IsSum(f)
<1>1. S \in SUBSET Int /\ IsFiniteSet(S) /\ \A i \in S : disks[i].allocable \in Nat
  <2>1. disks \in Seq([path : Disks, allocable : Nat, disabled : BOOLEAN])
    BY HostPathAssumption
  <2>2. Len(disks) \in Nat /\ S = 1..Len(disks)
    BY <2>1, LenProperties
  <2>3. \A i \in S : disks[i] \in [path : Disks, allocable : Nat, disabled : BOOLEAN]
    BY <2>1, <2>2, ElementOfSeq
  <2>4. IsFiniteSet(S) /\ S \in SUBSET Int
    BY <2>2, FS_Interval
  <2>5. \A i \in S : disks[i].allocable \in Nat
    BY <2>3
  <2> QED BY <2>4, <2>5
<1>2. \A s \in SUBSET S : s # {} => Max(s) \in s
  <2> TAKE s \in SUBSET S
  <2>1. IsFiniteSet(s) /\ s \in SUBSET Int
    BY <1>1, FS_Subset
  <2> QED BY <2>1, FiniteMax
<1>3. Takes(c, S)
  BY <1>2 DEF Takes
<1>4. h \in [Nat \X S -> Nat]
  BY <1>1
<1>5. \A f : Folds(f, h, c, 0, S) => \A s \in SUBSET S : f[s] \in Nat
  <2> HIDE DEF c, h, S
  <2> QED BY <1>1, <1>3, <1>4, FoldsType
<1>6. PICK f : Folds(f, h, c, 0, S)
  <2> HIDE DEF c, h, S
  <2> QED BY <1>1, <1>3, FoldsExist
<1>7. ASSUME NEW k, \A s \in SUBSET S : k[s] \in Nat, NEW s \in SUBSET S, s # {}
      PROVE  h[<<k[s \ {c[s]}], c[s]>>] = k[s \ {Max(s)}] + disks[Max(s)].allocable
  <2>1. c[s] = Max(s) /\ Max(s) \in S /\ s \ {Max(s)} \in SUBSET S
    BY <1>2, <1>7
  <2>2. <<k[s \ {Max(s)}], Max(s)>> \in Nat \X S
    BY <1>7, <2>1
  <2> QED BY <2>1, <2>2
<1>8. IsSum(f)
  <2>1. \A s \in SUBSET S : s # {} =>
          h[<<f[s \ {c[s]}], c[s]>>] = f[s \ {Max(s)}] + disks[Max(s)].allocable
    BY <1>5, <1>6, <1>7
  <2> HIDE DEF c, h, S
  <2> QED BY <1>6, <2>1 DEF Folds
<1>9. IsSum(sum)
  BY <1>8
<1>10. Allocable(n) = sum[S]
  BY DEF Allocable, FoldLeft, MapThenFoldSet
<1> DEFINE Q == { s \in SUBSET S : sum[s] \in Nat }
<1>11. ASSUME NEW s \in SUBSET S, \A u \in SUBSET s : u # s => u \in Q PROVE s \in Q
  <2> HIDE DEF sum
  <2>1. sum[s] = IF s = {} THEN 0 ELSE sum[s \ {Max(s)}] + disks[Max(s)].allocable
    BY <1>9
  <2>2. s # {} => sum[s \ {Max(s)}] \in Nat /\ Max(s) \in S
    BY <1>2, <1>11
  <2> QED BY <1>1, <2>1, <2>2
<1> HIDE DEF Q, S, sum
<1>12. S \in Q
  BY <1>1, <1>11, FiniteInduction
<1> QED BY <1>10, <1>12 DEF Q

\* A share in percent is a number, and grows with what is free.
LEMMA PercentNat ==
  ASSUME NEW n \in Nodes, NEW quota \in Nat
  PROVE  FreePercent(n, quota) \in Nat
<1> DEFINE allocable == IF n \in broken THEN 0 ELSE Allocable(n)
<1>1. allocable \in Nat
  BY AllocableNat
<1> HIDE DEF allocable
<1>2. CASE allocable <= quota
  BY <1>2 DEF FreePercent, allocable
<1>3. CASE ~(allocable <= quota)
  <2>1. 100 * (allocable - quota) \in Nat /\ allocable \in Nat \ {0}
    BY <1>1, <1>3
  <2>2. (100 * (allocable - quota)) \div allocable \in Nat
    BY <2>1, Quotient
  <2> QED BY <1>3, <2>2 DEF FreePercent, allocable
<1> QED BY <1>2, <1>3

LEMMA PercentMonotone ==
  ASSUME NEW a \in Nodes \ broken, NEW b \in Nodes \ broken, NEW s \in Nat, NEW t \in Nat,
         NotFuller(a, s, b, t)
  PROVE  FreePercent(a, s) >= FreePercent(b, t)
<1> DEFINE c == Allocable(a)
           d == Allocable(b)
<1>1. c \in Nat /\ d \in Nat
  BY AllocableNat
<1>2. /\ FreePercent(a, s) = IF c <= s THEN 0 ELSE (100 * (c - s)) \div c
      /\ FreePercent(b, t) = IF d <= t THEN 0 ELSE (100 * (d - t)) \div d
  BY DEF FreePercent
<1>3. FreePercent(a, s) \in Nat
  BY PercentNat
<1>4. LET x == IF s > c THEN 0 ELSE c - s
          y == IF t > d THEN 0 ELSE d - t
      IN  y = 0 \/ (c > 0 /\ x * d >= y * c)
  BY DEF NotFuller
<1> HIDE DEF c, d
<1>5. CASE d <= t
  BY <1>2, <1>3, <1>5
<1>6. CASE ~(d <= t)
  <2> DEFINE x == IF s > c THEN 0 ELSE c - s
             y == d - t
  <2>1. y \in Nat /\ y > 0 /\ x \in Nat /\ c > 0 /\ d > 0 /\ y * c <= x * d
    BY <1>1, <1>4, <1>6
  <2> HIDE DEF x, y
  <2>2. x # 0
    <3>1. SUFFICES ASSUME x = 0 PROVE FALSE
      OBVIOUS
    <3>2. y * c <= 0
      BY <1>1, <2>1, <3>1
    <3>3. 1 * c <= y * c
      BY <1>1, <2>1, TimesMonotone
    <3> QED BY <1>1, <2>1, <3>2, <3>3
  <2>3. ~(c <= s) /\ x = c - s
    BY <1>1, <2>1, <2>2 DEF x
  <2>4. (100 * y) * c <= (100 * x) * d
    <3>1. y * c \in Int /\ x * d \in Int
      BY <1>1, <2>1
    <3>2. (100 * y) * c = 100 * (y * c) /\ (100 * x) * d = 100 * (x * d)
      BY <1>1, <2>1
    <3> QED BY <2>1, <3>1, <3>2
  <2>5. (100 * y) \div d <= (100 * x) \div c
    <3>1. 100 * x \in Nat /\ 100 * y \in Nat /\ c \in Nat \ {0} /\ d \in Nat \ {0}
      BY <1>1, <2>1
    <3> QED BY <2>4, <3>1, QuotientMonotone
  <2>6. (100 * y) \div d \in Nat /\ (100 * x) \div c \in Nat
    BY <1>1, <2>1, Quotient
  <2> QED BY <1>2, <1>6, <2>3, <2>5, <2>6 DEF y
<1> QED BY <1>5, <1>6

\* The mark of a score is one of 0..10, and follows the score: upwards for
\* disk use, downwards for the spread.
Mark(part) ==
  CASE kind = "diskuse" /\ top > 0 -> Tenths(part)
    [] kind = "diskuse" /\ top = 0 -> 0
    [] kind = "spread" /\ top > 0 -> Tenths(top - part)
    [] kind = "spread" /\ top = 0 -> 10

LEMMA TenthsFit ==
  ASSUME NEW part \in Nat, top \in Nat, top > 0, part <= top
  PROVE  Tenths(part) \in 0..10
<1>1. 10 * part \in Nat /\ top \in Nat \ {0}
  OBVIOUS
<1>2. (10 * part) \div top \in Nat /\ ((10 * part) \div top) * top <= 10 * part
  BY <1>1, Quotient
<1> DEFINE q == (10 * part) \div top
<1>3. q \in Nat /\ q * top <= 10 * top
  BY <1>1, <1>2
<1> HIDE DEF q
<1>4. SUFFICES q <= 10
  BY <1>3 DEF Tenths, q
<1>5. SUFFICES ASSUME 11 <= q PROVE FALSE
  BY <1>3
<1>6. 11 * top <= q * top
  BY <1>3, <1>5, TimesMonotone
<1> QED BY <1>3, <1>6

LEMMA TenthsMonotone ==
  ASSUME NEW x \in Nat, NEW y \in Nat, top \in Nat, top > 0, y <= x
  PROVE  Tenths(x) >= Tenths(y)
<1>1. 10 * x \in Nat /\ 10 * y \in Nat /\ top \in Nat \ {0} /\ 10 * y <= 10 * x
  OBVIOUS
<1>2. (10 * y) * top <= (10 * x) * top
  BY <1>1, TimesMonotone
<1>3. (10 * y) \div top <= (10 * x) \div top
  BY <1>1, <1>2, QuotientMonotone
<1>4. (10 * y) \div top \in Nat /\ (10 * x) \div top \in Nat
  BY <1>1, Quotient
<1> QED BY <1>3, <1>4 DEF Tenths

LEMMA MarkFits ==
  ASSUME kind \in {"diskuse", "spread"}, top \in Nat, NEW part \in Nat, part <= top
  PROVE  Mark(part) \in 0..10
<1>1. top > 0 => Tenths(part) \in 0..10
  BY TenthsFit
<1>2. top - part \in Nat /\ top - part <= top
  OBVIOUS
<1>3. top > 0 => Tenths(top - part) \in 0..10
  BY <1>2, TenthsFit
<1>4. CASE top = 0
  BY <1>4 DEF Mark
<1>5. CASE top > 0
  BY <1>1, <1>3, <1>5 DEF Mark
<1> QED BY <1>4, <1>5

-----------------------------------------------------------------------------
(* The types and the scores, as a second invariant over the first.         *)

\* The volumes still to count have an entry in the list that was read.
Listing(n) ==
  kind = "diskuse" /\ job[n].left # {} =>
    \E w \in Views : job[n].snap = w.mounts /\ \A pv \in job[n].left : HasEntry(w, pv, n)

\* A goroutine is at one of its places, with volumes to count.
Placed(n) ==
  /\ job[n].pc \in {"none", "list", "count", "lock", "append", "leave", "done"}
  /\ job[n].left \subseteq Volumes

Typed ==
  /\ view \in Views /\ moved \in BOOLEAN /\ kind \in Kinds /\ pod \in Pods
  /\ broken \in BrokenSets
  /\ pc \in {"idle", "fork", "wait", "max", "scale", "sent", "aborted"}
  /\ mu \in Nodes \cup {NoNode}
  /\ list \in [Nodes -> IF pc = "sent" THEN 0..10 ELSE Nat]
  /\ pc = "scale" => top \in Nat /\ \A n \in Nodes : list[n] <= top
  /\ \A n \in Nodes : job[n].tally \in Nat /\ Listing(n) /\ Placed(n)

\* A slot holds what its goroutine has counted, from the moment it is written
\* until the scores are scaled.
Written ==
  pc \in {"fork", "wait", "max", "scale"} =>
    \A n \in Nodes : job[n].pc \in {"leave", "done"} => list[n] = RawScore(n)

\* An annotation that does not parse is an error.
Unparsed ==
  \A n \in Nodes : kind = "diskuse" /\ n \in broken /\ job[n].pc \notin {"none", "list"}
                     => job[n].failures # 0

\* What is sent are the marks of what was counted.
Marked ==
  pc = "sent" =>
    /\ top \in Nat
    /\ \A n \in Nodes : RawScore(n) \in Nat /\ RawScore(n) <= top /\ list[n] = Mark(RawScore(n))

RInv == IInv /\ Typed /\ Written /\ Unparsed /\ Marked

LEMMA RawNat ==
  ASSUME Typed, NEW n \in Nodes
  PROVE  RawScore(n) \in Nat
BY PercentNat DEF Typed, RawScore

\* What a step of a goroutine does to its tally and its slot.
Tallies(n) ==
  /\ job'[n].tally \in Nat
  /\ kind = "diskuse" /\ job'[n].left # {} =>
       \E w \in Views : job'[n].snap = w.mounts /\ \A pv \in job'[n].left : HasEntry(w, pv, n)
  /\ kind = "diskuse" /\ n \in broken /\ job'[n].pc \notin {"none", "list"} => job'[n].failures # 0
  /\ job'[n].left \subseteq Volumes
  /\ mu' \in Nodes \cup {NoNode}
  /\ UNCHANGED <<view, moved>>

Slots(n) ==
  \/ /\ UNCHANGED list
     /\ job'[n].pc \in {"leave", "done"} => job[n].pc = "leave" /\ job'[n].tally = job[n].tally
  \/ list' = [list EXCEPT ![n] = RawScore(n)] /\ job'[n].tally = job[n].tally

LEMMA GoroutineTallies ==
  ASSUME RInv, NEW n \in Nodes, Goroutine(n)
  PROVE  Tallies(n) /\ Slots(n)
<1> DEFINE j == job[n]
<1>0. /\ IsJob(j) /\ job = [m \in Nodes |-> job[m]] /\ (j.pc = "list" => j.failures = 0)
      /\ j.tally \in Nat /\ Listing(n) /\ j.failures \in Nat /\ j.left \subseteq Volumes /\ pod \in Pods
      /\ view \in Views /\ kind \in {"diskuse", "spread"} /\ mu \in Nodes \cup {NoNode}
      /\ (kind = "diskuse" /\ n \in broken /\ j.pc \notin {"none", "list"} => j.failures # 0)
  BY DEF RInv, IInv, Shape, Started, Reported, Typed, Unparsed, Placed
<1>1. CASE List(n)
  <2>0. j.pc = "list" /\ UNCHANGED <<view, moved, mu, list>>
    BY <1>1 DEF List
  <2>1. CASE kind = "diskuse" /\ n \in broken
    <3> DEFINE k == [j EXCEPT !.pc = "lock", !.failures = 1]
    <3>1. job'[n] = k
      BY <1>0, <1>1, <2>1 DEF List
    <3>2. k.pc = "lock" /\ k.failures = 1 /\ k.left = j.left /\ k.tally = j.tally /\ k.snap = j.snap
      BY <1>0 DEF IsJob, Fields
    <3> HIDE DEF k
    <3> QED BY <1>0, <2>0, <3>1, <3>2 DEF Tallies, Slots, Listing
  <2>2. CASE kind = "diskuse" /\ n \notin broken
    <3> DEFINE left == {pv \in view.bound \ Other : HasEntry(view, pv, n)}
               k == [j EXCEPT !.pc = "count", !.snap = view.mounts, !.left = left]
    <3>1. job'[n] = k
      BY <1>0, <1>1, <2>2 DEF List
    <3>2. k.pc = "count" /\ k.left = left /\ k.tally = j.tally /\ k.snap = view.mounts
      BY <1>0 DEF IsJob, Fields
    <3>3. (\A pv \in left : HasEntry(view, pv, n)) /\ left \subseteq Volumes
      BY <1>0, PrioritizeAssumption
    <3> HIDE DEF k, left
    <3> QED BY <1>0, <2>0, <2>2, <3>1, <3>2, <3>3 DEF Tallies, Slots
  <2>3. CASE kind = "spread"
    <3> DEFINE k == [j EXCEPT !.pc = "count", !.left = Range(VolumesOf[pod])]
    <3>1. job'[n] = k
      BY <1>0, <1>1, <2>3 DEF List
    <3>2. k.pc = "count" /\ k.tally = j.tally /\ k.left = Range(VolumesOf[pod])
      BY <1>0 DEF IsJob, Fields
    <3>3. Range(VolumesOf[pod]) \subseteq Volumes
      BY <1>0, HostPathAssumption, ListFinite
    <3> HIDE DEF k
    <3> QED BY <1>0, <2>0, <2>3, <3>1, <3>2, <3>3 DEF Tallies, Slots
  <2> QED BY <1>0, <2>1, <2>2, <2>3
<1>2. ASSUME NEW pv \in Volumes, CountVolume(n, pv)
      PROVE  Tallies(n) /\ Slots(n)
  <2>0. j.pc = "count" /\ UNCHANGED <<view, moved, mu, list>> /\ pv \in j.left
    BY <1>2 DEF CountVolume
  <2>1. CASE kind = "diskuse"
    <3> DEFINE k == [j EXCEPT !.left = j.left \ {pv}, !.tally = j.tally + Quota(n, pv)]
    <3>1. job'[n] = k
      BY <1>0, <1>2, <2>1 DEF CountVolume
    <3>2. /\ k.pc = j.pc /\ k.failures = j.failures /\ k.left = j.left \ {pv}
          /\ k.snap = j.snap /\ k.tally = j.tally + Quota(n, pv)
      BY <1>0 DEF IsJob, Fields
    <3>3. PICK w \in Views : j.snap = w.mounts /\ \A u \in j.left : HasEntry(w, u, n)
      BY <1>0, <2>0, <2>1 DEF Listing
    <3>4. Quota(n, pv) \in Nat
      BY <1>0, <2>0, <3>3, QuotaNat
    <3> HIDE DEF k
    <3> QED BY <1>0, <2>0, <3>1, <3>2, <3>3, <3>4 DEF Tallies, Slots
  <2>2. CASE kind = "spread" /\ pv \in view.bound
    <3> DEFINE k == [j EXCEPT !.left = j.left \ {pv}, !.tally = j.tally + Users(n, pv)]
    <3>1. job'[n] = k
      BY <1>0, <1>2, <2>2 DEF CountVolume
    <3>2. k.pc = j.pc /\ k.tally = j.tally + Users(n, pv) /\ k.left = j.left \ {pv}
      BY <1>0 DEF IsJob, Fields
    <3> HIDE DEF k
    <3> QED BY <1>0, <2>0, <2>2, <3>1, <3>2, UsersNat DEF Tallies, Slots
  <2>3. CASE kind = "spread" /\ pv \notin view.bound
    <3> DEFINE k == [j EXCEPT !.left = j.left \ {pv}, !.pc = "lock", !.failures = j.failures + 1]
    <3>1. job'[n] = k
      BY <1>0, <1>2, <2>3 DEF CountVolume
    <3>2. k.pc = "lock" /\ k.tally = j.tally /\ k.left = j.left \ {pv}
      BY <1>0 DEF IsJob, Fields
    <3> HIDE DEF k
    <3> QED BY <1>0, <2>0, <2>3, <3>1, <3>2 DEF Tallies, Slots
  <2> QED BY <1>0, <2>1, <2>2, <2>3
<1>3. CASE Lock(n)
  <2> DEFINE k == [j EXCEPT !.pc = "append", !.copy = errs]
  <2>1. job'[n] = k /\ j.pc = "lock" /\ mu' = n /\ UNCHANGED <<view, moved, list>>
    BY <1>0, <1>3 DEF Lock
  <2>2. k.pc = "append" /\ k.failures = j.failures /\ k.left = j.left /\ k.tally = j.tally /\ k.snap = j.snap
    BY <1>0 DEF IsJob, Fields
  <2> HIDE DEF k
  <2> QED BY <1>0, <2>1, <2>2 DEF Tallies, Slots, Listing
<1>4. CASE AppendError(n)
  <2> DEFINE k == [j EXCEPT !.pc = "count", !.copy = <<>>]
  <2>1. job'[n] = k /\ j.pc = "append" /\ mu' = NoNode /\ UNCHANGED <<view, moved, list>>
    BY <1>0, <1>4 DEF AppendError
  <2>2. k.pc = "count" /\ k.failures = j.failures /\ k.left = j.left /\ k.tally = j.tally /\ k.snap = j.snap
    BY <1>0 DEF IsJob, Fields
  <2> HIDE DEF k
  <2> QED BY <1>0, <2>1, <2>2 DEF Tallies, Slots, Listing
<1>5. CASE Score(n)
  <2> DEFINE k == [j EXCEPT !.pc = "leave"]
  <2>1. /\ job'[n] = k /\ j.pc = "count" /\ UNCHANGED <<view, moved, mu>>
        /\ list' = [list EXCEPT ![n] = RawScore(n)]
    BY <1>0, <1>5 DEF Score
  <2>2. k.pc = "leave" /\ k.failures = j.failures /\ k.left = j.left /\ k.tally = j.tally /\ k.snap = j.snap
    BY <1>0 DEF IsJob, Fields
  <2> HIDE DEF k
  <2> QED BY <1>0, <2>1, <2>2 DEF Tallies, Slots, Listing
<1>6. CASE Leave(n)
  <2> DEFINE k == [j EXCEPT !.pc = "done"]
  <2>1. job'[n] = k /\ j.pc = "leave" /\ UNCHANGED <<view, moved, mu, list>>
    BY <1>0, <1>6 DEF Leave
  <2>2. k.pc = "done" /\ k.failures = j.failures /\ k.left = j.left /\ k.tally = j.tally /\ k.snap = j.snap
    BY <1>0 DEF IsJob, Fields
  <2> HIDE DEF k
  <2> QED BY <1>0, <2>1, <2>2 DEF Tallies, Slots, Listing
<1> QED BY <1>1, <1>2, <1>3, <1>4, <1>5, <1>6 DEF Goroutine

LEMMA GoroutineRanks ==
  ASSUME RInv, NEW n \in Nodes, Goroutine(n)
  PROVE  RInv'
<1>1. IInv' /\ Replaces(n) /\ UNCHANGED handler
  BY Goroutines, GoroutineKeeps DEF RInv
<1>2. Tallies(n) /\ Slots(n)
  BY GoroutineTallies
<1>3. /\ UNCHANGED <<kind, pod, broken, pc, top, view, moved>>
      /\ \A m \in Nodes \ {n} : job'[m] = job[m]
  BY <1>1, <1>2 DEF handler, Tallies, Replaces
<1>4. pc \in {"fork", "wait"}
  <2>1. job[n].pc \notin {"none", "done"}
    BY Goroutines DEF RInv, Walks, Stumbles, Locks, Appends, Leaves
  <2> QED BY <2>1 DEF RInv, IInv, Joined, Working, Typed
<1>5. RawScore(n) \in Nat
  BY RawNat DEF RInv
<1>6. \A m \in Nodes : job'[m].tally = job[m].tally => RawScore(m)' = RawScore(m)
  BY <1>3 DEF RawScore, FreePercent
<1>7. Typed'
  <2>1. list' \in [Nodes -> Nat]
    BY <1>2, <1>4, <1>5 DEF RInv, Typed, Slots
  <2>2. \A m \in Nodes : job'[m].tally \in Nat /\ Listing(m)'
    BY <1>2, <1>3 DEF RInv, Typed, Tallies, Listing
  <2>3. Placed(n)'
    <3>1. job'[n].pc \in {"count", "lock", "append", "leave", "done"}
      BY Goroutines DEF RInv, Walks, Stumbles, Locks, Appends, Leaves
    <3> QED BY <1>2, <3>1 DEF Tallies, Placed
  <2>4. \A m \in Nodes : Placed(m)'
    BY <1>3, <2>3 DEF RInv, Typed, Placed
  <2> QED BY <2>4, <1>2, <1>3, <1>4, <2>1, <2>2 DEF RInv, Typed, Tallies
<1>8. Written'
  <2> SUFFICES ASSUME NEW m \in Nodes, job'[m].pc \in {"leave", "done"}
               PROVE  list'[m] = RawScore(m)'
    BY DEF Written
  <2>1. list \in [Nodes -> Nat]
    BY <1>4 DEF RInv, Typed
  <2>2. job[m].pc \in {"leave", "done"} => list[m] = RawScore(m)
    BY <1>4 DEF RInv, Written
  <2>3. CASE m # n
    BY <1>2, <1>3, <1>6, <2>1, <2>2, <2>3 DEF Slots
  <2>4. CASE m = n
    BY <1>2, <1>6, <2>1, <2>2, <2>4 DEF Slots
  <2> QED BY <2>3, <2>4
<1>9. Unparsed'
  BY <1>2, <1>3 DEF RInv, Unparsed, Tallies
<1>10. Marked'
  BY <1>3, <1>4 DEF Marked
<1> QED BY <1>1, <1>7, <1>8, <1>9, <1>10 DEF RInv

LEMMA ForkRanks ==
  ASSUME RInv, NEW n \in Nodes, Fork(n)
  PROVE  RInv'
<1> DEFINE k == [job[n] EXCEPT !.pc = "list"]
<1>0. IsJob(job[n]) /\ job = [m \in Nodes |-> job[m]] /\ IInv'
  BY ForkKeeps DEF RInv, IInv, Shape
<1>1. /\ job' = [job EXCEPT ![n] = k] /\ pc = "fork" /\ pc' \in {"fork", "wait"} /\ job[n].pc = "none"
      /\ UNCHANGED <<view, moved, kind, pod, broken, mu, list, top>>
  BY DEF Fork
<1>2. k.pc = "list" /\ k.left = job[n].left /\ k.tally = job[n].tally /\ k.snap = job[n].snap
  BY <1>0 DEF IsJob, Fields
<1> HIDE DEF k
<1>3. job'[n] = k /\ \A m \in Nodes \ {n} : job'[m] = job[m]
  BY <1>0, <1>1
<1>4. \A m \in Nodes : /\ job'[m].tally = job[m].tally /\ job'[m].left = job[m].left
                       /\ job'[m].snap = job[m].snap /\ RawScore(m)' = RawScore(m)
  <2>1. \A m \in Nodes : /\ job'[m].tally = job[m].tally /\ job'[m].left = job[m].left
                         /\ job'[m].snap = job[m].snap
    BY <1>2, <1>3
  <2> QED BY <1>1, <2>1 DEF RawScore, FreePercent
<1>5. Typed'
  <2>1. \A m \in Nodes : Listing(m)' /\ job'[m].tally \in Nat /\ Placed(m)'
    BY <1>1, <1>2, <1>3, <1>4 DEF RInv, Typed, Listing, Placed
  <2> QED BY <1>1, <2>1 DEF RInv, Typed
<1>6. Written' /\ Marked'
  BY <1>1, <1>2, <1>3, <1>4 DEF RInv, Written, Marked
<1>7. Unparsed'
  BY <1>1, <1>2, <1>3 DEF RInv, Unparsed
<1> QED BY <1>0, <1>5, <1>6, <1>7 DEF RInv

\* The handler after the wait: nothing of the goroutines changes.
LEMMA HandlerRanks ==
  ASSUME RInv, Wait \/ FindMax \/ Scale
  PROVE  RInv'
<1>0. IInv'
  BY WaitKeeps, AnswerKeeps DEF RInv
<1>1. UNCHANGED <<view, moved, kind, pod, broken, mu, job>>
  BY DEF Wait, FindMax, Scale
<1>2. \A n \in Nodes : RawScore(n)' = RawScore(n) /\ (Listing(n)' <=> Listing(n)) /\ (Placed(n)' <=> Placed(n))
  BY <1>1 DEF RawScore, FreePercent, Listing, Placed
<1>3. Unparsed'
  BY <1>1 DEF RInv, Unparsed
<1>4. CASE Wait
  <2>1. pc = "wait" /\ pc' \in {"max", "aborted"} /\ UNCHANGED <<list, top>>
    BY <1>4 DEF Wait
  <2>2. Typed'
    BY <1>1, <1>2, <2>1 DEF RInv, Typed
  <2>3. Written' /\ Marked'
    BY <1>1, <1>2, <2>1 DEF RInv, Written, Marked
  <2> QED BY <1>0, <1>3, <2>2, <2>3 DEF RInv
<1>5. CASE FindMax
  <2>1. pc = "max" /\ pc' = "scale" /\ UNCHANGED list /\ top' = Max({0} \cup {list[n] : n \in Nodes})
    BY <1>5 DEF FindMax
  <2>2. list \in [Nodes -> Nat]
    BY <2>1 DEF RInv, Typed
  <2> DEFINE S == {0} \cup {list[n] : n \in Nodes}
  <2>3. S \in SUBSET Nat /\ S # {} /\ \A n \in Nodes : list[n] \in S
    BY <2>2
  <2>4. IsFiniteSet(S)
    <3> DEFINE R == {list[n] : n \in Nodes}
    <3>1. list \in Surjection(Nodes, R)
      BY <2>2 DEF Surjection
    <3>2. IsFiniteSet(R)
      BY <3>1, FS_Surjection, PrioritizeAssumption
    <3>3. IsFiniteSet(R \cup {0})
      BY <3>2, FS_AddElement
    <3>4. S = R \cup {0}
      OBVIOUS
    <3> QED BY <3>3, <3>4
  <2> HIDE DEF S
  <2>5. Max(S) \in S /\ \A x \in S : x <= Max(S)
    BY <2>3, <2>4, FiniteMax
  <2>6. top' \in Nat /\ \A n \in Nodes : list[n] <= top'
    BY <2>1, <2>3, <2>5 DEF S
  <2>7. Typed'
    BY <1>1, <1>2, <2>1, <2>2, <2>6 DEF RInv, Typed
  <2>8. Written' /\ Marked'
    BY <1>1, <1>2, <2>1 DEF RInv, Written, Marked
  <2> QED BY <1>0, <1>3, <2>7, <2>8 DEF RInv
<1>6. CASE Scale
  <2>1. pc = "scale" /\ pc' = "sent" /\ UNCHANGED top /\ list' = [n \in Nodes |-> Scaled(n)]
    BY <1>6 DEF Scale
  <2>2. /\ list \in [Nodes -> Nat] /\ top \in Nat /\ \A n \in Nodes : list[n] <= top
        /\ kind \in {"diskuse", "spread"}
    BY <2>1 DEF RInv, Typed, IInv, Shape
  <2>3. \A n \in Nodes : list[n] = RawScore(n)
    <3>1. AnswerWhole
      BY InvAnswers DEF RInv
    <3> QED BY <2>1, <3>1 DEF RInv, Written, AnswerWhole
  <2>4. \A n \in Nodes : Scaled(n) = Mark(RawScore(n))
    BY <2>3 DEF Scaled, Mark
  <2>5. \A n \in Nodes : Mark(RawScore(n)) \in 0..10
    BY <2>2, <2>3, MarkFits
  <2>6. \A n \in Nodes : Mark(RawScore(n))' = Mark(RawScore(n))
    BY <1>1, <1>2, <2>1 DEF Mark, Tenths
  <2>7. list' \in [Nodes -> 0..10] /\ \A n \in Nodes : list'[n] = Mark(RawScore(n))'
    BY <2>1, <2>4, <2>5, <2>6
  <2>8. Typed'
    BY <1>1, <1>2, <2>1, <2>7 DEF RInv, Typed
  <2>9. Marked'
    BY <1>2, <2>1, <2>2, <2>3, <2>7 DEF Marked
  <2>10. Written'
    BY <2>1 DEF Written
  <2> QED BY <1>0, <1>3, <2>8, <2>9, <2>10 DEF RInv
<1> QED BY <1>4, <1>5, <1>6

LEMMA StartRanks ==
  ASSUME \A n \in Nodes : job[n] = NoJob /\ list[n] = 0, list = [n \in Nodes |-> list[n]],
         view \in Views, moved \in BOOLEAN, kind \in Kinds, pod \in Pods, broken \in BrokenSets,
         mu \in Nodes \cup {NoNode}, pc \in {"idle", "fork"}, IInv
  PROVE  RInv
<1>1. \A n \in Nodes : job[n].pc = "none" /\ job[n].left = {} /\ job[n].tally = 0
  BY DEF NoJob
<1>2. Typed
  BY <1>1 DEF Typed, Listing, Placed
<1> QED BY <1>1, <1>2 DEF RInv, Written, Unparsed, Marked

LEMMA InitRInv == Init => RInv
<1> SUFFICES ASSUME Init PROVE RInv
  OBVIOUS
<1>1. IInv
  BY InitIInv
<1> QED BY <1>1, StartRanks DEF Init

LEMMA BeginRanks ==
  ASSUME RInv, NEW k \in Kinds, NEW p \in Pods, NEW unread \in BrokenSets, Begin(k, p, unread)
  PROVE  RInv'
<1>0. IInv'
  BY BeginKeeps DEF RInv
<1>1. /\ kind' \in Kinds /\ pod' \in Pods /\ broken' \in BrokenSets /\ pc' = "fork" /\ moved' = FALSE
      /\ \A n \in Nodes : job'[n] = NoJob
      /\ list' = [n \in Nodes |-> 0] /\ UNCHANGED <<view, mu>>
  BY DEF Begin
<1>2. \A n \in Nodes : job'[n].pc = "none" /\ job'[n].left = {} /\ job'[n].tally = 0
  BY <1>1 DEF NoJob
<1>3. Typed'
  <2>1. \A n \in Nodes : job'[n].tally \in Nat /\ Listing(n)' /\ Placed(n)'
    BY <1>2 DEF Listing, Placed
  <2>2. list' \in [Nodes -> Nat] /\ view' \in Views /\ mu' \in Nodes \cup {NoNode}
    BY <1>1 DEF RInv, Typed
  <2> QED BY <1>1, <2>1, <2>2 DEF Typed
<1>4. Written' /\ Unparsed'
  BY <1>2 DEF Written, Unparsed
<1>5. Marked'
  BY <1>1 DEF Marked
<1> QED BY <1>0, <1>3, <1>4, <1>5 DEF RInv

LEMMA NextRInv == RInv /\ [Next]_vars => RInv'
<1> SUFFICES ASSUME RInv, [Next]_vars PROVE RInv'
  OBVIOUS
<1>0. IInv'
  BY NextIInv DEF RInv
<1>1. CASE CachesMove \/ UNCHANGED vars
  <2>1. /\ UNCHANGED <<kind, pod, broken, pc, top, list, job, mu>>
        /\ view' \in Views /\ moved' \in BOOLEAN
    BY <1>1 DEF CachesMove, vars, handler, RInv, Typed
  <2>2. \A n \in Nodes : RawScore(n)' = RawScore(n) /\ (Listing(n)' <=> Listing(n)) /\ (Placed(n)' <=> Placed(n))
    BY <2>1 DEF RawScore, FreePercent, Listing, Placed
  <2>3. Typed'
    BY <2>1, <2>2 DEF RInv, Typed
  <2>4. Written' /\ Unparsed'
    BY <2>1, <2>2 DEF RInv, Written, Unparsed
  <2>5. Marked'
    BY <2>1, <2>2 DEF RInv, Marked, Mark, Tenths
  <2> QED BY <1>0, <2>3, <2>4, <2>5 DEF RInv
<1>2. ASSUME NEW k \in Kinds, NEW p \in Pods, NEW unread \in BrokenSets, Begin(k, p, unread)
      PROVE  RInv'
  BY <1>2, BeginRanks
<1>3. CASE Handle
  <2>1. ASSUME NEW n \in Nodes, Fork(n) PROVE RInv'
    BY <2>1, ForkRanks
  <2> QED BY <1>3, <2>1, HandlerRanks DEF Handle
<1>4. ASSUME NEW n \in Nodes, Goroutine(n) PROVE RInv'
  BY <1>4, GoroutineRanks
<1> QED BY <1>1, <1>2, <1>3, <1>4 DEF Next

-----------------------------------------------------------------------------
LEMMA Ranks == Spec => []RInv
BY InitRInv, NextRInv, PTL DEF Spec

\* The types of a call, whatever the caches hold and however many nodes it
\* has: each goroutine holds what its place says, the WaitGroup counts those
\* that work, and what is sent is one of 0..10.
THEOREM TypeCorrect == Spec => []TypeOK
<1>1. RInv => TypeOK
  <2> SUFFICES ASSUME RInv PROVE TypeOK
    OBVIOUS
  <2>1. \A n \in Nodes : JobOK(n)
    BY DEF RInv, IInv, Started, Reported, Exclusive, Typed, Placed, Listing, JobOK
  <2> QED BY <2>1 DEF RInv, IInv, Shape, Counted, Working, Typed, TypeOK
<1> QED BY <1>1, Ranks, PTL

LEMMA ReadingIsRanked == RInv => RankedByReading
<1> SUFFICES ASSUME RInv, pc = "sent", NEW a \in Nodes, NEW b \in Nodes,
                    IF kind = "diskuse" THEN NotFuller(a, job[a].tally, b, job[b].tally)
                                        ELSE job[a].tally <= job[b].tally
             PROVE  list[a] >= list[b]
  BY DEF RankedByReading
<1>1. /\ top \in Nat /\ kind \in {"diskuse", "spread"}
      /\ \A n \in Nodes : /\ RawScore(n) \in Nat /\ RawScore(n) <= top
                          /\ list[n] = Mark(RawScore(n)) /\ job[n].tally \in Nat
  BY DEF RInv, Marked, Typed, IInv, Shape
<1>2. kind = "diskuse" => a \notin broken /\ b \notin broken
  <2>1. \A n \in Nodes : job[n].pc = "done" /\ job[n].failures = 0
    BY InvAnswers DEF RInv, AnswerWhole
  <2> QED BY <2>1 DEF RInv, Unparsed
<1>3. CASE top = 0
  BY <1>1, <1>3 DEF Mark
<1>4. CASE top > 0 /\ kind = "diskuse"
  <2>1. RawScore(a) >= RawScore(b)
    BY <1>1, <1>2, <1>4, PercentMonotone DEF RawScore
  <2>2. Tenths(RawScore(a)) >= Tenths(RawScore(b))
    BY <1>1, <1>4, <2>1, TenthsMonotone
  <2> QED BY <1>1, <1>4, <2>2 DEF Mark
<1>5. CASE top > 0 /\ kind = "spread"
  <2>1. RawScore(a) <= RawScore(b)
    BY <1>5 DEF RawScore
  <2>2. top - RawScore(a) \in Nat /\ top - RawScore(b) \in Nat /\ top - RawScore(b) <= top - RawScore(a)
    BY <1>1, <2>1
  <2>3. Tenths(top - RawScore(a)) >= Tenths(top - RawScore(b))
    BY <1>1, <1>5, <2>2, TenthsMonotone
  <2> QED BY <1>1, <1>5, <2>3 DEF Mark
<1> QED BY <1>1, <1>3, <1>4, <1>5

\* The scores of both functions rank the nodes as they were read, for any
\* nodes, disks and caches: what the rounding of the percentage and of the
\* scaling to 0..10 may do is to make two nodes equal.
THEOREM ReadingRanks == Spec => []RankedByReading
BY ReadingIsRanked, Ranks, PTL

-----------------------------------------------------------------------------
(* The true ranking: while the caches stand still, the goroutines' tallies *)
(* are the sums the properties name.                                       *)

\* The volumes a goroutine has to count on node n, and what each is worth.
All(n) == IF kind = "diskuse" THEN {pv \in view.bound : HasEntry(view, pv, n)} ELSE Range(VolumesOf[pod])

Share(n) ==
  [pv \in All(n) |->
     IF kind = "diskuse"
     THEN (Cardinality(view.mounts[pv][n]) + Unrecorded(view, pv, n)) * Capacity[pv]
     ELSE Users(n, pv)]

\* Without an error, the tally is the sum over the volumes not left.
Exact(n) ==
  ~moved /\ Other = {} /\ job[n].failures = 0 /\ job[n].pc \in {"count", "leave", "done"} =>
    /\ job[n].left \subseteq All(n)
    /\ job[n].pc # "count" => job[n].left = {}
    /\ kind = "diskuse" => job[n].snap = view.mounts
    /\ job[n].tally = SumOf(Share(n), All(n) \ job[n].left)

Untouched(n) == job[n].pc \in {"none", "list"} => job[n].tally = 0

TInv == RInv /\ \A n \in Nodes : Exact(n) /\ Untouched(n)

LEMMA ShareNat ==
  ASSUME Typed, NEW n \in Nodes
  PROVE  IsFiniteSet(All(n)) /\ All(n) \subseteq Volumes /\ \A pv \in All(n) : Share(n)[pv] \in Nat
<1>1. view \in Views /\ pod \in Pods /\ kind \in {"diskuse", "spread"}
  BY PrioritizeAssumption DEF Typed
<1>2. CASE kind = "diskuse"
  <2>1. All(n) \subseteq view.bound /\ \A pv \in All(n) : HasEntry(view, pv, n)
    BY <1>2 DEF All
  <2>2. IsFiniteSet(All(n)) /\ All(n) \subseteq Volumes
    BY <1>1, <2>1, PrioritizeAssumption, FS_Subset
  <2> SUFFICES ASSUME NEW pv \in All(n) PROVE Share(n)[pv] \in Nat
    BY <2>2
  <2>3. Cardinality(view.mounts[pv][n]) \in Nat
    BY <1>1, <2>1, <2>2, PrioritizeAssumption, FS_CardinalityType
  <2>4. Cardinality(ReadyUsersOn(view, pv, n)) \in Nat
    BY UsersCounted
  <2>5. Unrecorded(view, pv, n) \in Nat
    BY <2>3, <2>4 DEF Unrecorded
  <2>6. Capacity[pv] \in Nat
    BY <2>2, HostPathAssumption
  <2>7. Share(n)[pv] = (Cardinality(view.mounts[pv][n]) + Unrecorded(view, pv, n)) * Capacity[pv]
    BY <1>2 DEF Share
  <2> QED BY <2>3, <2>5, <2>6, <2>7
<1>3. CASE kind = "spread"
  <2>1. All(n) = Range(VolumesOf[pod]) /\ VolumesOf[pod] \in Seq(Volumes)
    BY <1>1, <1>3, HostPathAssumption DEF All
  <2>2. IsFiniteSet(All(n)) /\ All(n) \subseteq Volumes
    BY <2>1, ListFinite
  <2> QED BY <1>3, <2>2, UsersNat DEF Share
<1> QED BY <1>1, <1>2, <1>3

\* One volume more.
LEMMA ShareCounted ==
  ASSUME Typed, NEW n \in Nodes, NEW left \in SUBSET All(n), NEW pv \in left
  PROVE  SumOf(Share(n), All(n) \ (left \ {pv})) = SumOf(Share(n), All(n) \ left) + Share(n)[pv]
<1> DEFINE rest == All(n) \ (left \ {pv})
<1>1. pv \in rest /\ rest \ {pv} = All(n) \ left /\ rest \subseteq All(n)
  OBVIOUS
<1>2. IsFiniteSet(rest) /\ (\A x \in rest : Share(n)[x] \in Nat) /\ IsFiniteSet(All(n) \ left)
      /\ \A x \in All(n) \ left : Share(n)[x] \in Nat
  BY <1>1, ShareNat, FS_Subset
<1> HIDE DEF rest
<1>3. SumOf(Share(n), rest) = Share(n)[pv] + SumOf(Share(n), rest \ {pv})
  BY <1>1, <1>2, SumRemove
<1>4. SumOf(Share(n), All(n) \ left) \in Nat
  BY <1>2, SumNat
<1>5. Share(n)[pv] \in Nat
  BY <1>1, <1>2
<1>6. SumOf(Share(n), rest) = Share(n)[pv] + SumOf(Share(n), All(n) \ left)
  BY <1>1, <1>3
<1>7. SumOf(Share(n), rest) = SumOf(Share(n), All(n) \ left) + Share(n)[pv]
  BY <1>4, <1>5, <1>6
<1> QED BY <1>7 DEF rest

\* What the goroutine's readings leave as they are.
LEMMA ExactStays ==
  ASSUME NEW n, UNCHANGED <<view, moved, kind, pod>>
  PROVE  All(n)' = All(n) /\ Share(n)' = Share(n)
<1>1. All(n)' = All(n)
  BY DEF All
<1> QED BY <1>1 DEF Share, Users

LEMMA GoroutineExact ==
  ASSUME TInv, NEW n \in Nodes, Goroutine(n)
  PROVE  (Exact(n) /\ Untouched(n))'
<1> DEFINE j == job[n]
<1>0. /\ IsJob(j) /\ job = [m \in Nodes |-> job[m]] /\ j.failures \in Nat /\ Typed
      /\ view \in Views /\ kind \in {"diskuse", "spread"} /\ Untouched(n) /\ Exact(n)
  BY DEF TInv, RInv, IInv, Shape, Reported, Typed
<1>1. /\ UNCHANGED <<view, moved, kind, pod>> /\ Replaces(n)
      /\ Walks(n) \/ Stumbles(n) \/ Locks(n) \/ Appends(n) \/ Leaves(n)
  BY Goroutines, GoroutineTallies DEF TInv, RInv, handler, Tallies
<1>2. All(n)' = All(n) /\ Share(n)' = Share(n)
  BY <1>1, ExactStays
<1>3. Untouched(n)'
  BY <1>1 DEF Untouched, Walks, Stumbles, Locks, Appends, Leaves
<1> SUFFICES ASSUME ~moved, Other = {}, job'[n].failures = 0, job'[n].pc \in {"count", "leave", "done"}
             PROVE  /\ job'[n].left \subseteq All(n)
                    /\ job'[n].pc # "count" => job'[n].left = {}
                    /\ kind = "diskuse" => job'[n].snap = view.mounts
                    /\ job'[n].tally = SumOf(Share(n), All(n) \ job'[n].left)
  BY <1>1, <1>2, <1>3 DEF Exact
<1>4. CASE List(n)
  <2>0. j.pc = "list" /\ j.tally = 0
    BY <1>0, <1>4 DEF List, Untouched
  <2>1. SumOf(Share(n), All(n) \ All(n)) = 0
    <3>1. All(n) \ All(n) = {}
      OBVIOUS
    <3> QED BY <3>1, SumStep, FS_EmptySet
  <2>2. CASE kind = "diskuse" /\ n \in broken
    <3> DEFINE k == [j EXCEPT !.pc = "lock", !.failures = 1]
    <3>1. job'[n] = k
      BY <1>0, <1>4, <2>2 DEF List
    <3>2. k.failures = 1
      BY <1>0 DEF IsJob, Fields
    <3> QED BY <3>1, <3>2
  <2>3. CASE kind = "diskuse" /\ n \notin broken
    <3> DEFINE left == {pv \in view.bound \ Other : HasEntry(view, pv, n)}
               k == [j EXCEPT !.pc = "count", !.snap = view.mounts, !.left = left]
    <3>1. job'[n] = k
      BY <1>0, <1>4, <2>3 DEF List
    <3>2. k.pc = "count" /\ k.left = left /\ k.tally = j.tally /\ k.snap = view.mounts
      BY <1>0 DEF IsJob, Fields
    <3>3. left = All(n)
      BY <2>3 DEF All
    <3> HIDE DEF k, left
    <3> QED BY <2>0, <2>1, <3>1, <3>2, <3>3
  <2>4. CASE kind = "spread"
    <3> DEFINE k == [j EXCEPT !.pc = "count", !.left = Range(VolumesOf[pod])]
    <3>1. job'[n] = k
      BY <1>0, <1>4, <2>4 DEF List
    <3>2. k.pc = "count" /\ k.left = Range(VolumesOf[pod]) /\ k.tally = j.tally
      BY <1>0 DEF IsJob, Fields
    <3>3. Range(VolumesOf[pod]) = All(n)
      BY <2>4 DEF All
    <3> HIDE DEF k
    <3> QED BY <2>0, <2>1, <2>4, <3>1, <3>2, <3>3
  <2> QED BY <1>0, <2>2, <2>3, <2>4
<1>5. ASSUME NEW pv \in Volumes, CountVolume(n, pv)
      PROVE  /\ job'[n].left \subseteq All(n)
             /\ job'[n].pc # "count" => job'[n].left = {}
             /\ kind = "diskuse" => job'[n].snap = view.mounts
             /\ job'[n].tally = SumOf(Share(n), All(n) \ job'[n].left)
  <2>0. j.pc = "count" /\ pv \in j.left
    BY <1>5 DEF CountVolume
  <2>1. CASE kind = "diskuse"
    <3> DEFINE k == [j EXCEPT !.left = j.left \ {pv}, !.tally = j.tally + Quota(n, pv)]
    <3>1. job'[n] = k
      BY <1>0, <1>5, <2>1 DEF CountVolume
    <3>2. /\ k.pc = j.pc /\ k.failures = j.failures /\ k.left = j.left \ {pv}
          /\ k.snap = j.snap /\ k.tally = j.tally + Quota(n, pv)
      BY <1>0 DEF IsJob, Fields
    <3> HIDE DEF k
    <3>3. /\ j.left \subseteq All(n) /\ j.snap = view.mounts
          /\ j.tally = SumOf(Share(n), All(n) \ j.left)
      BY <1>0, <2>0, <2>1, <3>1, <3>2 DEF Exact
    <3>4. [view EXCEPT !.mounts = job[n].snap] = view
      BY <1>0, <3>3, PrioritizeAssumption
    <3>5. Quota(n, pv) = (Cardinality(view.mounts[pv][n]) + Unrecorded(view, pv, n)) * Capacity[pv]
      BY <3>4 DEF Quota
    <3>6. Quota(n, pv) = Share(n)[pv]
      BY <2>0, <2>1, <3>3, <3>5 DEF Share
    <3>7. SumOf(Share(n), All(n) \ (j.left \ {pv})) = SumOf(Share(n), All(n) \ j.left) + Share(n)[pv]
      BY <1>0, <2>0, <3>3, ShareCounted
    <3> QED BY <2>0, <3>1, <3>2, <3>3, <3>6, <3>7
  <2>2. CASE kind = "spread" /\ pv \in view.bound
    <3> DEFINE k == [j EXCEPT !.left = j.left \ {pv}, !.tally = j.tally + Users(n, pv)]
    <3>1. job'[n] = k
      BY <1>0, <1>5, <2>2 DEF CountVolume
    <3>2. /\ k.pc = j.pc /\ k.failures = j.failures /\ k.left = j.left \ {pv}
          /\ k.tally = j.tally + Users(n, pv)
      BY <1>0 DEF IsJob, Fields
    <3> HIDE DEF k
    <3>3. j.left \subseteq All(n) /\ j.tally = SumOf(Share(n), All(n) \ j.left)
      BY <1>0, <2>0, <3>1, <3>2 DEF Exact
    <3>4. Users(n, pv) = Share(n)[pv]
      BY <2>0, <2>2, <3>3 DEF Share
    <3>5. SumOf(Share(n), All(n) \ (j.left \ {pv})) = SumOf(Share(n), All(n) \ j.left) + Share(n)[pv]
      BY <1>0, <2>0, <3>3, ShareCounted
    <3> QED BY <2>0, <2>2, <3>1, <3>2, <3>3, <3>4, <3>5
  <2>3. CASE kind = "spread" /\ pv \notin view.bound
    <3> DEFINE k == [j EXCEPT !.left = j.left \ {pv}, !.pc = "lock", !.failures = j.failures + 1]
    <3>1. job'[n] = k
      BY <1>0, <1>5, <2>3 DEF CountVolume
    <3>2. k.pc = "lock"
      BY <1>0 DEF IsJob, Fields
    <3> QED BY <3>1, <3>2
  <2> QED BY <1>0, <2>1, <2>2, <2>3
<1>6. CASE Lock(n) \/ AppendError(n)
  <2>1. j.pc \in {"lock", "append"}
    BY <1>6 DEF Lock, AppendError
  <2>2. Occurs(n) \in Nat /\ j.failures = Occurs(n) + 1
    BY <2>1, OccursNat DEF TInv, RInv, IInv, Shape, Reported, Reporting
  <2>3. job'[n].failures = j.failures
    BY <1>1, <2>1 DEF Walks, Stumbles, Locks, Appends, Leaves
  <2> QED BY <2>2, <2>3
<1>7. CASE Score(n)
  <2> DEFINE k == [j EXCEPT !.pc = "leave"]
  <2>1. job'[n] = k /\ j.pc = "count" /\ j.left = {}
    BY <1>0, <1>7 DEF Score
  <2>2. k.pc = "leave" /\ k.failures = j.failures /\ k.left = j.left /\ k.tally = j.tally /\ k.snap = j.snap
    BY <1>0 DEF IsJob, Fields
  <2> HIDE DEF k
  <2> QED BY <1>0, <2>1, <2>2 DEF Exact
<1>8. CASE Leave(n)
  <2> DEFINE k == [j EXCEPT !.pc = "done"]
  <2>1. job'[n] = k /\ j.pc = "leave"
    BY <1>0, <1>8 DEF Leave
  <2>2. k.pc = "done" /\ k.failures = j.failures /\ k.left = j.left /\ k.tally = j.tally /\ k.snap = j.snap
    BY <1>0 DEF IsJob, Fields
  <2> HIDE DEF k
  <2> QED BY <1>0, <2>1, <2>2 DEF Exact
<1> QED BY <1>4, <1>5, <1>6, <1>7, <1>8 DEF Goroutine

LEMMA InitTInv == Init => TInv
<1> SUFFICES ASSUME Init PROVE TInv
  OBVIOUS
<1>1. RInv
  BY InitRInv
<1>2. \A n \in Nodes : job[n] = NoJob
  BY DEF Init
<1>3. \A n \in Nodes : job[n].pc = "none" /\ job[n].tally = 0
  BY <1>2 DEF NoJob
<1> QED BY <1>1, <1>3 DEF TInv, Exact, Untouched

LEMMA NextTInv == TInv /\ [Next]_vars => TInv'
<1> SUFFICES ASSUME TInv, [Next]_vars PROVE TInv'
  OBVIOUS
<1>0. RInv'
  BY NextRInv DEF TInv
<1> SUFFICES ASSUME NEW m \in Nodes PROVE (Exact(m) /\ Untouched(m))'
  BY <1>0 DEF TInv
<1>1. Exact(m) /\ Untouched(m) /\ job = [n \in Nodes |-> job[n]] /\ IsJob(job[m])
  BY DEF TInv, RInv, IInv, Shape
<1>2. ASSUME UNCHANGED <<view, moved, kind, pod>>, job'[m] = job[m] PROVE (Exact(m) /\ Untouched(m))'
  <2>1. All(m)' = All(m) /\ Share(m)' = Share(m)
    BY <1>2, ExactStays
  <2> QED BY <1>1, <1>2, <2>1 DEF Exact, Untouched
<1>3. CASE CachesMove
  BY <1>1, <1>3 DEF CachesMove, Exact, Untouched
<1>4. CASE UNCHANGED vars
  BY <1>2, <1>4 DEF vars, handler
<1>5. ASSUME NEW k \in Kinds, NEW p \in Pods, NEW unread \in BrokenSets, Begin(k, p, unread)
      PROVE  (Exact(m) /\ Untouched(m))'
  <2>1. job'[m] = NoJob
    BY <1>5 DEF Begin
  <2>2. job'[m].pc = "none" /\ job'[m].tally = 0
    BY <2>1 DEF NoJob
  <2> QED BY <2>2 DEF Exact, Untouched
<1>6. CASE Wait \/ FindMax \/ Scale
  BY <1>2, <1>6 DEF Wait, FindMax, Scale
<1>7. ASSUME NEW n \in Nodes, Fork(n) PROVE (Exact(m) /\ Untouched(m))'
  <2>1. UNCHANGED <<view, moved, kind, pod>> /\ job' = [job EXCEPT ![n].pc = "list"] /\ job[n].pc = "none"
    BY <1>7 DEF Fork
  <2>2. CASE m # n
    BY <1>1, <1>2, <2>1, <2>2
  <2>3. CASE m = n
    <3> DEFINE k == [job[m] EXCEPT !.pc = "list"]
    <3>1. job'[m] = k
      BY <1>1, <2>1, <2>3
    <3>2. k.pc = "list" /\ k.tally = job[m].tally
      BY <1>1 DEF IsJob, Fields
    <3> HIDE DEF k
    <3> QED BY <1>1, <2>1, <2>3, <3>1, <3>2 DEF Exact, Untouched
  <2> QED BY <2>2, <2>3
<1>8. ASSUME NEW n \in Nodes, Goroutine(n) PROVE (Exact(m) /\ Untouched(m))'
  <2>1. CASE m # n
    <3>1. Replaces(n) /\ UNCHANGED <<view, moved, kind, pod>>
      BY <1>8, Goroutines, GoroutineTallies DEF TInv, RInv, handler, Tallies
    <3> QED BY <1>2, <2>1, <3>1 DEF Replaces
  <2>2. CASE m = n
    BY <1>8, <2>2, GoroutineExact
  <2> QED BY <2>1, <2>2
<1> QED BY <1>3, <1>4, <1>5, <1>6, <1>7, <1>8 DEF Next, Handle

\* The pods of the same volumes, a shared volume once: what the spread counts.
LEMMA SpreadSum ==
  ASSUME Typed, kind = "spread", NEW n \in Nodes
  PROVE  UsersOn(n) = SumOf(Share(n), All(n))
<1> DEFINE S == All(n)
           g == Share(n)
           D(f) == f = [s \in SUBSET S |->
                     IF s = {} THEN 0
                     ELSE (IF (CHOOSE x \in s : TRUE) \in Shared
                           THEN IF ReadyUsersOn(view, CHOOSE x \in s : TRUE, n) = {} THEN 0 ELSE 1
                           ELSE Cardinality(ReadyUsersOn(view, CHOOSE x \in s : TRUE, n)))
                          + f[s \ {CHOOSE x \in s : TRUE}]]
           d == CHOOSE f : D(f)
           e == CHOOSE f : Sums(f, g, S)
<1>1. IsFiniteSet(S) /\ \A pv \in S : g[pv] \in Nat
  BY ShareNat
<1>2. \A pv \in S : g[pv] = IF pv \in Shared THEN IF ReadyUsersOn(view, pv, n) = {} THEN 0 ELSE 1
                            ELSE Cardinality(ReadyUsersOn(view, pv, n))
  <2> TAKE pv \in S
  <2> DEFINE R == ReadyUsersOn(view, pv, n)
  <2>1. R \in SUBSET Pods
    BY DEF ReadyUsersOn, ReadyUsers
  <2>2. IsFiniteSet(R) /\ Cardinality(R) \in Nat /\ (Cardinality(R) = 0 <=> R = {})
    BY <2>1, PrioritizeAssumption, FS_Subset, FS_CardinalityType, FS_EmptySet
  <2>3. g[pv] = Users(n, pv)
    BY DEF Share
  <2>4. Users(n, pv) = IF pv \in Shared /\ Cardinality(R) > 1 THEN 1 ELSE Cardinality(R)
    BY DEF Users
  <2> HIDE DEF R, g
  <2>5. Users(n, pv) = IF pv \in Shared THEN IF R = {} THEN 0 ELSE 1 ELSE Cardinality(R)
    BY <2>2, <2>4
  <2> QED BY <2>3, <2>5 DEF R
<1>3. UsersOn(n) = d[S]
  BY DEF UsersOn, Needed, MapThenSumSet, MapThenFoldSet, All
<1>4. \A f : D(f) <=> Sums(f, g, S)
  <2> TAKE f
  <2>1. \A s \in SUBSET S : s # {} => (CHOOSE x \in s : TRUE) \in S
    BY ChosenIn DEF Chosen
  <2> HIDE DEF g, S
  <2> QED BY <1>2, <2>1 DEF Sums, Chosen
<1>5. Sums(e, g, S)
  BY <1>1, SumsExist
<1>6. D(d)
  BY <1>4, <1>5
<1>7. Sums(d, g, S)
  BY <1>4, <1>6
<1> HIDE DEF d, e, g, S, D
<1>8. d[S] = e[S]
  BY <1>1, <1>5, <1>7, SumsAgree
<1> QED BY <1>3, <1>8 DEF SumOf, e, g, S

\* The room taken, summed over all volumes: at least what the goroutine has
\* counted, which sums over those with an entry, and the same if the node is
\* known.
LEMMA TakenSum ==
  ASSUME Typed, kind = "diskuse", NEW n \in Nodes
  PROVE  /\ TakenOn(n) \in Nat /\ SumOf(Share(n), All(n)) \in Nat
         /\ SumOf(Share(n), All(n)) <= TakenOn(n)
         /\ Known(n) => TakenOn(n) = SumOf(Share(n), All(n))
<1> DEFINE B == view.bound
           S == All(n)
           R == B \ S
           g == [pv \in B |-> Max({Recorded(n, pv), Needed(n, pv)}) * Capacity[pv]]
           D(f) == f = [s \in SUBSET B |->
                     IF s = {} THEN 0
                     ELSE Max({Recorded(n, CHOOSE x \in s : TRUE), Needed(n, CHOOSE x \in s : TRUE)})
                            * Capacity[CHOOSE x \in s : TRUE]
                          + f[s \ {CHOOSE x \in s : TRUE}]]
           d == CHOOSE f : D(f)
           e == CHOOSE f : Sums(f, g, B)
<1>1. /\ view \in Views /\ IsFiniteSet(B) /\ B \subseteq Volumes
      /\ S = {pv \in B : HasEntry(view, pv, n)} /\ S \subseteq B
      /\ \A pv \in S : Share(n)[pv] \in Nat
  BY PrioritizeAssumption, ShareNat DEF Typed, All
<1>2. \A pv \in B : /\ Needed(n, pv) \in Nat /\ Recorded(n, pv) \in Nat /\ Capacity[pv] \in Nat
                    /\ pv \in R => Recorded(n, pv) = 0
  <2> TAKE pv \in B
  <2>1. Cardinality(ReadyUsersOn(view, pv, n)) \in Nat
    BY UsersCounted
  <2>2. HasEntry(view, pv, n) => Cardinality(view.mounts[pv][n]) \in Nat
    BY <1>1, PrioritizeAssumption, FS_CardinalityType
  <2> QED BY <1>1, <2>1, <2>2, HostPathAssumption DEF Needed, Recorded
<1>3. ASSUME NEW x \in Nat, NEW y \in Nat
      PROVE  Max({x, y}) = IF x >= y THEN x ELSE y
  <2>1. IsFiniteSet({x, y}) /\ {x, y} \in SUBSET Int /\ {x, y} # {}
    <3>1. IsFiniteSet({x}) /\ IsFiniteSet({x} \cup {y}) /\ {x, y} = {x} \cup {y}
      BY FS_Singleton, FS_AddElement
    <3> QED BY <3>1
  <2>2. Max({x, y}) \in {x, y} /\ \A z \in {x, y} : z <= Max({x, y})
    BY <2>1, FiniteMax
  <2> QED BY <2>2
<1>4. \A pv \in B : g[pv] = (IF Recorded(n, pv) >= Needed(n, pv) THEN Recorded(n, pv) ELSE Needed(n, pv))
                              * Capacity[pv]
  BY <1>2, <1>3
<1>5. \A pv \in B : g[pv] \in Nat
  <2> TAKE pv \in B
  <2> HIDE DEF g
  <2> QED BY <1>2, <1>4
<1>6. \A pv \in S : g[pv] = Share(n)[pv]
  <2> TAKE pv \in S
  <2> DEFINE U == ReadyUsersOn(view, pv, n)
             i == Cardinality(view.mounts[pv][n])
  <2>1. Share(n)[pv] = (i + Unrecorded(view, pv, n)) * Capacity[pv]
    BY DEF Share
  <2>2. Recorded(n, pv) = i /\ i \in Nat
    BY <1>1, <1>2 DEF Recorded
  <2>3. U \in SUBSET Pods
    BY DEF ReadyUsersOn, ReadyUsers
  <2>4. Cardinality(U) \in Nat /\ (Cardinality(U) = 0 <=> U = {})
    BY <2>3, PrioritizeAssumption, FS_Subset, FS_CardinalityType, FS_EmptySet
  <2>5. /\ Needed(n, pv) = IF pv \in Shared THEN IF U = {} THEN 0 ELSE 1 ELSE Cardinality(U)
        /\ Unrecorded(view, pv, n) = IF pv \in Shared THEN IF i = 0 /\ Cardinality(U) > 0 THEN 1 ELSE 0
                                     ELSE IF Cardinality(U) > i THEN Cardinality(U) - i ELSE 0
    BY DEF Needed, Unrecorded
  <2> HIDE DEF i, U
  <2>6. i + Unrecorded(view, pv, n) = IF i >= Needed(n, pv) THEN i ELSE Needed(n, pv)
    BY <2>2, <2>4, <2>5
  <2>7. pv \in B
    BY <1>1
  <2> HIDE DEF g, B, S
  <2> QED BY <1>4, <2>1, <2>2, <2>6, <2>7
<1>7. TakenOn(n) = SumOf(g, B)
  <2>1. TakenOn(n) = d[B]
    BY DEF TakenOn, MapThenSumSet, MapThenFoldSet
  <2>2. \A f : D(f) <=> Sums(f, g, B)
    <3> TAKE f
    <3>1. \A s \in SUBSET B : s # {} => (CHOOSE x \in s : TRUE) \in B
      BY ChosenIn DEF Chosen
    <3>2. \A x \in B : g[x] = Max({Recorded(n, x), Needed(n, x)}) * Capacity[x]
      OBVIOUS
    <3> HIDE DEF g, B
    <3> QED BY <3>1, <3>2 DEF Sums, Chosen
  <2> HIDE DEF D, g, B
  <2>3. Sums(e, g, B)
    BY <1>1, <1>5, SumsExist
  <2>4. D(d)
    BY <2>2, <2>3
  <2>5. Sums(d, g, B)
    BY <2>2, <2>4
  <2> HIDE DEF d, e
  <2>6. d[B] = e[B]
    BY <1>1, <2>3, <2>5, SumsAgree
  <2> QED BY <2>1, <2>6 DEF SumOf, e
<1> HIDE DEF g, B, S, D, d, e
<1>8. /\ IsFiniteSet(S) /\ IsFiniteSet(R) /\ S \cap R = {} /\ B = S \cup R
      /\ \A pv \in S \cup R : g[pv] \in Nat
  BY <1>1, <1>5, FS_Subset
<1>9. SumOf(g, S) = SumOf(Share(n), S)
  BY <1>1, <1>6, <1>8, SumSame
<1>10. SumOf(g, B) = SumOf(g, S) + SumOf(g, R)
  BY <1>8, SumUnion
<1>11. SumOf(g, S) \in Nat /\ SumOf(g, R) \in Nat
  BY <1>8, SumNat
<1>12. Known(n) => SumOf(g, R) = 0
  <2> SUFFICES ASSUME Known(n) PROVE SumOf(g, R) = 0
    OBVIOUS
  <2>1. \A pv \in R : g[pv] = 0
    <3> TAKE pv \in R
    <3>1. pv \in B /\ ~HasEntry(view, pv, n)
      BY <1>1
    <3>2. ReadyUsersOn(view, pv, n) = {}
      BY <3>1 DEF Known, B
    <3>3. Needed(n, pv) = 0
      BY <3>2, FS_EmptySet DEF Needed
    <3> QED BY <1>2, <1>4, <3>1, <3>3
  <2>2. SumOf(g, R) = Cardinality(R) * 0 /\ Cardinality(R) \in Nat
    BY <1>8, <2>1, SumConst, FS_CardinalityType
  <2> QED BY <2>2
<1> QED BY <1>7, <1>9, <1>10, <1>11, <1>12 DEF S

\* A node of which less is counted is no fuller.
LEMMA NotFullerCounted ==
  ASSUME NEW a \in Nodes, NEW b \in Nodes, NEW s \in Nat, NEW t \in Nat, NEW r \in Nat, r <= s,
         NotFuller(a, s, b, t)
  PROVE  NotFuller(a, r, b, t)
<1> DEFINE c == Allocable(a)
           d == Allocable(b)
           free(room, quota) == IF quota > room THEN 0 ELSE room - quota
<1>1. c \in Nat /\ d \in Nat
  BY AllocableNat
<1>2. \A q \in Nat : NotFuller(a, q, b, t) <=>
        \/ free(d, t) = 0
        \/ c > 0 /\ free(c, q) * d >= free(d, t) * c
  BY DEF NotFuller
<1> HIDE DEF c, d
<1>3. free(c, s) \in Nat /\ free(c, r) \in Nat /\ free(d, t) \in Nat /\ free(c, s) <= free(c, r)
  BY <1>1
<1> HIDE DEF free
<1>4. free(c, s) * d <= free(c, r) * d
  BY <1>1, <1>3, TimesMonotone
<1>5. /\ free(c, s) * d \in Nat /\ free(c, r) * d \in Nat /\ free(d, t) * c \in Nat
  BY <1>1, <1>3
<1> QED BY <1>2, <1>4, <1>5

\* While nothing changes, hostpathpvdiskuse ranks no node below one it counts
\* in full and that is no emptier, every ready pod counted with its directory
\* whether an annotation names it or not; and hostpathpvspread ranks by the
\* pods that run with the volumes of the pod: for any nodes, disks, volumes
\* and pods.
THEOREM TrulyRanks == Spec => []RankedTruly
<1>1. TInv => RankedTruly
  <2> SUFFICES ASSUME TInv, pc = "sent", ~moved, Other = {}, NEW a \in Nodes, NEW b \in Nodes,
                      IF kind = "diskuse" THEN Known(b) /\ NotFuller(a, TakenOn(a), b, TakenOn(b))
                                          ELSE UsersOn(a) <= UsersOn(b)
               PROVE  list[a] >= list[b]
    BY DEF RankedTruly
  <2>1. Typed /\ kind \in {"diskuse", "spread"}
    BY DEF TInv, RInv, IInv, Shape
  <2>2. \A n \in Nodes : job[n].tally = SumOf(Share(n), All(n))
    <3> TAKE n \in Nodes
    <3>1. job[n].pc = "done" /\ job[n].failures = 0
      BY InvAnswers DEF TInv, RInv, AnswerWhole
    <3>2. job[n].left = {} /\ job[n].tally = SumOf(Share(n), All(n) \ job[n].left)
      BY <3>1 DEF TInv, Exact
    <3>3. All(n) \ job[n].left = All(n)
      BY <3>2
    <3> QED BY <3>2, <3>3
  <2>3. kind = "diskuse" => NotFuller(a, job[a].tally, b, job[b].tally)
    <3> SUFFICES ASSUME kind = "diskuse" PROVE NotFuller(a, job[a].tally, b, job[b].tally)
      OBVIOUS
    <3>1. /\ TakenOn(a) \in Nat /\ job[a].tally \in Nat /\ job[a].tally <= TakenOn(a)
          /\ TakenOn(b) \in Nat /\ TakenOn(b) = job[b].tally
      BY <2>1, <2>2, TakenSum
    <3>2. NotFuller(a, TakenOn(a), b, job[b].tally)
      BY <3>1
    <3> QED BY <3>1, <3>2, NotFullerCounted
  <2>4. kind = "spread" => UsersOn(a) = job[a].tally /\ UsersOn(b) = job[b].tally
    BY <2>1, <2>2, SpreadSum
  <2>5. RankedByReading
    BY ReadingIsRanked DEF TInv
  <2>6. IF kind = "diskuse" THEN NotFuller(a, job[a].tally, b, job[b].tally)
                            ELSE job[a].tally <= job[b].tally
    BY <2>1, <2>3, <2>4
  <2> QED BY <2>5, <2>6 DEF RankedByReading
<1>2. Spec => []TInv
  BY InitTInv, NextTInv, PTL DEF Spec
<1> QED BY <1>1, <1>2, PTL
=============================================================================
