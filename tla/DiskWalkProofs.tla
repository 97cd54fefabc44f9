--------------------------- MODULE DiskWalkProofs ---------------------------
(***************************************************************************)
(* What canRequestMatch, as DiskWalk has it, does with any two lists, and  *)
(* the lemmas on sums, folds and sorted lists that the proofs about disks  *)
(* and scores share.                                                       *)
(***************************************************************************)
EXTENDS DiskWalk, SequenceTheorems, FiniteSetTheorems, TLAPS

-----------------------------------------------------------------------------
(* Finite sets. *)

\* What holds of the empty set, and of a set when it holds of every smaller
\* one, holds of every finite set: a least set that is not in P is none.
LEMMA FiniteInduction ==
  ASSUME NEW S, IsFiniteSet(S), NEW P,
         \A s \in SUBSET S : (\A u \in SUBSET s : u # s => u \in P) => s \in P
  PROVE  \A s \in SUBSET S : s \in P
<1> DEFINE Q == { s \in FiniteSubsetsOf(S) : s \notin P }
<1>0. FiniteSubsetsOf(S) = SUBSET S
  BY FS_FiniteSubsetsOfFinite
<1> SUFFICES ASSUME Q # {} PROVE FALSE
  BY <1>0
<1>1. PICK s \in Q : \A u \in Q : <<u, s>> \notin StrictSubsetOrdering(S)
  <2>1. Q \subseteq FiniteSubsetsOf(S)
    OBVIOUS
  <2>2. IsWellFoundedOn(StrictSubsetOrdering(S), FiniteSubsetsOf(S))
    BY FS_StrictSubsetOrderingWellFounded
  <2> HIDE DEF Q
  <2> QED BY <2>1, <2>2, WFMin
<1>2. \A u \in SUBSET s : u # s => u \in P
  BY <1>0, <1>1 DEF StrictSubsetOrdering
<1> QED BY <1>0, <1>1, <1>2

\* A finite set of integers has a largest element: a smallest subset without
\* one would have one.
LEMMA FiniteMax ==
  ASSUME NEW S \in SUBSET Int, IsFiniteSet(S), S # {}
  PROVE  Max(S) \in S /\ \A x \in S : x <= Max(S)
<1> DEFINE HasMax(U) == \E x \in U : \A y \in U : y <= x
           Without == { U \in FiniteSubsetsOf(S) : U # {} /\ ~HasMax(U) }
<1>1. SUFFICES HasMax(S)
  BY DEF Max
<1>2. SUFFICES ASSUME ~HasMax(S) PROVE FALSE
  OBVIOUS
<1>3. S \in Without
  BY <1>2 DEF FiniteSubsetsOf
<1>4. PICK U \in Without : \A V \in Without : <<V, U>> \notin StrictSubsetOrdering(S)
  <2>1. Without \subseteq FiniteSubsetsOf(S) /\ Without # {}
    BY <1>3
  <2>2. IsWellFoundedOn(StrictSubsetOrdering(S), FiniteSubsetsOf(S))
    BY FS_StrictSubsetOrderingWellFounded
  <2> HIDE DEF Without
  <2> QED BY <2>1, <2>2, WFMin
<1>5. PICK u \in U : TRUE
  OBVIOUS
<1>6. IsFiniteSet(U \ {u}) /\ U \subseteq S
  BY FS_RemoveElement DEF FiniteSubsetsOf
<1>7. U \ {u} \notin Without
  BY <1>4, <1>5, <1>6 DEF StrictSubsetOrdering
<1>8. CASE U \ {u} = {}
  BY <1>5, <1>6, <1>8
<1>9. CASE HasMax(U \ {u})
  <2>1. PICK m \in U \ {u} : \A y \in U \ {u} : y <= m
    BY <1>9
  <2>2. \A y \in U : y <= m \/ y = u
    BY <2>1
  <2> QED BY <1>5, <1>6, <2>1, <2>2
<1> QED BY <1>6, <1>7, <1>8, <1>9 DEF FiniteSubsetsOf

\* ... and a smallest one.
LEMMA FiniteMin ==
  ASSUME NEW S \in SUBSET Int, IsFiniteSet(S), S # {}
  PROVE  Min(S) \in S /\ \A x \in S : Min(S) <= x
<1> DEFINE T == {0 - x : x \in S}
           m == Max(T)
<1>1. T \in SUBSET Int /\ T # {}
  <2>1. \A x \in S : 0 - x \in Int /\ 0 - x \in T
    OBVIOUS
  <2> QED BY <2>1
<1>2. IsFiniteSet(T)
  <2> DEFINE f == [x \in S |-> 0 - x]
  <2>1. f \in Surjection(S, T)
    BY DEF Surjection
  <2> HIDE DEF f, T
  <2> QED BY <2>1, FS_Surjection
<1>3. m \in T /\ \A y \in T : y <= m
  <2> HIDE DEF T
  <2> QED BY <1>1, <1>2, FiniteMax
<1> HIDE DEF m
<1>4. PICK s \in S : m = 0 - s
  BY <1>3
<1>5. \A x \in S : s <= x
  <2> TAKE x \in S
  <2>1. 0 - x \in T /\ x \in Int /\ s \in Int
    OBVIOUS
  <2> QED BY <1>3, <1>4, <2>1
<1> QED BY <1>5 DEF Min

-----------------------------------------------------------------------------
(* Functions that the folds of the library choose.  A fold takes away one  *)
(* element after another; c says which one, h what is done with it.        *)

Folds(f, h, c, base, S) ==
  f = [s \in SUBSET S |-> IF s = {} THEN base ELSE h[<<f[s \ {c[s]}], c[s]>>]]

Takes(c, S) == \A s \in SUBSET S : s # {} => c[s] \in s

\* Two of them agree where both are defined.
LEMMA FoldsAgree ==
  ASSUME NEW S, NEW R \in SUBSET S, IsFiniteSet(R), NEW f, NEW k, NEW h, NEW c, NEW base,
         Takes(c, R), Folds(f, h, c, base, S), Folds(k, h, c, base, R)
  PROVE  \A s \in SUBSET R : f[s] = k[s]
<1> DEFINE P == { s \in SUBSET R : f[s] = k[s] }
<1>1. ASSUME NEW s \in SUBSET R, \A u \in SUBSET s : u # s => u \in P PROVE s \in P
  <2>1. f[s] = IF s = {} THEN base ELSE h[<<f[s \ {c[s]}], c[s]>>]
    BY DEF Folds
  <2>2. k[s] = IF s = {} THEN base ELSE h[<<k[s \ {c[s]}], c[s]>>]
    BY DEF Folds
  <2>3. s # {} => f[s \ {c[s]}] = k[s \ {c[s]}]
    <3>1. s # {} => s \ {c[s]} \in SUBSET s /\ s \ {c[s]} # s
      BY DEF Takes
    <3> QED BY <1>1, <3>1
  <2> QED BY <2>1, <2>2, <2>3
<1> HIDE DEF P
<1>2. \A s \in SUBSET R : s \in P
  BY <1>1, FiniteInduction
<1> QED BY <1>2 DEF P

FoldOf(h, c, base, S) == (CHOOSE f : Folds(f, h, c, base, S))[S]

\* There is one.
LEMMA FoldsExist ==
  ASSUME NEW S, IsFiniteSet(S), NEW h, NEW c, NEW base, Takes(c, S)
  PROVE  \E f : Folds(f, h, c, base, S)
<1> DEFINE P == { s \in SUBSET S : \E f : Folds(f, h, c, base, s) }
<1>1. ASSUME NEW s \in SUBSET S, \A u \in SUBSET s : u # s => u \in P PROVE s \in P
  <2> DEFINE V(u) == FoldOf(h, c, base, u)
             F == [u \in SUBSET s |-> IF u = {} THEN base ELSE h[<<V(u \ {c[u]}), c[u]>>]]
  <2>0. \A u \in SUBSET s : u # {} => u \ {c[u]} \in SUBSET u /\ u \ {c[u]} # u /\ c[u] \in s
    BY DEF Takes
  <2>1. ASSUME NEW u \in SUBSET s, u # s PROVE F[u] = V(u)
    <3>1. \E f : Folds(f, h, c, base, u)
      BY <1>1, <2>1
    <3> DEFINE f == CHOOSE k : Folds(k, h, c, base, u)
    <3>2. Folds(f, h, c, base, u) /\ V(u) = f[u]
      BY <3>1 DEF FoldOf
    <3> HIDE DEF f
    <3>3. f[u] = IF u = {} THEN base ELSE h[<<f[u \ {c[u]}], c[u]>>]
      BY <3>2 DEF Folds
    <3>4. CASE u = {}
      BY <3>2, <3>3, <3>4
    <3>5. CASE u # {}
      <4> DEFINE v == u \ {c[u]}
                 k == CHOOSE q : Folds(q, h, c, base, v)
      <4>1. v \in SUBSET u /\ v \in SUBSET s /\ v # s /\ IsFiniteSet(v) /\ Takes(c, v)
        BY <2>0, <2>1, <3>5, FS_Subset DEF Takes
      <4>2. \E q : Folds(q, h, c, base, v)
        BY <1>1, <4>1
      <4>3. Folds(k, h, c, base, v) /\ V(v) = k[v]
        BY <4>2 DEF FoldOf
      <4> HIDE DEF k, v
      <4>4. f[v] = k[v]
        BY <3>2, <4>1, <4>3, FoldsAgree
      <4>5. F[u] = h[<<V(v), c[u]>>]
        BY <3>5 DEF v
      <4> QED BY <3>2, <3>3, <3>5, <4>3, <4>4, <4>5 DEF v
    <3> QED BY <3>4, <3>5
  <2>2. \A u \in SUBSET s : u # {} => F[u \ {c[u]}] = V(u \ {c[u]})
    <3> SUFFICES ASSUME NEW u \in SUBSET s, u # {} PROVE F[u \ {c[u]}] = V(u \ {c[u]})
      OBVIOUS
    <3>1. u \ {c[u]} \in SUBSET s /\ u \ {c[u]} # s
      BY <2>0
    <3> HIDE DEF F
    <3> QED BY <2>1, <3>1
  <2>3. F = [u \in SUBSET s |-> IF u = {} THEN base ELSE h[<<F[u \ {c[u]}], c[u]>>]]
    BY <2>2
  <2>4. Folds(F, h, c, base, s)
    BY <2>3 DEF Folds
  <2> QED BY <2>4
<1> HIDE DEF P
<1>2. S \in P
  BY <1>1, FiniteInduction
<1> QED BY <1>2 DEF P

\* Its values stay in the set h maps to.
LEMMA FoldsType ==
  ASSUME NEW S, IsFiniteSet(S), NEW Y, NEW h \in [Y \X S -> Y], NEW c, NEW base \in Y, Takes(c, S),
         NEW f, Folds(f, h, c, base, S)
  PROVE  \A s \in SUBSET S : f[s] \in Y
<1> DEFINE P == { s \in SUBSET S : f[s] \in Y }
<1>1. ASSUME NEW s \in SUBSET S, \A u \in SUBSET s : u # s => u \in P PROVE s \in P
  <2>1. f[s] = IF s = {} THEN base ELSE h[<<f[s \ {c[s]}], c[s]>>]
    BY DEF Folds
  <2>2. s # {} => s \ {c[s]} \in SUBSET s /\ s \ {c[s]} # s /\ c[s] \in S
    BY DEF Takes
  <2>3. s # {} => f[s \ {c[s]}] \in Y
    BY <1>1, <2>2
  <2> QED BY <2>1, <2>2, <2>3
<1> HIDE DEF P
<1>2. \A s \in SUBSET S : s \in P
  BY <1>1, FiniteInduction
<1> QED BY <1>2 DEF P

-----------------------------------------------------------------------------
(* Sums over finite sets.  MapThenSumSet takes the elements away in an     *)
(* order of its own; what is shown here is that the order does not matter. *)

\* The function MapThenSumSet builds for the subsets of S, taking away one
\* chosen element after another.
Chosen(s) == CHOOSE x \in s : TRUE
Sums(f, g, S) ==
  f = [s \in SUBSET S |-> IF s = {} THEN 0 ELSE g[Chosen(s)] + f[s \ {Chosen(s)}]]
SumOf(g, S) == (CHOOSE f : Sums(f, g, S))[S]

\* The chosen element is one of the set.
LEMMA ChosenIn == ASSUME NEW s, s # {} PROVE Chosen(s) \in s
BY DEF Chosen

\* Two such functions agree where both are defined.
LEMMA SumsAgree ==
  ASSUME NEW S, NEW R \in SUBSET S, IsFiniteSet(R), NEW f, NEW h, NEW g, Sums(f, g, S), Sums(h, g, R)
  PROVE  \A s \in SUBSET R : f[s] = h[s]
<1> DEFINE P == { s \in SUBSET R : f[s] = h[s] }
<1>1. ASSUME NEW s \in SUBSET R, \A u \in SUBSET s : u # s => u \in P PROVE s \in P
  <2>1. f[s] = IF s = {} THEN 0 ELSE g[Chosen(s)] + f[s \ {Chosen(s)}]
    BY DEF Sums
  <2>2. h[s] = IF s = {} THEN 0 ELSE g[Chosen(s)] + h[s \ {Chosen(s)}]
    BY DEF Sums
  <2>3. s # {} => f[s \ {Chosen(s)}] = h[s \ {Chosen(s)}]
    BY <1>1, ChosenIn
  <2> QED BY <2>1, <2>2, <2>3
<1> HIDE DEF P
<1>2. \A s \in SUBSET R : s \in P
  BY <1>1, FiniteInduction
<1> QED BY <1>2 DEF P

\* The function exists.
LEMMA SumsExist ==
  ASSUME NEW S, IsFiniteSet(S), NEW g, \A x \in S : g[x] \in Nat
  PROVE  Sums(CHOOSE f : Sums(f, g, S), g, S)
<1> DEFINE c == [s \in SUBSET S |-> Chosen(s)]
           h == [p \in Nat \X S |-> g[p[2]] + p[1]]
<1>1. Takes(c, S)
  BY ChosenIn DEF Takes
<1>2. h \in [Nat \X S -> Nat]
  OBVIOUS
<1>3. PICK f : Folds(f, h, c, 0, S)
  <2> HIDE DEF c, h
  <2> QED BY <1>1, FoldsExist
<1>4. \A s \in SUBSET S : f[s] \in Nat
  <2> HIDE DEF c, h
  <2> QED BY <1>1, <1>2, <1>3, FoldsType
<1>5. ASSUME NEW s \in SUBSET S, s # {}
      PROVE  h[<<f[s \ {c[s]}], c[s]>>] = g[Chosen(s)] + f[s \ {Chosen(s)}]
  <2>1. c[s] = Chosen(s) /\ Chosen(s) \in S /\ s \ {Chosen(s)} \in SUBSET S
    BY <1>5, ChosenIn
  <2>2. <<f[s \ {Chosen(s)}], Chosen(s)>> \in Nat \X S
    BY <1>4, <2>1
  <2> QED BY <2>1, <2>2
<1> HIDE DEF c, h
<1>6. Sums(f, g, S)
  BY <1>3, <1>5 DEF Folds, Sums
<1> QED BY <1>6

\* One element, the chosen one, less.
LEMMA SumStep ==
  ASSUME NEW S, IsFiniteSet(S), NEW g, \A x \in S : g[x] \in Nat
  PROVE  SumOf(g, S) = IF S = {} THEN 0 ELSE g[Chosen(S)] + SumOf(g, S \ {Chosen(S)})
<1> DEFINE f == CHOOSE k : Sums(k, g, S)
           R == S \ {Chosen(S)}
           h == CHOOSE k : Sums(k, g, R)
<1>1. Sums(f, g, S) /\ SumOf(g, S) = f[S]
  BY SumsExist DEF SumOf
<1>2. R \in SUBSET S /\ IsFiniteSet(R)
  BY FS_Subset
<1>3. Sums(h, g, R) /\ SumOf(g, R) = h[R]
  BY <1>2, SumsExist DEF SumOf
<1> HIDE DEF f, h
<1>4. f[S] = IF S = {} THEN 0 ELSE g[Chosen(S)] + f[R]
  BY <1>1 DEF Sums
<1>5. f[R] = h[R]
  <2> HIDE DEF R
  <2>1. \A s \in SUBSET R : f[s] = h[s]
    BY <1>1, <1>2, <1>3, SumsAgree
  <2> QED BY <2>1
<1> QED BY <1>1, <1>3, <1>4, <1>5

\* A sum of naturals is one.
LEMMA SumNat ==
  ASSUME NEW S, IsFiniteSet(S), NEW g, \A x \in S : g[x] \in Nat
  PROVE  SumOf(g, S) \in Nat
<1> DEFINE P == { s \in SUBSET S : SumOf(g, s) \in Nat }
<1>1. ASSUME NEW s \in SUBSET S, \A u \in SUBSET s : u # s => u \in P PROVE s \in P
  <2>1. SumOf(g, s) = IF s = {} THEN 0 ELSE g[Chosen(s)] + SumOf(g, s \ {Chosen(s)})
    BY SumStep, FS_Subset
  <2>2. s # {} => Chosen(s) \in s /\ SumOf(g, s \ {Chosen(s)}) \in Nat
    BY <1>1, ChosenIn
  <2> QED BY <2>1, <2>2
<1> HIDE DEF P
<1>2. S \in P
  BY <1>1, FiniteInduction
<1> QED BY <1>2 DEF P

\* Any element less: the order does not matter.
LEMMA SumRemove ==
  ASSUME NEW S, IsFiniteSet(S), NEW g, \A x \in S : g[x] \in Nat, NEW x \in S
  PROVE  SumOf(g, S) = g[x] + SumOf(g, S \ {x})
<1> DEFINE P == { s \in SUBSET S : \A y \in s : SumOf(g, s) = g[y] + SumOf(g, s \ {y}) }
<1>1. ASSUME NEW s \in SUBSET S, \A u \in SUBSET s : u # s => u \in P PROVE s \in P
  <2> SUFFICES ASSUME NEW y \in s PROVE SumOf(g, s) = g[y] + SumOf(g, s \ {y})
    OBVIOUS
  <2> DEFINE c == Chosen(s)
  <2>1. c \in s /\ IsFiniteSet(s) /\ SumOf(g, s) = g[c] + SumOf(g, s \ {c})
    BY SumStep, FS_Subset, ChosenIn
  <2> HIDE DEF c
  <2>2. CASE y = c
    BY <2>1, <2>2
  <2>3. CASE y # c
    <3>1. s \ {c} \in P /\ s \ {y} \in P /\ y \in s \ {c} /\ c \in s \ {y}
      BY <1>1, <2>1, <2>3
    <3>2. SumOf(g, s \ {c}) = g[y] + SumOf(g, (s \ {c}) \ {y})
      BY <3>1
    <3>3. SumOf(g, s \ {y}) = g[c] + SumOf(g, (s \ {y}) \ {c})
      BY <3>1
    <3>4. (s \ {c}) \ {y} = (s \ {y}) \ {c}
      OBVIOUS
    <3>5. SumOf(g, (s \ {y}) \ {c}) \in Nat
      <4>1. (s \ {y}) \ {c} \in SUBSET S
        OBVIOUS
      <4>2. IsFiniteSet((s \ {y}) \ {c})
        BY <4>1, FS_Subset
      <4> QED BY <4>1, <4>2, SumNat
    <3>6. g[y] \in Nat /\ g[c] \in Nat
      BY <2>1
    <3> QED BY <2>1, <3>2, <3>3, <3>4, <3>5, <3>6
  <2> QED BY <2>2, <2>3
<1> HIDE DEF P
<1>2. S \in P
  BY <1>1, FiniteInduction
<1> QED BY <1>2 DEF P

\* A sum looks at the summands of its own set only.
LEMMA SumSame ==
  ASSUME NEW S, IsFiniteSet(S), NEW g, NEW h, \A x \in S : g[x] \in Nat /\ g[x] = h[x]
  PROVE  SumOf(g, S) = SumOf(h, S)
<1> DEFINE P == { s \in SUBSET S : SumOf(g, s) = SumOf(h, s) }
<1>1. ASSUME NEW s \in SUBSET S, \A u \in SUBSET s : u # s => u \in P PROVE s \in P
  <2>1. IsFiniteSet(s) /\ \A x \in s : g[x] \in Nat /\ h[x] \in Nat
    BY FS_Subset
  <2>2. SumOf(g, s) = IF s = {} THEN 0 ELSE g[Chosen(s)] + SumOf(g, s \ {Chosen(s)})
    BY <2>1, SumStep
  <2>3. SumOf(h, s) = IF s = {} THEN 0 ELSE h[Chosen(s)] + SumOf(h, s \ {Chosen(s)})
    BY <2>1, SumStep
  <2>4. s # {} => Chosen(s) \in s /\ SumOf(g, s \ {Chosen(s)}) = SumOf(h, s \ {Chosen(s)})
    BY <1>1, ChosenIn
  <2> QED BY <2>2, <2>3, <2>4
<1> HIDE DEF P
<1>2. S \in P
  BY <1>1, FiniteInduction
<1> QED BY <1>2 DEF P

\* The sum over the images of a function that tells the elements apart.
LEMMA SumImage ==
  ASSUME NEW S, IsFiniteSet(S), NEW f, \A x, y \in S : f[x] = f[y] => x = y,
         NEW g, NEW h, \A x \in S : g[x] \in Nat /\ h[f[x]] = g[x]
  PROVE  IsFiniteSet({f[x] : x \in S}) /\ SumOf(h, {f[x] : x \in S}) = SumOf(g, S)
<1> DEFINE Image(s) == {f[x] : x \in s}
           P == { s \in SUBSET S : IsFiniteSet(Image(s)) /\ SumOf(h, Image(s)) = SumOf(g, s) }
<1>1. ASSUME NEW s \in SUBSET S, \A u \in SUBSET s : u # s => u \in P PROVE s \in P
  <2>1. CASE s = {}
    <3>1. Image(s) = {}
      BY <2>1
    <3>2. SumOf(h, {}) = 0 /\ SumOf(g, {}) = 0 /\ IsFiniteSet({})
      BY SumStep, FS_EmptySet
    <3> QED BY <2>1, <3>1, <3>2
  <2>2. CASE s # {}
    <3> DEFINE c == Chosen(s)
               t == s \ {c}
    <3>1. c \in s /\ t \in SUBSET s /\ t # s
      BY <2>2, ChosenIn
    <3>2. IsFiniteSet(Image(t)) /\ SumOf(h, Image(t)) = SumOf(g, t)
      BY <1>1, <3>1
    <3>3. Image(s) = Image(t) \cup {f[c]} /\ Image(t) = Image(s) \ {f[c]} /\ f[c] \in Image(s)
      BY <3>1
    <3>4. \A y \in Image(s) : h[y] \in Nat
      OBVIOUS
    <3>5. IsFiniteSet(s) /\ \A x \in s : g[x] \in Nat
      BY FS_Subset
    <3> HIDE DEF c, t, Image
    <3>6. IsFiniteSet(Image(s))
      <4>1. IsFiniteSet(Image(t) \cup {f[c]})
        BY <3>2, FS_AddElement
      <4> QED BY <3>3, <4>1
    <3>7. SumOf(h, Image(s)) = h[f[c]] + SumOf(h, Image(s) \ {f[c]})
      BY <3>3, <3>4, <3>6, SumRemove
    <3>8. SumOf(g, s) = g[c] + SumOf(g, t)
      BY <3>1, <3>5, SumRemove DEF t
    <3>9. h[f[c]] = g[c]
      BY <3>1
    <3> QED BY <3>2, <3>3, <3>6, <3>7, <3>8, <3>9
  <2> QED BY <2>1, <2>2
<1>2. S \in P
  <2> HIDE DEF P
  <2> QED BY <1>1, FiniteInduction
<1> QED BY <1>2

\* The sum over two sets without a common element.
LEMMA SumUnion ==
  ASSUME NEW R, IsFiniteSet(R), NEW S, IsFiniteSet(S), R \cap S = {},
         NEW g, \A x \in R \cup S : g[x] \in Nat
  PROVE  SumOf(g, R \cup S) = SumOf(g, R) + SumOf(g, S)
<1> DEFINE P == { s \in SUBSET S : SumOf(g, R \cup s) = SumOf(g, R) + SumOf(g, s) }
<1>1. ASSUME NEW s \in SUBSET S, \A u \in SUBSET s : u # s => u \in P PROVE s \in P
  <2>1. SumOf(g, R) \in Nat
    BY SumNat
  <2>2. CASE s = {}
    <3>1. SumOf(g, s) = 0
      BY <2>2, SumStep, FS_EmptySet
    <3>2. R \cup s = R
      BY <2>2
    <3> QED BY <2>1, <3>1, <3>2
  <2>3. CASE s # {}
    <3> DEFINE x == Chosen(s)
               t == s \ {x}
    <3>1. x \in s /\ IsFiniteSet(s) /\ x \in R \cup s /\ x \notin R
      BY <2>3, ChosenIn, FS_Subset
    <3> HIDE DEF x
    <3>2. IsFiniteSet(R \cup s) /\ \A y \in R \cup s : g[y] \in Nat
      BY <3>1, FS_Union
    <3>3. SumOf(g, R \cup s) = g[x] + SumOf(g, (R \cup s) \ {x})
      BY <3>1, <3>2, SumRemove
    <3>4. (R \cup s) \ {x} = R \cup t
      BY <3>1
    <3>5. SumOf(g, s) = g[x] + SumOf(g, t)
      BY <3>1, SumRemove
    <3>6. t \in P
      BY <1>1, <3>1
    <3>7. SumOf(g, t) \in Nat
      <4>1. IsFiniteSet(t) /\ \A y \in t : g[y] \in Nat
        BY <3>1, FS_Subset
      <4> QED BY <4>1, SumNat
    <3>8. g[x] \in Nat
      BY <3>1
    <3> HIDE DEF t
    <3>9. SumOf(g, R \cup s) = g[x] + (SumOf(g, R) + SumOf(g, t))
      BY <3>3, <3>4, <3>6
    <3> QED BY <2>1, <3>5, <3>7, <3>8, <3>9
  <2> QED BY <2>2, <2>3
<1> HIDE DEF P
<1>2. S \in P
  BY <1>1, FiniteInduction
<1> QED BY <1>2 DEF P

\* The sum of equal summands.
LEMMA SumConst ==
  ASSUME NEW S, IsFiniteSet(S), NEW c \in Nat, NEW g, \A x \in S : g[x] = c
  PROVE  SumOf(g, S) = Cardinality(S) * c
<1> DEFINE P == { s \in SUBSET S : SumOf(g, s) = Cardinality(s) * c }
<1>1. ASSUME NEW s \in SUBSET S, \A u \in SUBSET s : u # s => u \in P PROVE s \in P
  <2>1. CASE s = {}
    <3>1. SumOf(g, s) = 0 /\ Cardinality(s) = 0
      BY <2>1, SumStep, FS_EmptySet
    <3> QED BY <3>1
  <2>2. CASE s # {}
    <3> DEFINE x == Chosen(s)
               t == s \ {x}
    <3>1. x \in s /\ IsFiniteSet(s) /\ IsFiniteSet(t)
      BY <2>2, ChosenIn, FS_Subset
    <3>2. SumOf(g, s) = c + SumOf(g, t)
      BY <2>2, <3>1, SumStep
    <3>3. SumOf(g, t) = Cardinality(t) * c
      BY <1>1, <3>1
    <3>4. Cardinality(t) = Cardinality(s) - 1 /\ Cardinality(s) \in Nat
      BY <3>1, FS_RemoveElement, FS_CardinalityType
    <3> HIDE DEF t
    <3>5. c + (Cardinality(s) - 1) * c = Cardinality(s) * c
      BY <3>4
    <3> QED BY <3>2, <3>3, <3>4, <3>5
  <2> QED BY <2>1, <2>2
<1> HIDE DEF P
<1>2. S \in P
  BY <1>1, FiniteInduction
<1> QED BY <1>2 DEF P

\* The elements of a list, under any of its indices.
LEMMA ListFinite ==
  ASSUME NEW T, NEW s \in Seq(T)
  PROVE  IsFiniteSet(Range(s)) /\ Range(s) \subseteq T
<1>1. Len(s) \in Nat /\ DOMAIN s = 1..Len(s) /\ \A i \in 1..Len(s) : s[i] \in T
  BY LenProperties, ElementOfSeq
<1>2. IsFiniteSet(DOMAIN s)
  BY <1>1, FS_Interval
<1>3. Range(s) = {s[i] : i \in DOMAIN s}
  BY DEF Range
<1>4. s \in Surjection(DOMAIN s, Range(s))
  BY <1>1, <1>3 DEF Surjection
<1>5. IsFiniteSet(Range(s))
  BY <1>2, <1>4, FS_Surjection
<1> QED BY <1>1, <1>3, <1>5

-----------------------------------------------------------------------------
(* The walk over the disks, volume by volume. *)

Walk == [free : Seq(Int), at : Nat \ {0}, fits : BOOLEAN]

Start(haveNow) == [free |-> haveNow, at |-> 1, fits |-> TRUE]

\* One volume: it goes on the first disk from w.at on that has the room, or
\* there is none.
LEMMA PutNextDoes ==
  ASSUME NEW w \in Walk, NEW size \in Int
  PROVE  /\ PutNext(w, size) \in Walk
         /\ \/ \E j \in w.at..Len(w.free) :
                 /\ size <= w.free[j] /\ \A k \in w.at..(j - 1) : w.free[k] < size
                 /\ PutNext(w, size)
                      = [free |-> [w.free EXCEPT ![j] = @ - size], at |-> j, fits |-> w.fits]
            \/ /\ \A k \in w.at..Len(w.free) : w.free[k] < size
               /\ PutNext(w, size)
                    = [free |-> w.free, at |-> Len(w.free) + 1, fits |-> FALSE]
<1> DEFINE I == {i \in w.at..Len(w.free) : size <= w.free[i]}
<1>1. /\ w.free \in Seq(Int) /\ w.at \in Nat \ {0} /\ w.fits \in BOOLEAN /\ Len(w.free) \in Nat
      /\ w = [free |-> w.free, at |-> w.at, fits |-> w.fits]
  BY LenProperties DEF Walk
<1>2. \A k \in w.at..Len(w.free) : w.free[k] \in Int /\ k \in 1..Len(w.free)
  BY <1>1, ElementOfSeq
<1>3. CASE I = {}
  <2>1. \A k \in w.at..Len(w.free) : w.free[k] < size
    BY <1>2, <1>3
  <2>2. PutNext(w, size) = [w EXCEPT !.fits = FALSE, !.at = Len(w.free) + 1]
    BY <1>3 DEF PutNext, SelectInSubSeq
  <2>3. PutNext(w, size) = [free |-> w.free, at |-> Len(w.free) + 1, fits |-> FALSE]
    BY <1>1, <2>2
  <2>4. PutNext(w, size) \in Walk
    BY <1>1, <2>3 DEF Walk
  <2> QED BY <2>1, <2>3, <2>4
<1>4. CASE I # {}
  <2> DEFINE j == Min(I)
  <2>1. j \in I /\ \A x \in I : j <= x
    <3>1. I \in SUBSET Int /\ IsFiniteSet(w.at..Len(w.free)) /\ I \subseteq w.at..Len(w.free)
      BY <1>1, FS_Interval
    <3>2. IsFiniteSet(I)
      BY <3>1, FS_Subset
    <3> HIDE DEF I
    <3> QED BY <1>4, <3>1, <3>2, FiniteMin
  <2>2. j \in w.at..Len(w.free) /\ j \in 1..Len(w.free) /\ size <= w.free[j]
    BY <1>2, <2>1
  <2>3. \A k \in w.at..(j - 1) : w.free[k] < size
    <3> SUFFICES ASSUME NEW k \in w.at..(j - 1) PROVE w.free[k] < size
      OBVIOUS
    <3>1. k \in w.at..Len(w.free) /\ ~(j <= k)
      BY <1>1, <2>2
    <3> QED BY <1>2, <2>1, <3>1
  <2>4. PutNext(w, size) = [w EXCEPT !.free[j] = @ - size, !.at = j]
    <3>1. SelectInSubSeq(w.free, w.at, Len(w.free), LAMBDA room : size <= room) = j
      BY <1>4 DEF SelectInSubSeq
    <3>2. j # 0
      BY <2>2
    <3> HIDE DEF j
    <3> QED BY <3>1, <3>2 DEF PutNext
  <2> HIDE DEF j
  <2>5. PutNext(w, size) = [free |-> [w.free EXCEPT ![j] = @ - size], at |-> j, fits |-> w.fits]
    BY <1>1, <2>4
  <2>6. [w.free EXCEPT ![j] = w.free[j] - size] \in Seq(Int)
    BY <1>1, <1>2, <2>2, ExceptSeq
  <2>7. PutNext(w, size) \in Walk
    BY <1>1, <2>2, <2>5, <2>6 DEF Walk
  <2> QED BY <2>2, <2>3, <2>5, <2>7
<1> QED BY <1>3, <1>4

\* Every volume so far has found room, and so does this one.
LEMMA PutNextFits ==
  ASSUME NEW w \in Walk, NEW size \in Int, PutNext(w, size).fits
  PROVE  w.fits /\ \E j \in w.at..Len(w.free) : size <= w.free[j]
<1> DEFINE v == PutNext(w, size)
<1>1. CASE \E j \in w.at..Len(w.free) :
             /\ size <= w.free[j]
             /\ v = [free |-> [w.free EXCEPT ![j] = @ - size], at |-> j, fits |-> w.fits]
  <2>1. PICK j \in w.at..Len(w.free) :
          /\ size <= w.free[j]
          /\ v = [free |-> [w.free EXCEPT ![j] = @ - size], at |-> j, fits |-> w.fits]
    BY <1>1
  <2> HIDE DEF v
  <2>2. v.fits = w.fits
    BY <2>1, Zenon
  <2>3. v.fits
    BY DEF v
  <2> QED BY <2>1, <2>2, <2>3
<1>2. CASE v = [free |-> w.free, at |-> Len(w.free) + 1, fits |-> FALSE]
  <2>1. [free |-> w.free, at |-> Len(w.free) + 1, fits |-> FALSE].fits = FALSE
    OBVIOUS
  <2>2. v.fits = FALSE
    BY <1>2, <2>1
  <2> HIDE DEF v
  <2>3. v.fits
    BY DEF v
  <2> QED BY <2>2, <2>3
<1> QED BY <1>1, <1>2, PutNextDoes

Walking(f, request, haveNow) ==
  f = [s \in SUBSET DOMAIN request |->
         IF s = {} THEN Start(haveNow) ELSE PutNext(f[s \ {Max(s)}], request[Max(s)])]

\* The walk after each of the volumes.
LEMMA WalkOfList ==
  ASSUME NEW request \in Seq(Int), NEW haveNow \in Seq(Int)
  PROVE  \E walk \in [0..Len(request) -> Walk] :
           /\ walk[0] = Start(haveNow)
           /\ \A i \in 1..Len(request) : walk[i] = PutNext(walk[i - 1], request[i])
           /\ CanRequestMatch(request, haveNow) = walk[Len(request)].fits
<1> DEFINE S == DOMAIN request
           c == [s \in SUBSET S |-> Max(s)]
           h == [p \in Walk \X S |-> PutNext(p[1], request[p[2]])]
           f == CHOOSE k : Walking(k, request, haveNow)
<1>1. Len(request) \in Nat /\ S = 1..Len(request) /\ \A i \in S : request[i] \in Int
  BY LenProperties, ElementOfSeq
<1>2. IsFiniteSet(S)
  BY <1>1, FS_Interval
<1>3. Start(haveNow) \in Walk
  BY DEF Start, Walk
<1>4. h \in [Walk \X S -> Walk]
  BY <1>1, PutNextDoes
<1>5. \A s \in SUBSET S : s # {} => Max(s) \in s /\ \A x \in s : x <= Max(s)
  <2> TAKE s \in SUBSET S
  <2>1. IsFiniteSet(s) /\ s \in SUBSET Int
    BY <1>1, <1>2, FS_Subset
  <2> QED BY <2>1, FiniteMax
<1>6. Takes(c, S)
  BY <1>5 DEF Takes
<1>7. PICK k : Folds(k, h, c, Start(haveNow), S)
  <2> HIDE DEF c, h, S
  <2> QED BY <1>2, <1>6, FoldsExist
<1>8. \A s \in SUBSET S : k[s] \in Walk
  <2> HIDE DEF c, h, S
  <2> QED BY <1>2, <1>3, <1>4, <1>6, <1>7, FoldsType
<1>9. \A s \in SUBSET S : s # {} =>
        h[<<k[s \ {c[s]}], c[s]>>] = PutNext(k[s \ {Max(s)}], request[Max(s)])
  <2> TAKE s \in SUBSET S
  <2> SUFFICES ASSUME s # {}
               PROVE  h[<<k[s \ {c[s]}], c[s]>>] = PutNext(k[s \ {Max(s)}], request[Max(s)])
    OBVIOUS
  <2>1. c[s] = Max(s) /\ Max(s) \in S /\ s \ {Max(s)} \in SUBSET S
    BY <1>5
  <2>2. <<k[s \ {Max(s)}], Max(s)>> \in Walk \X S
    BY <1>8, <2>1
  <2> QED BY <2>1, <2>2
<1>10. Walking(k, request, haveNow)
  <2> HIDE DEF c, h
  <2> QED BY <1>7, <1>9 DEF Folds, Walking
<1>11. Walking(f, request, haveNow)
  BY <1>10
<1>12. CanRequestMatch(request, haveNow) = f[S].fits
  BY DEF CanRequestMatch, FoldLeft, MapThenFoldSet, Walking, Start
<1> HIDE DEF f
<1> DEFINE walk == [i \in 0..Len(request) |-> f[1..i]]
<1>13. \A i \in 0..Len(request) : 1..i \in SUBSET S
  BY <1>1
<1>14. \A i \in 0..Len(request) :
         f[1..i] = IF 1..i = {} THEN Start(haveNow)
                   ELSE PutNext(f[(1..i) \ {Max(1..i)}], request[Max(1..i)])
  BY <1>13, <1>11 DEF Walking
<1>15. f[1..0] = Start(haveNow)
  <2>1. 1..0 = {} /\ 0 \in 0..Len(request)
    BY <1>1
  <2>2. f[1..0] = IF 1..0 = {} THEN Start(haveNow)
                  ELSE PutNext(f[(1..0) \ {Max(1..0)}], request[Max(1..0)])
    BY <1>14, <2>1
  <2> QED BY <2>1, <2>2
<1>16. \A i \in 1..Len(request) : f[1..i] = PutNext(f[1..(i - 1)], request[i])
  <2> TAKE i \in 1..Len(request)
  <2>0. i \in Nat /\ i >= 1 /\ i <= Len(request)
    BY <1>1
  <2>1. i \in 0..Len(request) /\ i \in 1..i /\ (1..i) \ {i} = 1..(i - 1) /\ 1..i \in SUBSET S /\ 1..i # {}
    <3>1. i \in 0..Len(request) /\ i \in 1..i /\ 1..i \in SUBSET S
      BY <1>1, <2>0
    <3>2. (1..i) \ {i} = 1..(i - 1)
      BY <2>0
    <3> QED BY <3>1, <3>2
  <2>2. Max(1..i) \in 1..i /\ i <= Max(1..i)
    BY <1>5, <2>1
  <2>3. Max(1..i) = i
    BY <1>1, <2>2
  <2>4. f[1..i] = PutNext(f[(1..i) \ {Max(1..i)}], request[Max(1..i)])
    BY <1>14, <2>1
  <2> QED BY <2>1, <2>3, <2>4
<1>17. \A i \in 0..Len(request) : f[1..i] \in Walk
  <2> DEFINE P == { s \in SUBSET S : f[s] \in Walk }
  <2>1. ASSUME NEW s \in SUBSET S, \A u \in SUBSET s : u # s => u \in P PROVE s \in P
    <3>1. f[s] = IF s = {} THEN Start(haveNow) ELSE PutNext(f[s \ {Max(s)}], request[Max(s)])
      BY <1>11 DEF Walking
    <3>2. s # {} => s \ {Max(s)} \in P /\ Max(s) \in S
      BY <1>5, <2>1
    <3> QED BY <1>1, <1>3, <3>1, <3>2, PutNextDoes
  <2> HIDE DEF P
  <2>2. \A s \in SUBSET S : s \in P
    BY <1>2, <2>1, FiniteInduction
  <2> QED BY <1>13, <2>2 DEF P
<1>18. walk \in [0..Len(request) -> Walk]
  BY <1>17
<1>19. /\ walk[0] = Start(haveNow)
       /\ \A i \in 1..Len(request) : walk[i] = PutNext(walk[i - 1], request[i])
       /\ CanRequestMatch(request, haveNow) = walk[Len(request)].fits
  BY <1>1, <1>12, <1>15, <1>16
<1> QED BY <1>18, <1>19
=============================================================================
