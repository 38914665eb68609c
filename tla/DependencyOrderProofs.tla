----------------------- MODULE DependencyOrderProofs ------------------------
(***************************************************************************)
(* Proofs about DependencyOrder for manifests of any size.                 *)
(***************************************************************************)
EXTENDS DependencyOrder, SequenceTheorems, FiniteSetTheorems, TLAPS

-----------------------------------------------------------------------------
(* A nonempty set of naturals has a least element. *)
LEMMA LeastElement ==
    ASSUME NEW T, T \subseteq Nat, T # {}
    PROVE  \E x \in T : \A y \in T : x <= y
<1>1. IsWellFoundedOn(OpToRel(<, Nat), Nat)
  BY NatLessThanWellFounded
<1>2. PICK x \in T : \A y \in T : ~ (<<y, x>> \in OpToRel(<, Nat))
  BY <1>1, WFMin
<1>3. \A y \in T : ~ (y < x)
  BY <1>2 DEF OpToRel
<1> QED
  BY <1>3

(* There are k numbers from 1 to k. *)
LEMMA CountTo ==
    ASSUME NEW k \in Nat
    PROVE  IsFiniteSet(1..k) /\ Cardinality(1..k) = k
<1>1. IsFiniteSet(1..k) /\ Cardinality(1..k) = IF 1 > k THEN 0 ELSE k - 1 + 1
  BY FS_Interval
<1> QED
  BY <1>1

(* A nonempty finite set of integers has a greatest element: of the sizes   *)
(* of its subsets that have none there would be a least one.                *)
LEMMA GreatestElement ==
    ASSUME NEW S, IsFiniteSet(S), S \subseteq Int, S # {}
    PROVE  \E m \in S : \A x \in S : x <= m
<1> DEFINE HasMax(T) == \E m \in T : \A x \in T : x <= m
           Bad == {k \in Nat : \E T \in SUBSET S : T # {} /\ Cardinality(T) = k /\ ~HasMax(T)}
<1>1. ASSUME ~HasMax(S) PROVE FALSE
  <2>1. Cardinality(S) \in Bad
    BY <1>1, FS_CardinalityType
  <2>2. PICK k \in Bad : \A j \in Bad : k <= j
    BY <2>1, LeastElement
  <2>3. PICK T \in SUBSET S : T # {} /\ Cardinality(T) = k /\ ~HasMax(T)
    BY <2>2
  <2>4. PICK x : x \in T
    BY <2>3
  <2>5. IsFiniteSet(T)
    BY <2>3, FS_Subset
  <2>6. IsFiniteSet(T \ {x}) /\ Cardinality(T \ {x}) = k - 1 /\ k \in Nat
    BY <2>2, <2>3, <2>4, <2>5, FS_RemoveElement
  <2>7. CASE T \ {x} = {}
    <3>1. \A y \in T : y = x
      BY <2>4, <2>7
    <3>2. HasMax(T)
      BY <2>4, <3>1
    <3> QED
      BY <2>3, <3>2
  <2>8. CASE T \ {x} # {}
    <3>1. Cardinality(T \ {x}) \in Nat
      BY <2>6, FS_CardinalityType
    <3>2. k - 1 \notin Bad
      BY <2>2, <2>6
    <3>3. HasMax(T \ {x})
      BY <2>6, <2>8, <3>1, <3>2
    <3>4. PICK m \in T \ {x} : \A y \in T \ {x} : y <= m
      BY <3>3
    <3>5. m \in Int /\ x \in Int /\ \A y \in T : y \in Int
      BY <2>4
    <3>6. HasMax(T)
      <4>1. CASE x <= m
        BY <3>4, <4>1
      <4>2. CASE m < x
        BY <2>4, <3>4, <3>5, <4>2
      <4> QED
        BY <3>5, <4>1, <4>2
    <3> QED
      BY <2>3, <3>6
  <2> QED
    BY <2>7, <2>8
<1> QED
  BY <1>1

(* A finite set of integers can be listed in order: what Sorted chooses is  *)
(* there to be chosen.                                                      *)
LEMMA SortedExists ==
    ASSUME NEW S, IsFiniteSet(S), S \subseteq Int
    PROVE  \E s \in [1..Cardinality(S) -> S] : Range(s) = S /\ Increasing(s)
<1> DEFINE HasList(T) == \E s \in [1..Cardinality(T) -> T] : Range(s) = T /\ Increasing(s)
           Bad == {k \in Nat : \E T \in SUBSET S : Cardinality(T) = k /\ ~HasList(T)}
<1>1. ASSUME ~HasList(S) PROVE FALSE
  <2>1. Cardinality(S) \in Bad
    BY <1>1, FS_CardinalityType
  <2>2. PICK k \in Bad : \A j \in Bad : k <= j
    BY <2>1, LeastElement
  <2>3. PICK T \in SUBSET S : Cardinality(T) = k /\ ~HasList(T)
    BY <2>2
  <2>4. IsFiniteSet(T)
    BY <2>3, FS_Subset
  <2>5. CASE T = {}
    <3>1. Cardinality(T) = 0
      BY <2>5, FS_EmptySet
    <3>2. 1..0 = {}
      OBVIOUS
    <3> DEFINE s == [i \in {} |-> 0]
    <3>3. s \in [1..Cardinality(T) -> T] /\ Range(s) = T /\ Increasing(s)
      BY <2>5, <3>1, <3>2 DEF Range, Increasing
    <3> QED
      BY <2>3, <3>3
  <2>6. CASE T # {}
    <3>1. PICK m \in T : \A x \in T : x <= m
      BY <2>4, <2>6, GreatestElement
    <3> DEFINE U == T \ {m}
    <3>2. IsFiniteSet(U) /\ Cardinality(U) = k - 1 /\ k \in Nat
      BY <2>2, <2>3, <2>4, FS_RemoveElement
    <3>3. k - 1 \in Nat
      BY <3>2, FS_CardinalityType
    <3>4. k - 1 \notin Bad
      BY <2>2, <3>2
    <3>5. HasList(U)
      BY <3>2, <3>3, <3>4
    <3>6. PICK u \in [1..(k - 1) -> U] : Range(u) = U /\ Increasing(u)
      BY <3>2, <3>5
    <3> DEFINE s == [i \in 1..k |-> IF i = k THEN m ELSE u[i]]
    <3> HIDE DEF HasList, Bad
    <3>7. s \in [1..k -> T] /\ DOMAIN s = 1..k /\ DOMAIN u = 1..(k - 1)
      BY <3>2, <3>6
    <3>8. s[k] = m /\ \A i \in 1..(k - 1) : s[i] = u[i]
      BY <3>2, <3>3
    <3>9. Range(s) = T
      <4>1. ASSUME NEW y \in T PROVE \E i \in 1..k : s[i] = y
        <5>1. CASE y = m
          BY <3>2, <3>3, <3>8, <5>1
        <5>2. CASE y # m
          <6>1. PICK i \in 1..(k - 1) : u[i] = y
            BY <3>6, <3>7, <5>2 DEF Range
          <6> QED
            BY <3>2, <3>8, <6>1
        <5> QED
          BY <5>1, <5>2
      <4> HIDE DEF s
      <4> QED
        BY <3>7, <4>1 DEF Range
    <3>10. Increasing(s)
      <4> SUFFICES ASSUME NEW i \in 1..k, NEW j \in 1..k, i < j PROVE s[i] < s[j]
        BY <3>7 DEF Increasing
      <4>1. i \in 1..(k - 1) /\ s[i] = u[i] /\ u[i] \in U
        BY <3>2, <3>6, <3>8
      <4>2. CASE j = k
        <5>1. u[i] <= m /\ u[i] # m /\ u[i] \in Int /\ m \in Int
          BY <3>1, <4>1
        <5> QED
          BY <3>8, <4>1, <4>2, <5>1
      <4>3. CASE j # k
        <5>1. j \in 1..(k - 1)
          BY <3>2, <4>3
        <5> QED
          BY <3>6, <3>7, <3>8, <4>1, <5>1 DEF Increasing
      <4> QED
        BY <4>2, <4>3
    <3> HIDE DEF s
    <3>11. HasList(T)
      BY <2>3, <3>7, <3>9, <3>10 DEF HasList
    <3> QED
      BY <2>3, <3>11
  <2> QED
    BY <2>5, <2>6
<1> QED
  BY <1>1

LEMMA IncreasingDistinct ==
    ASSUME NEW S, S \subseteq Int, NEW k \in Nat, NEW s \in [1..k -> S], Increasing(s)
    PROVE  IsInjective(s)
<1> SUFFICES ASSUME NEW a \in 1..k, NEW b \in 1..k, s[a] = s[b] PROVE a = b
  BY DEF IsInjective
<1>1. s[a] \in Int /\ s[b] \in Int
  OBVIOUS
<1>2. ~(a < b) /\ ~(b < a)
  BY <1>1 DEF Increasing
<1> QED
  BY <1>2

LEMMA SortedFacts ==
    ASSUME NEW S, IsFiniteSet(S), S \subseteq Int
    PROVE  Sorted(S) \in Seq(S) /\ Range(Sorted(S)) = S /\ IsInjective(Sorted(S))
<1>1. /\ Sorted(S) \in [1..Cardinality(S) -> S]
      /\ Range(Sorted(S)) = S /\ Increasing(Sorted(S))
  BY SortedExists DEF Sorted
<1>2. Cardinality(S) \in Nat
  BY FS_CardinalityType
<1>3. IsInjective(Sorted(S))
  BY <1>1, <1>2, IncreasingDistinct
<1> QED
  BY <1>1, <1>2, <1>3

-----------------------------------------------------------------------------
(* Sequences without repetition, as the queue and the result are. *)
LEMMA AppendDistinct ==
    ASSUME NEW S, NEW s \in Seq(S), NEW e \in S
    PROVE  /\ Range(Append(s, e)) = Range(s) \cup {e}
           /\ IsInjective(s) /\ e \notin Range(s) => IsInjective(Append(s, e))
<1> DEFINE t == Append(s, e)
<1>1. /\ Len(s) \in Nat /\ DOMAIN s = 1..Len(s) /\ DOMAIN t = 1..(Len(s) + 1)
      /\ t[Len(s) + 1] = e /\ \A i \in 1..Len(s) : t[i] = s[i]
  BY AppendProperties
<1> HIDE DEF t
<1>2. \A i \in 1..(Len(s) + 1) : i \in 1..Len(s) \/ i = Len(s) + 1
  BY <1>1
<1>3. Range(t) = Range(s) \cup {e}
  <2>1. ASSUME NEW x \in Range(t) PROVE x \in Range(s) \cup {e}
    BY <1>1, <1>2 DEF Range
  <2>2. ASSUME NEW x \in Range(s) \cup {e} PROVE x \in Range(t)
    BY <1>1 DEF Range
  <2> QED
    BY <2>1, <2>2
<1>4. ASSUME IsInjective(s), e \notin Range(s) PROVE IsInjective(t)
  <2>1. \A i \in 1..Len(s) : s[i] # e
    BY <1>1, <1>4 DEF Range
  <2> QED
    BY <1>1, <1>2, <1>4, <2>1 DEF IsInjective
<1> QED
  BY <1>3, <1>4 DEF t

LEMMA TailDistinct ==
    ASSUME NEW S, NEW s \in Seq(S), s # <<>>, IsInjective(s)
    PROVE  /\ Head(s) \in Range(s) /\ Range(Tail(s)) = Range(s) \ {Head(s)}
           /\ IsInjective(Tail(s))
<1>1. /\ Len(s) \in Nat /\ Len(s) > 0 /\ DOMAIN s = 1..Len(s) /\ Head(s) = s[1]
      /\ Tail(s) \in Seq(S) /\ Len(Tail(s)) = Len(s) - 1 /\ DOMAIN Tail(s) = 1..(Len(s) - 1)
      /\ \A i \in 1..(Len(s) - 1) : Tail(s)[i] = s[i + 1]
  BY HeadTailProperties, EmptySeq
<1>2. IsInjective(Tail(s))
  BY <1>1 DEF IsInjective
<1>3. ASSUME NEW x \in Range(Tail(s)) PROVE x \in Range(s) \ {Head(s)}
  BY <1>1 DEF Range, IsInjective
<1>4. ASSUME NEW x \in Range(s), x # Head(s) PROVE x \in Range(Tail(s))
  <2>1. PICK i \in 1..Len(s) : x = s[i]
    BY <1>1 DEF Range
  <2>2. i - 1 \in 1..(Len(s) - 1) /\ (i - 1) + 1 = i
    BY <1>1, <1>4, <2>1
  <2> QED
    BY <1>1, <2>1, <2>2 DEF Range
<1>5. Range(Tail(s)) = Range(s) \ {Head(s)}
  BY <1>3, <1>4
<1>6. Head(s) \in Range(s)
  BY <1>1 DEF Range
<1> QED
  BY <1>2, <1>5, <1>6

LEMMA ConcatDistinct ==
    ASSUME NEW S, NEW s \in Seq(S), NEW t \in Seq(S)
    PROVE  /\ s \o t \in Seq(S) /\ Range(s \o t) = Range(s) \cup Range(t)
           /\ IsInjective(s) /\ IsInjective(t) /\ Range(s) \cap Range(t) = {}
                => IsInjective(s \o t)
<1>1. /\ s \o t \in Seq(S) /\ Len(s) \in Nat /\ Len(t) \in Nat
      /\ DOMAIN s = 1..Len(s) /\ DOMAIN t = 1..Len(t) /\ DOMAIN (s \o t) = 1..(Len(s) + Len(t))
      /\ \A i \in 1..(Len(s) + Len(t)) : (s \o t)[i] = IF i <= Len(s) THEN s[i] ELSE t[i - Len(s)]
  BY ConcatProperties
<1>2. \A i \in 1..Len(s) : (s \o t)[i] = s[i]
  BY <1>1
<1>3. \A i \in 1..Len(t) : (s \o t)[i + Len(s)] = t[i] /\ i + Len(s) \in 1..(Len(s) + Len(t))
  BY <1>1
<1>4. \A i \in 1..(Len(s) + Len(t)) : i \in 1..Len(s) \/ i - Len(s) \in 1..Len(t)
  BY <1>1
<1>5. ASSUME NEW x \in Range(s \o t) PROVE x \in Range(s) \cup Range(t)
  <2>1. PICK i \in 1..(Len(s) + Len(t)) : x = (s \o t)[i]
    BY <1>1 DEF Range
  <2>2. CASE i <= Len(s)
    BY <1>1, <2>1, <2>2 DEF Range
  <2>3. CASE ~(i <= Len(s))
    <3>1. x = t[i - Len(s)] /\ i - Len(s) \in 1..Len(t)
      BY <1>1, <2>1, <2>3
    <3> QED
      BY <1>1, <3>1 DEF Range
  <2> QED
    BY <2>2, <2>3
<1>6. ASSUME NEW x \in Range(s) \cup Range(t) PROVE x \in Range(s \o t)
  <2>1. CASE x \in Range(s)
    <3>1. PICK i \in 1..Len(s) : x = s[i]
      BY <1>1, <2>1 DEF Range
    <3>2. i \in 1..(Len(s) + Len(t))
      BY <1>1
    <3> QED
      BY <1>1, <1>2, <3>1, <3>2 DEF Range
  <2>2. CASE x \in Range(t)
    <3>1. PICK i \in 1..Len(t) : x = t[i]
      BY <1>1, <2>2 DEF Range
    <3> QED
      BY <1>1, <1>3, <3>1 DEF Range
  <2> QED
    BY <2>1, <2>2
<1>7. ASSUME IsInjective(s), IsInjective(t), Range(s) \cap Range(t) = {} PROVE IsInjective(s \o t)
  <2> SUFFICES ASSUME NEW a \in 1..(Len(s) + Len(t)), NEW b \in 1..(Len(s) + Len(t)),
                      (s \o t)[a] = (s \o t)[b]
               PROVE  a = b
    BY <1>1 DEF IsInjective
  <2>1. ASSUME NEW i \in 1..Len(s), NEW j \in 1..Len(t) PROVE s[i] # t[j]
    BY <1>1, <1>7 DEF Range
  <2>2. CASE a <= Len(s) /\ b <= Len(s)
    BY <1>1, <1>7, <2>2 DEF IsInjective
  <2>3. CASE a > Len(s) /\ b > Len(s)
    <3>1. a - Len(s) \in 1..Len(t) /\ b - Len(s) \in 1..Len(t) /\ t[a - Len(s)] = t[b - Len(s)]
      BY <1>1, <2>3
    <3>2. a - Len(s) = b - Len(s)
      BY <1>1, <1>7, <3>1 DEF IsInjective
    <3> QED
      BY <1>1, <3>2
  <2>4. CASE (a <= Len(s)) # (b <= Len(s))
    BY <1>1, <2>1, <2>4
  <2> QED
    BY <1>1, <2>2, <2>3, <2>4
<1> QED
  BY <1>1, <1>5, <1>6, <1>7

-----------------------------------------------------------------------------
(* The manifest: its names are finitely many, and a name's list is one. *)
LEMMA ManifestFacts ==
    ASSUME insts \in Manifests
    PROVE  /\ Len(insts) \in Nat /\ DOMAIN insts = 1..Len(insts)
           /\ \A i \in 1..Len(insts) : insts[i].name \in Names /\ insts[i].deps \in Seq(Names)
<1>1. PICK k \in 0..MaxInsts : insts \in [1..k -> [name : Names, deps : Lists(Names, MaxDeps)]]
  BY DEF Manifests, Lists
<1>2. k \in Nat
  BY SizesAreNat
<1>3. Len(insts) = k /\ DOMAIN insts = 1..k
  BY <1>1, <1>2
<1>4. Lists(Names, MaxDeps) \subseteq Seq(Names)
  BY SizesAreNat DEF Lists
<1> QED
  BY <1>1, <1>2, <1>3, <1>4

LEMMA KnownFacts ==
    ASSUME insts \in Manifests
    PROVE  IsFiniteSet(Known) /\ Known \subseteq Int /\ Cardinality(Known) \in Nat
<1>1. /\ Len(insts) \in Nat /\ \A i \in 1..Len(insts) : insts[i].name \in Names
  BY ManifestFacts
<1>2. Known \subseteq Int
  BY <1>1, NamesAreInts DEF Known
<1> DEFINE f == [i \in 1..Len(insts) |-> insts[i].name]
<1>3. f \in Surjection(1..Len(insts), Known)
  BY DEF Known, Surjection
<1>4. IsFiniteSet(1..Len(insts))
  BY <1>1, CountTo
<1>5. IsFiniteSet(Known)
  BY <1>3, <1>4, FS_Surjection
<1> QED
  BY <1>2, <1>5, FS_CardinalityType

LEMMA DepsFacts ==
    ASSUME insts \in Manifests, NEW n \in Known
    PROVE  /\ DepsOf(n) \in Seq(Names) /\ Len(DepsOf(n)) \in Nat
           /\ DOMAIN DepsOf(n) = 1..Len(DepsOf(n))
<1> DEFINE I == {i \in 1..Len(insts) : insts[i].name = n}
           Last(i) == /\ insts[i].name = n
                      /\ \A k \in (i + 1)..Len(insts) : insts[k].name # n
<1>1. /\ Len(insts) \in Nat
      /\ \A i \in 1..Len(insts) : insts[i].deps \in Seq(Names)
  BY ManifestFacts
<1>2. I # {} /\ I \subseteq Int
  BY DEF Known
<1>3. IsFiniteSet(I)
  <2>1. IsFiniteSet(1..Len(insts))
    BY <1>1, CountTo
  <2> QED
    BY <2>1, FS_Subset
<1>4. PICK m \in I : \A i \in I : i <= m
  BY <1>2, <1>3, GreatestElement
<1>5. \A k \in (m + 1)..Len(insts) : insts[k].name # n
  BY <1>1, <1>4
<1>6. \E i \in 1..Len(insts) : Last(i)
  BY <1>4, <1>5
<1>7. PICK i \in 1..Len(insts) : DepsOf(n) = insts[i].deps
  BY <1>6 DEF DepsOf
<1> QED
  BY <1>1, <1>7

(* An instance without a pending entry has all it depends on taken. *)
LEMMA PendingFacts ==
    ASSUME insts \in Manifests, NEW n \in Known
    PROVE  /\ IsFiniteSet(Pending(n)) /\ Cardinality(Pending(n)) \in Nat
           /\ Cardinality(Pending(n)) = 0 <=> Range(DepsOf(n)) \subseteq Range(result)
<1>1. Len(DepsOf(n)) \in Nat /\ DOMAIN DepsOf(n) = 1..Len(DepsOf(n))
  BY DepsFacts
<1>2. IsFiniteSet(Pending(n))
  <2>1. IsFiniteSet(1..Len(DepsOf(n)))
    BY <1>1, CountTo
  <2> QED
    BY <2>1, FS_Subset DEF Pending
<1>3. Pending(n) = {} <=> Range(DepsOf(n)) \subseteq Range(result)
  <2> DEFINE R == Range(result)
  <2> HIDE DEF R
  <2>1. Pending(n) = {i \in 1..Len(DepsOf(n)) : DepsOf(n)[i] \notin R}
    BY DEF Pending, R
  <2>2. Range(DepsOf(n)) = {DepsOf(n)[i] : i \in 1..Len(DepsOf(n))}
    BY <1>1 DEF Range
  <2>3. Pending(n) = {} <=> Range(DepsOf(n)) \subseteq R
    BY <2>1, <2>2
  <2> QED
    BY <2>3 DEF R
<1> QED
  BY <1>2, <1>3, FS_EmptySet, FS_CardinalityType

-----------------------------------------------------------------------------
(* The steps. *)
LEMMA SameManifest ==
    ASSUME UNCHANGED insts
    PROVE  /\ Known' = Known /\ (Complete' <=> Complete)
           /\ \A n : DepsOf(n)' = DepsOf(n)
  BY DEF Known, DepsOf, Complete

LEMMA SetupKeeps ==
    ASSUME insts \in Manifests, Complete, result = <<>>, Setup
    PROVE  KahnInv'
<1>1. /\ Known' = Known /\ \A n : DepsOf(n)' = DepsOf(n)
  BY SameManifest DEF Setup
<1>2. /\ inDegree' = [n \in Known |-> Len(DepsOf(n))] /\ result' = <<>>
      /\ queue' = Sorted({n \in Known : Len(DepsOf(n)) = 0})
  BY DEF Setup, Degree
<1>3. IsFiniteSet(Known) /\ Known \subseteq Int
  BY KnownFacts
<1> DEFINE Q == {n \in Known : Len(DepsOf(n)) = 0}
<1>4. IsFiniteSet(Q) /\ Q \subseteq Int
  BY <1>3, FS_Subset
<1>5. queue' \in Seq(Q) /\ Range(queue') = Q /\ IsInjective(queue')
  <2> HIDE DEF Q
  <2> QED
    BY <1>2, <1>4, SortedFacts DEF Q
<1>6. queue' \in Seq(Known)
  BY <1>5, SeqMonotonic
<1>7. Range(result') = {} /\ IsInjective(result') /\ result' \in Seq(Known)
  BY <1>2 DEF Range, IsInjective
<1>8. ASSUME NEW n \in Known
      PROVE  inDegree'[n] = Cardinality(Pending(n)') /\ inDegree'[n] \in Nat
  <2>1. Pending(n)' = 1..Len(DepsOf(n))
    BY <1>1, <1>7 DEF Pending
  <2>2. Len(DepsOf(n)) \in Nat
    BY DepsFacts
  <2>3. Cardinality(1..Len(DepsOf(n))) = Len(DepsOf(n))
    BY <2>2, CountTo
  <2> QED
    BY <1>2, <2>1, <2>2, <2>3
<1>9. \A n \in Known : inDegree'[n] = 0 <=> n \in Q
  BY <1>2
<1>10. inDegree' \in [Known -> Nat]
  BY <1>2, <1>8
<1> QED
  BY <1>1, <1>5, <1>6, <1>7, <1>8, <1>9, <1>10 DEF KahnInv

LEMMA TakeKeeps ==
    ASSUME insts \in Manifests, Complete, KahnInv, Take
    PROVE  KahnInv'
<1> DEFINE m == Head(queue)
           Old(n) == Cardinality(Pending(n))
           Occ(n) == {i \in 1..Len(DepsOf(n)) : DepsOf(n)[i] = m}
           New == {n \in Known : Ready(n, m)}
<1>1. /\ queue # <<>> /\ queue \in Seq(Known) /\ result \in Seq(Known)
      /\ IsInjective(queue) /\ IsInjective(result) /\ Range(queue) \cap Range(result) = {}
      /\ inDegree \in [Known -> Nat]
      /\ \A n \in Known : inDegree[n] = Old(n)
      /\ \A n \in Known : inDegree[n] = 0 <=> n \in Range(queue) \cup Range(result)
  BY DEF KahnInv, Take
<1>2. /\ result' = Append(result, m)
      /\ inDegree' = [n \in Known |-> inDegree[n] - Cardinality(Occ(n))]
      /\ queue' = Tail(queue) \o Sorted(New)
      /\ Known' = Known /\ \A n : DepsOf(n)' = DepsOf(n)
  BY SameManifest DEF Take, Occurrences
<1>3. /\ m \in Known /\ m \in Range(queue) /\ Tail(queue) \in Seq(Known)
      /\ Range(Tail(queue)) = Range(queue) \ {m} /\ IsInjective(Tail(queue))
  BY <1>1, TailDistinct, HeadTailProperties
<1>4. m \notin Range(result)
  BY <1>1, <1>3
<1>5. /\ result' \in Seq(Known) /\ Range(result') = Range(result) \cup {m} /\ IsInjective(result')
  <2> HIDE DEF m
  <2> QED
    BY <1>1, <1>2, <1>3, <1>4, AppendDistinct, AppendProperties
<1>6. ASSUME NEW n \in Known
      PROVE  /\ Old(n) \in Nat /\ Cardinality(Occ(n)) \in Nat
             /\ Cardinality(Pending(n)') \in Nat
             /\ Old(n) = Cardinality(Pending(n)') + Cardinality(Occ(n))
  <2>1. Pending(n)' = {i \in 1..Len(DepsOf(n)) : DepsOf(n)[i] \notin Range(result) \cup {m}}
    BY <1>2, <1>5 DEF Pending
  <2>2. Pending(n) = Pending(n)' \cup Occ(n) /\ Pending(n)' \cap Occ(n) = {}
    BY <1>4, <2>1 DEF Pending
  <2>3. IsFiniteSet(Pending(n)) /\ Old(n) \in Nat
    BY PendingFacts
  <2>4. IsFiniteSet(Pending(n)') /\ IsFiniteSet(Occ(n))
    BY <2>2, <2>3, FS_Subset
  <2>5. Cardinality(Pending(n)') \in Nat /\ Cardinality(Occ(n)) \in Nat
    BY <2>4, FS_CardinalityType
  <2>6. Cardinality(Pending(n)' \cup Occ(n)) =
           Cardinality(Pending(n)') + Cardinality(Occ(n)) - Cardinality(Pending(n)' \cap Occ(n))
    BY <2>4, FS_Union
  <2>7. Cardinality({}) = 0
    BY FS_EmptySet
  <2>8. Old(n) = Cardinality(Pending(n)' \cup Occ(n)) /\ Cardinality(Pending(n)' \cap Occ(n)) = 0
    BY <2>2, <2>7
  <2> HIDE DEF Old, Occ
  <2> QED
    BY <2>3, <2>5, <2>6, <2>8
<1>7. \A n \in Known : inDegree'[n] = Cardinality(Pending(n)')
  BY <1>1, <1>2, <1>6
<1>8. \A n \in Known : n \in New <=> inDegree[n] # 0 /\ inDegree'[n] = 0
  <2> TAKE n \in Known
  <2>1. n \in New <=> inDegree[n] \in 1..Cardinality(Occ(n))
    BY DEF Ready, Occurrences
  <2>2. /\ inDegree[n] = Old(n) /\ inDegree'[n] = Cardinality(Pending(n)')
        /\ Old(n) \in Nat /\ Cardinality(Occ(n)) \in Nat /\ Cardinality(Pending(n)') \in Nat
        /\ Old(n) = Cardinality(Pending(n)') + Cardinality(Occ(n))
    BY <1>1, <1>6, <1>7
  <2> HIDE DEF Old, Occ, New
  <2> QED
    BY <2>1, <2>2
<1>9. IsFiniteSet(New) /\ New \subseteq Int /\ New \subseteq Known
  BY KnownFacts, FS_Subset
<1>10. Sorted(New) \in Seq(Known) /\ Range(Sorted(New)) = New /\ IsInjective(Sorted(New))
  <2> HIDE DEF New
  <2> QED
    BY <1>9, SortedFacts, SeqMonotonic
<1>11. New \cap (Range(queue) \cup Range(result)) = {}
  BY <1>1, <1>8, <1>9
<1>12. /\ queue' \in Seq(Known) /\ Range(queue') = (Range(queue) \ {m}) \cup New
       /\ IsInjective(queue')
  <2> HIDE DEF New, m
  <2>1. Range(Tail(queue)) \cap Range(Sorted(New)) = {}
    BY <1>3, <1>10, <1>11
  <2> DEFINE t == Tail(queue)
             u == Sorted(New)
  <2>2. t \in Seq(Known) /\ u \in Seq(Known) /\ IsInjective(t) /\ IsInjective(u)
    BY <1>3, <1>10
  <2> HIDE DEF t, u
  <2>3. t \o u \in Seq(Known) /\ Range(t \o u) = Range(t) \cup Range(u) /\ IsInjective(t \o u)
    <3>1. Range(t) \cap Range(u) = {}
      BY <2>1 DEF t, u
    <3> QED
      BY <2>2, <3>1, ConcatDistinct
  <2> QED
    BY <1>2, <1>3, <1>10, <2>3 DEF t, u
<1>13. Range(queue') \cap Range(result') = {}
  BY <1>1, <1>3, <1>5, <1>11, <1>12
<1>14. \A n \in Known : inDegree'[n] = 0 <=> n \in Range(queue') \cup Range(result')
  <2> TAKE n \in Known
  <2>1. inDegree[n] = 0 => inDegree'[n] = 0
    <3>1. /\ inDegree[n] = Old(n) /\ inDegree'[n] = Cardinality(Pending(n)')
          /\ Old(n) \in Nat /\ Cardinality(Occ(n)) \in Nat /\ Cardinality(Pending(n)') \in Nat
          /\ Old(n) = Cardinality(Pending(n)') + Cardinality(Occ(n))
      BY <1>1, <1>6, <1>7
    <3> HIDE DEF Old, Occ
    <3> QED
      BY <3>1
  <2> HIDE DEF New, m
  <2> QED
    BY <1>1, <1>3, <1>5, <1>8, <1>12, <2>1
<1>15. inDegree' \in [Known -> Nat]
  BY <1>2, <1>6, <1>7
<1>16. ASSUME NEW n \in Range(result'), NEW d \in Range(DepsOf(n)) PROVE Before(d, n)'
  <2>1. /\ Len(result) \in Nat /\ DOMAIN result = 1..Len(result)
        /\ Len(result') = Len(result) + 1 /\ result'[Len(result) + 1] = m
        /\ \A i \in 1..Len(result) : result'[i] = result[i]
    <3> HIDE DEF m
    <3> QED
      BY <1>1, <1>2, <1>3, AppendProperties
  <2>2. CASE n \in Range(result)
    <3>1. Before(d, n)
      BY <2>2 DEF KahnInv
    <3> QED
      BY <2>1, <3>1 DEF Before
  <2>3. CASE n = m
    <3>1. d \in Range(result)
      <4>1. inDegree[m] = 0
        BY <1>1, <1>3
      <4>2. Cardinality(Pending(m)) = 0
        BY <1>1, <1>3, <4>1
      <4> QED
        BY <1>3, <2>3, <4>2, PendingFacts
    <3>2. PICK i \in 1..Len(result) : result[i] = d
      BY <2>1, <3>1 DEF Range
    <3>3. /\ i \in 1..Len(result') /\ Len(result) + 1 \in 1..Len(result')
          /\ i < Len(result) + 1 /\ result'[i] = d /\ result'[Len(result) + 1] = n
      BY <2>1, <2>3, <3>2
    <3> QED
      BY <3>3 DEF Before
  <2> QED
    BY <1>5, <2>2, <2>3
<1> HIDE DEF m, New, Old, Occ
<1> QED
  BY <1>2, <1>5, <1>7, <1>12, <1>13, <1>14, <1>15, <1>16 DEF KahnInv

-----------------------------------------------------------------------------
LEMMA SameRun ==
    ASSUME UNCHANGED <<insts, queue, inDegree, result>>
    PROVE  (KahnInv => KahnInv') /\ (Complete' <=> Complete) /\ Verdict' = Verdict
<1>1. /\ Known' = Known /\ (Complete' <=> Complete) /\ \A n : DepsOf(n)' = DepsOf(n)
  BY SameManifest
<1>2. \A n : Pending(n)' = Pending(n)
  BY <1>1 DEF Pending
<1>3. \A n, m : Before(n, m)' <=> Before(n, m)
  BY DEF Before
<1>4. KahnInv => KahnInv'
  BY <1>1, <1>2, <1>3 DEF KahnInv
<1>5. Verdict' = Verdict
  BY <1>1 DEF Verdict
<1> QED
  BY <1>1, <1>4, <1>5

LEMMA OrderHolds == Spec => []OrderInv
<1>1. Init => OrderInv
  BY DEF Init, OrderInv, Verdicts
<1>2. OrderInv /\ [Next]_vars => OrderInv'
  <2> SUFFICES ASSUME OrderInv, [Next]_vars PROVE OrderInv'
    OBVIOUS
  <2>1. CASE Validate
    <3>1. Complete' <=> Complete
      BY <2>1, SameManifest DEF Validate
    <3> QED
      BY <2>1, <3>1 DEF Validate, OrderInv, Verdicts, Manifests
  <2>2. CASE Setup
    <3>1. (Complete' <=> Complete) /\ KahnInv'
      BY <2>2, SameManifest, SetupKeeps DEF Setup, OrderInv
    <3> QED
      BY <2>2, <3>1 DEF Setup, OrderInv, Verdicts, Manifests
  <2>3. CASE Take
    <3>1. (Complete' <=> Complete) /\ KahnInv'
      BY <2>3, SameManifest, TakeKeeps DEF Take, OrderInv
    <3> QED
      BY <2>3, <3>1 DEF Take, OrderInv, Verdicts, Manifests
  <2>4. CASE Return
    <3>1. UNCHANGED <<insts, queue, inDegree, result>> /\ pc = "loop" /\ queue = <<>> /\ pc' = Verdict
      BY <2>4 DEF Return
    <3>2. KahnInv' /\ Complete' /\ Verdict' = Verdict
      BY <3>1, SameRun DEF OrderInv
    <3>3. Verdict \in Verdicts
      BY DEF Verdict, Verdicts
    <3> QED
      BY <3>1, <3>2, <3>3 DEF OrderInv, Verdicts, Manifests
  <2>5. CASE UNCHANGED vars
    <3>1. UNCHANGED <<insts, pc, queue, inDegree, result>>
      BY <2>5 DEF vars
    <3>2. (KahnInv => KahnInv') /\ (Complete' <=> Complete) /\ Verdict' = Verdict
      BY <3>1, SameRun
    <3> QED
      BY <3>1, <3>2 DEF OrderInv, Verdicts, Manifests
  <2> QED
    BY <2>1, <2>2, <2>3, <2>4, <2>5 DEF Next
<1> QED
  BY <1>1, <1>2, PTL DEF Spec

(* The maps lose an instance exactly when a name is repeated. *)
LEMMA CountShowsRepetition ==
    ASSUME insts \in Manifests
    PROVE  Cardinality(Known) # Len(insts) <=> Repeated
<1> DEFINE f == [i \in 1..Len(insts) |-> insts[i].name]
<1>1. Len(insts) \in Nat
  BY ManifestFacts
<1>2. f \in Surjection(1..Len(insts), Known)
  BY DEF Known, Surjection
<1>3. IsFiniteSet(1..Len(insts)) /\ Cardinality(1..Len(insts)) = Len(insts)
  BY <1>1, CountTo
<1>4. Cardinality(Known) = Len(insts) <=> f \in Injection(1..Len(insts), Known)
  <2> HIDE DEF f
  <2> QED
    BY <1>2, <1>3, FS_Surjection
<1>5. f \in Injection(1..Len(insts), Known) <=> ~Repeated
  BY DEF Injection, IsInjective, Repeated, Known
<1> QED
  BY <1>4, <1>5

(* The length of the result counts what was taken. *)
LEMMA ResultCount ==
    ASSUME insts \in Manifests, KahnInv
    PROVE  /\ Range(result) \subseteq Known
           /\ Len(result) = Cardinality(Known) <=> Range(result) = Known
<1>1. /\ Len(result) \in Nat /\ DOMAIN result = 1..Len(result)
      /\ result \in Seq(Known) /\ IsInjective(result)
  BY DEF KahnInv
<1>2. Range(result) \subseteq Known
  BY <1>1 DEF Range
<1>3. IsFiniteSet(Known)
  BY KnownFacts
<1>4. result \in Injection(1..Len(result), Range(result))
      /\ result \in Surjection(1..Len(result), Range(result))
  BY <1>1 DEF Injection, Surjection, Range
<1>5. IsFiniteSet(1..Len(result)) /\ Cardinality(1..Len(result)) = Len(result)
  BY <1>1, CountTo
<1>6. Cardinality(Range(result)) = Len(result)
  BY <1>4, <1>5, FS_Surjection
<1>7. Cardinality(Known) = Cardinality(Range(result)) => Known = Range(result)
  BY <1>2, <1>3, FS_Subset
<1> QED
  BY <1>2, <1>6, <1>7

(* An order in which every instance comes after all it depends on leaves no *)
(* room for a cycle: its first instance in the order has nobody to wait for.*)
LEMMA OrderedIsAcyclic ==
    ASSUME insts \in Manifests, KahnInv, Range(result) = Known
    PROVE  ~Cyclic
<1> SUFFICES ASSUME NEW S \in SUBSET Known, S # {},
                    \A n \in S : Range(DepsOf(n)) \cap S # {}
             PROVE  FALSE
  <2>1. ASSUME Cyclic
        PROVE  \E S \in (SUBSET Known) \ {{}} : \A n \in S : Range(DepsOf(n)) \cap S # {}
    BY <2>1 DEF Cyclic
  <2> QED
    BY <2>1
<1> DEFINE P == {i \in 1..Len(result) : result[i] \in S}
<1>1. Len(result) \in Nat /\ DOMAIN result = 1..Len(result) /\ IsInjective(result)
  BY DEF KahnInv
<1>2. P # {} /\ P \subseteq Nat
  BY <1>1 DEF Range
<1>3. PICK i \in P : \A k \in P : i <= k
  BY <1>2, LeastElement
<1>4. PICK d \in Range(DepsOf(result[i])) : d \in S
  BY <1>3
<1>5. Before(d, result[i])
  <2>1. result[i] \in Range(result)
    BY <1>1, <1>3 DEF Range
  <2> QED
    BY <1>4, <2>1 DEF KahnInv
<1>6. PICK a \in 1..Len(result), b \in 1..Len(result) : a < b /\ result[a] = d /\ result[b] = result[i]
  BY <1>5 DEF Before
<1>7. b = i /\ a \in P
  BY <1>1, <1>3, <1>4, <1>6 DEF IsInjective
<1> QED
  BY <1>1, <1>3, <1>6, <1>7

(* buildDependencyOrder's result has every instance of the manifest once,   *)
(* after all it depends on: for manifests of any size.                      *)
THEOREM DependencyOrderTopological == Spec => []OrderIsTopological
<1>1. OrderInv => OrderIsTopological
  <2> SUFFICES ASSUME OrderInv, pc = "ok"
               PROVE  /\ Len(result) = Len(insts) /\ Range(result) = Known
                      /\ \A n \in Known : \A d \in Range(DepsOf(n)) : Before(d, n)
    BY DEF OrderIsTopological
  <2>1. insts \in Manifests /\ KahnInv /\ Verdict = "ok"
    BY DEF OrderInv, Verdicts
  <2>2. Cardinality(Known) = Len(insts) /\ Len(result) = Len(insts)
    BY <2>1 DEF Verdict
  <2>3. Range(result) = Known
    BY <2>1, <2>2, ResultCount
  <2> QED
    BY <2>1, <2>2, <2>3 DEF KahnInv
<1> QED
  BY <1>1, OrderHolds, PTL

(* It refuses a manifest exactly when that is at fault, and for its fault: *)
(* what is left when the queue is empty is a cycle, a missing service is   *)
(* found before, and a repeated name is told from both.                    *)
THEOREM DependencyOrderRefusals == Spec => []RefusedForItsFault
<1>1. OrderInv => RefusedForItsFault
  <2> SUFFICES ASSUME OrderInv PROVE RefusedForItsFault
    OBVIOUS
  <2>1. pc = "unknown" => ~Complete
    BY DEF OrderInv
  <2>2. ASSUME pc \in Verdicts
        PROVE  /\ insts \in Manifests /\ KahnInv /\ Complete /\ queue = <<>> /\ pc = Verdict
               /\ Cardinality(Known) # Len(insts) <=> Repeated
               /\ Range(result) \subseteq Known
               /\ Len(result) = Cardinality(Known) <=> Range(result) = Known
    <3>1. insts \in Manifests /\ KahnInv /\ Complete /\ queue = <<>> /\ pc = Verdict
      BY <2>2 DEF OrderInv
    <3> QED
      BY <3>1, CountShowsRepetition, ResultCount
  <2>3. pc = "duplicate" => Repeated
    BY <2>2 DEF Verdict, Verdicts
  <2>4. ASSUME pc = "circular" PROVE Cyclic /\ ~Repeated
    <3>1. Cardinality(Known) = Len(insts) /\ Len(result) # Len(insts)
      BY <2>2, <2>4 DEF Verdict, Verdicts
    <3>2. pc \in Verdicts
      BY <2>4 DEF Verdicts
    <3> DEFINE S == Known \ Range(result)
    <3>3. S # {} /\ S \in SUBSET Known
      BY <2>2, <3>1, <3>2
    <3>4. ASSUME NEW n \in S PROVE Range(DepsOf(n)) \cap S # {}
      <4>1. Range(queue) = {}
        BY <2>2, <3>2 DEF Range
      <4>2. Cardinality(Pending(n)) # 0
        BY <2>2, <3>2, <4>1 DEF KahnInv
      <4>3. ~(Range(DepsOf(n)) \subseteq Range(result))
        BY <2>2, <3>2, <4>2, PendingFacts
      <4> QED
        BY <2>2, <3>2, <4>3 DEF Complete
    <3>5. Cyclic
      BY <3>3, <3>4 DEF Cyclic
    <3> QED
      BY <2>2, <3>1, <3>2, <3>5
  <2>5. ASSUME pc = "ok" PROVE ~Cyclic /\ ~Repeated
    <3>1. pc \in Verdicts /\ Verdict = "ok"
      BY <2>2, <2>5 DEF Verdicts
    <3>2. Cardinality(Known) = Len(insts) /\ Len(result) = Len(insts)
      BY <3>1 DEF Verdict
    <3>3. Range(result) = Known
      BY <2>2, <3>1, <3>2
    <3> QED
      BY <2>2, <3>1, <3>2, <3>3, OrderedIsAcyclic
  <2> QED
    BY <2>1, <2>3, <2>4, <2>5 DEF RefusedForItsFault
<1> QED
  BY <1>1, OrderHolds, PTL

=============================================================================
