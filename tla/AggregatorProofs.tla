-------------------------- MODULE AggregatorProofs --------------------------
(***************************************************************************)
(* Proofs about Aggregator: the averages stay close to the reports, every  *)
(* report that was taken in is in one place, and the archive is in order.  *)
(* And about VehicleReports, which makes what the aggregator takes in: the *)
(* times of the locations are right, before the archive and after it.      *)
(***************************************************************************)
EXTENDS Aggregator, VehicleReports,
        FiniteSetTheorems, SequenceTheorems, WellFoundedInduction, TLAPS

----------------------------------------------------------------------------
(* Induction, and the greatest and least of finitely many integers.        *)

LEMMA Smallest ==
  ASSUME NEW T \in SUBSET Nat, T # {}
  PROVE  \E n \in T : \A m \in T : n <= m
<1> DEFINE R == OpToRel(<, Nat)
<1>1. IsWellFoundedOn(R, Nat)
  BY NatLessThanWellFounded
<1>2. \A m, n \in Nat : m < n => <<m, n>> \in R
  BY DEF OpToRel
<1> HIDE DEF R
<1>3. PICK n \in T : \A m \in T : ~ (<<m, n>> \in R)
  BY <1>1, WFMin
<1>4. n \in Nat /\ \A m \in T : m \in Nat /\ ~ (m < n)
  BY <1>2, <1>3
<1>5. \A m \in T : n <= m
  BY <1>4
<1> QED
  BY <1>5

(* A set with 0 and the successors of its numbers has all of them: the     *)
(* smallest that it lacks would follow one that it has.                    *)
LEMMA NatSet ==
  ASSUME NEW S, 0 \in S, \A n \in Nat : n \in S => n + 1 \in S
  PROVE  \A n \in Nat : n \in S
<1>1. SUFFICES ASSUME Nat \ S # {} PROVE FALSE
  OBVIOUS
<1>2. PICK n \in Nat \ S : \A m \in Nat \ S : n <= m
  BY <1>1, Smallest
<1>3. n # 0 /\ n - 1 \in Nat /\ ~ (n <= n - 1)
  BY <1>2
<1>4. n - 1 \in S
  BY <1>2, <1>3
<1>5. (n - 1) + 1 = n
  BY <1>2
<1> QED
  BY <1>2, <1>3, <1>4, <1>5

(* The values of a function of a finite domain are finitely many.          *)
LEMMA FiniteImage ==
  ASSUME NEW S, IsFiniteSet(S), NEW f
  PROVE  IsFiniteSet({f[x] : x \in S})
<1> DEFINE T == {f[x] : x \in S}
           g == [x \in S |-> f[x]]
<1>1. g \in Surjection(S, T)
  BY DEF Surjection
<1> QED
  BY <1>1, FS_Surjection

(* A finite set of integers has a greatest and a least element.            *)
LEMMA Extremes ==
  ASSUME NEW S, IsFiniteSet(S), S \subseteq Int, S # {}
  PROVE  /\ Max(S) \in S /\ \A y \in S : Max(S) >= y
         /\ Min(S) \in S /\ \A y \in S : Min(S) <= y
<1> DEFINE HasBoth(T) == \E a, b \in T : \A y \in T : a >= y /\ b <= y
           N == {k \in Nat : \A T \in SUBSET Int :
                   IsFiniteSet(T) /\ Cardinality(T) = k /\ T # {} => HasBoth(T)}
<1>1. 0 \in N
  BY FS_EmptySet
<1>2. ASSUME NEW k \in Nat, k \in N PROVE k + 1 \in N
  <2>1. SUFFICES ASSUME NEW T \in SUBSET Int, IsFiniteSet(T), Cardinality(T) = k + 1, T # {}
                 PROVE  HasBoth(T)
    OBVIOUS
  <2>2. PICK x \in T : TRUE
    BY <2>1
  <2> DEFINE U == T \ {x}
  <2>3. IsFiniteSet(U) /\ Cardinality(U) = k /\ U \in SUBSET Int
    BY <2>1, <2>2, FS_RemoveElement
  <2>4. CASE U = {}
    <3>1. T = {x}
      BY <2>2, <2>4
    <3> QED
      BY <2>1, <3>1
  <2>5. CASE U # {}
    <3>1. PICK a \in U, b \in U : \A y \in U : a >= y /\ b <= y
      BY <1>2, <2>3, <2>5
    <3>2. T \subseteq Int /\ a \in T /\ b \in T /\ \A y \in T : y = x \/ y \in U
      BY <2>1, <3>1
    <3> DEFINE c == IF a >= x THEN a ELSE x
               d == IF b <= x THEN b ELSE x
    <3>3. c \in T /\ d \in T /\ \A y \in T : c >= y /\ d <= y
      BY <3>1, <3>2, <2>2
    <3> QED
      BY <3>3
  <2> QED
    BY <2>4, <2>5
<1>3. HasBoth(S)
  <2>1. Cardinality(S) \in Nat
    BY FS_CardinalityType
  <2>2. Cardinality(S) \in N
    <3> HIDE DEF N
    <3> QED
      BY <1>1, <1>2, <2>1, NatSet
  <2> QED
    BY <2>2
<1> QED
  BY <1>3 DEF Max, Min

----------------------------------------------------------------------------
(* Sums.                                                                   *)

Pairs(f) == UNION {{x} \X (1 .. f[x]) : x \in DOMAIN f}

LEMMA InPairs ==
  ASSUME NEW f, NEW x, NEW k
  PROVE  <<x, k>> \in Pairs(f) <=> x \in DOMAIN f /\ k \in 1 .. f[x]
BY DEF Pairs

LEMMA Column ==
  ASSUME NEW x, NEW n \in Nat
  PROVE  IsFiniteSet({x} \X (1 .. n)) /\ Cardinality({x} \X (1 .. n)) = n
<1>1. IsFiniteSet(1 .. n) /\ Cardinality(1 .. n) = n
  BY FS_Interval
<1>2. IsFiniteSet({x}) /\ Cardinality({x}) = 1
  BY FS_Singleton
<1>3. /\ IsFiniteSet({x} \X (1 .. n))
      /\ Cardinality({x} \X (1 .. n)) = Cardinality({x}) * Cardinality(1 .. n)
  BY <1>1, <1>2, FS_Product
<1> QED
  BY <1>1, <1>2, <1>3

LEMMA DisjointUnion ==
  ASSUME NEW S, IsFiniteSet(S), NEW T, IsFiniteSet(T), S \cap T = {}
  PROVE  Cardinality(S \cup T) = Cardinality(S) + Cardinality(T)
<1>1. /\ Cardinality(S \cup T) = Cardinality(S) + Cardinality(T) - Cardinality(S \cap T)
      /\ Cardinality(S) \in Nat /\ Cardinality(T) \in Nat
  BY FS_Union, FS_CardinalityType
<1>2. Cardinality(S \cap T) = 0
  BY FS_EmptySet
<1> QED
  BY <1>1, <1>2

LEMMA PairsFinite ==
  ASSUME NEW D, IsFiniteSet(D), NEW f \in [D -> Nat]
  PROVE  IsFiniteSet(Pairs(f)) /\ Total(f) = Cardinality(Pairs(f)) /\ Total(f) \in Nat
<1> DEFINE column == [x \in D |-> {x} \X (1 .. f[x])]
           columns == {column[x] : x \in D}
<1>1. IsFiniteSet(columns)
  <2> HIDE DEF column
  <2> QED
    BY FiniteImage
<1>2. \A T \in columns : IsFiniteSet(T)
  <2>1. \A x \in D : IsFiniteSet({x} \X (1 .. f[x]))
    BY Column
  <2> QED
    BY <2>1
<1>3. Pairs(f) = UNION columns
  BY DEF Pairs
<1>4. IsFiniteSet(Pairs(f))
  BY <1>1, <1>2, <1>3, FS_UNION
<1>5. Total(f) = Cardinality(Pairs(f))
  BY DEF Total, Pairs
<1> QED
  BY <1>4, <1>5, FS_CardinalityType

(* One value more or less.                                                 *)
LEMMA TotalUpdated ==
  ASSUME NEW D, IsFiniteSet(D), NEW f \in [D -> Nat], NEW x \in D, NEW n \in Nat
  PROVE  Total([f EXCEPT ![x] = n]) = Total(f) - f[x] + n
<1> DEFINE g == [f EXCEPT ![x] = n]
           rest == Pairs(f) \ ({x} \X (1 .. f[x]))
<1>1. g \in [D -> Nat] /\ g[x] = n /\ \A y \in D : y # x => g[y] = f[y]
  OBVIOUS
<1>2. /\ IsFiniteSet(Pairs(f)) /\ Total(f) = Cardinality(Pairs(f))
      /\ IsFiniteSet(Pairs(g)) /\ Total(g) = Cardinality(Pairs(g))
  BY <1>1, PairsFinite
<1>3. IsFiniteSet(rest)
  BY <1>2, FS_Subset
<1>4. Pairs(f) = rest \cup ({x} \X (1 .. f[x]))
  BY DEF Pairs
<1>5. Pairs(g) = rest \cup ({x} \X (1 .. n))
  BY <1>1 DEF Pairs
<1>6. rest \cap ({x} \X (1 .. f[x])) = {} /\ rest \cap ({x} \X (1 .. n)) = {}
  BY DEF Pairs
<1> HIDE DEF rest, g
<1>7. Cardinality(Pairs(f)) = Cardinality(rest) + f[x]
  <2>1. /\ IsFiniteSet({x} \X (1 .. f[x]))
        /\ Cardinality({x} \X (1 .. f[x])) = f[x]
    BY Column
  <2> QED
    BY <1>3, <1>4, <1>6, <2>1, DisjointUnion
<1>8. Cardinality(Pairs(g)) = Cardinality(rest) + n
  <2>1. /\ IsFiniteSet({x} \X (1 .. n))
        /\ Cardinality({x} \X (1 .. n)) = n
    BY Column
  <2> QED
    BY <1>3, <1>5, <1>6, <2>1, DisjointUnion
<1> QED
  BY <1>2, <1>3, <1>7, <1>8, FS_CardinalityType DEF g

(* The same values in another order.                                       *)
LEMMA TotalMoved ==
  ASSUME NEW D, IsFiniteSet(D), NEW f \in [D -> Nat], NEW g \in [D -> Nat],
         NEW p \in Bijection(D, D), \A i \in D : g[i] = f[p[i]]
  PROVE  Total(g) = Total(f)
<1> DEFINE move == [q \in Pairs(g) |-> <<p[q[1]], q[2]>>]
<1>1. /\ p \in [D -> D] /\ \A i, j \in D : p[i] = p[j] => i = j
      /\ \A x \in D : \E i \in D : p[i] = x
  BY DEF Bijection, Injection, Surjection, IsInjective
<1>4. \A q \in Pairs(g) : q = <<q[1], q[2]>> /\ q[1] \in D /\ q[2] \in 1 .. f[p[q[1]]]
  BY <1>1 DEF Pairs
<1>5. \A q \in Pairs(g) : move[q] \in Pairs(f)
  BY <1>1, <1>4, InPairs
<1>6. \A q, r \in Pairs(g) : move[q] = move[r] => q = r
  BY <1>1, <1>4
<1>7. \A s \in Pairs(f) : \E q \in Pairs(g) : move[q] = s
  <2>1. TAKE s \in Pairs(f)
  <2> DEFINE x == s[1]
             k == s[2]
  <2>5. s = <<x, k>> /\ x \in D /\ k \in 1 .. f[x]
    BY DEF Pairs
  <2> HIDE DEF x, k
  <2>2. PICK i \in D : p[i] = x
    BY <1>1, <2>5
  <2>3. <<i, k>> \in Pairs(g)
    BY <2>2, <2>5, InPairs
  <2> QED
    BY <2>2, <2>3, <2>5
<1>8. move \in Bijection(Pairs(g), Pairs(f))
  BY <1>5, <1>6, <1>7 DEF Bijection, Injection, Surjection, IsInjective
<1>9. IsFiniteSet(Pairs(g)) /\ Total(g) = Cardinality(Pairs(g)) /\ Total(f) = Cardinality(Pairs(f))
  BY PairsFinite
<1>10. Cardinality(Pairs(f)) = Cardinality(Pairs(g))
  BY <1>8, <1>9, FS_Bijection DEF ExistsBijection
<1> QED
  BY <1>9, <1>10

(* One sequence after another.                                             *)
LEMMA TotalAppended ==
  ASSUME NEW s \in Seq(Nat), NEW t \in Seq(Nat)
  PROVE  Total(s \o t) = Total(s) + Total(t)
<1> DEFINE u == s \o t
           n == Len(s)
           rest == Pairs(u) \ Pairs(s)
           move == [q \in Pairs(t) |-> <<q[1] + n, q[2]>>]
<1>1. /\ u \in Seq(Nat) /\ n \in Nat /\ Len(t) \in Nat
      /\ DOMAIN s = 1 .. n /\ DOMAIN t = 1 .. Len(t) /\ DOMAIN u = 1 .. n + Len(t)
      /\ \A i \in 1 .. n : u[i] = s[i]
      /\ \A i \in 1 .. Len(t) : i + n \in DOMAIN u /\ u[i + n] = t[i]
  OBVIOUS
<1>2. \A i \in DOMAIN u : i \in DOMAIN s \/ (i - n \in DOMAIN t /\ (i - n) + n = i)
  BY <1>1
<1>3. /\ s \in [1 .. n -> Nat] /\ t \in [1 .. Len(t) -> Nat] /\ u \in [1 .. n + Len(t) -> Nat]
  BY <1>1, LenProperties
<1> HIDE DEF u, n
<1>0. IsFiniteSet(1 .. n) /\ IsFiniteSet(1 .. Len(t)) /\ IsFiniteSet(1 .. n + Len(t))
  <2>1. n \in Int /\ Len(t) \in Int /\ n + Len(t) \in Int /\ 1 \in Int
    BY <1>1
  <2> HIDE DEF n
  <2>2. \A k \in Int : IsFiniteSet(1 .. k)
    BY FS_Interval
  <2> QED
    BY <2>1, <2>2
<1>4. /\ IsFiniteSet(Pairs(s)) /\ Total(s) = Cardinality(Pairs(s))
      /\ IsFiniteSet(Pairs(t)) /\ Total(t) = Cardinality(Pairs(t))
      /\ IsFiniteSet(Pairs(u)) /\ Total(u) = Cardinality(Pairs(u))
  BY <1>0, <1>3, PairsFinite
<1>5. /\ \A q \in Pairs(t) : q = <<q[1], q[2]>> /\ q[1] \in DOMAIN t /\ q[2] \in 1 .. t[q[1]]
      /\ \A q \in Pairs(u) : q = <<q[1], q[2]>> /\ q[1] \in DOMAIN u /\ q[2] \in 1 .. u[q[1]]
  BY DEF Pairs
<1>6. Pairs(s) \subseteq Pairs(u)
  <2>1. \A q \in Pairs(s) : q = <<q[1], q[2]>> /\ q[1] \in DOMAIN s /\ q[2] \in 1 .. s[q[1]]
    BY DEF Pairs
  <2>2. \A q \in Pairs(s) : q[1] \in DOMAIN u /\ q[2] \in 1 .. u[q[1]]
    BY <1>1, <2>1
  <2> QED
    BY <2>1, <2>2, InPairs
<1>7. \A q \in Pairs(t) : move[q] \in rest
  <2>1. TAKE q \in Pairs(t)
  <2>2. /\ q[1] + n \in DOMAIN u /\ q[2] \in 1 .. u[q[1] + n]
        /\ q[1] + n \notin DOMAIN s
    BY <1>1, <1>5
  <2>3. <<q[1] + n, q[2]>> \in Pairs(u) /\ <<q[1] + n, q[2]>> \notin Pairs(s)
    BY <2>2, InPairs
  <2> QED
    BY <2>3
<1>8. \A q, r \in Pairs(t) : move[q] = move[r] => q = r
  <2>1. \A q \in Pairs(t) : q[1] \in Nat
    BY <1>1, <1>5
  <2>2. \A q, r \in Pairs(t) : move[q] = move[r] => q[1] + n = r[1] + n /\ q[2] = r[2]
    OBVIOUS
  <2>3. \A q, r \in Pairs(t) : move[q] = move[r] => q[1] = r[1] /\ q[2] = r[2]
    BY <2>1, <2>2, <1>1
  <2> QED
    BY <1>5, <2>3
<1>9. \A r \in rest : \E q \in Pairs(t) : move[q] = r
  <2>1. TAKE r \in rest
  <2>2. r = <<r[1], r[2]>> /\ r[1] \in DOMAIN u /\ r[2] \in 1 .. u[r[1]]
    BY <1>5
  <2>3. r[1] \notin DOMAIN s
    <3>1. SUFFICES ASSUME r[1] \in DOMAIN s PROVE FALSE
      OBVIOUS
    <3>2. u[r[1]] = s[r[1]]
      BY <1>1, <3>1
    <3>3. <<r[1], r[2]>> \in Pairs(s)
      BY <2>2, <3>1, <3>2, InPairs
    <3> QED
      BY <2>2, <3>3
  <2> DEFINE i == r[1] - n
  <2>4. i \in DOMAIN t /\ i + n = r[1]
    BY <1>2, <2>2, <2>3
  <2> HIDE DEF i
  <2>5. t[i] = u[r[1]]
    BY <1>1, <2>4
  <2>6. <<i, r[2]>> \in Pairs(t)
    BY <2>2, <2>4, <2>5, InPairs
  <2> QED
    BY <2>2, <2>4, <2>6
<1>10. IsFiniteSet(rest)
  BY <1>4, FS_Subset
<1> HIDE DEF rest
<1>11. move \in Bijection(Pairs(t), rest)
  BY <1>7, <1>8, <1>9 DEF Bijection, Injection, Surjection, IsInjective
<1>12. Cardinality(rest) = Cardinality(Pairs(t))
  BY <1>4, <1>11, FS_Bijection DEF ExistsBijection
<1>13. Pairs(u) = Pairs(s) \cup rest /\ Pairs(s) \cap rest = {}
  BY <1>6 DEF rest
<1>14. Cardinality(Pairs(u)) = Cardinality(Pairs(s)) + Cardinality(rest)
  BY <1>4, <1>10, <1>13, DisjointUnion
<1> QED
  BY <1>4, <1>12, <1>14 DEF u

----------------------------------------------------------------------------
(* Locations.                                                              *)

Weights(q) == [i \in DOMAIN q |-> q[i].merged]

LEMMA WeightsType ==
  ASSUME NEW q \in Seq(LocationSet)
  PROVE  /\ Weights(q) \in Seq(Nat) /\ Len(Weights(q)) = Len(q)
         /\ Weights(q) \in [1 .. Len(q) -> Nat]
         /\ IsFiniteSet(1 .. Len(q)) /\ Cardinality(1 .. Len(q)) = Len(q)
         /\ MergedIn(q) = Total(Weights(q)) /\ MergedIn(q) \in Nat
<1>1. Len(q) \in Nat /\ q \in [1 .. Len(q) -> LocationSet] /\ DOMAIN q = 1 .. Len(q)
  BY LenProperties
<1>2. Weights(q) \in [1 .. Len(q) -> Nat]
  BY <1>1 DEF Weights, LocationSet
<1>3. Weights(q) \in Seq(Nat)
  BY <1>1, <1>2, SeqDef
<1>4. Len(Weights(q)) = Len(q)
  BY <1>1, <1>2, <1>3
<1>5. IsFiniteSet(1 .. Len(q)) /\ Cardinality(1 .. Len(q)) = Len(q)
  <2>1. Cardinality(1 .. Len(q)) = IF 1 > Len(q) THEN 0 ELSE Len(q) - 1 + 1
    BY <1>1, FS_Interval
  <2> QED
    BY <1>1, <2>1, FS_Interval
<1>6. MergedIn(q) = Total(Weights(q))
  BY DEF MergedIn, Weights
<1>7. Total(Weights(q)) \in Nat
  BY <1>2, <1>5, PairsFinite
<1> QED
  BY <1>2, <1>3, <1>4, <1>5, <1>6, <1>7

LEMMA MergedAppended ==
  ASSUME NEW s \in Seq(LocationSet), NEW t \in Seq(LocationSet)
  PROVE  /\ s \o t \in Seq(LocationSet)
         /\ MergedIn(s \o t) = MergedIn(s) + MergedIn(t)
<1>1. s \o t \in Seq(LocationSet) /\ Len(s \o t) = Len(s) + Len(t)
      /\ \A i \in 1 .. Len(s) + Len(t) : (s \o t)[i] =
                     IF i <= Len(s) THEN s[i] ELSE t[i - Len(s)]
  BY ConcatProperties
<1>2. /\ Weights(s) \in Seq(Nat) /\ Len(Weights(s)) = Len(s)
      /\ Weights(t) \in Seq(Nat) /\ Len(Weights(t)) = Len(t)
      /\ Weights(s \o t) \in Seq(Nat) /\ Len(Weights(s \o t)) = Len(s) + Len(t)
  BY <1>1, WeightsType
<1>3. /\ Weights(s) \o Weights(t) \in Seq(Nat)
      /\ Len(Weights(s) \o Weights(t)) = Len(s) + Len(t)
      /\ \A i \in 1 .. Len(s) + Len(t) : (Weights(s) \o Weights(t))[i] =
           IF i <= Len(s) THEN Weights(s)[i] ELSE Weights(t)[i - Len(s)]
  BY <1>2, ConcatProperties
<1>4. Len(s) \in Nat /\ Len(t) \in Nat
      /\ DOMAIN s = 1 .. Len(s) /\ DOMAIN t = 1 .. Len(t) /\ DOMAIN (s \o t) = 1 .. Len(s) + Len(t)
  BY <1>1, LenProperties
<1>5. \A i \in 1 .. Len(s) + Len(t) : Weights(s \o t)[i] = (Weights(s) \o Weights(t))[i]
  <2>1. TAKE i \in 1 .. Len(s) + Len(t)
  <2>2. Weights(s \o t)[i] = (s \o t)[i].merged
    BY <1>4 DEF Weights
  <2>3. CASE i <= Len(s)
    <3>1. i \in DOMAIN s /\ Weights(s)[i] = s[i].merged
      BY <1>4, <2>3 DEF Weights
    <3> QED
      BY <1>1, <1>3, <2>2, <2>3, <3>1
  <2>4. CASE ~ (i <= Len(s))
    <3>1. i - Len(s) \in DOMAIN t
      BY <1>4, <2>4
    <3>2. Weights(t)[i - Len(s)] = t[i - Len(s)].merged
      BY <3>1 DEF Weights
    <3> QED
      BY <1>1, <1>3, <2>2, <2>4, <3>2
  <2> QED
    BY <2>3, <2>4
<1>6. Weights(s \o t) = Weights(s) \o Weights(t)
  BY <1>2, <1>3, <1>5, SeqEqual
<1>7. Total(Weights(s \o t)) = Total(Weights(s)) + Total(Weights(t))
  BY <1>2, <1>6, TotalAppended
<1> QED
  BY <1>1, <1>7, WeightsType

(* Sorting keeps the locations and puts them in the order of their times.  *)
LEMMA Sorted ==
  ASSUME NEW s \in Seq(LocationSet), NEW sorted \in ByDateAndId(s)
  PROVE  /\ sorted \in Seq(LocationSet)
         /\ MergedIn(sorted) = MergedIn(s)
         /\ \A i \in DOMAIN sorted : \E j \in DOMAIN s : sorted[i] = s[j]
<1> DEFINE D == 1 .. Len(s)
<1>1. /\ Len(s) \in Nat /\ s \in [D -> LocationSet] /\ DOMAIN s = D
      /\ IsFiniteSet(D) /\ Cardinality(D) = Len(s)
      /\ MergedIn(s) = Total(Weights(s)) /\ Weights(s) \in [D -> Nat]
  BY LenProperties, WeightsType
<1>2. PICK p \in SetToSeqs(D) : sorted = [i \in D |-> s[p[i]]]
  BY <1>1 DEF ByDateAndId
<1>3. p \in [D -> D] /\ \A i, j \in D : i # j => p[i] # p[j]
  BY <1>1, <1>2 DEF SetToSeqs
<1> HIDE DEF D
<1>4. p \in Injection(D, D)
  BY <1>3 DEF Injection, IsInjective
<1>5. p \in Bijection(D, D)
  BY <1>1, <1>4, FS_Injection DEF Bijection
<1>6. sorted \in [D -> LocationSet]
  BY <1>1, <1>2, <1>3
<1>7. sorted \in Seq(LocationSet)
  BY <1>1, <1>6, SeqDef DEF D
<1>8. Weights(sorted) \in [D -> Nat] /\ \A i \in D : Weights(sorted)[i] = Weights(s)[p[i]]
  BY <1>1, <1>2, <1>3, <1>6 DEF Weights, LocationSet
<1>9. Total(Weights(sorted)) = Total(Weights(s))
  <2>1. IsFiniteSet(D)
    BY <1>1
  <2>2. \A f, g \in [D -> Nat] : \A q \in Bijection(D, D) :
          (\A i \in D : g[i] = f[q[i]]) => Total(g) = Total(f)
    BY <2>1, TotalMoved
  <2> QED
    BY Zenon, <1>1, <1>5, <1>8, <2>2
<1>10. MergedIn(sorted) = MergedIn(s)
  BY <1>1, <1>7, <1>9, WeightsType
<1> QED
  BY <1>1, <1>2, <1>3, <1>6, <1>7, <1>10

(* Cutting a sequence in two.                                              *)
LEMMA Cut ==
  ASSUME NEW s \in Seq(LocationSet), NEW n \in 0 .. Len(s)
  PROVE  /\ SubSeq(s, 1, n) \in Seq(LocationSet) /\ SubSeq(s, n + 1, Len(s)) \in Seq(LocationSet)
         /\ MergedIn(SubSeq(s, 1, n)) + MergedIn(SubSeq(s, n + 1, Len(s))) = MergedIn(s)
         /\ \A i \in DOMAIN SubSeq(s, 1, n) :
              i \in DOMAIN s /\ i <= n /\ SubSeq(s, 1, n)[i] = s[i]
         /\ \A i \in DOMAIN SubSeq(s, n + 1, Len(s)) :
              /\ i + n \in DOMAIN s /\ ~ (i + n <= n)
              /\ SubSeq(s, n + 1, Len(s))[i] = s[i + n]
<1> DEFINE a == SubSeq(s, 1, n)
           b == SubSeq(s, n + 1, Len(s))
<1>1. a \in Seq(LocationSet) /\ Len(a) = n /\ \A i \in 1 .. n : a[i] = s[i]
  OBVIOUS
<1>2. b \in Seq(LocationSet) /\ Len(b) = Len(s) - n /\ \A i \in 1 .. Len(s) - n : b[i] = s[i + n]
  OBVIOUS
<1>3. a \o b = s
  <2>1. 1 \in 1 .. Len(s) + 1 /\ n \in 1 - 1 .. Len(s) /\ Len(s) \in n .. Len(s)
    BY LenProperties
  <2>2. a \o b = SubSeq(s, 1, Len(s))
    BY <2>1, ConcatAdjacentSubSeq
  <2> QED
    BY <2>2, SubSeqFull
<1> HIDE DEF a, b
<1>4. MergedIn(a) + MergedIn(b) = MergedIn(s)
  BY <1>1, <1>2, <1>3, MergedAppended
<1>5. \A i \in DOMAIN a : i \in DOMAIN s /\ i <= n /\ a[i] = s[i]
  BY <1>1
<1>6. \A i \in DOMAIN b : i + n \in DOMAIN s /\ ~ (i + n <= n) /\ b[i] = s[i + n]
  BY <1>2
<1> QED
  BY <1>1, <1>2, <1>4, <1>5, <1>6 DEF a, b

LEMMA MergedOfOne ==
  ASSUME NEW l \in LocationSet
  PROVE  <<l>> \in Seq(LocationSet) /\ MergedIn(<<l>>) = l.merged
<1>1. <<l>> \in Seq(LocationSet) /\ DOMAIN <<l>> = {1} /\ <<l>>[1] = l /\ l.merged \in Nat
  BY DEF LocationSet
<1>2. Weights(<<l>>) = [i \in {1} |-> l.merged]
  BY <1>1 DEF Weights
<1>3. Pairs([i \in {1} |-> l.merged]) = {1} \X (1 .. l.merged)
  BY DEF Pairs
<1>4. Cardinality({1} \X (1 .. l.merged)) = l.merged
  BY <1>1, Column
<1>5. IsFiniteSet({1}) /\ [i \in {1} |-> l.merged] \in [{1} -> Nat]
  BY <1>1, FS_Singleton
<1>6. Total([i \in {1} |-> l.merged]) = Cardinality(Pairs([i \in {1} |-> l.merged]))
  BY DEF Total, Pairs
<1> QED
  BY <1>1, <1>2, <1>3, <1>4, <1>6 DEF MergedIn, Weights

LEMMA MergedOfNone ==
  <<>> \in Seq(LocationSet) /\ MergedIn(<<>>) = 0
<1>1. <<>> \in Seq(LocationSet) /\ DOMAIN <<>> = {}
  OBVIOUS
<1>2. \A f : DOMAIN f = {} => Pairs(f) = {}
  BY DEF Pairs
<1>3. Pairs(Weights(<<>>)) = {}
  BY <1>1, <1>2 DEF Weights
<1> QED
  BY <1>1, <1>3, FS_EmptySet DEF MergedIn, Weights, Total, Pairs

----------------------------------------------------------------------------
(* Entries.  Near: the sum of the times is within SameWithin per report of *)
(* what it would be if each report came with the first.                    *)

Near(e) ==
  e # Gone => /\ e.num * e.first.time <= e.sum + e.num * SameWithin
              /\ e.sum <= e.num * e.first.time + e.num * SameWithin

From(e, K) == e # Gone => e.first.time >= K

LEMMA EntryType ==
  ASSUME NEW e \in Entries
  PROVE  /\ e.num \in Nat
         /\ e # Gone => /\ e.first \in Reports /\ e.first.time \in Nat /\ e.sum \in Nat
                        /\ e.num # 0 /\ e.unseen \in 0 .. RecentlySeenThreshold + 1
                        /\ e.last \in MaybeReports
BY AggregatorAssumption DEF Entries, Gone

LEMMA MeanNearFirst ==
  ASSUME NEW e \in Entries, e # Gone, Near(e)
  PROVE  /\ RoundedMean(e.sum, e.num) \in Nat
         /\ e.first.time <= RoundedMean(e.sum, e.num) + SameWithin
         /\ RoundedMean(e.sum, e.num) <= e.first.time + SameWithin
<1>1. e.sum \in Nat /\ e.num \in Nat \ {0} /\ e.first.time \in Nat /\ SameWithin \in Nat
  BY EntryType, AggregatorAssumption
<1>2. \A s, f, d \in Nat : \A n \in Nat \ {0} :
        n * f <= s + n * d => RoundedMean(s, n) \in Nat /\ f <= RoundedMean(s, n) + d
  BY DEF RoundedMean
<1>3. \A s, f, d \in Nat : \A n \in Nat \ {0} :
        s <= n * f + n * d => RoundedMean(s, n) <= f + d
  BY DEF RoundedMean
<1> QED
  BY <1>1, <1>2, <1>3 DEF Near

LEMMA NewEntryNear ==
  ASSUME NEW r \in Reports
  PROVE  NewEntry(r) \in Entries /\ NewEntry(r) # Gone /\ Near(NewEntry(r))
         /\ NewEntry(r).first = r /\ NewEntry(r).num = 1
<1>1. r.time \in Nat /\ SameWithin \in Nat /\ RecentlySeenThreshold \in Nat
  BY AggregatorAssumption
<1>2. NewEntry(r) # Gone
  BY DEF NewEntry, Gone
<1> QED
  BY <1>1, <1>2 DEF NewEntry, Entries, MaybeReports, Near

LEMMA MergedNear ==
  ASSUME NEW e \in Entries, e # Gone, Near(e), NEW r \in Reports, IsAggregatable(e, r)
  PROVE  Merged(e, r) \in Entries /\ Merged(e, r) # Gone /\ Near(Merged(e, r))
         /\ Merged(e, r).first = e.first /\ Merged(e, r).num = e.num + 1
<1>1. r.time \in Nat /\ SameWithin \in Nat /\ RecentlySeenThreshold \in Nat
  BY AggregatorAssumption
<1>2. e.sum \in Nat /\ e.num \in Nat \ {0} /\ e.first.time \in Nat /\ e.first \in Reports
  BY EntryType
<1> DEFINE m == Merged(e, r)
<1>4. /\ m \in [first : Reports, last : MaybeReports, num : Nat \ {0}, sum : Nat,
                unseen : 0 .. RecentlySeenThreshold + 1]
      /\ m.first = e.first /\ m.num = e.num + 1 /\ m.sum = e.sum + r.time
  <2>1. PICK last \in MaybeReports :
          m = [first |-> e.first, last |-> last, num |-> e.num + 1,
               sum |-> e.sum + r.time, unseen |-> 0]
    BY DEF Merged, MaybeReports
  <2> HIDE DEF m
  <2> QED
    BY <1>1, <1>2, <2>1
<1>5. m # Gone
  BY <1>2, <1>4 DEF Gone
<1>6. r.time <= e.first.time + SameWithin /\ e.first.time <= r.time + SameWithin
  BY <1>1, <1>2 DEF IsAggregatable, Distance
<1> HIDE DEF m
<1>7. /\ e.num * e.first.time <= e.sum + e.num * SameWithin
      /\ e.sum <= e.num * e.first.time + e.num * SameWithin
  BY DEF Near
<1>8. \A n, k \in Nat : (n + 1) * k = n * k + k /\ n * k \in Nat
  OBVIOUS
<1>9. Near(m)
  <2>1. /\ m.num * m.first.time = e.num * e.first.time + e.first.time
        /\ m.num * SameWithin = e.num * SameWithin + SameWithin
        /\ e.num * e.first.time \in Nat /\ e.num * SameWithin \in Nat
    BY <1>1, <1>2, <1>4, <1>8
  <2> QED
    BY <1>1, <1>2, <1>4, <1>6, <1>7, <2>1 DEF Near
<1> QED
  BY <1>4, <1>5, <1>9 DEF m, Entries

(* What is emitted for an entry has all its reports, and a time that is    *)
(* not long before its first.                                              *)
LEMMA EmittedStale ==
  ASSUME NEW e \in Entries, e # Gone, Near(e), NEW v \in Vehicles,
         NEW K \in Int, NEW Q \in Int, Q <= K - SameWithin, From(e, K)
  PROVE  /\ EmitStale(v, e) \in Seq(LocationSet)
         /\ MergedIn(EmitStale(v, e)) = e.num
         /\ \A i \in DOMAIN EmitStale(v, e) : EmitStale(v, e)[i].time >= Q
<1> DEFINE t == RoundedMean(e.sum, e.num)
           a == Location(v, t, e.num)
           b == Location(v, t + 1, 0)
<1>1. t \in Nat /\ e.num \in Nat /\ t >= Q
  BY MeanNearFirst, EntryType, AggregatorAssumption DEF From
<1>2. /\ a \in LocationSet /\ a.merged = e.num /\ a.time = t
      /\ b \in LocationSet /\ b.merged = 0 /\ b.time = t + 1
  BY <1>1 DEF Location, LocationSet
<1>3. EmitStale(v, e) = IF e.last = NoReport THEN <<a>> ELSE <<a, b>>
  BY DEF EmitStale
<1> HIDE DEF t, a, b
<1>4. CASE e.last = NoReport
  BY <1>1, <1>2, <1>3, <1>4, MergedOfOne
<1>5. CASE e.last # NoReport
  <2>1. <<a, b>> = <<a>> \o <<b>>
    <3>1. <<a, b>> \in Seq(LocationSet) /\ Len(<<a, b>>) = 2
          /\ <<a>> \in Seq(LocationSet) /\ <<b>> \in Seq(LocationSet)
          /\ Len(<<a>>) = 1 /\ Len(<<b>>) = 1
      BY <1>2
    <3>2. <<a>> \o <<b>> \in Seq(LocationSet) /\ Len(<<a>> \o <<b>>) = 2
          /\ \A i \in 1 .. 2 : (<<a>> \o <<b>>)[i] = IF i <= 1 THEN <<a>>[i] ELSE <<b>>[i - 1]
      BY <3>1, ConcatProperties
    <3>3. \A i \in 1 .. 2 : (<<a>> \o <<b>>)[i] = <<a, b>>[i]
      BY <3>2
    <3> QED
      BY <3>1, <3>2, <3>3, SeqEqual
  <2>2. /\ <<a>> \in Seq(LocationSet) /\ MergedIn(<<a>>) = e.num
        /\ <<b>> \in Seq(LocationSet) /\ MergedIn(<<b>>) = 0
    BY <1>2, MergedOfOne
  <2>4. MergedIn(<<a, b>>) = e.num + 0 /\ <<a, b>> \in Seq(LocationSet)
    BY <2>1, <2>2, MergedAppended
  <2>5. EmitStale(v, e) = <<a, b>>
    BY <1>3, <1>5
  <2>3. \A i \in DOMAIN <<a, b>> : <<a, b>>[i].time >= Q
    BY <1>1, <1>2
  <2> QED
    BY <1>1, <2>3, <2>4, <2>5
<1> QED
  BY <1>4, <1>5

----------------------------------------------------------------------------
(* What the aggregator holds, while it is changed: entries that are Near   *)
(* and begin at K or later, a queue with nothing before Q, and all the     *)
(* reports: the h there were before, and those taken in since.             *)

Nums(a) == [v \in Vehicles |-> a[v].num]

Held(acc) == Total(Nums(acc.aggregating)) + MergedIn(acc.queued)

Accs == [aggregating : [Vehicles -> Entries], queued : Seq(LocationSet), taken : Nat]

Sound(acc, K, Q, h) ==
  /\ acc \in Accs
  /\ \A v \in Vehicles : Near(acc.aggregating[v]) /\ From(acc.aggregating[v], K)
  /\ \A i \in DOMAIN acc.queued : acc.queued[i].time >= Q
  /\ Held(acc) = h + acc.taken

Locations == Seq(LocationSet)

LEMMA NumsType ==
  ASSUME NEW a \in [Vehicles -> Entries]
  PROVE  Nums(a) \in [Vehicles -> Nat] /\ Total(Nums(a)) \in Nat
<1>1. Nums(a) \in [Vehicles -> Nat]
  BY EntryType DEF Nums
<1>2. IsFiniteSet(Vehicles)
  BY AggregatorAssumption
<1> QED
  BY <1>1, <1>2, PairsFinite

(* Every change is of this kind: one entry is replaced, locations are      *)
(* appended to the queue, and the reports balance.                         *)
LEMMA SoundAfter ==
  ASSUME NEW K \in Int, NEW Q \in Int, NEW h \in Int, NEW acc, Sound(acc, K, Q, h),
         NEW v \in Vehicles, NEW e \in Entries, Near(e), From(e, K),
         NEW t \in Locations, \A i \in DOMAIN t : t[i].time >= Q,
         NEW n \in Nat, e.num + MergedIn(t) = acc.aggregating[v].num + n
  PROVE  Sound([aggregating |-> [acc.aggregating EXCEPT ![v] = e],
                queued |-> acc.queued \o t, taken |-> acc.taken + n], K, Q, h)
<1> DEFINE a == acc.aggregating
           b == [a EXCEPT ![v] = e]
           q == acc.queued \o t
           new == [aggregating |-> b, queued |-> q, taken |-> acc.taken + n]
<1>1. /\ a \in [Vehicles -> Entries] /\ acc.queued \in Seq(LocationSet) /\ acc.taken \in Nat
      /\ \A w \in Vehicles : Near(a[w]) /\ From(a[w], K)
      /\ \A i \in DOMAIN acc.queued : acc.queued[i].time >= Q
      /\ Total(Nums(a)) + MergedIn(acc.queued) = h + acc.taken
  BY DEF Sound, Accs, Held
<1>2. b \in [Vehicles -> Entries] /\ b[v] = e /\ \A w \in Vehicles : w # v => b[w] = a[w]
  BY <1>1
<1>3. q \in Seq(LocationSet) /\ MergedIn(q) = MergedIn(acc.queued) + MergedIn(t)
  BY <1>1, MergedAppended DEF Locations
<1>4. \A i \in DOMAIN q : q[i].time >= Q
  <2>1. /\ DOMAIN q = 1 .. Len(acc.queued) + Len(t)
        /\ \A i \in 1 .. Len(acc.queued) + Len(t) : q[i] =
             IF i <= Len(acc.queued) THEN acc.queued[i] ELSE t[i - Len(acc.queued)]
    BY <1>1, ConcatProperties, LenProperties DEF Locations
  <2>2. /\ Len(acc.queued) \in Nat /\ DOMAIN acc.queued = 1 .. Len(acc.queued)
        /\ Len(t) \in Nat /\ DOMAIN t = 1 .. Len(t)
    BY <1>1, LenProperties DEF Locations
  <2> HIDE DEF q
  <2>3. ASSUME NEW i \in DOMAIN q PROVE q[i].time >= Q
    <3>1. CASE i <= Len(acc.queued)
      <4>1. i \in DOMAIN acc.queued /\ q[i] = acc.queued[i]
        BY <2>1, <2>2, <3>1
      <4> QED
        BY <1>1, <4>1
    <3>2. CASE ~ (i <= Len(acc.queued))
      <4>1. i - Len(acc.queued) \in DOMAIN t /\ q[i] = t[i - Len(acc.queued)]
        BY <2>1, <2>2, <3>2
      <4> QED
        BY <4>1
    <3> QED
      BY <3>1, <3>2
  <2> QED
    BY <2>3
<1> HIDE DEF a, b, q
<1>5. Total(Nums(b)) = Total(Nums(a)) - a[v].num + e.num
  <2>1. Nums(b) = [Nums(a) EXCEPT ![v] = e.num]
    BY <1>1, <1>2 DEF Nums
  <2>2. e.num \in Nat /\ Nums(a) \in [Vehicles -> Nat] /\ IsFiniteSet(Vehicles)
    BY <1>1, EntryType, NumsType, AggregatorAssumption
  <2>3. Nums(a)[v] = a[v].num
    BY DEF Nums
  <2> QED
    <3>1. \A f \in [Vehicles -> Nat] : \A x \in Vehicles : \A k \in Nat :
            Total([f EXCEPT ![x] = k]) = Total(f) - f[x] + k
      BY <2>2, TotalUpdated
    <3>2. Total([Nums(a) EXCEPT ![v] = e.num]) = Total(Nums(a)) - Nums(a)[v] + e.num
      BY Zenon, <2>2, <3>1
    <3> QED
      BY <2>1, <2>3, <3>2
<1>6. /\ e.num \in Nat /\ a[v].num \in Nat /\ Total(Nums(a)) \in Nat /\ Total(Nums(b)) \in Nat
      /\ MergedIn(acc.queued) \in Nat /\ MergedIn(t) \in Nat
  BY <1>1, <1>2, EntryType, NumsType, WeightsType DEF Locations
<1>7. Total(Nums(b)) + MergedIn(q) = h + (acc.taken + n)
  <2> DEFINE m == MergedIn(t)
             k == MergedIn(acc.queued)
  <2>1. e.num + m = a[v].num + n /\ m \in Nat
    BY <1>6 DEF a
  <2>2. Total(Nums(a)) + k = h + acc.taken /\ acc.taken \in Nat /\ k \in Nat
    BY <1>1, <1>6
  <2>3. MergedIn(q) = k + m
    BY <1>3
  <2> HIDE DEF m, k
  <2>4. Total(Nums(b)) + m = Total(Nums(a)) + n
    BY <1>5, <1>6, <2>1
  <2> QED
    BY <1>6, <2>1, <2>2, <2>3, <2>4
<1>8. \A w \in Vehicles : Near(b[w]) /\ From(b[w], K)
  BY <1>1, <1>2
<1>9. new \in Accs /\ new.aggregating = b /\ new.queued = q /\ new.taken = acc.taken + n
  BY <1>1, <1>2, <1>3 DEF Accs
<1> QED
  BY <1>4, <1>7, <1>8, <1>9 DEF Sound, Held, a, b, q

(* insertOneReport.  A vehicle that has an entry keeps one.                *)
LEMMA InsertOneSound ==
  ASSUME NEW K \in Int, NEW Q \in Int, NEW h \in Int, Q <= K - SameWithin,
         NEW acc, Sound(acc, K, Q, h), NEW r \in Reports,
         acc.aggregating[r.id] = Gone => r.time >= K
  PROVE  /\ Sound(InsertOneReport(acc, r), K, Q, h)
         /\ InsertOneReport(acc, r).aggregating[r.id] # Gone
         /\ \A v \in Vehicles : acc.aggregating[v] # Gone =>
              InsertOneReport(acc, r).aggregating[v] # Gone
<1> DEFINE v == r.id
           e == acc.aggregating[v]
           After(f, t, n) == [aggregating |-> [acc.aggregating EXCEPT ![v] = f],
                              queued |-> acc.queued \o t, taken |-> acc.taken + n]
<1>1. /\ acc = [aggregating |-> acc.aggregating, queued |-> acc.queued, taken |-> acc.taken]
      /\ acc.aggregating \in [Vehicles -> Entries] /\ acc.queued \in Seq(LocationSet)
      /\ acc.taken \in Nat
      /\ \A w \in Vehicles : Near(acc.aggregating[w]) /\ From(acc.aggregating[w], K)
  BY DEF Sound, Accs
<1>2. /\ v \in Vehicles /\ r.time \in Nat /\ e \in Entries /\ Near(e) /\ From(e, K)
      /\ SameWithin \in Nat /\ RecentlySeenThreshold \in Nat
  BY <1>1, AggregatorAssumption
<1>3. acc.queued \o <<>> = acc.queued /\ <<>> \in Locations /\ MergedIn(<<>>) = 0
      /\ DOMAIN <<>> = {}
  BY <1>1, ConcatEmptySeq, MergedOfNone DEF Locations
<1>4. Gone.num = 0 /\ e.num \in Nat
  BY <1>2, EntryType DEF Gone
<1>5. SUFFICES \E f \in Entries : \E t \in Locations : \E n \in Nat :
        /\ InsertOneReport(acc, r) = After(f, t, n)
        /\ f # Gone /\ Near(f) /\ From(f, K)
        /\ \A i \in DOMAIN t : t[i].time >= Q
        /\ f.num + MergedIn(t) = e.num + n
  <2>1. PICK f \in Entries, t \in Locations, n \in Nat :
        /\ InsertOneReport(acc, r) = After(f, t, n)
        /\ f # Gone /\ Near(f) /\ From(f, K)
        /\ \A i \in DOMAIN t : t[i].time >= Q
        /\ f.num + MergedIn(t) = e.num + n
    BY <1>5
  <2>2. Sound(After(f, t, n), K, Q, h)
    BY <1>2, <2>1, SoundAfter
  <2>3. After(f, t, n).aggregating = [acc.aggregating EXCEPT ![v] = f]
    OBVIOUS
  <2>4. After(f, t, n).aggregating[v] # Gone
    BY <1>1, <1>2, <2>1, <2>3
  <2>5. \A w \in Vehicles : acc.aggregating[w] # Gone => After(f, t, n).aggregating[w] # Gone
    BY <1>1, <1>2, <2>1, <2>3
  <2> QED
    BY <2>1, <2>2, <2>4, <2>5
<1> HIDE DEF v, After
<1>6. CASE e = Gone
  <2>1. InsertOneReport(acc, r) = After(NewEntry(r), <<>>, 1)
    BY <1>1, <1>3, <1>6 DEF InsertOneReport, v, After
  <2>2. From(NewEntry(r), K)
    BY <1>6, NewEntryNear DEF From, v
  <2>3. NewEntry(r).num + MergedIn(<<>>) = e.num + 1
    BY <1>3, <1>4, <1>6, NewEntryNear
  <2> QED
    BY <1>3, <2>1, <2>2, <2>3, NewEntryNear
<1>7. CASE e # Gone /\ IsAggregatable(e, r)
  <2>1. InsertOneReport(acc, r) = After(Merged(e, r), <<>>, 1)
    BY <1>1, <1>3, <1>7 DEF InsertOneReport, v, After
  <2>2. Merged(e, r) \in Entries /\ Merged(e, r) # Gone /\ Near(Merged(e, r))
        /\ Merged(e, r).first = e.first /\ Merged(e, r).num = e.num + 1
    BY <1>2, <1>7, MergedNear
  <2>3. From(Merged(e, r), K)
    BY <1>2, <1>7, <2>2 DEF From
  <2>4. Merged(e, r).num + MergedIn(<<>>) = e.num + 1
    BY <1>3, <1>4, <2>2
  <2> QED
    BY <1>3, <2>1, <2>2, <2>3, <2>4
<1>8. CASE e # Gone /\ ~ IsAggregatable(e, r) /\ e.first.time > r.time
  <2> DEFINE f == [e EXCEPT !.unseen = 0]
  <2>1. InsertOneReport(acc, r) = After(f, <<>>, 0)
    BY <1>1, <1>3, <1>8 DEF InsertOneReport, v, After
  <2>2. /\ f \in Entries /\ f # Gone
        /\ f.first = e.first /\ f.num = e.num /\ f.sum = e.sum
    BY <1>2, <1>8 DEF Entries, Gone
  <2>3. Near(f) /\ From(f, K)
    BY <1>2, <1>8, <2>2 DEF Near, From
  <2>4. f.num + MergedIn(<<>>) = e.num + 0
    BY <1>3, <1>4, <2>2
  <2> HIDE DEF f
  <2>5. 0 \in Nat
    OBVIOUS
  <2> QED
    BY <1>3, <2>1, <2>2, <2>3, <2>4, <2>5
<1>9. CASE e # Gone /\ ~ IsAggregatable(e, r) /\ ~ (e.first.time > r.time)
  <2>1. InsertOneReport(acc, r) = After(NewEntry(r), EmitStale(v, e), 1)
    BY <1>1, <1>9 DEF InsertOneReport, v, After
  <2>2. From(NewEntry(r), K)
    BY <1>2, <1>9, EntryType, NewEntryNear DEF From
  <2>3. /\ EmitStale(v, e) \in Locations /\ MergedIn(EmitStale(v, e)) = e.num
        /\ \A i \in DOMAIN EmitStale(v, e) : EmitStale(v, e)[i].time >= Q
    BY <1>2, <1>9, EmittedStale DEF Locations
  <2>4. NewEntry(r).num + MergedIn(EmitStale(v, e)) = e.num + 1
    BY <1>4, <2>3, NewEntryNear
  <2> QED
    BY <2>1, <2>2, <2>3, <2>4, NewEntryNear
<1> QED
  BY <1>6, <1>7, <1>8, <1>9

(* The function by which Inserted is defined exists, and so does that of   *)
(* Emitted: it can be continued by one value at a time.                    *)
LEMMA InsertedSteps ==
  ASSUME NEW batch \in Seq(Reports)
  PROVE  \E f : /\ f[0] = Holding
                /\ \A n \in 1 .. Len(batch) : f[n] = InsertOneReport(f[n - 1], batch[n])
                /\ Inserted(batch) = f[Len(batch)]
<1> DEFINE F(f, k) == f = [n \in 0 .. k |->
                             IF n = 0 THEN Holding ELSE InsertOneReport(f[n - 1], batch[n])]
           S == {k \in Nat : \E f : F(f, k)}
<1>1. 0 \in S
  <2>1. F([n \in 0 .. 0 |-> Holding], 0)
    OBVIOUS
  <2> QED
    BY <2>1
<1>2. ASSUME NEW k \in Nat, k \in S PROVE k + 1 \in S
  <2> PICK f : F(f, k)
    BY <1>2
  <2> DEFINE g == [n \in 0 .. k + 1 |-> IF n = k + 1 THEN InsertOneReport(f[k], batch[k + 1])
                                                      ELSE f[n]]
  <2>1. \A n \in 0 .. k : g[n] = f[n]
    OBVIOUS
  <2>2. ASSUME NEW n \in 0 .. k + 1
        PROVE  g[n] = IF n = 0 THEN Holding ELSE InsertOneReport(g[n - 1], batch[n])
    <3>1. CASE n = k + 1
      <4>1. g[n] = InsertOneReport(f[k], batch[n]) /\ n - 1 = k
        BY <3>1
      <4>2. g[k] = f[k]
        BY <2>1
      <4> QED
        BY <3>1, <4>1, <4>2
    <3>2. CASE n \in 1 .. k
      <4>1. n - 1 \in 0 .. k /\ n \in 0 .. k
        BY <3>2
      <4>2. f[n] = InsertOneReport(f[n - 1], batch[n])
        BY <3>2, <4>1
      <4> HIDE DEF g
      <4> QED
        BY <2>1, <3>2, <4>1, <4>2
    <3>3. CASE n = 0
      BY <3>3
    <3> QED
      BY <3>1, <3>2, <3>3
  <2>3. F(g, k + 1)
    BY <2>2
  <2> HIDE DEF F, g
  <2> QED
    BY <2>3
<1>3. Len(batch) \in S
  <2>1. Len(batch) \in Nat
    BY LenProperties
  <2> HIDE DEF S
  <2> QED
    BY <1>1, <1>2, <2>1, NatSet
<1> DEFINE f == CHOOSE f : F(f, Len(batch))
<1>4. F(f, Len(batch))
  BY <1>3
<1>5. Inserted(batch) = f[Len(batch)]
  BY DEF Inserted
<1> HIDE DEF f
<1>6. /\ f[0] = Holding
      /\ \A n \in 1 .. Len(batch) : f[n] = InsertOneReport(f[n - 1], batch[n])
  <2>1. Len(batch) \in Nat
    BY LenProperties
  <2>2. \A n \in 0 .. Len(batch) :
          f[n] = IF n = 0 THEN Holding ELSE InsertOneReport(f[n - 1], batch[n])
    BY <1>4
  <2> HIDE DEF F
  <2> QED
    BY <2>1, <2>2
<1> QED
  BY <1>5, <1>6

LEMMA EmittedSteps ==
  ASSUME NEW acc, NEW ids \in Seq(Vehicles)
  PROVE  \E f : /\ f[0] = acc
                /\ \A n \in 1 .. Len(ids) : f[n] = EmitOne(f[n - 1], ids[n])
                /\ Emitted(acc, ids) = f[Len(ids)]
<1> DEFINE F(f, k) == f = [n \in 0 .. k |-> IF n = 0 THEN acc ELSE EmitOne(f[n - 1], ids[n])]
           S == {k \in Nat : \E f : F(f, k)}
<1>1. 0 \in S
  <2>1. F([n \in 0 .. 0 |-> acc], 0)
    OBVIOUS
  <2> QED
    BY <2>1
<1>2. ASSUME NEW k \in Nat, k \in S PROVE k + 1 \in S
  <2> PICK f : F(f, k)
    BY <1>2
  <2> DEFINE g == [n \in 0 .. k + 1 |-> IF n = k + 1 THEN EmitOne(f[k], ids[k + 1]) ELSE f[n]]
  <2>1. \A n \in 0 .. k : g[n] = f[n]
    OBVIOUS
  <2>2. ASSUME NEW n \in 0 .. k + 1
        PROVE  g[n] = IF n = 0 THEN acc ELSE EmitOne(g[n - 1], ids[n])
    <3>1. CASE n = k + 1
      <4>1. g[n] = EmitOne(f[k], ids[n]) /\ n - 1 = k
        BY <3>1
      <4>2. g[k] = f[k]
        BY <2>1
      <4> QED
        BY <3>1, <4>1, <4>2
    <3>2. CASE n \in 1 .. k
      <4>1. n - 1 \in 0 .. k /\ n \in 0 .. k
        BY <3>2
      <4>2. f[n] = EmitOne(f[n - 1], ids[n])
        BY <3>2, <4>1
      <4> HIDE DEF g
      <4> QED
        BY <2>1, <3>2, <4>1, <4>2
    <3>3. CASE n = 0
      BY <3>3
    <3> QED
      BY <3>1, <3>2, <3>3
  <2>3. F(g, k + 1)
    BY <2>2
  <2> HIDE DEF F, g
  <2> QED
    BY <2>3
<1>3. Len(ids) \in S
  <2>1. Len(ids) \in Nat
    BY LenProperties
  <2> HIDE DEF S
  <2> QED
    BY <1>1, <1>2, <2>1, NatSet
<1> DEFINE f == CHOOSE f : F(f, Len(ids))
<1>4. F(f, Len(ids))
  BY <1>3
<1>5. Emitted(acc, ids) = f[Len(ids)]
  BY DEF Emitted
<1> HIDE DEF f
<1>6. /\ f[0] = acc
      /\ \A n \in 1 .. Len(ids) : f[n] = EmitOne(f[n - 1], ids[n])
  <2>1. Len(ids) \in Nat
    BY LenProperties
  <2>2. \A n \in 0 .. Len(ids) : f[n] = IF n = 0 THEN acc ELSE EmitOne(f[n - 1], ids[n])
    BY <1>4
  <2> HIDE DEF F
  <2> QED
    BY <2>1, <2>2
<1> QED
  BY <1>5, <1>6

LEMMA InsertedSound ==
  ASSUME NEW K \in Int, NEW Q \in Int, NEW h \in Int, Q <= K - SameWithin,
         Sound(Holding, K, Q, h), NEW batch \in Seq(Reports),
         \A i \in 1 .. Len(batch) : aggregating[batch[i].id] = Gone => batch[i].time >= K
  PROVE  /\ Sound(Inserted(batch), K, Q, h)
         /\ \A i \in 1 .. Len(batch) : Inserted(batch).aggregating[batch[i].id] # Gone
<1>1. PICK f : /\ f[0] = Holding
               /\ \A n \in 1 .. Len(batch) : f[n] = InsertOneReport(f[n - 1], batch[n])
               /\ Inserted(batch) = f[Len(batch)]
  BY InsertedSteps
<1>2. /\ Len(batch) \in Nat
      /\ \A i \in 1 .. Len(batch) : batch[i] \in Reports /\ batch[i].id \in Vehicles
  BY LenProperties, ElementOfSeq, AggregatorAssumption
<1> DEFINE Good(n) == /\ Sound(f[n], K, Q, h)
                      /\ \A v \in Vehicles : aggregating[v] # Gone => f[n].aggregating[v] # Gone
                      /\ \A i \in 1 .. n : f[n].aggregating[batch[i].id] # Gone
           S == {n \in Nat : n <= Len(batch) => Good(n)}
<1>3. Good(0)
  BY <1>1 DEF Holding
<1>4. ASSUME NEW n \in Nat, n \in S PROVE n + 1 \in S
  <2>1. SUFFICES ASSUME n + 1 <= Len(batch) PROVE Good(n + 1)
    OBVIOUS
  <2>2. n <= Len(batch) /\ n + 1 \in 1 .. Len(batch) /\ (n + 1) - 1 = n
    BY <1>2, <2>1
  <2>3. Good(n)
    BY <1>4, <2>2
  <2> DEFINE r == batch[n + 1]
  <2>4. r \in Reports /\ r.id \in Vehicles /\ (aggregating[r.id] = Gone => r.time >= K)
    BY <1>2, <2>2
  <2>5. f[n + 1] = InsertOneReport(f[n], r)
    BY <1>1, <2>2
  <2>6. f[n].aggregating[r.id] = Gone => r.time >= K
    BY <2>3, <2>4
  <2> HIDE DEF r
  <2>7. /\ Sound(f[n + 1], K, Q, h)
        /\ f[n + 1].aggregating[r.id] # Gone
        /\ \A v \in Vehicles : f[n].aggregating[v] # Gone => f[n + 1].aggregating[v] # Gone
    BY <2>3, <2>4, <2>5, <2>6, InsertOneSound
  <2>8. ASSUME NEW i \in 1 .. n + 1 PROVE f[n + 1].aggregating[batch[i].id] # Gone
    <3>1. CASE i = n + 1
      BY <2>7, <3>1 DEF r
    <3>2. CASE i \in 1 .. n
      <4>1. i \in 1 .. Len(batch)
        BY <1>2, <2>2, <3>2
      <4> QED
        BY <1>2, <2>3, <2>7, <3>2, <4>1
    <3> QED
      BY <3>1, <3>2
  <2> QED
    BY <2>3, <2>7, <2>8
<1>5. Len(batch) \in S
  <2>1. 0 \in S
    BY <1>3
  <2> HIDE DEF S
  <2> QED
    BY <1>2, <1>4, <2>1, NatSet
<1>6. Good(Len(batch))
  BY <1>2, <1>5
<1> QED
  BY <1>1, <1>6

LEMMA EmittedOne ==
  ASSUME NEW acc \in Accs, NEW v \in Vehicles
  PROVE  EmitOne(acc, v) =
           [aggregating |-> [acc.aggregating EXCEPT ![v] = Gone],
            queued |-> acc.queued \o EmitStale(v, acc.aggregating[v]), taken |-> acc.taken + 0]
<1> DEFINE a == [acc.aggregating EXCEPT ![v] = Gone]
           q == acc.queued \o EmitStale(v, acc.aggregating[v])
           one == [acc EXCEPT !.aggregating = a]
<1>1. /\ acc = [aggregating |-> acc.aggregating, queued |-> acc.queued, taken |-> acc.taken]
      /\ acc.taken \in Nat
  BY DEF Accs
<1>2. acc.taken + 0 = acc.taken
  BY <1>1
<1>3. EmitOne(acc, v) = [one EXCEPT !.queued = q]
  BY DEF EmitOne
<1> HIDE DEF a, q
<1>4. one = [aggregating |-> a, queued |-> acc.queued, taken |-> acc.taken]
  BY <1>1
<1> HIDE DEF one
<1>5. [one EXCEPT !.queued = q] = [aggregating |-> a, queued |-> q, taken |-> acc.taken]
  BY <1>4
<1> QED
  BY <1>2, <1>3, <1>5 DEF a, q

(* emitStale for some vehicles that are aggregated, and for each once.     *)
LEMMA EmittedSound ==
  ASSUME NEW K \in Int, NEW Q \in Int, NEW h \in Int, Q <= K - SameWithin,
         NEW acc, Sound(acc, K, Q, h), NEW T \in SUBSET Vehicles,
         \A v \in T : acc.aggregating[v] # Gone, NEW ids \in SetToSeqs(T)
  PROVE  /\ Sound(Emitted(acc, ids), K, Q, h)
         /\ Emitted(acc, ids).taken = acc.taken
         /\ \A v \in Vehicles : Emitted(acc, ids).aggregating[v] =
              IF v \in T THEN Gone ELSE acc.aggregating[v]
<1> DEFINE N == Cardinality(T)
<1>1. IsFiniteSet(T) /\ N \in Nat
  BY AggregatorAssumption, FS_Subset, FS_CardinalityType
<1>2. /\ ids \in [1 .. N -> T] /\ \A i, j \in 1 .. N : i # j => ids[i] # ids[j]
      /\ IsFiniteSet(1 .. N) /\ Cardinality(1 .. N) = N
  <2>1. ids \in [1 .. N -> T] /\ \A i, j \in 1 .. N : i # j => ids[i] # ids[j]
    BY DEF SetToSeqs
  <2>2. IsFiniteSet(1 .. N) /\ Cardinality(1 .. N) = IF 1 > N THEN 0 ELSE N - 1 + 1
    BY <1>1, FS_Interval
  <2> QED
    BY <1>1, <2>1, <2>2
<1>3. ids \in Seq(Vehicles) /\ Len(ids) = N
  <2>1. ids \in [1 .. N -> Vehicles]
    BY <1>2
  <2>2. ids \in Seq(Vehicles)
    BY <1>1, <2>1, SeqDef
  <2> QED
    BY <1>1, <2>1, <2>2, LenProperties
<1>4. \A v \in T : \E i \in 1 .. N : ids[i] = v
  <2>1. ids \in Injection(1 .. N, T)
    BY <1>2 DEF Injection, IsInjective
  <2>2. ids \in Surjection(1 .. N, T)
    BY <1>1, <1>2, <2>1, FS_Injection
  <2> QED
    BY <2>2 DEF Surjection
<1>5. PICK f : /\ f[0] = acc
               /\ \A n \in 1 .. N : f[n] = EmitOne(f[n - 1], ids[n])
               /\ Emitted(acc, ids) = f[N]
  BY <1>3, EmittedSteps
<1> HIDE DEF N
<1> DEFINE Done(n) == {ids[i] : i \in 1 .. n}
           Good(n) == /\ Sound(f[n], K, Q, h)
                      /\ f[n].taken = acc.taken
                      /\ \A v \in Vehicles : f[n].aggregating[v] =
                           IF v \in Done(n) THEN Gone ELSE acc.aggregating[v]
           S == {n \in Nat : n <= N => Good(n)}
<1>6. Good(0)
  BY <1>5
<1>7. ASSUME NEW n \in Nat, n \in S PROVE n + 1 \in S
  <2>1. SUFFICES ASSUME n + 1 <= N PROVE Good(n + 1)
    OBVIOUS
  <2>2. n <= N /\ n + 1 \in 1 .. N /\ (n + 1) - 1 = n
    BY <1>1, <2>1
  <2>3. Good(n)
    BY <1>7, <2>2
  <2> DEFINE v == ids[n + 1]
             e == f[n].aggregating[v]
             t == EmitStale(v, e)
  <2>4. v \in T /\ v \in Vehicles
    BY <1>2, <2>2
  <2>5. v \notin Done(n)
    <3>1. ASSUME NEW i \in 1 .. n PROVE ids[i] # ids[n + 1]
      <4>1. i \in 1 .. N /\ i # n + 1
        BY <1>1, <2>2
      <4> QED
        BY <1>2, <2>2, <4>1
    <3> QED
      BY <3>1
  <2>6. e # Gone
    BY <2>3, <2>4, <2>5
  <2>7. f[n] \in Accs /\ e \in Entries /\ Near(e) /\ From(e, K)
    BY <2>3, <2>4 DEF Sound, Accs
  <2>8. /\ f[n + 1] = EmitOne(f[n], v)
        /\ Done(n + 1) = Done(n) \cup {v}
    <3>1. f[n + 1] = EmitOne(f[n], v)
      BY <1>5, <2>2
    <3>2. 1 .. n + 1 = (1 .. n) \cup {n + 1}
      OBVIOUS
    <3> QED
      BY <3>1, <3>2
  <2> HIDE DEF v, Done
  <2>9. /\ t \in Locations /\ MergedIn(t) = e.num
        /\ \A i \in DOMAIN t : t[i].time >= Q
    BY <2>4, <2>6, <2>7, EmittedStale DEF Locations
  <2>10. /\ Gone \in Entries /\ Near(Gone) /\ From(Gone, K) /\ Gone.num = 0 /\ e.num \in Nat
    BY <2>7, EntryType DEF Entries, Near, From, Gone
  <2>11. f[n + 1] = [aggregating |-> [f[n].aggregating EXCEPT ![v] = Gone],
                     queued |-> f[n].queued \o t, taken |-> f[n].taken + 0]
    BY <2>4, <2>7, <2>8, EmittedOne
  <2> HIDE DEF t, e
  <2>12. Gone.num + MergedIn(t) = e.num + 0
    BY <2>9, <2>10
  <2>13. Sound(f[n + 1], K, Q, h)
    <3>1. Gone.num + MergedIn(t) = f[n].aggregating[v].num + 0 /\ 0 \in Nat
      BY <2>12 DEF e
    <3>2. Sound(f[n], K, Q, h)
      BY <2>3
    <3> HIDE DEF Good, S
    <3> QED
      BY <2>4, <2>9, <2>10, <2>11, <3>1, <3>2, SoundAfter
  <2>14. f[n + 1].taken = acc.taken
    BY <2>3, <2>7, <2>11 DEF Accs
  <2>15. \A w \in Vehicles : f[n + 1].aggregating[w] =
           IF w \in Done(n + 1) THEN Gone ELSE acc.aggregating[w]
    BY <2>3, <2>4, <2>7, <2>8, <2>11 DEF Accs
  <2> QED
    BY <2>13, <2>14, <2>15
<1>8. N \in S
  <2>1. 0 \in S
    BY <1>6
  <2> HIDE DEF S
  <2> QED
    BY <1>1, <1>7, <2>1, NatSet
<1>9. Good(N)
  BY <1>1, <1>8
<1>10. Done(N) = T
  BY <1>2, <1>4
<1> QED
  BY <1>5, <1>9, <1>10

----------------------------------------------------------------------------
(* WriteLocations.                                                         *)
LEMMA Written ==
  ASSUME NEW locs \in Locations, NEW taken \in Nat, lastWritten \in Int, disorder \in Nat,
         WriteLocations(locs, taken)
  PROVE  /\ lastWritten' \in Int /\ lastWritten <= lastWritten'
         /\ lastWritten' = lastWritten \/ \E i \in DOMAIN locs : lastWritten' = locs[i].time
         /\ disorder' \in Nat
         /\ disorder' = disorder \/ \E i \in DOMAIN locs : disorder' = lastWritten - locs[i].time
         /\ held' = held + taken - MergedIn(locs)
<1> DEFINE D == DOMAIN locs
           time == [i \in D |-> locs[i].time]
           late == [i \in D |-> lastWritten - locs[i].time]
           T == {time[i] : i \in D} \cup {lastWritten}
           L == {late[i] : i \in D} \cup {disorder}
<1>1. IsFiniteSet(D) /\ \A i \in D : time[i] \in Nat /\ late[i] = lastWritten - time[i]
  <2>1. D = 1 .. Len(locs) /\ IsFiniteSet(1 .. Len(locs)) /\ \A i \in D : locs[i] \in LocationSet
    BY LenProperties, WeightsType, ElementOfSeq DEF Locations
  <2> QED
    BY <2>1 DEF LocationSet
<1>2. {l.time : l \in Range(locs)} = {time[i] : i \in D}
  BY DEF Range
<1>3. {lastWritten - t : t \in {time[i] : i \in D}} = {late[i] : i \in D}
  OBVIOUS
<1>4. lastWritten' = Max(T) /\ disorder' = Max(L)
  BY <1>2, <1>3 DEF WriteLocations
<1>5. held' = held + taken - MergedIn(locs)
  BY DEF WriteLocations
<1> HIDE DEF D
<1>6. IsFiniteSet({time[i] : i \in D}) /\ IsFiniteSet({late[i] : i \in D})
  <2> HIDE DEF time, late
  <2> QED
    BY <1>1, FiniteImage
<1>7. IsFiniteSet(T) /\ IsFiniteSet(L)
  BY <1>6, FS_AddElement
<1>8. T \subseteq Int /\ T # {} /\ L \subseteq Int /\ L # {}
  BY <1>1
<1>9. /\ Max(T) \in T /\ \A y \in T : Max(T) >= y
      /\ Max(L) \in L /\ \A y \in L : Max(L) >= y
  <2> HIDE DEF T, L
  <2> QED
    BY <1>7, <1>8, Extremes
<1>10. lastWritten' \in T /\ lastWritten <= lastWritten' /\ disorder' \in L /\ disorder <= disorder'
  BY <1>4, <1>9
<1>11. disorder' \in Nat
  BY <1>8, <1>10
<1>12. lastWritten' \in Int
  BY <1>8, <1>10
<1> QED
  BY <1>5, <1>10, <1>11, <1>12 DEF D

----------------------------------------------------------------------------
(* Insert: the vehicles' absences, oldestReport and what it lets through.  *)
IsAged(aged, acc, seen) == aged = [acc EXCEPT !.aggregating = Aged(acc.aggregating, seen)]

LEMMA AgedSound ==
  ASSUME NEW K \in Int, NEW Q \in Int, NEW h \in Int, NEW acc, Sound(acc, K, Q, h),
         NEW seen, NEW aged, IsAged(aged, acc, seen)
  PROVE  /\ Sound(aged, K, Q, h) /\ aged.taken = acc.taken
         /\ aged.aggregating = Aged(acc.aggregating, seen)
         /\ \A v \in Vehicles : acc.aggregating[v] # Gone => aged.aggregating[v] # Gone
<1> DEFINE a == acc.aggregating
           entries == Aged(a, seen)
<1>1. /\ a \in [Vehicles -> Entries] /\ acc.queued \in Seq(LocationSet) /\ acc.taken \in Nat
      /\ acc = [aggregating |-> a, queued |-> acc.queued, taken |-> acc.taken]
      /\ \A v \in Vehicles : Near(a[v]) /\ From(a[v], K)
      /\ \A i \in DOMAIN acc.queued : acc.queued[i].time >= Q
      /\ Total(Nums(a)) + MergedIn(acc.queued) = h + acc.taken
  BY DEF Sound, Accs, Held
<1>2. ASSUME NEW v \in Vehicles
      PROVE  /\ entries[v] \in Entries /\ entries[v].num = a[v].num
             /\ Near(entries[v]) /\ From(entries[v], K) /\ (a[v] # Gone => entries[v] # Gone)
  <2>1. entries[v] = IF v \in seen \/ a[v] = Gone \/ a[v].unseen > RecentlySeenThreshold
                     THEN a[v] ELSE [a[v] EXCEPT !.unseen = @ + 1]
    BY DEF Aged
  <2>2. CASE v \in seen \/ a[v] = Gone \/ a[v].unseen > RecentlySeenThreshold
    <3>1. entries[v] = a[v]
      BY <2>1, <2>2
    <3> HIDE DEF a, entries
    <3> QED
      BY <1>1, <3>1
  <2>3. CASE ~ (v \in seen \/ a[v] = Gone \/ a[v].unseen > RecentlySeenThreshold)
    <3>1. entries[v] = [a[v] EXCEPT !.unseen = @ + 1]
      BY <2>1, <2>3
    <3>2. /\ a[v] \in Entries /\ a[v] # Gone /\ ~ (a[v].unseen > RecentlySeenThreshold)
          /\ RecentlySeenThreshold \in Nat
      BY <1>1, <2>3, AggregatorAssumption
    <3> HIDE DEF a, entries
    <3>3. /\ entries[v] \in Entries /\ entries[v] # Gone /\ entries[v].num = a[v].num
          /\ entries[v].first = a[v].first /\ entries[v].sum = a[v].sum
      BY <3>1, <3>2 DEF Entries, Gone
    <3> QED
      BY <1>1, <2>3, <3>3 DEF Near, From
  <2> QED
    BY <2>2, <2>3
<1>3. entries \in [Vehicles -> Entries]
  <2>1. entries = [v \in Vehicles |-> entries[v]]
    BY DEF Aged
  <2> HIDE DEF entries
  <2> QED
    BY <1>2, <2>1
<1>8. aged = [acc EXCEPT !.aggregating = entries]
  BY DEF IsAged
<1> HIDE DEF a, entries
<1>4. aged = [aggregating |-> entries, queued |-> acc.queued, taken |-> acc.taken]
  BY <1>1, <1>8
<1>5. Nums(entries) = Nums(a)
  BY <1>2 DEF Nums
<1>6. aged \in Accs /\ aged.aggregating = entries /\ aged.queued = acc.queued /\ aged.taken = acc.taken
  BY <1>1, <1>3, <1>4 DEF Accs
<1>7. Sound(aged, K, Q, h)
  BY <1>1, <1>2, <1>5, <1>6 DEF Sound, Held
<1> QED
  BY <1>2, <1>6, <1>7 DEF a, entries

LEMMA Oldest ==
  ASSUME NEW K \in Int, NEW entries \in [Vehicles -> Entries], NEW seen,
         \A v \in Vehicles : From(entries[v], K), Recent(entries, seen) # {}, NEW oldest,
         oldest = Min({entries[v].first.time : v \in Recent(entries, seen)}) - Slack
  PROVE  /\ oldest \in Int /\ oldest >= K - Slack
         /\ \A v \in Vehicles \ Overdue(entries, seen, oldest) : From(entries[v], oldest - Slack)
         /\ (\A v \in Vehicles : ~ (entries[v].unseen > RecentlySeenThreshold)) =>
              \A v \in Vehicles : From(entries[v], oldest + Slack)
<1> DEFINE R == Recent(entries, seen)
           time == [v \in R |-> entries[v].first.time]
           T == {time[v] : v \in R}
<1>1. /\ R \subseteq Vehicles /\ IsFiniteSet(R) /\ Slack \in Nat /\ RecentlySeenThreshold \in Nat
      /\ \A v \in R : entries[v] # Gone
      /\ \A v \in Vehicles : entries[v] # Gone =>
           /\ entries[v].first.time \in Nat /\ entries[v].first.time >= K
           /\ entries[v].unseen \in 0 .. RecentlySeenThreshold + 1
  <2>1. R \subseteq Vehicles /\ \A v \in R : entries[v] # Gone
    BY DEF Recent
  <2> HIDE DEF R
  <2> QED
    BY <2>1, FS_Subset, AggregatorAssumption, EntryType DEF From
<1>2. oldest = Min(T) - Slack
  <2>1. T = {entries[v].first.time : v \in R}
    OBVIOUS
  <2> QED
    BY <2>1
<1>3. Min(T) \in T /\ \A y \in T : Min(T) <= y
  <2>1. IsFiniteSet(T)
    <3> HIDE DEF time, R
    <3> QED
      BY <1>1, FiniteImage
  <2>2. T \subseteq Int /\ T # {}
    <3>1. R # {}
      OBVIOUS
    <3> HIDE DEF R
    <3> QED
      BY <1>1, <3>1
  <2> HIDE DEF T
  <2> QED
    BY <2>1, <2>2, Extremes
<1>4. Min(T) \in Nat /\ Min(T) >= K /\ \A v \in R : entries[v].first.time >= Min(T)
  <2> HIDE DEF R
  <2>1. PICK v \in R : Min(T) = entries[v].first.time
    BY <1>3
  <2>2. \A w \in R : entries[w].first.time \in T
    OBVIOUS
  <2> HIDE DEF T
  <2> QED
    BY <1>1, <1>3, <2>1, <2>2
<1> HIDE DEF T
<1>5. oldest \in Int /\ oldest >= K - Slack /\ \A v \in R : entries[v].first.time >= oldest + Slack
  <2> HIDE DEF R
  <2> DEFINE m == Min(T)
  <2>1. m \in Nat /\ m >= K /\ oldest = m - Slack
    BY <1>2, <1>4
  <2>2. ASSUME NEW v \in R PROVE entries[v].first.time >= oldest + Slack
    <3>1. entries[v].first.time \in Nat /\ entries[v].first.time >= m
      BY <1>1, <1>4
    <3> HIDE DEF m
    <3> QED
      BY <1>1, <2>1, <3>1
  <2> HIDE DEF m
  <2> QED
    BY <1>1, <2>1, <2>2
<1>6. \A v \in Vehicles : entries[v] # Gone /\ v \notin R =>
        v \notin seen /\ entries[v].unseen > RecentlySeenThreshold
  BY <1>1 DEF Recent
<1>7. ASSUME NEW v \in Vehicles \ Overdue(entries, seen, oldest), entries[v] # Gone
      PROVE  entries[v].first.time >= oldest - Slack
  <2>1. CASE v \in R
    BY <1>1, <1>5, <1>7, <2>1
  <2>2. CASE v \notin R
    <3>1. ~ (oldest - entries[v].first.time > Slack)
      BY <1>6, <1>7, <2>2 DEF Overdue
    <3> QED
      BY <1>1, <1>5, <1>7, <3>1
  <2> QED
    BY <2>1, <2>2
<1>8. ASSUME \A v \in Vehicles : ~ (entries[v].unseen > RecentlySeenThreshold), NEW v \in Vehicles
      PROVE  From(entries[v], oldest + Slack)
  BY <1>5, <1>6, <1>8 DEF From
<1> QED
  BY <1>5, <1>7, <1>8 DEF From

LEMMA Removed ==
  ASSUME NEW Q \in Int, NEW q \in Locations, \A i \in DOMAIN q : q[i].time >= Q,
         NEW sorted \in ByDateAndId(q), NEW oldest \in Int, NEW taken \in Nat,
         lastWritten \in Int, disorder \in Nat, held \in Nat,
         RemoveStaleReports(sorted, oldest, taken)
  PROVE  /\ queued' \in Locations
         /\ \A i \in DOMAIN queued' : queued'[i].time >= oldest /\ queued'[i].time >= Q
         /\ lastWritten' \in Int /\ lastWritten <= lastWritten'
         /\ lastWritten' = lastWritten \/ lastWritten' < oldest
         /\ disorder' \in Nat
         /\ disorder' = disorder \/ disorder' <= lastWritten - Q
         /\ held' = held + taken - MergedIn(q) + MergedIn(queued')
<1>1. /\ sorted \in Locations /\ MergedIn(sorted) = MergedIn(q)
      /\ \A i \in DOMAIN sorted : sorted[i].time \in Int /\ sorted[i].time >= Q
  <2>1. /\ sorted \in Locations /\ MergedIn(sorted) = MergedIn(q)
        /\ \A i \in DOMAIN sorted : \E j \in DOMAIN q : sorted[i] = q[j]
    BY Sorted DEF Locations
  <2>2. \A i \in DOMAIN sorted : sorted[i] \in LocationSet
    BY <2>1, LenProperties, ElementOfSeq DEF Locations
  <2> QED
    BY <2>1, <2>2 DEF LocationSet
<1>2. PICK n \in 0 .. Len(sorted) :
        /\ \A i \in DOMAIN sorted : i <= n <=> sorted[i].time < oldest
        /\ queued' = SubSeq(sorted, n + 1, Len(sorted))
        /\ WriteLocations(SubSeq(sorted, 1, n), taken)
  BY DEF RemoveStaleReports
<1> DEFINE early == SubSeq(sorted, 1, n)
<1>3. /\ early \in Locations /\ queued' \in Locations
      /\ MergedIn(early) + MergedIn(queued') = MergedIn(q)
      /\ \A i \in DOMAIN early : i \in DOMAIN sorted /\ i <= n /\ early[i] = sorted[i]
      /\ \A i \in DOMAIN queued' :
           i + n \in DOMAIN sorted /\ ~ (i + n <= n) /\ queued'[i] = sorted[i + n]
  BY <1>1, <1>2, Cut DEF Locations
<1>4. WriteLocations(early, taken)
  BY <1>2
<1> HIDE DEF early
<1>5. \A i \in DOMAIN early : early[i].time \in Int /\ early[i].time < oldest /\ early[i].time >= Q
  BY <1>1, <1>2, <1>3
<1>6. \A i \in DOMAIN queued' : queued'[i].time >= oldest /\ queued'[i].time >= Q
  <2>1. TAKE i \in DOMAIN queued'
  <2>2. i + n \in DOMAIN sorted /\ ~ (i + n <= n) /\ queued'[i] = sorted[i + n]
    BY <1>3
  <2>3. ~ (sorted[i + n].time < oldest) /\ sorted[i + n].time \in Int /\ sorted[i + n].time >= Q
    BY <1>1, <1>2, <2>2
  <2> QED
    BY <2>2, <2>3
<1>7. /\ lastWritten' \in Int /\ lastWritten <= lastWritten'
      /\ lastWritten' = lastWritten \/ \E i \in DOMAIN early : lastWritten' = early[i].time
      /\ disorder' \in Nat
      /\ disorder' = disorder \/ \E i \in DOMAIN early : disorder' = lastWritten - early[i].time
      /\ held' = held + taken - MergedIn(early)
  BY <1>3, <1>4, Written
<1>8. lastWritten' = lastWritten \/ lastWritten' < oldest
  BY <1>5, <1>7
<1>9. disorder' = disorder \/ disorder' <= lastWritten - Q
  BY <1>5, <1>7
<1>10. held' = held + taken - MergedIn(q) + MergedIn(queued')
  <2>1. MergedIn(early) \in Nat /\ MergedIn(queued') \in Nat
    BY <1>3, WeightsType DEF Locations
  <2> QED
    BY <1>3, <1>7, <2>1
<1> QED
  BY <1>3, <1>6, <1>7, <1>8, <1>9, <1>10

LEMMA BatchType ==
  ASSUME NEW batch \in Batches
  PROVE  /\ batch \in Seq(Reports) /\ 1 \in DOMAIN batch /\ DOMAIN batch = 1 .. Len(batch)
         /\ \A i \in DOMAIN batch : batch[i] \in Range(batch) /\ batch[i].id \in Seen(batch)
         /\ \A i \in DOMAIN batch : batch[i].id \in Vehicles
         /\ \A v \in Seen(batch) : \E i \in DOMAIN batch : v = batch[i].id
<1>1. PICK n \in 1 .. MaxBatch : batch \in [1 .. n -> Reports]
  BY DEF Batches
<1>2. n \in Nat /\ n >= 1
  BY <1>1, AggregatorAssumption
<1>3. batch \in Seq(Reports)
  BY <1>1, <1>2, SeqDef
<1>4. DOMAIN batch = 1 .. Len(batch) /\ DOMAIN batch = 1 .. n
  BY <1>1, <1>3, LenProperties
<1>5. \A i \in DOMAIN batch : batch[i] \in Reports /\ batch[i].id \in Vehicles
  BY <1>1, AggregatorAssumption
<1> QED
  BY <1>2, <1>3, <1>4, <1>5 DEF Seen, Range

(* What an Insert leaves behind, whatever the entries and the queue were   *)
(* known to begin at.                                                      *)
LEMMA InsertEffect ==
  ASSUME NEW K \in Int, NEW Q \in Int, Q <= K - SameWithin, Sound(Holding, K, Q, held),
         lastWritten \in Int, disorder \in Nat, held \in Nat, absent \in BOOLEAN,
         NEW batch \in Batches, Insert(batch),
         \A i \in DOMAIN batch : aggregating[batch[i].id] = Gone => batch[i].time >= K
  PROVE  /\ Sound([aggregating |-> aggregating', queued |-> queued', taken |-> 0], K, Q, held')
         /\ held' \in Nat /\ oldestReport' \in Int /\ oldestReport' >= K - Slack
         /\ \A v \in Vehicles : From(aggregating'[v], oldestReport' - Slack)
         /\ ~ absent' => \A v \in Vehicles : From(aggregating'[v], oldestReport' + Slack)
         /\ \A i \in DOMAIN queued' : queued'[i].time >= oldestReport'
         /\ lastWritten' \in Int /\ lastWritten <= lastWritten'
         /\ lastWritten' = lastWritten \/ lastWritten' < oldestReport'
         /\ disorder' \in Nat
         /\ disorder' = disorder \/ disorder' <= lastWritten - Q
<1> DEFINE seen == Seen(batch)
           inserted == Inserted(batch)
           entries == Aged(inserted.aggregating, seen)
           oldest == Min({entries[v].first.time : v \in Recent(entries, seen)}) - Slack
           overdue == Overdue(entries, seen, oldest)
           aged == [inserted EXCEPT !.aggregating = entries]
           emitted(ids) == Emitted(aged, ids)
<1>0. PICK ids \in SetToSeqs(overdue) :
        /\ aggregating' = emitted(ids).aggregating
        /\ \E sorted \in ByDateAndId(emitted(ids).queued) :
             RemoveStaleReports(sorted, oldest, inserted.taken)
  BY DEF Insert
<1>1. PICK sorted \in ByDateAndId(emitted(ids).queued) :
        /\ aggregating' = emitted(ids).aggregating
        /\ RemoveStaleReports(sorted, oldest, inserted.taken)
  BY <1>0
<1>2. /\ oldestReport' = oldest
      /\ absent' = (absent \/ \E v \in Vehicles : entries[v].unseen > RecentlySeenThreshold)
  BY DEF Insert
<1>3. /\ Sound(inserted, K, Q, held)
      /\ \A i \in 1 .. Len(batch) : inserted.aggregating[batch[i].id] # Gone
  <2>1. /\ batch \in Seq(Reports)
        /\ \A i \in 1 .. Len(batch) : aggregating[batch[i].id] = Gone => batch[i].time >= K
    BY BatchType
  <2> QED
    BY <2>1, InsertedSound
<1> HIDE DEF inserted
<1>4. /\ Sound(aged, K, Q, held) /\ aged.aggregating = entries /\ aged.taken = inserted.taken
      /\ entries \in [Vehicles -> Entries]
      /\ \A v \in Vehicles : From(entries[v], K)
      /\ \A v \in Vehicles : inserted.aggregating[v] # Gone => entries[v] # Gone
  <2>1. /\ held \in Int /\ IsAged(aged, inserted, seen)
    BY DEF IsAged
  <2>2. entries = Aged(inserted.aggregating, seen)
    OBVIOUS
  <2> HIDE DEF seen, entries, aged
  <2>3. /\ Sound(aged, K, Q, held) /\ aged.taken = inserted.taken
        /\ aged.aggregating = Aged(inserted.aggregating, seen)
        /\ \A v \in Vehicles : inserted.aggregating[v] # Gone => aged.aggregating[v] # Gone
    BY <1>3, <2>1, AgedSound
  <2>4. /\ aged.aggregating \in [Vehicles -> Entries]
        /\ \A v \in Vehicles : From(aged.aggregating[v], K)
    BY <2>3 DEF Sound, Accs
  <2> QED
    BY <2>2, <2>3, <2>4
<1> HIDE DEF entries, aged
<1>5. Recent(entries, seen) # {}
  <2>1. /\ batch[1].id \in Vehicles /\ batch[1].id \in seen
        /\ inserted.aggregating[batch[1].id] # Gone
    BY <1>3, BatchType
  <2> HIDE DEF seen
  <2>2. entries[batch[1].id] # Gone
    BY <1>4, <2>1
  <2>3. batch[1].id \in Recent(entries, seen)
    BY <2>1, <2>2 DEF Recent
  <2> QED
    BY <2>3
<1> HIDE DEF seen
<1>6. /\ oldest \in Int /\ oldest >= K - Slack
      /\ \A v \in Vehicles \ overdue : From(entries[v], oldest - Slack)
      /\ (\A v \in Vehicles : ~ (entries[v].unseen > RecentlySeenThreshold)) =>
           \A v \in Vehicles : From(entries[v], oldest + Slack)
  <2>1. \A v \in Vehicles : From(entries[v], K)
    BY <1>4
  <2> QED
    <3>1. oldest = Min({entries[v].first.time : v \in Recent(entries, seen)}) - Slack
      OBVIOUS
    <3> HIDE DEF oldest
    <3> QED
      BY <1>4, <1>5, <2>1, <3>1, Oldest
<1>7. overdue \in SUBSET Vehicles /\ \A v \in overdue : aged.aggregating[v] # Gone
  BY <1>4 DEF Overdue
<1> HIDE DEF oldest, overdue
<1> DEFINE after == emitted(ids)
<1>8. /\ Sound(after, K, Q, held) /\ after.taken = inserted.taken
      /\ \A v \in Vehicles : after.aggregating[v] = IF v \in overdue THEN Gone ELSE entries[v]
  <2>1. held \in Int
    OBVIOUS
  <2>2. /\ Sound(after, K, Q, held) /\ after.taken = aged.taken
        /\ \A v \in Vehicles : after.aggregating[v] = IF v \in overdue THEN Gone
                                                        ELSE aged.aggregating[v]
    BY <1>0, <1>4, <1>7, <2>1, EmittedSound
  <2> QED
    BY <1>4, <2>2
<1>9. /\ aggregating' = after.aggregating
      /\ RemoveStaleReports(sorted, oldest, inserted.taken)
      /\ sorted \in ByDateAndId(after.queued)
  BY <1>1
<1> HIDE DEF after
<1>10. /\ after.aggregating \in [Vehicles -> Entries] /\ after.queued \in Locations
       /\ inserted.taken \in Nat /\ after.taken \in Nat
       /\ \A v \in Vehicles : Near(after.aggregating[v]) /\ From(after.aggregating[v], K)
       /\ \A i \in DOMAIN after.queued : after.queued[i].time >= Q
       /\ Total(Nums(after.aggregating)) + MergedIn(after.queued) = held + inserted.taken
       /\ Total(Nums(after.aggregating)) \in Nat /\ MergedIn(after.queued) \in Nat
  <2>1. after \in Accs
    BY <1>8 DEF Sound
  <2>2. /\ after.aggregating \in [Vehicles -> Entries] /\ after.queued \in Seq(LocationSet)
        /\ after.taken \in Nat
    BY <2>1 DEF Accs
  <2> QED
    BY <1>8, <2>2, NumsType, WeightsType DEF Sound, Held, Locations
<1>11. /\ queued' \in Locations
       /\ \A i \in DOMAIN queued' : queued'[i].time >= oldest /\ queued'[i].time >= Q
       /\ lastWritten' \in Int /\ lastWritten <= lastWritten'
       /\ lastWritten' = lastWritten \/ lastWritten' < oldest
       /\ disorder' \in Nat
       /\ disorder' = disorder \/ disorder' <= lastWritten - Q
       /\ held' = held + inserted.taken - MergedIn(after.queued) + MergedIn(queued')
  BY <1>6, <1>9, <1>10, Removed
<1>12. /\ Sound([aggregating |-> aggregating', queued |-> queued', taken |-> 0], K, Q, held')
       /\ held' \in Nat
  <2>1. MergedIn(queued') \in Nat
    BY <1>11, WeightsType DEF Locations
  <2>2. Total(Nums(aggregating')) + MergedIn(queued') = held' + 0
    BY <1>9, <1>10, <1>11, <2>1
  <2> DEFINE new == [aggregating |-> aggregating', queued |-> queued', taken |-> 0]
  <2>3. /\ new \in Accs
        /\ new.aggregating = aggregating' /\ new.queued = queued' /\ new.taken = 0
    BY <1>9, <1>10, <1>11 DEF Accs, Locations
  <2> HIDE DEF new
  <2>4. Sound(new, K, Q, held')
    BY <1>9, <1>10, <1>11, <2>2, <2>3 DEF Sound, Held
  <2>5. held' \in Nat
    BY <1>9, <1>10, <1>11, <2>1, <2>2
  <2> QED
    BY <2>4, <2>5 DEF new
<1>13. \A v \in Vehicles : From(aggregating'[v], oldest - Slack)
  <2>1. ASSUME NEW v \in Vehicles PROVE From(aggregating'[v], oldest - Slack)
    <3>1. CASE v \in overdue
      BY <1>8, <1>9, <3>1 DEF From
    <3>2. CASE v \notin overdue
      BY <1>6, <1>8, <1>9, <3>2
    <3> QED
      BY <3>1, <3>2
  <2> QED
    BY <2>1
<1>14. ASSUME ~ absent', NEW v \in Vehicles PROVE From(aggregating'[v], oldest + Slack)
  <2>1. From(entries[v], oldest + Slack)
    BY <1>2, <1>6, <1>14
  <2>2. CASE v \in overdue
    BY <1>8, <1>9, <2>2 DEF From
  <2>3. CASE v \notin overdue
    BY <1>8, <1>9, <2>1, <2>3
  <2> QED
    BY <2>2, <2>3
<1> QED
  BY <1>2, <1>6, <1>11, <1>12, <1>13, <1>14

LEMMA NoneHeld ==
  ASSUME NEW a \in [Vehicles -> Entries], \A v \in Vehicles : a[v] = Gone
  PROVE  Total(Nums(a)) = 0
<1>1. Nums(a) = [v \in Vehicles |-> 0]
  BY DEF Nums, Gone
<1>2. 1 .. 0 = {}
  OBVIOUS
<1>3. UNION {{x} \X (1 .. Nums(a)[x]) : x \in DOMAIN Nums(a)} = {}
  BY <1>1, <1>2
<1> QED
  BY <1>3, FS_EmptySet DEF Total

LEMMA CloseEffect ==
  ASSUME NEW K \in Int, NEW Q \in Int, Q <= K - SameWithin, Sound(Holding, K, Q, held),
         lastWritten \in Int, disorder \in Nat, held \in Nat, Close
  PROVE  /\ aggregating' \in [Vehicles -> Entries] /\ \A v \in Vehicles : aggregating'[v] = Gone
         /\ queued' = <<>> /\ held' = 0
         /\ lastWritten' \in Int /\ lastWritten <= lastWritten'
         /\ disorder' \in Nat
         /\ disorder' = disorder \/ disorder' <= lastWritten - Q
<1>1. PICK ids \in SetToSeqs(Aggregated) :
        \E sorted \in ByDateAndId(Emitted(Holding, ids).queued) : WriteLocations(sorted, 0)
  BY DEF Close
<1> DEFINE after == Emitted(Holding, ids)
<1>2. PICK sorted \in ByDateAndId(after.queued) : WriteLocations(sorted, 0)
  BY <1>1
<1>3. /\ Sound(after, K, Q, held) /\ after.taken = 0
      /\ \A v \in Vehicles : after.aggregating[v] = Gone
  <2>1. /\ held \in Int /\ Aggregated \in SUBSET Vehicles
        /\ \A v \in Aggregated : Holding.aggregating[v] # Gone
        /\ \A v \in Vehicles \ Aggregated : Holding.aggregating[v] = Gone
        /\ Holding.taken = 0
    BY DEF Aggregated, Holding
  <2>2. /\ Sound(after, K, Q, held) /\ after.taken = Holding.taken
        /\ \A v \in Vehicles : after.aggregating[v] =
             IF v \in Aggregated THEN Gone ELSE Holding.aggregating[v]
    BY <1>1, <2>1, EmittedSound
  <2> QED
    BY <2>1, <2>2
<1> HIDE DEF after
<1>4. /\ after.aggregating \in [Vehicles -> Entries] /\ after.queued \in Locations
      /\ \A i \in DOMAIN after.queued : after.queued[i].time >= Q
      /\ Total(Nums(after.aggregating)) + MergedIn(after.queued) = held + 0
      /\ MergedIn(after.queued) \in Nat
  <2>1. after.aggregating \in [Vehicles -> Entries] /\ after.queued \in Seq(LocationSet)
    BY <1>3 DEF Sound, Accs
  <2> QED
    BY <1>3, <2>1, WeightsType DEF Sound, Held, Locations
<1>5. MergedIn(after.queued) = held
  BY <1>3, <1>4, NoneHeld
<1>6. /\ sorted \in Locations /\ MergedIn(sorted) = held
      /\ \A i \in DOMAIN sorted : sorted[i].time \in Int /\ sorted[i].time >= Q
  <2>1. /\ sorted \in Locations /\ MergedIn(sorted) = held
        /\ \A i \in DOMAIN sorted : \E j \in DOMAIN after.queued : sorted[i] = after.queued[j]
    BY <1>2, <1>4, <1>5, Sorted DEF Locations
  <2>2. \A i \in DOMAIN sorted : sorted[i] \in LocationSet
    BY <2>1, LenProperties, ElementOfSeq DEF Locations
  <2> QED
    BY <1>4, <2>1, <2>2 DEF LocationSet
<1>7. /\ lastWritten' \in Int /\ lastWritten <= lastWritten'
      /\ disorder' \in Nat
      /\ disorder' = disorder \/ \E i \in DOMAIN sorted : disorder' = lastWritten - sorted[i].time
      /\ held' = held + 0 - MergedIn(sorted)
  <2>1. 0 \in Nat
    OBVIOUS
  <2> QED
    BY <1>2, <1>6, <2>1, Written
<1>8. disorder' = disorder \/ disorder' <= lastWritten - Q
  BY <1>6, <1>7
<1>9. held' = 0
  BY <1>6, <1>7
<1>10. aggregating' = [v \in Vehicles |-> Gone] /\ queued' = <<>> /\ Gone \in Entries
  BY DEF Close, Entries
<1> QED
  BY <1>7, <1>8, <1>9, <1>10

----------------------------------------------------------------------------
(* The invariant.  While no vehicle is absent and none returns, whatever   *)
(* is held begins at oldestReport or later and whatever is written was     *)
(* older; with absences, an entry may begin up to Slack before the latest  *)
(* location written, and its average another SameWithin before that.       *)
InOrder ==
  ~ returned /\ ~ absent =>
    /\ disorder = 0
    /\ state = "open" =>
         /\ lastWritten <= oldestReport
         /\ \A v \in Vehicles : From(aggregating[v], oldestReport + Slack)
         /\ \A i \in DOMAIN queued : queued[i].time >= oldestReport

Bounded ==
  ~ returned =>
    /\ disorder <= Slack + SameWithin
    /\ state = "open" =>
         /\ lastWritten <= oldestReport + 2 * Slack
         /\ \A v \in Vehicles : From(aggregating[v], lastWritten - Slack)
         /\ \A i \in DOMAIN queued : queued[i].time >= lastWritten - Slack - SameWithin

IInv ==
  /\ TypeOK
  /\ \A v \in Vehicles : Near(aggregating[v])
  /\ NothingForgotten
  /\ InOrder
  /\ Bounded

LEMMA InitIInv == Init => IInv
<1> SUFFICES ASSUME Init PROVE IInv
  OBVIOUS
<1>1. SameWithin \in Nat /\ Slack \in Nat /\ Never \in Int
  BY AggregatorAssumption DEF Never
<1>2. /\ aggregating \in [Vehicles -> Entries] /\ \A v \in Vehicles : aggregating[v] = Gone
      /\ queued = <<>> /\ state = "open" /\ oldestReport = Never /\ lastWritten = Never
      /\ disorder = 0 /\ held = 0 /\ absent = FALSE /\ returned = FALSE
  BY DEF Init, Entries
<1>3. TypeOK
  <2>1. queued \in Seq(LocationSet)
    BY <1>2, MergedOfNone
  <2>2. {absent, returned} \subseteq BOOLEAN
    BY <1>2
  <2>3. {oldestReport, lastWritten} \subseteq Int /\ {disorder, held} \subseteq Nat
    BY <1>1, <1>2
  <2>4. aggregating \in [Vehicles -> Entries] /\ state \in {"open", "closed", "panicked"}
    BY <1>2
  <2> QED
    BY <2>1, <2>2, <2>3, <2>4 DEF TypeOK
<1>4. \A v \in Vehicles : Near(aggregating[v])
  BY <1>2 DEF Near
<1>5. NothingForgotten
  <2>1. Total(Nums(aggregating)) = 0
    BY <1>2, NoneHeld
  <2>2. Nums(aggregating) = [v \in Vehicles |-> aggregating[v].num]
    BY DEF Nums
  <2> QED
    BY <1>2, <2>1, <2>2, MergedOfNone DEF NothingForgotten
<1>6. InOrder
  BY <1>1, <1>2 DEF InOrder, From
<1>7. Bounded
  BY <1>1, <1>2 DEF Bounded, From
<1> QED
  BY <1>3, <1>4, <1>5, <1>6, <1>7 DEF IInv

(* What is held, seen as the operators that change it do.                  *)
LEMMA HoldingSound ==
  ASSUME IInv, NEW K, NEW Q, \A v \in Vehicles : From(aggregating[v], K),
         \A i \in DOMAIN queued : queued[i].time >= Q
  PROVE  Sound(Holding, K, Q, held)
<1>1. /\ aggregating \in [Vehicles -> Entries] /\ queued \in Seq(LocationSet) /\ held \in Nat
      /\ \A v \in Vehicles : Near(aggregating[v])
      /\ held = Total(Nums(aggregating)) + MergedIn(queued)
  BY DEF IInv, TypeOK, NothingForgotten, Nums
<1>2. /\ Holding \in Accs /\ Holding.aggregating = aggregating /\ Holding.queued = queued
      /\ Holding.taken = 0
  BY <1>1 DEF Holding, Accs
<1>3. Held(Holding) = held + 0
  BY <1>1, <1>2 DEF Held
<1> QED
  BY <1>1, <1>2, <1>3 DEF Sound

(* Times are not negative.                                                 *)
LEMMA HoldingFromZero ==
  ASSUME IInv
  PROVE  Sound(Holding, 0, -SameWithin, held)
<1>1. /\ aggregating \in [Vehicles -> Entries] /\ queued \in Seq(LocationSet)
      /\ SameWithin \in Nat
  BY AggregatorAssumption DEF IInv, TypeOK
<1>2. \A v \in Vehicles : From(aggregating[v], 0)
  BY <1>1, EntryType DEF From
<1>3. \A i \in DOMAIN queued : queued[i].time >= -SameWithin
  <2>1. \A i \in DOMAIN queued : queued[i] \in LocationSet
    BY <1>1, LenProperties, ElementOfSeq
  <2>2. \A i \in DOMAIN queued : queued[i].time \in Nat
    BY <2>1 DEF LocationSet
  <2> QED
    BY <1>1, <2>2
<1> QED
  BY <1>2, <1>3, HoldingSound

LEMMA InsertIInv ==
  ASSUME IInv, state = "open", NEW batch \in Batches, Insert(batch)
  PROVE  IInv'
<1>1. /\ aggregating \in [Vehicles -> Entries] /\ queued \in Seq(LocationSet)
      /\ oldestReport \in Int /\ lastWritten \in Int /\ disorder \in Nat /\ held \in Nat
      /\ absent \in BOOLEAN /\ returned \in BOOLEAN
      /\ InOrder /\ Bounded
  BY DEF IInv, TypeOK
<1>2. SameWithin \in Nat /\ Slack \in Nat /\ SameWithin < Slack
  BY AggregatorAssumption
<1>3. /\ state' = "open"
      /\ returned' = (returned \/ \E r \in Range(batch) :
                        r.id \notin Aggregated /\ r.time < oldestReport + Slack)
      /\ \E e : absent' = (absent \/ \E v \in Vehicles : e[v].unseen > RecentlySeenThreshold)
  BY DEF Insert
<1>4. /\ absent' \in BOOLEAN /\ returned' \in BOOLEAN
      /\ ~ returned' => ~ returned
      /\ ~ absent' => ~ absent
  BY <1>1, <1>3
<1>5. \A i \in DOMAIN batch : batch[i].id \in Vehicles /\ batch[i].time \in Nat /\ batch[i] \in Range(batch)
  BY BatchType, ElementOfSeq, AggregatorAssumption
<1>6. ASSUME ~ returned'
      PROVE  \A i \in DOMAIN batch : aggregating[batch[i].id] = Gone =>
               batch[i].time >= oldestReport + Slack
  <2>1. SUFFICES ASSUME NEW i \in DOMAIN batch, aggregating[batch[i].id] = Gone
                 PROVE  ~ (batch[i].time < oldestReport + Slack)
    BY <1>1, <1>2, <1>5
  <2>2. batch[i].id \notin Aggregated
    BY <2>1 DEF Aggregated
  <2> QED
    BY <1>3, <1>5, <1>6, <2>2
<1> DEFINE new == [aggregating |-> aggregating', queued |-> queued', taken |-> 0]
<1>7. /\ TypeOK' /\ (\A v \in Vehicles : Near(aggregating[v]))' /\ NothingForgotten'
      /\ oldestReport' \in Int /\ lastWritten' \in Int /\ disorder' \in Nat
  <2>1. -SameWithin \in Int /\ -SameWithin <= 0 - SameWithin /\ 0 \in Int
    BY <1>2
  <2>2. \A i \in DOMAIN batch : aggregating[batch[i].id] = Gone => batch[i].time >= 0
    BY <1>5
  <2>3. /\ Sound(new, 0, -SameWithin, held') /\ held' \in Nat /\ oldestReport' \in Int
        /\ lastWritten' \in Int /\ disorder' \in Nat
    <3> HIDE DEF new
    <3>1. Sound(Holding, 0, -SameWithin, held)
      BY HoldingFromZero
    <3> QED
      BY <1>1, <2>1, <2>2, <3>1, InsertEffect DEF new
  <2>4. /\ aggregating' \in [Vehicles -> Entries] /\ queued' \in Seq(LocationSet)
        /\ \A v \in Vehicles : Near(aggregating'[v])
        /\ Total(Nums(aggregating')) + MergedIn(queued') = held' + 0
    BY <2>3 DEF Sound, Accs, Held
  <2>5. NothingForgotten'
    BY <1>3, <2>3, <2>4 DEF NothingForgotten, Nums
  <2>6. TypeOK'
    BY <1>3, <1>4, <2>3, <2>4 DEF TypeOK
  <2> QED
    BY <2>3, <2>4, <2>5, <2>6
<1> HIDE DEF new
<1>8. InOrder'
  <2>1. SUFFICES ASSUME ~ returned', ~ absent'
                 PROVE  /\ disorder' = 0
                        /\ lastWritten' <= oldestReport'
                        /\ \A v \in Vehicles : From(aggregating'[v], oldestReport' + Slack)
                        /\ \A i \in DOMAIN queued' : queued'[i].time >= oldestReport'
    BY DEF InOrder
  <2> DEFINE K == oldestReport + Slack
             Q == oldestReport
  <2>2. /\ disorder = 0 /\ lastWritten <= oldestReport
        /\ \A v \in Vehicles : From(aggregating[v], K)
        /\ \A i \in DOMAIN queued : queued[i].time >= Q
    BY <1>1, <1>4, <2>1 DEF InOrder
  <2>3. K \in Int /\ Q \in Int /\ Q <= K - SameWithin /\ K - Slack = Q /\ lastWritten - Q <= 0
    BY <1>1, <1>2, <2>2
  <2>4. \A i \in DOMAIN batch : aggregating[batch[i].id] = Gone => batch[i].time >= K
    BY <1>6, <2>1
  <2> HIDE DEF K, Q
  <2>5. Sound(Holding, K, Q, held)
    BY <2>2, HoldingSound
  <2>6. /\ oldestReport' >= K - Slack
        /\ \A v \in Vehicles : From(aggregating'[v], oldestReport' + Slack)
        /\ \A i \in DOMAIN queued' : queued'[i].time >= oldestReport'
        /\ lastWritten' = lastWritten \/ lastWritten' < oldestReport'
        /\ disorder' = disorder \/ disorder' <= lastWritten - Q
    BY <1>1, <2>1, <2>3, <2>4, <2>5, InsertEffect
  <2>7. disorder' = 0
    BY <1>1, <1>7, <2>2, <2>3, <2>6
  <2>8. lastWritten' <= oldestReport'
    BY <1>1, <1>7, <2>2, <2>3, <2>6 DEF Q
  <2> QED
    BY <2>6, <2>7, <2>8
<1>9. Bounded'
  <2>1. SUFFICES ASSUME ~ returned'
                 PROVE  /\ disorder' <= Slack + SameWithin
                        /\ lastWritten' <= oldestReport' + 2 * Slack
                        /\ \A v \in Vehicles : From(aggregating'[v], lastWritten' - Slack)
                        /\ \A i \in DOMAIN queued' :
                             queued'[i].time >= lastWritten' - Slack - SameWithin
    BY DEF Bounded
  <2> DEFINE K == lastWritten - Slack
             Q == lastWritten - Slack - SameWithin
  <2>2. /\ disorder <= Slack + SameWithin /\ lastWritten <= oldestReport + 2 * Slack
        /\ \A v \in Vehicles : From(aggregating[v], K)
        /\ \A i \in DOMAIN queued : queued[i].time >= Q
    BY <1>4, <1>1, <2>1 DEF Bounded
  <2>3. /\ K \in Int /\ Q \in Int /\ Q <= K - SameWithin
        /\ lastWritten - Q = Slack + SameWithin /\ oldestReport + Slack >= K
        /\ K - Slack = lastWritten - 2 * Slack
    BY <1>1, <1>2, <2>2
  <2>4. \A i \in DOMAIN batch : aggregating[batch[i].id] = Gone => batch[i].time >= K
    BY <1>1, <1>2, <1>5, <1>6, <2>1, <2>3
  <2> HIDE DEF K, Q
  <2>5. Sound(Holding, K, Q, held)
    BY <2>2, HoldingSound
  <2>6. /\ Sound(new, K, Q, held')
        /\ oldestReport' >= K - Slack
        /\ \A v \in Vehicles : From(aggregating'[v], oldestReport' - Slack)
        /\ \A i \in DOMAIN queued' : queued'[i].time >= oldestReport'
        /\ lastWritten' = lastWritten \/ lastWritten' < oldestReport'
        /\ disorder' = disorder \/ disorder' <= lastWritten - Q
    BY <1>1, <2>3, <2>4, <2>5, InsertEffect DEF new
  <2>7. /\ \A v \in Vehicles : From(aggregating'[v], K)
        /\ \A i \in DOMAIN queued' : queued'[i].time >= Q
    BY <2>6 DEF Sound, new
  <2>8. disorder' <= Slack + SameWithin
    BY <1>1, <1>2, <1>7, <2>2, <2>3, <2>6
  <2>9. lastWritten' <= oldestReport' + 2 * Slack
    <3>1. oldestReport' >= lastWritten - 2 * Slack
      BY <2>3, <2>6
    <3>2. lastWritten' = lastWritten \/ lastWritten' < oldestReport'
      BY <2>6
    <3>3. \A n, old, lw \in Int : \A d \in Nat :
            old >= lw - 2 * d /\ (n = lw \/ n < old) => n <= old + 2 * d
      OBVIOUS
    <3>4. oldestReport' \in Int /\ lastWritten' \in Int
      BY <1>7
    <3> QED
      BY <1>1, <1>2, <3>1, <3>2, <3>3, <3>4
  <2>10. ASSUME NEW v \in Vehicles, aggregating'[v] # Gone
         PROVE  aggregating'[v].first.time >= lastWritten' - Slack
    <3>1. aggregating'[v].first.time \in Int
      BY <1>7, <2>10, EntryType DEF TypeOK
    <3>2. /\ aggregating'[v].first.time >= K
          /\ aggregating'[v].first.time >= oldestReport' - Slack
      BY <2>6, <2>7, <2>10 DEF From
    <3> QED
      BY <1>1, <1>2, <1>7, <2>6, <3>1, <3>2 DEF K
  <2>11. ASSUME NEW i \in DOMAIN queued'
         PROVE  queued'[i].time >= lastWritten' - Slack - SameWithin
    <3>1. queued'[i].time \in Int
      <4>1. queued'[i] \in LocationSet
        BY <1>7, LenProperties, ElementOfSeq DEF TypeOK
      <4> QED
        BY <4>1 DEF LocationSet
    <3>2. queued'[i].time >= Q /\ queued'[i].time >= oldestReport'
      BY <2>6, <2>7
    <3> QED
      BY <1>1, <1>2, <1>7, <2>6, <3>1, <3>2 DEF Q
  <2> QED
    BY <2>8, <2>9, <2>10, <2>11 DEF From
<1> QED
  BY <1>7, <1>8, <1>9 DEF IInv

LEMMA CloseIInv ==
  ASSUME IInv, Close
  PROVE  IInv'
<1>1. /\ aggregating \in [Vehicles -> Entries] /\ queued \in Seq(LocationSet)
      /\ oldestReport \in Int /\ lastWritten \in Int /\ disorder \in Nat /\ held \in Nat
      /\ absent \in BOOLEAN /\ returned \in BOOLEAN
      /\ InOrder /\ Bounded
  BY DEF IInv, TypeOK
<1>2. SameWithin \in Nat /\ Slack \in Nat /\ SameWithin < Slack
  BY AggregatorAssumption
<1>3. /\ state = "open" /\ state' = "closed"
      /\ absent' = absent /\ returned' = returned /\ oldestReport' = oldestReport
  BY DEF Close
<1>4. /\ aggregating' \in [Vehicles -> Entries] /\ \A v \in Vehicles : aggregating'[v] = Gone
      /\ queued' = <<>> /\ held' = 0
      /\ lastWritten' \in Int /\ disorder' \in Nat
  <2>1. -SameWithin \in Int /\ -SameWithin <= 0 - SameWithin /\ 0 \in Int
    BY <1>2
  <2> QED
    BY <1>1, <2>1, HoldingFromZero, CloseEffect
<1>5. TypeOK'
  <2>1. queued' \in Seq(LocationSet)
    BY <1>4, MergedOfNone
  <2> QED
    BY <1>1, <1>3, <1>4, <2>1 DEF TypeOK
<1>6. (\A v \in Vehicles : Near(aggregating[v]))'
  BY <1>4 DEF Near
<1>7. NothingForgotten'
  <2>1. Total(Nums(aggregating')) = 0
    BY <1>4, NoneHeld
  <2>2. Nums(aggregating') = [v \in Vehicles |-> aggregating'[v].num]
    BY DEF Nums
  <2> QED
    BY <1>4, <2>1, <2>2, MergedOfNone DEF NothingForgotten
<1>8. InOrder'
  <2>1. SUFFICES ASSUME ~ returned, ~ absent PROVE disorder' = 0
    BY <1>3 DEF InOrder
  <2> DEFINE K == oldestReport + Slack
             Q == oldestReport
  <2>2. /\ disorder = 0 /\ lastWritten <= oldestReport
        /\ \A v \in Vehicles : From(aggregating[v], K)
        /\ \A i \in DOMAIN queued : queued[i].time >= Q
    BY <1>1, <1>3, <2>1 DEF InOrder
  <2>3. K \in Int /\ Q \in Int /\ Q <= K - SameWithin /\ lastWritten - Q <= 0
    BY <1>1, <1>2, <2>2
  <2> HIDE DEF K, Q
  <2>4. disorder' = disorder \/ disorder' <= lastWritten - Q
    BY <1>1, <2>2, <2>3, HoldingSound, CloseEffect
  <2> QED
    BY <1>1, <1>4, <2>2, <2>3, <2>4
<1>9. Bounded'
  <2>1. SUFFICES ASSUME ~ returned PROVE disorder' <= Slack + SameWithin
    BY <1>3 DEF Bounded
  <2> DEFINE K == lastWritten - Slack
             Q == lastWritten - Slack - SameWithin
  <2>2. /\ disorder <= Slack + SameWithin
        /\ \A v \in Vehicles : From(aggregating[v], K)
        /\ \A i \in DOMAIN queued : queued[i].time >= Q
    BY <1>1, <1>3, <2>1 DEF Bounded
  <2>3. K \in Int /\ Q \in Int /\ Q <= K - SameWithin /\ lastWritten - Q = Slack + SameWithin
    BY <1>1, <1>2, <2>2
  <2> HIDE DEF K, Q
  <2>4. disorder' = disorder \/ disorder' <= lastWritten - Q
    BY <1>1, <2>2, <2>3, HoldingSound, CloseEffect
  <2> QED
    BY <1>1, <1>2, <1>4, <2>2, <2>3, <2>4
<1> QED
  BY <1>5, <1>6, <1>7, <1>8, <1>9 DEF IInv

LEMMA NextIInv == IInv /\ [Next]_vars => IInv'
<1> SUFFICES ASSUME IInv, [Next]_vars PROVE IInv'
  OBVIOUS
<1>1. ASSUME NEW batch \in Batches, state = "open", Insert(batch) PROVE IInv'
  BY <1>1, InsertIInv
<1>2. ASSUME NEW batch \in Batches, InsertPanics(batch) PROVE IInv'
  <2>1. /\ state' = "panicked"
        /\ UNCHANGED <<aggregating, oldestReport, queued, lastWritten, disorder, held, absent, returned>>
    BY <1>2 DEF InsertPanics
  <2>2. TypeOK' /\ (\A v \in Vehicles : Near(aggregating[v]))'
    BY <2>1 DEF IInv, TypeOK
  <2>3. NothingForgotten'
    BY <2>1 DEF IInv, NothingForgotten
  <2>4. InOrder' /\ Bounded'
    BY <2>1 DEF IInv, InOrder, Bounded
  <2> QED
    BY <2>2, <2>3, <2>4 DEF IInv
<1>3. CASE Close
  BY <1>3, CloseIInv
<1>4. CASE UNCHANGED vars
  BY <1>4 DEF vars, IInv, TypeOK, NothingForgotten, InOrder, Bounded
<1> QED
  BY <1>1, <1>2, <1>3, <1>4 DEF Next, Receive

THEOREM Invariance == Spec => []IInv
<1> QED
  BY InitIInv, NextIInv, PTL DEF Spec

(* What is aggregated is near: however many reports of a standing vehicle  *)
(* are averaged, the average is within SameWithin of the first of them.    *)
THEOREM AveragesNearFirst == Spec => []AverageNearFirst
<1>1. IInv => AverageNearFirst
  <2>1. SUFFICES ASSUME IInv, NEW v \in Vehicles, aggregating[v] # Gone
                 PROVE  Distance(RoundedMean(aggregating[v].sum, aggregating[v].num),
                                 aggregating[v].first.time) <= SameWithin
    BY DEF AverageNearFirst
  <2> DEFINE e == aggregating[v]
  <2>2. e \in Entries /\ e # Gone /\ Near(e)
    BY <2>1 DEF IInv, TypeOK
  <2> HIDE DEF e
  <2>3. /\ RoundedMean(e.sum, e.num) \in Nat /\ e.first.time \in Nat /\ SameWithin \in Nat
        /\ e.first.time <= RoundedMean(e.sum, e.num) + SameWithin
        /\ RoundedMean(e.sum, e.num) <= e.first.time + SameWithin
    BY <2>2, EntryType, MeanNearFirst, AggregatorAssumption
  <2>4. Distance(RoundedMean(e.sum, e.num), e.first.time) <= SameWithin
    BY <2>3 DEF Distance
  <2> QED
    BY <2>4 DEF e
<1> QED
  BY <1>1, Invariance, PTL

(* No report is lost or counted twice: each one that was taken in and not  *)
(* written is in one entry or one queued location, whatever batches come,  *)
(* whatever order they are emitted and sorted in; Close writes the rest.   *)
THEOREM NothingIsForgotten == Spec => []NothingForgotten
<1>1. IInv => NothingForgotten
  BY DEF IInv
<1> QED
  BY <1>1, Invariance, PTL

(* The archive is in time order while no vehicle is absent for long and    *)
(* none returns with an old report, and out of it by at most Slack +       *)
(* SameWithin when vehicles are absent.                                    *)
THEOREM ArchiveInOrder == Spec => []OrderKept
<1>1. IInv => OrderKept
  BY DEF IInv, InOrder, Bounded, OrderKept, InOrderWhileSeen, DisorderBounded
<1> QED
  BY <1>1, Invariance, PTL

----------------------------------------------------------------------------
(* VehicleReports: the times of the reports that the aggregator is given,  *)
(* and that the archive is read back with.                                 *)

LEMMA MillisKept ==
  ASSUME NEW ms \in Int
  PROVE  UnixMilliseconds(UnixMillisToTime(ms)) = ms
<1>1. ms = 1000 * (ms \div 1000) + (ms % 1000) /\ ms \div 1000 \in Int /\ ms % 1000 \in Int
  OBVIOUS
<1> QED
  BY <1>1 DEF UnixMilliseconds, UnixMillisToTime

(* What a location that could be made is made of.                          *)
LEMMA LocationMade ==
  ASSUME NEW elem, NEW t \in Int, elem.age \in Int, LocationOf(elem, t) # Nil
  PROVE  LET loc == LocationOf(elem, t)
         IN /\ elem.at # OffTheMap
            /\ loc.id = elem.id /\ loc.at = elem.at /\ loc.heading = Heading(elem.heading)
            /\ UnixMilliseconds(loc.time) = t - 1000 * elem.age
<1>1. elem.at # OffTheMap
  BY DEF LocationOf
<1>2. LocationOf(elem, t)
        = [id |-> elem.id, at |-> elem.at, heading |-> Heading(elem.heading),
           time |-> UnixMillisToTime(t - 1000 * elem.age)]
  BY <1>1 DEF LocationOf
<1>3. t - 1000 * elem.age \in Int
  OBVIOUS
<1> QED
  BY <1>1, <1>2, <1>3, MillisKept

LEMMA HeadingKept == \A h : Heading(Heading(h)) = Heading(h)
BY DEF Heading, IsHeading

(* A location is read from the archive as it was written, or refused.      *)
LEMMA ReadAsWritten ==
  ASSUME TooLow \in Int, TooHigh \in Int, NEW loc, NEW h,
         loc.at # OffTheMap, loc.heading = Heading(h), UnixMilliseconds(loc.time) \in Int
  PROVE  LET read == FromCsvFields(ToCsvFields(loc))
         IN IF UnixMilliseconds(loc.time) \in TooLow .. TooHigh
            THEN IsSameReport(read, loc)
            ELSE read = Nil
<1> DEFINE ms == UnixMilliseconds(loc.time)
           fields == ToCsvFields(loc)
           read == FromCsvFields(fields)
<1>1. /\ fields[1] = ms /\ fields[3] = loc.id /\ fields[4] = loc.heading
      /\ fields[5] = loc.at
  BY DEF ToCsvFields
<1> HIDE DEF fields
<1>2. CASE ms \in TooLow .. TooHigh
  <2>1. read = [time |-> UnixMillisToTime(ms), id |-> loc.id,
                heading |-> Heading(loc.heading), at |-> loc.at]
    BY <1>1, <1>2 DEF FromCsvFields
  <2>2. Heading(loc.heading) = loc.heading
    BY HeadingKept
  <2>3. UnixMilliseconds(UnixMillisToTime(ms)) = ms
    BY MillisKept
  <2>4. /\ read.id = loc.id /\ read.at = loc.at /\ read.heading = loc.heading
        /\ UnixMilliseconds(read.time) - UnixMilliseconds(loc.time) = 0
    BY <2>1, <2>2, <2>3
  <2> QED
    BY <1>2, <2>4 DEF IsSameReport, fields
<1>3. CASE ms \notin TooLow .. TooHigh
  <2>1. ms < TooLow \/ ms > TooHigh
    BY <1>3
  <2> QED
    BY <1>1, <1>3, <2>1 DEF FromCsvFields, fields
<1> QED
  BY <1>2, <1>3

(* Whatever a response says of its vehicles: if all have a place on the    *)
(* map, the newest of their times is the response's lastTime; times are as *)
(* far apart as the ages; and what has been archived is read again as the  *)
(* same report, unless its time is out of bounds.                          *)
THEOREM TimesComeBack ==
  ASSUME TooLow \in Int, TooHigh \in Int,
         NEW S, \A v \in S : v.age \in Int,
         NEW body, body.vehicles \in Seq(S), body.lastTime \in Int \cup {NoLastTime}
  PROVE  TimesAreRight(body, ReportOf(body))
<1> DEFINE report == ReportOf(body)
           all == DOMAIN body.vehicles
           made == {i \in all : report.locations[i] # Nil}
           time(i) == UnixMilliseconds(report.locations[i].time)
           last == LastTimeMs(body)
           least == Min(Ages(body))
           when == last + 1000 * least
           age(i) == body.vehicles[i].age
<1>1. /\ all = 1 .. Len(body.vehicles) /\ Len(body.vehicles) \in Nat
      /\ \A i \in all : age(i) \in Int
  OBVIOUS
<1>2. last \in Int /\ report.lastTime = (IF last > 0 THEN last ELSE 0)
  BY DEF LastTimeMs, ReportOf
<1>3. \A i \in all : report.locations[i] = LocationOf(body.vehicles[i], when)
  BY DEF ReportOf, ReportTime
<1>4. Ages(body) = {age(i) : i \in all}
  BY DEF Ages, ToSet
<1>5. all # {} => /\ least \in {age(i) : i \in all}
                  /\ \A i \in all : least <= age(i)
  <2> SUFFICES ASSUME all # {}
               PROVE  /\ least \in {age(i) : i \in all}
                      /\ \A i \in all : least <= age(i)
    OBVIOUS
  <2> DEFINE A == {age(i) : i \in all}
             f == [i \in all |-> age(i)]
  <2>1. IsFiniteSet(all)
    BY <1>1, FS_Interval
  <2>2. A = {f[i] : i \in all}
    OBVIOUS
  <2>3. IsFiniteSet(A)
    <3> HIDE DEF f, A, all
    <3> QED
      BY <2>1, <2>2, FiniteImage
  <2>4. A \subseteq Int /\ A # {}
    BY <1>1
  <2>5. Ages(body) = A
    BY <1>4
  <2>6. \A i \in all : age(i) \in A
    OBVIOUS
  <2> HIDE DEF A
  <2>7. Min(A) \in A /\ \A y \in A : Min(A) <= y
    BY <2>3, <2>4, Extremes
  <2> QED
    BY <2>5, <2>6, <2>7 DEF A
<1> HIDE DEF report, least, last
<1>6. ASSUME NEW i \in made
      PROVE  /\ report.locations[i].heading = Heading(body.vehicles[i].heading)
             /\ report.locations[i].at # OffTheMap
             /\ time(i) = when - 1000 * age(i)
             /\ time(i) \in Int
  <2>1. i \in all /\ age(i) \in Int /\ least \in Int
    BY <1>1, <1>5
  <2>2. when \in Int
    BY <1>2, <2>1
  <2>3. LocationOf(body.vehicles[i], when) # Nil
    BY <1>3, <2>1
  <2> HIDE DEF when
  <2>4. /\ body.vehicles[i].at # OffTheMap
        /\ LocationOf(body.vehicles[i], when).at = body.vehicles[i].at
        /\ LocationOf(body.vehicles[i], when).heading = Heading(body.vehicles[i].heading)
        /\ UnixMilliseconds(LocationOf(body.vehicles[i], when).time)
             = when - 1000 * body.vehicles[i].age
    BY <2>1, <2>2, <2>3, LocationMade
  <2> QED
    BY <1>3, <2>1, <2>2, <2>4
<1>7. all # {} => least \in Int
  BY <1>1, <1>5
<1>8. \A i \in made : /\ i \in all /\ age(i) \in Int /\ time(i) \in Int
                      /\ time(i) = (last + 1000 * least) - 1000 * age(i)
  BY <1>1, <1>6
<1>9. ASSUME NEW i \in made
      PROVE  IF time(i) \in TooLow .. TooHigh
             THEN IsSameReport(FromCsvFields(ToCsvFields(report.locations[i])),
                               report.locations[i])
             ELSE FromCsvFields(ToCsvFields(report.locations[i])) = Nil
  BY <1>6, ReadAsWritten
<1> HIDE DEF time, age, made, all
<1>10. ASSUME made = all, made # {}, report.lastTime # 0
       PROVE  Max({time(i) : i \in made}) = report.lastTime
  <2> DEFINE T == {time(i) : i \in made}
  <2>1. report.lastTime = last
    BY <1>2, <1>10
  <2>2. PICK k \in made : age(k) = least
    BY <1>5, <1>10
  <2>3. \A i \in made : time(i) \in Int /\ time(i) <= last
    BY <1>2, <1>5, <1>7, <1>8
  <2>4. time(k) = last
    BY <1>2, <1>8, <2>2
  <2>5. last \in T /\ \A x \in T : x \in Int /\ last >= x
    BY <2>2, <2>3, <2>4
  <2> HIDE DEF T
  <2>6. Max(T) = last
    <3>1. \A x \in T : (\A y \in T : x >= y) => x = last
      BY <1>2, <2>5
    <3> QED
      BY <2>5, <3>1 DEF Max
  <2> QED
    BY <2>1, <2>6 DEF T
<1>11. ASSUME NEW i \in made, NEW j \in made
       PROVE  time(i) - time(j) = 1000 * (age(j) - age(i))
  BY <1>2, <1>7, <1>8
<1> QED
  BY <1>9, <1>10, <1>11 DEF TimesAreRight, report, time, age, made, all
=============================================================================
