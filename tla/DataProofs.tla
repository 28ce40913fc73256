----------------------------- MODULE DataProofs -----------------------------
(***************************************************************************)
(* Lemmas about numbers, sequences and recursion that the theorems of the  *)
(* components rest on.  Induction is by a least counterexample, which      *)
(* needs no operator as a parameter.                                       *)
(***************************************************************************)
EXTENDS Lists, FiniteSetTheorems, SequenceTheorems, WellFoundedInduction, TLAPS

\* A set of numbers that is not empty has a least element.
LEMMA LeastElement ==
  ASSUME NEW S \in SUBSET Nat, S # {}
  PROVE  \E m \in S : \A i \in S : m <= i
<1> DEFINE R == {ss \in Nat \X Nat : ss[1] < ss[2]}
<1>1. IsWellFoundedOn(R, Nat)
  BY NatLessThanWellFounded DEF OpToRel
<1> HIDE DEF R
<1>2. PICK m \in S : \A i \in S : ~ (<<i, m>> \in R)
  BY <1>1, WFMin
<1>3. \A i \in S : ~ (i < m)
  BY <1>2 DEF R
<1> QED BY <1>3

\* step gives the value of a function at i from its values before i.
LooksBack(n, S, step) ==
  \A i \in 0..n : \A f, g \in [0..n -> S] : (\A j \in 0..(i - 1) : f[j] = g[j]) => step[i][f] = step[i][g]
IsRecursive(n, S, step, f) == f \in [0..n -> S] /\ \A i \in 0..n : f[i] = step[i][f]

\* A function defined by recursion on 0..n exists.
LEMMA RecursionExists ==
  ASSUME NEW n \in Nat, NEW S, NEW none \in S, NEW step \in [0..n -> [[0..n -> S] -> S]], LooksBack(n, S, step)
  PROVE  \E f : IsRecursive(n, S, step, f)
<1> USE DEF LooksBack
<1> DEFINE Fits(m) == \E f \in [0..n -> S] : \A i \in 0..n : i < m => f[i] = step[i][f]
           Bad == {m \in 0..(n + 1) : ~Fits(m)}
<1>1. Fits(0)
  <2>1. [i \in 0..n |-> none] \in [0..n -> S]
    OBVIOUS
  <2>2. \A i \in 0..n : ~(i < 0)
    OBVIOUS
  <2> QED BY <2>1, <2>2
<1>2. ASSUME NEW m \in 0..n, Fits(m) PROVE Fits(m + 1)
  <2>1. PICK f \in [0..n -> S] : \A i \in 0..n : i < m => f[i] = step[i][f]
    BY <1>2
  <2> DEFINE g == [f EXCEPT ![m] = step[m][f]]
  <2>2. g \in [0..n -> S] /\ \A i \in 0..n : g[i] = IF i = m THEN step[m][f] ELSE f[i]
    OBVIOUS
  <2> HIDE DEF g
  <2>3. ASSUME NEW i \in 0..n, i < m + 1 PROVE g[i] = step[i][g]
    <3>1. \A j \in 0..(i - 1) : f[j] = g[j]
      BY <2>2, <2>3
    <3>2. step[i][f] = step[i][g]
      BY <2>2, <3>1
    <3> QED BY <2>1, <2>2, <2>3, <3>2
  <2> QED BY <2>2, <2>3
<1>3. Bad = {}
  <2> SUFFICES ASSUME Bad # {} PROVE FALSE
    OBVIOUS
  <2>1. PICK m \in Bad : \A i \in Bad : m <= i
    <3>1. Bad \in SUBSET Nat
      OBVIOUS
    <3> HIDE DEF Bad
    <3> QED BY <3>1, LeastElement
  <2> HIDE DEF Fits
  <2>2. m # 0
    BY <1>1
  <2>3. m - 1 \in 0..n /\ m - 1 \notin Bad
    BY <2>1, <2>2
  <2> QED BY <1>2, <2>1, <2>3
<1>4. Fits(n + 1)
  <2> HIDE DEF Fits
  <2> QED BY <1>3
<1> QED BY <1>4 DEF IsRecursive

\* What holds of 0, and of the next number with each, holds of all up to n.
LEMMA UpFromZero ==
  ASSUME NEW n \in Nat, NEW good \in SUBSET (0..n), 0 \in good, \A i \in 0..(n - 1) : i \in good => i + 1 \in good
  PROVE  good = 0..n
<1> DEFINE Bad == (0..n) \ good
<1>1. Bad = {}
  <2> SUFFICES ASSUME Bad # {} PROVE FALSE
    OBVIOUS
  <2>1. PICK m \in Bad : \A i \in Bad : m <= i
    <3>1. Bad \in SUBSET Nat
      OBVIOUS
    <3> HIDE DEF Bad
    <3> QED BY <3>1, LeastElement
  <2>2. m # 0 /\ m - 1 \in 0..(n - 1) /\ m - 1 \notin Bad
    BY <2>1
  <2>3. m - 1 \in good
    BY <2>2
  <2> QED BY <2>1, <2>2, <2>3
<1> QED BY <1>1

\* What holds of each number when it holds of all before it holds of all up to n.
LEMMA UpFromBelow ==
  ASSUME NEW n \in Nat, NEW good \in SUBSET (0..n), \A i \in 0..n : (\A j \in 0..(i - 1) : j \in good) => i \in good
  PROVE  good = 0..n
<1> DEFINE Bad == (0..n) \ good
<1>1. Bad = {}
  <2> SUFFICES ASSUME Bad # {} PROVE FALSE
    OBVIOUS
  <2>1. PICK m \in Bad : \A i \in Bad : m <= i
    <3>1. Bad \in SUBSET Nat
      OBVIOUS
    <3> HIDE DEF Bad
    <3> QED BY <3>1, LeastElement
  <2>2. \A j \in 0..(m - 1) : j \in 0..n /\ j \notin Bad
    BY <2>1
  <2>3. m \in good
    BY <2>1, <2>2
  <2> QED BY <2>1, <2>3
<1> QED BY <1>1

\* One step of keeping the items at places T
Keeping(s, T, i, before) == IF i = 0 THEN <<>> ELSE IF i \in T THEN Append(before, s[i]) ELSE before

LEMMA KeepingExists ==
  ASSUME NEW S, NEW s \in Seq(S), NEW T
  PROVE  \E kept \in [0..Len(s) -> Seq(S)] :
           /\ Only(s, T) = kept[Len(s)]
           /\ \A i \in 0..Len(s) : kept[i] = Keeping(s, T, i, kept[i - 1])
<1> DEFINE n == Len(s)
           step == [i \in 0..n |-> [f \in [0..n -> Seq(S)] |-> Keeping(s, T, i, f[i - 1])]]
           Is(g) == g = [i \in 0..n |-> IF i = 0 THEN <<>> ELSE IF i \in T THEN Append(g[i - 1], s[i]) ELSE g[i - 1]]
<1>1. n \in Nat /\ <<>> \in Seq(S)
  OBVIOUS
<1>2. ASSUME NEW i \in 0..n, NEW f \in [0..n -> Seq(S)]
      PROVE  step[i][f] = Keeping(s, T, i, f[i - 1]) /\ step[i][f] \in Seq(S)
  <2>1. step[i][f] = Keeping(s, T, i, f[i - 1])
    OBVIOUS
  <2>2. CASE i = 0
    BY <2>1, <2>2 DEF Keeping
  <2>3. CASE i # 0
    <3>1. f[i - 1] \in Seq(S) /\ s[i] \in S
      BY <2>3
    <3>2. Append(f[i - 1], s[i]) \in Seq(S)
      BY <3>1
    <3> QED BY <2>1, <2>3, <3>1, <3>2 DEF Keeping
  <2> QED BY <2>2, <2>3
<1>3. step \in [0..n -> [[0..n -> Seq(S)] -> Seq(S)]]
  <2>1. ASSUME NEW i \in 0..n, NEW f \in [0..n -> Seq(S)] PROVE Keeping(s, T, i, f[i - 1]) \in Seq(S)
    BY <1>2
  <2> QED BY <2>1
<1>4. ASSUME NEW i \in 0..n, NEW f \in [0..n -> Seq(S)], NEW g \in [0..n -> Seq(S)], \A j \in 0..(i - 1) : f[j] = g[j]
      PROVE  step[i][f] = step[i][g]
  <2>1. i # 0 => f[i - 1] = g[i - 1]
    BY <1>4
  <2>2. step[i][f] = Keeping(s, T, i, f[i - 1]) /\ step[i][g] = Keeping(s, T, i, g[i - 1])
    BY <1>2
  <2> QED BY <2>1, <2>2 DEF Keeping
<1> HIDE DEF step
<1>5. PICK f : IsRecursive(n, Seq(S), step, f)
  <2>1. LooksBack(n, Seq(S), step)
    BY <1>4 DEF LooksBack
  <2> HIDE DEF n
  <2> QED BY <1>1, <1>3, <2>1, RecursionExists
<1>6. f \in [0..n -> Seq(S)] /\ \A i \in 0..n : f[i] = Keeping(s, T, i, f[i - 1])
  BY <1>2, <1>5 DEF IsRecursive
<1>7. Is(f)
  BY <1>6 DEF Keeping
<1> DEFINE kept == CHOOSE g : Is(g)
<1>8. Is(kept)
  <2> HIDE DEF Is
  <2> QED BY <1>7
<1>9. Only(s, T) = kept[n]
  BY DEF Only
<1>10. kept = f
  <2> DEFINE same == {i \in 0..n : kept[i] = f[i]}
  <2> HIDE DEF kept
  <2>1. \A i \in 0..n : kept[i] = Keeping(s, T, i, kept[i - 1])
    BY <1>8 DEF Keeping
  <2>2. 0 \in same
    BY <2>1, <1>6, <1>1 DEF Keeping
  <2>3. \A i \in 0..(n - 1) : i \in same => i + 1 \in same
    <3> TAKE i \in 0..(n - 1)
    <3> HAVE i \in same
    <3>1. i + 1 \in 0..n /\ (i + 1) - 1 = i /\ kept[i] = f[i]
      BY <1>1
    <3> QED BY <3>1, <2>1, <1>6
  <2>4. same = 0..n
    <3> HIDE DEF same
    <3>1. same \in SUBSET (0..n)
      BY DEF same
    <3> QED BY <3>1, <2>2, <2>3, <1>1, UpFromZero
  <2>5. kept = [i \in 0..n |-> kept[i]]
    BY <1>8
  <2> QED BY <2>4, <2>5
<1> QED BY <1>6, <1>9, <1>10

\* r has the items of s at the places T up to n, in order: at[k] is the place of its k-th.
PicksOut(at, r, s, T, n) ==
  /\ at \in [1..Len(r) -> (1..n) \cap T]
  /\ \A k \in 1..Len(r) : r[k] = s[at[k]]
  /\ \A j, k \in 1..Len(r) : j < k => at[j] < at[k]
  /\ \A i \in (1..n) \cap T : \E k \in 1..Len(r) : at[k] = i

\* Only keeps the items at the places T, each once and in order.
LEMMA OnlyIs ==
  ASSUME NEW S, NEW s \in Seq(S), NEW T
  PROVE  Only(s, T) \in Seq(S) /\ \E at : PicksOut(at, Only(s, T), s, T, Len(s))
<1>1. PICK kept \in [0..Len(s) -> Seq(S)] :
        Only(s, T) = kept[Len(s)] /\ \A i \in 0..Len(s) : kept[i] = Keeping(s, T, i, kept[i - 1])
  BY KeepingExists
<1> DEFINE n == Len(s)
           good == {i \in 0..n : \E at : PicksOut(at, kept[i], s, T, i)}
<1>2. n \in Nat
  OBVIOUS
<1>3. 0 \in good
  <2>1. kept[0] = <<>>
    BY <1>1, <1>2 DEF Keeping
  <2>2. PicksOut(<<>>, kept[0], s, T, 0)
    BY <2>1 DEF PicksOut
  <2> QED BY <2>2, <1>2
<1>4. ASSUME NEW i \in 0..(n - 1), i \in good PROVE i + 1 \in good
  <2>1. PICK at : PicksOut(at, kept[i], s, T, i)
    BY <1>4
  <2>2. i + 1 \in 0..n /\ i \in 0..n /\ i \in Nat /\ kept[i] \in Seq(S) /\ s[i + 1] \in S /\ kept[i + 1] = Keeping(s, T, i + 1, kept[i])
    <3>1. i + 1 \in 1..n /\ i \in 0..n /\ i \in Nat /\ (i + 1) - 1 = i
      BY <1>2
    <3>2. i + 1 \in 0..n /\ s[i + 1] \in S
      BY <3>1
    <3>3. kept[i + 1] = Keeping(s, T, i + 1, kept[(i + 1) - 1])
      BY <1>1, <3>2
    <3> QED BY <1>1, <3>1, <3>2, <3>3
  <2>5. \A l \in 1..(i + 1) : l = i + 1 \/ l \in 1..i
    BY <2>2
  <2>6. \A l \in 1..i : l \in 1..(i + 1)
    BY <2>2
  <2> HIDE DEF n
  <2> DEFINE m == Len(kept[i])
  <2>3. CASE i + 1 \notin T
    <3>1. kept[i + 1] = kept[i]
      BY <2>2, <2>3 DEF Keeping
    <3>2. (1..(i + 1)) \cap T = (1..i) \cap T
      BY <2>3, <2>5, <2>6
    <3>3. PicksOut(at, kept[i], s, T, i + 1)
      BY <2>1, <3>2 DEF PicksOut
    <3> QED BY <2>2, <3>1, <3>3
  <2>4. CASE i + 1 \in T
    <3>1. kept[i + 1] = Append(kept[i], s[i + 1])
      BY <2>2, <2>4 DEF Keeping
    <3>2. m \in Nat /\ Len(kept[i + 1]) = m + 1 /\ kept[i + 1][m + 1] = s[i + 1] /\ \A k \in 1..m : kept[i + 1][k] = kept[i][k]
      BY <2>2, <3>1
    <3> DEFINE more == [k \in 1..(m + 1) |-> IF k = m + 1 THEN i + 1 ELSE at[k]]
    <3>3. \A k \in 1..m : more[k] = at[k] /\ at[k] \in (1..i) \cap T /\ k \in 1..(m + 1)
      <4>1. \A k \in 1..m : k # m + 1 /\ k \in 1..(m + 1)
        BY <3>2
      <4>2. \A k \in 1..m : at[k] \in (1..i) \cap T
        BY <2>1 DEF PicksOut
      <4> QED BY <4>1, <4>2
    <3>4. more[m + 1] = i + 1
      BY <3>2
    <3>5. \A k \in 1..(m + 1) : k = m + 1 \/ k \in 1..m
      BY <3>2
    <3>6. more \in [1..(m + 1) -> (1..(i + 1)) \cap T]
      <4>1. i + 1 \in 1..(i + 1)
        BY <2>2
      <4>2. \A k \in 1..(m + 1) : (IF k = m + 1 THEN i + 1 ELSE at[k]) \in (1..(i + 1)) \cap T
        BY <2>4, <2>6, <3>3, <3>5, <4>1
      <4> QED BY <4>2
    <3> HIDE DEF more
    <3>7. \A k \in 1..(m + 1) : kept[i + 1][k] = s[more[k]]
      BY <2>1, <3>2, <3>3, <3>4, <3>5 DEF PicksOut
    <3>8. \A j, k \in 1..(m + 1) : j < k => more[j] < more[k]
      <4> TAKE j, k \in 1..(m + 1)
      <4> HAVE j < k
      <4>1. j \in 1..m
        BY <3>2
      <4>2. CASE k = m + 1
        BY <2>2, <3>3, <3>4, <4>1, <4>2
      <4>3. CASE k \in 1..m
        BY <2>1, <3>3, <4>1, <4>3 DEF PicksOut
      <4> QED BY <3>5, <4>2, <4>3
    <3>9. \A l \in (1..(i + 1)) \cap T : \E k \in 1..(m + 1) : more[k] = l
      <4> TAKE l \in (1..(i + 1)) \cap T
      <4>1. CASE l = i + 1
        BY <3>2, <3>4, <4>1
      <4>2. CASE l \in 1..i
        <5>1. \E k \in 1..m : at[k] = l
          BY <2>1, <4>2 DEF PicksOut
        <5> QED BY <3>3, <5>1
      <4> QED BY <2>5, <4>1, <4>2
    <3>10. PicksOut(more, kept[i + 1], s, T, i + 1)
      BY <3>2, <3>6, <3>7, <3>8, <3>9 DEF PicksOut
    <3> QED BY <2>2, <3>10
  <2> QED BY <2>3, <2>4
<1>5. good = 0..n
  <2>1. good \in SUBSET (0..n)
    OBVIOUS
  <2> HIDE DEF good, n
  <2> QED BY <1>2, <1>3, <1>4, <2>1, UpFromZero
<1>6. n \in good
  BY <1>2, <1>5
<1> QED BY <1>1, <1>6

\* What may be said of Only without the places
KeptFrom(r, S, s, T) ==
  /\ r \in Seq(S)
  /\ \A k \in 1..Len(r) : \E i \in (1..Len(s)) \cap T : r[k] = s[i]
  /\ \A i \in (1..Len(s)) \cap T : \E k \in 1..Len(r) : r[k] = s[i]
  /\ IsInjective(s) => IsInjective(r)

\* Only keeps all the items at the places T, no others, and none twice.
COROLLARY OnlyItems ==
  ASSUME NEW S, NEW s \in Seq(S), NEW T
  PROVE  KeptFrom(Only(s, T), S, s, T)
<1>1. PICK at : PicksOut(at, Only(s, T), s, T, Len(s))
  BY OnlyIs
<1>2. Only(s, T) \in Seq(S)
  BY OnlyIs
<1>3. ASSUME IsInjective(s) PROVE IsInjective(Only(s, T))
  <2> SUFFICES ASSUME NEW j \in 1..Len(Only(s, T)), NEW k \in 1..Len(Only(s, T)), Only(s, T)[j] = Only(s, T)[k] PROVE j = k
    BY <1>2 DEF IsInjective
  <2>1. s[at[j]] = s[at[k]] /\ at[j] \in 1..Len(s) /\ at[k] \in 1..Len(s)
    BY <1>1 DEF PicksOut
  <2>2. at[j] = at[k]
    BY <1>3, <2>1 DEF IsInjective
  <2> QED BY <1>1, <1>2, <2>2 DEF PicksOut
<1> QED BY <1>1, <1>2, <1>3 DEF PicksOut, KeptFrom

\* SetToSeq lists each member of a finite set once.
LEMMA SetToSeqIs ==
  ASSUME NEW S, IsFiniteSet(S)
  PROVE  /\ SetToSeq(S) \in Seq(S) /\ Len(SetToSeq(S)) = Cardinality(S)
         /\ IsInjective(SetToSeq(S)) /\ Range(SetToSeq(S)) = S
<1> DEFINE n == Cardinality(S)
           f == SetToSeq(S)
<1>1. n \in Nat
  BY FS_CardinalityType
<1>2. \E g \in [1..n -> S] : IsInjective(g)
  <2>1. ExistsBijection(1..n, S)
    BY FS_NatBijection, FS_CountingElements, FS_CardinalityType
  <2>2. PICK g \in [1..n -> S] : \A a, b \in 1..n : g[a] = g[b] => a = b
    BY <2>1 DEF ExistsBijection, Bijection, Injection, IsInjective
  <2> QED BY <2>2 DEF IsInjective
<1>3. f \in [1..n -> S] /\ IsInjective(f)
  BY <1>2 DEF SetToSeq
<1>4. f \in Seq(S) /\ Len(f) = n
  BY <1>1, <1>3
<1>5. \A x \in S : \E k \in 1..n : f[k] = x
  <2> SUFFICES ASSUME NEW x \in S, \A k \in 1..n : f[k] # x PROVE FALSE
    OBVIOUS
  <2> HIDE DEF f
  <2>1. f \in [1..n -> S \ {x}]
    BY <1>3
  <2>2. IsFiniteSet(S \ {x}) /\ Cardinality(S \ {x}) = n - 1
    BY FS_RemoveElement
  <2>3. IsFiniteSet(1..n) /\ Cardinality(1..n) = n
    BY <1>1, FS_Interval
  <2>4. \E i, j \in 1..n : i # j /\ f[i] = f[j]
    BY <1>1, <2>1, <2>2, <2>3, FS_PigeonHole
  <2> QED BY <1>3, <2>4 DEF IsInjective
<1> QED BY <1>3, <1>4, <1>5 DEF Range

\* A set of numbers that is bounded and not empty has a greatest one, which is what Max gives.
LEMMA MaxIs ==
  ASSUME NEW n \in Nat, NEW S \in SUBSET (0..n), S # {}
  PROVE  Max(S) \in S /\ \A x \in S : x <= Max(S)
<1> DEFINE Above == {m \in Nat : \A x \in S : x <= m}
<1>2. PICK m \in Above : \A k \in Above : m <= k
  <2>1. Above \in SUBSET Nat /\ n \in Above
    OBVIOUS
  <2> HIDE DEF Above
  <2> QED BY <2>1, LeastElement
<1>3. m \in S
  <2> SUFFICES ASSUME m \notin S PROVE FALSE
    OBVIOUS
  <2>1. \A x \in S : x <= m - 1 /\ m - 1 \in Nat
    BY <1>2
  <2>2. m - 1 \in Above
    BY <2>1
  <2> QED BY <1>2, <2>2
<1>4. \E x \in S : \A y \in S : x >= y
  BY <1>2, <1>3
<1> QED BY <1>4 DEF Max

\* The same of the least number of a set
LEMMA MinIs ==
  ASSUME NEW S \in SUBSET Nat, S # {}
  PROVE  Min(S) \in S /\ \A x \in S : Min(S) <= x
<1>1. \E x \in S : \A y \in S : x <= y
  BY LeastElement
<1> QED BY <1>1 DEF Min

\* The lesser of two numbers is one of them and not more than either.
LEMMA MinOfTwo ==
  ASSUME NEW a \in Int, NEW b \in Int
  PROVE  Min({a, b}) \in {a, b} /\ Min({a, b}) <= a /\ Min({a, b}) <= b
<1>1. \E x \in {a, b} : \A y \in {a, b} : x <= y
  <2>1. CASE a <= b
    BY <2>1
  <2>2. CASE b <= a
    BY <2>2
  <2> QED BY <2>1, <2>2
<1> QED BY <1>1 DEF Min

\* The greater of two numbers
LEMMA MaxOfTwo ==
  ASSUME NEW a \in Int, NEW b \in Int
  PROVE  Max({a, b}) = IF a >= b THEN a ELSE b
<1>1. Max({a, b}) \in {a, b} /\ Max({a, b}) >= a /\ Max({a, b}) >= b
  <2>1. \E x \in {a, b} : \A y \in {a, b} : x >= y
    <3>1. CASE a >= b
      BY <3>1
    <3>2. CASE b >= a
      BY <3>2
    <3> QED BY <3>1, <3>2
  <2> QED BY <2>1 DEF Max
<1> QED BY <1>1

\* The first items of a sequence
LEMMA UptoIs ==
  ASSUME NEW S, NEW s \in Seq(S), NEW n \in Nat
  PROVE  /\ Upto(s, n) \in Seq(S) /\ Len(Upto(s, n)) <= n /\ Len(Upto(s, n)) <= Len(s)
         /\ \A k \in 1..Len(Upto(s, n)) : Upto(s, n)[k] = s[k]
         /\ Range(Upto(s, n)) \subseteq Range(s)
<1>1. Len(s) \in Nat /\ n \in Int
  OBVIOUS
<1>2. PICK m \in Nat : m = Min({n, Len(s)}) /\ m <= n /\ m <= Len(s)
  <2>1. PICK l \in Nat : l = Len(s)
    BY <1>1
  <2>0. l \in Int
    BY <2>1
  <2>2. Min({n, l}) \in {n, l} /\ Min({n, l}) <= n /\ Min({n, l}) <= l
    BY <1>1, <2>0, MinOfTwo, Zenon
  <2>3. Min({n, l}) \in Nat
    BY <2>1, <2>2
  <2> QED BY <2>1, <2>2, <2>3
<1>3. PICK t : t = Upto(s, n)
  OBVIOUS
<1>4. t = SubSeq(s, 1, m)
  BY <1>2, <1>3 DEF Upto
<1>5. t \in Seq(S) /\ Len(t) = m /\ \A k \in 1..m : t[k] = s[k]
  <2>1. \A k \in 1..m : s[k] \in S
    BY <1>1, <1>2
  <2>2. t = [k \in 1..m |-> s[k]]
    BY <1>1, <1>2, <1>4
  <2> QED BY <2>1, <2>2
<1>6. Range(t) \subseteq Range(s)
  <2>1. \A k \in 1..m : k \in 1..Len(s)
    BY <1>1, <1>2
  <2>2. DOMAIN t = 1..m /\ DOMAIN s = 1..Len(s)
    BY <1>2, <1>5
  <2> QED BY <1>5, <2>1, <2>2 DEF Range
<1> QED BY <1>2, <1>3, <1>5, <1>6

-----------------------------------------------------------------------------
\* Pieces of a sequence

\* From one place to another, both in it
LEMMA PartIs ==
  ASSUME NEW S, NEW s \in Seq(S), NEW m \in 1..Len(s), NEW n \in m..Len(s)
  PROVE  SubSeq(s, m, n) \in Seq(S) /\ Len(SubSeq(s, m, n)) = n - m + 1 /\ \A i \in 1..(n - m + 1) : SubSeq(s, m, n)[i] = s[m + i - 1]
<1>1. m \in Int /\ n \in Int /\ m <= n /\ \A i \in m..n : s[i] \in S
  OBVIOUS
<1> QED BY <1>1, SubSeqProperties

\* A piece of a piece is a piece.
LEMMA PartOfPart ==
  ASSUME NEW S, NEW s \in Seq(S), NEW m \in 1..Len(s), NEW n \in m..Len(s), NEW a \in 1..(n - m + 1), NEW b \in a..(n - m + 1)
  PROVE  SubSeq(SubSeq(s, m, n), a, b) = SubSeq(s, m + a - 1, m + b - 1)
<1>1. PICK t : t = SubSeq(s, m, n) /\ t \in Seq(S) /\ Len(t) = n - m + 1 /\ \A i \in 1..(n - m + 1) : t[i] = s[m + i - 1]
  <2>1. SubSeq(s, m, n) \in Seq(S) /\ Len(SubSeq(s, m, n)) = n - m + 1 /\ \A i \in 1..(n - m + 1) : SubSeq(s, m, n)[i] = s[m + i - 1]
    BY PartIs
  <2> QED BY <2>1, Zenon
<1>2. PICK c, e : c = m + a - 1 /\ e = m + b - 1 /\ c \in 1..Len(s) /\ e \in c..Len(s) /\ a \in 1..Len(t) /\ b \in a..Len(t)
  BY <1>1
<1>3. PICK u : u = SubSeq(t, a, b) /\ u \in Seq(S) /\ Len(u) = b - a + 1 /\ \A i \in 1..(b - a + 1) : u[i] = t[a + i - 1]
  <2>1. SubSeq(t, a, b) \in Seq(S) /\ Len(SubSeq(t, a, b)) = b - a + 1 /\ \A i \in 1..(b - a + 1) : SubSeq(t, a, b)[i] = t[a + i - 1]
    <3>1. t \in Seq(S) /\ a \in 1..Len(t) /\ b \in a..Len(t)
      BY <1>1, <1>2
    <3> QED BY <3>1, PartIs
  <2> QED BY <2>1, Zenon
<1>4. PICK v : v = SubSeq(s, c, e) /\ v \in Seq(S) /\ Len(v) = e - c + 1 /\ \A i \in 1..(e - c + 1) : v[i] = s[c + i - 1]
  <2>1. SubSeq(s, c, e) \in Seq(S) /\ Len(SubSeq(s, c, e)) = e - c + 1 /\ \A i \in 1..(e - c + 1) : SubSeq(s, c, e)[i] = s[c + i - 1]
    <3>1. c \in 1..Len(s) /\ e \in c..Len(s)
      BY <1>2
    <3> QED BY <3>1, PartIs
  <2> QED BY <2>1, Zenon
<1>5. Len(v) = b - a + 1 /\ \A i \in 1..(b - a + 1) : v[i] = u[i]
  <2>1. e - c + 1 = b - a + 1
    BY <1>2
  <2>2. ASSUME NEW i \in 1..(b - a + 1) PROVE v[i] = u[i]
    <3>1. v[i] = s[c + i - 1] /\ u[i] = t[a + i - 1]
      BY <1>3, <1>4, <2>1
    <3>2. a + i - 1 \in 1..(n - m + 1) /\ m + (a + i - 1) - 1 = c + i - 1
      BY <1>2
    <3> QED BY <1>1, <3>1, <3>2
  <2> QED BY <1>4, <2>1, <2>2
<1> QED BY <1>1, <1>2, <1>3, <1>4, <1>5

-----------------------------------------------------------------------------
\* Sequences without repetition: one item more, one less, and one after the other

LEMMA OneMore ==
  ASSUME NEW S, NEW s \in Seq(S), NEW x \in S
  PROVE  /\ Range(Append(s, x)) = Range(s) \cup {x}
         /\ IsInjective(s) /\ x \notin Range(s) => IsInjective(Append(s, x))
<1> DEFINE n == Len(s)
           t == Append(s, x)
<1>1. n \in Nat /\ DOMAIN s = 1..n /\ DOMAIN t = 1..(n + 1) /\ (\A i \in 1..n : t[i] = s[i]) /\ t[n + 1] = x
  OBVIOUS
<1> HIDE DEF n, t
<1>2. \A i \in 1..(n + 1) : i \in 1..n \/ i = n + 1
  BY <1>1
<1>3. \A i \in 1..n : i \in 1..(n + 1)
  BY <1>1
<1>4. n + 1 \in 1..(n + 1)
  BY <1>1
<1>5. \A y : y \in Range(t) <=> y \in Range(s) \cup {x}
  BY <1>1, <1>2, <1>3, <1>4 DEF Range
<1>6. IsInjective(s) /\ x \notin Range(s) => IsInjective(t)
  BY <1>1, <1>2 DEF IsInjective, Range
<1> QED BY <1>5, <1>6 DEF t

LEMMA OneLess ==
  ASSUME NEW S, NEW s \in Seq(S), s # <<>>
  PROVE  /\ Head(s) \in Range(s) /\ Range(Tail(s)) \subseteq Range(s)
         /\ IsInjective(s) => IsInjective(Tail(s)) /\ Head(s) \notin Range(Tail(s))
<1> DEFINE n == Len(s)
           t == Tail(s)
<1>1. n \in Nat \ {0} /\ DOMAIN s = 1..n /\ DOMAIN t = 1..(n - 1) /\ (\A i \in 1..(n - 1) : t[i] = s[i + 1]) /\ Head(s) = s[1]
  OBVIOUS
<1> HIDE DEF n, t
<1>2. 1 \in 1..n /\ \A i \in 1..(n - 1) : i + 1 \in 1..n /\ i + 1 # 1
  BY <1>1
<1>3. Head(s) \in Range(s) /\ Range(t) \subseteq Range(s)
  BY <1>1, <1>2 DEF Range
<1>4. ASSUME IsInjective(s) PROVE IsInjective(t) /\ Head(s) \notin Range(t)
  <2>1. \A i, j \in 1..n : s[i] = s[j] => i = j
    BY <1>1, <1>4 DEF IsInjective
  <2>2. ASSUME NEW i \in 1..(n - 1), NEW j \in 1..(n - 1), t[i] = t[j] PROVE i = j
    <3>1. s[i + 1] = s[j + 1] /\ i + 1 \in 1..n /\ j + 1 \in 1..n
      BY <1>1, <1>2, <2>2
    <3>2. i + 1 = j + 1
      BY <2>1, <3>1
    <3> QED BY <1>1, <3>2
  <2>3. ASSUME NEW i \in 1..(n - 1) PROVE t[i] # s[1]
    <3>1. t[i] = s[i + 1] /\ i + 1 \in 1..n /\ i + 1 # 1
      BY <1>1, <1>2
    <3> QED BY <1>2, <2>1, <3>1
  <2> QED BY <1>1, <2>2, <2>3 DEF IsInjective, Range
<1> QED BY <1>3, <1>4 DEF t

LEMMA OneAfterTheOther ==
  ASSUME NEW S, NEW s \in Seq(S), NEW t \in Seq(S)
  PROVE  /\ Range(s \o t) = Range(s) \cup Range(t)
         /\ IsInjective(s) /\ IsInjective(t) /\ Range(s) \cap Range(t) = {} => IsInjective(s \o t)
<1> DEFINE m == Len(s)
           n == Len(t)
           u == s \o t
<1>1. /\ m \in Nat /\ n \in Nat /\ DOMAIN s = 1..m /\ DOMAIN t = 1..n /\ DOMAIN u = 1..(m + n)
      /\ \A i \in 1..(m + n) : u[i] = IF i <= m THEN s[i] ELSE t[i - m]
  OBVIOUS
<1> HIDE DEF m, n, u
<1>2. \A i \in 1..(m + n) : (i \in 1..m /\ u[i] = s[i]) \/ (i > m /\ i - m \in 1..n /\ u[i] = t[i - m])
  BY <1>1
<1>3. \A i \in 1..m : i \in 1..(m + n) /\ u[i] = s[i]
  BY <1>1
<1>4. \A i \in 1..n : m + i \in 1..(m + n) /\ u[m + i] = t[i]
  BY <1>1
<1>r. /\ \A y : y \in Range(s) <=> \E i \in 1..m : s[i] = y
      /\ \A y : y \in Range(t) <=> \E i \in 1..n : t[i] = y
      /\ \A y : y \in Range(u) <=> \E i \in 1..(m + n) : u[i] = y
  <2>1. \A y : y \in Range(s) <=> \E i \in 1..m : s[i] = y
    BY <1>1 DEF Range
  <2>2. \A y : y \in Range(t) <=> \E i \in 1..n : t[i] = y
    BY <1>1 DEF Range
  <2>3. \A y : y \in Range(u) <=> \E i \in 1..(m + n) : u[i] = y
    BY <1>1 DEF Range
  <2> QED BY <2>1, <2>2, <2>3
<1>5. \A y : y \in Range(u) <=> y \in Range(s) \cup Range(t)
  <2>1. ASSUME NEW y \in Range(u) PROVE y \in Range(s) \cup Range(t)
    BY <1>2, <1>r, <2>1
  <2>2. ASSUME NEW y \in Range(s) PROVE y \in Range(u)
    BY <1>3, <1>r, <2>2
  <2>3. ASSUME NEW y \in Range(t) PROVE y \in Range(u)
    BY <1>4, <1>r, <2>3
  <2> QED BY <2>1, <2>2, <2>3
<1>6. ASSUME IsInjective(s), IsInjective(t), Range(s) \cap Range(t) = {} PROVE IsInjective(u)
  <2>1. (\A i, j \in 1..m : s[i] = s[j] => i = j) /\ (\A i, j \in 1..n : t[i] = t[j] => i = j) /\ \A i \in 1..m, j \in 1..n : s[i] # t[j]
    <3>1. \A i \in 1..m, j \in 1..n : s[i] # t[j]
      BY <1>6, <1>r
    <3> QED BY <1>1, <1>6, <3>1 DEF IsInjective
  <2>2. ASSUME NEW i \in 1..(m + n), NEW j \in 1..(m + n), u[i] = u[j] PROVE i = j
    <3>1. CASE i \in 1..m /\ j \in 1..m
      BY <1>3, <2>1, <2>2, <3>1
    <3>2. CASE i - m \in 1..n /\ j - m \in 1..n /\ i > m /\ j > m
      <4>1. t[i - m] = t[j - m]
        BY <1>1, <2>2, <3>2
      <4>2. i - m = j - m
        BY <2>1, <3>2, <4>1
      <4> QED BY <1>1, <4>2
    <3> QED BY <1>2, <2>1, <2>2, <3>1, <3>2
  <2> QED BY <1>1, <2>2 DEF IsInjective
<1> QED BY <1>5, <1>6 DEF u
=============================================================================
