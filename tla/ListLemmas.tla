------------------------------- MODULE ListLemmas ------------------------------
(***************************************************************************)
(* Lemmas about the operators on lists that the models use: what           *)
(* FlattenSeq yields, and that finite sets can be put in order.  They rest *)
(* on induction in the form of a lemma about sets of numbers.              *)
(***************************************************************************)
EXTENDS SequencesExt, SequenceTheorems, FiniteSetTheorems, WellFoundedInduction, TLAPS

-------------------------------------------------------------------------------
(* Induction.                                                              *)

LEMMA LeastNumber ==
    ASSUME NEW S \in SUBSET Nat, S # {}
    PROVE  \E n \in S : \A m \in S : n <= m
<1> DEFINE less == OpToRel(<, Nat)
<1>1. less = {p \in Nat \X Nat : p[1] < p[2]}
  BY DEF OpToRel
<1>2. IsWellFoundedOn(less, Nat)
  BY NatLessThanWellFounded
<1> HIDE DEF less
<1>3. PICK n \in S : \A m \in S : ~(<<m, n>> \in less)
  BY <1>2, WFMin
<1>4. \A m \in S : ~(m < n)
  BY <1>1, <1>3
<1> QED BY <1>4

(* A set that has 0 and with each number the next has every number. *)
LEMMA Induction ==
    ASSUME NEW S, 0 \in S, \A n \in Nat : n \in S => n + 1 \in S
    PROVE  \A n \in Nat : n \in S
<1> DEFINE Bad == {n \in Nat : n \notin S}
<1> SUFFICES ASSUME Bad # {} PROVE FALSE
  OBVIOUS
<1>1. PICK n \in Bad : \A m \in Bad : n <= m
  BY LeastNumber
<1>2. n \in Nat /\ n # 0 /\ n - 1 \in Nat
  BY <1>1
<1>3. n - 1 \notin Bad
  BY <1>1, <1>2
<1> QED BY <1>1, <1>2, <1>3

-------------------------------------------------------------------------------
(* FlattenSeq.                                                             *)

(* Its recursion: at each place, what comes from the lists up to there. *)
Joins(seqs, n, f) ==
    f = [i \in 1..n |-> IF i = 1 THEN seqs[i] ELSE f[i - 1] \o seqs[i]]

LEMMA JoinsExist ==
    ASSUME NEW seqs, NEW n \in Nat
    PROVE  \E f : Joins(seqs, n, f)
<1> DEFINE S == {m \in Nat : \E f : Joins(seqs, m, f)}
<1>1. 0 \in S
  <2>1. Joins(seqs, 0, [i \in 1..0 |-> 0])
    BY DEF Joins
  <2> QED BY <2>1
<1>2. ASSUME NEW m \in Nat, m \in S PROVE m + 1 \in S
  <2>1. PICK f : Joins(seqs, m, f)
    BY <1>2
  <2> DEFINE last == IF m + 1 = 1 THEN seqs[m + 1] ELSE f[m] \o seqs[m + 1]
             g == [i \in 1..(m + 1) |-> IF i = m + 1 THEN last ELSE f[i]]
             e(i) == IF i = 1 THEN seqs[i] ELSE g[i - 1] \o seqs[i]
  <2>2. ASSUME NEW i \in 1..(m + 1) PROVE g[i] = e(i)
    <3>1. CASE i = m + 1
      BY <3>1
    <3>2. CASE i # m + 1
      <4>1. i \in 1..m /\ g[i] = f[i]
        BY <3>2
      <4>2. f[i] = IF i = 1 THEN seqs[i] ELSE f[i - 1] \o seqs[i]
        BY <2>1, <4>1 DEF Joins
      <4>3. i # 1 => g[i - 1] = f[i - 1]
        BY <4>1
      <4> QED BY <4>1, <4>2, <4>3
    <3> QED BY <3>1, <3>2
  <2>3. g = [i \in 1..(m + 1) |-> e(i)]
    <3> HIDE DEF e
    <3> QED BY <2>2
  <2>4. Joins(seqs, m + 1, g)
    BY <2>3 DEF Joins
  <2> HIDE DEF g
  <2> QED BY <2>4
<1>3. n \in S
  <2> HIDE DEF S
  <2> QED BY <1>1, <1>2, Induction
<1> QED BY <1>3

LEMMA FlattenByJoins ==
    ASSUME NEW seqs, Len(seqs) \in Nat, Len(seqs) # 0
    PROVE  \E f : Joins(seqs, Len(seqs), f) /\ FlattenSeq(seqs) = f[Len(seqs)]
<1>1. \E f : Joins(seqs, Len(seqs), f)
  BY JoinsExist
<1> DEFINE flat == CHOOSE f : Joins(seqs, Len(seqs), f)
<1>2. Joins(seqs, Len(seqs), flat)
  BY <1>1
<1>3. FlattenSeq(seqs) = flat[Len(seqs)]
  BY DEF FlattenSeq, Joins
<1> QED BY <1>2, <1>3

LEMMA FlattenEmpty == FlattenSeq(<<>>) = <<>>
BY EmptySeq DEF FlattenSeq

(* A list cut into consecutive parts is the parts, one after another. *)
LEMMA CutsJoin ==
    ASSUME NEW X, NEW rows \in Seq(X), NEW n \in Nat, n > 0,
           NEW cut \in [0..n -> 0..Len(rows)],
           cut[0] = 0, cut[n] = Len(rows), \A i \in 1..n : cut[i - 1] <= cut[i],
           NEW parts, parts = [i \in 1..n |-> SubSeq(rows, cut[i - 1] + 1, cut[i])]
    PROVE  FlattenSeq(parts) = rows
<1>1. Len(parts) = n /\ n # 0 /\ Len(rows) \in Nat
  BY LenProperties
<1>2. PICK f : Joins(parts, n, f) /\ FlattenSeq(parts) = f[n]
  <2>1. Len(parts) \in Nat /\ Len(parts) # 0
    BY <1>1
  <2>2. \E f : Joins(parts, Len(parts), f) /\ FlattenSeq(parts) = f[Len(parts)]
    BY <2>1, FlattenByJoins
  <2> QED BY <1>1, <2>2
<1> DEFINE Right(k) == f[k] = SubSeq(rows, 1, cut[k])
           S == {k \in Nat : k + 1 \in 1..n => Right(k + 1)}
<1>3. 0 \in S
  <2>1. f[1] = parts[1]
    BY <1>2 DEF Joins
  <2>2. parts[1] = SubSeq(rows, 1, cut[1])
    BY <1>1
  <2>3. Right(1)
    BY <2>1, <2>2
  <2> HIDE DEF Right
  <2> QED BY <2>3
<1>4. ASSUME NEW k \in Nat, k \in S PROVE k + 1 \in S
  <2> SUFFICES ASSUME k + 2 \in 1..n PROVE Right(k + 2)
    <3>1. (k + 1) + 1 = k + 2
      OBVIOUS
    <3> HIDE DEF Right
    <3> QED BY <3>1
  <2>1. k + 1 \in 1..n /\ k + 2 # 1 /\ k + 1 \in 0..n /\ k + 2 \in 0..n /\ (k + 2) - 1 = k + 1
    OBVIOUS
  <2>2. f[k + 1] = SubSeq(rows, 1, cut[k + 1])
    BY <1>4, <2>1
  <2>3. f[k + 2] = f[k + 1] \o parts[k + 2]
    BY <1>2, <2>1 DEF Joins
  <2>4. parts[k + 2] = SubSeq(rows, cut[k + 1] + 1, cut[k + 2])
    BY <2>1
  <2>5. /\ cut[k + 1] \in 0..Len(rows) /\ cut[k + 2] \in 0..Len(rows)
        /\ cut[k + 1] <= cut[k + 2]
    BY <2>1
  <2>6. SubSeq(rows, 1, cut[k + 1]) \o SubSeq(rows, cut[k + 1] + 1, cut[k + 2])
          = SubSeq(rows, 1, cut[k + 2])
    <3>1. /\ 1 \in 1..(Len(rows) + 1) /\ cut[k + 1] \in (1 - 1)..Len(rows)
          /\ cut[k + 2] \in cut[k + 1]..Len(rows)
      BY <1>1, <2>5
    <3> QED BY <3>1, ConcatAdjacentSubSeq
  <2> QED BY <2>2, <2>3, <2>4, <2>6
<1>5. n - 1 \in S
  <2>1. n - 1 \in Nat
    OBVIOUS
  <2> HIDE DEF S
  <2> QED BY <1>3, <1>4, <2>1, Induction
<1>6. f[n] = SubSeq(rows, 1, Len(rows))
  <2>1. (n - 1) + 1 = n
    OBVIOUS
  <2>2. Right(n)
    <3> HIDE DEF Right
    <3> QED BY <1>5, <2>1
  <2> QED BY <2>2
<1> QED BY <1>2, <1>6, SubSeqFull

(* What the join of lists that are not empty tells of them: it is as long  *)
(* as there are lists exactly when each has one element, which is then the *)
(* element at its place.                                                   *)
LEMMA PartsJoined ==
    ASSUME NEW X, NEW n \in Nat, NEW parts \in [1..n -> Seq(X)],
           \A i \in 1..n : parts[i] # <<>>
    PROVE  LET whole == FlattenSeq(parts) IN
           /\ whole \in Seq(X) /\ Len(whole) >= n
           /\ Len(whole) = n <=> \A i \in 1..n : Len(parts[i]) = 1
           /\ Len(whole) = n => \A i \in 1..n : whole[i] = parts[i][1]
<1> DEFINE Tells(k, whole) ==
             /\ whole \in Seq(X) /\ Len(whole) >= k
             /\ Len(whole) = k <=> \A i \in 1..k : Len(parts[i]) = 1
             /\ Len(whole) = k => \A i \in 1..k : whole[i] = parts[i][1]
<1> SUFFICES Tells(n, FlattenSeq(parts))
  OBVIOUS
<1>1. Len(parts) = n
  OBVIOUS
<1>2. \A i \in 1..n : parts[i] \in Seq(X) /\ Len(parts[i]) \in Nat /\ Len(parts[i]) >= 1
  BY EmptySeq, LenProperties
<1>3. CASE n = 0
  <2>1. parts = <<>>
    BY <1>3
  <2>2. FlattenSeq(parts) = <<>> /\ <<>> \in Seq(X) /\ Len(<<>>) = 0
    BY <2>1, FlattenEmpty, EmptySeq
  <2> QED BY <1>3, <2>2
<1>4. CASE n # 0
  <2>1. PICK f : Joins(parts, n, f) /\ FlattenSeq(parts) = f[n]
    BY <1>1, <1>4, FlattenByJoins
  <2> DEFINE S == {k \in Nat : k + 1 \in 1..n => Tells(k + 1, f[k + 1])}
  <2>2. 0 \in S
    <3>1. 1 \in 1..n /\ f[1] = parts[1]
      BY <1>4, <2>1 DEF Joins
    <3> QED BY <1>2, <3>1
  <2>3. ASSUME NEW k \in Nat, k \in S PROVE k + 1 \in S
    <3> SUFFICES ASSUME k + 2 \in 1..n PROVE Tells(k + 2, f[k + 2])
      OBVIOUS
    <3> DEFINE s == f[k + 1]
               t == parts[k + 2]
    <3>1. k + 1 \in 1..n /\ k + 2 # 1 /\ (k + 2) - 1 = k + 1
      OBVIOUS
    <3>2. Tells(k + 1, s)
      BY <2>3, <3>1
    <3>3. f[k + 2] = s \o t
      BY <2>1, <3>1 DEF Joins
    <3>4. t \in Seq(X) /\ Len(t) \in Nat /\ Len(t) >= 1 /\ Len(s) \in Nat
      BY <1>2, <3>2, LenProperties
    <3>5. /\ s \o t \in Seq(X) /\ Len(s \o t) = Len(s) + Len(t)
          /\ \A i \in 1..Len(s) + Len(t) : (s \o t)[i] = IF i <= Len(s) THEN s[i] ELSE t[i - Len(s)]
      BY <3>2, <3>4, ConcatProperties
    <3> DEFINE w == s \o t
    <3> HIDE DEF s, t, w
    <3>6. Len(w) >= k + 2
      BY <3>2, <3>4, <3>5 DEF w
    <3>7. Len(w) = k + 2 <=> Len(s) = k + 1 /\ Len(t) = 1
      <4>1. Len(w) = Len(s) + Len(t) /\ Len(s) >= k + 1
        BY <3>2, <3>5 DEF w
      <4>2. Len(s) \in Int /\ Len(t) \in Int /\ Len(t) >= 1
        BY <3>4 DEF s, t
      <4> HIDE DEF Tells
      <4>3. \A a, b, c \in Int : c = a + b /\ a >= k + 1 /\ b >= 1
                                  => (c = k + 2 <=> a = k + 1 /\ b = 1)
        OBVIOUS
      <4>4. Len(w) \in Int
        BY <4>1, <4>2
      <4> QED BY <4>1, <4>2, <4>3, <4>4
    <3>8. (\A i \in 1..(k + 2) : Len(parts[i]) = 1)
            <=> (\A i \in 1..(k + 1) : Len(parts[i]) = 1) /\ Len(t) = 1
      <4>1. \A i : i \in 1..(k + 2) <=> i \in 1..(k + 1) \/ i = k + 2
        OBVIOUS
      <4> QED BY <4>1 DEF t
    <3>9. ASSUME Len(w) = k + 2, NEW i \in 1..(k + 2) PROVE w[i] = parts[i][1]
      <4>1. Len(s) = k + 1 /\ Len(t) = 1 /\ w[i] = IF i <= k + 1 THEN s[i] ELSE t[i - (k + 1)]
        BY <3>5, <3>7, <3>9 DEF w
      <4>2. CASE i <= k + 1
        BY <3>2, <4>1, <4>2
      <4>3. CASE i = k + 2
        BY <4>1, <4>3 DEF t
      <4> QED BY <4>2, <4>3
    <3>10. Tells(k + 2, w)
      BY <3>2, <3>5, <3>6, <3>7, <3>8, <3>9 DEF w
    <3> QED BY <3>3, <3>10 DEF w
  <2>4. n - 1 \in S
    <3>1. n - 1 \in Nat
      BY <1>4
    <3> HIDE DEF S
    <3> QED BY <2>2, <2>3, <3>1, Induction
  <2>5. Tells(n, f[n])
    <3>1. (n - 1) + 1 = n /\ n \in 1..n
      BY <1>4
    <3> HIDE DEF Tells
    <3> QED BY <2>4, <3>1
  <2> QED BY <2>1, <2>5
<1> QED BY <1>3, <1>4

-------------------------------------------------------------------------------
(* Order.  A relation is a set of pairs.                                   *)

IsOrder(before, R) ==
    /\ \A x \in R : <<x, x>> \notin before
    /\ \A x, y, z \in R : <<x, y>> \in before /\ <<y, z>> \in before => <<x, z>> \in before

LEMMA FirstElement ==
    ASSUME NEW R, NEW before, IsOrder(before, R),
           NEW S \in SUBSET R, IsFiniteSet(S), S # {}
    PROVE  \E m \in S : \A x \in S : <<x, m>> \notin before
<1> DEFINE Has(T) == \E m \in T : \A x \in T : <<x, m>> \notin before
           N == {n \in Nat : \A T \in SUBSET R :
                    IsFiniteSet(T) /\ Cardinality(T) = n /\ T # {} => Has(T)}
<1>1. 0 \in N
  BY FS_EmptySet
<1>2. ASSUME NEW n \in Nat, n \in N PROVE n + 1 \in N
  <2> SUFFICES ASSUME NEW T \in SUBSET R, IsFiniteSet(T), Cardinality(T) = n + 1, T # {}
               PROVE  Has(T)
    OBVIOUS
  <2>1. PICK x \in T : TRUE
    OBVIOUS
  <2> DEFINE U == T \ {x}
  <2>2. IsFiniteSet(U) /\ Cardinality(U) = n /\ U \in SUBSET R
    <3>1. IsFiniteSet(U) /\ Cardinality(U) = Cardinality(T) - 1
      BY <2>1, FS_RemoveElement
    <3>2. (n + 1) - 1 = n /\ U \in SUBSET R
      OBVIOUS
    <3> QED BY <3>1, <3>2
  <2>3. CASE U = {}
    BY <2>1, <2>3 DEF IsOrder
  <2>4. CASE U # {}
    <3>1. Has(U)
      BY <1>2, <2>2, <2>4
    <3>2. PICK m \in U : \A y \in U : <<y, m>> \notin before
      BY <3>1
    <3>3. CASE <<x, m>> \in before
      <4>1. \A y \in T : <<y, x>> \notin before
        BY <2>1, <3>2, <3>3 DEF IsOrder
      <4> QED BY <4>1
    <3>4. CASE <<x, m>> \notin before
      BY <3>2, <3>4
    <3> QED BY <3>3, <3>4
  <2> QED BY <2>3, <2>4
<1>3. Cardinality(S) \in N
  <2>1. Cardinality(S) \in Nat
    BY FS_CardinalityType
  <2> HIDE DEF N
  <2> QED BY <1>1, <1>2, <2>1, Induction
<1> QED BY <1>3

(* Every finite set can be listed so that nothing comes after what it is   *)
(* before.                                                                 *)
LEMMA OrderExists ==
    ASSUME NEW R, NEW before, IsOrder(before, R), NEW S \in SUBSET R, IsFiniteSet(S)
    PROVE  \E s \in SetToSeqs(S) :
              \A i, j \in DOMAIN s : i < j => <<s[j], s[i]>> \notin before
<1> DEFINE Ordered(T, n) == \E s \in [1..n -> T] :
             \A i, j \in 1..n : /\ i # j => s[i] # s[j]
                                /\ i < j => <<s[j], s[i]>> \notin before
           N == {n \in Nat : \A T \in SUBSET R :
                    IsFiniteSet(T) /\ Cardinality(T) = n => Ordered(T, n)}
<1>1. 0 \in N
  <2>1. ASSUME NEW T PROVE Ordered(T, 0)
    <3>1. [i \in 1..0 |-> i] \in [1..0 -> T] /\ 1..0 = {}
      OBVIOUS
    <3> QED BY <3>1
  <2> QED BY <2>1
<1>2. ASSUME NEW n \in Nat, n \in N PROVE n + 1 \in N
  <2> SUFFICES ASSUME NEW T \in SUBSET R, IsFiniteSet(T), Cardinality(T) = n + 1
               PROVE  Ordered(T, n + 1)
    OBVIOUS
  <2>1. T # {}
    BY FS_EmptySet
  <2>2. PICK m \in T : \A x \in T : <<x, m>> \notin before
    BY <2>1, FirstElement
  <2> DEFINE U == T \ {m}
  <2>3. IsFiniteSet(U) /\ Cardinality(U) = n /\ U \in SUBSET R
    <3>1. IsFiniteSet(U) /\ Cardinality(U) = Cardinality(T) - 1
      BY <2>2, FS_RemoveElement
    <3>2. (n + 1) - 1 = n /\ U \in SUBSET R
      OBVIOUS
    <3> QED BY <3>1, <3>2
  <2>4. Ordered(U, n)
    BY <1>2, <2>3
  <2>5. PICK u \in [1..n -> U] :
          \A i, j \in 1..n : /\ i # j => u[i] # u[j]
                             /\ i < j => <<u[j], u[i]>> \notin before
    BY <2>4
  <2> DEFINE s == [i \in 1..(n + 1) |-> IF i = 1 THEN m ELSE u[i - 1]]
  <2>6. ASSUME NEW i \in 1..(n + 1)
        PROVE  IF i = 1 THEN s[i] = m ELSE i - 1 \in 1..n /\ s[i] = u[i - 1] /\ s[i] \in U
    OBVIOUS
  <2>7. s \in [1..(n + 1) -> T]
    BY <2>6
  <2>8. ASSUME NEW i \in 1..(n + 1), NEW j \in 1..(n + 1)
        PROVE  (i # j => s[i] # s[j]) /\ (i < j => <<s[j], s[i]>> \notin before)
    <3> HIDE DEF s
    <3>1. CASE i = 1
      BY <2>2, <2>6, <3>1
    <3>2. CASE i # 1 /\ j = 1
      BY <2>6, <3>2
    <3>3. CASE i # 1 /\ j # 1
      <4>1. i - 1 \in 1..n /\ j - 1 \in 1..n /\ s[i] = u[i - 1] /\ s[j] = u[j - 1]
        BY <2>6, <3>3
      <4>2. (i # j => i - 1 # j - 1) /\ (i < j => i - 1 < j - 1)
        OBVIOUS
      <4> QED BY <2>5, <4>1, <4>2
    <3> QED BY <3>1, <3>2, <3>3
  <2> QED BY <2>7, <2>8
<1>3. Cardinality(S) \in N
  <2>1. Cardinality(S) \in Nat
    BY FS_CardinalityType
  <2> HIDE DEF N
  <2> QED BY <1>1, <1>2, <2>1, Induction
<1>4. PICK s \in [1..Cardinality(S) -> S] :
        \A i, j \in 1..Cardinality(S) : /\ i # j => s[i] # s[j]
                                        /\ i < j => <<s[j], s[i]>> \notin before
  BY <1>3
<1>5. s \in SetToSeqs(S) /\ DOMAIN s = 1..Cardinality(S)
  BY <1>4 DEF SetToSeqs
<1> QED BY <1>4, <1>5

===============================================================================
