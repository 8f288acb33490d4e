--------------------------- MODULE SioPrintfProofs --------------------------
(***************************************************************************)
(* Proof that the async-signal-safe printf prints what is formatted.       *)
(*                                                                         *)
(* Both sides are functions defined by recursion: the loop of write_digits *)
(* in the model, the weights, the text of the format and the shell's part  *)
(* of the output in the reference.  The first section shows that such a    *)
(* function exists and is the only one, from the least element of a set of *)
(* natural numbers.  The next ones show that repeated division and the     *)
(* digits read off by weight give the same numeral; what a turn of the     *)
(* loop takes off the text of the format; what a write adds to the shell's *)
(* part of the output; and at the end the inductive invariant.             *)
(***************************************************************************)
EXTENDS SioPrintf, FiniteSetTheorems, SequenceTheorems, WellFoundedInduction, TLAPS

(***************************************************************************)
(* Recursion.  A function that is defined by recursion exists, and is the  *)
(* only one, when what it is at x depends only on what it is at the places *)
(* of a smaller rank.                                                      *)
(***************************************************************************)

(* A set of natural numbers has a least element. *)
LEMMA LeastExists ==
  ASSUME NEW S, S \subseteq Nat, S # {}
  PROVE  \E x \in S : \A y \in S : x <= y
<1> DEFINE Less == {ss \in Nat \X Nat : ss[1] < ss[2]}
<1>1. OpToRel(<, Nat) = Less
  BY DEF OpToRel
<1>2. IsWellFoundedOn(Less, Nat)
  BY <1>1, NatLessThanWellFounded
<1> HIDE DEF Less
<1>3. PICK x \in S : \A y \in S : ~ (<<y, x>> \in Less)
  BY <1>2, WFMin, Zenon
<1>4. ASSUME NEW y \in S PROVE x <= y
  <2>1. ~ (<<y, x>> \in Less) /\ x \in Nat /\ y \in Nat
    BY <1>3
  <2> QED
    BY <2>1 DEF Less
<1> QED
  BY <1>4

(* The least place where two things differ. *)
LEMMA LeastRank ==
  ASSUME NEW D, NEW rank \in [D -> Nat], NEW B, B \subseteq D, B # {}
  PROVE  \E x \in B : \A y \in D : rank[y] < rank[x] => y \notin B
<1> DEFINE R == {rank[x] : x \in B}
<1>1. PICK r \in R : \A s \in R : r <= s
  <2>1. R \subseteq Nat /\ R # {}
    OBVIOUS
  <2> HIDE DEF R
  <2> QED
    BY <2>1, LeastExists
<1>2. PICK x \in B : r = rank[x]
  BY <1>1
<1>3. ASSUME NEW y \in D, rank[y] < rank[x], y \in B PROVE FALSE
  <2>1. rank[y] \in Nat /\ rank[x] \in Nat /\ r <= rank[y]
    BY <1>1, <1>3
  <2> QED
    BY <1>2, <1>3, <2>1
<1> QED
  BY <1>3

Contracts(Phi, D, V, rank) ==
  /\ V # {} /\ rank \in [D -> Nat]
  /\ Phi \in [[D -> V] -> [D -> V]]
  /\ \A f, g \in [D -> V] : \A x \in D :
       (\A y \in D : rank[y] < rank[x] => f[y] = g[y]) => Phi[f][x] = Phi[g][x]

HasSolution(Phi, D, V) == \E f \in [D -> V] : f = Phi[f]

LEMMA RecursionUnique ==
  ASSUME NEW D, NEW V, NEW rank \in [D -> Nat], NEW Phi, Contracts(Phi, D, V, rank),
         NEW n \in Nat, NEW f \in [D -> V], NEW g \in [D -> V],
         \A x \in D : rank[x] < n => f[x] = Phi[f][x],
         \A x \in D : rank[x] < n => g[x] = Phi[g][x]
  PROVE  \A x \in D : rank[x] < n => f[x] = g[x]
<1> DEFINE B == {x \in D : rank[x] < n /\ f[x] # g[x]}
<1>1. ASSUME B # {} PROVE FALSE
  <2>1. PICK x \in B : \A y \in D : rank[y] < rank[x] => y \notin B
    <3>1. B \subseteq D
      OBVIOUS
    <3> HIDE DEF B
    <3> QED
      BY <1>1, <3>1, LeastRank
  <2>2. x \in D /\ rank[x] < n /\ f[x] # g[x] /\ rank[x] \in Nat
    BY <2>1
  <2>3. ASSUME NEW y \in D, rank[y] < rank[x] PROVE f[y] = g[y]
    <3>1. y \notin B /\ rank[y] \in Nat /\ rank[y] < n
      BY <2>1, <2>2, <2>3
    <3> QED
      BY <3>1
  <2>4. Phi[f][x] = Phi[g][x]
    BY <2>2, <2>3 DEF Contracts
  <2> QED
    BY <2>2, <2>4
<1> QED
  BY <1>1

LEMMA RecursionExists ==
  ASSUME NEW Phi, NEW D, NEW V, NEW rank, Contracts(Phi, D, V, rank)
  PROVE  HasSolution(Phi, D, V)
<1>0. V # {} /\ rank \in [D -> Nat]
  BY DEF Contracts
<1> DEFINE A(n) == {f \in [D -> V] : \A x \in D : rank[x] < n => f[x] = Phi[f][x]}
<1>1. \A n \in Nat : A(n) # {}
  <2> DEFINE B == {n \in Nat : A(n) = {}}
  <2>1. ASSUME B # {} PROVE FALSE
    <3>1. PICK n \in B : \A m \in B : n <= m
      <4>1. B \subseteq Nat
        OBVIOUS
      <4> HIDE DEF B
      <4> QED
        BY <2>1, <4>1, LeastExists
    <3>2. n \in Nat /\ A(n) = {}
      BY <3>1
    <3>3. n # 0
      <4>1. PICK v : v \in V
        BY <1>0
      <4>2. [x \in D |-> v] \in A(0)
        BY <1>0, <4>1
      <4> QED
        BY <3>2, <4>2
    <3>4. n - 1 \in Nat /\ ~ (n - 1 \in B)
      <4>1. n - 1 \in Nat /\ ~ (n <= n - 1)
        BY <3>2, <3>3
      <4> HIDE DEF B
      <4> QED
        BY <3>1, <4>1
    <3>5. PICK f \in [D -> V] : \A x \in D : rank[x] < n - 1 => f[x] = Phi[f][x]
      BY <3>4
    <3>6. Phi[f] \in [D -> V]
      BY DEF Contracts
    <3>7. ASSUME NEW x \in D, rank[x] < n PROVE Phi[f][x] = Phi[Phi[f]][x]
      <4>1. ASSUME NEW y \in D, rank[y] < rank[x] PROVE f[y] = Phi[f][y]
        <5>1. rank[y] \in Nat /\ rank[x] \in Nat /\ rank[y] < n - 1
          BY <1>0, <3>2, <3>7, <4>1
        <5> QED
          BY <3>5, <5>1
      <4> QED
        BY <3>6, <4>1 DEF Contracts
    <3>8. Phi[f] \in A(n)
      BY <3>6, <3>7
    <3> QED
      BY <3>2, <3>8
  <2> QED
    BY <2>1
<1> DEFINE good(n) == CHOOSE f : f \in A(n)
<1>2. \A n \in Nat : good(n) \in A(n)
  <2> HIDE DEF A
  <2> QED
    BY <1>1
<1> DEFINE F == [x \in D |-> good(rank[x] + 1)[x]]
<1> HIDE DEF good
<1>3. F \in [D -> V]
  <2>1. ASSUME NEW x \in D PROVE good(rank[x] + 1)[x] \in V
    <3>1. good(rank[x] + 1) \in A(rank[x] + 1)
      BY <1>0, <1>2
    <3> QED
      BY <3>1
  <2> QED
    BY <2>1
<1>4. ASSUME NEW x \in D PROVE F[x] = Phi[F][x]
  <2>1. rank[x] + 1 \in Nat /\ good(rank[x] + 1) \in A(rank[x] + 1)
    BY <1>0, <1>2
  <2>2. PICK f \in [D -> V] : /\ f = good(rank[x] + 1)
                              /\ \A y \in D : rank[y] < rank[x] + 1 => f[y] = Phi[f][y]
    BY <2>1
  <2>3. f[x] = Phi[f][x] /\ F[x] = f[x]
    BY <1>0, <2>2
  <2>4. ASSUME NEW y \in D, rank[y] < rank[x] PROVE F[y] = f[y]
    <3>1. rank[y] + 1 \in Nat /\ good(rank[y] + 1) \in A(rank[y] + 1)
      BY <1>0, <1>2
    <3>2. PICK g \in [D -> V] : /\ g = good(rank[y] + 1)
                                /\ \A z \in D : rank[z] < rank[y] + 1 => g[z] = Phi[g][z]
      BY <3>1
    <3>3. ASSUME NEW z \in D, rank[z] < rank[y] + 1 PROVE f[z] = Phi[f][z]
      <4>1. rank[z] \in Nat /\ rank[y] \in Nat /\ rank[x] \in Nat /\ rank[z] < rank[x] + 1
        BY <1>0, <2>4, <3>3
      <4> QED
        BY <2>2, <4>1
    <3>4. \A z \in D : rank[z] < rank[y] + 1 => g[z] = f[z]
      <4> HIDE DEF F, A
      <4> QED
        BY <1>0, <3>1, <3>2, <3>3, RecursionUnique
    <3>5. g[y] = f[y] /\ F[y] = g[y]
      BY <1>0, <3>2, <3>4
    <3> QED
      BY <3>5
  <2> HIDE DEF F
  <2>5. Phi[F][x] = Phi[f][x]
    BY <1>3, <2>2, <2>4 DEF Contracts
  <2> QED
    BY <2>3, <2>5
<1> HIDE DEF F
<1>5. Phi[F] \in [D -> V]
  BY <1>3 DEF Contracts
<1>6. F = Phi[F]
  BY <1>3, <1>4, <1>5
<1> QED
  BY <1>3, <1>6 DEF HasSolution

(* Induction over the rank. *)
LEMMA RankInduction ==
  ASSUME NEW D, NEW rank \in [D -> Nat], NEW S,
         \A x \in D : (\A y \in D : rank[y] < rank[x] => y \in S) => x \in S
  PROVE  \A x \in D : x \in S
<1> DEFINE B == D \ S
<1>1. ASSUME B # {} PROVE FALSE
  <2>1. PICK x \in B : \A y \in D : rank[y] < rank[x] => y \notin B
    <3>1. B \subseteq D
      OBVIOUS
    <3> HIDE DEF B
    <3> QED
      BY <1>1, <3>1, LeastRank
  <2> QED
    BY <2>1
<1> QED
  BY <1>1

(* Induction over the natural numbers up to a bound. *)
LEMMA UpToInduction ==
  ASSUME NEW n \in Nat, NEW S, 0 \in S, \A i \in 1 .. n : i - 1 \in S => i \in S
  PROVE  \A i \in 0 .. n : i \in S
<1> DEFINE B == {i \in 0 .. n : i \notin S}
<1>1. ASSUME B # {} PROVE FALSE
  <2>1. PICK i \in B : \A j \in B : i <= j
    <3>1. B \subseteq Nat
      OBVIOUS
    <3> HIDE DEF B
    <3> QED
      BY <1>1, <3>1, LeastExists
  <2>2. i \in 1 .. n
    BY <2>1
  <2>3. i - 1 \in 0 .. n /\ ~ (i <= i - 1)
    BY <2>2
  <2>4. i - 1 \notin B
    <3> HIDE DEF B
    <3> QED
      BY <2>1, <2>3
  <2> QED
    BY <2>1, <2>2, <2>3, <2>4
<1> QED
  BY <1>1

LEMMA NaturalInduction ==
  ASSUME NEW S, 0 \in S, \A i \in Nat : i \in S => i + 1 \in S
  PROVE  \A i \in Nat : i \in S
<1> SUFFICES ASSUME NEW n \in Nat PROVE n \in S
  OBVIOUS
<1>1. \A i \in 1 .. n : i - 1 \in S => i \in S
  <2> SUFFICES ASSUME NEW i \in 1 .. n, i - 1 \in S PROVE i \in S
    OBVIOUS
  <2>1. i - 1 \in Nat /\ (i - 1) + 1 = i
    OBVIOUS
  <2> QED
    BY <2>1
<1>2. \A i \in 0 .. n : i \in S
  BY <1>1, UpToInduction
<1> QED
  BY <1>2

(***************************************************************************)
(* Powers of two: there are 2^n subsets of a set of n elements.            *)
(***************************************************************************)
LEMMA PowersOfTwo ==
  ASSUME NEW n \in Nat
  PROVE  /\ 2^n \in Nat /\ 2^n >= 1
         /\ \A m \in 0 .. n : 2^m <= 2^n
         /\ n > 0 => 2^(n - 1) < 2^n
<1>1. ASSUME NEW m \in Nat
      PROVE  /\ IsFiniteSet(SUBSET (1 .. m)) /\ Cardinality(SUBSET (1 .. m)) = 2^m
             /\ 2^m \in Nat
  <2>1. IsFiniteSet(1 .. m) /\ Cardinality(1 .. m) = m
    <3>1. IsFiniteSet(1 .. m) /\ Cardinality(1 .. m) = IF 1 > m THEN 0 ELSE m - 1 + 1
      BY FS_Interval
    <3>2. (IF 1 > m THEN 0 ELSE m - 1 + 1) = m
      OBVIOUS
    <3> QED
      BY <3>1, <3>2
  <2>2. /\ IsFiniteSet(SUBSET (1 .. m))
        /\ Cardinality(SUBSET (1 .. m)) = 2^Cardinality(1 .. m)
    BY <2>1, FS_SUBSET
  <2> QED
    BY <2>1, <2>2, FS_CardinalityType
<1>2. ASSUME NEW m \in 0 .. n PROVE 2^m <= 2^n /\ (m # n => 2^m # 2^n)
  <2>1. m \in Nat /\ 1 .. m \subseteq 1 .. n
    OBVIOUS
  <2>2. SUBSET (1 .. m) \in SUBSET (SUBSET (1 .. n))
    BY <2>1
  <2>3. /\ Cardinality(SUBSET (1 .. m)) <= Cardinality(SUBSET (1 .. n))
        /\ Cardinality(SUBSET (1 .. n)) = Cardinality(SUBSET (1 .. m)) =>
             SUBSET (1 .. n) = SUBSET (1 .. m)
    BY <1>1, <2>2, FS_Subset
  <2>4. ASSUME m # n PROVE SUBSET (1 .. n) # SUBSET (1 .. m)
    <3>1. n \in 1 .. n /\ n \notin 1 .. m
      BY <2>1, <2>4
    <3>2. {n} \in SUBSET (1 .. n) /\ {n} \notin SUBSET (1 .. m)
      BY <3>1
    <3> QED
      BY <3>2
  <2> QED
    BY <1>1, <2>1, <2>3, <2>4
<1>3. 2^n >= 1
  <2>1. 2^0 = 1
    OBVIOUS
  <2>2. 0 \in 0 .. n
    OBVIOUS
  <2> QED
    BY <1>2, <2>1, <2>2
<1>4. ASSUME n > 0 PROVE 2^(n - 1) < 2^n
  <2>1. n - 1 \in 0 .. n /\ n - 1 # n /\ n - 1 \in Nat
    BY <1>4
  <2>2. 2^(n - 1) \in Nat /\ 2^n \in Nat
    BY <1>1, <2>1
  <2> QED
    BY <1>2, <2>1, <2>2
<1> QED
  BY <1>1, <1>2, <1>3, <1>4

LEMMA WordsAre ==
  /\ Words = 0 .. 2^LongBits - 1 /\ 2^LongBits \in Nat \ {0}
  /\ Words \subseteq Nat /\ \A n \in Words, m \in Nat : m <= n => m \in Words
<1>1. 2^LongBits \in Nat /\ 2^LongBits >= 1
  BY PowersOfTwo, Widths
<1> QED
  BY <1>1 DEF Words

(***************************************************************************)
(* Division.                                                               *)
(***************************************************************************)
LEMMA Division ==
  ASSUME NEW n \in Nat, NEW b \in Nat \ {0}
  PROVE  /\ n \div b \in Nat /\ n % b \in 0 .. b - 1 /\ n % b \in Nat
         /\ n = b * (n \div b) + (n % b)
         /\ n \div b <= n
         /\ n < b => n \div b = 0 /\ n % b = n
OBVIOUS

LEMMA QuotientUnique ==
  ASSUME NEW b \in Nat \ {0}, NEW q \in Nat, NEW r \in Nat, r < b
  PROVE  (b * q + r) \div b = q
OBVIOUS

LEMMA DivisionTwice ==
  ASSUME NEW n \in Nat, NEW b \in Nat \ {0}, NEW c \in Nat \ {0}
  PROVE  b * c \in Nat \ {0} /\ (n \div b) \div c = n \div (b * c)
<1> DEFINE q == n \div b
<1> DEFINE r == n % b
<1>1. q \in Nat /\ r \in 0 .. b - 1 /\ n = b * q + r
  BY Division
<1> HIDE DEF q, r
<1> DEFINE p == q \div c
<1> DEFINE s == q % c
<1>2. p \in Nat /\ s \in 0 .. c - 1 /\ q = c * p + s
  BY <1>1, Division
<1> HIDE DEF p, s
<1>3. n = (b * c) * p + (b * s + r)
  BY <1>1, <1>2
<1>4. b * c \in Nat \ {0} /\ b * s + r \in Nat /\ b * s + r < b * c
  BY <1>1, <1>2
<1>5. n \div (b * c) = p
  BY <1>2, <1>3, <1>4, QuotientUnique
<1> QED
  BY <1>4, <1>5 DEF p, q

(***************************************************************************)
(* Numerals.                                                               *)
(***************************************************************************)
Bases == 2 .. 16

LEMMA WeightsAre ==
  ASSUME NEW b \in Bases
  PROVE  /\ Weight(b) \in [Nat -> Nat]
         /\ Weight(b)[0] = 1
         /\ \A i \in Nat : Weight(b)[i + 1] = b * Weight(b)[i]
<1> DEFINE Phi == [f \in [Nat -> Nat] |->
                     [i \in Nat |-> IF i = 0 THEN 1 ELSE b * f[i - 1]]]
<1> DEFINE rank == [i \in Nat |-> i]
<1>1. Contracts(Phi, Nat, Nat, rank)
  <2>1. Phi \in [[Nat -> Nat] -> [Nat -> Nat]]
    <3>1. ASSUME NEW f \in [Nat -> Nat], NEW i \in Nat
          PROVE  (IF i = 0 THEN 1 ELSE b * f[i - 1]) \in Nat
      <4>1. CASE i = 0
        BY <4>1
      <4>2. CASE i # 0
        <5>1. f[i - 1] \in Nat /\ b \in Nat
          BY <4>2 DEF Bases
        <5>2. b * f[i - 1] \in Nat
          BY <5>1
        <5> QED
          BY <4>2, <5>2
      <4> QED
        BY <4>1, <4>2
    <3> QED
      BY <3>1
  <2>2. ASSUME NEW f \in [Nat -> Nat], NEW g \in [Nat -> Nat], NEW i \in Nat,
               \A j \in Nat : rank[j] < rank[i] => f[j] = g[j]
        PROVE  Phi[f][i] = Phi[g][i]
    <3>1. i # 0 => f[i - 1] = g[i - 1]
      BY <2>2
    <3> QED
      BY <3>1
  <2>3. rank \in [Nat -> Nat] /\ Nat # {}
    OBVIOUS
  <2> HIDE DEF Phi, rank
  <2> QED
    BY <2>1, <2>2, <2>3 DEF Contracts
<1>2. HasSolution(Phi, Nat, Nat)
  <2> HIDE DEF Phi, rank
  <2> QED
    BY <1>1, RecursionExists, Zenon
<1> DEFINE weight[i \in Nat] == IF i = 0 THEN 1 ELSE b * weight[i - 1]
<1>3. weight = [i \in Nat |-> IF i = 0 THEN 1 ELSE b * weight[i - 1]]
  <2>1. \E f : f = [i \in Nat |-> IF i = 0 THEN 1 ELSE b * f[i - 1]]
    BY <1>2 DEF HasSolution
  <2> HIDE DEF Phi, rank
  <2> QED
    BY <2>1, Zenon
<1>4. Weight(b) = weight
  BY DEF Weight
<1> HIDE DEF weight, Phi
<1>5. Weight(b) = [i \in Nat |-> IF i = 0 THEN 1 ELSE b * Weight(b)[i - 1]]
  BY <1>3, <1>4
<1>6. Weight(b)[0] = 1 /\ \A i \in Nat : Weight(b)[i + 1] = b * Weight(b)[i]
  <2> DEFINE w == Weight(b)
  <2>1. w = [i \in Nat |-> IF i = 0 THEN 1 ELSE b * w[i - 1]]
    BY <1>5
  <2> HIDE DEF w
  <2>2. \A i \in Nat : w[i] = IF i = 0 THEN 1 ELSE b * w[i - 1]
    BY <2>1, Zenon
  <2>3. ASSUME NEW i \in Nat PROVE w[i + 1] = b * w[i]
    <3>1. i + 1 \in Nat /\ i + 1 # 0 /\ i + 1 - 1 = i
      OBVIOUS
    <3> QED
      BY <2>2, <3>1
  <2> QED
    BY <2>2, <2>3 DEF w
<1>7. \A i \in Nat : Weight(b)[i] \in Nat
  <2> DEFINE S == {i \in Nat : Weight(b)[i] \in Nat}
  <2>1. 0 \in S
    BY <1>6
  <2>2. ASSUME NEW i \in Nat, i \in S PROVE i + 1 \in S
    BY <1>6, <2>2 DEF Bases
  <2>3. \A i \in Nat : i \in S
    <3> HIDE DEF S
    <3> QED
      BY <2>1, <2>2, NaturalInduction, Zenon
  <2> QED
    BY <2>3
<1>8. Weight(b) \in [Nat -> Nat]
  <2> DEFINE w == Weight(b)
  <2>1. \E F : w = [i \in Nat |-> F[i]]
    BY <1>5
  <2>2. \A i \in Nat : w[i] \in Nat
    BY <1>7
  <2> HIDE DEF w
  <2>3. w \in [Nat -> Nat]
    BY <2>1, <2>2
  <2> QED
    BY <2>3 DEF w
<1> QED
  BY <1>6, <1>8

LEMMA WeightsGrow ==
  ASSUME NEW b \in Bases
  PROVE  \A i \in Nat : /\ Weight(b)[i] >= i + 1
                        /\ \A j \in 0 .. i : Weight(b)[j] <= Weight(b)[i]
<1> DEFINE w == Weight(b)
<1>1. /\ w \in [Nat -> Nat] /\ w[0] = 1
      /\ \A i \in Nat : w[i + 1] = b * w[i]
  BY WeightsAre
<1> HIDE DEF w
<1> DEFINE S == {i \in Nat : w[i] >= i + 1 /\ \A j \in 0 .. i : w[j] <= w[i]}
<1>2. 0 \in S
  BY <1>1
<1>3. ASSUME NEW i \in Nat, i \in S PROVE i + 1 \in S
  <2>1. /\ w[i] \in Nat /\ w[i + 1] = b * w[i] /\ w[i] >= i + 1
        /\ \A j \in 0 .. i : w[j] <= w[i]
    BY <1>1, <1>3
  <2>2. b * w[i] >= w[i] + w[i]
    <3>1. ASSUME NEW n \in Nat PROVE b * n >= n + n
      BY DEF Bases
    <3> QED
      BY <2>1, <3>1
  <2>3. w[i + 1] \in Nat /\ w[i + 1] >= w[i] + w[i]
    BY <1>1, <2>1, <2>2
  <2>4. ASSUME NEW j \in 0 .. i + 1 PROVE w[j] <= w[i + 1]
    <3>1. CASE j = i + 1
      BY <2>3, <3>1
    <3>2. CASE j # i + 1
      <4>1. j \in 0 .. i /\ w[j] \in Nat
        BY <1>1, <3>2
      <4> QED
        BY <2>1, <2>3, <4>1
    <3> QED
      BY <3>1, <3>2
  <2> QED
    BY <2>1, <2>3, <2>4
<1>4. \A i \in Nat : i \in S
  <2> HIDE DEF S
  <2> QED
    BY <1>2, <1>3, NaturalInduction, Zenon
<1> QED
  BY <1>4 DEF w

(* (The provers do not see that a literal is a STRING.) *)
Letters == STRING \cup {digit[k] : k \in 1 .. 16} \cup {"%", "-", "k"}

Characters == Seq(Letters)

LEMMA DigitsAre ==
  ASSUME NEW n \in 0 .. 15
  PROVE  digit[n + 1] \in Letters /\ <<digit[n + 1]>> \in Characters
<1>1. n + 1 \in 1 .. 16
  OBVIOUS
<1>2. digit[n + 1] \in Letters
  BY <1>1 DEF Letters
<1> QED
  BY <1>2 DEF Characters

(* The digits that the code writes, the last one first. *)
LEMMA DigitsWritten ==
  ASSUME NEW b \in Bases
  PROVE  \A v \in Words :
           /\ write_digits(v, b) \in Characters
           /\ v < b => write_digits(v, b) = <<digit[v + 1]>>
           /\ ~ (v < b) => write_digits(v, b) =
                             <<digit[(v % b) + 1]>> \o write_digits(v \div b, b)
<1>0. /\ b \in Nat \ {0} /\ b <= 16 /\ b >= 2
      /\ \A u \in Words : /\ u \in Nat /\ u \div b \in Words /\ u % b \in 0 .. 15
                          /\ u < b => u \in 0 .. 15
                          /\ ~ (u < b) => u \div b < u
  <2>1. b \in Nat \ {0} /\ b <= 16 /\ b >= 2
    BY DEF Bases
  <2>2. ASSUME NEW u \in Nat PROVE /\ u \div b \in Nat /\ u \div b <= u /\ u % b \in 0 .. 15
                                   /\ u < b => u \in 0 .. 15
                                   /\ ~ (u < b) => u \div b < u
    BY <2>1
  <2> QED
    BY <2>1, <2>2, WordsAre
<1> DEFINE Phi == [f \in [Words -> Characters] |->
                     [u \in Words |-> IF u < b THEN <<digit[u + 1]>>
                                      ELSE <<digit[(u % b) + 1]>> \o f[u \div b]]]
<1> DEFINE rank == [u \in Words |-> u]
<1>1. Contracts(Phi, Words, Characters, rank)
  <2>1. Phi \in [[Words -> Characters] -> [Words -> Characters]]
    <3>1. ASSUME NEW f \in [Words -> Characters], NEW u \in Words
          PROVE  (IF u < b THEN <<digit[u + 1]>>
                  ELSE <<digit[(u % b) + 1]>> \o f[u \div b]) \in Characters
      <4>1. CASE u < b
        BY <1>0, <4>1, DigitsAre
      <4>2. CASE ~ (u < b)
        <5>1. f[u \div b] \in Characters /\ <<digit[(u % b) + 1]>> \in Characters
          BY <1>0, DigitsAre
        <5>2. <<digit[(u % b) + 1]>> \o f[u \div b] \in Characters
          BY <5>1, ConcatProperties DEF Characters
        <5> QED
          BY <4>2, <5>2
      <4> QED
        BY <4>1, <4>2
    <3> QED
      BY <3>1
  <2>2. ASSUME NEW f \in [Words -> Characters], NEW g \in [Words -> Characters],
               NEW u \in Words, \A y \in Words : rank[y] < rank[u] => f[y] = g[y]
        PROVE  Phi[f][u] = Phi[g][u]
    <3>1. ~ (u < b) => f[u \div b] = g[u \div b]
      BY <1>0, <2>2
    <3> QED
      BY <3>1
  <2>3. rank \in [Words -> Nat] /\ Characters # {}
    <3>1. <<>> \in Characters
      BY DEF Characters
    <3> QED
      BY <1>0, <3>1
  <2> HIDE DEF Phi, rank
  <2> QED
    BY <2>1, <2>2, <2>3 DEF Contracts
<1>2. HasSolution(Phi, Words, Characters)
  <2> HIDE DEF Phi, rank
  <2> QED
    BY <1>1, RecursionExists, Zenon
<1> DEFINE digits[u \in Words] == IF u < b THEN <<digit[u + 1]>>
                                  ELSE <<digit[(u % b) + 1]>> \o digits[u \div b]
<1>3. digits = [u \in Words |-> IF u < b THEN <<digit[u + 1]>>
                                ELSE <<digit[(u % b) + 1]>> \o digits[u \div b]]
  <2>1. \E f : f = [u \in Words |-> IF u < b THEN <<digit[u + 1]>>
                                    ELSE <<digit[(u % b) + 1]>> \o f[u \div b]]
    BY <1>2 DEF HasSolution
  <2> HIDE DEF Phi, rank
  <2> QED
    BY <2>1, Zenon
<1>4. \A v \in Words : write_digits(v, b) = digits[v]
  BY DEF write_digits
<1> HIDE DEF digits, Phi
<1>5. \A v \in Words : write_digits(v, b) =
                         IF v < b THEN <<digit[v + 1]>>
                         ELSE <<digit[(v % b) + 1]>> \o write_digits(v \div b, b)
  <2>1. \A v \in Words : digits[v] = IF v < b THEN <<digit[v + 1]>>
                                     ELSE <<digit[(v % b) + 1]>> \o digits[v \div b]
    BY <1>3, Zenon
  <2>2. \A v \in Words : write_digits(v \div b, b) = digits[v \div b]
    BY <1>0, <1>4
  <2> QED
    BY <1>4, <2>1, <2>2, Zenon
<1>6. \A v \in Words : v \in {u \in Words : write_digits(u, b) \in Characters}
  <2> DEFINE S == {u \in Words : write_digits(u, b) \in Characters}
  <2>1. ASSUME NEW u \in Words, \A y \in Words : rank[y] < rank[u] => y \in S
        PROVE  u \in S
    <3>1. CASE u < b
      BY <1>0, <1>5, <3>1, DigitsAre
    <3>2. CASE ~ (u < b)
      <4>1. u \div b \in S
        BY <1>0, <2>1, <3>2
      <4>2. write_digits(u \div b, b) \in Characters /\ <<digit[(u % b) + 1]>> \in Characters
        BY <1>0, <4>1, DigitsAre
      <4>3. <<digit[(u % b) + 1]>> \o write_digits(u \div b, b) \in Characters
        BY <4>2, ConcatProperties DEF Characters
      <4> QED
        BY <1>5, <3>2, <4>3
    <3> QED
      BY <3>1, <3>2
  <2>2. rank \in [Words -> Nat]
    BY <1>0
  <2> HIDE DEF rank, S
  <2>3. \A v \in Words : v \in S
    BY <2>1, <2>2, RankInduction, Zenon
  <2> QED
    BY <2>3 DEF S
<1> QED
  BY <1>5, <1>6

(* The numeral of n, as wide as it has to be, and read from its last digit. *)
IsWide(n, b, k) ==
  /\ k \in Nat \ {0}
  /\ n < Weight(b)[k] /\ (k = 1 \/ Weight(b)[k - 1] <= n)

LEMMA OneWidth ==
  ASSUME NEW b \in Bases, NEW n \in Nat, NEW k, NEW m, IsWide(n, b, k), IsWide(n, b, m)
  PROVE  k = m
<1>1. ASSUME NEW i, NEW j, IsWide(n, b, i), IsWide(n, b, j), i < j PROVE FALSE
  <2>1. i \in Nat \ {0} /\ j \in Nat \ {0} /\ n < Weight(b)[i] /\ Weight(b)[j - 1] <= n
    BY <1>1 DEF IsWide
  <2>2. i \in 0 .. j - 1 /\ j - 1 \in Nat
    BY <1>1, <2>1
  <2>3. Weight(b)[i] <= Weight(b)[j - 1]
    BY <2>2, WeightsGrow
  <2>4. Weight(b)[i] \in Nat /\ Weight(b)[j - 1] \in Nat
    BY <2>1, <2>2, WeightsAre
  <2> QED
    BY <2>1, <2>3, <2>4
<1>2. k \in Nat /\ m \in Nat
  BY DEF IsWide
<1>3. ~ (k < m) /\ ~ (m < k)
  BY <1>1
<1> QED
  BY <1>2, <1>3

LEMMA PlacesAre ==
  ASSUME NEW b \in Bases, NEW n \in Nat, NEW k, IsWide(n, b, k)
  PROVE  Places(n, b) = k
<1> DEFINE P(m) == n < Weight(b)[m] /\ (m = 1 \/ Weight(b)[m - 1] <= n)
<1>1. k \in 1 .. n + 1 /\ P(k)
  <2>1. k \in Nat \ {0} /\ P(k)
    BY DEF IsWide
  <2>2. CASE k = 1
    BY <2>1, <2>2
  <2>3. CASE k # 1
    <3>1. k - 1 \in Nat /\ Weight(b)[k - 1] <= n
      BY <2>1, <2>3
    <3>2. Weight(b)[k - 1] >= (k - 1) + 1 /\ Weight(b)[k - 1] \in Nat
      BY <3>1, WeightsGrow, WeightsAre
    <3> QED
      BY <2>1, <3>1, <3>2
  <2> QED
    BY <2>2, <2>3
<1>2. Places(n, b) \in 1 .. n + 1 /\ P(Places(n, b))
  <2>1. \E m \in 1 .. n + 1 : P(m)
    BY <1>1
  <2> HIDE DEF P
  <2>2. (CHOOSE m \in 1 .. n + 1 : P(m)) \in 1 .. n + 1 /\ P(CHOOSE m \in 1 .. n + 1 : P(m))
    BY <2>1, Zenon
  <2>3. Places(n, b) = CHOOSE m \in 1 .. n + 1 : P(m)
    BY DEF Places, P
  <2> QED
    BY <2>2, <2>3, Zenon
<1>3. IsWide(n, b, Places(n, b))
  BY <1>2 DEF IsWide
<1> QED
  BY <1>3, OneWidth

(* s holds the digits of n, the last one first. *)
Holds(s, n, b) ==
  /\ s \in Characters
  /\ IsWide(n, b, Len(s))
  /\ \A j \in 1 .. Len(s) : s[j] = digit[((n \div Weight(b)[j - 1]) % b) + 1]

LEMMA OneDigit ==
  ASSUME NEW b \in Bases, NEW n \in Nat, n < b
  PROVE  Holds(<<digit[n + 1]>>, n, b)
<1>1. b \in Nat \ {0} /\ n \in 0 .. 15
  BY DEF Bases
<1>2. Weight(b)[0] = 1 /\ Weight(b)[1] = b
  <2>1. Weight(b)[0] = 1 /\ Weight(b)[0 + 1] = b * Weight(b)[0]
    BY WeightsAre
  <2> QED
    BY <1>1, <2>1
<1> DEFINE s == <<digit[n + 1]>>
<1>3. s \in Characters /\ Len(s) = 1 /\ s[1] = digit[n + 1]
  BY <1>1, DigitsAre
<1> HIDE DEF s
<1>4. (n \div 1) % b = n
  <2>1. n \div 1 = n
    OBVIOUS
  <2> QED
    BY <1>1, <2>1, Division
<1>5. ASSUME NEW j \in 1 .. 1 PROVE s[j] = digit[((n \div Weight(b)[j - 1]) % b) + 1]
  <2>1. j = 1 /\ j - 1 = 0
    OBVIOUS
  <2> QED
    BY <1>2, <1>3, <1>4, <2>1
<1>6. IsWide(n, b, Len(s))
  BY <1>2, <1>3 DEF IsWide
<1>7. Holds(s, n, b)
  BY <1>3, <1>5, <1>6 DEF Holds
<1> QED
  BY <1>7 DEF s

LEMMA MoreDigits ==
  ASSUME NEW b \in Bases, NEW n \in Nat, ~ (n < b), NEW s, Holds(s, n \div b, b)
  PROVE  Holds(<<digit[(n % b) + 1]>> \o s, n, b)
<1> DEFINE q == n \div b
<1> DEFINE r == n % b
<1> DEFINE w == Weight(b)
<1> DEFINE k == Len(s)
<1> DEFINE t == <<digit[r + 1]>> \o s
<1>1. /\ b \in Nat \ {0} /\ q \in Nat /\ r \in 0 .. b - 1 /\ r \in 0 .. 15
      /\ n = b * q + r
  <2>1. b \in Nat \ {0} /\ b - 1 <= 15
    BY DEF Bases
  <2>2. q \in Nat /\ r \in 0 .. b - 1 /\ n = b * q + r
    BY <2>1, Division
  <2> QED
    BY <2>1, <2>2
<1>2. /\ w \in [Nat -> Nat] /\ w[0] = 1 /\ \A i \in Nat : w[i + 1] = b * w[i]
      /\ \A i \in Nat : w[i] # 0
  BY WeightsAre, WeightsGrow
<1>3. /\ s \in Characters /\ k \in Nat \ {0}
      /\ q < w[k] /\ (k = 1 \/ w[k - 1] <= q)
      /\ \A j \in 1 .. k : s[j] = digit[((q \div w[j - 1]) % b) + 1]
  BY DEF Holds, IsWide
<1>4. /\ t \in Characters /\ Len(t) = k + 1 /\ t[1] = digit[r + 1]
      /\ \A j \in 2 .. k + 1 : t[j] = s[j - 1]
  <2>1. <<digit[r + 1]>> \in Characters
    BY <1>1, DigitsAre
  <2>2. /\ t \in Characters /\ Len(t) = 1 + k
        /\ \A j \in 1 .. 1 + k : t[j] = IF j <= 1 THEN <<digit[r + 1]>>[j] ELSE s[j - 1]
    <3>1. Len(<<digit[r + 1]>>) = 1
      OBVIOUS
    <3> QED
      BY <1>3, <2>1, <3>1, ConcatProperties DEF Characters
  <2> HIDE DEF t, k
  <2> QED
    BY <1>3, <2>2
<1> HIDE DEF t, k, w, q, r
<1>5. n < w[k + 1] /\ w[k] <= n
  <2>1. w[k] \in Nat /\ w[k + 1] = b * w[k]
    BY <1>2, <1>3
  <2>2. n < b * w[k]
    <3>1. ASSUME NEW p \in Nat, q < p PROVE b * q + r < b * p
      <4>1. q + 1 <= p
        BY <1>1, <3>1
      <4>2. b * (q + 1) <= b * p
        BY <1>1, <4>1
      <4>3. b * (q + 1) = b * q + b
        BY <1>1
      <4> QED
        BY <1>1, <4>2, <4>3
    <3> QED
      BY <1>1, <1>3, <2>1, <3>1
  <2>3. w[k] <= n
    <3>1. CASE k = 1
      <4>1. w[1] = b
        <5>1. w[0 + 1] = b * w[0]
          BY <1>2
        <5> QED
          BY <1>1, <1>2, <5>1
      <4> QED
        BY <1>1, <3>1, <4>1 DEF Bases
    <3>2. CASE k # 1
      <4>1. k - 1 \in Nat /\ w[k - 1] \in Nat /\ w[k - 1] <= q
        BY <1>2, <1>3, <3>2
      <4>2. w[k] = b * w[k - 1]
        <5>1. (k - 1) + 1 = k
          BY <1>3
        <5> QED
          BY <1>2, <4>1, <5>1
      <4>3. b * w[k - 1] <= b * q
        BY <1>1, <4>1
      <4>4. b * q <= n
        BY <1>1
      <4> QED
        BY <1>1, <2>1, <4>1, <4>2, <4>3, <4>4
    <3> QED
      BY <3>1, <3>2
  <2> QED
    BY <2>1, <2>2, <2>3
<1>6. IsWide(n, b, Len(t))
  BY <1>3, <1>4, <1>5 DEF IsWide, w
<1>7. ASSUME NEW j \in 1 .. k + 1
      PROVE  t[j] = digit[((n \div w[j - 1]) % b) + 1]
  <2>1. CASE j = 1
    <3>1. w[j - 1] = 1
      BY <1>2, <2>1
    <3>2. n \div 1 = n
      OBVIOUS
    <3> QED
      BY <1>4, <2>1, <3>1, <3>2 DEF r
  <2>2. CASE j # 1
    <3>1. j \in 2 .. k + 1 /\ j - 1 \in 1 .. k /\ (j - 1) - 1 \in Nat /\ j - 1 = ((j - 1) - 1) + 1
      BY <1>3, <2>2
    <3>2. t[j] = digit[((q \div w[(j - 1) - 1]) % b) + 1]
      BY <1>3, <1>4, <3>1
    <3>3. w[(j - 1) - 1] \in Nat \ {0} /\ w[j - 1] = b * w[(j - 1) - 1]
      BY <1>2, <3>1
    <3>4. q \div w[(j - 1) - 1] = n \div w[j - 1]
      BY <1>1, <3>3, DivisionTwice DEF q
    <3> QED
      BY <3>2, <3>4
  <2> QED
    BY <2>1, <2>2
<1>8. Holds(t, n, b)
  BY <1>4, <1>6, <1>7 DEF Holds, w
<1> QED
  BY <1>8 DEF t, r

LEMMA DigitsHold ==
  ASSUME NEW b \in Bases, NEW v \in Words
  PROVE  Holds(write_digits(v, b), v, b)
<1> DEFINE rank == [u \in Words |-> u]
<1> DEFINE S == {u \in Words : Holds(write_digits(u, b), u, b)}
<1>1. ASSUME NEW u \in Words, \A y \in Words : rank[y] < rank[u] => y \in S
      PROVE  u \in S
  <2>1. u \in Nat
    BY WordsAre
  <2>2. CASE u < b
    BY <2>1, <2>2, OneDigit, DigitsWritten
  <2>3. CASE ~ (u < b)
    <3>1. u \div b \in Nat /\ u \div b < u /\ u \div b <= u
      BY <2>1, <2>3 DEF Bases
    <3>2. u \div b \in Words
      BY <3>1, WordsAre
    <3>3. Holds(write_digits(u \div b, b), u \div b, b)
      BY <1>1, <3>1, <3>2
    <3> QED
      BY <2>1, <2>3, <3>3, MoreDigits, DigitsWritten
  <2> QED
    BY <2>2, <2>3
<1>2. rank \in [Words -> Nat]
  BY WordsAre
<1>3. \A u \in Words : u \in S
  <2> HIDE DEF rank, S
  <2> QED
    BY <1>1, <1>2, RankInduction, Zenon
<1> QED
  BY <1>3

LEMMA ReverseIs ==
  ASSUME NEW s \in Characters
  PROVE  /\ Reverse(s) \in Characters /\ Len(Reverse(s)) = Len(s)
         /\ \A i \in 1 .. Len(s) : Reverse(s)[i] = s[Len(s) - i + 1]
<1>1. Len(s) \in Nat /\ \A i \in 1 .. Len(s) : s[i] \in Letters
  BY DEF Characters
<1>2. Reverse(s) = [i \in 1 .. Len(s) |-> s[(Len(s) - i) + 1]]
  BY DEF Reverse
<1>3. ASSUME NEW i \in 1 .. Len(s) PROVE (Len(s) - i) + 1 \in 1 .. Len(s)
  BY <1>1
<1>4. [i \in 1 .. Len(s) |-> s[(Len(s) - i) + 1]] \in Seq(Letters)
  BY <1>1, <1>3
<1> QED
  BY <1>1, <1>2, <1>4 DEF Characters

(* sio_printf converts a number to its numeral. *)
LEMMA UnsignedNumerals ==
  ASSUME NEW b \in Bases, NEW v \in Words
  PROVE  uintmax_to_string(v, b) = Numeral(v, b) /\ Numeral(v, b) \in Characters
<1> DEFINE s == write_digits(v, b)
<1>1. Holds(s, v, b)
  BY DigitsHold
<1>2. v \in Nat
  BY WordsAre
<1> HIDE DEF s
<1>3. /\ s \in Characters /\ IsWide(v, b, Len(s)) /\ Len(s) \in Nat
      /\ \A j \in 1 .. Len(s) : s[j] = digit[((v \div Weight(b)[j - 1]) % b) + 1]
  BY <1>1 DEF Holds, IsWide
<1>4. Places(v, b) = Len(s)
  BY <1>2, <1>3, PlacesAre
<1>5. Numeral(v, b) = [i \in 1 .. Len(s) |-> digit[((v \div Weight(b)[Len(s) - i]) % b) + 1]]
  BY <1>4 DEF Numeral
<1>6. ASSUME NEW i \in 1 .. Len(s)
      PROVE  Reverse(s)[i] = digit[((v \div Weight(b)[Len(s) - i]) % b) + 1]
  <2>1. Len(s) - i + 1 \in 1 .. Len(s) /\ (Len(s) - i + 1) - 1 = Len(s) - i
    BY <1>3
  <2>2. Reverse(s)[i] = s[Len(s) - i + 1]
    BY <1>3, ReverseIs
  <2> QED
    BY <1>3, <2>1, <2>2
<1>7. Reverse(s) = [i \in 1 .. Len(s) |-> Reverse(s)[i]]
  <2>1. Reverse(s) \in Characters /\ Len(Reverse(s)) = Len(s)
    BY <1>3, ReverseIs
  <2> QED
    BY <2>1 DEF Characters
<1>8. Reverse(s) = Numeral(v, b)
  BY <1>5, <1>6, <1>7
<1>9. Reverse(s) \in Characters
  BY <1>3, ReverseIs
<1> QED
  BY <1>8, <1>9 DEF uintmax_to_string, s

LEMMA ReverseAppend ==
  ASSUME NEW s \in Characters, NEW c \in Letters
  PROVE  Reverse(Append(s, c)) = <<c>> \o Reverse(s)
<1> DEFINE a == Append(s, c)
<1> DEFINE r == Reverse(a)
<1> DEFINE t == <<c>> \o Reverse(s)
<1>1. /\ a \in Characters /\ Len(a) = Len(s) + 1 /\ a[Len(s) + 1] = c /\ Len(s) \in Nat
      /\ \A i \in 1 .. Len(s) : a[i] = s[i]
  BY AppendProperties DEF Characters
<1> HIDE DEF a
<1>2. /\ r \in Characters /\ Len(r) = Len(a)
      /\ \A i \in 1 .. Len(a) : r[i] = a[Len(a) - i + 1]
  BY <1>1, ReverseIs
<1>3. /\ Reverse(s) \in Characters /\ Len(Reverse(s)) = Len(s)
      /\ \A i \in 1 .. Len(s) : Reverse(s)[i] = s[Len(s) - i + 1]
  BY ReverseIs
<1>4. /\ t \in Characters /\ Len(t) = 1 + Len(s)
      /\ \A i \in 1 .. 1 + Len(s) : t[i] = IF i <= 1 THEN c ELSE Reverse(s)[i - 1]
  <2>1. <<c>> \in Characters /\ Len(<<c>>) = 1 /\ <<c>>[1] = c
    BY DEF Characters
  <2>2. /\ t \in Characters /\ Len(t) = Len(<<c>>) + Len(Reverse(s))
        /\ \A i \in 1 .. Len(<<c>>) + Len(Reverse(s)) :
             t[i] = IF i <= Len(<<c>>) THEN <<c>>[i] ELSE Reverse(s)[i - Len(<<c>>)]
    BY <1>3, <2>1, ConcatProperties DEF Characters
  <2>3. \A i \in 1 .. 1 + Len(s) : i <= 1 => i = 1
    OBVIOUS
  <2> HIDE DEF t
  <2> QED
    BY <1>3, <2>1, <2>2, <2>3
<1> HIDE DEF r, t
<1>5. ASSUME NEW i \in 1 .. Len(r) PROVE r[i] = t[i]
  <2>1. i \in 1 .. Len(s) + 1 /\ r[i] = a[Len(s) + 1 - i + 1]
    BY <1>1, <1>2
  <2>2. CASE i = 1
    <3>1. Len(s) + 1 - i + 1 = Len(s) + 1 /\ t[i] = c
      BY <1>1, <1>4, <2>2
    <3> QED
      BY <1>1, <2>1, <3>1
  <2>3. CASE i # 1
    <3>1. /\ i - 1 \in 1 .. Len(s) /\ Len(s) + 1 - i + 1 \in 1 .. Len(s)
          /\ Len(s) + 1 - i + 1 = Len(s) - (i - 1) + 1 /\ ~ (i <= 1)
      BY <1>1, <2>1, <2>3
    <3>2. t[i] = Reverse(s)[i - 1]
      BY <1>1, <1>4, <2>1, <3>1
    <3> QED
      BY <1>1, <1>3, <2>1, <3>1, <3>2
  <2> QED
    BY <2>2, <2>3
<1>6. r = t
  <2>1. Len(r) = Len(t)
    BY <1>1, <1>2, <1>4
  <2> QED
    BY <1>2, <1>4, <1>5, <2>1, SeqEqual DEF Characters
<1> QED
  BY <1>6 DEF r, t, a

(* What a word is worth. *)
LEMMA FetchIs ==
  ASSUME NEW w \in Words, NEW size
  PROVE  /\ Fetch(w, size, FALSE) \in Words
         /\ Fetch(w, size, TRUE) \in Int
         /\ Fetch(w, size, TRUE) >= 0 => Fetch(w, size, TRUE) \in Words
         /\ Fetch(w, size, TRUE) < 0 => -Fetch(w, size, TRUE) \in Words
<1> DEFINE bits == IF size = "" THEN IntBits ELSE LongBits
<1> DEFINE low == w % 2^bits
<1>1. bits \in Nat \ {0} /\ bits \in 0 .. LongBits /\ bits - 1 \in Nat
  <2>1. /\ IntBits \in Nat \ {0} /\ IntBits \in 0 .. LongBits /\ IntBits - 1 \in Nat
        /\ LongBits \in Nat \ {0} /\ LongBits \in 0 .. LongBits /\ LongBits - 1 \in Nat
    BY Widths
  <2>2. bits = IntBits \/ bits = LongBits
    OBVIOUS
  <2> HIDE DEF bits
  <2> QED
    BY <2>1, <2>2
<1>2. /\ 2^bits \in Nat /\ 2^bits >= 1 /\ 2^bits <= 2^LongBits
      /\ 2^(bits - 1) \in Nat /\ 2^(bits - 1) >= 1 /\ 2^(bits - 1) < 2^bits
  <2> HIDE DEF bits
  <2>1. 2^bits \in Nat /\ 2^bits >= 1 /\ 2^(bits - 1) < 2^bits
    BY <1>1, PowersOfTwo
  <2>2. 2^(bits - 1) \in Nat /\ 2^(bits - 1) >= 1
    BY <1>1, PowersOfTwo
  <2>3. 2^bits <= 2^LongBits
    BY <1>1, Widths, PowersOfTwo
  <2> QED
    BY <2>1, <2>2, <2>3
<1>3. w \in Nat /\ 2^LongBits \in Nat /\ Words = 0 .. 2^LongBits - 1
  BY WordsAre
<1>4. low \in 0 .. 2^bits - 1
  <2>1. ASSUME NEW m \in Nat, m >= 1 PROVE w % m \in 0 .. m - 1
    BY <1>3, <2>1
  <2> HIDE DEF bits
  <2> QED
    BY <1>2, <2>1
<1>5. Fetch(w, size, FALSE) = low
  BY DEF Fetch
<1>6. Fetch(w, size, TRUE) = IF low >= 2^(bits - 1) THEN low - 2^bits ELSE low
  BY DEF Fetch, Signed
<1> HIDE DEF bits, low
<1>7. /\ low \in Words
      /\ Fetch(w, size, TRUE) \in Int
      /\ Fetch(w, size, TRUE) >= 0 => Fetch(w, size, TRUE) \in Words
      /\ Fetch(w, size, TRUE) < 0 => -Fetch(w, size, TRUE) \in Words
  <2>1. PICK long, m, half, v : /\ long = 2^LongBits /\ m = 2^bits /\ half = 2^(bits - 1)
                                /\ v = Fetch(w, size, TRUE)
    OBVIOUS
  <2>2. /\ long \in Nat /\ m \in Nat /\ half \in Nat /\ m <= long /\ half >= 1
        /\ low \in 0 .. m - 1 /\ v = IF low >= half THEN low - m ELSE low
        /\ Words = 0 .. long - 1
    BY <1>2, <1>3, <1>4, <1>6, <2>1
  <2>3. low \in Words /\ v \in Int /\ (v >= 0 => v \in Words) /\ (v < 0 => -v \in Words)
    BY <2>2
  <2> QED
    BY <2>1, <2>3
<1> QED
  BY <1>5, <1>7

LEMMA SignedNumerals ==
  ASSUME NEW v \in Int, v >= 0 => v \in Words, v < 0 => -v \in Words
  PROVE  /\ intmax_to_string(v, 10) = SignedNumeral(v)
         /\ SignedNumeral(v) \in Characters
<1>0. 10 \in Bases /\ "-" \in Letters
  BY DEF Bases, Letters
<1>1. CASE v < 0
  <2>1. -v \in Words /\ -v \in 0 .. 2^LongBits - 1 /\ 2^LongBits \in Nat \ {0}
    BY <1>1, WordsAre
  <2>2. (-v) % 2^LongBits = -v
    <3>1. ASSUME NEW m \in Nat \ {0}, NEW n \in 0 .. m - 1 PROVE n % m = n
      OBVIOUS
    <3>2. PICK m \in Nat \ {0} : m = 2^LongBits
      BY <2>1
    <3>3. PICK n \in 0 .. m - 1 : n = -v
      BY <2>1, <3>2
    <3>4. n % m = n
      BY <3>1
    <3> QED
      BY <3>2, <3>3, <3>4, Zenon
  <2>3. intmax_to_string(v, 10) = Reverse(Append(write_digits(-v, 10), "-"))
    BY <1>1, <2>2 DEF intmax_to_string
  <2>4. write_digits(-v, 10) \in Characters
    BY <1>0, <2>1, DigitsWritten
  <2>5. intmax_to_string(v, 10) = <<"-">> \o Reverse(write_digits(-v, 10))
    BY <1>0, <2>3, <2>4, ReverseAppend
  <2>6. Reverse(write_digits(-v, 10)) = Numeral(-v, 10) /\ Numeral(-v, 10) \in Characters
    BY <1>0, <2>1, UnsignedNumerals DEF uintmax_to_string
  <2>7. SignedNumeral(v) = <<"-">> \o Numeral(-v, 10)
    BY <1>1 DEF SignedNumeral
  <2>8. <<"-">> \o Numeral(-v, 10) \in Characters
    <3>1. <<"-">> \in Characters
      BY <1>0 DEF Characters
    <3> QED
      BY <2>6, <3>1, ConcatProperties DEF Characters
  <2> QED
    BY <2>5, <2>6, <2>7, <2>8
<1>2. CASE ~ (v < 0)
  <2>1. v \in Words
    BY <1>2
  <2>2. intmax_to_string(v, 10) = uintmax_to_string(v, 10)
    BY <1>2 DEF intmax_to_string, uintmax_to_string
  <2>3. SignedNumeral(v) = Numeral(v, 10)
    BY <1>2 DEF SignedNumeral
  <2> QED
    BY <1>0, <2>1, <2>2, <2>3, UnsignedNumerals
<1> QED
  BY <1>1, <1>2

(* What sio_printf makes of an integer is what printf makes of it. *)
LEMMA ConversionsAgree ==
  ASSUME NEW c \in IntConversions, NEW size, NEW w \in Words
  PROVE  /\ ConvertInt(c, size, w) = Converted(c, size, w)
         /\ Converted(c, size, w) \in Characters
<1>1. c = "d" \/ c = "i" \/ c = "u" \/ c = "x"
  BY DEF IntConversions
<1>2. 10 \in Bases /\ 16 \in Bases
  BY DEF Bases
<1> DEFINE v == Fetch(w, size, TRUE)
<1> DEFINE u == Fetch(w, size, FALSE)
<1>3. u \in Words /\ v \in Int /\ (v >= 0 => v \in Words) /\ (v < 0 => -v \in Words)
  BY FetchIs
<1>4. CASE c = "d" \/ c = "i"
  <2>1. /\ ConvertInt(c, size, w) = intmax_to_string(v, 10)
        /\ Converted(c, size, w) = SignedNumeral(v)
    BY <1>4 DEF ConvertInt, Converted
  <2> HIDE DEF v
  <2> QED
    BY <1>3, <2>1, SignedNumerals
<1>5. CASE c = "u"
  <2>1. /\ ConvertInt(c, size, w) = uintmax_to_string(u, 10)
        /\ Converted(c, size, w) = Numeral(u, 10)
    BY <1>5 DEF ConvertInt, Converted
  <2> HIDE DEF u
  <2> QED
    BY <1>2, <1>3, <2>1, UnsignedNumerals
<1>6. CASE c = "x"
  <2>1. /\ ConvertInt(c, size, w) = uintmax_to_string(u, 16)
        /\ Converted(c, size, w) = Numeral(u, 16)
    BY <1>6 DEF ConvertInt, Converted
  <2> HIDE DEF u
  <2> QED
    BY <1>2, <1>3, <2>1, UnsignedNumerals
<1> QED
  BY <1>1, <1>4, <1>5, <1>6

LEMMA OtherConversions ==
  ASSUME NEW c \in {"c", "s"}, NEW w \in Words
  PROVE  ConvertOther(c, w) = Converted(c, "", w) /\ Converted(c, "", w) \in Characters
<1>1. Converted(c, "", w) = ConvertOther(c, w)
  BY DEF Converted
<1>2. w \in Nat
  BY WordsAre
<1>3. CASE c = "c"
  <2>1. w % 16 \in 0 .. 15
    BY <1>2
  <2> QED
    BY <1>1, <1>3, <2>1, DigitsAre DEF ConvertOther
<1>4. CASE c = "s"
  <2>1. Len(Strings) \in Nat \ {0} /\ \A k \in 1 .. Len(Strings) : Strings[k] \in Seq(STRING)
    BY Texts
  <2>2. (w % Len(Strings)) + 1 \in 1 .. Len(Strings)
    BY <1>2, <2>1, Division
  <2>3. Seq(STRING) \subseteq Characters
    <3>1. STRING \subseteq Letters
      BY DEF Letters
    <3> QED
      BY <3>1, SeqMonotonic DEF Characters
  <2>4. Strings[(w % Len(Strings)) + 1] \in Characters
    BY <2>1, <2>2, <2>3
  <2> QED
    BY <1>1, <1>4, <2>4 DEF ConvertOther
<1> QED
  BY <1>3, <1>4

-----------------------------------------------------------------------------
(* The text of the format.                                                 *)

LEMMA CharIs ==
  ASSUME fmt \in Characters, NEW p \in Nat \ {0}, NEW c, Char(p) = c, c # "NUL"
  PROVE  p \in 1 .. Len(fmt) /\ fmt[p] = c
<1>1. Len(fmt) \in Nat
  BY DEF Characters
<1>2. p <= Len(fmt)
  BY DEF Char
<1> QED
  BY <1>1, <1>2 DEF Char

LEMMA HandledIs ==
  ASSUME fmt \in Characters, NEW p \in 1 .. Len(fmt), Handled(p)
  PROVE  /\ fmt[p] = "%" /\ p + 1 \in 1 .. Len(fmt)
         /\ \/ fmt[p + 1] = "%"
            \/ fmt[p + 1] \in {"c", "s"}
            \/ fmt[p + 1] \in IntConversions
            \/ /\ fmt[p + 1] \in {"l", "z"}
               /\ p + 2 \in 1 .. Len(fmt) /\ fmt[p + 2] \in IntConversions
<1>1. Len(fmt) \in Nat /\ p + 1 \in Nat \ {0} /\ p + 2 \in Nat \ {0}
  BY DEF Characters
<1>2. fmt[p] = "%"
  BY DEF Handled, Char
<1>3. "NUL" \notin {"c", "s", "%"} \cup IntConversions /\ "NUL" \notin {"l", "z"}
  BY DEF IntConversions
<1>4. p + 1 \in 1 .. Len(fmt) /\ Char(p + 1) = fmt[p + 1]
  <2>1. Char(p + 1) # "NUL"
    BY <1>3 DEF Handled
  <2> QED
    BY <1>1, <2>1, CharIs
<1>5. CASE Char(p + 1) \in {"c", "s", "%"} \cup IntConversions
  BY <1>2, <1>4, <1>5
<1>6. CASE Char(p + 1) \in {"l", "z"} /\ Char(p + 2) \in IntConversions
  <2>1. p + 2 \in 1 .. Len(fmt) /\ Char(p + 2) = fmt[p + 2]
    BY <1>1, <1>3, <1>6, CharIs
  <2> QED
    BY <1>2, <1>4, <1>6, <2>1
<1> QED
  BY <1>5, <1>6 DEF Handled

(* A turn of the text, when f gives what follows. *)
Turn(f, args, p, k) ==
  IF p > Len(fmt) THEN <<>>
  ELSE IF ~Handled(p) THEN <<fmt[p]>> \o f[p + 1][k]
  ELSE IF fmt[p + 1] = "%" THEN <<"%">> \o f[p + 2][k]
  ELSE IF k > Len(args) THEN <<>>
  ELSE IF fmt[p + 1] \in {"l", "z"}
  THEN Converted(fmt[p + 2], fmt[p + 1], args[k]) \o f[p + 3][k + 1]
  ELSE Converted(fmt[p + 1], "", args[k]) \o f[p + 2][k + 1]

LEMMA TurnIs ==
  ASSUME fmt \in Characters, NEW args \in Seq(Words), NEW p \in 1 .. Len(fmt) + 3,
         NEW k \in 1 .. Len(args) + 1,
         NEW f, NEW g,
         \A q \in 1 .. Len(fmt) + 3 :
            q > p => f[q] = g[q] /\ f[q] \in [1 .. Len(args) + 1 -> Characters]
  PROVE  /\ Turn(f, args, p, k) \in Characters
         /\ Turn(f, args, p, k) = Turn(g, args, p, k)
<1>0. /\ Len(fmt) \in Nat /\ Len(args) \in Nat /\ \A q \in 1 .. Len(fmt) : fmt[q] \in Letters
      /\ \A m \in 1 .. Len(args) : args[m] \in Words
  BY DEF Characters
<1>c. ASSUME NEW s \in Characters, NEW t \in Characters PROVE s \o t \in Characters
  BY ConcatProperties DEF Characters
<1>1. CASE p > Len(fmt)
  <2>1. <<>> \in Characters
    BY DEF Characters
  <2> QED
    BY <1>1, <2>1 DEF Turn
<1>2. CASE ~ (p > Len(fmt)) /\ ~ Handled(p)
  <2>1. Turn(f, args, p, k) = <<fmt[p]>> \o f[p + 1][k]
        /\ Turn(g, args, p, k) = <<fmt[p]>> \o g[p + 1][k]
    BY <1>2 DEF Turn
  <2>2. p + 1 \in 1 .. Len(fmt) + 3 /\ p + 1 > p /\ p \in 1 .. Len(fmt)
    BY <1>0, <1>2
  <2>3. f[p + 1][k] \in Characters /\ f[p + 1] = g[p + 1]
    BY <2>2
  <2>4. <<fmt[p]>> \in Characters
    BY <1>0, <2>2 DEF Characters
  <2> QED
    BY <1>c, <2>1, <2>3, <2>4
<1>3. CASE ~ (p > Len(fmt)) /\ Handled(p) /\ fmt[p + 1] = "%"
  <2>1. Turn(f, args, p, k) = <<"%">> \o f[p + 2][k]
        /\ Turn(g, args, p, k) = <<"%">> \o g[p + 2][k]
    BY <1>3 DEF Turn
  <2>2. p + 2 \in 1 .. Len(fmt) + 3 /\ p + 2 > p
    BY <1>0, <1>3
  <2>3. f[p + 2][k] \in Characters /\ f[p + 2] = g[p + 2]
    BY <2>2
  <2>4. <<"%">> \in Characters
    BY DEF Characters, Letters
  <2> QED
    BY <1>c, <2>1, <2>3, <2>4
<1>4. CASE ~ (p > Len(fmt)) /\ Handled(p) /\ fmt[p + 1] # "%" /\ k > Len(args)
  <2>1. <<>> \in Characters
    BY DEF Characters
  <2> QED
    BY <1>4, <2>1 DEF Turn
<1>5. CASE ~ (p > Len(fmt)) /\ Handled(p) /\ fmt[p + 1] # "%" /\ ~ (k > Len(args))
           /\ fmt[p + 1] \in {"l", "z"}
  <2>1. Turn(f, args, p, k) = Converted(fmt[p + 2], fmt[p + 1], args[k]) \o f[p + 3][k + 1]
        /\ Turn(g, args, p, k) = Converted(fmt[p + 2], fmt[p + 1], args[k]) \o g[p + 3][k + 1]
    BY <1>5, Zenon DEF Turn
  <2>2. /\ p + 3 \in 1 .. Len(fmt) + 3 /\ p + 3 > p /\ p \in 1 .. Len(fmt)
        /\ k \in 1 .. Len(args) /\ k + 1 \in 1 .. Len(args) + 1
    BY <1>0, <1>5
  <2>3. f[p + 3][k + 1] \in Characters /\ f[p + 3] = g[p + 3]
    BY <2>2
  <2>4. fmt[p + 2] \in IntConversions
    <3>1. "l" \notin {"c", "s"} \cup IntConversions /\ "z" \notin {"c", "s"} \cup IntConversions
      BY DEF IntConversions
    <3> QED
      BY <1>5, <2>2, <3>1, HandledIs
  <2>5. Converted(fmt[p + 2], fmt[p + 1], args[k]) \in Characters
    BY <1>0, <2>2, <2>4, ConversionsAgree
  <2> QED
    BY <1>c, <2>1, <2>3, <2>5
<1>6. CASE ~ (p > Len(fmt)) /\ Handled(p) /\ fmt[p + 1] # "%" /\ ~ (k > Len(args))
           /\ fmt[p + 1] \notin {"l", "z"}
  <2>1. Turn(f, args, p, k) = Converted(fmt[p + 1], "", args[k]) \o f[p + 2][k + 1]
        /\ Turn(g, args, p, k) = Converted(fmt[p + 1], "", args[k]) \o g[p + 2][k + 1]
    BY <1>6, Zenon DEF Turn
  <2>2. /\ p + 2 \in 1 .. Len(fmt) + 3 /\ p + 2 > p /\ p \in 1 .. Len(fmt)
        /\ k \in 1 .. Len(args) /\ k + 1 \in 1 .. Len(args) + 1
    BY <1>0, <1>6
  <2>3. f[p + 2][k + 1] \in Characters /\ f[p + 2] = g[p + 2]
    BY <2>2
  <2>4. fmt[p + 1] \in {"c", "s"} \/ fmt[p + 1] \in IntConversions
    BY <1>6, <2>2, HandledIs
  <2>5. Converted(fmt[p + 1], "", args[k]) \in Characters
    BY <1>0, <2>2, <2>4, ConversionsAgree, OtherConversions
  <2> QED
    BY <1>c, <2>1, <2>3, <2>5
<1> QED
  BY <1>1, <1>2, <1>3, <1>4, <1>5, <1>6

LEMMA TextIs ==
  ASSUME fmt \in Characters, NEW args \in Seq(Words)
  PROVE  \A p \in 1 .. Len(fmt) + 3 : \A k \in 1 .. Len(args) + 1 :
           /\ TextFrom(args)[p][k] \in Characters
           /\ TextFrom(args)[p][k] = Turn(TextFrom(args), args, p, k)
<1> DEFINE D == 1 .. Len(fmt) + 3
<1> DEFINE K == 1 .. Len(args) + 1
<1> DEFINE V == [K -> Characters]
<1> DEFINE rank == [p \in D |-> Len(fmt) + 3 - p]
<1> DEFINE Phi == [f \in [D -> V] |-> [p \in D |-> [k \in K |-> Turn(f, args, p, k)]]]
<1>0. /\ Len(fmt) \in Nat /\ Len(args) \in Nat /\ rank \in [D -> Nat]
      /\ \A p, q \in D : q > p <=> rank[q] < rank[p]
  BY DEF Characters
<1>1. Contracts(Phi, D, V, rank)
  <2>1. Phi \in [[D -> V] -> [D -> V]]
    <3>1. ASSUME NEW f \in [D -> V], NEW p \in D, NEW k \in K
          PROVE  Turn(f, args, p, k) \in Characters
      <4>1. \A q \in 1 .. Len(fmt) + 3 :
               q > p => f[q] = f[q] /\ f[q] \in [1 .. Len(args) + 1 -> Characters]
        OBVIOUS
      <4> QED
        BY <4>1, TurnIs, Zenon
    <3> QED
      BY <3>1
  <2>2. ASSUME NEW f \in [D -> V], NEW g \in [D -> V], NEW p \in D,
               \A q \in D : rank[q] < rank[p] => f[q] = g[q]
        PROVE  Phi[f][p] = Phi[g][p]
    <3>1. \A q \in 1 .. Len(fmt) + 3 :
             q > p => f[q] = g[q] /\ f[q] \in [1 .. Len(args) + 1 -> Characters]
      BY <1>0, <2>2
    <3>2. \A k \in K : Turn(f, args, p, k) = Turn(g, args, p, k)
      BY <3>1, TurnIs, Zenon
    <3> QED
      BY <3>2
  <2>3. V # {}
    <3>1. [k \in K |-> <<>>] \in V
      BY DEF Characters
    <3> QED
      BY <3>1
  <2> HIDE DEF Phi, rank, V, K, D
  <2> QED
    BY <1>0, <2>1, <2>2, <2>3 DEF Contracts
<1>2. HasSolution(Phi, D, V)
  <2> HIDE DEF Phi, rank, V, K, D
  <2> QED
    BY <1>1, RecursionExists, Zenon
<1> DEFINE T == TextFrom(args)
<1>3. T = [p \in D |-> [k \in K |-> Turn(T, args, p, k)]]
  <2>1. \E f : f = [p \in D |-> [k \in K |-> Turn(f, args, p, k)]]
    BY <1>2 DEF HasSolution
  <2>2. T = CHOOSE f : f = [p \in D |-> [k \in K |-> Turn(f, args, p, k)]]
    BY Zenon DEF TextFrom, Turn
  <2> HIDE DEF T, Phi, rank, K, D
  <2> QED
    BY <2>1, <2>2, Zenon
<1> HIDE DEF T, Phi
<1>4. \A p \in D : T[p] = [k \in K |-> Turn(T, args, p, k)]
  BY <1>3, Zenon
<1>5. \A p \in D : p \in {q \in D : T[q] \in V}
  <2> DEFINE S == {q \in D : T[q] \in V}
  <2>1. ASSUME NEW p \in D, \A q \in D : rank[q] < rank[p] => q \in S
        PROVE  p \in S
    <3>1. \A q \in 1 .. Len(fmt) + 3 :
             q > p => T[q] = T[q] /\ T[q] \in [1 .. Len(args) + 1 -> Characters]
      BY <1>0, <2>1
    <3>2. \A k \in K : Turn(T, args, p, k) \in Characters
      BY <3>1, TurnIs, Zenon
    <3> QED
      BY <1>4, <3>2
  <2> HIDE DEF rank, S, D
  <2>3. \A p \in D : p \in S
    BY <1>0, <2>1, RankInduction, Zenon
  <2> QED
    BY <2>3 DEF S
<1>6. ASSUME NEW p \in D, NEW k \in K
      PROVE  T[p][k] \in Characters /\ T[p][k] = Turn(T, args, p, k)
  <2>1. T[p] \in V /\ T[p] = [m \in K |-> Turn(T, args, p, m)]
    BY <1>4, <1>5
  <2> QED
    BY <2>1
<1> QED
  BY <1>6 DEF T


-----------------------------------------------------------------------------
(* The shell's part of the output.                                         *)

Marks == [by : {"shell", "job", "error"}, char : Letters]

OwnTurn(s, f, i) ==
  IF i = 0 THEN <<>>
  ELSE IF s[i].by = "shell" THEN Append(f[i - 1], s[i].char)
  ELSE f[i - 1]

OwnUpTo(s) == CHOOSE f : f = [i \in 0 .. Len(s) |-> OwnTurn(s, f, i)]

LEMMA OwnTurnIs ==
  ASSUME NEW s \in Seq(Marks), NEW i \in 0 .. Len(s), NEW f, NEW g,
         \A j \in 0 .. Len(s) : j < i => f[j] = g[j] /\ f[j] \in Characters
  PROVE  OwnTurn(s, f, i) \in Characters /\ OwnTurn(s, f, i) = OwnTurn(s, g, i)
<1>0. Len(s) \in Nat
  OBVIOUS
<1>1. CASE i = 0
  <2>1. <<>> \in Characters
    BY DEF Characters
  <2> QED
    BY <1>1, <2>1 DEF OwnTurn
<1>2. CASE i # 0
  <2>1. i - 1 \in 0 .. Len(s) /\ i - 1 < i /\ i \in 1 .. Len(s)
    BY <1>0, <1>2
  <2>2. f[i - 1] = g[i - 1] /\ f[i - 1] \in Characters
    BY <2>1
  <2>3. s[i] \in Marks
    BY <2>1
  <2>4. s[i].char \in Letters
    BY <2>3 DEF Marks
  <2>5. Append(f[i - 1], s[i].char) \in Characters
    BY <2>2, <2>4 DEF Characters
  <2> QED
    BY <1>2, <2>2, <2>5 DEF OwnTurn
<1> QED
  BY <1>1, <1>2

LEMMA OwnUpToIs ==
  ASSUME NEW s \in Seq(Marks)
  PROVE  \A i \in 0 .. Len(s) : /\ OwnUpTo(s)[i] \in Characters
                                /\ OwnUpTo(s)[i] = OwnTurn(s, OwnUpTo(s), i)
<1> DEFINE D == 0 .. Len(s)
<1> DEFINE rank == [i \in D |-> i]
<1> DEFINE Phi == [f \in [D -> Characters] |-> [i \in D |-> OwnTurn(s, f, i)]]
<1>0. Len(s) \in Nat /\ rank \in [D -> Nat] /\ \A i, j \in D : j < i <=> rank[j] < rank[i]
  OBVIOUS
<1>1. Contracts(Phi, D, Characters, rank)
  <2>1. Phi \in [[D -> Characters] -> [D -> Characters]]
    <3>1. ASSUME NEW f \in [D -> Characters], NEW i \in D
          PROVE  OwnTurn(s, f, i) \in Characters
      <4>1. \A j \in 0 .. Len(s) : j < i => f[j] = f[j] /\ f[j] \in Characters
        OBVIOUS
      <4> QED
        BY <4>1, OwnTurnIs, Zenon
    <3> QED
      BY <3>1
  <2>2. ASSUME NEW f \in [D -> Characters], NEW g \in [D -> Characters], NEW i \in D,
               \A j \in D : rank[j] < rank[i] => f[j] = g[j]
        PROVE  Phi[f][i] = Phi[g][i]
    <3>1. \A j \in 0 .. Len(s) : j < i => f[j] = g[j] /\ f[j] \in Characters
      BY <1>0, <2>2
    <3>2. OwnTurn(s, f, i) = OwnTurn(s, g, i)
      BY <3>1, OwnTurnIs, Zenon
    <3> QED
      BY <3>2
  <2>3. Characters # {}
    <3>1. <<>> \in Characters
      BY DEF Characters
    <3> QED
      BY <3>1
  <2> HIDE DEF Phi, rank, D
  <2> QED
    BY <1>0, <2>1, <2>2, <2>3 DEF Contracts
<1>2. HasSolution(Phi, D, Characters)
  <2> HIDE DEF Phi, rank, D
  <2> QED
    BY <1>1, RecursionExists, Zenon
<1> DEFINE T == OwnUpTo(s)
<1>3. T = [i \in D |-> OwnTurn(s, T, i)]
  <2>1. \E f : f = [i \in D |-> OwnTurn(s, f, i)]
    BY <1>2 DEF HasSolution
  <2>2. T = CHOOSE f : f = [i \in D |-> OwnTurn(s, f, i)]
    BY Zenon DEF OwnUpTo
  <2> HIDE DEF T, Phi, rank, D
  <2> QED
    BY <2>1, <2>2, Zenon
<1> HIDE DEF T, Phi
<1>4. \A i \in D : T[i] = OwnTurn(s, T, i)
  BY <1>3, Zenon
<1>5. \A i \in D : i \in {j \in D : T[j] \in Characters}
  <2> DEFINE S == {j \in D : T[j] \in Characters}
  <2>1. ASSUME NEW i \in D, \A j \in D : rank[j] < rank[i] => j \in S
        PROVE  i \in S
    <3>1. \A j \in 0 .. Len(s) : j < i => T[j] = T[j] /\ T[j] \in Characters
      BY <1>0, <2>1
    <3>2. OwnTurn(s, T, i) \in Characters
      BY <3>1, OwnTurnIs, Zenon
    <3> QED
      BY <1>4, <3>2
  <2> HIDE DEF rank, S, D
  <2>3. \A i \in D : i \in S
    BY <1>0, <2>1, RankInduction, Zenon
  <2> QED
    BY <2>3 DEF S
<1> QED
  BY <1>4, <1>5 DEF T

LEMMA OwnTextIs ==
  ASSUME NEW s \in Seq(Marks)
  PROVE  OwnText(s) = OwnUpTo(s)[Len(s)] /\ OwnText(s) \in Characters
<1>1. OwnText(s) = OwnUpTo(s)[Len(s)]
  BY Zenon DEF OwnText, OwnUpTo, OwnTurn
<1>2. Len(s) \in 0 .. Len(s)
  OBVIOUS
<1> QED
  BY <1>1, <1>2, OwnUpToIs

LEMMA OwnTextOfNothing == OwnText(<<>>) = <<>>
<1> DEFINE s == <<>>
<1>1. s \in Seq(Marks) /\ Len(s) = 0 /\ 0 \in 0 .. Len(s)
  OBVIOUS
<1> HIDE DEF s
<1>2. OwnText(s) = OwnTurn(s, OwnUpTo(s), 0)
  BY <1>1, OwnTextIs, OwnUpToIs
<1> QED
  BY <1>2 DEF OwnTurn, s

LEMMA OwnTextOfOneMore ==
  ASSUME NEW s \in Seq(Marks), NEW m \in Marks
  PROVE  OwnText(Append(s, m)) =
           IF m.by = "shell" THEN Append(OwnText(s), m.char) ELSE OwnText(s)
<1> DEFINE a == Append(s, m)
<1> DEFINE f == OwnUpTo(a)
<1> DEFINE g == OwnUpTo(s)
<1>1. /\ a \in Seq(Marks) /\ Len(a) = Len(s) + 1 /\ a[Len(s) + 1] = m /\ Len(s) \in Nat
      /\ \A i \in 1 .. Len(s) : a[i] = s[i]
  BY AppendProperties
<1> HIDE DEF a
<1>2. /\ \A i \in 0 .. Len(s) + 1 : f[i] = OwnTurn(a, f, i)
      /\ \A i \in 0 .. Len(s) : g[i] = OwnTurn(s, g, i)
  BY <1>1, OwnUpToIs
<1>3. OwnText(a) = f[Len(s) + 1] /\ OwnText(s) = g[Len(s)]
  BY <1>1, OwnTextIs
<1> HIDE DEF f, g
<1> DEFINE S == {i \in 0 .. Len(s) : f[i] = g[i]}
<1>4. \A i \in 0 .. Len(s) : i \in S
  <2>1. 0 \in S
    <3>1. f[0] = OwnTurn(a, f, 0) /\ g[0] = OwnTurn(s, g, 0) /\ 0 \in 0 .. Len(s)
      BY <1>1, <1>2
    <3> QED
      BY <3>1 DEF OwnTurn
  <2>2. ASSUME NEW i \in 1 .. Len(s), i - 1 \in S PROVE i \in S
    <3>1. i \in 0 .. Len(s) + 1 /\ i \in 0 .. Len(s) /\ i # 0
      BY <1>1
    <3>2. f[i] = OwnTurn(a, f, i) /\ g[i] = OwnTurn(s, g, i)
      BY <1>2, <3>1
    <3>3. a[i] = s[i] /\ f[i - 1] = g[i - 1]
      BY <1>1, <2>2
    <3>4. f[i] = g[i]
      BY <3>1, <3>2, <3>3 DEF OwnTurn
    <3> QED
      BY <3>1, <3>4
  <2> HIDE DEF S
  <2> QED
    BY <1>1, <2>1, <2>2, UpToInduction
<1>5. f[Len(s)] = g[Len(s)]
  BY <1>1, <1>4
<1>6. Len(s) + 1 # 0 /\ (Len(s) + 1) - 1 = Len(s) /\ Len(s) + 1 \in 0 .. Len(s) + 1
  BY <1>1
<1>7. f[Len(s) + 1] = OwnTurn(a, f, Len(s) + 1)
  BY <1>2, <1>6
<1>8. OwnTurn(a, f, Len(s) + 1) =
        IF m.by = "shell" THEN Append(f[Len(s)], m.char) ELSE f[Len(s)]
  BY <1>1, <1>6 DEF OwnTurn
<1> QED
  BY <1>3, <1>5, <1>7, <1>8 DEF a

LEMMA AppendToConcat ==
  ASSUME NEW s \in Characters, NEW t \in Characters, NEW c \in Letters
  PROVE  Append(s \o t, c) = s \o Append(t, c)
<1>1. Append(s \o t, c) = (s \o t) \o <<c>> /\ Append(t, c) = t \o <<c>>
  BY AppendIsConcat DEF Characters
<1>2. (s \o t) \o <<c>> = s \o (t \o <<c>>)
  BY ConcatAssociative DEF Characters
<1> QED
  BY <1>1, <1>2

(* What the shell writes is added to its part of the output, what a job       *)
(* writes is not.                                                             *)
LEMMA ShellWrites ==
  ASSUME NEW s \in Seq(Marks), NEW text \in Characters
  PROVE  /\ s \o Tagged("shell", text) \in Seq(Marks)
         /\ OwnText(s \o Tagged("shell", text)) = OwnText(s) \o text
<1> DEFINE n == Len(text)
<1> DEFINE T(i) == s \o Tagged("shell", SubSeq(text, 1, i))
<1> DEFINE S == {i \in 0 .. n : /\ T(i) \in Seq(Marks)
                                /\ OwnText(T(i)) = OwnText(s) \o SubSeq(text, 1, i)}
<1>0. /\ n \in Nat /\ SubSeq(text, 1, 0) = <<>> /\ SubSeq(text, 1, n) = text
      /\ OwnText(s) \in Characters
  BY OwnTextIs DEF Characters
<1>1. 0 \in S
  <2>1. Tagged("shell", <<>>) = <<>>
    BY DEF Tagged
  <2>2. OwnText(s) \o <<>> = OwnText(s) /\ s \o <<>> = s
    BY <1>0 DEF Characters
  <2>3. T(0) = s
    BY <1>0, <2>1, <2>2
  <2>4. 0 \in 0 .. n
    BY <1>0
  <2> HIDE DEF T, n
  <2> QED
    BY <1>0, <2>2, <2>3, <2>4
<1>2. ASSUME NEW i \in 1 .. n, i - 1 \in S PROVE i \in S
  <2> DEFINE u == SubSeq(text, 1, i - 1)
  <2> DEFINE m == [by |-> "shell", char |-> text[i]]
  <2>1. text[i] \in Letters /\ m \in Marks
    <3>1. text[i] \in Letters
      BY DEF Characters
    <3> QED
      BY <3>1 DEF Marks
  <2>2. /\ u \in Characters /\ Len(u) = i - 1
        /\ \A j \in 1 .. i - 1 : u[j] = text[j]
    BY DEF Characters
  <2>3. SubSeq(text, 1, i) = Append(u, text[i])
    <3>1. SubSeq(text, 1, i) \in Characters /\ Append(u, text[i]) \in Characters
      BY <2>1, <2>2 DEF Characters
    <3>2. Len(SubSeq(text, 1, i)) = i /\ Len(Append(u, text[i])) = i
      BY <2>2 DEF Characters
    <3>3. \A j \in 1 .. i : SubSeq(text, 1, i)[j] = Append(u, text[i])[j]
      BY <2>2 DEF Characters
    <3> HIDE DEF u
    <3> QED
      BY <3>1, <3>2, <3>3, SeqEqual DEF Characters
  <2> HIDE DEF u
  <2>4. Tagged("shell", Append(u, text[i])) = Append(Tagged("shell", u), m)
    <3> DEFINE a == Tagged("shell", Append(u, text[i]))
    <3> DEFINE b == Append(Tagged("shell", u), m)
    <3>1. /\ Append(u, text[i]) \in Characters /\ Len(Append(u, text[i])) = i
          /\ \A j \in 1 .. i - 1 : Append(u, text[i])[j] = text[j]
          /\ Append(u, text[i])[i] = text[i]
      BY <2>1, <2>2 DEF Characters
    <3>2. a = [j \in 1 .. i |-> [by |-> "shell", char |-> text[j]]]
      BY <3>1 DEF Tagged, Characters
    <3>3. Tagged("shell", u) = [j \in 1 .. i - 1 |-> [by |-> "shell", char |-> text[j]]]
      BY <2>2 DEF Tagged, Characters
    <3>4. \A j \in 1 .. i : [by |-> "shell", char |-> text[j]] \in Marks
      BY DEF Marks, Characters
    <3>5. a \in Seq(Marks) /\ Len(a) = i
      BY <3>2, <3>4
    <3>6. Tagged("shell", u) \in Seq(Marks) /\ Len(Tagged("shell", u)) = i - 1
      BY <3>3, <3>4
    <3>7. b \in Seq(Marks) /\ Len(b) = i
      BY <2>1, <3>6
    <3>8. \A j \in 1 .. i : a[j] = b[j]
      BY <3>2, <3>3, <3>6
    <3> HIDE DEF a, b
    <3> QED
      BY <3>5, <3>7, <3>8, SeqEqual DEF a, b
  <2>5. T(i - 1) \in Seq(Marks) /\ OwnText(T(i - 1)) = OwnText(s) \o u
    BY <1>2 DEF u
  <2>6. T(i) = Append(T(i - 1), m)
    <3>1. Tagged("shell", u) \in Seq(Marks)
      <4>1. Tagged("shell", u) = [j \in 1 .. i - 1 |-> [by |-> "shell", char |-> u[j]]]
        BY <2>2 DEF Tagged, Characters
      <4>2. \A j \in 1 .. i - 1 : [by |-> "shell", char |-> u[j]] \in Marks
        BY <2>2 DEF Marks, Characters
      <4> QED
        BY <4>1, <4>2
    <3>2. s \o Append(Tagged("shell", u), m) = Append(s \o Tagged("shell", u), m)
      BY <2>1, <3>1
    <3> QED
      BY <2>3, <2>4, <3>2 DEF u
  <2>7. T(i) \in Seq(Marks)
    <3> HIDE DEF T
    <3> QED
      BY <2>1, <2>5, <2>6
  <2>8. OwnText(T(i)) = Append(OwnText(s) \o u, text[i])
    <3>1. OwnText(Append(T(i - 1), m)) = Append(OwnText(T(i - 1)), text[i])
      <4> HIDE DEF T
      <4> QED
        BY <2>1, <2>5, OwnTextOfOneMore
    <3> QED
      BY <2>5, <2>6, <3>1
  <2>9. Append(OwnText(s) \o u, text[i]) = OwnText(s) \o Append(u, text[i])
    BY <1>0, <2>1, <2>2, AppendToConcat
  <2>10. i \in 0 .. n
    BY <1>0
  <2> HIDE DEF T, m
  <2> QED
    BY <2>3, <2>7, <2>8, <2>9, <2>10
<1> HIDE DEF T
<1>3. \A i \in 0 .. n : i \in S
  <2> HIDE DEF S, n
  <2> QED
    BY <1>0, <1>1, <1>2, UpToInduction
<1>4. T(n) \in Seq(Marks) /\ OwnText(T(n)) = OwnText(s) \o SubSeq(text, 1, n)
  BY <1>0, <1>3
<1> QED
  BY <1>0, <1>4 DEF T

LEMMA OthersWrite ==
  ASSUME NEW s \in Seq(Marks), NEW other \in {"job", "error"}
  PROVE  /\ s \o Tagged(other, <<"k">>) \in Seq(Marks)
         /\ OwnText(s \o Tagged(other, <<"k">>)) = OwnText(s)
<1> DEFINE m == [by |-> other, char |-> "k"]
<1>1. m \in Marks
  BY DEF Marks, Letters
<1>2. Tagged(other, <<"k">>) = <<m>>
  BY DEF Tagged
<1>3. s \o <<m>> = Append(s, m)
  BY <1>1
<1>4. m.by # "shell"
  OBVIOUS
<1> HIDE DEF m
<1>5. Append(s, m) \in Seq(Marks) /\ OwnText(Append(s, m)) = OwnText(s)
  BY <1>1, <1>4, OwnTextOfOneMore
<1> QED
  BY <1>2, <1>3, <1>5, Zenon

LEMMA NobodyWrites ==
  ASSUME NEW s \in Seq(Marks), NEW other
  PROVE  s \o Tagged(other, <<>>) = s
<1>1. Tagged(other, <<>>) = <<>>
  BY DEF Tagged
<1> QED
  BY <1>1

-----------------------------------------------------------------------------
(* The text as it is consumed.                                              *)

(* The definitions of the reference, of which the format is a parameter: what *)
(* they say does not change with anything but the format.                     *)
CharOf(format, p) == IF p <= Len(format) THEN format[p] ELSE "NUL"

HandledOf(format, p) ==
  /\ CharOf(format, p) = "%"
  /\ \/ CharOf(format, p + 1) \in {"c", "s", "%"} \cup IntConversions
     \/ CharOf(format, p + 1) \in {"l", "z"} /\ CharOf(format, p + 2) \in IntConversions

TextOf(format, args) ==
  LET text[p \in 1 .. Len(format) + 3] ==
        [k \in 1 .. Len(args) + 1 |->
           IF p > Len(format) THEN <<>>
           ELSE IF ~HandledOf(format, p) THEN <<format[p]>> \o text[p + 1][k]
           ELSE IF format[p + 1] = "%" THEN <<"%">> \o text[p + 2][k]
           ELSE IF k > Len(args) THEN <<>>
           ELSE IF format[p + 1] \in {"l", "z"}
           THEN Converted(format[p + 2], format[p + 1], args[k]) \o text[p + 3][k + 1]
           ELSE Converted(format[p + 1], "", args[k]) \o text[p + 2][k + 1]]
  IN  text

LEMMA TextIsOf == \A args : TextFrom(args) = TextOf(fmt, args)
BY Zenon DEF TextFrom, TextOf, Handled, HandledOf, Char, CharOf

LEMMA FallsThroughStays ==
  ASSUME fmt' = fmt
  PROVE  FallsThrough' = FallsThrough
BY DEF FallsThrough, Char

(* What a turn of the loop sees at pos agrees with the text. *)

LEMMA TextOfNone ==
  ASSUME fmt \in Characters, NEW args \in Seq(Words), NEW p \in 1 .. Len(fmt) + 1,
         p > Len(fmt), NEW k \in 1 .. Len(args) + 1
  PROVE  TextFrom(args)[p][k] = <<>>
<1>1. p \in 1 .. Len(fmt) + 3
  BY DEF Characters
<1>2. TextFrom(args)[p][k] = Turn(TextFrom(args), args, p, k)
  BY <1>1, TextIs
<1> QED
  BY <1>2 DEF Turn

LEMMA TextOfPlain ==
  ASSUME fmt \in Characters, NEW args \in Seq(Words), NEW p \in 1 .. Len(fmt),
         ~Handled(p), NEW k \in 1 .. Len(args) + 1
  PROVE  TextFrom(args)[p][k] = <<fmt[p]>> \o TextFrom(args)[p + 1][k]
<1>1. p \in 1 .. Len(fmt) + 3 /\ ~ (p > Len(fmt))
  BY DEF Characters
<1>2. TextFrom(args)[p][k] = Turn(TextFrom(args), args, p, k)
  BY <1>1, TextIs
<1> QED
  BY <1>1, <1>2 DEF Turn

LEMMA TextOfPercent ==
  ASSUME fmt \in Characters, NEW args \in Seq(Words), NEW p \in 1 .. Len(fmt),
         Handled(p), fmt[p + 1] = "%", NEW k \in 1 .. Len(args) + 1
  PROVE  TextFrom(args)[p][k] = <<"%">> \o TextFrom(args)[p + 2][k]
<1>1. p \in 1 .. Len(fmt) + 3 /\ ~ (p > Len(fmt))
  BY DEF Characters
<1>2. TextFrom(args)[p][k] = Turn(TextFrom(args), args, p, k)
  BY <1>1, TextIs
<1> QED
  BY <1>1, <1>2 DEF Turn

LEMMA TextOfDirective ==
  ASSUME fmt \in Characters, NEW args \in Seq(Words), NEW p \in 1 .. Len(fmt),
         Handled(p), fmt[p + 1] # "%", fmt[p + 1] \notin {"l", "z"},
         NEW k \in 1 .. Len(args)
  PROVE  TextFrom(args)[p][k] =
           Converted(fmt[p + 1], "", args[k]) \o TextFrom(args)[p + 2][k + 1]
<1>1. p \in 1 .. Len(fmt) + 3 /\ ~ (p > Len(fmt)) /\ ~ (k > Len(args))
      /\ k \in 1 .. Len(args) + 1
  BY DEF Characters
<1>2. TextFrom(args)[p][k] = Turn(TextFrom(args), args, p, k)
  BY <1>1, TextIs
<1> QED
  BY <1>1, <1>2, Zenon DEF Turn

LEMMA TextOfSizedDirective ==
  ASSUME fmt \in Characters, NEW args \in Seq(Words), NEW p \in 1 .. Len(fmt),
         Handled(p), fmt[p + 1] # "%", fmt[p + 1] \in {"l", "z"},
         NEW k \in 1 .. Len(args)
  PROVE  TextFrom(args)[p][k] =
           Converted(fmt[p + 2], fmt[p + 1], args[k]) \o TextFrom(args)[p + 3][k + 1]
<1>1. p \in 1 .. Len(fmt) + 3 /\ ~ (p > Len(fmt)) /\ ~ (k > Len(args))
      /\ k \in 1 .. Len(args) + 1
  BY DEF Characters
<1>2. TextFrom(args)[p][k] = Turn(TextFrom(args), args, p, k)
  BY <1>1, TextIs
<1> QED
  BY <1>1, <1>2, Zenon DEF Turn

LEMMA Associate ==
  ASSUME NEW s1 \in Characters, NEW s2 \in Characters, NEW s3 \in Characters
  PROVE  s1 \o (s2 \o s3) = (s1 \o s2) \o s3
BY ConcatAssociative DEF Characters

LEMMA Joined ==
  ASSUME NEW s1 \in Characters, NEW s2 \in Characters
  PROVE  s1 \o s2 \in Characters /\ Len(s1 \o s2) = Len(s1) + Len(s2)
BY ConcatProperties DEF Characters

LEMMA EmptyJoined ==
  ASSUME NEW s1 \in Characters
  PROVE  s1 \o <<>> = s1 /\ <<>> \o s1 = s1 /\ Len(s1) \in Nat
BY ConcatEmptySeq DEF Characters

LEMMA OneCharacter ==
  ASSUME fmt \in Characters, NEW p \in 1 .. Len(fmt)
  PROVE  SubSeq(fmt, p, p) = <<fmt[p]>> /\ <<fmt[p]>> \in Characters
<1>1. fmt[p] \in Letters /\ Len(fmt) \in Nat
  BY DEF Characters
<1>2. <<fmt[p]>> \in Characters
  BY <1>1 DEF Characters
<1>3. /\ SubSeq(fmt, p, p) \in Characters /\ Len(SubSeq(fmt, p, p)) = 1
      /\ SubSeq(fmt, p, p)[1] = fmt[p]
  BY <1>1 DEF Characters
<1>4. SubSeq(fmt, p, p) = <<fmt[p]>>
  <2> DEFINE a == SubSeq(fmt, p, p)
  <2> DEFINE b == <<fmt[p]>>
  <2>1. a \in Seq(Letters) /\ b \in Seq(Letters) /\ Len(a) = Len(b) /\ Len(a) = 1
    BY <1>2, <1>3 DEF Characters
  <2>2. \A i \in 1 .. Len(a) : a[i] = b[i]
    BY <1>3, <2>1
  <2> HIDE DEF a, b
  <2>3. a = b
    BY <2>1, <2>2, SeqEqual
  <2> QED
    BY <2>3 DEF a, b
<1> QED
  BY <1>2, <1>4

(* As far as the next %, the text is the format's. *)
LEMMA TextOfStretch ==
  ASSUME fmt \in Characters, NEW args \in Seq(Words), NEW p \in 1 .. Len(fmt),
         ~Handled(p), NEW e \in p + 1 .. Len(fmt) + 1,
         \A r \in p + 1 .. e - 1 : fmt[r] # "%",
         NEW k \in 1 .. Len(args) + 1
  PROVE  /\ SubSeq(fmt, p, e - 1) \in Characters
         /\ TextFrom(args)[p][k] = SubSeq(fmt, p, e - 1) \o TextFrom(args)[e][k]
<1> DEFINE T == TextFrom(args)
<1> DEFINE n == e - 1 - p
<1> DEFINE S == {i \in 0 .. n : /\ SubSeq(fmt, p, p + i) \in Characters
                                /\ T[p][k] = SubSeq(fmt, p, p + i) \o T[p + i + 1][k]}
<1>0. /\ Len(fmt) \in Nat /\ n \in Nat /\ p + n + 1 = e /\ p + n = e - 1 /\ n \in 0 .. n
      /\ p + 0 = p
  BY DEF Characters
<1>1. 0 \in S
  <2>1. T[p][k] = SubSeq(fmt, p, p) \o T[p + 1][k] /\ SubSeq(fmt, p, p) \in Characters
    BY TextOfPlain, OneCharacter
  <2> HIDE DEF T, n
  <2> QED
    BY <1>0, <2>1
<1>2. ASSUME NEW i \in 1 .. n, i - 1 \in S PROVE i \in S
  <2> DEFINE u == SubSeq(fmt, p, p + i - 1)
  <2> DEFINE c == <<fmt[p + i]>>
  <2>1. /\ p + i \in 1 .. Len(fmt) /\ p + i \in p + 1 .. e - 1 /\ p + i - 1 \in p - 1 .. Len(fmt)
        /\ p \in 1 .. Len(fmt) + 1 /\ p + i - 1 \in Int
        /\ p + i \in p + i - 1 .. Len(fmt) /\ p + (i - 1) = p + i - 1 /\ (p + i - 1) + 1 = p + i
        /\ i \in 0 .. n /\ p + i + 1 \in 1 .. Len(fmt) + 3
    BY <1>0
  <2>2. u \in Characters /\ T[p][k] = u \o T[p + i][k]
    BY <1>2, <2>1
  <2>3. ~Handled(p + i)
    <3>1. fmt[p + i] # "%"
      BY <2>1
    <3> QED
      BY <2>1, <3>1, HandledIs
  <2>4. T[p + i][k] = c \o T[p + i + 1][k]
    BY <2>1, <2>3, TextOfPlain
  <2>5. c \in Characters /\ SubSeq(fmt, p + i, p + i) = c
    BY <2>1, OneCharacter
  <2>6. T[p + i + 1][k] \in Characters
    BY <2>1, TextIs
  <2>7. SubSeq(fmt, p, p + i) = u \o c
    <3>1. SubSeq(fmt, p, p + i - 1) \o SubSeq(fmt, (p + i - 1) + 1, p + i) = SubSeq(fmt, p, p + i)
      BY <2>1, ConcatAdjacentSubSeq DEF Characters
    <3> QED
      BY <2>1, <2>5, <3>1
  <2> DEFINE v == T[p + i + 1][k]
  <2> HIDE DEF T, u, c, n, S
  <2>8. u \o c \in Characters
    BY <2>2, <2>5, Joined
  <2>9. u \o (c \o T[p + i + 1][k]) = (u \o c) \o T[p + i + 1][k]
    <3>1. u \in Characters /\ c \in Characters /\ v \in Characters
      BY <2>2, <2>5, <2>6
    <3> HIDE DEF v
    <3>2. u \o (c \o v) = (u \o c) \o v
      BY <3>1, Associate
    <3> QED
      BY <3>2 DEF v
  <2> QED
    BY <2>1, <2>2, <2>4, <2>7, <2>8, <2>9 DEF S
<1>3. \A i \in 0 .. n : i \in S
  <2> HIDE DEF S, n
  <2> QED
    BY <1>0, <1>1, <1>2, UpToInduction
<1>4. /\ SubSeq(fmt, p, p + n) \in Characters
      /\ T[p][k] = SubSeq(fmt, p, p + n) \o T[p + n + 1][k]
  <2> HIDE DEF T, n
  <2> QED
    BY <1>0, <1>3
<1> HIDE DEF T, n
<1>5. SubSeq(fmt, p, e - 1) \in Characters /\ T[p][k] = SubSeq(fmt, p, e - 1) \o T[e][k]
  BY <1>0, <1>4
<1> QED
  BY <1>5 DEF T

(* The literal stretch the loop copies ends somewhere. *)
LEMMA StretchEnds ==
  ASSUME fmt \in Characters, NEW p \in 1 .. Len(fmt)
  PROVE  \E q \in p + 1 .. Len(fmt) + 1 :
           /\ Char(q) \in {"%", "NUL"}
           /\ \A r \in p + 1 .. q - 1 : fmt[r] # "%"
<1> DEFINE S == {q \in p + 1 .. Len(fmt) + 1 : Char(q) \in {"%", "NUL"}}
<1>0. Len(fmt) \in Nat
  BY DEF Characters
<1>1. Len(fmt) + 1 \in S
  BY <1>0 DEF Char
<1>2. PICK q \in S : \A r \in S : q <= r
  <2>1. S \subseteq Nat /\ S # {}
    BY <1>0, <1>1
  <2> HIDE DEF S
  <2> QED
    BY <2>1, LeastExists
<1>3. ASSUME NEW r \in p + 1 .. q - 1, fmt[r] = "%" PROVE FALSE
  <2>1. r \in p + 1 .. Len(fmt) + 1 /\ r <= Len(fmt) /\ ~ (q <= r)
    BY <1>0, <1>2
  <2>2. r \in S
    BY <1>3, <2>1 DEF Char
  <2> QED
    BY <1>2, <2>1, <2>2
<1> QED
  BY <1>2, <1>3

-----------------------------------------------------------------------------
(* The invariant: what has been printed, what is left of this turn and the    *)
(* text of the rest of the format are the text of the format, whatever        *)
(* arguments are still to come.                                               *)

PrintInv ==
  /\ pos \in 1 .. Len(fmt) + 1
  /\ pc \in {"format", "write", "returned", "exited"}
  /\ taken \in Seq(Words) /\ str \in Characters /\ stream \in Seq(Marks)
  /\ pc = "format" => str = <<>>
  /\ num_written = Len(Printed) + Len(str)
  /\ \A rest \in Seq(Words) :
       TextOf(fmt, taken \o rest)[1][1] =
         Printed \o (str \o TextOf(fmt, taken \o rest)[pos][Len(taken) + 1])
  /\ pc = "returned" /\ ret >= 0 => pos > Len(fmt) /\ str = <<>> /\ ret = num_written
  /\ pc = "exited" => checked /\ ret = -1

IInv == fmt \in Formats /\ (~FallsThrough => PrintInv)

LEMMA FormatsAre == fmt \in Formats => fmt \in Characters
<1> SUFFICES ASSUME fmt \in Formats PROVE fmt \in Characters
  OBVIOUS
<1>1. fmt \in Seq(STRING)
  BY Texts
<1>2. \A i \in 1 .. Len(fmt) : fmt[i] \in Letters
  BY <1>1 DEF Letters
<1>3. Len(fmt) \in Nat /\ fmt = [i \in 1 .. Len(fmt) |-> fmt[i]]
  BY <1>1
<1> QED
  BY <1>2, <1>3 DEF Characters

LEMMA PrintedIs ==
  ASSUME stream \in Seq(Marks)
  PROVE  Printed \in Characters /\ Len(Printed) \in Nat
<1>1. Printed \in Characters
  BY OwnTextIs DEF Printed
<1> QED
  BY <1>1 DEF Characters

(* Arguments still to come follow those fetched. *)
LEMMA Arguments ==
  ASSUME NEW some \in Seq(Words), NEW more \in Seq(Words), NEW rest \in Seq(Words)
  PROVE  /\ more \o rest \in Seq(Words) /\ some \o more \in Seq(Words)
         /\ (some \o more) \o rest = some \o (more \o rest)
         /\ some \o (more \o rest) \in Seq(Words)
         /\ Len(some \o more) = Len(some) + Len(more)
         /\ Len(some \o (more \o rest)) = Len(some) + (Len(more) + Len(rest))
         /\ Len(some) \in Nat /\ Len(more) \in Nat /\ Len(rest) \in Nat
<1>1. /\ more \o rest \in Seq(Words) /\ some \o more \in Seq(Words)
      /\ Len(some \o more) = Len(some) + Len(more)
      /\ Len(more \o rest) = Len(more) + Len(rest)
  BY ConcatProperties
<1>2. /\ some \o (more \o rest) \in Seq(Words)
      /\ Len(some \o (more \o rest)) = Len(some) + Len(more \o rest)
  BY <1>1, ConcatProperties
<1>3. (some \o more) \o rest = some \o (more \o rest)
  BY ConcatAssociative
<1> QED
  BY <1>1, <1>2, <1>3

(* A turn that fetches the arguments more, prints t and goes on at q. *)
LEMMA Turned ==
  ASSUME fmt \in Characters, PrintInv, pc = "format",
         NEW more \in Seq(Words), NEW t \in Characters, NEW q \in 1 .. Len(fmt) + 1,
         Output(t), pos' = q, taken' = taken \o more,
         \A rest \in Seq(Words) :
            TextFrom(taken \o (more \o rest))[pos][Len(taken) + 1] =
              t \o TextFrom(taken \o (more \o rest))[q][Len(taken) + Len(more) + 1]
  PROVE  PrintInv'
<1>1. /\ str = <<>> /\ taken \in Seq(Words) /\ stream \in Seq(Marks)
      /\ num_written = Len(Printed) + Len(str)
      /\ \A rest \in Seq(Words) :
           TextFrom(taken \o rest)[1][1] =
             Printed \o (str \o TextFrom(taken \o rest)[pos][Len(taken) + 1])
  BY TextIsOf DEF PrintInv
<1>2. /\ str' = t /\ pc' = (IF t = <<>> THEN "format" ELSE "write")
      /\ num_written' = num_written + Len(t)
      /\ fmt' = fmt /\ stream' = stream
  BY DEF Output
<1>3. Printed' = Printed /\ Printed \in Characters /\ Len(Printed) \in Nat
  BY <1>1, <1>2, PrintedIs DEF Printed
<1>4. Len(t) \in Nat /\ Len(str) = 0 /\ Len(fmt) \in Nat
  BY <1>1 DEF Characters
<1>5. ASSUME NEW rest \in Seq(Words)
      PROVE  TextOf(fmt', taken' \o rest)[1][1] =
               Printed' \o (str' \o TextOf(fmt', taken' \o rest)[pos'][Len(taken') + 1])
  <2> DEFINE args == taken \o (more \o rest)
  <2> DEFINE T == TextFrom(args)
  <2>1. /\ more \o rest \in Seq(Words) /\ taken' \o rest = args /\ args \in Seq(Words)
        /\ Len(taken') + 1 = Len(taken) + Len(more) + 1
        /\ Len(taken) + Len(more) + 1 \in 1 .. Len(args) + 1
        /\ Len(taken) + 1 \in 1 .. Len(args) + 1
    BY <1>1, Arguments
  <2>2. TextOf(fmt', taken' \o rest) = T
    BY <1>2, <2>1, TextIsOf
  <2>3. T[1][1] = Printed \o (<<>> \o T[pos][Len(taken) + 1])
    BY <1>1, <2>1
  <2>4. T[pos][Len(taken) + 1] = t \o T[q][Len(taken) + Len(more) + 1]
    OBVIOUS
  <2>5. T[q][Len(taken) + Len(more) + 1] \in Characters
    <3>1. q \in 1 .. Len(fmt) + 3
      BY <1>4
    <3> QED
      BY <2>1, <3>1, TextIs
  <2>6. <<>> \o (t \o T[q][Len(taken) + Len(more) + 1]) =
          t \o T[q][Len(taken) + Len(more) + 1]
    BY <2>5, Joined, EmptyJoined
  <2> HIDE DEF T, args
  <2> QED
    BY <1>2, <1>3, <2>1, <2>2, <2>3, <2>4, <2>6
<1>6. taken' \in Seq(Words)
  BY <1>1, ConcatProperties
<1>7. num_written' = Len(Printed') + Len(str')
  BY <1>1, <1>2, <1>3, <1>4
<1>8. (pos \in 1 .. Len(fmt) + 1)' /\ (str \in Characters)' /\ (stream \in Seq(Marks))'
  BY <1>1, <1>2
<1>9. /\ (pc \in {"format", "write", "returned", "exited"})'
      /\ (pc = "format" => str = <<>>)' /\ (pc # "returned")' /\ (pc # "exited")'
  BY <1>2
<1> QED
  BY <1>5, <1>6, <1>7, <1>8, <1>9 DEF PrintInv

LEMMA OneArgument ==
  ASSUME NEW some \in Seq(Words), NEW w \in Words
  PROVE  /\ <<w>> \in Seq(Words) /\ Append(some, w) = some \o <<w>>
         /\ Len(some) \in Nat
         /\ Len(some) + Len(<<w>>) + 1 = Len(some) + 1 + 1
         /\ \A rest \in Seq(Words) :
              /\ some \o (<<w>> \o rest) \in Seq(Words)
              /\ Len(some) + 1 \in 1 .. Len(some \o (<<w>> \o rest))
              /\ (some \o (<<w>> \o rest))[Len(some) + 1] = w
<1>1. <<w>> \in Seq(Words) /\ Append(some, w) = some \o <<w>> /\ Len(<<w>>) = 1
  BY AppendIsConcat
<1>2. ASSUME NEW rest \in Seq(Words)
      PROVE  /\ some \o (<<w>> \o rest) \in Seq(Words)
             /\ Len(some) + 1 \in 1 .. Len(some \o (<<w>> \o rest))
             /\ (some \o (<<w>> \o rest))[Len(some) + 1] = w
  <2> DEFINE u == <<w>> \o rest
  <2>1. u \in Seq(Words) /\ Len(u) = 1 + Len(rest) /\ u[1] = w /\ Len(rest) \in Nat
    BY <1>1, ConcatProperties
  <2> HIDE DEF u
  <2>2. /\ some \o u \in Seq(Words) /\ Len(some \o u) = Len(some) + Len(u)
        /\ \A i \in 1 .. Len(some) + Len(u) :
             (some \o u)[i] = IF i <= Len(some) THEN some[i] ELSE u[i - Len(some)]
    BY <2>1, ConcatProperties
  <2>3. /\ Len(some) \in Nat /\ Len(some) + 1 \in 1 .. Len(some) + Len(u)
        /\ ~ (Len(some) + 1 <= Len(some)) /\ (Len(some) + 1) - Len(some) = 1
    BY <2>1
  <2>4. (some \o u)[Len(some) + 1] = u[1]
    BY <2>2, <2>3
  <2> QED
    BY <2>1, <2>2, <2>3, <2>4 DEF u
<1> QED
  BY <1>1, <1>2

LEMMA NoArgument ==
  ASSUME NEW some \in Seq(Words)
  PROVE  /\ <<>> \in Seq(Words) /\ some = some \o <<>> /\ Len(some) \in Nat
         /\ Len(some) + Len(<<>>) + 1 = Len(some) + 1
         /\ \A rest \in Seq(Words) :
              /\ some \o (<<>> \o rest) \in Seq(Words)
              /\ Len(some) + 1 \in 1 .. Len(some \o (<<>> \o rest)) + 1
<1>1. <<>> \in Seq(Words) /\ some = some \o <<>> /\ Len(<<>>) = 0 /\ Len(some) \in Nat
  BY ConcatEmptySeq
<1>2. ASSUME NEW rest \in Seq(Words)
      PROVE  /\ some \o (<<>> \o rest) \in Seq(Words)
             /\ Len(some) + 1 \in 1 .. Len(some \o (<<>> \o rest)) + 1
  BY <1>1, Arguments
<1> QED
  BY <1>1, <1>2

LEMMA AfterDirective ==
  ASSUME fmt \in Characters, pos \in 1 .. Len(fmt), pos + 1 \in 1 .. Len(fmt)
  PROVE  pos + 2 \in 1 .. Len(fmt) + 1
BY DEF Characters

(* A directive of two characters, and one of three. *)
LEMMA DirectiveTurned ==
  ASSUME fmt \in Characters, PrintInv, pc = "format", pos \in 1 .. Len(fmt),
         Handled(pos), pos + 1 \in 1 .. Len(fmt),
         fmt[pos + 1] # "%", fmt[pos + 1] \notin {"l", "z"},
         NEW w \in Words, Converted(fmt[pos + 1], "", w) \in Characters,
         Output(Converted(fmt[pos + 1], "", w)), pos' = pos + 2,
         taken' = Append(taken, w)
  PROVE  PrintInv'
<1>1. taken \in Seq(Words)
  BY DEF PrintInv
<1>2. /\ <<w>> \in Seq(Words) /\ taken' = taken \o <<w>>
      /\ Len(taken) + Len(<<w>>) + 1 = Len(taken) + 1 + 1
  BY <1>1, OneArgument
<1>3. pos + 2 \in 1 .. Len(fmt) + 1
  BY AfterDirective, Zenon
<1> DEFINE t == Converted(fmt[pos + 1], "", w)
<1>4. ASSUME NEW rest \in Seq(Words)
      PROVE  TextFrom(taken \o (<<w>> \o rest))[pos][Len(taken) + 1] =
               t \o TextFrom(taken \o (<<w>> \o rest))[pos + 2][Len(taken) + 1 + 1]
  <2> DEFINE args == taken \o (<<w>> \o rest)
  <2>1. /\ args \in Seq(Words) /\ Len(taken) + 1 \in 1 .. Len(args)
        /\ args[Len(taken) + 1] = w
    BY <1>1, OneArgument
  <2> HIDE DEF args
  <2>2. TextFrom(args)[pos][Len(taken) + 1] =
          Converted(fmt[pos + 1], "", args[Len(taken) + 1])
            \o TextFrom(args)[pos + 2][Len(taken) + 1 + 1]
    BY <2>1, TextOfDirective
  <2> QED
    BY <2>1, <2>2 DEF args
<1> HIDE DEF t
<1>5. t \in Characters /\ Output(t)
  BY DEF t
<1> QED
  BY <1>2, <1>3, <1>4, <1>5, Turned

LEMMA SizedDirectiveTurned ==
  ASSUME fmt \in Characters, PrintInv, pc = "format", pos \in 1 .. Len(fmt),
         Handled(pos), pos + 2 \in 1 .. Len(fmt),
         fmt[pos + 1] # "%", fmt[pos + 1] \in {"l", "z"},
         NEW w \in Words, Converted(fmt[pos + 2], fmt[pos + 1], w) \in Characters,
         Output(Converted(fmt[pos + 2], fmt[pos + 1], w)), pos' = pos + 3,
         taken' = Append(taken, w)
  PROVE  PrintInv'
<1>1. taken \in Seq(Words)
  BY DEF PrintInv
<1>2. /\ <<w>> \in Seq(Words) /\ taken' = taken \o <<w>>
      /\ Len(taken) + Len(<<w>>) + 1 = Len(taken) + 1 + 1
  BY <1>1, OneArgument
<1>3. pos + 3 \in 1 .. Len(fmt) + 1
  BY DEF Characters
<1> DEFINE t == Converted(fmt[pos + 2], fmt[pos + 1], w)
<1>4. ASSUME NEW rest \in Seq(Words)
      PROVE  TextFrom(taken \o (<<w>> \o rest))[pos][Len(taken) + 1] =
               t \o TextFrom(taken \o (<<w>> \o rest))[pos + 3][Len(taken) + 1 + 1]
  <2> DEFINE args == taken \o (<<w>> \o rest)
  <2>1. /\ args \in Seq(Words) /\ Len(taken) + 1 \in 1 .. Len(args)
        /\ args[Len(taken) + 1] = w
    BY <1>1, OneArgument
  <2> HIDE DEF args
  <2>2. TextFrom(args)[pos][Len(taken) + 1] =
          Converted(fmt[pos + 2], fmt[pos + 1], args[Len(taken) + 1])
            \o TextFrom(args)[pos + 3][Len(taken) + 1 + 1]
    BY <2>1, TextOfSizedDirective
  <2> QED
    BY <2>1, <2>2 DEF args
<1> HIDE DEF t
<1>5. t \in Characters /\ Output(t)
  BY DEF t
<1> QED
  BY <1>2, <1>3, <1>4, <1>5, Turned

(* Where the loop is when it sees a directive. *)
LEMMA AtDirective ==
  ASSUME fmt \in Characters, pos \in 1 .. Len(fmt) + 1, Char(pos) = "%"
  PROVE  /\ pos \in 1 .. Len(fmt) /\ fmt[pos] = "%"
         /\ \A i \in 1 .. 2 : Char(pos + i) # "NUL" =>
              pos + i \in 1 .. Len(fmt) /\ fmt[pos + i] = Char(pos + i)
         /\ "NUL" \notin {"c", "s", "%"} \cup IntConversions
<1>1. Len(fmt) \in Nat /\ pos \in Nat \ {0}
  BY DEF Characters
<1>2. pos \in 1 .. Len(fmt) /\ fmt[pos] = "%"
  BY <1>1, CharIs
<1>3. ASSUME NEW i \in 1 .. 2, Char(pos + i) # "NUL"
      PROVE  pos + i \in 1 .. Len(fmt) /\ fmt[pos + i] = Char(pos + i)
  <2>1. pos + i \in Nat \ {0}
    BY <1>1
  <2> QED
    BY <1>3, <2>1, CharIs
<1>4. "NUL" \notin {"c", "s", "%"} \cup IntConversions
  BY DEF IntConversions
<1> QED
  BY <1>2, <1>3, <1>4

LEMMA OtherDirectivePrints ==
  ASSUME fmt \in Characters, PrintInv, OtherDirective
  PROVE  PrintInv'
<1>1. /\ pc = "format" /\ Char(pos) = "%" /\ Char(pos + 1) \in {"c", "s"}
      /\ pos' = pos + 2
  BY DEF OtherDirective
<1>2. PICK w \in Words : taken' = Append(taken, w) /\ Output(ConvertOther(Char(pos + 1), w))
  BY DEF OtherDirective
<1>3. pos \in 1 .. Len(fmt) + 1
  BY DEF PrintInv
<1>4. /\ pos \in 1 .. Len(fmt) /\ pos + 1 \in 1 .. Len(fmt) /\ fmt[pos + 1] = Char(pos + 1)
      /\ fmt[pos + 1] # "%" /\ fmt[pos + 1] \notin {"l", "z"}
  BY <1>1, <1>3, AtDirective
<1>5. Handled(pos)
  BY <1>1 DEF Handled
<1>6. /\ ConvertOther(Char(pos + 1), w) = Converted(fmt[pos + 1], "", w)
      /\ Converted(fmt[pos + 1], "", w) \in Characters
  BY <1>1, <1>4, OtherConversions
<1> QED
  BY <1>1, <1>2, <1>4, <1>5, <1>6, DirectiveTurned

LEMMA IntDirectivePrints ==
  ASSUME fmt \in Characters, PrintInv, IntDirective
  PROVE  PrintInv'
<1>1. /\ pc = "format" /\ Char(pos) = "%" /\ Char(pos + 1) \in IntConversions
      /\ pos' = pos + 2
  BY DEF IntDirective
<1>2. PICK w \in Words : taken' = Append(taken, w) /\ Output(ConvertInt(Char(pos + 1), "", w))
  BY DEF IntDirective
<1>3. pos \in 1 .. Len(fmt) + 1
  BY DEF PrintInv
<1>4. /\ pos \in 1 .. Len(fmt) /\ pos + 1 \in 1 .. Len(fmt) /\ fmt[pos + 1] = Char(pos + 1)
  BY <1>1, <1>3, AtDirective
<1>7. fmt[pos + 1] # "%" /\ fmt[pos + 1] \notin {"l", "z"}
  BY <1>1, <1>4 DEF IntConversions
<1>5. Handled(pos)
  BY <1>1 DEF Handled
<1>6. /\ ConvertInt(Char(pos + 1), "", w) = Converted(fmt[pos + 1], "", w)
      /\ Converted(fmt[pos + 1], "", w) \in Characters
  BY <1>1, <1>4, ConversionsAgree
<1> QED
  BY <1>1, <1>2, <1>4, <1>5, <1>6, <1>7, DirectiveTurned

LEMMA SizeDirectivePrints ==
  ASSUME fmt \in Characters, PrintInv, SizeDirective
  PROVE  PrintInv'
<1>1. /\ pc = "format" /\ Char(pos) = "%" /\ Char(pos + 1) = "z"
      /\ Char(pos + 2) \in IntConversions /\ pos' = pos + 3
  BY DEF SizeDirective
<1>2. PICK w \in Words : taken' = Append(taken, w) /\ Output(ConvertInt(Char(pos + 2), "z", w))
  BY DEF SizeDirective
<1>3. pos \in 1 .. Len(fmt) + 1
  BY DEF PrintInv
<1>4. /\ pos \in 1 .. Len(fmt) /\ fmt[pos + 1] = "z"
      /\ pos + 2 \in 1 .. Len(fmt) /\ fmt[pos + 2] = Char(pos + 2)
  BY <1>1, <1>3, AtDirective
<1>5. Handled(pos)
  BY <1>1 DEF Handled
<1>6. /\ ConvertInt(Char(pos + 2), "z", w) = Converted(fmt[pos + 2], fmt[pos + 1], w)
      /\ Converted(fmt[pos + 2], fmt[pos + 1], w) \in Characters
  BY <1>1, <1>4, ConversionsAgree
<1>7. fmt[pos + 1] # "%" /\ fmt[pos + 1] \in {"l", "z"}
  BY <1>4
<1> QED
  BY <1>1, <1>2, <1>4, <1>5, <1>6, <1>7, SizedDirectiveTurned

(* Where nothing falls through, only the directive's own argument is taken. *)
LEMMA LongDirectivePrints ==
  ASSUME fmt \in Characters, PrintInv, LongDirective, ~FallsThrough
  PROVE  PrintInv'
<1>1. /\ pc = "format" /\ Char(pos) = "%" /\ Char(pos + 1) = "l"
      /\ Char(pos + 2) \in IntConversions
  BY DEF LongDirective
<1>3. pos \in 1 .. Len(fmt) + 1
  BY DEF PrintInv
<1>4. /\ pos \in 1 .. Len(fmt) /\ fmt[pos] = "%" /\ fmt[pos + 1] = "l"
      /\ pos + 2 \in 1 .. Len(fmt) /\ fmt[pos + 2] = Char(pos + 2)
  BY <1>1, <1>3, AtDirective
<1>5. Handled(pos)
  BY <1>1 DEF Handled
<1>8. Char(pos + 5) \notin IntConversions
  BY <1>1, <1>4 DEF FallsThrough, Characters
<1>2. PICK w \in Words : /\ taken' = Append(taken, w) /\ Output(ConvertInt(Char(pos + 2), "l", w))
                         /\ pos' = pos + 3
  BY <1>8 DEF LongDirective
<1>6. /\ ConvertInt(Char(pos + 2), "l", w) = Converted(fmt[pos + 2], fmt[pos + 1], w)
      /\ Converted(fmt[pos + 2], fmt[pos + 1], w) \in Characters
  BY <1>1, <1>4, ConversionsAgree
<1>7. fmt[pos + 1] # "%" /\ fmt[pos + 1] \in {"l", "z"}
  BY <1>4
<1> QED
  BY <1>1, <1>2, <1>4, <1>5, <1>6, <1>7, SizedDirectiveTurned

LEMMA NeverAtEnd ==
  ASSUME fmt \in Characters, PrintInv, LongDirectiveAtEnd, ~FallsThrough
  PROVE  FALSE
<1>1. /\ Char(pos) = "%" /\ Char(pos + 1) = "l"
      /\ Char(pos + 2) \in IntConversions /\ pos + 5 > Len(fmt) + 1
  BY DEF LongDirectiveAtEnd
<1>2. pos \in 1 .. Len(fmt) + 1
  BY DEF PrintInv
<1>3. pos \in 1 .. Len(fmt) /\ fmt[pos] = "%"
  BY <1>1, <1>2, AtDirective
<1> QED
  BY <1>1, <1>3 DEF FallsThrough, Characters

LEMMA PercentPrints ==
  ASSUME fmt \in Characters, PrintInv, Percent
  PROVE  PrintInv'
<1>1. /\ pc = "format" /\ Char(pos) = "%" /\ Char(pos + 1) = "%"
      /\ Output(<<"%">>) /\ pos' = pos + 2 /\ taken' = taken
  BY DEF Percent
<1>2. pos \in 1 .. Len(fmt) + 1 /\ taken \in Seq(Words)
  BY DEF PrintInv
<1>3. /\ pos \in 1 .. Len(fmt) /\ fmt[pos + 1] = "%" /\ pos + 1 \in 1 .. Len(fmt)
  BY <1>1, <1>2, AtDirective
<1>4. Handled(pos) /\ <<"%">> \in Characters
  BY <1>1 DEF Handled, Characters, Letters
<1>5. /\ <<>> \in Seq(Words) /\ taken' = taken \o <<>>
      /\ Len(taken) + Len(<<>>) + 1 = Len(taken) + 1
  BY <1>1, <1>2, NoArgument
<1>6. pos + 2 \in 1 .. Len(fmt) + 1
  BY <1>3 DEF Characters
<1>7. ASSUME NEW rest \in Seq(Words)
      PROVE  TextFrom(taken \o (<<>> \o rest))[pos][Len(taken) + 1] =
               <<"%">> \o TextFrom(taken \o (<<>> \o rest))[pos + 2][Len(taken) + 1]
  <2>1. /\ taken \o (<<>> \o rest) \in Seq(Words)
        /\ Len(taken) + 1 \in 1 .. Len(taken \o (<<>> \o rest)) + 1
    BY <1>2, NoArgument
  <2> QED
    BY <1>3, <1>4, <2>1, TextOfPercent
<1> QED
  BY <1>1, <1>4, <1>5, <1>6, <1>7, Turned

LEMMA LiteralPrints ==
  ASSUME fmt \in Characters, PrintInv, Literal
  PROVE  PrintInv'
<1> DEFINE end == CHOOSE q \in pos + 1 .. Len(fmt) + 1 :
                    /\ Char(q) \in {"%", "NUL"}
                    /\ \A r \in pos + 1 .. q - 1 : fmt[r] # "%"
<1>1. /\ pc = "format" /\ pos <= Len(fmt) /\ ~Handled(pos)
      /\ Output(SubSeq(fmt, pos, end - 1)) /\ pos' = end /\ taken' = taken
  BY DEF Literal
<1>2. pos \in 1 .. Len(fmt) + 1 /\ taken \in Seq(Words)
  BY DEF PrintInv
<1>3. pos \in 1 .. Len(fmt)
  BY <1>1, <1>2 DEF Characters
<1>4. end \in pos + 1 .. Len(fmt) + 1 /\ \A r \in pos + 1 .. end - 1 : fmt[r] # "%"
  <2>1. \E q \in pos + 1 .. Len(fmt) + 1 :
           /\ Char(q) \in {"%", "NUL"}
           /\ \A r \in pos + 1 .. q - 1 : fmt[r] # "%"
    BY <1>3, StretchEnds
  <2> QED
    BY <2>1, Zenon
<1> HIDE DEF end
<1>5. /\ <<>> \in Seq(Words) /\ taken' = taken \o <<>>
      /\ Len(taken) + Len(<<>>) + 1 = Len(taken) + 1
  BY <1>1, <1>2, NoArgument
<1>6. end \in 1 .. Len(fmt) + 1
  BY <1>3, <1>4 DEF Characters
<1> DEFINE t == SubSeq(fmt, pos, end - 1)
<1>7. ASSUME NEW rest \in Seq(Words)
      PROVE  /\ t \in Characters
             /\ TextFrom(taken \o (<<>> \o rest))[pos][Len(taken) + 1] =
                  t \o TextFrom(taken \o (<<>> \o rest))[end][Len(taken) + 1]
  <2>1. /\ taken \o (<<>> \o rest) \in Seq(Words)
        /\ Len(taken) + 1 \in 1 .. Len(taken \o (<<>> \o rest)) + 1
    BY <1>2, NoArgument
  <2> QED
    BY <1>1, <1>3, <1>4, <2>1, TextOfStretch
<1>8. Output(t) /\ t \in Characters
  BY <1>1, <1>5, <1>7
<1> HIDE DEF t
<1> QED
  BY <1>1, <1>5, <1>6, <1>7, <1>8, Turned

LEMMA DoneFormatting ==
  ASSUME fmt \in Characters, PrintInv, FormatDone
  PROVE  PrintInv'
BY DEF FormatDone, PrintInv, Printed

(* A write moves a part of what is left to the output. *)
LEMMA SomeWritten ==
  ASSUME fmt \in Characters, PrintInv, WriteSome
  PROVE  PrintInv'
<1>1. /\ pc = "write" /\ pc' = (IF str' = <<>> THEN "format" ELSE "write")
      /\ UNCHANGED <<fmt, pos, taken, num_written, ret, checked>>
  BY DEF WriteSome
<1>2. PICK n \in 1 .. Len(str) :
        /\ stream' = stream \o Tagged("shell", SubSeq(str, 1, n))
        /\ str' = SubSeq(str, n + 1, Len(str))
  BY DEF WriteSome
<1>3. /\ pos \in 1 .. Len(fmt) + 1 /\ taken \in Seq(Words) /\ str \in Characters
      /\ stream \in Seq(Marks) /\ num_written = Len(Printed) + Len(str)
      /\ \A rest \in Seq(Words) :
           TextOf(fmt, taken \o rest)[1][1] =
             Printed \o (str \o TextOf(fmt, taken \o rest)[pos][Len(taken) + 1])
  BY DEF PrintInv
<1> DEFINE u == SubSeq(str, 1, n)
<1>4. /\ u \in Characters /\ str' \in Characters /\ u \o str' = str
      /\ Len(u) + Len(str') = Len(str) /\ Len(u) \in Nat /\ Len(str') \in Nat
  <2>1. /\ Len(str) \in Nat /\ 1 \in 1 .. Len(str) + 1 /\ n \in 0 .. Len(str)
        /\ Len(str) \in n .. Len(str)
    BY <1>3 DEF Characters
  <2>2. u \o str' = SubSeq(str, 1, Len(str))
    BY <1>2, <1>3, <2>1, ConcatAdjacentSubSeq DEF Characters
  <2>3. SubSeq(str, 1, Len(str)) = str
    BY <1>3 DEF Characters
  <2>4. u \in Characters /\ str' \in Characters
    BY <1>2, <1>3, <2>1 DEF Characters
  <2>5. Len(u \o str') = Len(u) + Len(str') /\ Len(u) \in Nat /\ Len(str') \in Nat
    BY <2>4, Joined, EmptyJoined
  <2> HIDE DEF u
  <2> QED
    BY <2>2, <2>3, <2>4, <2>5
<1> HIDE DEF u
<1>5. stream' \in Seq(Marks) /\ Printed' = Printed \o u
  BY <1>2, <1>3, <1>4, ShellWrites DEF Printed, u
<1>6. Printed \in Characters /\ Len(Printed') = Len(Printed) + Len(u) /\ Len(Printed) \in Nat
  BY <1>3, <1>4, <1>5, PrintedIs, Joined
<1>7. num_written' = Len(Printed') + Len(str')
  <2>1. num_written' = Len(Printed) + (Len(u) + Len(str'))
    BY <1>1, <1>3, <1>4
  <2>2. Len(Printed') = Len(Printed) + Len(u)
    BY <1>6
  <2>3. Len(Printed) \in Nat /\ Len(u) \in Nat /\ Len(str') \in Nat
    BY <1>4, <1>6
  <2> QED
    BY <2>1, <2>2, <2>3
<1>8. ASSUME NEW rest \in Seq(Words)
      PROVE  TextOf(fmt', taken' \o rest)[1][1] =
               Printed' \o (str' \o TextOf(fmt', taken' \o rest)[pos'][Len(taken') + 1])
  <2> DEFINE args == taken \o rest
  <2> DEFINE v == TextFrom(args)[pos][Len(taken) + 1]
  <2>1. v \in Characters
    <3>1. /\ args \in Seq(Words) /\ Len(taken) + 1 \in 1 .. Len(args) + 1
          /\ pos \in 1 .. Len(fmt) + 3
      <4>1. args \in Seq(Words) /\ Len(args) = Len(taken) + Len(rest)
            /\ Len(taken) \in Nat /\ Len(rest) \in Nat
        BY <1>3, ConcatProperties
      <4>2. Len(fmt) \in Nat
        BY DEF Characters
      <4> HIDE DEF args
      <4> QED
        BY <1>3, <4>1, <4>2
    <3> HIDE DEF args
    <3> QED
      BY <3>1, TextIs
  <2>2. v = TextOf(fmt, args)[pos][Len(taken) + 1]
    BY TextIsOf
  <2>3. TextOf(fmt, args)[1][1] = Printed \o (str \o v)
    BY <1>3, <2>2
  <2> HIDE DEF v, args
  <2>4. str \o v = u \o (str' \o v)
    BY <1>4, <2>1, Associate
  <2>5. str' \o v \in Characters
    BY <1>4, <2>1, Joined
  <2>6. Printed \o (u \o (str' \o v)) = (Printed \o u) \o (str' \o v)
    BY <1>4, <1>6, <2>5, Associate
  <2> QED
    BY <1>1, <1>5, <2>2, <2>3, <2>4, <2>6 DEF args
<1>9. /\ (pc \in {"format", "write", "returned", "exited"})'
      /\ (pc = "format" => str = <<>>)' /\ (pc # "returned")' /\ (pc # "exited")'
  BY <1>1
<1>10. (pos \in 1 .. Len(fmt) + 1)' /\ (taken \in Seq(Words))'
  BY <1>1, <1>3
<1> QED
  BY <1>4, <1>5, <1>7, <1>8, <1>9, <1>10 DEF PrintInv

LEMMA FailureWrites ==
  ASSUME stream \in Seq(Marks), WriteFails
  PROVE  stream' \in Seq(Marks) /\ Printed' = Printed
<1>1. \/ stream' = stream \/ stream' = stream \o Tagged("error", <<>>)
      \/ stream' = stream \o Tagged("error", <<"k">>)
  BY DEF WriteFails
<1>2. stream' = stream \/ stream' = stream \o Tagged("error", <<"k">>)
  BY <1>1, NobodyWrites
<1> QED
  BY <1>2, OthersWrite DEF Printed

LEMMA NotWritten ==
  ASSUME fmt \in Characters, PrintInv, WriteFails
  PROVE  PrintInv'
<1>1. /\ ret' = -1 /\ pc' \in {"returned", "exited"} /\ (pc' = "exited" => checked)
      /\ UNCHANGED <<fmt, pos, taken, str, num_written, checked, jobWrites>>
  BY DEF WriteFails
<1>2. stream' \in Seq(Marks) /\ Printed' = Printed
  BY FailureWrites DEF PrintInv
<1> QED
  BY <1>1, <1>2 DEF PrintInv

LEMMA JobWritten ==
  ASSUME fmt \in Characters, PrintInv, JobWritesToo
  PROVE  PrintInv'
<1>1. stream \in Seq(Marks)
  BY DEF PrintInv
<1>2. /\ stream' = stream \o Tagged("job", <<"k">>)
      /\ UNCHANGED <<pc, fmt, pos, taken, str, num_written, ret, checked>>
  BY DEF JobWritesToo
<1>3. stream' \in Seq(Marks) /\ Printed' = Printed
  BY <1>1, <1>2, OthersWrite DEF Printed
<1> QED
  BY <1>2, <1>3 DEF PrintInv

LEMMA InvInitially == Init => IInv
<1> SUFFICES ASSUME Init PROVE IInv
  OBVIOUS
<1>1. /\ pc = "format" /\ fmt \in Formats /\ pos = 1 /\ taken = <<>> /\ str = <<>>
      /\ num_written = 0 /\ stream = <<>>
  BY DEF Init
<1>2. fmt \in Characters /\ Len(fmt) \in Nat
  BY <1>1, FormatsAre DEF Characters
<1>3. Printed = <<>>
  BY <1>1, OwnTextOfNothing DEF Printed
<1>4. <<>> \in Characters /\ <<>> \in Seq(Words) /\ <<>> \in Seq(Marks) /\ Len(<<>>) = 0
  BY DEF Characters
<1>5. ASSUME NEW rest \in Seq(Words)
      PROVE  TextOf(fmt, taken \o rest)[1][1] =
               Printed \o (str \o TextOf(fmt, taken \o rest)[pos][Len(taken) + 1])
  <2> DEFINE v == TextFrom(rest)[1][1]
  <2>1. v \in Characters
    <3>1. 1 \in 1 .. Len(fmt) + 3 /\ 1 \in 1 .. Len(rest) + 1
      BY <1>2
    <3> QED
      BY <1>2, <3>1, TextIs
  <2>2. TextOf(fmt, rest)[1][1] = v
    BY TextIsOf
  <2>3. taken \o rest = rest /\ Len(taken) + 1 = 1
    BY <1>1, <1>4, ConcatEmptySeq
  <2> HIDE DEF v
  <2>4. <<>> \o (<<>> \o v) = v
    BY <2>1, EmptyJoined
  <2> QED
    BY <1>1, <1>3, <2>2, <2>3, <2>4
<1>6. num_written = Len(Printed) + Len(str)
  BY <1>1, <1>3, <1>4
<1>7. pos \in 1 .. Len(fmt) + 1
  BY <1>1, <1>2
<1> QED
  BY <1>1, <1>4, <1>5, <1>6, <1>7 DEF IInv, PrintInv

LEMMA InvKept == IInv /\ [Next]_vars => IInv'
<1> SUFFICES ASSUME IInv, [Next]_vars PROVE IInv'
  OBVIOUS
<1>1. fmt \in Characters /\ fmt \in Formats
  BY FormatsAre DEF IInv
<1>2. fmt' = fmt
  BY DEF Next, Format, OtherDirective, Percent, IntDirective, SizeDirective,
         LongDirective, LongDirectiveAtEnd, Literal, FormatDone, Output, WriteSome,
         WriteInterrupted, WriteFails, JobWritesToo, Done, vars
<1>3. FallsThrough' = FallsThrough
  BY <1>2, FallsThroughStays
<1>4. ASSUME ~FallsThrough PROVE PrintInv'
  <2>0. PrintInv
    BY <1>4 DEF IInv
  <2>1. CASE OtherDirective
    BY <1>1, <2>0, <2>1, OtherDirectivePrints
  <2>2. CASE Percent
    BY <1>1, <2>0, <2>2, PercentPrints
  <2>3. CASE IntDirective
    BY <1>1, <2>0, <2>3, IntDirectivePrints
  <2>4. CASE SizeDirective
    BY <1>1, <2>0, <2>4, SizeDirectivePrints
  <2>5. CASE LongDirective
    BY <1>1, <1>4, <2>0, <2>5, LongDirectivePrints
  <2>6. CASE LongDirectiveAtEnd
    BY <1>1, <1>4, <2>0, <2>6, NeverAtEnd
  <2>7. CASE Literal
    BY <1>1, <2>0, <2>7, LiteralPrints
  <2>8. CASE FormatDone
    BY <1>1, <2>0, <2>8, DoneFormatting
  <2>9. CASE WriteSome
    BY <1>1, <2>0, <2>9, SomeWritten
  <2>10. CASE WriteFails
    BY <1>1, <2>0, <2>10, NotWritten
  <2>11. CASE JobWritesToo
    BY <1>1, <2>0, <2>11, JobWritten
  <2>12. CASE WriteInterrupted \/ Done \/ UNCHANGED vars
    <3>1. UNCHANGED vars
      BY <2>12 DEF WriteInterrupted, Done
    <3> QED
      BY <2>0, <3>1 DEF PrintInv, Printed, vars
  <2> QED
    BY <2>1, <2>2, <2>3, <2>4, <2>5, <2>6, <2>7, <2>8, <2>9, <2>10, <2>11, <2>12
       DEF Next, Format
<1> QED
  BY <1>1, <1>2, <1>3, <1>4 DEF IInv

LEMMA InvSuffices == IInv => OutputIsFormatted
<1> SUFFICES ASSUME IInv, ~FallsThrough
             PROVE  /\ IsPrefix(Printed, Formatted)
                    /\ pc = "returned" /\ ret >= 0 =>
                         Printed = Formatted /\ ret = Len(Printed)
                    /\ pc = "exited" => checked /\ ret = -1
  BY DEF OutputIsFormatted
<1>1. fmt \in Characters /\ PrintInv
  BY FormatsAre DEF IInv
<1>2. /\ pos \in 1 .. Len(fmt) + 1 /\ taken \in Seq(Words) /\ str \in Characters
      /\ stream \in Seq(Marks) /\ num_written = Len(Printed) + Len(str)
      /\ TextOf(fmt, taken \o <<>>)[1][1] =
           Printed \o (str \o TextOf(fmt, taken \o <<>>)[pos][Len(taken) + 1])
      /\ pc = "returned" /\ ret >= 0 => pos > Len(fmt) /\ str = <<>> /\ ret = num_written
      /\ pc = "exited" => checked /\ ret = -1
  <2>1. <<>> \in Seq(Words)
    OBVIOUS
  <2> QED
    BY <1>1, <2>1 DEF PrintInv
<1> DEFINE v == TextFrom(taken)[pos][Len(taken) + 1]
<1>3. Formatted = Printed \o (str \o v)
  <2>1. taken \o <<>> = taken
    BY <1>2, ConcatEmptySeq
  <2> QED
    BY <1>2, <2>1, TextIsOf DEF Formatted
<1>4. v \in Characters /\ Len(taken) + 1 \in 1 .. Len(taken) + 1
  <2>1. pos \in 1 .. Len(fmt) + 3 /\ Len(taken) + 1 \in 1 .. Len(taken) + 1
    <3>1. Len(fmt) \in Nat /\ Len(taken) \in Nat
      BY <1>1, <1>2 DEF Characters
    <3> QED
      BY <1>2, <3>1
  <2> QED
    BY <1>1, <1>2, <2>1, TextIs
<1>5. Printed \in Characters /\ Len(Printed) \in Nat
  BY <1>2, PrintedIs
<1>6. IsPrefix(Printed, Formatted)
  <2> DEFINE w == str \o v
  <2>1. w \in Characters
    <3> HIDE DEF v
    <3> QED
      BY <1>2, <1>4, Joined
  <2>2. Formatted = Printed \o w
    BY <1>3
  <2> HIDE DEF v, w
  <2>3. IsPrefix(Printed, Printed \o w)
    BY <1>5, <2>1 DEF IsPrefix, Characters
  <2> QED
    BY <2>2, <2>3
<1>7. ASSUME pc = "returned" /\ ret >= 0
      PROVE  Printed = Formatted /\ ret = Len(Printed)
  <2>1. pos > Len(fmt) /\ str = <<>> /\ ret = num_written
    BY <1>2, <1>7
  <2>2. v = <<>>
    BY <1>1, <1>2, <1>4, <2>1, TextOfNone
  <2> HIDE DEF v
  <2>3. <<>> \o <<>> = <<>> /\ Printed \o <<>> = Printed
    <3>1. <<>> \in Characters
      BY DEF Characters
    <3> QED
      BY <1>5, <3>1, EmptyJoined
  <2>4. Len(str) = 0
    BY <2>1
  <2> QED
    BY <1>2, <1>3, <1>5, <2>1, <2>2, <2>3, <2>4
<1> QED
  BY <1>2, <1>6, <1>7

(* Whatever the widths of int and long, the formats without an l that falls   *)
(* through, the arguments, the short, interrupted and failed writes and the   *)
(* writes of other processes, what sio_vfprintf has printed is the formatted  *)
(* text as far as it goes, and all of it when the call succeeds               *)
(* (sio_printf.c:39-67, 93-240, csapp.c:755-772).                             *)
THEOREM PrintsWhatIsFormatted == Spec => []OutputIsFormatted
<1>1. Init => IInv
  BY InvInitially
<1>2. IInv /\ [Next]_vars => IInv'
  BY InvKept
<1>3. IInv => OutputIsFormatted
  BY InvSuffices
<1> QED
  BY <1>1, <1>2, <1>3, PTL DEF Spec

-----------------------------------------------------------------------------
(* What holds of every format, the ones that fall through included.          *)

CountInv ==
  /\ fmt \in Formats
  /\ pos \in Nat
  /\ pc # "wild" => pos \in 1 .. Len(fmt) + 1
  /\ pc = "wild" => \E p \in DOMAIN fmt : LooksBehind(p)
  /\ str \in Characters /\ stream \in Seq(Marks)
  /\ pc = "format" => str = <<>>
  /\ num_written = Len(Printed) + Len(str)
  /\ pc = "returned" /\ ret >= 0 => pos > Len(fmt) /\ str = <<>> /\ ret = num_written

(* A turn that prints t and goes on at q. *)
LEMMA TurnCounts ==
  ASSUME CountInv, pc = "format", NEW t \in Characters, NEW q \in 1 .. Len(fmt) + 1,
         Output(t), pos' = q
  PROVE  CountInv'
<1>1. /\ str' = t /\ pc' \in {"format", "write"} /\ (pc' = "format" => t = <<>>)
      /\ num_written' = num_written + Len(t) /\ fmt' = fmt /\ stream' = stream
  BY DEF Output
<1>2. Printed' = Printed /\ Len(Printed) \in Nat
  BY <1>1, PrintedIs DEF Printed, CountInv
<1>3. num_written' = Len(Printed') + Len(str')
  <2>1. Len(str) = 0 /\ num_written = Len(Printed) + Len(str)
    BY DEF CountInv
  <2>2. Len(t) \in Nat
    BY DEF Characters
  <2> QED
    BY <1>1, <1>2, <2>1, <2>2
<1>4. /\ fmt' \in Formats /\ pos' \in 1 .. Len(fmt') + 1 /\ pos' \in Nat
      /\ str' \in Characters /\ stream' \in Seq(Marks)
  BY <1>1 DEF CountInv
<1> QED
  BY <1>1, <1>3, <1>4 DEF CountInv

(* The case of l, whichever way it goes, stays before the NUL. *)
LEMMA LongCounts ==
  ASSUME CountInv, LongDirective
  PROVE  CountInv'
<1>1. pc = "format" /\ Char(pos) = "%" /\ Char(pos + 2) \in IntConversions
  BY DEF LongDirective
<1>2. fmt \in Characters /\ pos \in 1 .. Len(fmt) + 1 /\ Len(fmt) \in Nat
  BY <1>1, FormatsAre DEF CountInv, Characters
<1>3. pos \in 1 .. Len(fmt) /\ pos + 2 \in 1 .. Len(fmt)
  BY <1>1, <1>2, AtDirective
<1>4. CASE Char(pos + 5) \in IntConversions
  <2>1. PICK v \in Words : Output(ConvertInt(Char(pos + 5), "z", v)) /\ pos' = pos + 6
    BY <1>4 DEF LongDirective
  <2>2. pos + 5 <= Len(fmt)
    BY <1>4 DEF Char, IntConversions
  <2>3. pos + 6 \in 1 .. Len(fmt) + 1
    BY <1>2, <2>2
  <2>4. ConvertInt(Char(pos + 5), "z", v) \in Characters
    BY <1>4, ConversionsAgree
  <2> QED
    BY <1>1, <2>1, <2>3, <2>4, TurnCounts
<1>5. CASE Char(pos + 5) \notin IntConversions
  <2>1. PICK w \in Words : Output(ConvertInt(Char(pos + 2), "l", w)) /\ pos' = pos + 3
    BY <1>5 DEF LongDirective
  <2>2. pos + 3 \in 1 .. Len(fmt) + 1
    BY <1>2, <1>3
  <2>3. ConvertInt(Char(pos + 2), "l", w) \in Characters
    BY <1>1, ConversionsAgree
  <2> QED
    BY <1>1, <2>1, <2>2, <2>3, TurnCounts
<1> QED
  BY <1>4, <1>5

LEMMA DirectivesCount ==
  ASSUME CountInv, OtherDirective \/ IntDirective \/ SizeDirective \/ Percent
  PROVE  CountInv'
<1>0. pc = "format"
  BY DEF OtherDirective, IntDirective, SizeDirective, Percent
<1>1. fmt \in Characters /\ pos \in 1 .. Len(fmt) + 1 /\ Len(fmt) \in Nat
  BY <1>0, FormatsAre DEF CountInv, Characters
<1>2. CASE OtherDirective
  <2>1. PICK w \in Words : Output(ConvertOther(Char(pos + 1), w))
    BY <1>2 DEF OtherDirective
  <2>2. /\ pc = "format" /\ Char(pos) = "%" /\ Char(pos + 1) \in {"c", "s"}
        /\ pos' = pos + 2
    BY <1>2 DEF OtherDirective
  <2>3. pos + 1 \in 1 .. Len(fmt)
    BY <1>1, <2>2, AtDirective
  <2>4. pos + 2 \in 1 .. Len(fmt) + 1
    BY <1>1, <2>3
  <2>5. ConvertOther(Char(pos + 1), w) \in Characters
    BY <2>2, OtherConversions
  <2> QED
    BY <2>1, <2>2, <2>4, <2>5, TurnCounts
<1>3. CASE IntDirective
  <2>1. PICK w \in Words : Output(ConvertInt(Char(pos + 1), "", w))
    BY <1>3 DEF IntDirective
  <2>2. /\ pc = "format" /\ Char(pos) = "%" /\ Char(pos + 1) \in IntConversions
        /\ pos' = pos + 2
    BY <1>3 DEF IntDirective
  <2>3. pos + 1 \in 1 .. Len(fmt)
    BY <1>1, <2>2, AtDirective
  <2>4. pos + 2 \in 1 .. Len(fmt) + 1
    BY <1>1, <2>3
  <2>5. ConvertInt(Char(pos + 1), "", w) \in Characters
    BY <2>2, ConversionsAgree
  <2> QED
    BY <2>1, <2>2, <2>4, <2>5, TurnCounts
<1>4. CASE SizeDirective
  <2>1. PICK w \in Words : Output(ConvertInt(Char(pos + 2), "z", w))
    BY <1>4 DEF SizeDirective
  <2>2. /\ pc = "format" /\ Char(pos) = "%" /\ Char(pos + 2) \in IntConversions
        /\ pos' = pos + 3
    BY <1>4 DEF SizeDirective
  <2>3. pos \in 1 .. Len(fmt) /\ pos + 2 \in 1 .. Len(fmt)
    BY <1>1, <2>2, AtDirective
  <2>4. pos + 3 \in 1 .. Len(fmt) + 1
    BY <1>1, <2>3
  <2>5. ConvertInt(Char(pos + 2), "z", w) \in Characters
    BY <2>2, ConversionsAgree
  <2> QED
    BY <2>1, <2>2, <2>4, <2>5, TurnCounts
<1>5. CASE Percent
  <2>1. /\ pc = "format" /\ Char(pos) = "%" /\ Char(pos + 1) = "%"
        /\ Output(<<"%">>) /\ pos' = pos + 2
    BY <1>5 DEF Percent
  <2>2. pos + 1 \in 1 .. Len(fmt)
    BY <1>1, <2>1, AtDirective
  <2>3. pos + 2 \in 1 .. Len(fmt) + 1
    BY <1>1, <2>2
  <2>4. <<"%">> \in Characters
    BY DEF Characters, Letters
  <2> QED
    BY <2>1, <2>3, <2>4, TurnCounts
<1> QED
  BY <1>2, <1>3, <1>4, <1>5

LEMMA LiteralCounts ==
  ASSUME CountInv, Literal
  PROVE  CountInv'
<1> DEFINE end == CHOOSE q \in pos + 1 .. Len(fmt) + 1 :
                    /\ Char(q) \in {"%", "NUL"}
                    /\ \A r \in pos + 1 .. q - 1 : fmt[r] # "%"
<1>1. /\ pc = "format" /\ pos <= Len(fmt)
      /\ Output(SubSeq(fmt, pos, end - 1)) /\ pos' = end
  BY DEF Literal
<1>2. fmt \in Characters /\ pos \in 1 .. Len(fmt) + 1 /\ Len(fmt) \in Nat
  BY <1>1, FormatsAre DEF CountInv, Characters
<1>3. pos \in 1 .. Len(fmt)
  BY <1>1, <1>2
<1>4. end \in pos + 1 .. Len(fmt) + 1
  <2>1. \E q \in pos + 1 .. Len(fmt) + 1 :
           /\ Char(q) \in {"%", "NUL"}
           /\ \A r \in pos + 1 .. q - 1 : fmt[r] # "%"
    BY <1>2, <1>3, StretchEnds
  <2> QED
    BY <2>1, Zenon
<1> HIDE DEF end
<1>5. end \in 1 .. Len(fmt) + 1 /\ end - 1 \in pos .. Len(fmt)
  BY <1>2, <1>3, <1>4
<1>6. SubSeq(fmt, pos, end - 1) \in Characters
  BY <1>2, <1>3, <1>5 DEF Characters
<1> QED
  BY <1>1, <1>5, <1>6, TurnCounts

LEMMA WriteCounts ==
  ASSUME CountInv, WriteSome
  PROVE  CountInv'
<1>1. /\ pc' = (IF str' = <<>> THEN "format" ELSE "write")
      /\ UNCHANGED <<fmt, pos, num_written>>
  BY DEF WriteSome
<1>2. PICK n \in 1 .. Len(str) :
        /\ stream' = stream \o Tagged("shell", SubSeq(str, 1, n))
        /\ str' = SubSeq(str, n + 1, Len(str))
  BY DEF WriteSome
<1> DEFINE u == SubSeq(str, 1, n)
<1>3. /\ u \in Characters /\ str' \in Characters
      /\ Len(u) + Len(str') = Len(str) /\ Len(u) \in Nat /\ Len(str') \in Nat
  <2>1. Len(str) \in Nat /\ n \in 0 .. Len(str) /\ Len(str) \in n .. Len(str)
    BY DEF CountInv, Characters
  <2>2. u \in Characters /\ Len(u) = n
    BY <2>1 DEF CountInv, Characters
  <2>3. str' \in Characters /\ Len(str') = Len(str) - n
    BY <1>2, <2>1 DEF CountInv, Characters
  <2> HIDE DEF u
  <2> QED
    BY <2>1, <2>2, <2>3
<1> HIDE DEF u
<1>4. stream' \in Seq(Marks) /\ Printed' = Printed \o u
  BY <1>2, <1>3, ShellWrites DEF Printed, u, CountInv
<1>5. Len(Printed') = Len(Printed) + Len(u) /\ Len(Printed) \in Nat
  BY <1>3, <1>4, PrintedIs, Joined DEF CountInv
<1>6. num_written' = Len(Printed') + Len(str')
  <2>1. num_written' = Len(Printed) + Len(str)
    BY <1>1 DEF CountInv
  <2> QED
    BY <1>3, <1>5, <2>1
<1>7. pc' \in {"format", "write"} /\ (pc' = "format" => str' = <<>>)
  BY <1>1
<1>8. fmt' \in Formats /\ pos' \in 1 .. Len(fmt') + 1 /\ pos' \in Nat
  <2>1. pc = "write"
    BY DEF WriteSome
  <2> QED
    BY <1>1, <2>1 DEF CountInv
<1> QED
  BY <1>3, <1>4, <1>6, <1>7, <1>8 DEF CountInv

LEMMA CountKept == CountInv /\ [Next]_vars => CountInv'
<1> SUFFICES ASSUME CountInv, [Next]_vars PROVE CountInv'
  OBVIOUS
<1>1. CASE FormatDone
  BY <1>1 DEF FormatDone, CountInv, Printed
<1>2. CASE LongDirectiveAtEnd
  <2>1. /\ pc = "format" /\ Char(pos) = "%" /\ Char(pos + 1) = "l"
        /\ Char(pos + 2) \in IntConversions /\ pos + 5 > Len(fmt) + 1
        /\ pos' = pos + 6 /\ pc' = "wild"
        /\ UNCHANGED <<fmt, str, num_written, stream>>
    BY <1>2 DEF LongDirectiveAtEnd
  <2>2. fmt \in Characters /\ pos \in 1 .. Len(fmt) + 1 /\ pos \in Nat
    BY <2>1, FormatsAre DEF CountInv
  <2>3. pos \in 1 .. Len(fmt) /\ fmt[pos] = "%"
    BY <2>1, <2>2, AtDirective
  <2>4. LooksBehind(pos) /\ pos \in DOMAIN fmt
    BY <2>1, <2>2, <2>3 DEF LooksBehind, Characters
  <2>5. (\E p \in DOMAIN fmt : LooksBehind(p))'
    BY <2>1, <2>4 DEF LooksBehind, Char
  <2> QED
    BY <2>1, <2>2, <2>5 DEF CountInv, Printed
<1>3. CASE WriteFails
  <2>1. /\ ret' = -1 /\ pc' \in {"returned", "exited"} /\ pc = "write"
        /\ UNCHANGED <<fmt, pos, str, num_written>>
    BY <1>3 DEF WriteFails
  <2>2. stream' \in Seq(Marks) /\ Printed' = Printed
    BY <1>3, FailureWrites DEF CountInv
  <2> QED
    BY <2>1, <2>2 DEF CountInv
<1>4. CASE JobWritesToo
  <2>1. stream' \in Seq(Marks) /\ Printed' = Printed
    BY <1>4, OthersWrite DEF JobWritesToo, Printed, CountInv
  <2> QED
    BY <1>4, <2>1 DEF JobWritesToo, CountInv
<1>5. CASE WriteInterrupted \/ Done \/ UNCHANGED vars
  <2>1. UNCHANGED vars
    BY <1>5 DEF WriteInterrupted, Done
  <2>2. (\E p \in DOMAIN fmt : LooksBehind(p))' <=> \E p \in DOMAIN fmt : LooksBehind(p)
    BY <2>1 DEF LooksBehind, Char, vars
  <2> QED
    BY <2>1, <2>2 DEF CountInv, Printed, vars
<1> QED
  BY <1>1, <1>2, <1>3, <1>4, <1>5, LongCounts, DirectivesCount, LiteralCounts, WriteCounts
     DEF Next, Format

(* For every format: the loop leaves it only if a %l with its conversion stands *)
(* fewer than three characters before the end, and when the loop ends at the    *)
(* NUL what sio_vfprintf returns is what was written (sio_printf.c:93-245): the *)
(* fall-through of the case of l costs an argument and the text it skips, not   *)
(* the count.                                                                   *)
THEOREM PrintStaysInFormat == Spec => []StaysInFormat
<1>1. Init => CountInv
  <2> SUFFICES ASSUME Init PROVE CountInv
    OBVIOUS
  <2>1. /\ pc = "format" /\ fmt \in Formats /\ pos = 1 /\ str = <<>>
        /\ num_written = 0 /\ stream = <<>>
    BY DEF Init
  <2>2. Len(fmt) \in Nat
    BY <2>1, FormatsAre DEF Characters
  <2>3. Printed = <<>> /\ Len(<<>>) = 0 /\ <<>> \in Characters /\ <<>> \in Seq(Marks)
    BY <2>1, OwnTextOfNothing DEF Printed, Characters
  <2> QED
    BY <2>1, <2>2, <2>3 DEF CountInv
<1>2. CountInv => StaysInFormat
  <2> SUFFICES ASSUME CountInv PROVE StaysInFormat
    OBVIOUS
  <2>1. Len(fmt) \in Nat /\ Len(Printed) \in Nat
    BY FormatsAre, PrintedIs DEF CountInv, Characters
  <2> QED
    BY <2>1 DEF CountInv, StaysInFormat
<1> QED
  BY <1>1, <1>2, CountKept, PTL DEF Spec
=============================================================================
