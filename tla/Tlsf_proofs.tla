----------------------------- MODULE Tlsf_proofs ------------------------------
(***************************************************************************)
(* What the allocator of Tlsf promises for memories of every size.         *)
(***************************************************************************)
EXTENDS Tlsf, ListLemmas, WellFoundedInduction

-----------------------------------------------------------------------------
(* Numbers.  None of the installed provers takes the induction theorems of   *)
(* the library, which have an operator as a parameter.  What is needed of    *)
(* them is that a set of numbers has a least element.                        *)

LEMMA NatLessIsWellFounded == IsWellFoundedOn({p \in Nat \X Nat : p[1] < p[2]}, Nat)
  BY NatLessThanWellFounded DEF OpToRel

LEMMA LeastNatural ==
  ASSUME NEW S, S \subseteq Nat, S # {}
  PROVE  \E x \in S : \A y \in S : x <= y
<1> DEFINE R == {p \in Nat \X Nat : p[1] < p[2]}
<1>1. \E x \in S : \A y \in S : ~(<<y, x>> \in R)
  <2> HIDE DEF R
  <2> IsWellFoundedOn(R, Nat) BY NatLessIsWellFounded DEF R
  <2> QED BY WFMin
<1>2. \A x, y \in S : <<y, x>> \in R <=> y < x
  OBVIOUS
<1>3. PICK x \in S : \A y \in S : ~(<<y, x>> \in R)
  BY <1>1
<1>4. \A y \in S : ~(y < x)
  <2> HIDE DEF R
  <2> QED BY <1>2, <1>3
<1>5. \A y \in S : x <= y
  BY <1>4
<1> QED BY <1>5

(* g is power2 on 0 .. n. *)
PowersUpto(n, g) ==
  /\ g \in [0 .. n -> Nat \ {0}]
  /\ g[0] = 1
  /\ \A k \in 0 .. n : k # 0 => g[k] = 2 * g[k - 1]

(* There is one such function, and power2 is what they agree on. *)
LEMMA PowersUptoUnique ==
  ASSUME NEW n \in Nat, NEW m \in Nat, NEW g, NEW h, PowersUpto(n, g), PowersUpto(m, h),
         NEW k \in Nat, k <= n, k <= m
  PROVE  g[k] = h[k]
<1> DEFINE D == {i \in Nat : i <= n /\ i <= m /\ g[i] # h[i]}
<1>1. SUFFICES ASSUME D # {} PROVE FALSE
  OBVIOUS
<1>2. PICK i \in D : \A j \in D : i <= j
  BY <1>1, LeastNatural
<1>3. i # 0
  BY DEF PowersUpto
<1>4. i - 1 \in Nat /\ i - 1 \notin D /\ i - 1 <= n /\ i - 1 <= m
  BY <1>2, <1>3
<1>5. g[i - 1] = h[i - 1]
  BY <1>4
<1>6. g[i] = 2 * g[i - 1] /\ h[i] = 2 * h[i - 1]
  BY <1>3 DEF PowersUpto
<1> QED BY <1>5, <1>6

LEMMA PowersUptoExist ==
  ASSUME NEW n \in Nat
  PROVE  \E g : PowersUpto(n, g)
<1> DEFINE D == {i \in Nat : ~\E g : PowersUpto(i, g)}
<1>1. SUFFICES ASSUME D # {} PROVE FALSE
  OBVIOUS
<1>2. PICK i \in D : \A j \in D : i <= j
  BY <1>1, LeastNatural
<1>3. CASE i = 0
  <2>1. PowersUpto(0, [k \in 0 .. 0 |-> 1])
    BY DEF PowersUpto
  <2> QED BY <2>1, <1>2, <1>3
<1>4. CASE i # 0
  <2>1. i - 1 \in Nat /\ i - 1 \notin D
    BY <1>2, <1>4
  <2>2. PICK g : PowersUpto(i - 1, g)
    BY <2>1
  <2> DEFINE h == [k \in 0 .. i |-> IF k = i THEN 2 * g[i - 1] ELSE g[k]]
  <2>3. \A k \in 0 .. i - 1 : g[k] \in Nat \ {0}
    BY <2>2, <2>1 DEF PowersUpto
  <2>4. h \in [0 .. i -> Nat \ {0}]
    BY <2>3, <2>1
  <2>5. h[0] = 1
    BY <2>2, <1>4 DEF PowersUpto
  <2>6. ASSUME NEW k \in 0 .. i, k # 0 PROVE h[k] = 2 * h[k - 1]
    <3>1. k - 1 \in 0 .. i /\ k - 1 # i /\ h[k - 1] = g[k - 1]
      BY <2>6
    <3>2. CASE k = i
      BY <3>1, <3>2
    <3>3. CASE k # i
      <4>1. k \in 0 .. i - 1
        BY <3>3
      <4>2. h[k] = g[k] /\ g[k] = 2 * g[k - 1]
        BY <4>1, <3>3, <2>2, <2>6 DEF PowersUpto
      <4> QED BY <4>2, <3>1
    <3> QED BY <3>2, <3>3
  <2>7. PowersUpto(i, h)
    BY <2>4, <2>5, <2>6 DEF PowersUpto
  <2> QED BY <2>7, <1>2
<1> QED BY <1>3, <1>4

LEMMA Power2Def ==
  /\ power2 \in [Nat -> Nat \ {0}]
  /\ \A k \in Nat : power2[k] = IF k = 0 THEN 1 ELSE 2 * power2[k - 1]
<1> DEFINE F(f) == [k \in Nat |-> IF k = 0 THEN 1 ELSE 2 * f[k - 1]]
           seq(n) == CHOOSE g : PowersUpto(n, g)
           f == [n \in Nat |-> seq(n)[n]]
<1>1. \A n \in Nat : PowersUpto(n, seq(n))
  BY PowersUptoExist
<1>2. \A n \in Nat : f[n] \in Nat \ {0}
  BY <1>1 DEF PowersUpto
<1>3. ASSUME NEW n \in Nat PROVE f[n] = IF n = 0 THEN 1 ELSE 2 * f[n - 1]
  <2>1. CASE n = 0
    BY <1>1, <2>1 DEF PowersUpto
  <2>2. CASE n # 0
    <3>1. n - 1 \in Nat
      BY <2>2
    <3>2. seq(n)[n] = 2 * seq(n)[n - 1]
      <4> HIDE DEF seq
      <4>1. PowersUpto(n, seq(n))
        BY <1>1
      <4> QED BY <4>1, <2>2 DEF PowersUpto
    <3> HIDE DEF seq
    <3>3. seq(n)[n - 1] = seq(n - 1)[n - 1]
      BY <3>1, <1>1, PowersUptoUnique
    <3> QED BY <3>1, <3>2, <3>3, <2>2
  <2> QED BY <2>1, <2>2
<1>4. f = F(f)
  <2> HIDE DEF seq
  <2> QED BY <1>3
<1>5. \E g : g = F(g)
  <2> HIDE DEF f
  <2> QED BY <1>4
<1>6. power2 = F(power2)
  <2>1. power2 = CHOOSE g : g = F(g)
    BY DEF power2
  <2> HIDE DEF F
  <2> QED BY <1>5, <2>1
<1>7. \A k \in Nat : power2[k] = IF k = 0 THEN 1 ELSE 2 * power2[k - 1]
  BY <1>6
<1>8. \A k \in Nat : power2[k] \in Nat \ {0}
  <2> DEFINE D == {i \in Nat : power2[i] \notin Nat \ {0}}
  <2>1. SUFFICES ASSUME D # {} PROVE FALSE
    OBVIOUS
  <2>2. PICK i \in D : \A j \in D : i <= j
    BY <2>1, LeastNatural
  <2>3. CASE i = 0
    BY <1>7, <2>3
  <2>4. CASE i # 0
    <3>1. i - 1 \in Nat /\ i - 1 \notin D
      BY <2>2, <2>4
    <3> QED BY <3>1, <1>7, <2>4
  <2> QED BY <2>3, <2>4
<1> QED BY <1>6, <1>7, <1>8
LEMMA Power2Monotonic ==
  ASSUME NEW i \in Nat, NEW j \in Nat, i <= j
  PROVE  power2[i] <= power2[j]
<1> DEFINE D == {n \in Nat : i <= n /\ ~(power2[i] <= power2[n])}
<1>1. SUFFICES ASSUME D # {} PROVE FALSE
  OBVIOUS
<1>2. PICK n \in D : \A m \in D : n <= m
  BY <1>1, LeastNatural
<1>3. n # i
  BY Power2Def
<1>4. n - 1 \in Nat /\ i <= n - 1 /\ n - 1 \notin D
  BY <1>2, <1>3
<1>5. power2[i] <= power2[n - 1] /\ power2[n] = 2 * power2[n - 1]
  BY <1>4, Power2Def
<1>6. power2[n - 1] \in Nat /\ power2[i] \in Nat
  BY <1>4, Power2Def
<1> QED BY <1>5, <1>6

LEMMA Power2Sum ==
  ASSUME NEW i \in Nat, NEW j \in Nat
  PROVE  power2[i + j] = power2[i] * power2[j]
<1> DEFINE D == {n \in Nat : power2[i + n] # power2[i] * power2[n]}
<1>1. SUFFICES ASSUME D # {} PROVE FALSE
  OBVIOUS
<1>2. PICK n \in D : \A m \in D : n <= m
  BY <1>1, LeastNatural
<1>3. n # 0
  BY Power2Def
<1>4. n - 1 \in Nat /\ n - 1 \notin D
  BY <1>2, <1>3
<1>5. power2[i + (n - 1)] = power2[i] * power2[n - 1]
  BY <1>4
<1>6. power2[n] = 2 * power2[n - 1] /\ power2[i + n] = 2 * power2[i + (n - 1)]
  <2>1. i + n \in Nat /\ i + n # 0 /\ (i + n) - 1 = i + (n - 1)
    BY <1>3
  <2> QED BY <2>1, <1>3, Power2Def
<1>7. power2[i] \in Nat /\ power2[n - 1] \in Nat
  BY <1>4, Power2Def
<1> QED BY <1>5, <1>6, <1>7

(* The least and the greatest element of a finite set of numbers. *)
LEMMA MinProperties ==
  ASSUME NEW S, S \subseteq Nat, S # {}
  PROVE  Min(S) \in S /\ \A y \in S : Min(S) <= y
  BY LeastNatural DEF Min

LEMMA GreatestNatural ==
  ASSUME NEW S, NEW n \in Nat, S \subseteq 0 .. n, S # {}
  PROVE  \E x \in S : \A y \in S : y <= x
<1> DEFINE T == {n - x : x \in S}
<1>1. T \subseteq Nat /\ T # {}
  <2>1. PICK x \in S : TRUE
    OBVIOUS
  <2>2. n - x \in T
    OBVIOUS
  <2>3. \A z \in S : n - z \in Nat
    OBVIOUS
  <2> QED BY <2>2, <2>3
<1>2. PICK y \in T : \A z \in T : y <= z
  BY <1>1, LeastNatural
<1>3. PICK x \in S : y = n - x
  OBVIOUS
<1>4. \A z \in S : n - x <= n - z
  BY <1>2, <1>3
<1>5. \A z \in S : z <= x
  BY <1>4
<1> QED BY <1>5

LEMMA MaxOfTwo ==
  ASSUME NEW a \in Int, NEW b \in Int
  PROVE  Max({a, b}) \in Int /\ Max({a, b}) >= a /\ Max({a, b}) >= b
<1>1. \E x \in {a, b} : \A y \in {a, b} : x >= y
  OBVIOUS
<1>2. Max({a, b}) \in {a, b} /\ \A y \in {a, b} : Max({a, b}) >= y
  BY <1>1 DEF Max
<1> QED BY <1>2

LEMMA Quotient ==
  ASSUME NEW a \in Int, NEW b \in Nat \ {0}
  PROVE  /\ a \div b \in Int
         /\ b * (a \div b) <= a
         /\ a < b * (a \div b) + b
<1>1. a \div b \in Int /\ a % b \in 0 .. b - 1 /\ a = b * (a \div b) + (a % b)
  OBVIOUS
<1>2. b * (a \div b) \in Int
  BY <1>1
<1> QED BY <1>1, <1>2

LEMMA ProductMonotonic ==
  ASSUME NEW q \in Nat, NEW a \in Int, NEW b \in Int, a <= b
  PROVE  q * a <= q * b
<1>1. b - a \in Nat /\ q * (b - a) \in Nat
  OBVIOUS
<1>2. q * (b - a) = q * b - q * a
  OBVIOUS
<1>3. q * a \in Int /\ q * b \in Int
  OBVIOUS
<1> QED BY <1>1, <1>2, <1>3

(* Dividing by q keeps what lies between multiples of q between them. *)
LEMMA QuotientBetween ==
  ASSUME NEW a \in Int, NEW q \in Nat \ {0}, NEW l \in Int, NEW u \in Int,
         q * l <= a, a < q * u
  PROVE  a \div q \in l .. u - 1
<1> DEFINE d == a \div q
<1>1. d \in Int /\ q * d <= a /\ a < q * d + q
  BY Quotient
<1> HIDE DEF d
<1>2. l <= d
  <2>1. SUFFICES ASSUME d + 1 <= l PROVE FALSE
    BY <1>1
  <2>2. q * (d + 1) <= q * l /\ q * (d + 1) = q * d + q
    BY <1>1, <2>1, ProductMonotonic
  <2>3. q * d \in Int /\ q * l \in Int
    BY <1>1
  <2> QED BY <1>1, <2>2, <2>3
<1>3. d <= u - 1
  <2>1. SUFFICES ASSUME u <= d PROVE FALSE
    BY <1>1
  <2>2. q * u <= q * d
    BY <1>1, <2>1, ProductMonotonic
  <2>3. q * d \in Int /\ q * u \in Int
    BY <1>1
  <2> QED BY <1>1, <2>2, <2>3
<1> QED BY <1>1, <1>2, <1>3 DEF d

-----------------------------------------------------------------------------
(* From sizes to lists *)

FL == 0 .. FL_INDEX_COUNT - 1
SL == 0 .. SL_INDEX_COUNT - 1

LEMMA Numbers ==
  /\ SL_INDEX_COUNT \in Nat /\ SL_INDEX_COUNT >= 2
  /\ FL_INDEX_COUNT \in Nat /\ FL_INDEX_COUNT >= 2
  /\ block_size_max \in Nat /\ block_size_max >= 4
  /\ SL_INDEX_COUNT <= block_size_max
<1>1. power2[0] = 1 /\ power2[1] = 2 /\ power2[2] = 4
  BY Power2Def
<1>2. power2[1] <= power2[SL_INDEX_COUNT_LOG2]
  BY Power2Monotonic, TlsfAssumption
<1>3. power2[2] <= power2[FL_INDEX_MAX]
  BY Power2Monotonic, TlsfAssumption
<1>4. power2[SL_INDEX_COUNT_LOG2] <= power2[FL_INDEX_MAX]
  BY Power2Monotonic, TlsfAssumption
<1>5. power2[SL_INDEX_COUNT_LOG2] \in Nat /\ power2[FL_INDEX_MAX] \in Nat
  BY Power2Def, TlsfAssumption
<1> QED
  BY <1>1, <1>2, <1>3, <1>4, <1>5, TlsfAssumption
     DEF SL_INDEX_COUNT, FL_INDEX_COUNT, block_size_max

(* tlsf_fls finds the highest bit. *)
LEMMA FlsProperties ==
  ASSUME NEW s \in Nat \ {0}, s < power2[FL_INDEX_MAX + 2]
  PROVE  /\ tlsf_fls(s) \in 0 .. FL_INDEX_MAX + 1
         /\ power2[tlsf_fls(s)] <= s
         /\ s < power2[tlsf_fls(s) + 1]
<1> DEFINE D == {k \in 0 .. FL_INDEX_MAX + 1 : power2[k] <= s}
<1>0. FL_INDEX_MAX + 1 \in Nat
  BY TlsfAssumption
<1>1. 0 \in D
  BY Power2Def, TlsfAssumption
<1>2. D \subseteq 0 .. FL_INDEX_MAX + 1 /\ D # {}
  BY <1>1
<1>3. PICK k \in D : \A j \in D : j <= k
  <2> HIDE DEF D
  <2> QED BY <1>0, <1>2, GreatestNatural
<1>4. s < power2[k + 1]
  <2>1. CASE k = FL_INDEX_MAX + 1
    BY <2>1, TlsfAssumption
  <2>2. CASE k # FL_INDEX_MAX + 1
    <3>1. k + 1 \in 0 .. FL_INDEX_MAX + 1 /\ k + 1 \notin D
      BY <2>2, <1>3, TlsfAssumption
    <3>2. power2[k + 1] \in Nat
      BY Power2Def
    <3> QED BY <3>1, <3>2
  <2> QED BY <2>1, <2>2
<1>5. \E j \in 0 .. FL_INDEX_MAX + 1 : power2[j] <= s /\ s < power2[j + 1]
  BY <1>4
<1> QED BY <1>5 DEF tlsf_fls

LEMMA PowerOrder ==
  ASSUME NEW s \in Nat, NEW i \in Nat, NEW j \in Nat, power2[i] <= s, s < power2[j + 1]
  PROVE  i <= j
<1>1. SUFFICES ASSUME j + 1 <= i PROVE FALSE
  OBVIOUS
<1>2. power2[j + 1] <= power2[i]
  BY <1>1, Power2Monotonic
<1>3. power2[j + 1] \in Nat /\ power2[i] \in Nat
  BY Power2Def
<1> QED BY <1>2, <1>3

(* The list of a size that is not small, in terms of its highest bit k. *)
LEMMA MappingOfLarge ==
  ASSUME NEW s \in Nat, s >= SMALL_BLOCK_SIZE, s < power2[FL_INDEX_MAX + 2],
         NEW k, k = tlsf_fls(s), NEW q, q = power2[k - SL_INDEX_COUNT_LOG2]
  PROVE  /\ k \in SL_INDEX_COUNT_LOG2 .. FL_INDEX_MAX + 1
         /\ power2[k] <= s /\ s < power2[k + 1]
         /\ q \in Nat \ {0}
         /\ power2[k] = q * SL_INDEX_COUNT
         /\ power2[k + 1] = q * (2 * SL_INDEX_COUNT)
         /\ s \div q \in SL_INDEX_COUNT .. 2 * SL_INDEX_COUNT - 1
         /\ mapping_insert(s) = [fl |-> k - (SL_INDEX_COUNT_LOG2 - 1),
                                 sl |-> s \div q - SL_INDEX_COUNT]
<1>1. SMALL_BLOCK_SIZE = power2[SL_INDEX_COUNT_LOG2] /\ SL_INDEX_COUNT = power2[SL_INDEX_COUNT_LOG2]
      /\ SL_INDEX_COUNT \in Nat /\ SL_INDEX_COUNT >= 2 /\ SL_INDEX_COUNT_LOG2 \in Nat
  BY Numbers, TlsfAssumption DEF SMALL_BLOCK_SIZE, SL_INDEX_COUNT
<1>2. k \in 0 .. FL_INDEX_MAX + 1 /\ power2[k] <= s /\ s < power2[k + 1]
  BY <1>1, FlsProperties
<1>3. SL_INDEX_COUNT_LOG2 <= k
  BY <1>1, <1>2, PowerOrder
<1>4. k - SL_INDEX_COUNT_LOG2 \in Nat /\ q \in Nat \ {0}
  BY <1>1, <1>2, <1>3, Power2Def
<1>5. power2[k] = q * SL_INDEX_COUNT
  <2>1. (k - SL_INDEX_COUNT_LOG2) + SL_INDEX_COUNT_LOG2 = k
    BY <1>1, <1>2
  <2>2. power2[(k - SL_INDEX_COUNT_LOG2) + SL_INDEX_COUNT_LOG2] = q * power2[SL_INDEX_COUNT_LOG2]
    BY <1>1, <1>4, Power2Sum
  <2> QED BY <1>1, <2>1, <2>2
<1>6. power2[k + 1] = q * (2 * SL_INDEX_COUNT)
  <2>1. k + 1 \in Nat /\ k + 1 # 0 /\ (k + 1) - 1 = k
    BY <1>2
  <2>2. power2[k + 1] = 2 * power2[k]
    BY <2>1, Power2Def
  <2> QED BY <2>2, <1>1, <1>4, <1>5
<1>7. s \div q \in SL_INDEX_COUNT .. 2 * SL_INDEX_COUNT - 1
  <2>1. q * SL_INDEX_COUNT <= s /\ s < q * (2 * SL_INDEX_COUNT) /\ 2 * SL_INDEX_COUNT \in Int
    BY <1>1, <1>2, <1>5, <1>6
  <2>2. ASSUME NEW u, u = 2 * SL_INDEX_COUNT
        PROVE  s \div q \in SL_INDEX_COUNT .. u - 1
    <3>1. q * SL_INDEX_COUNT <= s /\ s < q * u /\ u \in Int /\ s \in Int /\ SL_INDEX_COUNT \in Int
      BY <1>1, <2>1, <2>2
    <3> HIDE <2>2
    <3> QED BY <1>4, <3>1, QuotientBetween
  <2> QED BY <2>2
<1>8. ~(s < SMALL_BLOCK_SIZE)
  BY <1>1
<1>9. mapping_insert(s) = [fl |-> k - (SL_INDEX_COUNT_LOG2 - 1), sl |-> s \div q - SL_INDEX_COUNT]
  BY <1>8 DEF mapping_insert
<1> QED BY <1>1, <1>2, <1>3, <1>4, <1>5, <1>6, <1>7, <1>9

LEMMA PowersAbove ==
  /\ power2[FL_INDEX_MAX + 2] = 4 * block_size_max
  /\ power2[FL_INDEX_MAX + 1] = 2 * block_size_max
<1>1. FL_INDEX_MAX + 1 \in Nat /\ FL_INDEX_MAX + 2 \in Nat /\ FL_INDEX_MAX \in Nat
      /\ (FL_INDEX_MAX + 2) - 1 = FL_INDEX_MAX + 1 /\ (FL_INDEX_MAX + 1) - 1 = FL_INDEX_MAX
      /\ FL_INDEX_MAX + 2 # 0 /\ FL_INDEX_MAX + 1 # 0
  BY TlsfAssumption
<1>2. power2[FL_INDEX_MAX + 2] = 2 * power2[FL_INDEX_MAX + 1]
  BY <1>1, Power2Def
<1>3. power2[FL_INDEX_MAX + 1] = 2 * power2[FL_INDEX_MAX]
  BY <1>1, Power2Def
<1>4. power2[FL_INDEX_MAX] \in Nat
  BY <1>1, Power2Def
<1> QED BY <1>2, <1>3, <1>4 DEF block_size_max

(* Every block that fits in a heap has a list. *)
LEMMA MappingInRange ==
  ASSUME NEW s \in Nat, s < block_size_max
  PROVE  \E fl \in FL, sl \in SL : mapping_insert(s) = [fl |-> fl, sl |-> sl]
<1>1. CASE s < SMALL_BLOCK_SIZE
  <2>1. mapping_insert(s) = [fl |-> 0, sl |-> s]
    BY <1>1 DEF mapping_insert
  <2>2. 0 \in FL /\ s \in SL
    BY <1>1, Numbers DEF FL, SL, SMALL_BLOCK_SIZE
  <2> QED BY <2>1, <2>2
<1>2. CASE ~(s < SMALL_BLOCK_SIZE)
  <2> DEFINE k == tlsf_fls(s)
             q == power2[k - SL_INDEX_COUNT_LOG2]
  <2>1. s >= SMALL_BLOCK_SIZE /\ s < power2[FL_INDEX_MAX + 2]
    BY <1>2, Numbers, PowersAbove DEF SMALL_BLOCK_SIZE
  <2>2. /\ k \in SL_INDEX_COUNT_LOG2 .. FL_INDEX_MAX + 1
        /\ power2[k] <= s
        /\ s \div q \in SL_INDEX_COUNT .. 2 * SL_INDEX_COUNT - 1
        /\ mapping_insert(s) = [fl |-> k - (SL_INDEX_COUNT_LOG2 - 1),
                                sl |-> s \div q - SL_INDEX_COUNT]
    BY <2>1, MappingOfLarge
  <2> HIDE DEF k, q
  <2>3. k < FL_INDEX_MAX
    <3>1. SUFFICES ASSUME FL_INDEX_MAX <= k PROVE FALSE
      BY <2>2, TlsfAssumption
    <3>2. power2[FL_INDEX_MAX] <= power2[k]
      BY <3>1, <2>2, Power2Monotonic, TlsfAssumption
    <3>3. power2[k] \in Nat
      BY <2>2, Power2Def, TlsfAssumption
    <3> QED BY <3>2, <3>3, <2>2, Numbers DEF block_size_max
  <2>4. k - (SL_INDEX_COUNT_LOG2 - 1) \in FL
    BY <2>2, <2>3, TlsfAssumption DEF FL, FL_INDEX_COUNT
  <2>5. s \div q - SL_INDEX_COUNT \in SL
    BY <2>2, Numbers DEF SL
  <2> QED BY <2>2, <2>4, <2>5
<1> QED BY <1>1, <1>2

(* What mapping_search rounds a size up to. *)
LEMMA SearchOfLarge ==
  ASSUME NEW s \in Nat, s >= SMALL_BLOCK_SIZE, s < block_size_max,
         NEW j, j = tlsf_fls(s), NEW p, p = power2[j - SL_INDEX_COUNT_LOG2],
         NEW r, r = s + p - 1
  PROVE  /\ j \in SL_INDEX_COUNT_LOG2 .. FL_INDEX_MAX + 1
         /\ p \in Nat \ {0}
         /\ s < power2[j + 1]
         /\ r \in Nat /\ s <= r /\ r <= 2 * s /\ r < power2[j + 2] /\ r >= SMALL_BLOCK_SIZE
         /\ r < power2[FL_INDEX_MAX + 2]
         /\ mapping_search(s) = mapping_insert(r)
<1>1. s < power2[FL_INDEX_MAX + 2]
  BY Numbers, PowersAbove
<1>2. /\ j \in SL_INDEX_COUNT_LOG2 .. FL_INDEX_MAX + 1 /\ p \in Nat \ {0}
      /\ power2[j] <= s /\ s < power2[j + 1]
      /\ power2[j] = p * SL_INDEX_COUNT /\ power2[j + 1] = p * (2 * SL_INDEX_COUNT)
  BY <1>1, MappingOfLarge
<1>3. p <= power2[j]
  <2>1. p * 1 <= p * SL_INDEX_COUNT
    BY <1>2, Numbers, ProductMonotonic
  <2> QED BY <1>2, <2>1
<1>4. power2[j + 2] = 2 * power2[j + 1] /\ power2[j + 1] = 2 * power2[j]
  <2>1. j + 2 \in Nat /\ j + 2 # 0 /\ (j + 2) - 1 = j + 1 /\ j + 1 \in Nat /\ j + 1 # 0
        /\ (j + 1) - 1 = j
    BY <1>2, TlsfAssumption
  <2> QED BY <2>1, Power2Def
<1>5. power2[j] \in Nat /\ SMALL_BLOCK_SIZE \in Nat
  BY <1>2, Power2Def, TlsfAssumption, Numbers DEF SMALL_BLOCK_SIZE
<1>6. r \in Nat /\ s <= r /\ r <= 2 * s /\ r < power2[j + 2] /\ r >= SMALL_BLOCK_SIZE
  BY <1>2, <1>3, <1>4, <1>5
<1>7. r < power2[FL_INDEX_MAX + 2]
  BY <1>2, <1>3, <1>5, <1>6, PowersAbove, Numbers
<1>8. mapping_search(s) = mapping_insert(r)
  BY <1>5 DEF mapping_search
<1> QED BY <1>2, <1>6, <1>7, <1>8

(* mapping_search names a list that may be past the last one. *)
LEMMA SearchInRange ==
  ASSUME NEW s \in Nat, s < block_size_max
  PROVE  mapping_search(s).fl \in Nat /\ mapping_search(s).sl \in SL
<1>1. CASE s < SMALL_BLOCK_SIZE
  <2>1. mapping_search(s) = [fl |-> 0, sl |-> s]
    BY <1>1 DEF mapping_insert, mapping_search
  <2>2. s \in SL
    BY <1>1, Numbers DEF SL, SMALL_BLOCK_SIZE
  <2> QED BY <2>1, <2>2
<1>2. CASE ~(s < SMALL_BLOCK_SIZE)
  <2> DEFINE j == tlsf_fls(s)
             p == power2[j - SL_INDEX_COUNT_LOG2]
             r == s + p - 1
             k == tlsf_fls(r)
             q == power2[k - SL_INDEX_COUNT_LOG2]
  <2>1. s >= SMALL_BLOCK_SIZE
    BY <1>2, Numbers DEF SMALL_BLOCK_SIZE
  <2>2. r \in Nat /\ r >= SMALL_BLOCK_SIZE /\ r < power2[FL_INDEX_MAX + 2]
        /\ mapping_search(s) = mapping_insert(r)
    BY <2>1, SearchOfLarge
  <2> HIDE DEF r
  <2>3. /\ k \in SL_INDEX_COUNT_LOG2 .. FL_INDEX_MAX + 1
        /\ r \div q \in SL_INDEX_COUNT .. 2 * SL_INDEX_COUNT - 1
        /\ mapping_insert(r) = [fl |-> k - (SL_INDEX_COUNT_LOG2 - 1),
                                sl |-> r \div q - SL_INDEX_COUNT]
    BY <2>2, MappingOfLarge
  <2> HIDE DEF k, q
  <2>4. k - (SL_INDEX_COUNT_LOG2 - 1) \in Nat /\ r \div q - SL_INDEX_COUNT \in SL
    BY <2>3, Numbers, TlsfAssumption DEF SL
  <2> QED BY <2>2, <2>3, <2>4
<1> QED BY <1>1, <1>2

(* Good fit: every block of a list at or after the one that mapping_search   *)
(* names is large enough.                                                    *)
THEOREM GoodFit ==
  ASSUME NEW s \in Nat, s < block_size_max, NEW x \in Nat, x < block_size_max,
         NEW fl \in FL, NEW sl \in SL, mapping_insert(x) = [fl |-> fl, sl |-> sl],
         \/ fl > mapping_search(s).fl
         \/ fl = mapping_search(s).fl /\ sl >= mapping_search(s).sl
  PROVE  x >= s
<1> DEFINE at == mapping_search(s)
<1>0. SL_INDEX_COUNT \in Nat /\ SMALL_BLOCK_SIZE = SL_INDEX_COUNT /\ SL_INDEX_COUNT >= 2
      /\ FL \subseteq Nat /\ SL \subseteq Nat /\ SL_INDEX_COUNT_LOG2 \in Nat \ {0}
  BY Numbers, TlsfAssumption DEF SMALL_BLOCK_SIZE, FL, SL
<1>1. x < power2[FL_INDEX_MAX + 2]
  BY Numbers, PowersAbove
<1> DEFINE kx == tlsf_fls(x)
           qx == power2[kx - SL_INDEX_COUNT_LOG2]
<1>2. CASE s < SMALL_BLOCK_SIZE
  <2>1. at = [fl |-> 0, sl |-> s]
    BY <1>2 DEF mapping_insert, mapping_search
  <2>2. CASE x < SMALL_BLOCK_SIZE
    <3>1. mapping_insert(x) = [fl |-> 0, sl |-> x]
      BY <2>2 DEF mapping_insert
    <3>2. fl = 0 /\ sl = x
      BY <3>1
    <3> QED BY <2>1, <3>2
  <2> QED BY <1>0, <1>2, <2>2
<1>3. CASE ~(s < SMALL_BLOCK_SIZE)
  <2> DEFINE j == tlsf_fls(s)
             p == power2[j - SL_INDEX_COUNT_LOG2]
             r == s + p - 1
             k == tlsf_fls(r)
             q == power2[k - SL_INDEX_COUNT_LOG2]
  <2>1. s >= SMALL_BLOCK_SIZE
    BY <1>0, <1>3
  <2>2. /\ j \in SL_INDEX_COUNT_LOG2 .. FL_INDEX_MAX + 1 /\ p \in Nat \ {0}
        /\ s < power2[j + 1]
        /\ r \in Nat /\ s <= r /\ r < power2[j + 2] /\ r >= SMALL_BLOCK_SIZE
        /\ r < power2[FL_INDEX_MAX + 2]
        /\ at = mapping_insert(r)
    BY <2>1, SearchOfLarge
  <2>21. r = s + p - 1
    OBVIOUS
  <2> HIDE DEF r
  <2>3. /\ k \in SL_INDEX_COUNT_LOG2 .. FL_INDEX_MAX + 1
        /\ power2[k] <= r /\ r < power2[k + 1]
        /\ q \in Nat \ {0}
        /\ power2[k] = q * SL_INDEX_COUNT
        /\ r \div q \in SL_INDEX_COUNT .. 2 * SL_INDEX_COUNT - 1
        /\ mapping_insert(r) = [fl |-> k - (SL_INDEX_COUNT_LOG2 - 1),
                                sl |-> r \div q - SL_INDEX_COUNT]
    BY <2>2, MappingOfLarge
  <2>4. j <= k /\ k <= j + 1
    <3>1. power2[j] <= r
      <4>1. power2[j] <= s
        <5>1. s < power2[FL_INDEX_MAX + 2]
          BY Numbers, PowersAbove
        <5> QED BY <2>1, <5>1, MappingOfLarge
      <4>2. power2[j] \in Nat
        BY <2>2, <1>0, Power2Def
      <4> QED BY <4>1, <4>2, <2>2
    <3>2. j \in Nat /\ k \in Nat /\ j + 1 \in Nat /\ (j + 1) + 1 = j + 2
      BY <2>2, <2>3, <1>0
    <3>3. j <= k
      BY <3>1, <3>2, <2>2, <2>3, PowerOrder
    <3> HIDE DEF j, k
    <3>4. k <= j + 1
      <4>1. power2[k] <= r /\ r < power2[(j + 1) + 1]
        BY <3>2, <2>2, <2>3
      <4> QED BY <4>1, <3>2, <2>2, PowerOrder
    <3> QED BY <3>3, <3>4
  <2>5. at.fl = k - (SL_INDEX_COUNT_LOG2 - 1) /\ at.sl = r \div q - SL_INDEX_COUNT
    BY <2>2, <2>3
  <2>6. x >= SMALL_BLOCK_SIZE
    <3>1. SUFFICES ASSUME x < SMALL_BLOCK_SIZE PROVE FALSE
      BY <1>0
    <3>2. mapping_insert(x) = [fl |-> 0, sl |-> x]
      BY <3>1 DEF mapping_insert
    <3>3. fl = 0
      BY <3>2
    <3>4. at.fl \in Int /\ at.fl >= 1
      BY <2>3, <2>5, <1>0, TlsfAssumption
    <3> QED BY <3>3, <3>4
  <2>7. /\ kx \in SL_INDEX_COUNT_LOG2 .. FL_INDEX_MAX + 1
        /\ power2[kx] <= x
        /\ qx \in Nat \ {0}
        /\ x \div qx \in SL_INDEX_COUNT .. 2 * SL_INDEX_COUNT - 1
        /\ mapping_insert(x) = [fl |-> kx - (SL_INDEX_COUNT_LOG2 - 1),
                                sl |-> x \div qx - SL_INDEX_COUNT]
    BY <1>1, <2>6, MappingOfLarge
  <2>8. fl = kx - (SL_INDEX_COUNT_LOG2 - 1) /\ sl = x \div qx - SL_INDEX_COUNT
    BY <2>7
  <2> HIDE DEF at
  <2>9. CASE fl > at.fl
    <3>1. k + 1 <= kx /\ k + 1 \in Nat /\ kx \in Nat
      BY <2>3, <2>5, <2>7, <2>8, <2>9, TlsfAssumption
    <3>2. power2[k + 1] <= power2[kx]
      BY <3>1, Power2Monotonic
    <3>3. power2[k + 1] \in Nat /\ power2[kx] \in Nat
      BY <3>1, Power2Def
    <3> QED BY <3>2, <3>3, <2>2, <2>3, <2>7
  <2>10. CASE fl = at.fl /\ sl >= at.sl
    <3>1. kx = k
      BY <2>3, <2>5, <2>7, <2>8, <2>10, TlsfAssumption
    <3>2. qx = q
      BY <3>1
    <3>3. x \div q >= r \div q
      BY <3>2, <2>3, <2>5, <2>7, <2>8, <2>10, <1>0
    <3>4. CASE k = j
      <4>1. q = p
        BY <3>4
      <4> HIDE DEF q, p
      <4>2. q * (x \div q) <= x /\ x \div q \in Int
        BY <2>3, Quotient
      <4>3. r < q * (r \div q) + q /\ r \div q \in Int
        BY <2>2, <2>3, Quotient
      <4>4. q * (r \div q) <= q * (x \div q)
        BY <3>3, <4>2, <4>3, <2>3, ProductMonotonic
      <4>5. q * (r \div q) \in Int /\ q * (x \div q) \in Int
        BY <4>2, <4>3, <2>3
      <4>6. r < x + q
        BY <4>2, <4>3, <4>4, <4>5, <2>2, <2>3
      <4>7. s + q - 1 < x + q
        BY <4>1, <4>6, <2>21
      <4> QED BY <4>7, <2>2, <2>3
    <3>5. CASE k = j + 1
      <4>1. power2[j + 1] <= x
        BY <3>1, <3>5, <2>7
      <4>2. power2[j + 1] \in Nat
        BY <2>2, <1>0, Power2Def
      <4> QED BY <4>1, <4>2, <2>2
    <3> QED
      <4>1. j \in Int /\ k \in Int
        BY <2>2, <2>3, <1>0
      <4> HIDE DEF j, k
      <4>2. k = j \/ k = j + 1
        BY <4>1, <2>4
      <4> QED BY <4>2, <3>4, <3>5
  <2> QED BY <2>9, <2>10 DEF at
<1> QED BY <1>2, <1>3

-----------------------------------------------------------------------------
(* Memories *)

HeaderType  == [size : Nat, free : BOOLEAN, prev_free : BOOLEAN, prev_phys : Nat]
ControlType == [blocks    : [FL -> [SL -> Seq(Nat)]],
                sl_bitmap : [FL -> SUBSET SL],
                fl_bitmap : SUBSET FL]

(* A memory with headers at the addresses D and controls at the addresses C. *)
Memory(D, C) == [blk : [D -> HeaderType], tlsf : [C -> ControlType], abort : BOOLEAN]

(* h: what m.blk of a memory is, the headers by address. *)
NextOf(h, b) == b + h[b].size + 1

(* Blocks follow each other: after a block comes the next one, at once. *)
Tiled(h) ==
  \A b \in DOMAIN h :
    /\ h[b].size = 0 => ~h[b].free
    /\ h[b].size # 0 =>
         /\ h[b].size >= block_size_min
         /\ NextOf(h, b) \in DOMAIN h
         /\ \A a \in DOMAIN h : a <= b \/ a >= NextOf(h, b)

(* A block knows whether the one before it is free, and where that one is. *)
Linked(h) ==
  \A b \in DOMAIN h :
    /\ h[b].size # 0 => h[NextOf(h, b)].prev_free = h[b].free
    /\ h[b].prev_free =>
         /\ h[b].prev_phys \in DOMAIN h
         /\ h[h[b].prev_phys].size # 0
         /\ NextOf(h, h[b].prev_phys) = b
    /\ ~h[b].prev_free => h[b].prev_phys = NO_BLOCK

(* No two free blocks side by side, but for those that start in E. *)
FreeApart(h, E) ==
  \A b \in DOMAIN h : h[b].free /\ h[NextOf(h, b)].free => b \in E

(* ext: the words that belong to a control. *)
In(ext, c, b) == c <= b /\ b < c + ext[c]

Layout(ext) ==
  /\ ext \in [DOMAIN ext -> Nat]
  /\ DOMAIN ext \subseteq Nat \ {0}
  /\ \A c \in DOMAIN ext : ext[c] <= block_size_max
  /\ \A c, d \in DOMAIN ext : c # d => c + ext[c] <= d \/ d + ext[d] <= c

(* Blocks lie in the words of a control, up to the header that ends them. *)
Placed(h, ext) ==
  \A b \in DOMAIN h :
    /\ \E c \in DOMAIN ext : In(ext, c, b)
    /\ \A c \in DOMAIN ext :
         In(ext, c, b) /\ h[b].size # 0 => NextOf(h, b) + 1 < c + ext[c]

NoRepeat(s) == \A i, j \in DOMAIN s : s[i] = s[j] => i = j

(* The blocks that belong in a list: all that are free, except those in U.   *)
Belong(h, ext, U, c, fl, sl) ==
  {b \in DOMAIN h : /\ h[b].free /\ b \notin U /\ In(ext, c, b)
                    /\ mapping_insert(h[b].size) = [fl |-> fl, sl |-> sl]}

ListsOK(h, t, ext, U) ==
  \A c \in DOMAIN ext, fl \in FL, sl \in SL :
    /\ ToSet(t[c].blocks[fl][sl]) = Belong(h, ext, U, c, fl, sl)
    /\ NoRepeat(t[c].blocks[fl][sl])

BitmapsOK(t) ==
  \A c \in DOMAIN t, fl \in FL :
    /\ \A sl \in SL : sl \in t[c].sl_bitmap[fl] <=> t[c].blocks[fl][sl] # <<>>
    /\ fl \in t[c].fl_bitmap <=> t[c].sl_bitmap[fl] # {}

(* In the middle of a call: E as in FreeApart, U as in Belong. *)
Between(m, ext, E, U) ==
  /\ m \in Memory(DOMAIN m.blk, DOMAIN ext)
  /\ DOMAIN m.blk \subseteq Nat \ {0}
  /\ Layout(ext)
  /\ Tiled(m.blk) /\ Linked(m.blk) /\ FreeApart(m.blk, E)
  /\ Placed(m.blk, ext)
  /\ ListsOK(m.blk, m.tlsf, ext, U)
  /\ BitmapsOK(m.tlsf)

(* Between calls, no assertion having failed. *)
Valid(m, ext) == Between(m, ext, {}, {}) /\ ~m.abort

(* A block that somebody was given, and what a call leaves alone. *)
Used(h, b)     == b \in DOMAIN h /\ ~h[b].free /\ h[b].size # 0
Intact(h, k, S)  == \A b \in DOMAIN h \ S : Used(h, b) => Used(k, b) /\ k[b].size = h[b].size

(* Where the rows of blocks start and end; and that they do so still, with   *)
(* no block in use that was not, but for T.                                  *)
Starts(h) == {b \in DOMAIN h : \A a \in DOMAIN h : h[a].size # 0 => NextOf(h, a) # b}
Ends(h)   == {b \in DOMAIN h : h[b].size = 0}
Steady(h, k, T) ==
  /\ Starts(k) = Starts(h) /\ Ends(k) = Ends(h)
  /\ \A b \in DOMAIN k \ T : Used(k, b) => Used(h, b)

-----------------------------------------------------------------------------
(* What becomes of the headers *)

(* Headers h become k: b is marked as free or as used. *)
IsMarked(h, k, b, free) ==
  /\ \A a \in DOMAIN h :
       /\ k[a].size = h[a].size
       /\ a # b => k[a].free = h[a].free
       /\ a # NextOf(h, b) => k[a].prev_free = h[a].prev_free /\ k[a].prev_phys = h[a].prev_phys
  /\ k[b].free = free
  /\ k[NextOf(h, b)].prev_free = free
  /\ k[NextOf(h, b)].prev_phys = IF free THEN b ELSE NO_BLOCK

(* b is cut to a size, and the rest of it is a free block. *)
IsSplit(h, k, b, size) ==
  LET rest == split_off(b, size)
  IN  /\ \A a \in DOMAIN h :
           /\ a # b => k[a].size = h[a].size
           /\ k[a].free = h[a].free
           /\ a # NextOf(h, b) => k[a].prev_free = h[a].prev_free /\ k[a].prev_phys = h[a].prev_phys
      /\ k[b].size = size
      /\ k[rest].size = h[b].size - (size + 1)
      /\ k[rest].free = TRUE
      /\ k[rest].prev_free = h[b].free
      /\ k[rest].prev_phys = IF h[b].free THEN b ELSE NO_BLOCK
      /\ k[NextOf(h, b)].prev_free = TRUE
      /\ k[NextOf(h, b)].prev_phys = rest

(* b takes in the free block after it. *)
IsMerged(h, k, b) ==
  LET next == NextOf(h, b)
      far  == NextOf(h, next)
  IN  /\ \A a \in DOMAIN h \ {next} :
           /\ a # b => k[a].size = h[a].size
           /\ k[a].free = h[a].free
           /\ a # far => k[a].prev_free = h[a].prev_free /\ k[a].prev_phys = h[a].prev_phys
      /\ k[b].size = h[b].size + h[next].size + 1
      /\ k[far].prev_free = h[b].free
      /\ k[far].prev_phys = IF h[b].free THEN b ELSE NO_BLOCK

Headers(D) == [D -> HeaderType]

LEMMA NextNumbers ==
  ASSUME NEW D, D \subseteq Nat \ {0}, NEW h \in Headers(D), NEW b \in D
  PROVE  /\ h[b] \in HeaderType /\ h[b].size \in Nat
         /\ NextOf(h, b) \in Nat /\ NextOf(h, b) > b
  BY DEF Headers, HeaderType, NextOf

(* A block is followed by one other block, and follows one other block. *)
LEMMA OneBefore ==
  ASSUME NEW D, D \subseteq Nat \ {0}, NEW h \in Headers(D), Tiled(h),
         NEW a \in D, h[a].size # 0, NEW b \in D, h[b].size # 0, a # b
  PROVE  NextOf(h, a) # NextOf(h, b)
<1>1. /\ NextOf(h, a) \in Nat /\ NextOf(h, a) > a /\ a \in Nat
      /\ NextOf(h, b) \in Nat /\ NextOf(h, b) > b /\ b \in Nat
  BY NextNumbers
<1>2. DOMAIN h = D
  BY DEF Headers
<1>3. (b <= a \/ b >= NextOf(h, a)) /\ (a <= b \/ a >= NextOf(h, b))
  BY <1>2 DEF Tiled
<1> QED BY <1>1, <1>3

(* A row of blocks that stays one, with every block where it was. *)
RowKept(D, h, k) == Tiled(k) /\ Linked(k) /\ \A a \in D : NextOf(k, a) = NextOf(h, a)

LEMMA MarkedRow ==
  ASSUME NEW D, D \subseteq Nat \ {0}, NEW h \in Headers(D), Tiled(h), Linked(h),
         NEW b \in D, h[b].size # 0, NEW free \in BOOLEAN,
         NEW k \in Headers(D), IsMarked(h, k, b, free)
  PROVE  RowKept(D, h, k)
<1> DEFINE n == NextOf(h, b)
<1>0. DOMAIN h = D /\ DOMAIN k = D
  BY DEF Headers
<1>1. n \in D /\ n > b /\ n \in Nat /\ b \in Nat \ {0}
  BY <1>0, NextNumbers DEF Tiled
<1>7. \A a \in D : NextOf(k, a) = NextOf(h, a)
  BY <1>0 DEF NextOf, IsMarked
<1>8. Tiled(k)
  BY <1>0, <1>7 DEF Tiled, IsMarked
<1>11. Linked(k)
  <2> SUFFICES ASSUME NEW a \in D
               PROVE  /\ k[a].size # 0 => k[NextOf(k, a)].prev_free = k[a].free
                      /\ k[a].prev_free => /\ k[a].prev_phys \in D
                                           /\ k[k[a].prev_phys].size # 0
                                           /\ NextOf(k, k[a].prev_phys) = a
                      /\ ~k[a].prev_free => k[a].prev_phys = NO_BLOCK
    BY <1>0 DEF Linked
  <2>1. ASSUME k[a].size # 0 PROVE k[NextOf(k, a)].prev_free = k[a].free
    <3>0. h[a].size # 0 /\ NextOf(h, a) \in D /\ NextOf(k, a) = NextOf(h, a)
      BY <2>1, <1>0, <1>7 DEF Tiled, IsMarked
    <3>1. CASE a = b
      BY <3>0, <3>1 DEF IsMarked
    <3>2. CASE a # b
      <4>1. NextOf(h, a) # n
        BY <3>0, <3>2, OneBefore
      <4>2. h[NextOf(h, a)].prev_free = h[a].free
        BY <3>0, <1>0 DEF Linked
      <4> QED BY <1>0, <3>0, <3>2, <4>1, <4>2 DEF IsMarked
    <3> QED BY <3>1, <3>2
  <2>2. CASE a = n
    BY <2>1, <2>2, <1>0, <1>1, <1>7 DEF IsMarked
  <2>3. CASE a # n
    BY <2>1, <2>3, <1>0, <1>7 DEF Linked, IsMarked
  <2> QED BY <2>1, <2>2, <2>3
<1> QED BY <1>7, <1>8, <1>11 DEF RowKept

LEMMA SplitRow ==
  ASSUME NEW D, D \subseteq Nat \ {0}, NEW h \in Headers(D), Tiled(h), Linked(h),
         NEW b \in D, NEW size \in Nat, size >= block_size_min,
         h[b].size >= sizeof_block_header + size,
         NEW rest, rest = split_off(b, size),
         NEW k \in Headers(D \cup {rest}), IsSplit(h, k, b, size)
  PROVE  /\ Tiled(k) /\ Linked(k)
         /\ rest \in Nat \ {0} /\ rest \notin D /\ b < rest /\ rest < NextOf(h, b)
         /\ k[rest].size >= block_size_min
         /\ NextOf(k, b) = rest
         /\ NextOf(k, rest) = NextOf(h, b)
         /\ NextOf(h, b) \in D
         /\ \A a \in D \ {b} : NextOf(k, a) = NextOf(h, a)
<1> DEFINE n == NextOf(h, b)
<1>0. DOMAIN h = D /\ DOMAIN k = D \cup {rest}
  BY DEF Headers
<1>1. h[b].size \in Nat /\ h[b].size # 0 /\ n > b /\ n \in Nat /\ b \in Nat \ {0}
  BY NextNumbers DEF sizeof_block_header
<1>2. n \in D
  BY <1>0, <1>1 DEF Tiled
<1>3. rest = b + size + 1 /\ rest \in Nat \ {0} /\ b < rest /\ rest < n
  BY <1>1 DEF split_off, block_header_overhead, sizeof_block_header, NextOf
<1>4. rest \notin D
  BY <1>0, <1>1, <1>3 DEF Tiled
<1>5. k[b].size = size /\ k[rest].size = h[b].size - (size + 1)
  BY DEF IsSplit
<1>6. NextOf(k, b) = rest /\ NextOf(k, rest) = n
  BY <1>1, <1>3, <1>5 DEF NextOf
<1>7. \A a \in D \ {b} : k[a].size = h[a].size /\ NextOf(k, a) = NextOf(h, a)
  BY <1>0 DEF NextOf, IsSplit
<1>8. k[rest].size >= block_size_min /\ k[rest].size \in Nat
  BY <1>1, <1>5 DEF block_size_min, sizeof_block_header
<1>9. Tiled(k)
  <2> SUFFICES ASSUME NEW a \in D \cup {rest}
               PROVE  /\ k[a].size = 0 => ~k[a].free
                      /\ k[a].size # 0 =>
                           /\ k[a].size >= block_size_min
                           /\ NextOf(k, a) \in D \cup {rest}
                           /\ \A c \in D \cup {rest} : c <= a \/ c >= NextOf(k, a)
    BY <1>0 DEF Tiled
  <2>1. CASE a = b
    <3>1. \A c \in D : c <= b \/ c >= n
      BY <1>0, <1>1 DEF Tiled
    <3>2. \A c \in D \cup {rest} : c <= b \/ c >= rest
      BY <3>1, <1>1, <1>3
    <3> QED BY <2>1, <3>2, <1>5, <1>6 DEF block_size_min
  <2>2. CASE a = rest
    <3>1. \A c \in D : c <= b \/ c >= n
      BY <1>0, <1>1 DEF Tiled
    <3>2. \A c \in D \cup {rest} : c <= rest \/ c >= n
      BY <3>1, <1>1, <1>3
    <3> QED BY <2>2, <3>2, <1>2, <1>6, <1>8 DEF block_size_min
  <2>3. CASE a \in D \ {b}
    <3>1. k[a].size = h[a].size /\ NextOf(k, a) = NextOf(h, a) /\ k[a].free = h[a].free
      BY <2>3, <1>0, <1>7 DEF IsSplit
    <3>2. ASSUME h[a].size # 0 PROVE rest <= a \/ rest >= NextOf(h, a)
      <4>1. a <= b \/ a >= n
        BY <2>3, <1>0, <1>1 DEF Tiled
      <4>2. b <= a \/ b >= NextOf(h, a)
        BY <2>3, <3>2, <1>0 DEF Tiled
      <4>3. a \in Nat /\ NextOf(h, a) \in Nat
        BY <2>3, NextNumbers
      <4> QED BY <4>1, <4>2, <4>3, <2>3, <1>1, <1>3
    <3> QED BY <2>3, <3>1, <3>2, <1>0 DEF Tiled
  <2> QED BY <2>1, <2>2, <2>3
<1>10. Linked(k)
  <2> SUFFICES ASSUME NEW a \in D \cup {rest}
               PROVE  /\ k[a].size # 0 => k[NextOf(k, a)].prev_free = k[a].free
                      /\ k[a].prev_free => /\ k[a].prev_phys \in D \cup {rest}
                                           /\ k[k[a].prev_phys].size # 0
                                           /\ NextOf(k, k[a].prev_phys) = a
                      /\ ~k[a].prev_free => k[a].prev_phys = NO_BLOCK
    BY <1>0 DEF Linked
  <2>1. ASSUME k[a].size # 0 PROVE k[NextOf(k, a)].prev_free = k[a].free
    <3>1. CASE a = b
      BY <3>1, <1>0, <1>6 DEF IsSplit
    <3>2. CASE a = rest
      BY <3>2, <1>6 DEF IsSplit
    <3>3. CASE a \in D \ {b}
      <4>1. h[a].size # 0 /\ NextOf(k, a) = NextOf(h, a) /\ NextOf(h, a) \in D /\ k[a].free = h[a].free
        BY <2>1, <3>3, <1>0, <1>7 DEF Tiled, IsSplit
      <4>2. NextOf(h, a) # n
        BY <4>1, <3>3, <1>1, OneBefore
      <4>3. h[NextOf(h, a)].prev_free = h[a].free
        BY <4>1, <3>3, <1>0 DEF Linked
      <4> QED BY <4>1, <4>2, <4>3, <3>3, <1>0 DEF IsSplit
    <3> QED BY <3>1, <3>2, <3>3
  <2>2. CASE a = n
    BY <2>1, <2>2, <1>6, <1>8 DEF IsSplit, block_size_min
  <2>3. CASE a = rest
    BY <2>1, <2>3, <1>5, <1>6 DEF IsSplit, block_size_min
  <2>4. CASE a \in D \ {n}
    <3>1. k[a].prev_free = h[a].prev_free /\ k[a].prev_phys = h[a].prev_phys
      BY <2>4, <1>0 DEF IsSplit
    <3>2. ASSUME h[a].prev_free
          PROVE  /\ h[a].prev_phys \in D \ {b} /\ h[h[a].prev_phys].size # 0
                 /\ NextOf(h, h[a].prev_phys) = a
      BY <2>4, <3>2, <1>0 DEF Linked
    <3> QED BY <2>1, <2>4, <3>1, <3>2, <1>0, <1>7 DEF Linked
  <2> QED BY <2>2, <2>3, <2>4
<1> QED BY <1>2, <1>3, <1>4, <1>6, <1>7, <1>8, <1>9, <1>10

MergedRows(D, h, k, b, next) ==
  /\ Tiled(k) /\ Linked(k) /\ next \in D /\ b < next
  /\ NextOf(h, next) \in D /\ NextOf(h, next) > next
  /\ NextOf(k, b) = NextOf(h, next)
  /\ \A a \in D \ {b, next} : NextOf(k, a) = NextOf(h, a)

LEMMA MergedRow ==
  ASSUME NEW D, D \subseteq Nat \ {0}, NEW h \in Headers(D), Tiled(h), Linked(h),
         NEW b \in D, h[b].size # 0, NEW n, n = NextOf(h, b), h[n].size # 0,
         NEW k \in Headers(D \ {n}), IsMerged(h, k, b)
  PROVE  MergedRows(D, h, k, b, n)
<1> DEFINE far == NextOf(h, n)
<1>0. DOMAIN h = D /\ DOMAIN k = D \ {n}
  BY DEF Headers
<1>1. n \in D /\ n > b /\ n \in Nat /\ b \in Nat \ {0}
  BY <1>0, NextNumbers DEF Tiled
<1>2. far \in D /\ far > n /\ far \in Nat
  BY <1>0, <1>1, NextNumbers DEF Tiled
<1>3. h[b].size \in Nat /\ h[n].size \in Nat
  BY <1>1, NextNumbers
<1>4. k[b].size = h[b].size + h[n].size + 1
  BY DEF IsMerged
<1>5. NextOf(k, b) = far
  BY <1>1, <1>3, <1>4 DEF NextOf
<1>6. \A a \in D \ {b, n} : k[a].size = h[a].size /\ NextOf(k, a) = NextOf(h, a)
  BY <1>0 DEF NextOf, IsMerged
<1>7. \A a \in D \ {n} : k[a].free = h[a].free
  BY <1>0 DEF IsMerged
<1>8. Tiled(k)
  <2> SUFFICES ASSUME NEW a \in D \ {n}
               PROVE  /\ k[a].size = 0 => ~k[a].free
                      /\ k[a].size # 0 =>
                           /\ k[a].size >= block_size_min
                           /\ NextOf(k, a) \in D \ {n}
                           /\ \A c \in D \ {n} : c <= a \/ c >= NextOf(k, a)
    BY <1>0 DEF Tiled
  <2>1. CASE a = b
    <3>1. \A c \in D : (c <= b \/ c >= n) /\ (c <= n \/ c >= far)
      BY <1>0, <1>1 DEF Tiled
    <3>2. ASSUME NEW c \in D \ {n} PROVE c <= b \/ c >= far
      <4>1. c \in Nat /\ c # n
        OBVIOUS
      <4>2. (c <= b \/ c >= n) /\ (c <= n \/ c >= far)
        BY <3>1
      <4> QED BY <4>1, <4>2, <1>1, <1>2
    <3>3. h[b].size >= block_size_min
      BY <1>0 DEF Tiled
    <3> QED BY <2>1, <3>2, <3>3, <1>1, <1>2, <1>3, <1>4, <1>5 DEF block_size_min
  <2>2. CASE a # b
    <3>1. k[a].size = h[a].size /\ NextOf(k, a) = NextOf(h, a) /\ k[a].free = h[a].free
      BY <2>2, <1>6, <1>7
    <3>2. ASSUME h[a].size # 0 PROVE NextOf(h, a) # n
      BY <2>2, <3>2, OneBefore
    <3> QED BY <3>1, <3>2, <1>0 DEF Tiled
  <2> QED BY <2>1, <2>2
<1>9. Linked(k)
  <2> SUFFICES ASSUME NEW a \in D \ {n}
               PROVE  /\ k[a].size # 0 => k[NextOf(k, a)].prev_free = k[a].free
                      /\ k[a].prev_free => /\ k[a].prev_phys \in D \ {n}
                                           /\ k[k[a].prev_phys].size # 0
                                           /\ NextOf(k, k[a].prev_phys) = a
                      /\ ~k[a].prev_free => k[a].prev_phys = NO_BLOCK
    BY <1>0 DEF Linked
  <2>1. ASSUME k[a].size # 0 PROVE k[NextOf(k, a)].prev_free = k[a].free
    <3>1. CASE a = b
      BY <3>1, <1>0, <1>5, <1>7 DEF IsMerged
    <3>2. CASE a # b
      <4>1. h[a].size # 0 /\ NextOf(k, a) = NextOf(h, a) /\ NextOf(h, a) \in D /\ k[a].free = h[a].free
        BY <2>1, <3>2, <1>0, <1>6, <1>7 DEF Tiled
      <4>2. NextOf(h, a) # n /\ NextOf(h, a) # far
        BY <4>1, <3>2, <1>1, OneBefore
      <4>3. h[NextOf(h, a)].prev_free = h[a].free
        BY <4>1, <1>0 DEF Linked
      <4> QED BY <4>1, <4>2, <4>3, <1>0 DEF IsMerged
    <3> QED BY <3>1, <3>2
  <2>2. CASE a = far
    <3>1. k[a].prev_free = h[b].free /\ k[a].prev_phys = IF h[b].free THEN b ELSE NO_BLOCK
      BY <2>2 DEF IsMerged
    <3>2. k[b].size # 0
      BY <1>3, <1>4
    <3> QED BY <2>1, <2>2, <3>1, <3>2, <1>1, <1>5
  <2>3. CASE a # far
    <3>1. k[a].prev_free = h[a].prev_free /\ k[a].prev_phys = h[a].prev_phys
      BY <2>3, <1>0 DEF IsMerged
    <3>2. ASSUME h[a].prev_free
          PROVE  /\ h[a].prev_phys \in D \ {b, n} /\ h[h[a].prev_phys].size # 0
                 /\ NextOf(h, h[a].prev_phys) = a
      BY <2>3, <3>2, <1>0 DEF Linked
    <3> QED BY <2>1, <2>3, <3>1, <3>2, <1>0, <1>6 DEF Linked
  <2> QED BY <2>2, <2>3
<1> QED BY <1>1, <1>2, <1>5, <1>6, <1>8, <1>9 DEF MergedRows

(* Where the blocks of a memory lie. *)
LEMMA OneOwner ==
  ASSUME NEW ext, Layout(ext), NEW c \in DOMAIN ext, NEW d \in DOMAIN ext,
         NEW b \in Nat, In(ext, c, b), In(ext, d, b)
  PROVE  c = d
<1>1. c \in Nat /\ d \in Nat /\ ext[c] \in Nat /\ ext[d] \in Nat
  BY DEF Layout
<1> QED BY <1>1 DEF Layout, In

LEMMA MarkedPlaced ==
  ASSUME NEW D, D \subseteq Nat \ {0}, NEW h \in Headers(D), NEW ext, Placed(h, ext),
         NEW b \in D, NEW free \in BOOLEAN, NEW k \in Headers(D), IsMarked(h, k, b, free)
  PROVE  Placed(k, ext)
<1>1. DOMAIN h = D /\ DOMAIN k = D
  BY DEF Headers
<1>2. \A a \in D : k[a].size = h[a].size /\ NextOf(k, a) = NextOf(h, a)
  BY <1>1 DEF NextOf, IsMarked
<1> QED BY <1>1, <1>2 DEF Placed

(* What a block and the block after it share. *)
LEMMA NextIsOwned ==
  ASSUME NEW D, D \subseteq Nat \ {0}, NEW h \in Headers(D), NEW ext, Layout(ext), Placed(h, ext),
         NEW b \in D, h[b].size # 0, NEW c \in DOMAIN ext, In(ext, c, b),
         NEW a \in Nat, b <= a, a <= NextOf(h, b)
  PROVE  /\ In(ext, c, a)
         /\ NextOf(h, b) + 1 < c + ext[c]
         /\ h[b].size < block_size_max
<1>1. NextOf(h, b) + 1 < c + ext[c]
  BY DEF Headers, Placed
<1>2. c \in Nat /\ ext[c] \in Nat /\ ext[c] <= block_size_max /\ c <= b /\ block_size_max \in Nat
  BY Numbers DEF Layout, In
<1>3. b \in Nat /\ NextOf(h, b) \in Nat /\ NextOf(h, b) = b + h[b].size + 1 /\ h[b].size \in Nat
  BY NextNumbers DEF NextOf
<1> QED BY <1>1, <1>2, <1>3 DEF In

LEMMA SplitPlaced ==
  ASSUME NEW D, D \subseteq Nat \ {0}, NEW h \in Headers(D), NEW ext, Layout(ext), Placed(h, ext),
         NEW b \in D, h[b].size # 0, NEW rest \in Nat \ {0}, b < rest, rest < NextOf(h, b),
         NEW k \in Headers(D \cup {rest}), NextOf(k, b) = rest, NextOf(k, rest) = NextOf(h, b),
         \A a \in D \ {b} : k[a].size = h[a].size /\ NextOf(k, a) = NextOf(h, a)
  PROVE  Placed(k, ext)
<1>1. DOMAIN h = D /\ DOMAIN k = D \cup {rest}
  BY DEF Headers
<1>2. b \in Nat /\ NextOf(h, b) \in Nat
  BY NextNumbers
<1>3. PICK c \in DOMAIN ext : In(ext, c, b)
  BY <1>1 DEF Placed
<1>4. In(ext, c, rest) /\ NextOf(h, b) + 1 < c + ext[c]
  <2>1. rest \in Nat /\ b <= rest /\ rest <= NextOf(h, b)
    BY <1>2
  <2> QED BY <1>3, <2>1, NextIsOwned
<1>5. c \in Nat /\ ext[c] \in Nat
  BY DEF Layout
<1> SUFFICES ASSUME NEW a \in D \cup {rest}
             PROVE  /\ \E d \in DOMAIN ext : In(ext, d, a)
                    /\ \A d \in DOMAIN ext : In(ext, d, a) /\ k[a].size # 0 => NextOf(k, a) + 1 < d + ext[d]
  BY <1>1 DEF Placed
<1>6. CASE a = rest
  BY <1>4, <1>6, OneOwner
<1>7. CASE a = b
  <2>1. rest + 1 < c + ext[c]
    BY <1>2, <1>4, <1>5
  <2> QED BY <2>1, <1>2, <1>3, <1>7, OneOwner
<1>8. CASE a \in D \ {b}
  BY <1>1, <1>8 DEF Placed
<1> QED BY <1>6, <1>7, <1>8

LEMMA MergedPlaced ==
  ASSUME NEW D, D \subseteq Nat \ {0}, NEW h \in Headers(D), NEW ext, Layout(ext), Placed(h, ext),
         NEW b \in D, h[b].size # 0, NEW n \in D, n = NextOf(h, b), h[n].size # 0,
         NEW k \in Headers(D \ {n}), NextOf(k, b) = NextOf(h, n), b < n,
         \A a \in D \ {b, n} : k[a].size = h[a].size /\ NextOf(k, a) = NextOf(h, a)
  PROVE  Placed(k, ext)
<1>1. DOMAIN h = D /\ DOMAIN k = D \ {n}
  BY DEF Headers
<1>2. b \in Nat /\ n \in Nat
  OBVIOUS
<1>3. PICK c \in DOMAIN ext : In(ext, c, b)
  BY <1>1 DEF Placed
<1>4. In(ext, c, n)
  <2>1. n \in Nat /\ b <= n /\ n <= NextOf(h, b)
    BY <1>2
  <2> QED BY <1>3, <2>1, NextIsOwned
<1>5. NextOf(h, n) + 1 < c + ext[c]
  BY <1>1, <1>4 DEF Placed
<1> SUFFICES ASSUME NEW a \in D \ {n}
             PROVE  /\ \E d \in DOMAIN ext : In(ext, d, a)
                    /\ \A d \in DOMAIN ext : In(ext, d, a) /\ k[a].size # 0 => NextOf(k, a) + 1 < d + ext[d]
  BY <1>1 DEF Placed
<1>6. CASE a = b
  BY <1>2, <1>3, <1>5, <1>6, OneOwner
<1>7. CASE a # b
  BY <1>1, <1>7 DEF Placed
<1> QED BY <1>6, <1>7

-----------------------------------------------------------------------------
(* What becomes of the lists *)

(* Headers that change leave the lists right, if the free blocks that belong *)
(* there are the same as before.                                             *)
LEMMA ListsUnchanged ==
  ASSUME NEW h, NEW k, NEW t, NEW ext, NEW U, NEW V, ListsOK(h, t, ext, U),
         \A b : b \in DOMAIN h /\ h[b].free /\ b \notin U <=> b \in DOMAIN k /\ k[b].free /\ b \notin V,
         \A b \in DOMAIN h \ U : h[b].free => k[b].size = h[b].size
  PROVE  ListsOK(k, t, ext, V)
<1>1. \A c \in DOMAIN ext, fl \in FL, sl \in SL :
        Belong(k, ext, V, c, fl, sl) = Belong(h, ext, U, c, fl, sl)
  BY DEF Belong
<1> QED BY <1>1 DEF ListsOK

LEMMA ConsProperties ==
  ASSUME NEW s \in Seq(Nat), NEW b \in Nat
  PROVE  /\ Cons(b, s) \in Seq(Nat) /\ Cons(b, s) # <<>>
         /\ ToSet(Cons(b, s)) = ToSet(s) \cup {b}
         /\ NoRepeat(s) /\ b \notin ToSet(s) => NoRepeat(Cons(b, s))
<1> DEFINE r == <<b>> \o s
<1>0. Cons(b, s) = r
  BY DEF Cons
<1>1. /\ r \in Seq(Nat) /\ Len(r) = Len(s) + 1
      /\ \A i \in 1 .. Len(s) + 1 : r[i] = IF i = 1 THEN b ELSE s[i - 1]
  BY PushProperties
<1>2. DOMAIN r = 1 .. Len(s) + 1 /\ DOMAIN s = 1 .. Len(s) /\ Len(s) \in Nat
  BY <1>1
<1> HIDE DEF r
<1>3. r # <<>>
  BY <1>1, <1>2
<1>4. ToSet(r) = ToSet(s) \cup {b}
  <2>1. ASSUME NEW x \in ToSet(r) PROVE x \in ToSet(s) \cup {b}
    <3>1. PICK i \in 1 .. Len(s) + 1 : x = r[i]
      BY <1>2 DEF ToSet
    <3>2. CASE i = 1
      BY <3>1, <3>2, <1>1
    <3>3. CASE i # 1
      <4>1. i - 1 \in DOMAIN s /\ x = s[i - 1]
        BY <3>1, <3>3, <1>1, <1>2
      <4> QED BY <4>1 DEF ToSet
    <3> QED BY <3>2, <3>3
  <2>2. ASSUME NEW x \in ToSet(s) PROVE x \in ToSet(r)
    <3>1. PICK i \in 1 .. Len(s) : x = s[i]
      BY <1>2 DEF ToSet
    <3>2. i + 1 \in DOMAIN r /\ r[i + 1] = x
      BY <3>1, <1>1, <1>2
    <3> QED BY <3>2 DEF ToSet
  <2>3. b \in ToSet(r)
    <3>1. 1 \in DOMAIN r /\ r[1] = b
      BY <1>1, <1>2
    <3> QED BY <3>1 DEF ToSet
  <2> QED BY <2>1, <2>2, <2>3
<1>5. ASSUME NoRepeat(s), b \notin ToSet(s) PROVE NoRepeat(r)
  <2> SUFFICES ASSUME NEW i \in DOMAIN r, NEW j \in DOMAIN r, r[i] = r[j] PROVE i = j
    BY DEF NoRepeat
  <2>1. \A l \in 1 .. Len(s) : s[l] # b
    BY <1>2, <1>5 DEF ToSet
  <2>2. \A l \in 1 .. Len(s) + 1 : l # 1 => l - 1 \in 1 .. Len(s)
    BY <1>2
  <2>3. CASE i = 1 \/ j = 1
    BY <2>1, <2>2, <2>3, <1>1, <1>2
  <2>4. CASE i # 1 /\ j # 1
    <3>1. i - 1 \in DOMAIN s /\ j - 1 \in DOMAIN s /\ s[i - 1] = s[j - 1]
      BY <2>2, <2>4, <1>1, <1>2
    <3>2. i - 1 = j - 1
      BY <3>1, <1>5 DEF NoRepeat
    <3> QED BY <3>2, <1>2
  <2> QED BY <2>3, <2>4
<1> QED BY <1>0, <1>1, <1>3, <1>4, <1>5

LEMMA RemoveProperties ==
  ASSUME NEW s \in Seq(Nat), NEW b \in ToSet(s), NoRepeat(s)
  PROVE  /\ RemoveFirst(s, b) \in Seq(Nat)
         /\ ToSet(RemoveFirst(s, b)) = ToSet(s) \ {b}
         /\ NoRepeat(RemoveFirst(s, b))
<1>0. DOMAIN s = 1 .. Len(s) /\ Len(s) \in Nat
  OBVIOUS
<1> DEFINE I == {i \in 1 .. Len(s) : s[i] = b}
           k == SelectInSeq(s, LAMBDA v : v = b)
<1>1. I # {} /\ I \subseteq Nat
  BY <1>0 DEF ToSet
<1>2. k = Min(I)
  BY <1>1 DEF SelectInSeq
<1>3. k \in I
  BY <1>1, <1>2, MinProperties
<1> DEFINE r == RemoveAt(s, k)
<1>4. RemoveFirst(s, b) = r
  <2>1. \E i \in 1 .. Len(s) : s[i] = b
    BY <1>1
  <2> QED BY <2>1 DEF RemoveFirst
<1> HIDE DEF k, I
<1>5. k \in 1 .. Len(s) /\ s[k] = b
  BY <1>3 DEF I
<1>6. /\ r \in Seq(Nat) /\ Len(r) = Len(s) - 1
      /\ \A i \in 1 .. Len(s) - 1 : r[i] = IF i < k THEN s[i] ELSE s[i + 1]
  BY <1>5, RemoveAtProperties
<1> HIDE DEF r
<1>7. DOMAIN r = 1 .. Len(s) - 1
  BY <1>6
<1> DEFINE at(i) == IF i < k THEN i ELSE i + 1
<1>8. \A i \in DOMAIN r : at(i) \in DOMAIN s /\ at(i) # k /\ r[i] = s[at(i)]
  <2> SUFFICES ASSUME NEW i \in 1 .. Len(s) - 1
               PROVE  at(i) \in 1 .. Len(s) /\ at(i) # k /\ r[i] = s[at(i)]
    BY <1>0, <1>7
  <2>1. at(i) \in 1 .. Len(s) /\ at(i) # k
    BY <1>0, <1>5
  <2>2. r[i] = s[at(i)]
    BY <1>6
  <2> QED BY <2>1, <2>2
<1>9. \A i, j \in DOMAIN r : at(i) = at(j) => i = j
  BY <1>0, <1>5, <1>7
<1>10. \A l \in DOMAIN s : l # k => \E i \in DOMAIN r : at(i) = l
  <2> SUFFICES ASSUME NEW l \in DOMAIN s, l # k PROVE \E i \in DOMAIN r : at(i) = l
    OBVIOUS
  <2>1. CASE l < k
    <3>1. l \in DOMAIN r /\ at(l) = l
      BY <2>1, <1>0, <1>5, <1>7
    <3> QED BY <3>1
  <2>2. CASE ~(l < k)
    <3>1. l - 1 \in DOMAIN r /\ at(l - 1) = l
      BY <2>2, <1>0, <1>5, <1>7
    <3> QED BY <3>1
  <2> QED BY <2>1, <2>2
<1> HIDE DEF at
<1>11. NoRepeat(r)
  BY <1>8, <1>9 DEF NoRepeat
<1>12. ToSet(r) = ToSet(s) \ {b}
  <2>1. ASSUME NEW x \in ToSet(r) PROVE x \in ToSet(s) /\ x # b
    <3>1. PICK i \in DOMAIN r : x = r[i]
      BY DEF ToSet
    <3>2. at(i) \in DOMAIN s /\ at(i) # k /\ x = s[at(i)]
      BY <3>1, <1>8
    <3>3. s[at(i)] # s[k]
      BY <3>2, <1>0, <1>5 DEF NoRepeat
    <3> QED BY <3>2, <3>3, <1>5 DEF ToSet
  <2>2. ASSUME NEW x \in ToSet(s), x # b PROVE x \in ToSet(r)
    <3>1. PICK l \in DOMAIN s : x = s[l]
      BY DEF ToSet
    <3>2. l # k
      BY <3>1, <2>2, <1>5
    <3>3. PICK i \in DOMAIN r : at(i) = l
      BY <3>2, <1>10
    <3>4. r[i] = x
      BY <3>1, <3>3, <1>8
    <3> QED BY <3>4 DEF ToSet
  <2> QED BY <2>1, <2>2
<1> QED BY <1>4, <1>6, <1>11, <1>12

-----------------------------------------------------------------------------
(* What becomes of the free blocks side by side *)

LEMMA FreedApart ==
  ASSUME NEW D, D \subseteq Nat \ {0}, NEW h \in Headers(D), Tiled(h), Linked(h), FreeApart(h, {}),
         NEW b \in D, h[b].size # 0, NEW k \in Headers(D), IsMarked(h, k, b, TRUE)
  PROVE  FreeApart(k, {b, merged_start([blk |-> h], b)})
<1> DEFINE prev == merged_start([blk |-> h], b)
<1>1. DOMAIN h = D /\ DOMAIN k = D
  BY DEF Headers
<1>2. \A a \in D : NextOf(k, a) = NextOf(h, a)
  BY <1>1 DEF NextOf, IsMarked
<1>3. h[b].prev_free => prev \in D /\ h[prev].size # 0 /\ NextOf(h, prev) = b
  BY <1>1 DEF Linked, merged_start
<1> SUFFICES ASSUME NEW a \in D, k[a].free, k[NextOf(k, a)].free, a # b, a # prev PROVE FALSE
  BY <1>1 DEF FreeApart
<1> HIDE DEF prev
<1>4. h[a].free /\ h[a].size # 0 /\ NextOf(h, a) \in D
  BY <1>1 DEF IsMarked, Tiled
<1>5. NextOf(h, a) # b
  <2>1. SUFFICES ASSUME NextOf(h, a) = b PROVE FALSE
    OBVIOUS
  <2>2. h[b].prev_free
    BY <1>1, <1>4, <2>1 DEF Linked
  <2> QED BY <1>3, <1>4, <2>1, <2>2, OneBefore
<1>6. h[NextOf(h, a)].free
  BY <1>1, <1>2, <1>4, <1>5 DEF IsMarked
<1> QED BY <1>1, <1>4, <1>6 DEF FreeApart

LEMMA UsedApart ==
  ASSUME NEW D, D \subseteq Nat \ {0}, NEW h \in Headers(D), Tiled(h), NEW E, FreeApart(h, E),
         NEW b \in D, NEW k \in Headers(D), IsMarked(h, k, b, FALSE)
  PROVE  /\ FreeApart(k, E \ {b})
         /\ \A a \in D : NextOf(h, a) = b => FreeApart(k, E \ {a, b})
<1>1. DOMAIN h = D /\ DOMAIN k = D
  BY DEF Headers
<1>2. \A a \in D : NextOf(k, a) = NextOf(h, a)
  BY <1>1 DEF NextOf, IsMarked
<1>3. ASSUME NEW a \in D, k[a].free, k[NextOf(k, a)].free
      PROVE  a \in E /\ a # b /\ NextOf(h, a) # b
  <2>1. a # b /\ h[a].free /\ NextOf(h, a) \in D
    BY <1>1, <1>3 DEF IsMarked, Tiled
  <2>2. NextOf(h, a) # b
    BY <1>2, <1>3 DEF IsMarked
  <2>3. h[NextOf(h, a)].free
    BY <1>1, <1>2, <1>3, <2>1, <2>2 DEF IsMarked
  <2> QED BY <1>1, <2>1, <2>2, <2>3 DEF FreeApart
<1> QED BY <1>1, <1>3 DEF FreeApart

LEMMA SplitApart ==
  ASSUME NEW D, D \subseteq Nat \ {0}, NEW h \in Headers(D), Tiled(h), NEW E, FreeApart(h, E),
         NEW b \in D, h[b].size # 0, NEW size, NEW rest \in Nat \ D, rest = split_off(b, size),
         NEW k \in Headers(D \cup {rest}), IsSplit(h, k, b, size),
         NextOf(k, b) = rest, NextOf(k, rest) = NextOf(h, b),
         \A a \in D \ {b} : NextOf(k, a) = NextOf(h, a)
  PROVE  /\ FreeApart(k, E \cup {b, rest})
         /\ h[b].free /\ b \notin E => FreeApart(k, E \cup {b})
         /\ ~h[b].free => FreeApart(k, E \cup {rest})
<1>1. DOMAIN h = D /\ DOMAIN k = D \cup {rest}
  BY DEF Headers
<1>2. \A a \in D : k[a].free = h[a].free
  BY <1>1 DEF IsSplit
<1>3. NextOf(h, b) \in D
  BY <1>1 DEF Tiled
<1>4. ASSUME NEW a \in D \cup {rest}, k[a].free, k[NextOf(k, a)].free
      PROVE  /\ a \in E \cup {b, rest}
             /\ h[b].free /\ b \notin E => a \in E \cup {b}
             /\ ~h[b].free => a \in E \cup {rest}
  <2>1. CASE a = rest
    <3>1. h[NextOf(h, b)].free
      BY <1>2, <1>3, <1>4, <2>1
    <3> QED BY <1>1, <2>1, <3>1 DEF FreeApart
  <2>2. CASE a = b
    BY <1>2, <1>4, <2>2
  <2>3. CASE a \in D \ {b}
    <3>1. h[a].free /\ NextOf(h, a) \in D
      BY <1>1, <1>2, <1>4, <2>3 DEF Tiled
    <3>2. h[NextOf(h, a)].free
      BY <1>2, <1>4, <2>3, <3>1
    <3> QED BY <1>1, <2>3, <3>1, <3>2 DEF FreeApart
  <2> QED BY <2>1, <2>2, <2>3
<1> QED BY <1>1, <1>4 DEF FreeApart

LEMMA MergedApart ==
  ASSUME NEW D, D \subseteq Nat \ {0}, NEW h \in Headers(D), Tiled(h), NEW E, FreeApart(h, E),
         NEW b \in D, h[b].size # 0, NEW n \in D, n = NextOf(h, b), h[n].free, b # n,
         NEW k \in Headers(D \ {n}), IsMerged(h, k, b),
         NextOf(k, b) = NextOf(h, n), NextOf(h, n) # n,
         \A a \in D \ {b, n} : NextOf(k, a) = NextOf(h, a) /\ (h[a].size # 0 => NextOf(h, a) # n)
  PROVE  /\ FreeApart(k, (E \ {n}) \cup {b})
         /\ n \notin E => FreeApart(k, E \ {b})
<1>1. DOMAIN h = D /\ DOMAIN k = D \ {n}
  BY DEF Headers
<1>2. \A a \in D \ {n} : k[a].free = h[a].free
  BY <1>1 DEF IsMerged
<1>3. h[n].size # 0 /\ NextOf(h, n) \in D
  BY <1>1 DEF Tiled
<1>4. ASSUME NEW a \in D \ {n}, k[a].free, k[NextOf(k, a)].free
      PROVE  /\ a \in (E \ {n}) \cup {b}
             /\ n \notin E => a \in E \ {b}
  <2>1. CASE a = b
    <3>1. h[NextOf(h, n)].free
      BY <1>2, <1>3, <1>4, <2>1
    <3> QED BY <1>1, <2>1, <3>1 DEF FreeApart
  <2>2. CASE a # b
    <3>1. h[a].free /\ h[a].size # 0 /\ NextOf(h, a) \in D /\ NextOf(h, a) # n
      BY <1>1, <1>2, <1>4, <2>2 DEF Tiled
    <3>2. h[NextOf(h, a)].free
      BY <1>2, <1>4, <2>2, <3>1
    <3> QED BY <1>1, <2>2, <3>1, <3>2 DEF FreeApart
  <2> QED BY <2>1, <2>2
<1> QED BY <1>1, <1>4 DEF FreeApart

-----------------------------------------------------------------------------
(* Putting a block in a list, and taking it out *)

(* Lists t become u: only the list at fl, sl of c changes, and its bits. *)
IsRelisted(t, u, c, fl, sl, list) ==
  /\ DOMAIN u = DOMAIN t
  /\ \A d \in DOMAIN t \ {c} : u[d] = t[d]
  /\ u[c].blocks[fl][sl] = list
  /\ \A f \in FL, s \in SL : f # fl \/ s # sl => u[c].blocks[f][s] = t[c].blocks[f][s]
  /\ \A s \in SL : s \in u[c].sl_bitmap[fl] <=> IF s = sl THEN list # <<>> ELSE s \in t[c].sl_bitmap[fl]
  /\ \A f \in FL \ {fl} : u[c].sl_bitmap[f] = t[c].sl_bitmap[f] /\ (f \in u[c].fl_bitmap <=> f \in t[c].fl_bitmap)
  /\ fl \in u[c].fl_bitmap <=> u[c].sl_bitmap[fl] # {}

LEMMA RelistedBitmaps ==
  ASSUME NEW C, NEW t \in [C -> ControlType], NEW u \in [C -> ControlType], BitmapsOK(t),
         NEW c \in C, NEW fl \in FL, NEW sl \in SL, NEW list, IsRelisted(t, u, c, fl, sl, list)
  PROVE  BitmapsOK(u)
<1> SUFFICES ASSUME NEW d \in C, NEW f \in FL
             PROVE  /\ \A s \in SL : s \in u[d].sl_bitmap[f] <=> u[d].blocks[f][s] # <<>>
                    /\ f \in u[d].fl_bitmap <=> u[d].sl_bitmap[f] # {}
  BY DEF BitmapsOK
<1>1. /\ \A s \in SL : s \in t[d].sl_bitmap[f] <=> t[d].blocks[f][s] # <<>>
      /\ f \in t[d].fl_bitmap <=> t[d].sl_bitmap[f] # {}
  BY DEF BitmapsOK
<1>2. CASE d # c
  BY <1>1, <1>2 DEF IsRelisted
<1>3. CASE d = c /\ f # fl
  BY <1>1, <1>3 DEF IsRelisted
<1>4. CASE d = c /\ f = fl
  BY <1>1, <1>4 DEF IsRelisted
<1> QED BY <1>2, <1>3, <1>4

LEMMA InsertRelists ==
  ASSUME NEW D, NEW C, NEW m \in Memory(D, C), NEW c \in C, NEW b \in Nat,
         NEW fl \in FL, NEW sl \in SL
  PROVE  LET n    == insert_free_block(m, c, b, [fl |-> fl, sl |-> sl])
             list == Cons(b, m.tlsf[c].blocks[fl][sl])
         IN  /\ n \in Memory(D, C) /\ n.blk = m.blk /\ n.abort = m.abort
             /\ IsRelisted(m.tlsf, n.tlsf, c, fl, sl, list)
<1> DEFINE n    == insert_free_block(m, c, b, [fl |-> fl, sl |-> sl])
           t    == m.tlsf[c]
           list == Cons(b, t.blocks[fl][sl])
           u    == [blocks    |-> [t.blocks EXCEPT ![fl][sl] = list],
                    sl_bitmap |-> [t.sl_bitmap EXCEPT ![fl] = @ \cup {sl}],
                    fl_bitmap |-> t.fl_bitmap \cup {fl}]
<1>1. m.tlsf \in [C -> ControlType] /\ t \in ControlType
  BY DEF Memory
<1>2. /\ t.blocks \in [FL -> [SL -> Seq(Nat)]] /\ t.sl_bitmap \in [FL -> SUBSET SL]
      /\ t.fl_bitmap \in SUBSET FL
  BY <1>1 DEF ControlType
<1>3. list \in Seq(Nat) /\ list # <<>>
  <2>1. t.blocks[fl][sl] \in Seq(Nat)
    BY <1>2
  <2> QED BY <2>1, ConsProperties
<1>4. n = [m EXCEPT !.tlsf = [m.tlsf EXCEPT ![c] = u]]
  BY DEF insert_free_block
<1> HIDE DEF t, list, n
<1>5. u \in ControlType
  <2>1. [t.blocks EXCEPT ![fl][sl] = list] \in [FL -> [SL -> Seq(Nat)]]
    BY <1>2, <1>3
  <2>2. [t.sl_bitmap EXCEPT ![fl] = @ \cup {sl}] \in [FL -> SUBSET SL]
    BY <1>2
  <2> QED BY <1>2, <2>1, <2>2 DEF ControlType
<1>6. /\ u.blocks[fl][sl] = list
      /\ \A f \in FL, s \in SL : f # fl \/ s # sl => u.blocks[f][s] = t.blocks[f][s]
      /\ \A s \in SL : s \in u.sl_bitmap[fl] <=> IF s = sl THEN list # <<>> ELSE s \in t.sl_bitmap[fl]
      /\ \A f \in FL \ {fl} : u.sl_bitmap[f] = t.sl_bitmap[f] /\ (f \in u.fl_bitmap <=> f \in t.fl_bitmap)
      /\ fl \in u.fl_bitmap <=> u.sl_bitmap[fl] # {}
  BY <1>2, <1>3
<1> HIDE DEF u
<1>7. n \in Memory(D, C) /\ n.blk = m.blk /\ n.abort = m.abort /\ n.tlsf = [m.tlsf EXCEPT ![c] = u]
  BY <1>1, <1>4, <1>5 DEF Memory
<1>8. IsRelisted(m.tlsf, n.tlsf, c, fl, sl, list)
  <2>1. /\ DOMAIN n.tlsf = C /\ DOMAIN m.tlsf = C
        /\ n.tlsf[c] = u /\ m.tlsf[c] = t
        /\ \A d \in C \ {c} : n.tlsf[d] = m.tlsf[d]
    BY <1>1, <1>7 DEF t
  <2> QED BY <1>6, <2>1 DEF IsRelisted
<1> QED BY <1>7, <1>8 DEF n, list, t

LEMMA RemoveRelists ==
  ASSUME NEW D, NEW C, NEW m \in Memory(D, C), NEW c \in C, NEW b \in Nat,
         NEW fl \in FL, NEW sl \in SL,
         b \in ToSet(m.tlsf[c].blocks[fl][sl]), NoRepeat(m.tlsf[c].blocks[fl][sl]), BitmapsOK(m.tlsf)
  PROVE  LET n    == remove_free_block(m, c, b, [fl |-> fl, sl |-> sl])
             list == RemoveFirst(m.tlsf[c].blocks[fl][sl], b)
         IN  /\ n \in Memory(D, C) /\ n.blk = m.blk /\ n.abort = m.abort
             /\ IsRelisted(m.tlsf, n.tlsf, c, fl, sl, list)
<1> DEFINE n    == remove_free_block(m, c, b, [fl |-> fl, sl |-> sl])
           t    == m.tlsf[c]
           list == RemoveFirst(t.blocks[fl][sl], b)
           map  == IF list = <<>> THEN t.sl_bitmap[fl] \ {sl} ELSE t.sl_bitmap[fl]
           u    == [blocks    |-> [t.blocks EXCEPT ![fl][sl] = list],
                    sl_bitmap |-> [t.sl_bitmap EXCEPT ![fl] = map],
                    fl_bitmap |-> IF map = {} THEN t.fl_bitmap \ {fl} ELSE t.fl_bitmap]
<1>1. m.tlsf \in [C -> ControlType] /\ t \in ControlType
  BY DEF Memory
<1>2. /\ t.blocks \in [FL -> [SL -> Seq(Nat)]] /\ t.sl_bitmap \in [FL -> SUBSET SL]
      /\ t.fl_bitmap \in SUBSET FL
  BY <1>1 DEF ControlType
<1>3. list \in Seq(Nat)
  <2>1. t.blocks[fl][sl] \in Seq(Nat)
    BY <1>2
  <2> QED BY <2>1, RemoveProperties
<1>31. sl \in t.sl_bitmap[fl] /\ fl \in t.fl_bitmap
  <2>1. t.blocks[fl][sl] # <<>>
    <3>1. t.blocks[fl][sl] \in Seq(Nat)
      BY <1>2
    <3> QED BY <3>1 DEF ToSet
  <2>2. /\ sl \in t.sl_bitmap[fl] <=> t.blocks[fl][sl] # <<>>
        /\ fl \in t.fl_bitmap <=> t.sl_bitmap[fl] # {}
    BY <1>1 DEF BitmapsOK
  <2> QED BY <2>1, <2>2
<1>4. n = [m EXCEPT !.tlsf = [m.tlsf EXCEPT ![c] = u]]
  BY DEF remove_free_block
<1> HIDE DEF t, list, n
<1>5. u \in ControlType
  <2>1. [t.blocks EXCEPT ![fl][sl] = list] \in [FL -> [SL -> Seq(Nat)]]
    BY <1>2, <1>3
  <2>2. map \in SUBSET SL
    BY <1>2
  <2>3. [t.sl_bitmap EXCEPT ![fl] = map] \in [FL -> SUBSET SL]
    BY <1>2, <2>2
  <2> QED BY <1>2, <2>1, <2>3 DEF ControlType
<1>6. /\ u.blocks[fl][sl] = list
      /\ \A f \in FL, s \in SL : f # fl \/ s # sl => u.blocks[f][s] = t.blocks[f][s]
      /\ \A s \in SL : s \in u.sl_bitmap[fl] <=> IF s = sl THEN list # <<>> ELSE s \in t.sl_bitmap[fl]
      /\ \A f \in FL \ {fl} : u.sl_bitmap[f] = t.sl_bitmap[f] /\ (f \in u.fl_bitmap <=> f \in t.fl_bitmap)
      /\ fl \in u.fl_bitmap <=> u.sl_bitmap[fl] # {}
  <2>1. u.blocks = [t.blocks EXCEPT ![fl][sl] = list]
    OBVIOUS
  <2>2. u.sl_bitmap[fl] = map /\ \A f \in FL \ {fl} : u.sl_bitmap[f] = t.sl_bitmap[f]
    BY <1>2
  <2>3. u.fl_bitmap = IF map = {} THEN t.fl_bitmap \ {fl} ELSE t.fl_bitmap
    OBVIOUS
  <2>4. \A s \in SL : s \in map <=> IF s = sl THEN list # <<>> ELSE s \in t.sl_bitmap[fl]
    BY <1>31
  <2> HIDE DEF u
  <2>5. /\ u.blocks[fl][sl] = list
        /\ \A f \in FL, s \in SL : f # fl \/ s # sl => u.blocks[f][s] = t.blocks[f][s]
    BY <1>2, <2>1
  <2> HIDE DEF map
  <2> QED BY <1>31, <2>2, <2>3, <2>4, <2>5
<1> HIDE DEF u
<1>7. n \in Memory(D, C) /\ n.blk = m.blk /\ n.abort = m.abort /\ n.tlsf = [m.tlsf EXCEPT ![c] = u]
  BY <1>1, <1>4, <1>5 DEF Memory
<1>8. IsRelisted(m.tlsf, n.tlsf, c, fl, sl, list)
  <2>1. /\ DOMAIN n.tlsf = C /\ DOMAIN m.tlsf = C
        /\ n.tlsf[c] = u /\ m.tlsf[c] = t
        /\ \A d \in C \ {c} : n.tlsf[d] = m.tlsf[d]
    BY <1>1, <1>7 DEF t
  <2> QED BY <1>6, <2>1 DEF IsRelisted
<1> QED BY <1>7, <1>8 DEF n, list, t

(* A free block has a list. *)
LEMMA FreeHasList ==
  ASSUME NEW m, NEW ext, NEW E, NEW U, Between(m, ext, E, U), NEW c \in DOMAIN ext,
         NEW b \in DOMAIN m.blk, m.blk[b].free, In(ext, c, b)
  PROVE  /\ b \in Nat \ {0} /\ m.blk \in Headers(DOMAIN m.blk)
         /\ m.blk[b].size # 0 /\ m.blk[b].size \in Nat /\ m.blk[b].size >= block_size_min
         /\ m.blk[b].size < block_size_max
         /\ \E fl \in FL, sl \in SL : mapping_insert(m.blk[b].size) = [fl |-> fl, sl |-> sl]
<1> DEFINE h == m.blk
           D == DOMAIN h
<1>1. h \in Headers(D) /\ D \subseteq Nat \ {0} /\ Layout(ext) /\ Placed(h, ext) /\ Tiled(h)
  BY DEF Between, Memory, Headers
<1> HIDE DEF h, D
<1>2. b \in D /\ h[b].free /\ DOMAIN h = D
  BY DEF h, D
<1>3. h[b].size # 0 /\ h[b].size >= block_size_min
  BY <1>1, <1>2 DEF Tiled
<1>4. b \in Nat \ {0} /\ h[b].size \in Nat /\ NextOf(h, b) \in Nat /\ b <= NextOf(h, b)
  <2>1. b \in Nat \ {0} /\ h[b].size \in Nat /\ NextOf(h, b) \in Nat /\ NextOf(h, b) > b
    BY <1>1, <1>2, NextNumbers
  <2> QED BY <2>1
<1>5. h[b].size < block_size_max
  <2>1. b \in Nat /\ b <= b
    BY <1>4
  <2> QED BY <1>1, <1>2, <1>3, <1>4, <2>1, NextIsOwned
<1>6. mapping_insert(h[b].size).fl \in FL /\ mapping_insert(h[b].size).sl \in SL
      /\ mapping_insert(h[b].size) = [fl |-> mapping_insert(h[b].size).fl, sl |-> mapping_insert(h[b].size).sl]
  <2>1. mapping_insert(h[b].size).fl \in FL /\ mapping_insert(h[b].size).sl \in SL
    BY <1>4, <1>5, MappingInRange
  <2> QED BY <2>1 DEF mapping_insert
<1> QED BY <1>1, <1>3, <1>4, <1>5, <1>6 DEF h, D

(* Only the lists are other than before. *)
Relisted(m, n, ext, E, U) == Between(n, ext, E, U) /\ n.blk = m.blk /\ n.abort = m.abort

LEMMA InsertLists ==
  ASSUME NEW m, NEW ext, NEW E, NEW U, Between(m, ext, E, U), NEW c \in DOMAIN ext,
         NEW b \in DOMAIN m.blk, m.blk[b].free, b \in U, In(ext, c, b)
  PROVE  Relisted(m, block_insert(m, c, b), ext, E, U \ {b})
<1> DEFINE n == block_insert(m, c, b)
           D == DOMAIN m.blk
           C == DOMAIN ext
<1>1. PICK fl \in FL, sl \in SL : mapping_insert(m.blk[b].size) = [fl |-> fl, sl |-> sl]
  BY FreeHasList
<1>2. b \in Nat \ {0} /\ Layout(ext)
  BY FreeHasList DEF Between
<1>3. m \in Memory(D, C) /\ m.tlsf \in [C -> ControlType]
  BY DEF Between, Memory
<1> DEFINE old  == m.tlsf[c].blocks[fl][sl]
           list == Cons(b, old)
<1>4. n = insert_free_block(m, c, b, [fl |-> fl, sl |-> sl])
  BY <1>1 DEF block_insert
<1> HIDE DEF n, D, C
<1>5. /\ n \in Memory(D, C) /\ n.blk = m.blk /\ n.abort = m.abort
      /\ IsRelisted(m.tlsf, n.tlsf, c, fl, sl, list)
  BY <1>2, <1>3, <1>4, InsertRelists DEF C
<1> DEFINE B(V, d, f, s) == Belong(m.blk, ext, V, d, f, s)
<1>6. \A d \in C, f \in FL, s \in SL : ToSet(m.tlsf[d].blocks[f][s]) = B(U, d, f, s) /\ NoRepeat(m.tlsf[d].blocks[f][s])
  BY DEF Between, ListsOK, C
<1>7. old \in Seq(Nat)
  BY <1>3 DEF ControlType, C
<1>8. c \in C
  BY DEF C
<1>9. \A d \in C, f \in FL, s \in SL :
        B(U \ {b}, d, f, s) = IF d = c /\ f = fl /\ s = sl THEN B(U, d, f, s) \cup {b} ELSE B(U, d, f, s)
  <2> SUFFICES ASSUME NEW d \in C, NEW f \in FL, NEW s \in SL
               PROVE  B(U \ {b}, d, f, s) = IF d = c /\ f = fl /\ s = sl THEN B(U, d, f, s) \cup {b} ELSE B(U, d, f, s)
    OBVIOUS
  <2>1. In(ext, d, b) => d = c
    BY <1>2, OneOwner DEF C
  <2>2. [fl |-> fl, sl |-> sl] = [fl |-> f, sl |-> s] => f = fl /\ s = sl
    OBVIOUS
  <2>3. CASE d = c /\ f = fl /\ s = sl
    BY <1>1, <2>3 DEF Belong, D
  <2>4. CASE ~(d = c /\ f = fl /\ s = sl)
    BY <1>1, <2>1, <2>2, <2>4 DEF Belong
  <2> QED BY <2>3, <2>4
<1>10. b \notin B(U, c, fl, sl)
  BY DEF Belong
<1>11. ToSet(list) = B(U, c, fl, sl) \cup {b} /\ NoRepeat(list)
  <2>1. ToSet(old) = B(U, c, fl, sl) /\ NoRepeat(old)
    BY <1>6, <1>8
  <2> HIDE DEF B, old
  <2>2. b \notin ToSet(old) /\ b \in Nat
    BY <1>2, <1>10, <2>1
  <2>3. ToSet(list) = ToSet(old) \cup {b} /\ NoRepeat(list)
    BY <1>7, <2>1, <2>2, ConsProperties
  <2> QED BY <2>1, <2>3
<1> HIDE DEF list, old
<1>12. ListsOK(n.blk, n.tlsf, ext, U \ {b})
  <2> SUFFICES ASSUME NEW d \in C, NEW f \in FL, NEW s \in SL
               PROVE  ToSet(n.tlsf[d].blocks[f][s]) = B(U \ {b}, d, f, s) /\ NoRepeat(n.tlsf[d].blocks[f][s])
    <3>1. SUFFICES ListsOK(m.blk, n.tlsf, ext, U \ {b})
      BY <1>5
    <3> QED BY <3>1 DEF ListsOK, C
  <2> HIDE DEF B
  <2>1. CASE d = c /\ f = fl /\ s = sl
    <3>1. n.tlsf[d].blocks[f][s] = list
      BY <1>5, <2>1 DEF IsRelisted
    <3>2. ToSet(list) = B(U \ {b}, d, f, s)
      BY <1>9, <1>11, <2>1
    <3> QED BY <1>11, <3>1, <3>2
  <2>2. CASE ~(d = c /\ f = fl /\ s = sl)
    <3>1. n.tlsf[d].blocks[f][s] = m.tlsf[d].blocks[f][s]
      <4>1. DOMAIN m.tlsf = C
        BY <1>3
      <4> QED BY <1>5, <2>2, <4>1 DEF IsRelisted
    <3>2. B(U \ {b}, d, f, s) = B(U, d, f, s)
      BY <1>9, <2>2
    <3>3. ToSet(m.tlsf[d].blocks[f][s]) = B(U, d, f, s) /\ NoRepeat(m.tlsf[d].blocks[f][s])
      BY <1>6
    <3> QED BY <3>1, <3>2, <3>3
  <2> QED BY <2>1, <2>2
<1>13. BitmapsOK(n.tlsf)
  <2>1. BitmapsOK(m.tlsf)
    BY DEF Between
  <2>2. n.tlsf \in [C -> ControlType]
    BY <1>5 DEF Memory
  <2> QED BY <1>3, <1>5, <1>8, <2>1, <2>2, RelistedBitmaps
<1> QED BY <1>5, <1>12, <1>13 DEF Between, Relisted, n, D, C

(* b is in the list that it is taken out of. *)
LEMMA RemoveLists ==
  ASSUME NEW m, NEW ext, NEW E, NEW U, Between(m, ext, E, U), NEW c \in DOMAIN ext,
         NEW fl \in FL, NEW sl \in SL, NEW b \in ToSet(m.tlsf[c].blocks[fl][sl])
  PROVE  Relisted(m, remove_free_block(m, c, b, [fl |-> fl, sl |-> sl]), ext, E, U \cup {b})
<1> DEFINE n == remove_free_block(m, c, b, [fl |-> fl, sl |-> sl])
           D == DOMAIN m.blk
           C == DOMAIN ext
           old  == m.tlsf[c].blocks[fl][sl]
           list == RemoveFirst(old, b)
<1>1. m \in Memory(D, C) /\ m.tlsf \in [C -> ControlType] /\ Layout(ext) /\ D \subseteq Nat \ {0}
      /\ BitmapsOK(m.tlsf)
  BY DEF Between, Memory
<1> DEFINE B(V, d, f, s) == Belong(m.blk, ext, V, d, f, s)
<1> HIDE DEF n, D, C
<1>2. \A d \in C, f \in FL, s \in SL : ToSet(m.tlsf[d].blocks[f][s]) = B(U, d, f, s) /\ NoRepeat(m.tlsf[d].blocks[f][s])
  BY DEF Between, ListsOK, C
<1>3. c \in C
  BY DEF C
<1>4. /\ b \in D /\ b \in Nat /\ In(ext, c, b) /\ m.blk[b].free
      /\ mapping_insert(m.blk[b].size) = [fl |-> fl, sl |-> sl]
  <2>1. b \in B(U, c, fl, sl)
    BY <1>2, <1>3
  <2> QED BY <1>1, <2>1 DEF Belong, D
<1>5. /\ n \in Memory(D, C) /\ n.blk = m.blk /\ n.abort = m.abort
      /\ IsRelisted(m.tlsf, n.tlsf, c, fl, sl, list)
  BY <1>1, <1>2, <1>3, <1>4, RemoveRelists DEF n
<1>7. old \in Seq(Nat)
  BY <1>1, <1>3 DEF ControlType
<1>9. \A d \in C, f \in FL, s \in SL :
        B(U \cup {b}, d, f, s) = IF d = c /\ f = fl /\ s = sl THEN B(U, d, f, s) \ {b} ELSE B(U, d, f, s)
  <2> SUFFICES ASSUME NEW d \in C, NEW f \in FL, NEW s \in SL
               PROVE  B(U \cup {b}, d, f, s) = IF d = c /\ f = fl /\ s = sl THEN B(U, d, f, s) \ {b} ELSE B(U, d, f, s)
    OBVIOUS
  <2>1. In(ext, d, b) => d = c
    BY <1>1, <1>4, OneOwner DEF C
  <2>2. [fl |-> fl, sl |-> sl] = [fl |-> f, sl |-> s] => f = fl /\ s = sl
    OBVIOUS
  <2>3. CASE d = c /\ f = fl /\ s = sl
    BY <2>3 DEF Belong
  <2>4. CASE ~(d = c /\ f = fl /\ s = sl)
    BY <1>4, <2>1, <2>2, <2>4 DEF Belong
  <2> QED BY <2>3, <2>4
<1>11. ToSet(list) = B(U, c, fl, sl) \ {b} /\ NoRepeat(list)
  <2>1. ToSet(old) = B(U, c, fl, sl) /\ NoRepeat(old) /\ b \in ToSet(old)
    BY <1>2, <1>3
  <2> HIDE DEF B, old
  <2> QED BY <1>7, <2>1, RemoveProperties
<1> HIDE DEF list, old
<1>12. ListsOK(n.blk, n.tlsf, ext, U \cup {b})
  <2> SUFFICES ASSUME NEW d \in C, NEW f \in FL, NEW s \in SL
               PROVE  ToSet(n.tlsf[d].blocks[f][s]) = B(U \cup {b}, d, f, s) /\ NoRepeat(n.tlsf[d].blocks[f][s])
    BY <1>5 DEF ListsOK, C
  <2> HIDE DEF B
  <2>1. CASE d = c /\ f = fl /\ s = sl
    <3>1. n.tlsf[d].blocks[f][s] = list
      BY <1>5, <2>1 DEF IsRelisted
    <3>2. ToSet(list) = B(U \cup {b}, d, f, s)
      BY <1>9, <1>11, <2>1
    <3> QED BY <1>11, <3>1, <3>2
  <2>2. CASE ~(d = c /\ f = fl /\ s = sl)
    <3>1. n.tlsf[d].blocks[f][s] = m.tlsf[d].blocks[f][s]
      <4>1. DOMAIN m.tlsf = C
        BY <1>1
      <4> QED BY <1>5, <2>2, <4>1 DEF IsRelisted
    <3>2. B(U \cup {b}, d, f, s) = B(U, d, f, s)
      BY <1>9, <2>2
    <3>3. ToSet(m.tlsf[d].blocks[f][s]) = B(U, d, f, s) /\ NoRepeat(m.tlsf[d].blocks[f][s])
      BY <1>2
    <3> QED BY <3>1, <3>2, <3>3
  <2> QED BY <2>1, <2>2
<1>13. BitmapsOK(n.tlsf)
  <2>2. n.tlsf \in [C -> ControlType]
    BY <1>5 DEF Memory
  <2> QED BY <1>1, <1>3, <1>5, <2>2, RelistedBitmaps
<1> QED BY <1>5, <1>12, <1>13 DEF Between, Relisted, n, D, C

LEMMA BlockRemoveLists ==
  ASSUME NEW m, NEW ext, NEW E, NEW U, Between(m, ext, E, U), NEW c \in DOMAIN ext,
         NEW b \in DOMAIN m.blk, m.blk[b].free, b \notin U, In(ext, c, b)
  PROVE  Relisted(m, block_remove(m, c, b), ext, E, U \cup {b})
<1>1. PICK fl \in FL, sl \in SL : mapping_insert(m.blk[b].size) = [fl |-> fl, sl |-> sl]
  BY FreeHasList
<1>2. b \in ToSet(m.tlsf[c].blocks[fl][sl])
  <2>1. b \in Belong(m.blk, ext, U, c, fl, sl)
    BY <1>1 DEF Belong
  <2> QED BY <2>1 DEF Between, ListsOK
<1>3. block_remove(m, c, b) = remove_free_block(m, c, b, [fl |-> fl, sl |-> sl])
  BY <1>1 DEF block_remove
<1> QED BY <1>2, <1>3, RemoveLists

-----------------------------------------------------------------------------
(* What the operators on headers do.  The results are predicates, expanded   *)
(* where they are used, so that the provers do not take the conclusion of a  *)
(* lemma for the premise of the same lemma.                                  *)

LEMMA MemoryHeaders ==
  ASSUME NEW D, NEW C, NEW m \in Memory(D, C)
  PROVE  m.blk \in Headers(D) /\ DOMAIN m.blk = D /\ DOMAIN m.tlsf = C
BY DEF Memory, Headers

(* n is m, but for an assertion that may have failed. *)
Asserted(D, C, m, n, holds) ==
  /\ n \in Memory(D, C) /\ n.blk = m.blk /\ n.tlsf = m.tlsf
  /\ holds => n.abort = m.abort

LEMMA Asserting ==
  ASSUME NEW D, NEW C, NEW m \in Memory(D, C), NEW holds \in BOOLEAN
  PROVE  Asserted(D, C, m, tlsf_assert(m, holds), holds)
BY DEF Memory, tlsf_assert, Asserted

LEMMA AssertingNext ==
  ASSUME NEW D, NEW C, NEW m \in Memory(D, C), NEW b \in D, m.blk[b].size # 0
  PROVE  Asserted(D, C, m, assert_not_last(m, b), TRUE)
BY DEF Memory, tlsf_assert, assert_not_last, Asserted

(* n is m, but for the header at b. *)
Changed(D, C, m, n, b, size, free, prev_free, prev_phys) ==
  /\ n \in Memory(D, C) /\ n.tlsf = m.tlsf /\ n.abort = m.abort
  /\ \A a \in DOMAIN m.blk : a # b => n.blk[a] = m.blk[a]
  /\ n.blk[b].size = size /\ n.blk[b].free = free
  /\ n.blk[b].prev_free = prev_free /\ n.blk[b].prev_phys = prev_phys

LEMMA SetSize ==
  ASSUME NEW D, NEW C, NEW m \in Memory(D, C), NEW b \in D, NEW v \in Nat
  PROVE  Changed(D, C, m, block_set_size(m, b, v), b,
                 v, m.blk[b].free, m.blk[b].prev_free, m.blk[b].prev_phys)
BY DEF Memory, HeaderType, Changed, block_set_size

LEMMA SetFree ==
  ASSUME NEW D, NEW C, NEW m \in Memory(D, C), NEW b \in D
  PROVE  Changed(D, C, m, block_set_free(m, b), b,
                 m.blk[b].size, TRUE, m.blk[b].prev_free, m.blk[b].prev_phys)
BY DEF Memory, HeaderType, Changed, block_set_free

LEMMA SetUsed ==
  ASSUME NEW D, NEW C, NEW m \in Memory(D, C), NEW b \in D
  PROVE  Changed(D, C, m, block_set_used(m, b), b,
                 m.blk[b].size, FALSE, m.blk[b].prev_free, m.blk[b].prev_phys)
BY DEF Memory, HeaderType, Changed, block_set_used

LEMMA SetPrevFree ==
  ASSUME NEW D, NEW C, NEW m \in Memory(D, C), NEW b \in D
  PROVE  Changed(D, C, m, block_set_prev_free(m, b), b,
                 m.blk[b].size, m.blk[b].free, TRUE, m.blk[b].prev_phys)
BY DEF Memory, HeaderType, Changed, block_set_prev_free

LEMMA SetPrevUsed ==
  ASSUME NEW D, NEW C, NEW m \in Memory(D, C), NEW b \in D
  PROVE  Changed(D, C, m, block_set_prev_used(m, b), b,
                 m.blk[b].size, m.blk[b].free, FALSE, NO_BLOCK)
BY DEF Memory, HeaderType, Changed, block_set_prev_used, NO_BLOCK

LEMMA SetPrevPhys ==
  ASSUME NEW D, NEW C, NEW m \in Memory(D, C), NEW b \in D, NEW v \in Nat
  PROVE  Changed(D, C, m, set_prev_phys(m, b, v), b,
                 m.blk[b].size, m.blk[b].free, m.blk[b].prev_free, v)
BY DEF Memory, HeaderType, Changed, set_prev_phys

LEMMA NewHeader ==
  ASSUME NEW D, NEW C, NEW m \in Memory(D, C), NEW b, NEW size \in Nat,
         NEW free \in BOOLEAN, NEW prev_free \in BOOLEAN
  PROVE  Changed(D \cup {b}, C, m, SetHeader(m, b, Header(size, free, prev_free)), b,
                 size, free, prev_free, NO_BLOCK)
<1> DEFINE header == Header(size, free, prev_free)
           k      == With(m.blk, b, header)
<1>1. header \in HeaderType
  BY DEF Header, HeaderType, NO_BLOCK
<1>2. m.blk \in [D -> HeaderType] /\ DOMAIN m.blk = D
  BY DEF Memory
<1>3. k \in [D \cup {b} -> HeaderType] /\ k[b] = header /\ \A a \in D : a # b => k[a] = m.blk[a]
  <2> HIDE DEF header
  <2> QED BY <1>1, <1>2 DEF With
<1>4. SetHeader(m, b, header) = [m EXCEPT !.blk = k]
  BY DEF SetHeader
<1>5. header.size = size /\ header.free = free /\ header.prev_free = prev_free /\ header.prev_phys = NO_BLOCK
  BY DEF Header
<1> HIDE DEF k, header
<1>6. LET n == SetHeader(m, b, header)
      IN  n \in Memory(D \cup {b}, C) /\ n.blk = k /\ n.tlsf = m.tlsf /\ n.abort = m.abort
  BY <1>3, <1>4 DEF Memory
<1> QED BY <1>2, <1>3, <1>5, <1>6 DEF header, Changed

(* n is m without the header at b. *)
Dropped(D, C, m, n, b) ==
  /\ n \in Memory(D \ {b}, C) /\ n.tlsf = m.tlsf /\ n.abort = m.abort
  /\ \A a \in D \ {b} : n.blk[a] = m.blk[a]

LEMMA DroppedHeader ==
  ASSUME NEW D, NEW C, NEW m \in Memory(D, C), NEW b
  PROVE  Dropped(D, C, m, drop_header(m, b), b)
<1>1. DOMAIN m.blk = D
  BY DEF Memory
<1> QED BY <1>1 DEF Memory, drop_header, Restrict, Dropped

LEMMA BlockNext ==
  ASSUME NEW D, D \subseteq Nat \ {0}, NEW C, NEW m \in Memory(D, C), NEW b \in D
  PROVE  block_next(m, b) = NextOf(m.blk, b)
<1>1. b \in Nat /\ m.blk[b].size \in Nat
  BY MemoryHeaders, NextNumbers
<1> QED
  BY <1>1 DEF block_next, block_to_ptr, block_start_offset, block_header_overhead, NextOf

LEMMA LinkingNext ==
  ASSUME NEW D, D \subseteq Nat \ {0}, NEW C, NEW m \in Memory(D, C), NEW b \in D,
         m.blk[b].size # 0, NEW next \in D, next = NextOf(m.blk, b)
  PROVE  Changed(D, C, m, block_link_next(m, b), next,
                 m.blk[next].size, m.blk[next].free, m.blk[next].prev_free, b)
<1> DEFINE m0 == assert_not_last(m, b)
           n  == set_prev_phys(m0, next, b)
<1>1. block_link_next(m, b) = n
  BY BlockNext DEF block_link_next
<1>2. Asserted(D, C, m, m0, TRUE)
  BY AssertingNext
<1> HIDE DEF m0
<1>3. m0 \in Memory(D, C) /\ b \in Nat
  BY <1>2 DEF Asserted
<1>4. Changed(D, C, m0, n, next, m0.blk[next].size, m0.blk[next].free, m0.blk[next].prev_free, b)
  BY <1>3, SetPrevPhys
<1> HIDE DEF n
<1> QED BY <1>1, <1>2, <1>4 DEF Changed, Asserted

(* b is marked, and nothing else changes. *)
MarkedAs(D, C, m, n, b, free) ==
  n \in Memory(D, C) /\ n.tlsf = m.tlsf /\ n.abort = m.abort /\ IsMarked(m.blk, n.blk, b, free)

LEMMA MarkingFree ==
  ASSUME NEW D, D \subseteq Nat \ {0}, NEW C, NEW m \in Memory(D, C), NEW b \in D,
         m.blk[b].size # 0, NextOf(m.blk, b) \in D
  PROVE  MarkedAs(D, C, m, block_mark_as_free(m, b), b, TRUE)
<1>1. PICK next \in D : next = NextOf(m.blk, b)
  OBVIOUS
<1>2. next # b /\ DOMAIN m.blk = D
  <2>1. b \in Nat /\ NextOf(m.blk, b) \in Nat /\ NextOf(m.blk, b) > b
    BY MemoryHeaders, NextNumbers
  <2> QED BY <1>1, <2>1, MemoryHeaders
<1> DEFINE m1 == block_link_next(m, b)
           m2 == block_set_prev_free(m1, next)
           n  == block_set_free(m2, b)
<1>3. block_mark_as_free(m, b) = n
  BY <1>1, BlockNext DEF block_mark_as_free
<1>4. Changed(D, C, m, m1, next, m.blk[next].size, m.blk[next].free, m.blk[next].prev_free, b)
  BY <1>1, LinkingNext
<1> HIDE DEF m1
<1>5. m1 \in Memory(D, C)
  BY <1>4 DEF Changed
<1>6. Changed(D, C, m1, m2, next, m1.blk[next].size, m1.blk[next].free, TRUE, m1.blk[next].prev_phys)
  BY <1>5, SetPrevFree
<1> HIDE DEF m2
<1>7. m2 \in Memory(D, C)
  BY <1>6 DEF Changed
<1>8. Changed(D, C, m2, n, b, m2.blk[b].size, TRUE, m2.blk[b].prev_free, m2.blk[b].prev_phys)
  BY <1>7, SetFree
<1> HIDE DEF n
<1>9. DOMAIN m1.blk = D /\ DOMAIN m2.blk = D
  BY <1>5, <1>7, MemoryHeaders
<1> QED BY <1>1, <1>2, <1>3, <1>4, <1>6, <1>8, <1>9 DEF IsMarked, Changed, MarkedAs

LEMMA MarkingUsed ==
  ASSUME NEW D, D \subseteq Nat \ {0}, NEW C, NEW m \in Memory(D, C), NEW b \in D,
         m.blk[b].size # 0, NextOf(m.blk, b) \in D
  PROVE  MarkedAs(D, C, m, block_mark_as_used(m, b), b, FALSE)
<1>1. PICK next \in D : next = NextOf(m.blk, b)
  OBVIOUS
<1>2. next # b /\ DOMAIN m.blk = D
  <2>1. b \in Nat /\ NextOf(m.blk, b) \in Nat /\ NextOf(m.blk, b) > b
    BY MemoryHeaders, NextNumbers
  <2> QED BY <1>1, <2>1, MemoryHeaders
<1> DEFINE m1 == assert_not_last(m, b)
           m2 == block_set_prev_used(m1, next)
           n  == block_set_used(m2, b)
<1>3. block_mark_as_used(m, b) = n
  BY <1>1, BlockNext DEF block_mark_as_used
<1>4. Asserted(D, C, m, m1, TRUE)
  BY AssertingNext
<1> HIDE DEF m1
<1>5. m1 \in Memory(D, C)
  BY <1>4 DEF Asserted
<1>6. Changed(D, C, m1, m2, next, m1.blk[next].size, m1.blk[next].free, FALSE, NO_BLOCK)
  BY <1>5, SetPrevUsed
<1> HIDE DEF m2
<1>7. m2 \in Memory(D, C)
  BY <1>6 DEF Changed
<1>8. Changed(D, C, m2, n, b, m2.blk[b].size, FALSE, m2.blk[b].prev_free, m2.blk[b].prev_phys)
  BY <1>7, SetUsed
<1> HIDE DEF n
<1>9. DOMAIN m1.blk = D /\ DOMAIN m2.blk = D
  BY <1>5, <1>7, MemoryHeaders
<1> QED BY <1>1, <1>2, <1>3, <1>4, <1>6, <1>8, <1>9 DEF IsMarked, Changed, Asserted, MarkedAs

-----------------------------------------------------------------------------
(* Splitting and merging *)

(* b is cut, and rest does not know about it yet. *)
CutAt(D, C, m, n, b, size, rest, next) ==
  /\ n \in Memory(D \cup {rest}, C) /\ n.tlsf = m.tlsf /\ n.abort = m.abort
  /\ \A a \in D \ {b, next} :
       /\ n.blk[a].size = m.blk[a].size /\ n.blk[a].free = m.blk[a].free
       /\ n.blk[a].prev_free = m.blk[a].prev_free /\ n.blk[a].prev_phys = m.blk[a].prev_phys
  /\ n.blk[b].size = size /\ n.blk[b].free = m.blk[b].free
  /\ n.blk[b].prev_free = m.blk[b].prev_free /\ n.blk[b].prev_phys = m.blk[b].prev_phys
  /\ n.blk[rest].size = m.blk[b].size - (size + 1) /\ n.blk[rest].free = TRUE
  /\ n.blk[next].size = m.blk[next].size /\ n.blk[next].free = m.blk[next].free
  /\ n.blk[next].prev_free = TRUE /\ n.blk[next].prev_phys = rest

LEMMA Splitting ==
  ASSUME NEW D, D \subseteq Nat \ {0}, NEW C, NEW m \in Memory(D, C), NEW b \in D,
         NEW size \in Nat, m.blk[b].size >= sizeof_block_header + size,
         NEW rest \in Nat \ {0}, rest \notin D, rest = split_off(b, size),
         NEW next \in D, next = NextOf(m.blk, b)
  PROVE  CutAt(D, C, m, block_split(m, b, size), b, size, rest, next)
<1>2. m.blk[b].size \in Nat /\ b \in Nat /\ next = b + m.blk[b].size + 1 /\ DOMAIN m.blk = D
  <2>1. m.blk[b].size \in Nat
    BY MemoryHeaders, NextNumbers
  <2> QED BY <2>1, MemoryHeaders DEF NextOf
<1>3. rest = b + size + 1 /\ rest # b
  BY <1>2 DEF split_off, block_header_overhead
<1> DEFINE F      == D \cup {rest}
           remain == m.blk[b].size - (size + 1)
           m1 == SetHeader(m, rest, Header(remain, FALSE, FALSE))
           m2 == block_set_size(m1, b, size)
           holds == remain >= block_size_min
           m3 == tlsf_assert(m2, holds)
           n  == block_mark_as_free(m3, rest)
<1>4. block_split(m, b, size) = n
  BY DEF block_split, block_header_overhead
<1>5. remain \in Nat /\ remain # 0 /\ holds /\ holds \in BOOLEAN /\ remain = m.blk[b].size - (size + 1)
  BY <1>2 DEF sizeof_block_header, block_size_min
<1>50. F \subseteq Nat \ {0} /\ b \in F /\ rest \in F /\ next \in F /\ F = D \cup {rest}
  OBVIOUS
<1> HIDE DEF remain, holds, F
<1>6. Changed(F, C, m, m1, rest, remain, FALSE, FALSE, NO_BLOCK)
  BY <1>5, NewHeader DEF F
<1> HIDE DEF m1
<1>7. m1 \in Memory(F, C)
  BY <1>6 DEF Changed
<1>8. Changed(F, C, m1, m2, b, size, m1.blk[b].free, m1.blk[b].prev_free, m1.blk[b].prev_phys)
  BY <1>7, <1>50, SetSize
<1> HIDE DEF m2
<1>9. m2 \in Memory(F, C)
  BY <1>8 DEF Changed
<1>10. Asserted(F, C, m2, m3, holds)
  BY <1>5, <1>9, Asserting
<1> HIDE DEF m3
<1>11. m3 \in Memory(F, C) /\ m3.blk = m2.blk
  BY <1>10 DEF Asserted
<1>12. DOMAIN m1.blk = F /\ DOMAIN m2.blk = F
  BY <1>7, <1>9, MemoryHeaders
<1>13. m3.blk[rest].size = remain /\ NextOf(m3.blk, rest) = next /\ next # rest /\ next # b
  <2>1. m3.blk[rest].size = remain
    BY <1>3, <1>6, <1>8, <1>11, <1>12, <1>50 DEF Changed
  <2> QED BY <1>2, <1>3, <1>5, <2>1 DEF NextOf
<1>14. MarkedAs(F, C, m3, n, rest, TRUE)
  BY <1>5, <1>11, <1>13, <1>50, MarkingFree
<1> HIDE DEF n
<1>15. DOMAIN m3.blk = F
  BY <1>11, <1>12
<1>16. n.tlsf = m.tlsf /\ n.abort = m.abort /\ n \in Memory(F, C)
  BY <1>5, <1>6, <1>8, <1>10, <1>14 DEF Changed, Asserted, MarkedAs
<1>17. \A a \in D : a # b => m3.blk[a] = m.blk[a]
  BY <1>2, <1>6, <1>8, <1>11, <1>12, <1>50 DEF Changed
<1>18. /\ m3.blk[b].size = size /\ m3.blk[b].free = m.blk[b].free
       /\ m3.blk[b].prev_free = m.blk[b].prev_free /\ m3.blk[b].prev_phys = m.blk[b].prev_phys
  BY <1>2, <1>3, <1>6, <1>8, <1>11 DEF Changed
<1>19. IsMarked(m3.blk, n.blk, rest, TRUE)
  BY <1>14 DEF MarkedAs
<1>20. \A a \in D \ {next} :
         /\ n.blk[a].size = m3.blk[a].size /\ n.blk[a].free = m3.blk[a].free
         /\ n.blk[a].prev_free = m3.blk[a].prev_free /\ n.blk[a].prev_phys = m3.blk[a].prev_phys
  BY <1>13, <1>15, <1>19, <1>50 DEF IsMarked
<1>21. n.blk[rest].size = remain /\ n.blk[rest].free = TRUE
  BY <1>13, <1>15, <1>19, <1>50 DEF IsMarked
<1>22. /\ n.blk[next].size = m.blk[next].size /\ n.blk[next].free = m.blk[next].free
       /\ n.blk[next].prev_free = TRUE /\ n.blk[next].prev_phys = rest
  BY <1>13, <1>15, <1>17, <1>19, <1>50 DEF IsMarked
<1> QED BY <1>4, <1>5, <1>13, <1>16, <1>17, <1>18, <1>20, <1>21, <1>22 DEF CutAt, F

(* b has taken in next; what lies beyond is told where b starts. *)
AbsorbedInto(D, C, m, n, b, next, far) ==
  /\ n \in Memory(D \ {next}, C) /\ n.tlsf = m.tlsf /\ n.abort = m.abort
  /\ \A a \in D \ {b, next, far} : n.blk[a] = m.blk[a]
  /\ n.blk[b].size = m.blk[b].size + m.blk[next].size + 1 /\ n.blk[b].free = m.blk[b].free
  /\ n.blk[b].prev_free = m.blk[b].prev_free /\ n.blk[b].prev_phys = m.blk[b].prev_phys
  /\ n.blk[far].size = m.blk[far].size /\ n.blk[far].free = m.blk[far].free
  /\ n.blk[far].prev_free = m.blk[far].prev_free /\ n.blk[far].prev_phys = b

LEMMA Absorbing ==
  ASSUME NEW D, D \subseteq Nat \ {0}, NEW C, NEW m \in Memory(D, C), NEW b \in D,
         m.blk[b].size # 0, NEW next \in D, next = NextOf(m.blk, b),
         NEW far \in D, far = NextOf(m.blk, next)
  PROVE  AbsorbedInto(D, C, m, block_absorb(m, b, next), b, next, far)
<1>1. /\ m.blk[b].size \in Nat /\ m.blk[next].size \in Nat /\ b \in Nat /\ DOMAIN m.blk = D
      /\ next = b + m.blk[b].size + 1 /\ far = next + m.blk[next].size + 1
  <2>1. m.blk[b].size \in Nat /\ m.blk[next].size \in Nat
    BY MemoryHeaders, NextNumbers
  <2> QED BY <2>1, MemoryHeaders DEF NextOf
<1> DEFINE F    == D \ {next}
           size == m.blk[b].size + m.blk[next].size + 1
           m0 == assert_not_last(m, b)
           m1 == block_set_size(m0, b, size)
           m2 == drop_header(m1, next)
           n  == block_link_next(m2, b)
<1>2. block_absorb(m, b, next) = n
  BY DEF block_absorb, block_header_overhead
<1>3. size \in Nat /\ size # 0 /\ size = m.blk[b].size + m.blk[next].size + 1
  BY <1>1
<1> HIDE DEF size
<1>4. Asserted(D, C, m, m0, TRUE)
  BY AssertingNext
<1> HIDE DEF m0
<1>5. m0 \in Memory(D, C) /\ m0.blk = m.blk /\ m0.tlsf = m.tlsf /\ m0.abort = m.abort
  BY <1>4 DEF Asserted
<1>6. Changed(D, C, m0, m1, b, size, m0.blk[b].free, m0.blk[b].prev_free, m0.blk[b].prev_phys)
  BY <1>3, <1>5, SetSize
<1> HIDE DEF m1
<1>7. m1 \in Memory(D, C)
  BY <1>6 DEF Changed
<1>8. Dropped(D, C, m1, m2, next)
  BY <1>7, DroppedHeader
<1> HIDE DEF m2
<1>9. b # next /\ b # far /\ next # far /\ F \subseteq Nat \ {0} /\ b \in F /\ far \in F
      /\ F = D \ {next}
  BY <1>1
<1> HIDE DEF F
<1>10. m2 \in Memory(F, C) /\ m2.blk[b].size = size /\ far = NextOf(m2.blk, b)
  <2>1. m2 \in Memory(F, C)
    BY <1>8, <1>9 DEF Dropped
  <2>2. m2.blk[b] = m1.blk[b] /\ m1.blk[b].size = size
    BY <1>6, <1>8, <1>9 DEF Dropped, Changed
  <2>3. m2.blk[b].size = size
    BY <2>2
  <2> QED BY <1>1, <1>3, <2>1, <2>3 DEF NextOf
<1>11. Changed(F, C, m2, n, far, m2.blk[far].size, m2.blk[far].free, m2.blk[far].prev_free, b)
  BY <1>3, <1>9, <1>10, LinkingNext
<1> HIDE DEF n
<1>12. DOMAIN m2.blk = F
  BY <1>10, MemoryHeaders
<1>13. \A a \in F : a # b => m2.blk[a] = m.blk[a]
  BY <1>1, <1>5, <1>6, <1>8, <1>9 DEF Dropped, Changed
<1>14. /\ m2.blk[b].free = m.blk[b].free
       /\ m2.blk[b].prev_free = m.blk[b].prev_free /\ m2.blk[b].prev_phys = m.blk[b].prev_phys
  BY <1>5, <1>6, <1>8, <1>9 DEF Dropped, Changed
<1>15. n.blk[b] = m2.blk[b] /\ \A a \in F : a # far => n.blk[a] = m2.blk[a]
  BY <1>9, <1>11, <1>12 DEF Changed
<1>16. n.tlsf = m.tlsf /\ n.abort = m.abort /\ n \in Memory(F, C)
  BY <1>5, <1>6, <1>8, <1>11 DEF Changed, Dropped
<1>17. \A a \in D \ {b, next, far} : n.blk[a] = m.blk[a]
  BY <1>9, <1>13, <1>15
<1>18. /\ n.blk[b].size = size /\ n.blk[b].free = m.blk[b].free
       /\ n.blk[b].prev_free = m.blk[b].prev_free /\ n.blk[b].prev_phys = m.blk[b].prev_phys
  BY <1>10, <1>14, <1>15
<1>19. /\ n.blk[far].size = m.blk[far].size /\ n.blk[far].free = m.blk[far].free
       /\ n.blk[far].prev_free = m.blk[far].prev_free /\ n.blk[far].prev_phys = b
  <2>1. m2.blk[far] = m.blk[far]
    BY <1>9, <1>13
  <2> QED BY <1>11, <2>1 DEF Changed
<1> QED BY <1>2, <1>3, <1>9, <1>16, <1>17, <1>18, <1>19 DEF AbsorbedInto

-----------------------------------------------------------------------------
(* Blocks that change hands *)

LEMMA Parts ==
  ASSUME NEW m, NEW ext, NEW E, NEW U, Between(m, ext, E, U),
         NEW D, D = DOMAIN m.blk, NEW C, C = DOMAIN ext
  PROVE  /\ m \in Memory(D, C) /\ m.blk \in Headers(D) /\ D \subseteq Nat \ {0}
         /\ Layout(ext) /\ Tiled(m.blk) /\ Linked(m.blk) /\ Placed(m.blk, ext)
         /\ FreeApart(m.blk, E)
BY DEF Between, Memory, Headers

(* The block at b: what it shares with the block after it. *)
LEMMA BlockParts ==
  ASSUME NEW m, NEW ext, NEW E, NEW U, Between(m, ext, E, U), NEW b \in DOMAIN m.blk
  PROVE  /\ b \in Nat \ {0} /\ m.blk[b] \in HeaderType /\ m.blk[b].size \in Nat
         /\ m.blk[b].free => m.blk[b].size # 0
         /\ m.blk[b].size # 0 => /\ NextOf(m.blk, b) \in DOMAIN m.blk
                                 /\ NextOf(m.blk, b) = b + m.blk[b].size + 1
                                 /\ m.blk[b].size >= block_size_min
                                 /\ m.blk[NextOf(m.blk, b)].prev_free = m.blk[b].free
BY DEF Between, Memory, HeaderType, Tiled, Linked, NextOf

(* The free blocks of h outside U are those of k outside V. *)
SameFree(h, k, U, V) ==
  /\ \A b : b \in DOMAIN h /\ h[b].free /\ b \notin U <=> b \in DOMAIN k /\ k[b].free /\ b \notin V
  /\ \A b \in DOMAIN h \ U : h[b].free => k[b].size = h[b].size

(* Other headers for the same lists. *)
LEMMA Rebuild ==
  ASSUME NEW m, NEW ext, NEW E, NEW U, Between(m, ext, E, U),
         NEW n, NEW F, n \in Memory(F, DOMAIN ext), n.tlsf = m.tlsf, F \subseteq Nat \ {0},
         Tiled(n.blk), Linked(n.blk), Placed(n.blk, ext), NEW G, FreeApart(n.blk, G),
         NEW V, SameFree(m.blk, n.blk, U, V)
  PROVE  Between(n, ext, G, V)
<1>1. DOMAIN n.blk = F
  BY MemoryHeaders
<1>2. ListsOK(m.blk, m.tlsf, ext, U) /\ BitmapsOK(m.tlsf) /\ Layout(ext)
  BY DEF Between
<1>3. ListsOK(n.blk, n.tlsf, ext, V)
  BY <1>2, ListsUnchanged DEF SameFree
<1> QED BY <1>1, <1>2, <1>3 DEF Between

(* The block at b has been marked as free, or as used. *)
Remarked(m, n, ext, E, U, b, free) ==
  /\ Between(n, ext, E, U) /\ n.abort = m.abort /\ DOMAIN n.blk = DOMAIN m.blk
  /\ IsMarked(m.blk, n.blk, b, free)

LEMMA MarkedFree ==
  ASSUME NEW m, NEW ext, Between(m, ext, {}, {}),
         NEW b \in DOMAIN m.blk, ~m.blk[b].free, m.blk[b].size # 0
  PROVE  Remarked(m, block_mark_as_free(m, b), ext, {b, merged_start(m, b)}, {b}, b, TRUE)
<1> DEFINE D == DOMAIN m.blk
           C == DOMAIN ext
           n == block_mark_as_free(m, b)
           h == m.blk
           k == n.blk
<1>1. /\ m \in Memory(D, C) /\ h \in Headers(D) /\ D \subseteq Nat \ {0}
      /\ Layout(ext) /\ Tiled(h) /\ Linked(h) /\ Placed(h, ext) /\ FreeApart(h, {})
  BY Parts
<1>2. b \in D /\ NextOf(h, b) \in D /\ h[b].size # 0
  BY BlockParts
<1> HIDE DEF D
<1>3. MarkedAs(D, C, m, n, b, TRUE)
  BY <1>1, <1>2, MarkingFree
<1>4. n \in Memory(D, C) /\ n.tlsf = m.tlsf /\ n.abort = m.abort /\ IsMarked(h, k, b, TRUE)
  BY <1>3 DEF MarkedAs
<1>5. k \in Headers(D) /\ DOMAIN k = D /\ DOMAIN h = D
  BY <1>4, MemoryHeaders DEF D
<1> HIDE DEF n
<1>6. Tiled(k) /\ Linked(k) /\ \A a \in D : NextOf(k, a) = NextOf(h, a)
  <2>1. /\ h \in Headers(D) /\ D \subseteq Nat \ {0} /\ Tiled(h) /\ Linked(h)
        /\ b \in D /\ h[b].size # 0 /\ k \in Headers(D) /\ IsMarked(h, k, b, TRUE)
    BY <1>1, <1>2, <1>4, <1>5
  <2> HIDE DEF h, k
  <2>2. RowKept(D, h, k)
    BY <2>1, MarkedRow
  <2> QED BY <2>2 DEF RowKept
<1>7. Placed(k, ext)
  BY <1>1, <1>2, <1>4, <1>5, MarkedPlaced
<1>8. FreeApart(k, {b, merged_start(m, b)})
  <2>1. FreeApart(k, {b, merged_start([blk |-> h], b)})
    BY <1>1, <1>2, <1>4, <1>5, FreedApart
  <2> QED BY <2>1 DEF merged_start
<1>9. SameFree(h, k, {}, {b})
  BY <1>2, <1>4, <1>5 DEF IsMarked, SameFree
<1>11. Between(n, ext, {b, merged_start(m, b)}, {b})
  <2> HIDE DEF h, k, C
  <2>1. Between(m, ext, {}, {}) /\ n \in Memory(D, DOMAIN ext) /\ n.blk = k /\ m.blk = h
    BY <1>4 DEF h, k, C
  <2> QED BY <1>1, <1>4, <1>6, <1>7, <1>8, <1>9, <2>1, Rebuild
<1> QED BY <1>4, <1>5, <1>11 DEF Remarked, n, D

LEMMA MarkedUsed ==
  ASSUME NEW m, NEW ext, NEW E, NEW U, Between(m, ext, E, U),
         NEW b \in DOMAIN m.blk, m.blk[b].free => b \in U, m.blk[b].size # 0,
         NEW a \in DOMAIN m.blk, a = b \/ NextOf(m.blk, a) = b
  PROVE  Remarked(m, block_mark_as_used(m, b), ext, E \ {a, b}, U \ {b}, b, FALSE)
<1> DEFINE D == DOMAIN m.blk
           C == DOMAIN ext
           n == block_mark_as_used(m, b)
           h == m.blk
           k == n.blk
<1>1. /\ m \in Memory(D, C) /\ h \in Headers(D) /\ D \subseteq Nat \ {0}
      /\ Layout(ext) /\ Tiled(h) /\ Linked(h) /\ Placed(h, ext) /\ FreeApart(h, E)
  BY Parts
<1>2. b \in D /\ a \in D /\ NextOf(h, b) \in D /\ h[b].size # 0
  BY BlockParts
<1> HIDE DEF D
<1>3. MarkedAs(D, C, m, n, b, FALSE)
  BY <1>1, <1>2, MarkingUsed
<1>4. n \in Memory(D, C) /\ n.tlsf = m.tlsf /\ n.abort = m.abort /\ IsMarked(h, k, b, FALSE)
  BY <1>3 DEF MarkedAs
<1>5. k \in Headers(D) /\ DOMAIN k = D /\ DOMAIN h = D
  BY <1>4, MemoryHeaders DEF D
<1> HIDE DEF n
<1>6. Tiled(k) /\ Linked(k) /\ \A x \in D : NextOf(k, x) = NextOf(h, x)
  <2>1. /\ h \in Headers(D) /\ D \subseteq Nat \ {0} /\ Tiled(h) /\ Linked(h)
        /\ b \in D /\ h[b].size # 0 /\ k \in Headers(D) /\ IsMarked(h, k, b, FALSE)
    BY <1>1, <1>2, <1>4, <1>5
  <2> HIDE DEF h, k
  <2>2. RowKept(D, h, k)
    BY <2>1, MarkedRow
  <2> QED BY <2>2 DEF RowKept
<1>7. Placed(k, ext)
  BY <1>1, <1>2, <1>4, <1>5, MarkedPlaced
<1>8. FreeApart(k, E \ {a, b})
  <2>1. /\ FreeApart(k, E \ {b})
        /\ \A x \in D : NextOf(h, x) = b => FreeApart(k, E \ {x, b})
    BY <1>1, <1>2, <1>4, <1>5, UsedApart
  <2>2. a = b => E \ {a, b} = E \ {b}
    OBVIOUS
  <2> QED BY <1>2, <2>1, <2>2
<1>9. SameFree(h, k, U, U \ {b})
  BY <1>2, <1>4, <1>5 DEF IsMarked, SameFree
<1>11. Between(n, ext, E \ {a, b}, U \ {b})
  <2> HIDE DEF h, k, C
  <2>1. Between(m, ext, E, U) /\ n \in Memory(D, DOMAIN ext) /\ n.blk = k /\ m.blk = h
    BY <1>4 DEF h, k, C
  <2> QED BY <1>1, <1>4, <1>6, <1>7, <1>8, <1>9, <2>1, Rebuild
<1> QED BY <1>4, <1>5, <1>11 DEF Remarked, n, D

(* What is allowed to lie side by side may be more than what does. *)
LEMMA Wider ==
  ASSUME NEW m, NEW ext, NEW E, NEW U, Between(m, ext, E, U), NEW F, E \subseteq F
  PROVE  Between(m, ext, F, U)
BY DEF Between, FreeApart

(* The second part of a block that is cut starts where no block does. *)
LEMMA RestIsNew ==
  ASSUME NEW m, NEW ext, NEW E, NEW U, Between(m, ext, E, U), NEW b \in DOMAIN m.blk,
         NEW size \in Nat, size >= block_size_min, m.blk[b].size >= sizeof_block_header + size,
         NEW rest, rest = split_off(b, size)
  PROVE  /\ rest \in Nat \ {0} /\ rest \notin DOMAIN m.blk /\ rest # b
         /\ rest = b + size + 1 /\ b <= rest /\ rest <= NextOf(m.blk, b)
         /\ m.blk[b].size # 0 /\ NextOf(m.blk, b) \in DOMAIN m.blk /\ NextOf(m.blk, b) # b
<1>1. /\ b \in Nat \ {0} /\ m.blk[b].size \in Nat /\ m.blk[b].size # 0
      /\ NextOf(m.blk, b) \in DOMAIN m.blk /\ NextOf(m.blk, b) = b + m.blk[b].size + 1
  BY BlockParts DEF sizeof_block_header
<1>2. /\ rest = b + size + 1 /\ rest \in Nat \ {0} /\ b < rest /\ rest < NextOf(m.blk, b)
  BY <1>1 DEF split_off, block_header_overhead, sizeof_block_header
<1>3. \A a \in DOMAIN m.blk : a <= b \/ a >= NextOf(m.blk, b)
  BY <1>1 DEF Between, Tiled
<1>4. rest \notin DOMAIN m.blk
  <2>1. SUFFICES ASSUME rest \in DOMAIN m.blk PROVE FALSE
    OBVIOUS
  <2>2. rest <= b \/ rest >= NextOf(m.blk, b)
    BY <1>3, <2>1
  <2>3. NextOf(m.blk, b) \in Nat
    BY <1>1
  <2> QED BY <1>1, <1>2, <2>2, <2>3
<1> QED BY <1>1, <1>2, <1>4

(* A block is cut, and what is cut off is free and in no list yet. *)
SplitInto(m, n, ext, E, U, b, size, rest) ==
  /\ Between(n, ext, E, U) /\ n.abort = m.abort
  /\ DOMAIN n.blk = DOMAIN m.blk \cup {rest}
  /\ IsSplit(m.blk, n.blk, b, size)
  /\ NextOf(n.blk, b) = rest /\ NextOf(n.blk, rest) = NextOf(m.blk, b)
  /\ \A a \in DOMAIN m.blk \ {b} : NextOf(n.blk, a) = NextOf(m.blk, a)

LEMMA SplitBetween ==
  ASSUME NEW m, NEW ext, NEW E, NEW U, Between(m, ext, E, U), NEW b \in DOMAIN m.blk,
         NEW size \in Nat, size >= block_size_min, m.blk[b].size >= sizeof_block_header + size,
         NEW rest, rest = split_off(b, size), m.blk[b].free => b \in U,
         NEW n, n \in Memory(DOMAIN m.blk \cup {rest}, DOMAIN ext),
         n.tlsf = m.tlsf, n.abort = m.abort, IsSplit(m.blk, n.blk, b, size),
         NEW G, \/ G = E \cup {b} /\ m.blk[b].free /\ b \notin E
                \/ G = E \cup {rest} /\ ~m.blk[b].free
  PROVE  SplitInto(m, n, ext, G, U \cup {rest}, b, size, rest)
<1> DEFINE D == DOMAIN m.blk
           C == DOMAIN ext
           F == D \cup {rest}
           h == m.blk
           k == n.blk
<1>1. /\ h \in Headers(D) /\ D \subseteq Nat \ {0}
      /\ Tiled(h) /\ Linked(h) /\ b \in D
  BY Parts
<1>2. Layout(ext) /\ Placed(h, ext) /\ FreeApart(h, E)
  BY Parts
<1>3. /\ rest \in Nat \ {0} /\ rest \notin D /\ h[b].size # 0 /\ rest \in Nat \ D
      /\ F \subseteq Nat \ {0}
  BY <1>1, RestIsNew
<1> HIDE DEF D
<1>4. k \in Headers(F) /\ DOMAIN k = F /\ DOMAIN h = D
  BY MemoryHeaders DEF D
<1>5. n \in Memory(F, C) /\ IsSplit(h, k, b, size) /\ h[b].size >= sizeof_block_header + size
  BY DEF D
<1> HIDE DEF C, F
<1>6. /\ Tiled(k) /\ Linked(k) /\ b < rest /\ rest < NextOf(h, b)
      /\ NextOf(k, b) = rest /\ NextOf(k, rest) = NextOf(h, b)
      /\ \A a \in D \ {b} : NextOf(k, a) = NextOf(h, a)
  <2> HIDE DEF h, k
  <2> QED BY <1>1, <1>3, <1>4, <1>5, SplitRow DEF F
<1>7. \A a \in D \ {b} : k[a].size = h[a].size
  BY <1>4, <1>5 DEF IsSplit
<1>8. Placed(k, ext)
  <2> HIDE DEF h, k
  <2> QED BY <1>1, <1>2, <1>3, <1>4, <1>6, <1>7, SplitPlaced DEF F
<1>9. FreeApart(k, G)
  <2>1. /\ h[b].free /\ b \notin E => FreeApart(k, E \cup {b})
        /\ ~h[b].free => FreeApart(k, E \cup {rest})
    <3> HIDE DEF h, k
    <3> QED BY <1>1, <1>2, <1>3, <1>4, <1>5, <1>6, SplitApart DEF F
  <2> QED BY <2>1
<1>10. SameFree(h, k, U, U \cup {rest})
  <2>1. \A a \in D : k[a].free = h[a].free
    BY <1>4, <1>5 DEF IsSplit
  <2>2. h[b].free => b \in U
    OBVIOUS
  <2> HIDE DEF h, k
  <2> QED BY <1>3, <1>4, <1>7, <2>1, <2>2 DEF SameFree, F
<1>11. Between(n, ext, G, U \cup {rest})
  <2>1. Between(m, ext, E, U) /\ n \in Memory(F, DOMAIN ext) /\ n.blk = k /\ m.blk = h
        /\ n.tlsf = m.tlsf
    BY <1>5 DEF C
  <2>2. F \subseteq Nat \ {0}
    BY <1>3
  <2> HIDE DEF h, k
  <2> QED BY <1>6, <1>8, <1>9, <1>10, <2>1, <2>2, Rebuild
<1> QED BY <1>4, <1>5, <1>6, <1>11 DEF SplitInto, D, F

(* b has taken in the free block after it. *)
MergedInto(m, n, ext, E, U, b, next) ==
  /\ Between(n, ext, E, U) /\ n.abort = m.abort
  /\ DOMAIN n.blk = DOMAIN m.blk \ {next} /\ b \in DOMAIN n.blk
  /\ IsMerged(m.blk, n.blk, b)

LEMMA MergedBetween ==
  ASSUME NEW m, NEW ext, NEW E, NEW U, Between(m, ext, E, U), NEW b \in DOMAIN m.blk,
         m.blk[b].size # 0, NEW next \in DOMAIN m.blk, next = NextOf(m.blk, b), m.blk[next].free,
         next \in U, m.blk[b].free => b \in U,
         NEW n, n \in Memory(DOMAIN m.blk \ {next}, DOMAIN ext),
         n.tlsf = m.tlsf, n.abort = m.abort, IsMerged(m.blk, n.blk, b),
         NEW G, \/ G = (E \ {next}) \cup {b}
                \/ G = E \ {b} /\ next \notin E
  PROVE  MergedInto(m, n, ext, G, U \ {next}, b, next)
<1> DEFINE D == DOMAIN m.blk
           C == DOMAIN ext
           F == D \ {next}
           h == m.blk
           k == n.blk
<1>1. /\ h \in Headers(D) /\ D \subseteq Nat \ {0}
      /\ Tiled(h) /\ Linked(h) /\ b \in D
  BY Parts
<1>2. Layout(ext) /\ Placed(h, ext) /\ FreeApart(h, E)
  BY Parts
<1>3. /\ h[b].size # 0 /\ next = NextOf(h, b) /\ next \in D /\ h[next].free /\ h[next].size # 0
      /\ F \subseteq Nat \ {0}
  BY <1>1, BlockParts
<1> HIDE DEF D
<1>4. k \in Headers(F) /\ DOMAIN k = F /\ DOMAIN h = D
  BY MemoryHeaders DEF D
<1>5. n \in Memory(F, C) /\ IsMerged(h, k, b)
  BY DEF D
<1> HIDE DEF C, F
<1>6. /\ Tiled(k) /\ Linked(k) /\ b < next /\ NextOf(h, next) \in D /\ NextOf(h, next) > next
      /\ NextOf(k, b) = NextOf(h, next)
      /\ \A a \in D \ {b, next} : NextOf(k, a) = NextOf(h, a)
  <2>1. /\ h \in Headers(D) /\ D \subseteq Nat \ {0} /\ Tiled(h) /\ Linked(h)
        /\ b \in D /\ h[b].size # 0 /\ next = NextOf(h, b) /\ h[next].size # 0
        /\ k \in Headers(D \ {next}) /\ IsMerged(h, k, b)
    BY <1>1, <1>3, <1>4, <1>5 DEF F
  <2> HIDE DEF h, k
  <2>2. MergedRows(D, h, k, b, next)
    BY <2>1, MergedRow
  <2> QED BY <2>2 DEF MergedRows
<1>60. b # next /\ NextOf(h, next) # next
  <2>1. b \in Nat /\ next \in Nat
    BY <1>1, <1>3
  <2>2. NextOf(h, next) \in Nat
    BY <1>1, <1>6
  <2> QED BY <1>6, <2>1, <2>2
<1>7. \A a \in D \ {b, next} : k[a].size = h[a].size
  BY <1>3, <1>4, <1>5 DEF IsMerged
<1>8. Placed(k, ext)
  <2> HIDE DEF h, k
  <2> QED BY <1>1, <1>2, <1>3, <1>4, <1>6, <1>7, MergedPlaced DEF F
<1>9. FreeApart(k, G)
  <2>1. \A a \in D \ {b, next} : h[a].size # 0 => NextOf(h, a) # next
    <3> HIDE DEF h, k
    <3> QED BY <1>1, <1>3, OneBefore
  <2>2. /\ FreeApart(k, (E \ {next}) \cup {b})
        /\ next \notin E => FreeApart(k, E \ {b})
    <3>1. /\ h \in Headers(D) /\ D \subseteq Nat \ {0} /\ Tiled(h) /\ FreeApart(h, E)
          /\ b \in D /\ h[b].size # 0 /\ next \in D /\ next = NextOf(h, b) /\ h[next].free /\ b # next
          /\ k \in Headers(D \ {next}) /\ IsMerged(h, k, b)
          /\ NextOf(k, b) = NextOf(h, next) /\ NextOf(h, next) # next
      BY <1>1, <1>2, <1>3, <1>4, <1>5, <1>6, <1>60 DEF F
    <3>2. \A a \in D \ {b, next} : NextOf(k, a) = NextOf(h, a) /\ (h[a].size # 0 => NextOf(h, a) # next)
      BY <1>6, <2>1
    <3> HIDE DEF h, k
    <3> QED BY <3>1, <3>2, MergedApart
  <2> QED BY <2>2
<1>10. SameFree(h, k, U, U \ {next})
  <2>1. \A a \in F : k[a].free = h[a].free
    BY <1>3, <1>4, <1>5 DEF IsMerged, F
  <2>2. next \in U /\ (h[b].free => b \in U)
    OBVIOUS
  <2> HIDE DEF h, k
  <2> QED BY <1>3, <1>4, <1>7, <2>1, <2>2 DEF SameFree, F
<1>11. Between(n, ext, G, U \ {next})
  <2>1. Between(m, ext, E, U) /\ n \in Memory(F, DOMAIN ext) /\ n.blk = k /\ m.blk = h
        /\ n.tlsf = m.tlsf
    BY <1>5 DEF C
  <2>2. F \subseteq Nat \ {0}
    BY <1>3
  <2> HIDE DEF h, k
  <2> QED BY <1>6, <1>8, <1>9, <1>10, <2>1, <2>2, Rebuild
<1> QED BY <1>1, <1>4, <1>5, <1>60, <1>11 DEF MergedInto, D, F

-----------------------------------------------------------------------------
(* Merging a free block with its neighbours *)

(* An assertion that holds changes nothing. *)
LEMMA AssertedBetween ==
  ASSUME NEW m, NEW ext, NEW E, NEW U, Between(m, ext, E, U), NEW holds, holds = TRUE
  PROVE  Relisted(m, tlsf_assert(m, holds), ext, E, U)
<1> DEFINE n == tlsf_assert(m, holds)
<1>1. m \in Memory(DOMAIN m.blk, DOMAIN ext)
  BY DEF Between
<1>2. Asserted(DOMAIN m.blk, DOMAIN ext, m, n, holds)
  BY <1>1, Asserting
<1> HIDE DEF n
<1>3. n \in Memory(DOMAIN m.blk, DOMAIN ext) /\ n.blk = m.blk /\ n.tlsf = m.tlsf /\ n.abort = m.abort
  BY <1>2 DEF Asserted
<1>4. Between(n, ext, E, U)
  BY <1>3 DEF Between
<1> QED BY <1>3, <1>4 DEF Relisted, n

LEMMA IntactTransitive ==
  ASSUME NEW h, NEW k, NEW l, NEW S, NEW T, Intact(h, k, S), Intact(k, l, T)
  PROVE  Intact(h, l, S \cup T)
BY DEF Intact, Used

LEMMA SteadyTransitive ==
  ASSUME NEW h, NEW k, NEW l, NEW S, NEW T, Steady(h, k, S), Steady(k, l, T)
  PROVE  Steady(h, l, S \cup T)
BY DEF Steady, Used

LEMMA SteadyAlone ==
  ASSUME NEW h
  PROVE  Steady(h, h, {})
BY DEF Steady

(* Marking, cutting and merging do not change where rows start.              *)
LEMMA MarkedSteady ==
  ASSUME NEW h, NEW k, DOMAIN k = DOMAIN h, NEW b \in DOMAIN h, NEW free, IsMarked(h, k, b, free)
  PROVE  Steady(h, k, {b}) /\ (free = TRUE => Steady(h, k, {}))
<1>1. Starts(k) = Starts(h)
  BY DEF IsMarked, Starts, NextOf
<1>2. Ends(k) = Ends(h)
  BY DEF IsMarked, Ends
<1> QED BY <1>1, <1>2 DEF IsMarked, Steady, Used

LEMMA SplitSteady ==
  ASSUME NEW h, NEW k, NEW b \in DOMAIN h, h[b].size # 0, NEW size, IsSplit(h, k, b, size),
         NEW rest, rest = split_off(b, size), DOMAIN k = DOMAIN h \cup {rest}, rest \notin DOMAIN h,
         size # 0, k[rest].size # 0, NextOf(k, b) = rest, NextOf(k, rest) = NextOf(h, b)
  PROVE  Steady(h, k, {})
<1>1. /\ k[b].size = size /\ k[rest].free = TRUE /\ b # rest
      /\ \A a \in DOMAIN h \ {b} : k[a].size = h[a].size /\ NextOf(k, a) = NextOf(h, a)
      /\ \A a \in DOMAIN h : k[a].free = h[a].free
  BY DEF IsSplit, NextOf
<1>2. rest \notin Starts(k)
  BY <1>1 DEF Starts
<1>3. ASSUME NEW x \in DOMAIN h PROVE x \in Starts(k) <=> x \in Starts(h)
  <2>1. ASSUME x \in Starts(k) PROVE x \in Starts(h)
    <3> SUFFICES ASSUME NEW a \in DOMAIN h, h[a].size # 0, NextOf(h, a) = x PROVE FALSE
      BY DEF Starts
    <3>1. CASE a = b
      BY <2>1, <3>1 DEF Starts
    <3>2. CASE a # b
      BY <1>1, <2>1, <3>2 DEF Starts
    <3> QED BY <3>1, <3>2
  <2>2. ASSUME x \in Starts(h) PROVE x \in Starts(k)
    <3> SUFFICES ASSUME NEW a \in DOMAIN k, k[a].size # 0, NextOf(k, a) = x PROVE FALSE
      BY DEF Starts
    <3>1. CASE a = b
      BY <3>1
    <3>2. CASE a = rest
      BY <2>2, <3>2 DEF Starts
    <3>3. CASE a \in DOMAIN h \ {b}
      BY <1>1, <2>2, <3>3 DEF Starts
    <3> QED BY <3>1, <3>2, <3>3
  <2> QED BY <2>1, <2>2
<1>4. Starts(k) = Starts(h)
  BY <1>2, <1>3 DEF Starts
<1>5. \A a \in DOMAIN k : Used(k, a) => Used(h, a)
  BY <1>1 DEF Used
<1>6. Ends(k) = Ends(h)
  BY <1>1 DEF Ends
<1> QED BY <1>4, <1>5, <1>6 DEF Steady

LEMMA MergedSteady ==
  ASSUME NEW h, NEW k, NEW b \in DOMAIN h, h[b].size # 0, NEW next \in DOMAIN h, b # next,
         next = NextOf(h, b), h[next].size # 0, IsMerged(h, k, b), DOMAIN k = DOMAIN h \ {next},
         k[b].size # 0, NextOf(k, b) = NextOf(h, next)
  PROVE  Steady(h, k, {})
<1>1. /\ \A a \in DOMAIN k : k[a].free = h[a].free
      /\ \A a \in DOMAIN k \ {b} : k[a].size = h[a].size /\ NextOf(k, a) = NextOf(h, a)
  BY DEF IsMerged, NextOf
<1>2. next \notin Starts(h)
  BY DEF Starts
<1>3. ASSUME NEW x \in DOMAIN k PROVE x \in Starts(k) <=> x \in Starts(h)
  <2>1. ASSUME x \in Starts(k) PROVE x \in Starts(h)
    <3> SUFFICES ASSUME NEW a \in DOMAIN h, h[a].size # 0, NextOf(h, a) = x PROVE FALSE
      BY DEF Starts
    <3>1. CASE a = b
      BY <3>1
    <3>2. CASE a = next
      BY <2>1, <3>2 DEF Starts
    <3>3. CASE a \in DOMAIN k \ {b}
      BY <1>1, <2>1, <3>3 DEF Starts
    <3> QED BY <3>1, <3>2, <3>3
  <2>2. ASSUME x \in Starts(h) PROVE x \in Starts(k)
    <3> SUFFICES ASSUME NEW a \in DOMAIN k, k[a].size # 0, NextOf(k, a) = x PROVE FALSE
      BY DEF Starts
    <3>1. CASE a = b
      BY <2>2, <3>1 DEF Starts
    <3>2. CASE a # b
      BY <1>1, <2>2, <3>2 DEF Starts
    <3> QED BY <3>1, <3>2
  <2> QED BY <2>1, <2>2
<1>4. Starts(k) = Starts(h)
  BY <1>2, <1>3 DEF Starts
<1>5. \A a \in DOMAIN k : Used(k, a) => Used(h, a)
  BY <1>1 DEF Used
<1>6. Ends(k) = Ends(h)
  BY <1>1 DEF Ends
<1> QED BY <1>4, <1>5, <1>6 DEF Steady

LEMMA SplitIntoSteady ==
  ASSUME NEW m, NEW ext, NEW E, NEW U, Between(m, ext, E, U), NEW b \in DOMAIN m.blk,
         NEW size \in Nat, size >= block_size_min, m.blk[b].size >= sizeof_block_header + size,
         NEW rest, rest = split_off(b, size),
         NEW n, NEW F, NEW V, SplitInto(m, n, ext, F, V, b, size, rest)
  PROVE  Steady(m.blk, n.blk, {})
<1> DEFINE h == m.blk
           k == n.blk
<1>1. rest \notin DOMAIN h /\ h[b].size # 0 /\ h[b].size \in Nat
  BY RestIsNew, BlockParts
<1>2. /\ IsSplit(h, k, b, size) /\ DOMAIN k = DOMAIN h \cup {rest}
      /\ NextOf(k, b) = rest /\ NextOf(k, rest) = NextOf(h, b)
  BY DEF SplitInto
<1>3. k[rest].size # 0 /\ size # 0
  <2>1. k[rest].size = h[b].size - (size + 1)
    BY <1>2 DEF IsSplit
  <2> QED BY <1>1, <2>1 DEF sizeof_block_header, block_size_min
<1> HIDE DEF h, k
<1>4. b \in DOMAIN h
  BY DEF h
<1>5. Steady(h, k, {})
  BY <1>1, <1>2, <1>3, <1>4, SplitSteady
<1> QED BY <1>5 DEF h, k

LEMMA MergedIntoSteady ==
  ASSUME NEW m, NEW ext, NEW E, NEW U, Between(m, ext, E, U), NEW b \in DOMAIN m.blk,
         m.blk[b].size # 0, NEW next \in DOMAIN m.blk, next = NextOf(m.blk, b), m.blk[next].free,
         NEW n, DOMAIN n.blk = DOMAIN m.blk \ {next}, IsMerged(m.blk, n.blk, b)
  PROVE  Steady(m.blk, n.blk, {})
<1> DEFINE h == m.blk
           k == n.blk
<1>1. /\ b \in Nat /\ h[b].size \in Nat /\ next = b + h[b].size + 1
      /\ h[next].size \in Nat /\ h[next].size # 0
      /\ NextOf(h, next) = next + h[next].size + 1
  BY BlockParts
<1>2. k[b].size = h[b].size + h[next].size + 1
  BY DEF IsMerged
<1>3. b # next /\ k[b].size # 0 /\ NextOf(k, b) = NextOf(h, next)
  <2>1. NextOf(k, b) = b + k[b].size + 1
    BY DEF NextOf
  <2> HIDE DEF k, h
  <2> QED BY <1>1, <1>2, <2>1
<1>4. /\ b \in DOMAIN h /\ h[b].size # 0 /\ next \in DOMAIN h /\ next = NextOf(h, b)
      /\ IsMerged(h, k, b) /\ DOMAIN k = DOMAIN h \ {next}
  OBVIOUS
<1> HIDE DEF h, k
<1>5. Steady(h, k, {})
  BY <1>1, <1>3, <1>4, MergedSteady
<1> QED BY <1>5 DEF h, k

(* The free block at b takes in the block after it, which is free and in no list. *)
LEMMA AbsorbingFree ==
  ASSUME NEW m, NEW ext, NEW E, NEW U, Between(m, ext, E, U), NEW b \in DOMAIN m.blk,
         m.blk[b].free, b \in U, NEW next \in DOMAIN m.blk, next = NextOf(m.blk, b),
         m.blk[next].free, next \in U,
         NEW G, \/ G = (E \ {next}) \cup {b}
                \/ G = E \ {b} /\ next \notin E
  PROVE  MergedInto(m, block_absorb(m, b, next), ext, G, U \ {next}, b, next)
<1> DEFINE D   == DOMAIN m.blk
           C   == DOMAIN ext
           n   == block_absorb(m, b, next)
           far == NextOf(m.blk, next)
<1>1. m \in Memory(D, C) /\ D \subseteq Nat \ {0} /\ m.blk \in Headers(D)
  BY Parts
<1>2. m.blk[b].size # 0 /\ m.blk[next].size # 0 /\ far \in D /\ m.blk[far].prev_free = TRUE
  BY BlockParts
<1>3. Linked(m.blk) /\ DOMAIN m.blk = D
  BY Parts
<1>4. b \in D /\ next \in D
  OBVIOUS
<1>20. next > b /\ far > next /\ b \in Nat /\ next \in Nat /\ far \in Nat
  BY <1>1, <1>2, <1>4, NextNumbers
<1>21. b # next /\ b # far /\ far # next
  BY <1>20
<1> HIDE DEF far, D
<1>5. AbsorbedInto(D, C, m, n, b, next, far)
  BY <1>1, <1>2, <1>4, Absorbing DEF far
<1> HIDE DEF n
<1>6. n \in Memory(D \ {next}, C) /\ n.tlsf = m.tlsf /\ n.abort = m.abort
  BY <1>5 DEF AbsorbedInto
<1>7. IsMerged(m.blk, n.blk, b)
  <2>1. \A a \in D \ {next} :
          /\ a # b => n.blk[a].size = m.blk[a].size
          /\ n.blk[a].free = m.blk[a].free
          /\ a # far => n.blk[a].prev_free = m.blk[a].prev_free /\ n.blk[a].prev_phys = m.blk[a].prev_phys
    <3> SUFFICES ASSUME NEW a \in D \ {next}
                 PROVE  /\ a # b => n.blk[a].size = m.blk[a].size
                        /\ n.blk[a].free = m.blk[a].free
                        /\ a # far => /\ n.blk[a].prev_free = m.blk[a].prev_free
                                      /\ n.blk[a].prev_phys = m.blk[a].prev_phys
      OBVIOUS
    <3>1. CASE a = b
      BY <1>5, <1>21, <3>1 DEF AbsorbedInto
    <3>2. CASE a = far
      BY <1>5, <1>21, <3>2 DEF AbsorbedInto
    <3>3. CASE a \in D \ {b, next, far}
      BY <1>5, <3>3 DEF AbsorbedInto
    <3> QED BY <3>1, <3>2, <3>3
  <2>2. /\ n.blk[b].size = m.blk[b].size + m.blk[next].size + 1
        /\ n.blk[far].prev_free = TRUE /\ n.blk[far].prev_phys = b
    BY <1>2, <1>5 DEF AbsorbedInto
  <2> QED BY <1>3, <2>1, <2>2 DEF IsMerged, far
<1>8. n \in Memory(DOMAIN m.blk \ {next}, DOMAIN ext)
  BY <1>6 DEF D
<1>9. MergedInto(m, n, ext, G, U \ {next}, b, next)
  BY <1>2, <1>6, <1>7, <1>8, MergedBetween
<1> QED BY <1>9 DEF n

(* The block after b, and whose it is. *)
LEMMA NextInControl ==
  ASSUME NEW m, NEW ext, NEW E, NEW U, Between(m, ext, E, U), NEW b \in DOMAIN m.blk,
         m.blk[b].size # 0, NEW c \in DOMAIN ext
  PROVE  /\ block_next(m, b) = NextOf(m.blk, b)
         /\ NextOf(m.blk, b) \in DOMAIN m.blk /\ NextOf(m.blk, b) # b
         /\ In(ext, c, b) <=> In(ext, c, NextOf(m.blk, b))
<1> DEFINE D == DOMAIN m.blk
           h == m.blk
           next == NextOf(h, b)
<1>1. /\ m \in Memory(D, DOMAIN ext) /\ h \in Headers(D) /\ D \subseteq Nat \ {0}
      /\ Layout(ext) /\ Placed(h, ext) /\ b \in D
  BY Parts
<1>2. next \in D /\ b \in Nat /\ next \in Nat /\ next > b
  BY <1>1, BlockParts, NextNumbers
<1>3. block_next(m, b) = next
  BY <1>1, BlockNext
<1>4. DOMAIN h = D
  OBVIOUS
<1> HIDE DEF h, D
<1>5. ASSUME NEW d \in DOMAIN ext, In(ext, d, b) PROVE In(ext, d, next)
  <2>1. b <= next /\ next <= NextOf(h, b) /\ h[b].size # 0
    BY <1>2 DEF h
  <2> HIDE DEF next
  <2> QED BY <1>1, <1>2, <1>5, <2>1, NextIsOwned
<1>6. PICK d \in DOMAIN ext : In(ext, d, b)
  BY <1>1, <1>4 DEF Placed
<1>7. In(ext, c, next) => In(ext, c, b)
  <2> HIDE DEF next
  <2> QED BY <1>1, <1>2, <1>5, <1>6, OneOwner
<1> QED BY <1>2, <1>3, <1>5, <1>7 DEF h, D

(* Blocks were merged: the one at s is free and in no list. *)
MergedFree(m, n, ext, E, s) ==
  /\ Between(n, ext, E, {s}) /\ n.abort = m.abort
  /\ s \in DOMAIN n.blk /\ n.blk[s].free /\ Intact(m.blk, n.blk, {}) /\ Steady(m.blk, n.blk, {})

LEMMA MergeNext ==
  ASSUME NEW m, NEW ext, NEW b \in DOMAIN m.blk, Between(m, ext, {b}, {b}), m.blk[b].free,
         NEW c \in DOMAIN ext, In(ext, c, b)
  PROVE  MergedFree(m, block_merge_next(m, c, b), ext, {}, b)
<1>0. m.blk[b].size # 0
  BY BlockParts
<1>1. PICK next \in DOMAIN m.blk : next = NextOf(m.blk, b)
  BY <1>0, BlockParts
<1>2. block_next(m, b) = next /\ In(ext, c, next) /\ next # b
  BY <1>0, <1>1, NextInControl
<1>3. CASE ~m.blk[next].free
  <2>1. block_merge_next(m, c, b) = m
    BY <1>2, <1>3 DEF block_merge_next
  <2>2. FreeApart(m.blk, {})
    BY <1>1, <1>3 DEF Between, FreeApart
  <2>3. Between(m, ext, {}, {b})
    BY <2>2 DEF Between
  <2> QED BY <2>1, <2>3, SteadyAlone DEF MergedFree, Intact
<1>4. CASE m.blk[next].free
  <2> DEFINE m1 == block_remove(m, c, next)
             n  == block_absorb(m1, b, next)
  <2>1. block_merge_next(m, c, b) = n
    BY <1>2, <1>4 DEF block_merge_next
  <2>2. Relisted(m, m1, ext, {b}, {b} \cup {next})
    BY <1>2, <1>4, BlockRemoveLists
  <2> HIDE DEF m1
  <2>3. Between(m1, ext, {b}, {b, next}) /\ m1.blk = m.blk /\ m1.abort = m.abort
    <3>1. {b} \cup {next} = {b, next}
      OBVIOUS
    <3> QED BY <2>2, <3>1 DEF Relisted
  <2>4. MergedInto(m1, n, ext, {b} \ {b}, {b, next} \ {next}, b, next)
    <3>1. b \in DOMAIN m1.blk /\ m1.blk[b].free /\ next \in DOMAIN m1.blk
          /\ next = NextOf(m1.blk, b) /\ m1.blk[next].free /\ next \notin {b}
          /\ b \in {b, next} /\ next \in {b, next}
      BY <1>1, <1>2, <1>4, <2>3
    <3> QED BY <2>3, <3>1, AbsorbingFree
  <2>5. {b} \ {b} = {} /\ {b, next} \ {next} = {b}
    BY <1>2
  <2> HIDE DEF n
  <2>6. /\ Between(n, ext, {}, {b}) /\ n.abort = m.abort /\ b \in DOMAIN n.blk
        /\ DOMAIN n.blk = DOMAIN m.blk \ {next} /\ IsMerged(m.blk, n.blk, b)
    BY <2>3, <2>4, <2>5 DEF MergedInto
  <2>7. n.blk[b].free
    BY <1>1, <1>2, <2>6 DEF IsMerged
  <2>8. Intact(m.blk, n.blk, {})
    BY <1>1, <1>4, <2>6 DEF IsMerged, Intact, Used
  <2>9. Steady(m.blk, n.blk, {})
    BY <1>0, <1>1, <1>4, <2>6, MergedIntoSteady
  <2> QED BY <2>1, <2>6, <2>7, <2>8, <2>9 DEF MergedFree
<1> QED BY <1>3, <1>4

LEMMA MergePrev ==
  ASSUME NEW m, NEW ext, NEW b \in DOMAIN m.blk, NEW s, s = merged_start(m, b),
         Between(m, ext, {b, s}, {b}), m.blk[b].free, NEW c \in DOMAIN ext, In(ext, c, b)
  PROVE  MergedFree(m, block_merge_prev(m, c, b), ext, {s}, s) /\ In(ext, c, s)
<1>1. CASE ~m.blk[b].prev_free
  <2>1. s = b /\ block_merge_prev(m, c, b) = m /\ {b, s} = {s}
    BY <1>1 DEF merged_start, block_merge_prev
  <2> QED BY <2>1, SteadyAlone DEF MergedFree, Intact
<1>2. CASE m.blk[b].prev_free
  <2>1. /\ s \in DOMAIN m.blk /\ m.blk[s].size # 0 /\ NextOf(m.blk, s) = b
        /\ m.blk[s].free = TRUE
    <3>1. s = m.blk[b].prev_phys
      BY <1>2 DEF merged_start
    <3>2. s \in DOMAIN m.blk /\ m.blk[s].size # 0 /\ NextOf(m.blk, s) = b
      BY <1>2, <3>1 DEF Between, Linked
    <3>3. m.blk[b].prev_free = m.blk[s].free
      BY <3>2 DEF Between, Linked
    <3>4. m.blk[b].prev_free \in BOOLEAN
      BY BlockParts DEF HeaderType
    <3> QED BY <1>2, <3>2, <3>3, <3>4
  <2>2. In(ext, c, s) /\ s # b
    BY <2>1, NextInControl
  <2> DEFINE m0 == tlsf_assert(m, m.blk[s].free)
             m1 == block_remove(m0, c, s)
             n  == block_absorb(m1, s, b)
  <2>3. block_merge_prev(m, c, b) = n
    BY <2>2 DEF block_merge_prev
  <2>4. Relisted(m, m0, ext, {b, s}, {b})
    BY <2>1, AssertedBetween
  <2> HIDE DEF m0
  <2>5. Between(m0, ext, {b, s}, {b}) /\ m0.blk = m.blk /\ m0.abort = m.abort
    BY <2>4 DEF Relisted
  <2>6. Relisted(m0, m1, ext, {b, s}, {b} \cup {s})
    <3>1. s \in DOMAIN m0.blk /\ m0.blk[s].free /\ s \notin {b}
      BY <2>1, <2>2, <2>5
    <3> QED BY <2>2, <2>5, <3>1, BlockRemoveLists
  <2> HIDE DEF m1
  <2>7. Between(m1, ext, {b, s}, {b, s}) /\ m1.blk = m.blk /\ m1.abort = m.abort
    <3>1. {b} \cup {s} = {b, s}
      OBVIOUS
    <3> QED BY <2>5, <2>6, <3>1 DEF Relisted
  <2>8. MergedInto(m1, n, ext, ({b, s} \ {b}) \cup {s}, {b, s} \ {b}, s, b)
    <3>1. s \in DOMAIN m1.blk /\ m1.blk[s].free /\ b \in DOMAIN m1.blk
          /\ b = NextOf(m1.blk, s) /\ m1.blk[b].free /\ b \in {b, s} /\ s \in {b, s}
      BY <2>1, <2>2, <2>7
    <3> QED BY <2>7, <3>1, AbsorbingFree
  <2>9. {b, s} \ {b} = {s} /\ {s} \cup {s} = {s}
    BY <2>2
  <2> HIDE DEF n
  <2>10. /\ Between(n, ext, {s}, {s}) /\ n.abort = m.abort /\ s \in DOMAIN n.blk
         /\ DOMAIN n.blk = DOMAIN m.blk \ {b} /\ IsMerged(m.blk, n.blk, s)
    BY <2>7, <2>8, <2>9 DEF MergedInto
  <2>11. n.blk[s].free
    BY <2>1, <2>2, <2>10 DEF IsMerged
  <2>12. Intact(m.blk, n.blk, {})
    BY <2>1, <2>10 DEF IsMerged, Intact, Used
  <2>13. Steady(m.blk, n.blk, {})
    BY <2>1, <2>10, MergedIntoSteady
  <2> QED BY <2>2, <2>3, <2>10, <2>11, <2>12, <2>13 DEF MergedFree
<1> QED BY <1>1, <1>2

(* A used block is given back: block_mark_as_free, the merges, and the lists. *)
FreedBlock(m, n, ext, b) ==
  /\ Between(n, ext, {}, {}) /\ n.abort = m.abort
  /\ Intact(m.blk, n.blk, {b}) /\ Steady(m.blk, n.blk, {}) /\ ~Used(n.blk, b)

LEMMA FreeUsed ==
  ASSUME NEW m, NEW ext, Between(m, ext, {}, {}), ~m.abort, NEW c \in DOMAIN ext,
         NEW b, Used(m.blk, b), In(ext, c, b)
  PROVE  FreedBlock(m, tlsf_free(m, c, block_to_ptr(b)), ext, b)
<1> DEFINE m1 == tlsf_assert(m, ~m.blk[b].free /\ m.blk[b].size # 0)
           m2 == block_mark_as_free(m1, b)
           s  == merged_start(m2, b)
           m3 == block_merge_prev(m2, c, b)
           m4 == block_merge_next(m3, c, s)
           n  == block_insert(m4, c, s)
<1>1. b \in DOMAIN m.blk /\ ~m.blk[b].free /\ m.blk[b].size # 0
  BY DEF Used
<1>2. b \in Nat \ {0}
  BY <1>1, BlockParts
<1>3. Relisted(m, m1, ext, {}, {})
  BY <1>1, AssertedBetween
<1>4. tlsf_free(m, c, block_to_ptr(b)) = n
  <2>1. block_to_ptr(b) # NO_BLOCK /\ block_from_ptr(block_to_ptr(b)) = b
    BY <1>2 DEF block_to_ptr, block_from_ptr, block_start_offset, NO_BLOCK
  <2>2. ~m1.abort
    BY <1>3 DEF Relisted
  <2> QED BY <2>1, <2>2 DEF tlsf_free
<1> HIDE DEF m1
<1>5. Between(m1, ext, {}, {}) /\ m1.blk = m.blk /\ m1.abort = m.abort
  BY <1>3 DEF Relisted
<1>6. Remarked(m1, m2, ext, {b, merged_start(m1, b)}, {b}, b, TRUE)
  <2>1. b \in DOMAIN m1.blk /\ ~m1.blk[b].free /\ m1.blk[b].size # 0
    BY <1>1, <1>5
  <2> QED BY <1>5, <2>1, MarkedFree
<1> HIDE DEF m2
<1>7. /\ Between(m2, ext, {b, merged_start(m1, b)}, {b}) /\ m2.abort = m.abort
      /\ DOMAIN m2.blk = DOMAIN m.blk /\ IsMarked(m.blk, m2.blk, b, TRUE)
  BY <1>5, <1>6 DEF Remarked
<1>8. merged_start(m1, b) = s
  <2>1. b # NextOf(m.blk, b)
    BY <1>1, NextInControl
  <2>2. m2.blk[b].prev_free = m.blk[b].prev_free /\ m2.blk[b].prev_phys = m.blk[b].prev_phys
    BY <1>1, <1>7, <2>1 DEF IsMarked
  <2> QED BY <1>5, <2>2 DEF merged_start
<1>9. Intact(m.blk, m2.blk, {b}) /\ Steady(m.blk, m2.blk, {})
  BY <1>1, <1>7, MarkedSteady DEF IsMarked, Intact, Used
<1>10. MergedFree(m2, m3, ext, {s}, s) /\ In(ext, c, s)
  <2>1. b \in DOMAIN m2.blk /\ m2.blk[b].free /\ Between(m2, ext, {b, s}, {b})
    BY <1>1, <1>7, <1>8 DEF IsMarked
  <2> QED BY <2>1, MergePrev
<1> HIDE DEF s, m3
<1>11. /\ Between(m3, ext, {s}, {s}) /\ m3.abort = m2.abort
       /\ s \in DOMAIN m3.blk /\ m3.blk[s].free /\ Intact(m2.blk, m3.blk, {})
       /\ Steady(m2.blk, m3.blk, {})
  BY <1>10 DEF MergedFree
<1>12. MergedFree(m3, m4, ext, {}, s)
  BY <1>10, <1>11, MergeNext
<1> HIDE DEF m4
<1>13. /\ Between(m4, ext, {}, {s}) /\ m4.abort = m3.abort
       /\ s \in DOMAIN m4.blk /\ m4.blk[s].free /\ Intact(m3.blk, m4.blk, {})
       /\ Steady(m3.blk, m4.blk, {})
  BY <1>12 DEF MergedFree
<1>14. Relisted(m4, n, ext, {}, {s} \ {s})
  BY <1>10, <1>13, InsertLists
<1> HIDE DEF n
<1>15. Between(n, ext, {}, {}) /\ n.blk = m4.blk /\ n.abort = m.abort
  <2>1. {s} \ {s} = {}
    OBVIOUS
  <2> QED BY <1>7, <1>11, <1>13, <1>14, <2>1 DEF Relisted
<1>16. Intact(m.blk, n.blk, {b})
  <2>1. Intact(m.blk, m3.blk, {b} \cup {})
    BY <1>9, <1>11, IntactTransitive
  <2>2. Intact(m.blk, m4.blk, ({b} \cup {}) \cup {})
    BY <1>13, <2>1, IntactTransitive
  <2>3. ({b} \cup {}) \cup {} = {b}
    OBVIOUS
  <2> QED BY <1>15, <2>2, <2>3
<1>17. Steady(m.blk, n.blk, {})
  <2>1. Steady(m.blk, m3.blk, {} \cup {})
    BY <1>9, <1>11, SteadyTransitive
  <2>2. Steady(m.blk, m4.blk, ({} \cup {}) \cup {})
    BY <1>13, <2>1, SteadyTransitive
  <2>3. ({} \cup {}) \cup {} = {}
    OBVIOUS
  <2> QED BY <1>15, <2>2, <2>3
<1>18. ~Used(n.blk, b)
  <2>1. ~Used(m2.blk, b)
    BY <1>7 DEF IsMarked, Used
  <2> QED BY <1>11, <1>13, <1>15, <2>1 DEF Steady, Used
<1> QED BY <1>4, <1>15, <1>16, <1>17, <1>18 DEF FreedBlock

-----------------------------------------------------------------------------
(* Cutting a block *)

(* The free block at b is cut; both orders of telling rest about b occur.    *)
LEMMA SplittingFree ==
  ASSUME NEW m, NEW ext, NEW E, NEW U, Between(m, ext, E, U), NEW b \in DOMAIN m.blk,
         m.blk[b].free, b \in U, b \notin E,
         NEW size \in Nat, size >= block_size_min, m.blk[b].size >= sizeof_block_header + size,
         NEW rest, rest = split_off(b, size),
         NEW n, \/ n = block_set_prev_free(block_link_next(block_split(m, b, size), b), rest)
                \/ n = block_link_next(block_set_prev_free(block_split(m, b, size), rest), b)
  PROVE  SplitInto(m, n, ext, E \cup {b}, U \cup {rest}, b, size, rest)
<1> DEFINE D    == DOMAIN m.blk
           C    == DOMAIN ext
           next == NextOf(m.blk, b)
           F    == D \cup {rest}
           m1   == block_split(m, b, size)
<1>1. m \in Memory(D, C) /\ D \subseteq Nat \ {0} /\ m.blk \in Headers(D) /\ b \in D
  BY Parts
<1>2. /\ rest \in Nat \ {0} /\ rest \notin D /\ rest # b /\ rest = b + size + 1
      /\ next \in D /\ next # b /\ b \in Nat
  BY <1>1, RestIsNew
<1>20. size # 0 /\ next # rest
  BY <1>2 DEF block_size_min
<1> HIDE DEF D, next
<1>3. CutAt(D, C, m, m1, b, size, rest, next)
  BY <1>1, <1>2, Splitting DEF next
<1> HIDE DEF m1
<1>4. m1 \in Memory(F, C) /\ F \subseteq Nat \ {0} /\ b \in F /\ rest \in F /\ m1.blk[b].size = size
      /\ next \in F
  BY <1>1, <1>2, <1>3 DEF CutAt
<1>40. F = D \cup {rest}
  OBVIOUS
<1> HIDE DEF F
<1>5. rest = NextOf(m1.blk, b) /\ DOMAIN m1.blk = F
  BY <1>2, <1>4, MemoryHeaders DEF NextOf
<1> DEFINE Told == /\ n \in Memory(F, C) /\ n.tlsf = m1.tlsf /\ n.abort = m1.abort
                   /\ \A a \in F \ {rest} : n.blk[a] = m1.blk[a]
                   /\ n.blk[rest].size = m1.blk[rest].size /\ n.blk[rest].free = m1.blk[rest].free
                   /\ n.blk[rest].prev_free = TRUE /\ n.blk[rest].prev_phys = b
<1>6. ASSUME n = block_set_prev_free(block_link_next(m1, b), rest) PROVE Told
  <2> DEFINE m2 == block_link_next(m1, b)
  <2>1. Changed(F, C, m1, m2, rest, m1.blk[rest].size, m1.blk[rest].free, m1.blk[rest].prev_free, b)
    BY <1>4, <1>5, <1>20, LinkingNext
  <2>2. n = block_set_prev_free(m2, rest)
    BY <1>6
  <2> HIDE DEF m2
  <2>3. m2 \in Memory(F, C) /\ DOMAIN m2.blk = F
    BY <2>1, MemoryHeaders DEF Changed
  <2>4. Changed(F, C, m2, n, rest, m2.blk[rest].size, m2.blk[rest].free, TRUE, m2.blk[rest].prev_phys)
    BY <1>4, <2>2, <2>3, SetPrevFree
  <2> QED BY <1>5, <2>1, <2>3, <2>4 DEF Changed
<1>7. ASSUME n = block_link_next(block_set_prev_free(m1, rest), b) PROVE Told
  <2> DEFINE m2 == block_set_prev_free(m1, rest)
  <2>1. Changed(F, C, m1, m2, rest, m1.blk[rest].size, m1.blk[rest].free, TRUE, m1.blk[rest].prev_phys)
    BY <1>4, SetPrevFree
  <2>2. n = block_link_next(m2, b)
    BY <1>7
  <2> HIDE DEF m2
  <2>3. m2 \in Memory(F, C) /\ DOMAIN m2.blk = F
    BY <2>1, MemoryHeaders DEF Changed
  <2>30. m2.blk[b].size = size /\ rest = NextOf(m2.blk, b)
    <3>1. m2.blk[b] = m1.blk[b]
      BY <1>2, <1>4, <1>5, <2>1 DEF Changed
    <3> QED BY <3>1, <1>4, <1>5 DEF NextOf
  <2>4. Changed(F, C, m2, n, rest, m2.blk[rest].size, m2.blk[rest].free, m2.blk[rest].prev_free, b)
    BY <1>4, <1>20, <2>2, <2>3, <2>30, LinkingNext
  <2> QED BY <1>5, <2>1, <2>3, <2>4 DEF Changed
<1>8. Told
  BY <1>6, <1>7 DEF m1
<1>9. IsSplit(m.blk, n.blk, b, size)
  <2>1. /\ \A a \in D : /\ a # b => n.blk[a].size = m.blk[a].size
                        /\ n.blk[a].free = m.blk[a].free
                        /\ a # next => n.blk[a].prev_free = m.blk[a].prev_free
                                       /\ n.blk[a].prev_phys = m.blk[a].prev_phys
    <3> SUFFICES ASSUME NEW a \in D
                 PROVE  /\ a # b => n.blk[a].size = m.blk[a].size
                        /\ n.blk[a].free = m.blk[a].free
                        /\ a # next => n.blk[a].prev_free = m.blk[a].prev_free
                                       /\ n.blk[a].prev_phys = m.blk[a].prev_phys
      OBVIOUS
    <3>1. n.blk[a] = m1.blk[a]
      BY <1>2, <1>8, <1>40
    <3>2. CASE a = b
      BY <3>1, <3>2, <1>3 DEF CutAt
    <3>3. CASE a = next
      BY <3>1, <3>3, <1>3 DEF CutAt
    <3>4. CASE a # b /\ a # next
      BY <3>1, <3>4, <1>3 DEF CutAt
    <3> QED BY <3>2, <3>3, <3>4
  <2>2. n.blk[b].size = size /\ n.blk[next].prev_free = TRUE /\ n.blk[next].prev_phys = rest
    BY <1>2, <1>20, <1>3, <1>4, <1>8 DEF CutAt
  <2>3. /\ n.blk[rest].size = m.blk[b].size - (size + 1) /\ n.blk[rest].free = TRUE
        /\ n.blk[rest].prev_free = TRUE /\ n.blk[rest].prev_phys = b
    BY <1>3, <1>8 DEF CutAt
  <2>4. m.blk[b].free = TRUE
    BY BlockParts DEF HeaderType
  <2> QED BY <2>1, <2>2, <2>3, <2>4 DEF IsSplit, next, D
<1>10. n \in Memory(DOMAIN m.blk \cup {rest}, DOMAIN ext) /\ n.tlsf = m.tlsf /\ n.abort = m.abort
  BY <1>3, <1>8, <1>40 DEF CutAt, D
<1> QED BY <1>9, <1>10, SplitBetween

(* What a cut leaves as it was. *)
LEMMA SplitIntact ==
  ASSUME NEW h, NEW k, NEW b \in DOMAIN h, NEW size, IsSplit(h, k, b, size),
         NEW rest, DOMAIN k = DOMAIN h \cup {rest}, size # 0
  PROVE  /\ Intact(h, k, {b}) /\ (h[b].free => Intact(h, k, {}))
         /\ (~h[b].free => Used(k, b) /\ k[b].size = size)
BY DEF IsSplit, Intact, Used

(* Where the second part of a block lies. *)
LEMMA RestInControl ==
  ASSUME NEW m, NEW ext, NEW E, NEW U, Between(m, ext, E, U), NEW b \in DOMAIN m.blk,
         NEW size \in Nat, size >= block_size_min, m.blk[b].size >= sizeof_block_header + size,
         NEW rest, rest = split_off(b, size), NEW c \in DOMAIN ext, In(ext, c, b)
  PROVE  In(ext, c, rest)
<1> DEFINE D == DOMAIN m.blk
           h == m.blk
<1>1. /\ rest \in Nat /\ b <= rest /\ rest <= NextOf(h, b) /\ h[b].size # 0
  BY RestIsNew
<1>2. h \in Headers(D) /\ D \subseteq Nat \ {0} /\ Layout(ext) /\ Placed(h, ext) /\ b \in D
  BY Parts
<1> HIDE DEF h, D
<1> QED BY <1>1, <1>2, NextIsOwned

(* Headers h become k: but for b, every block is there as it was, and what b *)
(* had beyond the size and a header is a free block.                         *)
Cut(h, k, b, size) ==
  /\ \A a \in DOMAIN h \ {b} : a \in DOMAIN k /\ k[a].size = h[a].size /\ k[a].free = h[a].free
  /\ h[b].size >= sizeof_block_header + size =>
       LET rest == split_off(b, size)
       IN  /\ rest \in DOMAIN k /\ rest # b
           /\ k[rest].free = TRUE /\ k[rest].size = h[b].size - (size + 1)

(* The end of the free block at b, if it is cut off, goes to the lists. *)
TrimmedFree(m, n, ext, E, b, size) ==
  /\ Between(n, ext, E \cup {b}, {b}) /\ n.abort = m.abort /\ Cut(m.blk, n.blk, b, size)
  /\ b \in DOMAIN n.blk /\ n.blk[b].free /\ n.blk[b].size >= size
  /\ Intact(m.blk, n.blk, {}) /\ Steady(m.blk, n.blk, {})
  /\ \A a \in DOMAIN m.blk \ {b} : a \in DOMAIN n.blk /\ NextOf(n.blk, a) = NextOf(m.blk, a)

LEMMA TrimFree ==
  ASSUME NEW m, NEW ext, NEW E, NEW b \in DOMAIN m.blk, Between(m, ext, E, {b}),
         m.blk[b].free, b \notin E, NEW c \in DOMAIN ext, In(ext, c, b),
         NEW size \in Nat, size >= block_size_min, m.blk[b].size >= size
  PROVE  TrimmedFree(m, block_trim_free(m, c, b, size), ext, E, b, size)
<1> DEFINE m1 == tlsf_assert(m, m.blk[b].free)
           rest == split_off(b, size)
<1>1. m.blk[b].free = TRUE
  BY BlockParts DEF HeaderType
<1>2. Relisted(m, m1, ext, E, {b})
  BY <1>1, AssertedBetween
<1>3. CASE ~block_can_split(m, b, size)
  <2>1. block_trim_free(m, c, b, size) = m1
    BY <1>3 DEF block_trim_free
  <2> HIDE DEF m1
  <2>2. Between(m1, ext, E, {b}) /\ m1.blk = m.blk /\ m1.abort = m.abort
    BY <1>2 DEF Relisted
  <2>3. Between(m1, ext, E \cup {b}, {b})
    BY <2>2, Wider
  <2>4. Cut(m.blk, m1.blk, b, size)
    BY <1>3, <2>2 DEF Cut, block_can_split
  <2> QED BY <2>1, <2>2, <2>3, <2>4, SteadyAlone DEF TrimmedFree, Intact
<1>4. CASE block_can_split(m, b, size)
  <2> DEFINE m2 == block_set_prev_free(block_link_next(block_split(m1, b, size), b), rest)
             n  == block_insert(m2, c, rest)
  <2>1. block_trim_free(m, c, b, size) = n
    BY <1>4 DEF block_trim_free
  <2> HIDE DEF m1
  <2>2. Between(m1, ext, E, {b}) /\ m1.blk = m.blk /\ m1.abort = m.abort
    BY <1>2 DEF Relisted
  <2>3. /\ b \in DOMAIN m1.blk /\ m1.blk[b].free /\ b \in {b}
        /\ m1.blk[b].size >= sizeof_block_header + size
    BY <1>4, <2>2 DEF block_can_split
  <2>4. SplitInto(m1, m2, ext, E \cup {b}, {b} \cup {rest}, b, size, rest)
    BY <2>2, <2>3, SplittingFree
  <2>5. In(ext, c, rest) /\ rest # b
    BY <2>2, <2>3, RestInControl, RestIsNew
  <2>50. Steady(m.blk, m2.blk, {})
    BY <2>2, <2>3, <2>4, SplitIntoSteady
  <2> HIDE DEF m2, rest
  <2>6. /\ Between(m2, ext, E \cup {b}, {b} \cup {rest}) /\ m2.abort = m.abort
        /\ DOMAIN m2.blk = DOMAIN m.blk \cup {rest} /\ IsSplit(m.blk, m2.blk, b, size)
        /\ \A a \in DOMAIN m.blk \ {b} : NextOf(m2.blk, a) = NextOf(m.blk, a)
    BY <2>2, <2>4 DEF SplitInto
  <2>7. rest \in DOMAIN m2.blk /\ m2.blk[rest].free
        /\ m2.blk[b].size = size /\ m2.blk[b].free = m.blk[b].free
    BY <2>6 DEF IsSplit, rest
  <2>8. Relisted(m2, n, ext, E \cup {b}, ({b} \cup {rest}) \ {rest})
    BY <2>5, <2>6, <2>7, InsertLists
  <2> HIDE DEF n
  <2>9. Between(n, ext, E \cup {b}, {b}) /\ n.blk = m2.blk /\ n.abort = m.abort
    <3>1. ({b} \cup {rest}) \ {rest} = {b}
      BY <2>5
    <3> QED BY <2>6, <2>8, <3>1 DEF Relisted
  <2>10. Intact(m.blk, m2.blk, {})
    <3>1. size # 0
      BY DEF block_size_min
    <3> QED BY <2>6, <3>1, SplitIntact
  <2>11. b \in DOMAIN n.blk /\ n.blk[b].free /\ n.blk[b].size >= size
    <3>1. b \in DOMAIN m2.blk
      BY <2>6
    <3>2. m2.blk[b].free = TRUE /\ m2.blk[b].size = size
      BY <1>1, <2>7
    <3> QED BY <2>9, <3>1, <3>2
  <2>12. \A a \in DOMAIN m.blk \ {b} : a \in DOMAIN n.blk /\ NextOf(n.blk, a) = NextOf(m.blk, a)
    BY <2>6, <2>9
  <2>13. Intact(m.blk, n.blk, {}) /\ Steady(m.blk, n.blk, {})
    BY <2>9, <2>10, <2>50
  <2>14. Cut(m.blk, n.blk, b, size)
    BY <2>5, <2>6, <2>9 DEF Cut, IsSplit, rest
  <2> QED BY <2>1, <2>9, <2>11, <2>12, <2>13, <2>14 DEF TrimmedFree
<1> QED BY <1>3, <1>4

(* The start of the free block at b, which is too long by gap, goes to the lists. *)
TrimmedLeading(m, n, ext, c, b, rest, gap) ==
  /\ Between(n, ext, {b}, {rest}) /\ n.abort = m.abort
  /\ rest \in DOMAIN n.blk /\ n.blk[rest].free /\ n.blk[rest].size = m.blk[b].size - gap
  /\ rest = b + gap /\ b \in DOMAIN n.blk /\ b # rest /\ NextOf(n.blk, b) = rest
  /\ In(ext, c, rest) /\ rest \notin DOMAIN m.blk
  /\ Intact(m.blk, n.blk, {}) /\ Steady(m.blk, n.blk, {})

LEMMA TrimLeading ==
  ASSUME NEW m, NEW ext, NEW b \in DOMAIN m.blk, Between(m, ext, {}, {b}),
         m.blk[b].free, NEW c \in DOMAIN ext, In(ext, c, b),
         NEW gap \in Nat, gap >= sizeof_block_header, m.blk[b].size >= sizeof_block_header + gap
  PROVE  TrimmedLeading(m, block_trim_free_leading(m, c, b, gap), ext, c, b,
                        trimmed_start(m, b, gap), gap)
<1> DEFINE size == gap - block_header_overhead
           rest == split_off(b, size)
           m2   == block_link_next(block_set_prev_free(block_split(m, b, size), rest), b)
           n    == block_insert(m2, c, rest)
           l    == block_insert(m2, c, b)
<1>1. /\ size \in Nat /\ size >= block_size_min /\ m.blk[b].size >= sizeof_block_header + size
      /\ size = gap - 1
  <2>1. m.blk[b].size \in Nat
    BY BlockParts
  <2> QED BY <2>1 DEF block_header_overhead, sizeof_block_header, block_size_min
<1>2. trimmed_start(m, b, gap) = rest
  BY DEF trimmed_start, block_can_split
<1>3. rest # b /\ rest = b + gap /\ In(ext, c, rest) /\ rest \notin DOMAIN m.blk
  <2>1. rest # b /\ rest = b + size + 1 /\ In(ext, c, rest) /\ rest \notin DOMAIN m.blk
    BY <1>1, RestIsNew, RestInControl
  <2>2. b \in Nat
    BY BlockParts
  <2> QED BY <1>1, <2>1, <2>2
<1>4. block_trim_free_leading(m, c, b, gap) = l
  BY <1>2, <1>3 DEF block_trim_free_leading
<1> HIDE DEF size
<1>5. SplitInto(m, m2, ext, {} \cup {b}, {b} \cup {rest}, b, size, rest)
  <2>1. b \in {b} /\ b \notin {}
    OBVIOUS
  <2> QED BY <1>1, <2>1, SplittingFree
<1>50. Steady(m.blk, m2.blk, {})
  BY <1>1, <1>5, SplitIntoSteady
<1> HIDE DEF m2, rest
<1>6. /\ Between(m2, ext, {b}, {b, rest}) /\ m2.abort = m.abort
      /\ DOMAIN m2.blk = DOMAIN m.blk \cup {rest} /\ IsSplit(m.blk, m2.blk, b, size)
      /\ NextOf(m2.blk, b) = rest
  <2>1. {} \cup {b} = {b} /\ {b} \cup {rest} = {b, rest}
    OBVIOUS
  <2> QED BY <1>5, <2>1 DEF SplitInto
<1>7. /\ rest \in DOMAIN m2.blk /\ b \in DOMAIN m2.blk /\ m2.blk[rest].free
      /\ m2.blk[rest].size = m.blk[b].size - (size + 1) /\ m2.blk[b].free = m.blk[b].free
  BY <1>6 DEF IsSplit, rest
<1>8. Relisted(m2, l, ext, {b}, {b, rest} \ {b})
  <2>1. m2.blk[b].free /\ b \in {b, rest}
    BY <1>7
  <2> QED BY <1>6, <1>7, <2>1, InsertLists
<1> HIDE DEF l
<1>9. Between(l, ext, {b}, {rest}) /\ l.blk = m2.blk /\ l.abort = m.abort
  <2>1. {b, rest} \ {b} = {rest}
    BY <1>3
  <2> QED BY <1>6, <1>8, <2>1 DEF Relisted
<1>10. Intact(m.blk, m2.blk, {})
  <2>1. size # 0
    BY <1>1 DEF block_size_min
  <2> QED BY <1>6, <2>1, SplitIntact
<1>11. m2.blk[rest].size = m.blk[b].size - gap
  <2>1. m.blk[b].size \in Nat
    BY BlockParts
  <2> QED BY <1>1, <1>7, <2>1
<1> QED BY <1>2, <1>3, <1>4, <1>50, <1>6, <1>7, <1>9, <1>10, <1>11 DEF TrimmedLeading

(* The end of the used block at b, if it is cut off, goes to the lists. *)
TrimmedUsed(m, n, ext, b, size) ==
  /\ Between(n, ext, {}, {}) /\ n.abort = m.abort
  /\ Used(n.blk, b) /\ n.blk[b].size >= size
  /\ Intact(m.blk, n.blk, {b}) /\ Steady(m.blk, n.blk, {})

LEMMA TrimUsed ==
  ASSUME NEW m, NEW ext, Between(m, ext, {}, {}), NEW b, Used(m.blk, b),
         NEW c \in DOMAIN ext, In(ext, c, b),
         NEW size \in Nat, size >= block_size_min, m.blk[b].size >= size
  PROVE  TrimmedUsed(m, block_trim_used(m, c, b, size), ext, b, size)
<1> DEFINE m1   == tlsf_assert(m, ~m.blk[b].free)
           rest == split_off(b, size)
<1>1. b \in DOMAIN m.blk /\ ~m.blk[b].free /\ m.blk[b].size # 0
  BY DEF Used
<1>2. Relisted(m, m1, ext, {}, {})
  BY <1>1, AssertedBetween
<1>3. CASE ~block_can_split(m, b, size)
  <2>1. block_trim_used(m, c, b, size) = m1
    BY <1>3 DEF block_trim_used
  <2> HIDE DEF m1
  <2> QED BY <1>2, <2>1, SteadyAlone DEF TrimmedUsed, Intact, Relisted
<1>4. CASE block_can_split(m, b, size)
  <2> DEFINE m2 == block_split(m1, b, size)
             m3 == block_set_prev_used(m2, rest)
             m4 == block_merge_next(m3, c, rest)
             n  == block_insert(m4, c, rest)
             D  == DOMAIN m.blk
             F  == D \cup {rest}
             C  == DOMAIN ext
             next == NextOf(m.blk, b)
  <2>1. block_trim_used(m, c, b, size) = n
    BY <1>4 DEF block_trim_used
  <2> HIDE DEF m1
  <2>2. Between(m1, ext, {}, {}) /\ m1.blk = m.blk /\ m1.abort = m.abort
    BY <1>2 DEF Relisted
  <2>3. b \in DOMAIN m1.blk /\ m1.blk[b].size >= sizeof_block_header + size
    BY <1>1, <1>4, <2>2 DEF block_can_split
  <2>4. /\ rest \in Nat \ {0} /\ rest \notin D /\ rest # b
        /\ next \in D /\ next # b /\ next # rest
    BY <2>2, <2>3, RestIsNew
  <2>40. m1 \in Memory(D, C) /\ D \subseteq Nat \ {0}
    BY <2>2, Parts
  <2>5. CutAt(D, C, m1, m2, b, size, rest, next)
    <3>1. b \in D /\ next = NextOf(m1.blk, b)
      BY <1>1, <2>2
    <3> HIDE DEF next, D
    <3> QED BY <2>3, <2>4, <2>40, <3>1, Splitting
  <2>41. b \in D
    BY <1>1
  <2> HIDE DEF m2, next, D
  <2>6. m2 \in Memory(F, C) /\ rest \in F /\ m2.tlsf = m1.tlsf
    BY <2>5 DEF CutAt
  <2>7. Changed(F, C, m2, m3, rest, m2.blk[rest].size, m2.blk[rest].free, FALSE, NO_BLOCK)
    <3> HIDE DEF F, rest
    <3> QED BY <2>6, SetPrevUsed
  <2> HIDE DEF m3
  <2>8. /\ m3 \in Memory(F, C) /\ m3.tlsf = m1.tlsf /\ m3.abort = m1.abort
        /\ \A a \in D : m3.blk[a] = m2.blk[a]
    <3>1. DOMAIN m2.blk = F
      BY <2>6, MemoryHeaders
    <3> QED BY <2>4, <2>5, <2>7, <3>1 DEF Changed, CutAt
  <2>9. IsSplit(m1.blk, m3.blk, b, size)
    <3>1. /\ \A a \in D : /\ a # b => m3.blk[a].size = m1.blk[a].size
                          /\ m3.blk[a].free = m1.blk[a].free
                          /\ a # next => m3.blk[a].prev_free = m1.blk[a].prev_free
                                         /\ m3.blk[a].prev_phys = m1.blk[a].prev_phys
      BY <2>4, <2>5, <2>8 DEF CutAt
    <3>2. m3.blk[b].size = size /\ m3.blk[next].prev_free = TRUE /\ m3.blk[next].prev_phys = rest
      BY <2>4, <2>5, <2>8, <2>41 DEF CutAt
    <3>3. /\ m3.blk[rest].size = m1.blk[b].size - (size + 1) /\ m3.blk[rest].free = TRUE
          /\ m3.blk[rest].prev_free = FALSE /\ m3.blk[rest].prev_phys = NO_BLOCK
      BY <2>5, <2>7 DEF CutAt, Changed
    <3>4. m1.blk[b].free = FALSE
      BY <1>1, <2>2, BlockParts DEF HeaderType
    <3>5. next = NextOf(m1.blk, b) /\ DOMAIN m1.blk = D
      BY <2>2 DEF next, D
    <3> QED BY <3>1, <3>2, <3>3, <3>4, <3>5 DEF IsSplit
  <2>10. SplitInto(m1, m3, ext, {} \cup {rest}, {} \cup {rest}, b, size, rest)
    <3>1. m3 \in Memory(DOMAIN m1.blk \cup {rest}, DOMAIN ext)
      BY <2>2, <2>8 DEF D
    <3>2. ~m1.blk[b].free
      BY <1>1, <2>2
    <3> QED BY <2>2, <2>3, <2>8, <2>9, <3>1, <3>2, SplitBetween
  <2>11. In(ext, c, rest)
    BY <2>2, <2>3, RestInControl
  <2>110. Steady(m.blk, m3.blk, {})
    BY <2>2, <2>3, <2>10, SplitIntoSteady
  <2>12. /\ Between(m3, ext, {rest}, {rest}) /\ DOMAIN m3.blk = D \cup {rest}
         /\ IsSplit(m.blk, m3.blk, b, size) /\ m3.abort = m.abort
    <3>1. {} \cup {rest} = {rest}
      OBVIOUS
    <3> QED BY <2>2, <2>10, <3>1 DEF SplitInto, D
  <2>13. rest \in DOMAIN m3.blk /\ m3.blk[rest].free
    BY <2>12 DEF IsSplit
  <2>14. Intact(m.blk, m3.blk, {b}) /\ Used(m3.blk, b) /\ m3.blk[b].size = size
    <3>1. size # 0 /\ DOMAIN m3.blk = DOMAIN m.blk \cup {rest}
      BY <2>12 DEF block_size_min, D
    <3>2. b \in DOMAIN m.blk /\ IsSplit(m.blk, m3.blk, b, size) /\ ~m.blk[b].free
      BY <1>1, <2>12
    <3> DEFINE h == m.blk
               k == m3.blk
    <3>3. b \in DOMAIN h /\ IsSplit(h, k, b, size) /\ ~h[b].free /\ DOMAIN k = DOMAIN h \cup {rest}
      BY <3>1, <3>2
    <3> HIDE DEF rest, h, k
    <3>4. Intact(h, k, {b}) /\ (~h[b].free => Used(k, b) /\ k[b].size = size)
      BY <3>1, <3>3 DEF IsSplit, Intact, Used
    <3> QED BY <3>3, <3>4 DEF h, k
  <2> HIDE DEF rest
  <2>15. MergedFree(m3, m4, ext, {}, rest)
    BY <2>11, <2>12, <2>13, MergeNext
  <2> HIDE DEF m4
  <2>16. /\ Between(m4, ext, {}, {rest}) /\ m4.abort = m.abort
         /\ rest \in DOMAIN m4.blk /\ m4.blk[rest].free /\ Intact(m3.blk, m4.blk, {})
         /\ Steady(m3.blk, m4.blk, {})
    BY <2>12, <2>15 DEF MergedFree
  <2>17. Relisted(m4, n, ext, {}, {rest} \ {rest})
    BY <2>11, <2>16, InsertLists
  <2> HIDE DEF n
  <2>18. Between(n, ext, {}, {}) /\ n.blk = m4.blk /\ n.abort = m.abort
    <3>1. {rest} \ {rest} = {}
      OBVIOUS
    <3> QED BY <2>16, <2>17, <3>1 DEF Relisted
  <2>19. Intact(m.blk, n.blk, {b})
    <3>1. Intact(m.blk, m4.blk, {b} \cup {})
      BY <2>14, <2>16, IntactTransitive
    <3>2. {b} \cup {} = {b}
      OBVIOUS
    <3> QED BY <2>18, <3>1, <3>2
  <2>20. Used(n.blk, b) /\ n.blk[b].size >= size
    <3>1. b \in DOMAIN m3.blk
      BY <2>14 DEF Used
    <3>2. Used(m4.blk, b) /\ m4.blk[b].size = size
      BY <2>14, <2>16, <3>1 DEF Intact
    <3> QED BY <2>18, <3>2
  <2>21. Steady(m.blk, n.blk, {})
    <3>1. Steady(m.blk, m4.blk, {} \cup {})
      BY <2>110, <2>16, SteadyTransitive
    <3>2. {} \cup {} = {}
      OBVIOUS
    <3> QED BY <2>18, <3>1, <3>2
  <2> QED BY <2>1, <2>18, <2>19, <2>20, <2>21 DEF TrimmedUsed
<1> QED BY <1>3, <1>4

-----------------------------------------------------------------------------
(* Finding a block *)

(* A size that is not 0 and not too large is rounded up to a block's.        *)
LEMMA AdjustedSize ==
  ASSUME NEW size \in Nat, NEW adjust, adjust = adjust_request_size(size, 1)
  PROVE  /\ adjust \in Nat /\ adjust < block_size_max
         /\ adjust # 0 => adjust >= size /\ adjust >= block_size_min
         /\ size # 0 /\ size < block_size_max => adjust # 0
<1>1. align_up(size, 1) = size
  <2>1. size \div 1 = size
    <3>1. size \div 1 \in Int /\ 1 * (size \div 1) <= size /\ size < 1 * (size \div 1) + 1
      BY Quotient
    <3> QED BY <3>1
  <2>2. size + 1 - 1 = size
    OBVIOUS
  <2> QED BY <2>1, <2>2 DEF align_up
<1> QED BY <1>1, Numbers DEF adjust_request_size, block_size_min

(* The list that is found is at or after the one where the search starts,    *)
(* and has a block.                                                          *)
LEMMA ListFound ==
  ASSUME NEW m, NEW ext, NEW E, NEW U, Between(m, ext, E, U), NEW c \in DOMAIN ext,
         NEW size \in Nat, size < block_size_max, LocateIndex(m, c, size) # {}
  PROVE  \E fl \in FL, sl \in SL :
           /\ LocateIndex(m, c, size) = {[fl |-> fl, sl |-> sl]}
           /\ m.tlsf[c].blocks[fl][sl] # <<>>
           /\ \/ fl > mapping_search(size).fl
              \/ fl = mapping_search(size).fl /\ sl >= mapping_search(size).sl
<1> DEFINE at     == mapping_search(size)
           t      == m.tlsf[c]
           sl_map == {sl \in t.sl_bitmap[at.fl] : sl >= at.sl}
           fl_map == {fl \in t.fl_bitmap : fl > at.fl}
<1>1. at.fl \in Nat /\ at.sl \in SL
  BY SearchInRange
<1>2. at.fl < FL_INDEX_COUNT /\ LocateIndex(m, c, size) = search_suitable_block(m, c, at)
  BY <1>1, Numbers DEF LocateIndex
<1> HIDE DEF at
<1>3. at.fl \in FL /\ FL \subseteq Nat /\ SL \subseteq Nat
  BY <1>1, <1>2, Numbers DEF FL, SL
<1>4. t \in ControlType
  BY DEF Between, Memory
<1>5. /\ \A fl \in FL, sl \in SL : sl \in t.sl_bitmap[fl] <=> t.blocks[fl][sl] # <<>>
      /\ \A fl \in FL : fl \in t.fl_bitmap <=> t.sl_bitmap[fl] # {}
  <2>1. c \in DOMAIN m.tlsf
    BY DEF Between, Memory
  <2> QED BY <2>1 DEF Between, BitmapsOK
<1> HIDE DEF t
<1>6. /\ t.fl_bitmap \subseteq FL
      /\ \A fl \in FL : t.sl_bitmap[fl] \subseteq SL
  BY <1>4 DEF ControlType
<1>7. search_suitable_block(m, c, at) =
        IF sl_map # {} THEN {[fl |-> at.fl, sl |-> Min(sl_map)]}
        ELSE IF fl_map = {} THEN {}
        ELSE {[fl |-> Min(fl_map), sl |-> Min(t.sl_bitmap[Min(fl_map)])]}
  BY DEF search_suitable_block, t
<1>8. CASE sl_map # {}
  <2>1. sl_map \subseteq Nat
    BY <1>3, <1>6
  <2>2. Min(sl_map) \in sl_map
    BY <1>8, <2>1, MinProperties
  <2>3. Min(sl_map) \in SL /\ Min(sl_map) >= at.sl /\ Min(sl_map) \in t.sl_bitmap[at.fl]
    BY <2>2, <1>3, <1>6
  <2>4. t.blocks[at.fl][Min(sl_map)] # <<>>
    BY <1>3, <1>5, <2>3
  <2>5. LocateIndex(m, c, size) = {[fl |-> at.fl, sl |-> Min(sl_map)]}
    BY <1>2, <1>7, <1>8
  <2> HIDE DEF sl_map
  <2> QED BY <1>3, <2>3, <2>4, <2>5 DEF at, t
<1>9. CASE sl_map = {}
  <2>1. fl_map # {} /\ LocateIndex(m, c, size) = {[fl |-> Min(fl_map), sl |-> Min(t.sl_bitmap[Min(fl_map)])]}
    BY <1>2, <1>7, <1>9
  <2>2. Min(fl_map) \in fl_map
    <3>1. fl_map \subseteq Nat
      BY <1>3, <1>6
    <3> QED BY <2>1, <3>1, MinProperties
  <2> DEFINE fl == Min(fl_map)
             sl == Min(t.sl_bitmap[fl])
  <2>3. fl \in FL /\ fl > at.fl /\ fl \in t.fl_bitmap
    BY <2>2, <1>6
  <2> HIDE DEF fl
  <2>4. t.sl_bitmap[fl] # {} /\ t.sl_bitmap[fl] \subseteq SL
    BY <1>5, <1>6, <2>3
  <2>5. sl \in t.sl_bitmap[fl]
    <3>1. t.sl_bitmap[fl] \subseteq Nat
      BY <1>3, <2>4
    <3> QED BY <2>4, <3>1, MinProperties
  <2>6. LocateIndex(m, c, size) = {[fl |-> fl, sl |-> sl]}
    BY <2>1 DEF fl
  <2> HIDE DEF sl, fl_map, sl_map
  <2>7. sl \in SL /\ t.blocks[fl][sl] # <<>>
    BY <1>5, <2>3, <2>4, <2>5
  <2> QED BY <2>3, <2>6, <2>7 DEF at, t
<1> QED BY <1>8, <1>9

(* The block that is found is free and large enough. *)
Located(m, n, ext, c, b, size) ==
  /\ Relisted(m, n, ext, {}, {b})
  /\ b \in DOMAIN m.blk /\ m.blk[b].free /\ m.blk[b].size >= size /\ In(ext, c, b)

LEMMA LocateFree ==
  ASSUME NEW m, NEW ext, Between(m, ext, {}, {}), NEW c \in DOMAIN ext,
         NEW size \in Nat, size < block_size_max,
         NEW b, b = LocatedBlock(m, c, size), b # NO_BLOCK
  PROVE  Located(m, block_locate_free(m, c, size), ext, c, b, size)
<1> DEFINE where == LocateIndex(m, c, size)
<1>1. where # {}
  BY DEF LocatedBlock
<1>2. PICK fl \in FL, sl \in SL :
        /\ where = {[fl |-> fl, sl |-> sl]}
        /\ m.tlsf[c].blocks[fl][sl] # <<>>
        /\ \/ fl > mapping_search(size).fl
           \/ fl = mapping_search(size).fl /\ sl >= mapping_search(size).sl
  BY <1>1, ListFound
<1> DEFINE at   == [fl |-> fl, sl |-> sl]
           list == m.tlsf[c].blocks[fl][sl]
<1>3. (CHOOSE i \in where : TRUE) = at
  BY <1>2
<1>4. b = Head(list)
  <2>1. LocatedBlock(m, c, size) = Head(m.tlsf[c].blocks[at.fl][at.sl])
    BY <1>1, <1>3 DEF LocatedBlock
  <2> QED BY <2>1
<1>5. b \in ToSet(list)
  <2>1. list \in Seq(Nat)
    BY DEF Between, Memory, ControlType
  <2>2. list # <<>>
    BY <1>2
  <2> HIDE DEF list
  <2>3. 1 \in DOMAIN list /\ b = list[1]
    BY <1>4, <2>1, <2>2, HeadProperties
  <2> QED BY <2>3 DEF ToSet
<1>6. b \in Belong(m.blk, ext, {}, c, fl, sl)
  BY <1>5 DEF Between, ListsOK
<1>7. b \in DOMAIN m.blk /\ m.blk[b].free /\ In(ext, c, b) /\ mapping_insert(m.blk[b].size) = at
  BY <1>6 DEF Belong
<1>8. m.blk[b].size \in Nat /\ m.blk[b].size < block_size_max
  BY <1>7, FreeHasList
<1>9. m.blk[b].size >= size
  BY <1>2, <1>7, <1>8, GoodFit
<1> DEFINE m1 == tlsf_assert(m, m.blk[b].size >= size)
           n  == remove_free_block(m1, c, b, at)
<1>10. block_locate_free(m, c, size) = n
  BY <1>3 DEF block_locate_free
<1>11. Relisted(m, m1, ext, {}, {})
  <2>1. (m.blk[b].size >= size) = TRUE
    BY <1>9
  <2> QED BY <2>1, AssertedBetween
<1>12. m1.tlsf = m.tlsf
  BY <1>8 DEF tlsf_assert, Between, Memory
<1> HIDE DEF m1
<1>13. Between(m1, ext, {}, {}) /\ m1.blk = m.blk /\ m1.abort = m.abort
  BY <1>11 DEF Relisted
<1>14. Relisted(m1, n, ext, {}, {} \cup {b})
  BY <1>5, <1>12, <1>13, RemoveLists
<1> HIDE DEF n
<1>15. Relisted(m, n, ext, {}, {b})
  <2>1. {} \cup {b} = {b}
    OBVIOUS
  <2> QED BY <1>13, <1>14, <2>1 DEF Relisted
<1> QED BY <1>7, <1>9, <1>10, <1>15 DEF Located

-----------------------------------------------------------------------------
(* The interface *)

(* A block that has been found becomes the user's, and its end goes back.    *)
Prepared(m, n, ext, b, size) ==
  /\ Between(n, ext, {}, {}) /\ n.abort = m.abort
  /\ Used(n.blk, b) /\ n.blk[b].size >= size
  /\ Intact(m.blk, n.blk, {}) /\ Steady(m.blk, n.blk, {b}) /\ Cut(m.blk, n.blk, b, size)

LEMMA PrepareUsed ==
  ASSUME NEW m, NEW ext, NEW E, NEW b \in DOMAIN m.blk, Between(m, ext, E, {b}),
         m.blk[b].free, NEW c \in DOMAIN ext, In(ext, c, b),
         NEW size \in Nat, size >= block_size_min, m.blk[b].size >= size,
         \/ E = {}
         \/ \E a \in DOMAIN m.blk : E = {a} /\ a # b /\ NextOf(m.blk, a) = b
  PROVE  Prepared(m, block_prepare_used(m, c, b, size), ext, b, size)
<1> DEFINE m1 == tlsf_assert(m, size # 0)
           m2 == block_trim_free(m1, c, b, size)
           n  == block_mark_as_used(m2, b)
<1>1. b # NO_BLOCK /\ block_prepare_used(m, c, b, size) = n
  <2>1. b # NO_BLOCK
    BY BlockParts DEF NO_BLOCK
  <2> QED BY <2>1 DEF block_prepare_used
<1>2. Relisted(m, m1, ext, E, {b})
  <2>1. (size # 0) = TRUE
    BY DEF block_size_min
  <2> QED BY <2>1, AssertedBetween
<1> HIDE DEF m1
<1>3. Between(m1, ext, E, {b}) /\ m1.blk = m.blk /\ m1.abort = m.abort
  BY <1>2 DEF Relisted
<1>4. TrimmedFree(m1, m2, ext, E, b, size)
  <2>1. b \in DOMAIN m1.blk /\ m1.blk[b].free /\ m1.blk[b].size >= size /\ b \notin E
    BY <1>3
  <2> QED BY <1>3, <2>1, TrimFree
<1> HIDE DEF m2
<1>5. /\ Between(m2, ext, E \cup {b}, {b}) /\ m2.abort = m.abort
      /\ b \in DOMAIN m2.blk /\ m2.blk[b].free /\ m2.blk[b].size >= size
      /\ Intact(m.blk, m2.blk, {}) /\ Steady(m.blk, m2.blk, {}) /\ Cut(m.blk, m2.blk, b, size)
      /\ \A a \in DOMAIN m.blk \ {b} : a \in DOMAIN m2.blk /\ NextOf(m2.blk, a) = NextOf(m.blk, a)
  BY <1>3, <1>4 DEF TrimmedFree
<1>6. m2.blk[b].size # 0
  BY <1>5, BlockParts
<1>7. \E a \in DOMAIN m2.blk : (a = b \/ NextOf(m2.blk, a) = b) /\ (E \cup {b}) \ {a, b} = {}
  <2>1. CASE E = {}
    <3>1. (E \cup {b}) \ {b, b} = {}
      BY <2>1
    <3> QED BY <1>5, <3>1
  <2>2. CASE E # {}
    <3>1. PICK a \in DOMAIN m.blk : E = {a} /\ a # b /\ NextOf(m.blk, a) = b
      BY <2>2
    <3>2. a \in DOMAIN m2.blk /\ NextOf(m2.blk, a) = b
      BY <1>5, <3>1
    <3>3. (E \cup {b}) \ {a, b} = {}
      BY <3>1
    <3> QED BY <3>2, <3>3
  <2> QED BY <2>1, <2>2
<1>8. PICK a \in DOMAIN m2.blk : (a = b \/ NextOf(m2.blk, a) = b) /\ (E \cup {b}) \ {a, b} = {}
  BY <1>7
<1>9. Remarked(m2, n, ext, (E \cup {b}) \ {a, b}, {b} \ {b}, b, FALSE)
  <2>1. m2.blk[b].free => b \in {b}
    OBVIOUS
  <2> QED BY <1>5, <1>6, <1>8, <2>1, MarkedUsed
<1> HIDE DEF n
<1>10. /\ Between(n, ext, {}, {}) /\ n.abort = m.abort
       /\ DOMAIN n.blk = DOMAIN m2.blk /\ IsMarked(m2.blk, n.blk, b, FALSE)
  <2>1. {b} \ {b} = {}
    OBVIOUS
  <2> QED BY <1>5, <1>8, <1>9, <2>1 DEF Remarked
<1>11. Used(n.blk, b) /\ n.blk[b].size >= size
  BY <1>5, <1>6, <1>10 DEF IsMarked, Used
<1>12. Intact(m2.blk, n.blk, {})
  <2>1. \A x \in DOMAIN m2.blk : Used(m2.blk, x) => x # b
    BY <1>5 DEF Used
  <2> QED BY <1>10, <2>1 DEF IsMarked, Intact, Used
<1>13. Intact(m.blk, n.blk, {})
  <2>1. Intact(m.blk, n.blk, {} \cup {})
    BY <1>5, <1>12, IntactTransitive
  <2>2. {} \cup {} = {}
    OBVIOUS
  <2> QED BY <2>1, <2>2
<1>14. Steady(m.blk, n.blk, {b})
  <2>1. Steady(m2.blk, n.blk, {b})
    BY <1>5, <1>10, MarkedSteady
  <2>2. Steady(m.blk, n.blk, {} \cup {b})
    BY <1>5, <2>1, SteadyTransitive
  <2>3. {} \cup {b} = {b}
    OBVIOUS
  <2> QED BY <2>2, <2>3
<1>15. Cut(m.blk, n.blk, b, size)
  BY <1>5, <1>10 DEF Cut, IsMarked
<1> QED BY <1>1, <1>10, <1>11, <1>13, <1>14, <1>15 DEF Prepared

(* What an allocation answers: nothing, and nothing has changed; or a block  *)
(* of the heap that was nobody's, with at least the size that was asked for. *)
(* Every block that somebody was given stays as it is.                       *)
Allocated(m, r, ext, c, size) ==
  /\ r.ptr \in Nat
  /\ r.ptr = NO_BLOCK => r.mem = m
  /\ r.ptr # NO_BLOCK =>
       LET b == block_from_ptr(r.ptr)
       IN  /\ Valid(r.mem, ext) /\ Intact(m.blk, r.mem.blk, {})
           /\ ~Used(m.blk, b) /\ Used(r.mem.blk, b) /\ In(ext, c, b)
           /\ r.mem.blk[b].size >= size /\ Steady(m.blk, r.mem.blk, {b})

LEMMA PointerOfBlock ==
  ASSUME NEW b \in Nat \ {0}
  PROVE  /\ block_from_ptr(block_to_ptr(b)) = b /\ block_to_ptr(b) # NO_BLOCK
         /\ b # NO_BLOCK /\ UserPtr(b) = block_to_ptr(b) /\ block_to_ptr(b) \in Nat
BY DEF block_from_ptr, block_to_ptr, block_start_offset, NO_BLOCK, UserPtr

(* tlsf_malloc leaves the heaps in order and gives out a block that nobody   *)
(* else has, large enough; no assertion of tlsf.c fails on the way.          *)
THEOREM MallocIsSound ==
  ASSUME NEW m, NEW ext, Valid(m, ext), NEW c \in DOMAIN ext, NEW size \in Nat
  PROVE  Allocated(m, tlsf_malloc(m, c, size), ext, c, size)
<1> DEFINE adjust == adjust_request_size(size, 1)
           b  == LocatedBlock(m, c, adjust)
           m1 == block_locate_free(m, c, adjust)
           n  == block_prepare_used(m1, c, b, adjust)
<1>1. tlsf_malloc(m, c, size) = [mem |-> n, ptr |-> UserPtr(b)]
  BY DEF tlsf_malloc, Returns
<1>2. /\ adjust \in Nat /\ adjust < block_size_max
      /\ adjust # 0 => adjust >= size /\ adjust >= block_size_min
  BY AdjustedSize
<1> HIDE DEF adjust
<1>3. CASE b = NO_BLOCK
  <2>1. m1 = m /\ n = m /\ UserPtr(b) = NO_BLOCK
    BY <1>3 DEF block_locate_free, block_prepare_used, UserPtr
  <2> QED BY <1>1, <2>1 DEF Allocated, NO_BLOCK
<1>4. CASE b # NO_BLOCK
  <2>1. adjust # 0
    <3>1. LocateIndex(m, c, adjust) # {}
      BY <1>4 DEF LocatedBlock
    <3> QED BY <3>1 DEF LocateIndex
  <2>2. Between(m, ext, {}, {}) /\ ~m.abort
    BY DEF Valid
  <2> HIDE DEF b
  <2>3. Located(m, m1, ext, c, b, adjust)
    BY <1>2, <1>4, <2>2, LocateFree DEF b
  <2> HIDE DEF m1
  <2>4. /\ Between(m1, ext, {}, {b}) /\ m1.blk = m.blk /\ m1.abort = m.abort
        /\ b \in DOMAIN m.blk /\ m.blk[b].free /\ m.blk[b].size >= adjust /\ In(ext, c, b)
    BY <2>3 DEF Located, Relisted
  <2>5. Prepared(m1, n, ext, b, adjust)
    <3>1. b \in DOMAIN m1.blk /\ m1.blk[b].free /\ m1.blk[b].size >= adjust /\ adjust >= block_size_min
      BY <1>2, <2>1, <2>4
    <3> QED BY <1>2, <2>4, <3>1, PrepareUsed
  <2> HIDE DEF n
  <2>6. /\ Between(n, ext, {}, {}) /\ ~n.abort /\ Used(n.blk, b) /\ n.blk[b].size >= adjust
        /\ Intact(m.blk, n.blk, {}) /\ Steady(m.blk, n.blk, {b})
    BY <2>2, <2>4, <2>5 DEF Prepared
  <2>7. b \in Nat \ {0}
    BY <2>2, <2>4, BlockParts
  <2>8. n.blk[b].size >= size
    <3>1. n.blk[b].size \in Nat
      BY <2>6, BlockParts DEF Used
    <3> QED BY <1>2, <2>1, <2>6, <3>1
  <2>9. ~Used(m.blk, b)
    BY <2>4 DEF Used
  <2> QED BY <1>1, <2>4, <2>6, <2>7, <2>8, <2>9, PointerOfBlock DEF Allocated, Valid
<1> QED BY <1>3, <1>4

(* tlsf_free leaves the heaps in order, with every other block that somebody *)
(* was given as it is; no assertion fails.                                   *)
THEOREM FreeIsSound ==
  ASSUME NEW m, NEW ext, Valid(m, ext), NEW c \in DOMAIN ext,
         NEW b, Used(m.blk, b), In(ext, c, b)
  PROVE  LET n == tlsf_free(m, c, block_to_ptr(b))
         IN  /\ Valid(n, ext) /\ Intact(m.blk, n.blk, {b})
             /\ Steady(m.blk, n.blk, {}) /\ ~Used(n.blk, b)
<1>1. Between(m, ext, {}, {}) /\ ~m.abort
  BY DEF Valid
<1>2. FreedBlock(m, tlsf_free(m, c, block_to_ptr(b)), ext, b)
  BY <1>1, FreeUsed
<1> QED BY <1>1, <1>2 DEF FreedBlock, Valid

(* A used block takes in the free block after it. *)
Grown(m, n, ext, b, size) ==
  /\ Between(n, ext, {}, {}) /\ n.abort = m.abort
  /\ Used(n.blk, b) /\ n.blk[b].size = size
  /\ Intact(m.blk, n.blk, {b}) /\ Steady(m.blk, n.blk, {})

LEMMA GrowUsed ==
  ASSUME NEW m, NEW ext, Between(m, ext, {}, {}), NEW b, Used(m.blk, b),
         NEW c \in DOMAIN ext, In(ext, c, b),
         NEW next \in DOMAIN m.blk, next = NextOf(m.blk, b), m.blk[next].free
  PROVE  Grown(m, block_mark_as_used(block_merge_next(m, c, b), b), ext, b,
               m.blk[b].size + m.blk[next].size + 1)
<1> DEFINE D   == DOMAIN m.blk
           C   == DOMAIN ext
           F   == D \ {next}
           far == NextOf(m.blk, next)
           m1  == block_remove(m, c, next)
           m2  == block_absorb(m1, b, next)
           n   == block_mark_as_used(m2, b)
<1>1. b \in D /\ ~m.blk[b].free /\ m.blk[b].size # 0
  BY DEF Used
<1>2. block_next(m, b) = next /\ In(ext, c, next) /\ next # b
  BY <1>1, NextInControl
<1>3. block_merge_next(m, c, b) = m2
  BY <1>2 DEF block_merge_next
<1>4. Relisted(m, m1, ext, {}, {} \cup {next})
  BY <1>2, BlockRemoveLists
<1> HIDE DEF m1
<1>5. Between(m1, ext, {}, {next}) /\ m1.blk = m.blk /\ m1.abort = m.abort
  <2>1. {} \cup {next} = {next}
    OBVIOUS
  <2> QED BY <1>4, <2>1 DEF Relisted
<1>6. m1 \in Memory(D, C) /\ D \subseteq Nat \ {0} /\ m1.blk \in Headers(D) /\ m1.blk[b].size # 0
  BY <1>1, <1>5, Parts
<1>7. /\ far \in D /\ next = NextOf(m1.blk, b) /\ far = NextOf(m1.blk, next)
  BY <1>5, BlockParts
<1>8. next > b /\ far > next /\ b \in Nat /\ next \in Nat /\ far \in Nat
  <2>1. next \in D /\ m.blk \in Headers(D)
    BY <1>5, <1>6
  <2> QED BY <1>1, <1>6, <1>7, <2>1, NextNumbers
<1>9. b # next /\ b # far /\ far # next /\ next \in D
  BY <1>8
<1>10. m1.blk[b].size = m.blk[b].size /\ m1.blk[next].size = m.blk[next].size
       /\ m.blk[b].size \in Nat /\ m.blk[next].size \in Nat
  BY <1>1, <1>5, BlockParts
<1> HIDE DEF D, far
<1>11. AbsorbedInto(D, C, m1, m2, b, next, far)
  BY <1>1, <1>6, <1>7, <1>9, Absorbing
<1> HIDE DEF m2
<1>12. /\ m2 \in Memory(F, C) /\ F \subseteq Nat \ {0} /\ b \in F /\ far \in F
       /\ m2.blk[b].size = m.blk[b].size + m.blk[next].size + 1
  BY <1>1, <1>6, <1>7, <1>9, <1>10, <1>11 DEF AbsorbedInto
<1>13. NextOf(m2.blk, b) = far
  <2>1. next = b + m.blk[b].size + 1 /\ far = next + m.blk[next].size + 1
    BY <1>7, <1>10 DEF NextOf
  <2>2. NextOf(m2.blk, b) = b + (m.blk[b].size + m.blk[next].size + 1) + 1
    BY <1>12 DEF NextOf
  <2> QED BY <1>8, <1>10, <2>1, <2>2
<1>14. DOMAIN m2.blk = F /\ F = D \ {next}
  BY <1>12, MemoryHeaders
<1>140. m2.blk[b].size # 0
  BY <1>10, <1>12
<1> HIDE DEF F
<1>15. MarkedAs(F, C, m2, n, b, FALSE)
  BY <1>12, <1>13, <1>140, MarkingUsed
<1> HIDE DEF n
<1>16. /\ n \in Memory(F, C) /\ n.tlsf = m1.tlsf /\ n.abort = m.abort /\ IsMarked(m2.blk, n.blk, b, FALSE)
  BY <1>5, <1>11, <1>15 DEF MarkedAs, AbsorbedInto
<1>17. IsMerged(m1.blk, n.blk, b)
  <2>1. m1.blk[b].free = FALSE
    BY <1>1, <1>5, BlockParts DEF HeaderType, D
  <2>2. \A a \in F : /\ n.blk[a].size = m2.blk[a].size
                     /\ a # b => n.blk[a].free = m2.blk[a].free
                     /\ a # far => n.blk[a].prev_free = m2.blk[a].prev_free
                                   /\ n.blk[a].prev_phys = m2.blk[a].prev_phys
    BY <1>13, <1>14, <1>16 DEF IsMarked
  <2>3. \A a \in F : /\ a # b => m2.blk[a].size = m1.blk[a].size
                     /\ m2.blk[a].free = m1.blk[a].free
                     /\ a # far => m2.blk[a].prev_free = m1.blk[a].prev_free
                                   /\ m2.blk[a].prev_phys = m1.blk[a].prev_phys
    BY <1>11, <1>14 DEF AbsorbedInto
  <2>4. n.blk[b].free = FALSE /\ n.blk[far].prev_free = FALSE /\ n.blk[far].prev_phys = NO_BLOCK
    BY <1>13, <1>16 DEF IsMarked
  <2>5. \A a \in F : /\ a # b => n.blk[a].size = m1.blk[a].size
                     /\ n.blk[a].free = m1.blk[a].free
                     /\ a # far => n.blk[a].prev_free = m1.blk[a].prev_free
                                   /\ n.blk[a].prev_phys = m1.blk[a].prev_phys
    BY <2>1, <2>2, <2>3, <2>4
  <2>6. n.blk[b].size = m1.blk[b].size + m1.blk[next].size + 1
    BY <1>10, <1>12, <2>2
  <2>7. DOMAIN m1.blk \ {NextOf(m1.blk, b)} = F
    BY <1>5, <1>7, <1>14 DEF D
  <2> QED BY <1>7, <2>1, <2>4, <2>5, <2>6, <2>7 DEF IsMerged
<1>18. MergedInto(m1, n, ext, {} \ {b}, {next} \ {next}, b, next)
  <2>1. n \in Memory(DOMAIN m1.blk \ {next}, DOMAIN ext)
    BY <1>5, <1>14, <1>16 DEF D
  <2>2. /\ b \in DOMAIN m1.blk /\ next \in DOMAIN m1.blk /\ m1.blk[next].free /\ ~m1.blk[b].free
        /\ next \in {next} /\ next \notin {}
    BY <1>1, <1>5 DEF D
  <2>3. n.tlsf = m1.tlsf /\ n.abort = m1.abort /\ m1.blk[b].size # 0 /\ next = NextOf(m1.blk, b)
    BY <1>5, <1>6, <1>7, <1>16
  <2>4. ASSUME NEW E, E = {}, NEW U, U = {next}, NEW G, G = E \ {b}
        PROVE  MergedInto(m1, n, ext, G, U \ {next}, b, next)
    <3>1. Between(m1, ext, E, U) /\ next \in U /\ next \notin E
      BY <1>5, <2>4
    <3>2. m1.blk[b].free => b \in U
      BY <2>2
    <3>3. G = E \ {b}
      BY <2>4
    <3> HIDE <2>4
    <3> QED BY <1>17, <2>1, <2>2, <2>3, <3>1, <3>2, <3>3, MergedBetween
  <2> QED BY <2>4
<1>19. Between(n, ext, {}, {}) /\ DOMAIN n.blk = F
  <2>1. {} \ {b} = {} /\ {next} \ {next} = {}
    OBVIOUS
  <2> QED BY <1>5, <1>14, <1>18, <2>1 DEF MergedInto, D
<1>20. /\ \A a \in F \ {b} : n.blk[a].size = m.blk[a].size /\ n.blk[a].free = m.blk[a].free
       /\ n.blk[b].size = m.blk[b].size + m.blk[next].size + 1 /\ ~n.blk[b].free
  <2>1. DOMAIN m1.blk \ {NextOf(m1.blk, b)} = F
    BY <1>5, <1>7, <1>14 DEF D
  <2>2. b \in F /\ ~m.blk[b].free
    BY <1>1, <1>12
  <2> QED BY <1>5, <1>7, <1>10, <1>17, <2>1, <2>2 DEF IsMerged
<1>21. Used(n.blk, b)
  BY <1>10, <1>12, <1>19, <1>20 DEF Used
<1>22. Intact(m.blk, n.blk, {b})
  BY <1>14, <1>19, <1>20 DEF Intact, Used, D
<1>23. Steady(m.blk, n.blk, {})
  <2>1. Steady(m1.blk, n.blk, {})
    <3>1. /\ b \in DOMAIN m1.blk /\ next \in DOMAIN m1.blk /\ m1.blk[next].free
          /\ DOMAIN n.blk = DOMAIN m1.blk \ {next}
      BY <1>1, <1>5, <1>14, <1>19 DEF D
    <3> QED BY <1>5, <1>6, <1>7, <1>17, <3>1, MergedIntoSteady
  <2> QED BY <1>5, <2>1
<1> QED BY <1>3, <1>16, <1>19, <1>20, <1>21, <1>22, <1>23 DEF Grown, n

(* What tlsf_realloc answers for the block b: the size is 0, and b is free;  *)
(* or nothing, and nothing has changed; or a block of the heap, b or one     *)
(* that was nobody's, with at least the size that was asked for.  Every      *)
(* other block that somebody was given stays as it is.                       *)
Reallocated(m, r, ext, c, b, size) ==
  /\ r.ptr \in Nat
  /\ r.ptr = NO_BLOCK =>
       IF size = 0
         THEN /\ Valid(r.mem, ext) /\ Intact(m.blk, r.mem.blk, {b})
              /\ Steady(m.blk, r.mem.blk, {}) /\ ~Used(r.mem.blk, b)
         ELSE r.mem = m
  /\ r.ptr # NO_BLOCK =>
       LET to == block_from_ptr(r.ptr)
       IN  /\ Valid(r.mem, ext) /\ Intact(m.blk, r.mem.blk, {b})
           /\ to = b \/ ~Used(m.blk, to)
           /\ Used(r.mem.blk, to) /\ In(ext, c, to)
           /\ r.mem.blk[to].size >= size /\ Steady(m.blk, r.mem.blk, {to})
           /\ to # b => ~Used(r.mem.blk, b)

(* tlsf_realloc leaves the heaps in order, and answers as it should, for     *)
(* sizes that a block can have: those beyond are rounded to 0, and the block *)
(* is cut to nothing.                                                        *)
THEOREM ReallocIsSound ==
  ASSUME NEW m, NEW ext, Valid(m, ext), NEW c \in DOMAIN ext, NEW b, Used(m.blk, b), In(ext, c, b),
         NEW size \in Nat, size < block_size_max
  PROVE  Reallocated(m, tlsf_realloc(m, c, block_to_ptr(b), size), ext, c, b, size)
<1> DEFINE ptr    == block_to_ptr(b)
           adjust == adjust_request_size(size, 1)
           grow   == adjust > m.blk[b].size
           moved  == tlsf_malloc(m, c, size)
           m1     == tlsf_assert(m, ~m.blk[b].free /\ m.blk[b].size # 0)
           m2     == IF grow THEN block_mark_as_used(block_merge_next(m1, c, b), b) ELSE m1
           next   == NextOf(m.blk, b)
<1>1. Between(m, ext, {}, {}) /\ ~m.abort
  BY DEF Valid
<1>2. b \in DOMAIN m.blk /\ ~m.blk[b].free /\ m.blk[b].size # 0
  BY DEF Used
<1>3. /\ b \in Nat \ {0} /\ m.blk[b].size \in Nat /\ next \in DOMAIN m.blk /\ m.blk[next].size \in Nat
      /\ block_next(m, b) = next
  BY <1>1, <1>2, BlockParts, NextInControl
<1>4. Relisted(m, m1, ext, {}, {})
  BY <1>1, <1>2, AssertedBetween
<1>5. tlsf_realloc(m, c, ptr, size) =
        IF size = 0 THEN [mem |-> tlsf_free(m, c, ptr), ptr |-> NO_BLOCK]
        ELSE IF ~grow \/ GrowsInPlace(m, b, adjust) THEN [mem |-> block_trim_used(m2, c, b, adjust), ptr |-> ptr]
        ELSE IF moved.ptr = NO_BLOCK THEN moved
        ELSE [mem |-> tlsf_free(moved.mem, c, ptr), ptr |-> moved.ptr]
  <2>1. block_from_ptr(ptr) = b /\ ptr # NO_BLOCK
    BY <1>3, PointerOfBlock
  <2>2. ~m1.abort
    BY <1>1, <1>4 DEF Relisted
  <2> QED BY <2>1, <2>2 DEF tlsf_realloc, Returns
<1> HIDE DEF m1
<1>6. Between(m1, ext, {}, {}) /\ m1.blk = m.blk /\ m1.abort = m.abort
  BY <1>4 DEF Relisted
<1>7. CASE size = 0
  <2>1. LET n == tlsf_free(m, c, ptr)
        IN  /\ Valid(n, ext) /\ Intact(m.blk, n.blk, {b})
            /\ Steady(m.blk, n.blk, {}) /\ ~Used(n.blk, b)
    BY FreeIsSound
  <2> QED BY <1>5, <1>7, <2>1 DEF Reallocated, NO_BLOCK
<1>8. ASSUME size # 0
      PROVE  adjust \in Nat /\ adjust >= size /\ adjust >= block_size_min
  BY <1>8, AdjustedSize
<1> HIDE DEF adjust
<1>9. CASE size # 0 /\ (~grow \/ GrowsInPlace(m, b, adjust))
  <2> DEFINE n == block_trim_used(m2, c, b, adjust)
  <2>1. /\ Between(m2, ext, {}, {}) /\ m2.abort = m.abort /\ Used(m2.blk, b)
        /\ m2.blk[b].size >= adjust /\ Intact(m.blk, m2.blk, {b}) /\ Steady(m.blk, m2.blk, {})
    <3>1. CASE ~grow
      <4>1. m2 = m1 /\ m.blk[b].size >= adjust
        BY <1>3, <1>8, <1>9, <3>1
      <4> QED BY <1>2, <1>6, <4>1, SteadyAlone DEF Intact, Used
    <3>2. CASE grow
      <4>1. m.blk[next].free /\ adjust <= m.blk[b].size + m.blk[next].size + 1
        BY <1>3, <1>9, <3>2 DEF GrowsInPlace, block_header_overhead
      <4>2. Grown(m1, m2, ext, b, m1.blk[b].size + m1.blk[next].size + 1)
        <5>1. /\ next \in DOMAIN m1.blk /\ next = NextOf(m1.blk, b) /\ m1.blk[next].free
              /\ Used(m1.blk, b) /\ m2 = block_mark_as_used(block_merge_next(m1, c, b), b)
          BY <1>3, <1>6, <3>2, <4>1
        <5> HIDE DEF m2, next
        <5> QED BY <1>6, <5>1, GrowUsed
      <4> HIDE DEF m2
      <4>3. /\ Between(m2, ext, {}, {}) /\ m2.abort = m.abort /\ Used(m2.blk, b)
            /\ m2.blk[b].size = m.blk[b].size + m.blk[next].size + 1
            /\ Intact(m.blk, m2.blk, {b}) /\ Steady(m.blk, m2.blk, {})
        BY <1>6, <4>2 DEF Grown
      <4>4. m2.blk[b].size >= adjust
        BY <1>3, <1>8, <1>9, <4>1, <4>3
      <4> QED BY <4>3, <4>4
    <3> QED BY <3>1, <3>2
  <2> HIDE DEF m2
  <2>2. TrimmedUsed(m2, n, ext, b, adjust)
    BY <1>8, <1>9, <2>1, TrimUsed
  <2> HIDE DEF n
  <2>3. /\ Between(n, ext, {}, {}) /\ ~n.abort /\ Used(n.blk, b) /\ n.blk[b].size >= adjust
        /\ Intact(m2.blk, n.blk, {b}) /\ Steady(m2.blk, n.blk, {})
    BY <1>1, <2>1, <2>2 DEF TrimmedUsed
  <2>4. Intact(m.blk, n.blk, {b})
    <3>1. Intact(m.blk, n.blk, {b} \cup {b})
      BY <2>1, <2>3, IntactTransitive
    <3>2. {b} \cup {b} = {b}
      OBVIOUS
    <3> QED BY <3>1, <3>2
  <2>5. n.blk[b].size >= size
    <3>1. n.blk[b].size \in Nat
      BY <2>3, BlockParts DEF Used
    <3> QED BY <1>8, <1>9, <2>3, <3>1
  <2>6. tlsf_realloc(m, c, ptr, size) = [mem |-> n, ptr |-> ptr]
    BY <1>5, <1>9 DEF n
  <2>7. Steady(m.blk, n.blk, {b})
    BY <2>1, <2>3 DEF Steady, Used
  <2> QED BY <1>3, <2>3, <2>4, <2>5, <2>6, <2>7, PointerOfBlock DEF Reallocated, Valid
<1>10. CASE size # 0 /\ grow /\ ~GrowsInPlace(m, b, adjust)
  <2>1. Allocated(m, moved, ext, c, size)
    BY MallocIsSound
  <2> HIDE DEF moved
  <2>2. CASE moved.ptr = NO_BLOCK
    <3>1. tlsf_realloc(m, c, ptr, size) = moved
      BY <1>5, <1>10, <2>2
    <3> QED BY <1>10, <2>1, <2>2, <3>1 DEF Reallocated, Allocated
  <2>3. CASE moved.ptr # NO_BLOCK
    <3> DEFINE to == block_from_ptr(moved.ptr)
               k  == moved.mem
               n  == tlsf_free(k, c, ptr)
    <3>1. /\ Valid(k, ext) /\ Intact(m.blk, k.blk, {}) /\ ~Used(m.blk, to) /\ Used(k.blk, to)
          /\ In(ext, c, to) /\ k.blk[to].size >= size /\ Steady(m.blk, k.blk, {to})
      BY <2>1, <2>3 DEF Allocated
    <3>2. tlsf_realloc(m, c, ptr, size) = [mem |-> n, ptr |-> moved.ptr]
      BY <1>5, <1>10, <2>3
    <3>7. moved.ptr \in Nat
      BY <2>1 DEF Allocated
    <3> HIDE DEF k, to
    <3>3. Used(k.blk, b)
      BY <1>2, <3>1 DEF Intact
    <3>4. /\ Valid(n, ext) /\ Intact(k.blk, n.blk, {b})
          /\ Steady(k.blk, n.blk, {}) /\ ~Used(n.blk, b)
      BY <3>1, <3>3, FreeIsSound
    <3> HIDE DEF n
    <3>5. Used(n.blk, to) /\ n.blk[to].size = k.blk[to].size
      <4>1. to # b /\ to \in DOMAIN k.blk
        BY <3>1 DEF Used
      <4> QED BY <3>1, <3>4, <4>1 DEF Intact
    <3>6. Intact(m.blk, n.blk, {b})
      <4>1. Intact(m.blk, n.blk, {} \cup {b})
        BY <3>1, <3>4, IntactTransitive
      <4>2. {} \cup {b} = {b}
        OBVIOUS
      <4> QED BY <4>1, <4>2
    <3>8. Steady(m.blk, n.blk, {to})
      BY <3>1, <3>4 DEF Steady, Used
    <3> QED BY <2>3, <3>1, <3>2, <3>4, <3>5, <3>6, <3>7, <3>8 DEF Reallocated, to
  <2> QED BY <2>2, <2>3
<1> QED BY <1>7, <1>9, <1>10

-----------------------------------------------------------------------------
(* Aligned blocks *)

IsMultiple(x, align) == \E q \in Nat : x = q * align

LEMMA AlignUp ==
  ASSUME NEW x \in Nat, NEW align \in Nat \ {0}
  PROVE  /\ align_up(x, align) \in Nat /\ IsMultiple(align_up(x, align), align)
         /\ x <= align_up(x, align) /\ align_up(x, align) <= x + align - 1
<1> DEFINE q == (x + align - 1) \div align
<1>1. q \in Int /\ align * q <= x + align - 1 /\ x + align - 1 < align * q + align
  BY Quotient
<1>2. align_up(x, align) = q * align
  BY DEF align_up
<1> HIDE DEF q
<1>3. align * q \in Int /\ q * align = align * q
  BY <1>1
<1>4. q \in Nat
  <2>1. SUFFICES ASSUME q + 1 <= 0 PROVE FALSE
    BY <1>1
  <2>2. align * (q + 1) <= align * 0 /\ align * (q + 1) = align * q + align /\ align * 0 = 0
    BY <1>1, <2>1, ProductMonotonic
  <2> QED BY <1>1, <1>3, <2>2
<1> QED BY <1>1, <1>2, <1>3, <1>4 DEF IsMultiple

LEMMA AlignUpMultiple ==
  ASSUME NEW x \in Nat, NEW align \in Nat \ {0}, IsMultiple(x, align)
  PROVE  align_up(x + align, align) = x + align
<1>1. PICK q \in Nat : x = q * align
  BY DEF IsMultiple
<1> DEFINE y == x + align + align - 1
           d == y \div align
<1>2. align * (q + 1) = x + align /\ align * (q + 2) = x + align + align
  BY <1>1
<1>3. d \in (q + 1) .. (q + 2) - 1
  <2>1. y \in Int /\ align * (q + 1) <= y /\ y < align * (q + 2) /\ q + 1 \in Int /\ q + 2 \in Int
    BY <1>2
  <2> HIDE DEF y
  <2> QED BY <2>1, QuotientBetween
<1> HIDE DEF d
<1>4. d = q + 1
  BY <1>3
<1>5. align_up(x + align, align) = d * align
  BY DEF align_up, d
<1>6. d * align = align * (q + 1)
  BY <1>4
<1> QED BY <1>2, <1>5, <1>6

(* What is skipped to reach an aligned address leaves room for a block.      *)
LEMMA AlignGapProperties ==
  ASSUME NEW b \in Nat, NEW align \in Nat \ {0}, NEW gap, gap = AlignGap(b, align)
  PROVE  /\ gap \in Nat /\ (gap = 0 \/ gap >= sizeof_block_header)
         /\ IsMultiple(block_to_ptr(b) + gap, align)
         /\ gap <= align + 3 /\ (align = 1 => gap = 0)
<1> DEFINE p    == block_to_ptr(b)
           up   == align_up(p, align)
           gap0 == up - p
           skip == Max({sizeof_block_header - gap0, align})
           far  == align_up(up + skip, align)
<1>1. p \in Nat
  BY DEF block_to_ptr, block_start_offset
<1> HIDE DEF p
<1>2. up \in Nat /\ IsMultiple(up, align) /\ p <= up /\ up <= p + align - 1
  BY <1>1, AlignUp
<1> HIDE DEF up
<1>3. gap0 \in Nat /\ gap0 <= align - 1 /\ p + gap0 = up
  BY <1>1, <1>2
<1>4. gap = IF gap0 = 0 \/ gap0 >= sizeof_block_header THEN gap0 ELSE far - p
  BY DEF AlignGap, p, up
<1>5. CASE gap0 = 0 \/ gap0 >= sizeof_block_header
  BY <1>2, <1>3, <1>4, <1>5 DEF p
<1>6. CASE ~(gap0 = 0 \/ gap0 >= sizeof_block_header)
  <2>1. gap0 >= 1 /\ gap0 <= 3 /\ align >= 2
    BY <1>3, <1>6 DEF sizeof_block_header
  <2> HIDE DEF gap0
  <2>2. /\ skip \in Int /\ skip >= 4 - gap0 /\ skip >= align
        /\ (skip = 4 - gap0 \/ skip = align)
    <3>1. 4 - gap0 \in Int /\ align \in Int /\ sizeof_block_header - gap0 = 4 - gap0
      BY <1>3 DEF sizeof_block_header
    <3>2. skip = Max({4 - gap0, align})
      BY <3>1
    <3>3. \E x \in {4 - gap0, align} : \A y \in {4 - gap0, align} : x >= y
      BY <3>1
    <3>4. Max({4 - gap0, align}) \in {4 - gap0, align}
      BY <3>3 DEF Max
    <3> QED BY <3>1, <3>2, <3>4, MaxOfTwo
  <2> HIDE DEF skip
  <2>3. skip \in Nat
    BY <2>2
  <2>4. far \in Nat /\ IsMultiple(far, align) /\ up + skip <= far /\ far <= up + skip + align - 1
    <3>1. up + skip \in Nat
      BY <1>2, <2>3
    <3> QED BY <3>1, AlignUp
  <2>5. gap = far - p
    BY <1>4, <1>6
  <2>6. far - p <= align + 3
    <3>1. CASE skip = align
      <4>1. far = up + align
        BY <1>2, <3>1, AlignUpMultiple
      <4> QED BY <1>1, <1>2, <1>3, <2>1, <4>1
    <3>2. CASE skip # align
      <4>1. align = 2 /\ skip = 3 /\ gap0 = 1
        BY <1>3, <2>1, <2>2, <3>2
      <4> HIDE DEF far
      <4> QED BY <1>1, <1>2, <1>3, <2>4, <4>1
    <3> QED BY <3>1, <3>2
  <2> HIDE DEF far
  <2>7. far - p \in Nat /\ far - p >= 4 /\ p + (far - p) = far
    BY <1>1, <1>2, <1>3, <2>1, <2>2, <2>4
  <2> QED BY <2>1, <2>4, <2>5, <2>6, <2>7 DEF p, sizeof_block_header
<1> QED BY <1>5, <1>6

LEMMA AlignedRequestProperties ==
  ASSUME NEW adjust \in Nat, adjust < block_size_max, NEW align \in Nat \ {0},
         NEW asked, asked = AlignedRequest(adjust, align)
  PROVE  /\ asked \in Nat /\ asked < block_size_max
         /\ asked # 0 => /\ adjust # 0 /\ asked >= adjust
                         /\ align > 1 => asked >= adjust + align + 4
<1>1. CASE adjust = 0 \/ align <= 1
  BY <1>1 DEF AlignedRequest
<1>2. CASE ~(adjust = 0 \/ align <= 1)
  <2> DEFINE x  == adjust + align + sizeof_block_header
             up == align_up(x, align)
  <2>1. x \in Nat /\ x = adjust + align + 4 /\ x # 0
    BY DEF sizeof_block_header
  <2>2. asked = adjust_request_size(x, align)
    BY <1>2 DEF AlignedRequest
  <2> HIDE DEF x
  <2>3. up \in Nat /\ up >= x
    BY <2>1, AlignUp
  <2>4. asked = IF up >= block_size_max THEN 0 ELSE IF up < block_size_min THEN block_size_min ELSE up
    BY <2>1, <2>2 DEF adjust_request_size
  <2> HIDE DEF up
  <2> QED BY <1>2, <2>1, <2>3, <2>4, Numbers DEF block_size_min
<1> QED BY <1>1, <1>2

(* tlsf_memalign, as tlsf_malloc, and what it answers is aligned.            *)
THEOREM MemalignIsSound ==
  ASSUME NEW m, NEW ext, Valid(m, ext), NEW c \in DOMAIN ext,
         NEW align \in Nat \ {0}, NEW size \in Nat
  PROVE  LET r == tlsf_memalign(m, c, align, size)
         IN  /\ Allocated(m, r, ext, c, size)
             /\ r.ptr # NO_BLOCK => IsMultiple(r.ptr, align)
<1> DEFINE adjust == adjust_request_size(size, 1)
           asked  == AlignedRequest(adjust, align)
           found  == LocatedBlock(m, c, asked)
           gap    == AlignGap(found, align)
           m1     == block_locate_free(m, c, asked)
           b      == IF gap = 0 THEN found ELSE trimmed_start(m1, found, gap)
           m2     == IF gap = 0 THEN m1 ELSE block_trim_free_leading(m1, c, found, gap)
           n      == block_prepare_used(m2, c, b, adjust)
           r      == tlsf_memalign(m, c, align, size)
<1>1. r = IF found = NO_BLOCK THEN [mem |-> m, ptr |-> NO_BLOCK] ELSE [mem |-> n, ptr |-> block_to_ptr(b)]
  BY DEF tlsf_memalign, Returns
<1> HIDE DEF r
<1>2. /\ adjust \in Nat /\ adjust < block_size_max
      /\ adjust # 0 => adjust >= size /\ adjust >= block_size_min
  BY AdjustedSize
<1> HIDE DEF adjust
<1>3. /\ asked \in Nat /\ asked < block_size_max
      /\ asked # 0 => /\ adjust # 0 /\ asked >= adjust
                      /\ align > 1 => asked >= adjust + align + 4
  BY <1>2, AlignedRequestProperties
<1> HIDE DEF asked
<1>4. CASE found = NO_BLOCK
  BY <1>1, <1>4 DEF Allocated, r, NO_BLOCK
<1>5. CASE found # NO_BLOCK
  <2>1. asked # 0
    <3>1. LocateIndex(m, c, asked) # {}
      BY <1>5 DEF LocatedBlock
    <3> QED BY <3>1 DEF LocateIndex
  <2>2. Between(m, ext, {}, {}) /\ ~m.abort
    BY DEF Valid
  <2> HIDE DEF found
  <2>3. Located(m, m1, ext, c, found, asked)
    BY <1>3, <1>5, <2>2, LocateFree DEF found
  <2> HIDE DEF m1
  <2>4. /\ Between(m1, ext, {}, {found}) /\ m1.blk = m.blk /\ m1.abort = m.abort
        /\ found \in DOMAIN m.blk /\ m.blk[found].free /\ m.blk[found].size >= asked
        /\ In(ext, c, found)
    BY <2>3 DEF Located, Relisted
  <2>5. found \in Nat \ {0} /\ m.blk[found].size \in Nat
    BY <2>2, <2>4, BlockParts
  <2>6. /\ gap \in Nat /\ (gap = 0 \/ gap >= sizeof_block_header)
        /\ IsMultiple(block_to_ptr(found) + gap, align)
        /\ gap <= align + 3 /\ (align = 1 => gap = 0)
    BY <2>5, AlignGapProperties
  <2> HIDE DEF gap
  <2>7. Prepared(m2, n, ext, b, adjust) /\ m2.abort = m.abort
        /\ Intact(m.blk, m2.blk, {}) /\ Steady(m.blk, m2.blk, {})
        /\ ~Used(m.blk, b) /\ b = found + gap /\ In(ext, c, b)
    <3>1. CASE gap = 0
      <4>1. b = found /\ m2 = m1 /\ found + gap = found
        BY <2>5, <3>1
      <4>2. /\ found \in DOMAIN m1.blk /\ m1.blk[found].free /\ m1.blk[found].size >= adjust
            /\ adjust >= block_size_min
        BY <1>2, <1>3, <2>1, <2>4, <2>5
      <4>3. Prepared(m1, block_prepare_used(m1, c, found, adjust), ext, found, adjust)
        BY <1>2, <2>4, <4>2, PrepareUsed
      <4>4. ~Used(m.blk, found)
        BY <2>4 DEF Used
      <4> QED BY <2>4, <4>1, <4>3, <4>4, SteadyAlone DEF Intact
    <3>2. CASE gap # 0
      <4>1. b = trimmed_start(m1, found, gap) /\ m2 = block_trim_free_leading(m1, c, found, gap)
        BY <3>2
      <4>2. /\ found \in DOMAIN m1.blk /\ m1.blk[found].free /\ gap >= sizeof_block_header
            /\ m1.blk[found].size >= sizeof_block_header + gap
            /\ m1.blk[found].size - gap >= adjust /\ adjust >= block_size_min
        <5>1. align > 1
          BY <2>6, <3>2
        <5>2. m.blk[found].size >= adjust + align + 4 /\ adjust >= 3
          BY <1>2, <1>3, <2>1, <2>4, <2>5, <5>1 DEF block_size_min
        <5> QED BY <1>2, <2>4, <2>5, <2>6, <3>2, <5>2 DEF sizeof_block_header, block_size_min
      <4> HIDE DEF m2, b
      <4>3. TrimmedLeading(m1, m2, ext, c, found, b, gap)
        BY <2>4, <2>6, <4>1, <4>2, TrimLeading
      <4>4. /\ Between(m2, ext, {found}, {b}) /\ m2.abort = m.abort
            /\ b \in DOMAIN m2.blk /\ m2.blk[b].free /\ m2.blk[b].size >= adjust
            /\ b = found + gap /\ found \in DOMAIN m2.blk /\ found # b /\ NextOf(m2.blk, found) = b
            /\ In(ext, c, b) /\ b \notin DOMAIN m.blk
            /\ Intact(m.blk, m2.blk, {}) /\ Steady(m.blk, m2.blk, {})
        BY <2>4, <4>2, <4>3 DEF TrimmedLeading
      <4>5. \E a \in DOMAIN m2.blk : {found} = {a} /\ a # b /\ NextOf(m2.blk, a) = b
        BY <4>4
      <4>6. Prepared(m2, n, ext, b, adjust)
        BY <1>2, <4>2, <4>4, <4>5, PrepareUsed
      <4> QED BY <4>4, <4>6 DEF Used
    <3> QED BY <3>1, <3>2
  <2> HIDE DEF m2, b, n
  <2>8. /\ Between(n, ext, {}, {}) /\ ~n.abort /\ Used(n.blk, b) /\ n.blk[b].size >= adjust
        /\ Intact(m2.blk, n.blk, {}) /\ Steady(m2.blk, n.blk, {b})
    BY <2>2, <2>7 DEF Prepared
  <2>9. Intact(m.blk, n.blk, {})
    <3>1. Intact(m.blk, n.blk, {} \cup {})
      BY <2>7, <2>8, IntactTransitive
    <3>2. {} \cup {} = {}
      OBVIOUS
    <3> QED BY <3>1, <3>2
  <2>10. n.blk[b].size >= size
    <3>1. n.blk[b].size \in Nat
      BY <2>8, BlockParts DEF Used
    <3> QED BY <1>2, <1>3, <2>1, <2>8, <3>1
  <2>11. /\ b \in Nat \ {0} /\ block_to_ptr(b) = block_to_ptr(found) + gap
    BY <2>5, <2>6, <2>7 DEF block_to_ptr, block_start_offset
  <2>12. r = [mem |-> n, ptr |-> block_to_ptr(b)]
    BY <1>1, <1>5 DEF n, b, m2
  <2>13. block_from_ptr(r.ptr) = b /\ r.mem = n /\ r.ptr = block_to_ptr(b)
    BY <2>11, <2>12, PointerOfBlock
  <2>90. Steady(m.blk, n.blk, {b})
    BY <2>7, <2>8 DEF Steady, Used
  <2>14. Allocated(m, r, ext, c, size)
    BY <2>7, <2>8, <2>9, <2>90, <2>10, <2>11, <2>13, PointerOfBlock DEF Allocated, Valid
  <2>15. IsMultiple(r.ptr, align)
    BY <2>6, <2>11, <2>13
  <2> QED BY <2>14, <2>15 DEF r
<1> QED BY <1>4, <1>5

-----------------------------------------------------------------------------
(* Creating a heap *)

(* What a heap is created in: memory that belongs to no other heap; with a   *)
(* heap of the same size in it, if there is one.                             *)
MayCreate(ext, c, words) ==
  /\ c \in Nat \ {0} /\ words \in Nat /\ words <= block_size_max
  /\ Layout(With(ext, c, words))
  /\ c \in DOMAIN ext => ext[c] = words

LEMMA NewControl == control_construct \in ControlType
  BY DEF control_construct, ControlType, FL, SL

(* Which blocks lie in the words of the new heap. *)
LEMMA NotInNew ==
  ASSUME NEW m, NEW ext, Between(m, ext, {}, {}), NEW c, NEW words, MayCreate(ext, c, words),
         NEW b \in DOMAIN m.blk, NEW d \in DOMAIN ext, In(ext, d, b)
  PROVE  (d = c) <=> b \in c .. c + words - 1
<1> DEFINE new == With(ext, c, words)
<1>1. /\ c \in Nat /\ words \in Nat /\ Layout(new) /\ DOMAIN new = DOMAIN ext \cup {c}
      /\ new[c] = words /\ (d # c => new[d] = ext[d]) /\ (d = c => ext[d] = words)
  BY DEF MayCreate, With
<1> HIDE DEF new
<1>2. d \in Nat /\ ext[d] \in Nat /\ b \in Nat
  BY DEF Between, Layout
<1>3. d <= b /\ b < d + ext[d]
  BY DEF In
<1>4. d # c => c + words <= d \/ d + ext[d] <= c
  BY <1>1 DEF Layout
<1> QED BY <1>1, <1>2, <1>3, <1>4

(* The control is there, and what was in its words is gone. *)
Created(m, n, new, c, words) ==
  /\ Between(n, new, {}, {}) /\ n.abort = m.abort
  /\ DOMAIN n.blk = DOMAIN m.blk \ (c .. c + words - 1)
  /\ \A a \in DOMAIN n.blk : n.blk[a] = m.blk[a]
  /\ Starts(n.blk) = Starts(m.blk) \ (c .. c + words - 1)

LEMMA Creating ==
  ASSUME NEW m, NEW ext, Between(m, ext, {}, {}), NEW c, NEW words, MayCreate(ext, c, words)
  PROVE  Created(m, tlsf_create(m, c, words), With(ext, c, words), c, words)
<1> DEFINE new  == With(ext, c, words)
           n    == tlsf_create(m, c, words)
           D    == DOMAIN m.blk
           gone == c .. c + words - 1
           F    == D \ gone
           C    == DOMAIN ext
           G    == C \cup {c}
           h    == m.blk
           k    == n.blk
<1>1. /\ m \in Memory(D, C) /\ h \in Headers(D) /\ D \subseteq Nat \ {0} /\ DOMAIN h = D
      /\ Layout(ext) /\ Tiled(h) /\ Linked(h) /\ Placed(h, ext) /\ FreeApart(h, {})
  BY Parts
<1>2. /\ DOMAIN new = G /\ Layout(new) /\ new[c] = words /\ c \in Nat /\ words \in Nat
      /\ \A d \in C : d # c => new[d] = ext[d]
  BY DEF MayCreate, With
<1>3. \A b \in D, d \in C : In(ext, d, b) => (d = c <=> b \in gone)
  <2> HIDE DEF gone
  <2> QED BY NotInNew DEF gone
<1>4. /\ n \in Memory(F, G) /\ n.abort = m.abort
      /\ n.tlsf = With(m.tlsf, c, control_construct) /\ k = Restrict(h, F)
  <2>0. m = [blk |-> m.blk, tlsf |-> m.tlsf, abort |-> m.abort]
    <3> HIDE DEF D, C
    <3> QED BY <1>1 DEF Memory
  <2>a. n = [[m EXCEPT !.tlsf = With(m.tlsf, c, control_construct)]
               EXCEPT !.blk = Restrict(m.blk, DOMAIN m.blk \ (c .. c + words - 1))]
    BY <2>0 DEF tlsf_create
  <2> DEFINE T == With(m.tlsf, c, control_construct)
             B == Restrict(m.blk, DOMAIN m.blk \ (c .. c + words - 1))
  <2> HIDE DEF n, T, B
  <2>b. n = [[m EXCEPT !.tlsf = T] EXCEPT !.blk = B]
    BY <2>a DEF T, B
  <2>c. n = [blk |-> B, tlsf |-> T, abort |-> m.abort]
    BY <2>0, <2>b
  <2>1. /\ n.abort = m.abort /\ n.tlsf = With(m.tlsf, c, control_construct)
        /\ k = Restrict(m.blk, DOMAIN m.blk \ (c .. c + words - 1))
        /\ n = [blk |-> k, tlsf |-> n.tlsf, abort |-> n.abort]
    BY <2>c DEF T, B
  <2>2. With(m.tlsf, c, control_construct) \in [G -> ControlType]
    <3> HIDE DEF G
    <3>1. m.tlsf \in [C -> ControlType] /\ DOMAIN m.tlsf = C /\ G = C \cup {c}
      BY <1>1 DEF Memory, G
    <3> HIDE DEF C
    <3> QED BY <3>1, NewControl DEF With
  <2>3. Restrict(h, F) \in [F -> HeaderType]
    BY <1>1 DEF Headers, Restrict
  <2>4. n.abort \in BOOLEAN
    BY <1>1, <2>1 DEF Memory
  <2> HIDE DEF n
  <2> QED BY <2>1, <2>2, <2>3, <2>4 DEF Memory
<1> HIDE DEF n, new, gone
<1>5. /\ k \in Headers(F) /\ DOMAIN k = F /\ F \subseteq D /\ F \subseteq Nat \ {0}
      /\ \A a \in D : a \in F <=> a \notin gone
      /\ \A a \in F : k[a] = h[a] /\ NextOf(k, a) = NextOf(h, a)
  <2>1. k \in Headers(F) /\ DOMAIN k = F
    BY <1>4, MemoryHeaders
  <2>2. \A a \in F : k[a] = h[a]
    BY <1>1, <1>4 DEF Restrict
  <2> HIDE DEF h, k
  <2> QED BY <1>1, <2>1, <2>2 DEF NextOf
<1>6. \A b \in F : \E d \in C \ {c} : In(ext, d, b)
  BY <1>1, <1>3, <1>5 DEF Placed
<1>7. \A b \in D, d \in C : In(ext, d, b) /\ d # c => b \in F
  BY <1>3, <1>5
<1>8. \A b \in G : b \in Nat
  BY <1>2 DEF Layout
<1> HIDE DEF D, F, C, G
<1>9. \A b \in D, d \in C : h[b].size # 0 /\ In(ext, d, b) => NextOf(h, b) \in D /\ In(ext, d, NextOf(h, b))
  <2> SUFFICES ASSUME NEW b \in D, NEW d \in C, h[b].size # 0, In(ext, d, b)
               PROVE  NextOf(h, b) \in D /\ In(ext, d, NextOf(h, b))
    OBVIOUS
  <2>1. NextOf(h, b) \in D
    BY <1>1 DEF Tiled
  <2>2. b \in D /\ d \in DOMAIN ext /\ b <= NextOf(h, b) /\ NextOf(h, b) <= NextOf(h, b) /\ NextOf(h, b) \in Nat
    <3>1. NextOf(h, b) \in Nat /\ NextOf(h, b) > b /\ b \in Nat
      <4> HIDE DEF h
      <4> QED BY <1>1, NextNumbers
    <3> QED BY <3>1 DEF C
  <2> HIDE DEF h
  <2> QED BY <1>1, <2>1, <2>2, NextIsOwned
<1>10. \A b \in F : h[b].size # 0 => NextOf(h, b) \in F
  BY <1>5, <1>6, <1>7, <1>9
<1>11. \A b \in F : h[b].prev_free => h[b].prev_phys \in F
  <2> SUFFICES ASSUME NEW b \in F, h[b].prev_free PROVE h[b].prev_phys \in F
    OBVIOUS
  <2> DEFINE p == h[b].prev_phys
  <2>1. b \in D /\ p \in D /\ h[p].size # 0 /\ NextOf(h, p) = b
    BY <1>1, <1>5 DEF Linked
  <2>2. PICK d \in C : In(ext, d, p)
    BY <1>1, <2>1 DEF Placed, C
  <2>3. In(ext, d, b)
    BY <1>9, <2>1, <2>2
  <2>4. d # c
    BY <1>3, <1>5, <2>1, <2>3
  <2> QED BY <1>7, <2>1, <2>2, <2>4
<1>12. Tiled(k)
  <2> HIDE DEF h, k
  <2> QED BY <1>1, <1>5, <1>10 DEF Tiled
<1>13. Linked(k)
  <2> HIDE DEF h, k
  <2> QED BY <1>1, <1>5, <1>10, <1>11 DEF Linked
<1>14. FreeApart(k, {})
  <2>1. \A b \in F : h[b].free => NextOf(h, b) \in F
    BY <1>1, <1>5, <1>10 DEF Tiled
  <2> HIDE DEF h, k
  <2> QED BY <1>1, <1>5, <2>1 DEF FreeApart
<1>15. \A b \in F, d \in G : In(new, d, b) <=> d \in C /\ d # c /\ In(ext, d, b)
  <2> SUFFICES ASSUME NEW b \in F, NEW d \in G
               PROVE  In(new, d, b) <=> d \in C /\ d # c /\ In(ext, d, b)
    OBVIOUS
  <2>1. b \in Nat /\ b \notin gone
    BY <1>5
  <2>2. CASE d = c
    <3>1. ~In(new, c, b)
      BY <1>2, <2>1 DEF In, gone
    <3> QED BY <2>2, <3>1
  <2>3. CASE d # c
    <3>1. d \in C /\ new[d] = ext[d]
      BY <1>2, <2>3 DEF G
    <3> QED BY <2>3, <3>1 DEF In
  <2> QED BY <2>2, <2>3
<1>16. Placed(k, new)
  <2> SUFFICES ASSUME NEW b \in F
               PROVE  /\ \E d \in G : In(new, d, b)
                      /\ \A d \in G : In(new, d, b) /\ k[b].size # 0 => NextOf(k, b) + 1 < d + new[d]
    BY <1>2, <1>5 DEF Placed
  <2>1. \E d \in G : In(new, d, b)
    BY <1>6, <1>15 DEF G
  <2>2. ASSUME NEW d \in G, In(new, d, b), k[b].size # 0 PROVE NextOf(k, b) + 1 < d + new[d]
    <3>1. d \in C /\ d # c /\ In(ext, d, b) /\ new[d] = ext[d]
      BY <1>2, <1>15, <2>2
    <3>2. b \in D /\ h[b].size # 0 /\ NextOf(k, b) = NextOf(h, b)
      BY <1>5, <2>2
    <3> HIDE DEF h, k
    <3> QED BY <1>1, <3>1, <3>2 DEF Placed, C
  <2> QED BY <2>1, <2>2
<1>17. /\ c \in G /\ n.tlsf[c] = control_construct
       /\ \A d \in G \ {c} : d \in C /\ n.tlsf[d] = m.tlsf[d]
  <2>1. DOMAIN m.tlsf = C
    BY <1>1, MemoryHeaders
  <2> QED BY <1>4, <2>1 DEF G, With
<1>18. /\ \A fl \in FL, sl \in SL : control_construct.blocks[fl][sl] = <<>>
       /\ \A fl \in FL : control_construct.sl_bitmap[fl] = {}
       /\ control_construct.fl_bitmap = {}
  BY DEF control_construct, FL, SL
<1>19. ListsOK(k, n.tlsf, new, {})
  <2> SUFFICES ASSUME NEW d \in G, NEW fl \in FL, NEW sl \in SL
               PROVE  /\ ToSet(n.tlsf[d].blocks[fl][sl]) = Belong(k, new, {}, d, fl, sl)
                      /\ NoRepeat(n.tlsf[d].blocks[fl][sl])
    BY <1>2 DEF ListsOK
  <2>1. CASE d = c
    <3>1. n.tlsf[d].blocks[fl][sl] = <<>>
      BY <1>17, <1>18, <2>1
    <3>2. Belong(k, new, {}, d, fl, sl) = {}
      BY <1>5, <1>15, <2>1 DEF Belong
    <3>3. ToSet(<<>>) = {} /\ NoRepeat(<<>>)
      BY DEF ToSet, NoRepeat
    <3> QED BY <3>1, <3>2, <3>3
  <2>2. CASE d # c
    <3>1. d \in C /\ n.tlsf[d] = m.tlsf[d]
      BY <1>17, <2>2
    <3>2. /\ ToSet(m.tlsf[d].blocks[fl][sl]) = Belong(h, ext, {}, d, fl, sl)
          /\ NoRepeat(m.tlsf[d].blocks[fl][sl])
      BY <3>1 DEF Between, ListsOK, C
    <3>3. \A b \in D : In(ext, d, b) => b \in F
      BY <1>7, <2>2, <3>1
    <3>4. \A b \in F : In(new, d, b) <=> In(ext, d, b)
      BY <1>15, <2>2, <3>1
    <3>5. Belong(k, new, {}, d, fl, sl) = Belong(h, ext, {}, d, fl, sl)
      <4> HIDE DEF h, k
      <4> QED BY <1>1, <1>5, <3>3, <3>4 DEF Belong
    <3> QED BY <3>1, <3>2, <3>5
  <2> QED BY <2>1, <2>2
<1>20. BitmapsOK(n.tlsf)
  <2> SUFFICES ASSUME NEW d \in G, NEW fl \in FL
               PROVE  /\ \A sl \in SL : sl \in n.tlsf[d].sl_bitmap[fl] <=> n.tlsf[d].blocks[fl][sl] # <<>>
                      /\ fl \in n.tlsf[d].fl_bitmap <=> n.tlsf[d].sl_bitmap[fl] # {}
    BY <1>4, MemoryHeaders DEF BitmapsOK
  <2>1. CASE d = c
    BY <1>17, <1>18, <2>1
  <2>2. CASE d # c
    <3>1. d \in DOMAIN m.tlsf /\ n.tlsf[d] = m.tlsf[d]
      BY <1>1, <1>17, <2>2, MemoryHeaders
    <3> QED BY <3>1 DEF Between, BitmapsOK
  <2> QED BY <2>1, <2>2
<1>21. Between(n, new, {}, {})
  <2>1. n \in Memory(DOMAIN n.blk, DOMAIN new) /\ DOMAIN n.blk \subseteq Nat \ {0}
    BY <1>2, <1>4, <1>5
  <2> QED BY <1>2, <1>12, <1>13, <1>14, <1>16, <1>19, <1>20, <2>1 DEF Between
<1>22. Starts(k) = Starts(h) \ gone
  <2>1. ASSUME NEW b \in F, NEW a \in D, h[a].size # 0, NextOf(h, a) = b PROVE a \in F
    <3>1. PICK d \in C : In(ext, d, a)
      BY <1>1, <2>1 DEF Placed, C
    <3>2. b \in D /\ In(ext, d, b)
      BY <1>9, <2>1, <3>1
    <3>3. d # c
      BY <1>3, <1>5, <3>2
    <3> QED BY <1>7, <2>1, <3>1, <3>3
  <2> HIDE DEF h, k
  <2> QED BY <1>1, <1>5, <2>1 DEF Starts
<1> QED BY <1>4, <1>5, <1>21, <1>22 DEF Created, n, new, F, gone, D


-----------------------------------------------------------------------------
(* Adding its pool *)

(* Headers h become k: the words of c get a free block, and the header that  *)
(* ends them.                                                                *)
IsPooled(h, k, b, last) ==
  /\ DOMAIN k = DOMAIN h \cup {b, last}
  /\ \A a \in DOMAIN h : k[a] = h[a]
  /\ k[b].size = last - b - 1 /\ k[b].free = TRUE
  /\ k[b].prev_free = FALSE /\ k[b].prev_phys = NO_BLOCK
  /\ k[last].size = 0 /\ k[last].free = FALSE
  /\ k[last].prev_free = TRUE /\ k[last].prev_phys = b

(* Where they lie, the words of c being empty. *)
PoolPlace(D, new, c, b, last) ==
  /\ c \in DOMAIN new /\ b \in Nat \ {0} /\ last \in Nat \ {0}
  /\ c <= b /\ last = c + new[c] - 2 /\ last - b - 1 >= block_size_min
  /\ \A a \in D : ~In(new, c, a)

LEMMA PoolIsNew ==
  ASSUME NEW D, D \subseteq Nat \ {0}, NEW h \in Headers(D), NEW new, Layout(new), Placed(h, new),
         NEW c, NEW b, NEW last, PoolPlace(D, new, c, b, last)
  PROVE  /\ c \in Nat /\ new[c] \in Nat /\ b \notin D /\ last \notin D /\ b # last
         /\ In(new, c, b) /\ In(new, c, last)
         /\ \A a \in D : a < c \/ a >= c + new[c]
         /\ \A a \in D : h[a].size # 0 => NextOf(h, a) < c \/ a >= c + new[c]
<1>1. /\ c \in Nat /\ new[c] \in Nat /\ b \in Nat /\ last \in Nat /\ last - b - 1 >= 3
      /\ c <= b /\ last = c + new[c] - 2
  BY DEF PoolPlace, Layout, block_size_min
<1>2. b # last /\ In(new, c, b) /\ In(new, c, last)
  BY <1>1 DEF In
<1>3. b \notin D /\ last \notin D
  BY <1>2 DEF PoolPlace
<1>4. \A a \in D : a < c \/ a >= c + new[c]
  BY <1>1 DEF PoolPlace, In
<1>5. ASSUME NEW a \in D, h[a].size # 0 PROVE NextOf(h, a) < c \/ a >= c + new[c]
  <2>0. DOMAIN h = D
    BY DEF Headers
  <2>1. PICK d \in DOMAIN new : In(new, d, a)
    BY <2>0 DEF Placed
  <2>2. d # c /\ c \in DOMAIN new
    BY <2>1 DEF PoolPlace
  <2>3. NextOf(h, a) + 1 < d + new[d]
    BY <1>5, <2>0, <2>1 DEF Placed
  <2>4. c + new[c] <= d \/ d + new[d] <= c
    BY <2>2 DEF Layout
  <2>5. d \in Nat /\ new[d] \in Nat /\ a \in Nat /\ NextOf(h, a) \in Nat
    BY NextNumbers DEF Layout
  <2> QED BY <1>1, <2>1, <2>3, <2>4, <2>5 DEF In
<1> QED BY <1>1, <1>2, <1>3, <1>4, <1>5

PooledRows(k, new) == Tiled(k) /\ Linked(k) /\ Placed(k, new) /\ FreeApart(k, {})

LEMMA PooledRow ==
  ASSUME NEW D, D \subseteq Nat \ {0}, NEW h \in Headers(D), NEW new, Layout(new),
         Tiled(h), Linked(h), Placed(h, new), FreeApart(h, {}),
         NEW c, NEW b, NEW last, PoolPlace(D, new, c, b, last),
         NEW k, IsPooled(h, k, b, last)
  PROVE  PooledRows(k, new)
<1>1. /\ c \in Nat /\ new[c] \in Nat /\ b \notin D /\ last \notin D /\ b # last
      /\ In(new, c, b) /\ In(new, c, last)
      /\ \A a \in D : a < c \/ a >= c + new[c]
      /\ \A a \in D : h[a].size # 0 => NextOf(h, a) < c \/ a >= c + new[c]
  BY PoolIsNew
<1>2. /\ c \in DOMAIN new /\ b \in Nat /\ last \in Nat /\ last - b - 1 >= block_size_min
      /\ c <= b /\ last = c + new[c] - 2 /\ b < last /\ last - b - 1 \in Nat /\ last - b - 1 # 0
  BY <1>1 DEF PoolPlace, block_size_min
<1> DEFINE F == D \cup {b, last}
<1>3. DOMAIN h = D /\ DOMAIN k = F /\ F \subseteq Nat
  BY <1>2 DEF Headers, IsPooled
<1>4. \A a \in D : k[a] = h[a] /\ NextOf(k, a) = NextOf(h, a) /\ (h[a].size # 0 => NextOf(h, a) \in D)
  BY <1>3 DEF IsPooled, NextOf, Tiled
<1>5. /\ k[b].size = last - b - 1 /\ k[b].free = TRUE /\ k[b].prev_free = FALSE /\ k[b].prev_phys = NO_BLOCK
      /\ k[last].size = 0 /\ k[last].free = FALSE /\ k[last].prev_free = TRUE /\ k[last].prev_phys = b
      /\ NextOf(k, b) = last
  BY <1>2 DEF IsPooled, NextOf
<1>6. \A a \in D : h[a].size # 0 => NextOf(h, a) \in Nat /\ h[a].size \in Nat
  BY NextNumbers
<1> HIDE DEF F
<1>7. \A a \in F : a \in D \/ a = b \/ a = last
  BY DEF F
<1>8. D \subseteq F /\ b \in F /\ last \in F
  BY DEF F
<1>9. Tiled(k)
  <2> SUFFICES ASSUME NEW x \in F
               PROVE  /\ k[x].size = 0 => ~k[x].free
                      /\ k[x].size # 0 =>
                           /\ k[x].size >= block_size_min
                           /\ NextOf(k, x) \in F
                           /\ \A a \in F : a <= x \/ a >= NextOf(k, x)
    BY <1>3 DEF Tiled
  <2>1. CASE x \in D
    <3>1. k[x].size = 0 => ~k[x].free
      BY <1>3, <1>4, <2>1 DEF Tiled
    <3>2. ASSUME k[x].size # 0
          PROVE  /\ k[x].size >= block_size_min /\ NextOf(k, x) \in F
                 /\ \A a \in F : a <= x \/ a >= NextOf(k, x)
      <4>1. h[x].size # 0 /\ NextOf(k, x) = NextOf(h, x) /\ k[x].size = h[x].size
        BY <1>4, <2>1, <3>2
      <4>2. h[x].size >= block_size_min /\ NextOf(h, x) \in D /\ \A a \in D : a <= x \/ a >= NextOf(h, x)
        BY <1>3, <2>1, <4>1 DEF Tiled
      <4>3. NextOf(h, x) \in Nat /\ x \in Nat /\ (NextOf(h, x) < c \/ x >= c + new[c])
        BY <1>1, <1>6, <2>1, <4>1
      <4>4. (b <= x \/ b >= NextOf(h, x)) /\ (last <= x \/ last >= NextOf(h, x))
        BY <1>1, <1>2, <4>3
      <4> QED BY <1>7, <1>8, <4>1, <4>2, <4>4
    <3> QED BY <3>1, <3>2
  <2>2. CASE x = b
    <3>1. \A a \in D : a <= b \/ a >= last
      <4> SUFFICES ASSUME NEW a \in D PROVE a <= b \/ a >= last
        OBVIOUS
      <4>1. a \in Nat /\ (a < c \/ a >= c + new[c])
        BY <1>1
      <4> QED BY <1>1, <1>2, <4>1
    <3>2. b <= b /\ last >= last
      BY <1>2
    <3> QED BY <1>2, <1>5, <1>7, <1>8, <2>2, <3>1, <3>2
  <2>3. CASE x = last
    BY <1>5, <2>3
  <2> QED BY <1>7, <2>1, <2>2, <2>3
<1>10. Linked(k)
  <2> SUFFICES ASSUME NEW x \in F
               PROVE  /\ k[x].size # 0 => k[NextOf(k, x)].prev_free = k[x].free
                      /\ k[x].prev_free =>
                           /\ k[x].prev_phys \in F
                           /\ k[k[x].prev_phys].size # 0
                           /\ NextOf(k, k[x].prev_phys) = x
                      /\ ~k[x].prev_free => k[x].prev_phys = NO_BLOCK
    BY <1>3 DEF Linked
  <2>1. CASE x \in D
    <3>1. /\ h[x].size # 0 => h[NextOf(h, x)].prev_free = h[x].free
          /\ h[x].prev_free =>
               /\ h[x].prev_phys \in D
               /\ h[h[x].prev_phys].size # 0
               /\ NextOf(h, h[x].prev_phys) = x
          /\ ~h[x].prev_free => h[x].prev_phys = NO_BLOCK
      BY <1>3, <2>1 DEF Linked
    <3>2. k[x] = h[x] /\ NextOf(k, x) = NextOf(h, x) /\ (h[x].size # 0 => k[NextOf(h, x)] = h[NextOf(h, x)])
      BY <1>4, <2>1
    <3>3. h[x].prev_free => /\ k[h[x].prev_phys] = h[h[x].prev_phys]
                            /\ NextOf(k, h[x].prev_phys) = NextOf(h, h[x].prev_phys)
      BY <1>4, <3>1
    <3> QED BY <1>8, <3>1, <3>2, <3>3
  <2>2. CASE x = b
    BY <1>5, <2>2
  <2>3. CASE x = last
    BY <1>2, <1>5, <1>8, <2>3
  <2> QED BY <1>7, <2>1, <2>2, <2>3
<1>11. Placed(k, new)
  <2> SUFFICES ASSUME NEW x \in F
               PROVE  /\ \E d \in DOMAIN new : In(new, d, x)
                      /\ \A d \in DOMAIN new :
                           In(new, d, x) /\ k[x].size # 0 => NextOf(k, x) + 1 < d + new[d]
    BY <1>3 DEF Placed
  <2>1. CASE x \in D
    BY <1>3, <1>4, <2>1 DEF Placed
  <2>2. CASE x = b
    <3>1. \A d \in DOMAIN new : In(new, d, b) => d = c
      BY <1>1, <1>2, OneOwner
    <3>2. NextOf(k, b) + 1 < c + new[c]
      BY <1>1, <1>2, <1>5
    <3> QED BY <1>1, <1>2, <2>2, <3>1, <3>2
  <2>3. CASE x = last
    BY <1>1, <1>2, <1>5, <2>3
  <2> QED BY <1>7, <2>1, <2>2, <2>3
<1>12. FreeApart(k, {})
  <2> SUFFICES ASSUME NEW x \in F, k[x].free, k[NextOf(k, x)].free PROVE FALSE
    BY <1>3 DEF FreeApart
  <2>1. CASE x \in D
    <3>1. h[x].free /\ h[x].size # 0
      BY <1>3, <1>4, <2>1 DEF Tiled
    <3>2. h[NextOf(h, x)].free
      BY <1>4, <2>1, <3>1
    <3> QED BY <1>3, <2>1, <3>1, <3>2 DEF FreeApart
  <2>2. CASE x = b
    BY <1>5, <2>2
  <2>3. CASE x = last
    BY <1>5, <2>3
  <2> QED BY <1>7, <2>1, <2>2, <2>3
<1> QED BY <1>9, <1>10, <1>11, <1>12 DEF PooledRows

(* Two memories that have the same lists have the same after the same insertion. *)
LEMMA SameInsertion ==
  ASSUME NEW D, NEW C, NEW m \in Memory(D, C), NEW F, NEW n \in Memory(F, C),
         n.tlsf = m.tlsf, NEW c \in C, NEW b, NEW at
  PROVE  /\ insert_free_block(n, c, b, at).tlsf = insert_free_block(m, c, b, at).tlsf
         /\ insert_free_block(m, c, b, at).blk = m.blk
         /\ insert_free_block(m, c, b, at).abort = m.abort
<1> DEFINE t == m.tlsf[c]
           sl_map == [t.sl_bitmap EXCEPT ![at.fl] = @ \cup {at.sl}]
           lists  == [t.blocks EXCEPT ![at.fl][at.sl] = Cons(b, @)]
           x == [blocks |-> lists, sl_bitmap |-> sl_map, fl_bitmap |-> t.fl_bitmap \cup {at.fl}]
<1>1. /\ insert_free_block(m, c, b, at) = [m EXCEPT !.tlsf[c] = x]
      /\ insert_free_block(n, c, b, at) = [n EXCEPT !.tlsf[c] = x]
  BY DEF insert_free_block
<1> HIDE DEF x
<1>2. [m EXCEPT !.tlsf[c] = x].tlsf = [n EXCEPT !.tlsf[c] = x].tlsf
  BY DEF Memory
<1>3. [m EXCEPT !.tlsf[c] = x].blk = m.blk /\ [m EXCEPT !.tlsf[c] = x].abort = m.abort
  BY DEF Memory
<1> QED BY <1>1, <1>2, <1>3

(* Room for a control and the smallest of pools.                             *)
FitsPool(words) == words >= TLSF_SIZE + pool_overhead + block_size_min

(* The first block of the heap at c is free, and all there is.               *)
Whole(h, c, words) ==
  LET first == FirstBlock(tlsf_get_pool(c))
  IN  /\ first \in DOMAIN h /\ h[first].free = TRUE /\ h[first].size # 0
      /\ h[first].size = words - TLSF_SIZE - pool_overhead

(* The pool is refused for its size, or it is there, with one free block.    *)
PoolAdded(m, n, new, c, words) ==
  /\ Between(n, new, {}, {}) /\ n.abort = m.abort
  /\ \A a \in DOMAIN m.blk : a \in DOMAIN n.blk /\ n.blk[a] = m.blk[a]
  /\ \A a \in DOMAIN n.blk : a \in DOMAIN m.blk \/ ~Used(n.blk, a)
  /\ FitsPool(words) => /\ Starts(n.blk) = Starts(m.blk) \cup {FirstBlock(tlsf_get_pool(c))}
                        /\ Whole(n.blk, c, words)

LEMMA AddPool ==
  ASSUME NEW m, NEW new, Between(m, new, {}, {}), NEW c \in DOMAIN new,
         NEW words, words = new[c], \A a \in DOMAIN m.blk : ~In(new, c, a)
  PROVE  PoolAdded(m, tlsf_add_pool(m, c, tlsf_get_pool(c), words - TLSF_SIZE), new, c, words)
<1> DEFINE D    == DOMAIN m.blk
           C    == DOMAIN new
           b    == FirstBlock(tlsf_get_pool(c))
           pool == words - TLSF_SIZE - pool_overhead
           last == b + pool + block_header_overhead
           m1   == SetHeader(m, b, Header(pool, TRUE, FALSE))
           m2   == SetHeader(m1, last, Header(0, FALSE, TRUE))
           n    == tlsf_add_pool(m, c, tlsf_get_pool(c), words - TLSF_SIZE)
<1>1. /\ m \in Memory(D, C) /\ m.blk \in Headers(D) /\ D \subseteq Nat \ {0}
      /\ Layout(new) /\ Tiled(m.blk) /\ Linked(m.blk) /\ Placed(m.blk, new) /\ FreeApart(m.blk, {})
  BY Parts
<1>2. c \in Nat \ {0} /\ words \in Nat /\ words <= block_size_max /\ TLSF_SIZE \in Nat \ {0}
  BY <1>1, TlsfAssumption DEF Layout
<1>3. CASE pool < block_size_min \/ pool > block_size_max
  <2>1. n = m
    BY <1>3 DEF tlsf_add_pool
  <2>2. ~FitsPool(words)
    BY <1>2, <1>3, Numbers DEF FitsPool, pool_overhead, block_header_overhead, block_size_min
  <2> HIDE DEF n
  <2> QED BY <2>1, <2>2 DEF PoolAdded, n
<1>4. CASE ~(pool < block_size_min \/ pool > block_size_max)
  <2>1. n = block_link_next(block_insert(m2, c, b), b)
    BY <1>4 DEF tlsf_add_pool
  <2>2. /\ b = c + TLSF_SIZE - 1 /\ pool = words - TLSF_SIZE - 2 /\ last = b + pool + 1
        /\ pool \in Int
    BY <1>2 DEF FirstBlock, tlsf_get_pool, pool_overhead, block_header_overhead
  <2> HIDE DEF b, pool, last, D, C, n
  <2>3. block_size_max \in Int
    <3> USE Numbers
    <3> QED BY <1>4 DEF block_size_min
  <2>4. /\ pool \in Nat /\ pool >= block_size_min /\ b \in Nat \ {0} /\ last \in Nat \ {0} /\ c <= b
        /\ last = c + new[c] - 2 /\ last - b - 1 >= block_size_min /\ last - b - 1 = pool
    BY <1>2, <1>4, <2>2, <2>3 DEF block_size_min
  <2>5. PoolPlace(D, new, c, b, last)
    BY <2>4 DEF PoolPlace, D
  <2>6. b \notin D /\ last \notin D /\ b # last /\ In(new, c, b)
    <3>1. b # last /\ In(new, c, b) /\ In(new, c, last)
      BY <1>2, <2>4 DEF In, block_size_min
    <3> QED BY <3>1 DEF D
  <2>7. Changed(D \cup {b}, C, m, m1, b, pool, TRUE, FALSE, NO_BLOCK)
    BY <1>1, <2>4, NewHeader
  <2>8. m2 = SetHeader(m1, last, Header(0, FALSE, TRUE))
    OBVIOUS
  <2> HIDE DEF m2, m1
  <2>9. m1 \in Memory(D \cup {b}, C)
    BY <2>7 DEF Changed
  <2> DEFINE F == (D \cup {b}) \cup {last}
  <2>10. Changed(F, C, m1, m2, last, 0, FALSE, TRUE, NO_BLOCK)
    BY <2>8, <2>9, NewHeader
  <2>11. b \in F /\ last \in F /\ F \subseteq Nat \ {0} /\ D \subseteq F /\ b \in D \cup {b}
    BY <1>1, <2>4
  <2>12. \A a \in F : a \in D \/ a = b \/ a = last
    OBVIOUS
  <2>120. F = D \cup {b, last}
    OBVIOUS
  <2> HIDE DEF F
  <2>13. /\ m2 \in Memory(F, C) /\ DOMAIN m2.blk = F /\ m2.tlsf = m.tlsf /\ m2.abort = m.abort
         /\ DOMAIN m1.blk = D \cup {b} /\ DOMAIN m.blk = D
    BY <1>1, <2>7, <2>9, <2>10, MemoryHeaders DEF Changed
  <2>14. /\ \A a \in D : m2.blk[a] = m.blk[a]
         /\ m2.blk[b].size = pool /\ m2.blk[b].free = TRUE
         /\ m2.blk[b].prev_free = FALSE /\ m2.blk[b].prev_phys = NO_BLOCK
         /\ m2.blk[last].size = 0 /\ m2.blk[last].free = FALSE /\ m2.blk[last].prev_free = TRUE
    <3>1. \A a \in D : m1.blk[a] = m.blk[a]
      BY <2>6, <2>7, <2>13 DEF Changed
    <3>2. \A a \in D \cup {b} : m2.blk[a] = m1.blk[a]
      BY <2>6, <2>10, <2>13 DEF Changed
    <3> QED BY <2>7, <2>10, <2>11, <3>1, <3>2 DEF Changed
  <2>15. NextOf(m2.blk, b) = last /\ m2.blk[b].size # 0
    BY <2>2, <2>4, <2>14 DEF NextOf, block_size_min
  <2> DEFINE q == block_link_next(m2, b)
             p == block_insert(m2, c, b)
             r == block_insert(q, c, b)
             at == mapping_insert(pool)
  <2>16. Changed(F, C, m2, q, last, 0, FALSE, TRUE, b)
    <3>1. Changed(F, C, m2, q, last, m2.blk[last].size, m2.blk[last].free, m2.blk[last].prev_free, b)
      BY <2>11, <2>13, <2>15, LinkingNext
    <3> QED BY <3>1, <2>14
  <2> HIDE DEF q
  <2>17. /\ q \in Memory(F, C) /\ DOMAIN q.blk = F /\ q.tlsf = m.tlsf /\ q.abort = m.abort
         /\ \A a \in F : a # last => q.blk[a] = m2.blk[a]
         /\ q.blk[last].size = 0 /\ q.blk[last].free = FALSE
         /\ q.blk[last].prev_free = TRUE /\ q.blk[last].prev_phys = b
    BY <2>13, <2>16, MemoryHeaders DEF Changed
  <2>18. IsPooled(m.blk, q.blk, b, last)
    <3>1. \A a \in D : q.blk[a] = m.blk[a]
      BY <2>6, <2>11, <2>14, <2>17
    <3>2. q.blk[b] = m2.blk[b]
      BY <2>6, <2>11, <2>17
    <3> QED BY <2>4, <2>13, <2>14, <2>17, <2>120, <3>1, <3>2 DEF IsPooled
  <2>19. PooledRows(q.blk, new)
    <3> DEFINE h == m.blk
               k == q.blk
    <3>1. h \in Headers(D) /\ Tiled(h) /\ Linked(h) /\ Placed(h, new) /\ FreeApart(h, {})
          /\ IsPooled(h, k, b, last)
      BY <1>1, <2>18
    <3> HIDE DEF h, k
    <3>2. PooledRows(k, new)
      BY <1>1, <2>5, <3>1, PooledRow
    <3> QED BY <3>2 DEF k
  <2>20. SameFree(m.blk, q.blk, {}, {b})
    BY <2>6, <2>13, <2>120, <2>18 DEF IsPooled, SameFree
  <2>21. Between(q, new, {}, {b})
    <3>1. /\ q \in Memory(F, DOMAIN new) /\ q.tlsf = m.tlsf /\ F \subseteq Nat \ {0}
          /\ Tiled(q.blk) /\ Linked(q.blk) /\ Placed(q.blk, new) /\ FreeApart(q.blk, {})
      BY <2>11, <2>17, <2>19 DEF PooledRows, C
    <3> QED BY <2>20, <3>1, Rebuild
  <2>22. q.blk[b].free /\ q.blk[b].size = pool /\ b \in DOMAIN q.blk
    BY <2>6, <2>11, <2>14, <2>17
  <2>23. Relisted(q, r, new, {}, {})
    <3>1. Relisted(q, r, new, {}, {b} \ {b})
      BY <2>6, <2>21, <2>22, InsertLists
    <3>2. {b} \ {b} = {}
      OBVIOUS
    <3> QED BY <3>1, <3>2
  <2>24. Between(r, new, {}, {}) /\ r.blk = q.blk /\ r.abort = m.abort
    BY <2>17, <2>23 DEF Relisted
  <2>25. p = insert_free_block(m2, c, b, at) /\ r = insert_free_block(q, c, b, at)
    BY <2>14, <2>22 DEF block_insert
  <2> HIDE DEF p, r, at
  <2>26. p.tlsf = r.tlsf /\ p.blk = m2.blk /\ p.abort = m.abort
    <3>1. c \in C
      BY DEF C
    <3>2. insert_free_block(q, c, b, at).tlsf = insert_free_block(m2, c, b, at).tlsf
      BY <2>13, <2>17, <3>1, SameInsertion
    <3>3. insert_free_block(m2, c, b, at).blk = m2.blk /\ insert_free_block(m2, c, b, at).abort = m2.abort
      BY <2>13, <2>17, <3>1, SameInsertion
    <3> QED BY <2>13, <2>25, <3>2, <3>3
  <2>27. p \in Memory(F, C)
    <3>1. p = [m2 EXCEPT !.tlsf = p.tlsf]
      BY <2>13, <2>25 DEF insert_free_block, Memory
    <3>2. r.tlsf \in [C -> ControlType]
      BY <2>24 DEF Between, Memory, C
    <3> DEFINE T == p.tlsf
    <3>3. p = [m2 EXCEPT !.tlsf = T] /\ T \in [C -> ControlType]
      BY <2>26, <3>1, <3>2
    <3> HIDE DEF T
    <3> QED BY <2>13, <3>3 DEF Memory
  <2>28. Changed(F, C, p, n, last, 0, FALSE, TRUE, b)
    <3>0. NextOf(p.blk, b) = last /\ p.blk[b].size # 0 /\ n = block_link_next(p, b)
      BY <2>1, <2>15, <2>26 DEF NextOf, p
    <3>1. Changed(F, C, p, n, last, p.blk[last].size, p.blk[last].free, p.blk[last].prev_free, b)
      BY <2>11, <2>27, <3>0, LinkingNext
    <3> QED BY <3>1, <2>14, <2>26
  <2>29. n \in Memory(F, C) /\ n.tlsf = r.tlsf /\ n.abort = m.abort /\ DOMAIN n.blk = F
    BY <2>26, <2>28, MemoryHeaders DEF Changed
  <2>30. \A a \in F : n.blk[a] = q.blk[a]
    <3>1. \A a \in F : a # last => n.blk[a] = q.blk[a]
      BY <2>13, <2>17, <2>26, <2>28 DEF Changed
    <3>2. n.blk[last] = q.blk[last]
      <4>1. n.blk[last] \in HeaderType /\ q.blk[last] \in HeaderType
        BY <2>11, <2>17, <2>29 DEF Memory
      <4>2. /\ n.blk[last].size = q.blk[last].size /\ n.blk[last].free = q.blk[last].free
            /\ n.blk[last].prev_free = q.blk[last].prev_free
            /\ n.blk[last].prev_phys = q.blk[last].prev_phys
        BY <2>17, <2>28 DEF Changed
      <4> QED BY <4>1, <4>2 DEF HeaderType
    <3> QED BY <3>1, <3>2
  <2>31. n.blk = q.blk
    <3>1. n.blk \in Headers(F) /\ q.blk \in Headers(F)
      BY <2>17, <2>29, MemoryHeaders
    <3> QED BY <2>30, <3>1 DEF Headers
  <2>32. Between(n, new, {}, {})
    <3>1. n \in Memory(DOMAIN n.blk, DOMAIN new) /\ DOMAIN n.blk \subseteq Nat \ {0}
      BY <2>11, <2>29 DEF C
    <3>2. n.blk = r.blk /\ n.tlsf = r.tlsf
      BY <2>24, <2>29, <2>31
    <3> QED BY <2>24, <3>1, <3>2 DEF Between
  <2>33. \A a \in D : a \in F /\ n.blk[a] = m.blk[a]
    BY <2>13, <2>18, <2>31, <2>11 DEF IsPooled
  <2>34. \A a \in F : a \in D \/ ~Used(n.blk, a)
    BY <2>12, <2>14, <2>17, <2>22, <2>31 DEF Used
  <2>35. Starts(n.blk) = Starts(m.blk) \cup {b}
    <3> DEFINE h == m.blk
               k == q.blk
    <3>1. /\ DOMAIN h = D /\ DOMAIN k = D \cup {b, last} /\ \A a \in D : k[a] = h[a]
          /\ k[b].size # 0 /\ NextOf(k, b) = last /\ k[last].size = 0
      BY <2>13, <2>18, <2>4, <2>2 DEF IsPooled, NextOf, block_size_min
    <3>2. \A a \in D : NextOf(k, a) = NextOf(h, a) /\ (h[a].size # 0 => NextOf(h, a) \in D)
      BY <1>1, <3>1 DEF NextOf, Tiled
    <3> HIDE DEF h, k
    <3>3. Starts(k) = Starts(h) \cup {b}
      BY <2>6, <3>1, <3>2 DEF Starts
    <3> QED BY <2>31, <3>3 DEF h, k
  <2>36. b \in DOMAIN n.blk /\ n.blk[b].free = TRUE /\ n.blk[b].size = pool /\ n.blk[b].size # 0
    <3>1. q.blk[b].free = TRUE
      BY <2>6, <2>11, <2>14, <2>17
    <3> QED BY <2>4, <2>22, <2>31, <3>1 DEF block_size_min
  <2>37. Whole(n.blk, c, words)
    BY <2>36 DEF Whole, b, pool
  <2> QED BY <2>29, <2>32, <2>33, <2>34, <2>35, <2>37 DEF PoolAdded, n, D, b
<1> QED BY <1>3, <1>4

(* tlsf_create_with_pool leaves the heaps in order, with the new one in its  *)
(* memory: of a heap that was there before no block is left, and every block *)
(* of another heap is as it was.  A pool of a wrong size is refused, and the *)
(* heap is one that answers no request; of a right size, a row of blocks     *)
(* starts there.                                                             *)
THEOREM CreateIsSound ==
  ASSUME NEW m, NEW ext, Valid(m, ext), NEW c, NEW words, MayCreate(ext, c, words)
  PROVE  LET n   == tlsf_create_with_pool(m, c, words)
             new == With(ext, c, words)
         IN  /\ Valid(n, new)
             /\ Intact(m.blk, n.blk, c .. c + words - 1)
             /\ \A a \in DOMAIN n.blk : In(new, c, a) => ~Used(n.blk, a)
             /\ \A a \in DOMAIN n.blk : Used(n.blk, a) => Used(m.blk, a)
             /\ FitsPool(words) =>
                  /\ Starts(n.blk) = (Starts(m.blk) \ (c .. c + words - 1))
                                        \cup {FirstBlock(tlsf_get_pool(c))}
                  /\ Whole(n.blk, c, words)
             /\ \A a \in DOMAIN m.blk \ (c .. c + words - 1) :
                  a \in DOMAIN n.blk /\ n.blk[a] = m.blk[a]
<1> DEFINE new == With(ext, c, words)
           n0  == tlsf_create(m, c, words)
           n   == tlsf_create_with_pool(m, c, words)
<1>1. Between(m, ext, {}, {}) /\ ~m.abort
  BY DEF Valid
<1>2. /\ c \in DOMAIN new /\ new[c] = words /\ c \in Nat /\ words \in Nat
  BY DEF MayCreate, With
<1>3. n = tlsf_add_pool(n0, c, tlsf_get_pool(c), words - TLSF_SIZE)
  BY DEF tlsf_create_with_pool
<1>4. Created(m, n0, new, c, words)
  BY <1>1, Creating
<1> HIDE DEF new, n0, n
<1>5. /\ Between(n0, new, {}, {}) /\ ~n0.abort
      /\ DOMAIN n0.blk = DOMAIN m.blk \ (c .. c + words - 1)
      /\ \A a \in DOMAIN n0.blk : n0.blk[a] = m.blk[a]
      /\ DOMAIN n0.blk \subseteq Nat
  BY <1>1, <1>4 DEF Created, Between
<1>6. \A a \in DOMAIN n0.blk : ~In(new, c, a)
  BY <1>2, <1>5 DEF In
<1>7. PoolAdded(n0, n, new, c, words)
  BY <1>2, <1>3, <1>5, <1>6, AddPool
<1>8. Valid(n, new)
  BY <1>5, <1>7 DEF PoolAdded, Valid
<1>9. Intact(m.blk, n.blk, c .. c + words - 1)
  BY <1>5, <1>7 DEF PoolAdded, Intact, Used
<1>10. \A a \in DOMAIN n.blk : In(new, c, a) => ~Used(n.blk, a)
  BY <1>6, <1>7 DEF PoolAdded
<1>11. \A a \in DOMAIN n.blk : Used(n.blk, a) => Used(m.blk, a)
  BY <1>5, <1>7 DEF PoolAdded, Used
<1>12. FitsPool(words) => /\ Starts(n.blk) = (Starts(m.blk) \ (c .. c + words - 1))
                                                \cup {FirstBlock(tlsf_get_pool(c))}
                          /\ Whole(n.blk, c, words)
  BY <1>4, <1>7 DEF PoolAdded, Created
<1>13. \A a \in DOMAIN m.blk \ (c .. c + words - 1) : a \in DOMAIN n.blk /\ n.blk[a] = m.blk[a]
  BY <1>5, <1>7 DEF PoolAdded
<1> QED BY <1>8, <1>9, <1>10, <1>11, <1>12, <1>13 DEF n, new

-----------------------------------------------------------------------------
(* Walking a pool *)

(* One row of blocks for each heap, at the start of its pool.                *)
Headed(h, ext) ==
  /\ Starts(h) = {FirstBlock(tlsf_get_pool(c)) : c \in DOMAIN ext}
  /\ \A b \in Starts(h) : h[b].size # 0
  /\ \A c \in DOMAIN ext : FitsPool(ext[c])

(* A pool begins in its heap, ahead of the words that need not be there.     *)
LEMMA FirstInHeap ==
  ASSUME NEW ext, Layout(ext), NEW c \in DOMAIN ext, FitsPool(ext[c])
  PROVE  /\ FirstBlock(tlsf_get_pool(c)) \in Nat /\ In(ext, c, FirstBlock(tlsf_get_pool(c)))
         /\ FirstBlock(tlsf_get_pool(c)) \in c .. c + ext[c] - 1
<1>1. c \in Nat /\ ext[c] \in Nat /\ TLSF_SIZE \in Nat \ {0}
  BY TlsfAssumption DEF Layout
<1>2. ext[c] >= TLSF_SIZE + 2 + 3
  BY <1>1 DEF FitsPool, pool_overhead, block_header_overhead, block_size_min
<1>3. FirstBlock(tlsf_get_pool(c)) = c + TLSF_SIZE - 1
  BY <1>1 DEF FirstBlock, tlsf_get_pool, block_header_overhead
<1> QED BY <1>1, <1>2, <1>3 DEF In

(* A heap that is created has its row, and the others keep theirs.           *)
LEMMA CreateKeepsHeads ==
  ASSUME NEW m, NEW ext, Valid(m, ext), Headed(m.blk, ext),
         NEW c, NEW words, MayCreate(ext, c, words), FitsPool(words)
  PROVE  Headed(tlsf_create_with_pool(m, c, words).blk, With(ext, c, words))
<1> DEFINE new   == With(ext, c, words)
           h     == m.blk
           k     == tlsf_create_with_pool(m, c, words).blk
           gone  == c .. c + words - 1
           F(d)  == FirstBlock(tlsf_get_pool(d))
<1>1. /\ DOMAIN new = DOMAIN ext \cup {c} /\ new[c] = words /\ Layout(new)
      /\ \A d \in DOMAIN ext : d # c => new[d] = ext[d]
  BY DEF MayCreate, With
<1>2. /\ Starts(k) = (Starts(h) \ gone) \cup {F(c)} /\ k[F(c)].size # 0
      /\ \A a \in Starts(h) \ gone : k[a].size = h[a].size
  <2>1. Whole(k, c, words) => k[F(c)].size # 0
    BY DEF Whole
  <2>2. Starts(h) \subseteq DOMAIN h
    BY DEF Starts
  <2> QED BY <2>1, <2>2, CreateIsSound
<1>3. /\ Starts(h) = {F(d) : d \in DOMAIN ext} /\ \A b \in Starts(h) : h[b].size # 0
      /\ \A d \in DOMAIN ext : FitsPool(ext[d])
  BY DEF Headed
<1> HIDE DEF new, h, k
<1>4. \A d \in DOMAIN new : FitsPool(new[d])
  BY <1>1, <1>3
<1>5. \A d \in DOMAIN new : F(d) \in d .. d + new[d] - 1 /\ d \in Nat /\ new[d] \in Nat
  BY <1>1, <1>4, FirstInHeap DEF Layout
<1>6. \A d \in DOMAIN new : d # c => F(d) \notin gone
  <2> SUFFICES ASSUME NEW d \in DOMAIN new, d # c PROVE F(d) \notin gone
    OBVIOUS
  <2>1. d + new[d] <= c \/ c + new[c] <= d
    BY <1>1 DEF Layout
  <2>2. F(d) \in d .. d + new[d] - 1 /\ d \in Nat /\ new[d] \in Nat /\ c \in Nat /\ words \in Nat
    BY <1>1, <1>5
  <2> HIDE DEF F
  <2> QED BY <1>1, <2>1, <2>2
<1>7. F(c) \in gone
  BY <1>1, <1>5
<1> HIDE DEF F, gone
<1>8. Starts(k) = {F(d) : d \in DOMAIN new}
  <2>1. ASSUME NEW a \in Starts(k) PROVE \E d \in DOMAIN new : a = F(d)
    BY <1>1, <1>2, <1>3
  <2>2. ASSUME NEW d \in DOMAIN new PROVE F(d) \in Starts(k)
    <3>1. CASE d = c
      BY <1>2, <3>1
    <3>2. CASE d # c
      <4>1. d \in DOMAIN ext /\ F(d) \notin gone
        BY <1>1, <1>6, <3>2
      <4> QED BY <1>2, <1>3, <4>1
    <3> QED BY <3>1, <3>2
  <2> QED BY <2>1, <2>2
<1>9. \A b \in Starts(k) : k[b].size # 0
  BY <1>2, <1>3
<1> QED BY <1>4, <1>8, <1>9 DEF Headed, F, new, k

(* What keeps the rows of a memory keeps them at the heads of its pools.     *)
LEMMA SteadyKeepsHeads ==
  ASSUME NEW ext, NEW h, NEW k, NEW T, Headed(h, ext), Steady(h, k, T)
  PROVE  Headed(k, ext)
BY DEF Headed, Steady, Starts, Ends

LEMMA BlockBefore ==
  ASSUME NEW D, D \subseteq Nat \ {0}, NEW h \in Headers(D), Tiled(h),
         NEW e \in D, h[e].size = 0, NEW b \in D, e < b, \A a \in D : e < a => b <= a
  PROVE  b \in Starts(h)
<1>1. DOMAIN h = D
  BY DEF Headers
<1>2. SUFFICES ASSUME NEW p \in D, h[p].size # 0, NextOf(h, p) = b PROVE FALSE
  BY <1>1 DEF Starts
<1>3. p \in Nat /\ e \in Nat /\ b \in Nat /\ p < b
  BY <1>2, NextNumbers
<1>4. p <= e /\ p # e
  BY <1>2, <1>3
<1>5. e <= p \/ e >= b
  BY <1>1, <1>2 DEF Tiled
<1> QED BY <1>3, <1>4, <1>5

(* The blocks of a heap: the first, and the one that ends them. *)
RowOf(h, ext, c, first, last) ==
  /\ first \in DOMAIN h /\ In(ext, c, first) /\ h[first].size # 0 /\ ~h[first].prev_free
  /\ last \in DOMAIN h /\ In(ext, c, last) /\ h[last].size = 0 /\ first <= last
  /\ \A a \in DOMAIN h :
       In(ext, c, a) => first <= a /\ a <= last /\ (h[a].size = 0 => a = last)

LEMMA RowOfHeap ==
  ASSUME NEW m, NEW ext, Between(m, ext, {}, {}), Headed(m.blk, ext), NEW c \in DOMAIN ext
  PROVE  \E last : RowOf(m.blk, ext, c, FirstBlock(tlsf_get_pool(c)), last)
<1> DEFINE D == DOMAIN m.blk
           h == m.blk
           first == FirstBlock(tlsf_get_pool(c))
           B == {a \in D : In(ext, c, a)}
<1>1. /\ m \in Memory(D, DOMAIN ext) /\ h \in Headers(D) /\ D \subseteq Nat \ {0} /\ DOMAIN h = D
      /\ Layout(ext) /\ Tiled(h) /\ Linked(h) /\ Placed(h, ext)
  BY Parts
<1>2. \A d \in DOMAIN ext : /\ d \in Nat /\ ext[d] \in Nat
                            /\ FirstBlock(tlsf_get_pool(d)) \in Starts(h)
                            /\ In(ext, d, FirstBlock(tlsf_get_pool(d)))
  <2> SUFFICES ASSUME NEW d \in DOMAIN ext
               PROVE  /\ d \in Nat /\ ext[d] \in Nat
                      /\ FirstBlock(tlsf_get_pool(d)) \in Starts(h)
                      /\ In(ext, d, FirstBlock(tlsf_get_pool(d)))
    OBVIOUS
  <2>1. d \in Nat /\ ext[d] \in Nat /\ FitsPool(ext[d]) /\ TLSF_SIZE \in Nat \ {0}
    BY <1>1, TlsfAssumption DEF Layout, Headed
  <2>2. FirstBlock(tlsf_get_pool(d)) \in Starts(h)
    BY DEF Headed
  <2> QED BY <2>1, <2>2 DEF In, FirstBlock, tlsf_get_pool, FitsPool, pool_overhead,
             block_header_overhead, block_size_min
<1>3. /\ first \in D /\ first \in Nat /\ In(ext, c, first) /\ h[first].size # 0 /\ first \in Starts(h)
  BY <1>1, <1>2 DEF Headed, Starts
<1>4. ~h[first].prev_free
  BY <1>1, <1>3 DEF Linked, Starts
<1>5. \A b \in Starts(h) : In(ext, c, b) => b = first
  <2> SUFFICES ASSUME NEW b \in Starts(h), In(ext, c, b) PROVE b = first
    OBVIOUS
  <2>1. PICK d \in DOMAIN ext : b = FirstBlock(tlsf_get_pool(d))
    BY DEF Headed
  <2>2. b \in Nat /\ In(ext, d, b)
    BY <1>1, <1>2, <2>1 DEF Starts
  <2>3. c = d
    BY <1>1, <2>2, OneOwner
  <2> QED BY <2>1, <2>3
<1>6. \A a \in D : h[a].size # 0 =>
        NextOf(h, a) \in D /\ a < NextOf(h, a) /\ (In(ext, c, a) <=> In(ext, c, NextOf(h, a)))
  <2> SUFFICES ASSUME NEW a \in D, h[a].size # 0
               PROVE  NextOf(h, a) \in D /\ a < NextOf(h, a) /\ (In(ext, c, a) <=> In(ext, c, NextOf(h, a)))
    OBVIOUS
  <2>1. NextOf(h, a) \in D /\ (In(ext, c, a) <=> In(ext, c, NextOf(h, a)))
    BY NextInControl
  <2>2. a < NextOf(h, a)
    <3> HIDE DEF h
    <3> QED BY <1>1, NextNumbers
  <2> QED BY <2>1, <2>2
<1> HIDE DEF h, D, first
<1>7. B \subseteq Nat /\ first \in B /\ B \subseteq 0 .. c + ext[c]
  <2>1. c \in Nat /\ ext[c] \in Nat
    BY <1>2
  <2> QED BY <1>1, <1>3, <2>1 DEF In
<1>8. \A a \in B : first <= a
  <2>1. PICK a \in B : \A b \in B : a <= b
    BY <1>7, LeastNatural
  <2>2. a \in Starts(h)
    <3> SUFFICES ASSUME NEW p \in D, h[p].size # 0, NextOf(h, p) = a PROVE FALSE
      BY <1>1 DEF Starts
    <3>1. p \in B /\ p < a
      BY <1>6
    <3> QED BY <1>7, <2>1, <3>1
  <2>3. a = first
    BY <1>5, <2>2
  <2> QED BY <2>1, <2>3
<1>9. PICK last \in B : \A a \in B : a <= last
  <2>1. c + ext[c] \in Nat
    BY <1>2
  <2> HIDE DEF B
  <2> QED BY <1>7, <2>1, GreatestNatural
<1>10. h[last].size = 0
  <2>1. SUFFICES ASSUME h[last].size # 0 PROVE FALSE
    OBVIOUS
  <2>2. NextOf(h, last) \in B /\ last < NextOf(h, last)
    <3>1. last \in D /\ In(ext, c, last)
      BY <1>9
    <3>2. NextOf(h, last) \in D /\ last < NextOf(h, last) /\ In(ext, c, NextOf(h, last))
      BY <1>6, <2>1, <3>1
    <3> QED BY <3>2
  <2>3. last \in Nat /\ NextOf(h, last) \in Nat /\ NextOf(h, last) <= last
    BY <1>7, <1>9, <2>2
  <2> QED BY <2>2, <2>3
<1>11. ASSUME NEW e \in B, h[e].size = 0 PROVE e = last
  <2>1. SUFFICES ASSUME e # last PROVE FALSE
    OBVIOUS
  <2> DEFINE A == {a \in D : e < a}
  <2>2. A \subseteq Nat /\ last \in A /\ e \in Nat /\ last \in Nat
    <3>1. e \in Nat /\ last \in Nat /\ last \in D /\ e <= last
      BY <1>7, <1>9
    <3>2. e < last
      BY <2>1, <3>1
    <3>3. \A a \in D : a \in Nat
      BY <1>1
    <3> QED BY <3>1, <3>2, <3>3
  <2>3. PICK b \in A : \A a \in A : b <= a
    BY <2>2, LeastNatural
  <2>4. b \in Starts(h)
    BY <1>1, <1>11, <2>3, BlockBefore
  <2>5. In(ext, c, b)
    <3>1. c \in Nat /\ ext[c] \in Nat /\ b \in Nat /\ e < b /\ b <= last
      BY <1>2, <2>2, <2>3
    <3> QED BY <2>2, <3>1 DEF In
  <2>6. b = first /\ first <= e
    BY <1>5, <1>8, <2>4, <2>5
  <2> QED BY <1>7, <2>2, <2>3, <2>6
<1>12. RowOf(h, ext, c, first, last)
  BY <1>1, <1>3, <1>4, <1>8, <1>9, <1>10, <1>11 DEF RowOf
<1> QED BY <1>12 DEF h, first

(* g is the walk of tlsf_walk_pool, from the blocks at n and above. *)
WalkOn(h, n, g) ==
  /\ DOMAIN g = {b \in DOMAIN h : n <= b}
  /\ \A b \in DOMAIN g : g[b] = IF h[b].size = 0 THEN <<>> ELSE <<b>> \o g[NextOf(h, b)]

LEMMA WalkExists ==
  ASSUME NEW D, D \subseteq Nat \ {0}, NEW h \in Headers(D), Tiled(h),
         NEW end \in Nat, \A b \in D : b < end
  PROVE  \E g : WalkOn(h, 0, g)
<1> DEFINE S == {i \in 0 .. end : \E g : WalkOn(h, i, g)}
<1>1. DOMAIN h = D
  BY DEF Headers
<1>2. end \in S
  <2>1. WalkOn(h, end, [b \in {} |-> <<>>])
    <3>1. {b \in D : end <= b} = {}
      <4>1. \A b \in D : b \in Nat /\ ~(end <= b)
        OBVIOUS
      <4> QED BY <4>1
    <3> QED BY <1>1, <3>1 DEF WalkOn
  <2> QED BY <2>1
<1>3. PICK i \in S : \A j \in S : i <= j
  <2>1. S \subseteq Nat /\ S # {}
    BY <1>2
  <2> HIDE DEF S
  <2> QED BY <2>1, LeastNatural
<1>4. CASE i = 0
  BY <1>3, <1>4
<1>5. CASE i # 0
  <2> DEFINE n == i - 1
  <2>1. n \in 0 .. end /\ n \notin S /\ i = n + 1
    BY <1>3, <1>5
  <2>2. PICK g : WalkOn(h, i, g)
    BY <1>3
  <2> DEFINE F == {b \in D : n <= b}
             k == [b \in F |-> IF b # n THEN g[b]
                               ELSE IF h[b].size = 0 THEN <<>> ELSE <<b>> \o g[NextOf(h, b)]]
  <2> HIDE DEF n
  <2>3. ASSUME NEW b \in F PROVE k[b] = IF h[b].size = 0 THEN <<>> ELSE <<b>> \o k[NextOf(h, b)]
    <3>1. h[b].size # 0 => NextOf(h, b) \in F /\ NextOf(h, b) # n
      <4>1. b \in Nat /\ NextOf(h, b) > b /\ NextOf(h, b) \in Nat
        BY NextNumbers
      <4> QED BY <1>1, <2>1, <4>1 DEF Tiled
    <3>2. CASE b = n
      BY <3>1, <3>2
    <3>3. CASE b # n
      <4>1. b \in DOMAIN g
        BY <1>1, <2>1, <2>2, <3>3 DEF WalkOn
      <4> QED BY <2>2, <3>1, <3>3, <4>1 DEF WalkOn
    <3> QED BY <3>2, <3>3
  <2>4. WalkOn(h, n, k)
    <3>1. DOMAIN k = F
      OBVIOUS
    <3> HIDE DEF k
    <3> QED BY <1>1, <2>3, <3>1 DEF WalkOn
  <2> QED BY <2>1, <2>4
<1> QED BY <1>4, <1>5

(* s: the blocks from b on, up to the first one of size 0. *)
WalkFrom(h, b, s) ==
  /\ s \in Seq(DOMAIN h)
  /\ s = <<>> <=> h[b].size = 0
  /\ s # <<>> => s[1] = b
  /\ \A i \in 1 .. Len(s) : i # 1 => s[i] = NextOf(h, s[i - 1])
  /\ ToSet(s) = {a \in DOMAIN h : b <= a /\ \A e \in DOMAIN h : b <= e /\ h[e].size = 0 => a < e}

LEMMA WalkStep ==
  ASSUME NEW D, D \subseteq Nat \ {0}, NEW h \in Headers(D), Tiled(h),
         NEW b \in D, h[b].size # 0, NEW s, WalkFrom(h, NextOf(h, b), s)
  PROVE  WalkFrom(h, b, <<b>> \o s)
<1> DEFINE r == <<b>> \o s
           next == NextOf(h, b)
<1>1. DOMAIN h = D /\ s \in Seq(D)
  BY DEF Headers, WalkFrom
<1>2. /\ r \in Seq(D) /\ Len(r) = Len(s) + 1
      /\ \A i \in 1 .. Len(s) + 1 : r[i] = IF i = 1 THEN b ELSE s[i - 1]
  BY <1>1, PushProperties
<1>3. DOMAIN r = 1 .. Len(s) + 1 /\ DOMAIN s = 1 .. Len(s) /\ Len(s) \in Nat
  BY <1>1, <1>2
<1> HIDE DEF r
<1>4. r # <<>> /\ r[1] = b
  BY <1>2, <1>3
<1>5. next \in D /\ b \in Nat /\ next \in Nat /\ b < next /\ \A a \in D : a <= b \/ a >= next
  BY <1>1, NextNumbers DEF Tiled
<1>6. \A i \in 1 .. Len(r) : i # 1 => r[i] = NextOf(h, r[i - 1])
  <2> SUFFICES ASSUME NEW i \in 1 .. Len(s) + 1, i # 1 PROVE r[i] = NextOf(h, r[i - 1])
    BY <1>2
  <2>1. i - 1 \in 1 .. Len(s) /\ i - 1 \in 1 .. Len(s) + 1 /\ r[i] = s[i - 1]
    BY <1>2, <1>3
  <2>2. CASE i = 2
    <3>1. s # <<>> /\ s[1] = next
      BY <1>3, <2>1 DEF WalkFrom
    <3> QED BY <1>4, <2>1, <2>2, <3>1
  <2>3. CASE i # 2
    <3>1. i - 1 # 1 /\ r[i - 1] = s[i - 1 - 1]
      BY <1>2, <1>3, <2>1, <2>3
    <3> QED BY <2>1, <3>1 DEF WalkFrom
  <2> QED BY <2>2, <2>3
<1>7. ToSet(r) = ToSet(s) \cup {b}
  <2>1. ASSUME NEW x \in ToSet(r) PROVE x \in ToSet(s) \cup {b}
    <3>1. PICK i \in 1 .. Len(s) + 1 : x = r[i]
      BY <1>3 DEF ToSet
    <3>2. i = 1 \/ (i - 1 \in DOMAIN s /\ x = s[i - 1])
      BY <1>2, <1>3, <3>1
    <3> QED BY <1>4, <3>1, <3>2 DEF ToSet
  <2>2. ASSUME NEW x \in ToSet(s) PROVE x \in ToSet(r)
    <3>1. PICK i \in 1 .. Len(s) : x = s[i]
      BY <1>3 DEF ToSet
    <3>2. i + 1 \in DOMAIN r /\ r[i + 1] = x
      BY <1>2, <1>3, <3>1
    <3> QED BY <3>2 DEF ToSet
  <2>3. b \in ToSet(r)
    BY <1>3, <1>4 DEF ToSet
  <2> QED BY <2>1, <2>2, <2>3
<1>8. ToSet(r) = {a \in D : b <= a /\ \A e \in D : b <= e /\ h[e].size = 0 => a < e}
  <2>1. ToSet(s) = {a \in D : next <= a /\ \A e \in D : next <= e /\ h[e].size = 0 => a < e}
    BY <1>1 DEF WalkFrom
  <2>2. \A e \in D : h[e].size = 0 => (b <= e <=> next <= e)
    BY <1>5
  <2>3. \A a \in D : b <= a <=> a = b \/ next <= a
    BY <1>5
  <2>4. \A e \in D : h[e].size = 0 /\ b <= e => b < e
    BY <1>5
  <2> HIDE DEF next
  <2> QED BY <1>7, <2>1, <2>2, <2>3, <2>4
<1> QED BY <1>1, <1>2, <1>4, <1>6, <1>8 DEF WalkFrom, r

(* The walk that tlsf_walk_pool makes.                                       *)
LEMMA WalkIsFrom ==
  ASSUME NEW m, NEW ext, Between(m, ext, {}, {}), NEW end \in Nat,
         \A a \in DOMAIN m.blk : a < end,
         NEW pool, FirstBlock(pool) \in DOMAIN m.blk
  PROVE  WalkFrom(m.blk, FirstBlock(pool), tlsf_walk_pool(m, pool))
<1> DEFINE D == DOMAIN m.blk
           h == m.blk
           F(w) == [b \in D |-> IF h[b].size = 0 THEN <<>> ELSE <<b>> \o w[block_next(m, b)]]
           walk == CHOOSE w : w = F(w)
<1>1. /\ h \in Headers(D) /\ D \subseteq Nat \ {0} /\ DOMAIN h = D /\ Tiled(h)
      /\ \A b \in D : b < end
  BY Parts
<1>2. \A b \in D : block_next(m, b) = NextOf(h, b)
  <2>1. m \in Memory(D, DOMAIN ext)
    BY Parts
  <2> QED BY <1>1, <2>1, BlockNext
<1>3. tlsf_walk_pool(m, pool) = walk[FirstBlock(pool)]
  BY DEF tlsf_walk_pool
<1>4. \E w : w = F(w)
  <2>1. PICK g : WalkOn(h, 0, g)
    <3> HIDE DEF h, D
    <3> QED BY <1>1, WalkExists
  <2>2. DOMAIN g = D
    <3>1. {b \in D : 0 <= b} = D
      BY <1>1
    <3> QED BY <1>1, <2>1, <3>1 DEF WalkOn
  <2> DEFINE w == [b \in D |-> g[b]]
  <2>3. \A b \in D : h[b].size # 0 => NextOf(h, b) \in D
    BY <1>1 DEF Tiled
  <2>4. w = F(w)
    <3> HIDE DEF h
    <3>1. ASSUME NEW b \in D
          PROVE  w[b] = IF h[b].size = 0 THEN <<>> ELSE <<b>> \o w[block_next(m, b)]
      <4>1. g[b] = IF h[b].size = 0 THEN <<>> ELSE <<b>> \o g[NextOf(h, b)]
        BY <2>1, <2>2 DEF WalkOn
      <4> QED BY <1>2, <2>3, <4>1
    <3> QED BY <3>1
  <2> HIDE DEF w
  <2> QED BY <2>4
<1>5. walk = F(walk)
  <2> HIDE DEF F
  <2> QED BY <1>4
<1> HIDE DEF walk
<1>6. ASSUME NEW b \in D
      PROVE  walk[b] = IF h[b].size = 0 THEN <<>> ELSE <<b>> \o walk[NextOf(h, b)]
  <2>1. F(walk)[b] = IF h[b].size = 0 THEN <<>> ELSE <<b>> \o walk[NextOf(h, b)]
    BY <1>2
  <2> HIDE DEF F
  <2> QED BY <1>5, <2>1
<1> HIDE DEF F, h, D
<1> DEFINE Bad == {b \in D : ~WalkFrom(h, b, walk[b])}
<1>7. Bad = {}
  <2>1. SUFFICES ASSUME Bad # {} PROVE FALSE
    OBVIOUS
  <2>2. PICK b \in Bad : \A a \in Bad : a <= b
    <3>1. Bad \subseteq 0 .. end
      <4>1. \A a \in D : a \in Nat /\ a < end
        BY <1>1 DEF D
      <4> QED BY <4>1
    <3> HIDE DEF Bad
    <3> QED BY <2>1, <3>1, GreatestNatural
  <2>3. b \in D
    OBVIOUS
  <2>4. CASE h[b].size = 0
    <3>1. walk[b] = <<>>
      BY <1>6, <2>3, <2>4
    <3>2. {a \in D : b <= a /\ \A e \in D : b <= e /\ h[e].size = 0 => a < e} = {}
      <4>1. \A a \in D : a \in Nat
        BY <1>1
      <4>2. b <= b
        BY <2>3, <4>1
      <4>3. \A a \in D : ~(b <= a /\ a < b)
        BY <2>3, <4>1
      <4> QED BY <2>3, <2>4, <4>2, <4>3
    <3>3. ToSet(<<>>) = {} /\ <<>> \in Seq(D) /\ Len(<<>>) = 0
      BY DEF ToSet
    <3>4. WalkFrom(h, b, <<>>)
      BY <1>1, <2>4, <3>2, <3>3 DEF WalkFrom
    <3> QED BY <2>2, <3>1, <3>4
  <2>5. CASE h[b].size # 0
    <3>1. NextOf(h, b) \in D /\ b \in Nat /\ NextOf(h, b) \in Nat /\ b < NextOf(h, b)
      BY <1>1, <2>3, <2>5, NextNumbers DEF Tiled
    <3>2. NextOf(h, b) \notin Bad
      BY <2>2, <3>1
    <3>3. WalkFrom(h, NextOf(h, b), walk[NextOf(h, b)])
      BY <3>1, <3>2
    <3>4. WalkFrom(h, b, <<b>> \o walk[NextOf(h, b)])
      BY <1>1, <2>3, <2>5, <3>3, WalkStep
    <3> QED BY <1>6, <2>3, <2>5, <3>4
  <2> QED BY <2>4, <2>5
<1> QED BY <1>3, <1>7 DEF h, D

(* The walk over the pool of a heap.                                         *)
PoolWalk(m, ext, c, first, walk) ==
  /\ walk \in Seq(DOMAIN m.blk) /\ walk # <<>> /\ walk[1] = first
  /\ \A i \in 1 .. Len(walk) : i # 1 => walk[i] = NextOf(m.blk, walk[i - 1])
  /\ ToSet(walk) = {b \in DOMAIN m.blk : In(ext, c, b) /\ m.blk[b].size # 0}

(* tlsf_walk_pool, which every check of tlsf.c is built on: from the start   *)
(* of a heap's pool it comes to every block of the heap, in the order of     *)
(* their addresses, to no other block, and it ends.                          *)
THEOREM WalkIsSound ==
  ASSUME NEW m, NEW ext, Between(m, ext, {}, {}), Headed(m.blk, ext), NEW end \in Nat,
         \A a \in DOMAIN m.blk : a < end, NEW c \in DOMAIN ext
  PROVE  PoolWalk(m, ext, c, FirstBlock(tlsf_get_pool(c)), tlsf_walk_pool(m, tlsf_get_pool(c)))
<1> DEFINE D     == DOMAIN m.blk
           h     == m.blk
           first == FirstBlock(tlsf_get_pool(c))
           walk  == tlsf_walk_pool(m, tlsf_get_pool(c))
<1>1. PICK last : RowOf(h, ext, c, first, last)
  BY RowOfHeap
<1>2. D \subseteq Nat \ {0} /\ DOMAIN h = D /\ Layout(ext)
  BY Parts
<1>3. first \in D
  BY <1>1 DEF RowOf
<1>4. WalkFrom(h, first, walk)
  BY <1>3, WalkIsFrom
<1> HIDE DEF walk, h, first, D
<1>5. ToSet(walk) = {b \in D : In(ext, c, b) /\ h[b].size # 0}
  <2>1. c \in Nat /\ ext[c] \in Nat /\ first \in Nat /\ last \in Nat
    BY <1>1, <1>2 DEF Layout, RowOf
  <2>2. ASSUME NEW a \in D
        PROVE  (first <= a /\ \A e \in D : first <= e /\ h[e].size = 0 => a < e)
                 <=> (In(ext, c, a) /\ h[a].size # 0)
    <3>0. a \in Nat
      BY <1>2
    <3>1. ASSUME first <= a, \A e \in D : first <= e /\ h[e].size = 0 => a < e
          PROVE  In(ext, c, a) /\ h[a].size # 0
      <4>1. a < last
        BY <1>1, <1>2, <3>1 DEF RowOf
      <4>2. In(ext, c, a)
        BY <1>1, <2>1, <3>0, <3>1, <4>1 DEF RowOf, In
      <4>3. h[a].size # 0
        BY <1>1, <1>2, <2>1, <3>0, <4>1, <4>2 DEF RowOf
      <4> QED BY <4>2, <4>3
    <3>2. ASSUME In(ext, c, a), h[a].size # 0
          PROVE  first <= a /\ \A e \in D : first <= e /\ h[e].size = 0 => a < e
      <4>1. first <= a /\ a <= last /\ a # last
        BY <1>1, <1>2, <3>2 DEF RowOf
      <4>2. ASSUME NEW e \in D, first <= e, h[e].size = 0 PROVE a < e
        <5>1. SUFFICES ASSUME ~(a < e) PROVE FALSE
          OBVIOUS
        <5>2. e \in Nat /\ e <= a
          <6>1. \A x \in D : x \in Nat
            BY <1>2
          <6>2. e \in Nat
            BY <6>1
          <6> QED BY <3>0, <5>1, <6>2
        <5>3. In(ext, c, e)
          BY <1>1, <2>1, <3>0, <3>2, <4>2, <5>2 DEF RowOf, In
        <5>4. e = last
          BY <1>1, <1>2, <4>2, <5>3 DEF RowOf
        <5> QED BY <2>1, <3>0, <4>1, <5>2, <5>4
      <4> QED BY <4>1, <4>2
    <3> QED BY <3>1, <3>2
  <2>3. ToSet(walk) = {a \in D : first <= a /\ \A e \in D : first <= e /\ h[e].size = 0 => a < e}
    BY <1>2, <1>4 DEF WalkFrom
  <2> QED BY <2>2, <2>3
<1>6. walk # <<>>
  BY <1>1, <1>4 DEF RowOf, WalkFrom
<1>7. PoolWalk(m, ext, c, first, walk)
  <2>1. /\ walk \in Seq(D) /\ walk[1] = first
        /\ \A i \in 1 .. Len(walk) : i # 1 => walk[i] = NextOf(h, walk[i - 1])
    BY <1>2, <1>4, <1>6 DEF WalkFrom
  <2> QED BY <1>5, <1>6, <2>1 DEF PoolWalk, D, h
<1> QED BY <1>7 DEF first, walk

(* tlsf_check, the check of a heap that tlsf.c has for a test to call, finds *)
(* nothing wrong in memory that the allocator's functions leave.             *)
THEOREM CheckIsSound ==
  ASSUME NEW m, NEW ext, Between(m, ext, {}, {}), NEW c \in DOMAIN ext
  PROVE  tlsf_check(m, c)
<1> DEFINE D == DOMAIN m.blk
           h == m.blk
<1>1. /\ m \in Memory(D, DOMAIN ext) /\ h \in Headers(D) /\ D \subseteq Nat \ {0} /\ DOMAIN h = D
      /\ Tiled(h) /\ Linked(h) /\ FreeApart(h, {})
  BY Parts
<1>2. DOMAIN m.tlsf = DOMAIN ext
  BY <1>1, MemoryHeaders
<1>3. ListsOK(h, m.tlsf, ext, {}) /\ BitmapsOK(m.tlsf)
  BY DEF Between
<1>4. SUFFICES ASSUME NEW fl \in FL, NEW sl \in SL
      PROVE  LET t == m.tlsf[c]
                 list == t.blocks[fl][sl]
             IN  /\ fl \notin t.fl_bitmap => sl \notin t.sl_bitmap[fl]
                 /\ sl \in t.sl_bitmap[fl] <=> list # <<>>
                 /\ \A b \in ToSet(list) :
                      /\ h[b].free /\ ~h[b].prev_free
                      /\ ~h[block_next(m, b)].free /\ h[block_next(m, b)].prev_free
                      /\ h[b].size >= block_size_min
                      /\ mapping_insert(h[b].size) = [fl |-> fl, sl |-> sl]
  BY DEF tlsf_check, FL, SL
<1> DEFINE list == m.tlsf[c].blocks[fl][sl]
<1>5. /\ fl \notin m.tlsf[c].fl_bitmap => sl \notin m.tlsf[c].sl_bitmap[fl]
      /\ sl \in m.tlsf[c].sl_bitmap[fl] <=> list # <<>>
  BY <1>2, <1>3 DEF BitmapsOK
<1>6. ToSet(list) = Belong(h, ext, {}, c, fl, sl)
  BY <1>3 DEF ListsOK
<1> HIDE DEF h, D
<1>7. ASSUME NEW b \in ToSet(list)
      PROVE  /\ h[b].free /\ ~h[b].prev_free
             /\ ~h[block_next(m, b)].free /\ h[block_next(m, b)].prev_free
             /\ h[b].size >= block_size_min
             /\ mapping_insert(h[b].size) = [fl |-> fl, sl |-> sl]
  <2>1. b \in D /\ h[b].free /\ mapping_insert(h[b].size) = [fl |-> fl, sl |-> sl]
    BY <1>1, <1>6 DEF Belong
  <2>2. h[b].size # 0 /\ h[b].size >= block_size_min
    BY <1>1, <2>1 DEF Tiled
  <2>3. block_next(m, b) = NextOf(h, b)
    BY <1>1, <2>1, BlockNext DEF h, D
  <2>4. h[NextOf(h, b)].prev_free /\ ~h[NextOf(h, b)].free
    BY <1>1, <2>1, <2>2 DEF Linked, FreeApart
  <2>5. ~h[b].prev_free
    <3>1. SUFFICES ASSUME h[b].prev_free PROVE FALSE
      OBVIOUS
    <3>2. h[b].prev_phys \in D /\ h[h[b].prev_phys].size # 0 /\ NextOf(h, h[b].prev_phys) = b
      BY <1>1, <2>1, <3>1 DEF Linked
    <3>3. h[b].prev_free = h[h[b].prev_phys].free
      BY <1>1, <3>2 DEF Linked
    <3> QED BY <1>1, <2>1, <3>1, <3>2, <3>3 DEF FreeApart
  <2> QED BY <2>1, <2>2, <2>3, <2>4, <2>5
<1> QED BY <1>5, <1>7 DEF h

(* The same for the pool of a heap: each block knows whether the one before  *)
(* it is free.                                                               *)
THEOREM CheckPoolIsSound ==
  ASSUME NEW m, NEW ext, Between(m, ext, {}, {}), Headed(m.blk, ext), NEW end \in Nat,
         \A a \in DOMAIN m.blk : a < end, NEW c \in DOMAIN ext
  PROVE  tlsf_check_pool(m, tlsf_get_pool(c))
<1> DEFINE h     == m.blk
           walk  == tlsf_walk_pool(m, tlsf_get_pool(c))
           first == FirstBlock(tlsf_get_pool(c))
<1>1. PoolWalk(m, ext, c, first, walk)
  BY WalkIsSound
<1>2. ~h[first].prev_free
  <2>1. PICK last : RowOf(h, ext, c, first, last)
    BY RowOfHeap
  <2> QED BY <2>1 DEF RowOf
<1>3. Linked(h)
  BY Parts
<1> HIDE DEF walk, first
<1>4. ASSUME NEW i \in DOMAIN walk
      PROVE  h[walk[i]].prev_free = (i > 1 /\ h[walk[i - 1]].free)
  <2>1. DOMAIN walk = 1 .. Len(walk) /\ i \in Nat /\ i >= 1
    BY <1>1 DEF PoolWalk
  <2>2. CASE i = 1
    BY <1>1, <1>2, <2>2, Parts, MemoryHeaders DEF PoolWalk, Headers, HeaderType
  <2>3. CASE i # 1
    <3>1. i - 1 \in DOMAIN walk /\ walk[i] = NextOf(h, walk[i - 1]) /\ i > 1
      BY <1>1, <2>1, <2>3 DEF PoolWalk
    <3>2. walk[i - 1] \in DOMAIN h /\ h[walk[i - 1]].size # 0
      <4>1. walk[i - 1] \in ToSet(walk)
        BY <3>1 DEF ToSet
      <4> QED BY <1>1, <4>1 DEF PoolWalk
    <3>3. h[walk[i]].prev_free = h[walk[i - 1]].free
      BY <1>3, <3>1, <3>2 DEF Linked
    <3>4. h[walk[i - 1]].free \in BOOLEAN
      BY <3>2, BlockParts DEF HeaderType
    <3> QED BY <3>1, <3>3, <3>4
  <2> QED BY <2>2, <2>3
<1> QED BY <1>4 DEF tlsf_check_pool, walk

(* The lists of a heap hold the free blocks in its words, all of them and no *)
(* others.                                                                   *)
LEMMA ListsAreExact ==
  ASSUME NEW m, NEW ext, Between(m, ext, {}, {}), NEW c \in DOMAIN ext
  PROVE  UNION {ToSet(m.tlsf[c].blocks[fl][sl]) :
                  fl \in 0 .. FL_INDEX_COUNT - 1, sl \in 0 .. SL_INDEX_COUNT - 1}
           = {b \in DOMAIN m.blk : m.blk[b].free /\ In(ext, c, b)}
<1> DEFINE h == m.blk
           list(fl, sl) == m.tlsf[c].blocks[fl][sl]
<1>1. \A fl \in FL, sl \in SL : ToSet(list(fl, sl)) = Belong(h, ext, {}, c, fl, sl)
  BY DEF Between, ListsOK
<1>2. ASSUME NEW b \in DOMAIN h, h[b].free, In(ext, c, b)
      PROVE  \E fl \in FL, sl \in SL : b \in Belong(h, ext, {}, c, fl, sl)
  <2>1. PICK fl \in FL, sl \in SL : mapping_insert(h[b].size) = [fl |-> fl, sl |-> sl]
    BY <1>2, FreeHasList
  <2> HIDE DEF h
  <2> QED BY <1>2, <2>1 DEF Belong
<1>3. \A fl \in FL, sl \in SL :
        \A b \in Belong(h, ext, {}, c, fl, sl) : b \in DOMAIN h /\ h[b].free /\ In(ext, c, b)
  BY DEF Belong
<1> HIDE DEF h, list
<1>4. UNION {ToSet(list(fl, sl)) : fl \in FL, sl \in SL}
        = {b \in DOMAIN h : h[b].free /\ In(ext, c, b)}
  BY <1>1, <1>2, <1>3
<1> QED BY <1>4 DEF h, list, FL, SL

(* A heap of which no block is in use is one free block: what was freed has  *)
(* come together again.                                                      *)
THEOREM UnusedIsWhole ==
  ASSUME NEW m, NEW ext, Between(m, ext, {}, {}), Headed(m.blk, ext), NEW end \in Nat,
         \A a \in DOMAIN m.blk : a < end, NEW c \in DOMAIN ext,
         \A b \in DOMAIN m.blk : In(ext, c, b) => ~Used(m.blk, b)
  PROVE  /\ Len(tlsf_walk_pool(m, tlsf_get_pool(c))) = 1
         /\ m.blk[FirstBlock(tlsf_get_pool(c))].free
<1> DEFINE h     == m.blk
           walk  == tlsf_walk_pool(m, tlsf_get_pool(c))
           first == FirstBlock(tlsf_get_pool(c))
<1>1. PoolWalk(m, ext, c, first, walk)
  BY WalkIsSound
<1>2. FreeApart(h, {})
  BY Parts
<1> HIDE DEF walk, first
<1>3. Len(walk) \in Nat /\ DOMAIN walk = 1 .. Len(walk) /\ Len(walk) # 0
  BY <1>1 DEF PoolWalk
<1>4. \A i \in 1 .. Len(walk) : walk[i] \in DOMAIN h /\ h[walk[i]].free
  <2> SUFFICES ASSUME NEW i \in 1 .. Len(walk) PROVE walk[i] \in DOMAIN h /\ h[walk[i]].free
    OBVIOUS
  <2>1. walk[i] \in ToSet(walk)
    BY <1>3 DEF ToSet
  <2> QED BY <1>1, <2>1 DEF PoolWalk, Used
<1>5. Len(walk) = 1
  <2>1. SUFFICES ASSUME Len(walk) # 1 PROVE FALSE
    OBVIOUS
  <2>2. 1 \in 1 .. Len(walk) /\ 2 \in 1 .. Len(walk)
    BY <1>3, <2>1
  <2>3. walk[2] = NextOf(h, walk[1])
    <3>1. 2 # 1 /\ 2 - 1 = 1
      OBVIOUS
    <3> QED BY <1>1, <2>2, <3>1 DEF PoolWalk
  <2> QED BY <1>2, <1>4, <2>2, <2>3 DEF FreeApart
<1>6. 1 \in 1 .. Len(walk) /\ walk[1] = first
  BY <1>1, <1>3 DEF PoolWalk
<1> QED BY <1>4, <1>5, <1>6 DEF h, walk, first

-----------------------------------------------------------------------------
(* Room: a request that one free block is large enough for *)

LEMMA QuotientGrows ==
  ASSUME NEW a \in Int, NEW b \in Int, a <= b, NEW q \in Nat \ {0}
  PROVE  a \div q <= b \div q
<1> DEFINE d == a \div q
           e == b \div q
<1>1. /\ d \in Int /\ q * d <= a /\ a < q * d + q
      /\ e \in Int /\ q * e <= b /\ b < q * e + q
  BY Quotient
<1> HIDE DEF d, e
<1>2. SUFFICES ASSUME e + 1 <= d PROVE FALSE
  BY <1>1 DEF d, e
<1>3. q * (e + 1) <= q * d /\ q * (e + 1) = q * e + q
  BY <1>1, <1>2, ProductMonotonic
<1> QED BY <1>1, <1>3

(* A larger size has the same list or one further on.                        *)
LEMMA MappingGrows ==
  ASSUME NEW r \in Nat, NEW x \in Nat, r <= x, x < block_size_max
  PROVE  \/ mapping_insert(r).fl < mapping_insert(x).fl
         \/ mapping_insert(r).fl = mapping_insert(x).fl /\ mapping_insert(r).sl <= mapping_insert(x).sl
<1>0. SMALL_BLOCK_SIZE = SL_INDEX_COUNT /\ SL_INDEX_COUNT \in Nat /\ SL_INDEX_COUNT_LOG2 \in Nat
      /\ block_size_max \in Nat /\ FL_INDEX_MAX \in Nat
  BY Numbers, TlsfAssumption DEF SMALL_BLOCK_SIZE
<1>1. x < power2[FL_INDEX_MAX + 2] /\ r < power2[FL_INDEX_MAX + 2]
  BY <1>0, PowersAbove
<1> DEFINE j == tlsf_fls(r)
           p == power2[j - SL_INDEX_COUNT_LOG2]
           k == tlsf_fls(x)
           q == power2[k - SL_INDEX_COUNT_LOG2]
<1>2. ASSUME x >= SMALL_BLOCK_SIZE
      PROVE  /\ k \in SL_INDEX_COUNT_LOG2 .. FL_INDEX_MAX + 1 /\ x < power2[k + 1] /\ q \in Nat \ {0}
             /\ x \div q \in Int
             /\ mapping_insert(x) = [fl |-> k - (SL_INDEX_COUNT_LOG2 - 1),
                                     sl |-> x \div q - SL_INDEX_COUNT]
  BY <1>1, <1>2, MappingOfLarge
<1>3. ASSUME r >= SMALL_BLOCK_SIZE
      PROVE  /\ j \in SL_INDEX_COUNT_LOG2 .. FL_INDEX_MAX + 1 /\ power2[j] <= r
             /\ r \div p \in Int
             /\ mapping_insert(r) = [fl |-> j - (SL_INDEX_COUNT_LOG2 - 1),
                                     sl |-> r \div p - SL_INDEX_COUNT]
  BY <1>1, <1>3, MappingOfLarge
<1>4. CASE r < SMALL_BLOCK_SIZE
  <2>1. mapping_insert(r) = [fl |-> 0, sl |-> r]
    BY <1>4 DEF mapping_insert
  <2>2. CASE x < SMALL_BLOCK_SIZE
    <3>1. mapping_insert(x) = [fl |-> 0, sl |-> x]
      BY <2>2 DEF mapping_insert
    <3> QED BY <2>1, <3>1
  <2>3. CASE ~(x < SMALL_BLOCK_SIZE)
    <3>1. x >= SMALL_BLOCK_SIZE
      BY <1>0, <2>3
    <3> HIDE DEF k, q
    <3>2. mapping_insert(x).fl = k - (SL_INDEX_COUNT_LOG2 - 1) /\ k \in Int /\ k >= SL_INDEX_COUNT_LOG2
      BY <1>0, <1>2, <3>1
    <3> QED BY <1>0, <2>1, <3>2
  <2> QED BY <2>2, <2>3
<1>5. CASE ~(r < SMALL_BLOCK_SIZE)
  <2>1. r >= SMALL_BLOCK_SIZE /\ x >= SMALL_BLOCK_SIZE
    BY <1>0, <1>5
  <2>2. /\ mapping_insert(r).fl = j - (SL_INDEX_COUNT_LOG2 - 1)
        /\ mapping_insert(r).sl = r \div p - SL_INDEX_COUNT
        /\ mapping_insert(x).fl = k - (SL_INDEX_COUNT_LOG2 - 1)
        /\ mapping_insert(x).sl = x \div q - SL_INDEX_COUNT
        /\ j \in Nat /\ k \in Nat /\ q \in Nat \ {0} /\ r \div p \in Int /\ x \div q \in Int
    <3> HIDE DEF j, p, k, q
    <3> QED BY <1>0, <1>2, <1>3, <2>1
  <2>3. j <= k
    <3>1. power2[k + 1] \in Nat
      BY <2>2, Power2Def
    <3>2. power2[j] <= r /\ x < power2[k + 1] /\ power2[j] \in Nat
      BY <1>2, <1>3, <2>1, <2>2, Power2Def
    <3>3. power2[j] <= x
      BY <3>2
    <3> HIDE DEF j, k
    <3> QED BY <2>2, <3>2, <3>3, PowerOrder
  <2>4. CASE j = k
    <3>1. p = q
      BY <2>4
    <3> HIDE DEF p, q
    <3>2. r \div q <= x \div q
      <4>1. r \in Int /\ x \in Int /\ q \in Nat \ {0}
        BY <2>2
      <4> QED BY <4>1, QuotientGrows
    <3> HIDE DEF j, k
    <3> QED BY <1>0, <2>2, <2>4, <3>1, <3>2
  <2>5. CASE j # k
    <3> HIDE DEF j, p, k, q
    <3> QED BY <1>0, <2>2, <2>3, <2>5
  <2> QED BY <2>4, <2>5
<1> QED BY <1>4, <1>5

(* The search for a size starts at or before the list of twice the size.     *)
LEMMA SearchReaches ==
  ASSUME NEW s \in Nat, NEW x \in Nat, 2 * s <= x, x < block_size_max
  PROVE  \/ mapping_search(s).fl < mapping_insert(x).fl
         \/ mapping_search(s).fl = mapping_insert(x).fl /\ mapping_search(s).sl <= mapping_insert(x).sl
<1>0. SMALL_BLOCK_SIZE \in Nat /\ block_size_max \in Nat /\ s <= x
  BY Numbers DEF SMALL_BLOCK_SIZE
<1>1. CASE s < SMALL_BLOCK_SIZE
  <2>1. mapping_search(s) = mapping_insert(s)
    BY <1>1 DEF mapping_search
  <2> QED BY <1>0, <2>1, MappingGrows
<1>2. CASE ~(s < SMALL_BLOCK_SIZE)
  <2> DEFINE r == s + power2[tlsf_fls(s) - SL_INDEX_COUNT_LOG2] - 1
  <2>1. r \in Nat /\ r <= 2 * s /\ mapping_search(s) = mapping_insert(r)
    <3>1. s >= SMALL_BLOCK_SIZE /\ s < block_size_max
      BY <1>0, <1>2
    <3> QED BY <3>1, SearchOfLarge
  <2> HIDE DEF r
  <2>2. r <= x
    BY <2>1
  <2> QED BY <2>1, <2>2, MappingGrows
<1> QED BY <1>1, <1>2

(* A heap with a free block of twice the size has one for the request.       *)
LEMMA TwiceIsFound ==
  ASSUME NEW m, NEW ext, Between(m, ext, {}, {}), NEW c \in DOMAIN ext,
         NEW e \in DOMAIN m.blk, m.blk[e].free, In(ext, c, e),
         NEW size \in Nat \ {0}, m.blk[e].size >= 2 * size
  PROVE  LocateIndex(m, c, size) # {}
<1> DEFINE at  == mapping_search(size)
           has == mapping_insert(m.blk[e].size)
           t   == m.tlsf[c]
<1>1. m.blk[e].size \in Nat /\ m.blk[e].size < block_size_max /\ block_size_max \in Nat
  BY FreeHasList, Numbers
<1>2. PICK fl \in FL, sl \in SL : has = [fl |-> fl, sl |-> sl]
  BY FreeHasList
<1>3. at.fl < has.fl \/ (at.fl = has.fl /\ at.sl <= has.sl)
  BY <1>1, SearchReaches
<1>4. t.blocks[fl][sl] # <<>>
  <2>1. e \in Belong(m.blk, ext, {}, c, fl, sl)
    BY <1>2 DEF Belong
  <2>2. ToSet(t.blocks[fl][sl]) = Belong(m.blk, ext, {}, c, fl, sl)
    BY DEF Between, ListsOK
  <2> DEFINE list == t.blocks[fl][sl]
  <2>3. e \in ToSet(list)
    BY <2>1, <2>2
  <2> HIDE DEF list
  <2>4. list # <<>>
    BY <2>3 DEF ToSet
  <2> QED BY <2>4 DEF list
<1>5. sl \in t.sl_bitmap[fl] /\ fl \in t.fl_bitmap
  <2>1. c \in DOMAIN m.tlsf
    BY DEF Between, Memory
  <2> QED BY <1>4, <2>1 DEF Between, BitmapsOK
<1>6. at.fl \in Nat /\ at.sl \in SL
  <2>1. size < block_size_max
    BY <1>1
  <2> QED BY <2>1, SearchInRange
<1> HIDE DEF has, t
<1>7. FL \subseteq Nat /\ SL \subseteq Nat /\ \A i \in FL : i < FL_INDEX_COUNT
  BY Numbers DEF FL, SL
<1> HIDE DEF at
<1>8. ~(at.fl >= FL_INDEX_COUNT) /\ (at.fl < fl \/ (at.fl = fl /\ at.sl <= sl))
  BY <1>2, <1>3, <1>6, <1>7, Numbers
<1>9. LocateIndex(m, c, size) = search_suitable_block(m, c, at)
  BY <1>8 DEF LocateIndex, at
<1>10. CASE at.fl < fl
  <2>1. fl \in {i \in t.fl_bitmap : i > at.fl}
    BY <1>5, <1>6, <1>7, <1>10
  <2> QED BY <1>9, <2>1 DEF search_suitable_block, t
<1>11. CASE at.fl = fl /\ at.sl <= sl
  <2>1. sl \in {i \in t.sl_bitmap[at.fl] : i >= at.sl}
    BY <1>5, <1>6, <1>7, <1>11
  <2> QED BY <1>9, <2>1 DEF search_suitable_block, t
<1> QED BY <1>8, <1>10, <1>11

(* What tlsf_malloc cuts off the block that it hands out.                    *)
LEMMA MallocCuts ==
  ASSUME NEW m, NEW ext, Valid(m, ext), NEW c \in DOMAIN ext, NEW size \in Nat,
         NEW adjust, adjust = adjust_request_size(size, 1), adjust # 0,
         NEW b, b = LocatedBlock(m, c, adjust), b # NO_BLOCK
  PROVE  /\ b \in DOMAIN m.blk /\ m.blk[b].free /\ m.blk[b].size >= adjust /\ In(ext, c, b)
         /\ Cut(m.blk, tlsf_malloc(m, c, size).mem.blk, b, adjust)
         /\ tlsf_malloc(m, c, size).ptr # NO_BLOCK
<1> DEFINE m1 == block_locate_free(m, c, adjust)
           n  == block_prepare_used(m1, c, b, adjust)
<1>1. tlsf_malloc(m, c, size) = [mem |-> n, ptr |-> UserPtr(b)]
  BY DEF tlsf_malloc, Returns
<1>2. adjust \in Nat /\ adjust < block_size_max /\ adjust >= block_size_min
  BY AdjustedSize
<1>3. Between(m, ext, {}, {})
  BY DEF Valid
<1>4. Located(m, m1, ext, c, b, adjust)
  BY <1>2, <1>3, LocateFree
<1> HIDE DEF m1
<1>5. /\ Between(m1, ext, {}, {b}) /\ m1.blk = m.blk
      /\ b \in DOMAIN m.blk /\ m.blk[b].free /\ m.blk[b].size >= adjust /\ In(ext, c, b)
  BY <1>4 DEF Located, Relisted
<1>6. Prepared(m1, n, ext, b, adjust)
  BY <1>2, <1>5, PrepareUsed
<1> HIDE DEF n
<1>7. Cut(m.blk, n.blk, b, adjust)
  BY <1>5, <1>6 DEF Prepared
<1>8. b \in Nat \ {0}
  BY <1>3, <1>5, BlockParts
<1> QED BY <1>1, <1>5, <1>7, <1>8, PointerOfBlock

(* A heap with a free block that is more than twice a request (as large as   *)
(* it is after adjust_request_size) answers it, and is left with a free      *)
(* block that is smaller by the request and a header at most.                *)
THEOREM RequestLeavesRest ==
  ASSUME NEW m, NEW ext, Valid(m, ext), NEW c \in DOMAIN ext, NEW size \in Nat,
         NEW adjust, adjust = adjust_request_size(size, 1), adjust # 0,
         NEW e \in DOMAIN m.blk, m.blk[e].free, In(ext, c, e), m.blk[e].size > 2 * adjust
  PROVE  LET r == tlsf_malloc(m, c, size)
         IN  /\ r.ptr # NO_BLOCK
             /\ \E f \in DOMAIN r.mem.blk : /\ r.mem.blk[f].free /\ In(ext, c, f)
                                            /\ r.mem.blk[f].size >= m.blk[e].size - (adjust + 1)
<1> DEFINE r == tlsf_malloc(m, c, size)
           b == LocatedBlock(m, c, adjust)
<1>1. /\ adjust \in Nat \ {0} /\ adjust >= block_size_min /\ adjust < block_size_max
      /\ Between(m, ext, {}, {})
  BY AdjustedSize DEF Valid
<1>2. m.blk[e].size \in Nat /\ e \in Nat
  BY <1>1, BlockParts
<1>3. b # NO_BLOCK
  <2>1. m.blk[e].size >= 2 * adjust
    BY <1>1, <1>2
  <2>2. LocateIndex(m, c, adjust) # {}
    BY <1>1, <2>1, TwiceIsFound
  <2>3. PICK fl \in FL, sl \in SL : /\ LocateIndex(m, c, adjust) = {[fl |-> fl, sl |-> sl]}
                                    /\ m.tlsf[c].blocks[fl][sl] # <<>>
    BY <1>1, <2>2, ListFound
  <2> DEFINE at   == [fl |-> fl, sl |-> sl]
             list == m.tlsf[c].blocks[fl][sl]
  <2>4. b = Head(list)
    <3>1. (CHOOSE i \in LocateIndex(m, c, adjust) : TRUE) = at
      BY <2>3
    <3>2. b = Head(m.tlsf[c].blocks[at.fl][at.sl])
      BY <2>2, <3>1 DEF LocatedBlock
    <3> QED BY <3>2
  <2>5. list \in Seq(Nat) /\ list # <<>>
    BY <1>1, <2>3 DEF Between, Memory, ControlType
  <2>6. ToSet(list) \subseteq DOMAIN m.blk
    <3>1. ToSet(list) = Belong(m.blk, ext, {}, c, fl, sl)
      BY <1>1 DEF Between, ListsOK
    <3> QED BY <3>1 DEF Belong
  <2> HIDE DEF list, b
  <2>7. 1 \in DOMAIN list /\ b = list[1]
    BY <2>4, <2>5, HeadProperties
  <2>8. b \in ToSet(list)
    BY <2>7 DEF ToSet
  <2> QED BY <1>1, <2>6, <2>8, BlockParts DEF NO_BLOCK
<1>4. /\ b \in DOMAIN m.blk /\ m.blk[b].free /\ In(ext, c, b)
      /\ Cut(m.blk, r.mem.blk, b, adjust) /\ r.ptr # NO_BLOCK
  BY <1>3, MallocCuts
<1> HIDE DEF b, r
<1>5. CASE b # e
  <2>1. e \in DOMAIN r.mem.blk /\ r.mem.blk[e].free /\ r.mem.blk[e].size = m.blk[e].size
    BY <1>4, <1>5 DEF Cut
  <2>2. r.mem.blk[e].size >= m.blk[e].size - (adjust + 1)
    BY <1>1, <1>2, <2>1
  <2> QED BY <1>4, <2>1, <2>2 DEF r
<1>6. CASE b = e
  <2> DEFINE rest == split_off(b, adjust)
  <2>1. m.blk[b].size >= sizeof_block_header + adjust
    BY <1>1, <1>2, <1>6 DEF sizeof_block_header, block_size_min
  <2>2. /\ rest \in DOMAIN r.mem.blk /\ r.mem.blk[rest].free
        /\ r.mem.blk[rest].size = m.blk[e].size - (adjust + 1)
    BY <1>4, <1>6, <2>1 DEF Cut
  <2>3. In(ext, c, rest)
    BY <1>1, <1>4, <2>1, RestInControl
  <2>4. r.mem.blk[rest].size >= m.blk[e].size - (adjust + 1)
    BY <1>1, <1>2, <2>2
  <2> HIDE DEF rest
  <2> QED BY <1>4, <2>2, <2>3, <2>4 DEF r
<1> QED BY <1>5, <1>6

(* A free block of a heap that a step does not work on stays as it is: S and *)
(* T are the blocks that the step gives up and hands out.                    *)
LEMMA FreeBlocksStay ==
  ASSUME NEW m, NEW n, NEW ext, Between(m, ext, {}, {}), Between(n, ext, {}, {}),
         NEW S, NEW T, Intact(m.blk, n.blk, S), Steady(m.blk, n.blk, T),
         NEW c \in DOMAIN ext, \A x \in S \cup T : ~In(ext, c, x),
         NEW e \in DOMAIN m.blk, m.blk[e].free, In(ext, c, e)
  PROVE  e \in DOMAIN n.blk /\ n.blk[e].free /\ n.blk[e].size = m.blk[e].size
<1> DEFINE h == m.blk
           k == n.blk
           D == DOMAIN h
           F == DOMAIN k
           end == NextOf(h, e)
<1>1. /\ h \in Headers(D) /\ D \subseteq Nat \ {0} /\ Layout(ext) /\ Tiled(h) /\ Placed(h, ext)
      /\ FreeApart(h, {})
  BY Parts
<1>2. k \in Headers(F) /\ F \subseteq Nat \ {0} /\ Tiled(k) /\ FreeApart(k, {})
  BY Parts
<1>3. /\ e \in Nat \ {0} /\ h[e].size \in Nat /\ h[e].size # 0
      /\ end \in D /\ end = e + h[e].size + 1
  BY BlockParts
<1> HIDE DEF h, k, D, F
<1>4. Starts(k) = Starts(h) /\ Ends(k) = Ends(h) /\ Intact(h, k, S)
      /\ (\A b \in F \ T : Used(k, b) => Used(h, b)) /\ DOMAIN h = D /\ DOMAIN k = F
      /\ e \in D /\ h[e].free
  BY DEF Steady, h, k, D, F
<1> HIDE DEF end
<1>5. end \in Nat /\ end > e /\ \A a \in Nat : e <= a /\ a <= end => In(ext, c, a)
  <2>1. end \in Nat
    BY <1>3
  <2>2. \A a \in Nat : e <= a /\ a <= end => In(ext, c, a)
    BY <1>1, <1>3, <1>4, NextIsOwned DEF end
  <2> QED BY <1>3, <2>1, <2>2
<1>6. e \in F
  <2>1. CASE e \in Starts(h)
    BY <1>4, <2>1 DEF Starts
  <2>2. CASE e \notin Starts(h)
    <3>1. PICK a \in D : h[a].size # 0 /\ NextOf(h, a) = e
      BY <1>4, <2>2 DEF Starts
    <3>2. ~h[a].free
      BY <1>4, <1>1, <3>1 DEF FreeApart
    <3>3. Used(h, a) /\ a \in Nat /\ e > a
      BY <1>1, <1>4, <3>1, <3>2, NextNumbers DEF Used
    <3>4. PICK d \in DOMAIN ext : In(ext, d, a)
      BY <1>1, <1>4, <3>1 DEF Placed
    <3>5. In(ext, d, e)
      <4>1. a <= e /\ e <= NextOf(h, a) /\ e \in Nat
        BY <1>3, <3>1, <3>3
      <4>2. a \in D /\ h[a].size # 0
        BY <3>1
      <4> QED BY <1>1, <3>4, <4>1, <4>2, NextIsOwned
    <3>6. d = c
      BY <1>1, <1>3, <3>5 DEF Layout, In
    <3>7. a \notin S
      BY <3>4, <3>6
    <3>8. Used(k, a) /\ k[a].size = h[a].size
      BY <1>4, <3>1, <3>3, <3>7 DEF Intact
    <3>9. NextOf(k, a) = e
      BY <3>1, <3>8 DEF NextOf
    <3> QED BY <1>2, <1>4, <3>8, <3>9 DEF Tiled, Used
  <2> QED BY <2>1, <2>2
<1>7. k[e].size # 0 /\ k[e].size \in Nat
  <2>1. e \notin Ends(h)
    BY <1>3 DEF Ends
  <2> QED BY <1>2, <1>4, <1>6, <2>1, NextNumbers DEF Ends
<1>8. k[e].free
  <2>1. e \notin T /\ ~Used(h, e)
    BY <1>4 DEF Used
  <2>2. ~Used(k, e)
    BY <1>4, <1>6, <2>1
  <2> QED BY <1>4, <1>6, <1>7, <2>2 DEF Used
<1>9. end \in F
  <2>1. CASE h[end].size = 0
    BY <1>3, <1>4, <2>1 DEF Ends
  <2>2. CASE h[end].size # 0
    <3>1. ~h[end].free
      BY <1>1, <1>4 DEF FreeApart, end
    <3>2. Used(h, end) /\ end \notin S
      BY <1>3, <1>4, <1>5, <2>2, <3>1 DEF Used
    <3> QED BY <1>3, <1>4, <3>2 DEF Intact, Used
  <2> QED BY <2>1, <2>2
<1> DEFINE g == NextOf(k, e)
<1>10. g \in F /\ g = e + k[e].size + 1 /\ g > e /\ g \in Nat
  BY <1>2, <1>3, <1>4, <1>6, <1>7 DEF Tiled, NextOf
<1>11. g <= end
  <2>1. end <= e \/ end >= g
    BY <1>2, <1>4, <1>6, <1>7, <1>9 DEF Tiled
  <2> QED BY <1>3, <1>5, <1>10, <2>1
<1>12. ~k[g].free
  BY <1>2, <1>4, <1>6, <1>8 DEF FreeApart
<1> HIDE DEF g
<1>13. g \in D
  <2>1. CASE k[g].size = 0
    <3>1. g \in Ends(k)
      BY <1>4, <1>10, <2>1 DEF Ends
    <3> QED BY <1>4, <3>1 DEF Ends
  <2>2. CASE k[g].size # 0
    <3>1. In(ext, c, g)
      BY <1>5, <1>10, <1>11, <1>3
    <3>2. g \notin T /\ Used(k, g)
      BY <1>4, <1>10, <1>12, <2>2, <3>1 DEF Used
    <3>3. Used(h, g)
      BY <1>4, <1>10, <3>2
    <3> QED BY <1>4, <3>3 DEF Used
  <2> QED BY <2>1, <2>2
<1>14. g = end
  <2>1. g <= e \/ g >= end
    BY <1>1, <1>3, <1>4, <1>13 DEF Tiled, end
  <2> QED BY <1>3, <1>5, <1>10, <1>11, <2>1
<1>15. k[e].size = h[e].size
  BY <1>3, <1>7, <1>10, <1>14
<1> QED BY <1>4, <1>6, <1>8, <1>15 DEF h, k, F
=============================================================================
