---------------------- MODULE SlabDecomposition_proofs ----------------------
(* The arithmetic of SlabDecomposition::make, for every grid height and every *)
(* number of ranks not above it.                                              *)
EXTENDS SlabDecomposition, WellFoundedInduction, TLAPS

(* Quotient and remainder of the rows over the ranks.                         *)
LEMMA DivMod ==
    ASSUME NEW ny \in Nat, NEW n \in Nat, n >= 1, n <= ny
    PROVE  /\ base(ny, n) \in Nat
           /\ base(ny, n) >= 1
           /\ rem(ny, n) \in 0 .. n - 1
           /\ ny = n * base(ny, n) + rem(ny, n)
<1> DEFINE q == ny \div n
           m == ny % n
<1>1. q \in Int /\ m \in 0 .. n - 1 /\ ny = n * q + m
  OBVIOUS
<1>2. q >= 1
  <2>1. SUFFICES ASSUME q <= 0 PROVE FALSE
    BY <1>1
  <2>2. n * q <= 0
    BY <1>1, <2>1, SMTT(30)
  <2> QED BY <1>1, <2>2
<1> QED BY <1>1, <1>2 DEF base, rem

(* The first row of slab r, multiplied out, and one step further.             *)
LEMMA FirstRow ==
    ASSUME NEW ny \in Nat, NEW n \in Nat, n >= 1, n <= ny, NEW rk \in 0 .. n
    PROVE  /\ first(ny, n, rk) \in Nat
           /\ first(ny, n, rk) <= ny
           /\ first(ny, n, rk + 1) = first(ny, n, rk) + base(ny, n) + extra(ny, n, rk)
<1> DEFINE q == base(ny, n)
           m == rem(ny, n)
<1>1. q \in Nat /\ m \in 0 .. n - 1 /\ ny = n * q + m
  BY DivMod
<1>2. rk * q \in Nat /\ (rk + 1) * q = rk * q + q
  BY <1>1, SMTT(30)
<1>3. rk * q <= n * q
  <2>1. n - rk \in Nat /\ (n - rk) * q >= 0
    BY <1>1, SMTT(30)
  <2>2. (n - rk) * q = n * q - rk * q
    BY <1>1, SMTT(30)
  <2> HIDE DEF q
  <2> QED BY <1>1, <1>2, <2>1, <2>2
<1> HIDE DEF q, m
<1>4. before(ny, n, rk) \in Nat /\ before(ny, n, rk) <= m
  BY <1>1 DEF before, m
<1>5. before(ny, n, rk + 1) = before(ny, n, rk) + extra(ny, n, rk)
  BY <1>1 DEF before, extra, m
<1>6. first(ny, n, rk) = rk * q + before(ny, n, rk)
      /\ first(ny, n, rk + 1) = (rk + 1) * q + before(ny, n, rk + 1)
  BY DEF first, q
<1>7. first(ny, n, rk) \in Nat /\ first(ny, n, rk) <= ny
  <2>1. n * q \in Nat
    BY <1>1, SMTT(30)
  <2> QED BY <1>1, <1>2, <1>3, <1>4, <1>6, <2>1
<1>8. first(ny, n, rk + 1) = first(ny, n, rk) + q + extra(ny, n, rk)
  <2>1. extra(ny, n, rk) \in Nat
    BY DEF extra
  <2> QED BY <1>1, <1>2, <1>4, <1>5, <1>6, <2>1
<1> QED BY <1>7, <1>8 DEF q

(* The slabs begin at the bottom of the grid and end at its top.              *)
LEMMA FirstRowBounds ==
    ASSUME NEW ny \in Nat, NEW n \in Nat, n >= 1, n <= ny
    PROVE  first(ny, n, 0) = 0 /\ first(ny, n, n) = ny
<1>1. base(ny, n) \in Nat /\ rem(ny, n) \in 0 .. n - 1
      /\ ny = n * base(ny, n) + rem(ny, n)
  BY DivMod
<1>2. before(ny, n, 0) = 0 /\ before(ny, n, n) = rem(ny, n)
  BY <1>1 DEF before
<1>3. 0 * base(ny, n) = 0
  BY <1>1, SMTT(30)
<1> QED BY <1>1, <1>2, <1>3 DEF first

(* The slab of a rank, its first and its last row, and the two at the ends.   *)
LEMMA SlabRows ==
    ASSUME NEW ny \in Nat, NEW n \in Nat, n >= 1, n <= ny, NEW rk \in 0 .. n - 1
    PROVE  LET d == make(ny, n, rk)
           IN  /\ d.j0 \in Nat /\ d.j1 \in Nat
               /\ d.j0 < d.j1 /\ d.j1 <= ny
               /\ rk = 0 => d.j0 = 0
               /\ rk = n - 1 => d.j1 = ny
<1>1. /\ first(ny, n, rk) \in Nat
      /\ first(ny, n, rk + 1) = first(ny, n, rk) + base(ny, n) + extra(ny, n, rk)
  BY FirstRow
<1>2. first(ny, n, rk + 1) \in Nat /\ first(ny, n, rk + 1) <= ny
  <2>1. rk + 1 \in 0 .. n
    OBVIOUS
  <2> QED BY <2>1, FirstRow
<1>3. base(ny, n) \in Nat /\ base(ny, n) >= 1 /\ extra(ny, n, rk) \in {0, 1}
  BY DivMod DEF extra
<1>4. first(ny, n, 0) = 0 /\ (rk = n - 1 => first(ny, n, rk + 1) = ny)
  BY FirstRowBounds
<1>5. make(ny, n, rk).j0 = first(ny, n, rk) /\ make(ny, n, rk).j1 = first(ny, n, rk + 1)
  BY <1>1 DEF make
<1> QED BY <1>1, <1>2, <1>3, <1>4, <1>5

------------------------------------------------------------------------------
(* A set of naturals has a least element.                                     *)
LEMMA Least ==
    ASSUME NEW S, S \subseteq Nat, S # {}
    PROVE  \E m \in S : \A n \in S : m <= n
<1> DEFINE R == OpToRel(<, Nat)
<1>1. IsWellFoundedOn(R, Nat)
  BY NatLessThanWellFounded
<1>2. \A x, y \in Nat : x < y => <<x, y>> \in R
  BY DEF OpToRel
<1> HIDE DEF R
<1>3. \E x \in S : \A y \in S : ~ (<<y, x>> \in R)
  BY <1>1, WFMin
<1>4. PICK x \in S : \A y \in S : ~ (<<y, x>> \in R)
  BY <1>3
<1>5. \A n \in S : x \in Nat /\ n \in Nat /\ ~ (n < x)
  BY <1>2, <1>4
<1>6. \A n \in S : x <= n
  BY <1>5
<1> QED BY <1>6

(* A lower slab ends where, or below where, a higher one begins.              *)
LEMMA FirstRowMonotone ==
    ASSUME NEW ny \in Nat, NEW n \in Nat, n >= 1, n <= ny,
           NEW a \in 0 .. n, NEW b \in 0 .. n, a <= b
    PROVE  first(ny, n, a) <= first(ny, n, b)
<1> DEFINE q == base(ny, n)
           m == rem(ny, n)
<1>1. q \in Nat /\ m \in 0 .. n - 1
  BY DivMod
<1>2. a * q \in Nat /\ b * q \in Nat /\ (b - a) * q \in Nat
  BY <1>1, SMTT(30)
<1>3. (b - a) * q = b * q - a * q
  BY <1>1, SMTT(30)
<1> HIDE DEF q, m
<1>4. before(ny, n, a) \in Nat /\ before(ny, n, b) \in Nat
      /\ before(ny, n, a) <= before(ny, n, b)
  BY <1>1 DEF before, m
<1>5. first(ny, n, a) = a * q + before(ny, n, a) /\ first(ny, n, b) = b * q + before(ny, n, b)
  BY DEF first, q
<1> QED BY <1>2, <1>3, <1>4, <1>5

(* Every row of the grid is in the slab of some rank.                         *)
LEMMA EveryRowOwned ==
    ASSUME NEW ny \in Nat, NEW n \in Nat, n >= 1, n <= ny, NEW y \in 0 .. ny - 1
    PROVE  \E q \in 0 .. n - 1 : first(ny, n, q) <= y /\ y < first(ny, n, q + 1)
<1> DEFINE T == {k \in 0 .. n : y < first(ny, n, k)}
<1>1. \A k \in 0 .. n : first(ny, n, k) \in Nat
  BY FirstRow
<1>2. n \in T /\ 0 \notin T
  BY FirstRowBounds
<1>3. PICK m \in T : \A k \in T : m <= k
  <2>1. T \subseteq Nat /\ T # {}
    BY <1>2
  <2> HIDE DEF T
  <2> QED BY <2>1, Least
<1>4. m \in 1 .. n
  BY <1>2, <1>3
<1>5. m - 1 \in 0 .. n - 1 /\ m - 1 \notin T
  BY <1>3, <1>4
<1>6. first(ny, n, m - 1) <= y
  BY <1>1, <1>5
<1>7. (m - 1) + 1 = m /\ y < first(ny, n, m)
  BY <1>3, <1>4
<1> QED BY <1>5, <1>6, <1>7

(* The first row of a slab, and its end, which is the first row of the next.  *)
LEMMA MakeIs ==
    ASSUME NEW ny \in Nat, NEW n \in Nat, n >= 1, n <= ny, NEW rk \in 0 .. n - 1
    PROVE  /\ make(ny, n, rk).j0 = first(ny, n, rk)
           /\ make(ny, n, rk).j1 = first(ny, n, rk + 1)
BY FirstRow DEF make
=============================================================================
