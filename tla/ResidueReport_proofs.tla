------------------------ MODULE ResidueReport_proofs ------------------------
(* The slabs partition the grid, for every grid height and rank count         *)
(* (tests/test_parallel.cpp checks five heights and at most eight ranks), and *)
(* what the residue file has of the place of the largest change, whatever the *)
(* field, and of the forces, for the walls of Boundaries.                     *)
EXTENDS ResidueReport, SlabDecomposition_proofs, SequenceTheorems

(* What make returns for rank rk: a non-empty range inside the grid, which    *)
(* ends where the range of rank rk + 1 begins, and at the top for the last.   *)
LEMMA MakeRange ==
    ASSUME NEW ny \in Nat, NEW n \in Nat, n >= 1, n <= ny, NEW rk \in 0 .. n - 1
    PROVE  /\ make(ny, n, rk) \in RowRange
           /\ make(ny, n, rk).j0 < make(ny, n, rk).j1
           /\ make(ny, n, rk).j1 <= ny
           /\ make(ny, n, rk).j1 = first(ny, n, rk + 1)
           /\ make(ny, n, rk).j0 = first(ny, n, rk)
           /\ make(ny, n, rk).j1 - make(ny, n, rk).j0 = base(ny, n) + extra(ny, n, rk)
<1>1. first(ny, n, rk) \in Nat
      /\ first(ny, n, rk + 1) = first(ny, n, rk) + base(ny, n) + extra(ny, n, rk)
  BY FirstRow
<1>2. first(ny, n, rk + 1) \in Nat /\ first(ny, n, rk + 1) <= ny
  <2>1. rk + 1 \in 0 .. n
    OBVIOUS
  <2> QED BY <2>1, FirstRow
<1>3. base(ny, n) \in Nat /\ base(ny, n) >= 1 /\ extra(ny, n, rk) \in {0, 1}
  BY DivMod DEF extra
<1> QED BY <1>1, <1>2, <1>3 DEF make, RowRange

------------------------------------------------------------------------------
(* The inductive invariant: what has been pushed is what make returns, rank   *)
(* after rank, and a range is only ever pushed when the arguments are valid.  *)
IInv ==
    /\ TypeOK
    /\ \A k \in 1 .. Len(r) : r[k] = make(ny_global, nranks, k - 1)
    /\ Len(r) > 0 => nranks <= ny_global
    /\ outcome = "returned" => Len(r) = nranks

LEMMA IInvStep == IInv /\ [Next]_vars => IInv'
<1> SUFFICES ASSUME IInv, [Next]_vars PROVE IInv'
  OBVIOUS
<1> USE DEF IInv, TypeOK
<1>0. ny_global \in Nat /\ nranks \in Nat /\ nranks >= 1 /\ Len(r) \in Nat
  BY BoundsAssumption
<1>1. CASE PushRange
  <2> DEFINE d == make(ny_global, nranks, Len(r))
  <2>1. nranks <= ny_global /\ Len(r) \in 0 .. nranks - 1
    BY <1>0, <1>1 DEF PushRange, accepts
  <2>2. d \in RowRange
    BY <1>0, <2>1, MakeRange
  <2>3. r' = Append(r, d) /\ UNCHANGED <<ny_global, nranks, outcome>>
    BY <1>1 DEF PushRange
  <2> HIDE DEF d
  <2>4. /\ r' \in Seq(RowRange)
        /\ Len(r') = Len(r) + 1
        /\ \A k \in 1 .. Len(r) : r'[k] = r[k]
        /\ r'[Len(r) + 1] = d
    BY <1>0, <2>2, <2>3
  <2>5. \A k \in 1 .. Len(r') : r'[k] = make(ny_global, nranks, k - 1)
    <3> SUFFICES ASSUME NEW k \in 1 .. Len(r')
                 PROVE  r'[k] = make(ny_global, nranks, k - 1)
      OBVIOUS
    <3>1. CASE k \in 1 .. Len(r)
      BY <2>4, <3>1
    <3>2. CASE k = Len(r) + 1
      BY <1>0, <2>4, <3>2 DEF d
    <3> QED BY <1>0, <2>4, <3>1, <3>2
  <2>6. outcome' # "returned"
    BY <1>1 DEF PushRange
  <2> QED BY <1>0, <2>1, <2>3, <2>4, <2>5, <2>6
<1>2. CASE Throw
  BY <1>2 DEF Throw
<1>3. CASE Return
  BY <1>3 DEF Return
<1>4. CASE UNCHANGED vars
  BY <1>4 DEF vars
<1> QED BY <1>1, <1>2, <1>3, <1>4 DEF Next

LEMMA IInvInductive == Spec => []IInv
<1>1. Init => IInv
  BY BoundsAssumption DEF Init, IInv, TypeOK
<1> QED BY <1>1, IInvStep, PTL DEF Spec

(* The types of the loop's variables, for every bound.                        *)
THEOREM TypeCorrect == Spec => []TypeOK
<1>1. IInv => TypeOK
  BY DEF IInv
<1> QED BY <1>1, IInvInductive, PTL

(* For every number of rows and ranks, the ranges start at row 0, follow each *)
(* other without gap or overlap, are not empty and stay inside the grid.      *)
THEOREM TilingAlways == Spec => []Tiling
<1>1. IInv => Tiling
  <2> SUFFICES ASSUME IInv PROVE Tiling
    OBVIOUS
  <2>0. /\ ny_global \in Nat /\ nranks \in Nat /\ nranks >= 1
        /\ Len(r) \in Nat /\ Len(r) <= nranks /\ r \in Seq(RowRange)
        /\ Len(r) > 0 => nranks <= ny_global
    BY BoundsAssumption DEF IInv, TypeOK
  <2>1. ASSUME NEW k \in 1 .. Len(r)
        PROVE  /\ r[k] = make(ny_global, nranks, k - 1)
               /\ k - 1 \in 0 .. nranks - 1 /\ nranks <= ny_global
    BY <2>0 DEF IInv
  <2>2. r # << >> => r[1].j0 = 0
    <3> SUFFICES ASSUME r # << >> PROVE r[1].j0 = 0
      OBVIOUS
    <3>1. 1 \in 1 .. Len(r)
      BY <2>0, EmptySeq
    <3>2. r[1] = make(ny_global, nranks, 0) /\ nranks <= ny_global
      BY <2>1, <3>1
    <3>3. make(ny_global, nranks, 0).j0 = first(ny_global, nranks, 0)
      BY DEF make
    <3> QED BY <2>0, <3>2, <3>3, FirstRowBounds
  <2>3. \A k \in 1 .. Len(r) - 1 : r[k].j1 = r[k + 1].j0
    <3> SUFFICES ASSUME NEW k \in 1 .. Len(r) - 1 PROVE r[k].j1 = r[k + 1].j0
      OBVIOUS
    <3>1. k \in 1 .. Len(r) /\ k + 1 \in 1 .. Len(r) /\ (k + 1) - 1 = k /\ (k - 1) + 1 = k
      BY <2>0
    <3>2. make(ny_global, nranks, k - 1).j1 = first(ny_global, nranks, k)
      <4>1. k - 1 \in 0 .. nranks - 1 /\ nranks <= ny_global
        BY <2>1, <3>1
      <4>2. make(ny_global, nranks, k - 1).j1 = first(ny_global, nranks, (k - 1) + 1)
        BY <2>0, <4>1, MakeRange
      <4> QED BY <3>1, <4>2
    <3>3. make(ny_global, nranks, k).j0 = first(ny_global, nranks, k)
      BY DEF make
    <3> QED BY <2>1, <3>1, <3>2, <3>3
  <2>4. \A k \in 1 .. Len(r) : r[k].j0 < r[k].j1 /\ r[k].j1 <= ny_global
    BY <2>0, <2>1, MakeRange
  <2> QED BY <2>2, <2>3, <2>4 DEF Tiling
<1> QED BY <1>1, IInvInductive, PTL

(* For every number of rows and ranks, a completed loop has given out every   *)
(* row of the grid.                                                           *)
THEOREM CoversAlways == Spec => []Covers
<1>1. IInv => Covers
  <2> SUFFICES ASSUME IInv, outcome = "returned"
               PROVE  r # << >> /\ r[Len(r)].j1 = ny_global
    BY DEF Covers
  <2>1. /\ ny_global \in Nat /\ nranks \in Nat /\ nranks >= 1
        /\ Len(r) = nranks /\ nranks <= ny_global
    BY BoundsAssumption DEF IInv, TypeOK
  <2>2. r[nranks] = make(ny_global, nranks, nranks - 1)
    BY <2>1 DEF IInv
  <2>3. nranks - 1 \in 0 .. nranks - 1 /\ (nranks - 1) + 1 = nranks
    BY <2>1
  <2>4. make(ny_global, nranks, nranks - 1).j1 = first(ny_global, nranks, nranks)
    BY <2>1, <2>3, MakeRange
  <2> QED BY <2>1, <2>2, <2>4, FirstRowBounds
<1> QED BY <1>1, IInvInductive, PTL

(* For every number of rows and ranks, the work is balanced to within a row.  *)
THEOREM BalancedAlways == Spec => []Balanced
<1>1. IInv => Balanced
  <2> SUFFICES ASSUME IInv, NEW k \in 1 .. Len(r), NEW l \in 1 .. Len(r), k < l
               PROVE  (r[k].j1 - r[k].j0) - (r[l].j1 - r[l].j0) \in {0, 1}
    BY DEF Balanced
  <2>1. /\ ny_global \in Nat /\ nranks \in Nat /\ nranks >= 1
        /\ nranks <= ny_global /\ Len(r) <= nranks /\ Len(r) \in Nat
    BY BoundsAssumption DEF IInv, TypeOK
  <2>2. /\ r[k] = make(ny_global, nranks, k - 1)
        /\ r[l] = make(ny_global, nranks, l - 1)
    BY DEF IInv
  <2>3. k - 1 \in 0 .. nranks - 1 /\ l - 1 \in 0 .. nranks - 1
    BY <2>1
  <2> DEFINE q == base(ny_global, nranks)
  <2>4. r[k].j1 - r[k].j0 = q + extra(ny_global, nranks, k - 1)
    BY <2>1, <2>2, <2>3, MakeRange
  <2>5. r[l].j1 - r[l].j0 = q + extra(ny_global, nranks, l - 1)
    BY <2>1, <2>2, <2>3, MakeRange
  <2>6. q \in Nat /\ rem(ny_global, nranks) \in 0 .. nranks - 1
    BY <2>1, DivMod
  <2>7. extra(ny_global, nranks, k - 1) - extra(ny_global, nranks, l - 1) \in {0, 1}
    BY <2>6 DEF extra
  <2>8. extra(ny_global, nranks, k - 1) \in Int /\ extra(ny_global, nranks, l - 1) \in Int
    BY DEF extra
  <2> HIDE DEF q
  <2> QED BY <2>4, <2>5, <2>6, <2>7, <2>8
<1> QED BY <1>1, IInvInductive, PTL

------------------------------------------------------------------------------
(* A bounded set of naturals has a greatest element: the scans and the        *)
(* reductions have a result.                                                  *)
LEMMA Greatest ==
    ASSUME NEW S, S \subseteq Nat, S # {}, NEW b \in Nat, \A n \in S : n <= b
    PROVE  Max(S) \in S /\ \A n \in S : n <= Max(S)
<1> DEFINE T == {k \in Nat : \E n \in S : k = b - n}
<1>1. T \subseteq Nat
  OBVIOUS
<1>2. \A n \in S : b - n \in T
  OBVIOUS
<1>3. T # {}
  BY <1>2
<1>4. PICK k \in T : \A l \in T : k <= l
  <2> HIDE DEF T
  <2> QED BY <1>1, <1>3, Least
<1>5. PICK m \in S : k = b - m
  OBVIOUS
<1>6. ASSUME NEW n \in S PROVE m >= n
  <2>1. k <= b - n
    BY <1>2, <1>4
  <2>2. m \in Nat /\ n \in Nat
    OBVIOUS
  <2> QED BY <1>5, <2>1, <2>2
<1>7. \E x \in S : \A y \in S : x >= y
  BY <1>6
<1>8. Max(S) \in S /\ \A y \in S : Max(S) >= y
  BY <1>7 DEF Max
<1>9. \A n \in S : n \in Nat /\ Max(S) \in Nat
  BY <1>8
<1> QED BY <1>8, <1>9

(* The larger and the smaller of two numbers.                                 *)
LEMMA MaxMinOfTwo ==
    ASSUME NEW a \in Int, NEW b \in Int
    PROVE  /\ Max({a, b}) = IF a >= b THEN a ELSE b
           /\ Min({a, b}) = IF a <= b THEN a ELSE b
<1> DEFINE x == IF a >= b THEN a ELSE b
           y == IF a <= b THEN a ELSE b
<1>1. x \in {a, b} /\ \A z \in {a, b} : x >= z
  OBVIOUS
<1>2. y \in {a, b} /\ \A z \in {a, b} : y <= z
  OBVIOUS
<1>3. \A z \in {a, b} : (\A w \in {a, b} : z >= w) => z = x
  OBVIOUS
<1>4. \A z \in {a, b} : (\A w \in {a, b} : z <= w) => z = y
  OBVIOUS
<1> HIDE DEF x, y
<1>5. Max({a, b}) = x
  BY <1>1, <1>3 DEF Max
<1>6. Min({a, b}) = y
  BY <1>2, <1>4 DEF Min
<1> QED BY <1>5, <1>6 DEF x, y

------------------------------------------------------------------------------
(* The report.  When the fields of an iteration exist the ranges are          *)
(* complete, and what root has written is made of the fields still there.     *)
Reporting ==
    /\ IInv
    /\ change # << >> =>
         /\ outcome = "returned"
         /\ ny_global <= ReportRows
         /\ change \in Changes
         /\ segments \in Boundaries
    /\ line # << >> =>
         /\ change # << >>
         /\ line = [location |-> location, faces |-> integrated(0)]

LEMMA SameReport ==
    ASSUME UNCHANGED <<ny_global, nranks, r, change, segments>>
    PROVE  location' = location /\ integrated(0)' = integrated(0)
<1>1. Cells' = Cells /\ Ranks' = Ranks
  BY DEF Cells, Ranks
<1>2. \A q : j0(q)' = j0(q) /\ j1(q)' = j1(q)
  BY DEF j0, j1
<1>3. \A q : slab(q)' = slab(q)
  BY <1>1, <1>2 DEF slab
<1>4. \A S : Largest(S)' = Largest(S)
  BY DEF Largest
<1>5. \A S : lastmax(S)' = lastmax(S)
  BY <1>4 DEF lastmax, After
<1>6. \A q : resmax(q)' = resmax(q)
  BY <1>2, <1>3, <1>5 DEF resmax
<1>7. location' = location
  <2> DEFINE S == {packed(resmax(q)) : q \in Ranks}
  <2>1. (Largest(Cells) = 0)' <=> Largest(Cells) = 0
    BY <1>1, <1>4
  <2>2. S' = S
    BY <1>1, <1>6 DEF packed
  <2>3. Max(S)' = Max(S)
    BY <2>2
  <2>4. location = IF nranks = 1 \/ Largest(Cells) = 0 THEN resmax(0) ELSE unpacked(Max(S))
    BY DEF location
  <2>5. location' = IF nranks' = 1 \/ (Largest(Cells) = 0)' THEN resmax(0)' ELSE unpacked(Max(S)')
    BY DEF location, unpacked
  <2> HIDE DEF S
  <2> QED BY <1>6, <2>1, <2>3, <2>4, <2>5
<1>8. Walls' = Walls /\ wall' = wall
  <2>1. segments' = segments
    OBVIOUS
  <2>2. Walls' = Walls
    BY <2>1 DEF Walls
  <2> QED BY <2>1, <2>2 DEF wall
<1>9. integrated(0)' = integrated(0)
  BY <1>2, <1>8 DEF integrated
<1> QED BY <1>7, <1>9

LEMMA ReportingAlways == ReportSpec => []Reporting
<1>1. ReportInit => Reporting
  <2> SUFFICES ASSUME ReportInit PROVE Reporting
    OBVIOUS
  <2>1. IInv
    BY BoundsAssumption DEF ReportInit, Init, IInv, TypeOK
  <2> QED BY <2>1 DEF ReportInit, Reporting
<1>2. Reporting /\ [ReportNext]_rvars => Reporting'
  <2> SUFFICES ASSUME Reporting, [ReportNext]_rvars PROVE Reporting'
    OBVIOUS
  <2>1. CASE Decompose
    <3>1. outcome # "returned"
      BY <2>1 DEF Decompose, Next, PushRange, Throw, Return
    <3>2. change = << >> /\ line = << >>
      BY <3>1 DEF Reporting
    <3>3. IInv'
      BY <2>1, IInvStep DEF Decompose, Reporting
    <3> QED BY <2>1, <3>2, <3>3 DEF Decompose, Reporting
  <2>2. CASE Iterate
    <3>1. /\ UNCHANGED vars /\ UNCHANGED line /\ change = << >>
          /\ outcome = "returned" /\ ny_global <= ReportRows
          /\ change' \in Changes /\ segments' \in Boundaries
      BY <2>2 DEF Iterate
    <3>2. IInv'
      BY <3>1, IInvStep DEF Reporting
    <3>3. UNCHANGED <<ny_global, outcome>> /\ Changes' = Changes /\ Boundaries' = Boundaries
      BY <3>1 DEF vars, Changes, Boundaries, Cells, Along, Whole
    <3> QED BY <3>1, <3>2, <3>3 DEF Reporting
  <2>3. ASSUME UNCHANGED <<vars, change, segments>>,
               \/ UNCHANGED line
               \/ change # << >> /\ line' = [location |-> location, faces |-> integrated(0)]
        PROVE  Reporting'
    <3>1. IInv'
      BY <2>3, IInvStep DEF Reporting
    <3>2. location' = location /\ integrated(0)' = integrated(0)
      BY <2>3, SameReport DEF vars
    <3>3. UNCHANGED <<ny_global, outcome>> /\ Changes' = Changes /\ Boundaries' = Boundaries
      BY <2>3 DEF vars, Changes, Boundaries, Cells, Along, Whole
    <3> QED BY <2>3, <3>1, <3>2, <3>3 DEF Reporting
  <2> QED BY <2>1, <2>2, <2>3 DEF ReportNext, residue_and_forces, rvars
<1> QED BY <1>1, <1>2, PTL DEF ReportSpec

(* Places fit where the code packs them.                                      *)
LEMMA ReportBounds ==
    /\ ReportRows \in Nat /\ 1 <= ReportRows /\ ReportRows <= 32765
    /\ NX \in Nat /\ 1 <= NX /\ NX <= 65533
    /\ MaxChange \in Nat
BY ReportAssumption

(* The slabs of a complete decomposition, as the report needs them.           *)
LEMMA Slabs ==
    ASSUME Reporting, change # << >>
    PROVE  /\ ny_global \in 1 .. ReportRows
           /\ nranks \in 1 .. ny_global
           /\ Ranks = 0 .. nranks - 1
           /\ \A q \in Ranks : /\ j0(q) \in Nat /\ j1(q) \in Nat
                               /\ j0(q) < j1(q) /\ j1(q) <= ny_global
                               /\ j1(q) - j0(q) <= j1(0)
           /\ j0(0) = 0
           /\ j1(nranks - 1) = ny_global
           /\ \A p, q \in Ranks : p < q => j1(p) <= j0(q)
           /\ \A y \in 0 .. ny_global - 1 : \E q \in Ranks : j0(q) <= y /\ y < j1(q)
<1> DEFINE ny == ny_global
           n == nranks
<1>1. n \in Nat /\ n >= 1 /\ ny \in 1 .. ReportRows /\ n <= ny /\ ny \in Nat /\ Len(r) = n
  <2>1. TypeOK /\ Len(r) = nranks /\ (Len(r) > 0 => nranks <= ny_global) /\ ny_global <= ReportRows
    BY DEF Reporting, IInv
  <2>2. ny_global \in 1 .. MaxNY /\ nranks \in 1 .. MaxRanks
    BY <2>1 DEF TypeOK
  <2>3. MaxNY \in Nat /\ MaxRanks \in Nat /\ ReportRows \in Nat
    BY BoundsAssumption, ReportBounds
  <2> QED BY <2>1, <2>2, <2>3
<1>2. Ranks = 0 .. n - 1
  BY DEF Ranks
<1>3. ASSUME NEW q \in Ranks
      PROVE  /\ j0(q) = first(ny, n, q) /\ j1(q) = first(ny, n, q + 1)
             /\ j0(q) \in Nat /\ j1(q) \in Nat /\ j0(q) < j1(q) /\ j1(q) <= ny
             /\ j1(q) - j0(q) = base(ny, n) + extra(ny, n, q)
  <2>1. q + 1 \in 1 .. Len(r) /\ (q + 1) - 1 = q
    BY <1>1, <1>2
  <2>2. r[q + 1] = make(ny, n, q)
    BY <2>1 DEF Reporting, IInv
  <2>3. q \in 0 .. n - 1
    BY <1>2
  <2> DEFINE d == make(ny, n, q)
  <2>4. /\ d \in RowRange /\ d.j0 < d.j1 /\ d.j1 <= ny
        /\ d.j1 = first(ny, n, q + 1) /\ d.j0 = first(ny, n, q)
        /\ d.j1 - d.j0 = base(ny, n) + extra(ny, n, q)
    BY <1>1, <2>3, MakeRange
  <2>5. j0(q) = d.j0 /\ j1(q) = d.j1
    BY <2>2 DEF j0, j1
  <2> HIDE DEF d
  <2>6. d.j0 \in Nat /\ d.j1 \in Nat
    BY <2>4 DEF RowRange
  <2> QED BY <2>4, <2>5, <2>6
<1>4. 0 \in Ranks /\ n - 1 \in Ranks /\ (n - 1) + 1 = n
  BY <1>1, <1>2
<1>5. j0(0) = 0 /\ j1(n - 1) = ny
  BY <1>1, <1>3, <1>4, FirstRowBounds
<1>6. \A q \in Ranks : j1(q) - j0(q) <= j1(0)
  <2> SUFFICES ASSUME NEW q \in Ranks PROVE j1(q) - j0(q) <= j1(0)
    OBVIOUS
  <2>1. rem(ny, n) \in 0 .. n - 1 /\ base(ny, n) \in Nat
    BY <1>1, DivMod
  <2>2. extra(ny, n, q) <= extra(ny, n, 0) /\ extra(ny, n, q) \in {0, 1} /\ extra(ny, n, 0) \in {0, 1}
    BY <1>1, <1>2, <2>1 DEF extra
  <2>3. j1(q) - j0(q) = base(ny, n) + extra(ny, n, q)
    BY <1>3
  <2>4. j1(0) - j0(0) = base(ny, n) + extra(ny, n, 0) /\ j1(0) \in Nat
    BY <1>3, <1>4
  <2> QED BY <1>5, <2>1, <2>2, <2>3, <2>4
<1>7. \A p, q \in Ranks : p < q => j1(p) <= j0(q)
  <2> SUFFICES ASSUME NEW p \in Ranks, NEW q \in Ranks, p < q PROVE j1(p) <= j0(q)
    OBVIOUS
  <2>1. p + 1 \in 0 .. n /\ q \in 0 .. n /\ p + 1 <= q
    BY <1>1, <1>2
  <2>2. first(ny, n, p + 1) <= first(ny, n, q)
    BY <1>1, <2>1, FirstRowMonotone
  <2> QED BY <1>3, <2>2
<1>8. \A y \in 0 .. ny - 1 : \E q \in Ranks : j0(q) <= y /\ y < j1(q)
  <2> SUFFICES ASSUME NEW y \in 0 .. ny - 1 PROVE \E q \in Ranks : j0(q) <= y /\ y < j1(q)
    OBVIOUS
  <2>1. PICK q \in 0 .. n - 1 : first(ny, n, q) <= y /\ y < first(ny, n, q + 1)
    BY <1>1, EveryRowOwned
  <2>2. q \in Ranks
    BY <1>2
  <2>3. j0(q) = first(ny, n, q) /\ j1(q) = first(ny, n, q + 1)
    BY <1>3, <2>2
  <2>4. j0(q) <= y /\ y < j1(q)
    BY <2>1, <2>3
  <2> QED BY <2>2, <2>4, Zenon
<1>9. ny_global \in 1 .. ReportRows /\ nranks \in 1 .. ny_global
  BY <1>1
<1>10. \A q \in Ranks : /\ j0(q) \in Nat /\ j1(q) \in Nat
                        /\ j0(q) < j1(q) /\ j1(q) <= ny_global
                        /\ j1(q) - j0(q) <= j1(0)
  BY <1>3, <1>6
<1> QED BY <1>2, <1>5, <1>7, <1>8, <1>9, <1>10, Zenon

(* The wall that is integrated lies on an edge of the grid.                   *)
LEMMA WallPlace ==
    ASSUME Reporting, change # << >>, Walls # {}
    PROVE  /\ wall.edge \in Edges
           /\ wall.start \in Nat /\ wall.end \in Nat
           /\ 2 <= wall.start /\ wall.start <= wall.end
           /\ wall.edge \in {"XMin", "XMax"} => wall.end - 2 < ny_global
<1>1. ny_global \in Nat /\ ny_global >= 1 /\ NX \in Nat /\ NX >= 1
  <2>1. ny_global \in 1 .. ReportRows
    BY Slabs
  <2>2. ReportRows \in Nat /\ NX \in Nat /\ NX >= 1
    BY ReportBounds
  <2> QED BY <2>1, <2>2
<1> DEFINE Good(s) == /\ s.edge \in Edges
                      /\ s.start \in Nat /\ s.end \in Nat
                      /\ 2 <= s.start /\ s.start <= s.end
                      /\ s.edge \in {"XMin", "XMax"} => s.end - 2 < ny_global
<1>2. \A e \in Edges : \A lo, hi \in 0 .. Along(e) - 1 : \A b \in BOOLEAN :
          lo <= hi => Good(Segment(e, lo, hi, b))
  BY <1>1 DEF Segment, Along, Edges
<1>3. \A e \in Edges : \A b \in BOOLEAN : Good(Whole(e, b)) /\ Whole(e, b).wall = b
  <2> SUFFICES ASSUME NEW e \in Edges, NEW b \in BOOLEAN
               PROVE  Good(Whole(e, b)) /\ Whole(e, b).wall = b
    OBVIOUS
  <2>1. 0 \in 0 .. Along(e) - 1 /\ Along(e) - 1 \in 0 .. Along(e) - 1 /\ 0 <= Along(e) - 1
    BY <1>1 DEF Along
  <2>2. Good(Segment(e, 0, Along(e) - 1, b))
    BY <1>2, <2>1
  <2> QED BY <2>2 DEF Whole, Segment
<1>4. segments \in Boundaries
  BY DEF Reporting
<1> SUFFICES Good(wall)
  OBVIOUS
<1>5. CASE \E e \in Edges : \E lo, hi \in 0 .. Along(e) - 1 :
               lo <= hi /\ segments = <<Segment(e, lo, hi, TRUE)>>
  <2>0. PICK e \in Edges : \E lo, hi \in 0 .. Along(e) - 1 :
            lo <= hi /\ segments = <<Segment(e, lo, hi, TRUE)>>
    BY <1>5
  <2>1. PICK lo \in 0 .. Along(e) - 1, hi \in 0 .. Along(e) - 1 :
            lo <= hi /\ segments = <<Segment(e, lo, hi, TRUE)>>
    BY <2>0
  <2>2. Walls \subseteq {1}
    BY <2>1 DEF Walls
  <2>3. Walls = {1}
    BY <2>2
  <2>4. Max({1, 1}) = 1
    BY MaxMinOfTwo
  <2>5. wall = segments[1]
    BY <2>3, <2>4 DEF wall
  <2>6. Good(segments[1])
    BY <1>2, <2>1
  <2> QED BY <2>5, <2>6
<1>6. CASE \E d \in Edges : \E e \in Edges : \E b \in BOOLEAN :
               segments = <<Whole(d, TRUE), Whole(e, b)>>
  <2>1. PICK d \in Edges, e \in Edges, b \in BOOLEAN : segments = <<Whole(d, TRUE), Whole(e, b)>>
    BY <1>6
  <2>2. Walls \subseteq {1, 2} /\ 1 \in Walls
    <3>1. DOMAIN segments = {1, 2} /\ segments[1] = Whole(d, TRUE)
      BY <2>1
    <3> QED BY <1>3, <3>1 DEF Walls
  <2>3. Walls = {1, 1} \/ Walls = {1, 2}
    BY <2>2
  <2>4. Max({1, 1}) = 1 /\ Max({1, 2}) = 2
    BY MaxMinOfTwo
  <2>5. wall = segments[1] \/ wall = segments[2]
    BY <2>3, <2>4 DEF wall
  <2>6. Good(segments[1]) /\ Good(segments[2])
    <3> HIDE DEF Good
    <3> QED BY <1>3, <2>1
  <2> QED BY <2>5, <2>6
<1>7. CASE segments = <<Whole("YMin", FALSE)>>
  <2>1. Walls = {}
    BY <1>7 DEF Walls, Whole, Segment
  <2> QED BY <2>1
<1> HIDE DEF Good
<1> DEFINE Spans(e) == {m \in (0 .. Along(e) - 1) \X (0 .. Along(e) - 1) : m[1] <= m[2]}
           Single(e) == {<<Segment(e, n[1], n[2], TRUE)>> : n \in Spans(e)}
           Singles == UNION {Single(e) : e \in Edges}
           W(e) == Whole(e, TRUE)
           O(e) == Whole(e, FALSE)
           Both == {<<W(d), W(e)>> : d \in Edges, e \in Edges}
           One == {<<W(d), O(e)>> : d \in Edges, e \in Edges}
<1>8. CASE segments \in Singles
  <2>1. PICK e \in Edges : segments \in Single(e)
    BY <1>8
  <2>2. PICK n \in Spans(e) : segments = <<Segment(e, n[1], n[2], TRUE)>>
    BY <2>1
  <2>3. n[1] \in 0 .. Along(e) - 1 /\ n[2] \in 0 .. Along(e) - 1 /\ n[1] <= n[2]
    OBVIOUS
  <2> QED BY <1>5, <2>2, <2>3
<1>9. CASE segments \in Both
  <2>1. \E d \in Edges : \E e \in Edges : segments = <<W(d), W(e)>>
    <3> HIDE DEF W
    <3> QED BY <1>9
  <2> QED BY <1>6, <2>1
<1>10. CASE segments \in One
  <2>1. \E d \in Edges : \E e \in Edges : segments = <<W(d), O(e)>>
    <3> HIDE DEF W, O
    <3> QED BY <1>10
  <2> QED BY <1>6, <2>1
<1>11. Boundaries = Singles \cup Both \cup One \cup {<<Whole("YMin", FALSE)>>}
  BY DEF Boundaries
<1> HIDE DEF Spans, Single, Singles, W, O, Both, One
<1> QED BY <1>4, <1>7, <1>8, <1>9, <1>10, <1>11

(* What every rank integrates of the wall, and that root has the whole wall   *)
(* only in the cases named: for every grid and rank count, and the walls of   *)
(* Boundaries.                                                                *)
THEOREM ForcesReportedAlways == ReportSpec => []ForcesReported
<1>1. Reporting => ForcesReported
  <2> SUFFICES ASSUME Reporting, Written PROVE ForcesReported
    BY DEF ForcesReported
  <2>1. change # << >> /\ line = [location |-> location, faces |-> integrated(0)]
    BY DEF Reporting, Written
  <2>2. /\ ny_global \in Nat /\ nranks \in Nat /\ nranks >= 1
        /\ Ranks = 0 .. nranks - 1
        /\ \A q \in Ranks : j0(q) \in Nat /\ j1(q) \in Nat /\ j0(q) < j1(q) /\ j1(q) <= ny_global
        /\ j0(0) = 0 /\ j1(nranks - 1) = ny_global
        /\ \A p, q \in Ranks : p < q => j1(p) <= j0(q)
        /\ \A y \in 0 .. ny_global - 1 : \E q \in Ranks : j0(q) <= y /\ y < j1(q)
    <3>1. ny_global \in 1 .. ReportRows /\ nranks \in 1 .. ny_global /\ ReportRows \in Nat
      BY <2>1, Slabs, ReportBounds
    <3> QED BY <2>1, <3>1, Slabs
  <2>3. line.faces = integrated(0)
    BY <2>1
  <2>4. 0 \in Ranks /\ nranks - 1 \in Ranks
    BY <2>2
  <2>5. CASE Walls = {}
    <3>1. \A q : integrated(q) = {}
      BY <2>5 DEF integrated
    <3>2. SerialFaces = {}
      BY <2>5 DEF SerialFaces
    <3> QED BY <2>3, <2>5, <3>1, <3>2 DEF ForcesReported
  <2>6. CASE Walls # {}
    <3> DEFINE lo == wall.start - 2
               hi == wall.end - 2
    <3>1. /\ wall.edge \in Edges /\ lo \in Nat /\ hi \in Nat /\ lo <= hi
          /\ wall.edge \in {"XMin", "XMax"} => hi < ny_global
      BY <2>1, <2>6, WallPlace
    <3>2. SerialFaces = lo .. hi
      BY <2>6 DEF SerialFaces
    <3>3. lo .. hi # {}
      BY <3>1
    <3>4. CASE wall.edge \in {"YMin", "YMax"}
      <4> DEFINE owner == IF wall.edge = "YMin" THEN 0 ELSE nranks - 1
      <4>1. \A q \in Ranks : integrated(q) = IF q = owner THEN lo .. hi ELSE {}
        BY <2>6, <3>4 DEF integrated
      <4>2. owner \in Ranks
        BY <2>4
      <4> HIDE DEF lo, hi
      <4>3. UNION {integrated(q) : q \in Ranks} = lo .. hi
        <5> HIDE DEF owner
        <5> QED BY <4>1, <4>2
      <4>4. \A p, q \in Ranks : p # q => integrated(p) \cap integrated(q) = {}
        BY <4>1
      <4>5. line.faces = lo .. hi <=> owner = 0
        BY <2>3, <2>4, <3>3, <4>1
      <4>6. owner = 0 <=> wall.edge = "YMin" \/ nranks = 1
        BY <2>2
      <4>7. ~ (wall.edge \in {"XMin", "XMax"})
        BY <3>4
      <4> QED BY <2>6, <3>2, <4>3, <4>4, <4>5, <4>6, <4>7 DEF ForcesReported
    <3>5. CASE wall.edge \in {"XMin", "XMax"}
      <4>1. \A q \in Ranks : integrated(q) = {y \in lo .. hi : j0(q) <= y /\ y < j1(q)}
        <5> SUFFICES ASSUME NEW q \in Ranks
                     PROVE  integrated(q) = {y \in lo .. hi : j0(q) <= y /\ y < j1(q)}
          OBVIOUS
        <5>1. integrated(q) = Max({lo, j0(q)}) .. Min({hi, j1(q) - 1})
          BY <2>6, <3>5 DEF integrated
        <5>2. j0(q) \in Nat /\ j1(q) \in Nat /\ lo \in Nat /\ hi \in Nat
          BY <2>2, <3>1
        <5> HIDE DEF lo, hi
        <5>3. Max({lo, j0(q)}) = IF lo >= j0(q) THEN lo ELSE j0(q)
          BY <5>2, MaxMinOfTwo
        <5>4. Min({hi, j1(q) - 1}) = IF hi <= j1(q) - 1 THEN hi ELSE j1(q) - 1
          <6> DEFINE last == j1(q) - 1
          <6>1. last \in Int /\ hi \in Int
            BY <5>2
          <6> HIDE DEF last
          <6>2. Min({hi, last}) = IF hi <= last THEN hi ELSE last
            BY <6>1, MaxMinOfTwo
          <6> QED BY <6>2 DEF last
        <5>5. \A y \in Int : y \in integrated(q) <=> lo <= y /\ j0(q) <= y /\ y <= hi /\ y < j1(q)
          <6> DEFINE a == Max({lo, j0(q)})
                     b == Min({hi, j1(q) - 1})
          <6>1. a \in Int /\ b \in Int
            BY <5>2, <5>3, <5>4
          <6>2. \A y \in Int : /\ a <= y <=> lo <= y /\ j0(q) <= y
                               /\ y <= b <=> y <= hi /\ y < j1(q)
            BY <5>2, <5>3, <5>4
          <6>3. integrated(q) = a .. b
            BY <5>1
          <6> HIDE DEF a, b
          <6> QED BY <6>1, <6>2, <6>3
        <5>6. integrated(q) \subseteq Int
          BY <5>1
        <5> QED BY <5>2, <5>5, <5>6
      <4>2. \A y \in lo .. hi : y \in 0 .. ny_global - 1
        <5>1. lo \in Nat /\ hi \in Nat /\ hi < ny_global /\ ny_global \in Nat
          BY <2>2, <3>1, <3>5
        <5> HIDE DEF lo, hi
        <5> QED BY <5>1
      <4> HIDE DEF lo, hi
      <4>3. UNION {integrated(q) : q \in Ranks} = lo .. hi
        <5>1. ASSUME NEW y \in lo .. hi PROVE \E q \in Ranks : y \in integrated(q)
          BY <2>2, <4>1, <4>2
        <5>2. \A q \in Ranks : integrated(q) \subseteq lo .. hi
          BY <4>1
        <5> QED BY <5>1, <5>2
      <4>4. ASSUME NEW p \in Ranks, NEW q \in Ranks, p # q
            PROVE  integrated(p) \cap integrated(q) = {}
        <5>1. j1(p) <= j0(q) \/ j1(q) <= j0(p)
          <6>1. p < q \/ q < p
            BY <2>2, <4>4
          <6> QED BY <2>2, <6>1
        <5>2. j0(p) \in Nat /\ j1(p) \in Nat /\ j0(q) \in Nat /\ j1(q) \in Nat
          BY <2>2
        <5> QED BY <3>1, <4>1, <5>1, <5>2
      <4>5. line.faces = lo .. hi <=> hi < j1(0)
        <5>1. line.faces = {y \in lo .. hi : 0 <= y /\ y < j1(0)}
          BY <2>2, <2>3, <2>4, <4>1
        <5>2. hi \in lo .. hi /\ j1(0) \in Nat
          BY <2>2, <2>4, <3>1
        <5> QED BY <3>1, <5>1, <5>2
      <4>6. nranks = 1 => hi < j1(0)
        BY <2>2, <3>1, <3>5
      <4>7. wall.edge # "YMin" /\ (wall.end - 2 < j1(0) <=> hi < j1(0))
        BY <3>5 DEF hi
      <4> QED BY <2>6, <3>2, <3>5, <4>3, <4>4, <4>5, <4>6, <4>7 DEF ForcesReported
    <3> QED BY <3>1, <3>4, <3>5 DEF Edges
  <2> QED BY <2>5, <2>6
<1> QED BY <1>1, ReportingAlways, PTL

------------------------------------------------------------------------------
(* A cell of the grid, and the order of the scan as an order of numbers.      *)
LEMMA CellIs ==
    ASSUME NEW c \in Cells, ny_global \in Nat
    PROVE  /\ c = <<c[1], c[2]>>
           /\ c[1] \in Nat /\ c[1] < NX /\ c[2] \in Nat /\ c[2] < ny_global
BY ReportBounds DEF Cells

LEMMA ScanOrder ==
    ASSUME NEW a \in Nat, NEW b \in Nat, NEW c \in Nat, NEW d \in Nat, a < NX, c < NX,
           d * NX + c <= b * NX + a
    PROVE  b > d \/ (b = d /\ a >= c)
<1>0. NX \in Nat /\ NX >= 1
  BY ReportBounds
<1>1. CASE b < d
  <2>1. (d - b) * NX >= NX
    <3>1. d - b - 1 \in Nat
      BY <1>1
    <3>2. (d - b - 1) * NX >= 0
      BY <1>0, <3>1, SMTT(30)
    <3>3. (d - b) * NX = (d - b - 1) * NX + NX
      BY <1>0, SMTT(30)
    <3>4. (d - b - 1) * NX \in Int /\ (d - b) * NX \in Int
      BY <1>0
    <3> QED BY <1>0, <3>2, <3>3, <3>4
  <2>2. (d - b) * NX = d * NX - b * NX
    BY <1>0, SMTT(30)
  <2>3. d * NX \in Int /\ b * NX \in Int
    BY <1>0
  <2> QED BY <1>0, <2>1, <2>2, <2>3
<1>2. CASE b = d
  <2>1. b * NX \in Int
    BY <1>0
  <2> QED BY <1>2, <2>1
<1>3. CASE b > d
  BY <1>3
<1> QED BY <1>1, <1>2, <1>3

(* The scan of any non-empty set of cells finds one: no change in the set is  *)
(* larger, and it is the last of those that are as large.                     *)
LEMMA Scan ==
    ASSUME change \in [Cells -> 0 .. MaxChange], ny_global \in Nat,
           NEW S, S \subseteq Cells, S # {}
    PROVE  /\ lastmax(S) \in S
           /\ change[lastmax(S)] = Largest(S)
           /\ \A d \in S : change[d] <= Largest(S)
           /\ \A d \in S : change[d] = Largest(S) => After(lastmax(S), d)
<1> DEFINE V == {change[c] : c \in S}
<1>0. MaxChange \in Nat /\ NX \in Nat
  BY ReportBounds
<1>1. \A d \in S : change[d] \in Nat /\ change[d] <= MaxChange
  BY <1>0
<1>2. V \subseteq Nat /\ V # {} /\ \A n \in V : n <= MaxChange
  BY <1>1
<1>3. Max(V) \in V /\ \A n \in V : n <= Max(V)
  <2> HIDE DEF V
  <2> QED BY <1>0, <1>2, Greatest
<1>4. Largest(S) \in V /\ \A n \in V : n <= Largest(S)
  BY <1>3 DEF Largest
<1>5. \A d \in S : change[d] <= Largest(S)
  BY <1>4
<1> DEFINE T == {d \in S : change[d] = Largest(S)}
           key(d) == d[2] * NX + d[1]
           K == {key(d) : d \in T}
           b == ny_global * NX + NX
<1>6. T # {}
  BY <1>4
<1>7. \A d \in S : /\ d[1] \in Nat /\ d[1] < NX /\ d[2] \in Nat /\ d[2] < ny_global
  BY CellIs
<1>8. ASSUME NEW d \in S PROVE key(d) \in Nat /\ key(d) <= b
  <2>1. d[2] * NX \in Nat /\ (ny_global - d[2]) * NX \in Nat /\ ny_global * NX \in Nat
    BY <1>0, <1>7, SMTT(30)
  <2>2. (ny_global - d[2]) * NX = ny_global * NX - d[2] * NX
    BY <1>0, <1>7, SMTT(30)
  <2> QED BY <1>0, <1>7, <2>1, <2>2
<1>9. b \in Nat
  BY <1>0, SMTT(30)
<1>10. K \subseteq Nat /\ K # {} /\ \A n \in K : n <= b
  <2> HIDE DEF key, b
  <2> QED BY <1>6, <1>8
<1>11. Max(K) \in K /\ \A n \in K : n <= Max(K)
  <2> HIDE DEF K, b
  <2> QED BY <1>9, <1>10, Greatest
<1>12. PICK e \in T : Max(K) = key(e)
  <2> HIDE DEF key, T
  <2> QED BY <1>11
<1>13. \A d \in T : key(d) <= key(e)
  <2> HIDE DEF key, T
  <2> QED BY <1>11, <1>12
<1>14. \A d \in T : After(e, d)
  BY <1>7, <1>13, ScanOrder DEF After
<1>15. \E c \in S : change[c] = Largest(S) /\ \A d \in S : change[d] = Largest(S) => After(c, d)
  BY <1>14
<1>16. /\ lastmax(S) \in S /\ change[lastmax(S)] = Largest(S)
       /\ \A d \in S : change[d] = Largest(S) => After(lastmax(S), d)
  BY <1>15 DEF lastmax
<1> QED BY <1>5, <1>16

LEMMA ChangeIs ==
    ASSUME change \in Changes
    PROVE  change \in [Cells -> 0 .. MaxChange]
BY DEF Changes

(* There is only one last cell of those that change most.                     *)
LEMMA ScanUnique ==
    ASSUME change \in [Cells -> 0 .. MaxChange], ny_global \in Nat,
           NEW S, S \subseteq Cells, NEW c \in S,
           \A d \in S : change[d] <= change[c] /\ (change[d] = change[c] => After(c, d))
    PROVE  lastmax(S) = c
<1>1. /\ lastmax(S) \in S /\ change[lastmax(S)] = Largest(S)
      /\ \A d \in S : change[d] <= Largest(S)
      /\ \A d \in S : change[d] = Largest(S) => After(lastmax(S), d)
  BY Scan
<1> DEFINE e == lastmax(S)
<1> HIDE DEF e
<1>2. e \in S /\ change[e] <= change[c] /\ change[c] <= change[e]
  BY <1>1 DEF e
<1>3. change[e] \in Int /\ change[c] \in Int
  BY <1>2, ReportBounds
<1>4. change[e] = change[c]
  BY <1>2, <1>3
<1>5. After(c, e) /\ After(e, c)
  BY <1>1, <1>2, <1>4 DEF e
<1>6. e[1] \in Nat /\ e[2] \in Nat /\ c[1] \in Nat /\ c[2] \in Nat /\ e = <<e[1], e[2]>> /\ c = <<c[1], c[2]>>
  BY <1>2, CellIs
<1>7. e[1] = c[1] /\ e[2] = c[2]
  BY <1>5, <1>6 DEF After
<1> QED BY <1>6, <1>7 DEF e

(* Packing keeps places that fit, and orders them as the scan does.           *)
LEMMA Packing ==
    ASSUME NEW a \in Nat, NEW b \in Nat, NEW c \in Nat, NEW d \in Nat, a < 65536, c < 65536
    PROVE  /\ packed(<<a, b>>) \in Nat
           /\ unpacked(packed(<<a, b>>)) = <<a, b>>
           /\ packed(<<c, d>>) <= packed(<<a, b>>) <=> (b > d \/ (b = d /\ a >= c))
<1>1. packed(<<a, b>>) = b * 65536 + a /\ packed(<<c, d>>) = d * 65536 + c
  BY DEF packed
<1>2. (b * 65536 + a) % 65536 = a /\ (b * 65536 + a) \div 65536 = b
  OBVIOUS
<1> QED BY <1>1, <1>2 DEF unpacked

(* The scan of a rank, and of one process.                                    *)
Scanned(S, c) ==
    /\ c \in S
    /\ c = <<c[1], c[2]>>
    /\ c[1] \in Nat /\ c[1] < NX /\ c[2] \in Nat /\ c[2] < ny_global
    /\ change[c] = Largest(S) /\ Largest(S) \in Nat
    /\ \A d \in S : change[d] <= Largest(S) /\ (change[d] = Largest(S) => After(c, d))

LEMMA Scans ==
    ASSUME Reporting, change # << >>
    PROVE  /\ change \in [Cells -> 0 .. MaxChange]
           /\ Scanned(Cells, lastmax(Cells))
           /\ \A q \in Ranks : slab(q) \subseteq Cells /\ Scanned(slab(q), lastmax(slab(q)))
<1>1. change \in [Cells -> 0 .. MaxChange]
  BY ChangeIs DEF Reporting
<1>2. ny_global \in Nat /\ ny_global >= 1
  <2>1. ny_global \in 1 .. ReportRows /\ ReportRows \in Nat
    BY Slabs, ReportBounds
  <2> QED BY <2>1
<1>3. ASSUME NEW S, S \subseteq Cells, S # {}
      PROVE  Scanned(S, lastmax(S))
  <2>1. /\ lastmax(S) \in S
        /\ change[lastmax(S)] = Largest(S)
        /\ \A d \in S : change[d] <= Largest(S)
        /\ \A d \in S : change[d] = Largest(S) => After(lastmax(S), d)
    BY <1>1, <1>2, <1>3, Scan
  <2>2. lastmax(S) \in Cells
    BY <1>3, <2>1
  <2>3. Largest(S) \in Nat
    BY <1>1, <2>1, <2>2, ReportBounds
  <2>4. /\ lastmax(S) = <<lastmax(S)[1], lastmax(S)[2]>>
        /\ lastmax(S)[1] \in Nat /\ lastmax(S)[1] < NX
        /\ lastmax(S)[2] \in Nat /\ lastmax(S)[2] < ny_global
    BY <1>2, <2>2, CellIs
  <2> QED BY <2>1, <2>3, <2>4 DEF Scanned
<1>4. \A y \in 0 .. ny_global - 1 : <<0, y>> \in Cells
  BY <1>2, ReportBounds DEF Cells
<1>5. Scanned(Cells, lastmax(Cells))
  <2>1. <<0, 0>> \in Cells
    BY <1>2, <1>4
  <2> QED BY <1>3, <2>1
<1>6. ASSUME NEW q \in Ranks PROVE slab(q) \subseteq Cells /\ Scanned(slab(q), lastmax(slab(q)))
  <2>1. j0(q) \in 0 .. ny_global - 1 /\ j0(q) \in j0(q) .. j1(q) - 1
    <3>1. j0(q) \in Nat /\ j1(q) \in Nat /\ j0(q) < j1(q) /\ j1(q) <= ny_global
      BY <1>6, Slabs
    <3> QED BY <1>2, <3>1
  <2>2. <<0, j0(q)>> \in slab(q)
    BY <1>4, <2>1 DEF slab
  <2>3. slab(q) \subseteq Cells
    BY DEF slab
  <2> QED BY <1>3, <2>2, <2>3
<1> QED BY <1>1, <1>5, <1>6

(* What root writes of the place on several ranks: the place, in the rows of  *)
(* its own slab, that no rank's place comes after.                            *)
Local(q) == <<lastmax(slab(q))[1], lastmax(slab(q))[2] - j0(q)>>

LEMMA LocalIs ==
    ASSUME Reporting, change # << >>, NEW q \in Ranks
    PROVE  /\ Local(q)[1] \in Nat /\ Local(q)[1] < NX
           /\ Local(q)[2] \in Nat /\ Local(q)[2] < j1(q) - j0(q)
           /\ resmax(q) = <<Local(q)[1] + 2, Local(q)[2] + 2>>
<1> DEFINE d == lastmax(slab(q))
<1>1. Scanned(slab(q), d)
  BY Scans
<1>2. d \in slab(q) /\ d[1] \in Nat /\ d[1] < NX /\ d[2] \in Nat
  BY <1>1 DEF Scanned
<1>3. d[2] \in j0(q) .. j1(q) - 1 /\ j0(q) \in Nat /\ j1(q) \in Nat
  <2>1. d[2] \in j0(q) .. j1(q) - 1
    BY <1>2 DEF slab
  <2> QED BY <2>1, Slabs
<1>4. resmax(q) = <<d[1] + 2, d[2] - j0(q) + 2>>
  BY DEF resmax
<1> HIDE DEF d
<1>5. Local(q) = <<d[1], d[2] - j0(q)>>
  BY DEF Local, d
<1> QED BY <1>2, <1>3, <1>4, <1>5

LEMMA Reduced ==
    ASSUME Reporting, change # << >>, nranks # 1, Largest(Cells) # 0
    PROVE  \E q \in Ranks : /\ location = <<Local(q)[1] + 2, Local(q)[2] + 2>>
                            /\ \A p \in Ranks : After(Local(q), Local(p))
<1> DEFINE S == {packed(resmax(q)) : q \in Ranks}
           b == ny_global * 65536 + 3 * 65536
<1>1. ny_global \in Nat /\ ny_global >= 1 /\ 0 \in Ranks
  <2>1. ny_global \in 1 .. ReportRows /\ nranks \in 1 .. ny_global /\ Ranks = 0 .. nranks - 1
        /\ ReportRows \in Nat
    BY Slabs, ReportBounds
  <2> QED BY <2>1
<1>2. ASSUME NEW q \in Ranks
      PROVE  /\ Local(q)[1] + 2 \in Nat /\ Local(q)[1] + 2 < 65536
             /\ Local(q)[2] + 2 \in Nat /\ Local(q)[2] + 2 <= ny_global + 2
             /\ Local(q)[1] \in Nat /\ Local(q)[2] \in Nat
  <2>1. /\ Local(q)[1] \in Nat /\ Local(q)[1] < NX
        /\ Local(q)[2] \in Nat /\ Local(q)[2] < j1(q) - j0(q)
    BY LocalIs
  <2>2. j0(q) \in Nat /\ j1(q) \in Nat /\ j1(q) <= ny_global
    BY Slabs
  <2> DEFINE x == Local(q)[1]
             y == Local(q)[2]
  <2>3. x \in Nat /\ x < NX /\ y \in Nat /\ y < j1(q) - j0(q)
    BY <2>1
  <2> HIDE DEF x, y
  <2>4. x + 2 \in Nat /\ x + 2 < 65536
    BY <2>3, ReportBounds
  <2>5. y + 2 \in Nat /\ y + 2 <= ny_global + 2
    BY <1>1, <2>2, <2>3
  <2> QED BY <2>3, <2>4, <2>5 DEF x, y
<1>3. ASSUME NEW q \in Ranks
      PROVE  packed(resmax(q)) = (Local(q)[2] + 2) * 65536 + (Local(q)[1] + 2)
  BY LocalIs DEF packed
<1>4. \A q \in Ranks : packed(resmax(q)) \in Nat /\ packed(resmax(q)) <= b
  <2> SUFFICES ASSUME NEW q \in Ranks PROVE packed(resmax(q)) \in Nat /\ packed(resmax(q)) <= b
    OBVIOUS
  <2> DEFINE x == Local(q)[1] + 2
             y == Local(q)[2] + 2
  <2>1. x \in Nat /\ x < 65536 /\ y \in Nat /\ y <= ny_global + 2
    BY <1>2
  <2>2. packed(resmax(q)) = y * 65536 + x
    BY <1>3
  <2> HIDE DEF x, y
  <2> QED BY <1>1, <2>1, <2>2
<1>5. S \subseteq Nat /\ S # {} /\ \A n \in S : n <= b
  <2> HIDE DEF b
  <2> QED BY <1>1, <1>4
<1>6. Max(S) \in S /\ \A n \in S : n <= Max(S)
  <2>1. b \in Nat
    BY <1>1
  <2> HIDE DEF S, b
  <2> QED BY <1>5, <2>1, Greatest
<1>7. PICK q \in Ranks : Max(S) = packed(resmax(q))
  BY <1>6
<1>8. \A p \in Ranks : packed(resmax(p)) <= packed(resmax(q))
  BY <1>6, <1>7
<1>9. location = unpacked(packed(resmax(q)))
  BY <1>7 DEF location
<1>10. resmax(q) = <<Local(q)[1] + 2, Local(q)[2] + 2>>
  BY LocalIs
<1>11. location = <<Local(q)[1] + 2, Local(q)[2] + 2>>
  BY <1>2, <1>9, <1>10, Packing
<1>12. ASSUME NEW p \in Ranks PROVE After(Local(q), Local(p))
  <2>1. resmax(p) = <<Local(p)[1] + 2, Local(p)[2] + 2>>
    BY LocalIs
  <2>2. packed(<<Local(p)[1] + 2, Local(p)[2] + 2>>) <= packed(<<Local(q)[1] + 2, Local(q)[2] + 2>>)
    BY <1>8, <1>10, <2>1
  <2> DEFINE x == Local(q)[1]
             u == Local(p)[1]
             y == Local(q)[2]
             v == Local(p)[2]
  <2>3. /\ x \in Nat /\ x + 2 \in Nat /\ x + 2 < 65536 /\ y \in Nat /\ y + 2 \in Nat
        /\ u \in Nat /\ u + 2 \in Nat /\ u + 2 < 65536 /\ v \in Nat /\ v + 2 \in Nat
    BY <1>2
  <2>4. packed(<<u + 2, v + 2>>) <= packed(<<x + 2, y + 2>>)
    BY <2>2
  <2>5. After(Local(q), Local(p)) <=> y > v \/ (y = v /\ x >= u)
    BY DEF After
  <2> HIDE DEF x, y, u, v
  <2>6. y + 2 > v + 2 \/ (y + 2 = v + 2 /\ x + 2 >= u + 2)
    BY <2>3, <2>4, Packing
  <2>7. y > v \/ (y = v /\ x >= u)
    BY <2>3, <2>6
  <2> QED BY <2>5, <2>7
<1> QED BY <1>11, <1>12

(* The place in the residue file is that of the largest change exactly in the *)
(* cases named: for every grid that fits and every rank count, and every      *)
(* field, as MostChanged may be as large as the number of cells.              *)
THEOREM LocationReportedAlways == ReportSpec => []LocationReported
<1>1. Reporting => LocationReported
  <2> DEFINE c == lastmax(Cells)
             Right == \/ Largest(Cells) = 0 /\ nranks = 1
                      \/ /\ Largest(Cells) > 0
                         /\ c \in slab(0)
                         /\ \A q \in Ranks : After(c, Local(q))
  <2> SUFFICES ASSUME Reporting, Written
               PROVE  location = SerialLocation <=> Right
    <3>1. Written /\ Reporting => line.location = location
      BY DEF Reporting, Written
    <3> HIDE DEF Right
    <3>2. Written /\ Reporting => (line.location = SerialLocation <=> Right)
      BY <3>1
    <3> QED BY <3>2 DEF LocationReported, Right, Local
  <2>1. change # << >>
    BY DEF Reporting, Written
  <2>2. /\ ny_global \in Nat /\ nranks \in Nat /\ nranks >= 1
        /\ Ranks = 0 .. nranks - 1 /\ 0 \in Ranks /\ nranks - 1 \in Ranks
        /\ \A q \in Ranks : /\ j0(q) \in Nat /\ j1(q) \in Nat
                            /\ j0(q) < j1(q) /\ j1(q) <= ny_global
                            /\ j1(q) - j0(q) <= j1(0)
        /\ j0(0) = 0 /\ j1(nranks - 1) = ny_global
        /\ \A p, q \in Ranks : p < q => j1(p) <= j0(q)
    <3>1. ny_global \in 1 .. ReportRows /\ nranks \in 1 .. ny_global /\ ReportRows \in Nat
          /\ Ranks = 0 .. nranks - 1
      BY <2>1, Slabs, ReportBounds
    <3> QED BY <2>1, <3>1, Slabs
  <2>3. /\ change \in [Cells -> 0 .. MaxChange]
        /\ Scanned(Cells, c)
        /\ slab(0) \subseteq Cells
        /\ Scanned(slab(0), lastmax(slab(0)))
    BY <2>1, <2>2, Scans
  <2>4. /\ c \in Cells /\ c = <<c[1], c[2]>>
        /\ c[1] \in Nat /\ c[1] < NX /\ c[2] \in Nat /\ c[2] < ny_global
        /\ change[c] = Largest(Cells) /\ Largest(Cells) \in Nat
        /\ \A d \in Cells : change[d] <= Largest(Cells) /\ (change[d] = Largest(Cells) => After(c, d))
    BY <2>3 DEF Scanned
  <2>5. SerialLocation = <<c[1] + 2, c[2] + 2>>
    BY DEF SerialLocation
  <2>6. slab(0) = {d \in Cells : d[2] < j1(0)}
    <3>1. \A d \in Cells : d[2] \in Nat
      BY <2>2, CellIs
    <3> QED BY <2>2, <3>1 DEF slab
  <2> HIDE DEF c
  \* What root's own scan finds when the largest change is in its slab.
  <2>7. c \in slab(0) => lastmax(slab(0)) = c
    <3> SUFFICES ASSUME c \in slab(0) PROVE lastmax(slab(0)) = c
      OBVIOUS
    <3>1. \A d \in slab(0) : change[d] <= change[c] /\ (change[d] = change[c] => After(c, d))
      BY <2>3, <2>4
    <3> QED BY <2>2, <2>3, <3>1, ScanUnique
  <2>8. Local(0) = <<lastmax(slab(0))[1], lastmax(slab(0))[2]>>
    <3>1. lastmax(slab(0))[2] \in Nat
      BY <2>3 DEF Scanned
    <3> QED BY <2>2, <3>1 DEF Local
  <2>9. c \in slab(0) => Local(0) = c
    BY <2>4, <2>7, <2>8
  <2>10. /\ Local(0)[1] \in Nat /\ Local(0)[2] \in Nat /\ Local(0)[2] < j1(0)
         /\ resmax(0) = <<Local(0)[1] + 2, Local(0)[2] + 2>>
    <3>1. /\ Local(0)[1] \in Nat /\ Local(0)[2] \in Nat /\ Local(0)[2] < j1(0) - j0(0)
          /\ resmax(0) = <<Local(0)[1] + 2, Local(0)[2] + 2>>
      BY <2>1, <2>2, LocalIs
    <3>2. j1(0) \in Nat /\ j0(0) = 0
      BY <2>2
    <3> QED BY <3>1, <3>2
  <2>11. CASE nranks = 1
    <3>1. j1(0) = ny_global /\ Ranks = {0}
      BY <2>2, <2>11
    <3>2. c \in slab(0)
      BY <2>4, <2>6, <3>1
    <3>3. location = SerialLocation
      BY <2>5, <2>9, <2>10, <2>11, <3>2 DEF location
    <3>4. After(c, Local(0))
      BY <2>4, <2>9, <3>2 DEF After
    <3> QED BY <2>4, <2>11, <3>1, <3>2, <3>3, <3>4
  <2>12. CASE nranks # 1 /\ Largest(Cells) = 0
    <3>1. location = <<Local(0)[1] + 2, Local(0)[2] + 2>>
      BY <2>10, <2>12 DEF location
    <3>2. j1(0) <= ny_global - 1
      <4>1. 0 < nranks - 1
        BY <2>2, <2>12
      <4> QED BY <2>2, <4>1
    <3>3. <<0, ny_global - 1>> \in Cells
      BY <2>2, <3>2, ReportBounds DEF Cells
    <3>4. change[<<0, ny_global - 1>>] = Largest(Cells)
      <4>1. change[<<0, ny_global - 1>>] \in 0 .. MaxChange
        BY <2>3, <3>3
      <4>2. change[<<0, ny_global - 1>>] <= 0
        BY <2>4, <2>12, <3>3
      <4> QED BY <2>12, <4>1, <4>2, ReportBounds
    <3>5. After(c, <<0, ny_global - 1>>)
      BY <2>4, <3>3, <3>4
    <3>6. c[2] >= ny_global - 1
      <4> DEFINE y == ny_global - 1
                 z == c[2]
      <4>1. z > y \/ z = y
        BY <3>5 DEF After
      <4>2. y \in Int /\ z \in Int
        BY <2>2, <2>4
      <4> HIDE DEF y, z
      <4>3. z >= y
        BY <4>1, <4>2
      <4> QED BY <4>3 DEF y, z
    <3>7. Local(0)[2] + 2 # c[2] + 2
      <4> DEFINE y == Local(0)[2]
                 z == c[2]
      <4>1. y \in Nat /\ z \in Nat /\ y < j1(0) /\ z >= ny_global - 1
        BY <2>4, <2>10, <3>6
      <4>2. j1(0) \in Nat /\ j1(0) <= ny_global - 1 /\ ny_global \in Nat
        BY <2>2, <3>2
      <4> HIDE DEF y, z
      <4>3. y + 2 # z + 2
        BY <4>1, <4>2
      <4> QED BY <4>3 DEF y, z
    <3>8. location # SerialLocation
      BY <2>5, <3>1, <3>7
    <3> QED BY <2>12, <3>8
  <2>13. CASE nranks # 1 /\ Largest(Cells) # 0
    <3>1. PICK q \in Ranks : /\ location = <<Local(q)[1] + 2, Local(q)[2] + 2>>
                             /\ \A p \in Ranks : After(Local(q), Local(p))
      BY <2>1, <2>13, Reduced
    <3>2. \A p \in Ranks : /\ Local(p)[1] \in Nat /\ Local(p)[2] \in Nat
                           /\ Local(p)[2] < j1(p) - j0(p)
                           /\ Local(p) = <<Local(p)[1], Local(p)[2]>>
      BY <2>1, LocalIs DEF Local
    <3>3. location = SerialLocation <=> Local(q) = c
      <4>1. location = SerialLocation <=> Local(q)[1] = c[1] /\ Local(q)[2] = c[2]
        BY <2>4, <2>5, <3>1, <3>2
      <4> QED BY <2>4, <3>2, <4>1
    <3>4. ASSUME Local(q) = c PROVE Right
      <4>1. c[2] < j1(0)
        <5>1. j1(q) \in Nat /\ j0(q) \in Nat /\ j1(q) - j0(q) <= j1(0) /\ j1(0) \in Nat
          BY <2>2
        <5>2. c[2] < j1(q) - j0(q)
          BY <3>2, <3>4
        <5> QED BY <2>4, <5>1, <5>2
      <4>2. c \in slab(0)
        BY <2>4, <2>6, <4>1
      <4> QED BY <2>4, <2>13, <3>1, <3>4, <4>2
    <3>5. ASSUME Right PROVE Local(q) = c
      <4>1. c \in slab(0) /\ After(c, Local(q))
        BY <2>13, <3>5
      <4>2. Local(0) = c
        BY <2>9, <4>1
      <4>3. After(Local(q), c)
        BY <2>2, <3>1, <4>2
      <4>4. Local(q)[1] = c[1] /\ Local(q)[2] = c[2]
        BY <2>4, <3>2, <4>1, <4>3 DEF After
      <4> QED BY <2>4, <3>2, <4>4
    <3> HIDE DEF Right
    <3> QED BY <3>3, <3>4, <3>5
  <2> QED BY <2>11, <2>12, <2>13
<1> QED BY <1>1, ReportingAlways, PTL
=============================================================================
