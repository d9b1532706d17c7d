-------------------------- MODULE SlabDecomposition --------------------------
(* The 1-D slab decomposition along j, src/parallel/decomposition.{hpp,cpp}:  *)
(* ny global cell rows 0 .. ny-1 are split into n contiguous ranges, one per  *)
(* MPI rank; rank r owns the rows j0 .. j1 - 1.                               *)
EXTENDS Integers

\* The arguments SlabDecomposition::make accepts; it throws on all others
\* ("invalid decomposition arguments", "more ranks than cell rows ...").
accepts(ny, n, r) == ny >= 1 /\ n >= 1 /\ r >= 0 /\ r < n /\ n <= ny

base(ny, n) == ny \div n
rem(ny, n)  == ny % n

\* "first `rem` ranks get one extra row": the extra rows given to the ranks
\* below r, and to r itself.
before_all(ny, n, r) == r     \* mutant: every lower rank has an extra row
before_none(ny, n, r) == 0    \* mutant: the extra rows below are forgotten
before(ny, n, r) == IF r < rem(ny, n) THEN r ELSE rem(ny, n)
extra_last(ny, n, r) == IF n - r <= rem(ny, n) THEN 1 ELSE 0     \* mutant
extra(ny, n, r)  == IF r < rem(ny, n) THEN 1 ELSE 0

first(ny, n, r) == r * base(ny, n) + before(ny, n, r)

make(ny, n, r) ==
    [j0 |-> first(ny, n, r),
     j1 |-> first(ny, n, r) + base(ny, n) + extra(ny, n, r)]
=============================================================================
