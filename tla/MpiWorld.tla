------------------------------ MODULE MpiWorld ------------------------------
(* The ranks of one run of ns_solver and the slab each of them owns.          *)
EXTENDS SlabDecomposition

CONSTANTS
    NY,       \* cfg->grid.ny: cell rows of the whole grid
    NRanks    \* MPI_Comm_size

\* main refuses to run with more ranks than cell rows.
ASSUME WorldAssumption == NY \in Nat \ {0} /\ NRanks \in 1 .. NY

Ranks == 0 .. NRanks - 1

\* Every rank makes its own slab once, before the solver is built.
decomp == [r \in Ranks |-> make(NY, NRanks, r)]

j0(r) == decomp[r].j0
j1(r) == decomp[r].j1
ny_local(r) == j1(r) - j0(r)

owns_jmin(r) == r = 0
owns_jmax(r) == r = NRanks - 1
owns_lower_neighbor(r) == r > 0
owns_upper_neighbor(r) == r < NRanks - 1

Neighbours(r) == {n \in Ranks : n = r - 1 \/ n = r + 1}
=============================================================================
