------------------------------ MODULE AllRanges ------------------------------
(* SlabDecomposition::all_ranges: the loop that calls make for rank 0, 1, ... *)
(* and collects the ranges.  Each rank of the MPI program calls make with its *)
(* own number instead; that these calls, made without communication, agree on *)
(* a partition of the grid is what the invariants below state.                *)
EXTENDS SlabDecomposition, Sequences

CONSTANTS MaxNY, MaxRanks     \* bounds on the grid heights and rank counts

ASSUME BoundsAssumption == MaxNY \in Nat \ {0} /\ MaxRanks \in Nat \ {0}

VARIABLES
    ny_global, nranks,   \* the arguments
    r,                   \* the ranges pushed so far
    outcome              \* "looping", "returned", or "threw"

vars == <<ny_global, nranks, r, outcome>>

RowRange == [j0 : Nat, j1 : Nat]

Init ==
    /\ ny_global \in 1 .. MaxNY
    /\ nranks \in 1 .. MaxRanks
    /\ r = << >>
    /\ outcome = "looping"

\* r.emplace_back(d.j0, d.j1) for rk = Len(r)
PushRange ==
    /\ outcome = "looping"
    /\ Len(r) < nranks
    /\ accepts(ny_global, nranks, Len(r))
    /\ r' = Append(r, make(ny_global, nranks, Len(r)))
    /\ UNCHANGED <<ny_global, nranks, outcome>>

\* make throws: the exception leaves the loop
Throw ==
    /\ outcome = "looping"
    /\ Len(r) < nranks
    /\ ~ accepts(ny_global, nranks, Len(r))
    /\ outcome' = "threw"
    /\ UNCHANGED <<ny_global, nranks, r>>

Return ==
    /\ outcome = "looping"
    /\ Len(r) = nranks
    /\ outcome' = "returned"
    /\ UNCHANGED <<ny_global, nranks, r>>

Next == PushRange \/ Throw \/ Return

Spec == Init /\ [][Next]_vars
------------------------------------------------------------------------------
TypeOK ==
    /\ ny_global \in 1 .. MaxNY
    /\ nranks \in 1 .. MaxRanks
    /\ r \in Seq(RowRange)
    /\ Len(r) <= nranks
    /\ outcome \in {"looping", "returned", "threw"}

(* The ranges pushed so far tile an initial segment of the grid: the first    *)
(* starts at row 0, each next one starts where the one before ends, none is   *)
(* empty, and none reaches beyond the grid.  A wrong split of the remainder   *)
(* rows shows as an overlap, a gap or a row past the end.                     *)
Tiling ==
    /\ r # << >> => r[1].j0 = 0
    /\ \A k \in 1 .. Len(r) - 1 : r[k].j1 = r[k + 1].j0
    /\ \A k \in 1 .. Len(r) : r[k].j0 < r[k].j1 /\ r[k].j1 <= ny_global

(* When the loop returns, the last range ends at the last row: together with  *)
(* Tiling, the ranges partition the rows of the grid.                         *)
Covers == outcome = "returned" => r # << >> /\ r[Len(r)].j1 = ny_global

(* No two slabs differ by more than one row, and the higher slabs are on the  *)
(* lower ranks.                                                               *)
Balanced ==
    \A k, l \in 1 .. Len(r) :
        k < l => (r[k].j1 - r[k].j0) - (r[l].j1 - r[l].j0) \in {0, 1}
=============================================================================
