---------------------------- MODULE ResidueReport ----------------------------
(* EulerSolver::residue_and_forces on the ranks that own the ranges: the      *)
(* place of the largest change, which the ranks reduce, the forces on the     *)
(* wall, which they do not, and the line root writes of them.                 *)
(*                                                                            *)
(* A change is a small number, a force the set of the wall faces whose        *)
(* pressure it is made of.                                                    *)
EXTENDS AllRanges, FiniteSets, FiniteSetsExt

CONSTANTS
    NX,             \* columns of the grid
    ReportRows,     \* the highest grid that gets as far as a residue
    MaxChange,      \* bound on the changes
    MostChanged     \* how many cells change at most; any field if it is large

ASSUME ReportAssumption ==
    /\ NX \in Nat \ {0} /\ NX < 65534                      \* as packed
    /\ ReportRows \in Nat \ {0} /\ ReportRows < 32766
    /\ MaxChange \in Nat /\ MostChanged \in Nat

VARIABLES
    change,         \* |cv - cvold| of the density in every cell of the grid
    segments,       \* segments_, the same on every rank
    line            \* what root writes, << >> before

rvars == <<vars, change, segments, line>>

Cells == (0 .. NX - 1) \X (0 .. ny_global - 1)
Ranks == 0 .. nranks - 1
j0(q) == r[q + 1].j0
j1(q) == r[q + 1].j1

------------------------------------------------------------------------------
(* The place of the largest change.                                           *)

\* Cells in the order of the scan, rows outside.
After(c, d) == c[2] > d[2] \/ (c[2] = d[2] /\ c[1] >= d[1])

Largest(cells) == Max({change[c] : c \in cells})

\* The last cell with the largest change, which is 0 where nothing changes.
lastmax(cells) ==
    CHOOSE c \in cells : /\ change[c] = Largest(cells)
                         /\ \A d \in cells : change[d] = Largest(cells) => After(c, d)

slab(q) == {c \in Cells : c[2] \in j0(q) .. j1(q) - 1}

\* iresmax_ and jresmax_ on rank q, where rows are counted from its own first;
\* "+ 2" for the legacy indices.
resmax(q) == LET c == lastmax(slab(q)) IN <<c[1] + 2, c[2] - j0(q) + 2>>

packed(loc) == loc[2] * 65536 + loc[1]
unpacked(n) == <<n % 65536, n \div 65536>>

locationByColumns ==     \* mutant: columns decide
    IF nranks = 1 \/ Largest(Cells) = 0 THEN resmax(0)
    ELSE LET n == Max({resmax(q)[1] * 65536 + resmax(q)[2] : q \in Ranks})
         IN  <<n \div 65536, n % 65536>>

\* What MPI_MAX makes of the packed places of all ranks.  A field without any
\* change keeps root's own place; alone, root does not pack it.
location ==
    IF nranks = 1 \/ Largest(Cells) = 0 THEN resmax(0)
    ELSE unpacked(Max({packed(resmax(q)) : q \in Ranks}))

------------------------------------------------------------------------------
(* The forces.                                                                *)

Edges == {"YMin", "YMax", "XMin", "XMax"}

Walls == {k \in DOMAIN segments : segments[k].wall}

\* "QUIRK: only the LAST wall segment is integrated"
wall == segments[Max(Walls)]

integrated_open(q) ==     \* mutant: clipped below only
    IF Walls = {} THEN {}
    ELSE LET lo == wall.start - 2
             hi == wall.end - 2
         IN  CASE wall.edge = "YMin" -> IF q = 0 THEN lo .. hi ELSE {}
               [] wall.edge = "YMax" -> IF q = nranks - 1 THEN lo .. hi ELSE {}
               [] OTHER -> Max({lo, j0(q)}) .. hi

\* The faces rank q integrates, by their place along the edge: the owner of a
\* horizontal edge takes all of them, of a vertical one every rank its rows.
integrated(q) ==
    IF Walls = {} THEN {}
    ELSE LET lo == wall.start - 2
             hi == wall.end - 2
         IN  CASE wall.edge = "YMin" -> IF q = 0 THEN lo .. hi ELSE {}
               [] wall.edge = "YMax" -> IF q = nranks - 1 THEN lo .. hi ELSE {}
               [] OTHER -> Max({lo, j0(q)}) .. Min({hi, j1(q) - 1})

------------------------------------------------------------------------------
Changes ==
    {f \in [Cells -> 0 .. MaxChange] : Cardinality({c \in Cells : f[c] # 0}) <= MostChanged}

\* What validate accepts on one edge, and two of which the first is a wall.
Along(e) == IF e \in {"YMin", "YMax"} THEN NX ELSE ny_global

Segment(e, lo, hi, isWall) == [edge |-> e, start |-> lo + 2, end |-> hi + 2, wall |-> isWall]

Whole(e, isWall) == Segment(e, 0, Along(e) - 1, isWall)

Boundaries ==
    (UNION {{<<Segment(e, n[1], n[2], TRUE)>> :
            n \in {m \in (0 .. Along(e) - 1) \X (0 .. Along(e) - 1) : m[1] <= m[2]}} : e \in Edges})
    \cup {<<Whole(d, TRUE), Whole(e, TRUE)>> : d \in Edges, e \in Edges}
    \cup {<<Whole(d, TRUE), Whole(e, FALSE)>> : d \in Edges, e \in Edges}
    \cup {<<Whole("YMin", FALSE)>>}

ReportInit == Init /\ change = << >> /\ segments = << >> /\ line = << >>

Decompose == Next /\ UNCHANGED <<change, segments, line>>

\* The fields of an iteration, on the slabs of the ranks.
Iterate ==
    /\ outcome = "returned" /\ ny_global <= ReportRows /\ change = << >>
    /\ change' \in Changes /\ segments' \in Boundaries
    /\ UNCHANGED <<vars, line>>

\* residue_and_forces, on all ranks; only root has a residue file.
residue_and_forces ==
    /\ change # << >> /\ line = << >>
    /\ line' = [location |-> location, faces |-> integrated(0)]
    /\ UNCHANGED <<vars, change, segments>>

ReportNext == Decompose \/ Iterate \/ residue_and_forces

ReportSpec == ReportInit /\ [][ReportNext]_rvars
------------------------------------------------------------------------------
Written == line # << >>

\* What one process would write.
SerialLocation == LET c == lastmax(Cells) IN <<c[1] + 2, c[2] + 2>>

SerialFaces == IF Walls = {} THEN {} ELSE wall.start - 2 .. wall.end - 2

(* "location of |drho| maximum: largest (globalJ,globalI) among ties" (line   *)
(* 882): so it is when the largest change is in root's slab and no other rank *)
(* has its own, however small, in a higher row of its slab.  Otherwise the    *)
(* file names a cell where the change is not the largest.                     *)
LocationReported ==
    Written =>
        LET c == lastmax(Cells)
        IN  line.location = SerialLocation
            <=> \/ Largest(Cells) = 0 /\ nranks = 1
                \/ /\ Largest(Cells) > 0
                   /\ c \in slab(0)
                   /\ \A q \in Ranks : LET d == lastmax(slab(q)) IN After(c, <<d[1], d[2] - j0(q)>>)

(* Every face of the wall is integrated by exactly one rank, and none beside  *)
(* them; but the parts are not added up.  The file has the forces of the      *)
(* whole wall on the lower edge, of root's rows on a vertical one, and zeros  *)
(* for a wall on the upper edge.                                              *)
ForcesReported ==
    Written =>
        /\ UNION {integrated(q) : q \in Ranks} = SerialFaces
        /\ \A p, q \in Ranks : p # q => integrated(p) \cap integrated(q) = {}
        /\ line.faces = SerialFaces
           <=> \/ Walls = {} \/ nranks = 1
               \/ wall.edge = "YMin"
               \/ wall.edge \in {"XMin", "XMax"} /\ wall.end - 2 < j1(0)
=============================================================================
