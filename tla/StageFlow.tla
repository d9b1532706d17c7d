------------------------------ MODULE StageFlow ------------------------------
(* One stage of an iteration on the slabs of an MPI run and, beside them, in  *)
(* one process: exchange, boundary pass (BoundaryStamp), time step and fluxes *)
(* (SchemeStencils, and the gradients and viscous fluxes below).  Before the  *)
(* stage every slab has the cells of the whole grid that are its own; the     *)
(* question is whether it goes on to compute what one process computes, which *)
(* the README promises ("reproduce the serial results bitwise or to           *)
(* round-off", README.md:123), and if not, in which rows.                     *)
EXTENDS SchemeStencils, FiniteSets

VARIABLES
    scheme,       \* cfg.numerics.inviscid_scheme, "none" before the fluxes
    equations,    \* cfg.equations
    tstep,        \* tstep[p][c]: what the time step of a cell is made of
    rhs           \* rhs[p][c]: what is added up in a cell, by face

vars == <<svars, scheme, equations, tstep, rhs>>

------------------------------------------------------------------------------
(* Gradients in the faces, as the set of their contributions: face vectors    *)
(* times a mean over cells; and what they are divided by.                     *)

square(p, i, j) == {prim(p, i, j), prim(p, i - 1, j), prim(p, i, j - 1), prim(p, i - 1, j - 1)}

Part(vectors, cells) == <<vectors, cells>>

has_lower(p) == mpi_mode(p) /\ p > 0
has_upper(p) == mpi_mode(p) /\ p < nranks - 1

gradfi(p, f, j) ==
    {Part({si(p, i, j), si(p, i + 1, j)}, {prim(p, i, j)}) : i \in {f - 1, f} \cap 0 .. nx - 1}
    \cup {Part({sj(p, i, jf), sj(p, i - 1, jf)}, square(p, i, jf)) :
              i \in {f} \cap 0 .. nx - 1, jf \in {j, j + 1}}
    \cup (IF f \in {0, nx} THEN {Part({si(p, f, j)}, {prim(p, f - 1, j), prim(p, f, j)})} ELSE {})
    \cup (IF f = nx THEN {Part({sj(p, nx - 1, jf)}, square(p, nx, jf)) : jf \in {j, j + 1}} ELSE {})

rvol_i(p, f, j) == {area(p, i, j) : i \in {f - 1, f} \cap 0 .. nx - 1}

\* sj_corrected_: the ghost rows -1 and rows + 1 are received.
sj_corrected(p, i, j) ==
    IF i \in 0 .. nx - 1 /\ ((has_lower(p) /\ j = -1) \/ (has_upper(p) /\ j = rows(p) + 1))
      THEN <<"sj", i, j0(p) + j>> ELSE sj(p, i, j)

gradfj(p, i, f) ==
    LET bottom == IF f # 0 THEN {}
                  ELSE IF has_lower(p)
                    THEN {Part({sj_corrected(p, i, -1), sj_corrected(p, i, 0)}, {prim(p, i, -1)})}
                    ELSE {Part({sj(p, i, 0)}, {prim(p, i, -1), prim(p, i, 0)})}
        n   == rows(p)
        top == IF f # n THEN {}
               ELSE IF has_upper(p)
                 THEN {Part({sj_corrected(p, i, n), sj_corrected(p, i, n + 1)}, {prim(p, i, n)})}
                 ELSE {Part({sj(p, i, n)}, {prim(p, i, n - 1), prim(p, i, n)})}
                      \cup {Part({si(p, k, n - 1)}, square(p, k, n)) : k \in {i, i + 1}}
    IN  {Part({sj(p, i, j), sj(p, i, j + 1)}, {prim(p, i, j)}) : j \in {f - 1, f} \cap 0 .. n - 1}
        \cup {Part({si(p, k, j), si(p, k, j - 1)}, square(p, k, j)) :
                  k \in {i, i + 1}, j \in {f} \cap 0 .. n - 1}
        \cup bottom \cup top

\* rvol_j_: the areas on both sides of the face, the neighbour's received.
rvol_j_own(p, i, f) ==      \* mutant: the neighbour's areas are forgotten
    {<<"area", i, j0(p) + j>> : j \in {f - 1, f} \cap 0 .. rows(p) - 1}
rvol_j(p, i, f) ==
    LET lo == IF has_lower(p) THEN -1 ELSE 0
        hi == IF has_upper(p) THEN rows(p) ELSE rows(p) - 1
    IN  {<<"area", i, j0(p) + j>> : j \in {f - 1, f} \cap lo .. hi}

accumulate_viscous_flux(p, d, f, b) ==
    [vector |-> own_vector(p, d, f, b), dv |-> pair(p, d, f, b),
     grad |-> IF d = "i" THEN gradfi(p, f, b) ELSE gradfj(p, b, f),
     rvol |-> IF d = "i" THEN rvol_i(p, f, b) ELSE rvol_j(p, b, f)]

------------------------------------------------------------------------------
NoFlux == [vector |-> Free, dv |-> {}, grad |-> {}, rvol |-> {}]

flux(p, s, e, d, f, b) ==
    [average   |-> define_convective_faces(p, d, f, b),
     diss      |-> dissipation(s, p, d, f, b),
     viscous   |-> IF e = "navier-stokes" THEN accumulate_viscous_flux(p, d, f, b) ELSE NoFlux]

\* Each cell adds up the fluxes of its four faces.
assemble_rhs(p, s, e) ==
    [c \in Reals(p) |->
        [w |-> flux(p, s, e, "i", c[1], c[2]), e |-> flux(p, s, e, "i", c[1] + 1, c[2]),
         s |-> flux(p, s, e, "j", c[2], c[1]), n |-> flux(p, s, e, "j", c[2] + 1, c[1])]]

time_step_ghosts(p) ==     \* mutant: the loops run on into the ghosts
    [c \in (0 .. nx) \X (0 .. rows(p)) |->
        LET i == c[1]  j == c[2]
        IN  <<prim(p, i, j), si(p, i, j), si(p, i + 1, j), sj(p, i, j), sj(p, i, j + 1),
              area(p, i, j)>>]
time_step_euler(p) ==
    [c \in Reals(p) |->
        LET i == c[1]  j == c[2]
        IN  <<prim(p, i, j), si(p, i, j), si(p, i + 1, j), sj(p, i, j), sj(p, i, j + 1),
              area(p, i, j)>>]

StageInit ==
    /\ Init
    /\ scheme = "none" /\ equations = "none"
    /\ tstep = << >> /\ rhs = << >>

BoundaryPass == Pass /\ UNCHANGED <<scheme, equations, tstep, rhs>>

AllStamped == \A p \in Procs : Stamped(p)

TimeStep ==
    /\ AllStamped /\ tstep = << >>
    /\ tstep' = [p \in Procs |-> time_step_euler(p)]
    /\ UNCHANGED <<svars, scheme, equations, rhs>>

ComputeFluxes(s, e) ==
    /\ tstep # << >> /\ scheme = "none"
    /\ scheme' = s /\ equations' = e
    /\ rhs' = [p \in Procs |-> assemble_rhs(p, s, e)]
    /\ UNCHANGED <<svars, tstep>>

Next ==
    \/ BoundaryPass
    \/ TimeStep
    \/ \E s \in Schemes, e \in {"euler", "navier-stokes"} : ComputeFluxes(s, e)

Spec == StageInit /\ [][Next]_vars
------------------------------------------------------------------------------
(* The kinds of walls and schemes the properties tell apart.                  *)

KeepToSlab ==
    \A k \in 1 .. Len(segments) : segments[k].edge \in YEdges \/ ~ Unclipped(segments[k])

Transposed == {"movers-h1", "movers-h2", "movers-le2", "movers-nwsc", "roe-tv", "roe-tv-2o",
               "kfds", "kfds-2o", "eccs"}
Straight   == Schemes \ Transposed

InFluxes(schemes, e) == scheme \in schemes /\ equations = e

Global(p, c) == <<c[1], j0(p) + c[2]>>

\* Rows of a slab next to another one.
BelowInterface(p) == IF has_upper(p) THEN {rows(p) - 1} ELSE {}
NearBelow(p)      == BelowInterface(p) \cup {j - 1 : j \in BelowInterface(p)}
AboveInterface(p) == IF has_lower(p) THEN {0} ELSE {}

SameUpdate(p, c) == rhs[p][c] = rhs[Serial][Global(p, c)]

\* Only the cells in these rows of a slab are updated from something else than in
\* one process.
LosesExactly(InRows(_)) ==
    \A p \in Ranks : \A c \in Reals(p) : SameUpdate(p, c) <=> c[2] \notin InRows(p)

Sides == {"w", "e", "s", "n"}

TypeOK ==
    /\ \A p \in Procs : DOMAIN dv[p] = Places(p) /\ done[p] \in -1 .. Len(segments) + 1
    /\ scheme \in Schemes \cup {"none"} /\ equations \in {"none", "euler", "navier-stokes"}
    /\ \/ tstep = << >> \/ \A p \in Procs : DOMAIN tstep[p] = Reals(p)
    /\ \/ rhs = << >> \/ \A p \in Procs : DOMAIN rhs[p] = Reals(p)

(* An exchanged ghost row still is the neighbour's after the pass, whatever   *)
(* kinds of segments lie on the edges: "otherwise inter-rank ghost rows would *)
(* be clobbered with physical-BC state instead of neighbour data"             *)
(* (euler_solver.cpp:803).                                                    *)
InterfaceGhostsKept ==
    \A p \in Ranks : \A c \in (0 .. nx - 1) \X (-2 .. rows(p) + 1) :
        done[p] # Lost /\ j0(p) + c[2] \in 0 .. ny - 1 =>
            dv[p][c] = Cell(c[1], j0(p) + c[2])

(* A slab has in every cell of its canvas what one process has there, unless  *)
(* the cell is a ghost column in a ghost row of an interface: apply_boundaries *)
(* with kernels that clip their X segments to the rows of the slab.  In that  *)
(* exception a slab has the freestream and one process a boundary value.      *)
StampedAsSerial ==
    \A p \in Ranks : Stamped(p) /\ Stamped(Serial) /\ KeepToSlab =>
        \A c \in Places(p) :
            \/ dv[p][c] = dv[Serial][Global(p, c)]
            \/ /\ c[1] \notin 0 .. nx - 1 /\ c[2] \notin 0 .. rows(p) - 1
               /\ Global(p, c)[2] \in 0 .. ny - 1
               /\ dv[p][c] = Free

(* What no-slip and symmetry walls on an X edge do on a slab, since their     *)
(* kernels take the rows of the grid for rows of the slab: the run ends       *)
(* outside the canvas if the segment is higher than the slab and its ghosts,  *)
(* and otherwise puts the wall into rows that are not its own, exactly those  *)
(* that are in the segment by their local and not by their global number, or  *)
(* the other way round.                                                       *)
WallsMisplaced ==
    \A p \in Ranks : ~ KeepToSlab =>
        LET s     == segments[Len(segments)]
            k     == IF s.edge = "xmin" THEN -1 ELSE nx
            wrong == {j \in 0 .. rows(p) - 1 : (j \in whole(s)) # (j0(p) + j \in whole(s))}
        IN  /\ done[p] = Lost => s.end - 2 > rows(p) + 1
            /\ Stamped(p) /\ Stamped(Serial) =>
                   wrong = {j \in 0 .. rows(p) - 1 :
                               dv[p][<<k, j>>] # dv[Serial][<<k, j0(p) + j>>]}

(* The Euler fluxes of the schemes that take their vector at their own face:  *)
(* a slab updates its cells as one process does, but for the last row below   *)
(* another slab, whose upper face has a copied vector; MOVERS_LE1 loses the   *)
(* rows besides whose differences of cv_ reach into the ghosts, which nobody  *)
(* exchanges.  NKFDS_MOVERS loses nothing more although each rank takes its   *)
(* own window maximum and its own mah_cp_: the entropy switch never lets them *)
(* count.  "dt stays bitwise-identical to serial" (euler_solver.cpp:341) fails *)
(* in the same last row, where a slab takes the mean of a face and its copy.  *)
InviscidParity ==
    /\ tstep # << >> =>
           \A p \in Ranks : \A c \in Reals(p) :
               tstep[p][c] = tstep[Serial][Global(p, c)] <=> c[2] \notin BelowInterface(p)
    /\ KeepToSlab =>
        /\ InFluxes(Straight \ {"movers-le1"}, "euler") => LosesExactly(BelowInterface)
        /\ InFluxes({"movers-le1"}, "euler") =>
               LosesExactly(LAMBDA p : AboveInterface(p) \cup NearBelow(p))

(* With viscous fluxes more is lost: the row below the last one, whose upper  *)
(* face averages the copied vector in its gradient, and the first row above   *)
(* another slab, whose lower face has the j-vectors of that slab, but averages *)
(* i-vectors that are copies.                                                 *)
ViscousParity ==
    InFluxes(Straight \ {"movers-le1"}, "navier-stokes") /\ KeepToSlab =>
        LosesExactly(LAMBDA p : AboveInterface(p) \cup NearBelow(p))

\* Contributions to a gradient on a grid whose faces are all alike.
bare(parts) == {Part({v[1] : v \in part[1]}, part[2]) : part \in parts}

(* On a grid with equal faces, where a copied vector is as good as the right  *)
(* one, viscous slabs still differ from one process: in the last row below    *)
(* another slab, since the gradient in its upper face lacks the fluxes        *)
(* through the left and right sides, which the code adds at the top of the    *)
(* grid only; and in the first and last column of a first row, since the      *)
(* gradients there average over ghost corners a slab has not stamped.         *)
UniformParity ==
    InFluxes(Straight \ {"movers-le1"}, "navier-stokes") /\ KeepToSlab =>
        \A p \in Ranks : \A c \in Reals(p) :
            LET same(side) ==
                    LET a == rhs[p][c][side]  b == rhs[Serial][Global(p, c)][side]
                    IN  /\ a.average.dv = b.average.dv /\ a.diss.dv = b.diss.dv
                        /\ a.viscous.dv = b.viscous.dv
                        /\ bare(a.viscous.grad) = bare(b.viscous.grad)
                        /\ Cardinality(a.viscous.rvol) = Cardinality(b.viscous.rvol)
                lost == \/ c[2] \in BelowInterface(p)
                        \/ c[2] \in AboveInterface(p) /\ c[1] \in {0, nx - 1}
            IN  (\A side \in Sides : same(side)) <=> ~ lost

(* When the segments cover the edges, a flux is made of cells and of ghosts   *)
(* that have been exchanged or stamped: none reads a ghost that still has its *)
(* freestream or an index beyond the canvas.  MOVERS_LE1 is left out: its     *)
(* cv_ ghosts are never set.  The schemes with one loop for both directions   *)
(* take the vector of a j-face at (f, b) for (b, f): beyond the canvas if it  *)
(* is higher than wide, or the other way round, by more than the ghosts.      *)
OnlySetValuesRead ==
    /\ InFluxes(Straight \ {"movers-le1"}, "euler") /\ KeepToSlab =>
           \A p \in Procs : \A c \in Reals(p) : \A side \in Sides :
               LET f == rhs[p][c][side]
               IN  {Free, Zero, Outside} \cap (f.average.dv \cup f.diss.dv
                                               \cup {f.average.vector, f.diss.vector}) = {}
    /\ InFluxes(Transposed, "euler") =>
           \A p \in Procs :
               (\E c \in Reals(p) : \E side \in Sides : rhs[p][c][side].diss.vector = Outside)
                   <=> rows(p) > nx + 1 \/ nx - 1 > rows(p) + 1

(* The vector a flux is formed with is that of its face, "j-face vector at    *)
(* the BOTTOM face of each cell" (mesh.hpp:60), and "local sj(jf) is global   *)
(* face (offset + jf)" (halo.cpp:114).                                        *)
OwnFaceVector ==
    scheme # "none" => \A p \in Procs : \A c \in Reals(p) :
        LET g == Global(p, c)
        IN  /\ rhs[p][c].s.diss.vector = <<"sj", g[1], g[2]>>
            /\ g[2] + 1 < ny => rhs[p][c].n.diss.vector = <<"sj", g[1], g[2] + 1>>
=============================================================================
