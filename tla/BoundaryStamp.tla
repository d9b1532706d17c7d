---------------------------- MODULE BoundaryStamp ----------------------------
(* The boundary pass that ends every stage, apply_boundaries, on the canvases *)
(* of dv_ that the exchange has just filled.  The ranks of an MPI run and one *)
(* process that computes the whole grid do it side by side, for the same list *)
(* of segments, so that what a slab has in a ghost cell can be compared with  *)
(* what one process has there.                                                *)
(*                                                                            *)
(* The value of a cell says where it comes from: the cell of the grid it is,  *)
(* Free if it still has the freestream of cv_'s ghosts, or <<"bc", kind,      *)
(* source, face>> if a kernel made it from the cell source and the face       *)
(* vector face.  i and j are local, -2 .. nx+1 and -2 .. rows+1.              *)
EXTENDS PlaneLayout

CONSTANTS
    NXs, NYs, RankCounts,    \* the grids and the numbers of ranks
    YKinds, XKinds           \* config::BcType of the segments, by edge

AllKinds == {"transmissive", "cut", "prescribed-inflow", "farfield", "slip-wall",
             "no-slip-adiabatic-wall", "no-slip-isothermal-wall", "symmetry"}

ASSUME StampAssumption ==
    /\ NXs \subseteq Nat \ {0} /\ NYs \subseteq Nat \ {0}
    /\ RankCounts \subseteq Nat \ {0, 1}      \* mpi_mode_: more than one rank
    /\ YKinds \subseteq AllKinds /\ XKinds \subseteq AllKinds

VARIABLES
    nx, ny, nranks,    \* meta_.nx, meta_.ny, decomp_.nranks
    segments,          \* segments_
    dv,                \* dv[p]: the canvas of process p
    done               \* done[p]: steps of apply_boundaries behind process p;
                       \* Lost if it has written outside its canvas

svars == <<nx, ny, nranks, segments, dv, done>>

Serial == -1           \* the process that has the whole grid
Lost   == -1
Ranks  == 0 .. nranks - 1
Procs  == {Serial} \cup Ranks

mpi_mode(p)  == p # Serial
slab(p)      == IF mpi_mode(p) THEN make(ny, nranks, p) ELSE make(ny, 1, 0)
j0(p)        == slab(p).j0
j1(p)        == slab(p).j1
rows(p)      == j1(p) - j0(p)
owns_jmin(p) == ~ mpi_mode(p) \/ p = 0
owns_jmax(p) == ~ mpi_mode(p) \/ p = nranks - 1

Places(p) == (-2 .. nx + 1) \X (-2 .. rows(p) + 1)
Reals(p)  == (0 .. nx - 1) \X (0 .. rows(p) - 1)

\* dependent_variables_all, then halo_.exchange: the columns of the grid in the
\* two ghost rows towards a neighbour hold its cells, all other ghosts are Free.
Exchanged(p) ==
    [c \in Places(p) |-> IF c[1] \in 0 .. nx - 1 /\ j0(p) + c[2] \in 0 .. ny - 1
                           THEN Cell(c[1], j0(p) + c[2]) ELSE Free]

------------------------------------------------------------------------------
(* The metrics of a process: faces and areas of its own real cells, and in    *)
(* the ghosts copies of the nearest ones, also in the slot of its last face.  *)

Clamp(x, hi) == IF x < 0 THEN 0 ELSE IF x > hi THEN hi ELSE x

Outside == <<"outside">>     \* what an index beyond the canvas reaches

metric(p, name, i, j) ==
    IF <<i, j>> \in Places(p)
      THEN <<name, Clamp(i, nx - 1), j0(p) + Clamp(j, rows(p) - 1)>>
      ELSE Outside

si(p, i, j)   == metric(p, "si", i, j)
sj(p, i, j)   == metric(p, "sj", i, j)
area(p, i, j) == metric(p, "area", i, j)

------------------------------------------------------------------------------
(* The kernels.  s.start and s.end count from 2, as in the legacy files.      *)

YEdges == {"ymin", "ymax"}

whole_short(s) == s.start - 2 .. s.end - 3      \* mutant: the last one is left out
whole(s) == s.start - 2 .. s.end - 2

clipped_short(p, s) ==      \* mutant: the slab's last row is left out
    IF s.edge \in YEdges THEN whole(s)
    ELSE {g - j0(p) : g \in whole(s) \cap (j0(p) .. j1(p) - 2)}
\* Rows of an X segment that are the slab's, in local numbers; Y segments as
\* they are.
clipped(p, s) ==
    IF s.edge \in YEdges THEN whole(s)
    ELSE {g - j0(p) : g \in whole(s) \cap (j0(p) .. j1(p) - 1)}

inner(p, e, k) == CASE e = "ymin" -> <<k, 0>>
                    [] e = "ymax" -> <<k, rows(p) - 1>>
                    [] e = "xmin" -> <<0, k>>
                    [] e = "xmax" -> <<nx - 1, k>>

ghosts(p, e, k) == CASE e = "ymin" -> {<<k, -1>>, <<k, -2>>}
                     [] e = "ymax" -> {<<k, rows(p)>>, <<k, rows(p) + 1>>}
                     [] e = "xmin" -> {<<-1, k>>, <<-2, k>>}
                     [] e = "xmax" -> {<<nx, k>>, <<nx + 1, k>>}

wall(p, e, k) == CASE e = "ymin" -> sj(p, k, 0)
                   [] e = "ymax" -> sj(p, k, rows(p))
                   [] e = "xmin" -> si(p, 0, k)
                   [] e = "xmax" -> si(p, nx, k)

\* Both ghosts get the same value: the outer one copies the inner one.
stamp(p, e, value) ==
    [c \in Places(p) |->
        LET k == IF e \in YEdges THEN c[1] ELSE c[2]
        IN  IF k \in DOMAIN value /\ c \in ghosts(p, e, k) THEN value[k] ELSE dv[p][c]]

source(p, s, k) == dv[p][inner(p, s.edge, k)]

bc_transmissive(p, s) ==
    stamp(p, s.edge, [k \in clipped(p, s) |-> <<"bc", "copy", source(p, s, k), Free>>])

bc_prescribed_inflow(p, s) ==
    stamp(p, s.edge, [k \in clipped(p, s) |-> <<"bc", "inflow", Free, Free>>])

bc_slip_wall(p, s) ==
    stamp(p, s.edge, [k \in clipped(p, s) |->
        <<"bc", "slip", source(p, s, k), wall(p, s.edge, k)>>])

bc_no_slip_wall_clipped(p, s) ==      \* mutant: rows are taken as the other kernels do
    stamp(p, s.edge, [k \in clipped(p, s) |-> <<"bc", "no-slip", source(p, s, k), Free>>])
bc_no_slip_wall(p, s) ==
    stamp(p, s.edge, [k \in whole(s) |-> <<"bc", "no-slip", source(p, s, k), Free>>])

bc_farfield(p, s) == bc_prescribed_inflow(p, s)

bc_symmetry(p, s) ==
    stamp(p, s.edge, [k \in whole(s) |-> <<"bc", "symmetry", source(p, s, k), Free>>])

apply_segment(p, s) ==
    CASE s.type \in {"transmissive", "cut"} -> bc_transmissive(p, s)
      [] s.type = "prescribed-inflow" -> bc_prescribed_inflow(p, s)
      [] s.type = "slip-wall" -> bc_slip_wall(p, s)
      [] s.type \in {"no-slip-adiabatic-wall", "no-slip-isothermal-wall"} -> bc_no_slip_wall(p, s)
      [] s.type = "farfield" -> bc_farfield(p, s)
      [] s.type = "symmetry" -> bc_symmetry(p, s)

\* The kernels that do not clip an X segment to the slab.
Unclipped(s) == s.type \in {"no-slip-adiabatic-wall", "no-slip-isothermal-wall", "symmetry"}

\* Where a kernel runs over the end of its canvas.
strays(p, s) ==
    {k \in IF Unclipped(s) THEN whole(s) ELSE clipped(p, s) :
        ~ (ghosts(p, s.edge, k) \subseteq Places(p))}

------------------------------------------------------------------------------
Segment(edge, type, lo, hi) == [edge |-> edge, type |-> type, start |-> lo + 2, end |-> hi + 2]

\* An X edge in two parts, the other one, and where the last segment lies.
Splits(y) ==
    UNION {{[edge |-> "xmin", other |-> "xmax", lo |-> 0, hi |-> cut - 1],
            [edge |-> "xmax", other |-> "xmin", lo |-> cut, hi |-> y - 1]} : cut \in {1, y - 1}}

\* Lists that cover every edge: one kind on both Y edges; one X edge in two
\* parts, of which the last segment is a wall or an inflow, the rest transmissive.
Cover(x, y, ky, kx, split) ==
    <<Segment("ymin", ky, 0, x - 1), Segment("ymax", ky, 0, x - 1),
      Segment(split.other, "transmissive", 0, y - 1),
      IF split.lo = 0 THEN Segment(split.edge, "transmissive", split.hi + 1, y - 1)
                      ELSE Segment(split.edge, "transmissive", 0, split.lo - 1),
      Segment(split.edge, kx, split.lo, split.hi)>>

Cases(x, y) == {Cover(x, y, ky, kx, split) : ky \in YKinds, kx \in XKinds, split \in Splits(y)}

\* HaloExchange shows what an exchange does on slabs of two rows and more.
Init ==
    /\ nx \in NXs /\ ny \in NYs /\ nranks \in RankCounts
    /\ ny >= 2 * nranks
    /\ segments \in Cases(nx, ny)
    /\ dv = [p \in Procs |-> Exchanged(p)]
    /\ done = [p \in Procs |-> 0]

\* The processes share nothing during the pass: one after the other will do.
Turn(p) == \A q \in Procs : q < p => done[q] = Lost \/ done[q] > Len(segments)

corners(p) ==
    {<<i, j>> : i \in {-1, nx}, j \in (IF owns_jmin(p) THEN {-1} ELSE {})
                                  \cup (IF owns_jmax(p) THEN {rows(p)} ELSE {})}

\* The averages are overwritten at once by what cv_ has in the corner.
update_corners(p) ==
    /\ Turn(p) /\ done[p] = 0
    /\ dv' = [dv EXCEPT ![p] = [c \in Places(p) |->
                                   IF c \in corners(p) THEN Free ELSE dv[p][c]]]
    /\ done' = [done EXCEPT ![p] = 1]
    /\ UNCHANGED <<nx, ny, nranks, segments>>

skipped_none(p, s) == FALSE      \* mutant: the ownership test is dropped
\* "only the rank owning the global bottom/top may stamp YMin/YMax segments"
skipped(p, s) ==
    \/ s.edge = "ymin" /\ ~ owns_jmin(p)
    \/ s.edge = "ymax" /\ ~ owns_jmax(p)

AtSegment(p) == Turn(p) /\ done[p] \in 1 .. Len(segments)

SkipSegment(p) ==
    /\ AtSegment(p) /\ skipped(p, segments[done[p]])
    /\ done' = [done EXCEPT ![p] = @ + 1]
    /\ UNCHANGED <<nx, ny, nranks, segments, dv>>

ApplySegment(p) ==
    /\ AtSegment(p)
    /\ LET s == segments[done[p]]
       IN  /\ ~ skipped(p, s) /\ strays(p, s) = {}
           /\ dv' = [dv EXCEPT ![p] = apply_segment(p, s)]
    /\ done' = [done EXCEPT ![p] = @ + 1]
    /\ UNCHANGED <<nx, ny, nranks, segments>>

\* An assertion of Field in a debug build; otherwise a write to some other cell,
\* or behind the field.  What follows is not modelled.
Stray(p) ==
    /\ AtSegment(p)
    /\ LET s == segments[done[p]] IN ~ skipped(p, s) /\ strays(p, s) # {}
    /\ done' = [done EXCEPT ![p] = Lost]
    /\ UNCHANGED <<nx, ny, nranks, segments, dv>>

Pass == \E p \in Procs :
    update_corners(p) \/ SkipSegment(p) \/ ApplySegment(p) \/ Stray(p)

Stamped(p) == done[p] = Len(segments) + 1
=============================================================================
