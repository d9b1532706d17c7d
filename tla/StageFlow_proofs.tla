--------------------------- MODULE StageFlow_proofs ---------------------------
(* On grids of every size, for every number of ranks and the segments of      *)
(* Init: the boundary pass leaves the exchanged ghost rows alone, stamps      *)
(* the canvas of a slab as one process does but for the free corners, and     *)
(* misplaces what does not keep to the slab; the stage on top of it computes  *)
(* what one process computes, where and only where the properties say so, and *)
(* reads nothing that no one has set.                                         *)
EXTENDS StageFlow, SlabDecomposition_proofs

Edges == {"ymin", "ymax", "xmin", "xmax"}

Kept(p, canvas) ==
    \A c \in (0 .. nx - 1) \X (-2 .. rows(p) + 1) :
        j0(p) + c[2] \in 0 .. ny - 1 => canvas[c] = Cell(c[1], j0(p) + c[2])

(* The inductive invariant: the rows are kept by a rank that is lost, too, as *)
(* far as the model goes; the segments are what the kernels can be applied to. *)
IInv ==
    /\ nx \in Nat \ {0} /\ ny \in Nat /\ nranks \in Nat
    /\ nranks >= 2 /\ nranks <= ny
    /\ Len(segments) \in Nat
    /\ \A k \in 1 .. Len(segments) : segments[k].edge \in Edges /\ segments[k].type \in AllKinds
    /\ dv = [p \in Procs |-> dv[p]]
    /\ \A p \in Ranks : Kept(p, dv[p])

------------------------------------------------------------------------------
(* The rows of a rank.                                                        *)
LEMMA RankRows ==
    ASSUME nx \in Nat \ {0}, ny \in Nat, nranks \in Nat, nranks >= 2, nranks <= ny,
           NEW p \in Ranks
    PROVE  /\ p \in Procs /\ p \in Nat /\ mpi_mode(p)
           /\ j0(p) \in Nat /\ j1(p) \in Nat /\ rows(p) \in Nat
           /\ j0(p) + rows(p) = j1(p) /\ j1(p) <= ny
           /\ owns_jmin(p) => j0(p) = 0
           /\ owns_jmax(p) => j1(p) = ny
<1>1. p \in 0 .. nranks - 1 /\ p # -1
  BY DEF Ranks
<1>2. slab(p) = make(ny, nranks, p) /\ mpi_mode(p) /\ p \in Procs
  BY <1>1 DEF slab, mpi_mode, Serial, Procs
<1> DEFINE d == make(ny, nranks, p)
<1>3. /\ d.j0 \in Nat /\ d.j1 \in Nat /\ d.j0 < d.j1 /\ d.j1 <= ny
      /\ p = 0 => d.j0 = 0
      /\ p = nranks - 1 => d.j1 = ny
  BY <1>1, SlabRows
<1> HIDE DEF d
<1>4. j0(p) = d.j0 /\ j1(p) = d.j1
  BY <1>2 DEF j0, j1, d
<1>5. (owns_jmin(p) => p = 0) /\ (owns_jmax(p) => p = nranks - 1)
  BY <1>2 DEF owns_jmin, owns_jmax
<1> QED BY <1>1, <1>2, <1>3, <1>4, <1>5 DEF rows

(* Every kernel is a stamp along the edge of its segment.                     *)
LEMMA KernelStamps ==
    ASSUME NEW p, NEW s, s.type \in AllKinds
    PROVE  \E value : apply_segment(p, s) = stamp(p, s.edge, value)
<1>1. CASE s.type \in {"transmissive", "cut"}
  BY <1>1 DEF apply_segment, bc_transmissive
<1>2. CASE s.type \in {"prescribed-inflow", "farfield"}
  BY <1>2 DEF apply_segment, bc_prescribed_inflow, bc_farfield
<1>3. CASE s.type = "slip-wall"
  BY <1>3 DEF apply_segment, bc_slip_wall
<1>4. CASE s.type \in {"no-slip-adiabatic-wall", "no-slip-isothermal-wall"}
  BY <1>4 DEF apply_segment, bc_no_slip_wall
<1>5. CASE s.type = "symmetry"
  BY <1>5 DEF apply_segment, bc_symmetry
<1> QED BY <1>1, <1>2, <1>3, <1>4, <1>5 DEF AllKinds

(* A stamp along an edge the rank may stamp keeps the cells of the grid.      *)
LEMMA StampKeeps ==
    ASSUME IInv, NEW p \in Ranks, NEW s, s.edge \in Edges, ~ skipped(p, s), NEW value
    PROVE  Kept(p, stamp(p, s.edge, value))
<1> DEFINE e == s.edge
<1>1. SUFFICES ASSUME NEW c \in (0 .. nx - 1) \X (-2 .. rows(p) + 1),
                      j0(p) + c[2] \in 0 .. ny - 1
               PROVE  stamp(p, e, value)[c] = Cell(c[1], j0(p) + c[2])
  BY DEF Kept
<1>2. /\ j0(p) \in Nat /\ j1(p) \in Nat /\ rows(p) \in Nat /\ nx \in Nat
      /\ j0(p) + rows(p) = j1(p)
      /\ owns_jmin(p) => j0(p) = 0
      /\ owns_jmax(p) => j1(p) = ny
  BY RankRows DEF IInv
<1>3. c \in Places(p) /\ c[1] \in 0 .. nx - 1 /\ c[2] \in Int
  BY <1>1, <1>2 DEF Places
<1>4. dv[p][c] = Cell(c[1], j0(p) + c[2])
  BY <1>1 DEF IInv, Kept
<1> DEFINE k == IF e \in YEdges THEN c[1] ELSE c[2]
<1>5. c \notin ghosts(p, e, k)
  <2>1. CASE e = "ymin"
    <3>1. c[2] # -1 /\ c[2] # -2
      BY <1>1, <1>2, <1>3, <2>1 DEF skipped
    <3> QED BY <2>1, <3>1 DEF ghosts
  <2>2. CASE e = "ymax"
    <3>1. c[2] # rows(p) /\ c[2] # rows(p) + 1
      BY <1>1, <1>2, <1>3, <2>2 DEF skipped
    <3> QED BY <2>2, <3>1 DEF ghosts
  <2>3. CASE e = "xmin"
    <3>1. c[1] # -1 /\ c[1] # -2
      BY <1>3
    <3> QED BY <2>3, <3>1 DEF ghosts
  <2>4. CASE e = "xmax"
    <3>1. c[1] # nx /\ c[1] # nx + 1
      BY <1>2, <1>3
    <3> QED BY <2>4, <3>1 DEF ghosts
  <2> QED BY <2>1, <2>2, <2>3, <2>4 DEF Edges
<1>6. stamp(p, e, value)[c] = dv[p][c]
  BY <1>3, <1>5 DEF stamp
<1> QED BY <1>4, <1>6

------------------------------------------------------------------------------
LEMMA InitIInv == StageInit => IInv
<1> SUFFICES ASSUME StageInit PROVE IInv
  OBVIOUS
<1>1. /\ nx \in Nat \ {0} /\ ny \in Nat \ {0} /\ nranks \in Nat \ {0, 1}
      /\ ny >= 2 * nranks
      /\ segments \in Cases(nx, ny)
      /\ dv = [p \in Procs |-> Exchanged(p)]
  BY StampAssumption DEF StageInit, Init
<1>2. nranks >= 2 /\ nranks <= ny
  BY <1>1
<1>3. /\ Len(segments) \in Nat
      /\ \A k \in 1 .. Len(segments) : segments[k].edge \in Edges /\ segments[k].type \in AllKinds
  <2>1. PICK ky \in YKinds, kx \in XKinds, split \in Splits(ny) :
            segments = Cover(nx, ny, ky, kx, split)
    BY <1>1 DEF Cases
  <2>2. split.edge \in {"xmin", "xmax"} /\ split.other \in {"xmin", "xmax"}
    BY <2>1 DEF Splits
  <2>3. ky \in AllKinds /\ kx \in AllKinds /\ "transmissive" \in AllKinds
    BY StampAssumption DEF AllKinds
  <2> HIDE DEF AllKinds
  <2>4. \A lo, hi, e, t : Segment(e, t, lo, hi).edge = e /\ Segment(e, t, lo, hi).type = t
    BY DEF Segment
  <2> DEFINE fourth == IF split.lo = 0 THEN Segment(split.edge, "transmissive", split.hi + 1, ny - 1)
                                       ELSE Segment(split.edge, "transmissive", 0, split.lo - 1)
             first5 == Segment("ymin", ky, 0, nx - 1)
             second == Segment("ymax", ky, 0, nx - 1)
             third  == Segment(split.other, "transmissive", 0, ny - 1)
             fifth  == Segment(split.edge, kx, split.lo, split.hi)
  <2>5. segments = <<first5, second, third, fourth, fifth>>
    BY <2>1 DEF Cover
  <2>6. /\ first5.edge = "ymin" /\ first5.type = ky
        /\ second.edge = "ymax" /\ second.type = ky
        /\ third.edge = split.other /\ third.type = "transmissive"
        /\ fourth.edge = split.edge /\ fourth.type = "transmissive"
        /\ fifth.edge = split.edge /\ fifth.type = kx
    BY <2>4
  <2> HIDE DEF first5, second, third, fourth, fifth
  <2>7. Len(segments) = 5 /\ \A k \in 1 .. 5 : segments[k] \in {first5, second, third, fourth, fifth}
    BY <2>5
  <2> QED BY <2>2, <2>3, <2>6, <2>7 DEF Edges
<1>4. dv = [p \in Procs |-> dv[p]]
  BY <1>1
<1>5. \A p \in Ranks : Kept(p, dv[p])
  <2> SUFFICES ASSUME NEW p \in Ranks,
                      NEW c \in (0 .. nx - 1) \X (-2 .. rows(p) + 1), j0(p) + c[2] \in 0 .. ny - 1
               PROVE  dv[p][c] = Cell(c[1], j0(p) + c[2])
    BY DEF Kept
  <2>1. p \in Procs /\ rows(p) \in Nat
    BY <1>1, <1>2, RankRows
  <2>2. c \in Places(p) /\ c[1] \in 0 .. nx - 1
    BY <1>1, <2>1 DEF Places
  <2>3. dv[p] = Exchanged(p)
    BY <1>1, <2>1
  <2> QED BY <2>2, <2>3 DEF Exchanged
<1> QED BY <1>1, <1>2, <1>3, <1>4, <1>5 DEF IInv

(* What follows when a step replaces the canvas of one process by one that    *)
(* keeps its rows.                                                            *)
LEMMA OneCanvas ==
    ASSUME IInv, UNCHANGED <<nx, ny, nranks, segments>>, NEW p \in Procs, NEW canvas,
           dv' = [dv EXCEPT ![p] = canvas],
           p \in Ranks => Kept(p, canvas)
    PROVE  IInv'
<1>1. \A q \in Procs : dv'[q] = IF q = p THEN canvas ELSE dv[q]
  BY DEF IInv
<1>2. Procs' = Procs /\ Ranks' = Ranks
  BY DEF Procs, Ranks
<1>3. dv' = [q \in Procs' |-> dv'[q]]
  BY <1>2 DEF IInv
<1>4. \A q \in Ranks : Kept(q, dv'[q])
  BY <1>1 DEF IInv, Procs
<1>5. \A q \in Ranks : Kept(q, dv[q])' <=> Kept(q, dv'[q])
  BY DEF Kept, rows, j0, j1, slab
<1> QED BY <1>2, <1>3, <1>4, <1>5 DEF IInv

LEMMA NextIInv == IInv /\ [Next]_vars => IInv'
<1> SUFFICES ASSUME IInv, [Next]_vars PROVE IInv'
  OBVIOUS
<1>1. CASE UNCHANGED <<nx, ny, nranks, segments, dv>>
  BY <1>1 DEF IInv, Kept, rows, j0, j1, slab, Procs, Ranks
<1>2. ASSUME NEW p \in Procs, update_corners(p) PROVE IInv'
  <2> DEFINE canvas == [c \in Places(p) |-> IF c \in corners(p) THEN Free ELSE dv[p][c]]
  <2>1. dv' = [dv EXCEPT ![p] = canvas] /\ UNCHANGED <<nx, ny, nranks, segments>>
    BY <1>2 DEF update_corners
  <2>2. ASSUME p \in Ranks PROVE Kept(p, canvas)
    <3> SUFFICES ASSUME NEW c \in (0 .. nx - 1) \X (-2 .. rows(p) + 1), j0(p) + c[2] \in 0 .. ny - 1
                 PROVE  canvas[c] = Cell(c[1], j0(p) + c[2])
      BY DEF Kept
    <3>1. rows(p) \in Nat /\ nx \in Nat
      BY <2>2, RankRows DEF IInv
    <3>2. c \in Places(p) /\ c[1] # -1 /\ c[1] # nx
      BY <3>1 DEF Places
    <3>3. c \notin corners(p)
      BY <3>2 DEF corners
    <3> QED BY <2>2, <3>2, <3>3 DEF IInv, Kept
  <2> HIDE DEF canvas
  <2> QED BY <2>1, <2>2, OneCanvas
<1>3. ASSUME NEW p \in Procs, ApplySegment(p) PROVE IInv'
  <2> DEFINE s == segments[done[p]]
  <2>1. /\ done[p] \in 1 .. Len(segments) /\ ~ skipped(p, s)
        /\ dv' = [dv EXCEPT ![p] = apply_segment(p, s)]
        /\ UNCHANGED <<nx, ny, nranks, segments>>
    BY <1>3 DEF ApplySegment, AtSegment
  <2>2. s.edge \in Edges /\ s.type \in AllKinds
    BY <2>1 DEF IInv
  <2> HIDE DEF s
  <2>3. PICK value : apply_segment(p, s) = stamp(p, s.edge, value)
    BY <2>2, KernelStamps
  <2>4. p \in Ranks => Kept(p, apply_segment(p, s))
    BY <2>1, <2>2, <2>3, StampKeeps
  <2> QED BY <2>1, <2>4, OneCanvas
<1>4. CASE Pass
  BY <1>1, <1>2, <1>3, <1>4 DEF Pass, SkipSegment, Stray
<1>5. CASE BoundaryPass
  BY <1>4, <1>5 DEF BoundaryPass
<1>6. CASE TimeStep
  BY <1>1, <1>6 DEF TimeStep, svars
<1>7. ASSUME NEW s, NEW e, ComputeFluxes(s, e) PROVE IInv'
  BY <1>1, <1>7 DEF ComputeFluxes, svars
<1>8. CASE UNCHANGED vars
  BY <1>1, <1>8 DEF vars, svars
<1> QED BY <1>5, <1>6, <1>7, <1>8 DEF Next

(* On every grid, for every number of ranks and every list of segments of     *)
(* Init, an exchanged ghost row is still the neighbour's after every step of  *)
(* the pass, and in the fluxes that read it (euler_solver.cpp:803).           *)
THEOREM GhostsKeptAlways == Spec => []InterfaceGhostsKept
<1>1. IInv => InterfaceGhostsKept
  BY DEF IInv, Kept, InterfaceGhostsKept
<1> QED BY <1>1, InitIInv, NextIInv, PTL DEF Spec
------------------------------------------------------------------------------
(* Slabs of two rows and more.                                                *)
LEMMA DeepSlab ==
    ASSUME NEW h \in Nat, NEW n \in Nat, n >= 2, h >= 2 * n, NEW rk \in 0 .. n - 1
    PROVE  /\ rk # 0 => make(h, n, rk).j0 >= 2
           /\ rk # n - 1 => make(h, n, rk).j1 <= h - 2
           /\ make(h, n, rk).j1 >= make(h, n, rk).j0 + 2
<1> DEFINE q == base(h, n)
           m == rem(h, n)
<1>1. n >= 1 /\ n <= h
  OBVIOUS
<1>2. q \in Nat /\ m \in 0 .. n - 1 /\ h = n * q + m
  BY <1>1, DivMod
<1>3. q >= 2
  <2>1. CASE q = 0
    <3>1. n * q = 0
      BY <2>1
    <3> QED BY <1>2, <3>1
  <2>2. CASE q = 1
    <3>1. n * q = n
      BY <2>2
    <3> QED BY <1>2, <3>1
  <2> QED BY <1>2, <2>1, <2>2
<1> HIDE DEF q, m
<1>4. /\ first(h, n, 0) = 0 /\ first(h, n, n) = h
      /\ \A k \in 0 .. n : first(h, n, k) \in Nat
      /\ \A k \in 0 .. n : first(h, n, k + 1) = first(h, n, k) + q + extra(h, n, k)
  BY <1>1, FirstRow, FirstRowBounds DEF q
<1>5. \A k : extra(h, n, k) \in {0, 1}
  BY DEF extra
<1>6. first(h, n, 1) >= 2
  <2>1. first(h, n, 0 + 1) = first(h, n, 0) + q + extra(h, n, 0)
    BY <1>4
  <2> QED BY <1>2, <1>3, <1>4, <1>5, <2>1
<1>7. first(h, n, n - 1) <= h - 2
  <2>1. first(h, n, (n - 1) + 1) = first(h, n, n - 1) + q + extra(h, n, n - 1)
        /\ first(h, n, n - 1) \in Nat
    BY <1>4
  <2>2. (n - 1) + 1 = n
    OBVIOUS
  <2> QED BY <1>2, <1>3, <1>4, <1>5, <2>1, <2>2
<1>8. make(h, n, rk).j0 = first(h, n, rk) /\ make(h, n, rk).j1 = first(h, n, rk + 1)
  BY <1>1, MakeIs
<1>9. rk # 0 => first(h, n, 1) <= first(h, n, rk)
  BY <1>1, FirstRowMonotone
<1>10. rk # n - 1 => first(h, n, rk + 1) <= first(h, n, n - 1)
  <2>1. rk # n - 1 => rk + 1 \in 0 .. n /\ n - 1 \in 0 .. n /\ rk + 1 <= n - 1
    OBVIOUS
  <2> QED BY <1>1, <2>1, FirstRowMonotone
<1>11. rk \in 0 .. n /\ rk + 1 \in 0 .. n /\ 1 \in 0 .. n /\ n - 1 \in 0 .. n
  OBVIOUS
<1>12. first(h, n, rk + 1) >= first(h, n, rk) + 2
  <2>1. first(h, n, rk + 1) = first(h, n, rk) + q + extra(h, n, rk) /\ first(h, n, rk) \in Nat
    BY <1>4, <1>11
  <2> QED BY <1>2, <1>3, <1>5, <2>1
<1> QED BY <1>4, <1>6, <1>7, <1>8, <1>9, <1>10, <1>11, <1>12

Sized ==
    /\ nx \in Nat \ {0} /\ ny \in Nat /\ nranks \in Nat
    /\ nranks >= 2 /\ ny >= 2 * nranks

LEMMA ProcRows ==
    ASSUME Sized, NEW p \in Procs
    PROVE  /\ j0(p) \in Nat /\ j1(p) \in Nat /\ rows(p) \in Nat /\ rows(p) >= 1
           /\ j0(p) + rows(p) = j1(p) /\ j1(p) <= ny
           /\ owns_jmin(p) => j0(p) = 0
           /\ owns_jmax(p) => j1(p) = ny
           /\ ~ owns_jmin(p) => j0(p) >= 2
           /\ ~ owns_jmax(p) => j1(p) <= ny - 2
           /\ p \in Ranks => mpi_mode(p)
<1>1. CASE p = Serial
  <2>1. slab(p) = make(ny, 1, 0) /\ ~ mpi_mode(p) /\ owns_jmin(p) /\ owns_jmax(p) /\ p \notin Ranks
    BY <1>1 DEF slab, mpi_mode, owns_jmin, owns_jmax, Serial, Ranks
  <2> DEFINE d == make(ny, 1, 0)
  <2>2. d.j0 = 0 /\ d.j1 = ny /\ ny \in Nat /\ ny >= 1
    BY SlabRows DEF Sized
  <2> HIDE DEF d
  <2>3. j0(p) = d.j0 /\ j1(p) = d.j1
    BY <2>1 DEF j0, j1, d
  <2> QED BY <2>1, <2>2, <2>3 DEF rows
<1>2. CASE p # Serial
  <2>1. p \in Ranks /\ p \in 0 .. nranks - 1
    BY <1>2 DEF Procs, Ranks
  <2>2. slab(p) = make(ny, nranks, p) /\ mpi_mode(p)
    BY <1>2 DEF slab, mpi_mode
  <2> DEFINE d == make(ny, nranks, p)
  <2>3. /\ d.j0 \in Nat /\ d.j1 \in Nat /\ d.j0 < d.j1 /\ d.j1 <= ny
        /\ p = 0 => d.j0 = 0
        /\ p = nranks - 1 => d.j1 = ny
    BY <2>1, SlabRows DEF Sized
  <2>4. (p # 0 => d.j0 >= 2) /\ (p # nranks - 1 => d.j1 <= ny - 2)
    BY <2>1, DeepSlab DEF Sized
  <2> HIDE DEF d
  <2>5. j0(p) = d.j0 /\ j1(p) = d.j1
    BY <2>2 DEF j0, j1, d
  <2>6. (owns_jmin(p) <=> p = 0) /\ (owns_jmax(p) <=> p = nranks - 1)
    BY <2>2 DEF owns_jmin, owns_jmax
  <2> QED BY <2>2, <2>3, <2>4, <2>5, <2>6 DEF rows
<1> QED BY <1>1, <1>2

(* Where the value of a ghost comes from.  A kernel goes over the columns or  *)
(* rows Over of its segment, and makes the value of a ghost from the cell at  *)
(* its inner side, which is one of the grid.                                  *)
Over(p, s) == IF Unclipped(s) THEN whole(s) ELSE clipped(p, s)

Kind(s) == CASE s.type \in {"transmissive", "cut"} -> "copy"
             [] s.type \in {"prescribed-inflow", "farfield"} -> "inflow"
             [] s.type = "slip-wall" -> "slip"
             [] s.type \in {"no-slip-adiabatic-wall", "no-slip-isothermal-wall"} -> "no-slip"
             [] s.type = "symmetry" -> "symmetry"

Made(p, s, k, cell_inside) ==
    <<"bc", Kind(s), IF Kind(s) = "inflow" THEN Free ELSE cell_inside,
      IF Kind(s) = "slip" THEN wall(p, s.edge, k) ELSE Free>>

Along(s, c) == IF s.edge \in YEdges THEN c[1] ELSE c[2]

Hits(p, s, c) ==
    /\ ~ skipped(p, s)
    /\ Along(s, c) \in Over(p, s)
    /\ c \in ghosts(p, s.edge, Along(s, c))

Value(p, s, c) ==
    Made(p, s, Along(s, c), Cell(inner(p, s.edge, Along(s, c))[1],
                                 j0(p) + inner(p, s.edge, Along(s, c))[2]))

Watched(p, c) == KeepToSlab \/ c[1] \in 0 .. nx - 1 \/ c[2] \in 0 .. rows(p) - 1

(* After the first d - 1 segments a ghost has what the last kernel that went  *)
(* over it made, or what it had after the exchange.                           *)
Sourced(p, d, canvas) ==
    \A c \in Places(p) : Watched(p, c) =>
        \/ /\ \A m \in 1 .. d - 1 : ~ Hits(p, segments[m], c)
           /\ canvas[c] = Exchanged(p)[c]
        \/ \E k \in 1 .. d - 1 :
               /\ Hits(p, segments[k], c)
               /\ \A m \in k + 1 .. d - 1 : ~ Hits(p, segments[m], c)
               /\ canvas[c] = Value(p, segments[k], c)

(* The segments lie inside their edges; of those on the left and right edges  *)
(* only the last may be one that does not keep to the slab.                   *)
Listed ==
    /\ Len(segments) \in Nat \ {0}
    /\ segments[Len(segments)].edge \in {"xmin", "xmax"}
    /\ \A k \in 1 .. Len(segments) :
           LET s == segments[k]
           IN  /\ s.start \in Int /\ s.end \in Int
               /\ s.edge \in YEdges => whole(s) \subseteq 0 .. nx - 1
               /\ s.edge \notin YEdges => whole(s) \subseteq 0 .. ny - 1
               /\ s.edge \notin YEdges /\ k < Len(segments) => s.type = "transmissive"

PassInv ==
    /\ ny >= 2 * nranks
    /\ Listed
    /\ done \in [Procs -> -1 .. Len(segments) + 1]
    /\ \A p \in Procs : /\ DOMAIN dv[p] = Places(p)
                        /\ done[p] # Lost => Sourced(p, done[p], dv[p])
                        /\ done[p] = Lost =>
                               \E k \in whole(segments[Len(segments)]) : k > rows(p) + 1
                        /\ done[p] = Lost => ~ KeepToSlab
(* Every kernel is a stamp of what it makes from the cells inside.            *)
LEMMA KernelMakes ==
    ASSUME NEW p, NEW s, s.type \in AllKinds
    PROVE  apply_segment(p, s) =
               stamp(p, s.edge, [k \in Over(p, s) |-> Made(p, s, k, source(p, s, k))])
<1>1. CASE s.type \in {"transmissive", "cut"}
  BY <1>1 DEF apply_segment, bc_transmissive, Over, Unclipped, Made, Kind
<1>2. CASE s.type \in {"prescribed-inflow", "farfield"}
  BY <1>2 DEF apply_segment, bc_prescribed_inflow, bc_farfield, Over, Unclipped, Made, Kind
<1>3. CASE s.type = "slip-wall"
  BY <1>3 DEF apply_segment, bc_slip_wall, Over, Unclipped, Made, Kind
<1>4. CASE s.type \in {"no-slip-adiabatic-wall", "no-slip-isothermal-wall"}
  BY <1>4 DEF apply_segment, bc_no_slip_wall, Over, Unclipped, Made, Kind
<1>5. CASE s.type = "symmetry"
  BY <1>5 DEF apply_segment, bc_symmetry, Over, Unclipped, Made, Kind
<1> QED BY <1>1, <1>2, <1>3, <1>4, <1>5 DEF AllKinds

LEMMA StampIs ==
    ASSUME NEW p, NEW s, s.type \in AllKinds, ~ skipped(p, s), NEW c \in Places(p)
    PROVE  apply_segment(p, s)[c] =
               IF Hits(p, s, c) THEN Made(p, s, Along(s, c), source(p, s, Along(s, c)))
               ELSE dv[p][c]
<1> DEFINE value == [k \in Over(p, s) |-> Made(p, s, k, source(p, s, k))]
<1>1. apply_segment(p, s) = stamp(p, s.edge, value)
  BY KernelMakes
<1>2. stamp(p, s.edge, value)[c] =
          IF Along(s, c) \in DOMAIN value /\ c \in ghosts(p, s.edge, Along(s, c))
            THEN value[Along(s, c)] ELSE dv[p][c]
  BY DEF stamp, Along
<1>3. DOMAIN value = Over(p, s)
  OBVIOUS
<1>4. \A k \in Over(p, s) : value[k] = Made(p, s, k, source(p, s, k))
  OBVIOUS
<1> HIDE DEF value
<1> QED BY <1>1, <1>2, <1>3, <1>4 DEF Hits

(* Where a kernel hits: in a ghost column or a ghost row; where it is watched, *)
(* in one of them only, so that the cell inside is one of the grid.           *)
LEMMA HitIs ==
    ASSUME Sized, Listed, NEW p \in Procs, NEW k \in 1 .. Len(segments),
           segments[k].edge \in Edges,
           NEW c \in Places(p), Hits(p, segments[k], c)
    PROVE  /\ segments[k].edge = "ymin" => c[2] \in {-1, -2} /\ c[1] \in 0 .. nx - 1 /\ owns_jmin(p)
           /\ segments[k].edge = "ymax" =>
                  c[2] \in {rows(p), rows(p) + 1} /\ c[1] \in 0 .. nx - 1 /\ owns_jmax(p)
           /\ segments[k].edge = "xmin" => c[1] \in {-1, -2}
           /\ segments[k].edge = "xmax" => c[1] \in {nx, nx + 1}
           /\ Watched(p, c) /\ segments[k].edge \notin YEdges => c[2] \in 0 .. rows(p) - 1
<1> DEFINE s == segments[k]
           a == Along(s, c)
<1>1. ~ skipped(p, s) /\ a \in Over(p, s) /\ c \in ghosts(p, s.edge, a)
  BY DEF Hits
<1>2. c[1] \in Int /\ c[2] \in Int /\ c = <<c[1], c[2]>>
  BY ProcRows DEF Places, Sized
<1>3. CASE s.edge = "ymin"
  <2>1. a = c[1] /\ Over(p, s) = whole(s) /\ whole(s) \subseteq 0 .. nx - 1
    BY <1>3 DEF Along, YEdges, Over, clipped, Listed
  <2>2. c[2] \in {-1, -2} /\ owns_jmin(p)
    BY <1>1, <1>2, <1>3, <2>1 DEF ghosts, skipped
  <2> QED BY <1>1, <1>3, <2>1, <2>2 DEF YEdges
<1>4. CASE s.edge = "ymax"
  <2>1. a = c[1] /\ Over(p, s) = whole(s) /\ whole(s) \subseteq 0 .. nx - 1
    BY <1>4 DEF Along, YEdges, Over, clipped, Listed
  <2>2. c[2] \in {rows(p), rows(p) + 1} /\ owns_jmax(p)
    BY <1>1, <1>2, <1>4, <2>1 DEF ghosts, skipped
  <2> QED BY <1>1, <1>4, <2>1, <2>2 DEF YEdges
<1>5. CASE s.edge \in {"xmin", "xmax"}
  <2>1. a = c[2] /\ s.edge \notin YEdges
    BY <1>5 DEF Along, YEdges
  <2>2. /\ s.edge = "xmin" => c[1] \in {-1, -2}
        /\ s.edge = "xmax" => c[1] \in {nx, nx + 1}
    BY <1>1, <1>2, <2>1 DEF ghosts
  <2>3. c[1] \notin 0 .. nx - 1
    BY <1>5, <2>2 DEF Sized
  <2>4. ASSUME KeepToSlab PROVE c[2] \in 0 .. rows(p) - 1
    <3>1. Over(p, s) = clipped(p, s)
      BY <2>1, <2>4 DEF KeepToSlab, Over
    <3>2. PICK g \in j0(p) .. j1(p) - 1 : c[2] = g - j0(p)
      BY <1>1, <2>1, <3>1 DEF clipped
    <3> QED BY <3>2, ProcRows
  <2> QED BY <1>5, <2>2, <2>3, <2>4 DEF Watched
<1> QED BY <1>3, <1>4, <1>5 DEF Edges

(* Rows of a slab of n rows above o others in a grid of h rows.               *)
LEMMA RowPlace ==
    ASSUME NEW o \in Nat, NEW n \in Nat, NEW h \in Nat, o + n <= h, NEW x \in 0 .. n - 1
    PROVE  o + x \in 0 .. h - 1 /\ o + x \in o .. (o + n) - 1 /\ (o + x) - o = x
OBVIOUS

LEMMA GhostRowPlace ==
    ASSUME NEW o \in Nat, NEW n \in Nat, NEW h \in Nat, o + n <= h, NEW x \in -2 .. n + 1
    PROVE  /\ o + x \in 0 .. h - 1 \/ o + x < 0 \/ o + x >= h
           /\ o + x < 0 => x \in {-1, -2} /\ o < 2
           /\ o + x >= h => x \in {n, n + 1} /\ o + n > h - 2
OBVIOUS

LEMMA NoGhost ==
    ASSUME NEW n \in Nat, NEW x \in 0 .. n - 1
    PROVE  x \notin {n, n + 1} /\ x \notin {-1, -2}
OBVIOUS

LEMMA RealKept ==
    ASSUME Sized, Listed, NEW p \in Procs, NEW d \in 0 .. Len(segments) + 1, NEW canvas,
           \A k \in 1 .. Len(segments) : segments[k].edge \in Edges,
           Sourced(p, d, canvas), NEW c \in Reals(p)
    PROVE  canvas[c] = Cell(c[1], j0(p) + c[2])
<1>1. /\ rows(p) \in Nat /\ nx \in Nat /\ ny \in Nat /\ j0(p) \in Nat /\ j0(p) + rows(p) <= ny
      /\ Len(segments) \in Nat
  BY ProcRows DEF Sized, Listed
<1>2. c[1] \in 0 .. nx - 1 /\ c[2] \in 0 .. rows(p) - 1 /\ c \in Places(p)
  BY <1>1 DEF Reals, Places
<1>3. /\ c[1] \notin {nx, nx + 1} /\ c[1] \notin {-1, -2}
      /\ c[2] \notin {rows(p), rows(p) + 1} /\ c[2] \notin {-1, -2}
  BY <1>1, <1>2, NoGhost
<1>4. \A k \in 1 .. Len(segments) : ~ Hits(p, segments[k], c)
  <2> SUFFICES ASSUME NEW k \in 1 .. Len(segments), Hits(p, segments[k], c) PROVE FALSE
    OBVIOUS
  <2>1. segments[k].edge \in Edges
    OBVIOUS
  <2>2. /\ segments[k].edge = "ymin" => c[2] \in {-1, -2}
        /\ segments[k].edge = "ymax" => c[2] \in {rows(p), rows(p) + 1}
        /\ segments[k].edge = "xmin" => c[1] \in {-1, -2}
        /\ segments[k].edge = "xmax" => c[1] \in {nx, nx + 1}
    BY <1>2, <2>1, HitIs
  <2> QED BY <1>3, <2>1, <2>2 DEF Edges
<1>5. Watched(p, c) /\ \A k \in 1 .. d - 1 : k \in 1 .. Len(segments)
  BY <1>1, <1>2 DEF Watched
<1>6. canvas[c] = Exchanged(p)[c]
  BY <1>2, <1>4, <1>5 DEF Sourced
<1>7. j0(p) + c[2] \in 0 .. ny - 1
  BY ONLY <1>1, <1>2, RowPlace
<1> QED BY <1>2, <1>6, <1>7 DEF Exchanged

(* Segment d takes the sources one step further.                              *)
LEMMA SourcedFurther ==
    ASSUME NEW p, NEW d \in Nat \ {0}, NEW before_d, NEW after_d, Sourced(p, d, before_d),
           \A c \in Places(p) : Watched(p, c) =>
               after_d[c] = IF Hits(p, segments[d], c) THEN Value(p, segments[d], c) ELSE before_d[c]
    PROVE  Sourced(p, d + 1, after_d)
<1> SUFFICES ASSUME NEW c \in Places(p), Watched(p, c)
             PROVE  \/ /\ \A m \in 1 .. (d + 1) - 1 : ~ Hits(p, segments[m], c)
                       /\ after_d[c] = Exchanged(p)[c]
                    \/ \E k \in 1 .. (d + 1) - 1 :
                           /\ Hits(p, segments[k], c)
                           /\ \A m \in k + 1 .. (d + 1) - 1 : ~ Hits(p, segments[m], c)
                           /\ after_d[c] = Value(p, segments[k], c)
  BY DEF Sourced
<1>1. \A m \in 1 .. (d + 1) - 1 : m = d \/ m \in 1 .. d - 1
  OBVIOUS
<1>2. CASE Hits(p, segments[d], c)
  <2>1. d \in 1 .. (d + 1) - 1 /\ d + 1 .. (d + 1) - 1 = {}
    OBVIOUS
  <2>2. after_d[c] = Value(p, segments[d], c)
    BY <1>2
  <2> QED BY <1>2, <2>1, <2>2
<1>3. CASE ~ Hits(p, segments[d], c)
  <2>1. after_d[c] = before_d[c]
    BY <1>3
  <2>2. CASE /\ \A m \in 1 .. d - 1 : ~ Hits(p, segments[m], c)
             /\ before_d[c] = Exchanged(p)[c]
    BY <1>1, <1>3, <2>1, <2>2
  <2>3. ASSUME NEW k \in 1 .. d - 1, Hits(p, segments[k], c),
               \A m \in k + 1 .. d - 1 : ~ Hits(p, segments[m], c),
               before_d[c] = Value(p, segments[k], c)
        PROVE  \E l \in 1 .. (d + 1) - 1 :
                   /\ Hits(p, segments[l], c)
                   /\ \A m \in l + 1 .. (d + 1) - 1 : ~ Hits(p, segments[m], c)
                   /\ after_d[c] = Value(p, segments[l], c)
    <3>1. k \in 1 .. (d + 1) - 1
      OBVIOUS
    <3>2. \A m \in k + 1 .. (d + 1) - 1 : m = d \/ m \in k + 1 .. d - 1
      OBVIOUS
    <3>3. \A m \in k + 1 .. (d + 1) - 1 : ~ Hits(p, segments[m], c)
      BY <1>3, <2>3, <3>2
    <3> QED BY <2>1, <2>3, <3>1, <3>3
  <2> QED BY <2>2, <2>3 DEF Sourced
<1> QED BY <1>2, <1>3

(* What a kernel makes at a watched place, it makes from a cell of the grid.  *)
LEMMA KernelFurther ==
    ASSUME Sized, Listed, NEW p \in Procs, NEW d \in 1 .. Len(segments), Sourced(p, d, dv[p]),
           \A k \in 1 .. Len(segments) : segments[k].edge \in Edges /\ segments[k].type \in AllKinds,
           ~ skipped(p, segments[d])
    PROVE  Sourced(p, d + 1, apply_segment(p, segments[d]))
<1> DEFINE s == segments[d]
<1>1. Len(segments) \in Nat /\ d \in Nat \ {0} /\ d \in 0 .. Len(segments) + 1
  BY DEF Listed
<1>2. rows(p) \in Nat /\ rows(p) >= 1 /\ nx \in Nat /\ nx >= 1
  BY ProcRows DEF Sized
<1>3. ASSUME NEW c \in Places(p), Watched(p, c), Hits(p, s, c)
      PROVE  Made(p, s, Along(s, c), source(p, s, Along(s, c))) = Value(p, s, c)
  <2> DEFINE a == Along(s, c)
  <2>1. inner(p, s.edge, a) \in Reals(p)
    <3>1. s.edge \in Edges
      OBVIOUS
    <3>2. /\ s.edge \in {"ymin", "ymax"} => a = c[1] /\ c[1] \in 0 .. nx - 1
          /\ s.edge \in {"xmin", "xmax"} => a = c[2] /\ c[2] \in 0 .. rows(p) - 1
      BY <1>3, <3>1, HitIs DEF Along, YEdges
    <3>3. CASE s.edge = "ymin"
      BY <1>2, <3>2, <3>3 DEF inner, Reals
    <3>4. CASE s.edge = "ymax"
      BY <1>2, <3>2, <3>4 DEF inner, Reals
    <3>5. CASE s.edge = "xmin"
      BY <1>2, <3>2, <3>5 DEF inner, Reals
    <3>6. CASE s.edge = "xmax"
      BY <1>2, <3>2, <3>6 DEF inner, Reals
    <3> QED BY <3>1, <3>3, <3>4, <3>5, <3>6 DEF Edges
  <2>2. source(p, s, a) = Cell(inner(p, s.edge, a)[1], j0(p) + inner(p, s.edge, a)[2])
    BY <1>1, <2>1, RealKept DEF source
  <2> QED BY <2>2 DEF Value
<1>4. \A c \in Places(p) : Watched(p, c) =>
          apply_segment(p, s)[c] = IF Hits(p, s, c) THEN Value(p, s, c) ELSE dv[p][c]
  BY <1>3, StampIs
<1> HIDE DEF s
<1> QED BY <1>1, <1>4, SourcedFurther DEF s

(* Only the last segment can run over the end of a canvas, if it is a wall    *)
(* that ends above the ghosts of the slab.                                    *)
LEMMA StraysIs ==
    ASSUME Sized, Listed, NEW p \in Procs, NEW d \in 1 .. Len(segments),
           segments[d].edge \in Edges, strays(p, segments[d]) # {}
    PROVE  /\ d = Len(segments) /\ ~ KeepToSlab
           /\ \E k \in whole(segments[d]) : k > rows(p) + 1
<1> DEFINE s == segments[d]
<1>1. /\ rows(p) \in Nat /\ nx \in Nat /\ nx >= 1 /\ j0(p) \in Nat /\ j1(p) \in Nat /\ ny \in Nat
      /\ j0(p) + rows(p) = j1(p)
  BY ProcRows DEF Sized
<1>2. PICK k \in Over(p, s) : ~ (ghosts(p, s.edge, k) \subseteq Places(p))
  BY DEF strays, Over
<1>3. ASSUME s.edge \in YEdges PROVE FALSE
  <2>1. k \in 0 .. nx - 1
    BY <1>2, <1>3 DEF Over, clipped, Listed
  <2>2. s.edge \in {"ymin", "ymax"}
    BY <1>3 DEF YEdges
  <2>3. /\ k \in -2 .. nx + 1 /\ -1 \in -2 .. rows(p) + 1 /\ -2 \in -2 .. rows(p) + 1
        /\ rows(p) \in -2 .. rows(p) + 1 /\ rows(p) + 1 \in -2 .. rows(p) + 1
    BY <1>1, <2>1
  <2>4. CASE s.edge = "ymin"
    <3>1. ghosts(p, s.edge, k) = {<<k, -1>>, <<k, -2>>}
      BY <2>4 DEF ghosts
    <3> QED BY <1>2, <2>3, <3>1 DEF Places
  <2>5. CASE s.edge = "ymax"
    <3>1. ghosts(p, s.edge, k) = {<<k, rows(p)>>, <<k, rows(p) + 1>>}
      BY <2>5 DEF ghosts
    <3> QED BY <1>2, <2>3, <3>1 DEF Places
  <2> QED BY <2>2, <2>4, <2>5
<1>4. s.edge \in {"xmin", "xmax"}
  BY <1>3 DEF Edges, YEdges
<1>5. k \in Int /\ (k \in -2 .. rows(p) + 1 => ghosts(p, s.edge, k) \subseteq Places(p))
  <2>1. k \in Int
    BY <1>1, <1>2 DEF Over, clipped, whole, Listed
  <2>2. CASE s.edge = "xmin"
    <3>1. ghosts(p, s.edge, k) = {<<-1, k>>, <<-2, k>>}
      BY <2>2 DEF ghosts
    <3>2. -1 \in -2 .. nx + 1 /\ -2 \in -2 .. nx + 1
      BY <1>1
    <3>3. ASSUME k \in -2 .. rows(p) + 1 PROVE <<-1, k>> \in Places(p) /\ <<-2, k>> \in Places(p)
      BY ONLY <3>2, <3>3 DEF Places
    <3> QED BY ONLY <2>1, <3>1, <3>3
  <2>3. CASE s.edge = "xmax"
    <3>1. ghosts(p, s.edge, k) = {<<nx, k>>, <<nx + 1, k>>}
      BY <2>3 DEF ghosts
    <3>2. nx \in -2 .. nx + 1 /\ nx + 1 \in -2 .. nx + 1
      BY <1>1
    <3>3. ASSUME k \in -2 .. rows(p) + 1 PROVE <<nx, k>> \in Places(p) /\ <<nx + 1, k>> \in Places(p)
      BY ONLY <3>2, <3>3 DEF Places
    <3> QED BY ONLY <2>1, <3>1, <3>3
  <2> QED BY <1>4, <2>1, <2>2, <2>3
<1>6. Unclipped(s)
  <2> SUFFICES ASSUME ~ Unclipped(s) PROVE FALSE
    OBVIOUS
  <2>1. PICK g \in j0(p) .. j1(p) - 1 : k = g - j0(p)
    BY <1>2, <1>3 DEF Over, clipped
  <2>2. k \in -2 .. rows(p) + 1
    BY <1>1, <2>1
  <2> QED BY <1>2, <1>5, <2>2
<1>7. d = Len(segments)
  BY <1>3, <1>6 DEF Listed, Unclipped
<1>8. ~ KeepToSlab
  BY <1>3, <1>6 DEF KeepToSlab
<1>9. k \in whole(s) /\ k \in 0 .. ny - 1
  BY <1>2, <1>3, <1>6 DEF Over, Listed
<1>10. k > rows(p) + 1
  BY <1>1, <1>2, <1>5, <1>9
<1> QED BY <1>7, <1>8, <1>9, <1>10

LEMMA InitPassInv == StageInit => Sized /\ PassInv
<1> SUFFICES ASSUME StageInit PROVE Sized /\ PassInv
  OBVIOUS
<1>1. /\ nx \in Nat \ {0} /\ ny \in Nat \ {0} /\ nranks \in Nat \ {0, 1}
      /\ ny >= 2 * nranks
      /\ segments \in Cases(nx, ny)
      /\ dv = [p \in Procs |-> Exchanged(p)]
      /\ done = [p \in Procs |-> 0]
  BY StampAssumption DEF StageInit, Init
<1>2. Sized
  BY <1>1 DEF Sized
<1>3. Listed
  <2>1. PICK ky \in YKinds, kx \in XKinds, split \in Splits(ny) :
            segments = Cover(nx, ny, ky, kx, split)
    BY <1>1 DEF Cases
  <2>2. /\ split.edge \in {"xmin", "xmax"} /\ split.other \in {"xmin", "xmax"}
        /\ split.lo \in Int /\ split.hi \in Int /\ split.lo >= 0 /\ split.hi <= ny - 1
        /\ split.lo # 0 => split.lo <= ny - 1
        /\ split.lo = 0 => split.hi + 1 >= 0
    BY <1>1, <2>1 DEF Splits
  <2> DEFINE fourth == IF split.lo = 0 THEN Segment(split.edge, "transmissive", split.hi + 1, ny - 1)
                                       ELSE Segment(split.edge, "transmissive", 0, split.lo - 1)
             first5 == Segment("ymin", ky, 0, nx - 1)
             second == Segment("ymax", ky, 0, nx - 1)
             third  == Segment(split.other, "transmissive", 0, ny - 1)
             fifth  == Segment(split.edge, kx, split.lo, split.hi)
  <2>3. segments = <<first5, second, third, fourth, fifth>>
    BY <2>1 DEF Cover
  <2>4. ASSUME NEW e, NEW t, NEW lo \in Int, NEW hi \in Int
        PROVE  LET s == Segment(e, t, lo, hi)
               IN  s.edge = e /\ s.type = t /\ s.start \in Int /\ s.end \in Int /\ whole(s) = lo .. hi
    <3>1. (lo + 2) - 2 = lo /\ (hi + 2) - 2 = hi
      OBVIOUS
    <3> QED BY <3>1 DEF Segment, whole
  <2> DEFINE Fits(s, last) == /\ s.start \in Int /\ s.end \in Int
                              /\ s.edge \in YEdges => whole(s) \subseteq 0 .. nx - 1
                              /\ s.edge \notin YEdges => whole(s) \subseteq 0 .. ny - 1
                              /\ s.edge \notin YEdges /\ ~ last => s.type = "transmissive"
  <2>5. Fits(first5, FALSE)
    BY <1>1, <2>4 DEF YEdges
  <2>6. Fits(second, FALSE)
    BY <1>1, <2>4 DEF YEdges
  <2>7. Fits(third, FALSE)
    BY <1>1, <2>2, <2>4 DEF YEdges
  <2>8. Fits(fourth, FALSE)
    <3>1. CASE split.lo = 0
      <4>1. fourth = Segment(split.edge, "transmissive", split.hi + 1, ny - 1)
        BY <3>1
      <4>2. split.hi + 1 \in Int /\ ny - 1 \in Int /\ (split.hi + 1) .. (ny - 1) \subseteq 0 .. ny - 1
        BY <1>1, <2>2, <3>1
      <4> HIDE DEF fourth
      <4> QED BY <2>2, <2>4, <4>1, <4>2 DEF YEdges
    <3>2. CASE split.lo # 0
      <4>1. fourth = Segment(split.edge, "transmissive", 0, split.lo - 1)
        BY <3>2
      <4>2. split.lo - 1 \in Int /\ 0 .. (split.lo - 1) \subseteq 0 .. ny - 1
        BY <1>1, <2>2, <3>2
      <4> HIDE DEF fourth
      <4> QED BY <2>2, <2>4, <4>1, <4>2 DEF YEdges
    <3> QED BY <3>1, <3>2
  <2>9. Fits(fifth, TRUE) /\ fifth.edge = split.edge
    <3>1. split.lo .. split.hi \subseteq 0 .. ny - 1
      BY <1>1, <2>2
    <3> QED BY <2>2, <2>4, <3>1 DEF YEdges
  <2> HIDE DEF first5, second, third, fourth, fifth, Fits
  <2>10. /\ Len(segments) = 5
         /\ segments[1] = first5 /\ segments[2] = second /\ segments[3] = third
         /\ segments[4] = fourth /\ segments[5] = fifth
    BY <2>3
  <2>11. \A k \in 1 .. 5 : Fits(segments[k], k = 5)
    <3> SUFFICES ASSUME NEW k \in 1 .. 5 PROVE Fits(segments[k], k = 5)
      OBVIOUS
    <3>1. CASE k = 1
      BY <2>5, <2>10, <3>1 DEF Fits
    <3>2. CASE k = 2
      BY <2>6, <2>10, <3>2 DEF Fits
    <3>3. CASE k = 3
      BY <2>7, <2>10, <3>3 DEF Fits
    <3>4. CASE k = 4
      BY <2>8, <2>10, <3>4 DEF Fits
    <3>5. CASE k = 5
      BY <2>9, <2>10, <3>5 DEF Fits
    <3> QED BY <3>1, <3>2, <3>3, <3>4, <3>5
  <2> QED BY <2>2, <2>9, <2>10, <2>11 DEF Listed, Fits
<1>4. \A p \in Procs : /\ DOMAIN dv[p] = Places(p) /\ done[p] = 0
                       /\ Sourced(p, done[p], dv[p])
  BY <1>1 DEF Exchanged, Sourced
<1>5. done \in [Procs -> -1 .. Len(segments) + 1]
  BY <1>1, <1>3 DEF Listed
<1> QED BY <1>1, <1>2, <1>3, <1>4, <1>5 DEF PassInv, Lost

(* All but the canvases and the progress is read from the grid and the list.   *)
LEMMA SameGrid ==
    ASSUME UNCHANGED <<nx, ny, nranks, segments>>, NEW q
    PROVE  /\ Places(q)' = Places(q) /\ rows(q)' = rows(q) /\ KeepToSlab' = KeepToSlab
           /\ \A x, y : Sourced(q, x, y)' <=> Sourced(q, x, y)
           /\ \A s : whole(s)' = whole(s)
<1>1. j0(q)' = j0(q) /\ j1(q)' = j1(q) /\ rows(q)' = rows(q)
  BY DEF j0, j1, rows, slab
<1>2. Places(q)' = Places(q) /\ KeepToSlab' = KeepToSlab /\ Exchanged(q)' = Exchanged(q)
  BY <1>1 DEF Places, KeepToSlab, Exchanged
<1>3. ASSUME NEW c PROVE Watched(q, c)' <=> Watched(q, c)
  BY <1>1, <1>2 DEF Watched
<1>4. ASSUME NEW s, NEW c PROVE Hits(q, s, c)' <=> Hits(q, s, c)
  BY <1>1 DEF Hits, skipped, owns_jmin, owns_jmax, Over, clipped, ghosts
<1>5. ASSUME NEW s, NEW c PROVE Value(q, s, c)' = Value(q, s, c)
  <2>1. \A k : wall(q, s.edge, k)' = wall(q, s.edge, k)
    BY <1>1, <1>2 DEF wall, si, sj, metric
  <2>2. \A k : inner(q, s.edge, k)' = inner(q, s.edge, k)
    BY <1>1 DEF inner
  <2> QED BY <1>1, <2>1, <2>2 DEF Value, Made
<1> QED BY <1>1, <1>2, <1>3, <1>4, <1>5 DEF Sourced, whole

(* What follows when a step moves one process on.                             *)
LEMMA OneProcess ==
    ASSUME IInv, PassInv, UNCHANGED <<nx, ny, nranks, segments>>, NEW p \in Procs, NEW canvas, NEW d,
           dv' = [dv EXCEPT ![p] = canvas], done' = [done EXCEPT ![p] = d],
           d \in 0 .. Len(segments) + 1, DOMAIN canvas = Places(p), Sourced(p, d, canvas)
    PROVE  PassInv'
<1>1. \A q \in Procs : /\ dv'[q] = IF q = p THEN canvas ELSE dv[q]
                       /\ done'[q] = IF q = p THEN d ELSE done[q]
  BY DEF IInv, PassInv
<1>2. Procs' = Procs /\ Len(segments) \in Nat
  BY DEF Procs, Ranks, PassInv, Listed
<1>3. done' \in [Procs -> -1 .. Len(segments) + 1]
  BY <1>2 DEF PassInv
<1>4. Listed' /\ (ny >= 2 * nranks)'
  BY DEF PassInv, Listed, whole
<1>5. ASSUME NEW q \in Procs
      PROVE  /\ DOMAIN dv'[q] = Places(q)
             /\ done'[q] # Lost => Sourced(q, done'[q], dv'[q])
             /\ done'[q] = Lost => \E k \in whole(segments[Len(segments)]) : k > rows(q) + 1
             /\ done'[q] = Lost => ~ KeepToSlab
  <2>1. d # Lost
    BY <1>2 DEF Lost
  <2>2. CASE q = p
    BY <1>1, <2>1, <2>2
  <2>3. CASE q # p
    BY <1>1, <2>3 DEF PassInv
  <2> QED BY <2>2, <2>3
<1> QED BY <1>1, <1>2, <1>3, <1>4, <1>5, SameGrid DEF PassInv

LEMMA NextPassInv == Sized /\ IInv /\ PassInv /\ [Next]_vars => Sized' /\ PassInv'
<1> SUFFICES ASSUME Sized, IInv, PassInv, [Next]_vars PROVE Sized' /\ PassInv'
  OBVIOUS
<1>0. /\ \A k \in 1 .. Len(segments) : segments[k].edge \in Edges /\ segments[k].type \in AllKinds
      /\ Len(segments) \in Nat \ {0} /\ Listed
  BY DEF IInv, PassInv, Listed
<1>1. CASE UNCHANGED svars
  <2>1. UNCHANGED <<nx, ny, nranks, segments>> /\ dv' = dv /\ done' = done
    BY <1>1 DEF svars
  <2>2. Procs' = Procs /\ Listed' /\ Sized'
    BY <2>1 DEF Procs, Ranks, Sized, PassInv, Listed, whole
  <2> QED BY <2>1, <2>2, SameGrid DEF PassInv
<1>2. ASSUME UNCHANGED <<nx, ny, nranks, segments>> PROVE Sized'
  BY <1>2 DEF Sized
<1>3. ASSUME NEW p \in Procs, update_corners(p) PROVE PassInv'
  <2> DEFINE canvas == [c \in Places(p) |-> IF c \in corners(p) THEN Free ELSE dv[p][c]]
  <2>1. /\ dv' = [dv EXCEPT ![p] = canvas] /\ UNCHANGED <<nx, ny, nranks, segments>>
        /\ done[p] = 0 /\ done' = [done EXCEPT ![p] = 1]
    BY <1>3 DEF update_corners
  <2>2. Sourced(p, 0, dv[p])
    BY <2>1 DEF PassInv, Lost
  <2>3. Sourced(p, 1, canvas)
    <3> SUFFICES ASSUME NEW c \in Places(p), Watched(p, c)
                 PROVE  canvas[c] = Exchanged(p)[c]
      BY DEF Sourced
    <3>1. dv[p][c] = Exchanged(p)[c]
      BY <2>2 DEF Sourced
    <3>2. c \in corners(p) => Exchanged(p)[c] = Free
      <4>1. nx \in Nat
        BY DEF Sized
      <4>2. c \in corners(p) => c[1] \notin 0 .. nx - 1
        BY <4>1 DEF corners
      <4> QED BY <4>2 DEF Exchanged
    <3> QED BY <3>1, <3>2
  <2>4. DOMAIN canvas = Places(p) /\ 1 \in 0 .. Len(segments) + 1
    BY <1>0
  <2> HIDE DEF canvas
  <2> QED BY <2>1, <2>3, <2>4, OneProcess
<1>4. ASSUME NEW p \in Procs, SkipSegment(p) PROVE PassInv'
  <2>1. /\ done[p] \in 1 .. Len(segments) /\ skipped(p, segments[done[p]])
        /\ done' = [done EXCEPT ![p] = @ + 1]
        /\ UNCHANGED <<nx, ny, nranks, segments, dv>>
    BY <1>4 DEF SkipSegment, AtSegment
  <2>2. dv' = [dv EXCEPT ![p] = dv[p]] /\ done' = [done EXCEPT ![p] = done[p] + 1]
    BY <2>1 DEF IInv, PassInv
  <2>3. Sourced(p, done[p], dv[p]) /\ DOMAIN dv[p] = Places(p)
    BY <2>1 DEF PassInv, Lost
  <2>4. \A c : ~ Hits(p, segments[done[p]], c)
    BY <2>1 DEF Hits
  <2>5. done[p] \in Nat \ {0} /\ done[p] + 1 \in 0 .. Len(segments) + 1
    BY <1>0, <2>1
  <2>6. Sourced(p, done[p] + 1, dv[p])
    BY <2>3, <2>4, <2>5, SourcedFurther
  <2> QED BY <2>1, <2>2, <2>3, <2>5, <2>6, OneProcess
<1>5. ASSUME NEW p \in Procs, ApplySegment(p) PROVE PassInv'
  <2> DEFINE canvas == apply_segment(p, segments[done[p]])
  <2>1. /\ done[p] \in 1 .. Len(segments) /\ ~ skipped(p, segments[done[p]])
        /\ dv' = [dv EXCEPT ![p] = canvas]
        /\ done' = [done EXCEPT ![p] = @ + 1]
        /\ UNCHANGED <<nx, ny, nranks, segments>>
    BY <1>5 DEF ApplySegment, AtSegment
  <2>2. done' = [done EXCEPT ![p] = done[p] + 1]
    BY <2>1 DEF PassInv
  <2>3. Sourced(p, done[p], dv[p])
    BY <2>1 DEF PassInv, Lost
  <2>4. Sourced(p, done[p] + 1, canvas)
    BY <1>0, <2>1, <2>3, KernelFurther
  <2>5. DOMAIN canvas = Places(p)
    BY <1>0, <2>1, KernelMakes DEF stamp
  <2>6. done[p] + 1 \in 0 .. Len(segments) + 1
    BY <1>0, <2>1
  <2> HIDE DEF canvas
  <2> QED BY <2>1, <2>2, <2>4, <2>5, <2>6, OneProcess
<1>6. ASSUME NEW p \in Procs, Stray(p) PROVE PassInv'
  <2>1. /\ done[p] \in 1 .. Len(segments) /\ strays(p, segments[done[p]]) # {}
        /\ done' = [done EXCEPT ![p] = Lost]
        /\ UNCHANGED <<nx, ny, nranks, segments, dv>>
    BY <1>6 DEF Stray, AtSegment
  <2>2. ~ KeepToSlab /\ \E k \in whole(segments[Len(segments)]) : k > rows(p) + 1
    BY <1>0, <2>1, StraysIs
  <2>3. \A q \in Procs : done'[q] = IF q = p THEN Lost ELSE done[q]
    BY <2>1 DEF PassInv
  <2>4. done' \in [Procs -> -1 .. Len(segments) + 1]
    BY <1>0, <2>1 DEF PassInv, Lost
  <2>5. Procs' = Procs /\ Listed'
    BY <2>1 DEF Procs, Ranks, PassInv, Listed, whole
  <2> QED BY <2>1, <2>2, <2>3, <2>4, <2>5, SameGrid DEF PassInv
<1>7. CASE Pass
  <2>1. UNCHANGED <<nx, ny, nranks, segments>>
    BY <1>7 DEF Pass, update_corners, SkipSegment, ApplySegment, Stray
  <2> QED BY <1>2, <1>3, <1>4, <1>5, <1>6, <1>7, <2>1 DEF Pass
<1>8. CASE BoundaryPass
  BY <1>7, <1>8 DEF BoundaryPass
<1>9. CASE TimeStep
  BY <1>1, <1>9 DEF TimeStep
<1>10. ASSUME NEW s, NEW e, ComputeFluxes(s, e) PROVE Sized' /\ PassInv'
  BY <1>1, <1>10 DEF ComputeFluxes
<1>11. CASE UNCHANGED vars
  BY <1>1, <1>11 DEF vars
<1> QED BY <1>8, <1>9, <1>10, <1>11 DEF Next

------------------------------------------------------------------------------
(* A slab beside one process.                                                 *)
LEMMA SerialRows == Sized => /\ Serial \in Procs /\ j0(Serial) = 0 /\ rows(Serial) = ny
                             /\ owns_jmin(Serial) /\ owns_jmax(Serial)
<1> SUFFICES ASSUME Sized
             PROVE  /\ Serial \in Procs /\ j0(Serial) = 0 /\ rows(Serial) = ny
                    /\ owns_jmin(Serial) /\ owns_jmax(Serial)
  OBVIOUS
<1>1. Serial \in Procs /\ owns_jmin(Serial) /\ owns_jmax(Serial)
  BY DEF Procs, owns_jmin, owns_jmax, mpi_mode
<1>2. /\ j0(Serial) \in Nat /\ rows(Serial) \in Nat /\ j0(Serial) + rows(Serial) = j1(Serial)
      /\ j0(Serial) = 0 /\ j1(Serial) = ny
  BY <1>1, ProcRows
<1> QED BY <1>1, <1>2

LEMMA GlobalPlace ==
    ASSUME Sized, NEW p \in Ranks, NEW c \in Places(p)
    PROVE  LET g == Global(p, c)
           IN  /\ c[1] \in Int /\ c[2] \in Int /\ c = <<c[1], c[2]>>
               /\ g \in Places(Serial) /\ g[1] = c[1] /\ g[2] = j0(p) + c[2] /\ g[2] \in Int
<1>1. /\ rows(p) \in Nat /\ j0(p) \in Nat /\ j0(p) + rows(p) <= ny /\ rows(Serial) = ny
      /\ nx \in Nat /\ ny \in Nat
  <2>1. p \in Procs
    BY DEF Procs
  <2> QED BY <2>1, ProcRows, SerialRows DEF Sized
<1>2. c[1] \in -2 .. nx + 1 /\ c[2] \in -2 .. rows(p) + 1 /\ c = <<c[1], c[2]>>
  BY <1>1 DEF Places
<1>3. j0(p) + c[2] \in -2 .. ny + 1
  BY <1>1, <1>2
<1>4. Global(p, c) \in Places(Serial)
  BY <1>1, <1>2, <1>3 DEF Global, Places
<1> QED BY <1>1, <1>2, <1>3, <1>4 DEF Global

(* The rows beyond the grid are those of the slabs at its ends.               *)
LEMMA EndRows ==
    ASSUME NEW o \in Nat, NEW h \in Nat, NEW y \in Nat, o + h <= y, NEW j \in -2 .. h + 1
    PROVE  /\ o = 0 => (j \in {-1, -2} <=> o + j \in {-1, -2})
           /\ o >= 2 => o + j \notin {-1, -2}
           /\ o + h = y => (j \in {h, h + 1} <=> o + j \in {y, y + 1})
           /\ o + h <= y - 2 => o + j \notin {y, y + 1}
           /\ o + j \in -2 .. y + 1
OBVIOUS

LEMMA SlabPlace ==
    ASSUME Sized, NEW p \in Ranks, NEW c \in Places(p)
    PROVE  /\ c[1] \in -2 .. nx + 1 /\ c[2] \in -2 .. rows(p) + 1
           /\ owns_jmin(p) /\ c[2] \in {-1, -2} <=> j0(p) + c[2] \in {-1, -2}
           /\ owns_jmax(p) /\ c[2] \in {rows(p), rows(p) + 1} <=> j0(p) + c[2] \in {ny, ny + 1}
<1>1. p \in Procs
  BY DEF Procs
<1>2. /\ rows(p) \in Nat /\ j0(p) \in Nat /\ j0(p) + rows(p) = j1(p)
      /\ j1(p) <= ny /\ ny \in Nat
      /\ owns_jmin(p) => j0(p) = 0
      /\ owns_jmax(p) => j1(p) = ny
      /\ ~ owns_jmin(p) => j0(p) >= 2
      /\ ~ owns_jmax(p) => j1(p) <= ny - 2
  BY <1>1, ProcRows DEF Sized
<1>3. c[1] \in -2 .. nx + 1 /\ c[2] \in -2 .. rows(p) + 1
  BY DEF Places
<1>4. j0(p) + rows(p) <= ny
  BY <1>2
<1>5. owns_jmin(p) /\ c[2] \in {-1, -2} <=> j0(p) + c[2] \in {-1, -2}
  <2>1. CASE owns_jmin(p)
    BY <1>2, <1>3, <1>4, <2>1, EndRows
  <2>2. CASE ~ owns_jmin(p)
    BY <1>2, <1>3, <1>4, <2>2, EndRows
  <2> QED BY <2>1, <2>2
<1>6. owns_jmax(p) /\ c[2] \in {rows(p), rows(p) + 1} <=> j0(p) + c[2] \in {ny, ny + 1}
  <2>1. CASE owns_jmax(p)
    BY <1>2, <1>3, <1>4, <2>1, EndRows
  <2>2. CASE ~ owns_jmax(p)
    BY <1>2, <1>3, <1>4, <2>2, EndRows
  <2> QED BY <2>1, <2>2
<1> QED BY <1>3, <1>5, <1>6

(* The vectors of the faces at the edges of the grid.                         *)
LEMMA EdgeVectors ==
    ASSUME Sized, NEW p \in Procs
    PROVE  /\ \A i \in 0 .. nx - 1 :
                  /\ sj(p, i, 0) = <<"sj", i, j0(p)>>
                  /\ sj(p, i, rows(p)) = <<"sj", i, j0(p) + (rows(p) - 1)>>
           /\ \A i \in {0, nx} : \A j \in 0 .. rows(p) - 1 :
                  si(p, i, j) = <<"si", Clamp(i, nx - 1), j0(p) + j>>
<1>1. rows(p) \in Nat /\ rows(p) >= 1 /\ j0(p) \in Nat /\ nx \in Nat /\ nx >= 1
  BY ProcRows DEF Sized
<1>2. ASSUME NEW i \in 0 .. nx, NEW j \in 0 .. rows(p)
      PROVE  <<i, j>> \in Places(p)
  BY <1>1 DEF Places
<1>3. \A i \in 0 .. nx - 1 : Clamp(i, nx - 1) = i
  BY <1>1 DEF Clamp
<1>4. \A j \in 0 .. rows(p) - 1 : Clamp(j, rows(p) - 1) = j
  BY <1>1 DEF Clamp
<1>5. Clamp(rows(p), rows(p) - 1) = rows(p) - 1
  BY <1>1 DEF Clamp
<1>6. ASSUME NEW i \in 0 .. nx - 1
      PROVE  /\ sj(p, i, 0) = <<"sj", i, j0(p)>>
             /\ sj(p, i, rows(p)) = <<"sj", i, j0(p) + (rows(p) - 1)>>
  <2>1. <<i, 0>> \in Places(p) /\ <<i, rows(p)>> \in Places(p)
    BY <1>1, <1>2
  <2>2. Clamp(0, rows(p) - 1) = 0 /\ j0(p) + 0 = j0(p) /\ Clamp(i, nx - 1) = i
    BY <1>1, <1>3, <1>4
  <2> QED BY <1>5, <2>1, <2>2 DEF sj, metric
<1>7. ASSUME NEW i \in {0, nx}, NEW j \in 0 .. rows(p) - 1
      PROVE  si(p, i, j) = <<"si", Clamp(i, nx - 1), j0(p) + j>>
  <2>1. <<i, j>> \in Places(p)
    BY <1>1, <1>2
  <2> QED BY <1>4, <2>1 DEF si, metric
<1> QED BY <1>6, <1>7

(* What clipping does to the rows of a segment.                               *)
LEMMA ClippedRows ==
    ASSUME NEW o \in Nat, NEW e \in Nat, NEW W, W \subseteq Nat, NEW j \in 0 .. e - o - 1
    PROVE  j \in {y - o : y \in W \cap (o .. e - 1)} <=> o + j \in W
<1>1. ASSUME o + j \in W PROVE j \in {y - o : y \in W \cap (o .. e - 1)}
  <2>1. o + j \in W \cap (o .. e - 1) /\ j = (o + j) - o
    BY <1>1
  <2> QED BY <2>1
<1>2. ASSUME j \in {y - o : y \in W \cap (o .. e - 1)} PROVE o + j \in W
  <2>1. PICK y \in W \cap (o .. e - 1) : j = y - o
    BY <1>2
  <2>2. o + j = y
    BY <2>1
  <2> QED BY <2>1, <2>2
<1> QED BY <1>1, <1>2

(* A segment that keeps to the slab hits the same place with the same value,  *)
(* at the edges of the grid.                                                  *)
LEMMA SameHits ==
    ASSUME Sized, Listed, NEW p \in Ranks, NEW k \in 1 .. Len(segments),
           segments[k].edge \in Edges,
           NEW c \in Places(p), c[1] \in 0 .. nx - 1 \/ c[2] \in 0 .. rows(p) - 1,
           segments[k].edge \in YEdges \/ ~ Unclipped(segments[k])
               \/ (c[2] \in whole(segments[k]) <=> j0(p) + c[2] \in whole(segments[k]))
    PROVE  /\ Hits(p, segments[k], c) <=> Hits(Serial, segments[k], Global(p, c))
           /\ Hits(p, segments[k], c) =>
                  Value(p, segments[k], c) = Value(Serial, segments[k], Global(p, c))
<1> DEFINE s == segments[k]
           g == Global(p, c)
<1>p. p \in Procs
  BY DEF Procs
<1>1. /\ rows(p) \in Nat /\ rows(p) >= 1 /\ j0(p) \in Nat /\ j1(p) \in Nat /\ j0(p) + rows(p) = j1(p)
      /\ j1(p) <= ny /\ nx \in Nat /\ nx >= 1 /\ ny \in Nat
      /\ owns_jmin(p) => j0(p) = 0
      /\ owns_jmax(p) => j1(p) = ny
  BY <1>p, ProcRows DEF Sized
<1>2. /\ Serial \in Procs /\ j0(Serial) = 0 /\ rows(Serial) = ny
      /\ owns_jmin(Serial) /\ owns_jmax(Serial) /\ j1(Serial) = ny
  BY SerialRows, ProcRows
<1>3. /\ c = <<c[1], c[2]>> /\ g = <<c[1], j0(p) + c[2]>> /\ g[1] = c[1] /\ g[2] = j0(p) + c[2]
  BY GlobalPlace DEF Global
<1> HIDE DEF g
<1>5. CASE s.edge = "ymin"
  <2>1. \A q, a : Along(s, a) = a[1] /\ Over(q, s) = whole(s)
                  /\ (skipped(q, s) <=> ~ owns_jmin(q))
    BY <1>5 DEF Along, YEdges, Over, clipped, skipped
  <2>2. \A q, i : /\ ghosts(q, s.edge, i) = {<<i, -1>>, <<i, -2>>}
                  /\ inner(q, s.edge, i) = <<i, 0>>
                  /\ wall(q, s.edge, i) = sj(q, i, 0)
    BY <1>5 DEF ghosts, inner, wall
  <2>3. Hits(p, s, c) <=> owns_jmin(p) /\ c[1] \in whole(s) /\ c[2] \in {-1, -2}
    BY <1>3, <2>1, <2>2 DEF Hits
  <2>4. Hits(Serial, s, g) <=> c[1] \in whole(s) /\ j0(p) + c[2] \in {-1, -2}
    BY <1>2, <1>3, <2>1, <2>2 DEF Hits
  <2>5. Hits(p, s, c) <=> Hits(Serial, s, g)
    BY <2>3, <2>4, SlabPlace
  <2>6. ASSUME Hits(p, s, c) PROVE Value(p, s, c) = Value(Serial, s, g)
    <3>1. j0(p) = j0(Serial)
      BY <1>1, <1>2, <2>3, <2>6
    <3>2. c[1] \in 0 .. nx - 1
      BY <1>5, <2>3, <2>6 DEF Listed, YEdges
    <3>3. sj(p, c[1], 0) = sj(Serial, c[1], 0)
      BY <1>p, <1>2, <3>1, <3>2, EdgeVectors
    <3> QED BY <1>3, <2>1, <2>2, <3>1, <3>3 DEF Value, Made
  <2> QED BY <2>5, <2>6 DEF g
<1>6. CASE s.edge = "ymax"
  <2>1. \A q, a : Along(s, a) = a[1] /\ Over(q, s) = whole(s)
                  /\ (skipped(q, s) <=> ~ owns_jmax(q))
    BY <1>6 DEF Along, YEdges, Over, clipped, skipped
  <2>2. \A q, i : /\ ghosts(q, s.edge, i) = {<<i, rows(q)>>, <<i, rows(q) + 1>>}
                  /\ inner(q, s.edge, i) = <<i, rows(q) - 1>>
                  /\ wall(q, s.edge, i) = sj(q, i, rows(q))
    BY <1>6 DEF ghosts, inner, wall
  <2>3. Hits(p, s, c) <=> owns_jmax(p) /\ c[1] \in whole(s) /\ c[2] \in {rows(p), rows(p) + 1}
    BY <1>3, <2>1, <2>2 DEF Hits
  <2>4. Hits(Serial, s, g) <=> c[1] \in whole(s) /\ j0(p) + c[2] \in {ny, ny + 1}
    BY <1>2, <1>3, <2>1, <2>2 DEF Hits
  <2>5. Hits(p, s, c) <=> Hits(Serial, s, g)
    BY <2>3, <2>4, SlabPlace
  <2>6. ASSUME Hits(p, s, c) PROVE Value(p, s, c) = Value(Serial, s, g)
    <3>1. j0(p) + (rows(p) - 1) = j0(Serial) + (rows(Serial) - 1)
      <4>1. j1(p) = ny
        BY <1>1, <2>3, <2>6
      <4>2. \A o \in Nat, n \in Nat : o + (n - 1) = (o + n) - 1
        OBVIOUS
      <4>3. j0(p) + (rows(p) - 1) = ny - 1 /\ 0 + (ny - 1) = ny - 1
        BY ONLY <1>1, <4>1, <4>2
      <4> QED BY <1>2, <4>3
    <3>2. c[1] \in 0 .. nx - 1
      BY <1>6, <2>3, <2>6 DEF Listed, YEdges
    <3>3. sj(p, c[1], rows(p)) = sj(Serial, c[1], rows(Serial))
      BY <1>p, <1>2, <3>1, <3>2, EdgeVectors
    <3> QED BY <1>3, <2>1, <2>2, <3>1, <3>3 DEF Value, Made
  <2> QED BY <2>5, <2>6 DEF g
<1>7. CASE s.edge \in {"xmin", "xmax"}
  <2> DEFINE i0 == IF s.edge = "xmin" THEN 0 ELSE nx - 1
             f0 == IF s.edge = "xmin" THEN 0 ELSE nx
             column == IF s.edge = "xmin" THEN {-1, -2} ELSE {nx, nx + 1}
  <2>1. s.edge \notin YEdges /\ (\A a : Along(s, a) = a[2]) /\ \A q : ~ skipped(q, s)
    BY <1>7 DEF Along, YEdges, skipped
  <2>2. \A q, j : /\ ghosts(q, s.edge, j) = {<<i, j>> : i \in column}
                  /\ inner(q, s.edge, j) = <<i0, j>>
                  /\ wall(q, s.edge, j) = si(q, f0, j)
    BY <1>7 DEF ghosts, inner, wall
  <2>3. Hits(p, s, c) <=> c[1] \in column /\ c[2] \in Over(p, s)
    BY <1>3, <2>1, <2>2 DEF Hits
  <2>4. Hits(Serial, s, g) <=> c[1] \in column /\ j0(p) + c[2] \in Over(Serial, s)
    BY <1>3, <2>1, <2>2 DEF Hits
  <2>5. c[1] \in column => c[2] \in 0 .. rows(p) - 1
    <3>1. \A i \in column : i \notin 0 .. nx - 1
      BY <1>1
    <3> HIDE DEF column
    <3> QED BY <3>1
  <2>6. whole(s) \subseteq 0 .. ny - 1 /\ whole(s) \subseteq Nat
    BY <2>1 DEF Listed
  <2>f. f0 \in {0, nx}
    OBVIOUS
  <2> HIDE DEF column, i0, f0
  <2>7. Hits(p, s, c) <=> Hits(Serial, s, g)
    <3> SUFFICES ASSUME c[1] \in column PROVE c[2] \in Over(p, s) <=> j0(p) + c[2] \in Over(Serial, s)
      BY <2>3, <2>4
    <3>1. c[2] \in 0 .. j1(p) - j0(p) - 1 /\ j0(p) + c[2] \in 0 .. ny - 0 - 1
      <4>1. c[2] \in 0 .. rows(p) - 1
        BY <2>5
      <4>2. \A o \in Nat, n \in Nat : (o + n) - o - 1 = n - 1
        OBVIOUS
      <4>3. j1(p) - j0(p) - 1 = rows(p) - 1 /\ ny - 0 - 1 = ny - 1
        BY ONLY <1>1, <4>2
      <4>4. j0(p) + c[2] \in 0 .. ny - 1
        BY ONLY <1>1, <4>1, RowPlace
      <4> QED BY ONLY <4>1, <4>3, <4>4
    <3>2. CASE Unclipped(s)
      BY <2>1, <3>2 DEF Over
    <3>3. CASE ~ Unclipped(s)
      <4>1. Over(p, s) = {y - j0(p) : y \in whole(s) \cap (j0(p) .. j1(p) - 1)}
        BY <2>1, <3>3 DEF Over, clipped
      <4>2. Over(Serial, s) = {y - 0 : y \in whole(s) \cap (0 .. ny - 1)}
        BY <1>2, <2>1, <3>3 DEF Over, clipped
      <4>3. c[2] \in Over(p, s) <=> j0(p) + c[2] \in whole(s)
        BY <1>1, <2>6, <3>1, <4>1, ClippedRows
      <4>4. j0(p) + c[2] \in Over(Serial, s) <=> 0 + (j0(p) + c[2]) \in whole(s)
        BY <1>1, <2>6, <3>1, <4>2, ClippedRows
      <4>5. 0 + (j0(p) + c[2]) = j0(p) + c[2]
        BY <3>1
      <4> QED BY <4>3, <4>4, <4>5
    <3> QED BY <3>2, <3>3
  <2>8. ASSUME Hits(p, s, c) PROVE Value(p, s, c) = Value(Serial, s, g)
    <3>1. c[2] \in 0 .. rows(p) - 1
      BY <2>3, <2>5, <2>8
    <3>2. j0(p) + c[2] \in 0 .. rows(Serial) - 1 /\ j0(Serial) + (j0(p) + c[2]) = j0(p) + c[2]
      BY <1>1, <1>2, <3>1
    <3>3. si(p, f0, c[2]) = si(Serial, f0, j0(p) + c[2])
      BY <1>p, <1>2, <2>f, <3>1, <3>2, EdgeVectors
    <3> QED BY <1>3, <2>1, <2>2, <3>2, <3>3 DEF Value, Made
  <2> QED BY <2>7, <2>8 DEF g
<1> QED BY <1>5, <1>6, <1>7 DEF Edges

(* The same hits leave the same in both.                                      *)
LEMMA SameCanvas ==
    ASSUME Sized, NEW p \in Ranks, NEW c \in Places(p), NEW d \in Nat, NEW mine, NEW whole_grid,
           Sourced(p, d, mine), Sourced(Serial, d, whole_grid),
           c[1] \in 0 .. nx - 1 \/ c[2] \in 0 .. rows(p) - 1,
           \A m \in 1 .. d - 1 :
               /\ Hits(p, segments[m], c) <=> Hits(Serial, segments[m], Global(p, c))
               /\ Hits(p, segments[m], c) =>
                      Value(p, segments[m], c) = Value(Serial, segments[m], Global(p, c))
    PROVE  mine[c] = whole_grid[Global(p, c)]
<1> DEFINE g == Global(p, c)
<1>1. g \in Places(Serial) /\ g[1] = c[1] /\ g[2] = j0(p) + c[2] /\ g[2] \in Int
  BY GlobalPlace
<1>2. Serial \in Procs /\ j0(Serial) = 0 /\ rows(Serial) = ny
  BY SerialRows
<1>3. Watched(p, c) /\ Watched(Serial, g)
  <2>1. p \in Procs
    BY DEF Procs
  <2>2. /\ rows(p) \in Nat /\ j0(p) \in Nat /\ j0(p) + rows(p) <= ny /\ ny \in Nat
    BY <2>1, ProcRows DEF Sized
  <2>3. c[2] \in 0 .. rows(p) - 1 => j0(p) + c[2] \in 0 .. ny - 1
    BY <2>2
  <2> QED BY <1>1, <1>2, <2>3 DEF Watched
<1>4. Exchanged(p)[c] = Exchanged(Serial)[g]
  <2>1. 0 + g[2] = g[2]
    BY <1>1
  <2> QED BY <1>1, <1>2, <2>1 DEF Exchanged
<1> HIDE DEF g
<1>5. CASE /\ \A m \in 1 .. d - 1 : ~ Hits(p, segments[m], c)
           /\ mine[c] = Exchanged(p)[c]
  <2>1. \A m \in 1 .. d - 1 : ~ Hits(Serial, segments[m], g)
    BY <1>5 DEF g
  <2>2. whole_grid[g] = Exchanged(Serial)[g]
    BY <1>1, <1>3, <2>1 DEF Sourced
  <2> QED BY <1>4, <1>5, <2>2 DEF g
<1>6. ASSUME NEW k \in 1 .. d - 1, Hits(p, segments[k], c),
             \A m \in k + 1 .. d - 1 : ~ Hits(p, segments[m], c),
             mine[c] = Value(p, segments[k], c)
      PROVE  mine[c] = whole_grid[g]
  <2>1. Hits(Serial, segments[k], g) /\ Value(p, segments[k], c) = Value(Serial, segments[k], g)
    BY <1>6 DEF g
  <2>2. PICK l \in 1 .. d - 1 :
            /\ Hits(Serial, segments[l], g)
            /\ \A m \in l + 1 .. d - 1 : ~ Hits(Serial, segments[m], g)
            /\ whole_grid[g] = Value(Serial, segments[l], g)
    BY <1>1, <1>3, <2>1 DEF Sourced
  <2>3. Hits(p, segments[l], c)
    BY <2>2 DEF g
  <2>4. l <= k
    <3>1. l > k => l \in k + 1 .. d - 1
      OBVIOUS
    <3> QED BY <1>6, <2>3, <3>1
  <2>5. k <= l
    <3>1. k > l => k \in l + 1 .. d - 1
      OBVIOUS
    <3> QED BY <2>1, <2>2, <3>1
  <2>6. k = l
    BY <2>4, <2>5
  <2> QED BY <1>6, <2>1, <2>2, <2>6
<1> QED BY <1>3, <1>5, <1>6 DEF Sourced, g

(* The ghosts in ghost rows and columns at once keep the freestream.          *)
LEMMA CornerFree ==
    ASSUME Sized, Listed, KeepToSlab, NEW p \in Procs, NEW d \in 0 .. Len(segments) + 1, NEW canvas,
           \A k \in 1 .. Len(segments) : segments[k].edge \in Edges,
           Sourced(p, d, canvas), NEW c \in Places(p),
           c[1] \notin 0 .. nx - 1, c[2] \notin 0 .. rows(p) - 1
    PROVE  canvas[c] = Free
<1>1. Watched(p, c) /\ Len(segments) \in Nat
  BY DEF Watched, Listed
<1>2. ASSUME NEW k \in 1 .. Len(segments) PROVE ~ Hits(p, segments[k], c)
  <2> SUFFICES ASSUME Hits(p, segments[k], c) PROVE FALSE
    OBVIOUS
  <2>1. segments[k].edge \in Edges
    OBVIOUS
  <2>2. segments[k].edge # "ymin" /\ segments[k].edge # "ymax"
    BY <2>1, HitIs
  <2>3. segments[k].edge \in YEdges
    BY <1>1, <2>1, HitIs
  <2> QED BY <2>2, <2>3 DEF YEdges
<1>3. \A k \in 1 .. d - 1 : k \in 1 .. Len(segments)
  BY <1>1
<1>4. canvas[c] = Exchanged(p)[c]
  BY <1>1, <1>2, <1>3 DEF Sourced
<1> QED BY <1>4 DEF Exchanged

LEMMA StampedAlike == Sized /\ IInv /\ PassInv => StampedAsSerial
<1> SUFFICES ASSUME Sized, IInv, PassInv, NEW p \in Ranks, Stamped(p), Stamped(Serial), KeepToSlab,
                    NEW c \in Places(p)
             PROVE  \/ dv[p][c] = dv[Serial][Global(p, c)]
                    \/ /\ c[1] \notin 0 .. nx - 1 /\ c[2] \notin 0 .. rows(p) - 1
                       /\ Global(p, c)[2] \in 0 .. ny - 1
                       /\ dv[p][c] = Free
  BY DEF StampedAsSerial
<1> DEFINE d == Len(segments) + 1
           g == Global(p, c)
<1>1. /\ Listed /\ p \in Procs /\ Serial \in Procs /\ d \in Nat /\ d \in 0 .. Len(segments) + 1
      /\ done[p] = d /\ done[Serial] = d /\ d # Lost /\ d - 1 = Len(segments)
      /\ \A k \in 1 .. Len(segments) : segments[k].edge \in Edges
  BY DEF PassInv, Listed, Procs, Stamped, Lost, IInv
<1>2. Sourced(p, d, dv[p]) /\ Sourced(Serial, d, dv[Serial])
  BY <1>1 DEF PassInv
<1>3. \A k \in 1 .. d - 1 : segments[k].edge \in YEdges \/ ~ Unclipped(segments[k])
  BY <1>1 DEF KeepToSlab
<1>4. g \in Places(Serial) /\ g[1] = c[1] /\ g[2] = j0(p) + c[2] /\ rows(Serial) = ny
  BY GlobalPlace, SerialRows
<1> HIDE DEF d, g
<1>5. CASE c[1] \in 0 .. nx - 1 \/ c[2] \in 0 .. rows(p) - 1
  <2>1. \A k \in 1 .. d - 1 :
            /\ Hits(p, segments[k], c) <=> Hits(Serial, segments[k], Global(p, c))
            /\ Hits(p, segments[k], c) =>
                   Value(p, segments[k], c) = Value(Serial, segments[k], Global(p, c))
    BY <1>1, <1>3, <1>5, SameHits
  <2> QED BY <1>1, <1>2, <1>5, <2>1, SameCanvas
<1>6. CASE c[1] \notin 0 .. nx - 1 /\ c[2] \notin 0 .. rows(p) - 1
  <2>1. dv[p][c] = Free
    BY <1>1, <1>2, <1>6, CornerFree
  <2>2. CASE g[2] \in 0 .. ny - 1
    BY <1>6, <2>1, <2>2 DEF g
  <2>3. CASE g[2] \notin 0 .. ny - 1
    <3>1. dv[Serial][g] = Free
      BY <1>1, <1>2, <1>4, <1>6, <2>3, CornerFree
    <3> QED BY <2>1, <3>1 DEF g
  <2> QED BY <2>2, <2>3
<1> QED BY <1>5, <1>6

(* In every cell of its canvas a slab ends the boundary pass with what one    *)
(* process has there, on every grid and cut, for the lists of segments of     *)
(* Init whose kernels keep to the slab; but for the ghost columns of the      *)
(* exchanged rows, which apply_boundaries leaves to the freestream.           *)
THEOREM StampedAsSerialAlways == Spec => []StampedAsSerial
<1>1. StageInit => Sized /\ IInv /\ PassInv
  BY InitIInv, InitPassInv
<1>2. (Sized /\ IInv /\ PassInv) /\ [Next]_vars => (Sized /\ IInv /\ PassInv)'
  BY NextIInv, NextPassInv
<1> QED BY <1>1, <1>2, StampedAlike, PTL DEF Spec

------------------------------------------------------------------------------
(* A wall on a left or right edge, where it is not the last kernel: the ghost *)
(* has been copied or is still free.                                          *)
LEMMA NoWall ==
    ASSUME Sized, Listed, NEW p \in Procs, NEW canvas,
           \A k \in 1 .. Len(segments) : segments[k].edge \in Edges,
           Sourced(p, Len(segments) + 1, canvas), NEW c \in Places(p),
           c[1] \notin 0 .. nx - 1, c[2] \in 0 .. rows(p) - 1,
           ~ Hits(p, segments[Len(segments)], c)
    PROVE  canvas[c] = Free \/ \E y, z : canvas[c] = <<"bc", "copy", y, z>>
<1>1. Len(segments) \in Nat /\ (Len(segments) + 1) - 1 = Len(segments) /\ Watched(p, c)
  BY DEF Listed, Watched
<1>2. CASE canvas[c] = Exchanged(p)[c]
  BY <1>2 DEF Exchanged
<1>3. ASSUME NEW k \in 1 .. Len(segments), Hits(p, segments[k], c), canvas[c] = Value(p, segments[k], c)
      PROVE  \E y, z : canvas[c] = <<"bc", "copy", y, z>>
  <2>1. k # Len(segments) /\ k < Len(segments) /\ segments[k].edge \in Edges
    BY <1>1, <1>3
  <2>2. segments[k].edge \notin YEdges
    BY <1>3, <2>1, HitIs DEF YEdges
  <2>3. segments[k].type = "transmissive"
    BY <2>1, <2>2 DEF Listed
  <2>4. Kind(segments[k]) = "copy"
    BY <2>3 DEF Kind
  <2> QED BY <1>3, <2>4 DEF Value, Made
<1> QED BY <1>1, <1>2, <1>3 DEF Sourced

LEMMA WallIs ==
    ASSUME Sized, Listed, NEW p \in Procs, NEW canvas,
           Unclipped(segments[Len(segments)]),
           Sourced(p, Len(segments) + 1, canvas), NEW c \in Places(p), c[2] \in 0 .. rows(p) - 1,
           Hits(p, segments[Len(segments)], c)
    PROVE  \E y, z : \E kind \in {"no-slip", "symmetry"} : canvas[c] = <<"bc", kind, y, z>>
<1>1. Len(segments) \in Nat \ {0} /\ (Len(segments) + 1) - 1 = Len(segments) /\ Watched(p, c)
  BY DEF Listed, Watched
<1>2. canvas[c] = Value(p, segments[Len(segments)], c)
  <2>1. Len(segments) \in 1 .. Len(segments)
    BY <1>1
  <2>2. PICK k \in 1 .. Len(segments) :
            /\ \A m \in k + 1 .. Len(segments) : ~ Hits(p, segments[m], c)
            /\ canvas[c] = Value(p, segments[k], c)
    BY <1>1, <2>1 DEF Sourced
  <2>3. k = Len(segments)
    <3>1. \A a \in Nat : \A i \in 1 .. a : i # a => a \in i + 1 .. a
      OBVIOUS
    <3>2. k # Len(segments) => Len(segments) \in k + 1 .. Len(segments)
      BY <1>1, <3>1
    <3> QED BY <2>2, <3>2
  <2> QED BY <2>2, <2>3
<1>3. Kind(segments[Len(segments)]) \in {"no-slip", "symmetry"}
  BY DEF Unclipped, Kind
<1> QED BY <1>2, <1>3 DEF Value, Made

LEMMA WallsAre == Sized /\ IInv /\ PassInv => WallsMisplaced
<1> SUFFICES ASSUME Sized, IInv, PassInv, NEW p \in Ranks, ~ KeepToSlab
             PROVE  LET s     == segments[Len(segments)]
                        k     == IF s.edge = "xmin" THEN -1 ELSE nx
                        wrong == {j \in 0 .. rows(p) - 1 : (j \in whole(s)) # (j0(p) + j \in whole(s))}
                    IN  /\ done[p] = Lost => s.end - 2 > rows(p) + 1
                        /\ Stamped(p) /\ Stamped(Serial) =>
                               wrong = {j \in 0 .. rows(p) - 1 :
                                           dv[p][<<k, j>>] # dv[Serial][<<k, j0(p) + j>>]}
  BY DEF WallsMisplaced
<1> DEFINE n == Len(segments)
           s == segments[n]
           k == IF s.edge = "xmin" THEN -1 ELSE nx
<1>1. /\ Listed /\ p \in Procs /\ Serial \in Procs /\ n \in Nat \ {0} /\ n \in 1 .. n
      /\ \A m \in 1 .. n : segments[m].edge \in Edges
      /\ s.edge \in {"xmin", "xmax"} /\ s.edge \notin YEdges /\ s.start \in Int /\ s.end \in Int
  <2>1. Listed /\ p \in Procs /\ Serial \in Procs /\ \A m \in 1 .. n : segments[m].edge \in Edges
    BY DEF PassInv, Procs, IInv
  <2>2. n \in Nat \ {0} /\ s.edge \in {"xmin", "xmax"}
    BY <2>1 DEF Listed
  <2>3. n \in 1 .. n
    BY <2>2
  <2>4. s.start \in Int /\ s.end \in Int
    BY <2>1, <2>3 DEF Listed
  <2>5. s.edge \notin YEdges
    BY <2>2 DEF YEdges
  <2> HIDE DEF n, s
  <2> QED BY <2>1, <2>2, <2>3, <2>4, <2>5
<1>2. Unclipped(s)
  <2>1. PICK m \in 1 .. n : segments[m].edge \notin YEdges /\ Unclipped(segments[m])
    BY DEF KeepToSlab
  <2>2. segments[m].type # "transmissive"
    BY <2>1 DEF Unclipped
  <2>3. m = n
    BY <1>1, <2>1, <2>2 DEF Listed
  <2> QED BY <2>1, <2>3
<1>3. /\ rows(p) \in Nat /\ j0(p) \in Nat /\ j0(p) + rows(p) <= ny /\ nx \in Nat /\ nx >= 1 /\ ny \in Nat
      /\ rows(Serial) = ny /\ j0(Serial) = 0
  BY <1>1, ProcRows, SerialRows DEF Sized
<1>4. ASSUME done[p] = Lost PROVE s.end - 2 > rows(p) + 1
  <2>1. PICK y \in whole(s) : y > rows(p) + 1
    BY <1>1, <1>4 DEF PassInv
  <2>2. y \in s.start - 2 .. s.end - 2
    BY DEF whole
  <2> QED BY <1>1, <1>3, <2>1, <2>2
<1>5. ASSUME Stamped(p), Stamped(Serial), NEW j \in 0 .. rows(p) - 1
      PROVE  (j \in whole(s)) # (j0(p) + j \in whole(s)) <=>
                 dv[p][<<k, j>>] # dv[Serial][<<k, j0(p) + j>>]
  <2> DEFINE c == <<k, j>>
             g == <<k, j0(p) + j>>
  <2>1. Sourced(p, n + 1, dv[p]) /\ Sourced(Serial, n + 1, dv[Serial])
    BY <1>1, <1>5 DEF PassInv, Stamped, Lost
  <2>2. /\ c[1] = k /\ c[2] = j /\ g[1] = k /\ g[2] = j0(p) + j /\ Global(p, c) = g
        /\ k \in {-1, nx} /\ k \notin 0 .. nx - 1
    BY <1>3 DEF Global
  <2>3. /\ c \in Places(p) /\ g \in Places(Serial)
        /\ c[2] \in 0 .. rows(p) - 1 /\ g[2] \in 0 .. rows(Serial) - 1
    <3>1. k \in -2 .. nx + 1
      BY <1>3, <2>2
    <3>2. j \in -2 .. rows(p) + 1
      BY <1>3
    <3>3. j0(p) + j \in -2 .. rows(Serial) + 1 /\ j0(p) + j \in 0 .. rows(Serial) - 1
      BY <1>3
    <3> QED BY <2>2, <3>1, <3>2, <3>3 DEF Places
  <2>4. /\ Hits(p, s, c) <=> j \in whole(s)
        /\ Hits(Serial, s, g) <=> j0(p) + j \in whole(s)
    <3>1. \A q, a : Along(s, a) = a[2] /\ Over(q, s) = whole(s) /\ ~ skipped(q, s)
      BY <1>1, <1>2 DEF Along, Over, skipped
    <3>2. \A q, y : <<k, y>> \in ghosts(q, s.edge, y)
      BY <1>1 DEF ghosts
    <3> HIDE DEF k
    <3> QED BY <2>2, <3>1, <3>2 DEF Hits
  <2> HIDE DEF c, g, k
  <2>5. CASE (j \in whole(s)) <=> (j0(p) + j \in whole(s))
    <3>1. ASSUME NEW m \in 1 .. n
          PROVE  /\ Hits(p, segments[m], c) <=> Hits(Serial, segments[m], Global(p, c))
                 /\ Hits(p, segments[m], c) =>
                        Value(p, segments[m], c) = Value(Serial, segments[m], Global(p, c))
      <4>1. segments[m].edge \in YEdges \/ ~ Unclipped(segments[m])
               \/ (c[2] \in whole(segments[m]) <=> j0(p) + c[2] \in whole(segments[m]))
        <5>1. CASE m = n
          BY <2>2, <2>5, <5>1
        <5>2. CASE m # n
          BY <1>1, <5>2 DEF Listed, Unclipped
        <5> QED BY <5>1, <5>2
      <4> QED BY <1>1, <2>3, <4>1, SameHits
    <3>2. n + 1 \in Nat /\ (n + 1) - 1 = n
      BY <1>1
    <3>3. dv[p][c] = dv[Serial][Global(p, c)]
      BY <2>1, <2>3, <3>1, <3>2, SameCanvas
    <3> QED BY <2>2, <2>5, <3>3 DEF c, g
  <2>6. CASE j \in whole(s) /\ ~ (j0(p) + j \in whole(s))
    <3>1. \E y, z : \E kind \in {"no-slip", "symmetry"} : dv[p][c] = <<"bc", kind, y, z>>
      BY <1>1, <1>2, <2>1, <2>3, <2>4, <2>6, WallIs
    <3>2. dv[Serial][g] = Free \/ \E y, z : dv[Serial][g] = <<"bc", "copy", y, z>>
      BY <1>1, <2>1, <2>2, <2>3, <2>4, <2>6, NoWall
    <3>3. dv[p][c] # dv[Serial][g]
      BY <3>1, <3>2 DEF Free
    <3> QED BY <2>6, <3>3 DEF c, g
  <2>7. CASE ~ (j \in whole(s)) /\ j0(p) + j \in whole(s)
    <3>1. \E y, z : \E kind \in {"no-slip", "symmetry"} : dv[Serial][g] = <<"bc", kind, y, z>>
      BY <1>1, <1>2, <2>1, <2>3, <2>4, <2>7, WallIs
    <3>2. dv[p][c] = Free \/ \E y, z : dv[p][c] = <<"bc", "copy", y, z>>
      BY <1>1, <2>1, <2>2, <2>3, <2>4, <2>7, NoWall
    <3>3. dv[p][c] # dv[Serial][g]
      BY <3>1, <3>2 DEF Free
    <3> QED BY <2>7, <3>3 DEF c, g
  <2> QED BY <2>5, <2>6, <2>7
<1> HIDE DEF k, s
<1>6. Stamped(p) /\ Stamped(Serial) =>
          {j \in 0 .. rows(p) - 1 : (j \in whole(s)) # (j0(p) + j \in whole(s))}
              = {j \in 0 .. rows(p) - 1 : dv[p][<<k, j>>] # dv[Serial][<<k, j0(p) + j>>]}
  BY <1>5
<1> QED BY <1>4, <1>6 DEF k, s

(* A wall on a left or right edge that is the last segment, on a slab of any  *)
(* grid: the rank writes outside its canvas only if the segment is higher     *)
(* than the slab with its ghosts, and otherwise exactly those rows are wrong  *)
(* that are in the segment by one of their numbers and not by the other.      *)
THEOREM WallsMisplacedAlways == Spec => []WallsMisplaced
<1>1. StageInit => Sized /\ IInv /\ PassInv
  BY InitIInv, InitPassInv
<1>2. (Sized /\ IInv /\ PassInv) /\ [Next]_vars => (Sized /\ IInv /\ PassInv)'
  BY NextIInv, NextPassInv
<1> QED BY <1>1, <1>2, WallsAre, PTL DEF Spec

------------------------------------------------------------------------------
(* The segments cover the edges, so a kernel has been at every ghost beside a *)
(* row or column of the grid, or an exchange.                                 *)
Covering ==
    /\ \A e \in YEdges : \A i \in 0 .. nx - 1 :
           \E m \in 1 .. Len(segments) : segments[m].edge = e /\ i \in whole(segments[m])
    /\ \A e \in {"xmin", "xmax"} : \A g \in 0 .. ny - 1 :
           \E m \in 1 .. Len(segments) : segments[m].edge = e /\ g \in whole(segments[m])

LEMMA InitCovering == StageInit => Covering
<1> SUFFICES ASSUME StageInit PROVE Covering
  OBVIOUS
<1>1. /\ nx \in Nat \ {0} /\ ny \in Nat \ {0} /\ segments \in Cases(nx, ny)
  BY StampAssumption DEF StageInit, Init
<1>2. PICK ky \in YKinds, kx \in XKinds, split \in Splits(ny) :
          segments = Cover(nx, ny, ky, kx, split)
  BY <1>1 DEF Cases
<1>3. /\ {"xmin", "xmax"} = {split.edge, split.other}
      /\ split.lo \in Int /\ split.hi \in Int /\ (split.lo = 0 \/ split.hi = ny - 1)
  BY <1>1, <1>2 DEF Splits
<1> DEFINE fourth == IF split.lo = 0 THEN Segment(split.edge, "transmissive", split.hi + 1, ny - 1)
                                     ELSE Segment(split.edge, "transmissive", 0, split.lo - 1)
           lowest  == Segment("ymin", ky, 0, nx - 1)
           highest == Segment("ymax", ky, 0, nx - 1)
           third   == Segment(split.other, "transmissive", 0, ny - 1)
           fifth   == Segment(split.edge, kx, split.lo, split.hi)
<1>4. segments = <<lowest, highest, third, fourth, fifth>>
  BY <1>2 DEF Cover
<1>5. ASSUME NEW e, NEW t, NEW lo \in Int, NEW hi \in Int
      PROVE  Segment(e, t, lo, hi).edge = e /\ whole(Segment(e, t, lo, hi)) = lo .. hi
  <2>1. (lo + 2) - 2 = lo /\ (hi + 2) - 2 = hi
    OBVIOUS
  <2> QED BY <2>1 DEF Segment, whole
<1>6. /\ lowest.edge = "ymin" /\ whole(lowest) = 0 .. nx - 1
      /\ highest.edge = "ymax" /\ whole(highest) = 0 .. nx - 1
  BY <1>1, <1>5
<1>7. third.edge = split.other /\ whole(third) = 0 .. ny - 1
  BY <1>1, <1>5
<1>8. fifth.edge = split.edge /\ whole(fifth) = split.lo .. split.hi
  BY <1>3, <1>5
<1>9. fourth.edge = split.edge
      /\ whole(fourth) = IF split.lo = 0 THEN split.hi + 1 .. ny - 1 ELSE 0 .. split.lo - 1
  <2>1. CASE split.lo = 0
    <3>1. fourth = Segment(split.edge, "transmissive", split.hi + 1, ny - 1)
      BY <2>1
    <3>2. split.hi + 1 \in Int /\ ny - 1 \in Int
      BY <1>1, <1>3
    <3> HIDE DEF fourth
    <3> QED BY <1>5, <2>1, <3>1, <3>2
  <2>2. CASE split.lo # 0
    <3>1. fourth = Segment(split.edge, "transmissive", 0, split.lo - 1)
      BY <2>2
    <3>2. split.lo - 1 \in Int
      BY <1>3
    <3> HIDE DEF fourth
    <3> QED BY <1>5, <2>2, <3>1, <3>2
  <2> QED BY <2>1, <2>2
<1> HIDE DEF lowest, highest, third, fourth, fifth
<1>10. /\ Len(segments) = 5
       /\ segments[1] = lowest /\ segments[2] = highest /\ segments[3] = third
       /\ segments[4] = fourth /\ segments[5] = fifth
  BY <1>4
<1>11. /\ 1 \in 1 .. Len(segments) /\ 2 \in 1 .. Len(segments) /\ 3 \in 1 .. Len(segments)
       /\ 4 \in 1 .. Len(segments) /\ 5 \in 1 .. Len(segments)
  BY <1>10
<1>12. ASSUME NEW e \in YEdges, NEW i \in 0 .. nx - 1
       PROVE  \E m \in 1 .. Len(segments) : segments[m].edge = e /\ i \in whole(segments[m])
  BY <1>6, <1>10, <1>11 DEF YEdges
<1>13. ASSUME NEW e \in {"xmin", "xmax"}, NEW g \in 0 .. ny - 1
       PROVE  \E m \in 1 .. Len(segments) : segments[m].edge = e /\ g \in whole(segments[m])
  <2>1. CASE e = split.other
    BY <1>7, <1>10, <1>11, <2>1
  <2>2. CASE e = split.edge
    <3>1. g \in whole(fourth) \/ g \in whole(fifth)
      BY <1>1, <1>3, <1>8, <1>9
    <3> QED BY <1>8, <1>9, <1>10, <1>11, <2>2, <3>1
  <2> QED BY <1>3, <2>1, <2>2
<1> QED BY <1>12, <1>13 DEF Covering

Unset == {Free, Zero, Outside}

LEMMA MarkIsUnset ==
    /\ \A i, g : Cell(i, g) \notin Unset
    /\ \A a, b, c, d : <<a, b, c, d>> \notin Unset
    /\ \A a, b, c : <<a, b, c>> \notin Unset
<1>1. Len(Free) = 1 /\ Len(Zero) = 1 /\ Len(Outside) = 1
  BY DEF Free, Zero, Outside
<1>2. (\A a, b, c : Len(<<a, b, c>>) = 3) /\ \A a, b, c, d : Len(<<a, b, c, d>>) = 4
  OBVIOUS
<1>3. \A i, g : Len(Cell(i, g)) = 3
  BY DEF Cell
<1> QED BY <1>1, <1>2, <1>3 DEF Unset

LEMMA GhostIs ==
    ASSUME NEW n \in Nat, NEW x \in -2 .. n + 1, x \notin 0 .. n - 1
    PROVE  x \in {-1, -2} \/ x \in {n, n + 1}
OBVIOUS

LEMMA GhostsSet ==
    ASSUME Sized, IInv, PassInv, Covering, KeepToSlab, NEW q \in Procs, Stamped(q), NEW c \in Places(q),
           c[1] \in 0 .. nx - 1 \/ c[2] \in 0 .. rows(q) - 1
    PROVE  dv[q][c] \notin Unset
<1> DEFINE n == Len(segments)
<1>1. /\ rows(q) \in Nat /\ rows(q) >= 1 /\ nx \in Nat /\ nx >= 1 /\ j0(q) \in Nat /\ ny \in Nat
      /\ j0(q) + rows(q) = j1(q) /\ j1(q) <= ny /\ j1(q) \in Nat
      /\ owns_jmax(q) => j1(q) = ny
      /\ ~ owns_jmin(q) => j0(q) >= 2
      /\ ~ owns_jmax(q) => j1(q) <= ny - 2
      /\ n \in Nat
  BY ProcRows DEF Sized, PassInv, Listed
<1>2. Sourced(q, n + 1, dv[q]) /\ Watched(q, c) /\ (n + 1) - 1 = n
  BY <1>1 DEF PassInv, Stamped, Lost, Watched
<1>3. ASSUME NEW k \in 1 .. n, dv[q][c] = Value(q, segments[k], c) PROVE dv[q][c] \notin Unset
  <2>1. \A s : \E a, b, d : Value(q, s, c) = <<"bc", a, b, d>>
    BY DEF Value, Made
  <2> QED BY <1>3, <2>1, MarkIsUnset
<1>4. ASSUME \A m \in 1 .. n : ~ Hits(q, segments[m], c), dv[q][c] = Exchanged(q)[c]
      PROVE  dv[q][c] \notin Unset
  <2>1. c = <<c[1], c[2]>> /\ c[1] \in -2 .. nx + 1 /\ c[2] \in -2 .. rows(q) + 1
    BY DEF Places
  <2>2. /\ j0(q) + c[2] \in 0 .. ny - 1 \/ j0(q) + c[2] < 0 \/ j0(q) + c[2] >= ny
        /\ j0(q) + c[2] < 0 => c[2] \in {-1, -2} /\ j0(q) < 2
        /\ j0(q) + c[2] >= ny => c[2] \in {rows(q), rows(q) + 1} /\ j0(q) + rows(q) > ny - 2
    <3> DEFINE o == j0(q)
               m == rows(q)
               x == c[2]
    <3>1. o \in Nat /\ m \in Nat /\ ny \in Nat /\ o + m <= ny /\ x \in -2 .. m + 1
      BY <1>1, <2>1
    <3> HIDE DEF o, m, x
    <3>2. /\ o + x \in 0 .. ny - 1 \/ o + x < 0 \/ o + x >= ny
          /\ o + x < 0 => x \in {-1, -2} /\ o < 2
          /\ o + x >= ny => x \in {m, m + 1} /\ o + m > ny - 2
      BY ONLY <3>1, GhostRowPlace
    <3> QED BY ONLY <3>2 DEF o, m, x
  <2>3. /\ c[1] \in 0 .. nx - 1 \/ c[2] \in 0 .. rows(q) - 1
        /\ j0(q) + rows(q) <= ny
    BY <1>1
  <2>4. CASE c[1] \in 0 .. nx - 1 /\ j0(q) + c[2] \in 0 .. ny - 1
    <3>1. Exchanged(q)[c] = Cell(c[1], j0(q) + c[2])
      BY <2>4 DEF Exchanged
    <3> QED BY <1>4, <3>1, MarkIsUnset
  <2>5. CASE c[1] \in 0 .. nx - 1 /\ j0(q) + c[2] < 0
    <3>1. c[2] \in {-1, -2} /\ owns_jmin(q)
      BY ONLY <1>1, <2>5, <2>2
    <3>2. PICK m \in 1 .. n : segments[m].edge = "ymin" /\ c[1] \in whole(segments[m])
      BY <2>5 DEF Covering, YEdges
    <3>3. Hits(q, segments[m], c)
      <4>1. ~ skipped(q, segments[m])
        BY <3>1, <3>2 DEF skipped
      <4>2. Along(segments[m], c) = c[1] /\ c[1] \in Over(q, segments[m])
        BY <3>2 DEF Along, YEdges, Over, clipped
      <4>3. c \in ghosts(q, "ymin", c[1])
        BY <2>1, <3>1 DEF ghosts
      <4> QED BY <3>2, <4>1, <4>2, <4>3 DEF Hits
    <3> QED BY <1>4, <3>3
  <2>6. CASE c[1] \in 0 .. nx - 1 /\ j0(q) + c[2] >= ny
    <3>1. c[2] \in {rows(q), rows(q) + 1} /\ owns_jmax(q)
      BY ONLY <1>1, <2>6, <2>2
    <3>2. PICK m \in 1 .. n : segments[m].edge = "ymax" /\ c[1] \in whole(segments[m])
      BY <2>6 DEF Covering, YEdges
    <3>3. Hits(q, segments[m], c)
      <4>1. ~ skipped(q, segments[m])
        BY <3>1, <3>2 DEF skipped
      <4>2. Along(segments[m], c) = c[1] /\ c[1] \in Over(q, segments[m])
        BY <3>2 DEF Along, YEdges, Over, clipped
      <4>3. c \in ghosts(q, "ymax", c[1])
        BY <2>1, <3>1 DEF ghosts
      <4> QED BY <3>2, <4>1, <4>2, <4>3 DEF Hits
    <3> QED BY <1>4, <3>3
  <2>7. CASE c[1] \notin 0 .. nx - 1
    <3>1. c[2] \in 0 .. rows(q) - 1 /\ j0(q) + c[2] \in 0 .. ny - 1
          /\ j0(q) + c[2] \in j0(q) .. j1(q) - 1 /\ (j0(q) + c[2]) - j0(q) = c[2]
      <4> DEFINE o == j0(q)
                 m == rows(q)
                 x == c[2]
      <4>1. o \in Nat /\ m \in Nat /\ ny \in Nat /\ o + m <= ny /\ x \in 0 .. m - 1 /\ o + m = j1(q)
        BY <1>1, <2>3, <2>7
      <4> HIDE DEF o, m, x
      <4>2. o + x \in 0 .. ny - 1 /\ o + x \in o .. (o + m) - 1 /\ (o + x) - o = x
        BY ONLY <4>1, RowPlace
      <4> QED BY ONLY <4>1, <4>2 DEF o, m, x
    <3>2. PICK e \in {"xmin", "xmax"} : c \in ghosts(q, e, c[2])
      <4>1. c[1] \in {-1, -2} \/ c[1] \in {nx, nx + 1}
        <5>1. c[1] \in -2 .. nx + 1
          BY <2>1
        <5> QED BY <1>1, <2>7, <5>1, GhostIs
      <4>2. c[1] \in {-1, -2} => c \in ghosts(q, "xmin", c[2])
        BY <2>1 DEF ghosts
      <4>3. c[1] \in {nx, nx + 1} => c \in ghosts(q, "xmax", c[2])
        BY <2>1 DEF ghosts
      <4> QED BY <4>1, <4>2, <4>3
    <3>3. PICK m \in 1 .. n : segments[m].edge = e /\ j0(q) + c[2] \in whole(segments[m])
      BY <3>1, <3>2 DEF Covering
    <3>4. segments[m].edge \notin YEdges
      BY <3>2, <3>3 DEF YEdges
    <3>5. ~ skipped(q, segments[m])
      BY <3>2, <3>3 DEF skipped
    <3>6. Along(segments[m], c) = c[2]
      BY <3>4 DEF Along
    <3>7. c[2] \in Over(q, segments[m])
      <4>1. ~ Unclipped(segments[m])
        BY <3>4 DEF KeepToSlab
      <4> QED BY <3>1, <3>3, <3>4, <4>1 DEF Over, clipped
    <3>8. Hits(q, segments[m], c)
      BY <3>2, <3>3, <3>5, <3>6, <3>7 DEF Hits
    <3> QED BY <1>4, <3>8
  <2> QED BY <2>4, <2>5, <2>6, <2>7, <2>2
<1> QED BY <1>2, <1>3, <1>4 DEF Sourced

------------------------------------------------------------------------------
(* The time step and the fluxes, which are computed of canvases that do not   *)
(* change any more: what is said of them is said of the values they get.      *)
RowsAlike(p, c, mine, whole_grid, lost) ==
    mine[p][c] = whole_grid[Global(p, c)] <=> c[2] \notin lost

TimeParity(t) ==
    \A p \in Ranks : \A c \in Reals(p) : RowsAlike(p, c, t, t[Serial], BelowInterface(p))

FluxParity(s, e, r) ==
    /\ s \in Straight \ {"movers-le1"} /\ e = "euler" =>
           \A p \in Ranks : \A c \in Reals(p) : RowsAlike(p, c, r, r[Serial], BelowInterface(p))
    /\ s = "movers-le1" /\ e = "euler" =>
           \A p \in Ranks : \A c \in Reals(p) :
               RowsAlike(p, c, r, r[Serial], AboveInterface(p) \cup NearBelow(p))
    /\ s \in Straight \ {"movers-le1"} /\ e = "navier-stokes" =>
           \A p \in Ranks : \A c \in Reals(p) :
               RowsAlike(p, c, r, r[Serial], AboveInterface(p) \cup NearBelow(p))

Set(x) == Unset \cap (x.average.dv \cup x.diss.dv \cup {x.average.vector, x.diss.vector}) = {}

MadeOfSet(s, e, r) ==
    s \in Straight \ {"movers-le1"} /\ e = "euler" =>
        \A p \in Procs : \A c \in Reals(p) : \A side \in Sides : Set(r[p][c][side])

ReadsBeyond(s, e, r) ==
    s \in Transposed /\ e = "euler" =>
        \A p \in Procs :
            (\E c \in Reals(p) : \E side \in Sides : r[p][c][side].diss.vector = Outside)
                <=> rows(p) > nx + 1 \/ nx - 1 > rows(p) + 1

SameBare(a, b) ==
    /\ a.average.dv = b.average.dv /\ a.diss.dv = b.diss.dv
    /\ a.viscous.dv = b.viscous.dv
    /\ bare(a.viscous.grad) = bare(b.viscous.grad)
    /\ Cardinality(a.viscous.rvol) = Cardinality(b.viscous.rvol)

Spoilt(p, c) == c[2] \in BelowInterface(p) \/ (c[2] \in AboveInterface(p) /\ c[1] \in {0, nx - 1})

BareParity(s, e, r) ==
    s \in Straight \ {"movers-le1"} /\ e = "navier-stokes" =>
        \A p \in Ranks : \A c \in Reals(p) :
            (\A side \in Sides : SameBare(r[p][c][side], r[Serial][Global(p, c)][side]))
                <=> ~ Spoilt(p, c)

Computed ==
    /\ scheme \in Schemes \cup {"none"} /\ equations \in {"none", "euler", "navier-stokes"}
    /\ scheme = "none" => equations = "none" /\ rhs = << >>
    /\ tstep # << >> \/ scheme # "none" => AllStamped
    /\ tstep # << >> => TimeParity(tstep) /\ \A p \in Procs : DOMAIN tstep[p] = Reals(p)
    /\ scheme # "none" => /\ \A p \in Procs : DOMAIN rhs[p] = Reals(p)
                          /\ KeepToSlab => /\ FluxParity(scheme, equations, rhs)
                                            /\ MadeOfSet(scheme, equations, rhs)
                                            /\ BareParity(scheme, equations, rhs)
                          /\ ReadsBeyond(scheme, equations, rhs)

StageInv == Sized /\ IInv /\ PassInv /\ Covering /\ Computed

LEMMA InitStageInv == StageInit => StageInv
BY InitIInv, InitPassInv, InitCovering DEF StageInit, StageInv, Computed

(* The vectors of faces, the last one of a slab included.                     *)
LEMMA FaceVectors ==
    ASSUME Sized, NEW p \in Procs
    PROVE  /\ \A i \in 0 .. nx - 1 : \A f \in 0 .. rows(p) :
                  sj(p, i, f) = <<"sj", i, j0(p) + (IF f = rows(p) THEN rows(p) - 1 ELSE f)>>
           /\ \A f \in 0 .. nx : \A j \in 0 .. rows(p) - 1 :
                  si(p, f, j) = <<"si", Clamp(f, nx - 1), j0(p) + j>>
<1>1. rows(p) \in Nat /\ rows(p) >= 1 /\ j0(p) \in Nat /\ nx \in Nat /\ nx >= 1
  BY ProcRows DEF Sized
<1>2. ASSUME NEW i \in 0 .. nx, NEW j \in 0 .. rows(p)
      PROVE  <<i, j>> \in Places(p)
  BY <1>1 DEF Places
<1>3. \A i \in 0 .. nx - 1 : Clamp(i, nx - 1) = i
  BY <1>1 DEF Clamp
<1>4. \A j \in 0 .. rows(p) - 1 : Clamp(j, rows(p) - 1) = j
  BY <1>1 DEF Clamp
<1>5. Clamp(rows(p), rows(p) - 1) = rows(p) - 1
  BY <1>1 DEF Clamp
<1>6. ASSUME NEW i \in 0 .. nx - 1, NEW f \in 0 .. rows(p)
      PROVE  sj(p, i, f) = <<"sj", i, j0(p) + (IF f = rows(p) THEN rows(p) - 1 ELSE f)>>
  <2>1. <<i, f>> \in Places(p) /\ Clamp(i, nx - 1) = i
    BY <1>1, <1>2, <1>3
  <2>2. f # rows(p) => f \in 0 .. rows(p) - 1
    BY <1>1
  <2> QED BY <1>4, <1>5, <2>1, <2>2 DEF sj, metric
<1>7. ASSUME NEW f \in 0 .. nx, NEW j \in 0 .. rows(p) - 1
      PROVE  si(p, f, j) = <<"si", Clamp(f, nx - 1), j0(p) + j>>
  <2>1. <<f, j>> \in Places(p)
    BY <1>1, <1>2
  <2> QED BY <1>4, <2>1 DEF si, metric
<1> QED BY <1>6, <1>7

(* What every lemma about a cell or a face of a slab begins with.             *)
LEMMA SlabIs ==
    ASSUME Sized, NEW p \in Ranks
    PROVE  /\ p \in Procs /\ Serial \in Procs /\ p # Serial
           /\ rows(p) \in Nat /\ rows(p) >= 1 /\ j0(p) \in Nat /\ j0(p) + rows(p) <= ny
           /\ nx \in Nat /\ nx >= 1 /\ ny \in Nat
           /\ rows(Serial) = ny /\ j0(Serial) = 0
           /\ has_upper(p) <=> j0(p) + rows(p) # ny
           /\ has_lower(p) <=> j0(p) # 0
           /\ has_upper(p) => j0(p) + rows(p) <= ny - 2
           /\ has_lower(p) => j0(p) >= 2
<1>1. p \in Procs /\ p \in 0 .. nranks - 1 /\ nranks \in Nat /\ p # Serial
  BY DEF Procs, Ranks, Serial, Sized
<1>2. mpi_mode(p)
  BY <1>1, ProcRows
<1>3. /\ rows(p) \in Nat /\ rows(p) >= 1 /\ j0(p) \in Nat /\ j1(p) \in Nat
      /\ j0(p) + rows(p) = j1(p) /\ j1(p) <= ny
      /\ owns_jmin(p) => j0(p) = 0
      /\ owns_jmax(p) => j1(p) = ny
      /\ ~ owns_jmin(p) => j0(p) >= 2
      /\ ~ owns_jmax(p) => j1(p) <= ny - 2
  BY <1>1, ProcRows
<1>4. (has_upper(p) <=> ~ owns_jmax(p)) /\ (has_lower(p) <=> ~ owns_jmin(p))
  BY <1>1, <1>2 DEF has_upper, has_lower, owns_jmax, owns_jmin
<1>5. nx \in Nat /\ nx >= 1 /\ ny \in Nat
  BY DEF Sized
<1> QED BY <1>1, <1>3, <1>4, <1>5, SerialRows

(* A slab has the vectors of its faces, but for the upper ones of its last row *)
(* below another slab.                                                        *)
LEMMA FacesAlike ==
    ASSUME Sized, NEW p \in Ranks
    PROVE  /\ \A f \in 0 .. nx : \A j \in 0 .. rows(p) - 1 : si(p, f, j) = si(Serial, f, j0(p) + j)
           /\ \A i \in 0 .. nx - 1 : \A f \in 0 .. rows(p) :
                  sj(p, i, f) = sj(Serial, i, j0(p) + f) <=> ~ (has_upper(p) /\ f = rows(p))
<1> DEFINE o == j0(p)
<1>1. /\ p \in Procs /\ Serial \in Procs
      /\ rows(p) \in Nat /\ rows(p) >= 1 /\ o \in Nat /\ o + rows(p) <= ny
      /\ nx \in Nat /\ nx >= 1 /\ ny \in Nat
      /\ rows(Serial) = ny /\ j0(Serial) = 0
      /\ has_upper(p) <=> o + rows(p) # ny
  BY SlabIs
<1>2. ASSUME NEW f \in 0 .. nx, NEW j \in 0 .. rows(p) - 1
      PROVE  si(p, f, j) = si(Serial, f, o + j)
  <2>1. o + j \in 0 .. rows(Serial) - 1 /\ 0 + (o + j) = o + j
    BY <1>1
  <2>2. si(p, f, j) = <<"si", Clamp(f, nx - 1), o + j>>
    BY <1>1, FaceVectors
  <2>3. si(Serial, f, o + j) = <<"si", Clamp(f, nx - 1), 0 + (o + j)>>
    BY <1>1, <2>1, FaceVectors
  <2> QED BY <2>1, <2>2, <2>3
<1>3. ASSUME NEW i \in 0 .. nx - 1, NEW f \in 0 .. rows(p)
      PROVE  sj(p, i, f) = sj(Serial, i, o + f) <=> ~ (has_upper(p) /\ f = rows(p))
  <2>1. o + f \in 0 .. rows(Serial)
    BY <1>1
  <2>2. sj(p, i, f) = <<"sj", i, o + (IF f = rows(p) THEN rows(p) - 1 ELSE f)>>
    BY <1>1, FaceVectors
  <2>3. sj(Serial, i, o + f) = <<"sj", i, 0 + (IF o + f = ny THEN ny - 1 ELSE o + f)>>
    BY <1>1, <2>1, FaceVectors
  <2>4. (o + (IF f = rows(p) THEN rows(p) - 1 ELSE f) = 0 + (IF o + f = ny THEN ny - 1 ELSE o + f))
        <=> ~ (o + rows(p) # ny /\ f = rows(p))
    BY <1>1
  <2> QED BY <1>1, <2>2, <2>3, <2>4
<1> QED BY <1>2, <1>3

LEMMA TimeAlike ==
    ASSUME Sized, IInv, PassInv, AllStamped, NEW t, t = [p \in Procs |-> time_step_euler(p)]
    PROVE  TimeParity(t)
<1> SUFFICES ASSUME NEW p \in Ranks, NEW c \in Reals(p)
             PROVE  RowsAlike(p, c, t, t[Serial], BelowInterface(p))
  BY DEF TimeParity
<1> DEFINE i == c[1]
           j == c[2]
           g == Global(p, c)
           o == j0(p)
<1>1. /\ p \in Procs /\ Serial \in Procs
      /\ rows(p) \in Nat /\ rows(p) >= 1 /\ o \in Nat /\ o + rows(p) <= ny
      /\ nx \in Nat /\ nx >= 1 /\ ny \in Nat
      /\ rows(Serial) = ny /\ j0(Serial) = 0
      /\ has_upper(p) <=> o + rows(p) # ny
  BY SlabIs
<1>2. i \in 0 .. nx - 1 /\ j \in 0 .. rows(p) - 1 /\ c = <<i, j>>
  BY <1>1 DEF Reals
<1>3. g = <<i, o + j>> /\ o + j \in 0 .. ny - 1 /\ g[1] = i /\ g[2] = o + j
  BY <1>1, <1>2 DEF Global
<1>4. g \in Reals(Serial) /\ c \in Places(p) /\ g \in Places(Serial)
  BY <1>1, <1>2, <1>3 DEF Reals, Places
<1>5. dv[p][c] = Cell(i, o + j) /\ dv[Serial][g] = Cell(i, o + j)
  <2>1. Len(segments) + 1 \in 0 .. Len(segments) + 1 /\ Len(segments) + 1 # Lost
    BY DEF IInv, Lost
  <2>2. done[p] = Len(segments) + 1 /\ done[Serial] = Len(segments) + 1
    BY <1>1 DEF AllStamped, Stamped
  <2>3. Sourced(p, Len(segments) + 1, dv[p]) /\ Sourced(Serial, Len(segments) + 1, dv[Serial])
    BY <1>1, <2>1, <2>2 DEF PassInv
  <2>4. Listed /\ \A k \in 1 .. Len(segments) : segments[k].edge \in Edges
    BY DEF PassInv, IInv
  <2>5. dv[p][c] = Cell(i, o + j)
    BY <1>1, <2>1, <2>3, <2>4, RealKept
  <2>6. dv[Serial][g] = Cell(i, 0 + (o + j))
    BY <1>1, <1>3, <1>4, <2>1, <2>3, <2>4, RealKept
  <2>7. 0 + (o + j) = o + j
    BY <1>1, <1>2
  <2> QED BY <2>5, <2>6, <2>7
<1>6. prim(p, i, j) = prim(Serial, i, o + j)
  BY <1>2, <1>3, <1>4, <1>5 DEF prim
<1> HIDE DEF g
<1>7. t[p][c] = <<prim(p, i, j), si(p, i, j), si(p, i + 1, j), sj(p, i, j), sj(p, i, j + 1), area(p, i, j)>>
  BY <1>1 DEF time_step_euler
<1>8. t[Serial][g] = <<prim(Serial, i, o + j), si(Serial, i, o + j), si(Serial, i + 1, o + j),
                       sj(Serial, i, o + j), sj(Serial, i, (o + j) + 1), area(Serial, i, o + j)>>
  BY <1>1, <1>3, <1>4 DEF time_step_euler
<1> HIDE DEF i, j, o
<1>9. i + 1 \in 0 .. nx /\ i \in 0 .. nx /\ j + 1 \in 0 .. rows(p) /\ j \in 0 .. rows(p)
      /\ (o + j) + 1 \in 0 .. ny /\ o + j \in 0 .. ny /\ 0 + (o + j) = o + j
  BY <1>1, <1>2, <1>3
<1>10. si(p, i, j) = si(Serial, i, o + j) /\ si(p, i + 1, j) = si(Serial, i + 1, o + j)
  BY <1>2, <1>9, FacesAlike DEF o
<1>11. area(p, i, j) = area(Serial, i, o + j)
  <2>1. Clamp(j, rows(p) - 1) = j /\ Clamp(o + j, ny - 1) = o + j
    BY <1>1, <1>2, <1>3 DEF Clamp
  <2>2. <<i, j>> \in Places(p) /\ <<i, o + j>> \in Places(Serial)
    BY <1>2, <1>3, <1>4
  <2> QED BY <1>1, <1>9, <2>1, <2>2 DEF area, metric, o
<1>12. sj(p, i, j) = sj(Serial, i, o + j)
  <2>1. j # rows(p)
    BY <1>1, <1>2
  <2> QED BY <1>2, <1>9, <2>1, FacesAlike DEF o
<1>13. sj(p, i, j + 1) = sj(Serial, i, (o + j) + 1) <=> ~ (has_upper(p) /\ j = rows(p) - 1)
  <2>1. o + (j + 1) = (o + j) + 1 /\ (j + 1 = rows(p) <=> j = rows(p) - 1)
    BY <1>1, <1>2
  <2> QED BY <1>2, <1>9, <2>1, FacesAlike DEF o
<1>14. j \notin BelowInterface(p) <=> ~ (has_upper(p) /\ j = rows(p) - 1)
  BY DEF BelowInterface
<1>15. t[p][c] = t[Serial][g] <=> j \notin BelowInterface(p)
  BY <1>6, <1>7, <1>8, <1>10, <1>11, <1>12, <1>13, <1>14
<1> QED BY <1>15 DEF RowsAlike, g, j

------------------------------------------------------------------------------
(* The faces of a slab, and of the whole grid.                                *)
Ready == Sized /\ IInv /\ PassInv /\ AllStamped /\ KeepToSlab

OnFace(p, d, f, b) ==
    \/ d = "i" /\ f \in 0 .. nx /\ b \in 0 .. rows(p) - 1
    \/ d = "j" /\ f \in 0 .. rows(p) /\ b \in 0 .. nx - 1

Up(p, d)     == IF d = "i" THEN 0 ELSE j0(p)
Across(p, d) == IF d = "i" THEN j0(p) ELSE 0

LEMMA PrimsAlike ==
    ASSUME Ready, NEW p \in Ranks, NEW i \in -2 .. nx + 1, NEW j \in -2 .. rows(p) + 1,
           i \in 0 .. nx - 1 \/ j \in 0 .. rows(p) - 1
    PROVE  prim(p, i, j) = prim(Serial, i, j0(p) + j)
<1> DEFINE c == <<i, j>>
<1>1. c \in Places(p) /\ c[1] = i /\ c[2] = j
  BY DEF Places
<1>2. Global(p, c) = <<i, j0(p) + j>> /\ Global(p, c) \in Places(Serial)
  BY <1>1, GlobalPlace DEF Global, Ready
<1>3. Stamped(p) /\ Stamped(Serial)
  BY SlabIs DEF Ready, AllStamped
<1>4. dv[p][c] = dv[Serial][Global(p, c)]
  BY <1>1, <1>3, StampedAlike DEF Ready, StampedAsSerial
<1> QED BY <1>1, <1>2, <1>4 DEF prim

LEMMA CellsAlike ==
    ASSUME Ready, NEW p \in Ranks, NEW d, NEW f, NEW b, OnFace(p, d, f, b), NEW x \in f - 2 .. f + 1
    PROVE  cell(p, d, x, b) = cell(Serial, d, Up(p, d) + x, Across(p, d) + b)
<1>1. /\ rows(p) \in Nat /\ rows(p) >= 1 /\ j0(p) \in Nat /\ nx \in Nat /\ nx >= 1
  BY SlabIs DEF Ready
<1>2. CASE d = "i"
  <2>1. /\ f \in 0 .. nx /\ b \in 0 .. rows(p) - 1
        /\ x \in -2 .. nx + 1 /\ b \in -2 .. rows(p) + 1 /\ 0 + x = x
    BY <1>1, <1>2 DEF OnFace
  <2>2. prim(p, x, b) = prim(Serial, x, j0(p) + b)
    BY <2>1, PrimsAlike
  <2> QED BY <1>2, <2>1, <2>2 DEF cell, ix, jx, Up, Across
<1>3. CASE d = "j"
  <2>1. /\ f \in 0 .. rows(p) /\ b \in 0 .. nx - 1
        /\ x \in -2 .. rows(p) + 1 /\ b \in -2 .. nx + 1 /\ 0 + b = b
    BY <1>1, <1>3 DEF OnFace
  <2>2. prim(p, b, x) = prim(Serial, b, j0(p) + x)
    BY <2>1, PrimsAlike
  <2> QED BY <1>3, <2>1, <2>2 DEF cell, ix, jx, Up, Across
<1> QED BY <1>2, <1>3 DEF OnFace

LEMMA MusclIs ==
    ASSUME NEW p, NEW d, NEW f \in Int, NEW b
    PROVE  muscl(p, d, f, b) =
               pair(p, d, f, b) \cup primitive_differences(p, d, f - 1, b)
                   \cup primitive_differences(p, d, f, b) \cup primitive_differences(p, d, f + 1, b)
<1>1. f - 1 .. f + 1 = {f - 1, f, f + 1}
  OBVIOUS
<1> QED BY <1>1 DEF muscl

LEMMA DifferencesIs ==
    ASSUME NEW p, NEW d, NEW f \in Int, f >= 0, NEW b
    PROVE  /\ primitive_differences(p, d, f - 1, b) = {cell(p, d, f - 2, b), cell(p, d, f - 1, b)}
           /\ primitive_differences(p, d, f, b) = {cell(p, d, f - 1, b), cell(p, d, f, b)}
           /\ primitive_differences(p, d, f + 1, b) = {cell(p, d, f, b), cell(p, d, f + 1, b)}
<1>1. f - 1 # -2 /\ f # -2 /\ f + 1 # -2 /\ (f - 1) - 1 = f - 2 /\ (f + 1) - 1 = f
  OBVIOUS
<1> QED BY <1>1 DEF primitive_differences

LEMMA FaceNumbers ==
    ASSUME Sized, NEW p \in Ranks, NEW d, NEW f, NEW b, OnFace(p, d, f, b)
    PROVE  /\ f \in Int /\ f >= 0 /\ Up(p, d) \in Nat /\ Up(p, d) + f \in Nat
           /\ \A x \in {-2, -1, 0, 1} : f + x \in f - 2 .. f + 1
           /\ \A x \in {-2, -1, 0, 1} : Up(p, d) + (f + x) = (Up(p, d) + f) + x
<1>1. rows(p) \in Nat /\ j0(p) \in Nat /\ nx \in Nat
  BY SlabIs
<1>2. f \in Nat
  BY <1>1 DEF OnFace
<1>3. Up(p, d) \in Nat
  BY <1>1 DEF Up
<1> QED BY <1>2, <1>3

LEMMA StencilsAlike ==
    ASSUME Ready, NEW p \in Ranks, NEW d, NEW f, NEW b, OnFace(p, d, f, b)
    PROVE  /\ pair(p, d, f, b) = pair(Serial, d, Up(p, d) + f, Across(p, d) + b)
           /\ muscl(p, d, f, b) = muscl(Serial, d, Up(p, d) + f, Across(p, d) + b)
<1> DEFINE F == Up(p, d) + f
           B == Across(p, d) + b
<1>1. /\ f \in Int /\ f >= 0 /\ F \in Nat
      /\ \A x \in {-2, -1, 0, 1} : f + x \in f - 2 .. f + 1
      /\ \A x \in {-2, -1, 0, 1} : Up(p, d) + (f + x) = F + x
  BY FaceNumbers DEF Ready
<1>2. \A x \in {-2, -1, 0, 1} : cell(p, d, f + x, b) = cell(Serial, d, F + x, B)
  BY <1>1, CellsAlike
<1> HIDE DEF F, B
<1>3. f + -2 = f - 2 /\ f + -1 = f - 1 /\ f + 0 = f /\ F + -2 = F - 2 /\ F + -1 = F - 1 /\ F + 0 = F
  BY <1>1
<1>4. /\ cell(p, d, f - 2, b) = cell(Serial, d, F - 2, B)
      /\ cell(p, d, f - 1, b) = cell(Serial, d, F - 1, B)
      /\ cell(p, d, f, b) = cell(Serial, d, F, B)
      /\ cell(p, d, f + 1, b) = cell(Serial, d, F + 1, B)
  BY <1>2, <1>3
<1>5. pair(p, d, f, b) = pair(Serial, d, F, B)
  BY <1>4 DEF pair
<1>6. /\ primitive_differences(p, d, f - 1, b) = {cell(p, d, f - 2, b), cell(p, d, f - 1, b)}
      /\ primitive_differences(p, d, f, b) = {cell(p, d, f - 1, b), cell(p, d, f, b)}
      /\ primitive_differences(p, d, f + 1, b) = {cell(p, d, f, b), cell(p, d, f + 1, b)}
  BY <1>1, DifferencesIs
<1>7. /\ primitive_differences(Serial, d, F - 1, B) = {cell(Serial, d, F - 2, B), cell(Serial, d, F - 1, B)}
      /\ primitive_differences(Serial, d, F, B) = {cell(Serial, d, F - 1, B), cell(Serial, d, F, B)}
      /\ primitive_differences(Serial, d, F + 1, B) = {cell(Serial, d, F, B), cell(Serial, d, F + 1, B)}
  <2>1. F \in Int /\ F >= 0
    BY <1>1
  <2> QED BY ONLY <2>1, DifferencesIs
<1>8. muscl(p, d, f, b) = muscl(Serial, d, F, B)
  <2>1. muscl(p, d, f, b) =
            pair(p, d, f, b) \cup primitive_differences(p, d, f - 1, b)
                \cup primitive_differences(p, d, f, b) \cup primitive_differences(p, d, f + 1, b)
    BY <1>1, MusclIs
  <2>2. muscl(Serial, d, F, B) =
            pair(Serial, d, F, B) \cup primitive_differences(Serial, d, F - 1, B)
                \cup primitive_differences(Serial, d, F, B) \cup primitive_differences(Serial, d, F + 1, B)
    <3>1. F \in Int
      BY <1>1
    <3> QED BY <3>1, MusclIs
  <2> QED BY <1>4, <1>5, <1>6, <1>7, <2>1, <2>2
<1> QED BY <1>5, <1>8 DEF F, B

LEMMA VectorsAlike ==
    ASSUME Sized, NEW p \in Ranks, NEW d, NEW f, NEW b, OnFace(p, d, f, b)
    PROVE  own_vector(p, d, f, b) = own_vector(Serial, d, Up(p, d) + f, Across(p, d) + b)
               <=> ~ (has_upper(p) /\ d = "j" /\ f = rows(p))
<1>1. rows(p) \in Nat /\ j0(p) \in Nat /\ nx \in Nat
  BY SlabIs
<1>2. CASE d = "i"
  <2>1. f \in 0 .. nx /\ b \in 0 .. rows(p) - 1 /\ 0 + f = f
    BY <1>1, <1>2 DEF OnFace
  <2> QED BY <1>2, <2>1, FacesAlike DEF own_vector, Up, Across
<1>3. CASE d = "j"
  <2>1. f \in 0 .. rows(p) /\ b \in 0 .. nx - 1 /\ 0 + b = b
    BY <1>1, <1>3 DEF OnFace
  <2> QED BY <1>3, <2>1, FacesAlike DEF own_vector, Up, Across
<1> QED BY <1>2, <1>3 DEF OnFace

(* The window maximum and the wall pressure have no part in a flux.           *)
LEMMA WindowIdle == \A w : window_read(w) = {}
BY DEF window_read, window_counts, nkfds_entropy_switch

LEMMA StraightReads ==
    ASSUME NEW p, NEW d, NEW f, NEW b
    PROVE  /\ \A s \in {"llf", "nkfds-movers"} :
                  dissipation(s, p, d, f, b) = Reads(own_vector(p, d, f, b), pair(p, d, f, b), {}, {})
           /\ \A s \in {"llf-2o", "nkfds-movers-2o", "roe-2o", "movers"} :
                  dissipation(s, p, d, f, b) = Reads(own_vector(p, d, f, b), muscl(p, d, f, b), {}, {})
BY WindowIdle DEF dissipation, llf_dissipation_first_order, llf_dissipation_second_order,
       nkfds_movers_dissipation_first_order, nkfds_movers_dissipation_second_order,
       roe_dissipation_second_order, movers_dissipation_muscl, face_states_muscl

LEMMA StraightAre ==
    Straight = {"llf", "nkfds-movers", "llf-2o", "nkfds-movers-2o", "roe-2o", "movers", "movers-le1"}
BY DEF Straight, Schemes, Transposed

LEMMA FluxAlike ==
    ASSUME Ready, NEW p \in Ranks, NEW d, NEW f, NEW b, OnFace(p, d, f, b),
           NEW s \in Straight \ {"movers-le1"}
    PROVE  flux(p, s, "euler", d, f, b) = flux(Serial, s, "euler", d, Up(p, d) + f, Across(p, d) + b)
               <=> ~ (has_upper(p) /\ d = "j" /\ f = rows(p))
<1> DEFINE F == Up(p, d) + f
           B == Across(p, d) + b
           mine == flux(p, s, "euler", d, f, b)
           other == flux(Serial, s, "euler", d, F, B)
<1>1. pair(p, d, f, b) = pair(Serial, d, F, B) /\ muscl(p, d, f, b) = muscl(Serial, d, F, B)
  BY StencilsAlike
<1>2. own_vector(p, d, f, b) = own_vector(Serial, d, F, B) <=> ~ (has_upper(p) /\ d = "j" /\ f = rows(p))
  BY VectorsAlike DEF Ready
<1> HIDE DEF F, B
<1>3. s \in {"llf", "nkfds-movers", "llf-2o", "nkfds-movers-2o", "roe-2o", "movers"}
  BY StraightAre
<1>4. /\ mine = [average |-> define_convective_faces(p, d, f, b),
                 diss |-> dissipation(s, p, d, f, b), viscous |-> NoFlux]
      /\ other = [average |-> define_convective_faces(Serial, d, F, B),
                  diss |-> dissipation(s, Serial, d, F, B), viscous |-> NoFlux]
  BY DEF flux
<1>5. ASSUME own_vector(p, d, f, b) = own_vector(Serial, d, F, B) PROVE mine = other
  <2>1. dissipation(s, p, d, f, b) = dissipation(s, Serial, d, F, B)
    BY <1>1, <1>3, <1>5, StraightReads
  <2>2. define_convective_faces(p, d, f, b) = define_convective_faces(Serial, d, F, B)
    BY <1>1, <1>5 DEF define_convective_faces
  <2> QED BY <1>4, <2>1, <2>2
<1>6. ASSUME mine = other PROVE own_vector(p, d, f, b) = own_vector(Serial, d, F, B)
  <2>1. mine.average = other.average
    BY <1>6
  <2>2. define_convective_faces(p, d, f, b) = define_convective_faces(Serial, d, F, B)
    BY <1>4, <2>1
  <2>3. /\ define_convective_faces(p, d, f, b).vector = own_vector(p, d, f, b)
        /\ define_convective_faces(Serial, d, F, B).vector = own_vector(Serial, d, F, B)
    BY DEF define_convective_faces, Reads
  <2> QED BY <2>2, <2>3
<1> QED BY <1>2, <1>5, <1>6 DEF F, B

SameFlux(p, s, e, d, f, b) ==
    flux(p, s, e, d, f, b) = flux(Serial, s, e, d, Up(p, d) + f, Across(p, d) + b)

SameFluxes(p, s, e, c) ==
    /\ SameFlux(p, s, e, "i", c[1], c[2]) /\ SameFlux(p, s, e, "i", c[1] + 1, c[2])
    /\ SameFlux(p, s, e, "j", c[2], c[1]) /\ SameFlux(p, s, e, "j", c[2] + 1, c[1])

(* What a cell adds up is the same if its four fluxes are.                    *)
LEMMA UpdateIs ==
    ASSUME Sized, NEW p \in Ranks, NEW s, NEW e, NEW c \in Reals(p), NEW r,
           \A q \in Procs : r[q] = assemble_rhs(q, s, e)
    PROVE  r[p][c] = r[Serial][Global(p, c)] <=> SameFluxes(p, s, e, c)
<1> DEFINE i == c[1]
           j == c[2]
           g == Global(p, c)
           o == j0(p)
           own(d, f, b) == flux(p, s, e, d, f, b)
           ref(d, f, b) == flux(Serial, s, e, d, f, b)
<1>1. /\ p \in Procs /\ Serial \in Procs
      /\ rows(p) \in Nat /\ rows(p) >= 1 /\ o \in Nat /\ o + rows(p) <= ny
      /\ nx \in Nat /\ nx >= 1 /\ ny \in Nat
      /\ rows(Serial) = ny /\ j0(Serial) = 0
  BY SlabIs
<1>2. i \in 0 .. nx - 1 /\ j \in 0 .. rows(p) - 1
  BY <1>1 DEF Reals
<1>3. g[1] = i /\ g[2] = o + j /\ g \in Reals(Serial)
  <2>1. g = <<i, o + j>> /\ o + j \in 0 .. ny - 1
    BY <1>1, <1>2 DEF Global
  <2> QED BY <1>1, <1>2, <2>1 DEF Reals
<1>4. /\ Up(p, "i") + i = i /\ Up(p, "i") + (i + 1) = i + 1 /\ Across(p, "i") + j = o + j
      /\ Up(p, "j") + j = o + j /\ Up(p, "j") + (j + 1) = (o + j) + 1 /\ Across(p, "j") + i = i
  BY <1>1, <1>2 DEF Up, Across
<1> HIDE DEF g
<1>5. r[p][c] = [w |-> own("i", i, j), e |-> own("i", i + 1, j), s |-> own("j", j, i), n |-> own("j", j + 1, i)]
  <2>1. r[p] = assemble_rhs(p, s, e)
    BY <1>1
  <2> QED BY <2>1 DEF assemble_rhs
<1>6. r[Serial][g] = [w |-> ref("i", i, o + j), e |-> ref("i", i + 1, o + j),
                      s |-> ref("j", o + j, i), n |-> ref("j", (o + j) + 1, i)]
  <2>1. r[Serial] = assemble_rhs(Serial, s, e)
    BY <1>1
  <2> QED BY <1>3, <2>1 DEF assemble_rhs
<1> HIDE DEF own, ref, i, j, o
<1>7. \A w1, e1, s1, n1, w2, e2, s2, n2 :
          [w |-> w1, e |-> e1, s |-> s1, n |-> n1] = [w |-> w2, e |-> e2, s |-> s2, n |-> n2]
              <=> w1 = w2 /\ e1 = e2 /\ s1 = s2 /\ n1 = n2
  <2> SUFFICES ASSUME NEW w1, NEW e1, NEW s1, NEW n1, NEW w2, NEW e2, NEW s2, NEW n2,
                      [w |-> w1, e |-> e1, s |-> s1, n |-> n1] = [w |-> w2, e |-> e2, s |-> s2, n |-> n2]
               PROVE  w1 = w2 /\ e1 = e2 /\ s1 = s2 /\ n1 = n2
    OBVIOUS
  <2> DEFINE a == [w |-> w1, e |-> e1, s |-> s1, n |-> n1]
             z == [w |-> w2, e |-> e2, s |-> s2, n |-> n2]
  <2>1. a.w = z.w /\ a.e = z.e /\ a.s = z.s /\ a.n = z.n
    OBVIOUS
  <2> QED BY <2>1
<1>8. r[p][c] = r[Serial][g] <=>
          /\ own("i", i, j) = ref("i", i, o + j) /\ own("i", i + 1, j) = ref("i", i + 1, o + j)
          /\ own("j", j, i) = ref("j", o + j, i) /\ own("j", j + 1, i) = ref("j", (o + j) + 1, i)
  BY <1>5, <1>6, <1>7
<1> QED BY <1>4, <1>8 DEF SameFluxes, SameFlux, own, ref, i, j, o, g

LEMMA UpdatesAlike ==
    ASSUME Ready, NEW p \in Ranks, NEW s \in Straight \ {"movers-le1"}, NEW c \in Reals(p), NEW r,
           \A q \in Procs : r[q] = assemble_rhs(q, s, "euler")
    PROVE  RowsAlike(p, c, r, r[Serial], BelowInterface(p))
<1> DEFINE i == c[1]
           j == c[2]
           same(d, f, b) == SameFlux(p, s, "euler", d, f, b)
<1>1. /\ i \in 0 .. nx - 1 /\ j \in 0 .. rows(p) - 1
      /\ r[p][c] = r[Serial][Global(p, c)] <=>
             same("i", i, j) /\ same("i", i + 1, j) /\ same("j", j, i) /\ same("j", j + 1, i)
  <2>1. Sized /\ i \in 0 .. nx - 1 /\ j \in 0 .. rows(p) - 1
    BY DEF Ready, Reals
  <2>2. r[p][c] = r[Serial][Global(p, c)] <=> SameFluxes(p, s, "euler", c)
    BY <2>1, UpdateIs
  <2> QED BY <2>1, <2>2 DEF SameFluxes
<1>2. rows(p) \in Nat /\ nx \in Nat
  BY SlabIs DEF Ready
<1>3. /\ OnFace(p, "i", i, j) /\ OnFace(p, "i", i + 1, j)
      /\ OnFace(p, "j", j, i) /\ OnFace(p, "j", j + 1, i)
      /\ j # rows(p) /\ (j + 1 = rows(p) <=> j = rows(p) - 1)
  BY <1>1, <1>2 DEF OnFace
<1>4. same("i", i, j) /\ same("i", i + 1, j) /\ same("j", j, i)
  BY <1>3, FluxAlike DEF SameFlux
<1>5. same("j", j + 1, i) <=> ~ (has_upper(p) /\ j = rows(p) - 1)
  BY <1>3, FluxAlike DEF SameFlux
<1>6. j \notin BelowInterface(p) <=> ~ (has_upper(p) /\ j = rows(p) - 1)
  BY DEF BelowInterface
<1> QED BY <1>1, <1>4, <1>5, <1>6 DEF RowsAlike

------------------------------------------------------------------------------
(* MOVERS_LE1, whose differences of cv_ reach into ghosts nobody exchanges.   *)
stored(p, d, f, b) == cons(p, ix(d, f, b), jx(d, f, b))

LEMMA StoredIs ==
    ASSUME Sized, NEW q \in Procs, NEW i \in -2 .. nx + 1, NEW j \in -2 .. rows(q) + 1
    PROVE  cons(q, i, j) = IF i \in 0 .. nx - 1 /\ j \in 0 .. rows(q) - 1 THEN Cell(i, j0(q) + j) ELSE Free
<1>1. <<i, j>> \in Places(q)
  BY DEF Places
<1>2. <<i, j>> \in Reals(q) <=> i \in 0 .. nx - 1 /\ j \in 0 .. rows(q) - 1
  BY DEF Reals
<1> QED BY <1>1, <1>2 DEF cons

LEMMA ConservedIs ==
    ASSUME Sized, NEW q \in Procs, NEW d, NEW f, NEW b, OnFace(q, d, f, b), NEW g \in f .. f + 1
    PROVE  conserved_differences(q, d, ix(d, g, b), jx(d, g, b)) = {stored(q, d, g - 1, b), stored(q, d, g, b)}
<1>1. nx \in Nat /\ nx >= 1 /\ rows(q) \in Nat
  BY ProcRows DEF Sized
<1>2. CASE d = "i"
  <2>1. f \in 0 .. nx /\ b \in 0 .. rows(q) - 1
    BY <1>2 DEF OnFace
  <2>2. g \in -2 .. nx + 1 /\ b \in -2 .. rows(q) + 1 /\ g # -2
    BY <1>1, <2>1
  <2>3. <<g, b>> \in Places(q)
    BY <2>2 DEF Places
  <2> QED BY <1>2, <2>1, <2>2, <2>3 DEF conserved_differences, stored, ix, jx
<1>3. CASE d = "j"
  <2>1. f \in 0 .. rows(q) /\ b \in 0 .. nx - 1
    BY <1>3 DEF OnFace
  <2>2. b \in -2 .. nx + 1 /\ g \in -2 .. rows(q) + 1 /\ g # -2
    BY <1>1, <2>1
  <2>3. <<b, g>> \in Places(q)
    BY <2>2 DEF Places
  <2> QED BY <1>3, <2>1, <2>2, <2>3 DEF conserved_differences, stored, ix, jx
<1> QED BY <1>2, <1>3 DEF OnFace

Around(p, d, f, b) == {stored(p, d, f - 1, b), stored(p, d, f, b), stored(p, d, f + 1, b)}

LEMMA Le1Is ==
    ASSUME Sized, NEW q \in Procs, NEW d, NEW f, NEW b, OnFace(q, d, f, b)
    PROVE  dissipation("movers-le1", q, d, f, b) =
               Reads(own_vector(q, d, f, b), pair(q, d, f, b), Around(q, d, f, b), {})
<1>1. f \in Int /\ (f + 1) - 1 = f
  BY ProcRows DEF OnFace, Sized
<1>2. f .. f + 1 = {f, f + 1}
  BY <1>1
<1>3. \A g \in f .. f + 1 : conserved_differences(q, d, ix(d, g, b), jx(d, g, b)) =
                                {stored(q, d, g - 1, b), stored(q, d, g, b)}
  BY ConservedIs
<1> DEFINE D(g) == conserved_differences(q, d, ix(d, g, b), jx(d, g, b))
<1>4. /\ D(f) = {stored(q, d, f - 1, b), stored(q, d, f, b)}
      /\ D(f + 1) = {stored(q, d, f, b), stored(q, d, f + 1, b)}
  BY <1>1, <1>2, <1>3
<1> HIDE DEF D
<1>5. UNION {D(g) : g \in f .. f + 1} = D(f) \cup D(f + 1)
  BY <1>2
<1>6. UNION {D(g) : g \in f .. f + 1} = Around(q, d, f, b)
  BY <1>4, <1>5 DEF Around
<1> QED BY <1>6 DEF dissipation, movers_le1_dissipation, face_states_direct, D

(* The rows beside the face f in which a slab lacks cells that one process has. *)
Reaches(p, d, f) ==
    d = "j" /\ ((has_lower(p) /\ f = 0) \/ (has_upper(p) /\ f >= rows(p) - 1))

LEMMA GlobalFace ==
    ASSUME Sized, NEW p \in Ranks, NEW d, NEW f, NEW b, OnFace(p, d, f, b)
    PROVE  OnFace(Serial, d, Up(p, d) + f, Across(p, d) + b)
<1>1. /\ rows(p) \in Nat /\ rows(p) >= 1 /\ j0(p) \in Nat /\ j0(p) + rows(p) <= ny
      /\ nx \in Nat /\ ny \in Nat /\ rows(Serial) = ny
  BY SlabIs
<1>2. CASE d = "i"
  BY <1>1, <1>2 DEF OnFace, Up, Across
<1>3. CASE d = "j"
  BY <1>1, <1>3 DEF OnFace, Up, Across
<1> QED BY <1>2, <1>3 DEF OnFace

LEMMA StoredAcross ==
    ASSUME Sized, NEW p \in Ranks, NEW f, NEW b, OnFace(p, "i", f, b), NEW x \in {f - 1, f, f + 1}
    PROVE  stored(p, "i", x, b) = stored(Serial, "i", x, j0(p) + b)
<1>1. /\ p \in Procs /\ Serial \in Procs
      /\ rows(p) \in Nat /\ rows(p) >= 1 /\ j0(p) \in Nat /\ j0(p) + rows(p) <= ny
      /\ nx \in Nat /\ ny \in Nat /\ rows(Serial) = ny /\ j0(Serial) = 0
  BY SlabIs
<1>2. f \in 0 .. nx /\ b \in 0 .. rows(p) - 1
  BY DEF OnFace
<1>3. x \in -2 .. nx + 1 /\ b \in -2 .. rows(p) + 1
  BY <1>1, <1>2
<1>4. j0(p) + b \in -2 .. rows(Serial) + 1 /\ j0(p) + b \in 0 .. rows(Serial) - 1 /\ 0 + (j0(p) + b) = j0(p) + b
  BY <1>1, <1>2
<1>5. cons(p, x, b) = IF x \in 0 .. nx - 1 THEN Cell(x, j0(p) + b) ELSE Free
  BY <1>1, <1>2, <1>3, StoredIs
<1>6. cons(Serial, x, j0(p) + b) = IF x \in 0 .. nx - 1 THEN Cell(x, j0(p) + b) ELSE Free
  BY <1>1, <1>3, <1>4, StoredIs
<1> QED BY <1>5, <1>6 DEF stored, ix, jx

LEMMA StoredUp ==
    ASSUME Sized, NEW p \in Ranks, NEW f, NEW b, OnFace(p, "j", f, b), NEW x \in {f - 1, f, f + 1}
    PROVE  /\ stored(p, "j", x, b) = IF x \in 0 .. rows(p) - 1 THEN Cell(b, j0(p) + x) ELSE Free
           /\ stored(Serial, "j", j0(p) + x, b) =
                  IF j0(p) + x \in 0 .. ny - 1 THEN Cell(b, j0(p) + x) ELSE Free
<1>1. /\ p \in Procs /\ Serial \in Procs
      /\ rows(p) \in Nat /\ rows(p) >= 1 /\ j0(p) \in Nat /\ j0(p) + rows(p) <= ny
      /\ nx \in Nat /\ ny \in Nat /\ rows(Serial) = ny /\ j0(Serial) = 0
  BY SlabIs
<1>2. f \in 0 .. rows(p) /\ b \in 0 .. nx - 1
  BY DEF OnFace
<1>3. x \in -2 .. rows(p) + 1 /\ b \in -2 .. nx + 1
  BY <1>1, <1>2
<1>4. j0(p) + x \in -2 .. rows(Serial) + 1 /\ 0 + (j0(p) + x) = j0(p) + x
  BY <1>1, <1>2
<1>5. cons(p, b, x) = IF x \in 0 .. rows(p) - 1 THEN Cell(b, j0(p) + x) ELSE Free
  BY <1>1, <1>2, <1>3, StoredIs
<1>6. cons(Serial, b, j0(p) + x) = IF j0(p) + x \in 0 .. ny - 1 THEN Cell(b, j0(p) + x) ELSE Free
  BY <1>1, <1>2, <1>3, <1>4, StoredIs
<1> QED BY <1>5, <1>6 DEF stored, ix, jx

(* The rows a face has around it that are a slab's own, and those of the grid. *)
LEMMA RowsReached ==
    ASSUME NEW n \in Nat, n >= 1, NEW o \in Nat, NEW m \in Nat, o + n <= m,
           o + n # m => o + n <= m - 2, o # 0 => o >= 2, NEW f \in 0 .. n
    PROVE  (\E x \in {f - 1, f, f + 1} : x \notin 0 .. n - 1 /\ o + x \in 0 .. m - 1)
               <=> (o # 0 /\ f = 0) \/ (o + n # m /\ f >= n - 1)
<1>1. ASSUME o # 0, f = 0 PROVE f - 1 \notin 0 .. n - 1 /\ o + (f - 1) \in 0 .. m - 1
  BY <1>1
<1>2. ASSUME o + n # m, f = n PROVE f \notin 0 .. n - 1 /\ o + f \in 0 .. m - 1
  BY <1>2
<1>3. ASSUME o + n # m, f = n - 1 PROVE f + 1 \notin 0 .. n - 1 /\ o + (f + 1) \in 0 .. m - 1
  BY <1>3
<1>4. ASSUME NEW x \in {f - 1, f, f + 1}, x \notin 0 .. n - 1, o + x \in 0 .. m - 1
      PROVE  (o # 0 /\ f = 0) \/ (o + n # m /\ f >= n - 1)
  BY <1>4
<1>5. f >= n - 1 => f = n \/ f = n - 1
  OBVIOUS
<1> QED BY <1>1, <1>2, <1>3, <1>4, <1>5

LEMMA StoredAlike ==
    ASSUME Sized, NEW p \in Ranks, NEW d, NEW f, NEW b, OnFace(p, d, f, b)
    PROVE  Around(p, d, f, b) = Around(Serial, d, Up(p, d) + f, Across(p, d) + b) <=> ~ Reaches(p, d, f)
<1>1. /\ rows(p) \in Nat /\ rows(p) >= 1 /\ j0(p) \in Nat /\ j0(p) + rows(p) <= ny
      /\ nx \in Nat /\ ny \in Nat
      /\ has_upper(p) <=> j0(p) + rows(p) # ny
      /\ has_lower(p) <=> j0(p) # 0
      /\ has_upper(p) => j0(p) + rows(p) <= ny - 2
      /\ has_lower(p) => j0(p) >= 2
  BY SlabIs
<1>2. CASE d = "i"
  <2>1. f \in Nat /\ 0 + f = f
    BY <1>1, <1>2 DEF OnFace
  <2>2. \A x \in {f - 1, f, f + 1} : stored(p, "i", x, b) = stored(Serial, "i", x, j0(p) + b)
    BY <1>2, StoredAcross
  <2> QED BY <1>2, <2>1, <2>2 DEF Around, Up, Across, Reaches
<1>3. CASE d = "j"
  <2> DEFINE o == j0(p)
             n == rows(p)
             X == {f - 1, f, f + 1}
             A(x) == stored(p, "j", x, b)
             S(x) == stored(Serial, "j", o + x, b)
  <2>1. f \in 0 .. n /\ b \in 0 .. nx - 1 /\ 0 + b = b /\ (o + f) - 1 = o + (f - 1) /\ (o + f) + 1 = o + (f + 1)
    BY <1>1, <1>3 DEF OnFace
  <2>2. \A x \in X : /\ A(x) = IF x \in 0 .. n - 1 THEN Cell(b, o + x) ELSE Free
                     /\ S(x) = IF o + x \in 0 .. ny - 1 THEN Cell(b, o + x) ELSE Free
    BY <1>3, StoredUp
  <2>3. (\E x \in X : x \notin 0 .. n - 1 /\ o + x \in 0 .. ny - 1) <=> Reaches(p, d, f)
    <3>1. (\E x \in X : x \notin 0 .. n - 1 /\ o + x \in 0 .. ny - 1)
              <=> (o # 0 /\ f = 0) \/ (o + n # ny /\ f >= n - 1)
      BY <1>1, <2>1, RowsReached
    <3> QED BY <1>1, <1>3, <3>1 DEF Reaches
  <2>4. Around(p, d, f, b) = {A(x) : x \in X}
    BY <1>3 DEF Around
  <2>5. Around(Serial, d, Up(p, d) + f, Across(p, d) + b) = {S(x) : x \in X}
    <3>1. Up(p, d) = o /\ Across(p, d) = 0
      BY <1>3 DEF Up, Across
    <3>2. Around(Serial, d, Up(p, d) + f, Across(p, d) + b) = {S(f - 1), S(f), S(f + 1)}
      BY <1>3, <2>1, <3>1 DEF Around
    <3> QED BY <3>2
  <2>6. \A x \in X : x \in 0 .. n - 1 => o + x \in 0 .. ny - 1
    BY <1>1, <2>1
  <2>7. \A x, y \in X : o + x = o + y => x = y
    BY <1>1, <2>1
  <2>8. \A x, y \in X : Cell(b, o + x) # Free /\ (Cell(b, o + x) = Cell(b, o + y) => x = y)
    BY <2>7 DEF Cell, Free
  <2> HIDE DEF A, S, X, o, n
  <2>9. ASSUME \A x \in X : ~ (x \notin 0 .. n - 1 /\ o + x \in 0 .. ny - 1)
        PROVE  {A(x) : x \in X} = {S(x) : x \in X}
    <3>1. \A x \in X : A(x) = S(x)
      BY <2>2, <2>6, <2>9
    <3> QED BY <3>1
  <2>10. ASSUME NEW x \in X, x \notin 0 .. n - 1, o + x \in 0 .. ny - 1
         PROVE  {A(y) : y \in X} # {S(y) : y \in X}
    <3>1. S(x) = Cell(b, o + x)
      BY <2>2, <2>10
    <3>2. \A y \in X : A(y) # Cell(b, o + x)
      BY <2>2, <2>8, <2>10
    <3>3. S(x) \in {S(y) : y \in X} /\ S(x) \notin {A(y) : y \in X}
      BY <3>1, <3>2
    <3> QED BY <3>3
  <2> QED BY <2>3, <2>4, <2>5, <2>9, <2>10
<1> QED BY <1>2, <1>3 DEF OnFace

LEMMA Le1FluxAlike ==
    ASSUME Ready, NEW p \in Ranks, NEW d, NEW f, NEW b, OnFace(p, d, f, b)
    PROVE  SameFlux(p, "movers-le1", "euler", d, f, b)
               <=> ~ (has_upper(p) /\ d = "j" /\ f = rows(p)) /\ ~ Reaches(p, d, f)
<1> DEFINE F == Up(p, d) + f
           B == Across(p, d) + b
           mine == flux(p, "movers-le1", "euler", d, f, b)
           other == flux(Serial, "movers-le1", "euler", d, F, B)
<1>0. Sized /\ p \in Procs /\ Serial \in Procs
  BY SlabIs DEF Ready
<1>1. pair(p, d, f, b) = pair(Serial, d, F, B)
  BY StencilsAlike
<1>2. own_vector(p, d, f, b) = own_vector(Serial, d, F, B) <=> ~ (has_upper(p) /\ d = "j" /\ f = rows(p))
  BY <1>0, VectorsAlike
<1>3. Around(p, d, f, b) = Around(Serial, d, F, B) <=> ~ Reaches(p, d, f)
  BY <1>0, StoredAlike
<1>4. OnFace(Serial, d, F, B)
  BY <1>0, GlobalFace
<1> HIDE DEF F, B
<1>5. dissipation("movers-le1", p, d, f, b) =
          Reads(own_vector(p, d, f, b), pair(p, d, f, b), Around(p, d, f, b), {})
  BY <1>0, Le1Is
<1>6. dissipation("movers-le1", Serial, d, F, B) =
          Reads(own_vector(Serial, d, F, B), pair(Serial, d, F, B), Around(Serial, d, F, B), {})
  BY <1>0, <1>4, Le1Is
<1>7. /\ mine = [average |-> define_convective_faces(p, d, f, b),
                 diss |-> dissipation("movers-le1", p, d, f, b), viscous |-> NoFlux]
      /\ other = [average |-> define_convective_faces(Serial, d, F, B),
                  diss |-> dissipation("movers-le1", Serial, d, F, B), viscous |-> NoFlux]
  BY DEF flux
<1>8. ASSUME own_vector(p, d, f, b) = own_vector(Serial, d, F, B), Around(p, d, f, b) = Around(Serial, d, F, B)
      PROVE  mine = other
  <2>1. dissipation("movers-le1", p, d, f, b) = dissipation("movers-le1", Serial, d, F, B)
    BY <1>1, <1>5, <1>6, <1>8
  <2>2. define_convective_faces(p, d, f, b) = define_convective_faces(Serial, d, F, B)
    BY <1>1, <1>8 DEF define_convective_faces
  <2> QED BY <1>7, <2>1, <2>2
<1>9. ASSUME mine = other
      PROVE  own_vector(p, d, f, b) = own_vector(Serial, d, F, B) /\ Around(p, d, f, b) = Around(Serial, d, F, B)
  <2>1. mine.diss = other.diss
    BY <1>9
  <2>2. dissipation("movers-le1", p, d, f, b) = dissipation("movers-le1", Serial, d, F, B)
    BY <1>7, <2>1
  <2>3. \A v, w, x : Reads(v, w, x, {}).vector = v /\ Reads(v, w, x, {}).cv = x
    BY DEF Reads
  <2> QED BY <1>5, <1>6, <2>2, <2>3
<1> QED BY <1>2, <1>3, <1>8, <1>9 DEF SameFlux, F, B

LEMMA Le1UpdatesAlike ==
    ASSUME Ready, NEW p \in Ranks, NEW s, s = "movers-le1", NEW c \in Reals(p), NEW r,
           \A q \in Procs : r[q] = assemble_rhs(q, s, "euler")
    PROVE  RowsAlike(p, c, r, r[Serial], AboveInterface(p) \cup NearBelow(p))
<1> DEFINE i == c[1]
           j == c[2]
           same(d, f, b) == SameFlux(p, s, "euler", d, f, b)
<1>0. Sized
  BY DEF Ready
<1>1. /\ i \in 0 .. nx - 1 /\ j \in 0 .. rows(p) - 1
      /\ r[p][c] = r[Serial][Global(p, c)] <=>
             same("i", i, j) /\ same("i", i + 1, j) /\ same("j", j, i) /\ same("j", j + 1, i)
  <2>1. i \in 0 .. nx - 1 /\ j \in 0 .. rows(p) - 1
    BY DEF Reals
  <2>2. r[p][c] = r[Serial][Global(p, c)] <=> SameFluxes(p, s, "euler", c)
    BY <1>0, UpdateIs
  <2> QED BY <2>1, <2>2 DEF SameFluxes
<1>2. rows(p) \in Nat /\ nx \in Nat
  BY <1>0, SlabIs
<1>3. /\ OnFace(p, "i", i, j) /\ OnFace(p, "i", i + 1, j)
      /\ OnFace(p, "j", j, i) /\ OnFace(p, "j", j + 1, i)
      /\ j # rows(p) /\ j + 1 # 0
      /\ j + 1 >= rows(p) - 1 <=> j = rows(p) - 1 \/ j = (rows(p) - 1) - 1
      /\ j >= rows(p) - 1 <=> j = rows(p) - 1
      /\ j + 1 = rows(p) => j = rows(p) - 1
  BY <1>1, <1>2 DEF OnFace
<1> HIDE DEF i, j
<1>4. \A d, f, b : OnFace(p, d, f, b) =>
          (same(d, f, b) <=> ~ (has_upper(p) /\ d = "j" /\ f = rows(p)) /\ ~ Reaches(p, d, f))
  BY Le1FluxAlike
<1>5. same("i", i, j) /\ same("i", i + 1, j)
  BY <1>3, <1>4 DEF Reaches
<1>6. same("j", j, i) <=> ~ (has_lower(p) /\ j = 0) /\ ~ (has_upper(p) /\ j = rows(p) - 1)
  <2>1. same("j", j, i) <=> ~ (has_upper(p) /\ "j" = "j" /\ j = rows(p)) /\ ~ Reaches(p, "j", j)
    BY <1>3, <1>4
  <2> QED BY <1>3, <2>1 DEF Reaches
<1>7. same("j", j + 1, i) <=> ~ (has_upper(p) /\ (j = rows(p) - 1 \/ j = (rows(p) - 1) - 1))
  <2>1. same("j", j + 1, i) <=> ~ (has_upper(p) /\ "j" = "j" /\ j + 1 = rows(p)) /\ ~ Reaches(p, "j", j + 1)
    BY <1>3, <1>4
  <2> QED BY <1>3, <2>1 DEF Reaches
<1>8. j \notin AboveInterface(p) \cup NearBelow(p) <=>
          ~ (has_lower(p) /\ j = 0) /\ ~ (has_upper(p) /\ (j = rows(p) - 1 \/ j = (rows(p) - 1) - 1))
  BY DEF AboveInterface, NearBelow, BelowInterface
<1> QED BY <1>1, <1>5, <1>6, <1>7, <1>8 DEF RowsAlike, i, j

------------------------------------------------------------------------------
(* The gradients.  A row of a slab is one of its own if it is beyond the grid *)
(* where the slab ends with the grid, too.                                    *)
Own(p, j) == j \in 0 .. rows(p) - 1 \/ j0(p) + j \notin 0 .. ny - 1

LEMMA OwnRow ==
    ASSUME NEW n \in Nat, n >= 1, NEW o \in Nat, NEW m \in Nat, o + n <= m,
           o + n # m => o + n <= m - 2, o # 0 => o >= 2, NEW j \in -2 .. n + 1,
           j \in 0 .. n - 1 \/ o + j \notin 0 .. m - 1
    PROVE  /\ o + j \in -2 .. m + 1
           /\ j < 0 => o = 0
           /\ j > n - 1 => o + n = m
           /\ j \in 0 .. n - 1 <=> o + j \in 0 .. m - 1
OBVIOUS

LEMMA ClampedRow ==
    ASSUME NEW n \in Nat, n >= 1, NEW o \in Nat, NEW m \in Nat, o + n <= m, NEW j \in Int,
           j < 0 => o = 0, j > n - 1 => o + n = m
    PROVE  Clamp(o + j, m - 1) = o + Clamp(j, n - 1)
BY DEF Clamp

LEMMA OwnAlike ==
    ASSUME Ready, NEW p \in Ranks, NEW i \in -2 .. nx + 1, NEW j \in -2 .. rows(p) + 1, Own(p, j)
    PROVE  /\ prim(p, i, j) = prim(Serial, i, j0(p) + j)
           /\ si(p, i, j) = si(Serial, i, j0(p) + j)
           /\ sj(p, i, j) = sj(Serial, i, j0(p) + j)
           /\ area(p, i, j) = area(Serial, i, j0(p) + j)
<1> DEFINE c == <<i, j>>
           g == <<i, j0(p) + j>>
<1>1. /\ p \in Procs /\ Serial \in Procs
      /\ rows(p) \in Nat /\ rows(p) >= 1 /\ j0(p) \in Nat /\ j0(p) + rows(p) <= ny
      /\ nx \in Nat /\ nx >= 1 /\ ny \in Nat
      /\ rows(Serial) = ny /\ j0(Serial) = 0
      /\ j0(p) + rows(p) # ny => j0(p) + rows(p) <= ny - 2
      /\ j0(p) # 0 => j0(p) >= 2
  BY SlabIs DEF Ready
<1>2. /\ j0(p) + j \in -2 .. ny + 1
      /\ j < 0 => j0(p) = 0
      /\ j > rows(p) - 1 => j0(p) + rows(p) = ny
  BY <1>1, OwnRow DEF Own
<1>3. c \in Places(p) /\ g \in Places(Serial) /\ Global(p, c) = g
  BY <1>1, <1>2 DEF Places, Global
<1>4. dv[p][c] = dv[Serial][g]
  <2>1. Stamped(p) /\ Stamped(Serial)
    BY <1>1 DEF Ready, AllStamped
  <2>2. c[2] \in 0 .. rows(p) - 1 \/ Global(p, c)[2] \notin 0 .. ny - 1
    BY <1>3 DEF Own
  <2> QED BY <1>3, <2>1, <2>2, StampedAlike DEF Ready, StampedAsSerial
<1>5. Clamp(j0(p) + j, ny - 1) = j0(p) + Clamp(j, rows(p) - 1)
  BY <1>1, <1>2, ClampedRow
<1>6. Clamp(j0(p) + j, ny - 1) \in Int
  BY <1>1, <1>2 DEF Clamp
<1>7. 0 + Clamp(j0(p) + j, ny - 1) = j0(p) + Clamp(j, rows(p) - 1)
  BY <1>5, <1>6
<1>8. \A name : metric(p, name, i, j) = metric(Serial, name, i, j0(p) + j)
  BY <1>1, <1>3, <1>7 DEF metric
<1> QED BY <1>3, <1>4, <1>8 DEF prim, si, sj, area

LEMMA SquareAlike ==
    ASSUME Ready, NEW p \in Ranks, NEW i \in 0 .. nx, NEW j \in 0 .. rows(p), Own(p, j - 1), Own(p, j)
    PROVE  square(p, i, j) = square(Serial, i, j0(p) + j)
<1>1. /\ i \in -2 .. nx + 1 /\ i - 1 \in -2 .. nx + 1
      /\ j \in -2 .. rows(p) + 1 /\ j - 1 \in -2 .. rows(p) + 1
      /\ j0(p) + (j - 1) = (j0(p) + j) - 1
  BY SlabIs DEF Ready
<1>2. prim(p, i, j) = prim(Serial, i, j0(p) + j) /\ prim(p, i - 1, j) = prim(Serial, i - 1, j0(p) + j)
  BY <1>1, OwnAlike
<1>3. /\ prim(p, i, j - 1) = prim(Serial, i, (j0(p) + j) - 1)
      /\ prim(p, i - 1, j - 1) = prim(Serial, i - 1, (j0(p) + j) - 1)
  BY <1>1, OwnAlike
<1> QED BY <1>2, <1>3 DEF square

(* The rows on both sides of a face or a row are the slab's own if no cell of *)
(* a neighbour is among them.                                                 *)
LEMMA OwnAround ==
    ASSUME Sized, NEW p \in Ranks, NEW f \in 0 .. rows(p), ~ Reaches(p, "j", f)
    PROVE  Own(p, f - 1) /\ Own(p, f) /\ Own(p, f + 1)
<1>1. /\ rows(p) \in Nat /\ rows(p) >= 1 /\ j0(p) \in Nat /\ j0(p) + rows(p) <= ny /\ ny \in Nat
      /\ has_upper(p) <=> j0(p) + rows(p) # ny
      /\ has_lower(p) <=> j0(p) # 0
      /\ j0(p) + rows(p) # ny => j0(p) + rows(p) <= ny - 2
      /\ j0(p) # 0 => j0(p) >= 2
  BY SlabIs
<1>2. ~ (j0(p) # 0 /\ f = 0) /\ ~ (j0(p) + rows(p) # ny /\ f >= rows(p) - 1)
  BY <1>1 DEF Reaches
<1>3. ~ \E x \in {f - 1, f, f + 1} : x \notin 0 .. rows(p) - 1 /\ j0(p) + x \in 0 .. ny - 1
  BY <1>1, <1>2, RowsReached
<1> QED BY <1>3 DEF Own

(* The parts of a gradient, one by one.                                       *)
IParts(p, j, cols)  == {Part({si(p, i, j), si(p, i + 1, j)}, {prim(p, i, j)}) : i \in cols}
JParts(p, j, cols)  == {Part({sj(p, i, j), sj(p, i - 1, j)}, square(p, i, j)) : i \in cols}
IEnd(p, f, j)       == {Part({si(p, f, j)}, {prim(p, f - 1, j), prim(p, f, j)})}
JEnd(p, j)          == {Part({sj(p, nx - 1, j)}, square(p, nx, j))}

LEMMA GradIIs ==
    ASSUME NEW p, NEW f, NEW j \in Int
    PROVE  gradfi(p, f, j) =
               IParts(p, j, {f - 1, f} \cap 0 .. nx - 1)
                   \cup JParts(p, j, {f} \cap 0 .. nx - 1) \cup JParts(p, j + 1, {f} \cap 0 .. nx - 1)
                   \cup (IF f \in {0, nx} THEN IEnd(p, f, j) ELSE {})
                   \cup (IF f = nx THEN JEnd(p, j) \cup JEnd(p, j + 1) ELSE {})
<1> DEFINE two == {f - 1, f} \cap 0 .. nx - 1
           one == {f} \cap 0 .. nx - 1
           P(i, jf) == Part({sj(p, i, jf), sj(p, i - 1, jf)}, square(p, i, jf))
           Q(jf) == Part({sj(p, nx - 1, jf)}, square(p, nx, jf))
           across == {P(i, jf) : i \in one, jf \in {j, j + 1}}
           last == {Q(jf) : jf \in {j, j + 1}}
<1>1. gradfi(p, f, j) =
          IParts(p, j, two) \cup across \cup (IF f \in {0, nx} THEN IEnd(p, f, j) ELSE {})
              \cup (IF f = nx THEN last ELSE {})
  BY DEF gradfi, IParts, IEnd
<1>2. JParts(p, j, one) = {P(i, j) : i \in one} /\ JParts(p, j + 1, one) = {P(i, j + 1) : i \in one}
  BY DEF JParts
<1>3. JEnd(p, j) = {Q(j)} /\ JEnd(p, j + 1) = {Q(j + 1)}
  BY DEF JEnd
<1> HIDE DEF two, one, P, Q
<1>4. across = JParts(p, j, one) \cup JParts(p, j + 1, one) /\ last = JEnd(p, j) \cup JEnd(p, j + 1)
  BY <1>2, <1>3
<1> HIDE DEF across, last
<1>5. gradfi(p, f, j) =
          IParts(p, j, two) \cup JParts(p, j, one) \cup JParts(p, j + 1, one)
              \cup (IF f \in {0, nx} THEN IEnd(p, f, j) ELSE {})
              \cup (IF f = nx THEN JEnd(p, j) \cup JEnd(p, j + 1) ELSE {})
  BY <1>1, <1>4
<1> QED BY <1>5 DEF two, one

LEMMA PartsAlike ==
    ASSUME Ready, NEW p \in Ranks, NEW j \in 0 .. rows(p), Own(p, j)
    PROVE  /\ \A cols \in SUBSET (0 .. nx - 1) : IParts(p, j, cols) = IParts(Serial, j0(p) + j, cols)
           /\ \A f \in 0 .. nx : IEnd(p, f, j) = IEnd(Serial, f, j0(p) + j)
           /\ Own(p, j - 1) =>
                  /\ \A cols \in SUBSET (0 .. nx - 1) : JParts(p, j, cols) = JParts(Serial, j0(p) + j, cols)
                  /\ JEnd(p, j) = JEnd(Serial, j0(p) + j)
<1>1. nx \in Nat /\ nx >= 1 /\ rows(p) \in Nat /\ j \in -2 .. rows(p) + 1
  BY SlabIs DEF Ready
<1>2. \A i \in -2 .. nx + 1 : /\ prim(p, i, j) = prim(Serial, i, j0(p) + j)
                              /\ si(p, i, j) = si(Serial, i, j0(p) + j)
                              /\ sj(p, i, j) = sj(Serial, i, j0(p) + j)
  BY <1>1, OwnAlike
<1>3. ASSUME NEW i \in 0 .. nx
      PROVE  i \in -2 .. nx + 1 /\ i - 1 \in -2 .. nx + 1 /\ i + 1 \in -2 .. nx + 1
  BY <1>1
<1>4. \A i \in 0 .. nx - 1 : i \in 0 .. nx
  BY <1>1
<1>5. ASSUME NEW cols \in SUBSET (0 .. nx - 1) PROVE IParts(p, j, cols) = IParts(Serial, j0(p) + j, cols)
  <2>1. \A i \in cols : /\ si(p, i, j) = si(Serial, i, j0(p) + j)
                        /\ si(p, i + 1, j) = si(Serial, i + 1, j0(p) + j)
                        /\ prim(p, i, j) = prim(Serial, i, j0(p) + j)
    BY <1>2, <1>3, <1>4
  <2> QED BY <2>1 DEF IParts
<1>6. ASSUME NEW f \in 0 .. nx PROVE IEnd(p, f, j) = IEnd(Serial, f, j0(p) + j)
  BY <1>2, <1>3 DEF IEnd
<1>7. ASSUME Own(p, j - 1), NEW i \in 0 .. nx PROVE square(p, i, j) = square(Serial, i, j0(p) + j)
  BY <1>7, SquareAlike
<1>8. ASSUME Own(p, j - 1), NEW cols \in SUBSET (0 .. nx - 1)
      PROVE  JParts(p, j, cols) = JParts(Serial, j0(p) + j, cols)
  <2>1. \A i \in cols : /\ sj(p, i, j) = sj(Serial, i, j0(p) + j)
                        /\ sj(p, i - 1, j) = sj(Serial, i - 1, j0(p) + j)
                        /\ square(p, i, j) = square(Serial, i, j0(p) + j)
    BY <1>2, <1>3, <1>4, <1>7, <1>8
  <2> QED BY <2>1 DEF JParts
<1>9. ASSUME Own(p, j - 1) PROVE JEnd(p, j) = JEnd(Serial, j0(p) + j)
  <2>1. nx \in 0 .. nx /\ nx - 1 \in -2 .. nx + 1
    BY <1>1
  <2>2. square(p, nx, j) = square(Serial, nx, j0(p) + j) /\ sj(p, nx - 1, j) = sj(Serial, nx - 1, j0(p) + j)
    BY <1>2, <1>7, <1>9, <2>1
  <2> QED BY <2>2 DEF JEnd
<1> QED BY <1>5, <1>6, <1>8, <1>9

LEMMA GradIAlike ==
    ASSUME Ready, NEW p \in Ranks, NEW f \in 0 .. nx, NEW j \in 0 .. rows(p) - 1, ~ Reaches(p, "j", j)
    PROVE  gradfi(p, f, j) = gradfi(Serial, f, j0(p) + j)
<1>1. /\ nx \in Nat /\ rows(p) \in Nat /\ j0(p) \in Nat
      /\ j \in 0 .. rows(p) /\ j + 1 \in 0 .. rows(p) /\ j \in Int /\ j0(p) + j \in Int
      /\ j0(p) + (j + 1) = (j0(p) + j) + 1 /\ (j + 1) - 1 = j
  BY SlabIs DEF Ready
<1>2. Own(p, j - 1) /\ Own(p, j) /\ Own(p, j + 1)
  BY <1>1, OwnAround DEF Ready
<1> DEFINE two == {f - 1, f} \cap 0 .. nx - 1
           one == {f} \cap 0 .. nx - 1
<1>3. two \in SUBSET (0 .. nx - 1) /\ one \in SUBSET (0 .. nx - 1)
  OBVIOUS
<1> HIDE DEF two, one
<1>4. /\ IParts(p, j, two) = IParts(Serial, j0(p) + j, two)
      /\ IEnd(p, f, j) = IEnd(Serial, f, j0(p) + j)
      /\ JParts(p, j, one) = JParts(Serial, j0(p) + j, one)
      /\ JEnd(p, j) = JEnd(Serial, j0(p) + j)
  BY <1>1, <1>2, <1>3, PartsAlike
<1>5. /\ JParts(p, j + 1, one) = JParts(Serial, (j0(p) + j) + 1, one)
      /\ JEnd(p, j + 1) = JEnd(Serial, (j0(p) + j) + 1)
  BY <1>1, <1>2, <1>3, PartsAlike
<1>6. gradfi(p, f, j) =
          IParts(p, j, two) \cup JParts(p, j, one) \cup JParts(p, j + 1, one)
              \cup (IF f \in {0, nx} THEN IEnd(p, f, j) ELSE {})
              \cup (IF f = nx THEN JEnd(p, j) \cup JEnd(p, j + 1) ELSE {})
  BY <1>1, GradIIs DEF two, one
<1> DEFINE g == j0(p) + j
<1>7. g \in Int
  BY <1>1
<1> HIDE DEF g
<1>8. gradfi(Serial, f, g) =
          IParts(Serial, g, two) \cup JParts(Serial, g, one) \cup JParts(Serial, g + 1, one)
              \cup (IF f \in {0, nx} THEN IEnd(Serial, f, g) ELSE {})
              \cup (IF f = nx THEN JEnd(Serial, g) \cup JEnd(Serial, g + 1) ELSE {})
  <2>1. gradfi(Serial, f, g) =
            IParts(Serial, g, {f - 1, f} \cap 0 .. nx - 1) \cup JParts(Serial, g, {f} \cap 0 .. nx - 1)
                \cup JParts(Serial, g + 1, {f} \cap 0 .. nx - 1)
                \cup (IF f \in {0, nx} THEN IEnd(Serial, f, g) ELSE {})
                \cup (IF f = nx THEN JEnd(Serial, g) \cup JEnd(Serial, g + 1) ELSE {})
    BY ONLY <1>7, GradIIs
  <2> QED BY ONLY <2>1 DEF two, one
<1>9. gradfi(p, f, j) = gradfi(Serial, f, g)
  BY ONLY <1>4, <1>5, <1>6, <1>8 DEF g
<1> QED BY <1>9 DEF g

VParts(p, i, R)  == {Part({sj(p, i, j), sj(p, i, j + 1)}, {prim(p, i, j)}) : j \in R}
HParts(p, i, j)  == {Part({si(p, k, j), si(p, k, j - 1)}, square(p, k, j)) : k \in {i, i + 1}}
Lowest(p, i)     == {Part({sj(p, i, 0)}, {prim(p, i, -1), prim(p, i, 0)})}
Highest(p, i, n) == {Part({sj(p, i, n)}, {prim(p, i, n - 1), prim(p, i, n)})}
                        \cup {Part({si(p, k, n - 1)}, square(p, k, n)) : k \in {i, i + 1}}

LEMMA GradJIs ==
    ASSUME NEW q, NEW i, NEW f, rows(q) \in Nat, f = 0 => ~ has_lower(q), f = rows(q) => ~ has_upper(q)
    PROVE  gradfj(q, i, f) =
               VParts(q, i, {f - 1, f} \cap 0 .. rows(q) - 1)
                   \cup (IF f \in 0 .. rows(q) - 1 THEN HParts(q, i, f) ELSE {})
                   \cup (IF f = 0 THEN Lowest(q, i) ELSE {})
                   \cup (IF f = rows(q) THEN Highest(q, i, rows(q)) ELSE {})
<1> DEFINE n == rows(q)
           P(k, j) == Part({si(q, k, j), si(q, k, j - 1)}, square(q, k, j))
           both == {P(k, j) : k \in {i, i + 1}, j \in {f} \cap 0 .. n - 1}
           bottom == IF f # 0 THEN {}
                     ELSE IF has_lower(q)
                       THEN {Part({sj_corrected(q, i, -1), sj_corrected(q, i, 0)}, {prim(q, i, -1)})}
                       ELSE Lowest(q, i)
           top == IF f # n THEN {}
                  ELSE IF has_upper(q)
                    THEN {Part({sj_corrected(q, i, n), sj_corrected(q, i, n + 1)}, {prim(q, i, n)})}
                    ELSE Highest(q, i, n)
<1>1. gradfj(q, i, f) = VParts(q, i, {f - 1, f} \cap 0 .. n - 1) \cup both \cup bottom \cup top
  BY DEF gradfj, VParts, Lowest, Highest
<1>2. HParts(q, i, f) = {P(k, f) : k \in {i, i + 1}}
  BY DEF HParts
<1>3. bottom = (IF f = 0 THEN Lowest(q, i) ELSE {}) /\ top = (IF f = n THEN Highest(q, i, n) ELSE {})
  OBVIOUS
<1> HIDE DEF P, bottom, top
<1>4. both = IF f \in 0 .. n - 1 THEN HParts(q, i, f) ELSE {}
  BY <1>2
<1> HIDE DEF both, n
<1>5. gradfj(q, i, f) = VParts(q, i, {f - 1, f} \cap 0 .. n - 1)
          \cup (IF f \in 0 .. n - 1 THEN HParts(q, i, f) ELSE {})
          \cup (IF f = 0 THEN Lowest(q, i) ELSE {})
          \cup (IF f = n THEN Highest(q, i, n) ELSE {})
  BY <1>1, <1>3, <1>4
<1> QED BY <1>5 DEF n

LEMMA VPartsAlike ==
    ASSUME Ready, NEW p \in Ranks, NEW i \in 0 .. nx - 1, NEW R \in SUBSET (0 .. rows(p) - 1),
           \A x \in R : Own(p, x + 1), NEW S, S = {j0(p) + x : x \in R}
    PROVE  VParts(p, i, R) = VParts(Serial, i, S)
<1>1. nx \in Nat /\ rows(p) \in Nat /\ j0(p) \in Nat
  BY SlabIs DEF Ready
<1>2. ASSUME NEW x \in R
      PROVE  /\ sj(p, i, x) = sj(Serial, i, j0(p) + x)
             /\ sj(p, i, x + 1) = sj(Serial, i, (j0(p) + x) + 1)
             /\ prim(p, i, x) = prim(Serial, i, j0(p) + x)
  <2>1. /\ i \in -2 .. nx + 1 /\ x \in 0 .. rows(p) - 1
        /\ x \in -2 .. rows(p) + 1 /\ x + 1 \in -2 .. rows(p) + 1
        /\ j0(p) + (x + 1) = (j0(p) + x) + 1
    BY <1>1
  <2>2. Own(p, x) /\ Own(p, x + 1)
    BY <2>1 DEF Own
  <2>3. sj(p, i, x + 1) = sj(Serial, i, j0(p) + (x + 1))
    BY <2>1, <2>2, OwnAlike
  <2> QED BY <2>1, <2>2, <2>3, OwnAlike
<1> DEFINE P(q, j) == Part({sj(q, i, j), sj(q, i, j + 1)}, {prim(q, i, j)})
<1>3. \A x \in R : P(p, x) = P(Serial, j0(p) + x)
  BY <1>2
<1>4. VParts(p, i, R) = {P(p, x) : x \in R} /\ VParts(Serial, i, S) = {P(Serial, y) : y \in S}
  BY DEF VParts
<1> HIDE DEF P
<1> QED BY <1>3, <1>4

LEMMA HPartsAlike ==
    ASSUME Ready, NEW p \in Ranks, NEW i \in 0 .. nx - 1, NEW j \in 0 .. rows(p), Own(p, j - 1), Own(p, j)
    PROVE  HParts(p, i, j) = HParts(Serial, i, j0(p) + j)
<1>1. /\ nx \in Nat /\ rows(p) \in Nat /\ j0(p) \in Nat
      /\ j \in -2 .. rows(p) + 1 /\ j - 1 \in -2 .. rows(p) + 1
      /\ j0(p) + (j - 1) = (j0(p) + j) - 1
      /\ \A k \in {i, i + 1} : k \in 0 .. nx /\ k \in -2 .. nx + 1
  BY SlabIs DEF Ready
<1>2. ASSUME NEW k \in {i, i + 1}
      PROVE  /\ si(p, k, j) = si(Serial, k, j0(p) + j)
             /\ si(p, k, j - 1) = si(Serial, k, (j0(p) + j) - 1)
             /\ square(p, k, j) = square(Serial, k, j0(p) + j)
  <2>1. si(p, k, j - 1) = si(Serial, k, j0(p) + (j - 1))
    BY <1>1, OwnAlike
  <2>2. si(p, k, j) = si(Serial, k, j0(p) + j)
    BY <1>1, OwnAlike
  <2>3. square(p, k, j) = square(Serial, k, j0(p) + j)
    BY <1>1, SquareAlike
  <2> QED BY <1>1, <2>1, <2>2, <2>3
<1> QED BY <1>2 DEF HParts

LEMMA EndsAlike ==
    ASSUME Ready, NEW p \in Ranks, NEW i \in 0 .. nx - 1
    PROVE  /\ Own(p, -1) => Lowest(p, i) = Lowest(Serial, i)
           /\ Own(p, rows(p)) => Highest(p, i, rows(p)) = Highest(Serial, i, j0(p) + rows(p))
<1>1. /\ nx \in Nat /\ rows(p) \in Nat /\ rows(p) >= 1 /\ j0(p) \in Nat /\ j0(p) + rows(p) <= ny
      /\ i \in -2 .. nx + 1 /\ i + 1 \in -2 .. nx + 1 /\ i \in 0 .. nx /\ i + 1 \in 0 .. nx
  BY SlabIs DEF Ready
<1>2. ASSUME Own(p, -1) PROVE Lowest(p, i) = Lowest(Serial, i)
  <2>1. j0(p) = 0
    <3>1. j0(p) # 0 => j0(p) >= 2
      BY SlabIs DEF Ready
    <3>2. j0(p) >= 2 => j0(p) + (-1) \in 0 .. ny - 1
      BY SlabIs DEF Ready
    <3>3. -1 \notin 0 .. rows(p) - 1
      BY <1>1
    <3> QED BY <1>2, <3>1, <3>2, <3>3 DEF Own
  <2>2. Own(p, 0) /\ 0 \in -2 .. rows(p) + 1 /\ -1 \in -2 .. rows(p) + 1
    BY <1>1 DEF Own
  <2>3. j0(p) + 0 = 0 /\ j0(p) + (-1) = -1
    BY <2>1
  <2>4. sj(p, i, 0) = sj(Serial, i, 0) /\ prim(p, i, 0) = prim(Serial, i, 0)
    BY <1>1, <2>2, <2>3, OwnAlike
  <2>5. prim(p, i, -1) = prim(Serial, i, -1)
    BY <1>1, <1>2, <2>2, <2>3, OwnAlike
  <2> QED BY <2>4, <2>5 DEF Lowest
<1>3. ASSUME Own(p, rows(p)) PROVE Highest(p, i, rows(p)) = Highest(Serial, i, j0(p) + rows(p))
  <2> DEFINE n == rows(p)
             m == j0(p) + n
  <2>1. /\ n \in 0 .. n /\ n - 1 \in 0 .. n - 1 /\ n \in -2 .. n + 1 /\ n - 1 \in -2 .. n + 1
        /\ j0(p) + (n - 1) = m - 1
    BY <1>1
  <2>2. Own(p, n - 1)
    BY <2>1 DEF Own
  <2>3. /\ sj(p, i, n) = sj(Serial, i, m) /\ prim(p, i, n) = prim(Serial, i, m)
        /\ prim(p, i, n - 1) = prim(Serial, i, m - 1)
    <3>1. prim(p, i, n - 1) = prim(Serial, i, j0(p) + (n - 1))
      BY <1>1, <2>1, <2>2, OwnAlike
    <3>2. sj(p, i, n) = sj(Serial, i, m) /\ prim(p, i, n) = prim(Serial, i, m)
      BY <1>1, <1>3, <2>1, OwnAlike
    <3> QED BY <2>1, <3>1, <3>2
  <2>4. ASSUME NEW k \in {i, i + 1}
        PROVE  si(p, k, n - 1) = si(Serial, k, m - 1) /\ square(p, k, n) = square(Serial, k, m)
    <3>1. k \in -2 .. nx + 1 /\ k \in 0 .. nx
      BY <1>1
    <3>2. si(p, k, n - 1) = si(Serial, k, j0(p) + (n - 1))
      BY <2>1, <2>2, <3>1, OwnAlike
    <3>3. square(p, k, n) = square(Serial, k, m)
      BY <1>3, <2>1, <2>2, <3>1, SquareAlike
    <3> QED BY <2>1, <3>2, <3>3
  <2> HIDE DEF n, m
  <2>5. Highest(p, i, n) = Highest(Serial, i, m)
    BY <2>3, <2>4 DEF Highest
  <2> QED BY <2>5 DEF n, m
<1> QED BY <1>2, <1>3

LEMMA ShiftedRows ==
    ASSUME NEW n \in Nat, n >= 1, NEW o \in Nat, NEW m \in Nat, o + n <= m, NEW f \in 0 .. n,
           \A x \in {f - 1, f} : x \in 0 .. n - 1 \/ o + x \notin 0 .. m - 1
    PROVE  {o + x : x \in {f - 1, f} \cap 0 .. n - 1} = {(o + f) - 1, o + f} \cap 0 .. m - 1
<1>1. /\ (o + f) - 1 = o + (f - 1)
      /\ f - 1 \in 0 .. n - 1 <=> o + (f - 1) \in 0 .. m - 1
      /\ f \in 0 .. n - 1 <=> o + f \in 0 .. m - 1
  OBVIOUS
<1> QED BY <1>1

LEMMA GradJAlike ==
    ASSUME Ready, NEW p \in Ranks, NEW i \in 0 .. nx - 1, NEW f \in 0 .. rows(p), ~ Reaches(p, "j", f)
    PROVE  gradfj(p, i, f) = gradfj(Serial, i, j0(p) + f)
<1> DEFINE n == rows(p)
           o == j0(p)
           g == o + f
           R == {f - 1, f} \cap 0 .. n - 1
           S == {g - 1, g} \cap 0 .. ny - 1
<1>1. /\ nx \in Nat /\ n \in Nat /\ n >= 1 /\ o \in Nat /\ o + n <= ny /\ ny \in Nat
      /\ rows(Serial) = ny
      /\ has_upper(p) <=> o + n # ny
      /\ has_lower(p) <=> o # 0
      /\ ~ has_lower(Serial) /\ ~ has_upper(Serial)
  BY SlabIs DEF Ready, has_lower, has_upper, mpi_mode
<1>2. Own(p, f - 1) /\ Own(p, f) /\ Own(p, f + 1)
  BY OwnAround DEF Ready
<1>3. f = 0 => ~ has_lower(p) /\ o = 0
  BY <1>1 DEF Reaches
<1>4. f = n => ~ has_upper(p) /\ o + n = ny
  BY <1>1 DEF Reaches
<1>5. VParts(p, i, R) = VParts(Serial, i, S)
  <2>1. S = {o + x : x \in R}
    BY <1>1, <1>2, ShiftedRows DEF Own
  <2>2. R \in SUBSET (0 .. n - 1)
    OBVIOUS
  <2>3. \A x \in R : Own(p, x + 1)
    <3>1. (f - 1) + 1 = f
      BY <1>1
    <3> QED BY <1>2, <3>1
  <2> HIDE DEF R, S
  <2> QED BY <2>1, <2>2, <2>3, VPartsAlike
<1>6. HParts(p, i, f) = HParts(Serial, i, g)
  BY <1>2, HPartsAlike
<1>7. f = 0 => Lowest(p, i) = Lowest(Serial, i)
  <2>1. f = 0 => f - 1 = -1
    OBVIOUS
  <2> QED BY <1>2, <2>1, EndsAlike
<1>8. f = n => Highest(p, i, n) = Highest(Serial, i, ny)
  BY <1>2, <1>4, EndsAlike
<1>9. /\ f \in 0 .. n - 1 <=> g \in 0 .. ny - 1
      /\ f = 0 <=> g = 0
      /\ f = n <=> g = ny
  BY <1>1, <1>3, <1>4
<1>10. gradfj(p, i, f) =
           VParts(p, i, R) \cup (IF f \in 0 .. n - 1 THEN HParts(p, i, f) ELSE {})
               \cup (IF f = 0 THEN Lowest(p, i) ELSE {}) \cup (IF f = n THEN Highest(p, i, n) ELSE {})
  <2>1. rows(p) \in Nat /\ (f = 0 => ~ has_lower(p)) /\ (f = rows(p) => ~ has_upper(p))
    BY <1>1, <1>3, <1>4
  <2> QED BY ONLY <2>1, GradJIs DEF R, n
<1> HIDE DEF g
<1>11. gradfj(Serial, i, g) =
           VParts(Serial, i, S) \cup (IF g \in 0 .. ny - 1 THEN HParts(Serial, i, g) ELSE {})
               \cup (IF g = 0 THEN Lowest(Serial, i) ELSE {}) \cup (IF g = ny THEN Highest(Serial, i, ny) ELSE {})
  <2>1. rows(Serial) \in Nat /\ (g = 0 => ~ has_lower(Serial)) /\ (g = rows(Serial) => ~ has_upper(Serial))
    BY <1>1
  <2>2. gradfj(Serial, i, g) =
               VParts(Serial, i, {g - 1, g} \cap 0 .. rows(Serial) - 1)
                   \cup (IF g \in 0 .. rows(Serial) - 1 THEN HParts(Serial, i, g) ELSE {})
                   \cup (IF g = 0 THEN Lowest(Serial, i) ELSE {})
                   \cup (IF g = rows(Serial) THEN Highest(Serial, i, rows(Serial)) ELSE {})
    BY ONLY <2>1, GradJIs
  <2>3. rows(Serial) = ny
    BY <1>1
  <2> QED BY ONLY <2>2, <2>3 DEF S
<1> HIDE DEF R, S, n, o
<1>12. gradfj(p, i, f) = gradfj(Serial, i, g)
  BY <1>5, <1>6, <1>7, <1>8, <1>9, <1>10, <1>11
<1> QED BY <1>12 DEF g, o

(* Where a slab reaches into another one, a vector is missing in its gradient *)
(* that the gradient of one process has.                                      *)
HasVector(g, v) == \E part \in g : v \in part[1]

LEMMA MetricRow ==
    ASSUME Sized, NEW q \in Procs, NEW name, NEW i \in Int, NEW j \in Int
    PROVE  /\ metric(q, name, i, j) = Outside
              \/ /\ metric(q, name, i, j)[1] = name
                 /\ metric(q, name, i, j)[3] = j0(q) + Clamp(j, rows(q) - 1)
           /\ Clamp(j, rows(q) - 1) \in 0 .. rows(q) - 1
<1>1. rows(q) \in Nat /\ rows(q) >= 1
  BY ProcRows
<1> QED BY <1>1 DEF metric, Clamp

LEMMA OutsideIsNoVector == Outside # <<"si", 0, 0>> /\ \A n, x, y : Outside # <<n, x, y>>
<1>1. \A n, x, y : Len(<<n, x, y>>) = 3
  OBVIOUS
<1>2. Len(Outside) = 1
  BY DEF Outside
<1> QED BY <1>1, <1>2

LEMMA NoSuchVector ==
    ASSUME Sized, NEW q \in Procs, NEW name, NEW x, NEW y, NEW other, NEW i \in Int, NEW j \in Int,
           name # other \/ j0(q) + Clamp(j, rows(q) - 1) # y
    PROVE  metric(q, other, i, j) # <<name, x, y>>
<1> SUFFICES ASSUME metric(q, other, i, j) = <<name, x, y>> PROVE FALSE
  OBVIOUS
<1>1. metric(q, other, i, j) # Outside
  BY OutsideIsNoVector
<1> QED BY <1>1, MetricRow

LEMMA GradJPart ==
    ASSUME NEW q, NEW i \in Int, NEW f \in Int, f # rows(q), NEW part \in gradfj(q, i, f)
    PROVE  \/ \E j \in Int : part = Part({sj(q, i, j), sj(q, i, j + 1)}, {prim(q, i, j)})
           \/ \E k, j \in Int : part = Part({si(q, k, j), si(q, k, j - 1)}, square(q, k, j))
           \/ part = Part({sj_corrected(q, i, -1), sj_corrected(q, i, 0)}, {prim(q, i, -1)})
           \/ part = Part({sj(q, i, 0)}, {prim(q, i, -1), prim(q, i, 0)})
<1> DEFINE n == rows(q)
           V(j) == Part({sj(q, i, j), sj(q, i, j + 1)}, {prim(q, i, j)})
           P(k, j) == Part({si(q, k, j), si(q, k, j - 1)}, square(q, k, j))
           met == Part({sj_corrected(q, i, -1), sj_corrected(q, i, 0)}, {prim(q, i, -1)})
           free == Part({sj(q, i, 0)}, {prim(q, i, -1), prim(q, i, 0)})
           up == {V(j) : j \in {f - 1, f} \cap 0 .. n - 1}
           both == {P(k, j) : k \in {i, i + 1}, j \in {f} \cap 0 .. n - 1}
           bottom == IF f # 0 THEN {} ELSE IF has_lower(q) THEN {met} ELSE {free}
           top == IF f # n THEN {}
                  ELSE IF has_upper(q)
                    THEN {Part({sj_corrected(q, i, n), sj_corrected(q, i, n + 1)}, {prim(q, i, n)})}
                    ELSE {Part({sj(q, i, n)}, {prim(q, i, n - 1), prim(q, i, n)})}
                         \cup {Part({si(q, k, n - 1)}, square(q, k, n)) : k \in {i, i + 1}}
<1>1. gradfj(q, i, f) = up \cup both \cup bottom \cup top
  BY DEF gradfj
<1>2. top = {} /\ bottom \subseteq {met, free}
  OBVIOUS
<1> HIDE DEF top, bottom, V, P, met, free
<1>3. \A x \in up : \E j \in Int : x = V(j)
  OBVIOUS
<1>4. \A x \in both : \E k, j \in Int : x = P(k, j)
  <2>1. \A k \in {i, i + 1} : k \in Int
    OBVIOUS
  <2>2. \A j \in {f} \cap 0 .. n - 1 : j \in Int
    OBVIOUS
  <2> QED BY <2>1, <2>2
<1> HIDE DEF up, both
<1> QED BY <1>1, <1>2, <1>3, <1>4 DEF V, P, met, free

LEMMA LowerFace ==
    ASSUME Ready, NEW p \in Ranks, NEW i \in 0 .. nx - 1, has_lower(p)
    PROVE  gradfj(p, i, 0) # gradfj(Serial, i, j0(p))
<1> DEFINE o == j0(p)
           v == <<"si", Clamp(i, nx - 1), o - 1>>
<1>1. /\ nx \in Nat /\ nx >= 1 /\ rows(p) \in Nat /\ rows(p) >= 1 /\ o \in Nat /\ o >= 2
      /\ o + rows(p) <= ny /\ ny \in Nat /\ rows(Serial) = ny /\ j0(Serial) = 0
      /\ p \in Procs /\ Serial \in Procs /\ Sized /\ i \in Int
  BY SlabIs DEF Ready
<1>2. HasVector(gradfj(Serial, i, o), v)
  <2>1. ~ has_lower(Serial) /\ ~ has_upper(Serial)
    BY DEF has_lower, has_upper, mpi_mode
  <2>2. HParts(Serial, i, o) \subseteq gradfj(Serial, i, o)
    <3>1. rows(Serial) \in Nat /\ o \in 0 .. rows(Serial) - 1
      BY <1>1
    <3> HIDE DEF o
    <3>2. gradfj(Serial, i, o) =
              VParts(Serial, i, {o - 1, o} \cap 0 .. rows(Serial) - 1)
                  \cup (IF o \in 0 .. rows(Serial) - 1 THEN HParts(Serial, i, o) ELSE {})
                  \cup (IF o = 0 THEN Lowest(Serial, i) ELSE {})
                  \cup (IF o = rows(Serial) THEN Highest(Serial, i, rows(Serial)) ELSE {})
      BY ONLY <2>1, <3>1, GradJIs
    <3> QED BY <3>1, <3>2
  <2>3. si(Serial, i, o - 1) = v
    <3>1. <<i, o - 1>> \in Places(Serial) /\ Clamp(o - 1, ny - 1) = o - 1 /\ 0 + (o - 1) = o - 1
      BY <1>1 DEF Places, Clamp
    <3> QED BY <1>1, <3>1 DEF si, metric
  <2> DEFINE part == Part({si(Serial, i, o), si(Serial, i, o - 1)}, square(Serial, i, o))
  <2>4. part \in HParts(Serial, i, o)
    BY DEF HParts
  <2>5. v \in part[1]
    BY <2>3 DEF Part
  <2> QED BY <2>2, <2>4, <2>5 DEF HasVector
<1>3. ~ HasVector(gradfj(p, i, 0), v)
  <2> SUFFICES ASSUME NEW part \in gradfj(p, i, 0), v \in part[1] PROVE FALSE
    BY DEF HasVector
  <2>1. \A x, y \in Int : sj(p, x, y) # v
    BY <1>1, NoSuchVector DEF sj
  <2>2. \A x, y \in Int : si(p, x, y) # v
    <3> SUFFICES ASSUME NEW x \in Int, NEW y \in Int PROVE si(p, x, y) # v
      OBVIOUS
    <3>1. Clamp(y, rows(p) - 1) \in 0 .. rows(p) - 1
      BY <1>1, MetricRow
    <3>2. o + Clamp(y, rows(p) - 1) # o - 1
      BY <1>1, <3>1
    <3> QED BY <1>1, <3>2, NoSuchVector DEF si
  <2>3. \A x, y \in Int : sj_corrected(p, x, y) # v
    BY <2>1 DEF sj_corrected
  <2>4. CASE \E j \in Int : part = Part({sj(p, i, j), sj(p, i, j + 1)}, {prim(p, i, j)})
    <3>1. PICK j \in Int : part = Part({sj(p, i, j), sj(p, i, j + 1)}, {prim(p, i, j)})
      BY <2>4
    <3>2. j + 1 \in Int
      OBVIOUS
    <3> QED BY <1>1, <2>1, <3>1, <3>2 DEF Part
  <2>5. CASE \E k, j \in Int : part = Part({si(p, k, j), si(p, k, j - 1)}, square(p, k, j))
    <3>1. PICK k \in Int, j \in Int : part = Part({si(p, k, j), si(p, k, j - 1)}, square(p, k, j))
      BY <2>5
    <3>2. j - 1 \in Int
      OBVIOUS
    <3> QED BY <2>2, <3>1, <3>2 DEF Part
  <2>6. CASE part = Part({sj_corrected(p, i, -1), sj_corrected(p, i, 0)}, {prim(p, i, -1)})
    BY <1>1, <2>3, <2>6 DEF Part
  <2>7. CASE part = Part({sj(p, i, 0)}, {prim(p, i, -1), prim(p, i, 0)})
    BY <1>1, <2>1, <2>7 DEF Part
  <2>8. 0 # rows(p) /\ 0 \in Int /\ i \in Int
    BY <1>1
  <2> QED BY <2>4, <2>5, <2>6, <2>7, <2>8, GradJPart
<1> QED BY <1>2, <1>3

LEMMA UpperFace ==
    ASSUME Ready, NEW p \in Ranks, NEW i \in 0 .. nx - 1, has_upper(p)
    PROVE  gradfj(p, i, rows(p) - 1) # gradfj(Serial, i, j0(p) + (rows(p) - 1))
<1> DEFINE o == j0(p)
           n == rows(p)
           v == <<"sj", i, o + n>>
<1>1. /\ nx \in Nat /\ nx >= 1 /\ n \in Nat /\ n >= 1 /\ o \in Nat
      /\ o + n <= ny - 2 /\ ny \in Nat /\ rows(Serial) = ny /\ j0(Serial) = 0
      /\ p \in Procs /\ Serial \in Procs /\ Sized /\ i \in Int
  BY SlabIs DEF Ready
<1>2. HasVector(gradfj(Serial, i, o + (n - 1)), v)
  <2> DEFINE g == o + (n - 1)
  <2>1. ~ has_lower(Serial) /\ ~ has_upper(Serial)
    BY DEF has_lower, has_upper, mpi_mode
  <2>2. VParts(Serial, i, {g - 1, g} \cap 0 .. ny - 1) \subseteq gradfj(Serial, i, g)
    <3>1. rows(Serial) \in Nat
      BY <1>1
    <3> HIDE DEF g
    <3>2. VParts(Serial, i, {g - 1, g} \cap 0 .. rows(Serial) - 1) \subseteq gradfj(Serial, i, g)
      BY <2>1, <3>1, GradJIs
    <3> QED BY <1>1, <3>2
  <2>3. g \in {g - 1, g} \cap 0 .. ny - 1 /\ g + 1 = o + n
    BY <1>1
  <2>4. sj(Serial, i, g + 1) = v
    <3>1. <<i, o + n>> \in Places(Serial) /\ Clamp(o + n, ny - 1) = o + n /\ 0 + (o + n) = o + n
          /\ Clamp(i, nx - 1) = i
      BY <1>1 DEF Places, Clamp
    <3> QED BY <1>1, <2>3, <3>1 DEF sj, metric
  <2> DEFINE part == Part({sj(Serial, i, g), sj(Serial, i, g + 1)}, {prim(Serial, i, g)})
  <2>5. part \in VParts(Serial, i, {g - 1, g} \cap 0 .. ny - 1)
    BY <2>3 DEF VParts
  <2>6. v \in part[1]
    BY <2>4 DEF Part
  <2> QED BY <2>2, <2>5, <2>6 DEF HasVector
<1>3. ~ HasVector(gradfj(p, i, n - 1), v)
  <2> SUFFICES ASSUME NEW part \in gradfj(p, i, n - 1), v \in part[1] PROVE FALSE
    BY DEF HasVector
  <2>1. \A x, y \in Int : si(p, x, y) # v
    BY <1>1, NoSuchVector DEF si
  <2>2. \A x, y \in Int : sj(p, x, y) # v
    <3> SUFFICES ASSUME NEW x \in Int, NEW y \in Int PROVE sj(p, x, y) # v
      OBVIOUS
    <3>1. Clamp(y, rows(p) - 1) \in 0 .. rows(p) - 1
      BY <1>1, MetricRow
    <3>2. o + Clamp(y, rows(p) - 1) # o + n
      BY <1>1, <3>1
    <3> QED BY <1>1, <3>2, NoSuchVector DEF sj
  <2>3. sj_corrected(p, i, -1) # v /\ sj_corrected(p, i, 0) # v
    <3>1. /\ o + (-1) # o + n /\ -1 # n + 1 /\ 0 # -1 /\ 0 # n + 1 /\ -1 \in Int /\ 0 \in Int
      BY <1>1
    <3>2. <<"sj", i, o + (-1)>> # v
      BY <3>1
    <3> QED BY <1>1, <2>2, <3>1, <3>2 DEF sj_corrected
  <2>4. CASE \E j \in Int : part = Part({sj(p, i, j), sj(p, i, j + 1)}, {prim(p, i, j)})
    <3>1. PICK j \in Int : part = Part({sj(p, i, j), sj(p, i, j + 1)}, {prim(p, i, j)})
      BY <2>4
    <3>2. j + 1 \in Int
      OBVIOUS
    <3> QED BY <1>1, <2>2, <3>1, <3>2 DEF Part
  <2>5. CASE \E k, j \in Int : part = Part({si(p, k, j), si(p, k, j - 1)}, square(p, k, j))
    <3>1. PICK k \in Int, j \in Int : part = Part({si(p, k, j), si(p, k, j - 1)}, square(p, k, j))
      BY <2>5
    <3>2. j - 1 \in Int
      OBVIOUS
    <3> QED BY <2>1, <3>1, <3>2 DEF Part
  <2>6. CASE part = Part({sj_corrected(p, i, -1), sj_corrected(p, i, 0)}, {prim(p, i, -1)})
    BY <2>3, <2>6 DEF Part
  <2>7. CASE part = Part({sj(p, i, 0)}, {prim(p, i, -1), prim(p, i, 0)})
    BY <1>1, <2>2, <2>7 DEF Part
  <2>8. n - 1 # n /\ n - 1 \in Int /\ i \in Int
    BY <1>1
  <2> QED BY <2>4, <2>5, <2>6, <2>7, <2>8, GradJPart
<1> QED BY <1>2, <1>3

(* What the gradients are divided by is the same everywhere.                  *)
LEMMA VolumesAlike ==
    ASSUME Ready, NEW p \in Ranks
    PROVE  /\ \A f \in 0 .. nx : \A j \in 0 .. rows(p) - 1 : rvol_i(p, f, j) = rvol_i(Serial, f, j0(p) + j)
           /\ \A i \in 0 .. nx - 1 : \A f \in 0 .. rows(p) : rvol_j(p, i, f) = rvol_j(Serial, i, j0(p) + f)
<1> DEFINE n == rows(p)
           o == j0(p)
<1>1. /\ nx \in Nat /\ nx >= 1 /\ n \in Nat /\ n >= 1 /\ o \in Nat
      /\ o + n <= ny /\ ny \in Nat /\ rows(Serial) = ny /\ j0(Serial) = 0
      /\ has_upper(p) <=> o + n # ny
      /\ has_lower(p) <=> o # 0
      /\ ~ has_lower(Serial) /\ ~ has_upper(Serial)
  BY SlabIs DEF Ready, has_lower, has_upper, mpi_mode
<1>2. ASSUME NEW f \in 0 .. nx, NEW j \in 0 .. n - 1
      PROVE  rvol_i(p, f, j) = rvol_i(Serial, f, o + j)
  <2>1. j \in -2 .. rows(p) + 1 /\ Own(p, j)
    BY <1>1 DEF Own
  <2>2. \A i \in {f - 1, f} \cap 0 .. nx - 1 : i \in -2 .. nx + 1
    BY <1>1
  <2>3. \A i \in {f - 1, f} \cap 0 .. nx - 1 : area(p, i, j) = area(Serial, i, o + j)
    BY <2>1, <2>2, OwnAlike
  <2> QED BY <2>3 DEF rvol_i
<1>3. ASSUME NEW i \in 0 .. nx - 1, NEW f \in 0 .. n
      PROVE  rvol_j(p, i, f) = rvol_j(Serial, i, o + f)
  <2> DEFINE lo == IF has_lower(p) THEN -1 ELSE 0
             hi == IF has_upper(p) THEN n ELSE n - 1
             T(y) == <<"area", i, y>>
  <2>1. rvol_j(p, i, f) = {T(o + j) : j \in {f - 1, f} \cap lo .. hi}
    BY DEF rvol_j
  <2>2. rvol_j(Serial, i, o + f) = {T(0 + j) : j \in {(o + f) - 1, o + f} \cap 0 .. ny - 1}
    BY <1>1 DEF rvol_j
  <2>3. /\ (o + f) - 1 = o + (f - 1)
        /\ f - 1 \in lo .. hi <=> o + (f - 1) \in 0 .. ny - 1
        /\ f \in lo .. hi <=> o + f \in 0 .. ny - 1
        /\ 0 + (o + (f - 1)) = o + (f - 1) /\ 0 + (o + f) = o + f
    BY <1>1
  <2> HIDE DEF T, lo, hi, o, n
  <2> QED BY <2>1, <2>2, <2>3
<1> QED BY <1>2, <1>3

gradient(p, d, f, b) == IF d = "i" THEN gradfi(p, f, b) ELSE gradfj(p, b, f)
volume(p, d, f, b)   == IF d = "i" THEN rvol_i(p, f, b) ELSE rvol_j(p, b, f)

LEMMA VolumeAlike ==
    ASSUME Ready, NEW p \in Ranks, NEW d, NEW f, NEW b, OnFace(p, d, f, b)
    PROVE  volume(p, d, f, b) = volume(Serial, d, Up(p, d) + f, Across(p, d) + b)
<1>1. rows(p) \in Nat /\ nx \in Nat /\ j0(p) \in Nat
  BY SlabIs DEF Ready
<1>2. CASE d = "i"
  <2>1. f \in 0 .. nx /\ b \in 0 .. rows(p) - 1 /\ 0 + f = f
    BY <1>1, <1>2 DEF OnFace
  <2> QED BY <1>2, <2>1, VolumesAlike DEF volume, Up, Across
<1>3. CASE d = "j"
  <2>1. f \in 0 .. rows(p) /\ b \in 0 .. nx - 1 /\ 0 + b = b
    BY <1>1, <1>3 DEF OnFace
  <2> QED BY <1>3, <2>1, VolumesAlike DEF volume, Up, Across
<1> QED BY <1>2, <1>3 DEF OnFace

(* A viscous flux differs where its vector or its gradient does.              *)
LEMMA ViscousFluxAlike ==
    ASSUME Ready, NEW p \in Ranks, NEW d, NEW f, NEW b, OnFace(p, d, f, b),
           NEW s \in Straight \ {"movers-le1"}
    PROVE  SameFlux(p, s, "navier-stokes", d, f, b)
               <=> /\ ~ (has_upper(p) /\ d = "j" /\ f = rows(p))
                   /\ gradient(p, d, f, b) = gradient(Serial, d, Up(p, d) + f, Across(p, d) + b)
<1> DEFINE F == Up(p, d) + f
           B == Across(p, d) + b
           mine == flux(p, s, "navier-stokes", d, f, b)
           other == flux(Serial, s, "navier-stokes", d, F, B)
           viscous(q, x, y) == [vector |-> own_vector(q, d, x, y), dv |-> pair(q, d, x, y),
                                grad |-> gradient(q, d, x, y), rvol |-> volume(q, d, x, y)]
<1>1. pair(p, d, f, b) = pair(Serial, d, F, B) /\ muscl(p, d, f, b) = muscl(Serial, d, F, B)
  BY StencilsAlike
<1>2. own_vector(p, d, f, b) = own_vector(Serial, d, F, B) <=> ~ (has_upper(p) /\ d = "j" /\ f = rows(p))
  BY VectorsAlike DEF Ready
<1>3. volume(p, d, f, b) = volume(Serial, d, F, B)
  BY VolumeAlike
<1> HIDE DEF F, B
<1>4. s \in {"llf", "nkfds-movers", "llf-2o", "nkfds-movers-2o", "roe-2o", "movers"}
  BY StraightAre
<1>5. \A q, x, y : accumulate_viscous_flux(q, d, x, y) = viscous(q, x, y)
  BY DEF accumulate_viscous_flux, gradient, volume
<1>6. /\ mine = [average |-> define_convective_faces(p, d, f, b),
                 diss |-> dissipation(s, p, d, f, b), viscous |-> viscous(p, f, b)]
      /\ other = [average |-> define_convective_faces(Serial, d, F, B),
                  diss |-> dissipation(s, Serial, d, F, B), viscous |-> viscous(Serial, F, B)]
  <2>1. \A q, x, y : flux(q, s, "navier-stokes", d, x, y) =
            [average |-> define_convective_faces(q, d, x, y),
             diss |-> dissipation(s, q, d, x, y), viscous |-> accumulate_viscous_flux(q, d, x, y)]
    BY DEF flux
  <2> HIDE DEF viscous
  <2> QED BY <1>5, <2>1
<1>7. ASSUME own_vector(p, d, f, b) = own_vector(Serial, d, F, B),
             gradient(p, d, f, b) = gradient(Serial, d, F, B)
      PROVE  mine = other
  <2>1. dissipation(s, p, d, f, b) = dissipation(s, Serial, d, F, B)
    BY <1>1, <1>4, <1>7, StraightReads
  <2>2. define_convective_faces(p, d, f, b) = define_convective_faces(Serial, d, F, B)
    BY <1>1, <1>7 DEF define_convective_faces
  <2>3. viscous(p, f, b) = viscous(Serial, F, B)
    BY <1>1, <1>3, <1>7
  <2> HIDE DEF viscous, mine, other
  <2> QED BY <1>6, <2>1, <2>2, <2>3
<1>8. ASSUME mine = other
      PROVE  /\ own_vector(p, d, f, b) = own_vector(Serial, d, F, B)
             /\ gradient(p, d, f, b) = gradient(Serial, d, F, B)
  <2>1. mine.viscous = other.viscous
    BY <1>8
  <2>2. mine.viscous = viscous(p, f, b) /\ other.viscous = viscous(Serial, F, B)
    <3> HIDE DEF viscous, mine, other
    <3> QED BY <1>6
  <2>3. \A q, x, y : viscous(q, x, y).vector = own_vector(q, d, x, y) /\ viscous(q, x, y).grad = gradient(q, d, x, y)
    OBVIOUS
  <2> HIDE DEF viscous, mine, other
  <2> QED BY <2>1, <2>2, <2>3
<1> HIDE DEF mine, other
<1>9. mine = other <=> /\ ~ (has_upper(p) /\ d = "j" /\ f = rows(p))
                       /\ gradient(p, d, f, b) = gradient(Serial, d, F, B)
  BY <1>2, <1>7, <1>8
<1> QED BY <1>9 DEF SameFlux, F, B, mine, other

LEMMA ViscousUpdatesAlike ==
    ASSUME Ready, NEW p \in Ranks, NEW s \in Straight \ {"movers-le1"}, NEW c \in Reals(p), NEW r,
           \A q \in Procs : r[q] = assemble_rhs(q, s, "navier-stokes")
    PROVE  RowsAlike(p, c, r, r[Serial], AboveInterface(p) \cup NearBelow(p))
<1> DEFINE i == c[1]
           j == c[2]
           n == rows(p)
           same(d, f, b) == SameFlux(p, s, "navier-stokes", d, f, b)
           grads(d, f, b) == gradient(p, d, f, b) = gradient(Serial, d, Up(p, d) + f, Across(p, d) + b)
           above == has_lower(p) /\ j = 0
           below == has_upper(p) /\ (j = n - 1 \/ j = (n - 1) - 1)
<1>1. /\ n \in Nat /\ nx \in Nat /\ j0(p) \in Nat /\ Sized
      /\ i \in 0 .. nx - 1 /\ j \in 0 .. n - 1
  BY SlabIs DEF Ready, Reals
<1>2. r[p][c] = r[Serial][Global(p, c)] <=>
          same("i", i, j) /\ same("i", i + 1, j) /\ same("j", j, i) /\ same("j", j + 1, i)
  <2>1. r[p][c] = r[Serial][Global(p, c)] <=> SameFluxes(p, s, "navier-stokes", c)
    BY <1>1, UpdateIs
  <2> QED BY <2>1 DEF SameFluxes
<1>3. /\ OnFace(p, "i", i, j) /\ OnFace(p, "i", i + 1, j)
      /\ OnFace(p, "j", j, i) /\ OnFace(p, "j", j + 1, i)
  BY <1>1 DEF OnFace
<1>4. /\ i \in 0 .. nx /\ i + 1 \in 0 .. nx /\ j \in 0 .. n /\ j + 1 \in 0 .. n
      /\ 0 + i = i /\ 0 + (i + 1) = i + 1 /\ j # n /\ j + 1 # 0
      /\ j + 1 >= n - 1 <=> j = n - 1 \/ j = (n - 1) - 1
      /\ j >= n - 1 <=> j = n - 1
      /\ j + 1 = n <=> j = n - 1
      /\ j = (n - 1) - 1 => j + 1 = n - 1
  BY <1>1
<1> HIDE DEF i, j, n
<1>5. /\ same("i", i, j) <=> grads("i", i, j)
      /\ same("i", i + 1, j) <=> grads("i", i + 1, j)
      /\ same("j", j, i) <=> grads("j", j, i)
      /\ same("j", j + 1, i) <=> ~ (has_upper(p) /\ j = n - 1) /\ grads("j", j + 1, i)
  <2>1. \A d, f, b : OnFace(p, d, f, b) => (same(d, f, b) <=> ~ (has_upper(p) /\ d = "j" /\ f = n) /\ grads(d, f, b))
    BY ViscousFluxAlike DEF n
  <2> HIDE DEF same, grads
  <2> QED BY <1>3, <1>4, <2>1
<1>6. /\ grads("i", i, j) <=> gradfi(p, i, j) = gradfi(Serial, i, j0(p) + j)
      /\ grads("i", i + 1, j) <=> gradfi(p, i + 1, j) = gradfi(Serial, i + 1, j0(p) + j)
      /\ grads("j", j, i) <=> gradfj(p, i, j) = gradfj(Serial, i, j0(p) + j)
      /\ grads("j", j + 1, i) <=> gradfj(p, i, j + 1) = gradfj(Serial, i, j0(p) + (j + 1))
  BY <1>4 DEF gradient, Up, Across
<1> HIDE DEF same, grads
<1>7. ASSUME ~ above, ~ below
      PROVE  same("i", i, j) /\ same("i", i + 1, j) /\ same("j", j, i) /\ same("j", j + 1, i)
  <2>1. ~ Reaches(p, "j", j) /\ ~ Reaches(p, "j", j + 1) /\ ~ (has_upper(p) /\ j = n - 1)
    BY <1>4, <1>7 DEF Reaches, n
  <2>2. grads("i", i, j) /\ grads("i", i + 1, j)
    BY <1>1, <1>4, <1>6, <2>1, GradIAlike DEF n
  <2>3. grads("j", j, i) /\ grads("j", j + 1, i)
    BY <1>1, <1>4, <1>6, <2>1, GradJAlike DEF n
  <2> QED BY <1>5, <2>1, <2>2, <2>3
<1>8. ASSUME above PROVE ~ same("j", j, i)
  <2>1. j0(p) + 0 = j0(p)
    BY <1>1
  <2> QED BY <1>1, <1>5, <1>6, <1>8, <2>1, LowerFace
<1>9. ASSUME below PROVE ~ same("j", j + 1, i)
  <2>1. CASE j = n - 1
    BY <1>5, <1>9, <2>1
  <2>2. CASE j = (n - 1) - 1
    <3>1. j + 1 = n - 1
      BY <1>4, <2>2
    <3>2. gradfj(p, i, n - 1) # gradfj(Serial, i, j0(p) + (n - 1))
      BY <1>1, <1>9, UpperFace DEF n
    <3> QED BY <1>5, <1>6, <3>1, <3>2
  <2> QED BY <1>9, <2>1, <2>2
<1>10. j \notin AboveInterface(p) \cup NearBelow(p) <=> ~ above /\ ~ below
  BY DEF AboveInterface, NearBelow, BelowInterface, n
<1> HIDE DEF above, below
<1>11. r[p][c] = r[Serial][Global(p, c)] <=> j \notin AboveInterface(p) \cup NearBelow(p)
  BY <1>2, <1>7, <1>8, <1>9, <1>10
<1> QED BY <1>11 DEF RowsAlike, j

------------------------------------------------------------------------------
(* What the fluxes are made of has been set.                                  *)
LEMMA CellsSet ==
    ASSUME Sized, IInv, PassInv, Covering, AllStamped, KeepToSlab, NEW q \in Procs,
           NEW d, NEW f, NEW b, OnFace(q, d, f, b), NEW x \in f - 2 .. f + 1
    PROVE  cell(q, d, x, b) \notin Unset
<1>1. rows(q) \in Nat /\ rows(q) >= 1 /\ nx \in Nat /\ nx >= 1 /\ Stamped(q)
  BY ProcRows DEF Sized, AllStamped
<1>2. CASE d = "i"
  <2>1. f \in 0 .. nx /\ b \in 0 .. rows(q) - 1
    BY <1>2 DEF OnFace
  <2>2. x \in -2 .. nx + 1 /\ b \in -2 .. rows(q) + 1
    BY <1>1, <2>1
  <2> DEFINE c == <<x, b>>
  <2>3. c \in Places(q) /\ c[2] \in 0 .. rows(q) - 1
    BY <2>1, <2>2 DEF Places
  <2> HIDE DEF c
  <2>4. dv[q][c] \notin Unset
    BY <1>1, <2>3, GhostsSet
  <2> QED BY <1>2, <2>3, <2>4 DEF cell, ix, jx, prim, c
<1>3. CASE d = "j"
  <2>1. f \in 0 .. rows(q) /\ b \in 0 .. nx - 1
    BY <1>3 DEF OnFace
  <2>2. x \in -2 .. rows(q) + 1 /\ b \in -2 .. nx + 1
    BY <1>1, <2>1
  <2> DEFINE c == <<b, x>>
  <2>3. c \in Places(q) /\ c[1] \in 0 .. nx - 1
    BY <2>1, <2>2 DEF Places
  <2> HIDE DEF c
  <2>4. dv[q][c] \notin Unset
    BY <1>1, <2>3, GhostsSet
  <2> QED BY <1>3, <2>3, <2>4 DEF cell, ix, jx, prim, c
<1> QED BY <1>2, <1>3 DEF OnFace

LEMMA StencilsSet ==
    ASSUME Sized, IInv, PassInv, Covering, AllStamped, KeepToSlab, NEW q \in Procs,
           NEW d, NEW f, NEW b, OnFace(q, d, f, b)
    PROVE  /\ Unset \cap pair(q, d, f, b) = {}
           /\ Unset \cap muscl(q, d, f, b) = {}
<1>1. f \in Int /\ f >= 0
  BY ProcRows DEF OnFace, Sized
<1>2. /\ f - 2 \in f - 2 .. f + 1 /\ f - 1 \in f - 2 .. f + 1
      /\ f \in f - 2 .. f + 1 /\ f + 1 \in f - 2 .. f + 1
  BY <1>1
<1>3. /\ cell(q, d, f - 2, b) \notin Unset /\ cell(q, d, f - 1, b) \notin Unset
      /\ cell(q, d, f, b) \notin Unset /\ cell(q, d, f + 1, b) \notin Unset
  BY <1>2, CellsSet
<1>4. Unset \cap pair(q, d, f, b) = {}
  BY <1>3 DEF pair
<1>5. /\ primitive_differences(q, d, f - 1, b) = {cell(q, d, f - 2, b), cell(q, d, f - 1, b)}
      /\ primitive_differences(q, d, f, b) = {cell(q, d, f - 1, b), cell(q, d, f, b)}
      /\ primitive_differences(q, d, f + 1, b) = {cell(q, d, f, b), cell(q, d, f + 1, b)}
  BY ONLY <1>1, DifferencesIs
<1>6. muscl(q, d, f, b) =
          pair(q, d, f, b) \cup primitive_differences(q, d, f - 1, b)
              \cup primitive_differences(q, d, f, b) \cup primitive_differences(q, d, f + 1, b)
  BY ONLY <1>1, MusclIs
<1> QED BY <1>3, <1>4, <1>5, <1>6

LEMMA MetricSet ==
    ASSUME NEW q, NEW name, NEW i, NEW j
    PROVE  /\ <<i, j>> \in Places(q) => metric(q, name, i, j) \notin Unset /\ metric(q, name, i, j) # Outside
           /\ <<i, j>> \notin Places(q) => metric(q, name, i, j) = Outside
<1>1. Outside \in Unset
  BY DEF Unset
<1> QED BY <1>1, MarkIsUnset DEF metric

LEMMA VectorSet ==
    ASSUME Sized, NEW q \in Procs, NEW d, NEW f, NEW b, OnFace(q, d, f, b)
    PROVE  own_vector(q, d, f, b) \notin Unset
<1>1. rows(q) \in Nat /\ nx \in Nat
  BY ProcRows DEF Sized
<1>2. CASE d = "i"
  <2>1. <<f, b>> \in Places(q)
    BY <1>1, <1>2 DEF OnFace, Places
  <2> QED BY <1>2, <2>1, MetricSet DEF own_vector, si
<1>3. CASE d = "j"
  <2>1. <<b, f>> \in Places(q)
    BY <1>1, <1>3 DEF OnFace, Places
  <2> QED BY <1>3, <2>1, MetricSet DEF own_vector, sj
<1> QED BY <1>2, <1>3 DEF OnFace

LEMMA FluxSet ==
    ASSUME Sized, IInv, PassInv, Covering, AllStamped, KeepToSlab, NEW q \in Procs,
           NEW d, NEW f, NEW b, OnFace(q, d, f, b), NEW s \in Straight \ {"movers-le1"}
    PROVE  Set(flux(q, s, "euler", d, f, b))
<1> DEFINE v == own_vector(q, d, f, b)
           x == flux(q, s, "euler", d, f, b)
<1>1. v \notin Unset
  BY VectorSet
<1>2. Unset \cap pair(q, d, f, b) = {} /\ Unset \cap muscl(q, d, f, b) = {}
  BY StencilsSet
<1>3. s \in {"llf", "nkfds-movers", "llf-2o", "nkfds-movers-2o", "roe-2o", "movers"}
  BY StraightAre
<1>4. \/ dissipation(s, q, d, f, b) = Reads(v, pair(q, d, f, b), {}, {})
      \/ dissipation(s, q, d, f, b) = Reads(v, muscl(q, d, f, b), {}, {})
  BY <1>3, StraightReads
<1>5. \A a, c : Reads(a, c, {}, {}).vector = a /\ Reads(a, c, {}, {}).dv = c
  BY DEF Reads
<1>6. /\ x.average = Reads(v, pair(q, d, f, b), {}, {})
      /\ x.diss = dissipation(s, q, d, f, b)
  BY DEF flux, define_convective_faces
<1> HIDE DEF x, v
<1>7. /\ x.average.dv = pair(q, d, f, b) /\ x.average.vector = v
      /\ x.diss.vector = v
      /\ x.diss.dv = pair(q, d, f, b) \/ x.diss.dv = muscl(q, d, f, b)
  BY <1>4, <1>5, <1>6
<1>8. Set(x)
  BY <1>1, <1>2, <1>7 DEF Set
<1> QED BY <1>8 DEF x

(* The schemes with one loop for both directions.                             *)
LEMMA TransposedReads ==
    ASSUME NEW s \in Transposed, NEW q, NEW e, NEW d, NEW f, NEW b
    PROVE  flux(q, s, e, d, f, b).diss.vector = sv(q, d, f, b)
<1>1. \A a, c, x, w : Reads(a, c, x, w).vector = a
  BY DEF Reads
<1>2. flux(q, s, e, d, f, b).diss = dissipation(s, q, d, f, b)
  BY DEF flux
<1>3. dissipation(s, q, d, f, b).vector = sv(q, d, f, b)
  BY <1>1 DEF Transposed, dissipation, movers_h1_dissipation, movers_h2_dissipation,
       movers_le2_dissipation, movers_nwsc_dissipation, roe_tv_dissipation, roe_tv_2o_dissipation,
       kfds_dissipation_first_order, kfds_dissipation_second_order, eccs_dissipation
<1> QED BY <1>2, <1>3

LEMMA BeyondCanvas ==
    ASSUME NEW n \in Nat, n >= 1, NEW m \in Nat, m >= 1
    PROVE  (\E i \in 0 .. m - 1, j \in 0 .. n - 1 :
                ~ (j \in -2 .. m + 1 /\ i \in -2 .. n + 1) \/ ~ (j + 1 \in -2 .. m + 1 /\ i \in -2 .. n + 1))
               <=> n > m + 1 \/ m - 1 > n + 1
<1>1. ASSUME n > m + 1
      PROVE  0 \in 0 .. m - 1 /\ n - 1 \in 0 .. n - 1 /\ (n - 1) + 1 \notin -2 .. m + 1
  BY <1>1
<1>2. ASSUME m - 1 > n + 1 PROVE m - 1 \in 0 .. m - 1 /\ 0 \in 0 .. n - 1 /\ m - 1 \notin -2 .. n + 1
  BY <1>2
<1>3. ASSUME NEW i \in 0 .. m - 1, NEW j \in 0 .. n - 1,
             ~ (j \in -2 .. m + 1 /\ i \in -2 .. n + 1) \/ ~ (j + 1 \in -2 .. m + 1 /\ i \in -2 .. n + 1)
      PROVE  n > m + 1 \/ m - 1 > n + 1
  BY <1>3
<1> QED BY <1>1, <1>2, <1>3

(* The fluxes a cell adds up, and where their faces are.                      *)
LEMMA SidesAre ==
    ASSUME Sized, NEW q \in Procs, NEW s, NEW e, NEW c \in Reals(q), NEW r,
           r[q] = assemble_rhs(q, s, e)
    PROVE  /\ r[q][c]["w"] = flux(q, s, e, "i", c[1], c[2])
           /\ r[q][c]["e"] = flux(q, s, e, "i", c[1] + 1, c[2])
           /\ r[q][c]["s"] = flux(q, s, e, "j", c[2], c[1])
           /\ r[q][c]["n"] = flux(q, s, e, "j", c[2] + 1, c[1])
           /\ OnFace(q, "i", c[1], c[2]) /\ OnFace(q, "i", c[1] + 1, c[2])
           /\ OnFace(q, "j", c[2], c[1]) /\ OnFace(q, "j", c[2] + 1, c[1])
           /\ c[1] \in 0 .. nx - 1 /\ c[2] \in 0 .. rows(q) - 1
<1>1. rows(q) \in Nat /\ nx \in Nat
  BY ProcRows DEF Sized
<1>2. c[1] \in 0 .. nx - 1 /\ c[2] \in 0 .. rows(q) - 1
  BY DEF Reals
<1>3. /\ OnFace(q, "i", c[1], c[2]) /\ OnFace(q, "i", c[1] + 1, c[2])
      /\ OnFace(q, "j", c[2], c[1]) /\ OnFace(q, "j", c[2] + 1, c[1])
  BY <1>1, <1>2 DEF OnFace
<1>4. r[q][c] = [w |-> flux(q, s, e, "i", c[1], c[2]), e |-> flux(q, s, e, "i", c[1] + 1, c[2]),
                 s |-> flux(q, s, e, "j", c[2], c[1]), n |-> flux(q, s, e, "j", c[2] + 1, c[1])]
  BY DEF assemble_rhs
<1>5. /\ r[q][c]["w"] = flux(q, s, e, "i", c[1], c[2])
      /\ r[q][c]["e"] = flux(q, s, e, "i", c[1] + 1, c[2])
      /\ r[q][c]["s"] = flux(q, s, e, "j", c[2], c[1])
      /\ r[q][c]["n"] = flux(q, s, e, "j", c[2] + 1, c[1])
  BY <1>4
<1> QED BY <1>2, <1>3, <1>5

LEMMA FluxesSet ==
    ASSUME Sized, IInv, PassInv, Covering, AllStamped, KeepToSlab, NEW s, NEW e, NEW r,
           \A q \in Procs : r[q] = assemble_rhs(q, s, e)
    PROVE  MadeOfSet(s, e, r)
<1> SUFFICES ASSUME s \in Straight \ {"movers-le1"}, e = "euler",
                    NEW q \in Procs, NEW c \in Reals(q), NEW side \in Sides
             PROVE  Set(r[q][c][side])
  BY DEF MadeOfSet
<1>1. r[q] = assemble_rhs(q, s, "euler")
  OBVIOUS
<1>2. /\ r[q][c]["w"] = flux(q, s, "euler", "i", c[1], c[2])
      /\ r[q][c]["e"] = flux(q, s, "euler", "i", c[1] + 1, c[2])
      /\ r[q][c]["s"] = flux(q, s, "euler", "j", c[2], c[1])
      /\ r[q][c]["n"] = flux(q, s, "euler", "j", c[2] + 1, c[1])
      /\ OnFace(q, "i", c[1], c[2]) /\ OnFace(q, "i", c[1] + 1, c[2])
      /\ OnFace(q, "j", c[2], c[1]) /\ OnFace(q, "j", c[2] + 1, c[1])
  BY <1>1, SidesAre
<1>3. Set(r[q][c]["w"]) /\ Set(r[q][c]["e"])
  BY <1>2, FluxSet
<1>4. Set(r[q][c]["s"]) /\ Set(r[q][c]["n"])
  BY <1>2, FluxSet
<1> QED BY <1>3, <1>4 DEF Sides

LEMMA VectorsBeyond ==
    ASSUME Sized, NEW s, NEW e, NEW r, \A q \in Procs : r[q] = assemble_rhs(q, s, e)
    PROVE  ReadsBeyond(s, e, r)
<1> SUFFICES ASSUME s \in Transposed, e = "euler", NEW q \in Procs
             PROVE  (\E c \in Reals(q) : \E side \in Sides : r[q][c][side].diss.vector = Outside)
                        <=> rows(q) > nx + 1 \/ nx - 1 > rows(q) + 1
  BY DEF ReadsBeyond
<1> DEFINE v(c, side) == r[q][c][side].diss.vector
           beyond(i, j) == \/ ~ (j \in -2 .. nx + 1 /\ i \in -2 .. rows(q) + 1)
                           \/ ~ (j + 1 \in -2 .. nx + 1 /\ i \in -2 .. rows(q) + 1)
<1>1. rows(q) \in Nat /\ rows(q) >= 1 /\ nx \in Nat /\ nx >= 1
  BY ProcRows DEF Sized
<1>2. r[q] = assemble_rhs(q, s, e)
  OBVIOUS
<1>3. ASSUME NEW c \in Reals(q)
      PROVE  (\E side \in Sides : v(c, side) = Outside) <=> beyond(c[1], c[2])
  <2>1. /\ r[q][c]["w"] = flux(q, s, e, "i", c[1], c[2])
        /\ r[q][c]["e"] = flux(q, s, e, "i", c[1] + 1, c[2])
        /\ r[q][c]["s"] = flux(q, s, e, "j", c[2], c[1])
        /\ r[q][c]["n"] = flux(q, s, e, "j", c[2] + 1, c[1])
        /\ c[1] \in 0 .. nx - 1 /\ c[2] \in 0 .. rows(q) - 1
    BY <1>2, SidesAre
  <2>2. /\ v(c, "w") = sv(q, "i", c[1], c[2]) /\ v(c, "e") = sv(q, "i", c[1] + 1, c[2])
        /\ v(c, "s") = sv(q, "j", c[2], c[1]) /\ v(c, "n") = sv(q, "j", c[2] + 1, c[1])
    BY <2>1, TransposedReads
  <2>3. <<c[1], c[2]>> \in Places(q) /\ <<c[1] + 1, c[2]>> \in Places(q)
    BY <1>1, <2>1 DEF Places
  <2>4. v(c, "w") # Outside /\ v(c, "e") # Outside
    BY <2>2, <2>3, MetricSet DEF sv, si
  <2>5. v(c, "s") = Outside <=> <<c[2], c[1]>> \notin Places(q)
    BY <2>2, MetricSet DEF sv, sj
  <2>6. v(c, "n") = Outside <=> <<c[2] + 1, c[1]>> \notin Places(q)
    BY <2>2, MetricSet DEF sv, sj
  <2>7. \A a, b : <<a, b>> \in Places(q) <=> a \in -2 .. nx + 1 /\ b \in -2 .. rows(q) + 1
    BY DEF Places
  <2> HIDE DEF v
  <2>8. (\E side \in Sides : v(c, side) = Outside) <=> v(c, "s") = Outside \/ v(c, "n") = Outside
    BY <2>4 DEF Sides
  <2> QED BY <2>5, <2>6, <2>7, <2>8
<1>4. (\E c \in Reals(q) : beyond(c[1], c[2])) <=> \E i \in 0 .. nx - 1, j \in 0 .. rows(q) - 1 : beyond(i, j)
  <2>1. ASSUME NEW c \in Reals(q) PROVE c[1] \in 0 .. nx - 1 /\ c[2] \in 0 .. rows(q) - 1
    BY DEF Reals
  <2>2. ASSUME NEW i \in 0 .. nx - 1, NEW j \in 0 .. rows(q) - 1
        PROVE  <<i, j>> \in Reals(q) /\ <<i, j>>[1] = i /\ <<i, j>>[2] = j
    BY DEF Reals
  <2> HIDE DEF beyond
  <2> QED BY <2>1, <2>2
<1>5. (\E i \in 0 .. nx - 1, j \in 0 .. rows(q) - 1 : beyond(i, j))
          <=> rows(q) > nx + 1 \/ nx - 1 > rows(q) + 1
  BY <1>1, BeyondCanvas
<1> HIDE DEF beyond
<1> QED BY <1>3, <1>4, <1>5

------------------------------------------------------------------------------
(* Gradients on a grid whose faces are all alike.                             *)
LEMMA DeepRows ==
    ASSUME Sized, NEW p \in Ranks
    PROVE  rows(p) >= 2
<1>1. p \in 0 .. nranks - 1 /\ p \in Procs
  BY DEF Ranks, Procs
<1>4. mpi_mode(p)
  BY <1>1, ProcRows
<1> DEFINE d == make(ny, nranks, p)
<1>2. d.j0 \in Nat /\ d.j1 \in Nat /\ d.j1 >= d.j0 + 2
  BY <1>1, SlabRows, DeepSlab DEF Sized
<1> HIDE DEF d
<1>3. j0(p) = d.j0 /\ j1(p) = d.j1
  BY <1>4 DEF j0, j1, slab, d
<1> QED BY <1>2, <1>3 DEF rows

LEMMA VectorNames ==
    ASSUME NEW q, NEW i, NEW j, <<i, j>> \in Places(q)
    PROVE  si(q, i, j)[1] = "si" /\ sj(q, i, j)[1] = "sj"
BY DEF si, sj, metric

Stripped(part) == Part({v[1] : v \in part[1]}, part[2])

LEMMA BareIs ==
    /\ \A A, B : bare(A \cup B) = bare(A) \cup bare(B)
    /\ \A part : bare({part}) = {Stripped(part)}
    /\ bare({}) = {}
    /\ \A vectors, cells : Stripped(Part(vectors, cells)) = Part({v[1] : v \in vectors}, cells)
    /\ \A parts : bare(parts) = {Stripped(part) : part \in parts}
<1>1. \A parts : bare(parts) = {Stripped(part) : part \in parts}
  BY DEF bare, Stripped
<1>2. \A vectors, cells : Stripped(Part(vectors, cells)) = Part({v[1] : v \in vectors}, cells)
  BY DEF Stripped, Part
<1> QED BY <1>1, <1>2

LEMMA NamesOf ==
    ASSUME NEW vectors, NEW name, vectors # {}, \A v \in vectors : v[1] = name, NEW cells
    PROVE  Stripped(Part(vectors, cells)) = Part({name}, cells)
<1>1. {v[1] : v \in vectors} = {name}
  OBVIOUS
<1> QED BY <1>1, BareIs

(* What is left of the gradient in an i-face.                                 *)
BareI(q, f, j) ==
    {Part({"si"}, {prim(q, i, j)}) : i \in {f - 1, f} \cap 0 .. nx - 1}
        \cup {Part({"sj"}, square(q, f, j)), Part({"sj"}, square(q, f, j + 1))}
        \cup (IF f \in {0, nx} THEN {Part({"si"}, {prim(q, f - 1, j), prim(q, f, j)})} ELSE {})

LEMMA BareIIs ==
    ASSUME Sized, NEW q \in Procs, NEW f \in 0 .. nx, NEW j \in 0 .. rows(q) - 1
    PROVE  bare(gradfi(q, f, j)) = BareI(q, f, j)
<1>1. rows(q) \in Nat /\ rows(q) >= 1 /\ nx \in Nat /\ nx >= 1
  BY ProcRows DEF Sized
<1> DEFINE two == {f - 1, f} \cap 0 .. nx - 1
           one == {f} \cap 0 .. nx - 1
<1>2. \A i \in -1 .. nx : \A k \in {j, j + 1} : si(q, i, k)[1] = "si" /\ sj(q, i, k)[1] = "sj"
  <2>1. ASSUME NEW i \in -1 .. nx, NEW k \in {j, j + 1} PROVE <<i, k>> \in Places(q)
    BY <1>1 DEF Places
  <2> QED BY <2>1, VectorNames
<1>3. bare(IParts(q, j, two)) = {Part({"si"}, {prim(q, i, j)}) : i \in two}
  <2> DEFINE P(i) == Part({si(q, i, j), si(q, i + 1, j)}, {prim(q, i, j)})
             B(i) == Part({"si"}, {prim(q, i, j)})
  <2>1. ASSUME NEW i \in two PROVE Stripped(P(i)) = B(i)
    <3>1. i \in -1 .. nx /\ i + 1 \in -1 .. nx
      BY <1>1
    <3> DEFINE vectors == {si(q, i, j), si(q, i + 1, j)}
               cells == {prim(q, i, j)}
    <3>2. vectors # {} /\ \A v \in vectors : v[1] = "si"
      BY <1>2, <3>1
    <3> HIDE DEF vectors, cells
    <3>3. Stripped(Part(vectors, cells)) = Part({"si"}, cells)
      BY ONLY <3>2, NamesOf
    <3> QED BY ONLY <3>3 DEF vectors, cells
  <2>2. IParts(q, j, two) = {P(i) : i \in two}
    BY DEF IParts
  <2> HIDE DEF P, B, two
  <2>3. bare(IParts(q, j, two)) = {Stripped(part) : part \in {P(i) : i \in two}}
    BY <2>2, BareIs
  <2>4. {Stripped(part) : part \in {P(i) : i \in two}} = {B(i) : i \in two}
    BY <2>1
  <2> QED BY <2>3, <2>4 DEF B
<1>4. ASSUME NEW k \in {j, j + 1}
      PROVE  bare(JParts(q, k, one)) \cup (IF f = nx THEN bare(JEnd(q, k)) ELSE {}) = {Part({"sj"}, square(q, f, k))}
  <2>1. CASE f = nx
    <3>1. one = {}
      BY <1>1, <2>1
    <3>2. JParts(q, k, one) = {}
      BY <3>1 DEF JParts
    <3>3. Stripped(Part({sj(q, nx - 1, k)}, square(q, nx, k))) = Part({"sj"}, square(q, nx, k))
      <4> DEFINE vectors == {sj(q, nx - 1, k)}
      <4>1. vectors # {} /\ \A v \in vectors : v[1] = "sj"
        BY <1>1, <1>2
      <4> HIDE DEF vectors
      <4>2. Stripped(Part(vectors, square(q, nx, k))) = Part({"sj"}, square(q, nx, k))
        BY ONLY <4>1, NamesOf
      <4> QED BY ONLY <4>2 DEF vectors
    <3>5. bare(JEnd(q, k)) = {Part({"sj"}, square(q, nx, k))} /\ bare({}) = {}
      BY <3>3, BareIs DEF JEnd
    <3> QED BY <2>1, <3>2, <3>5
  <2>2. CASE f # nx
    <3>1. one = {f} /\ f \in -1 .. nx /\ f - 1 \in -1 .. nx
      BY <1>1, <2>2
    <3>2. JParts(q, k, one) = {Part({sj(q, f, k), sj(q, f - 1, k)}, square(q, f, k))}
      BY <3>1 DEF JParts
    <3>3. Stripped(Part({sj(q, f, k), sj(q, f - 1, k)}, square(q, f, k))) = Part({"sj"}, square(q, f, k))
      <4> DEFINE vectors == {sj(q, f, k), sj(q, f - 1, k)}
      <4>1. vectors # {} /\ \A v \in vectors : v[1] = "sj"
        BY <1>2, <3>1
      <4> HIDE DEF vectors
      <4>2. Stripped(Part(vectors, square(q, f, k))) = Part({"sj"}, square(q, f, k))
        BY ONLY <4>1, NamesOf
      <4> QED BY ONLY <4>2 DEF vectors
    <3>4. bare(JParts(q, k, one)) = {Part({"sj"}, square(q, f, k))}
      BY <3>2, <3>3, BareIs
    <3> QED BY <2>2, <3>4
  <2> QED BY <2>1, <2>2
<1>5. bare(IEnd(q, f, j)) = {Part({"si"}, {prim(q, f - 1, j), prim(q, f, j)})}
  <2>1. f \in -1 .. nx
    BY <1>1
  <2>2. Stripped(Part({si(q, f, j)}, {prim(q, f - 1, j), prim(q, f, j)}))
            = Part({"si"}, {prim(q, f - 1, j), prim(q, f, j)})
    <3> DEFINE vectors == {si(q, f, j)}
               cells == {prim(q, f - 1, j), prim(q, f, j)}
    <3>1. vectors # {} /\ \A v \in vectors : v[1] = "si"
      BY <1>2, <2>1
    <3> HIDE DEF vectors, cells
    <3>2. Stripped(Part(vectors, cells)) = Part({"si"}, cells)
      BY ONLY <3>1, NamesOf
    <3> QED BY ONLY <3>2 DEF vectors, cells
  <2> QED BY <2>2, BareIs DEF IEnd
<1>6. gradfi(q, f, j) =
          IParts(q, j, two) \cup JParts(q, j, one) \cup JParts(q, j + 1, one)
              \cup (IF f \in {0, nx} THEN IEnd(q, f, j) ELSE {})
              \cup (IF f = nx THEN JEnd(q, j) \cup JEnd(q, j + 1) ELSE {})
  BY GradIIs
<1>7. BareI(q, f, j) =
          {Part({"si"}, {prim(q, i, j)}) : i \in two}
              \cup {Part({"sj"}, square(q, f, j))} \cup {Part({"sj"}, square(q, f, j + 1))}
              \cup (IF f \in {0, nx} THEN {Part({"si"}, {prim(q, f - 1, j), prim(q, f, j)})} ELSE {})
  BY DEF BareI
<1> HIDE DEF two, one
<1>8. bare(gradfi(q, f, j)) =
          bare(IParts(q, j, two)) \cup bare(JParts(q, j, one)) \cup bare(JParts(q, j + 1, one))
              \cup (IF f \in {0, nx} THEN bare(IEnd(q, f, j)) ELSE {})
              \cup (IF f = nx THEN bare(JEnd(q, j)) \cup bare(JEnd(q, j + 1)) ELSE {})
  BY ONLY <1>6, BareIs
<1>9. /\ bare(JParts(q, j, one)) \cup (IF f = nx THEN bare(JEnd(q, j)) ELSE {}) = {Part({"sj"}, square(q, f, j))}
      /\ bare(JParts(q, j + 1, one)) \cup (IF f = nx THEN bare(JEnd(q, j + 1)) ELSE {})
             = {Part({"sj"}, square(q, f, j + 1))}
  BY <1>4
<1>10. bare(gradfi(q, f, j)) =
           bare(IParts(q, j, two))
               \cup (bare(JParts(q, j, one)) \cup (IF f = nx THEN bare(JEnd(q, j)) ELSE {}))
               \cup (bare(JParts(q, j + 1, one)) \cup (IF f = nx THEN bare(JEnd(q, j + 1)) ELSE {}))
               \cup (IF f \in {0, nx} THEN bare(IEnd(q, f, j)) ELSE {})
  BY ONLY <1>8
<1> QED BY ONLY <1>3, <1>5, <1>7, <1>9, <1>10

(* What is left of the gradient in a j-face, but for the lowest and highest of *)
(* the grid, and the highest of a slab below another one.                     *)
BareJ(q, i, f) ==
    {Part({"sj"}, {prim(q, i, f - 1)}), Part({"sj"}, {prim(q, i, f)}),
     Part({"si"}, square(q, i, f)), Part({"si"}, square(q, i + 1, f))}

LEMMA BareJIs ==
    ASSUME Sized, NEW q \in Procs, NEW i \in 0 .. nx - 1, NEW f \in 0 .. rows(q) - 1,
           f # 0 \/ has_lower(q)
    PROVE  bare(gradfj(q, i, f)) = BareJ(q, i, f)
<1>1. rows(q) \in Nat /\ rows(q) >= 1 /\ nx \in Nat /\ nx >= 1
  BY ProcRows DEF Sized
<1> DEFINE V(j) == Part({sj(q, i, j), sj(q, i, j + 1)}, {prim(q, i, j)})
           H(k) == Part({si(q, k, f), si(q, k, f - 1)}, square(q, k, f))
           low == Part({sj_corrected(q, i, -1), sj_corrected(q, i, 0)}, {prim(q, i, -1)})
           L == IF f = 0 THEN low ELSE V(f - 1)
           under == {V(j) : j \in {f - 1, f} \cap 0 .. rows(q) - 1}
           beside == {H(k) : k \in {i, i + 1}}
           bottom == IF f # 0 THEN {}
                     ELSE IF has_lower(q) THEN {low}
                     ELSE {Part({sj(q, i, 0)}, {prim(q, i, -1), prim(q, i, 0)})}
<1>2. gradfj(q, i, f) = under \cup beside \cup (IF f = 0 THEN {low} ELSE {})
  <2> DEFINE P(k, j) == Part({si(q, k, j), si(q, k, j - 1)}, square(q, k, j))
             both == {P(k, j) : k \in {i, i + 1}, j \in {f} \cap 0 .. rows(q) - 1}
  <2>1. both = beside
    <3>1. {f} \cap 0 .. rows(q) - 1 = {f}
      OBVIOUS
    <3>2. \A k : P(k, f) = H(k)
      OBVIOUS
    <3> HIDE DEF P, H
    <3> QED BY <3>1, <3>2
  <2>2. f # rows(q)
    BY <1>1
  <2>3. gradfj(q, i, f) = under \cup both \cup bottom
    BY <2>2 DEF gradfj
  <2>4. bottom = IF f = 0 THEN {low} ELSE {}
    OBVIOUS
  <2> HIDE DEF both, beside, under, bottom, low
  <2> QED BY <2>1, <2>3, <2>4
<1>3. under = IF f = 0 THEN {V(f)} ELSE {V(f - 1), V(f)}
  <2>1. {f - 1, f} \cap 0 .. rows(q) - 1 = IF f = 0 THEN {f} ELSE {f - 1, f}
    BY <1>1
  <2> HIDE DEF V
  <2> QED BY <2>1
<1>4. beside = {H(i), H(i + 1)}
  <2> HIDE DEF H
  <2> QED OBVIOUS
<1>5. gradfj(q, i, f) = {L, V(f), H(i), H(i + 1)}
  <2> HIDE DEF V, H, low, under, beside
  <2> QED BY <1>2, <1>3, <1>4
<1>6. \A a \in 0 .. nx : \A b \in -1 .. rows(q) : si(q, a, b)[1] = "si" /\ sj(q, a, b)[1] = "sj"
  <2>1. ASSUME NEW a \in 0 .. nx, NEW b \in -1 .. rows(q) PROVE <<a, b>> \in Places(q)
    BY <1>1 DEF Places
  <2> QED BY <2>1, VectorNames
<1>7. i \in 0 .. nx /\ i + 1 \in 0 .. nx /\ f \in -1 .. rows(q) /\ f - 1 \in -1 .. rows(q)
      /\ f + 1 \in -1 .. rows(q) /\ (f - 1) + 1 = f /\ -1 \in -1 .. rows(q) /\ 0 \in -1 .. rows(q)
  BY <1>1
<1>8. Stripped(L) = Part({"sj"}, {prim(q, i, f - 1)})
  <2> DEFINE vectors == IF f = 0 THEN {sj_corrected(q, i, -1), sj_corrected(q, i, 0)}
                        ELSE {sj(q, i, f - 1), sj(q, i, (f - 1) + 1)}
             cells == {prim(q, i, f - 1)}
  <2>1. sj_corrected(q, i, -1)[1] = "sj" /\ sj_corrected(q, i, 0)[1] = "sj"
    BY <1>6, <1>7 DEF sj_corrected
  <2>2. vectors # {} /\ \A v \in vectors : v[1] = "sj"
    BY <1>6, <1>7, <2>1
  <2>3. L = Part(vectors, cells)
    <3>1. f = 0 => f - 1 = -1
      OBVIOUS
    <3> QED BY <3>1
  <2> HIDE DEF vectors, cells, L
  <2>4. Stripped(Part(vectors, cells)) = Part({"sj"}, cells)
    BY ONLY <2>2, NamesOf
  <2>5. Stripped(L) = Part({"sj"}, cells)
    BY ONLY <2>3, <2>4
  <2> QED BY ONLY <2>5 DEF cells
<1>9. Stripped(V(f)) = Part({"sj"}, {prim(q, i, f)})
  <2> DEFINE vectors == {sj(q, i, f), sj(q, i, f + 1)}
             cells == {prim(q, i, f)}
  <2>1. vectors # {} /\ \A v \in vectors : v[1] = "sj"
    BY <1>6, <1>7
  <2> HIDE DEF vectors, cells
  <2>2. Stripped(Part(vectors, cells)) = Part({"sj"}, cells)
    BY ONLY <2>1, NamesOf
  <2> QED BY ONLY <2>2 DEF vectors, cells
<1>10. \A k \in {i, i + 1} : Stripped(H(k)) = Part({"si"}, square(q, k, f))
  <2> SUFFICES ASSUME NEW k \in {i, i + 1} PROVE Stripped(H(k)) = Part({"si"}, square(q, k, f))
    OBVIOUS
  <2> DEFINE vectors == {si(q, k, f), si(q, k, f - 1)}
  <2>1. vectors # {} /\ \A v \in vectors : v[1] = "si"
    BY <1>6, <1>7
  <2> HIDE DEF vectors
  <2>2. Stripped(Part(vectors, square(q, k, f))) = Part({"si"}, square(q, k, f))
    BY ONLY <2>1, NamesOf
  <2> QED BY ONLY <2>2 DEF vectors
<1> HIDE DEF L, V, H
<1>11. bare({L, V(f), H(i), H(i + 1)}) = {Stripped(L), Stripped(V(f)), Stripped(H(i)), Stripped(H(i + 1))}
  BY BareIs
<1> QED BY <1>5, <1>8, <1>9, <1>10, <1>11 DEF BareJ

LEMMA SquareInside ==
    ASSUME Ready, NEW p \in Ranks, NEW i \in 1 .. nx - 1, NEW j \in 0 .. rows(p)
    PROVE  square(p, i, j) = square(Serial, i, j0(p) + j)
<1>1. /\ i \in 0 .. nx - 1 /\ i - 1 \in 0 .. nx - 1 /\ i \in -2 .. nx + 1 /\ i - 1 \in -2 .. nx + 1
      /\ j \in -2 .. rows(p) + 1 /\ j - 1 \in -2 .. rows(p) + 1
      /\ j0(p) + (j - 1) = (j0(p) + j) - 1
  BY SlabIs DEF Ready
<1>2. prim(p, i, j) = prim(Serial, i, j0(p) + j) /\ prim(p, i - 1, j) = prim(Serial, i - 1, j0(p) + j)
  BY <1>1, PrimsAlike
<1>3. /\ prim(p, i, j - 1) = prim(Serial, i, (j0(p) + j) - 1)
      /\ prim(p, i - 1, j - 1) = prim(Serial, i - 1, (j0(p) + j) - 1)
  BY <1>1, PrimsAlike
<1> QED BY <1>2, <1>3 DEF square

(* In an i-face only the ghost corners can make a difference.                 *)
LEMMA BareIAlike ==
    ASSUME Ready, NEW p \in Ranks, NEW f \in 0 .. nx, NEW j \in 0 .. rows(p) - 1,
           f \in {0, nx} => ~ Reaches(p, "j", j)
    PROVE  bare(gradfi(p, f, j)) = bare(gradfi(Serial, f, j0(p) + j))
<1>1. CASE f \in {0, nx}
  BY <1>1, GradIAlike
<1>2. CASE f \notin {0, nx}
  <2> DEFINE g == j0(p) + j
  <2>1. /\ Sized /\ p \in Procs /\ Serial \in Procs
        /\ nx \in Nat /\ rows(p) \in Nat /\ j0(p) \in Nat /\ j0(p) + rows(p) <= ny
        /\ rows(Serial) = ny /\ ny \in Nat
    BY SlabIs DEF Ready
  <2>2. /\ f \in 1 .. nx - 1 /\ j \in 0 .. rows(p) /\ j + 1 \in 0 .. rows(p)
        /\ g \in 0 .. rows(Serial) - 1 /\ j0(p) + (j + 1) = g + 1
        /\ j \in -2 .. rows(p) + 1
    BY <1>2, <2>1
  <2>3. square(p, f, j) = square(Serial, f, g) /\ square(p, f, j + 1) = square(Serial, f, g + 1)
    BY <2>2, SquareInside
  <2>4. \A i \in {f - 1, f} \cap 0 .. nx - 1 : prim(p, i, j) = prim(Serial, i, g)
    <3>1. \A i \in 0 .. nx - 1 : i \in -2 .. nx + 1
      BY <2>1
    <3> QED BY <2>2, <3>1, PrimsAlike
  <2>5. bare(gradfi(p, f, j)) = BareI(p, f, j) /\ bare(gradfi(Serial, f, g)) = BareI(Serial, f, g)
    BY <2>1, <2>2, BareIIs
  <2> HIDE DEF g
  <2>6. BareI(p, f, j) = BareI(Serial, f, g)
    <3> DEFINE R == {f - 1, f} \cap 0 .. nx - 1
               mine(i) == Part({"si"}, {prim(p, i, j)})
               other(i) == Part({"si"}, {prim(Serial, i, g)})
    <3>1. \A i \in R : mine(i) = other(i)
      BY <2>4
    <3>2. /\ BareI(p, f, j) = {mine(i) : i \in R}
                 \cup {Part({"sj"}, square(p, f, j)), Part({"sj"}, square(p, f, j + 1))}
          /\ BareI(Serial, f, g) = {other(i) : i \in R}
                 \cup {Part({"sj"}, square(Serial, f, g)), Part({"sj"}, square(Serial, f, g + 1))}
      BY <1>2 DEF BareI
    <3> HIDE DEF R, mine, other
    <3>3. {mine(i) : i \in R} = {other(i) : i \in R}
      BY <3>1
    <3> QED BY <2>3, <3>2, <3>3
  <2> QED BY <2>5, <2>6 DEF g
<1> QED BY <1>1, <1>2

LEMMA PartsEqual ==
    ASSUME NEW a, NEW b, NEW c, NEW d, Part(a, b) = Part(c, d)
    PROVE  a = c /\ b = d
<1>1. Part(a, b)[1] = a /\ Part(a, b)[2] = b /\ Part(c, d)[1] = c /\ Part(c, d)[2] = d
  BY DEF Part
<1> QED BY <1>1

(* The ghost corner below the first row of a slab is still free; one process  *)
(* has set what it has there.                                                 *)
LEMMA BareIDiffers ==
    ASSUME Ready, Covering, NEW p \in Ranks, has_lower(p), NEW f \in {0, nx}
    PROVE  bare(gradfi(p, f, 0)) # bare(gradfi(Serial, f, j0(p) + 0))
<1> DEFINE g == j0(p) + 0
           x == IF f = 0 THEN -1 ELSE nx
<1>1. /\ Sized /\ p \in Procs /\ Serial \in Procs
      /\ nx \in Nat /\ nx >= 1 /\ rows(p) \in Nat /\ rows(p) >= 2 /\ j0(p) \in Nat
      /\ j0(p) + rows(p) <= ny /\ rows(Serial) = ny /\ ny \in Nat /\ j0(p) >= 2
  BY SlabIs, DeepRows DEF Ready
<1>2. f \in 0 .. nx /\ 0 \in 0 .. rows(p) - 1 /\ g \in 0 .. rows(Serial) - 1
      /\ g - 1 \in 0 .. rows(Serial) - 1 /\ g + 1 \in 0 .. rows(Serial) - 1 /\ (g + 1) - 1 = g
  BY <1>1
<1>3. bare(gradfi(p, f, 0)) = BareI(p, f, 0) /\ bare(gradfi(Serial, f, g)) = BareI(Serial, f, g)
  BY <1>1, <1>2, BareIIs
<1>4. Free \in square(p, f, 0)
  <2> DEFINE c == <<x, 0 - 1>>
  <2>1. /\ x \in {f - 1, f} /\ x \in -2 .. nx + 1 /\ x \notin 0 .. nx - 1
        /\ 0 - 1 \in -2 .. rows(p) + 1 /\ 0 - 1 \notin 0 .. rows(p) - 1
    BY <1>1
  <2>2. c \in Places(p) /\ c[1] = x /\ c[2] = 0 - 1
    <3> HIDE DEF x
    <3>1. \A a \in -2 .. nx + 1, b \in -2 .. rows(p) + 1 : <<a, b>> \in Places(p)
      BY DEF Places
    <3>2. c \in Places(p)
      BY <3>1, <2>1
    <3> QED BY <3>2
  <2>3. /\ Stamped(p) /\ Len(segments) + 1 \in 0 .. Len(segments) + 1 /\ Listed /\ KeepToSlab
        /\ Sourced(p, Len(segments) + 1, dv[p])
        /\ \A k \in 1 .. Len(segments) : segments[k].edge \in Edges
    <3>1. Listed /\ KeepToSlab /\ Stamped(p)
      BY <1>1 DEF Ready, AllStamped, PassInv
    <3>2. Len(segments) \in Nat
      BY <3>1 DEF Listed
    <3>3. done[p] = Len(segments) + 1 /\ done[p] # Lost
      BY <3>1, <3>2 DEF Stamped, Lost
    <3>4. Sourced(p, done[p], dv[p])
      BY <1>1, <3>3 DEF Ready, PassInv
    <3>5. \A k \in 1 .. Len(segments) : segments[k].edge \in Edges
      BY DEF Ready, IInv
    <3>6. Len(segments) + 1 \in 0 .. Len(segments) + 1
      BY <3>2
    <3> QED BY <3>1, <3>3, <3>4, <3>5, <3>6
  <2> HIDE DEF c, x
  <2>4. dv[p][c] = Free
    <3>1. p \in Procs /\ Sized /\ c \in Places(p) /\ c[1] \notin 0 .. nx - 1 /\ c[2] \notin 0 .. rows(p) - 1
      BY <1>1, <2>1, <2>2
    <3> QED BY ONLY <3>1, <2>3, CornerFree
  <2>5. prim(p, x, 0 - 1) = Free
    BY <2>2, <2>4 DEF prim, c
  <2> QED BY <2>1, <2>5 DEF square
<1>5. ASSUME NEW k \in {g, g + 1} PROVE Free \notin square(Serial, f, k)
  <2>1. ASSUME NEW a \in {f - 1, f}, NEW b \in {k - 1, k} PROVE prim(Serial, a, b) # Free
    <3> DEFINE c == <<a, b>>
    <3>1. a \in -2 .. nx + 1 /\ b \in 0 .. rows(Serial) - 1 /\ b \in -2 .. rows(Serial) + 1
      BY <1>1, <1>2
    <3>2. c \in Places(Serial) /\ c[2] \in 0 .. rows(Serial) - 1
      BY <3>1 DEF Places
    <3> HIDE DEF c
    <3>3. dv[Serial][c] \notin Unset
      BY <1>1, <3>2, GhostsSet DEF Ready, AllStamped
    <3> QED BY <3>2, <3>3 DEF prim, Unset, c
  <2> QED BY <2>1 DEF square
<1>6. Part({"sj"}, square(p, f, 0)) \in BareI(p, f, 0)
  BY DEF BareI
<1>7. Part({"sj"}, square(p, f, 0)) \notin BareI(Serial, f, g)
  <2>1. {"sj"} # {"si"}
    OBVIOUS
  <2>2. ASSUME NEW cells PROVE Part({"sj"}, square(p, f, 0)) # Part({"si"}, cells)
    BY <2>1, PartsEqual
  <2>3. ASSUME NEW k \in {g, g + 1} PROVE Part({"sj"}, square(p, f, 0)) # Part({"sj"}, square(Serial, f, k))
    BY <1>4, <1>5, PartsEqual
  <2> QED BY <2>2, <2>3 DEF BareI
<1> HIDE DEF g
<1>8. bare(gradfi(p, f, 0)) # bare(gradfi(Serial, f, g))
  BY <1>3, <1>6, <1>7
<1> QED BY <1>8 DEF g

(* In a j-face the ghost corners can make a difference, and the contributions *)
(* of the sides, which the highest face of a slab below another one lacks.    *)
LEMMA BareJAlike ==
    ASSUME Ready, NEW p \in Ranks, NEW i \in 0 .. nx - 1, NEW f \in 0 .. rows(p),
           ~ (has_upper(p) /\ f = rows(p)), i \in {0, nx - 1} => ~ (has_lower(p) /\ f = 0)
    PROVE  bare(gradfj(p, i, f)) = bare(gradfj(Serial, i, j0(p) + f))
<1>1. CASE ~ Reaches(p, "j", f)
  BY <1>1, GradJAlike
<1>2. CASE Reaches(p, "j", f)
  <2> DEFINE g == j0(p) + f
  <2>1. /\ Sized /\ p \in Procs /\ Serial \in Procs
        /\ nx \in Nat /\ nx >= 1 /\ rows(p) \in Nat /\ rows(p) >= 2 /\ j0(p) \in Nat
        /\ j0(p) + rows(p) <= ny /\ rows(Serial) = ny /\ ny \in Nat
        /\ has_lower(p) <=> j0(p) # 0
    BY SlabIs, DeepRows DEF Ready
  <2>2. (has_lower(p) /\ f = 0) \/ (has_upper(p) /\ f = rows(p) - 1)
    BY <1>2, <2>1 DEF Reaches
  <2>3. /\ f \in 0 .. rows(p) - 1 /\ (f # 0 \/ has_lower(p))
        /\ g \in 0 .. rows(Serial) - 1 /\ g # 0 /\ j0(p) + (f - 1) = g - 1
        /\ i \in -2 .. nx + 1 /\ f \in -2 .. rows(p) + 1 /\ f - 1 \in -2 .. rows(p) + 1
    BY <2>1, <2>2
  <2>4. prim(p, i, f) = prim(Serial, i, g) /\ prim(p, i, f - 1) = prim(Serial, i, g - 1)
    BY <2>3, PrimsAlike
  <2>5. square(p, i, f) = square(Serial, i, g) /\ square(p, i + 1, f) = square(Serial, i + 1, g)
    <3>1. CASE f = 0
      <4>1. i \in 1 .. nx - 1 /\ i + 1 \in 1 .. nx - 1 /\ f \in 0 .. rows(p)
        <5>1. i # 0 /\ i # nx - 1
          BY <2>1, <2>2, <3>1
        <5> QED BY <2>1, <5>1
      <4> QED BY <4>1, SquareInside
    <3>2. CASE f # 0
      <4>1. Own(p, f - 1) /\ Own(p, f) /\ i \in 0 .. nx /\ i + 1 \in 0 .. nx
        BY <2>1, <2>3, <3>2 DEF Own
      <4> QED BY <4>1, SquareAlike
    <3> QED BY <3>1, <3>2
  <2>6. bare(gradfj(p, i, f)) = BareJ(p, i, f) /\ bare(gradfj(Serial, i, g)) = BareJ(Serial, i, g)
    BY <2>1, <2>3, BareJIs
  <2> HIDE DEF g
  <2>7. BareJ(p, i, f) = BareJ(Serial, i, g)
    BY <2>4, <2>5 DEF BareJ
  <2> QED BY <2>6, <2>7 DEF g
<1> QED BY <1>1, <1>2

LEMMA GradJTop ==
    ASSUME NEW q, NEW i, NEW f, f = rows(q), f # 0, f \notin 0 .. rows(q) - 1, has_upper(q)
    PROVE  gradfj(q, i, f) =
               VParts(q, i, {f - 1, f} \cap 0 .. rows(q) - 1)
                   \cup {Part({sj_corrected(q, i, f), sj_corrected(q, i, f + 1)}, {prim(q, i, f)})}
<1> DEFINE n == rows(q)
           P(k, j) == Part({si(q, k, j), si(q, k, j - 1)}, square(q, k, j))
           both == {P(k, j) : k \in {i, i + 1}, j \in {f} \cap 0 .. n - 1}
           bottom == IF f # 0 THEN {}
                     ELSE IF has_lower(q)
                       THEN {Part({sj_corrected(q, i, -1), sj_corrected(q, i, 0)}, {prim(q, i, -1)})}
                       ELSE Lowest(q, i)
           top == IF f # n THEN {}
                  ELSE IF has_upper(q)
                    THEN {Part({sj_corrected(q, i, n), sj_corrected(q, i, n + 1)}, {prim(q, i, n)})}
                    ELSE Highest(q, i, n)
<1>1. gradfj(q, i, f) = VParts(q, i, {f - 1, f} \cap 0 .. n - 1) \cup both \cup bottom \cup top
  BY DEF gradfj, VParts, Lowest, Highest
<1>2. both = {}
  <2>1. {f} \cap 0 .. n - 1 = {}
    OBVIOUS
  <2> HIDE DEF P
  <2> QED BY <2>1
<1>3. bottom = {} /\ top = {Part({sj_corrected(q, i, f), sj_corrected(q, i, f + 1)}, {prim(q, i, f)})}
  OBVIOUS
<1> HIDE DEF both, bottom, top
<1> QED BY <1>1, <1>2, <1>3

LEMMA BareJDiffers ==
    ASSUME Ready, NEW p \in Ranks, has_upper(p), NEW i \in 0 .. nx - 1
    PROVE  bare(gradfj(p, i, rows(p))) # bare(gradfj(Serial, i, j0(p) + rows(p)))
<1> DEFINE n == rows(p)
           g == j0(p) + n
           lacking == Part({"si"}, square(Serial, i, g))
<1>1. /\ Sized /\ p \in Procs /\ Serial \in Procs
      /\ nx \in Nat /\ nx >= 1 /\ n \in Nat /\ n >= 2 /\ j0(p) \in Nat
      /\ g <= ny - 2 /\ rows(Serial) = ny /\ ny \in Nat
  BY SlabIs, DeepRows DEF Ready
<1>2. g \in 0 .. rows(Serial) - 1 /\ g # 0
  BY <1>1
<1> HIDE DEF g
<1>3. lacking \in bare(gradfj(Serial, i, g))
  <2>1. bare(gradfj(Serial, i, g)) = BareJ(Serial, i, g)
    BY <1>1, <1>2, BareJIs
  <2>2. lacking \in BareJ(Serial, i, g)
    BY DEF BareJ
  <2> QED BY <2>1, <2>2
<1>4. \A x \in gradfj(p, i, n) : \E v \in x[1] : v[1] = "sj"
  <2> DEFINE V(j) == Part({sj(p, i, j), sj(p, i, j + 1)}, {prim(p, i, j)})
             above == Part({sj_corrected(p, i, n), sj_corrected(p, i, n + 1)}, {prim(p, i, n)})
  <2>1. gradfj(p, i, n) \subseteq {V(j) : j \in {n - 1, n} \cap 0 .. n - 1} \cup {above}
    <3>1. n = rows(p) /\ n # 0 /\ n \notin 0 .. rows(p) - 1
      BY <1>1
    <3> HIDE DEF n
    <3>2. gradfj(p, i, n) = VParts(p, i, {n - 1, n} \cap 0 .. rows(p) - 1) \cup {above}
      BY ONLY <3>1, has_upper(p), GradJTop
    <3> QED BY <3>1, <3>2 DEF VParts
  <2>2. \A k \in {n - 1, n} : sj(p, i, k)[1] = "sj"
    <3>1. <<i, n - 1>> \in Places(p) /\ <<i, n>> \in Places(p)
      BY <1>1 DEF Places
    <3> QED BY <3>1, VectorNames
  <2>3. \A j : sj(p, i, j) \in V(j)[1]
    BY DEF Part
  <2>4. sj_corrected(p, i, n) \in above[1] /\ sj_corrected(p, i, n)[1] = "sj"
    BY <2>2 DEF Part, sj_corrected
  <2> HIDE DEF V, above, n
  <2> QED BY <2>1, <2>2, <2>3, <2>4
<1>5. ASSUME NEW x, \E v \in x[1] : v[1] = "sj" PROVE Stripped(x) # lacking
  <2>1. Stripped(x)[1] = {v[1] : v \in x[1]} /\ lacking[1] = {"si"}
    BY DEF Stripped, Part
  <2>2. "sj" \in {v[1] : v \in x[1]} /\ "sj" \notin {"si"}
    BY <1>5
  <2> HIDE DEF lacking
  <2> QED BY <2>1, <2>2
<1> HIDE DEF lacking, n
<1>6. lacking \notin bare(gradfj(p, i, n))
  BY <1>4, <1>5, BareIs
<1>7. bare(gradfj(p, i, n)) # bare(gradfj(Serial, i, g))
  BY <1>3, <1>6
<1> QED BY <1>7 DEF g, n

(* With equal faces a viscous flux differs where what is left of its gradient *)
(* does.                                                                      *)
SameGradient(p, d, f, b) ==
    bare(gradient(p, d, f, b)) = bare(gradient(Serial, d, Up(p, d) + f, Across(p, d) + b))

LEMMA ViscousReads ==
    ASSUME NEW q, NEW d, NEW f, NEW b, NEW s \in Straight \ {"movers-le1"}
    PROVE  LET x == flux(q, s, "navier-stokes", d, f, b)
           IN  /\ x.average.dv = pair(q, d, f, b)
               /\ x.diss.dv = IF s \in {"llf", "nkfds-movers"} THEN pair(q, d, f, b) ELSE muscl(q, d, f, b)
               /\ x.viscous.dv = pair(q, d, f, b)
               /\ x.viscous.grad = gradient(q, d, f, b)
               /\ x.viscous.rvol = volume(q, d, f, b)
<1> DEFINE x == flux(q, s, "navier-stokes", d, f, b)
           v == own_vector(q, d, f, b)
<1>1. s \in {"llf", "nkfds-movers", "llf-2o", "nkfds-movers-2o", "roe-2o", "movers"}
  BY StraightAre
<1>2. dissipation(s, q, d, f, b) =
          IF s \in {"llf", "nkfds-movers"} THEN Reads(v, pair(q, d, f, b), {}, {})
          ELSE Reads(v, muscl(q, d, f, b), {}, {})
  BY <1>1, StraightReads
<1>3. \A a, c : Reads(a, c, {}, {}).dv = c
  BY DEF Reads
<1>4. /\ x.average = Reads(v, pair(q, d, f, b), {}, {})
      /\ x.diss = dissipation(s, q, d, f, b)
      /\ x.viscous = accumulate_viscous_flux(q, d, f, b)
  BY DEF flux, define_convective_faces
<1>5. /\ accumulate_viscous_flux(q, d, f, b).dv = pair(q, d, f, b)
      /\ accumulate_viscous_flux(q, d, f, b).grad = gradient(q, d, f, b)
      /\ accumulate_viscous_flux(q, d, f, b).rvol = volume(q, d, f, b)
  BY DEF accumulate_viscous_flux, gradient, volume
<1> HIDE DEF x, v
<1>6. x.average.dv = pair(q, d, f, b)
  BY <1>3, <1>4
<1>7. x.diss.dv = IF s \in {"llf", "nkfds-movers"} THEN pair(q, d, f, b) ELSE muscl(q, d, f, b)
  BY <1>2, <1>3, <1>4
<1>8. x.viscous.dv = pair(q, d, f, b) /\ x.viscous.grad = gradient(q, d, f, b) /\ x.viscous.rvol = volume(q, d, f, b)
  BY <1>4, <1>5
<1> QED BY <1>6, <1>7, <1>8 DEF x

LEMMA UniformFlux ==
    ASSUME Ready, NEW p \in Ranks, NEW d, NEW f, NEW b, OnFace(p, d, f, b),
           NEW s \in Straight \ {"movers-le1"}
    PROVE  SameBare(flux(p, s, "navier-stokes", d, f, b),
                    flux(Serial, s, "navier-stokes", d, Up(p, d) + f, Across(p, d) + b))
               <=> SameGradient(p, d, f, b)
<1> DEFINE F == Up(p, d) + f
           B == Across(p, d) + b
           x == flux(p, s, "navier-stokes", d, f, b)
           y == flux(Serial, s, "navier-stokes", d, F, B)
<1>1. pair(p, d, f, b) = pair(Serial, d, F, B) /\ muscl(p, d, f, b) = muscl(Serial, d, F, B)
  BY StencilsAlike
<1>2. volume(p, d, f, b) = volume(Serial, d, F, B)
  BY VolumeAlike
<1> HIDE DEF F, B
<1>3. /\ x.average.dv = pair(p, d, f, b)
      /\ x.diss.dv = IF s \in {"llf", "nkfds-movers"} THEN pair(p, d, f, b) ELSE muscl(p, d, f, b)
      /\ x.viscous.dv = pair(p, d, f, b)
      /\ x.viscous.grad = gradient(p, d, f, b)
      /\ x.viscous.rvol = volume(p, d, f, b)
  BY ViscousReads
<1>4. /\ y.average.dv = pair(Serial, d, F, B)
      /\ y.diss.dv = IF s \in {"llf", "nkfds-movers"} THEN pair(Serial, d, F, B) ELSE muscl(Serial, d, F, B)
      /\ y.viscous.dv = pair(Serial, d, F, B)
      /\ y.viscous.grad = gradient(Serial, d, F, B)
      /\ y.viscous.rvol = volume(Serial, d, F, B)
  BY ViscousReads
<1> HIDE DEF x, y
<1>5. SameBare(x, y) <=> bare(gradient(p, d, f, b)) = bare(gradient(Serial, d, F, B))
  BY <1>1, <1>2, <1>3, <1>4 DEF SameBare
<1> QED BY <1>5 DEF SameGradient, F, B, x, y

LEMMA UniformUpdates ==
    ASSUME Ready, Covering, NEW p \in Ranks, NEW s \in Straight \ {"movers-le1"}, NEW c \in Reals(p), NEW r,
           \A q \in Procs : r[q] = assemble_rhs(q, s, "navier-stokes")
    PROVE  (\A side \in Sides : SameBare(r[p][c][side], r[Serial][Global(p, c)][side])) <=> ~ Spoilt(p, c)
<1> DEFINE i == c[1]
           j == c[2]
           o == j0(p)
           g == Global(p, c)
           mine(d, f, b) == flux(p, s, "navier-stokes", d, f, b)
           other(d, f, b) == flux(Serial, s, "navier-stokes", d, f, b)
           alike(side) == SameBare(r[p][c][side], r[Serial][g][side])
<1>1. /\ p \in Procs /\ Serial \in Procs /\ Sized
      /\ rows(p) \in Nat /\ rows(p) >= 1 /\ o \in Nat /\ o + rows(p) <= ny
      /\ nx \in Nat /\ nx >= 1 /\ ny \in Nat /\ rows(Serial) = ny
  BY SlabIs DEF Ready
<1>2. r[p] = assemble_rhs(p, s, "navier-stokes") /\ r[Serial] = assemble_rhs(Serial, s, "navier-stokes")
  BY <1>1
<1>3. /\ r[p][c]["w"] = mine("i", i, j) /\ r[p][c]["e"] = mine("i", i + 1, j)
      /\ r[p][c]["s"] = mine("j", j, i) /\ r[p][c]["n"] = mine("j", j + 1, i)
      /\ OnFace(p, "i", i, j) /\ OnFace(p, "i", i + 1, j)
      /\ OnFace(p, "j", j, i) /\ OnFace(p, "j", j + 1, i)
      /\ i \in 0 .. nx - 1 /\ j \in 0 .. rows(p) - 1
  BY <1>1, <1>2, SidesAre
<1>4. g \in Reals(Serial) /\ g[1] = i /\ g[2] = o + j
  <2>1. g = <<i, o + j>> /\ o + j \in 0 .. ny - 1
    BY <1>1, <1>3 DEF Global
  <2> QED BY <1>1, <1>3, <2>1 DEF Reals
<1>5. /\ Up(p, "i") + i = i /\ Up(p, "i") + (i + 1) = i + 1 /\ Across(p, "i") + j = o + j
      /\ Up(p, "j") + j = o + j /\ Up(p, "j") + (j + 1) = (o + j) + 1 /\ Across(p, "j") + i = i
  BY <1>1, <1>3 DEF Up, Across
<1> HIDE DEF g
<1>6. /\ r[Serial][g]["w"] = other("i", g[1], g[2]) /\ r[Serial][g]["e"] = other("i", g[1] + 1, g[2])
      /\ r[Serial][g]["s"] = other("j", g[2], g[1]) /\ r[Serial][g]["n"] = other("j", g[2] + 1, g[1])
  BY <1>1, <1>2, <1>4, SidesAre
<1>7. \A d, f, b : OnFace(p, d, f, b) =>
          (SameBare(mine(d, f, b), other(d, Up(p, d) + f, Across(p, d) + b)) <=> SameGradient(p, d, f, b))
  BY UniformFlux
<1> HIDE DEF i, j, o, mine, other
<1>8. /\ alike("w") <=> SameGradient(p, "i", i, j)
      /\ alike("e") <=> SameGradient(p, "i", i + 1, j)
  BY <1>3, <1>4, <1>5, <1>6, <1>7
<1>9. /\ alike("s") <=> SameGradient(p, "j", j, i)
      /\ alike("n") <=> SameGradient(p, "j", j + 1, i)
  BY <1>3, <1>4, <1>5, <1>6, <1>7
<1> HIDE DEF alike
<1>10. /\ SameGradient(p, "i", i, j) <=> bare(gradfi(p, i, j)) = bare(gradfi(Serial, i, o + j))
       /\ SameGradient(p, "i", i + 1, j) <=> bare(gradfi(p, i + 1, j)) = bare(gradfi(Serial, i + 1, o + j))
       /\ SameGradient(p, "j", j, i) <=> bare(gradfj(p, i, j)) = bare(gradfj(Serial, i, o + j))
       /\ SameGradient(p, "j", j + 1, i) <=> bare(gradfj(p, i, j + 1)) = bare(gradfj(Serial, i, o + (j + 1)))
  <2>1. (o + j) + 1 = o + (j + 1)
    BY <1>1, <1>3
  <2> QED BY <1>5, <2>1 DEF SameGradient, gradient
<1> DEFINE under == has_upper(p) /\ j = rows(p) - 1
           over == has_lower(p) /\ j = 0 /\ i \in {0, nx - 1}
<1>11. Spoilt(p, c) <=> under \/ over
  BY DEF Spoilt, BelowInterface, AboveInterface, i, j
<1>12. ASSUME under PROVE ~ alike("n")
  <2>1. j + 1 = rows(p)
    BY <1>1, <1>12
  <2>2. bare(gradfj(p, i, rows(p))) # bare(gradfj(Serial, i, o + rows(p)))
    BY <1>3, <1>12, BareJDiffers DEF o
  <2> QED BY <1>9, <1>10, <2>1, <2>2
<1>13. ASSUME over PROVE ~ alike("w") \/ ~ alike("e")
  <2>1. \A f \in {0, nx} : bare(gradfi(p, f, 0)) # bare(gradfi(Serial, f, o + 0))
    BY <1>13, BareIDiffers DEF o
  <2>2. j = 0 /\ (i = 0 \/ i + 1 = nx)
    BY <1>1, <1>13
  <2> QED BY <1>8, <1>10, <2>1, <2>2
<1>14. ASSUME ~ under, ~ over PROVE alike("w") /\ alike("e") /\ alike("s") /\ alike("n")
  <2>1. /\ i \in 0 .. nx /\ i + 1 \in 0 .. nx /\ j \in 0 .. rows(p) /\ j + 1 \in 0 .. rows(p)
        /\ i \in {0, nx} => i \in {0, nx - 1}
        /\ i + 1 \in {0, nx} => i \in {0, nx - 1}
        /\ j # rows(p) /\ j + 1 # 0 /\ (j + 1 = rows(p) => j = rows(p) - 1)
        /\ j >= rows(p) - 1 <=> j = rows(p) - 1
    BY <1>1, <1>3
  <2>2. Reaches(p, "j", j) => has_lower(p) /\ j = 0
    BY <1>14, <2>1 DEF Reaches
  <2>3. alike("w") /\ alike("e")
    <3>1. (i \in {0, nx} => ~ Reaches(p, "j", j)) /\ (i + 1 \in {0, nx} => ~ Reaches(p, "j", j))
      BY <1>14, <2>1, <2>2
    <3>2. bare(gradfi(p, i, j)) = bare(gradfi(Serial, i, o + j))
      BY <1>3, <2>1, <3>1, BareIAlike DEF o
    <3>3. bare(gradfi(p, i + 1, j)) = bare(gradfi(Serial, i + 1, o + j))
      BY <1>3, <2>1, <3>1, BareIAlike DEF o
    <3> QED BY <1>8, <1>10, <3>2, <3>3
  <2>4. alike("s") /\ alike("n")
    <3>1. bare(gradfj(p, i, j)) = bare(gradfj(Serial, i, o + j))
      BY <1>3, <1>14, <2>1, BareJAlike DEF o
    <3>2. bare(gradfj(p, i, j + 1)) = bare(gradfj(Serial, i, o + (j + 1)))
      BY <1>3, <1>14, <2>1, BareJAlike DEF o
    <3> QED BY <1>9, <1>10, <3>1, <3>2
  <2> QED BY <2>3, <2>4
<1>15. (\A side \in Sides : alike(side)) <=> alike("w") /\ alike("e") /\ alike("s") /\ alike("n")
  BY DEF Sides
<1> HIDE DEF under, over
<1>16. (\A side \in Sides : alike(side)) <=> ~ Spoilt(p, c)
  BY <1>11, <1>12, <1>13, <1>14, <1>15
<1> QED BY <1>16 DEF alike, g

------------------------------------------------------------------------------
(* The time step and the fluxes are computed once, after the pass.            *)
LEMMA SameRows ==
    ASSUME UNCHANGED <<nx, ny, nranks, segments>>
    PROVE  /\ Ranks' = Ranks /\ Procs' = Procs /\ KeepToSlab' = KeepToSlab
           /\ \A q : Reals(q)' = Reals(q)
           /\ \A t : TimeParity(t)' <=> TimeParity(t)
           /\ \A s, e, r : /\ FluxParity(s, e, r)' <=> FluxParity(s, e, r)
                           /\ MadeOfSet(s, e, r)' <=> MadeOfSet(s, e, r)
                           /\ BareParity(s, e, r)' <=> BareParity(s, e, r)
                           /\ ReadsBeyond(s, e, r)' <=> ReadsBeyond(s, e, r)
           /\ Covering' <=> Covering
<1>1. Ranks' = Ranks /\ Procs' = Procs /\ KeepToSlab' = KeepToSlab
  BY DEF Ranks, Procs, KeepToSlab
<1>2. \A q : j0(q)' = j0(q) /\ rows(q)' = rows(q)
  BY DEF j0, j1, rows, slab
<1>3. \A q : Reals(q)' = Reals(q)
  BY <1>2 DEF Reals
<1>4. \A q : (has_upper(q)' <=> has_upper(q)) /\ (has_lower(q)' <=> has_lower(q))
  BY DEF has_upper, has_lower
<1>5. \A q : BelowInterface(q)' = BelowInterface(q)
  BY <1>2, <1>4 DEF BelowInterface
<1>6. \A q : AboveInterface(q)' = AboveInterface(q) /\ NearBelow(q)' = NearBelow(q)
  BY <1>4, <1>5 DEF AboveInterface, NearBelow
<1>7. \A q, c : Global(q, c)' = Global(q, c)
  BY <1>2 DEF Global
<1>8. \A q, c, a, g, l : RowsAlike(q, c, a, g, l)' <=> RowsAlike(q, c, a, g, l)
  BY <1>7 DEF RowsAlike
<1>9. ASSUME NEW t PROVE TimeParity(t)' <=> TimeParity(t)
  BY <1>1, <1>3, <1>5, <1>7 DEF TimeParity, RowsAlike
<1>10. ASSUME NEW s, NEW e, NEW r PROVE FluxParity(s, e, r)' <=> FluxParity(s, e, r)
  BY <1>1, <1>3, <1>5, <1>6, <1>7 DEF FluxParity, RowsAlike
<1>11. ASSUME NEW s, NEW e, NEW r PROVE MadeOfSet(s, e, r)' <=> MadeOfSet(s, e, r)
  BY <1>1, <1>3 DEF MadeOfSet, Set
<1>12. ASSUME NEW s, NEW e, NEW r PROVE ReadsBeyond(s, e, r)' <=> ReadsBeyond(s, e, r)
  BY <1>1, <1>2, <1>3 DEF ReadsBeyond
<1>13. Covering' <=> Covering
  BY DEF Covering, whole
<1>14. ASSUME NEW s, NEW e, NEW r PROVE BareParity(s, e, r)' <=> BareParity(s, e, r)
  <2>1. \A q, c : Spoilt(q, c)' <=> Spoilt(q, c)
    BY <1>5, <1>6 DEF Spoilt
  <2>2. \A a, b : SameBare(a, b)' <=> SameBare(a, b)
    BY DEF SameBare, bare, Part
  <2> QED BY <1>1, <1>3, <1>7, <2>1, <2>2 DEF BareParity
<1> QED BY <1>1, <1>3, <1>9, <1>10, <1>11, <1>12, <1>13, <1>14

LEMMA PassNotDone == ASSUME PassInv, Pass PROVE ~ AllStamped
<1>1. PICK p \in Procs : update_corners(p) \/ SkipSegment(p) \/ ApplySegment(p) \/ Stray(p)
  BY DEF Pass
<1>2. done[p] = 0 \/ AtSegment(p)
  BY <1>1 DEF update_corners, SkipSegment, ApplySegment, Stray
<1>3. Len(segments) \in Nat \ {0}
  BY DEF PassInv, Listed
<1>4. done[p] # Len(segments) + 1
  BY <1>2, <1>3 DEF AtSegment
<1> QED BY <1>4 DEF AllStamped, Stamped

LEMMA NoneIsNoScheme == "none" \notin Schemes
BY DEF Schemes

LEMMA NextStageInv == StageInv /\ [Next]_vars => StageInv'
<1> SUFFICES ASSUME StageInv, [Next]_vars PROVE StageInv'
  OBVIOUS
<1>1. Sized' /\ PassInv' /\ IInv'
  BY NextPassInv, NextIInv DEF StageInv
<1>2. UNCHANGED <<nx, ny, nranks, segments>>
  BY DEF Next, vars, svars, BoundaryPass, Pass, update_corners, SkipSegment, ApplySegment, Stray,
       TimeStep, ComputeFluxes
<1>3. Covering'
  BY <1>2, SameRows DEF StageInv
<1>4. CASE UNCHANGED vars
  <2>1. /\ UNCHANGED <<nx, ny, nranks, segments>> /\ done' = done
        /\ UNCHANGED <<scheme, equations, tstep, rhs>>
    BY <1>4 DEF vars, svars
  <2>2. AllStamped' <=> AllStamped
    BY <2>1, SameRows DEF AllStamped, Stamped
  <2>3. Computed'
    BY <2>1, <2>2, SameRows DEF StageInv, Computed
  <2> QED BY <1>1, <1>3, <2>3 DEF StageInv
<1>5. CASE BoundaryPass
  <2>1. Pass /\ UNCHANGED <<scheme, equations, tstep, rhs>>
    BY <1>5 DEF BoundaryPass
  <2>2. ~ AllStamped
    BY <2>1, PassNotDone DEF StageInv
  <2>3. scheme = "none" /\ tstep = << >>
    BY <2>2 DEF StageInv, Computed
  <2>4. Computed'
    BY <2>1, <2>3 DEF StageInv, Computed
  <2> QED BY <1>1, <1>3, <2>4 DEF StageInv
<1>6. CASE TimeStep
  <2>1. /\ UNCHANGED <<nx, ny, nranks, segments>> /\ done' = done
        /\ UNCHANGED <<scheme, equations, rhs>> /\ AllStamped
        /\ tstep' = [p \in Procs |-> time_step_euler(p)]
    BY <1>6 DEF TimeStep, svars
  <2>2. AllStamped'
    BY <2>1, SameRows DEF AllStamped, Stamped
  <2>3. TimeParity(tstep')
    BY <2>1, TimeAlike DEF StageInv
  <2>4. TimeParity(tstep)'
    BY <2>1, <2>3, SameRows
  <2>5. \A p \in Procs' : DOMAIN (tstep'[p]) = Reals(p)'
    BY <2>1, SameRows DEF time_step_euler
  <2>6. Computed'
    BY <2>1, <2>2, <2>4, <2>5, SameRows DEF StageInv, Computed
  <2> QED BY <1>1, <1>3, <2>6 DEF StageInv
<1>7. ASSUME NEW s \in Schemes, NEW e \in {"euler", "navier-stokes"}, ComputeFluxes(s, e)
      PROVE  StageInv'
  <2>1. /\ UNCHANGED <<nx, ny, nranks, segments>> /\ done' = done /\ tstep' = tstep
        /\ tstep # << >> /\ scheme' = s /\ equations' = e
        /\ rhs' = [p \in Procs |-> assemble_rhs(p, s, e)]
    BY <1>7 DEF ComputeFluxes, svars
  <2>2. AllStamped
    BY <2>1 DEF StageInv, Computed
  <2>3. AllStamped'
    BY <2>1, <2>2, SameRows DEF AllStamped, Stamped
  <2>4. \A q \in Procs : rhs'[q] = assemble_rhs(q, s, e)
    BY <2>1
  <2>5. ASSUME KeepToSlab PROVE FluxParity(s, e, rhs')
    <3>1. Ready
      BY <2>2, <2>5 DEF Ready, StageInv
    <3>2. ASSUME s \in Straight \ {"movers-le1"}, e = "euler", NEW p \in Ranks, NEW c \in Reals(p)
          PROVE  RowsAlike(p, c, rhs', rhs'[Serial], BelowInterface(p))
      BY <2>4, <3>1, <3>2, UpdatesAlike
    <3>3. ASSUME s = "movers-le1", e = "euler", NEW p \in Ranks, NEW c \in Reals(p)
          PROVE  RowsAlike(p, c, rhs', rhs'[Serial], AboveInterface(p) \cup NearBelow(p))
      BY <2>4, <3>1, <3>3, Le1UpdatesAlike
    <3>4. ASSUME s \in Straight \ {"movers-le1"}, e = "navier-stokes", NEW p \in Ranks, NEW c \in Reals(p)
          PROVE  RowsAlike(p, c, rhs', rhs'[Serial], AboveInterface(p) \cup NearBelow(p))
      BY <2>4, <3>1, <3>4, ViscousUpdatesAlike
    <3> QED BY <3>2, <3>3, <3>4 DEF FluxParity
  <2>6. ASSUME KeepToSlab PROVE MadeOfSet(s, e, rhs') /\ BareParity(s, e, rhs')
    <3>1. Ready /\ Covering
      BY <2>2, <2>6 DEF Ready, StageInv
    <3>2. MadeOfSet(s, e, rhs')
      BY <2>2, <2>4, <2>6, FluxesSet DEF StageInv
    <3>3. ASSUME s \in Straight \ {"movers-le1"}, e = "navier-stokes", NEW p \in Ranks, NEW c \in Reals(p)
          PROVE  (\A side \in Sides : SameBare(rhs'[p][c][side], rhs'[Serial][Global(p, c)][side]))
                     <=> ~ Spoilt(p, c)
      BY <2>4, <3>1, <3>3, UniformUpdates
    <3> QED BY <3>2, <3>3 DEF BareParity
  <2>7. ReadsBeyond(s, e, rhs')
    BY <2>4, VectorsBeyond DEF StageInv
  <2>8. /\ KeepToSlab' => /\ FluxParity(scheme, equations, rhs)' /\ MadeOfSet(scheme, equations, rhs)'
                          /\ BareParity(scheme, equations, rhs)'
        /\ ReadsBeyond(scheme, equations, rhs)'
    BY <2>1, <2>5, <2>6, <2>7, SameRows
  <2>9. \A p \in Procs' : DOMAIN (rhs'[p]) = Reals(p)'
    BY <2>4, SameRows, <2>1 DEF assemble_rhs
  <2>10. s # "none"
    BY NoneIsNoScheme
  <2>11. tstep # << >> => TimeParity(tstep) /\ \A p \in Procs : DOMAIN tstep[p] = Reals(p)
    BY DEF StageInv, Computed
  <2>12. Computed'
    BY <2>1, <2>3, <2>8, <2>9, <2>10, <2>11, SameRows DEF Computed
  <2> QED BY <1>1, <1>3, <2>12 DEF StageInv
<1> QED BY <1>4, <1>5, <1>6, <1>7 DEF Next

LEMMA StageInvTypes == StageInv => TypeOK
BY DEF StageInv, PassInv, Computed, TypeOK

LEMMA StageInvParity == StageInv => InviscidParity
<1> SUFFICES ASSUME StageInv PROVE InviscidParity
  OBVIOUS
<1>1. ASSUME tstep # << >>, NEW p \in Ranks, NEW c \in Reals(p)
      PROVE  tstep[p][c] = tstep[Serial][Global(p, c)] <=> c[2] \notin BelowInterface(p)
  BY <1>1 DEF StageInv, Computed, TimeParity, RowsAlike
<1>2. ASSUME KeepToSlab, InFluxes(Straight \ {"movers-le1"}, "euler")
      PROVE  LosesExactly(BelowInterface)
  <2>1. scheme # "none" /\ scheme \in Straight \ {"movers-le1"} /\ equations = "euler"
    BY <1>2, NoneIsNoScheme DEF InFluxes, Straight
  <2>2. FluxParity(scheme, equations, rhs)
    BY <1>2, <2>1 DEF StageInv, Computed
  <2> QED BY <2>1, <2>2 DEF FluxParity, RowsAlike, LosesExactly, SameUpdate
<1>3. ASSUME KeepToSlab, InFluxes({"movers-le1"}, "euler")
      PROVE  LosesExactly(LAMBDA p : AboveInterface(p) \cup NearBelow(p))
  <2>1. scheme # "none" /\ scheme = "movers-le1" /\ equations = "euler"
    BY <1>3 DEF InFluxes
  <2>2. FluxParity(scheme, equations, rhs)
    BY <1>3, <2>1 DEF StageInv, Computed
  <2> QED BY <2>1, <2>2 DEF FluxParity, RowsAlike, LosesExactly, SameUpdate
<1> QED BY <1>1, <1>2, <1>3 DEF InviscidParity

LEMMA StageInvViscous == StageInv => ViscousParity
<1> SUFFICES ASSUME StageInv, InFluxes(Straight \ {"movers-le1"}, "navier-stokes"), KeepToSlab
             PROVE  LosesExactly(LAMBDA p : AboveInterface(p) \cup NearBelow(p))
  BY DEF ViscousParity
<1>1. scheme # "none" /\ scheme \in Straight \ {"movers-le1"} /\ equations = "navier-stokes"
  BY NoneIsNoScheme DEF InFluxes, Straight
<1>2. FluxParity(scheme, equations, rhs)
  BY <1>1 DEF StageInv, Computed
<1> QED BY <1>1, <1>2 DEF FluxParity, RowsAlike, LosesExactly, SameUpdate

LEMMA StageInvUniform == StageInv => UniformParity
<1> SUFFICES ASSUME StageInv, InFluxes(Straight \ {"movers-le1"}, "navier-stokes"), KeepToSlab,
                    NEW p \in Ranks, NEW c \in Reals(p)
             PROVE  (\A side \in Sides : SameBare(rhs[p][c][side], rhs[Serial][Global(p, c)][side]))
                        <=> ~ Spoilt(p, c)
  BY DEF UniformParity, SameBare, Spoilt
<1>1. scheme # "none" /\ scheme \in Straight \ {"movers-le1"} /\ equations = "navier-stokes"
  BY NoneIsNoScheme DEF InFluxes, Straight
<1>2. BareParity(scheme, equations, rhs)
  BY <1>1 DEF StageInv, Computed
<1> QED BY <1>1, <1>2 DEF BareParity

LEMMA StageInvReads == StageInv => OnlySetValuesRead
<1> SUFFICES ASSUME StageInv PROVE OnlySetValuesRead
  OBVIOUS
<1>1. ASSUME InFluxes(Straight \ {"movers-le1"}, "euler"), KeepToSlab,
             NEW p \in Procs, NEW c \in Reals(p), NEW side \in Sides
      PROVE  Set(rhs[p][c][side])
  <2>1. scheme # "none" /\ scheme \in Straight \ {"movers-le1"} /\ equations = "euler"
    BY <1>1, NoneIsNoScheme DEF InFluxes, Straight
  <2>2. MadeOfSet(scheme, equations, rhs)
    BY <1>1, <2>1 DEF StageInv, Computed
  <2> QED BY <1>1, <2>1, <2>2 DEF MadeOfSet
<1>2. ASSUME InFluxes(Transposed, "euler"), NEW p \in Procs
      PROVE  (\E c \in Reals(p) : \E side \in Sides : rhs[p][c][side].diss.vector = Outside)
                 <=> rows(p) > nx + 1 \/ nx - 1 > rows(p) + 1
  <2>1. scheme # "none" /\ scheme \in Transposed /\ equations = "euler"
    BY <1>2 DEF InFluxes, Transposed
  <2>2. ReadsBeyond(scheme, equations, rhs)
    BY <2>1 DEF StageInv, Computed
  <2> QED BY <1>2, <2>1, <2>2 DEF ReadsBeyond
<1> QED BY <1>1, <1>2 DEF OnlySetValuesRead, Set, Unset

LEMMA StageInvAlways == Spec => []StageInv
BY InitStageInv, NextStageInv, PTL DEF Spec

(* The canvases keep their shape through the pass, and the time step and the  *)
(* fluxes are computed for the cells of each slab and of the whole grid.      *)
THEOREM TypeOKAlways == Spec => []TypeOK
BY StageInvAlways, StageInvTypes, PTL

(* On every grid and for every number of ranks the time step of a slab        *)
(* (time_step_euler) differs from that of one process in the last row below   *)
(* another slab and in no other. Where the boundary kernels keep to the slab, *)
(* so do the Euler fluxes (compute_fluxes) of the schemes that take their     *)
(* vector at their own face, but for MOVERS_LE1, of which the first row above *)
(* another slab and the last two below one differ; the other nine schemes are *)
(* not in it.                                                                 *)
THEOREM InviscidParityAlways == Spec => []InviscidParity
BY StageInvAlways, StageInvParity, PTL

(* For the same schemes but MOVERS_LE1, and such kernels, the Navier-Stokes   *)
(* fluxes differ from those of one process in the first row above another     *)
(* slab and in the last two below one, and in no other row: the gradients of  *)
(* compute_gradients and the faces of accumulate_viscous_fluxes.              *)
THEOREM ViscousParityAlways == Spec => []ViscousParity
BY StageInvAlways, StageInvViscous, PTL

(* For these schemes, on a grid with equal faces, the Navier-Stokes fluxes of *)
(* a slab still differ from those of one process in the last row below        *)
(* another slab and in the corners of its first row, and nowhere else:        *)
(* compute_gradients leaves out the sides of that row's upper faces, and      *)
(* averages over ghost corners nobody has stamped.                            *)
THEOREM UniformParityAlways == Spec => []UniformParity
BY StageInvAlways, StageInvUniform, PTL

(* Nothing that has not been set goes into an Euler flux of compute_fluxes of *)
(* these schemes when the segments cover the edges, and the nine kernels with *)
(* one loop for both directions read beyond their canvas on exactly the slabs *)
(* that are higher than wide, or wider than high, by more than the ghosts.    *)
THEOREM OnlySetValuesReadAlways == Spec => []OnlySetValuesRead
BY StageInvAlways, StageInvReads, PTL
=============================================================================
