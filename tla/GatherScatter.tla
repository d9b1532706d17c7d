--------------------------- MODULE GatherScatter ---------------------------
(* What becomes of the cells of a plane on its way through root.  Out:        *)
(* gather_plane_from makes a frame of the whole grid of dv_ (write_solution)  *)
(* or of cv_ (write_restart) from the canvases of n ranks; root places them   *)
(* in rank order, and a later one lies over the ghost rows it shares with an  *)
(* earlier one, and over that one's real rows.  And in: load_restart, on m    *)
(* ranks of another run, strips the frames of the file into one buffer and    *)
(* scatters it plane by plane in chunks of whole rows.                        *)
EXTENDS PlaneLayout, FiniteSets

CONSTANTS
    MaxNX, MaxNY, MaxRanks,    \* bounds on the grids and the ranks
    CvPlanes                   \* planes of cv_ (4 in the code)

ASSUME LayoutAssumption ==
    /\ MaxNX \in Nat \ {0} /\ MaxNY \in Nat \ {0} /\ MaxRanks \in Nat \ {0}
    /\ CvPlanes \in Nat \ {0}

VARIABLES
    nx, ny, n,     \* meta_.nx, meta_.ny, decomp_.nranks of the run that writes
    field,         \* "dv" or "cv"
    frame,         \* root's frame; those of the other planes differ in k alone
    placed,        \* canvases placed in it
    rx, ry, m,     \* mesh_.nx(), meta_.ny, decomp_.nranks of the run that loads
    phase,         \* "gather", "loading" or "threw"
    sendbuf,       \* root's buffer, [plane k][i][j]
    got,           \* got[r]: planes rank r has received
    cv             \* cv[r][k][<<i, j>>]: real cells of its cv_

gathering == <<frame, placed>>
loading   == <<sendbuf, got, cv>>
case      == <<nx, ny, n, field, rx, ry, m>>
lvars     == <<case, phase, gathering, loading>>

Readers    == 0 .. m - 1
mesh_ny(r) == Rows(Slab(ry, m, r))
Cells(r)    == (0 .. rx - 1) \X (0 .. mesh_ny(r) - 1)

\* Slabs of the run that writes have the ghost depth (HaloExchange shows that
\* the ghost rows of dv_ are then the neighbours' rows); those of the run that
\* loads are any that main accepts.  The case that loads may be another one.
LayoutInit ==
    /\ nx \in 1 .. MaxNX /\ ny \in 1 .. MaxNY
    /\ n \in 1 .. MaxRanks /\ (n = 1 \/ ny >= 2 * n)
    /\ \/ field = "dv" /\ rx = nx /\ ry = ny /\ m = 1
       \/ field = "cv" /\ rx = nx /\ ry = ny /\ m \in 1 .. MaxRanks
       \/ field = "cv" /\ rx = ny /\ ry = nx /\ m = 1
    /\ m <= ry
    /\ phase = "gather"
    /\ frame = Frame(nx, ny, LAMBDA i, j : Zero)
    /\ placed = 0
    /\ sendbuf = << >>
    /\ got = [r \in Readers |-> 0]
    /\ cv = [r \in Readers |-> [k \in 0 .. CvPlanes - 1 |-> [c \in Cells(r) |-> Free]]]

------------------------------------------------------------------------------
(* gather_plane_from, when the plane is not cached.                           *)

GatherSerial ==
    /\ n = 1 /\ placed = 0
    /\ frame' = SerialFrame(field, nx, ny)
    /\ placed' = 1
    /\ UNCHANGED <<case, phase, loading>>

\* Root's own slab first, then the planes received from rank 1, 2, ...
Place ==
    /\ n > 1 /\ placed < n
    /\ LET d == Slab(ny, n, placed)
       IN  frame' = place(nx, ny, frame, d.j0, Rows(d), pack(field, nx, ny, n, placed))
    /\ placed' = placed + 1
    /\ UNCHANGED <<case, phase, loading>>

Gathered == placed = n

------------------------------------------------------------------------------
(* load_restart of the file that write_restart has made of the frames.        *)

\* data.fields[k].values
values(k) == [x \in DOMAIN frame |-> <<k, frame[x]>>]

matches == nx + 2 = rx + 2 /\ ny + 2 = ry + 2

Reject ==
    /\ Gathered /\ field = "cv" /\ phase = "gather"
    /\ ~ matches
    /\ phase' = "threw"
    /\ UNCHANGED <<case, gathering, loading>>

\* The loops over the fields, i and j that push the real cells.
Strip ==
    /\ Gathered /\ field = "cv" /\ phase = "gather"
    /\ matches
    /\ sendbuf' = [x \in 0 .. CvPlanes * rx * ry - 1 |->
           LET k == x \div (rx * ry)
               i == (x % (rx * ry)) \div ry
               j == x % ry
           IN  values(k)[(i + 1) * (ry + 2) + (j + 1)]]
    /\ phase' = "loading"
    /\ UNCHANGED <<case, gathering, got, cv>>

counts(r)     == rx * mesh_ny(r)
displsEven(r) == r * counts(r)     \* mutant: as if all slabs had as many rows
displs(r)     == rx * Slab(ry, m, r).j0

plane_off(k) == k * rx * ry

unpackRows(r, local) ==     \* mutant: j-major
    [c \in Cells(r) |-> local[c[2] * rx + c[1]]]

\* local[i * mesh_.ny() + j]
unpack(r, local) == [c \in Cells(r) |-> local[c[1] * mesh_ny(r) + c[2]]]

\* The next plane on rank r: MPI_Scatterv, or straight from the file.
Scatterv(r) ==
    /\ phase = "loading" /\ got[r] < CvPlanes
    /\ r = 0 \/ got[r] < got[0]
    /\ LET k     == got[r]
           local == IF m = 1
                      THEN [x \in 0 .. rx * ry - 1 |->
                               values(k)[((x \div ry) + 1) * (ry + 2) + ((x % ry) + 1)]]
                      ELSE [x \in 0 .. counts(r) - 1 |-> sendbuf[plane_off(k) + displs(r) + x]]
       IN  cv' = [cv EXCEPT ![r][k] = unpack(r, local)]
    /\ got' = [got EXCEPT ![r] = @ + 1]
    /\ UNCHANGED <<case, phase, gathering, sendbuf>>

LayoutNext == GatherSerial \/ Place \/ Reject \/ Strip \/ \E r \in Readers : Scatterv(r)

LayoutSpec == LayoutInit /\ [][LayoutNext]_lvars
------------------------------------------------------------------------------
framed_at(i, j) == cell_at(nx, ny, frame, i, j)

Real(k) == {<<k, Cell(i, j)>> : i \in 0 .. nx - 1, j \in 0 .. ny - 1}

(* A gathered plane of dv_ has every cell of the grid at its own place, and   *)
(* the ghosts below and above the grid as the boundary conditions left them,  *)
(* although the ghost rows of later ranks are laid over the real rows of      *)
(* earlier ones.                                                              *)
SolutionRight ==
    Gathered /\ field = "dv" =>
        \A i \in 0 .. nx - 1, j \in -1 .. ny :
            framed_at(i, j) = IF j \in 0 .. ny - 1 THEN Cell(i, j) ELSE Bc(i, j)

\* The two rows below the slab of a rank that is not root: ghost rows of its
\* canvas, placed over the real rows of the rank below.
Overlaid(j) ==
    \E r \in 1 .. n - 1 : j \in Slab(ny, n, r).j0 - 2 .. Slab(ny, n, r).j0 - 1

(* Of a gathered plane of dv_, the places that differ from the frame of one   *)
(* process are the ghost columns of the overlaid rows, and no others: the     *)
(* "Exact byte parity with the serial dv_ view" (euler_solver.hpp:94) holds   *)
(* everywhere but there.                                                      *)
ParityLossBounded ==
    Gathered /\ field = "dv" =>
        LET serial == SerialFrame("dv", nx, ny)
        IN  \A i \in -1 .. nx, j \in -1 .. ny :
                framed_at(i, j) = cell_at(nx, ny, serial, i, j) <=> ~ (i \in {-1, nx} /\ Overlaid(j))

(* Of a gathered plane of cv_, the cells that are lost are those of the       *)
(* overlaid rows, and no others.                                              *)
RestartLossBounded ==
    Gathered /\ field = "cv" =>
        \A i \in 0 .. nx - 1, j \in 0 .. ny - 1 : framed_at(i, j) = Cell(i, j) <=> ~ Overlaid(j)

Loaded == \A r \in Readers : got[r] = CvPlanes

(* The chunks deal every cell of a complete file out to exactly one place of  *)
(* one rank: no cell is lost, none is given twice, none comes from another    *)
(* plane or from the ghost frame of the file.                                 *)
DealtOut ==
    Loaded /\ n = 1 => \A k \in 0 .. CvPlanes - 1 : \A v \in Real(k) :
        Cardinality({rc \in UNION {{r} \X Cells(r) : r \in Readers} :
                        cv[rc[1]][k][rc[2]] = v}) = 1

(* "Reads a restart written by write_restart and reinitializes local state    *)
(* (cv interior from file ...)" (euler_solver.hpp:65): what the writer had in *)
(* a cell is what the reader has in it.                                       *)
CellsRestored ==
    \A r \in Readers : got[r] = CvPlanes =>
        \A k \in 0 .. CvPlanes - 1, c \in Cells(r) :
            cv[r][k][c] = <<k, Cell(c[1], Slab(ry, m, r).j0 + c[2])>>

(* One process gets back the state that one process has written: the          *)
(* continuation test_restart.cpp runs.                                        *)
SerialRestored == n = 1 /\ m = 1 => CellsRestored
=============================================================================
