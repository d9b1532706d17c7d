----------------------------- MODULE PlaneLayout -----------------------------
(* The flat arrays a plane travels in: the canvas a rank sends to root, the   *)
(* frame root puts together, the frame in a restart file and the buffer it is *)
(* scattered from.  All of them are i-major: j runs fastest.                  *)
(*                                                                            *)
(* The value of a cell is its place in the grid, since what matters is where  *)
(* it ends up: a computed cell, a ghost cell filled by a boundary condition,  *)
(* or a cell that still has the freestream state of the initialisation.       *)
EXTENDS SlabDecomposition, Sequences

Cell(i, g)  == <<"cell", i, g>>
Bc(i, g)    == <<"bc", i, g>>
Free        == <<"free">>
Zero        == <<"zero">>

Slab(ny, n, r) == make(ny, n, r)
Rows(d)        == d.j1 - d.j0

------------------------------------------------------------------------------
(* The ghosted canvases of rank r at the end of an iteration; i and j are     *)
(* local, -2 .. nx+1 and -2 .. rows+1.                                        *)

\* cv_: the stages update the real cells, its ghosts keep the freestream.
Cv(nx, ny, n, r, i, j) ==
    LET d == Slab(ny, n, r)
    IN  IF i \in 0 .. nx - 1 /\ j \in 0 .. Rows(d) - 1 THEN Cell(i, d.j0 + j) ELSE Free

\* dv_: recomputed from cv_ with all its ghosts, then the columns 0 .. nx-1 of
\* the ghost rows next to a neighbour are received from it, then the boundary
\* conditions fill the ghosts of the real rows and columns at the edges of the
\* grid; the corners are recomputed from cv_.  Every edge is taken to be covered
\* by segments whose kernels keep to the slab (transmissive, inflow, slip wall).
Dv(nx, ny, n, r, i, j) ==
    LET d == Slab(ny, n, r)
        column == i \in 0 .. nx - 1
        row    == j \in 0 .. Rows(d) - 1
        g      == d.j0 + j
    IN  CASE column /\ g \in 0 .. ny - 1 -> Cell(i, g)
          [] column /\ ~ (g \in 0 .. ny - 1) -> Bc(i, g)
          [] ~ column /\ row -> Bc(i, g)
          [] OTHER -> Free

Canvas(field, nx, ny, n, r, i, j) ==
    IF field = "cv" THEN Cv(nx, ny, n, r, i, j) ELSE Dv(nx, ny, n, r, i, j)

------------------------------------------------------------------------------
(* The global frame: i in -1 .. nx, j in -1 .. ny.                            *)

FrameSize(nx, ny)   == (nx + 2) * (ny + 2)
At(nx, ny, i, j)    == (i + 1) * (ny + 2) + (j + 1)
cell_at(nx, ny, f, i, j) == f[At(nx, ny, i, j)]

\* A frame from what is at each of its places.
Frame(nx, ny, F(_, _)) ==
    [x \in 0 .. FrameSize(nx, ny) - 1 |-> F((x \div (ny + 2)) - 1, (x % (ny + 2)) - 1)]

\* One process copies its own canvas.
SerialFrame(field, nx, ny) ==
    Frame(nx, ny, LAMBDA i, j : Canvas(field, nx, ny, 1, 0, i, j))

\* The whole canvas, both ghost rings included.
pack(field, nx, ny, n, r) ==
    LET h == Rows(Slab(ny, n, r)) + 4
    IN  [x \in 0 .. (nx + 4) * h - 1 |->
            Canvas(field, nx, ny, n, r, (x \div h) - 2, (x % h) - 2)]

placeReal(nx, ny, f, j0, h, buf) ==       \* mutant: real rows only
    Frame(nx, ny, LAMBDA i, j :
        IF j - j0 \in 0 .. h - 1 THEN buf[(i + 2) * (h + 4) + (j - j0 + 2)]
        ELSE cell_at(nx, ny, f, i, j))

placeColumns(nx, ny, f, j0, h, buf) ==    \* mutant: real columns only
    Frame(nx, ny, LAMBDA i, j :
        IF i \in 0 .. nx - 1 /\ j - j0 \in -2 .. h + 1
          THEN buf[(i + 2) * (h + 4) + (j - j0 + 2)]
        ELSE cell_at(nx, ny, f, i, j))

placeShifted(nx, ny, f, j0, h, buf) ==    \* mutant: one ghost ring assumed
    Frame(nx, ny, LAMBDA i, j :
        IF j - j0 \in -2 .. h + 1 THEN buf[(i + 1) * (h + 4) + (j - j0 + 2)]
        ELSE cell_at(nx, ny, f, i, j))

\* It overwrites what the frame holds at the canvas' ghosts, too.
place(nx, ny, f, j0, h, buf) ==
    Frame(nx, ny, LAMBDA i, j :
        IF j - j0 \in -2 .. h + 1 THEN buf[(i + 2) * (h + 4) + (j - j0 + 2)]
        ELSE cell_at(nx, ny, f, i, j))
=============================================================================
