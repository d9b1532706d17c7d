--------------------------- MODULE SchemeStencils ---------------------------
(* What a process reads to compute the flux through one of its faces, for     *)
(* every scheme compute_fluxes knows, for the gradients and the viscous       *)
(* fluxes, and for its time step.  The arithmetic is left out: a flux is the  *)
(* cells and the face vectors it is made of, so two processes that read the   *)
(* same compute the same.                                                     *)
(*                                                                            *)
(* A face is given by its direction d, its number f along d and the row or    *)
(* column b it lies in; it separates the cells f - 1 and f.                   *)
EXTENDS BoundaryStamp

prim(p, i, j) == IF <<i, j>> \in Places(p) THEN dv[p][<<i, j>>] ELSE Outside

\* cv_: its ghosts are never updated.
cons(p, i, j) == IF <<i, j>> \in Reals(p) THEN Cell(i, j0(p) + j)
                 ELSE IF <<i, j>> \in Places(p) THEN Free ELSE Outside

\* Field indices of the cell f along d in the row or column b.
ix(d, f, b) == IF d = "i" THEN f ELSE b
jx(d, f, b) == IF d = "i" THEN b ELSE f
cell(p, d, f, b) == prim(p, ix(d, f, b), jx(d, f, b))

own_vector(p, d, f, b) == IF d = "i" THEN si(p, f, b) ELSE sj(p, b, f)

\* The kernels with one loop for both directions read sv(f, b), which for the
\* j-faces is sj of cell (f, b).
sv(p, d, f, b) == IF d = "i" THEN si(p, f, b) ELSE sj(p, f, b)

pair(p, d, f, b) == {cell(p, d, f - 1, b), cell(p, d, f, b)}

------------------------------------------------------------------------------
(* The face and difference fields the kernels share.                          *)

Reads(vector, dvs, cvs, window) ==
    [vector |-> vector, dv |-> dvs, cv |-> cvs, window |-> window]

define_convective_faces(p, d, f, b) == Reads(own_vector(p, d, f, b), pair(p, d, f, b), {}, {})

\* faces(k, i, j), computed for the faces of real rows or columns only; the rest
\* of the canvas of (nx + 1) by (ny + 1) faces is zero.
face_entry(p, d, i, j) ==
    LET b == IF d = "i" THEN j ELSE i
        f == IF d = "i" THEN i ELSE j
    IN  CASE b \in 0 .. (IF d = "i" THEN rows(p) ELSE nx) - 1
             /\ f \in 0 .. (IF d = "i" THEN nx ELSE rows(p)) ->
                 define_convective_faces(p, d, f, b).dv \cup {own_vector(p, d, f, b)}
          [] i \in -2 .. nx + 2 /\ j \in -2 .. rows(p) + 2 -> {Zero}
          [] OTHER -> {Outside}

primitive_differences_edge(p, d, f, b) ==     \* mutant: as if f = 0 were the edge
    LET g == IF f < 1 THEN 1 ELSE f IN {cell(p, d, g - 1, b), cell(p, d, g, b)}
\* dui(f, b) or duj(b, f); the outermost one copies its neighbour.
primitive_differences(p, d, f, b) ==
    LET g == IF f = -2 THEN -1 ELSE f IN {cell(p, d, g - 1, b), cell(p, d, g, b)}

\* cui(i, j) or cuj(i, j), which exist in real rows or columns.
conserved_differences(p, d, i, j) ==
    LET lo == IF d = "i" THEN i ELSE j
        g  == IF lo = -2 THEN -1 ELSE lo
    IN  CASE <<i, j>> \notin Places(p) -> {Outside}
          [] d = "i" /\ j \notin 0 .. rows(p) - 1 -> {Zero}
          [] d = "j" /\ i \notin 0 .. nx - 1 -> {Zero}
          [] OTHER -> IF d = "i" THEN {cons(p, g - 1, j), cons(p, g, j)}
                      ELSE {cons(p, i, g - 1), cons(p, i, g)}

\* The cells of the face and the differences at f - 1, f and f + 1, on which each
\* second-order kernel applies its limiter.
muscl(p, d, f, b) ==
    pair(p, d, f, b) \cup UNION {primitive_differences(p, d, g, b) : g \in f - 1 .. f + 1}

face_states_direct(p, d, f, b) == pair(p, d, f, b)
face_states_muscl(p, d, f, b)  == muscl(p, d, f, b)
recon_st(p, d, f, b)           == muscl(p, d, f, b)
recon_minmod_d(p, d, f, b)     == muscl(p, d, f, b)

------------------------------------------------------------------------------
(* The window maximum of the NKFDS schemes and the switch it is for.          *)

\* [0, nx] x [0, ny): a ghost column is in it.
emax_window(p) == {prim(p, i, j) : i \in 0 .. nx, j \in 0 .. rows(p) - 1}

\* mah_cp_: the pressure coefficient of the wall cell this process visited last.
mah_cp(p) == <<"cp", p>>

nkfds_entropy_switch_sign(ric, on) == IF on THEN ric ELSE 0     \* mutant
\* It is on for a face whose entropy jump is within the window maximum; ric, the
\* largest eigenvalue of the face, is not negative.
nkfds_entropy_switch(ric, on) == IF on THEN -ric ELSE 0

\* "if (fed > 0)": only then do the maximum and mah_cp_ have a part in the flux.
window_counts == \E ric \in 0 .. 1, on \in BOOLEAN : nkfds_entropy_switch(ric, on) > 0
window_read(w) == IF window_counts THEN w ELSE {}

------------------------------------------------------------------------------
(* One operator per kernel.                                                   *)

llf_dissipation_first_order(p, d, f, b) ==
    Reads(own_vector(p, d, f, b), pair(p, d, f, b), {}, {})

llf_dissipation_second_order(p, d, f, b) ==
    Reads(own_vector(p, d, f, b), muscl(p, d, f, b), {}, {})

\* Each process scans its own window.
nkfds_movers_dissipation_first_order(p, d, f, b) ==
    Reads(own_vector(p, d, f, b), pair(p, d, f, b), {},
          window_read(emax_window(p) \cup {mah_cp(p)}))

\* With several ranks the maximum is reduced over them.
nkfds_movers_dissipation_second_order(p, d, f, b) ==
    Reads(own_vector(p, d, f, b), muscl(p, d, f, b), {},
          window_read((IF mpi_mode(p) THEN UNION {emax_window(r) : r \in Ranks}
                       ELSE emax_window(p)) \cup {mah_cp(p)}))

roe_dissipation_second_order(p, d, f, b) ==
    Reads(own_vector(p, d, f, b), muscl(p, d, f, b), {}, {})

movers_dissipation_muscl(p, d, f, b) ==
    Reads(own_vector(p, d, f, b), face_states_muscl(p, d, f, b), {}, {})

movers_h1_dissipation(p, d, f, b) ==
    Reads(sv(p, d, f, b), face_states_direct(p, d, f, b), {}, {})

movers_le1_dissipation(p, d, f, b) ==
    Reads(own_vector(p, d, f, b), face_states_direct(p, d, f, b),
          UNION {conserved_differences(p, d, ix(d, g, b), jx(d, g, b)) : g \in f .. f + 1}, {})

roe_tv_dissipation(p, d, f, b) == Reads(sv(p, d, f, b), pair(p, d, f, b), {}, {})

\* The face data, too, are read at (f, b) in both directions.
kfds_dissipation_first_order(p, d, f, b) ==
    Reads(sv(p, d, f, b), pair(p, d, f, b) \cup face_entry(p, d, f, b), {}, {})

movers_h2_dissipation(p, d, f, b) == Reads(sv(p, d, f, b), recon_st(p, d, f, b), {}, {})

\* cdifs(k, ip1, b) and cdifs(k, a1, b1)
movers_le2_dissipation(p, d, f, b) ==
    Reads(sv(p, d, f, b), recon_st(p, d, f, b),
          conserved_differences(p, d, f + 1, b)
              \cup conserved_differences(p, d, ix(d, f, b), jx(d, f, b)), {})

roe_tv_2o_dissipation(p, d, f, b) == Reads(sv(p, d, f, b), recon_st(p, d, f, b), {}, {})

kfds_dissipation_second_order(p, d, f, b) == kfds_dissipation_first_order(p, d, f, b)

eccs_dissipation(p, d, f, b) == Reads(sv(p, d, f, b), recon_minmod_d(p, d, f, b), {}, {})

movers_nwsc_dissipation(p, d, f, b) == Reads(sv(p, d, f, b), recon_minmod_d(p, d, f, b), {}, {})

Schemes == {"llf", "llf-2o", "movers", "movers-h1", "movers-le1", "movers-h2", "movers-le2",
            "movers-nwsc", "nkfds-movers", "nkfds-movers-2o", "roe-2o", "roe-tv", "roe-tv-2o",
            "kfds", "kfds-2o", "eccs"}

\* The switch of compute_fluxes.
dissipation(scheme, p, d, f, b) ==
    CASE scheme = "llf" -> llf_dissipation_first_order(p, d, f, b)
      [] scheme = "llf-2o" -> llf_dissipation_second_order(p, d, f, b)
      [] scheme = "movers" -> movers_dissipation_muscl(p, d, f, b)
      [] scheme = "movers-h1" -> movers_h1_dissipation(p, d, f, b)
      [] scheme = "movers-le1" -> movers_le1_dissipation(p, d, f, b)
      [] scheme = "movers-h2" -> movers_h2_dissipation(p, d, f, b)
      [] scheme = "movers-le2" -> movers_le2_dissipation(p, d, f, b)
      [] scheme = "movers-nwsc" -> movers_nwsc_dissipation(p, d, f, b)
      [] scheme = "nkfds-movers" -> nkfds_movers_dissipation_first_order(p, d, f, b)
      [] scheme = "nkfds-movers-2o" -> nkfds_movers_dissipation_second_order(p, d, f, b)
      [] scheme = "roe-2o" -> roe_dissipation_second_order(p, d, f, b)
      [] scheme = "roe-tv" -> roe_tv_dissipation(p, d, f, b)
      [] scheme = "roe-tv-2o" -> roe_tv_2o_dissipation(p, d, f, b)
      [] scheme = "kfds" -> kfds_dissipation_first_order(p, d, f, b)
      [] scheme = "kfds-2o" -> kfds_dissipation_second_order(p, d, f, b)
      [] scheme = "eccs" -> eccs_dissipation(p, d, f, b)
=============================================================================
