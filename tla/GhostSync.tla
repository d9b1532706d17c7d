------------------------------ MODULE GhostSync ------------------------------
(* What an exchange of dv_ promises the solver, without messages, planes or   *)
(* calls: a rank that comes back from its e-th exchange holds, in the ghost   *)
(* rows next to its slab, what its neighbours had there when they entered     *)
(* their e-th exchange; and it cannot come back before they have entered it.  *)
EXTENDS MpiWorld

CONSTANT Exchanges     \* exchanges of dv_ in the run

VARIABLES
    begun,    \* begun[r]: exchanges rank r has entered
    done,     \* done[r]: exchanges rank r has come back from
    ghost     \* ghost[r][g]: the version of global row g that rank r holds in
              \* its ghosts; Invalid while dv_ is being recomputed or exchanged

vars == <<begun, done, ghost>>

Invalid == -1

\* The rows of the grid two above and two below a slab.
HaloRows(r) ==
    {g \in 0 .. NY - 1 : g \in j0(r) - 2 .. j0(r) - 1 \/ g \in j1(r) .. j1(r) + 1}

Holds(r, n) == [g \in HaloRows(r) |-> n]

Init ==
    /\ begun = [r \in Ranks |-> 0]
    /\ done = [r \in Ranks |-> 0]
    /\ ghost = [r \in Ranks |-> Holds(r, Invalid)]

Begin(r) ==
    /\ begun[r] = done[r] /\ done[r] < Exchanges
    /\ begun' = [begun EXCEPT ![r] = @ + 1]
    /\ ghost' = [ghost EXCEPT ![r] = Holds(r, Invalid)]
    /\ UNCHANGED done

\* The e-th exchange carries version e - 1 of everybody's rows.
Complete(r) ==
    /\ begun[r] = done[r] + 1
    /\ \A n \in Neighbours(r) : begun[n] >= begun[r]
    /\ done' = [done EXCEPT ![r] = @ + 1]
    /\ ghost' = [ghost EXCEPT ![r] = Holds(r, done[r])]
    /\ UNCHANGED begun

Recompute(r) ==
    /\ begun[r] = done[r]
    /\ ghost' = [ghost EXCEPT ![r] = Holds(r, Invalid)]
    /\ UNCHANGED <<begun, done>>

Next == \E r \in Ranks : Begin(r) \/ Complete(r) \/ Recompute(r)

Spec ==
    /\ Init
    /\ [][Next]_vars
    /\ \A r \in Ranks : WF_vars(Begin(r)) /\ WF_vars(Complete(r))
=============================================================================
