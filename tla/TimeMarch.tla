------------------------------ MODULE TimeMarch ------------------------------
(* The time loop of EulerSolver::run, seen as the sequence of its decisions:  *)
(* how large the step is, whether there is another iteration, and the time_   *)
(* and iteration number that go with it.  It is what one process does; that   *)
(* the ranks of an MPI run, who decide separately, make the same decisions is *)
(* what DistributedMarch is checked and proved to do.                         *)
(*                                                                            *)
(* time_ is advanced at the beginning of an iteration, by the step of the     *)
(* iteration before: it is the time the state had before the iteration.       *)
EXTENDS Integers

CONSTANTS
    MaxIters,      \* the argument of run
    Unsteady,      \* cfg.flow
    TotalTime,     \* cfg.run.total_time
    Dts            \* possible time steps; the code throws unless dt > 0

ASSUME TimeAssumption ==
    /\ MaxIters \in Nat /\ Unsteady \in BOOLEAN /\ TotalTime \in Nat
    /\ Dts \subseteq Nat \ {0} /\ Dts # {}

VARIABLES
    phase,    \* "dt": an iteration has begun; "stages": its dt is known;
              \* "done": run has returned; "aborted": an exception left it
    iter,     \* the local iter: iterations begun
    time,     \* time_
    dt        \* tstep_(0,0), all cells have the same

tvars == <<phase, iter, time, dt>>

StopsByIter(n, t) == n >= MaxIters                              \* mutant
\* The head of the loop, with n iterations behind it.
Stops(n, t) == n >= MaxIters \/ (Unsteady /\ t >= TotalTime)

BeginIteration(n, t, dt_prev) ==
    /\ ~ Stops(n, t)
    /\ phase' = "dt"
    /\ iter' = n + 1
    /\ time' = t + dt_prev

\* The first test of the loop head is made on iter = 0 and time_ = 0, and the
\* first iteration adds a dt_prev of 0.
Init ==
    /\ phase = IF Stops(0, 0) THEN "done" ELSE "dt"
    /\ iter = IF Stops(0, 0) THEN 0 ELSE 1
    /\ time = 0
    /\ dt = 0

TimeStep ==
    /\ phase = "dt"
    /\ dt' \in Dts
    /\ phase' = "stages"
    /\ UNCHANGED <<iter, time>>

\* resn1_ < 1e-14 ends the run, but not in the first iteration, where
\* residue_and_forces sets resn1_ to 1.
Converge ==
    /\ phase = "stages"
    /\ iter > 1
    /\ phase' = "done"
    /\ UNCHANGED <<iter, time, dt>>

NextIteration ==
    /\ phase = "stages"
    /\ BeginIteration(iter, time, dt)
    /\ UNCHANGED dt

LeaveLoop ==
    /\ phase = "stages"
    /\ Stops(iter, time)
    /\ phase' = "done"
    /\ UNCHANGED <<iter, time, dt>>

\* A non-positive step, a bad state, a file that cannot be written: the handler
\* in main is reached and the solver is gone.
Abort ==
    /\ phase' = "aborted"
    /\ iter' = 0 /\ time' = 0 /\ dt' = 0

Next == TimeStep \/ Converge \/ NextIteration \/ LeaveLoop \/ Abort

Spec == Init /\ [][Next]_tvars
------------------------------------------------------------------------------
TypeOK ==
    /\ phase \in {"dt", "stages", "done", "aborted"}
    /\ iter \in 0 .. MaxIters
    /\ time \in Nat
    /\ dt \in Dts \cup {0}

(* An unsteady run makes at most one iteration that starts at or past         *)
(* total_time: the loop tests time_ before the last step has been added to    *)
(* it, so an iteration may begin at a time up to one step past the limit, but *)
(* the one before it began short of the limit, the "stop time for unsteady      *)
(* runs" of config.hpp:118.                                                   *)
AtMostOneStepTooMany ==
    phase = "dt" /\ Unsteady /\ iter > 1 => time - dt < TotalTime
=============================================================================
