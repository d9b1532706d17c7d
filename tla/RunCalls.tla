------------------------------- MODULE RunCalls -------------------------------
(* Several calls of run on one solver, as tests/test_restart.cpp makes them,  *)
(* after a restart file has been loaded or not.  time_ and iter_done_ outlive *)
(* a call; iter and dt_prev are its own.  load_restart replaces the state and *)
(* leaves time_ at zero.                                                      *)
EXTENDS TimeMarch

CONSTANTS
    MaxCalls,      \* bound on the calls
    Origins        \* the times the state may have had in the restart file

ASSUME CallsAssumption ==
    /\ MaxCalls \in Nat \ {0} /\ Origins \subseteq Nat
    /\ \E d \in Dts : \A e \in Dts : e <= d      \* no step is infinite

VARIABLES
    calls,         \* calls of run
    origin,        \* the time of the state the first call started from
    elapsed,       \* the time the state in cv_ has now
    iter_done,     \* iter_done_
    returned       \* what the last call returned

rvars == <<tvars, calls, origin, elapsed, iter_done, returned>>

RunInit ==
    /\ Init
    /\ calls = 1
    /\ origin \in {0} \cup Origins
    /\ elapsed = origin
    /\ iter_done = 0 /\ returned = 0

Step ==
    /\ TimeStep
    /\ UNCHANGED <<calls, origin, elapsed, iter_done, returned>>

\* The end of the loop body, and what follows it.
EndIteration ==
    /\ elapsed' = elapsed + dt
    /\ iter_done' = iter
    /\ UNCHANGED <<calls, origin>>

GoOn == NextIteration /\ EndIteration /\ UNCHANGED returned

\* "return iter" and "return iter_done_"
Return == (Converge \/ LeaveLoop) /\ EndIteration /\ returned' = iter

Throw ==
    /\ phase \in {"dt", "stages"} /\ Abort
    /\ UNCHANGED <<calls, origin, elapsed, iter_done, returned>>

CallResets ==      \* mutant: each call starts its clock again
    /\ phase = "done" /\ calls < MaxCalls
    /\ calls' = calls + 1
    /\ IF Stops(0, 0)
         THEN phase' = "done" /\ iter' = 0 /\ returned' = iter_done /\ UNCHANGED time
         ELSE BeginIteration(0, 0, 0) /\ UNCHANGED returned
    /\ UNCHANGED <<dt, origin, elapsed, iter_done>>

CallForgets ==     \* mutant: iter_done_ is another call's business
    /\ phase = "done" /\ calls < MaxCalls
    /\ calls' = calls + 1
    /\ IF Stops(0, time)
         THEN phase' = "done" /\ iter' = 0 /\ returned' = calls /\ UNCHANGED time
         ELSE BeginIteration(0, time, 0) /\ UNCHANGED returned
    /\ UNCHANGED <<dt, origin, elapsed, iter_done>>

\* The head of the loop in another call, which may leave it at once.
Call ==
    /\ phase = "done" /\ calls < MaxCalls
    /\ calls' = calls + 1
    /\ IF Stops(0, time)
         THEN phase' = "done" /\ iter' = 0 /\ returned' = iter_done /\ UNCHANGED time
         ELSE BeginIteration(0, time, 0) /\ UNCHANGED returned
    /\ UNCHANGED <<dt, origin, elapsed, iter_done>>

RunNext == Step \/ GoOn \/ Return \/ Throw \/ Call

RunSpec == RunInit /\ [][RunNext]_rvars
------------------------------------------------------------------------------
MaxDt == CHOOSE d \in Dts : \A e \in Dts : e <= d

(* time_ is behind the state by at most one step for each call, the last one  *)
(* it made, which no call adds to time_ (dt_prev is zero again).  A run split *)
(* into n calls therefore makes up to n iterations too many; and one that has *)
(* loaded a file is behind by the time of the file, too: it goes on for       *)
(* another total_time.                                                        *)
ClockLags ==
    phase = "dt" =>
        /\ elapsed - origin - time \in 0 .. (calls - 1) * MaxDt
        /\ Unsteady => elapsed - origin < TotalTime + calls * MaxDt

(* "returns number of iterations performed" (euler_solver.hpp:53): so it is,  *)
(* unless a call performs none, which returns the number of the call before.  *)
ReturnsIterations ==
    [][phase' = "done" =>
           IF iter' > 0 THEN returned' = iter' ELSE returned' = returned]_rvars
=============================================================================
