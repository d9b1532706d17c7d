-------------------------- MODULE DistributedMarch --------------------------
(* The MPI program of ns_solver: every rank runs main, builds an EulerSolver  *)
(* for its slab, marches it with run(max_iters) and takes part in the output. *)
(* Nothing coordinates the ranks but the collectives and the halo exchanges   *)
(* they all have to call in the same order; every rank decides on its own, in *)
(* every iteration, whether there is another one.                             *)
(*                                                                            *)
(* One exchange of dv_ is one synchronisation with the neighbours here (the   *)
(* specification GhostSync); HaloExchange models its messages.                *)
EXTENDS MpiWorld, Sequences

CONSTANTS
    MaxIters,      \* max_iters of main
    NStages,       \* 1, 2, 3: forward Euler, SSPRK2, SSPRK3
    GlobalEmax,    \* scheme NKFDS_MOVERS_2O: one more reduction in every stage
    Unsteady,      \* cfg.flow
    TotalTime,     \* cfg.run.total_time
    Dts,           \* local minima of the time step, positive
    Restart,       \* --restart <file> is given
    NPlanes,       \* planes write_solution gathers (8 in the code)
    FailPoints     \* the places where an exception may be thrown

ASSUME MarchAssumption ==
    /\ MaxIters \in Nat /\ NStages \in 1 .. 3 /\ NPlanes \in Nat \ {0}
    /\ GlobalEmax \in BOOLEAN /\ Unsteady \in BOOLEAN /\ Restart \in BOOLEAN
    /\ TotalTime \in Nat /\ Dts \subseteq Nat \ {0} /\ Dts # {}
    /\ FailPoints \subseteq {"dirs", "restart", "residue", "dt", "blend", "solution", "vtk"}

VARIABLES
    inputs,     \* the configuration and the grid, files every rank reads, are good
    pc,         \* pc[r]: where rank r is
    iter, stage,        \* iter, and s + 1 of the stage loop, of run
    time,       \* time_
    dt, dtp,    \* tstep_(0,0) after the reduction, and dt_prev
    res,        \* 0 if resn1_ of a later iteration would be below 1e-14, else 1
    ver,        \* how often rank r has updated its cv_
    posted,     \* posted[r][e]: the ver of the rows rank r sends in its e-th exchange
    ghost,      \* ghost[r][n]: the ver of the ghost rows rank r holds of rank n
    cs,         \* cs[r]: "out" of a collective, "in" one, or free to "go" on
    contrib,    \* contrib[r]: what rank r last brought to a collective
    red,        \* the result of the last completed collective
    scattered,  \* root has scattered the restart file
    gk,         \* gk[r]: planes rank r is done with in write_solution
    src,        \* the rank whose plane root waits for
    mail,       \* mail[r]: planes sent to root and not received
    file,       \* file[k][r]: origin of rank r's part of plane k, at root
    written,    \* root has written the solution file
    rc          \* rc[r]: the exit code of main

loopVars == <<iter, stage, time, dt, dtp, res>>
haloVars == <<ver, posted, ghost>>
collVars == <<cs, contrib, red>>
outVars  == <<gk, src, mail, file, written>>
vars == <<inputs, pc, loopVars, haloVars, collVars, scattered, outVars, rc>>

root == 0     \* is_root()

------------------------------------------------------------------------------
Init ==
    /\ inputs \in BOOLEAN
    /\ pc = [r \in Ranks |-> "start"]
    /\ iter = [r \in Ranks |-> 0]
    /\ stage = [r \in Ranks |-> 0]
    /\ time = [r \in Ranks |-> 0]
    /\ dt = [r \in Ranks |-> 0]
    /\ dtp = [r \in Ranks |-> 0]
    /\ res = [r \in Ranks |-> 0]
    /\ ver = [r \in Ranks |-> 0]
    /\ posted = [r \in Ranks |-> << >>]
    /\ ghost = [r \in Ranks |-> [n \in Neighbours(r) |-> -1]]
    /\ cs = [r \in Ranks |-> "out"]
    /\ contrib = [r \in Ranks |-> 0]
    /\ red = 0
    /\ scattered = FALSE
    /\ gk = [r \in Ranks |-> 0]
    /\ src = 1
    /\ mail = [r \in Ranks |-> << >>]
    /\ file = [k \in 0 .. NPlanes - 1 |-> [r \in Ranks |-> << >>]]
    /\ written = FALSE
    /\ rc = [r \in Ranks |-> 0]

Goto(r, from, to) == pc[r] = from /\ pc' = [pc EXCEPT ![r] = to]

\* mutant: the exception is caught around run and the results are written
ThrowAndWrite(r, from, point) ==
    /\ point \in FailPoints
    /\ Goto(r, from, "gather")
    /\ rc' = [rc EXCEPT ![r] = 1]
    /\ UNCHANGED <<inputs, loopVars, haloVars, collVars, scattered, outVars>>

\* An exception of rank r reaches the handler in main: rc = 1, MPI_Finalize.
Throw(r, from, point) ==
    /\ point \in FailPoints
    /\ Goto(r, from, "finalize")
    /\ rc' = [rc EXCEPT ![r] = 1]
    /\ UNCHANGED <<inputs, loopVars, haloVars, collVars, scattered, outVars>>

------------------------------------------------------------------------------
(* MPI.                                                                       *)

\* exchange(dv_), first half: rank r enters, with its rows as they are now.
PostHalo(r, from, to) ==
    /\ Goto(r, from, to)
    /\ posted' = [posted EXCEPT ![r] = Append(@, ver[r])]
    /\ UNCHANGED <<inputs, loopVars, ver, ghost, collVars, scattered, outVars, rc>>

\* Second half: it comes back when its neighbours have entered the same one,
\* with the rows they sent in it.
WaitHalo(r, from, to) ==
    /\ Goto(r, from, to)
    /\ \A n \in Neighbours(r) : Len(posted[n]) >= Len(posted[r])
    /\ ghost' = [ghost EXCEPT ![r] = [n \in Neighbours(r) |-> posted[n][Len(posted[r])]]]
    /\ UNCHANGED <<inputs, ver, posted, collVars, scattered, outVars, rc>>

\* What MPI_Allreduce may return for the contributions f: the smallest time
\* step; the largest of the others.  The sum of the residuals may come out
\* below the tolerance, 0, although it is not zero.
Reductions(kind, f) ==
    LET values == {f[r] : r \in Ranks}
    IN  CASE kind = "dt" -> {m \in values : \A v \in values : m <= v}
          [] kind = "rn" -> {0} \cup {m \in values : m = 1}
          [] OTHER       -> {m \in values : \A v \in values : v <= m}

\* The last rank to arrive completes it for everybody.
Enter(r, kind, value) ==
    /\ pc[r] = kind /\ cs[r] = "out"
    /\ contrib' = [contrib EXCEPT ![r] = value]
    /\ IF \A s \in Ranks \ {r} : cs[s] = "in"
         THEN /\ cs' = [s \in Ranks |-> "go"]
              /\ red' \in Reductions(kind, contrib')
         ELSE /\ cs' = [cs EXCEPT ![r] = "in"]
              /\ UNCHANGED red
    /\ UNCHANGED <<inputs, pc, loopVars, haloVars, scattered, outVars, rc>>

Leave(r, kind) ==
    /\ pc[r] = kind /\ cs[r] = "go"
    /\ cs' = [cs EXCEPT ![r] = "out"]
    /\ UNCHANGED <<inputs, haloVars, contrib, red, scattered, outVars, rc>>

------------------------------------------------------------------------------
(* main up to run.                                                            *)

\* Every rank reads the same two files: they are good for all or for none.
Load(r) ==
    /\ inputs
    /\ Goto(r, "start", "post0")
    /\ UNCHANGED <<inputs, loopVars, haloVars, collVars, scattered, outVars, rc>>

LoadFails(r) ==
    /\ ~ inputs
    /\ Goto(r, "start", "finalize")
    /\ rc' = [rc EXCEPT ![r] = 1]
    /\ UNCHANGED <<inputs, loopVars, haloVars, collVars, scattered, outVars>>

\* finish_init: two exchanges of dv_, before and after it is recomputed.
FinishInit(r) ==
    \/ PostHalo(r, "post0", "wait0")
    \/ WaitHalo(r, "wait0", "post1") /\ UNCHANGED loopVars
    \/ PostHalo(r, "post1", "wait1")
    \/ /\ WaitHalo(r, "wait1", IF Restart THEN "scatter" ELSE "residue")
       /\ UNCHANGED loopVars

\* load_restart: root reads the file and scatters it plane by plane (one step
\* here); the others wait for it.  cv_ is replaced, dv_ follows and is exchanged.
Scatter(r) ==
    /\ Goto(r, "scatter", "post2")
    /\ r = root \/ scattered
    /\ scattered' = TRUE
    /\ ver' = [ver EXCEPT ![r] = @ + 1]
    /\ UNCHANGED <<inputs, loopVars, posted, ghost, collVars, outVars, rc>>

\* mutant: the exchange that ends load_restart is forgotten
LoadRestartOnly(r) ==
    \/ Scatter(r)
    \/ /\ Goto(r, "post2", "residue")
       /\ UNCHANGED <<inputs, loopVars, haloVars, collVars, scattered, outVars, rc>>

LoadRestart(r) ==
    \/ Scatter(r)
    \/ PostHalo(r, "post2", "wait2")
    \/ WaitHalo(r, "wait2", "residue") /\ UNCHANGED loopVars

\* open_residue does something on root only.
OpenResidue(r) ==
    /\ Goto(r, "residue", "loop")
    /\ UNCHANGED <<inputs, loopVars, haloVars, collVars, scattered, outVars, rc>>

------------------------------------------------------------------------------
(* run.                                                                       *)

StopsLate(n, t) == n > MaxIters \/ (Unsteady /\ t >= TotalTime)     \* mutant

Stops(n, t) == n >= MaxIters \/ (Unsteady /\ t >= TotalTime)

LeaveLoop(r) ==
    /\ Stops(iter[r], time[r])
    /\ Goto(r, "loop", "gather")
    /\ UNCHANGED <<inputs, loopVars, haloVars, collVars, scattered, outVars, rc>>

BeginIteration(r) ==
    /\ ~ Stops(iter[r], time[r])
    /\ Goto(r, "loop", "dt")
    /\ time' = [time EXCEPT ![r] = @ + dtp[r]]
    /\ iter' = [iter EXCEPT ![r] = @ + 1]
    /\ stage' = [stage EXCEPT ![r] = 1]
    /\ UNCHANGED <<inputs, dt, dtp, res, haloVars, collVars, scattered, outVars, rc>>

FluxPoint == IF GlobalEmax THEN "emax" ELSE "blend"

\* mutant: the local minimum is used
TimeStepLocal(r) ==
    \/ \E d \in Dts : Enter(r, "dt", d)
    \/ /\ Leave(r, "dt")
       /\ Goto(r, "dt", FluxPoint)
       /\ dt' = [dt EXCEPT ![r] = contrib[r]]
       /\ UNCHANGED <<iter, stage, time, dtp, res>>

\* time_step_euler: the smallest local step of all ranks.
TimeStep(r) ==
    \/ \E d \in Dts : Enter(r, "dt", d)
    \/ /\ Leave(r, "dt")
       /\ Goto(r, "dt", FluxPoint)
       /\ dt' = [dt EXCEPT ![r] = red]
       /\ UNCHANGED <<iter, stage, time, dtp, res>>

\* compute_fluxes: the global window maximum.
Emax(r) ==
    \/ Enter(r, "emax", 0)
    \/ Leave(r, "emax") /\ Goto(r, "emax", "blend") /\ UNCHANGED loopVars

\* scale_rhs_only, ssprk_blend, dependent_variables_all.
Blend(r) ==
    /\ Goto(r, "blend", "posts")
    /\ ver' = [ver EXCEPT ![r] = @ + 1]
    /\ UNCHANGED <<inputs, loopVars, posted, ghost, collVars, scattered, outVars, rc>>

\* exchange(dv_) and apply_boundaries end a stage.
EndStage(r) ==
    \/ PostHalo(r, "posts", "waits")
    \/ /\ stage[r] < NStages
       /\ WaitHalo(r, "waits", FluxPoint)
       /\ stage' = [stage EXCEPT ![r] = @ + 1]
       /\ UNCHANGED <<iter, time, dt, dtp, res>>
    \/ /\ stage[r] = NStages
       /\ WaitHalo(r, "waits", "rn")
       /\ UNCHANGED loopVars

\* residue_and_forces: the sum of the squared changes of rho, 1 when it is not
\* zero on this rank.
Residual(r) ==
    \/ \E v \in {0, 1} : Enter(r, "rn", v)
    \/ /\ Leave(r, "rn")
       /\ Goto(r, "rn", "lv")
       /\ res' = [res EXCEPT ![r] = red]
       /\ UNCHANGED <<iter, stage, time, dt, dtp>>

\* mutant: a run may converge in its first iteration
EndIterationEarly(r, from) ==
    /\ Goto(r, from, IF res[r] = 0 THEN "gather" ELSE "loop")
    /\ dtp' = [dtp EXCEPT ![r] = dt[r]]
    /\ UNCHANGED <<iter, stage, time, dt, res>>

\* residue_and_forces has returned: converged (never in the first iteration,
\* where resn1_ is set to 1), or back to the head of the loop.
EndIteration(r, from) ==
    /\ Goto(r, from, IF iter[r] > 1 /\ res[r] = 0 THEN "gather" ELSE "loop")
    /\ dtp' = [dtp EXCEPT ![r] = dt[r]]
    /\ UNCHANGED <<iter, stage, time, dt, res>>

\* mutant: only the ranks that hold the largest change reduce its location
LocationOfMax(r) ==
    \/ \E v \in contrib[r] .. 1 : Enter(r, "lv", v)
    \/ Leave(r, "lv") /\ contrib[r] = red /\ red > 0 /\ Goto(r, "lv", "loc") /\ UNCHANGED loopVars
    \/ Leave(r, "lv") /\ ~ (contrib[r] = red /\ red > 0) /\ EndIteration(r, "lv")
    \/ Enter(r, "loc", 0)
    \/ Leave(r, "loc") /\ EndIteration(r, "loc")

\* The largest change, which is not zero where the sum is not (but its square
\* may underflow); if it is not zero anywhere, its location is reduced too.
Location(r) ==
    \/ \E v \in contrib[r] .. 1 : Enter(r, "lv", v)
    \/ Leave(r, "lv") /\ red > 0 /\ Goto(r, "lv", "loc") /\ UNCHANGED loopVars
    \/ Leave(r, "lv") /\ red = 0 /\ EndIteration(r, "lv")
    \/ Enter(r, "loc", 0)
    \/ Leave(r, "loc") /\ EndIteration(r, "loc")

------------------------------------------------------------------------------
(* write_solution, write_vtk and the end of main.                             *)

Origin(r, k) == <<k, iter[r], ver[r]>>

\* gather_plane on another rank: MPI_Send, buffered or synchronous.
SendPlane(r) ==
    /\ r # root /\ gk[r] < NPlanes
    /\ \E to \in {"gather", "gsync"} : Goto(r, "gather", to)
    /\ mail' = [mail EXCEPT ![r] = Append(@, Origin(r, gk[r]))]
    /\ gk' = [gk EXCEPT ![r] = @ + 1]
    /\ UNCHANGED <<inputs, loopVars, haloVars, collVars, scattered, src, file, written, rc>>

SendReturns(r) ==
    /\ mail[r] = << >>
    /\ Goto(r, "gsync", "gather")
    /\ UNCHANGED <<inputs, loopVars, haloVars, collVars, scattered, outVars, rc>>

\* mutant: root takes whichever plane arrives
RecvAnyPlane(r) ==
    /\ r = root /\ pc[r] = "gather" /\ gk[r] < NPlanes /\ src \in Ranks
    /\ \E s \in Ranks :
        /\ mail[s] # << >>
        /\ file' = [file EXCEPT ![gk[r]][src] = Head(mail[s])]
        /\ mail' = [mail EXCEPT ![s] = Tail(@)]
    /\ src' = src + 1
    /\ UNCHANGED <<inputs, pc, loopVars, haloVars, collVars, scattered, gk, written, rc>>

\* gather_plane on root: the other ranks' planes in rank order.
RecvPlane(r) ==
    /\ r = root /\ pc[r] = "gather" /\ gk[r] < NPlanes
    /\ src \in Ranks /\ mail[src] # << >>
    /\ file' = [file EXCEPT ![gk[r]][src] = Head(mail[src])]
    /\ mail' = [mail EXCEPT ![src] = Tail(@)]
    /\ src' = src + 1
    /\ UNCHANGED <<inputs, pc, loopVars, haloVars, collVars, scattered, gk, written, rc>>

NextPlane(r) ==
    /\ r = root /\ pc[r] = "gather" /\ gk[r] < NPlanes
    /\ src = NRanks
    /\ file' = [file EXCEPT ![gk[r]][r] = Origin(r, gk[r])]
    /\ gk' = [gk EXCEPT ![r] = @ + 1]
    /\ src' = 1
    /\ UNCHANGED <<inputs, pc, loopVars, haloVars, collVars, scattered, mail, written, rc>>

\* All planes are gathered: root writes the file, the others are through with
\* write_solution and write_vtk.
WriteSolution(r) ==
    /\ gk[r] = NPlanes
    /\ Goto(r, "gather", IF r = root THEN "vtk" ELSE "finalize")
    /\ written' = (written \/ r = root)
    /\ UNCHANGED <<inputs, loopVars, haloVars, collVars, scattered, gk, src, mail, file, rc>>

\* mutant: root gathers a second time, which the other ranks do not
WriteVtkGathers(r) ==
    /\ mail[1] # << >>
    /\ Goto(r, "vtk", "finalize")
    /\ UNCHANGED <<inputs, loopVars, haloVars, collVars, scattered, outVars, rc>>

\* "Reuses planes gathered by write_solution -- no second exchange".
WriteVtk(r) ==
    /\ Goto(r, "vtk", "finalize")
    /\ UNCHANGED <<inputs, loopVars, haloVars, collVars, scattered, outVars, rc>>

\* MPI_Finalize is collective.
Finalize(r) ==
    /\ \A s \in Ranks : pc[s] \in {"finalize", "exit"}
    /\ Goto(r, "finalize", "exit")
    /\ UNCHANGED <<inputs, loopVars, haloVars, collVars, scattered, outVars, rc>>

------------------------------------------------------------------------------
\* Where an exception may be thrown: by root alone when it prepares or writes
\* files, by any rank for a non-positive time step or a bad state.
Fails(r) ==
    \/ r = root /\ inputs /\ Throw(r, "start", "dirs")
    \/ r = root /\ Throw(r, "scatter", "restart")
    \/ r = root /\ Throw(r, "residue", "residue")
    \/ cs[r] = "out" /\ Throw(r, "dt", "dt")
    \/ Throw(r, "blend", "blend")
    \/ r = root /\ gk[r] = NPlanes /\ Throw(r, "gather", "solution")
    \/ Throw(r, "vtk", "vtk")

Rank(r) ==
    \/ Load(r) \/ LoadFails(r) \/ FinishInit(r) \/ LoadRestart(r) \/ OpenResidue(r)
    \/ LeaveLoop(r) \/ BeginIteration(r) \/ TimeStep(r) \/ Emax(r) \/ Blend(r)
    \/ EndStage(r) \/ Residual(r) \/ Location(r)
    \/ SendPlane(r) \/ SendReturns(r) \/ RecvPlane(r) \/ NextPlane(r)
    \/ WriteSolution(r) \/ WriteVtk(r) \/ Finalize(r)

AllExited == \A r \in Ranks : pc[r] = "exit"

Next == \E r \in Ranks : Rank(r) \/ Fails(r)

\* A rank that can take a step takes one; exceptions are never obliged to happen.
Spec == Init /\ [][Next]_vars /\ \A r \in Ranks : WF_vars(Rank(r))
------------------------------------------------------------------------------
BeforeLoop == {"start", "post0", "wait0", "post1", "wait1", "scatter", "post2",
               "wait2", "residue", "loop"}
InStage    == {"blend", "posts", "waits"}
Collective == {"dt", "emax", "rn", "lv", "loc"}
AfterLoop  == {"gather", "gsync", "vtk", "finalize", "exit"}

TypeOK ==
    /\ inputs \in BOOLEAN /\ scattered \in BOOLEAN /\ written \in BOOLEAN
    /\ pc \in [Ranks -> BeforeLoop \cup InStage \cup Collective \cup AfterLoop]
    /\ iter \in [Ranks -> 0 .. MaxIters]
    /\ stage \in [Ranks -> 0 .. NStages]
    /\ time \in [Ranks -> Nat]
    /\ dt \in [Ranks -> Dts \cup {0}] /\ dtp \in [Ranks -> Dts \cup {0}]
    /\ res \in [Ranks -> {0, 1}]
    /\ ver \in [Ranks -> Nat]
    /\ posted \in [Ranks -> Seq(Nat)]
    /\ cs \in [Ranks -> {"out", "in", "go"}]
    /\ contrib \in [Ranks -> Dts \cup {0, 1}] /\ red \in Dts \cup {0, 1}
    /\ gk \in [Ranks -> 0 .. NPlanes] /\ src \in 1 .. NRanks
    /\ mail \in [Ranks -> Seq((0 .. NPlanes) \X (0 .. MaxIters) \X Nat)]
    /\ rc \in [Ranks -> {0, 1}]

(* Ranks that wait in a collective, or have been released from one, are in    *)
(* the same call of the same stage of the same iteration.  MPI matches the    *)
(* reductions by their order alone: a rank that makes one more or one less    *)
(* than the others would have its residual taken for a time step.             *)
CollectivesMatch ==
    \A r, s \in Ranks :
        cs[r] = cs[s] /\ cs[r] # "out" =>
            pc[r] = pc[s] /\ iter[r] = iter[s] /\ stage[r] = stage[s]

(* Every rank decides for itself when to leave the loop, and all decide the   *)
(* same: once one has left it, every other one that has not thrown has made   *)
(* as many iterations, to the same time, and will begin no other.             *)
StopTogether ==
    \A r, s \in Ranks :
        rc[r] = 0 /\ rc[s] = 0 /\ pc[r] \in AfterLoop =>
            /\ iter[s] = iter[r] /\ time[s] = time[r]
            /\ \/ pc[s] \in AfterLoop
               \/ pc[s] \in BeforeLoop /\ Stops(iter[s], time[s])
               \/ pc[s] \in {"lv", "loc"} /\ cs[s] = "go"

(* Ranks in the same iteration have the same time_ and, once they have left   *)
(* time_step_euler, the same time step, although each computes them alone.    *)
SameStep ==
    \A r, s \in Ranks :
        rc[r] = 0 /\ rc[s] = 0 /\ iter[r] = iter[s] =>
            /\ time[r] = time[s]
            /\ pc[r] # "dt" /\ pc[s] # "dt" => dt[r] = dt[s]

(* Whenever a rank computes a time step or fluxes, the ghost rows it holds of *)
(* a neighbour are as old as its own rows: no stage mixes new and old data.   *)
GhostsInStep ==
    \A r \in Ranks : rc[r] = 0 /\ pc[r] \in Collective \cup {"residue", "loop", "blend"} =>
        \A n \in Neighbours(r) : ghost[r][n] = ver[r]

(* The solution file holds, for every plane and every slab, that plane of the *)
(* final state of that rank: no plane of another iteration, of another rank   *)
(* or of another index, though root gathers while the others run ahead.       *)
SolutionComplete ==
    written => \A k \in DOMAIN file, r \in Ranks : file[k][r] = <<k, iter[root], ver[root]>>

(* After an exception on one rank no other gets past the collective or the    *)
(* exchange that rank would have taken part in: nobody completes an iteration *)
(* it has not reached and no solution is written without it.                  *)
FailureContained ==
    \A r \in Ranks : rc[r] = 1 =>
        /\ \A s \in Ranks : iter[s] <= iter[r] \/ iter[s] = 1
        /\ written => r = root /\ gk[r] = NPlanes

(* Every rank comes to its end, unless one throws once the input files have   *)
(* been read: no order of arrival leaves a rank waiting in a collective, an   *)
(* exchange or a gather.                                                      *)
Completion == <>(AllExited \/ (inputs /\ \E r \in Ranks : rc[r] = 1))

------------------------------------------------------------------------------
(* The ranks together make the decisions of one process, TimeMarch.  What     *)
(* they have decided is what any of them that has not thrown will have in its *)
(* variables when it arrives at its next collective, or at the end.           *)
Local(r) == [pc |-> pc[r], iter |-> iter[r], stage |-> stage[r], time |-> time[r],
             dt |-> dt[r], dtp |-> dtp[r], res |-> res[r]]

\* Out of residue_and_forces.
Ended(l) == [l EXCEPT !.pc = IF l.iter > 1 /\ l.res = 0 THEN "gather" ELSE "loop",
                      !.dtp = l.dt]

\* Out of the collective, with the result m.
Released(l, m) ==
    CASE l.pc = "dt"   -> [l EXCEPT !.pc = FluxPoint, !.dt = m]
      [] l.pc = "emax" -> [l EXCEPT !.pc = "blend"]
      [] l.pc = "rn"   -> [l EXCEPT !.pc = "lv", !.res = m]
      [] l.pc = "lv"   -> IF m > 0 THEN [l EXCEPT !.pc = "loc"] ELSE Ended(l)
      [] l.pc = "loc"  -> Ended(l)

\* On to the next collective.
Arrived(l) ==
    CASE l.pc \in BeforeLoop ->
           IF Stops(l.iter, l.time)
             THEN [l EXCEPT !.pc = "end", !.stage = 0]
             ELSE [l EXCEPT !.pc = "dt", !.stage = 1, !.iter = l.iter + 1,
                            !.time = l.time + l.dtp]
      [] l.pc \in InStage ->
           IF GlobalEmax /\ l.stage < NStages
             THEN [l EXCEPT !.pc = "emax", !.stage = l.stage + 1]
             ELSE [l EXCEPT !.pc = "rn", !.stage = NStages]
      [] l.pc \in Collective -> l
      [] l.pc \in AfterLoop  -> [l EXCEPT !.pc = "end", !.stage = 0]

View(r) == Arrived(IF cs[r] = "go" THEN Released(Local(r), red) ELSE Local(r))

(* All ranks that have not thrown have the same view: the invariant behind    *)
(* CollectivesMatch, StopTogether and SameStep.                               *)
Lockstep == \A r, s \in Ranks : rc[r] = 0 /\ rc[s] = 0 => View(r) = View(s)

Alive == {r \in Ranks : rc[r] = 0}
Decided == CHOOSE v \in {View(r) : r \in Alive} : TRUE

phaseBar ==
    IF Alive = {} THEN "aborted"
    ELSE CASE Decided.pc = "dt"  -> "dt"
           [] Decided.pc = "end" -> "done"
           [] OTHER              -> "stages"
iterBar == IF Alive = {} THEN 0 ELSE Decided.iter
timeBar == IF Alive = {} THEN 0 ELSE Decided.time
dtBar   == IF Alive = {} THEN 0 ELSE Decided.dt

TM == INSTANCE TimeMarch WITH
        phase <- phaseBar, iter <- iterBar, time <- timeBar, dt <- dtBar

(* Whatever the ranks do, together they march as one process would.           *)
MarchesAsOne == TM!Spec
=============================================================================
