# A TLA+ verification project for 2D_NS_Solver

The program solves the two-dimensional compressible Euler and Navier-Stokes
equations on a structured grid of `nx` by `ny` cells, alone or on several MPI
ranks.  Its numbers are floating-point kernels; what can go wrong without any
number looking strange is the *control*: who owns which row, which ghost row is
how old, which call on one rank meets which call on another, and when everybody
stops.  That is what this project models, checks with TLC and proves with TLAPS.

## Contents

1. [The system](#the-system)
2. [Modules](#modules)
3. [Runs, bounds and what they show](#runs-bounds-and-what-they-show)
4. [Where the code and its comments disagree](#where-the-code-and-its-comments-disagree)
5. [Fairness](#fairness)
6. [Proofs](#proofs)
7. [Not modelled](#not-modelled)
8. [Plan](#plan)

## The system

| Component | State it keeps | Operations | What makes it correct |
|---|---|---|---|
| Slab decomposition (`parallel/decomposition`) | `j0`, `j1` per rank | `make`, `all_ranges` | computed without communication, the ranges partition the rows and differ by at most one row |
| Halo exchange (`parallel/halo`) | four buffers, tags `700 + 2k`, `701 + 2k` | `exchange`, `exchange_plane`, `exchange_face_metric_rows` | ghosts are the neighbour's real rows of the same plane and stage; no message is taken for another; nothing blocks |
| Time loop (`EulerSolver::run`) | `iter`, `time_`, `dt_prev`, `tstep_`, `resn1_`, `cv_`, `dv_` | one iteration: step, stages, residual | all ranks use one step, stop together, and march as one process would |
| MPI driver (`apps/ns_solver.cpp`) | exit code | load, construct, restart, run, write, finalize | always ends without exceptions; an exception on one rank does not let the others go on without it |
| Output (`gather_plane_from`, `write_solution`, `write_vtk`) | `cached_planes_`, `cached_valid_` | gather, write | the file is one state: every plane, every slab, one iteration |
| Restart (`write_restart`, `load_restart`, `io/restart`) | file frame `(nx+2) x (ny+2)` | write, read, scatter | what is written is what is read back, on any number of ranks |
| Residual and forces | `resn1_`, `iresmax_`, `jresmax_`, `cl_`, `cd_`, `cm_`, `mah_cp_` | `residue_and_forces` | global norms; the place of the largest change; the forces on the last wall segment |
| Boundary conditions | segments | `apply_boundaries`, `update_corners`, kernels of eight kinds | every rank stamps the ghosts at the edges of the grid it owns and no ghost that belongs to a neighbour; a slab has what one process has |
| Mesh, metrics, fields | node coordinates, `si`, `sj`, `area`, ghosted canvases | `load_legacy`, `load_legacy_slab`, `compute_metrics`, `fill_ghosts_copy` | a slab's geometry is that of its rows of the grid |
| Schemes, gradients, viscous fluxes | the face and difference fields of a stage | sixteen schemes, `gradients`, `viscous_flux`, the time step | every flux is made of cells, ghosts and face vectors that are set and are its own; a slab computes what one process computes |
| Configuration | `Config` | `load`, `validate`, `to_toml` | what is accepted is what the file says, the solver can run it, and it survives being written and read |
| Legacy import, `cfg2toml` | position in the token stream | `import_legacy`, `read_topology` | a file of positions without names is not misread |

How they interact: `main` reads the configuration and the grid on every rank,
cuts the slab with `make`, builds an `EulerSolver` and calls `load_restart`
(optional), `open_residue` (root), `run`, `write_solution` and `write_vtk`.
Inside the solver everything is called synchronously; there are no threads and
no callbacks.  The concurrency is that of the ranks: they share nothing, and
meet in halo exchanges (`MPI_Sendrecv`, and `Isend`/`Irecv`/`Waitall` once), in
reductions (`MPI_Allreduce`), in the scatter of a restart and in the gather of
the output (`MPI_Send`/`MPI_Recv`).

The hard behaviours are therefore: message matching by order and by tags that
are used again; chains of blocking calls; reductions matched by call order while
every rank evaluates its own copy of the loop condition; exceptions that end one
rank only; ghost rows that are one stage too old, or copies where they should be
the neighbour's; a plane cache nobody invalidates; index arithmetic that only
differs from the serial one at slab boundaries; tokens that are read as
something else than was meant.  `PROJECT.json` lists them, line
by line, under `hazards`.

## Modules

`SlabDecomposition` -> `MpiWorld` -> `HaloExchange`, `DistributedMarch`, `OutputCache`;
`SlabDecomposition` -> `AllRanges` -> `ResidueReport`;
`SlabDecomposition` -> `PlaneLayout` -> `GatherScatter`, and
`PlaneLayout` -> `BoundaryStamp` -> `SchemeStencils` -> `StageFlow`;
`TimeMarch` -> `RunCalls`; `ConfigFile` -> `LegacyImport`.

* **SlabDecomposition** - `make` as operators of the grid height, the number of
  ranks and the rank: `before`, `extra`, `first` are the code's expressions,
  `accepts` its two exceptions.
* **AllRanges** - the loop of `all_ranges` as a state machine, one `PushRange`
  per call of `make`.  Its invariants are about the partition, so they hold for
  the ranges the ranks compute alone as well.
* **MpiWorld** - the ranks of one run and their slabs (`decomp_` on every rank).
* **GhostSync** - the abstract exchange.  State: how many exchanges each rank
  has entered and left, and the version of the neighbours' rows in its ghosts.
  A rank enters (`Begin`), and leaves (`Complete`) only when its neighbours have
  entered the same exchange, with the rows they had then.
* **HaloExchange** - `halo.cpp` message by message.  Every rank runs the
  sequence of exchanges of `finish_init` and of the stages of `run` (`Program`).
  A call posts its sends and receives (`Post`), receives are matched by source,
  tag and order (`Receive`), every send is either buffered or waits for its
  receiver, as MPI likes, and a call returns when all is done (`NextCall`,
  `EndPlane`, which unpacks).  `PlaneCalls` has the three branches of
  `exchange_plane`, `FaceCalls` the one `Waitall` of the face exchange.  A row
  is a record of plane, global row and version: what the data *is*, not its
  value.  `ImplementsGhostSync` is the refinement of GhostSync.
* **TimeMarch** - the decisions of `run` on one process: which step, whether to
  go on, `time_` and `iter`.  It is the abstract specification of the next one.
* **DistributedMarch** - the MPI program from `main` to `MPI_Finalize`.
  `pc[r]` is the place of rank r; an exchange is two steps (`PostHalo`,
  `WaitHalo`: GhostSync in the form this module needs), a reduction two
  (`Enter`, `Leave`; the last rank to arrive completes it).  The data of a stage
  is a version number, the step comes from the small set `Dts`, a residual is
  zero or not.  `Fails` has the exceptions: root's files, a non-positive step, a
  bad state, on any rank that can throw them.  `MarchesAsOne` is the refinement
  of TimeMarch.

| Code | Action |
|---|---|
| `main`, lines 37-85 | `Load`, `LoadFails` |
| `finish_init` | `FinishInit` |
| `load_restart` | `Scatter`, `LoadRestart` |
| `open_residue` | `OpenResidue` |
| head of the loop of `run` | `LeaveLoop`, `BeginIteration` |
| `time_step_euler` | `TimeStep` |
| `compute_fluxes`, reduction of `NKFDS_MOVERS_2O` | `Emax` |
| `scale_rhs_only`, `ssprk_blend`, `dependent_variables_all` | `Blend` |
| `exchange(dv_)`, `apply_boundaries` at the end of a stage | `EndStage` |
| `residue_and_forces` | `Residual`, `Location`, `EndIteration` |
| `gather_plane_from` | `SendPlane`, `SendReturns`, `RecvPlane`, `NextPlane` |
| `write_solution`, `write_vtk` | `WriteSolution`, `WriteVtk` |
| the handler of `main`, `MPI_Finalize` | `Throw`, `Finalize` |

* **PlaneLayout** - the flat arrays a plane travels in, as operators: the canvas a
  rank packs, the frame of the grid root places it in, the indices of both.  The
  value of a cell is its place in the grid, or "freestream" or "boundary ghost".
  `Dv` says what an iteration leaves in every cell of `dv_`, `Cv` the same of `cv_`.
* **GatherScatter** - `gather_plane_from` and `write_restart` on n ranks, then
  `load_restart` on m ranks of another run: `GatherSerial`, `Place` per rank,
  `Reject` for a file of another case, `Strip` for root's buffer, `Scatterv` per
  plane and rank.
* **OutputCache** - the public operations in any order, as a program around the
  solver might call them: `March` (run or load_restart), and the gathers of
  `write_restart` and `write_solution` plane by plane with root's cache
  (`FromCache`, `SendPlane`, `RecvPlane`, `EndPlane`, `EndWrite`), `WriteVtk`.
  DistributedMarch has the one sequence of calls that `main` makes.

* **BoundaryStamp** - the canvases of `dv_` after an exchange, and
  `apply_boundaries` on them: the ranks and one process side by side, for the
  same list of segments.  The value of a cell is its provenance: the cell of the
  grid it is, the freestream, or kind, source and face vector of the kernel that
  made it.  `update_corners` is the call before the loop, a turn of the loop is
  `ApplySegment` with the kernel of its kind, `SkipSegment` where the ownership test
  says so, or `Stray` where a kernel writes beyond the canvas.
* **SchemeStencils** - what the flux of a face reads, for all sixteen schemes
  (first and second order, entropy-stable, the kernels with one loop for both
  directions), for the gradients with their cases at the edges and interfaces, the
  viscous fluxes and the time step.  A flux is the set of the cells, conserved
  differences and face vectors it is made of.
* **StageFlow** - the stage: `BoundaryPass`, `TimeStep` and
  `ComputeFluxes` for each scheme.  Its invariants compare every cell of a slab with the same
  cell in one process.
* **RunCalls** - calls of `run` one after the other on one solver, with or without
  a state from a file.  EXTENDS TimeMarch, adds what is kept between the calls
  (`time_`, `iter_done_`, `dt_prev` beginning anew) and the time the state really
  has.
* **ResidueReport** - `residue_and_forces` on the ranges of AllRanges: the scan for
  the largest change on every rank, the packing and its reduction, the choice and
  the clipping of the wall, and the line root writes.
* **ConfigFile** - `load`: one step per section (`ReadSection`) and segment
  (`ReadSegment`), each collecting its errors and ending the reading when it has any
  (`Reject`); `Validate`; `WriteAndLoad`, the TOML of an accepted configuration read
  again.  A TOML value is a kind and a number; names are numbers in the order
  of the enumeration, strings one of a few that matter (empty, plain, with a
  quote, a backslash or a control character), doubles tenths with two numbers for NaN
  and infinity; ints wrap at `Word`.  Every scalar is read through toml++'s
  `value<T>()`, which converts what stands for a value of the other kind
  (`Converts`, `Converted`): `nx = 5.0`, `nx = true`, `restart = 2` and `cfl = true`
  are read, `nx = 5.5` and `restart = 1.0` are not.  Beside the keys, a file has the
  tables with a key nobody asks for (`unknown`), and what stands at its top and is
  not read (`stray`): other names, and a section name that is no table.
* **LegacyImport** - the token stream of the old files, the positional block, the
  translation of the codes, the topology with segments of three lengths, and
  `cfg2toml`: an import (`Import`, `RefuseImport`) whose result goes on to
  `WriteAndLoad`.
* **ConfigCases**, **ImportCases**, **MCConfig** - the files the run of the two
  modules above reads.

* **SlabDecomposition_proofs** - the arithmetic of the slabs, which the next four
  use; **ResidueReport_proofs** (with AllRanges), **HaloExchange_proofs**,
  **Output_proofs** (OutputCache and GatherScatter), **StageFlow_proofs**,
  **DistributedMarch_proofs**, **RunCalls_proofs** (with TimeMarch),
  **LegacyImport_proofs** (with ConfigFile) - the theorems.

The definitions marked *mutant* stand before the definition they could be
mistaken for; each breaks one property, which shows that the property depends on
that part of the code.

## Runs, bounds and what they show

| Run | Instance | What it shows |
|---|---|---|
| `all_ranges` (module ResidueReport) | `ny` up to 13, up to 15 ranks; up to the residue, 2 columns and up to 4 rows, up to three changed cells, every segment on every edge and every pair of whole edges | the ranges partition the rows (`Tiling`, `Covers`), heights differ by at most one (`Balanced`); with 15 ranks the case of too many ranks throws; when exactly the residue file names the cell with the largest change (`LocationReported`) and has the forces of the whole wall (`ForcesReported`) |
| `halo` | 9 rows on 4 ranks (slabs 3, 2, 2, 2), 2 planes, 3 recomputations | `GhostsFresh`, `TablesTrue`, `MatchesOwnExchange`, `Termination`, and the refinement of GhostSync with its liveness |
| `halo_thin` | 4 rows on 3 ranks (slabs 2, 1, 1) | violation of `GhostsFresh` |
| `time_march` (module RunCalls) | up to 3 calls of up to 5 iterations, `total_time` 7, steps 1, 2, 3, a file of time 4 or none | `AtMostOneStepTooMany` of one call, `ClockLags` and `ReturnsIterations` of several |
| `march` | 3 ranks, 3 iterations, 2 stages with a reduction each, restart, unsteady, 2 planes, exceptions at all seven places | `TypeOK`, `CollectivesMatch`, `Lockstep`, `GhostsInStep`, `SolutionComplete`, `FailureContained`, `Completion`, refinement of TimeMarch |
| `layout` | grids up to 3 by 9, up to 4 ranks that write and 4 that load, 2 planes | `SolutionRight`, `ParityLossBounded`, `RestartLossBounded`, `DealtOut`, `SerialRestored` |
| `restart_ranks` | grids up to 2 by 4, up to 2 ranks | violation of `CellsRestored` |
| `output_cache` | all programs of up to 4 calls on 3 ranks | `FirstGatherWins`, `SingleGatherEnds` |
| `checkpoint_twice` | all programs of up to 3 calls | violation of `FileIsState` |
| `stage` | 5 columns and 7 rows, on 2 and 3 ranks and on one process; lists of segments with the kernels that clip and those that do not; sixteen schemes, Euler and Navier-Stokes | `InterfaceGhostsKept`, `StampedAsSerial`, `WallsMisplaced`: the boundary pass; `InviscidParity`, `ViscousParity`, `UniformParity`: in which rows exactly a slab differs from one process; `OnlySetValuesRead` |
| `face_vectors` | 2 columns and 4 rows on 2 ranks | violation of `OwnFaceVector` |
| `config` (module MCConfig) | two base files and two pairs of legacy files with every single edit, and with two edits where one decides what is asked of the other; ints of nine bits | `TakenAsWritten`, `ImportComplete`, `AcceptedIsRunnable`, `RoundTrip` |

Why the bounds are enough.  Three ranks are a first, a middle and a last one, the
three branches of `exchange_plane`; the fourth in `halo` adds the neighbourhood
of two middle ranks, whose two calls can block each other in ways the ends
cannot.  Slabs of two and three rows are the ghost depth and one more.  One plane of `dv_` beside
the face rows and the areas is enough for tags to be used again, two are needed
to tell planes apart.  Two stages show a stage that is followed by a stage and
one that is followed by the residual; three iterations a first one (whose
residual does not count), one that can converge and one that is cut off by
`MaxIters`; steps of 1 and 3 against a `TotalTime` of 3 reach it exactly, overshoot
it and stay below it until the iterations are used up.

For the layout, nine rows on four ranks give slabs of three and two rows, three
columns a left edge, a right edge and a middle, and every smaller grid is there as
well; the arithmetic has no other cases.  Four calls are enough for two gathers,
of which the first left messages behind, with a change of the state between them.

For `stage`, slabs of three and four rows on two ranks are narrower than the grid is
wide, and the whole grid is higher: indices of one direction used for the other
(`OnlySetValuesRead`) leave the canvas on one of them and hit another face on the
other.  Two ranks have one interface, of three ranks the middle one has two.  The
kernels that differ only in the values they compute are represented by one of each
clipping and source: `YKinds` and `XKinds` in the configuration; the proof
is for all of them.  A stencil reaches two cells, so with a slab of two rows
everything is near both interfaces; three rows leave one that is not, four columns
and more a middle.

For `config`, a check of `load` looks at one value, or at one and the key that
decides whether it is asked for; so single edits and the deciding pairs reach every
combination of outcomes of one section.  Each key is tried with values of the other kinds,
whole and not, and each part of the file with something that is not read.  Nine bits for an int are the least that hold
the numbers of the files and let others wrap into the accepted range.  For
`ResidueReport` three changed cells are a largest one, one that the packed
comparison prefers, and a third, so that three ranks have a change each; four rows give two
and three ranks with slabs of different heights.  `MostChanged` bounds the cells that
change; the proof is for every value of it, so for every field.
`ReportAssumption` keeps grids below 65534 columns and 32766 rows, beyond which the
places do not fit where the code packs them (`euler_solver.cpp:885`).

The programs end: in the final states nothing is enabled, so the runs switch
TLC's deadlock check off.  That no state *before* the end is stuck is what
`Termination`, `Completion`, `SingleGatherEnds` and the liveness of GhostSync say.
In `march` ranks may wait for ever for one that has thrown, in `output_cache` for
a receive that root never posts: the program does.

## Where the code and its comments disagree

* `halo_thin`: `halo.hpp:4` says a ghost ring is filled from the neighbour's real
  rows.  A slab of one row, which `main` accepts, has only one; `exchange_plane`
  packs two from row `ny_ - ng_ = -1`.
* `face_vectors`: `mesh.hpp:60` says `sj` is the vector at the bottom face of each
  cell, `halo.cpp:114` that `sj(jf)` is global face `offset + jf`.  For the face of the
  interface, `jf = ny`, it is a copy of the face below, and no exchange replaces it
  (`halo.cpp:164`).  The same holds of `si(nx)` and `sj(ny)` of one process: `compute_metrics`
  fills them by copying.  And the schemes with one loop body for both directions
  (`schemes_batch_a.cpp:187`) take for the j-face `(i, j)` the vector at `(j, i)`.
* `restart_ranks`: `euler_solver.hpp:65` says `load_restart` reinitializes the local
  state from the file.  The scatter cuts the i-major planes into runs of
  `nx * rows` values, which are columns of the grid and not the rank's rows
  (`DealtOut` says that at least no cell is lost or doubled).  And a file written
  on several ranks lacks the two rows below every interface, where the freestream
  ghosts of the next rank's `cv_` were placed (`RestartLossBounded`).  Only one
  process that reads what one process has written gets its state back
  (`SerialRestored`), the case the tests run.
* `checkpoint_twice`: `README.md:59` says checkpoints are written by adding calls of
  `write_restart`.  The second one returns the cached planes of the first.
  `FirstGatherWins` says what any sequence of calls writes instead.  Emptying the
  cache in `run` would not be a repair: the mutant `MarchInvalidates` shows planes
  put together from two states, because messages nobody received are still there.

Others have no run of their own; a property of a passing run says exactly what the
code does instead.

* `euler_solver.hpp:94` claims byte parity of the gathered frame with the serial one; it
  differs in the ghost columns of the two rows below each interface, and nowhere else
  (`ParityLossBounded`).
* `config.hpp:118` calls `total_time` the stop time of unsteady runs; the loop tests
  `time_` before it adds the step of the last iteration, so one more iteration is
  made, and never more than one (`AtMostOneStepTooMany`).  Each further call of `run`
  loses one more step, and a restart the time of the file (`ClockLags`).
* `euler_solver.hpp:53`: `run` returns the number of iterations performed.  A call that
  makes none returns that of the call before (`ReturnsIterations`).
* `euler_solver.cpp:341`: the time step is bitwise that of one process.  In the last row
  below another slab it is not, as it averages a face vector and its copy
  (`InviscidParity`).  `README.md:123` promises parity of MPI runs for the schemes;
  the fluxes of the same row differ for the seven that take their vector at their own face
  (nothing is said of the other nine), with viscosity, MOVERS_LE1 left out, those of two
  more rows (`ViscousParity`), and of the last row and two corners even on a grid on
  which the copy is right, since the gradient at an interface lacks the fluxes through the
  sides and its ghost corners are not stamped (`UniformParity`).
* `bc_no_slip_wall` and `bc_symmetry` do not clip segments on vertical edges to the
  slab as the other kernels do: walls end up in other rows, or beyond the canvas
  (`WallsMisplaced`).  The temperature of an isothermal wall (comment at `euler_solver.cpp:653`)
  is not used by the kernel.
* `nkfds_entropy_switch` returns a value that is only used when positive, and never is;
  the reduction of its maximum has no effect, and a debugging condition at
  `schemes.cpp:99` is left over.
* `euler_solver.cpp:882`: the largest place among ties.  It is the largest place any rank
  has of its own largest change, in local rows (`LocationReported`).  The forces in the
  same line are those of root's part of the wall (`ForcesReported`).
* `config.hpp:148`: all problems are reported together.  Reading stops after the first
  section or segment that has any, and `validate` only sees what was read.
* `REFACTORING_PLAN.md:209` says the loader checks the schema, "unknown keys rejected", and
  `tests/test_config.cpp:134` that "unknown keys must not be silently ignored".  `parse`
  (`config.cpp:201`) looks for them inside the tables it reads; a key, a table or a misspelt
  section at the top of the file is accepted without a message, and so is an `output` that
  is no table.  The test has its unknown key in `[numerics]`.  `TakenAsWritten` says that
  these are the only two: any other section that is no table is noticed by what is then
  missing.
* `required_enum` fails on a wrong name, but takes a missing key for the first one
  (`TakenAsWritten`); integers are narrowed to int before they are checked
  (`config.cpp:112`).  The messages say "expected an integer" or "expected a boolean", but
  a whole double or a boolean is taken for an integer and an integer for a boolean.
* `docs/Testcases.md:154`: serialize and parse preserves all fields.  A `restart_file` without a
  restart and a `total_time` that is not positive are left out, infinities become
  NaN, quotes, backslashes and control characters are not escaped, and a NaN `total_time` is accepted once
  and refused the second time (`RoundTrip`).

## Fairness

Every rank is one sequential process, so there is one weak-fairness condition per
rank on the disjunction of its actions: a process that can go on goes on.  The
operating system schedules processes, MPI's progress rule completes a call whose
partners have made theirs; nothing stronger is assumed, and the choice of MPI to
buffer a send or not is never fair.  Exceptions are not part of the fair actions:
they may happen, they need not.  TimeMarch has no fairness, as it is refined for
its safety only.

## Proofs

`SlabDecomposition_proofs`: `SlabRows`, that `make` gives every accepted rank rows
inside the grid, the first rank row 0 and the last rank the last row;
`FirstRowMonotone` and `EveryRowOwned`, that the slabs lie one above the other and
miss no row.  The arithmetic is in lemmas about `div` and `mod`, of which the central
one is that `base * n + rem` is the height, so that the last slab ends there.
`EveryRowOwned` is in truth an induction over the ranks.  The induction theorems of the
library cannot be instantiated, so it is done by least counterexample: `Least`, every
nonempty set of naturals has a least element, follows from the well-foundedness of `<`,
and the rank sought is the one below the least rank that begins above the row.  The
proofs about scans and reductions use `Least` in the same way.

`ResidueReport_proofs`: for every grid height and rank count the ranges that `all_ranges`
pushes tile, cover and balance; the inductive invariant says that the k-th range is
`make(ny, n, k - 1)`.  Then `LocationReported` and `ForcesReported`.  Their invariant
(`Reporting`) is short: fields exist only when the loop of `all_ranges` has returned, and
the line root has written is made of the fields still there.  The work is in
what the line says.  A scan finds the one cell that no other is `After` (`Scan`,
`ScanUnique`); packing a place into one integer keeps the order of places as long as a
column fits its 16 bits, which is what `ReportAssumption` says (`Packing`); so the reduction of
the ranks' maxima (`Reduced`) is the greatest of their places in their own row numbers
(`LocalIs`), and that is the cell of the largest change just when `LocationReported` says so.
That holds of every field of changes, of one cell or of all.
For the forces, of the walls in `Boundaries`, a face belongs to the rank whose rows hold it,
and there is exactly one.

`HaloExchange_proofs`, for every grid, number of ranks, planes and stages, and every choice
of MPI to buffer a send or not.  The inductive invariant has two layers.  `Queues` and
`Causal` are about messages: a queue between two neighbours holds exactly the exchanges
the one has sent for and the other has not received for (`Due`), each once and in the order
of the program, and no rank has received what was not sent.  Hence a receive finds its own
exchange at the head of the queue, although tags repeat: `MatchesOwnExchange`.  `OwnRows`,
`Carried`, `Unpacked` and `Tables` are about what the messages carry: a rank's own rows have the
version its place in the program gives them, a message has the rows its sender had at that
exchange, and the ghosts of every plane unpacked so far are the neighbours' rows of that
version.  From these follow `GhostsFresh` and `TablesTrue`, under one hypothesis,
`ny_local(r) >= ng` on every rank; the run `halo_thin` shows that it is needed, and
`MatchesOwnExchange` does without it.  `ImplementsGhostSyncSteps` is the safety part of the
refinement: the first call of an exchange of `dv_` maps to `Begin`, the last `EndPlane` of
one to `Complete`, `Post` of the tables and `Update` to `Recompute`, everything else stutters.
That the neighbours have begun when a rank completes is `Causal`; that the version is the
one they had then is `Unpacked`.

`Output_proofs`, first part: `FirstGatherWins` for every program of calls.  The inductive
invariant is

    IInv == TypeOK /\ Counted /\ Caching /\ Receiving /\ Sending /\ Filed

`Sending` is what makes it inductive: as long as root has not got a plane from a rank, the
oldest message of that plane is of the *first* call that gathers it, whatever has piled up
behind it; if there is no message, the rank has not yet been through such a call.  `Caching` says
the same of what is in the cache, `Receiving` of the part root has received of the plane it
is at, `Filed` of the files.

Second part, the layout, for every grid and every number of ranks that write (on slabs of the
ghost depth, which the initial states of GatherScatter have) and that read.  `GatherInv`: at a place
of root's frame is what the last of the canvases placed so far that reach it has there
(`LastPlaced`).  When all are placed, `OneShows` says which rank that is: the one that owns the
row, or, in the two rows below a slab, the rank of that slab.  `SolutionRight`,
`ParityLossBounded` and `RestartLossBounded` are read off it.  `LoadInv` follows the planes
through root's buffer to the readers: `SerialRestored` and `DealtOut` need that row-major places
are taken apart by quotient and remainder (`Divide`), and that the chunks of the readers
neither overlap (`SrcUnique`) nor leave anything out (`SrcCovers`).

`StageFlow_proofs`, on grids of any size, with any number of ranks and for the lists of segments
the initial states have (`Cases`: one kind, any of the eight, on both Y edges; one X edge in two
parts, of which the last segment has any kind; the rest transmissive): every invariant of
StageFlow.  The parities of the fluxes are about the seven schemes that take their vector at
their own face (`Straight`); with viscosity, and in `OnlySetValuesRead`, without MOVERS_LE1.  Of
the other nine, only which slabs they read beyond the canvas on is stated and proved.  That a
slab's *time step* differs from one process in the last row below another slab, and there
only, does not depend on the scheme.  The proof goes up in three layers, each with its
invariant.

The boundary pass first.  `IInv` says that the ghosts the exchange has filled are still the
neighbour's, on the canvas of every rank, lost or not; the ownership test of the loop makes the
Y edges hold, and that is `InterfaceGhostsKept`.  To compare two passes, the one of a slab and the
one of one process, `PassInv` keeps the provenance of every ghost, `Sourced`: it has the value of
the last kernel so far that hit it, or that of the exchange if none did.  `Listed` says of
the segments that they lie in their edges and that only the last may be of a kernel that does
not keep to the slab.  When both passes are done, a cell has been hit by the same segments in both
(`SameHits`), so what it has is the same (`SameCanvas`), unless it is a ghost column of an
exchanged row, which no kernel of a slab hits (`CornerFree`): `StampedAsSerial`.  For the walls
that count rows from the grid, the last segment alone decides, and the two ways to number a row
give the rows of `WallsMisplaced`.

`StageInv` adds that the segments cover the edges (`Covering`, so every ghost beside a row or a
column is set) and, of what is computed from the finished canvases, the time step
(`TimeParity`) and the fluxes of the scheme that ran (`FluxParity`, `BareParity`, `MadeOfSet`,
`ReadsBeyond`).  Each of these is proved of the operators, for one cell of any slab, and
carried over to the step that assigns them.

The parities have two directions.  That a row is *as* in one process is shown face by face: the
cells a face reads are alike, the vectors it takes are those of the rows of the slab itself, the
parts of a gradient are alike if the square around the face is (`PrimsAlike` and the lemmas
after it).  That a row *differs* needs something one side has and the other has not: the
vector of the upper face, which no slab has below another one (`HasVector`); on equal
faces, where vectors do not tell, the free ghost corner, which is in the square of a slab and in none of
one process, and the side parts of the gradient in the upper face of the last row.  `BareI` and
`BareJ` are what is left of a gradient on equal faces, worked out once.

`RunCalls_proofs`: type correctness and `AtMostOneStepTooMany` of TimeMarch, directly from
the actions; then the calls: the inductive invariant
bounds the lag before and after an iteration separately, since a call that ends adds one
step to it, and, for unsteady runs, the time below `TotalTime` plus one step.
`ReturnsIterations` needs only that a call that is iterating has counted and one
that has ended has returned `iter_done`.

`LegacyImport_proofs`: `AcceptedIsRunnable` for all files and every width of an int.  The
invariant says that a configuration consists of integers and that an accepted one has
no problems; the lemmas say that conversion, narrowing, defaults, reading and writing yield
integers (`TypeIs`, `ReadAs`).  It is carried over to imports of any two files: a segment
read from tokens is made of integers, whatever the tokens are, and the import ends with the
same `validate`.  Then `TakenAsWritten` and `RoundTrip`, of which the second needs the first.
Their invariant has two halves.  `LoadInv`, while a file is read: the sections and segments
behind `at` had no error and are in `cfg` as they are in the file, the rest still has its
defaults.  What a file says is stated without the operators that read it, so `ReadStands` and
`NarrowModulo` take the conversions and the wrapping apart; `StrayMissed` says that a section
that is no table lacks a key that `parse` or `validate` asks for, unless it is `output`.  `RoundInv`: what is accepted can be written and read again (`Sound`: its integers
fit an int, its names are in their tables, without a reference state it has the defaults, and it
has no problems), so that the text made of it has nothing for load to refuse but an infinity, a
NaN or a quote (`Broken`), and reading it gives each key back; and what is rejected the second
time is rejected for something that has been written.  Last `ImportComplete`: `PairInv` says that
what is accepted is the import of its pair, and was not refused.  The main file is complete since
the last value asked for has been read; the topology needs an induction, over where the
recursion puts each segment.  The induction is over sets of numbers (`FromZero`), from
the well-foundedness of `<` as `Least` is.
`StartsExist` shows with it that the recursion defines something, `TokensSum` that the
segments take six tokens each, four for a state and one for the temperature of a wall;
that the last one still lies in the file is what `validate` asks of its `end` (`WholeSegment`).

`DistributedMarch_proofs`, for every number of ranks, stages, iterations, planes
and failure points: the inductive invariant is

    IInv == TypeOK /\ Agreement /\ Lockstep

`Lockstep` says that all ranks that have not thrown have the same `View`: what a
rank would have in its loop variables if it ran on to its next collective or to
the end.  A rank that has been released from a collective is ahead of its
variables by the result `red`, so the view applies the result first (`Released`)
and then the way to the next collective (`Arrived`).  With that, every step of one
rank between collectives leaves its view unchanged, and the only step that
changes any view - the last rank's arrival - changes all of them alike.
`Agreement` is the strengthening this needs: while one rank is "in" a collective
nobody has been released from an earlier one, all that have been released stand
at the same call, and the loop variables of every rank fit its place.  From IInv
follow `CollectivesMatch`, `StopTogether`, `SameStep`, and the refinement
`MarchesAsOne`: a view-changing step is a step of TimeMarch, every other one
stutters.

Three more invariants rest on that one.  `HaloInv`: the e-th exchange a rank has posted carries
the version its rows had there, and a rank at a place where it computes has its neighbours'
rows of its own version; the place fixes how many exchanges it has posted (`Counts`), so a
rank that waits for its neighbours' e-th gets the right one even if they are ahead: `GhostsInStep`.
`Progress` and `Gathered`: the version of a rank is the number of stages its loop variables
count, and what root has gathered or is still under way are the planes of the end of the loop, in
order; with the agreement on the end of the loop that is `SolutionComplete`.  `Contained`: a rank
that has thrown keeps its view, every other needs it for the next collective and so
stays in its iteration: `FailureContained`.

Assumptions: those of the modules (`WorldAssumption`, `HaloAssumption`, `MarchAssumption`,
`TimeAssumption`, `BoundsAssumption`, `ReportAssumption`, `OutputAssumption`, `LayoutAssumption`,
`StampAssumption`, `CallsAssumption`, `WordAssumption`, `FilesAssumption`, `ImportsAssumption`),
which say no more than the types of the parameters, that `main` refuses more ranks than rows,
that there are two ranks at least where ranks exchange anything, that the steps have a largest
one, that places fit their packing and that an int holds the defaults (`Word > 200`).

Every invariant that a passing run checks is proved.  Only model-checked: liveness (`Termination`,
`Completion`, `SingleGatherEnds` and that part of `ImplementsGhostSync`), which the prover does
not reach.

## Not modelled

* Floating-point arithmetic: limiters, wave speeds, eigenvalues, the equation of state,
  transport, the values boundary kernels compute, norms and coefficients.  What they
  depend on is modelled; their values are out of reach of the tools.
* The restart file itself (`io/restart`): a header and numbers in order.  What the planes
  hold and how they are dealt out is in GatherScatter, the refusal of a file of another
  case in its `Reject`; the other ways to fail (no file, too short) end `load_restart` with
  an exception, which DistributedMarch has.
* The readers of the grid: numbers in order, which the slab reader skips by rows.
* The grammar of TOML: external; ConfigFile begins with what the library returns, with the
  conversions of its `value<T>()`.
* `scale_rhs_and_update`, `clamp_segment_bounds`, `owns_rows` and the `dbg_` hooks: not called by
  the program.
* In the exchange, the columns of a row: `i` is not decomposed, and no exchange
  reorders it.
* Logging, messages and the formats of the output files; the VTK writer `io/vtk`, which
  `main` does not use; the grid generator, two loops that compute coordinates.

## Plan

Done, in the order of their weight: the decomposition, the exchange with its refinement,
the time loop and the MPI program with the lockstep proof, output and cache, layout and
restart, boundary pass, stencils and stage, repeated calls, residue report,
configuration, legacy import; and the proofs above.

Left, for who goes on: no invariant is without a proof; of the model, the parts that
`PROJECT.json` calls partly modelled, as far as there is more to them than numbers.
