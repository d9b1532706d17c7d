\* Three ranks, two SSPRK stages with a reduction in each, an unsteady run that
\* may converge, stop at total_time or use all its iterations.  Any of the
\* exceptions may end a rank; the others may then wait forever in a collective,
\* as the program does: deadlock is not an error of the model.
CONSTANTS
    NY = 3
    NRanks = 3
    MaxIters = 3
    NStages = 2
    GlobalEmax = TRUE
    Unsteady = TRUE
    TotalTime = 3
    Dts = {1, 3}
    Restart = TRUE
    NPlanes = 2
    FailPoints = {"dirs", "restart", "residue", "dt", "blend", "solution", "vtk"}
SPECIFICATION Spec
INVARIANTS TypeOK CollectivesMatch Lockstep GhostsInStep SolutionComplete
           FailureContained
PROPERTIES Completion MarchesAsOne
CHECK_DEADLOCK FALSE
