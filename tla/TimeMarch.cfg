\* Steps of three sizes, so that total_time is hit exactly and overshot, by one
\* call or by three, from the initial state or from a file.
CONSTANTS
    MaxIters = 5
    Unsteady = TRUE
    TotalTime = 7
    Dts = {1, 2, 3}
    MaxCalls = 3
    Origins = {4}
SPECIFICATION RunSpec
INVARIANTS AtMostOneStepTooMany ClockLags
PROPERTIES ReturnsIterations
CHECK_DEADLOCK FALSE
