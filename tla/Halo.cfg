\* Slabs of three and two rows; two middle ranks next to each other, each in the
\* first or second of its calls.
CONSTANTS
    NY = 9
    NRanks = 4
    NV = 2
    Stages = 2
SPECIFICATION Spec
INVARIANTS GhostsFresh TablesTrue MatchesOwnExchange
PROPERTIES Termination ImplementsGhostSync
CHECK_DEADLOCK FALSE
