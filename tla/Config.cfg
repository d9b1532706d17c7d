\* Ints of nine bits, so that what the file says may not fit in one.
CONSTANTS
    Files <- MCFiles
    Imports <- MCImports
    Word = 512
SPECIFICATION ImportSpec
INVARIANTS TakenAsWritten ImportComplete AcceptedIsRunnable RoundTrip
CHECK_DEADLOCK FALSE
