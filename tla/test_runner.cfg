SPECIFICATION FairSpec
CONSTANTS
    Total = 3
    Kinds <- MC_Kinds
    Processors = 2
INVARIANTS
    TypeOK
    SuccessIsReal
    ResultsComplete
    NobodyStuck
PROPERTIES
    NotStartedLater
    Terminates

\* The program ends.
CHECK_DEADLOCK FALSE
