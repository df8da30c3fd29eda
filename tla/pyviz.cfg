SPECIFICATION FairSpec
CONSTANTS
    Timer = {t1, t2, t3}
    None = None
    Periods <- MC_Periods
    MaxMessages = 2
INVARIANTS
    TypeOK
    NeverAheadOfView
    NoMessageLost
    PausedSoon
    TimerWhilePlaying
    QuitWakes
PROPERTIES
    KeepsRunning
    QuitEnds

\* The user may leave.
CHECK_DEADLOCK FALSE
