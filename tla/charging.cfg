SPECIFICATION FairSpec
CONSTANTS
    m = m
    s = s
    Master = m
    Slave = s
    Limits <- MC_Limits
    KeyRate = 10
    UninitValues <- MC_Uninit
    MaxMessages = 2
    MaxAhead = 10
INVARIANTS
    TypeOK
    OneMessage
    NeverCharges
    SlaveChargedFirst
PROPERTIES
    ImplementsRounds
    KeepsCharging

\* An exchange ends when an application stops, or when a message is due
\* before the connection it needs is up; where messages are cut, the bounds on
\* messages and rounds stop it as well.
CHECK_DEADLOCK FALSE
