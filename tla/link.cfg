SPECIFICATION Spec
CONSTANTS
    m = m
    s = s
    Master = m
    Slave = s
    Mmin = 2
    Mmax = 11
    Thr = 6
    InitialAmounts <- MC_Amounts
    Traffics <- MC_Traffic
    KeyRate = 4
    AesBits = 2
    VmacBits = 1
    HeaderBits = 1
    Refusing = TRUE
    Lossy = TRUE
INVARIANTS
    TypeOK
    Balanced
    ReceiverNeverShort
PROPERTIES
    EmptyServesTopBandOnly

\* The debug build may abort, which stops the system.
CHECK_DEADLOCK FALSE
