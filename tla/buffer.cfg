SPECIFICATION Spec
CONSTANTS
    Mmin = 2
    Mmax = 12
    UIntMod = 32
    StableSize = 3
    InitialAmounts <- MC_Amounts
    InitialThresholds <- MC_Threshold
    Thresholds <- MC_Thresholds
    ChargeSizes <- MC_Charges
    KeySizes <- MC_Keys
    UninitMetrics <- MC_Metric
    MaxPeriods = 2
    MaxEntries = 5
    MaxKeys = 6
INVARIANTS
    TypeOK
    RisingMeansPeak
    ChargingMeansEmptied
PROPERTIES
    StatusFollowsAmount
    ImplementsKeyStore
