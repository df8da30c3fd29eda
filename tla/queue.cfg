SPECIFICATION Spec
CONSTANTS
    Mmin = 2
    Mmax = 11
    AesBits = 2
    VmacBits = 1
    HeaderBits = 1
    MaxSize = 3
    Quota = 2
    DeviceRoom = 3
    Thr = 6
    InitialAmounts <- MC_Amounts
    Requests <- MC_Requests
    MaxTxQueues = 2
    KeyAmounts <- MC_Keys
    MaxArrivals = 6
INVARIANTS
    TypeOK
    InOrder
    NoIdleWait
    NeverRefused
PROPERTIES
    OnlyHandedOver
