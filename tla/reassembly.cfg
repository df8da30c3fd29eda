SPECIFICATION FairSpec
CONSTANTS
    H = 3
    BodyLens <- MC_Bodies
    GarbageLengths <- MC_Garbage
    UIntMod = 16
    MaxFrames = 3
INVARIANTS
    TypeOK
    NoFrameHeldBack
    NoByteTwice
PROPERTIES
    RoundsAdvance
    ImplementsChannel
    EveryFrameDelivered
\* The sender stops after MaxFrames frames, and a read shorter than a header
\* ends the program.
CHECK_DEADLOCK FALSE
