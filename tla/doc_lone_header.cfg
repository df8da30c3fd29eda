SPECIFICATION Spec
CONSTANTS
    H = 3
    BodyLens <- MC_Bodies
    GarbageLengths <- MC_Garbage
    UIntMod = 16
    MaxFrames = 2
INVARIANT DocLoneHeaderIsStored
\* The sender stops after MaxFrames frames.
CHECK_DEADLOCK FALSE
