\* Sets of two, slots of four; up to two packets between two submissions.
SPECIFICATION StatsSpec
CONSTANTS
    Fec = 2
    MaxShreds = 4
    MaxU32 = 7
    Version = 1
    MaxSlot = 2
    MaxHeld = 2
    Cadence = 2
    MaxCalls = 2
    MaxNow = 3
    Never = Never
    Discards <- MCDiscards
    Packets <- MCPackets
INVARIANT EveryPacketIsCounted
PROPERTY SubmissionsAreSpaced
