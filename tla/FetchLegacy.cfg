\* The parser called directly, with legacy shreds among the rest.
SPECIFICATION DirectSpec
CONSTANTS
    Fec = 2
    MaxShreds = 4
    MaxU32 = 7
    Version = 1
    MaxSlot = 2
    MaxHeld = 2
    Discards <- MCDiscards
    Packets <- MCPackets
INVARIANT LegacyShredsParse
