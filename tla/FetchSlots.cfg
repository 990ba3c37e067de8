\* The slot range that the comment of should_discard_shred states.
SPECIFICATION Spec
CONSTANTS
    Fec = 2
    MaxShreds = 4
    MaxU32 = 7
    Version = 1
    MaxSlot = 2
    MaxHeld = 2
    Discards <- MCDiscards
    Packets <- MCPackets
PROPERTY AcceptsAboveRootOnly
