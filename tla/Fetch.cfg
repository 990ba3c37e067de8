\* Sets of two shreds, slots of four, integers below eight; two shreds at a time.
SPECIFICATION Spec
CONSTANTS
    Fec = 2
    MaxShreds = 4
    MaxU32 = 7
    Version = 1
    MaxSlot = 2
    MaxHeld = 2
    Discards <- MCDiscards
    Packets <- MCPackets
INVARIANT RecoverableTogether
INVARIANT LastShredEndsItsSet
INVARIANT FilterCoversParser
