\* Two competing blocks, two relays, up to three shreds received.
SPECIFICATION Spec
CONSTANTS
    Blocks <- MCBlocks
    Slot = 7
    Version = 9
    FecSetIndex = 32
    FirstCoding = 40
    Relays = {"r1", "r2"}
    BufferSizes <- MCBufferSizes
    MaxReceived = 3
INVARIANT GettersAgreeWithHeaders
INVARIANT RootSurvivesTransit
INVARIANT DuplicatesAreForks
INVARIANT MismatchesAreForks
INVARIANT EnoughShredsRecover
