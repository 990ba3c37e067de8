\* Up to three events of two workers at a time.
SPECIFICATION ProcessSpec
CONSTANTS
    w1 = w1
    w2 = w2
    Worker = {w1, w2}
    UsizeBits = 8
    Sizes <- MCSizes
    MaxEvents = 3
SYMMETRY Interchangeable
INVARIANT TotalAccountsForAll
INVARIANT WorkersAccountForTheirs
