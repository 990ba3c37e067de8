\* Batches of up to six shreds: odd layers at the bottom and further up.
SPECIFICATION Spec
CONSTANTS
    a = a
    b = b
    Content = {a, b}
    MaxLeaves = 6
INVARIANT LayoutIsTree
INVARIANT EveryLeafProvable
INVARIANT WrongRequestFails
INVARIANT AcceptedClaimsHold
