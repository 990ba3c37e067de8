\* Three owners of payloads of up to two bytes.
SPECIFICATION Spec
CONSTANTS
    o1 = o1
    o2 = o2
    o3 = o3
    b1 = b1
    b2 = b2
    b3 = b3
    x = x
    y = y
    None = None
    Owner = {o1, o2, o3}
    Buffer = {b1, b2, b3}
    Byte = {x, y}
    Size = 2
SYMMETRY Interchangeable
INVARIANT TypeOK
INVARIANT RangeInBytes
INVARIANT WriterIsAlone
PROPERTY IndependentValues
