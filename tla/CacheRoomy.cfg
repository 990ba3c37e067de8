\* Three keys, capacity two: the map never reaches 2 * Capacity.
SPECIFICATION Spec
CONSTANTS
    t1 = t1
    t2 = t2
    t3 = t3
    k1 = k1
    k2 = k2
    k3 = k3
    c1 = c1
    c2 = c2
    c3 = c3
    c4 = c4
    Thread = {t1, t2, t3}
    Key = {k1, k2, k3}
    Cell = {c1, c2, c3, c4}
    New <- MCNew
    Capacity = 2
    None = None
SYMMETRY Symmetry
INVARIANT OneBuildPerKey
