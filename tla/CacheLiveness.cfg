\* Two threads and an evicting cache, under weak fairness; builds may never end.
SPECIFICATION FairSpec
CONSTANTS
    t1 = t1
    t2 = t2
    t3 = t3
    k1 = k1
    k2 = k2
    k3 = k3
    c1 = c1
    c2 = c2
    c3 = c3
    c4 = c4
    Thread = {t1, t2}
    Key = {k1, k2}
    Cell = {c1, c2, c3}
    New <- MCNew
    Capacity = 1
    None = None

PROPERTY CallsReturn
PROPERTY SlowBuildBlocksOnlyItsCell
