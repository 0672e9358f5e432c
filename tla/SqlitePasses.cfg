\* A database of two pages and two transactions whose journal may be lost.
SPECIFICATION PassSpec
CONSTANTS
    DbPages = {k1, k2}
    MaxVersion = 3
    NoSidecar = NoSidecar
    NoTxn = NoTxn
INVARIANTS
    OnlyCommittedAreCalledSo
CHECK_DEADLOCK FALSE
