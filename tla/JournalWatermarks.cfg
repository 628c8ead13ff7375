SPECIFICATION Spec
CONSTANTS
    Txs = {t1, t2}
    FileLimit = 2
    HardLimit = 4
    Retention = 2
    PendingLimit = 2
    MaxSeq = 6
INVARIANTS WatermarksProve
