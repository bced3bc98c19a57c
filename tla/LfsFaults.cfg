CONSTANTS
    a = a
    u1 = u1
    u2 = u2
    t1 = t1
    NoOp = NoOp
    NoLedger = NoLedger
    NoObject = NoObject
    Object <- WithWrong
    Genuine <- OneObject
    Upload = {u1, u2}
    Task = {t1}
    MaxRepositoryBytes = 2
    MaxRecords = 2
    MaxReservations = 2
    Faults = TRUE
SYMMETRY UploadSymmetry
SPECIFICATION MCSpec
INVARIANTS LfsInv QuotaHolds
PROPERTIES AcknowledgedStored PointedContentStable
