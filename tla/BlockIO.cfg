\* One device and one request too many for the maps, and requeueing.
SPECIFICATION Spec
CONSTANTS
    Devices = {sda, sdb}
    Requests = {a, b, c}
    SectorOf <- OwnSector
    SizeOf <- Alike
    MaxDevices = 1
    MaxStarted = 2
    MaxLength = 3
    Requeues = TRUE
SYMMETRY MCSymmetry
INVARIANTS
    LengthsExact
    NeverUnderstated
    ReportedIncludesOwn
    SubtractsOnlyTracked
