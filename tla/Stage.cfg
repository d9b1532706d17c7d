\* Five columns and seven rows: wider and narrower than a slab, alone and cut.
CONSTANTS
    NXs = {5}
    NYs = {7}
    RankCounts = {2, 3}
    YKinds = {"slip-wall"}
    XKinds = {"prescribed-inflow", "no-slip-adiabatic-wall"}
SPECIFICATION Spec
INVARIANTS
    TypeOK
    InterfaceGhostsKept
    StampedAsSerial
    WallsMisplaced
    InviscidParity
    ViscousParity
    UniformParity
    OnlySetValuesRead
CHECK_DEADLOCK FALSE
