\* Three ingests of the same Case Directory, killed anywhere and started again.
SPECIFICATION Spec
CONSTANTS
    Ingests = {i1, i2, i3}
    Stagings = {t1, t2}
    NoStaging = NoStaging
    KillPhases <- AnyPhase
SYMMETRY Symmetry
INVARIANTS
    TypeOK
    SuccessIsOwn
PROPERTIES
    LiveStagingKept
    PublishesWhole
CHECK_DEADLOCK FALSE
