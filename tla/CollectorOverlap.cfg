\* Collectors that run for one output at the same time.
SPECIFICATION Spec
CONSTANTS
    Collectors = {c1, c2, c3}
    Nothing = Nothing
    MayOverlap = TRUE
PROPERTIES
    RemovesOnlyDead
CHECK_DEADLOCK FALSE
