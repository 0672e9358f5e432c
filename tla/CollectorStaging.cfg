\* One Collector at a time, killed anywhere, its PID free for the next one.
SPECIFICATION Spec
CONSTANTS
    Collectors = {c1, c2, c3}
    Nothing = Nothing
    MayOverlap = FALSE
INVARIANTS
    TypeOK
    OnlyKillsLeave
PROPERTIES
    PublishesBundle
CHECK_DEADLOCK FALSE
