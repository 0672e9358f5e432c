\* A query reads while an analysis copies the log over the main file.
SPECIFICATION Spec
CONSTANTS
    a1 = a1  s1 = s1  r1 = r1
    history = history  web_data = web_data
    cache = cache  candidates = candidates
    NoProc = NoProc
    Runs = Runs
    Analyses = {a1}
    Serves = {}
    Readers = {r1}
    Keys = {history}
    Primary = {history}
    Direct = {}
    Absences <- AllPresent
    Derived = {candidates}
    Feeds <- HistoryFeeds
    Order <- MCOrder
    MaxRuns = 1
    CrashPhases <- AnyPhase
    OutsiderHolds = FALSE
    Tamperable = {}
INVARIANTS
    VisibleOnlyAfterFullCheckpoint
