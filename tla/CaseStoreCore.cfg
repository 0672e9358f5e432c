\* An analysis that stores two runs, a dashboard and a query, under fairness; any of
\* them may be killed anywhere, and another program may hold the database open.
SPECIFICATION FairSpec
CONSTANTS
    a1 = a1  s1 = s1  r1 = r1
    history = history  web_data = web_data
    cache = cache  candidates = candidates
    NoProc = NoProc
    Runs = Runs
    Analyses = {a1}
    Serves = {s1}
    Readers = {r1}
    Keys = {history}
    Primary = {history}
    Direct = {}
    Absences <- AllPresent
    Derived = {}
    Feeds <- NoFeeds
    Order <- MCOrder
    MaxRuns = 2
    CrashPhases <- AnyPhase
    OutsiderHolds = TRUE
    Tamperable = {}
INVARIANTS
    OneHolder
    SuccessIsVisible
    ReadsAreCommitted
PROPERTIES
    LineageSpec
    AnalysisEnds
    ContenderAnswered
