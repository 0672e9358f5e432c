\* A report of an Extract whose directory is emptied and exported into again.
SPECIFICATION Spec
CONSTANTS
    Profiles = {"a", "b"}
    MaxRuns = 2
    Rows <- MCRows
    All = All
    NoCursor = NoCursor
    Refused = Refused
    MaxServers = 2
    Outcomes <- MCOutcomes
    Limit = 1
    Filters = {All, "a"}
    MaxActions = 2
    NotRun = NotRun
    Loading = Loading
    Failed = Failed
    PageSize = 1
    RowLookupPageCap = 2
    NoRow = NoRow
    Exporters = {x1, x2}
    MaxTouches = 1
    Missing = Missing
    Foreign = Foreign
    Payloads = {p1, p2}
    MaxAnalyses = 2
    MaxCalls = 2
    DbPages = {k1, k2}
    MaxVersion = 3
    NoSidecar = NoSidecar
    NoTxn = NoTxn
INVARIANTS
    VerifiedIsWhatIsShown
CHECK_DEADLOCK FALSE
