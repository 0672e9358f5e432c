\* Two runs over two SQLite stores, either of which the Manifest may record as absent,
\* the Candidates derived from them and the cache; a dashboard; a file that changes
\* and changes back; no process is killed in mid-copy.
SPECIFICATION Spec
CONSTANTS
    a1 = a1  s1 = s1  r1 = r1
    history = history  web_data = web_data
    cache = cache  candidates = candidates
    NoProc = NoProc
    Runs = Runs
    Analyses = {a1}
    Serves = {s1}
    Readers = {}
    Keys = {history, web_data, cache}
    Primary = {history, web_data}
    Direct = {cache}
    Absences <- AnyAbsent
    Derived = {candidates}
    Feeds <- StoresFeed
    Order <- MCOrder
    MaxRuns = 2
    CrashPhases <- NotMidCopy
    OutsiderHolds = FALSE
    Tamperable = {history}
INVARIANTS
    TypeOK
    ActiveIsLastComplete
    ServeSeesWholeRuns
    StoredFromManifestBytes
    CandidatesNotOlder
    ExitStateIsOfTheRun
PROPERTIES
    ServedFileIsStill
