\* A Profile that changes while it is acquired, with a directory and a file
\* in it that may fail.
SPECIFICATION SpecWays
CONSTANTS
    Root = Root
    LocalState = LocalState  Default = Default  History = History
    Network = Network  Cookies = Cookies
    Files = {LocalState, History, Cookies}
    Dirs = {Default, Network}
    Parent <- MCParent
    Order <- MCOrder
    Profiles = {Default}
    Expected = {LocalState, History, Cookies}
    Copyable = {LocalState, History, Cookies}
    Faulty = {Network, Cookies}
    MaxChanges = 3
    Names = {"local_state", "cookies", "nel"}
    Below = {"cookies", "nel"}
    Chosen = {"local_state", "cookies"}
    MaxWrites = 2
    MaxDamage = 1
    NoFile = NoFile
    Altered = Altered
INVARIANTS
    TypesOK
    CopiedAsRecorded
    VerifiesUnlessLost
    NoValueUnderLost
    StillIsAcquired
    BundleBecomesCase
PROPERTIES
    ListsWhatIsThere
