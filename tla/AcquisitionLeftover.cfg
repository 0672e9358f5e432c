\* The copy of a lost directory is removed, the directory above it is not.
SPECIFICATION Spec
CONSTANTS
    Root = Root
    LocalState = LocalState  Default = Default  History = History
    Network = Network  Cookies = Cookies
    Files = {LocalState, History, Cookies}
    Dirs = {Default, Network}
    Parent <- MCParent
    Order <- MCOrder
    Profiles = {Default}
    Expected = {LocalState, History, Cookies}
    Copyable = {LocalState, History, Cookies}
    Faulty = {Network}
    MaxChanges = 1
INVARIANTS
    OnlyCopiedDirectories
