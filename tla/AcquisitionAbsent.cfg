\* A directory that cannot be looked at, and a file expected in it.
SPECIFICATION Spec
CONSTANTS
    Root = Root
    LocalState = LocalState  Default = Default  History = History
    Network = Network  Cookies = Cookies
    Files = {LocalState, History, Cookies}
    Dirs = {Default, Network}
    Parent <- MCParent
    Order <- MCOrder
    Profiles = {Default}
    Expected = {LocalState, History, Cookies}
    Copyable = {LocalState, History, Cookies}
    Faulty = {Network}
    MaxChanges = 0
INVARIANTS
    AbsentIsKnown
