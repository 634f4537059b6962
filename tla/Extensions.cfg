SPECIFICATION Spec
CONSTANTS
    None = None
    N = 3
    Handlers = {"h1", "h2"}
    Registered = TRUE
    First = First
    MaxMishaps = 2
    Pictures = {"e1", "e2"}
    Toggles = {"r1", "r2"}
    MaxFavFaults = 3
    Saves = {"s1", "s2"}
    Forms <- SomeForms
    Captures = {"c1"}
    MaxBoothFaults = 2
    Prints = {"q1", "q2"}
    Shop = {"p1"}
    i1 = i1
    i2 = i2
    OwnerOf <- Own
    MaxPrints = 3
    Keys <- SomeKeys
    Unknown = "k?"
    Alters = {"k1", "k3"}
    MaxLaunches = 2
    Submits = {"w1", "w2"}
    Choices = {"memory", "host", "bare"}
    Edits <- SomeEdits
    Odd = Odd
    MaxEdits = 3
    Elements <- FourElements
    Newcomers = {"x"}
    PerPages = {0, 1, All, None}
    All = All
    DefaultPerPage = 2
    GalleryPerPage = 1
    MaxPerPage = 3
    Prompts <- SomePrompts
    SeedFields <- SomeSeeds
    Users = {"root", "ann"}
    Root = "root"
    MaxPolicyEdits = 2
    MaxCodes = 2
INVARIANTS
    TypeOK
    Sequential
    StartedInOrder
    CompletedMeansNoneWaiting
    StarsMatchDeltas
    SettingsAsSubmitted
    NoTempLeft
    StoredPicturesStay
    DependencyFirst
    StartsUnlessTorn
    OwnersSectionsKept
    WizardFilesLoad
    WalkMissesNone
    EveryCombinationOnce
    OwnerServed
PROPERTIES
    SyncKeepsFavorites
    FilteredAsStored
CHECK_DEADLOCK FALSE
