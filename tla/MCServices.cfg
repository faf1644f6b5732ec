\* Every component on an instance of its own: two commits of the archive, two
\* engines, two sources, two processes, three pages, two tabs, two sheets.
SPECIFICATION MCSpec
CONSTANTS
    p1 = p1
    p2 = p2
    p3 = p3
    b1 = b1
    b2 = b2
    b3 = b3
    Paths = {p1, p2, p3}
    Blobs = {b1, b2, b3}
    Damaged = Damaged
    None = None
    Tree <- TwoCommits
    MaxFaults = 3
    Renderable = {"d1", "d2"}
    Limited <- FirstOnes
    Batch = 1
    Torn = None
    MaxKills = 1
    Processes = {"web", "worker"}
    Items = {"i1", "i2"}
    NoProcess = None
    MaxDeaths = 2
    PageCount = 3
    PoolSize = 2
    ValidationAttempts = 2
    Nothing = None
    MaxChores = 2
    MaxSaves = 1
    Tabs = {p1, p2}
    Nobody = None
    MaxExpiries = 1
    MaxRefusals = 1
    MaxOverlaps = 2
    MaxElements = 3
    MaxPages = 3
    PageSlots = 1
    Engines = {"e1", "e2"}
    CorpusDocs = {"d1", "d2"}
    Reads <- EngineReads
    Tokens = {"t1", "t2"}
    Vocabularies <- FoundWords
    SheetTotal = 2
    SheetPages = 3
    MaxScore = 1
    SignalsOf <- ShownBy
    RowsOf <- RowsIn
    NoFile = None
    Cut = Cut
    MaxManifest = 2
    MaxSeconds = 2
    MaxBreaks = 1
    Sources = {"s1", "s2"}
    InitialBackoff = 2
    MaxBackoff = 6
    GraphAttempts = 2
    MaxOutages = 2
    MaxChanges = 2
    Overlap = FALSE
    TornPass = FALSE
    Gone = None
    MaxEdits = 3
    MaxAsks = 1
    MaxPassBreaks = 1
INVARIANTS ServicesInv ArchiveIsTrue BenchmarkIsTrue ValidationIsTrue UpgradeIsComplete
    AnalysisIsTrue ReadingsAreTrue WordPagesAreTrue WorkbookPagesAreTrue
PROPERTIES OutagesAreSurvived EveryServiceFinishes ItemsFollowTheirSources ReadyGuideIsTrue
    SignInReturnsToItsPage PagesTellTheEnd
CHECK_DEADLOCK FALSE
