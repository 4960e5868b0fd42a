\* The store with its readers, the panes, and the parts of a card's way.
SPECIFICATION Spec
CONSTANTS
    s1 = s1
    s2 = s2
    t1 = t1
    t2 = t2
    k1 = k1
    a1 = a1
    Sessions = {s1, s2}
    Turns = {t1, t2}
    Tools = {k1}
    Tasks = {a1}
    NoSession = NoSession
    ToastCapacity = 2
    SessionOf <- MCSessionOf
    TurnOf <- MCTurnOf
    MaxLists = 1
    MaxRowClicks = 2
    DockRows = 1
    i1 = i1
    Ids = {i1}
    Decisions = {"approve", "deny"}
    MaxClicks = 2
    MaxReplays = 1
    p1 = p1
    p2 = p2
    Profiles = {p1, p2}
    DefaultProfile = p1
    NoProfile = NoProfile
    Families = {"zai", "moonshot-coding", "kimi-coding"}
    MaxTokens = 2
    MaxFaults = 1
    MaxBoots = 2
    MaxWorkers = 2
    f1 = f1
    f2 = f2
    f3 = f3
    Order <- MCOrder
    CategoryOf <- MCCategory
    Searches <- MCSearches
    NotesByName = {}
    NoFile = NoFile
    MaxQueries = 1
    MaxFetches = 2
    MaxChanges = 1
    Drafts <- MCDrafts
    PlanName = "plan"
    MaxTurns = 2
    MaxLost = 1
    Bodies <- MCBodies
    Registry <- MCRegistry
    Items = {1, 2}
    MaxPresses = 3
    MaxWork = 25
    Plans <- MCPlans
    NoValue = NoValue
    MaxSaves = 2
    Tickers = {"AAPL", "NVDA", "BRK-B"}
    Dashed = {"BRK-B"}
    Renders = {r1, r2}
    Forecasts <- MCForecasts
    Symbols <- MCSymbols
    Fields = {"word", "day"}
    MaxReads = 2
    FirstDay <- MCFirst
    LastDay <- MCLast
    Trees <- MCTrees
    MaxDepth = 1
INVARIANTS AppTypeOK LightsAreReal DeletedStaysAway ShowsTheRuling ViewerIsSound
     ComposedAsWritten BackendsAgree ReadsAgree
PROPERTIES AnsweredOnce  ProvisioningKeeps
     PressIsLocal AlgorithmsAgree
CHECK_DEADLOCK FALSE
