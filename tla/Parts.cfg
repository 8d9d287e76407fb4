CONSTANTS
    Efforts = {"high", "low"}
    Requests <- RequestsOfProbes
    Profiles = 1
    Window = 1
    MaxRows = 2
    Retries = 1
    MaxEvents = 3
    WorkerLimit = 2
    Inputs = {"a", "b"}
    MaxKeys = 2
    MaxQuotes = 2
    MaxRechecks = 1
    Exchanges = {"x1", "x2"}
    MaxLives = 2
    Importers = {"i1", "i2"}
    Loaders = {"w"}
    Disks <- Directories
    Writers = {"t1", "t2"}
    Runs = {"run"}
    Watched = "run"
    EventIds = 3
    AuditIds = 2
    Texts = {"a", "b", "B"}
    Parsed <- DocumentOf
    Sheets = {"sheet"}
    LastRevision = 2
    Catalogue = {"out1", "out2", "b80"}
    Restricted = {"b80"}
    Families <- Items
    Usual <- UsualRequests
    Chips <- Presets
    FirstChip <- SmallPreset
    Tariffs <- Prices
    Counts = {3}
    Crews = {32}
    Tries = {0}
    MaxCount = 2
    MaxCrew = 16
    MaxRunRequests = 12
    MaxEdits = 2
    doc1 = doc1
    doc2 = doc2
    Documents = {doc1, doc2}
    Genesis = doc1
    External = "external"
    Drafts = {}
    Processes = {"api"}
    Admins = {}
    MaxRevision = 2
    MaxCommits = 3
    MaxSyncs = 3
SPECIFICATION PartsSpec
CHECK_DEADLOCK FALSE
INVARIANTS VerdictsAgree ErrorsNeverAccuse ReadersAgree OneRunPerSubmission AnswersAreRetained
    ReleaseIsItsManifests EventsArriveOnce AuditChainHolds PublishedIsConfirmed RunIsAsShown
PROPERTIES MismatchSticks KeyLeavesWithConsent NeverReloadsBackwards EveryProcessCatchesUp
