SPECIFICATION ServicesSpec
CONSTANTS
    Routes <- MCRoutes
    Targets <- MCTargets
    Digits = {"1"}
    MaxRoutes = 3
    UserMiddlewares <- MCUserMiddlewares
    Requests <- MCRequests
    MaxMiddlewares = 3
    Callers = {"p", "q"}
    Ids = {1, 2, 3}
    Keys = {"k", "m", "long"}
    Values = {"v"}
    Oversized = {"long"}
    Ttls = {0, 1, 2}
    MaxSessions = 2
    MaxValuesPerSession = 1
    MaxTime = 3
    Calls <- MCCalls
    UrlsOf <- MCUrlsOf
    LimitsOf <- MCLimitsOf
    Statuses = {200, 301, 307}
    Timeout = 1
    AllowInsecureRedirects = FALSE
    Writers = {"w1", "w2"}
    Roots = {"r", "s"}
    Filenames = {"app"}
    FirstRoot = "r"
    RecordSizes = {1, 2}
    FileSizes = {1}
    FirstFileSize = 2
    ArchiveCounts = {1}
    MaxSuffix = 1
    MaxSecond = 1
    MaxCalls = 3
    MaxChanges = 2
    FileFaults = {"directory", "open", "size", "rename", "write", "close"}
    Overlap = FALSE
    SameSecond = FALSE
    Names = {"m","n"}
    FirstsOf <- MCFirstsOf
    SecondsOf <- MCSecondsOf
    Agents <- MCAgents
    HeaderKeys <- MCHeaderKeys
    Rank <- MCRank
    FieldValues <- MCFieldValues
    Trimmed <- MCTrimmed
    Bodies <- MCBodies
    Timestamps <- MCTimestamps
    Latest = 1
    MaxFields = 2
    MaxEdits = 2
    KeepsReferences = FALSE
    Transfers = {"t", "u"}
    Sizes = {0, 2}
    MaxArrivals = 2
INVARIANTS RequestsHandled ChainRight RedirectsFollowed SizesKnown TransfersRight
PROPERTIES SessionSpec CallsEnd  MessagesKept
CHECK_DEADLOCK FALSE
