SPECIFICATION MessageSpec
CONSTANTS
    Names = {"m"}
    FirstsOf <- MCFirstsOf
    SecondsOf <- MCSecondsOf
    Agents <- MCAgents
    HeaderKeys <- MCHeaderKeys
    Rank <- MCRank
    FieldValues <- MCFieldValues
    Trimmed <- MCTrimmed
    Bodies <- MCBodies
    Timestamps <- MCTimestamps
    Latest = 1
    MaxFields = 2
    MaxEdits = 1
    KeepsReferences = FALSE
INVARIANT TextRestores
CHECK_DEADLOCK FALSE
