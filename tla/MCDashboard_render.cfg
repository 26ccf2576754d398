CONSTANTS
    Rows <- MCRows
    Columns <- MCColumns
    Texts = {"none", "b"}
    NoText = "none"
    Found <- MCFound
    Levels = {"INFO", "WARN"}
    ChunkSize = 1
    ChartLevels = {"INFO", "WARN"}
    Unknown = "Unknown"
    TopCount = 1
    Answers <- MCAnswers
    StartPages = {"dashboard"}
    DefaultLevel = "INFO"
    MaxLoads = 3
    MaxActs = 3

SPECIFICATION DashboardSpec
CHECK_DEADLOCK FALSE

INVARIANT
    TableIsFilteredData
