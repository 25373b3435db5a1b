CONSTANTS
    DefaultGeneric <- MCDefaultGeneric
    LocalFiles <- MCLocalFiles
    LimitFiles <- MCLimitFiles
    LimitEdits <- MCLimitEdits
    Edits <- MCEdits
    FewEdits <- MCFewEdits
    MaxEdits = 2
    Schemas <- MCSchemas
    Pems <- MCPems
    Secrets <- MCSecrets
    CaFiles <- MCCaFiles
    StoredSecrets <- MCStoredSecrets
    Inputs <- MCInputs
    Queries <- MCQueries
    Overrides <- MCOverrides
    RowSizes <- MCRowSizes
    RowsSent = 2
    ROW_CHANNEL_CAPACITY = 2
    Changes = 1
SPECIFICATION SettingsSpec
INVARIANTS EffectiveIsSound LimitsAgree AnswersAreHonest
PROPERTY SettingsProgress
