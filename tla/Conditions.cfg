SPECIFICATION Spec
CONSTANTS
    Days <- MCDays
    Tasks <- MCTasks
    Instance <- MCInstance
    Variables <- MCVariables
    Db <- MCDb
    Pending = Pending
INVARIANTS
    ComparisonsDenyEachOther
    EqualsIsEquivalence
    OrderingsMirror
    PathFindsAllLeaves
    RowsAreReadAlike
    ReportMeansCondition
    DatasetIsWhatTheSpaceAllows
    QueriesAgree
CHECK_DEADLOCK FALSE
