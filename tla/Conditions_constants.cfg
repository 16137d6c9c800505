SPECIFICATION Spec
CONSTANTS
    Days <- MCDays
    Tasks <- MCTasks
    Instance <- MCInstance
    Variables <- MCVariables
    Db <- MCDb
    Pending = Pending
INVARIANT
    ConstantsSubstituteEveryVariable
CHECK_DEADLOCK FALSE
