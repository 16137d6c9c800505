SPECIFICATION Spec
CONSTANTS
    PipelineList <- List
    Programs <- AllPrograms
    SystemTopics <- System
    MonitorTopic <- Log
    EntryTopic <- Entry
    MonitorOn = TRUE
    MaxPushes = 1
    MaxFaults = 2
    MaxCrashes = 0
INVARIANTS
    TypeOK
    EveryWriteIsTriggered
    CascadeSeesAllWrites
    ErrorsStopWhereTheyBelong
    MonitoringIsQuiet
    LogsComeChildrenFirst
CHECK_DEADLOCK FALSE
