SPECIFICATION FairSpec
CONSTANTS
    PipelineList <- List
    Programs <- OneProgram
    SystemTopics <- System
    MonitorTopic <- Log
    EntryTopic <- Entry
    MonitorOn = TRUE
    MaxPushes = 2
    MaxFaults = 1
    MaxCrashes = 1
PROPERTIES
    ReceivedIsProcessed
    ComesToRest
CHECK_DEADLOCK FALSE
