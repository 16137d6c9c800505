SPECIFICATION Spec
CONSTANTS
    MaxIds <- MCMaxIds
    None = None
    MaxRequests = 6
INVARIANTS
    OneOwner
    SubjectsAreListed
    ReportsAreKept
CHECK_DEADLOCK FALSE
