SPECIFICATION ReadsSpec
CONSTANTS
    Days = {}
    Sources = {s1, s2}
    Datas <- MCDatas
    SourceFactors <- MCSourceFactors
    Mappings <- MCMappings
    DefaultSets <- MCDefaultSets
    Ons <- MCOns
    Reads <- MCReads
    PageSizes = {1, 2}
    MaxChanges = 3
SYMMETRY Symmetry
INVARIANTS
    OneRowPerKey
    TotalsFollowSources
    QueryMeansCondition
    ReadsAgree
    PagesAddUp
CHECK_DEADLOCK FALSE
