SPECIFICATION Spec
CONSTANTS
    NumWorkers = 2
    Items = {1, 2, 3, 4, 5, 6, 7, 8}
    Depth = 3
    Pipelines <- MCPipelines
    MaxSeq = 6
INVARIANTS
    LicencesMatchRecords
    RefsExact
    OneItemPerStream
    NoReuseUnderThief
    InOrder
PROPERTIES
    AllEnd
