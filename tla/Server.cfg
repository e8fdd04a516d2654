CONSTANTS
    Base = 8
    PageSize = 35
    IntBytes = 2
    LenBytes = 2
    JsonMaxDepth = 1
    FloatOverflow = 31
    MaxBody = 35
    Documents <- MCDocuments
    Floats <- MCFloats
    Lower <- MCLower
    Requests <- MCRequests
    Explored <- MCExplored
    AfterFailure <- MCAfterFailure
    Corrections <- MCCorrections
SPECIFICATION Spec
INVARIANTS
    TypeOK
    ParsesWhatItReads
    ParamsAreLiterals
    RebuildAgrees
    TruncationDetected
PROPERTIES
    ExecutesAsSQL
    SelectAnswers
    UserKeysAndTablesApart
