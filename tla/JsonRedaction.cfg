\* Every value of MCRequests; a run ends with the record.
SPECIFICATION RecordSpec
CONSTANTS
    Keys <- MCKeys
    Terms <- MCTerms
    DangerFields <- MCDangerFields
    Texts <- MCTexts
    Operators <- MCOperators
    RuneParts <- MCRuneParts
    MaxDepth = 3
    Requests <- MCRequests
INVARIANTS
    NothingSensitive
    RestIsKept
    CallerIsFirstNamed
CHECK_DEADLOCK FALSE
