SPECIFICATION Spec
CONSTANTS
    Codes <- MCCodes
    Texts <- MCTexts
    CellSize = 7
    Margin = 5
    TableLimit = 127
INVARIANTS TypeOK CodeScans ImageShowsCode
CHECK_DEADLOCK FALSE
