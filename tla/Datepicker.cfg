SPECIFICATION Spec
CONSTANTS
    FirstYear = 1900
    LastYear = 2100
    Todays <- MCTodays
    Texts <- MCTexts
    Cells = {0, 41}
    MaxInputs = 6
INVARIANTS TypeOK CellsPickThemselves DatesAreReal
PROPERTIES OnlyEnterAndYearPickLate
CHECK_DEADLOCK FALSE
