SPECIFICATION FairSpec
CONSTANTS
    old = old
    new = new
    c1 = c1
    c2 = c2
    Conns = {c1, c2}
    Messages <- MCMessages
    Sales = {old, new}
    Old = {old}
    Texts <- MCTexts
    Budgets <- MCBudgets
INVARIANTS TypeOK PanelReturns GreenIsPaid
PROPERTY ShownTurnsGreen
CHECK_DEADLOCK FALSE
