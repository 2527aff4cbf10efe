SPECIFICATION FairSpec
CONSTANTS
    Messages = {m1, m2}
    Window = 2
    Profiles <- MCProfiles
    Budgets <- MCBudgets
INVARIANTS TypeOK NoConfirmationLost
PROPERTIES KeepsStream ConfirmationArrives DisconnectionEnds
CHECK_DEADLOCK FALSE
