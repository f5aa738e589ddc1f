\* An account asked for and logged in to, and a name that is not a literal in a
\* statement, whose INSERT may add a row with another password.
CONSTANTS
    MaxLog = 2
    MaxRestarts = 1
    MaxRebalances = 0
    MaxFaults = 1
    MaxLives = 1
    MaxLost = 1
    MaxRows = 1
    NoPassword = NoPassword
    ann = ann
    oneil = oneil
    Users = {ann, oneil}
    Fold <- MCFold
    Sent <- MCSent
    p1 = p1
    p2 = p2
    Passwords = {p1, p2}
    Plain = {ann, p1, p2}
SPECIFICATION FairFlowSpec
INVARIANTS FlowTypeOK LoginsTaken
PROPERTIES Implements MenuShown
CHECK_DEADLOCK FALSE
