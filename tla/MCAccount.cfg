\* Failing database calls and posts, a restart and a rebalance; names that
\* differ in case only, and one that is not a literal in a statement.
CONSTANTS
    MaxLog = 2
    MaxRestarts = 1
    MaxRebalances = 1
    MaxFaults = 1
    MaxRows = 1
    NoPassword = NoPassword
    ann = ann
    Ann = Ann
    oneil = oneil
    Users = {ann, Ann, oneil}
    Fold <- MCFold
    Sent <- MCSent
    p1 = p1
    p2 = p2
    Passwords = {p1, p2}
    Plain = {ann, Ann, p1, p2}
SPECIFICATION FairSpec
INVARIANTS TypeOK TrueAnswersHold NamesUnique FirstCreateWins CompletedAnswered LeakBound
PROPERTY Answered
CHECK_DEADLOCK FALSE
