\* The consumer loop: two kinds of message, one of them unparseable.
CONSTANTS
    good = good
    bad = bad
    Messages = {good, bad}
    Poison = {bad}
    MaxLog = 3
    MaxRestarts = 2
    MaxRebalances = 1
SPECIFICATION FairSpec
INVARIANTS TypeOK HandedInOrder NothingSkipped LossBound OnlyCommitPassesPoison
PROPERTIES EveryMessageHandled LostForGood
CHECK_DEADLOCK FALSE
