\* Two orders among other messages, a restart, a rebalance and a failed send.
CONSTANTS
    Messages = {"update", "email", "other", "bad"}
    MaxLog = 2
    MaxRestarts = 1
    MaxRebalances = 1
    MaxFaults = 1
    NumStages = 1
SPECIFICATION FairSpec
INVARIANTS TypeOK DeliveriesInOrder CompletedMeansDelivered RunBound
PROPERTY OrderDelivered
CHECK_DEADLOCK FALSE
