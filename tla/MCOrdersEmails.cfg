\* The mails of a delivery, with nothing failing.
CONSTANTS
    Messages = {"update"}
    MaxLog = 1
    MaxRestarts = 0
    MaxRebalances = 0
    MaxFaults = 0
    NumStages = 5
SPECIFICATION FairSpec
PROPERTY EmailsAreSent
CHECK_DEADLOCK FALSE
