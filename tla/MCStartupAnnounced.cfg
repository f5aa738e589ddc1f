\* The basket service announces a server, and consumes.
CONSTANTS
    Service = {"basket"}
    MaxRestarts = 0
SPECIFICATION FairSpec
PROPERTY AnnouncedServes
CHECK_DEADLOCK FALSE
