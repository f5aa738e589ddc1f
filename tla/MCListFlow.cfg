\* One log-in; its list, or a message from the console, stored twice or lost.
CONSTANTS
    Clients = {"account", "resterants"}
    MaxLives = 0
    MaxLost = 1
    MaxLog = 2
    MaxRestarts = 1
    MaxRebalances = 0
    MaxTries = 1
    MaxAnswers = 1
SPECIFICATION FairListSpec
INVARIANTS ListTypeOK CollectAnswered HandledOnce
PROPERTIES PostEnds TopicDrained
CHECK_DEADLOCK FALSE
