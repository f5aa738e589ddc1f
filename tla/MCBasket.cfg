\* Messages delivered again, failing Redis commands, a Redis restart.
CONSTANTS
    MaxLog = 2
    MaxRestarts = 1
    MaxRebalances = 1
    MaxRequests = 1
    MaxFaults = 1
    Costs = {1}
    pizza = pizza
    soup = soup
    Items = {pizza, soup}
SPECIFICATION FairSpec
INVARIANTS LossesPaid NothingInvented
PROPERTIES HandlersEnd TopicDrained
CHECK_DEADLOCK FALSE
