\* Two orders and a few items, a restart and a rebalance, every send arriving.
CONSTANTS
    Messages = {"update"}
    MaxLog = 2
    MaxRestarts = 1
    MaxRebalances = 1
    MaxFaults = 0
    NumStages = 1
    MaxCartLog = 2
    Costs = {1}
    pizza = pizza
    soup = soup
    Items = {pizza, soup}
SPECIFICATION FairFlowSpec
INVARIANTS FlowTypeOK OnlyNewItemsStay
PROPERTY PlacedIsCleared
CHECK_DEADLOCK FALSE
