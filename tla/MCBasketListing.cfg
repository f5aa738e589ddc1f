\* GET /basket, with nothing failing, after a life that consumed.
CONSTANTS
    MaxLog = 2
    MaxRestarts = 1
    MaxRebalances = 0
    MaxRequests = 1
    MaxFaults = 0
    Costs = {1}
    pizza = pizza
    soup = soup
    Items = {pizza, soup}
SPECIFICATION UndisturbedSpec
INVARIANT ServerStaysUp
CHECK_DEADLOCK FALSE
