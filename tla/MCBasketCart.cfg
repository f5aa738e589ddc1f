\* Nothing fails: the basket is the atomic cart of module Cart.
CONSTANTS
    MaxLog = 3
    MaxRestarts = 0
    MaxRebalances = 0
    MaxRequests = 2
    MaxFaults = 0
    Costs = {1, 2}
    pizza = pizza
    soup = soup
    Items = {pizza, soup}
SPECIFICATION UndisturbedSpec
SYMMETRY Symmetry
INVARIANT TypeOK
PROPERTY ImplementsCart
CHECK_DEADLOCK FALSE
