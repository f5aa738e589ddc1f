\* All services start, end, and start again.
CONSTANTS
    Service = {"basket", "order", "account", "resterants"}
    MaxRestarts = 1
SPECIFICATION FairSpec
INVARIANTS TypeOK CatalogOfFirstLives
PROPERTY FailedConsumerServes
CHECK_DEADLOCK FALSE
