SPECIFICATION Spec
CONSTANTS
    Runs <- MCRuns
    RoutesOf <- MCRoutesOf
    Subscriptions <- MCSubscriptions
    Counting <- MCCounting
    Policy <- MCPolicy
    Capacity = 1
    MaxTaken = 3
CHECK_DEADLOCK FALSE
INVARIANTS
    ConnectionOrder
    PendingIsOfItsSession
    SuccessIsEvidenced
PROPERTIES
    ReconnectIsPaced
