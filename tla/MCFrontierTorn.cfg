SPECIFICATION Spec
CONSTANTS
    Registry <- MCRegistry
    Captures <- MCCaptures
    Runs = {1, 2}
    Processors = {p1, p2}
    Timed = {p1}
    Starts <- MCStarts
    Clocks <- MCClocks
    Span = 11
    MaxFaults = 1
    MaxLost = 1
    Horizon = 2
    Required = 2
    Fee = 1
    CadenceRank <- MCCadenceRank
INVARIANT InterruptedIsIncomplete
CHECK_DEADLOCK FALSE
