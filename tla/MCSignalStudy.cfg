SPECIFICATION Spec
CONSTANTS
    Opening <- MCOpening
    Arrivals <- MCArrivals
    Costs <- MCCosts
    Oddities = 2
    SizeOf <- MCSizeOf
    Horizon = 2
    MaxStep = 3
    Lookback = 3
    MaxAge = 1
    MinSelection = 1
    MinConfirmation = 1
    MinEvaluable = 1
    AlphaInverse = 2
    ZNum = 1
    ZDen = 2
    Precision = 100
CHECK_DEADLOCK FALSE
INVARIANTS TrialsHoldHorizon LedgerIsHonest FeatureIsCausal RebuildAgrees ChampionIsEarned
