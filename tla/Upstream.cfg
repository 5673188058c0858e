SPECIFICATION Spec
CONSTANTS
    Backend = {1, 2, 3}
    Configs <- MCConfigs
INVARIANTS
    CreditConserved
    CreditBounded
    Proportional
    FailedCheckTakesOffline
PROPERTIES
    OnlineNeedsThree
