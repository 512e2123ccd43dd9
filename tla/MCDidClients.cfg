SPECIFICATION Spec
CONSTANTS
    screen1 = screen1
    screen2 = screen2
    backend = backend
    HookCalls <- MCHookCalls
    Calls <- MCCalls
    retryCount <- MCRetryCount
    Asks <- MCAsks
    MaxDids = 2
INVARIANTS
    OutcomesTruthful
    ScreenTruthful
PROPERTIES
    CallSettles
CHECK_DEADLOCK FALSE
