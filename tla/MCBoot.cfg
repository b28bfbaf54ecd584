CONSTANTS
    Configs <- MCConfigs
    Names <- MCNames
    Empty = ""

SPECIFICATION Spec
INVARIANT ConfigCheckMatchesSpec
PROPERTY ExitsAfterSignal
CHECK_DEADLOCK FALSE
