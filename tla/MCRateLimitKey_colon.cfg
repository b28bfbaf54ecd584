CONSTANTS
    Services <- MCServices
    Methods <- MCMethods
    EntityChars <- MCColonChars
    MaxEntity = 2
    Burst = 1

SPECIFICATION Spec
INVARIANT BucketsIsolated
