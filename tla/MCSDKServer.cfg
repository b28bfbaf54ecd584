CONSTANTS
    ma = ma
    mb = mb
    r1 = r1
    c1 = c1
    c2 = c2
    Empty = Empty
    Methods <- MCMethods
    Registrars <- MCRegistrars
    RegMethod <- MCRegMethod
    Calls <- MCCalls
    Options <- MCOptions

SPECIFICATION Spec
\* The backend process ends after Run returns or fails.
CHECK_DEADLOCK FALSE
PROPERTY RunReturnsAfterCancel
