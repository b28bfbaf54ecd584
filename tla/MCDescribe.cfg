CONSTANTS
    Methods <- MCMethods
    Perms <- MCPerms
    Bursts <- MCBursts
    Verbs <- MCVerbs
    MaxList = 1

SPECIFICATION Spec
\* One description travels once: the conversion ends after Install.
CHECK_DEADLOCK FALSE
INVARIANT DescriptionRoundTrip
