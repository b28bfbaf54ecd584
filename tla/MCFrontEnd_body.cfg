CONSTANTS
    Chars <- MCChars
    MaxPath = 5
    Verbs <- MCVerbs
    Bodies <- MCBodies
    Statuses <- MCStatuses

SPECIFICATION Spec
INVARIANT BodyForwarded
