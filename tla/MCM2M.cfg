CONSTANTS
    ExpiresIn <- MCExpiresIn
    Margin = 10

SPECIFICATION Spec
INVARIANT MarginCoversIssuerLatency
