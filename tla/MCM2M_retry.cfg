CONSTANTS
    ExpiresIn <- MCExpiresIn
    Margin = 10

SPECIFICATION Spec
PROPERTY ExpiredTokenReplaced
