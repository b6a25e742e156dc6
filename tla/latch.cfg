SPECIFICATION Spec
CONSTANTS
    Value <- MCValue
    Band <- MCBand
    Unreadable = Unreadable
INVARIANTS
    TypeOK
    LatchInv
    TurnedAtBoundary
PROPERTIES
    NoChatter
