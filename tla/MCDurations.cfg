\* A word of 6 bits and a second of 12 units: 2 seconds fit, 16 wrap to 0.
CONSTANTS
    Modulus = 64
    Second = 12
SPECIFICATION FairSpec
INVARIANTS
    SmallSettingsAreExact
PROPERTIES
    PollerGetsToTicker
