\* Three chords: presses and bounces; the flag changes at any moment.
SPECIFICATION PttSpec
CONSTANTS
    TapMax        = 2
    Settle        = 1
    MaxRecord     = 4
    MaxLag        = 1
    MaxChords     = 3
INVARIANTS
    MicIsDark
    PressStaysWithOwner
PROPERTIES
    ListenedIsSent
