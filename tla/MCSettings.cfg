\* Two accounts, a refresh beside that of a poll, two attempts, one of which may be
\* lost; two saves of one picker, two voices of each engine; two checks and downloads.
SPECIFICATION SettingsSpec
CONSTANTS
    SarvamVoices  = {s1, s2}
    SarvamDefault = s1
    LabVoices     = {e1, e2}
    LabDefault    = e1
    NoVoice       = NoVoice
    MaxSaves      = 2
    MaxChanges    = 2
    MaxFaults     = 1
    Users         = {u1, u2}
    Nobody        = Nobody
    Attempts      = 2
    MaxRefreshes  = 1
    MaxReturns    = 1
    MaxMoves      = 2
    MaxLosses     = 1
    MaxCalls      = 2
INVARIANTS
    SpeaksItsEngine
    ShownIsStored
    QuietPageIsTrue
    RowHasItsCall
PROPERTIES
    PaidIsShown
\* What happens elsewhere is bounded.
CHECK_DEADLOCK FALSE
