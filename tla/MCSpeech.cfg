\* Three turns, up to two of them started by clicks; the answers of the first two may have
\* more than one step.
SPECIFICATION SpeechFairSpec
CONSTANTS
    MaxTurns  = 3
    MaxClicks = 2
    MaxSteps  = 3
    LongTurns = {1, 2}

    
PROPERTIES
    AnswerNeverCuts
    StaleNeverSpeaks
    LinesEnd
\* The turns are bounded.
CHECK_DEADLOCK FALSE
