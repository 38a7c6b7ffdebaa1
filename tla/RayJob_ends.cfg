\* Deadlines, suspension and deletion policies under fairness, with an edit.
SPECIFICATION FairSpec
CONSTANTS
    Specs <- MCEnding
    MaxNames = 2
    MaxAge = 1
    Prompt = TRUE
    MaxEdits = 1
    MaxFaults = 0

PROPERTIES  VerdictEndsAttempt SuspendingCompletes 
CHECK_DEADLOCK FALSE
