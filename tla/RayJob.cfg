\* Every submission mode and deletion policy, with an edit and a disturbance.
SPECIFICATION Spec
CONSTANTS
    Specs <- MCSpecs
    MaxNames = 2
    MaxAge = 1
    Prompt = TRUE
    MaxEdits = 1
    MaxFaults = 1
INVARIANTS TypeOK  RetriesBounded SuccessIsReal ServiceFollowsAttempt
 
CHECK_DEADLOCK FALSE
