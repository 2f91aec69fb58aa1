SPECIFICATION FairSpec
CONSTANTS
    reply = reply
    retired = retired
    Jobs = {reply, retired}
    Workers = {w1, w2}
    NoJob = NoJob
    MaxAttempts <- JobLimits
    Unhandled = {retired}
    MaxCrashes = 2
    MaxClaims = 5
INVARIANTS
    TypeOK
    SharedOnlyAfterRelease
    SucceededWasPerformed
    RepeatsOnlyAfterRelease
    AttemptsAccountedFor
PROPERTIES
    FinishedStaysFinished
    EveryJobSettles
CHECK_DEADLOCK FALSE
