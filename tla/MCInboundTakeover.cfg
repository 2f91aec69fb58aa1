SPECIFICATION Spec
CONSTANTS
    Messages = {m1}
    Threads = {h1}
    Workers = {w1}
    NoThread = NoThread
    NoMessage = NoMessage
    ResumeOverlaps = FALSE
    MaxDeliveries = 1
INVARIANTS
    TakeoverStands
