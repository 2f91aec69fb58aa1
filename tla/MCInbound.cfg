SPECIFICATION Spec
CONSTANTS
    Messages = {m1, m2}
    Threads = {h1}
    Workers = {w1, w2}
    NoThread = NoThread
    NoMessage = NoMessage
    ResumeOverlaps = TRUE
    MaxDeliveries = 1
INVARIANTS
    TypeOK
    OneReplyPerMessage
    NobodyLeftInSilence
    PersonNotTalkedOver
SYMMETRY Symmetry
