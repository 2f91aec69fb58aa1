SPECIFICATION FairSpec
CONSTANTS
    Accepted = {"shipped"}
    Channels = {"stripe", "khqr", "receipt"}
    NoRead = NoRead
    MaxCodes = 2
    MaxEvents = 1
    MaxPolls = 1
INVARIANTS
    TypeOK
    PaidHasCause
    PayableCodeIsWatched
PROPERTIES
    RecordStandsUnlessOvertaken
    ExpiryLeavesNoPage
    ReportedMoneyIsRecorded
    PaymentKeepsTheBooks
