SPECIFICATION Spec
CONSTANTS
    Accepted = {"confirmed"}
    Channels = {"stripe", "khqr", "receipt"}
    NoRead = NoRead
    MaxCodes = 1
    MaxEvents = 1
    MaxPolls = 1
INVARIANTS
    NoStripePaymentAfterExpiry
