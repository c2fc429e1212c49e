SPECIFICATION FairSpec
CONSTANT MaxSurprises = 2
INVARIANTS
    SameMedia
    CancelFindsOffer
PROPERTY NegotiationEndsUnlessUndone
\* A call that has ended, and an end that is stuck, are at rest.
CHECK_DEADLOCK FALSE
