SPECIFICATION FairSpec
CONSTANT MaxSurprises = 1
PROPERTY NegotiationEnds
CHECK_DEADLOCK FALSE
