CONSTANTS
  Request = {r1, r2}
  MaxAttempts = 2
  MaxFaults = 2
SPECIFICATION FairSpec
INVARIANTS SucceededIsPublished UndisturbedFailureIsHonest
PROPERTIES OutcomeIsFinal ApplySettles
CHECK_DEADLOCK FALSE
