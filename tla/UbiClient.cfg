SPECIFICATION Spec
CONSTANTS
  Replies <- SomeReplies
  HeaderLen = 2
  LengthLen = 1
  MaxCalls <- ThreeCalls
INVARIANTS ReplyWhole ReportsLastReturned BuffersFreed
PROPERTIES CallEnds
CHECK_DEADLOCK FALSE
