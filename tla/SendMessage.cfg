SPECIFICATION FairSpec
CONSTANTS
  MaxAttempts <- Attempts
  send_delay <- Seconds
INVARIANTS NeverTwice CancelInDelayWorks FreedOnlyIfDetached
PROPERTIES OutcomesAgree SendingEnds DeliveredIsRecorded
CHECK_DEADLOCK FALSE
