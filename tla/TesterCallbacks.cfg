SPECIFICATION FairSpec
CONSTANTS
  MaxPackets = 3
  ReceiveMemos <- MCReceiveMemos
  AckMemos <- MCAckMemos
PROPERTIES CallbacksSeeOutcome FailedCallbackReturns
CHECK_DEADLOCK FALSE
