SPECIFICATION LiveSpec
CONSTANTS
  N = 2
  MaxMsgs = 1
  msgs_to_send_count <- AllSend
  causality <- ChainLines
  CorrectSets <- NobodyCrashes
PROPERTY Validity
