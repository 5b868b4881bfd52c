SPECIFICATION LiveSpec
CONSTANTS
  N = 3
  MaxMsgs = 1
  msgs_to_send_count <- OnlyFirstSends
  causality <- ChainLines
  CorrectSets <- Majorities
INVARIANTS Inv UniformDelivery AckAfterSeen
PROPERTIES Validity UniformAgreement
ACTION_CONSTRAINTS NoRepetition CorrectWorkFirst
