SPECIFICATION LiveSpec
CONSTANTS
  N = 3
  MaxMsgs = 1
  messages_count <- OnlyFirstSends
  kinds = {"Fifob"}
  lines <- OwnLines
  CorrectSets <- FirstOrLastCrashes
INVARIANTS Inv UniformDelivery
PROPERTIES Validity UniformAgreement
ACTION_CONSTRAINTS NoRepetition OwnWorkFirst
