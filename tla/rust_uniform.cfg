SPECIFICATION LiveSpec
CONSTANTS
  N = 5
  MaxMsgs = 1
  messages_count <- OnlyFirstSends
  kinds = {"Fifob"}
  lines <- OwnLines
  CorrectSets <- LastThree
PROPERTY UniformAgreement
ACTION_CONSTRAINTS NoRepetition FirstThreeReceive
