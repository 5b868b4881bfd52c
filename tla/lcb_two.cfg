SPECIFICATION LiveSpec
CONSTANTS
  N = 2
  MaxMsgs = 2
  msgs_to_send_count <- LastSendsOne
  causality <- ChainLines
  CorrectSets <- NobodyCrashes
INVARIANTS CausalInv CounterMatchesAcks FifoDelivery ClocksGrow CausalDelivery NothingLeftWaiting
PROPERTIES ImplementsFifoUrb
ACTION_CONSTRAINTS NoRepetition CorrectWorkFirst
