SPECIFICATION LiveSpec
CONSTANTS
  N = 2
  MaxMsgs = 2
  messages_count <- LastSendsOne
  kinds = {"Fifob", "Lcb"}
  lines <- FullLines
  CorrectSets <- NobodyCrashes
INVARIANTS FifoDelivery DispatchLogged NothingLeftWaiting ClockRespected
ACTION_CONSTRAINTS NoRepetition OwnWorkFirst
PROPERTIES ImplementsFifoUrb
