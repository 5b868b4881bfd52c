SPECIFICATION LiveSpec
CONSTANTS
  Inputs <- AllInputs
  MaxMsgs = 3
  Batch = 2
  DUMPING_CHUNK = 2
  WordBits = 3
  LongBits = 4
INVARIANTS ShutdownInv EventsConserved WriterAlone AtMostABatch StopKeepsEvents CausalityAsWritten RunsAsNode
PROPERTIES DeliveriesWritten WorkEnds
CHECK_DEADLOCK FALSE
ACTION_CONSTRAINT EndFirst
