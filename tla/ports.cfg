SPECIFICATION Spec
CONSTANTS
  Inputs <- OneInput
  MaxMsgs = 3
  Batch = 2
  DUMPING_CHUNK = 2
  WordBits = 3
  LongBits = 4
INVARIANT PortAsConfigured
CHECK_DEADLOCK FALSE
