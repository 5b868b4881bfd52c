SPECIFICATION Spec
CONSTANTS
  N = 2
  MaxMsgs = 2
  msgs_to_send_count <- FirstSendsOne
  causality <- ChainLines
INVARIANT CausalDelivery
