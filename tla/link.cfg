SPECIFICATION LiveSpec
CONSTANTS
  Self = 1
  Peer = {2, 3}
  Live = {2}
  msgs_to_send_count = 1
  Foreign <- Tenth
  SENDING_CHUNK_SIZE = 1
  Batch = 2
  MaxCopies = 2
INVARIANTS LinkInv OneCopy HonestDatagrams
PROPERTIES AllAcked AllBroadcast
CHECK_DEADLOCK FALSE
ACTION_CONSTRAINTS CrashedAtOnce NothingRepeated LocalFirst
