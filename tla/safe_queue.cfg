SPECIFICATION LiveSpec
CONSTANTS
  Producer = {p1, p2}
  Consumer = {c1, c2, c3}
  MaxItems = 2
INVARIANTS TypeOK FirstInFirstOut SizeMatches NoLostWakeup
PROPERTIES AllTaken
CHECK_DEADLOCK FALSE
