SPECIFICATION CopySpec
CONSTANTS
  Size = 2
  Lengths = {1, 2, 3, 5}
  MaxSent = 3
INVARIANTS CopiedInOrder
CHECK_DEADLOCK FALSE
