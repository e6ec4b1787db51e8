CONSTANTS
  Files = {"A"}
  Pieces <- OneFile
  QUOTE = 0
  Controls = {1, 2}
  CTRL = 100
  Modulus = 4
  Lines <- LengthLine
  MaxFaults = 2
  MaxLine = 2
  MemSize = 8
SPECIFICATION Spec
INVARIANT LoadedIsSent
CHECK_DEADLOCK FALSE
