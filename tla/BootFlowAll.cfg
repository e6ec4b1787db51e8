CONSTANTS
  Files = {"A", "B", "V"}
  Kernels = {"A", "B"}
  Boots = {"V"}
  OpenWrt = {"A"}
  Pieces <- ThePieces
  QUOTE = 0
  Controls = {1, 2}
  CTRL = 100
  Modulus = 4
  Lines <- GoodLines
  MaxFaults = 1
  MaxLine = 1
  MemSize = 3
  SerialFiles = {"A"}
  Factory <- New
  Keys = {"0", "1", "2", "3", "4", "5", "7", "8", "9"}
  DelayTicks = 2
  INT_DIV = 2
  Long = 11
  Reset = 7
  MinKernel = 2
  MinBoot = 1
  Uploads <- TheUploads
  MaxWrites = 1
  ERASED = 98
  JUNK = 99
SPECIFICATION Spec
INVARIANTS TypeOK SerialLoadIsSent BootsWhole KernelStaysWhole
PROPERTIES ButtonIsObeyed BootSettles
