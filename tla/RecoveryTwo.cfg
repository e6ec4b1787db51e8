CONSTANTS
  c1 = c1
  c2 = c2
  Conns = {c1, c2}
  NoConn = NoConn
  NoImage = NoImage
  NoHeader = NoHeader
  Headers = {"h1", "h3", "h4"}
  Images <- GoodAndBad
  Names = {"firmware", "uboot"}
  Chunks = 2
  PageSegs = 1
  PollMax = 0
  MaxGrants = 2
SPECIFICATION Spec
SYMMETRY ConnSymmetry
VIEW NoFlash
INVARIANTS UpgradesAreGranted QuietUpgradeIsExact StoreStaysBounded AcceptedKernelWasChecked
