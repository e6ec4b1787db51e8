CONSTANTS
  c1 = c1
  c2 = c2
  Conns = {c1}
  NoConn = NoConn
  NoImage = NoImage
  NoHeader = NoHeader
  Headers = {"h1", "h3", "h4"}
  Images <- TwoImages
  Names = {"firmware", "uboot"}
  Chunks = 2
  PageSegs = 1
  PollMax = 0
  MaxGrants = 1
SPECIFICATION TrailerSpec
PROPERTIES FlashingPageIsTrue
CHECK_DEADLOCK FALSE
