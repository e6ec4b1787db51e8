CONSTANTS
  c1 = c1
  c2 = c2
  Conns = {c1, c2}
  NoConn = NoConn
  NoImage = NoImage
  NoHeader = NoHeader
  Headers = {"h1", "h3", "h4"}
  Images <- AllImages
  Names = {"firmware", "uboot", "initramfs", "config"}
  Chunks = 3
  PageSegs = 2
  PollMax = 0
  MaxGrants = 1
SPECIFICATION PoliteSpec
PROPERTY FlashingPageIsTrue
