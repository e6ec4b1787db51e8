CONSTANTS
  c1 = c1
  c2 = c2
  Conns = {c1}
  NoConn = NoConn
  NoImage = NoImage
  NoHeader = NoHeader
  Headers = {"h1", "h3", "h4"}
  Images <- ThreeImages
  Names = {"firmware", "uboot", "initramfs"}
  Chunks = 3
  PageSegs = 1
  PollMax = 1
  MaxGrants = 2
SPECIFICATION Spec
VIEW NoFlash
INVARIANTS TypeOK WrittenIsAccepted
