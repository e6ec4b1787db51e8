CONSTANTS
  ArpTries = 2
  Server = "server"
  Nobody = Nobody
  Seq = 4
  MaxTries = 1
  WellKnown = 69
  PortTftp = 69
  Kernels = {"A", "C"}
  Size <- Blocks
  MinLength = 1
  Modes = {"cli", "rescue"}
  Files = {"A","B"}
  Hosts = {"host"}
  Uploaders = {70,71}
  Upload <- Puts
  Cut <- Copies
  Spelled <- Spellings
  Sessions = {1, 2}
  OptionSessions = {2}
  Retries <- Tried
  MaxStarts = 2
  MaxWrap = 4
SPECIFICATION Spec
INVARIANTS TypeOK LoadIsExact AckedIsStored OneSession PingIsTrue QuietAtPrompt RescueIsChecked FinishIsTrue
PROPERTIES LoopReturns
