CONSTANTS
  Others = {"loadaddr"}
  Values = {"serial", "nc"}
  Absent = "absent"
  NoEnv = NoEnv
  WriteOnce = {}
  Copied = {"loadaddr"}
  Overridden = {"loadaddr"}
  Paired = {"stdout"}
  Inputs = {"serial", "nc"}
  Outputs = {"serial", "nc"}
  FirstInput = "serial"
  FirstOutput = "serial"
  Default <- Builtin
  Fitting <- AllEnvs
  Capacity = 0
SPECIFICATION Spec
INVARIANT ConsoleFollows
PROPERTY PromiseKept
