CONSTANTS
  Others = {"ethaddr", "loadaddr"}
  Values = {"serial", "nc"}
  Absent = "absent"
  NoEnv = NoEnv
  WriteOnce = {"ethaddr"}
  Copied = {"loadaddr"}
  Overridden = {"loadaddr"}
  Paired = {"ethaddr", "loadaddr"}
  Inputs = {"serial"}
  Outputs = {"serial", "nc"}
  FirstInput = "serial"
  FirstOutput = "serial"
  Default <- Builtin
  Fitting <- Fits
  Capacity = 9
SPECIFICATION Spec
INVARIANTS TypeOK CopiesFollow
PROPERTIES SavedIsRestored OnceByName
