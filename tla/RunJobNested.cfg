\* The command is the packed runner, as in packed-job.example.json; no signals.
CONSTANTS
  Jobs = {j1, j2}
  Kinds = {"group", "session"}
  SignalPoints = {}
  MaxSignals = 0
SPECIFICATION Spec
INVARIANT
  ReapedBeforeRelease
