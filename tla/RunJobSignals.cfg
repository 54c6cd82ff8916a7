\* A signal may also strike during the grace period of run_process's finally.
CONSTANTS
  Jobs = {j1, j2}
  Kinds = {"group"}
  SignalPoints = {"wait", "grace"}
  MaxSignals = 2
SPECIFICATION Spec
INVARIANT
  ReapedBeforeRelease
