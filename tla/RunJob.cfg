\* Signals strike while a runner waits: for the lock, or for its command.
CONSTANTS
  Jobs = {j1, j2}
  Kinds = {"group"}
  SignalPoints = {"acquire", "check", "spawn", "wait", "record"}
  MaxSignals = 2
SPECIFICATION Spec
INVARIANTS
  ReapedBeforeRelease
  ExclusiveResource
  ReportTruthful
PROPERTIES
  JobsReturn
