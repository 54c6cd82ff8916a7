\* A runner may also die while its run is charged, or running.
CONSTANTS
  Runs = {r1, r2}
  Limit = 6
  OtherLimit = 4
  Reserve = 2
  Overrun = 2
  Timeouts = {1, 3}
  DeathPoints = {"run", "truncate", "write"}
SPECIFICATION Spec
INVARIANT
  NeverUndercharged
