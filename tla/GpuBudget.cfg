\* Runners die only before they are admitted or after they have charged.
CONSTANTS
  Runs = {r1, r2, r3}
  Limit = 6
  OtherLimit = 4
  Reserve = 2
  Overrun = 2
  Timeouts = {1, 3}
  DeathPoints = {"lock", "locked", "release"}
SPECIFICATION Spec
INVARIANTS
  WithinBudget
  LedgerExact
