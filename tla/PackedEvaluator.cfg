\* A ceiling a source reaches in two operations, room for two values in a batch.
CONSTANTS
  Programs <- MCPrograms
  LiveLimits = {0}
  Modes <- MCModes
  Ceiling = 3
  Refreshed = 0
  Margin = 1
  SlotCount = 2
  MaxBatch = 16
  CostOf <- MCCost
SPECIFICATION EvalSpec
INVARIANTS
  ValuesRight
  HeldIsNeeded
  LevelBudget
  PlanExact
PROPERTIES
  Evaluates
