\* All programs of five nodes with one or two outputs; no live limit, and one
\* low enough to forbid speculation.
CONSTANTS
  MaxNodes = 5
  Slots = 2
  Programs <- MCPrograms
  LiveLimits = {0, 2}
  SourceData <- MCSourceData
SPECIFICATION SourcesSpec
INVARIANTS
  CountersExact
  RetainedIsNeeded
  FeedbackBarrier
  NeverStuck
  PublicRight
  SeedsExact
  ReferenceIsOwn
CHECK_DEADLOCK FALSE
