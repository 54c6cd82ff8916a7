\* Two binaries, built again once at any time, and two sources; one setting names its
\* binary and its profile, one does not; interruptions, refusals and timeouts
\* anywhere.
CONSTANTS
  LayersOf <- MCLayersOf
  Gates <- MCGates
  Continues = {2}
  Acceptance = TRUE
  Sources = {c1, c2}
  Binaries = {b1, b2}
  Settings = {named, bare}
  Named = {named}
  Sync <- MCSync
  Plans <- MCPlans
  Unset = Unset
  full = full
  named = named
  bare = bare
  MaxLaunches = 3
  MaxRebuilds = 1
SYMMETRY Interchangeable
SPECIFICATION Spec
INVARIANTS
  PromotedOnEvidence
  PassedIsComplete
PROPERTY NothingRerun
