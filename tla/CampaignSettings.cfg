\* Environments that differ in what the artifact does not repeat.
CONSTANTS
  LayersOf <- MCLayersOf
  Gates <- MCGates
  Continues = {2}
  Acceptance = TRUE
  Sources = {c1}
  Binaries = {b1}
  Settings = {named, bare}
  Named = {named, bare}
  Sync <- SameSync
  Plans <- EverySetting
  Unset = Unset
  full = full
  named = named
  bare = bare
  MaxLaunches = 2
  MaxRebuilds = 0
SPECIFICATION Spec
INVARIANT
  RecordedIsOwn
