SPECIFICATION Spec
CONSTANTS
  Paths <- SomePaths
  Lengths = {0, 1, 2}
  Flake <- FlakeNix
  VcsPaths <- Vcs
  MaxEntries = 4
  MaxBytes = 2
  Sources <- SomeSources
  IncludeVcs = FALSE
  Unfit = {}
  MaxTries = 2
  Leftovers <- SomeLeftovers
  WithWorker = TRUE
  MaxEdits = 1
  MaxFaults = 1
INVARIANTS PackedIsTree PackedIsStaged CopyIsBounded EvaluatedIsStamped ScratchOutlivesCommand
PROPERTY SeedEnds
CHECK_DEADLOCK FALSE
