\* Two helpers, one of them a stray; pipes of one chunk, two chunks written to
\* each, one chunk of stdout kept.
SPECIFICATION Spec
CONSTANTS
  Nix = nix
  h1 = h1
  h2 = h2
  Helpers <- MCHelpers
  Strays <- MCStrays
  Capacity = 1
  Limit = 1
  Adopters = {"init", "subreaper"}
  MaxWrites = 2
INVARIANTS CompleteOnSuccess NothingLeft
PROPERTIES OrphanEnds PipesAreRead EndsUnlessHeld
\* run_command returns or dies, and its helpers need not do anything.
CHECK_DEADLOCK FALSE
