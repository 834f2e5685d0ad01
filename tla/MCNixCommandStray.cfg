\* A helper that left the process group keeps a pipe open past the deadline.
SPECIFICATION Spec
CONSTANTS
  Nix = nix
  h1 = h1
  h2 = h2
  Helpers <- MCHelpers
  Strays <- MCStrays
  Capacity = 1
  Limit = 1
  Adopters = {"init", "subreaper"}
  MaxWrites = 2

PROPERTY EndsByDeadline
\* run_command returns or dies, and its helpers need not do anything.
CHECK_DEADLOCK FALSE
