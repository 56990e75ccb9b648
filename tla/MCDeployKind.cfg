\* Two first deploys at once of models of different kinds.
SPECIFICATION Spec
CONSTANTS
  Admins = {a1}
  Deployers = {d1, d2}
  Revokers = {k1}
  Kinds = {"llm", "model"}
  Chosen = {"default"}
  MaxPasses = 1
  MaxUses = 1
INVARIANT FirstRevisionDecides
CHECK_DEADLOCK FALSE
