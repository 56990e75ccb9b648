\* Two requests at a time on two versions, an alias edited by hand, a failed pass.
SPECIFICATION FairSpec
CONSTANTS
  Refs = {m1, m2}
  None = None
  Clients = {c1, c2}
  Leaders = {l1}
  MaxPromotions = 3
  MaxEdits = 1
  MaxFaults = 1
INVARIANTS NumbersAreGapless EvaluationDecides PromotionsChain
PROPERTIES AliasesFollow
CHECK_DEADLOCK FALSE
