SPECIFICATION Spec
CONSTANTS
  Namespace = {a, b}
  Prompt <- Prompts
  Config <- Configs
SYMMETRY Symmetry
CONSTRAINT RecentBound
INVARIANTS
  TotalsMatch
  WithinLimits
  MatchIsLongest
  KeepsTheNewest
