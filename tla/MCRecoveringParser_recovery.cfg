CONSTANTS
  MaxTokens = 3
  Alphabets = {{"SELECT", "DROP", ";"}, {"SET", "name", ")"}, {"SELECT", "name", "("}, {"name", "-"}}
  MaxDiagnostics = 2
  MaxDepth = 2
  MaxASTNodes = 2
  Patience = 2
SPECIFICATION Spec
INVARIANTS
  NothingIsLost SkippingIsSound GuardsAreKept NoInsertionCascade
PROPERTIES
  EveryStatementConsumes Terminates
