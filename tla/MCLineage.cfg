SPECIFICATION CallerSpec
CONSTANTS
  Tables <- MCTables
  Columns <- MCColumns
  Catalog <- MCCatalog
  Queries <- AnalysedQueries
  Nodes <- AnalysedNodes
CHECK_DEADLOCK FALSE
INVARIANTS
  KnowledgeIsStable
  CompleteIsExact
  ScopesAreLexical
  OrderIsCombined
  UsingShowsOneColumn
  UpstreamIsExact
  LineageIsExact
PROPERTY
  WalkEnds
