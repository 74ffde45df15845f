SPECIFICATION LineageSpec
CONSTANTS
  Tables <- MCTables
  Columns <- MCColumns
  Catalog <- MCCatalog
  Queries <- SelfQueries
  Nodes <- AnalysedNodes
CHECK_DEADLOCK FALSE
INVARIANT
  LineageReturns
