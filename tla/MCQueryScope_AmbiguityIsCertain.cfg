SPECIFICATION Spec
CONSTANTS
  Tables <- MCTables
  Columns <- MCColumns
  Catalog <- MCCatalog
  Queries <- MCQueries
  Nodes <- MCNodes
CHECK_DEADLOCK FALSE
INVARIANT
  AmbiguityIsCertain
