SPECIFICATION Spec

CONSTANTS
  a = a
  b = b
  Paths <- MCPaths
  Excluded = {b}
  Trees <- MCTrees
  Servers <- MCServers
INVARIANTS NoDuplicates OnlyOffered NoneLost AllListed TwiceOnlyIfUnslashed
CHECK_DEADLOCK FALSE
