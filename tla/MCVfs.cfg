CONSTANTS
  Names <- MCNames
  Keys <- MCNames
  Hash <- MCHash
  NameLen <- MCNameLen
  NAME_MAX = 3
  Empty = ""
  Root = 0
  Vnodes <- MCVnodes
  Name <- MCName
  Dirs = {0, 1}
  Maps = {0, 1}
  Values <- MCVnodes
  Paths <- MCPaths
  MaxLinks = 4
  MaxChain = 2
  InitSize = 2
  MaxTable = 16
  NoValue = NoValue
CHECK_DEADLOCK FALSE
SPECIFICATION Spec
INVARIANTS
  TypeOK
  Findable
  PathsExact
PROPERTIES
  DictPromise
  PutReturns
