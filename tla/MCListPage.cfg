SPECIFICATION Spec
CONSTANTS
  Null = Null  Empty = Empty  NoFilter = NoFilter
  ann = ann  bob = bob  open = open  a1 = a1  a2 = a2  b1 = b1
  Viewers = {ann, bob}
  Filters = {NoFilter, open}
  Lists <- SomeLists
  Slots = {1, 2}
  MaxChanges = 1
  MaxMoves = 3
  MaxFailures = 1
CHECK_DEADLOCK FALSE
INVARIANTS
  TagDescribesCache
  RowsOfViewer
PROPERTIES
  Settles
