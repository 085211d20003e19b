CONSTANTS
  a = a
  b = b
  ListKeys = {l1}
  Items = {a, b}
  Batches <- MCBatches
  Indices <- MCIndices
  MaxList = 4
  NoList = NoList
SPECIFICATION ListSpec
PROPERTIES PopsLeaveNoEmptyList ListsAreDeques
