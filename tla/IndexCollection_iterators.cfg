SPECIFICATION Spec
CONSTANTS
  MaxSize = 2
  MaxTotal = 6
  MaxSelected = 2
  Collections <- SomeCollections
  Selections <- SomeSelections
INVARIANTS TypeOK
PROPERTIES BehavesLikeRowNumbers
