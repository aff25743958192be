SPECIFICATION Spec
CONSTANTS
  BuiltIn <- PairedPreviews
  Names = {"delta", "cat"}
  Strings = {1, 3, 4}
  Priorities <- SmallPriorities
  MaxTypes = 2
  MaxAdded = 2
  Star <- StarString
  IntMax = 3
  Types <- SomeTypes
INVARIANT TypeOK
INVARIANT SpecificFirst
INVARIANT CustomFirst
INVARIANT PriorityFirst
PROPERTY ImplementsSet
CHECK_DEADLOCK FALSE
