SPECIFICATION Spec
CONSTANTS
  BuiltIn <- GpgPreview
  Names = {"gpg"}
  Strings = {2, 3, 4}
  Priorities = {1}
  MaxTypes = 0
  MaxAdded = 0
  Star <- StarString
  IntMax = 3
  Types <- NoTypes
INVARIANT ShortApplies
CHECK_DEADLOCK FALSE
