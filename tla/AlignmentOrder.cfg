SPECIFICATION Spec
CONSTANTS
  CompareShapes <- Compare
  Texts <- SmallTexts
  Methods = {"get"}
  Placeholders = {"{id}"}
  OptimalLimit = 128
  NestedLimit = 16
INVARIANT SiblingOrderIsImmaterial
