SPECIFICATION Spec
CHECK_DEADLOCK FALSE
CONSTANTS
  p = p
  q = q
  u = u
  s = s
  t = t
  f = f
  g = g
  h = h
  anchor = anchor
  None = None
  Torn = Torn
  Profiles <- ProfilesInOrder
  Declared <- DeclaredHere
  Unavailable = {u}
  Rules <- RulesHere
  Catalog = {f, g}
  Tests <- TestsHere
  MaxAttempts = 2
  Trees <- TreesHere
  Worlds <- WorldsHere
  CompareShapes <- Compare
  Texts <- SmallTexts
  Methods = {"get"}
  Placeholders = {"{id}", ":id"}
  OptimalLimit = 4
  NestedLimit = 3
INVARIANTS
  VerifiedIsEarned
  NothingIsLost
  ViewsAgree
  EachSpanOnce
  Coordinated
