SPECIFICATION Spec
CONSTANTS
  x = x
  y = y
  z = z
  wide = wide
  narrow = narrow
  toAll = toAll
  toNode = toNode
  Filter = {wide, narrow}
  Customer = {x, y, z}
  Message = {toAll, toNode}
  Matches <- MCMatches
  Length <- MCLength
  DlcForce <- MCDlcForce
  NoFrame = NoFrame
  NoFilter = NoFilter
  Nobody = Nobody
  Freed = Freed
  UpdateRate = 1
  MinSize <- MCMinSize
SYMMETRY Alike
INVARIANTS BoxesConsistent
PROPERTIES Delivers
