CONSTANTS
  w = w
  x = x
  y = y
  z = z
  Identifier = {w, x, y, z}
  MaxMessages = 3
  MaxConnectors = 3
SPECIFICATION Spec
INVARIANTS TypeOK RootsAreComponents GroupsAreComponents GroupsShareNoIdentifier BatchOrderKept
SYMMETRY Identifiers
CHECK_DEADLOCK FALSE
