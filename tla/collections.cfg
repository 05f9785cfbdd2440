SPECIFICATION Spec
CONSTANTS
  Keys = {k1, k2}
  Values = {v1, v2}
  Items = {x1, x2}
  MaxItems = 2
  MaxEntries = 2
SYMMETRY Symmetry
INVARIANTS TypeOK Paired SweepCovers
PROPERTIES MapImplements SweepNeverRaises
