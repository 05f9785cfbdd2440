SPECIFICATION Spec
CONSTANTS
  None = None
  d1 = d1 d2 = d2
  s1 = s1 s2 = s2
  g1 = g1 g2 = g2 g3 = g3
  P1 = P1 P2 = P2
  Dirs <- TwoDirs
  Stores <- TwoStores
  Gates <- ThreeGates
  Names <- TwoNames
  NameOf <- SharedNames
  Factors <- ScaleFactors
  MaxCoeff = 2
  MaxGates = 2
SYMMETRY PairSymmetry
INVARIANTS TypeOK OneCoefficientEach DotIsInner DotOfNamed
PROPERTIES SumsRight OrthogonalAfter
