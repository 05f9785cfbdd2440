SPECIFICATION Spec
CONSTANTS
  Axes = {a1, a2}
  Gates = {g1, g2}
  Volts = {v1, v2, v3}
  InDomain = FALSE
  Factors <- ScaleFactors
  Coords <- Coordinates
  Offsets = {0, 1}
  Amplitudes <- SmallAmplitudes
SYMMETRY Symmetry
INVARIANT ToPointIsAffine
