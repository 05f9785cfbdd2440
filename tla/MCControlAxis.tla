---------------------------- MODULE MCControlAxis ---------------------------
\* ControlAxis for TLC: axes, gates and Voltages are interchangeable.
EXTENDS ControlAxis, TLC

ScaleFactors == {-1, 0}
SmallAmplitudes == -1 .. 1
Coordinates == {-1, 0, 1, 2}

Symmetry ==
  Permutations(Axes) \cup Permutations(Gates) \cup Permutations(Volts)
=============================================================================
