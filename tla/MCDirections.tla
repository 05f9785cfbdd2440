---------------------------- MODULE MCDirections ----------------------------
\* Directions for TLC: two variables of a script, three gates; g1 and g2 are
\* two objects of one name.
EXTENDS Directions, TLC

CONSTANTS d1, d2, s1, s2, g1, g2, g3, P1, P2

TwoDirs == {d1, d2}
TwoStores == {s1, s2}
ThreeGates == {g1, g2, g3}
TwoNames == {P1, P2}
SharedNames == g1 :> P1 @@ g2 :> P1 @@ g3 :> P2

ScaleFactors == {-1, 0, 2}

\* Variables, arrays, and the two gates of one name.
PairSymmetry ==
  Permutations(TwoDirs) \cup Permutations(TwoStores) \cup Permutations({g1, g2})
=============================================================================
