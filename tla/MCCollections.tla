--------------------------- MODULE MCCollections ----------------------------
\* Collections for TLC: keys, values and items are interchangeable.
EXTENDS Collections, TLC

Symmetry ==
  Permutations(Keys) \cup Permutations(Values) \cup Permutations(Items)
=============================================================================
