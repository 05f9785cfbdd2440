---------------------------- MODULE MCCoreLists -----------------------------
EXTENDS CoreLists, TLC

\* The element objects and the list objects are interchangeable.
Interchangeable == Permutations(Objs) \cup Permutations(Lists)
=============================================================================
