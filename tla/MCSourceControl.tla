-------------------------- MODULE MCSourceControl --------------------------
EXTENDS SourceControl, TLC

Interchangeable == Permutations(Workers) \cup Permutations(Contents)
=============================================================================
