----------------------------- MODULE MCAIUsage -----------------------------
EXTENDS AIUsage, TLC

\* Small limits, each of which some behaviour reaches before the others.
PerUser == [minute |-> 2, day |-> 3, running |-> 1]
PerFeature == [minute |-> 2, day |-> 3, running |-> 2]

Interchangeable == Permutations(Users) \cup Permutations(Requests)

=============================================================================
