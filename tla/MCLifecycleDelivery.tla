------------------------ MODULE MCLifecycleDelivery ------------------------
EXTENDS LifecycleDelivery, TLC
WorkerSymmetry == Permutations(Workers)
=============================================================================
