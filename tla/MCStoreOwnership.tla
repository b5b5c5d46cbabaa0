--------------------------- MODULE MCStoreOwnership ---------------------------
EXTENDS StoreOwnership, TLC

\* Instances are interchangeable; used by the runs without liveness.
InstanceSymmetry == Permutations(Instance)
=============================================================================
