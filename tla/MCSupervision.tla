---------------------------- MODULE MCSupervision -----------------------------
EXTENDS Supervision, TLC

\* Requests of one kind are interchangeable; used by the runs without liveness.
RequestSymmetry == Permutations(Mutation) \cup Permutations(Read)
=============================================================================
