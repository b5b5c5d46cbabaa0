--------------------------- MODULE MCWorkerJournal ----------------------------
EXTENDS WorkerJournal

\* Keys, datasets and contents are interchangeable.
JournalSymmetry ==
    Permutations(Key) \cup Permutations(Dataset) \cup Permutations(Content)
=============================================================================
