--------------------------- MODULE MCDurableStore ---------------------------
EXTENDS DurableStore

CONSTANT MaxDamaged     \* how far a journal is followed once its file is damaged

Followed == FileIntact \/ records <= MaxDamaged

Symmetry == Permutations(Fences) \cup Permutations(Lineages) \cup Permutations(Resources)
            \cup Permutations(Attempts)
=============================================================================
