----------------------------- MODULE MCRegistry -----------------------------
EXTENDS Registry

CONSTANTS Tags          \* tells apart the signals of one source and epoch

MCLineages == [source : Sources, epoch : 1..MaxBoots, tag : Tags]

\* Two signals of the current epoch, a stale and a current one, and a source that speaks
\* twice.
MCBatches ==
    {<<p[1], p[2]>> : p \in {p \in MCLineages \X MCLineages :
        \/ p[1].source # p[2].source /\ p[1].epoch <= p[2].epoch
        \/ p[1] = p[2] /\ p[1].epoch = 1}}

OneIncarnation == {[boot |-> 1, seq |-> 0]}
TwoBoots == [boot : 1..2, seq : 0..1]
MCAttempts == 1..4

Symmetry == Permutations(Sources) \cup Permutations(Fences)
=============================================================================
