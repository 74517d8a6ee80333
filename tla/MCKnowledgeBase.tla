--------------------------- MODULE MCKnowledgeBase ---------------------------
EXTENDS KnowledgeBase, TLC

\* No document, agent or organization is told from another by name.
Symmetry ==
    Permutations(Documents) \cup Permutations(Agents)
        \cup Permutations(Organizations)
=============================================================================
