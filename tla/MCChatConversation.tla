------------------------- MODULE MCChatConversation -------------------------
EXTENDS ChatConversation, TLC
Symmetry == Permutations(Senders)
=============================================================================
