---------------------------- MODULE MCAuthSessions ----------------------------
EXTENDS AuthSessions, TLC

\* No user, organization, token or request is told from another by name.
Symmetry ==
    Permutations(Users) \cup Permutations(Organizations)
        \cup Permutations(Tokens) \cup Permutations(Requests)
=============================================================================
