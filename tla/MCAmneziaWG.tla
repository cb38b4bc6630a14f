---------------------------- MODULE MCAmneziaWG ----------------------------
\* AmneziaWG with two profiles, which give the interface different addresses or the
\* same one.
EXTENDS AmneziaWG, TLC
MCAddressing == {[p \in Profile |-> p], [p \in Profile |-> "shared"]}
Symmetric == Permutations(Profile)
=============================================================================
