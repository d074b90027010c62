---------------------------- MODULE MCOmokSystem ----------------------------
EXTENDS OmokReplicas, TLC

CONSTANTS c1, c2, c3

Symmetric == Permutations(Clients)
=============================================================================
