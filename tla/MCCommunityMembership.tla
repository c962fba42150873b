------------------------ MODULE MCCommunityMembership ------------------------
(* Model values and symmetry for checking CommunityMembership with TLC.    *)
EXTENDS CommunityMembership, TLC

CONSTANTS u1, u2, g1, g2, r1, r2, r3, r4

MCUsers       == {u1, u2}
MCCommunities == {g1, g2}
MCRequests    == {r1, r2, r3, r4}

Symmetry == Permutations(MCUsers) \cup Permutations(MCCommunities)
                \cup Permutations(MCRequests)
=============================================================================
