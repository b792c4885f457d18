----------------------------- MODULE MCMembership ----------------------------
(* Two channels, two users and a service. *)
EXTENDS Membership, TLC

CONSTANTS n1, n2, c1, c2, u1, u2

MembershipSymmetry == Permutations(Names) \cup Permutations(Chans) \cup Permutations(Nicks \ Services)
=============================================================================
