------------------------------ MODULE MCTrusts ------------------------------
(* Three nicks at addresses of two bits, and four networks. *)
EXTENDS Trusts, TLC

CONSTANTS n1, n2, n3

MCAddress == (n1 :> <<0, 0>>) @@ (n2 :> <<0, 1>>) @@ (n3 :> <<1, 0>>)
MCMasks == {<<>>, <<0>>, <<0, 0>>, <<0, 1>>}
=============================================================================
