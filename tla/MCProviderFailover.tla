-------------------------- MODULE MCProviderFailover --------------------------
(* Two calls over two backends of one account.                               *)
EXTENDS ProviderFailover
CONSTANTS c1, c2, a1
MCAccount == <<a1, a1>>
Symmetry == Permutations({c1, c2})
=============================================================================
