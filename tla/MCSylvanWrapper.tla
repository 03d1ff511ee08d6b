-------------------------- MODULE MCSylvanWrapper --------------------------
(* Small tables and caches for TLC.                                        *)
EXTENDS SylvanWrapper, TLC

CONSTANTS W1, W2, K1, K2, K3, K4, K5, N1, N2, N3, N4, N5

(* The five nodes probe the same two lines, which hold four.               *)
SmallResult == K1 :> N1 @@ K2 :> N2 @@ K3 :> N3 @@ K4 :> N4 @@ K5 :> N5
SmallNodeHash ==
  N1 :> [first |-> 0, step |-> 2, hash |-> 1] @@ N2 :> [first |-> 1, step |-> 2, hash |-> 1]
  @@ N3 :> [first |-> 0, step |-> 2, hash |-> 2] @@ N4 :> [first |-> 1, step |-> 2, hash |-> 1]
  @@ N5 :> [first |-> 0, step |-> 2, hash |-> 1]

(* K1 and K4 share a cache bucket and the hash that is kept there.         *)
SmallKeyHash ==
  K1 :> [bucket |-> 0, hash |-> 1] @@ K4 :> [bucket |-> 0, hash |-> 1]
  @@ K2 :> [bucket |-> 1, hash |-> 1] @@ K3 :> [bucket |-> 1, hash |-> 2]
  @@ K5 :> [bucket |-> 1, hash |-> 2]

(* Two nodes fill region 0; three start region 1.                          *)
SmallLoads == {<<K1, K2>>, <<K1, K2, K3>>}

Symmetry == Permutations(Builder)
=============================================================================
