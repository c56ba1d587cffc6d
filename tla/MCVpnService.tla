----------------------------- MODULE MCVpnService -----------------------------
(***************************************************************************)
(* Two attempts to connect, one with two chunks and one with a single one, *)
(* and two instances of the ability.                                       *)
(***************************************************************************)
EXTENDS VpnService, TLC

CONSTANTS s1, s2

Instances == Permutations(Fd)

MCCount == [s \in Session |-> IF s = s1 THEN 2 ELSE 1]
=============================================================================
