----------------------------- MODULE MCCacheFold ----------------------------
(* CacheFold over one identity with two meters and one that only drifts or *)
(* reports nothing, so that suppressions reach their bound.                 *)
EXTENDS CacheFold, TLC

CONSTANTS a, b, m, n

MCIds == {a, b}
MCKeys == {<<a, m>>, <<a, n>>}
MeterSymmetry == Permutations({m, n})

=============================================================================
