-------------------------- MODULE MCThreadRegistry --------------------------
(* ThreadRegistry with two people, whose names are characters special to LIKE. *)
EXTENDS ThreadRegistry, TLC

CONSTANTS o1, o2, o3, e1, e2, any, run, esc

ThreeOpeners == {o1, o2, o3}
TwoEditors == {e1, e2}
TwoNames == {<<any>>, <<esc>>}
ThreePrefixes == {<<>>, <<any>>, <<esc>>}
Ticks == {0, 1}
ClientSymmetry == Permutations(ThreeOpeners) \union Permutations(TwoEditors)
=============================================================================
