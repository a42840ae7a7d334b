--------------------------- MODULE MCConfigLoader ---------------------------
(* ConfigLoader for TLC: a file has two variables, and an entry between    *)
(* them that no variable goes with.                                        *)
EXTENDS ConfigLoader, TLC

TwoVars      == {"a", "b"}
ThreeEntries == <<"a", "x", "b">>

Symmetry == Permutations(Loaders) \union Permutations(Files)
=============================================================================
