----------------------------- MODULE MCConnPool -----------------------------
(* Small instances of ConnPool for TLC.                                    *)
EXTENDS ConnPool, TLC

\* v1 -> v2 -> v1 style pushes, one of them below the floor of 1.
BoundsOneTwo == {<<0, 1>>, <<1, 2>>}
NoBounds == {}

Symmetry == Permutations(Transports) \cup Permutations(Dialers)
=============================================================================
