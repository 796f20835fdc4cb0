------------------------- MODULE MCDownloadEngine -------------------------
(* Small instances of DownloadEngine for TLC.                              *)
EXTENDS DownloadEngine, TLC

CONSTANTS p1, p2

OnePackage == {p1}
TwoPackages == {p1, p2}

Symmetry == Permutations(Packages)
=============================================================================
