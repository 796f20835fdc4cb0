--------------------------- MODULE MCFirmwareFlow ---------------------------
(* FirmwareFlow for TLC: versions are interchangeable.                     *)
EXTENDS FirmwareFlow, TLC

VersionSymmetry == Permutations(Versions)
=============================================================================
