--------------------------- MODULE MCHostAdmission ---------------------------
(* HostAdmission for TLC. *)
EXTENDS HostAdmission, TLC

\* Devices are only compared with one another.
MCSymmetry == Permutations(Devices)
=============================================================================
