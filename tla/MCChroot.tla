------------------------------- MODULE MCChroot -------------------------------
(* Chroot with interchangeable sessions, each of which may log in again.      *)
EXTENDS Chroot, TLC

Symmetry == Permutations(Sessions)
=============================================================================
