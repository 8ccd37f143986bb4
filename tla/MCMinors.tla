------------------------------ MODULE MCMinors ------------------------------
(* Instances of Minors for TLC.                                            *)
EXTENDS Minors, TLC

PidSymmetry == Permutations(Pid) \cup Permutations(Opener)
=============================================================================
