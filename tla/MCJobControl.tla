---------------------------- MODULE MCJobControl ----------------------------
(* Instances of JobControl for TLC: pids are interchangeable model values.  *)
EXTENDS JobControl, TLC

PidSymmetry == Permutations(Pids)
=============================================================================
