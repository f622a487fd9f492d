------------------------------ MODULE MCCounter ------------------------------
(***************************************************************************)
(* Counter on small instances: three alarms whose functions act on each    *)
(* other.                                                                  *)
(***************************************************************************)
EXTENDS Counter, TLC

\* No alarm is told from another but by what is done to it.
Symmetry == Permutations(Alarms)
==============================================================================
