------------------------ MODULE MCContactConnection ------------------------
(* Instantiation of ContactConnection for TLC.                             *)
EXTENDS ContactConnection, TLC

\* The connections are interchangeable.
ConnSymmetry == Permutations(Conns)

=============================================================================
