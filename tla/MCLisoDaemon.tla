----------------------------- MODULE MCLisoDaemon -----------------------------
(* Small instances of LisoDaemon for TLC. *)
EXTENDS LisoDaemon, TLC

\* Process identifiers are interchangeable.
Symmetry == Permutations(Proc)

=============================================================================
