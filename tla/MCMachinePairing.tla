-------------------------- MODULE MCMachinePairing --------------------------
(* Symmetry of the instance of MachinePairing: pairing sessions are         *)
(* interchangeable.                                                         *)
EXTENDS MachinePairing, TLC

Symmetry == Permutations(Sessions)

=============================================================================
