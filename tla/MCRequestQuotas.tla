-------------------------- MODULE MCRequestQuotas ---------------------------
(* Symmetry of the instance of RequestQuotas: callers, Runs and keys are    *)
(* interchangeable.                                                         *)
EXTENDS RequestQuotas, TLC

Symmetry == Permutations(Callers) \union Permutations(Runs) \union Permutations(Keys)

=============================================================================
