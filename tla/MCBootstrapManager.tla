--------------------------- MODULE MCBootstrapManager ---------------------------
(***************************************************************************)
(* Instances of BootstrapManager for TLC: the sessions and the requests    *)
(* are interchangeable.                                                    *)
(***************************************************************************)
EXTENDS BootstrapManager, TLC

Symmetry == Permutations(Sids) \cup Permutations(Reqs)

=============================================================================
