---------------------------- MODULE MCLifecycle -----------------------------
(* Instances of Lifecycle; addresses are interchangeable, and so are       *)
(* descriptors.                                                            *)
EXTENDS Lifecycle, TLC

Symmetry == Permutations(Clients) \cup Permutations(Fds)
=============================================================================
