------------------------- MODULE MCCircuitService -------------------------
(* Instances of CircuitService for TLC.                                    *)
EXTENDS CircuitService, TLC

\* Panels and connections are interchangeable.
Symmetry == Permutations(Panel) \cup Permutations(Client)
=============================================================================
