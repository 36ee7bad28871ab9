------------------------- MODULE MCCircuitContract -------------------------
(* Instances of CircuitContract for TLC.                                   *)
EXTENDS CircuitContract, TLC

\* Panels and connections are interchangeable.
Symmetry == Permutations(Panel) \cup Permutations(Client)
=============================================================================
