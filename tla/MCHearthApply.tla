--------------------------- MODULE MCHearthApply ---------------------------
(* The instances of HearthApply that TLC checks: the factory version 1, a  *)
(* Hearth-only bundle 2, and a bundle 3 that carries both parts.           *)
EXTENDS HearthApply

NewParts  == [v \in {2, 3} |-> v]

\* Bundle 3 goes back to the Hearth part of the factory.
BackToOne == [v \in {2, 3} |-> IF v = 3 THEN 1 ELSE v]
============================================================================
