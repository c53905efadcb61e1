------------------------ MODULE MCHearthReconcile ------------------------
(* HearthReconcile for TLC: a light and a fan, and co-processors that      *)
(* hold nothing, or the two in either order.                              *)
EXTENDS HearthReconcile

CONSTANTS e1, e2, light, fan

MCTypeOf == [e \in {e1, e2} |-> IF e = e1 THEN light ELSE fan]
MCStored == {<<>>, <<fan, light>>, <<light, fan>>}
===========================================================================
