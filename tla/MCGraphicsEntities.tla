------------------------- MODULE MCGraphicsEntities -------------------------
(***************************************************************************)
(* Two entities that show the same model; one of them plays two clips.     *)
(***************************************************************************)
EXTENDS GraphicsEntities

CONSTANTS e1, e2, m1

MCModel == {m1}
MCModelOf == [e \in Entity |-> m1]
MCMaxPlays == [e \in Entity |-> IF e = e1 THEN 2 ELSE 0]
=============================================================================
