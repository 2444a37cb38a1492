------------------------- MODULE MCResourceLoading -------------------------
(***************************************************************************)
(* Two models that share a texture, one of them with a mesh; the           *)
(* placeholder model has a texture of its own.                             *)
(***************************************************************************)
EXTENDS ResourceLoading

CONSTANTS m1, m2, mesh, tex, ptex

MCModel == {m1, m2}
MCMesh == {mesh}
MCTexture == {tex, ptex}
MCParts == [m \in Model |-> IF m = m1 THEN {mesh, tex} ELSE {tex}]
MCPlaceholderParts == {ptex}
=============================================================================
