-------------------------- MODULE MCHandlerThread --------------------------
(***************************************************************************)
(* Instances of HandlerThread for TLC: a message h1 accepts, one that only *)
(* h2 accepts, and a batch of one message that both accept.                *)
(***************************************************************************)
EXTENDS HandlerThread, TLC

CONSTANTS m1, m2, b, x, h1, h2

Plain == {m1, m2}
WithBatch == {m1, m2, b, x}

NoBatch == <<>>
OneBatch == b :> {x}

MCHandlers == {h1, h2}
MCAccepts == [m \in Messages |-> CASE m = m1 -> {h1} [] m = m2 -> {h2}
                                   [] m = x -> {h1, h2} [] OTHER -> {}]
OneHandler == <<h1>>
TwoHandlers == <<h2, h1>>
=============================================================================
