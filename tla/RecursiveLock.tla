--------------------------- MODULE RecursiveLock ---------------------------
(***************************************************************************)
(* What Threading::CriticalSection promises to its callers: a lock that    *)
(* its holder may enter again, that nobody else may enter meanwhile, and   *)
(* that is free again after as many Leave() calls as there were Enter()    *)
(* calls.  win360criticalsection.h implements it (module CriticalSection). *)
(***************************************************************************)
EXTENDS Naturals

CONSTANT Threads

VARIABLE depth      \* how many Enter() calls of a thread await their Leave()

vars == depth

Init == depth = [t \in Threads |-> 0]

Enter(t) ==
    /\ \A u \in Threads \ {t} : depth[u] = 0
    /\ depth' = [depth EXCEPT ![t] = @ + 1]

Leave(t) ==
    /\ depth[t] > 0
    /\ depth' = [depth EXCEPT ![t] = @ - 1]

Next == \E t \in Threads : Enter(t) \/ Leave(t)

Spec == Init /\ [][Next]_vars
=============================================================================
