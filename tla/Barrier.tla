------------------------------ MODULE Barrier ------------------------------
(***************************************************************************)
(* What Threading::ThreadBarrier promises: a thread that has arrived goes  *)
(* on when all threads have arrived, or when it has waited too long; one   *)
(* that gives up still counts as present.  Module ThreadBarrier shows that *)
(* win360threadbarrier.h keeps this promise.                               *)
(***************************************************************************)
EXTENDS Naturals, FiniteSets

CONSTANT Threads

VARIABLES
    arrived,    \* the threads that have arrived in the current round
    leaving,    \* the threads whose round is complete and that have not left
    gaveUp      \* how many threads gave up waiting in the current round

vars == <<arrived, leaving, gaveUp>>

Init == arrived = {} /\ leaving = {} /\ gaveUp = 0

Arrive(t) ==
    /\ t \notin arrived \cup leaving
    /\ arrived' = arrived \cup {t}
    /\ UNCHANGED <<leaving, gaveUp>>

(* The round is complete.  Some threads go on at once, the others when     *)
(* they are scheduled.                                                     *)
Release ==
    /\ Cardinality(arrived) + gaveUp = Cardinality(Threads)
    /\ arrived' = {} /\ gaveUp' = 0
    /\ leaving' \in SUBSET (arrived \cup leaving)

Leave(t) ==
    /\ t \in leaving
    /\ leaving' = leaving \ {t}
    /\ UNCHANGED <<arrived, gaveUp>>

GiveUp(t) ==
    /\ t \in arrived
    /\ arrived' = arrived \ {t}
    /\ gaveUp' = gaveUp + 1
    /\ UNCHANGED leaving

Next == Release \/ \E t \in Threads : Arrive(t) \/ Leave(t) \/ GiveUp(t)

Spec == Init /\ [][Next]_vars
=============================================================================
