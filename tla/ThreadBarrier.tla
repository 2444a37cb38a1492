--------------------------- MODULE ThreadBarrier ---------------------------
(***************************************************************************)
(* Win360::Win360ThreadBarrier: a critical section, a count of the threads *)
(* still missing and a manual-reset event.  Arrive() keeps the critical    *)
(* section; the caller leaves it in Wait() or in SignalContinue().         *)
(*                                                                         *)
(* Arrive() never nests, so of the critical section (module RecursiveLock) *)
(* the thread that is inside is all that matters.  A wait for the          *)
(* event has two parts, because SetEvent() releases the threads that wait  *)
(* in the kernel at that moment, while a thread that has left the critical *)
(* section and does not wait yet finds the event as it is by then.  How    *)
(* long the 2000 ms of a wait are is left open: it may time out any time.  *)
(***************************************************************************)
EXTENDS Naturals, FiniteSets

CONSTANTS
    Threads,    \* as many as Setup() was told
    NoThread    \* nobody is in the critical section

ASSUME BarrierAssumption ==
    IsFiniteSet(Threads) /\ Threads # {} /\ NoThread \notin Threads

VARIABLES
    outstandingThreads,
    event,              \* is the manual-reset event set
    locker,             \* the thread inside critSect
    bpc,                \* where each thread is in the barrier
    released,           \* history: threads in the barrier whose round is complete
    gaveUp              \* history: how many waits of this round have timed out

vars == <<outstandingThreads, event, locker, bpc, released, gaveUp>>

TypeOK ==
    /\ outstandingThreads \in 0 .. Cardinality(Threads)
    /\ event \in BOOLEAN
    /\ locker \in Threads \cup {NoThread}
    /\ bpc \in [Threads -> {"out", "last", "reset", "prewait", "waiting"}]
    /\ released \subseteq Threads
    /\ gaveUp \in 0 .. Cardinality(Threads)

Init ==
    /\ outstandingThreads = Cardinality(Threads)
    /\ event = FALSE
    /\ locker = NoThread
    /\ bpc = [t \in Threads |-> "out"]
    /\ released = {}
    /\ gaveUp = 0

-----------------------------------------------------------------------------
\* Mutant: Arrive() returns true as soon as one thread is missing.
ArriveEarly(t) ==
    /\ bpc[t] = "out" /\ locker = NoThread
    /\ locker' = t
    /\ outstandingThreads' = outstandingThreads - 1
    /\ bpc' = [bpc EXCEPT ![t] = IF outstandingThreads' <= 1 THEN "last" ELSE "reset"]
    /\ UNCHANGED <<event, released, gaveUp>>

(* Arrive() returns true ("last") or false ("reset", the caller then calls *)
(* Wait()), inside the critical section in both cases.                     *)
Arrive(t) ==
    /\ bpc[t] = "out" /\ locker = NoThread
    /\ locker' = t
    /\ outstandingThreads' = outstandingThreads - 1
    /\ bpc' = [bpc EXCEPT ![t] = IF outstandingThreads' = 0 THEN "last" ELSE "reset"]
    /\ UNCHANGED <<event, released, gaveUp>>

\* Mutant: Wait() does not reset the event.
LeaveOnly(t) ==
    /\ bpc[t] = "reset"
    /\ locker' = NoThread
    /\ bpc' = [bpc EXCEPT ![t] = "prewait"]
    /\ UNCHANGED <<outstandingThreads, event, released, gaveUp>>

(* Wait(): ResetEvent() and Leave() ...                                    *)
ResetEvent(t) ==
    /\ bpc[t] = "reset"
    /\ event' = FALSE
    /\ locker' = NoThread
    /\ bpc' = [bpc EXCEPT ![t] = "prewait"]
    /\ UNCHANGED <<outstandingThreads, released, gaveUp>>

(* ... then WaitForSingleObject(): the event is still set ...              *)
PassEvent(t) ==
    /\ bpc[t] = "prewait" /\ event
    /\ bpc' = [bpc EXCEPT ![t] = "out"]
    /\ released' = released \ {t}
    /\ UNCHANGED <<outstandingThreads, event, locker, gaveUp>>

(* ... or the thread sleeps until SetEvent() ...                           *)
Sleep(t) ==
    /\ bpc[t] = "prewait" /\ ~event
    /\ bpc' = [bpc EXCEPT ![t] = "waiting"]
    /\ UNCHANGED <<outstandingThreads, event, locker, released, gaveUp>>

(* ... or until it has waited too long.  The thread goes on as if the      *)
(* round were complete, and outstandingThreads stays as it is.             *)
TimeOut(t) ==
    /\ bpc[t] = "waiting"
    /\ bpc' = [bpc EXCEPT ![t] = "out"]
    /\ released' = released \ {t}
    /\ gaveUp' = IF t \in released THEN gaveUp ELSE gaveUp + 1
    /\ UNCHANGED <<outstandingThreads, event, locker>>

\* Mutant: SignalContinue() leaves the count at zero.
ContinueWithoutCount(t) ==
    /\ bpc[t] = "last"
    /\ event' = TRUE
    /\ locker' = NoThread
    /\ bpc' = [u \in Threads |-> IF u = t \/ bpc[u] = "waiting" THEN "out" ELSE bpc[u]]
    /\ released' = {u \in Threads \ {t} : bpc[u] = "prewait"}
    /\ gaveUp' = 0
    /\ UNCHANGED outstandingThreads

(* SignalContinue(): SetEvent() makes the sleeping threads run.            *)
SignalContinue(t) ==
    /\ bpc[t] = "last"
    /\ outstandingThreads' = Cardinality(Threads)
    /\ event' = TRUE
    /\ locker' = NoThread
    /\ bpc' = [u \in Threads |-> IF u = t \/ bpc[u] = "waiting" THEN "out" ELSE bpc[u]]
    /\ released' = {u \in Threads \ {t} : bpc[u] = "prewait"}
    /\ gaveUp' = 0

Next ==
    \E t \in Threads :
        \/ Arrive(t) \/ ResetEvent(t) \/ PassEvent(t) \/ Sleep(t) \/ TimeOut(t)
        \/ SignalContinue(t)

Spec == Init /\ [][Next]_vars

-----------------------------------------------------------------------------
(* Properties                                                              *)

(* n_assert(this->outstandingThreads > 0) in Arrive(): whoever gets into   *)
(* the critical section finds at least one thread missing, itself.         *)
ArriveAssertion == locker = NoThread => outstandingThreads > 0

(* The count is the number of threads that are not in the barrier or are   *)
(* still on their way out of the round before, less the waits of this      *)
(* round that have timed out.                                              *)
Arrived == {t \in Threads : bpc[t] # "out" /\ t \notin released}

CountExact ==
    outstandingThreads + Cardinality(Arrived) + gaveUp = Cardinality(Threads)

(* "return ... true if all threads have arrived": so it is in a round in   *)
(* which no wait has timed out.                                            *)
AllArrived == \A t \in Threads : bpc[t] = "last" /\ gaveUp = 0 => Arrived = Threads

(* A round is over when all have arrived that have not given up, and the   *)
(* next one begins with a full count.                                      *)
RoundsExact == ArriveAssertion /\ CountExact /\ AllArrived

(* A thread that has left the critical section and finds the event set     *)
(* belongs to a round that is complete: it does not slip through by the    *)
(* event of the round before.                                              *)
NoStaleEvent == event => \A t \in Threads : bpc[t] = "prewait" => t \in released

(* "call after Arrive() returns true to resume all threads": after         *)
(* SignalContinue() nobody of that round sleeps.                           *)
AllResumed == \A t \in released : bpc[t] # "waiting"

(* What the barrier does keep of its promise.                              *)
AbstractBarrier == INSTANCE Barrier WITH
    arrived <- Arrived,
    leaving <- released,
    gaveUp <- gaveUp
ImplementsBarrier == AbstractBarrier!Spec
=============================================================================
