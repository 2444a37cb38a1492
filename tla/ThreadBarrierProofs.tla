------------------------ MODULE ThreadBarrierProofs ------------------------
(***************************************************************************)
(* The safety of the thread barrier for every finite set of threads: the   *)
(* count accounts for every thread, Arrive() never finds it at zero, a     *)
(* round without timeouts completes only when all threads have arrived, no *)
(* thread slips through on the event of the round before, and the barrier  *)
(* implements module Barrier.                                              *)
(*                                                                         *)
(* The inductive invariant ties the critical section, which Arrive() keeps *)
(* and another call leaves, to the count: whoever is inside is the thread  *)
(* that brought the count to where it is, and the count is zero exactly    *)
(* while the last thread is on its way to SignalContinue().                *)
(***************************************************************************)
EXTENDS ThreadBarrier, FiniteSetTheorems, TLAPS

(* Arrive() keeps the critical section until ResetEvent() or               *)
(* SignalContinue(); nobody else is in it.                                 *)
LockerInside == \A t \in Threads : bpc[t] \in {"last", "reset"} <=> locker = t

(* The count is zero only while the last thread is still inside.           *)
ZeroForLast ==
    /\ \A t \in Threads : bpc[t] = "last" => outstandingThreads = 0
    /\ outstandingThreads = 0 => \E t \in Threads : bpc[t] = "last"

(* A released thread is still on its way to the event or waits for it.     *)
ReleasedInside == \A t \in released : bpc[t] \in {"prewait", "waiting"}

IInv ==
    /\ TypeOK
    /\ LockerInside
    /\ ZeroForLast
    /\ ReleasedInside
    /\ NoStaleEvent
    /\ CountExact

(* The threads that have arrived are finitely many, no more than there are.*)
LEMMA ArrivedFinite ==
    /\ IsFiniteSet(Arrived) /\ Cardinality(Arrived) \in Nat
    /\ Cardinality(Arrived) <= Cardinality(Threads)
    /\ Cardinality(Arrived) = Cardinality(Threads) => Arrived = Threads
    /\ Cardinality(Threads) \in Nat \ {0}
<1>1. IsFiniteSet(Threads) /\ Threads # {}
  BY BarrierAssumption
<1>2. Arrived \subseteq Threads
  BY DEF Arrived
<1>3. IsFiniteSet(Arrived) /\ Cardinality(Arrived) <= Cardinality(Threads)
      /\ (Cardinality(Arrived) = Cardinality(Threads) => Arrived = Threads)
  BY <1>1, <1>2, FS_Subset
<1>4. Cardinality(Arrived) \in Nat /\ Cardinality(Threads) \in Nat
  BY <1>1, <1>3, FS_CardinalityType
<1>5. Cardinality(Threads) # 0
  BY <1>1, FS_EmptySet
<1> QED
  BY <1>3, <1>4, <1>5

(* What each step does to the set of arrived threads.                      *)
LEMMA ArrivedAfterArrive ==
    ASSUME IInv, NEW t \in Threads, Arrive(t)
    PROVE  Arrived' = Arrived \cup {t} /\ t \notin Arrived \cup released
<1>1. t \notin released /\ t \notin Arrived
  BY DEF IInv, ReleasedInside, Arrive, Arrived
<1> QED
  BY <1>1 DEF IInv, TypeOK, Arrive, Arrived

LEMMA ArrivedAfterLeave ==
    ASSUME IInv, NEW t \in Threads, PassEvent(t) \/ (TimeOut(t) /\ t \in released)
    PROVE  Arrived' = Arrived /\ t \in released /\ released' = released \ {t} /\ gaveUp' = gaveUp
<1>1. t \in released
  BY DEF IInv, NoStaleEvent, PassEvent
<1>2. bpc' = [bpc EXCEPT ![t] = "out"] /\ released' = released \ {t} /\ gaveUp' = gaveUp
  BY <1>1 DEF PassEvent, TimeOut
<1>3. Arrived' = Arrived
  BY <1>1, <1>2 DEF IInv, TypeOK, Arrived
<1> QED
  BY <1>1, <1>2, <1>3

LEMMA ArrivedAfterGiveUp ==
    ASSUME IInv, NEW t \in Threads, TimeOut(t), t \notin released
    PROVE  Arrived' = Arrived \ {t} /\ t \in Arrived /\ released' = released
           /\ gaveUp' = gaveUp + 1
<1>1. t \in Arrived
  BY DEF TimeOut, Arrived
<1>2. bpc' = [bpc EXCEPT ![t] = "out"] /\ released' = released /\ gaveUp' = gaveUp + 1
  BY DEF TimeOut, IInv, TypeOK
<1>3. Arrived' = Arrived \ {t}
  BY <1>2 DEF IInv, TypeOK, Arrived
<1> QED
  BY <1>1, <1>2, <1>3

LEMMA ArrivedUnchanged ==
    ASSUME IInv, NEW t \in Threads, ResetEvent(t) \/ Sleep(t)
    PROVE  Arrived' = Arrived
<1>1. released' = released
  BY DEF ResetEvent, Sleep
<1>2. \A u \in Threads : bpc'[u] = "out" <=> bpc[u] = "out"
  BY DEF IInv, TypeOK, ResetEvent, Sleep
<1> QED
  BY <1>1, <1>2 DEF Arrived

LEMMA ArrivedAfterContinue ==
    ASSUME IInv, NEW t \in Threads, SignalContinue(t)
    PROVE  /\ Arrived' = {} /\ released' \subseteq Arrived \cup released
           /\ outstandingThreads = 0 /\ gaveUp' = 0
<1>1. \A u \in Threads : bpc'[u] # "out" => bpc'[u] = "prewait" /\ u \in released'
  BY DEF IInv, TypeOK, LockerInside, SignalContinue
<1>2. Arrived' = {}
  BY <1>1 DEF Arrived
<1>3. released' \subseteq Arrived \cup released
  BY DEF SignalContinue, Arrived
<1>4. outstandingThreads = 0 /\ gaveUp' = 0
  BY DEF IInv, ZeroForLast, SignalContinue
<1> QED
  BY <1>2, <1>3, <1>4

-----------------------------------------------------------------------------
LEMMA InitIInv == Init => IInv
<1> SUFFICES ASSUME Init PROVE IInv
  OBVIOUS
<1>1. Arrived = {}
  BY DEF Init, Arrived
<1>2. Cardinality(Arrived) = 0
  BY <1>1, FS_EmptySet
<1>3. TypeOK
  <2>1. Cardinality(Threads) \in Nat
    BY ArrivedFinite
  <2>2. 0 \in 0 .. Cardinality(Threads) /\ Cardinality(Threads) \in 0 .. Cardinality(Threads)
    BY <2>1
  <2> QED
    BY <2>2 DEF Init, TypeOK
<1>4. LockerInside
  BY BarrierAssumption DEF Init, LockerInside
<1>5. ZeroForLast /\ ReleasedInside /\ NoStaleEvent
  BY ArrivedFinite DEF Init, ZeroForLast, ReleasedInside, NoStaleEvent
<1>6. CountExact
  BY <1>2, ArrivedFinite DEF Init, CountExact
<1> QED
  BY <1>3, <1>4, <1>5, <1>6 DEF IInv

(* Every step keeps the invariant.                                         *)
LEMMA NextIInv == IInv /\ [Next]_vars => IInv'
<1> SUFFICES ASSUME IInv, [Next]_vars PROVE IInv'
  OBVIOUS
<1> USE DEF IInv
<1>a. Cardinality(Threads) \in Nat \ {0} /\ Cardinality(Arrived) \in Nat
  BY ArrivedFinite
<1>t. /\ outstandingThreads \in 0 .. Cardinality(Threads)
      /\ bpc \in [Threads -> {"out", "last", "reset", "prewait", "waiting"}]
      /\ released \subseteq Threads /\ gaveUp \in 0 .. Cardinality(Threads)
      /\ event \in BOOLEAN /\ locker \in Threads \cup {NoThread}
  BY DEF TypeOK
<1>1. ASSUME NEW t \in Threads, Arrive(t) PROVE IInv'
  <2>1. outstandingThreads > 0
    BY <1>1, <1>t, BarrierAssumption DEF Arrive, ZeroForLast, LockerInside
  <2>2. /\ locker' = t /\ outstandingThreads' = outstandingThreads - 1
        /\ bpc' = [bpc EXCEPT ![t] = IF outstandingThreads' = 0 THEN "last" ELSE "reset"]
        /\ bpc[t] = "out" /\ locker = NoThread
        /\ UNCHANGED <<event, released, gaveUp>>
    BY <1>1 DEF Arrive
  <2>3. TypeOK'
    BY <2>1, <2>2, <1>t, <1>a DEF TypeOK
  <2>4. LockerInside'
    BY <2>2, <1>t, BarrierAssumption DEF LockerInside
  <2>5. ZeroForLast'
    BY <2>2, <1>t, BarrierAssumption DEF ZeroForLast, LockerInside
  <2>6. ReleasedInside' /\ NoStaleEvent'
    BY <2>2, <1>t DEF ReleasedInside, NoStaleEvent
  <2>7. Cardinality(Arrived') = Cardinality(Arrived) + 1
    BY <1>1, ArrivedAfterArrive, ArrivedFinite, FS_AddElement
  <2>8. CountExact'
    BY <2>2, <2>7, <1>t, <1>a DEF CountExact
  <2> QED
    BY <2>3, <2>4, <2>5, <2>6, <2>8
<1>2. ASSUME NEW t \in Threads, ResetEvent(t) PROVE IInv'
  <2>1. /\ bpc[t] = "reset" /\ locker' = NoThread /\ event' = FALSE
        /\ bpc' = [bpc EXCEPT ![t] = "prewait"]
        /\ UNCHANGED <<outstandingThreads, released, gaveUp>>
    BY <1>2 DEF ResetEvent
  <2>2. TypeOK'
    BY <2>1, <1>t DEF TypeOK
  <2>3. LockerInside' /\ ZeroForLast'
    BY <2>1, <1>t, BarrierAssumption DEF LockerInside, ZeroForLast
  <2>4. ReleasedInside' /\ NoStaleEvent'
    BY <2>1, <1>t DEF ReleasedInside, NoStaleEvent
  <2>5. CountExact'
    BY <2>1, <1>2, ArrivedUnchanged DEF CountExact
  <2> QED
    BY <2>2, <2>3, <2>4, <2>5
<1>3. ASSUME NEW t \in Threads, Sleep(t) PROVE IInv'
  <2>1. /\ bpc[t] = "prewait" /\ ~event /\ bpc' = [bpc EXCEPT ![t] = "waiting"]
        /\ UNCHANGED <<outstandingThreads, event, locker, released, gaveUp>>
    BY <1>3 DEF Sleep
  <2>2. TypeOK'
    BY <2>1, <1>t DEF TypeOK
  <2>3. LockerInside' /\ ZeroForLast'
    BY <2>1, <1>t DEF LockerInside, ZeroForLast
  <2>4. ReleasedInside' /\ NoStaleEvent'
    BY <2>1, <1>t DEF ReleasedInside, NoStaleEvent
  <2>5. CountExact'
    BY <2>1, <1>3, ArrivedUnchanged DEF CountExact
  <2> QED
    BY <2>2, <2>3, <2>4, <2>5
<1>4. ASSUME NEW t \in Threads, PassEvent(t) \/ TimeOut(t) PROVE IInv'
  <2>1. /\ bpc[t] \in {"prewait", "waiting"} /\ bpc' = [bpc EXCEPT ![t] = "out"]
        /\ released' = released \ {t}
        /\ UNCHANGED <<outstandingThreads, event, locker>>
    BY <1>4 DEF PassEvent, TimeOut
  <2>2. LockerInside' /\ ZeroForLast'
    BY <2>1, <1>t DEF LockerInside, ZeroForLast
  <2>3. ReleasedInside' /\ NoStaleEvent'
    BY <2>1, <1>t DEF ReleasedInside, NoStaleEvent
  <2>4. CountExact' /\ gaveUp' \in Nat
    <3>1. CASE PassEvent(t) \/ t \in released
      BY <3>1, <2>1, <1>4, <1>t, ArrivedAfterLeave DEF CountExact
    <3>2. CASE TimeOut(t) /\ t \notin released
      <4>1. Cardinality(Arrived') = Cardinality(Arrived) - 1
        BY <3>2, ArrivedAfterGiveUp, ArrivedFinite, FS_RemoveElement
      <4>2. gaveUp' = gaveUp + 1
        BY <3>2, ArrivedAfterGiveUp
      <4> QED
        BY <4>1, <4>2, <2>1, <1>t, <1>a DEF CountExact
    <3> QED
      BY <3>1, <3>2, <1>4
  <2>5. Cardinality(Arrived') \in Nat
    <3>1. Arrived' \subseteq Threads
      BY DEF Arrived
    <3> QED
      BY <3>1, BarrierAssumption, FS_Subset, FS_CardinalityType
  <2>6. TypeOK'
    BY <2>1, <2>4, <2>5, <1>t, <1>a DEF TypeOK, CountExact
  <2> QED
    BY <2>2, <2>3, <2>4, <2>6
<1>5. ASSUME NEW t \in Threads, SignalContinue(t) PROVE IInv'
  <2>1. /\ bpc[t] = "last" /\ locker' = NoThread /\ event' = TRUE
        /\ outstandingThreads' = Cardinality(Threads) /\ gaveUp' = 0
        /\ bpc' = [u \in Threads |-> IF u = t \/ bpc[u] = "waiting" THEN "out" ELSE bpc[u]]
        /\ released' = {u \in Threads \ {t} : bpc[u] = "prewait"}
    BY <1>5 DEF SignalContinue
  <2>2. TypeOK'
    BY <2>1, <1>t, <1>a DEF TypeOK
  <2>3. LockerInside'
    BY <2>1, <1>t, BarrierAssumption DEF LockerInside
  <2>4. ZeroForLast'
    BY <2>1, <2>3, <1>a, BarrierAssumption DEF LockerInside, ZeroForLast
  <2>5. ReleasedInside' /\ NoStaleEvent'
    BY <2>1, <1>t DEF ReleasedInside, NoStaleEvent
  <2>6. Cardinality(Arrived') = 0
    BY <1>5, ArrivedAfterContinue, FS_EmptySet
  <2>7. CountExact'
    BY <2>1, <2>6, <1>a DEF CountExact
  <2> QED
    BY <2>2, <2>3, <2>4, <2>5, <2>7
<1>6. CASE UNCHANGED vars
  BY <1>6 DEF vars, TypeOK, LockerInside, ZeroForLast, ReleasedInside, NoStaleEvent, CountExact,
              Arrived
<1> QED
  BY <1>1, <1>2, <1>3, <1>4, <1>5, <1>6 DEF Next

-----------------------------------------------------------------------------
(* The inductive invariant holds in every state the barrier can reach.     *)
THEOREM SpecIInv == Spec => []IInv
<1> QED
  BY InitIInv, NextIInv, PTL DEF Spec

(* Every variable of the barrier keeps its type.                           *)
THEOREM SpecTypeOK == Spec => []TypeOK
<1>1. IInv => TypeOK
  BY DEF IInv
<1> QED
  BY <1>1, SpecIInv, PTL

(* n_assert(this->outstandingThreads > 0) in Arrive() never fails, for any *)
(* number of threads and timeouts.                                         *)
THEOREM SpecArriveAssertion == Spec => []ArriveAssertion
<1>1. IInv => ArriveAssertion
  <2> SUFFICES ASSUME IInv, locker = NoThread PROVE outstandingThreads > 0
    BY DEF ArriveAssertion
  <2>1. outstandingThreads \in Nat
    BY ArrivedFinite DEF IInv, TypeOK
  <2>2. outstandingThreads # 0
    BY BarrierAssumption DEF IInv, LockerInside, ZeroForLast
  <2> QED
    BY <2>1, <2>2
<1> QED
  BY <1>1, SpecIInv, PTL

(* outstandingThreads accounts for every thread: it is the number of those *)
(* that have not arrived in this round, less the waits that gave up.       *)
THEOREM SpecCountExact == Spec => []CountExact
<1>1. IInv => CountExact
  BY DEF IInv
<1> QED
  BY <1>1, SpecIInv, PTL

(* Arrive() returns true in a round without timeouts only when all threads *)
(* have arrived.                                                           *)
LEMMA RoundComplete == IInv => AllArrived
<1> SUFFICES ASSUME IInv, NEW t \in Threads, bpc[t] = "last", gaveUp = 0
             PROVE  Arrived = Threads
  BY DEF AllArrived
<1>1. outstandingThreads = 0
  BY DEF IInv, ZeroForLast
<1>2. Cardinality(Arrived) = Cardinality(Threads)
  BY <1>1, ArrivedFinite DEF IInv, CountExact
<1> QED
  BY <1>2, ArrivedFinite

(* Arrive() returns true in a round without timeouts only when all threads *)
(* have arrived.                                                           *)
THEOREM SpecAllArrived == Spec => []AllArrived
<1> QED
  BY RoundComplete, SpecIInv, PTL

(* What the three say together.                                            *)
THEOREM SpecRoundsExact == Spec => []RoundsExact
  BY SpecArriveAssertion, SpecCountExact, SpecAllArrived, PTL DEF RoundsExact

(* No thread slips through Wait() on the event of the round before.        *)
THEOREM SpecNoStaleEvent == Spec => []NoStaleEvent
<1>1. IInv => NoStaleEvent
  BY DEF IInv
<1> QED
  BY <1>1, SpecIInv, PTL

(* Module Barrier counts with the same operator.                           *)
LEMMA SameCardinality == \A S : AbstractBarrier!Cardinality(S) = Cardinality(S)
  BY DEF AbstractBarrier!Cardinality, Cardinality, AbstractBarrier!IsFiniteSet, IsFiniteSet

(* The barrier of win360threadbarrier.h implements the abstract barrier.   *)
THEOREM SpecImplementsBarrier == Spec => ImplementsBarrier
<1>1. Init => AbstractBarrier!Init
  <2> SUFFICES ASSUME Init PROVE AbstractBarrier!Init
    OBVIOUS
  <2>1. Arrived = {}
    BY DEF Init, Arrived
  <2> QED
    BY <2>1 DEF Init, AbstractBarrier!Init
<1>2. IInv /\ [Next]_vars => [AbstractBarrier!Next]_(AbstractBarrier!vars)
  <2> SUFFICES ASSUME IInv, [Next]_vars
               PROVE  AbstractBarrier!Next \/ UNCHANGED AbstractBarrier!vars
    BY DEF AbstractBarrier!vars
  <2>1. ASSUME NEW t \in Threads, Arrive(t) PROVE AbstractBarrier!Arrive(t)
    BY <2>1, ArrivedAfterArrive DEF Arrive, AbstractBarrier!Arrive
  <2>2. ASSUME NEW t \in Threads, ResetEvent(t) \/ Sleep(t)
        PROVE  UNCHANGED AbstractBarrier!vars
    <3>1. UNCHANGED <<released, gaveUp>>
      BY <2>2 DEF ResetEvent, Sleep
    <3> QED
      BY <2>2, <3>1, ArrivedUnchanged DEF AbstractBarrier!vars
  <2>3. ASSUME NEW t \in Threads, PassEvent(t) \/ (TimeOut(t) /\ t \in released)
        PROVE  AbstractBarrier!Leave(t)
    BY <2>3, ArrivedAfterLeave DEF AbstractBarrier!Leave
  <2>4. ASSUME NEW t \in Threads, TimeOut(t), t \notin released
        PROVE  AbstractBarrier!GiveUp(t)
    BY <2>4, ArrivedAfterGiveUp DEF AbstractBarrier!GiveUp
  <2>5. ASSUME NEW t \in Threads, SignalContinue(t) PROVE AbstractBarrier!Release
    <3>1. Cardinality(Arrived) + gaveUp = Cardinality(Threads)
      BY <2>5, ArrivedAfterContinue, ArrivedFinite DEF IInv, TypeOK, CountExact
    <3> QED
      BY <2>5, <3>1, SameCardinality, ArrivedAfterContinue DEF AbstractBarrier!Release
  <2>6. CASE UNCHANGED vars
    BY <2>6 DEF vars, AbstractBarrier!vars, Arrived
  <2> QED
    BY <2>1, <2>2, <2>3, <2>4, <2>5, <2>6 DEF Next, AbstractBarrier!Next
<1> QED
  BY <1>1, <1>2, SpecIInv, PTL DEF Spec, ImplementsBarrier, AbstractBarrier!Spec
=============================================================================
