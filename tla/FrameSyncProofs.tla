--------------------------- MODULE FrameSyncProofs ---------------------------
(***************************************************************************)
(* Frame synchronization in both modes and over the switch between them:   *)
(* in lock-step mode both threads work on the same frame and the sync      *)
(* actions wait for both; no message is lost.                              *)
(*                                                                         *)
(* The invariant of the thread barrier is taken from ThreadBarrierProofs.  *)
(***************************************************************************)
EXTENDS FrameSync, FiniteSetTheorems, SequenceLemmas

BP == INSTANCE ThreadBarrierProofs

LEMMA TwoThreads == BP!BarrierAssumption /\ Cardinality(Threads) = 2
<1>1. IsFiniteSet({Master}) /\ Cardinality({Master}) = 1
  BY FS_Singleton
<1>2. Threads = {Master} \cup {Slave}
  BY DEF Threads
<1>3. IsFiniteSet(Threads) /\ Cardinality(Threads) = 2
  BY <1>1, <1>2, FrameSyncAssumption, FS_AddElement
<1>4. BP!IsFiniteSet(Threads)
  BY <1>3 DEF BP!IsFiniteSet, IsFiniteSet
<1> QED
  BY <1>2, <1>3, <1>4, FrameSyncAssumption DEF BP!BarrierAssumption

LEMMA SameCardinality == \A S : B!Cardinality(S) = BP!Cardinality(S) /\ B!Cardinality(S) = Cardinality(S)
BY DEF B!Cardinality, BP!Cardinality, Cardinality, B!IsFiniteSet, BP!IsFiniteSet, IsFiniteSet

(* A step of the barrier keeps the barrier's invariant.                    *)
BarrierStep(t) ==
    B!Arrive(t) \/ B!ResetEvent(t) \/ B!PassEvent(t) \/ B!Sleep(t) \/ B!TimeOut(t)
    \/ B!SignalContinue(t)

LEMMA InitBarrier == B!Init => BP!IInv
<1>1. B!Init => BP!Init
  BY SameCardinality DEF B!Init, BP!Init
<1> QED
  BY <1>1, TwoThreads, BP!InitIInv

LEMMA NextBarrier ==
    ASSUME BP!IInv, \/ \E t \in Threads : BarrierStep(t)
                    \/ UNCHANGED barrierVars
    PROVE  BP!IInv'
<1>1. BP!Next \/ UNCHANGED BP!vars
  <2>1. ASSUME NEW t \in Threads, BarrierStep(t) PROVE BP!Next
    <3>1. B!Arrive(t) => BP!Arrive(t)
      BY DEF B!Arrive, BP!Arrive
    <3>2. B!ResetEvent(t) \/ B!PassEvent(t) \/ B!Sleep(t) \/ B!TimeOut(t)
          => BP!ResetEvent(t) \/ BP!PassEvent(t) \/ BP!Sleep(t) \/ BP!TimeOut(t)
      BY DEF B!ResetEvent, B!PassEvent, B!Sleep, B!TimeOut,
             BP!ResetEvent, BP!PassEvent, BP!Sleep, BP!TimeOut
    <3>3. B!SignalContinue(t) => BP!SignalContinue(t)
      BY SameCardinality DEF B!SignalContinue, BP!SignalContinue
    <3> QED
      BY <2>1, <3>1, <3>2, <3>3 DEF BarrierStep, BP!Next
  <2>2. ASSUME UNCHANGED barrierVars PROVE UNCHANGED BP!vars
    BY <2>2 DEF barrierVars, BP!vars
  <2> QED
    BY <2>1, <2>2
<1> QED
  BY <1>1, TwoThreads, BP!NextIInv

(* What the barrier's invariant says of two threads.                       *)
BarrierFacts ==
    /\ bpc \in [Threads -> {"out", "last", "reset", "prewait", "waiting"}]
    /\ \A t \in Threads : bpc[t] = "last" /\ gaveUp = 0 =>
           \A u \in Threads : bpc[u] # "out" /\ u \notin released
    /\ \A t, u \in Threads : bpc[t] = "last" /\ bpc[u] \in {"last", "reset"} => t = u
    /\ \A t \in released : bpc[t] \in {"prewait", "waiting"}
    /\ event => \A t \in Threads : bpc[t] = "prewait" => t \in released
    /\ gaveUp \in Nat /\ released \subseteq Threads

LEMMA BarrierFactsHold == BP!IInv => BarrierFacts /\ B!TypeOK
<1> SUFFICES ASSUME BP!IInv PROVE BarrierFacts /\ B!TypeOK
  OBVIOUS
<1>1. BP!TypeOK /\ BP!LockerInside /\ BP!ReleasedInside /\ BP!NoStaleEvent /\ BP!AllArrived
  BY TwoThreads, BP!RoundComplete DEF BP!IInv
<1>2. B!TypeOK
  BY <1>1, SameCardinality DEF B!TypeOK, BP!TypeOK
<1>3. \A t \in Threads : bpc[t] = "last" /\ gaveUp = 0 =>
          \A u \in Threads : bpc[u] # "out" /\ u \notin released
  BY <1>1 DEF BP!AllArrived, BP!Arrived
<1>4. gaveUp \in Nat
  <2>1. BP!Cardinality(Threads) \in Nat
    BY TwoThreads, SameCardinality
  <2> QED
    BY <1>1, <2>1 DEF BP!TypeOK
<1> QED
  BY <1>1, <1>2, <1>3, <1>4 
     DEF BP!TypeOK, BP!LockerInside, BP!ReleasedInside, BP!NoStaleEvent, BarrierFacts

LEMMA BarrierFactsAfter == BP!IInv' => BarrierFacts' /\ B!TypeOK'
  BY BarrierFactsHold, PTL

-----------------------------------------------------------------------------
(* The inductive invariant.                                                *)

(* Where a thread is between "arrive" and "timer" is where the barrier has *)
(* it.                                                                     *)
BarrierPlaces ==
    \A t \in Threads :
        /\ pc[t] \in {"sync", "continue"} <=> bpc[t] = "last"
        /\ bpc[t] \in {"reset", "prewait", "waiting"} => pc[t] = "barrier"

(* Thread t has arrived in a round that is not complete.                   *)
WaitsForRound(t) == pc[t] = "barrier" /\ bpc[t] # "out" /\ t \notin released

(* No round has come out short, and this one will not either: a wait that  *)
(* times out after the sync actions does no harm.                          *)
Exact == ~early /\ (gaveUp = 0 \/ \E t \in Threads : pc[t] = "continue")

(* Each thread has the master time until the next round; the render thread *)
(* alone makes the time advance in free-running mode.                      *)
MasterTime == ~early /\ InFrame(Master) => time[Master] = curTime
SlaveTime == Exact /\ lockStepMode /\ InFrame(Slave) => time[Slave] = curTime

(* References are held within a frame, and are to the data object that the *)
(* frame count selects.                                                    *)
Reading ==
    /\ reading # {} => pc[Slave] = "frame"
    /\ Exact /\ lockStepMode => reading \subseteq {OwnerIndex}
Writing ==
    /\ writing # {} => pc[Master] = "frame"
    /\ ~early => writing \subseteq {ClientIndex}

(* When lock-step mode is entered the render thread may still be about to  *)
(* synchronize alone; the main thread then has still to arrive.            *)
NoFreeSync ==
    Exact /\ lockStepMode /\ pc[Master] = "freesync" =>
        pc[Slave] \in {"read", "arrive"} \/ WaitsForRound(Slave)

(* Before the next flip the render thread has no message left to handle.   *)
BeforeFlip ==
    \/ pc[Master] \in {"frame", "read", "arrive", "sync", "freesync"}
    \/ WaitsForRound(Master) /\ pc[Slave] # "continue"
ArrayEmpty == ~early /\ BeforeFlip => msgArray = <<>> /\ msgIdx = 0

(* Each message is in one place.                                           *)
SentOnce ==
    /\ IsInjective(msgQueue)
    /\ Range(msgQueue) \cup Range(msgArray) \cup handled \subseteq sent
    /\ Range(msgQueue) \cap (Range(msgArray) \cup handled) = {}

IInv ==
    /\ TypeOK /\ BP!IInv
    /\ BarrierPlaces
    /\ MasterTime /\ SlaveTime /\ NoFreeSync
    /\ ArrayEmpty /\ SentOnce /\ NoMessageLost
    /\ Reading /\ Writing

(* Whoever does the sync actions in an exact round has the other thread in *)
(* the barrier.                                                            *)
LEMMA OtherWaits ==
    ASSUME IInv, NEW t \in Threads, NEW u \in Threads \ {t},
           pc[t] = "sync" \/ pc[t] = "continue", gaveUp = 0
    PROVE  WaitsForRound(u)
<1>1. bpc[t] = "last" /\ bpc[u] \in {"out", "last", "reset", "prewait", "waiting"}
  BY BarrierFactsHold DEF IInv, BarrierFacts, BarrierPlaces
<1>2. bpc[u] # "out" /\ bpc[u] # "last" /\ u \notin released
  BY <1>1, BarrierFactsHold DEF IInv, BarrierFacts
<1> QED
  BY <1>1, <1>2 DEF IInv, BarrierPlaces, WaitsForRound

LEMMA InitIInv == Init => IInv
<1> SUFFICES ASSUME Init PROVE IInv
  OBVIOUS
<1>1. BP!IInv
  BY InitBarrier DEF Init
<1>2. TypeOK
  <2>1. B!TypeOK
    BY <1>1, BarrierFactsHold
  <2>2. 0 \in 0 .. (Frames - 1) /\ 0 \in 0 .. MaxEnters
    BY FrameSyncAssumption
  <2>3. msgQueue \in Seq(Messages) /\ msgArray \in Seq(Messages) /\ msgIdx \in Nat
    BY DEF Init
  <2>4. pc \in [Threads -> {"frame"}] /\ time \in [Threads -> {0}]
    BY DEF Init
  <2> QED
    BY <2>1, <2>2, <2>3, <2>4 DEF Init, TypeOK
<1>3. BarrierPlaces
  BY DEF Init, B!Init, BarrierPlaces
<1>4. MasterTime /\ SlaveTime /\ NoFreeSync
  BY DEF Init, MasterTime, SlaveTime, NoFreeSync, Threads
<1>5. Range(<<>>) = {}
  BY DEF Range
<1>6. ArrayEmpty /\ SentOnce
  BY <1>5 DEF Init, ArrayEmpty, SentOnce, IsInjective
<1>7. NoMessageLost
  BY <1>5 DEF Init, NoMessageLost
<1>8. Reading /\ Writing
  BY DEF Init, Reading, Writing
<1> QED
  BY <1>1, <1>2, <1>3, <1>4, <1>6, <1>7, <1>8 DEF IInv

(* The steps of a thread through the barrier are steps of the barrier.     *)
LEMMA NextBP == IInv /\ [Next]_vars => BP!IInv'
<1> SUFFICES ASSUME IInv, [Next]_vars PROVE BP!IInv'
  OBVIOUS
<1>1. (\E t \in Threads : BarrierStep(t)) \/ UNCHANGED barrierVars
  BY DEF Next, MasterStep, SlaveStep, AtSyncPoint, ReadMode, Arrive, SyncLast, SignalContinue,
         BarrierWait, BarrierReturn, UpdateTimer, StartFrame, HandleMessage, ClearMessages,
         FreeSync, NextFrame, WaitForFrameSync, EnterLockStepMode, LeaveLockStepMode, ToSyncPoint,
         ClearMode, TestHandled, Owner, Client, Send, Cancel, WaitForMessage, BarrierStep, Threads,
         vars
<1> QED
  BY <1>1, NextBarrier DEF IInv

-----------------------------------------------------------------------------
(* Which steps touch the messages, and which let the time advance.         *)
LEMMA MessageSteps ==
    ASSUME [Next]_vars
    PROVE  \/ UNCHANGED <<messageVars, curTime>>
           \/ SyncActions /\ (FreeSync \/ \E t \in Threads : SyncLast(t))
           \/ HandleMessage \/ ClearMessages
           \/ \E m \in Messages : Send(m) \/ Cancel(m)
<1>1. ASSUME NEW t \in Threads, AtSyncPoint(t)
      PROVE  UNCHANGED <<messageVars, curTime>> \/ (SyncActions /\ SyncLast(t))
  BY <1>1 DEF AtSyncPoint, ReadMode, Arrive, SyncLast, SignalContinue, BarrierWait,
              BarrierReturn, UpdateTimer, timeVars
<1>2. StartFrame \/ NextFrame \/ WaitForFrameSync \/ EnterLockStepMode \/ LeaveLockStepMode
      \/ ClearMode \/ TestHandled \/ Owner \/ Client
      \/ (\E m \in Messages : WaitForMessage(m)) \/ UNCHANGED vars
      => UNCHANGED <<messageVars, curTime>>
  BY DEF StartFrame, NextFrame, WaitForFrameSync, EnterLockStepMode, LeaveLockStepMode,
         ToSyncPoint, ClearMode, TestHandled, Owner, Client, WaitForMessage, timeVars, vars
<1>3. FreeSync => SyncActions
  BY DEF FreeSync
<1> QED
  BY <1>1, <1>2, <1>3 DEF Next, MasterStep, SlaveStep, Threads

(* Who takes a reference, and how it goes.                                 *)
LEMMA DataSteps ==
    ASSUME [Next]_vars
    PROVE  \/ Owner \/ Client
           \/ reading' \in {reading, {}} /\ writing' \in {writing, {}}
BY DEF Next, MasterStep, SlaveStep, AtSyncPoint, ReadMode, Arrive, SyncLast, SignalContinue,
         BarrierWait, BarrierReturn, UpdateTimer, StartFrame, HandleMessage, ClearMessages,
         FreeSync, NextFrame, WaitForFrameSync, EnterLockStepMode, LeaveLockStepMode, ToSyncPoint,
         ClearMode, TestHandled, Send, Cancel, WaitForMessage, dataVars, vars

(* The types.                                                              *)
LEMMA NextTypeOK == IInv /\ [Next]_vars => TypeOK'
<1> SUFFICES ASSUME IInv, [Next]_vars PROVE TypeOK'
  OBVIOUS
<1> DEFINE Places == {"frame", "read", "arrive", "barrier", "sync", "continue", "freesync", "return",
                      "fswait", "timer", "handle"}
<1>b. B!TypeOK'
  <2>1. BP!IInv'
    BY NextBP
  <2> QED
    BY <2>1, BarrierFactsAfter
<1>t. /\ lockStepMode \in BOOLEAN /\ frameSyncEvent \in BOOLEAN
      /\ msgQueue \in Seq(Messages) /\ msgArray \in Seq(Messages) /\ msgIdx \in Nat
      /\ handled \subseteq Messages /\ sent \subseteq Messages
      /\ curTime \in 0 .. (Frames - 1) /\ time \in [Threads -> 0 .. (Frames - 1)]
      /\ pc \in [Threads -> Places]
      /\ purpose \in {"frame", "enter", "leave", "wait"}
      /\ awaited \in Messages \cup {"none"}
      /\ enters \in 0 .. MaxEnters /\ early \in BOOLEAN
      /\ reading \subseteq {0, 1} /\ writing \subseteq {0, 1}
  BY DEF IInv, TypeOK
<1>f. Frames \in Nat /\ Frames >= 4 /\ MaxEnters \in Nat
  BY FrameSyncAssumption
<1>1. pc' \in [Threads -> Places]
  BY <1>t DEF Next, MasterStep, SlaveStep, AtSyncPoint, ReadMode, Arrive, SyncLast, SignalContinue,
         BarrierWait, BarrierReturn, UpdateTimer, StartFrame, HandleMessage, ClearMessages,
         FreeSync, NextFrame, WaitForFrameSync, EnterLockStepMode, LeaveLockStepMode, ToSyncPoint,
         ClearMode, TestHandled, Owner, Client, Send, Cancel, WaitForMessage, Goto, vars
<1>2. lockStepMode' \in BOOLEAN /\ frameSyncEvent' \in BOOLEAN /\ early' \in BOOLEAN
  BY <1>t DEF Next, MasterStep, SlaveStep, AtSyncPoint, ReadMode, Arrive, SyncLast, SignalContinue,
         BarrierWait, BarrierReturn, UpdateTimer, StartFrame, HandleMessage, ClearMessages,
         FreeSync, NextFrame, WaitForFrameSync, EnterLockStepMode, LeaveLockStepMode, ToSyncPoint,
         ClearMode, TestHandled, Owner, Client, Send, Cancel, WaitForMessage, vars
<1>p. purpose' \in {"frame", "enter", "leave", "wait"} /\ awaited' \in Messages \cup {"none"}
  BY <1>t DEF Next, MasterStep, SlaveStep, AtSyncPoint, ReadMode, Arrive, SyncLast, SignalContinue,
         BarrierWait, BarrierReturn, UpdateTimer, StartFrame, HandleMessage, ClearMessages,
         FreeSync, NextFrame, WaitForFrameSync, EnterLockStepMode, LeaveLockStepMode, ToSyncPoint,
         ClearMode, TestHandled, Owner, Client, Send, Cancel, WaitForMessage, slaveVars, vars
<1>e. enters' \in 0 .. MaxEnters
  <2>1. EnterLockStepMode => enters + 1 \in 0 .. MaxEnters
    BY <1>t, <1>f DEF EnterLockStepMode
  <2> QED
    BY <2>1, <1>t DEF Next, MasterStep, SlaveStep, AtSyncPoint, ReadMode, Arrive, SyncLast,
         SignalContinue, BarrierWait, BarrierReturn, UpdateTimer, StartFrame, HandleMessage,
         ClearMessages, FreeSync, NextFrame, WaitForFrameSync, EnterLockStepMode,
         LeaveLockStepMode, ToSyncPoint, ClearMode, TestHandled, Owner, Client, Send, Cancel,
         WaitForMessage, slaveVars, vars
<1>3. curTime' \in 0 .. (Frames - 1) /\ time' \in [Threads -> 0 .. (Frames - 1)]
  <2>1. (curTime + 1) % Frames \in 0 .. (Frames - 1)
    BY <1>t, <1>f
  <2> QED
    BY <2>1, <1>t DEF Next, MasterStep, SlaveStep, AtSyncPoint, ReadMode, Arrive, SyncLast,
         SignalContinue, BarrierWait, BarrierReturn, UpdateTimer, StartFrame, HandleMessage,
         ClearMessages, FreeSync, NextFrame, WaitForFrameSync, EnterLockStepMode,
         LeaveLockStepMode, ToSyncPoint, ClearMode, TestHandled, Owner, Client, Send, Cancel,
         WaitForMessage, SyncActions, timeVars, vars
<1>4. /\ msgQueue' \in Seq(Messages) /\ msgArray' \in Seq(Messages) /\ msgIdx' \in Nat
      /\ handled' \subseteq Messages /\ sent' \subseteq Messages
  <2>1. \A m \in Messages : Append(msgQueue, m) \in Seq(Messages)
    BY <1>t
  <2>2. \A i \in DOMAIN msgQueue : RemoveAt(msgQueue, i) \in Seq(Messages)
    BY <1>t, ElementsOfSeq, RemoveAtProperties
  <2>3. <<>> \in Seq(Messages)
    OBVIOUS
  <2>3a. CASE SyncActions
    BY <2>3a, <2>3, <1>t DEF SyncActions
  <2>4. CASE HandleMessage
    BY <2>4, <1>t DEF HandleMessage
  <2>5. CASE ClearMessages
    BY <2>5, <2>3, <1>t DEF ClearMessages
  <2>6. ASSUME NEW m \in Messages, Send(m) \/ Cancel(m)
        PROVE  /\ msgQueue' \in Seq(Messages) /\ msgArray' \in Seq(Messages) /\ msgIdx' \in Nat
               /\ handled' \subseteq Messages /\ sent' \subseteq Messages
    BY <2>6, <2>1, <2>2, <1>t DEF Send, Cancel
  <2>7. CASE UNCHANGED messageVars
    BY <2>7, <1>t DEF messageVars
  <2> QED
    BY <2>3a, <2>4, <2>5, <2>6, <2>7, MessageSteps
<1>5. reading' \subseteq {0, 1} /\ writing' \subseteq {0, 1}
  <2>1. OwnerIndex \in {0, 1} /\ ClientIndex \in {0, 1}
    BY <1>t, <1>f DEF OwnerIndex, ClientIndex
  <2> QED
    BY <2>1, <1>t, DataSteps DEF Owner, Client
<1> QED
  BY <1>b, <1>1, <1>2, <1>p, <1>e, <1>3, <1>4, <1>5 DEF TypeOK

-----------------------------------------------------------------------------
(* The next-state relation with the steps that both threads take in front, *)
(* those of one thread after them.                                         *)
LEMMA StepsOfNext ==
    ASSUME [Next]_vars
    PROVE  \/ \E t \in Threads :
                 \/ ReadMode(t) \/ Arrive(t) \/ SyncLast(t) \/ SignalContinue(t)
                 \/ BarrierWait(t) \/ BarrierReturn(t) \/ UpdateTimer(t)
           \/ StartFrame \/ HandleMessage \/ ClearMessages \/ FreeSync
           \/ NextFrame \/ WaitForFrameSync \/ EnterLockStepMode \/ LeaveLockStepMode
           \/ ClearMode \/ TestHandled \/ Owner \/ Client
           \/ \E m \in Messages : Send(m) \/ Cancel(m) \/ WaitForMessage(m)
           \/ UNCHANGED vars
BY DEF Next, MasterStep, SlaveStep, AtSyncPoint, Threads

LEMMA NextBarrierPlaces == IInv /\ [Next]_vars => BarrierPlaces'
<1> SUFFICES ASSUME IInv, [Next]_vars PROVE BarrierPlaces'
  OBVIOUS
<1>t. pc \in [Threads -> {"frame", "read", "arrive", "barrier", "sync", "continue",
                          "freesync", "fswait", "timer", "return", "handle"}]
      /\ BarrierFacts /\ BarrierPlaces
  BY BarrierFactsHold DEF IInv, TypeOK
<1>1. ASSUME NEW t \in Threads, ReadMode(t) \/ BarrierReturn(t) \/ UpdateTimer(t)
      PROVE  BarrierPlaces'
  <2>1. /\ UNCHANGED bpc /\ pc[t] \in {"read", "barrier", "timer"}
        /\ pc[t] = "barrier" => bpc[t] = "out"
        /\ \E p \in {"arrive", "freesync", "fswait", "timer", "return", "handle", "read", "frame"} :
              pc' = [pc EXCEPT ![t] = p]
    BY <1>1 DEF ReadMode, BarrierReturn, UpdateTimer, Goto, barrierVars
  <2> QED
    BY <2>1, <1>t DEF BarrierPlaces, BarrierFacts
<1>2. ASSUME NEW t \in Threads, Arrive(t) PROVE BarrierPlaces'
  <2>1. /\ pc[t] = "arrive"
        /\ \/ bpc' = [bpc EXCEPT ![t] = "last"] /\ pc' = [pc EXCEPT ![t] = "sync"]
           \/ bpc' = [bpc EXCEPT ![t] = "reset"] /\ pc' = [pc EXCEPT ![t] = "barrier"]
    BY <1>2, <1>t DEF Arrive, B!Arrive, Goto, BarrierFacts
  <2> QED
    BY <2>1, <1>t DEF BarrierPlaces, BarrierFacts
<1>3. ASSUME NEW t \in Threads, SyncLast(t) PROVE BarrierPlaces'
  BY <1>3, <1>t DEF BarrierPlaces, BarrierFacts, SyncLast, Goto, barrierVars
<1>4. ASSUME NEW t \in Threads, SignalContinue(t) PROVE BarrierPlaces'
  <2>1. /\ bpc' = [u \in Threads |-> IF u = t \/ bpc[u] = "waiting" THEN "out" ELSE bpc[u]]
        /\ bpc[t] = "last" /\ pc' = [pc EXCEPT ![t] = "timer"]
    BY <1>4 DEF SignalContinue, B!SignalContinue, Goto
  <2>2. \A u \in Threads \ {t} : bpc[u] # "last" /\ pc[u] \notin {"sync", "continue"}
    BY <2>1, <1>t DEF BarrierPlaces, BarrierFacts
  <2> QED
    BY <2>1, <2>2, <1>t DEF BarrierPlaces, BarrierFacts
<1>5. ASSUME NEW t \in Threads, BarrierWait(t) PROVE BarrierPlaces'
  <2>1. /\ pc[t] = "barrier" /\ pc' = pc /\ bpc[t] # "last"
        /\ \E p \in {"prewait", "out", "waiting"} : bpc' = [bpc EXCEPT ![t] = p]
    BY <1>5 DEF BarrierWait, B!ResetEvent, B!PassEvent, B!Sleep, B!TimeOut
  <2> QED
    BY <2>1, <1>t DEF BarrierPlaces, BarrierFacts
<1>6. ASSUME NEW t \in Threads, NEW p \in {"read", "timer", "frame"},
             pc[t] \in {"frame", "freesync", "fswait", "return", "handle"},
             pc' = [pc EXCEPT ![t] = p], UNCHANGED barrierVars
      PROVE  BarrierPlaces'
  BY <1>6, <1>t DEF BarrierPlaces, BarrierFacts, barrierVars
<1>7. CASE StartFrame \/ ClearMessages \/ FreeSync
  BY <1>7, <1>6 DEF StartFrame, ClearMessages, FreeSync, Goto, Threads
<1>8. CASE NextFrame \/ WaitForFrameSync \/ EnterLockStepMode \/ LeaveLockStepMode
           \/ ClearMode \/ TestHandled
           \/ \E m \in Messages : WaitForMessage(m)
  BY <1>8, <1>6 DEF NextFrame, WaitForFrameSync, EnterLockStepMode, LeaveLockStepMode, ToSyncPoint,
         ClearMode, TestHandled, Owner, Client, WaitForMessage, Goto, Threads
<1>9. CASE HandleMessage \/ Owner \/ Client \/ (\E m \in Messages : Send(m) \/ Cancel(m)) \/ UNCHANGED vars
  <2>1. UNCHANGED <<pc, bpc>>
    BY <1>9 DEF HandleMessage, Owner, Client, Send, Cancel, vars, barrierVars
  <2> QED
    BY <2>1, <1>t DEF BarrierPlaces
<1> QED
  BY <1>1, <1>2, <1>3, <1>4, <1>5, <1>7, <1>8, <1>9, StepsOfNext

-----------------------------------------------------------------------------
(* A round that came out short stays short.                                *)
LEMMA ExactBefore ==
    ASSUME IInv, [Next]_vars
    PROVE  (early => early') /\ (Exact' => Exact)
<1>t. /\ pc \in [Threads -> {"frame", "read", "arrive", "barrier", "sync", "continue",
                             "freesync", "fswait", "timer", "return", "handle"}]
      /\ gaveUp \in Nat /\ early \in BOOLEAN
  BY BarrierFactsHold DEF IInv, TypeOK, BarrierFacts
<1>1. CASE \E t \in Threads : SyncLast(t)
  BY <1>1, <1>t DEF SyncLast, Exact, barrierVars
<1>2. CASE \E t \in Threads : SignalContinue(t)
  BY <1>2, <1>t DEF SignalContinue, Goto, Exact
<1>3. ASSUME NEW t \in Threads, BarrierWait(t) PROVE (early => early') /\ (Exact' => Exact)
  <2>1. early' = early /\ pc' = pc /\ (gaveUp' = 0 => gaveUp = 0)
    BY <1>3, <1>t DEF BarrierWait, B!ResetEvent, B!PassEvent, B!Sleep, B!TimeOut
  <2> QED
    BY <2>1 DEF Exact
<1>4. CASE ~(\E t \in Threads : SyncLast(t) \/ SignalContinue(t) \/ BarrierWait(t))
  <2>1. early' = early /\ gaveUp' = gaveUp
    BY <1>4, StepsOfNext DEF ReadMode, Arrive, B!Arrive, BarrierReturn, UpdateTimer, StartFrame,
         HandleMessage, ClearMessages, FreeSync, NextFrame, WaitForFrameSync, EnterLockStepMode,
         LeaveLockStepMode, ToSyncPoint, ClearMode, TestHandled, Owner, Client, Send, Cancel,
         WaitForMessage, vars, barrierVars
  <2>2. \A t \in Threads : pc'[t] = "continue" => pc[t] = "continue"
    <3>1. ASSUME NEW t \in Threads, UpdateTimer(t) PROVE pc'[t] # "continue"
      BY <3>1, <1>t DEF UpdateTimer, Goto
    <3>2. ASSUME NEW t \in Threads, ReadMode(t) PROVE pc'[t] # "continue"
      BY <3>2, <1>t DEF ReadMode, Goto
    <3> QED
      BY <3>1, <3>2, <1>t, <1>4, StepsOfNext DEF ReadMode, Arrive, BarrierReturn, UpdateTimer,
         StartFrame, HandleMessage, ClearMessages, FreeSync, NextFrame, WaitForFrameSync,
         EnterLockStepMode, LeaveLockStepMode, ToSyncPoint, ClearMode, TestHandled, Owner, Client,
         Send, Cancel, WaitForMessage, vars, Goto
  <2> QED
    BY <2>1, <2>2 DEF Exact
<1> QED
  BY <1>1, <1>2, <1>3, <1>4

(* A thread comes into its frame by updating its timer.                    *)
LEMMA FrameSteps ==
    ASSUME IInv, [Next]_vars, NEW t \in Threads, InFrame(t)'
    PROVE  \/ time'[t] = curTime
           \/ /\ InFrame(t) /\ time'[t] = time[t]
              /\ t = Slave /\ lockStepMode' => lockStepMode
<1>t. /\ pc \in [Threads -> {"frame", "read", "arrive", "barrier", "sync", "continue",
                             "freesync", "fswait", "timer", "return", "handle"}]
      /\ time \in [Threads -> 0 .. (Frames - 1)] /\ lockStepMode \in BOOLEAN
  BY DEF IInv, TypeOK
<1>1. ASSUME NEW u \in Threads, UpdateTimer(u)
      PROVE  /\ time' = [time EXCEPT ![u] = curTime]
             /\ u # t => pc'[t] = pc[t] /\ (lockStepMode' => lockStepMode)
  BY <1>1, <1>t DEF UpdateTimer, Goto
<1>2. CASE ~(\E u \in Threads : UpdateTimer(u))
  <2>1. time' = time
    BY <1>2, StepsOfNext DEF ReadMode, Arrive, SyncLast, SyncActions, SignalContinue, BarrierWait,
         BarrierReturn, StartFrame, HandleMessage, ClearMessages, FreeSync, NextFrame,
         WaitForFrameSync, EnterLockStepMode, LeaveLockStepMode, ToSyncPoint, ClearMode,
         TestHandled, Owner, Client, Send, Cancel, WaitForMessage, vars, timeVars
  <2>a. pc'[t] \in {"return", "frame", "handle"}
    BY DEF InFrame
  <2>2. ASSUME NEW u \in Threads, ReadMode(u)
        PROVE  pc[t] \in {"return", "frame", "handle"} /\ (lockStepMode' => lockStepMode)
    <3>1. /\ lockStepMode' = lockStepMode
          /\ \E p \in {"arrive", "freesync", "fswait"} : pc' = [pc EXCEPT ![u] = p]
      BY <2>2 DEF ReadMode, Goto
    <3> QED
      BY <3>1, <2>a, <1>t
  <2>4. ASSUME NEW u \in Threads,
               Arrive(u) \/ SyncLast(u) \/ SignalContinue(u) \/ BarrierWait(u) \/ BarrierReturn(u)
        PROVE  pc[t] \in {"return", "frame", "handle"} /\ (lockStepMode' => lockStepMode)
    BY <2>4, <2>a, <1>t DEF Arrive, SyncLast, SignalContinue, BarrierWait, BarrierReturn, Goto
  <2>5. ASSUME \/ StartFrame \/ HandleMessage \/ ClearMessages \/ FreeSync
               \/ NextFrame \/ WaitForFrameSync \/ LeaveLockStepMode
               \/ ClearMode \/ TestHandled \/ Owner \/ Client
               \/ \E m \in Messages : Send(m) \/ Cancel(m) \/ WaitForMessage(m)
               \/ UNCHANGED vars
        PROVE  pc[t] \in {"return", "frame", "handle"} /\ (lockStepMode' => lockStepMode)
    BY <2>5, <2>a, <1>t, FrameSyncAssumption DEF StartFrame, HandleMessage, ClearMessages,
         FreeSync, NextFrame, WaitForFrameSync, LeaveLockStepMode, ToSyncPoint, ClearMode,
         TestHandled, Owner, Client, Send, Cancel, WaitForMessage, vars, Goto
  <2>6. ASSUME EnterLockStepMode
        PROVE  pc[t] \in {"return", "frame", "handle"} /\ t # Slave
    BY <2>6, <2>a, <1>t DEF EnterLockStepMode, ToSyncPoint, Goto
  <2>3. pc[t] \in {"return", "frame", "handle"} /\ (t = Slave /\ lockStepMode' => lockStepMode)
    BY <1>2, <2>a, <2>2, <2>4, <2>5, <2>6, StepsOfNext
  <2> QED
    BY <2>1, <2>3 DEF InFrame
<1> QED
  BY <1>1, <1>2, <1>t DEF InFrame

LEMMA NextTimes == IInv /\ [Next]_vars => MasterTime' /\ SlaveTime'
<1> SUFFICES ASSUME IInv, [Next]_vars PROVE MasterTime' /\ SlaveTime'
  OBVIOUS
<1>t. /\ pc \in [Threads -> {"frame", "read", "arrive", "barrier", "sync", "continue",
                             "freesync", "fswait", "timer", "return", "handle"}]
      /\ early \in BOOLEAN /\ gaveUp \in Nat
      /\ Master \in Threads /\ Slave \in Threads /\ Master # Slave
  BY BarrierFactsHold, FrameSyncAssumption DEF IInv, TypeOK, BarrierFacts, Threads
(* The time advances: who is not doing the sync actions is in the barrier. *)
<1>1. ASSUME NEW t \in Threads, SyncLast(t)
      PROVE  MasterTime' /\ SlaveTime'
  <2>1. pc[t] = "sync" /\ pc' = [pc EXCEPT ![t] = "continue"]
        /\ early' = (early \/ gaveUp # 0)
    BY <1>1 DEF SyncLast, Goto
  <2>2. ASSUME ~early', NEW u \in Threads PROVE ~InFrame(u)'
    <3>1. CASE u = t
      BY <3>1, <2>1, <1>t DEF InFrame
    <3>2. CASE u # t
      <4>1. pc[u] = "barrier"
        BY <3>2, <2>1, <2>2, OtherWaits DEF WaitsForRound
      <4> QED
        BY <4>1, <3>2, <2>1, <1>t DEF InFrame
    <3> QED
      BY <3>1, <3>2
  <2> QED
    BY <2>2, <1>t DEF MasterTime, SlaveTime, Exact
<1>2. CASE FreeSync
  <2>1. pc[Master] = "freesync" /\ pc' = [pc EXCEPT ![Master] = "timer"]
        /\ lockStepMode' = lockStepMode
    BY <1>2 DEF FreeSync, Goto
  <2>2. MasterTime'
    BY <2>1, <1>t DEF MasterTime, InFrame
  <2>3. ASSUME Exact', lockStepMode' PROVE ~InFrame(Slave)'
    <3>1. pc[Slave] \in {"read", "arrive", "barrier"}
      BY <2>1, <2>3, ExactBefore DEF IInv, NoFreeSync, WaitsForRound
    <3> QED
      BY <3>1, <2>1, <1>t DEF InFrame
  <2> QED
    BY <2>2, <2>3 DEF SlaveTime
(* It does not: a thread in its frame has had it, or has just taken it.    *)
<1>3. CASE curTime' = curTime
  <2>1. ASSUME ~early', InFrame(Master)' PROVE time'[Master] = curTime'
    BY <2>1, <1>3, <1>t, FrameSteps, ExactBefore DEF IInv, MasterTime
  <2>2. ASSUME Exact', lockStepMode', InFrame(Slave)' PROVE time'[Slave] = curTime'
    BY <2>2, <1>3, <1>t, FrameSteps, ExactBefore DEF IInv, SlaveTime
  <2> QED
    BY <2>1, <2>2 DEF MasterTime, SlaveTime
<1>4. (\E t \in Threads : SyncLast(t)) \/ FreeSync \/ curTime' = curTime
  BY MessageSteps DEF HandleMessage, ClearMessages, Send, Cancel, timeVars
<1> QED
  BY <1>1, <1>2, <1>3, <1>4

LEMMA NextNoFreeSync == IInv /\ [Next]_vars => NoFreeSync'
<1> SUFFICES ASSUME IInv, [Next]_vars, Exact', lockStepMode', pc'[Master] = "freesync"
             PROVE  pc'[Slave] \in {"read", "arrive"} \/ WaitsForRound(Slave)'
  BY DEF NoFreeSync
<1>t. /\ pc \in [Threads -> {"frame", "read", "arrive", "barrier", "sync", "continue",
                             "freesync", "fswait", "timer", "return", "handle"}]
      /\ lockStepMode \in BOOLEAN
      /\ Master \in Threads /\ Slave \in Threads /\ Master # Slave
      /\ BarrierFacts /\ BarrierPlaces /\ NoFreeSync
  BY BarrierFactsHold, FrameSyncAssumption DEF IInv, TypeOK, Threads
<1>n. BarrierFacts' /\ BarrierPlaces'
  BY NextBP, BarrierFactsAfter, NextBarrierPlaces
<1>e. Exact
  BY ExactBefore
<1>1. CASE EnterLockStepMode
  BY <1>1, <1>t DEF EnterLockStepMode, ToSyncPoint, Goto
<1>2. CASE ReadMode(Master)
  BY <1>2, <1>t DEF ReadMode, Goto
<1>3. CASE ReadMode(Slave)
  BY <1>3, <1>t DEF ReadMode, Goto
(* The main thread cannot be the last one: the other has not arrived.      *)
<1>4. CASE Arrive(Slave)
  <2>1. /\ pc[Slave] = "arrive" /\ pc'[Slave] = IF bpc'[Slave] = "last" THEN "sync" ELSE "barrier"
        /\ pc'[Master] = pc[Master]
        /\ bpc[Slave] = "out" /\ bpc'[Slave] \in {"last", "reset"} /\ released' = released
    BY <1>4, <1>t DEF Arrive, B!Arrive, Goto, BarrierFacts
  <2>2. bpc'[Master] = "out"
    BY <1>n, <1>t DEF BarrierFacts, BarrierPlaces
  <2>3. gaveUp' = 0
    <3>1. \A t \in Threads : pc'[t] # "continue"
      BY <2>1 DEF Threads
    <3> QED
      BY <3>1 DEF Exact
  <2>4. bpc'[Slave] # "last"
    BY <2>2, <2>3, <1>n, <1>t DEF BarrierFacts
  <2>5. Slave \notin released
    BY <2>1, <1>t DEF BarrierFacts
  <2> QED
    BY <2>1, <2>4, <2>5 DEF WaitsForRound
(* Nor does it leave the barrier: it could only do so by timing out.       *)
<1>5. CASE BarrierWait(Slave)
  <2>1. pc[Slave] = "barrier" /\ pc' = pc /\ pc'[Slave] = "barrier"
    BY <1>5 DEF BarrierWait
  <2>2. WaitsForRound(Slave)
    BY <2>1, <1>e, <1>5, <1>t DEF NoFreeSync, BarrierWait
  <2>3. gaveUp' = 0
    BY <2>1 DEF Exact, Threads
  <2>4. ~B!PassEvent(Slave)
    BY <2>2, <1>t DEF B!PassEvent, BarrierFacts, WaitsForRound
  <2>5. ~B!TimeOut(Slave)
    BY <2>2, <2>3, <1>t DEF B!TimeOut, BarrierFacts, WaitsForRound
  <2>6. released' = released /\ bpc'[Slave] \in {"prewait", "waiting"}
    BY <1>5, <2>4, <2>5, <1>t DEF BarrierWait, B!ResetEvent, B!Sleep, BarrierFacts
  <2> QED
    BY <2>1, <2>2, <2>6 DEF WaitsForRound
(* All other steps start elsewhere.                                        *)
<1>6. ASSUME ~EnterLockStepMode, ~ReadMode(Master)
      PROVE  lockStepMode /\ pc[Master] = "freesync"
  <2>1. ASSUME NEW t \in Threads, ReadMode(t) PROVE lockStepMode /\ pc[Master] = "freesync"
    BY <2>1, <1>6, <1>t DEF ReadMode, Goto, Threads
  <2>2. ASSUME NEW t \in Threads, UpdateTimer(t) PROVE lockStepMode /\ pc[Master] = "freesync"
    BY <2>2, <1>t DEF UpdateTimer, Goto
  <2>3. ASSUME NEW t \in Threads,
               Arrive(t) \/ SyncLast(t) \/ SignalContinue(t) \/ BarrierWait(t) \/ BarrierReturn(t)
        PROVE  lockStepMode /\ pc[Master] = "freesync"
    BY <2>3, <1>t DEF Arrive, SyncLast, SignalContinue, BarrierWait, BarrierReturn, Goto
  <2>4. ASSUME \/ StartFrame \/ HandleMessage \/ ClearMessages \/ FreeSync
               \/ NextFrame \/ WaitForFrameSync \/ LeaveLockStepMode
               \/ ClearMode \/ TestHandled \/ Owner \/ Client
               \/ \E m \in Messages : Send(m) \/ Cancel(m) \/ WaitForMessage(m)
               \/ UNCHANGED vars
        PROVE  lockStepMode /\ pc[Master] = "freesync"
    BY <2>4, <1>t DEF StartFrame, HandleMessage, ClearMessages, FreeSync, NextFrame,
         WaitForFrameSync, LeaveLockStepMode, ToSyncPoint, ClearMode, TestHandled, Owner, Client,
         Send, Cancel, WaitForMessage, vars, Goto
  <2> QED
    BY <1>6, <2>1, <2>2, <2>3, <2>4, StepsOfNext
<1>7. CASE ~EnterLockStepMode /\ ~ReadMode(Master) /\ ~ReadMode(Slave) /\ ~Arrive(Slave)
           /\ ~BarrierWait(Slave)
  <2>1. /\ lockStepMode /\ pc[Master] = "freesync"
        /\ pc[Slave] \in {"read", "arrive"} \/ WaitsForRound(Slave)
    BY <1>6, <1>7, <1>e, <1>t DEF NoFreeSync
  <2>2. ~BarrierReturn(Slave)
    BY <2>1, <1>t DEF BarrierReturn, Goto, WaitsForRound
  <2>3. \A t \in Threads : ~(SyncLast(t) \/ SignalContinue(t) \/ UpdateTimer(t))
    BY <2>1 DEF SyncLast, SignalContinue, UpdateTimer, Goto, WaitsForRound, Threads
  <2>4. ~Arrive(Master) /\ ~BarrierWait(Master) /\ ~BarrierReturn(Master)
    BY <2>1 DEF Arrive, BarrierWait, BarrierReturn, Goto
  <2>5. ~(StartFrame \/ HandleMessage \/ ClearMessages \/ NextFrame \/ WaitForFrameSync
          \/ LeaveLockStepMode \/ ClearMode \/ TestHandled \/ Owner \/ Client \/ \E m \in Messages : Send(m) \/ Cancel(m) \/ WaitForMessage(m))
    BY <2>1, <1>t DEF StartFrame, HandleMessage, ClearMessages, NextFrame, WaitForFrameSync,
         LeaveLockStepMode, ToSyncPoint, ClearMode, TestHandled, Owner, Client, Send, Cancel,
         WaitForMessage, Goto, WaitsForRound
  <2>6. ~FreeSync
    BY <1>t DEF FreeSync, Goto
  <2>7. UNCHANGED vars
    BY <1>7, <2>2, <2>3, <2>4, <2>5, <2>6, StepsOfNext DEF Threads
  <2> QED
    BY <2>1, <2>7 DEF vars, barrierVars, WaitsForRound
<1> QED
  BY <1>1, <1>2, <1>3, <1>4, <1>5, <1>7

-----------------------------------------------------------------------------
(* The messages.                                                           *)

(* The render thread comes back in front of the flip by DoWork() only.     *)
LEMMA BeforeFlipSteps ==
    ASSUME IInv, [Next]_vars, ~ClearMessages, BeforeFlip'
    PROVE  BeforeFlip
<1>t. /\ pc \in [Threads -> {"frame", "read", "arrive", "barrier", "sync", "continue",
                             "freesync", "fswait", "timer", "return", "handle"}]
      /\ Master \in Threads /\ Slave \in Threads /\ Master # Slave
      /\ BarrierFacts /\ BarrierPlaces
  BY BarrierFactsHold, FrameSyncAssumption DEF IInv, TypeOK, Threads
<1>1. ASSUME NEW t \in Threads, ReadMode(t) \/ UpdateTimer(t) PROVE BeforeFlip
  <2>1. /\ UNCHANGED barrierVars /\ pc[t] \in {"read", "timer"}
        /\ \E p \in {"arrive", "freesync", "fswait", "return", "handle", "read", "frame"} :
              pc' = [pc EXCEPT ![t] = p]
        /\ t = Master => pc'[Master] = "handle" \/ pc[Master] = "read"
    BY <1>1, <1>t DEF ReadMode, UpdateTimer, Goto
  <2> QED
    BY <2>1, <1>t DEF BeforeFlip, WaitsForRound, barrierVars
<1>2. ASSUME NEW t \in Threads, Arrive(t) PROVE BeforeFlip
  <2>1. CASE t = Master
    BY <2>1, <1>2 DEF Arrive, Goto, BeforeFlip
  <2>2. CASE t = Slave
    <3>1. /\ pc'[Master] = pc[Master] /\ bpc'[Master] = bpc[Master] /\ released' = released
          /\ pc[Slave] # "continue"
      BY <2>2, <1>2, <1>t DEF Arrive, B!Arrive, Goto, BarrierFacts
    <3> QED
      BY <3>1 DEF BeforeFlip, WaitsForRound
  <2> QED
    BY <2>1, <2>2 DEF Threads
<1>3. ASSUME NEW t \in Threads, SyncLast(t) PROVE BeforeFlip
  BY <1>3, <1>t DEF SyncLast, Goto, BeforeFlip, WaitsForRound, barrierVars, Threads
<1>4. ASSUME NEW t \in Threads, SignalContinue(t) PROVE BeforeFlip
  <2>1. /\ bpc' = [u \in Threads |-> IF u = t \/ bpc[u] = "waiting" THEN "out" ELSE bpc[u]]
        /\ released' = {u \in Threads \ {t} : bpc[u] = "prewait"}
        /\ bpc[t] = "last" /\ pc' = [pc EXCEPT ![t] = "timer"]
    BY <1>4 DEF SignalContinue, B!SignalContinue, Goto
  <2>2. CASE t = Master
    BY <2>1, <2>2, <1>t DEF BeforeFlip, WaitsForRound
  <2>3. CASE t = Slave
    <3>1. bpc[Master] \in {"out", "prewait", "waiting"}
      BY <2>1, <2>3, <1>t DEF BarrierFacts
    <3>2. ~WaitsForRound(Master)'
      BY <2>1, <2>3, <3>1, <1>t DEF WaitsForRound
    <3> QED
      BY <2>1, <2>3, <3>2, <1>t DEF BeforeFlip
  <2> QED
    BY <2>2, <2>3 DEF Threads
<1>5. ASSUME NEW t \in Threads, BarrierWait(t) PROVE BeforeFlip
  <2>1. /\ pc' = pc /\ bpc[t] # "out" /\ released' \in {released, released \ {t}}
        /\ \E p \in {"prewait", "out", "waiting"} : bpc' = [bpc EXCEPT ![t] = p]
        /\ released' = released \/ bpc'[t] = "out"
    BY <1>5, <1>t DEF BarrierWait, B!ResetEvent, B!PassEvent, B!Sleep, B!TimeOut, BarrierFacts
  <2>2. WaitsForRound(Master)' => WaitsForRound(Master)
    BY <2>1, <1>t DEF WaitsForRound, BarrierFacts
  <2> QED
    BY <2>1, <2>2 DEF BeforeFlip
<1>6. ASSUME NEW t \in Threads, BarrierReturn(t) PROVE BeforeFlip
  BY <1>6, <1>t DEF BarrierReturn, Goto, BeforeFlip, WaitsForRound, barrierVars, Threads
<1>7. ASSUME NEW p \in {"read", "timer", "frame"}, pc[Slave] # "continue",
             pc' = [pc EXCEPT ![Slave] = p], UNCHANGED barrierVars
      PROVE  BeforeFlip
  BY <1>7, <1>t DEF BeforeFlip, WaitsForRound, barrierVars
<1>8. CASE NextFrame \/ WaitForFrameSync \/ EnterLockStepMode \/ LeaveLockStepMode
           \/ ClearMode \/ TestHandled
           \/ \E m \in Messages : WaitForMessage(m)
  BY <1>8, <1>7 DEF NextFrame, WaitForFrameSync, EnterLockStepMode, LeaveLockStepMode, ToSyncPoint,
         ClearMode, TestHandled, Owner, Client, WaitForMessage, Goto
<1>9. CASE StartFrame \/ FreeSync
  BY <1>9, <1>t DEF StartFrame, FreeSync, Goto, BeforeFlip
<1>10. CASE HandleMessage \/ Owner \/ Client \/ (\E m \in Messages : Send(m) \/ Cancel(m)) \/ UNCHANGED vars
  <2>1. UNCHANGED <<pc, bpc, released>>
    BY <1>10 DEF HandleMessage, Owner, Client, Send, Cancel, vars, barrierVars
  <2> QED
    BY <2>1 DEF BeforeFlip, WaitsForRound
<1> QED
  BY <1>1, <1>2, <1>3, <1>4, <1>5, <1>6, <1>8, <1>9, <1>10, StepsOfNext

(* The flip finds the message array empty, and the render thread goes to   *)
(* work on the new messages before the next one.                           *)
LEMMA FlipWhenEmpty ==
    ASSUME IInv, FreeSync \/ \E t \in Threads : SyncLast(t), ~early'
    PROVE  msgArray = <<>> /\ msgIdx = 0 /\ ~BeforeFlip'
<1>t. /\ pc \in [Threads -> {"frame", "read", "arrive", "barrier", "sync", "continue",
                             "freesync", "fswait", "timer", "return", "handle"}]
      /\ Master \in Threads /\ Slave \in Threads /\ Master # Slave
      /\ early \in BOOLEAN
  BY BarrierFactsHold, FrameSyncAssumption DEF IInv, TypeOK, Threads
<1>1. CASE FreeSync
  BY <1>1, <1>t DEF FreeSync, Goto, IInv, ArrayEmpty, BeforeFlip, WaitsForRound
<1>2. CASE SyncLast(Master)
  BY <1>2, <1>t DEF SyncLast, Goto, IInv, ArrayEmpty, BeforeFlip, WaitsForRound
<1>3. CASE SyncLast(Slave)
  <2>1. /\ pc[Slave] = "sync" /\ pc' = [pc EXCEPT ![Slave] = "continue"]
        /\ ~early /\ gaveUp = 0
    BY <1>3, <1>t DEF SyncLast, Goto
  <2>2. WaitsForRound(Master)
    BY <2>1, <1>t, OtherWaits
  <2>3. pc'[Master] = "barrier" /\ pc'[Slave] = "continue"
    BY <2>1, <2>2, <1>t DEF WaitsForRound
  <2> QED
    BY <2>1, <2>2, <2>3 DEF IInv, ArrayEmpty, BeforeFlip
<1> QED
  BY <1>1, <1>2, <1>3 DEF Threads

(* What of the frame's messages is still to be handled.                    *)
ToHandle == {msgArray[i] : i \in (msgIdx + 1) .. Len(msgArray)}

LEMMA NextMessages == IInv /\ [Next]_vars => ArrayEmpty' /\ SentOnce' /\ NoMessageLost'
<1> SUFFICES ASSUME IInv, [Next]_vars PROVE ArrayEmpty' /\ SentOnce' /\ NoMessageLost'
  OBVIOUS
<1>t. /\ msgQueue \in Seq(Messages) /\ msgArray \in Seq(Messages) /\ msgIdx \in Nat
      /\ early \in BOOLEAN /\ Len(msgArray) \in Nat
      /\ ArrayEmpty /\ SentOnce
      /\ ~early => sent = Range(msgQueue) \cup ToHandle \cup handled
  BY DEF IInv, TypeOK, NoMessageLost, ToHandle
<1>e. early => early'
  BY ExactBefore
<1>r. /\ Range(<<>>) = {} /\ IsInjective(<<>>)
      /\ Range(msgArray) = {msgArray[i] : i \in 1 .. Len(msgArray)}
  BY <1>t, ElementsOfSeq DEF Range, IsInjective
<1>1. CASE SyncActions /\ (FreeSync \/ \E t \in Threads : SyncLast(t))
  <2>1. /\ msgArray' = msgQueue /\ msgQueue' = <<>>
        /\ UNCHANGED <<msgIdx, handled, sent>>
    BY <1>1 DEF SyncActions
  <2>2. ~early' => msgArray = <<>> /\ msgIdx = 0 /\ ~BeforeFlip'
    BY <1>1, FlipWhenEmpty
  <2>3. ArrayEmpty'
    BY <2>2 DEF ArrayEmpty
  <2>4. SentOnce'
    BY <2>1, <1>t, <1>r DEF SentOnce
  <2>5. ASSUME ~early'
        PROVE  sent' = Range(msgQueue') \cup
                       {msgArray'[i] : i \in (msgIdx' + 1) .. Len(msgArray')} \cup handled'
    <3>1. ToHandle = {}
      BY <2>2, <2>5 DEF ToHandle
    <3>2. sent = Range(msgQueue) \cup handled
      BY <3>1, <2>5, <1>t, <1>e
    <3>3. Range(msgQueue) = {msgQueue[i] : i \in 1 .. Len(msgQueue)} /\ msgIdx' + 1 = 1
      BY <2>1, <2>2, <2>5, <1>t, ElementsOfSeq
    <3>4. {msgArray'[i] : i \in (msgIdx' + 1) .. Len(msgArray')} = Range(msgQueue)
      BY <3>3, <2>1
    <3> QED
      BY <3>2, <3>4, <2>1, <1>r
  <2> QED
    BY <2>3, <2>4, <2>5 DEF NoMessageLost
<1>2. CASE HandleMessage
  <2>1. /\ pc[Master] = "handle" /\ pc' = pc /\ msgIdx < Len(msgArray)
        /\ handled' = handled \cup {msgArray[msgIdx + 1]} /\ msgIdx' = msgIdx + 1
        /\ UNCHANGED <<msgQueue, msgArray, sent, early>>
    BY <1>2 DEF HandleMessage
  <2>2. ArrayEmpty'
    BY <2>1 DEF ArrayEmpty, BeforeFlip, WaitsForRound
  <2>3. msgIdx + 1 \in 1 .. Len(msgArray)
    BY <2>1, <1>t
  <2>4. SentOnce'
    BY <2>1, <2>3, <1>t, <1>r DEF SentOnce
  <2>5. ToHandle = {msgArray[msgIdx + 1]} \cup {msgArray[i] : i \in (msgIdx + 1 + 1) .. Len(msgArray)}
    <3>1. \A i : i \in (msgIdx + 1) .. Len(msgArray)
                 <=> i = msgIdx + 1 \/ i \in (msgIdx + 1 + 1) .. Len(msgArray)
      BY <2>3, <1>t
    <3> QED
      BY <3>1 DEF ToHandle
  <2>6. NoMessageLost'
    BY <2>1, <2>5, <1>t DEF NoMessageLost
  <2> QED
    BY <2>2, <2>4, <2>6
<1>3. CASE ClearMessages
  <2>1. /\ msgIdx >= Len(msgArray) /\ msgArray' = <<>> /\ msgIdx' = 0
        /\ UNCHANGED <<msgQueue, handled, sent, early>>
    BY <1>3 DEF ClearMessages
  <2>2. ArrayEmpty'
    BY <2>1 DEF ArrayEmpty
  <2>3. SentOnce'
    BY <2>1, <1>t, <1>r DEF SentOnce
  <2>4. ToHandle = {}
    BY <2>1, <1>t DEF ToHandle
  <2>5. {msgArray'[i] : i \in (msgIdx' + 1) .. Len(msgArray')} = {}
    BY <2>1
  <2>6. NoMessageLost'
    BY <2>1, <2>4, <2>5, <1>t DEF NoMessageLost
  <2> QED
    BY <2>2, <2>3, <2>6
<1>4. ASSUME NEW m \in Messages, Send(m) \/ Cancel(m)
      PROVE  ArrayEmpty' /\ SentOnce' /\ NoMessageLost'
  <2>1. UNCHANGED <<msgArray, msgIdx, handled, early, pc, barrierVars>>
    BY <1>4 DEF Send, Cancel
  <2>2. ArrayEmpty'
    BY <2>1, <1>t DEF ArrayEmpty, BeforeFlip, WaitsForRound, barrierVars
  <2>3. CASE Send(m)
    <3>1. m \notin sent /\ sent' = sent \cup {m} /\ msgQueue' = Append(msgQueue, m)
      BY <2>3 DEF Send
    <3>2. m \notin Range(msgQueue) /\ m \notin Range(msgArray) \cup handled
      BY <3>1, <1>t DEF SentOnce
    <3>3. Range(msgQueue') = Range(msgQueue) \cup {m} /\ IsInjective(msgQueue')
      BY <3>1, <3>2, <1>t, AppendElements DEF SentOnce
    <3>4. SentOnce'
      BY <2>1, <3>1, <3>2, <3>3, <1>t DEF SentOnce
    <3>5. NoMessageLost'
      BY <2>1, <3>1, <3>3, <1>t DEF NoMessageLost, ToHandle
    <3> QED
      BY <2>2, <3>4, <3>5
  <2>4. CASE Cancel(m)
    <3>1. PICK i \in 1 .. Len(msgQueue) : msgQueue[i] = m /\ msgQueue' = RemoveAt(msgQueue, i)
      BY <2>4, <1>t DEF Cancel
    <3>2. sent' = sent \ {m} /\ m \in Range(msgQueue)
      BY <2>4, <3>1, <1>t, ElementsOfSeq DEF Cancel
    <3>3. Range(msgQueue') = Range(msgQueue) \ {m} /\ IsInjective(msgQueue')
      BY <3>1, <1>t, RemoveElements DEF SentOnce
    <3>4. SentOnce'
      BY <2>1, <3>2, <3>3, <1>t DEF SentOnce
    <3>5. m \notin ToHandle /\ m \notin handled
      <4>1. ToHandle \subseteq Range(msgArray)
        <5>1. \A j \in (msgIdx + 1) .. Len(msgArray) : j \in 1 .. Len(msgArray)
          BY <1>t
        <5> QED
          BY <5>1, <1>r DEF ToHandle
      <4> QED
        BY <4>1, <3>2, <1>t DEF SentOnce
    <3>6. NoMessageLost'
      BY <2>1, <3>2, <3>3, <3>5, <1>t DEF NoMessageLost, ToHandle
    <3> QED
      BY <2>2, <3>4, <3>6
  <2> QED
    BY <2>3, <2>4, <1>4
<1>5. CASE UNCHANGED messageVars /\ ~ClearMessages
  <2>1. UNCHANGED <<msgQueue, msgArray, msgIdx, handled, sent>>
    BY <1>5 DEF messageVars
  <2>2. ArrayEmpty'
    BY <2>1, <1>5, <1>t, <1>e, BeforeFlipSteps DEF ArrayEmpty
  <2>3. SentOnce'
    BY <2>1, <1>t DEF SentOnce
  <2>4. NoMessageLost'
    BY <2>1, <1>t, <1>e DEF NoMessageLost, ToHandle
  <2> QED
    BY <2>2, <2>3, <2>4
<1> QED
  BY <1>1, <1>2, <1>3, <1>4, <1>5, MessageSteps

-----------------------------------------------------------------------------
(* The references to shared data.                                          *)

(* A step other than the calls and the sync actions leaves the references  *)
(* of a thread alone or drops them, as it does on its way out of the frame.*)
LEMMA OtherDataSteps ==
    ASSUME IInv, [Next]_vars, ~Owner, ~Client, ~FreeSync, ~\E t \in Threads : SyncLast(t)
    PROVE  /\ curTime' = curTime
           /\ \/ reading' = {}
              \/ /\ reading' = reading /\ (lockStepMode' => lockStepMode)
                 /\ pc[Slave] = "frame" => pc'[Slave] = "frame"
           /\ \/ writing' = {}
              \/ /\ writing' = writing
                 /\ pc[Master] = "frame" => pc'[Master] = "frame"
<1>t. /\ pc \in [Threads -> {"frame", "read", "arrive", "barrier", "sync", "continue",
                             "freesync", "fswait", "timer", "return", "handle"}]
      /\ Master \in Threads /\ Slave \in Threads /\ Master # Slave
  BY FrameSyncAssumption DEF IInv, TypeOK, Threads
<1>1. curTime' = curTime
  BY MessageSteps DEF HandleMessage, ClearMessages, Send, Cancel, timeVars
<1>2. ASSUME NEW t \in Threads, NEW p, pc[t] # "frame", pc' = [pc EXCEPT ![t] = p]
      PROVE  \A u \in Threads : pc[u] = "frame" => pc'[u] = "frame"
  BY <1>2, <1>t
<1>3. ASSUME NEW t \in Threads,
             \/ ReadMode(t) \/ Arrive(t) \/ SignalContinue(t) \/ BarrierReturn(t)
             \/ UpdateTimer(t)
      PROVE  /\ UNCHANGED dataVars /\ lockStepMode' = lockStepMode
             /\ \A u \in Threads : pc[u] = "frame" => pc'[u] = "frame"
  <2>1. /\ UNCHANGED dataVars /\ lockStepMode' = lockStepMode
        /\ pc[t] \in {"read", "arrive", "continue", "barrier", "timer"}
        /\ pc' = [pc EXCEPT ![t] = pc'[t]]
    BY <1>3, <1>t DEF ReadMode, Arrive, SignalContinue, BarrierReturn, UpdateTimer, Goto
  <2> QED
    BY <2>1, <1>2
<1>4. ASSUME ClearMode \/ TestHandled \/ ClearMessages \/ WaitForFrameSync
      PROVE  /\ UNCHANGED dataVars /\ (lockStepMode' => lockStepMode)
             /\ \A u \in Threads : pc[u] = "frame" => pc'[u] = "frame"
  BY <1>4, <1>t DEF ClearMode, TestHandled, ClearMessages, WaitForFrameSync, Goto
<1>5. ASSUME \/ HandleMessage \/ UNCHANGED vars
             \/ \E t \in Threads : BarrierWait(t)
             \/ \E m \in Messages : Send(m) \/ Cancel(m)
      PROVE  UNCHANGED <<dataVars, lockStepMode, pc>>
  BY <1>5 DEF HandleMessage, BarrierWait, Send, Cancel, vars
<1>6. ASSUME StartFrame PROVE /\ writing' = {} /\ reading' = reading /\ lockStepMode' = lockStepMode
                              /\ pc'[Slave] = pc[Slave]
  BY <1>6, <1>t DEF StartFrame, Goto
<1>7. ASSUME \/ NextFrame \/ EnterLockStepMode \/ LeaveLockStepMode
             \/ \E m \in Messages : WaitForMessage(m)
      PROVE  reading' = {} /\ writing' = writing /\ pc'[Master] = pc[Master]
  BY <1>7, <1>t DEF NextFrame, EnterLockStepMode, LeaveLockStepMode, WaitForMessage, ToSyncPoint, Goto
<1> QED
  BY <1>1, <1>3, <1>4, <1>5, <1>6, <1>7, <1>t, StepsOfNext DEF dataVars

(* The frame count only changes when neither thread is in its frame, or    *)
(* when nothing is claimed of the references.                              *)
LEMMA NextReferences == IInv /\ [Next]_vars => Reading' /\ Writing'
<1> SUFFICES ASSUME IInv, [Next]_vars PROVE Reading' /\ Writing'
  OBVIOUS
<1>t. /\ pc \in [Threads -> {"frame", "read", "arrive", "barrier", "sync", "continue",
                             "freesync", "fswait", "timer", "return", "handle"}]
      /\ Master \in Threads /\ Slave \in Threads /\ Master # Slave
      /\ Reading /\ Writing
  BY FrameSyncAssumption DEF IInv, TypeOK, Threads
<1>e. (early => early') /\ (Exact' => Exact)
  BY ExactBefore
<1>1. CASE Owner
  <2>1. /\ pc[Slave] = "frame" /\ reading' = reading \cup {OwnerIndex}
        /\ UNCHANGED <<pc, curTime, lockStepMode, early, writing>>
    BY <1>1 DEF Owner, timeVars
  <2> QED
    BY <2>1, <1>e, <1>t DEF Reading, Writing, OwnerIndex, ClientIndex
<1>2. CASE Client
  <2>1. /\ pc[Master] = "frame" /\ writing' = writing \cup {ClientIndex}
        /\ UNCHANGED <<pc, curTime, lockStepMode, early, reading>>
    BY <1>2 DEF Client, timeVars
  <2> QED
    BY <2>1, <1>e, <1>t DEF Reading, Writing, OwnerIndex, ClientIndex
<1>3. ASSUME NEW t \in Threads, SyncLast(t) PROVE Reading' /\ Writing'
  <2>1. /\ pc[t] = "sync" /\ pc' = [pc EXCEPT ![t] = "continue"]
        /\ early' = (early \/ gaveUp # 0) /\ UNCHANGED dataVars
    BY <1>3 DEF SyncLast, Goto
  <2>2. ASSUME ~early' PROVE reading = {} /\ writing = {}
    <3>1. \A u \in Threads \ {t} : pc[u] = "barrier"
      BY <2>1, <2>2, OtherWaits DEF WaitsForRound
    <3> QED
      BY <3>1, <2>1, <1>t DEF Reading, Writing
  <2>3. Exact' => ~early'
    BY DEF Exact
  <2>4. \A u \in Threads : pc[u] = "frame" => pc'[u] = "frame"
    BY <2>1, <1>t
  <2> QED
    BY <2>1, <2>2, <2>3, <2>4, <1>t DEF Reading, Writing, dataVars
<1>4. CASE FreeSync
  <2>1. /\ pc[Master] = "freesync" /\ pc' = [pc EXCEPT ![Master] = "timer"]
        /\ UNCHANGED <<lockStepMode, dataVars>>
    BY <1>4 DEF FreeSync, Goto
  <2>2. writing = {}
    BY <2>1, <1>t DEF Writing
  <2>3. ASSUME Exact', lockStepMode' PROVE reading = {}
    <3>1. pc[Slave] \in {"read", "arrive", "barrier"}
      BY <2>1, <2>3, <1>e DEF IInv, NoFreeSync, WaitsForRound
    <3> QED
      BY <3>1, <1>t DEF Reading
  <2> QED
    BY <2>1, <2>2, <2>3, <1>t DEF Reading, Writing, dataVars
<1>5. CASE ~Owner /\ ~Client /\ ~FreeSync /\ ~\E t \in Threads : SyncLast(t)
  BY <1>5, <1>e, <1>t, OtherDataSteps DEF Reading, Writing, OwnerIndex, ClientIndex
<1> QED
  BY <1>1, <1>2, <1>3, <1>4, <1>5

-----------------------------------------------------------------------------
LEMMA NextIInv == IInv /\ [Next]_vars => IInv'
  BY NextTypeOK, NextBP, NextBarrierPlaces, NextTimes, NextNoFreeSync, NextMessages,
     NextReferences DEF IInv

(* The inductive invariant holds in every state the two threads reach.     *)
THEOREM SpecIInv == Spec => []IInv
  BY InitIInv, NextIInv, PTL DEF Spec

(* Every variable of the two frame loops keeps its type.                   *)
THEOREM SpecTypeOK == Spec => []TypeOK
<1>1. IInv => TypeOK
  BY DEF IInv
<1> QED
  BY <1>1, SpecIInv, PTL

(* In lock-step mode both threads have the master time while they work on  *)
(* a frame, and the sync actions wait for both, as long as no wait of the  *)
(* barrier has timed out; however often the mode is switched.              *)
THEOREM SpecLockStep == Spec => []LockStep
<1>1. IInv => LockStep
  <2> SUFFICES ASSUME IInv PROVE SameFrame /\ SyncWhenAllArrived
    BY DEF LockStep
  <2>1. SameFrame
    BY DEF IInv, MasterTime, SlaveTime, Exact, SameFrame
  <2>2. SyncWhenAllArrived
    BY BarrierFactsHold DEF IInv, BarrierPlaces, BarrierFacts, SyncWhenAllArrived
  <2> QED
    BY <2>1, <2>2
<1> QED
  BY <1>1, SpecIInv, PTL

(* In lock-step mode the two threads never have references to the same     *)
(* data object of a FrameSyncSharedData, as long as no wait of the barrier *)
(* has timed out: for any number of frames, of accesses in each and of     *)
(* switches of the mode.                                                   *)
THEOREM SpecDisjointBuffers == Spec => []DisjointBuffers
<1>1. IInv => DisjointBuffers
  <2> SUFFICES ASSUME IInv, ~early, gaveUp = 0, lockStepMode PROVE reading \cap writing = {}
    BY DEF DisjointBuffers
  <2>1. reading \subseteq {OwnerIndex} /\ writing \subseteq {ClientIndex}
    BY DEF IInv, Reading, Writing, Exact
  <2>2. OwnerIndex # ClientIndex
    BY FrameSyncAssumption DEF IInv, TypeOK, OwnerIndex, ClientIndex
  <2> QED
    BY <2>1, <2>2
<1> QED
  BY <1>1, SpecIInv, PTL

(* Every message sent is in the queue, in the frame's array or handled,    *)
(* for every number of messages, unless a round came out early.            *)
THEOREM SpecNoMessageLost == Spec => []NoMessageLost
<1>1. IInv => NoMessageLost
  BY DEF IInv
<1> QED
  BY <1>1, SpecIInv, PTL
=============================================================================
