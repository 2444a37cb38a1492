----------------------------- MODULE FrameSync -----------------------------
(***************************************************************************)
(* FrameSync::FrameSyncHandlerThread: the render thread (Master, it runs   *)
(* DoWork()) and the main thread (Slave, it calls through the interface    *)
(* Graphics::GraphicsInterface) meet at ArriveAtSyncPoint().               *)
(*                                                                         *)
(* In lock-step mode both wait for each other in the thread barrier of     *)
(* module ThreadBarrier; the one that arrives last advances the time and   *)
(* flips the message queue.  Otherwise the render thread does so in every  *)
(* frame and signals an auto-reset event the main thread waits for.        *)
(*                                                                         *)
(* frameCritSect makes SyncUpdateTime() and SyncFlipMessageQueue() one     *)
(* step.  Time is counted in frames, modulo Frames: two clocks are only    *)
(* compared, and they never are more than one frame apart.  The same count *)
(* (frameCount is incremented with the time) selects the data objects of a *)
(* FrameSyncSharedData: of one such object the module follows which of its *)
(* two data objects each thread has a reference to.                        *)
(***************************************************************************)
EXTENDS Naturals, Sequences, FiniteSets, SequencesExt

CONSTANTS
    Master, Slave, NoThread,
    Messages,       \* messages the main thread sends, each once
    Frames,         \* the clock counts frames modulo this
    MaxEnters       \* bound: how often lock-step mode is entered

Threads == {Master, Slave}

ASSUME FrameSyncAssumption ==
    /\ Master # Slave /\ NoThread \notin Threads
    /\ Frames \in Nat /\ Frames >= 4 /\ Frames % 2 = 0
    /\ MaxEnters \in Nat

VARIABLES
    outstandingThreads, event, locker, bpc, released, gaveUp,  \* of ThreadBarrier
    lockStepMode,
    frameSyncEvent,
    msgQueue,       \* messages sent and not flipped yet
    msgArray,       \* messages of the frame the render thread works on
    msgIdx,         \* how many of them the render thread has handled
    handled,        \* messages whose handled flag is set
    curTime,        \* the master time
    time,           \* each thread's FrameSyncTimer
    reading,        \* the data objects the main thread has references to
    writing,        \* the data objects the render thread has references to
    pc,             \* what each thread does next
    purpose,        \* why the main thread arrives at the sync point
    awaited,        \* the message the main thread waits for
    sent,           \* history: messages sent
    enters,         \* how often lock-step mode was entered
    early           \* history: a round has been completed without all threads

barrierVars == <<outstandingThreads, event, locker, bpc, released, gaveUp>>
messageVars == <<msgQueue, msgArray, msgIdx, handled, sent>>
timeVars == <<curTime, time>>
slaveVars == <<purpose, awaited, enters>>
dataVars == <<reading, writing>>
vars == <<barrierVars, lockStepMode, frameSyncEvent, messageVars, timeVars, pc, slaveVars,
          early, dataVars>>

B == INSTANCE ThreadBarrier

TypeOK ==
    /\ B!TypeOK
    /\ lockStepMode \in BOOLEAN /\ frameSyncEvent \in BOOLEAN
    /\ msgQueue \in Seq(Messages) /\ msgArray \in Seq(Messages)
    /\ msgIdx \in Nat
    /\ handled \cup sent \subseteq Messages
    /\ curTime \in 0 .. (Frames - 1) /\ time \in [Threads -> 0 .. (Frames - 1)]
    /\ pc \in [Threads -> {"frame", "read", "arrive", "barrier", "sync", "continue",
                           "freesync", "fswait", "timer", "return", "handle"}]
    /\ purpose \in {"frame", "enter", "leave", "wait"}
    /\ awaited \in Messages \cup {"none"}
    /\ enters \in 0 .. MaxEnters
    /\ early \in BOOLEAN
    /\ reading \subseteq {0, 1} /\ writing \subseteq {0, 1}

Init ==
    /\ B!Init
    /\ lockStepMode = FALSE /\ frameSyncEvent = FALSE
    /\ msgQueue = <<>> /\ msgArray = <<>> /\ msgIdx = 0
    /\ handled = {} /\ sent = {}
    /\ curTime = 0 /\ time = [t \in Threads |-> 0]
    /\ pc = [t \in Threads |-> "frame"]
    /\ purpose = "frame" /\ awaited = "none" /\ enters = 0
    /\ early = FALSE
    /\ reading = {} /\ writing = {}

Goto(t, from, to) == pc[t] = from /\ pc' = [pc EXCEPT ![t] = to]

-----------------------------------------------------------------------------
(* ArriveAtSyncPoint(), for both threads.                                  *)

(* if (0 != this->lockStepMode)                                            *)
ReadMode(t) ==
    /\ Goto(t, "read", CASE lockStepMode -> "arrive"
                         [] ~lockStepMode /\ t = Master -> "freesync"
                         [] OTHER -> "fswait")
    /\ UNCHANGED <<barrierVars, lockStepMode, frameSyncEvent, messageVars,
                   timeVars, slaveVars, early, dataVars>>

Arrive(t) ==
    /\ B!Arrive(t)
    /\ Goto(t, "arrive", IF bpc'[t] = "last" THEN "sync" ELSE "barrier")
    /\ UNCHANGED <<lockStepMode, frameSyncEvent, messageVars, timeVars, slaveVars,
                   early, dataVars>>

\* Mutant: DequeueAll() clears the queue before it copies it.
ClearThenCopy ==
    /\ curTime' = (curTime + 1) % Frames
    /\ msgQueue' = <<>>
    /\ msgArray' = msgQueue'
    /\ UNCHANGED <<time, msgIdx, handled, sent>>

(* SyncUpdateTime() and SyncFlipMessageQueue(): DequeueAll() overwrites    *)
(* whatever the message array held.                                        *)
SyncActions ==
    /\ curTime' = (curTime + 1) % Frames
    /\ msgArray' = msgQueue
    /\ msgQueue' = <<>>
    /\ UNCHANGED <<time, msgIdx, handled, sent>>

SyncLast(t) ==
    /\ Goto(t, "sync", "continue")
    /\ SyncActions
    /\ early' = (early \/ gaveUp # 0)
    /\ UNCHANGED <<barrierVars, lockStepMode, frameSyncEvent, slaveVars, dataVars>>

SignalContinue(t) ==
    /\ B!SignalContinue(t)
    /\ Goto(t, "continue", "timer")
    /\ UNCHANGED <<lockStepMode, frameSyncEvent, messageVars, timeVars, slaveVars,
                   early, dataVars>>

(* threadBarrier.Wait() runs in the barrier ...                            *)
BarrierWait(t) ==
    /\ pc[t] = "barrier"
    /\ B!ResetEvent(t) \/ B!PassEvent(t) \/ B!Sleep(t) \/ B!TimeOut(t)
    /\ UNCHANGED <<lockStepMode, frameSyncEvent, messageVars, timeVars, pc,
                   slaveVars, early, dataVars>>

(* ... and returns.                                                        *)
BarrierReturn(t) ==
    /\ bpc[t] = "out"
    /\ Goto(t, "barrier", "timer")
    /\ UNCHANGED <<barrierVars, lockStepMode, frameSyncEvent, messageVars,
                   timeVars, slaveVars, early, dataVars>>

\* Mutant: the render thread does not signal frameSyncEvent.
FreeSyncSilently ==
    /\ Goto(Master, "freesync", "timer")
    /\ SyncActions
    /\ UNCHANGED <<barrierVars, lockStepMode, frameSyncEvent, slaveVars, early, dataVars>>

(* Lock-step mode is off: the render thread synchronizes alone ...         *)
FreeSync ==
    /\ Goto(Master, "freesync", "timer")
    /\ SyncActions
    /\ frameSyncEvent' = TRUE
    /\ UNCHANGED <<barrierVars, lockStepMode, slaveVars, early, dataVars>>

(* ... and the main thread waits until it has done so.                     *)
WaitForFrameSync ==
    /\ Goto(Slave, "fswait", "timer")
    /\ frameSyncEvent /\ frameSyncEvent' = FALSE
    /\ UNCHANGED <<barrierVars, lockStepMode, messageVars, timeVars, slaveVars,
                   early, dataVars>>

(* SyncUpdateThreadLocalFrameSyncTimer(), and the call returns: to the     *)
(* messages in DoWork(), to the rest of LeaveLockStepMode() or             *)
(* WaitForMessage(), or to the frame.                                      *)
UpdateTimer(t) ==
    /\ time' = [time EXCEPT ![t] = curTime]
    /\ Goto(t, "timer", CASE t = Master -> "handle"
                          [] t = Slave /\ purpose \in {"leave", "wait"} -> "return"
                          [] OTHER -> "frame")
    /\ UNCHANGED <<barrierVars, lockStepMode, frameSyncEvent, messageVars, curTime,
                   slaveVars, early, dataVars>>

-----------------------------------------------------------------------------
(* The render thread: DoWork().                                            *)

\* Mutant: owner and client use the same data object.
ClientIndexEven == curTime % 2

(* FrameSyncSharedData::Client()                                           *)
ClientIndex == 1 - (curTime % 2)

(* ThreadUpdateHandlers(): the entities write their shared data, any       *)
(* number of times.                                                        *)
Client ==
    /\ pc[Master] = "frame"
    /\ writing' = writing \cup {ClientIndex}
    /\ UNCHANGED <<barrierVars, lockStepMode, frameSyncEvent, messageVars,
                   timeVars, pc, slaveVars, early, reading>>

(* No entity keeps the reference: each call of OnFrame() asks for its own. *)
StartFrame ==
    /\ Goto(Master, "frame", "read")
    /\ writing' = {}
    /\ UNCHANGED <<barrierVars, lockStepMode, frameSyncEvent, messageVars,
                   timeVars, slaveVars, early, reading>>

(* ThreadHandleMessages() reads the message array itself, by reference.    *)
HandleMessage ==
    /\ pc[Master] = "handle" /\ msgIdx < Len(msgArray)
    /\ handled' = handled \cup {msgArray[msgIdx + 1]}
    /\ msgIdx' = msgIdx + 1
    /\ UNCHANGED <<barrierVars, lockStepMode, frameSyncEvent, msgQueue, msgArray,
                   sent,
                   timeVars, pc, slaveVars, early, dataVars>>

ClearMessages ==
    /\ msgIdx >= Len(msgArray)
    /\ Goto(Master, "handle", "frame")
    /\ msgArray' = <<>> /\ msgIdx' = 0
    /\ UNCHANGED <<barrierVars, lockStepMode, frameSyncEvent, msgQueue, handled,
                   sent,
                   timeVars, slaveVars, early, dataVars>>

-----------------------------------------------------------------------------
(* The main thread.                                                        *)
Send(m) ==
    /\ pc[Slave] = "frame" /\ m \notin sent
    /\ sent' = sent \cup {m}
    /\ msgQueue' = Append(msgQueue, m)
    /\ UNCHANGED <<barrierVars, lockStepMode, frameSyncEvent, msgArray, msgIdx,
                   handled,
                   timeVars, pc, slaveVars, early, dataVars>>

(* A message is queued once, so EraseMatchingElements() erases one.        *)
Cancel(m) ==
    /\ pc[Slave] = "frame"
    /\ \E i \in DOMAIN msgQueue : msgQueue[i] = m /\ msgQueue' = RemoveAt(msgQueue, i)
    /\ sent' = sent \ {m}
    /\ UNCHANGED <<barrierVars, lockStepMode, frameSyncEvent, msgArray, msgIdx,
                   handled,
                   timeVars, pc, slaveVars, early, dataVars>>

(* FrameSyncSharedData::Owner()                                            *)
OwnerIndex == curTime % 2

(* The game reads shared data, also in free-running mode.                  *)
Owner ==
    /\ pc[Slave] = "frame"
    /\ reading' = reading \cup {OwnerIndex}
    /\ UNCHANGED <<barrierVars, lockStepMode, frameSyncEvent, messageVars,
                   timeVars, pc, slaveVars, early, writing>>

(* The main thread goes to the sync point.  The game has to let go of what *)
(* Owner() returned (as GetTrackedCharJointInfo() does, which hands out a  *)
(* pointer into the shared data): no reference is used in another frame.   *)
ToSyncPoint ==
    /\ Goto(Slave, "frame", "read")
    /\ reading' = {}
    /\ UNCHANGED <<barrierVars, frameSyncEvent, messageVars, timeVars, early, writing>>

(* GraphicsInterface::GameThreadWaitForFrameSync().                        *)
NextFrame ==
    /\ ToSyncPoint
    /\ purpose' = "frame"
    /\ UNCHANGED <<lockStepMode, awaited, enters>>

\* Mutant: EnterLockStepMode() does not arrive at the sync point.
EnterAtOnce ==
    /\ pc[Slave] = "frame" /\ ~lockStepMode /\ enters < MaxEnters
    /\ lockStepMode' = TRUE
    /\ enters' = enters + 1
    /\ UNCHANGED <<barrierVars, frameSyncEvent, messageVars, timeVars, pc, purpose,
                   awaited, early, dataVars>>

EnterLockStepMode ==
    /\ ~lockStepMode /\ enters < MaxEnters
    /\ ToSyncPoint
    /\ lockStepMode' = TRUE
    /\ purpose' = "enter" /\ enters' = enters + 1
    /\ UNCHANGED awaited

LeaveLockStepMode ==
    /\ lockStepMode
    /\ ToSyncPoint
    /\ purpose' = "leave"
    /\ UNCHANGED <<lockStepMode, awaited, enters>>

(* The mode is switched after the sync point.                              *)
ClearMode ==
    /\ purpose = "leave"
    /\ Goto(Slave, "return", "frame")
    /\ lockStepMode' = FALSE
    /\ UNCHANGED <<barrierVars, frameSyncEvent, messageVars, timeVars, slaveVars,
                   early, dataVars>>

(* WaitForMessage() asserts that lock-step mode is off.                    *)
WaitForMessage(m) ==
    /\ ~lockStepMode /\ m \in sent \ handled
    /\ ToSyncPoint
    /\ purpose' = "wait" /\ awaited' = m
    /\ UNCHANGED <<lockStepMode, enters>>

(* Its loop tests the message after each sync point.                       *)
TestHandled ==
    /\ purpose = "wait"
    /\ Goto(Slave, "return", IF awaited \in handled THEN "frame" ELSE "read")
    /\ awaited' = IF awaited \in handled THEN "none" ELSE awaited
    /\ UNCHANGED <<barrierVars, lockStepMode, frameSyncEvent, messageVars, timeVars,
                   purpose, enters, early, dataVars>>

-----------------------------------------------------------------------------
AtSyncPoint(t) ==
    \/ ReadMode(t) \/ Arrive(t) \/ SyncLast(t) \/ SignalContinue(t)
    \/ BarrierWait(t) \/ BarrierReturn(t) \/ UpdateTimer(t)

MasterStep == StartFrame \/ HandleMessage \/ ClearMessages \/ FreeSync \/ AtSyncPoint(Master)
SlaveStep == NextFrame \/ WaitForFrameSync \/ ClearMode \/ TestHandled \/ AtSyncPoint(Slave)

Next ==
    \/ MasterStep \/ SlaveStep
    \/ EnterLockStepMode \/ LeaveLockStepMode
    \/ Owner \/ Client
    \/ \E m \in Messages : Send(m) \/ Cancel(m) \/ WaitForMessage(m)

Spec == Init /\ [][Next]_vars

(* Both threads run their frame loops; when nothing else is to be done the *)
(* main thread goes on to its next frame.  Neither is kept out of the      *)
(* barrier's critical section for ever by the other, which holds it only   *)
(* for a moment in each frame.                                             *)
Fairness ==
    /\ WF_vars(MasterStep) /\ WF_vars(SlaveStep)
    /\ \A t \in Threads : SF_vars(Arrive(t))

FairSpec == Spec /\ Fairness

-----------------------------------------------------------------------------
(* Properties                                                              *)

(* Every message sent is in the queue, in the part of the frame's array    *)
(* that is still to be handled, or handled: the flip never overwrites      *)
(* messages the render thread works on, unless a round came out early.     *)
NoMessageLost ==
    ~early =>
        sent = Range(msgQueue) \cup {msgArray[i] : i \in (msgIdx + 1) .. Len(msgArray)}
                 \cup handled

(* In lock-step mode both threads work on the same frame: whenever neither *)
(* is at the sync point, their timers agree with the master time.          *)
InFrame(t) == pc[t] \in {"return", "frame", "handle"}

SameFrame ==
    ~early /\ gaveUp = 0 /\ lockStepMode /\ InFrame(Master) /\ InFrame(Slave) =>
        time[Master] = curTime /\ time[Slave] = curTime

(* "once all threads have arrived: advance the master time, flip message   *)
(* queues, start all threads": a thread performs the sync actions of       *)
(* lock-step mode only while the other is in the barrier, unless a wait    *)
(* has timed out in this round.                                            *)
SyncWhenAllArrived ==
    \A t \in Threads :
        pc[t] = "sync" /\ gaveUp = 0 => \A u \in Threads \ {t} : bpc[u] # "out"

(* The two together: lock-step mode deserves its name.                     *)
LockStep == SameFrame /\ SyncWhenAllArrived

(* The threads exchange data without a lock because they run in lock-step: *)
(* the main thread has no reference to a data object the render thread has *)
(* one to, wherever each is in its frame, whenever the mode was entered    *)
(* and whatever happened in free-running mode before.  It ends with the    *)
(* first wait that times out; in free-running mode nothing keeps the two   *)
(* sides apart.                                                            *)
DisjointBuffers ==
    ~early /\ gaveUp = 0 /\ lockStepMode => reading \cap writing = {}

(* Every arrival at the sync point comes to its end, where the thread      *)
(* updates its timer, whatever releases the barrier loses.                 *)
SyncPointReturns == \A t \in Threads : pc[t] = "read" ~> pc[t] = "timer"

(* A message that was sent is handled or cancelled, in both modes and over *)
(* the switch between them, unless a round came out early.                 *)
MessagesHandled ==
    \A m \in Messages : m \in sent ~> (m \in handled \/ m \notin sent \/ early)
=============================================================================
