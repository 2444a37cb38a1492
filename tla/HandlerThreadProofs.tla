------------------------ MODULE HandlerThreadProofs ------------------------
(***************************************************************************)
(* Nothing a handler thread has to react to is slept through, for any      *)
(* number of clients, messages and handlers and for every kind of loop: no *)
(* message (NoLostMessage), no stop request (NoMissedStop), and, as long   *)
(* as one client at a time waits, no waiter (WaiterSignalled).  The port   *)
(* keeps the promise of MessagePort, and handlers are paired.              *)
(*                                                                         *)
(* NoLostMessage needs to know only that a thread sleeps on an event that  *)
(* senders signal.  NoMissedStop needs the whole protocol of Open() and    *)
(* Close(): StopProtocol says for each place of the owner where the thread *)
(* can be and who has seen the stop request.  WaiterSignalled needs that   *)
(* msgHandled is clear when a round begins.  That the port delivers in     *)
(* order needs where each message can be (Delivery): the queue and the     *)
(* messages dequeued from it are, one after the other, what MessagePort    *)
(* calls pending.                                                          *)
(***************************************************************************)
EXTENDS HandlerThread, SequenceLemmas

ThreadPlaces ==
    {"off", "start", "loop", "wait", "blocked", "deferred", "dequeue", "handle", "signal",
     "update", "shutdown"}

(* The part of TypeOK the proofs need.                                     *)
Types ==
    /\ enqueueEvent \in BOOLEAN /\ stopRequest \in BOOLEAN /\ openedEvent \in BOOLEAN
    /\ handledEvent \in BOOLEAN /\ msgHandled \in BOOLEAN
    /\ tpc \in ThreadPlaces
    /\ opc \in {"closed", "starting", "open", "wakeup", "join"}
    /\ cpc \in [Clients -> {"idle", "signal", "check", "blocked"}]
    /\ cmsg \in [Clients -> Messages \cup {"none"}]

(* A thread sleeps only on an event that Enqueue() signals.                *)
SleepsOnEvent == tpc = "blocked" => mode # "runthrough"

(* Who has seen the stop request, and where the thread can be meanwhile.   *)
StopProtocol ==
    /\ opc # "starting" => ~openedEvent
    /\ opc = "closed" => tpc = "off"
    /\ opc \in {"starting", "open"} => tpc \notin {"off", "shutdown"} /\ ~stopRequest
    /\ openedEvent \/ opc \in {"open", "wakeup", "join"} => tpc # "start"
    /\ opc \in {"wakeup", "join"} => stopRequest \/ tpc \in {"off", "shutdown"}
    /\ tpc \in {"off", "shutdown"} => ~stopRequest
    /\ opc = "join" /\ mode # "runthrough" /\ tpc \in {"wait", "blocked"} => enqueueEvent

SleepInv == Types /\ SleepsOnEvent /\ NoLostMessage
StopInv == Types /\ SleepsOnEvent /\ StopProtocol

(* A round begins with msgHandled clear; only clients of Waiters wait.     *)
RoundBegins == msgHandled => tpc \in {"dequeue", "handle", "signal"}
OnlyWaitersWait == \A c \in Clients : cpc[c] \in {"check", "blocked"} => c \in Waiters

WaiterInv == Types /\ RoundBegins /\ OnlyWaitersWait /\ WaiterSignalled

-----------------------------------------------------------------------------
(* Every step is one of these.                                             *)
LEMMA NextSplit ==
    ASSUME Next
    PROVE  \/ Open \/ Stop \/ WaitForHandlersOpened \/ EmitWakeupSignal \/ Join
           \/ ThreadStep
           \/ \E c \in Clients, m \in Messages \ Inner : Send(c, m)
           \/ \E c \in Waiters : Wait(c)
           \/ \E c \in Clients : SignalEnqueue(c) \/ CheckHandled(c) \/ WakeWaiter(c) \/ Cancel(c)
           \/ \E m \in Messages : SetDeferredHandled(m)
           \/ \E h \in Handlers : AttachHandler(h) \/ RemoveHandler(h)
  BY SubsetAssumption DEF Next, OwnerStep, ClientStep

(* What erasing a message leaves was there before.                         *)
LEMMA EraseFromEmpty == \A m : EraseMatchingElements(<<>>, m) = <<>>
  BY DEF EraseMatchingElements, Range

(* Every step keeps the types.                                             *)
LEMMA NextTypes == Types /\ [Next]_vars => Types'
<1> SUFFICES ASSUME Types, [Next]_vars PROVE Types'
  OBVIOUS
<1> USE DEF Types, ThreadPlaces, portVars, handlerVars, messageVars, threadVars,
            clientVars, ownerVars
<1>1. CASE Open
  BY <1>1 DEF Open
<1>2. CASE Stop
  BY <1>2 DEF Stop
<1>3. CASE WaitForHandlersOpened
  BY <1>3 DEF WaitForHandlersOpened
<1>4. CASE EmitWakeupSignal
  BY <1>4 DEF EmitWakeupSignal
<1>5. CASE Join
  BY <1>5 DEF Join
<1>6. CASE ThreadStep
  <2>1. CASE ThreadOpenHandlers
    BY <2>1 DEF ThreadOpenHandlers
  <2>2. CASE ThreadStopRequested
    BY <2>2 DEF ThreadStopRequested
  <2>3. CASE WaitForQueue
    BY <2>3 DEF WaitForQueue, SignalOnEnqueue
  <2>4. CASE WakeThread
    BY <2>4 DEF WakeThread
  <2>5. CASE TimeOut
    BY <2>5 DEF TimeOut
  <2>6. CASE ThreadUpdateDeferredMessages
    BY <2>6 DEF ThreadUpdateDeferredMessages
  <2>7. CASE DequeueAll
    BY <2>7 DEF DequeueAll
  <2>8. CASE HandleMessage
    BY <2>8 DEF HandleMessage
  <2>9. CASE MessagesHandled
    BY <2>9 DEF MessagesHandled
  <2>10. CASE ThreadSignalMessageHandled
    BY <2>10 DEF ThreadSignalMessageHandled
  <2>11. CASE ThreadUpdateHandlers
    BY <2>11 DEF ThreadUpdateHandlers
  <2>12. CASE Shutdown
    BY <2>12 DEF Shutdown
  <2> QED
    BY <1>6, <2>1, <2>2, <2>3, <2>4, <2>5, <2>6, <2>7, <2>8, <2>9, <2>10, <2>11, <2>12 DEF ThreadStep
<1>7. ASSUME NEW c \in Clients, NEW m \in Messages, Send(c, m) PROVE Types'
  BY <1>7 DEF Send, SignalOnEnqueue
<1>8. ASSUME NEW c \in Waiters, Wait(c) PROVE Types'
  BY <1>8, SubsetAssumption DEF Wait
<1>9. ASSUME NEW c \in Clients, SignalEnqueue(c) PROVE Types'
  BY <1>9 DEF SignalEnqueue
<1>10. ASSUME NEW c \in Clients, CheckHandled(c) PROVE Types'
  BY <1>10 DEF CheckHandled
<1>11. ASSUME NEW c \in Clients, WakeWaiter(c) PROVE Types'
  BY <1>11 DEF WakeWaiter
<1>12. ASSUME NEW c \in Clients, Cancel(c) PROVE Types'
  BY <1>12, EraseFromEmpty DEF Cancel
<1>13. ASSUME NEW m \in Messages, SetDeferredHandled(m) PROVE Types'
  BY <1>13 DEF SetDeferredHandled
<1>14. ASSUME NEW h \in Handlers, AttachHandler(h) \/ RemoveHandler(h) PROVE Types'
  BY <1>14 DEF AttachHandler, RemoveHandler
<1>15. CASE UNCHANGED vars
  BY <1>15 DEF vars
<1> QED
  BY NextSplit, <1>1, <1>2, <1>3, <1>4, <1>5, <1>6, <1>7, <1>8, <1>9, <1>10, <1>11,
     <1>12, <1>13, <1>14, <1>15

(* Every step keeps the invariant behind NoLostMessage.                    *)
LEMMA NextSleep == SleepInv /\ [Next]_vars => SleepInv'
<1> SUFFICES ASSUME SleepInv, [Next]_vars PROVE SleepInv'
  OBVIOUS
<1> USE DEF SleepInv, ThreadPlaces, Types, SleepsOnEvent, NoLostMessage, portVars,
            handlerVars, messageVars, threadVars, clientVars, ownerVars
<1>1. CASE Open
  BY <1>1 DEF Open
<1>2. CASE Stop
  BY <1>2 DEF Stop
<1>3. CASE WaitForHandlersOpened
  BY <1>3 DEF WaitForHandlersOpened
<1>4. CASE EmitWakeupSignal
  BY <1>4 DEF EmitWakeupSignal
<1>5. CASE Join
  BY <1>5 DEF Join
<1>6. CASE ThreadStep
  <2>1. CASE ThreadOpenHandlers
    BY <2>1 DEF ThreadOpenHandlers
  <2>2. CASE ThreadStopRequested
    BY <2>2 DEF ThreadStopRequested
  <2>3. CASE WaitForQueue
    BY <2>3 DEF WaitForQueue, SignalOnEnqueue
  <2>4. CASE WakeThread
    BY <2>4 DEF WakeThread
  <2>5. CASE TimeOut
    BY <2>5 DEF TimeOut
  <2>6. CASE ThreadUpdateDeferredMessages
    BY <2>6 DEF ThreadUpdateDeferredMessages
  <2>7. CASE DequeueAll
    BY <2>7 DEF DequeueAll
  <2>8. CASE HandleMessage
    BY <2>8 DEF HandleMessage
  <2>9. CASE MessagesHandled
    BY <2>9 DEF MessagesHandled
  <2>10. CASE ThreadSignalMessageHandled
    BY <2>10 DEF ThreadSignalMessageHandled
  <2>11. CASE ThreadUpdateHandlers
    BY <2>11 DEF ThreadUpdateHandlers
  <2>12. CASE Shutdown
    BY <2>12 DEF Shutdown
  <2> QED
    BY <1>6, <2>1, <2>2, <2>3, <2>4, <2>5, <2>6, <2>7, <2>8, <2>9, <2>10, <2>11, <2>12 DEF ThreadStep
<1>7. ASSUME NEW c \in Clients, NEW m \in Messages, Send(c, m) PROVE SleepInv'
  BY <1>7 DEF Send, SignalOnEnqueue
<1>8. ASSUME NEW c \in Waiters, Wait(c) PROVE SleepInv'
  BY <1>8, SubsetAssumption DEF Wait
<1>9. ASSUME NEW c \in Clients, SignalEnqueue(c) PROVE SleepInv'
  BY <1>9 DEF SignalEnqueue
<1>10. ASSUME NEW c \in Clients, CheckHandled(c) PROVE SleepInv'
  BY <1>10 DEF CheckHandled
<1>11. ASSUME NEW c \in Clients, WakeWaiter(c) PROVE SleepInv'
  BY <1>11 DEF WakeWaiter
<1>12. ASSUME NEW c \in Clients, Cancel(c) PROVE SleepInv'
  BY <1>12, EraseFromEmpty DEF Cancel
<1>13. ASSUME NEW m \in Messages, SetDeferredHandled(m) PROVE SleepInv'
  BY <1>13 DEF SetDeferredHandled
<1>14. ASSUME NEW h \in Handlers, AttachHandler(h) \/ RemoveHandler(h) PROVE SleepInv'
  BY <1>14 DEF AttachHandler, RemoveHandler
<1>15. CASE UNCHANGED vars
  BY <1>15 DEF vars
<1> QED
  BY NextSplit, <1>1, <1>2, <1>3, <1>4, <1>5, <1>6, <1>7, <1>8, <1>9, <1>10, <1>11,
     <1>12, <1>13, <1>14, <1>15

(* Every step keeps the protocol of Open() and Close().                    *)
LEMMA NextStop == StopInv /\ [Next]_vars => StopInv'
<1> SUFFICES ASSUME StopInv, [Next]_vars PROVE StopInv'
  OBVIOUS
<1> USE DEF StopInv, ThreadPlaces, Types, SleepsOnEvent, StopProtocol, portVars,
            handlerVars, messageVars, threadVars, clientVars, ownerVars
<1>1. CASE Open
  BY <1>1 DEF Open
<1>2. CASE Stop
  BY <1>2 DEF Stop
<1>3. CASE WaitForHandlersOpened
  BY <1>3 DEF WaitForHandlersOpened
<1>4. CASE EmitWakeupSignal
  BY <1>4 DEF EmitWakeupSignal
<1>5. CASE Join
  BY <1>5 DEF Join
<1>6. CASE ThreadStep
  <2>1. CASE ThreadOpenHandlers
    BY <2>1 DEF ThreadOpenHandlers
  <2>2. CASE ThreadStopRequested
    BY <2>2 DEF ThreadStopRequested
  <2>3. CASE WaitForQueue
    BY <2>3 DEF WaitForQueue, SignalOnEnqueue
  <2>4. CASE WakeThread
    BY <2>4 DEF WakeThread
  <2>5. CASE TimeOut
    BY <2>5 DEF TimeOut
  <2>6. CASE ThreadUpdateDeferredMessages
    BY <2>6 DEF ThreadUpdateDeferredMessages
  <2>7. CASE DequeueAll
    BY <2>7 DEF DequeueAll
  <2>8. CASE HandleMessage
    BY <2>8 DEF HandleMessage
  <2>9. CASE MessagesHandled
    BY <2>9 DEF MessagesHandled
  <2>10. CASE ThreadSignalMessageHandled
    BY <2>10 DEF ThreadSignalMessageHandled
  <2>11. CASE ThreadUpdateHandlers
    BY <2>11 DEF ThreadUpdateHandlers
  <2>12. CASE Shutdown
    BY <2>12 DEF Shutdown
  <2> QED
    BY <1>6, <2>1, <2>2, <2>3, <2>4, <2>5, <2>6, <2>7, <2>8, <2>9, <2>10, <2>11, <2>12 DEF ThreadStep
<1>7. ASSUME NEW c \in Clients, NEW m \in Messages, Send(c, m) PROVE StopInv'
  BY <1>7 DEF Send, SignalOnEnqueue
<1>8. ASSUME NEW c \in Waiters, Wait(c) PROVE StopInv'
  BY <1>8, SubsetAssumption DEF Wait
<1>9. ASSUME NEW c \in Clients, SignalEnqueue(c) PROVE StopInv'
  BY <1>9 DEF SignalEnqueue
<1>10. ASSUME NEW c \in Clients, CheckHandled(c) PROVE StopInv'
  BY <1>10 DEF CheckHandled
<1>11. ASSUME NEW c \in Clients, WakeWaiter(c) PROVE StopInv'
  BY <1>11 DEF WakeWaiter
<1>12. ASSUME NEW c \in Clients, Cancel(c) PROVE StopInv'
  BY <1>12, EraseFromEmpty DEF Cancel
<1>13. ASSUME NEW m \in Messages, SetDeferredHandled(m) PROVE StopInv'
  BY <1>13 DEF SetDeferredHandled
<1>14. ASSUME NEW h \in Handlers, AttachHandler(h) \/ RemoveHandler(h) PROVE StopInv'
  BY <1>14 DEF AttachHandler, RemoveHandler
<1>15. CASE UNCHANGED vars
  BY <1>15 DEF vars
<1> QED
  BY NextSplit, <1>1, <1>2, <1>3, <1>4, <1>5, <1>6, <1>7, <1>8, <1>9, <1>10, <1>11,
     <1>12, <1>13, <1>14, <1>15


(* Every step keeps the invariant behind WaiterSignalled, if at most one   *)
(* client waits: a second waiter could take the signal of the first.       *)
LEMMA NextWaiter ==
    ASSUME \A c, d \in Waiters : c = d
    PROVE  StopInv /\ WaiterInv /\ [Next]_vars => WaiterInv'
<1> SUFFICES ASSUME StopInv, WaiterInv, [Next]_vars PROVE WaiterInv'
  OBVIOUS
<1> Types'
  BY NextTypes DEF WaiterInv
<1> USE DEF WaiterInv, ThreadPlaces, Types, RoundBegins, OnlyWaitersWait, WaiterSignalled,
            portVars, handlerVars, messageVars, threadVars, clientVars, ownerVars
<1>1. CASE Open
  BY <1>1 DEF Open, StopInv, StopProtocol
<1>2. CASE Stop
  BY <1>2 DEF Stop
<1>3. CASE WaitForHandlersOpened
  BY <1>3 DEF WaitForHandlersOpened
<1>4. CASE EmitWakeupSignal
  BY <1>4 DEF EmitWakeupSignal
<1>5. CASE Join
  BY <1>5 DEF Join
<1>6. CASE ThreadStep
  <2>1. CASE ThreadOpenHandlers
    BY <2>1 DEF ThreadOpenHandlers
  <2>2. CASE ThreadStopRequested
    BY <2>2 DEF ThreadStopRequested
  <2>3. CASE WaitForQueue
    BY <2>3 DEF WaitForQueue, SignalOnEnqueue
  <2>4. CASE WakeThread
    BY <2>4 DEF WakeThread
  <2>5. CASE TimeOut
    BY <2>5 DEF TimeOut
  <2>6. CASE ThreadUpdateDeferredMessages
    BY <2>6 DEF ThreadUpdateDeferredMessages
  <2>7. CASE DequeueAll
    BY <2>7 DEF DequeueAll
  <2>8. CASE HandleMessage
    BY <2>8 DEF HandleMessage
  <2>9. CASE MessagesHandled
    BY <2>9 DEF MessagesHandled
  <2>10. CASE ThreadSignalMessageHandled
    BY <2>10 DEF ThreadSignalMessageHandled
  <2>11. CASE ThreadUpdateHandlers
    BY <2>11 DEF ThreadUpdateHandlers
  <2>12. CASE Shutdown
    BY <2>12 DEF Shutdown
  <2> QED
    BY <1>6, <2>1, <2>2, <2>3, <2>4, <2>5, <2>6, <2>7, <2>8, <2>9, <2>10, <2>11, <2>12 DEF ThreadStep
<1>7. ASSUME NEW c \in Clients, NEW m \in Messages, Send(c, m) PROVE WaiterInv'
  BY <1>7 DEF Send
<1>8. ASSUME NEW c \in Waiters, Wait(c) PROVE WaiterInv'
  BY <1>8, SubsetAssumption DEF Wait
<1>9. ASSUME NEW c \in Clients, SignalEnqueue(c) PROVE WaiterInv'
  BY <1>9 DEF SignalEnqueue
<1>10. ASSUME NEW c \in Clients, CheckHandled(c) PROVE WaiterInv'
  BY <1>10 DEF CheckHandled
<1>11. ASSUME NEW c \in Clients, WakeWaiter(c) PROVE WaiterInv'
  BY <1>11 DEF WakeWaiter
<1>12. ASSUME NEW c \in Clients, Cancel(c) PROVE WaiterInv'
  BY <1>12 DEF Cancel
<1>13. ASSUME NEW m \in Messages, SetDeferredHandled(m) PROVE WaiterInv'
  BY <1>13 DEF SetDeferredHandled
<1>14. ASSUME NEW h \in Handlers, AttachHandler(h) \/ RemoveHandler(h) PROVE WaiterInv'
  BY <1>14 DEF AttachHandler, RemoveHandler
<1>15. CASE UNCHANGED vars
  BY <1>15 DEF vars
<1> QED
  BY NextSplit, <1>1, <1>2, <1>3, <1>4, <1>5, <1>6, <1>7, <1>8, <1>9, <1>10, <1>11,
     <1>12, <1>13, <1>14, <1>15

-----------------------------------------------------------------------------
(* The invariants hold initially.                                          *)
LEMMA InitInvariants == Init => SleepInv /\ StopInv /\ WaiterInv
  BY DEF Init, SleepInv, StopInv, WaiterInv, Types, ThreadPlaces, SleepsOnEvent, NoLostMessage,
         StopProtocol, RoundBegins, OnlyWaitersWait, WaiterSignalled

(* The handler thread never sleeps beside a message whose sender has       *)
(* signalled the queue: whatever is between the look at the queue and the  *)
(* sleep in SafeQueue::Wait().                                             *)
THEOREM SpecNoLostMessage == Spec => []NoLostMessage
<1>1. Init => SleepInv
  BY InitInvariants
<1>2. SleepInv /\ [Next]_vars => SleepInv'
  BY NextSleep
<1>3. SleepInv => NoLostMessage
  BY DEF SleepInv
<1> QED
  BY <1>1, <1>2, <1>3, PTL DEF Spec

(* The handler thread never sleeps through a stop request: when            *)
(* Win360Thread::Stop() waits for its end, a thread that sleeps has its    *)
(* event set and finds the request.                                        *)
THEOREM SpecNoMissedStop == Spec => []NoMissedStop
<1>1. Init => StopInv
  BY InitInvariants
<1>2. StopInv /\ [Next]_vars => StopInv'
  BY NextStop
<1>3. StopInv => NoMissedStop
  BY DEF StopInv, SleepsOnEvent, StopProtocol, NoMissedStop
<1> QED
  BY <1>1, <1>2, <1>3, PTL DEF Spec

(* Where only one client calls AsyncPort::Wait(), it does not sleep beside *)
(* its handled message: the event is set or will be in this round.         *)
THEOREM SpecWaiterSignalled ==
    ASSUME \A c, d \in Waiters : c = d
    PROVE  Spec => []WaiterSignalled
<1>1. Init => StopInv /\ WaiterInv
  BY InitInvariants
<1>2. StopInv /\ WaiterInv /\ [Next]_vars => (StopInv /\ WaiterInv)'
  BY NextStop, NextWaiter
<1>3. WaiterInv => WaiterSignalled
  BY DEF WaiterInv
<1> QED
  BY <1>1, <1>2, <1>3, PTL DEF Spec

-----------------------------------------------------------------------------
(* The rest of TypeOK.                                                     *)
Contents ==
    /\ mode \in Modes
    /\ queue \in Seq(Messages) /\ msgArray \in Seq(Messages)
    /\ handled \subseteq Messages /\ deferredHandled \subseteq Messages
    /\ deferredMessages \subseteq Messages /\ sent \subseteq Messages
    /\ shown \subseteq Messages
    /\ opens \in 0 .. MaxOpens
Attached ==
    /\ handlers \in Seq(Handlers) /\ IsInjective(handlers)
    /\ open \subseteq Handlers /\ closedUnopened \subseteq Handlers

LEMMA TypeParts == TypeOK <=> Types /\ Contents /\ Attached
  BY DEF TypeOK, Types, ThreadPlaces, Contents, Attached

(* A message carries itself, or what no other message carries.             *)
LEMMA DeliversWhat ==
    ASSUME NEW m \in Messages
    PROVE  /\ m \in Delivers(m) /\ Delivers(m) \subseteq Messages
           /\ Delivers(m) \ {m} \subseteq Inner
           /\ m \notin Inner => \A n \in Messages \ (Inner \cup {m}) :
                                    Delivers(n) \cap Delivers(m) = {}
  BY PartsAssumption DEF Delivers, Inner, Range

LEMMA EraseProperties ==
    ASSUME NEW S, NEW s \in Seq(S), NEW m
    PROVE  LET t == EraseMatchingElements(s, m)
           IN  \/ m \notin Range(s) /\ t = s
               \/ \E i \in 1 .. Len(s) : s[i] = m /\ t = RemoveAt(s, i)
<1>1. DOMAIN s = 1 .. Len(s) /\ Range(s) = {s[i] : i \in 1 .. Len(s)}
  BY ElementsOfSeq
<1>2. CASE m \in Range(s)
  <2> DEFINE i == CHOOSE i \in DOMAIN s : s[i] = m
  <2>1. i \in 1 .. Len(s) /\ s[i] = m
    BY <1>1, <1>2
  <2>2. EraseMatchingElements(s, m) = RemoveAt(s, i)
    BY <1>2 DEF EraseMatchingElements
  <2> QED
    BY <2>1, <2>2
<1>3. CASE m \notin Range(s)
  BY <1>3 DEF EraseMatchingElements
<1> QED
  BY <1>2, <1>3

(* What the array of handlers is after handlers came and went.             *)
LEMMA HandlersMove ==
    ASSUME Attached, NEW h \in Handlers, AttachHandler(h) \/ RemoveHandler(h)
    PROVE  Attached' /\ Range(handlers') \subseteq Range(handlers) \cup {h}
<1>1. CASE AttachHandler(h)
  <2>1. /\ Append(handlers, h) \in Seq(Handlers)
        /\ Range(Append(handlers, h)) = Range(handlers) \cup {h}
        /\ IsInjective(Append(handlers, h))
    BY <1>1, AppendElements DEF Attached, AttachHandler
  <2> QED
    BY <1>1, <2>1 DEF Attached, AttachHandler
<1>2. CASE RemoveHandler(h)
  <2>1. PICK i \in 1 .. Len(handlers) : handlers' = RemoveAt(handlers, i)
    BY <1>2, ElementsOfSeq DEF Attached, RemoveHandler
  <2>2. /\ handlers' \in Seq(Handlers) /\ IsInjective(handlers')
        /\ Range(handlers') = Range(handlers) \ {handlers[i]}
    BY <2>1, RemoveElements DEF Attached
  <2> QED
    BY <1>2, <2>2 DEF Attached, RemoveHandler
<1> QED
  BY <1>1, <1>2

(* Handlers are only asked and opened while they are attached.             *)
LEMMA AskedAttached == \A m : AskedBy(m) \subseteq Range(handlers)
  BY DEF AskedBy, Range

LEMMA NextAttached == Attached /\ [Next]_vars => Attached'
<1> SUFFICES ASSUME Attached, [Next]_vars PROVE Attached'
  OBVIOUS
<1>h. Range(handlers) \subseteq Handlers
  BY ElementsOfSeq DEF Attached
<1>n. <<>> \in Seq(Handlers) /\ IsInjective(<<>>)
  BY DEF IsInjective
<1> USE DEF Attached, portVars, handlerVars, messageVars, threadVars,
            clientVars, ownerVars
<1>1. CASE Open
  BY <1>1 DEF Open
<1>2. CASE Stop
  BY <1>2 DEF Stop
<1>3. CASE WaitForHandlersOpened
  BY <1>3 DEF WaitForHandlersOpened
<1>4. CASE EmitWakeupSignal
  BY <1>4 DEF EmitWakeupSignal
<1>5. CASE Join
  BY <1>5, <1>n DEF Join
<1>6. CASE ThreadStep
  <2>1. CASE ThreadOpenHandlers
    BY <2>1, <1>h DEF ThreadOpenHandlers
  <2>2. CASE ThreadStopRequested
    BY <2>2 DEF ThreadStopRequested
  <2>3. CASE WaitForQueue
    BY <2>3 DEF WaitForQueue
  <2>4. CASE WakeThread
    BY <2>4 DEF WakeThread
  <2>5. CASE TimeOut
    BY <2>5 DEF TimeOut
  <2>6. CASE ThreadUpdateDeferredMessages
    BY <2>6 DEF ThreadUpdateDeferredMessages
  <2>7. CASE DequeueAll
    BY <2>7 DEF DequeueAll
  <2>8. CASE HandleMessage
    BY <2>8, <1>h, AskedAttached DEF HandleMessage
  <2>9. CASE MessagesHandled
    BY <2>9 DEF MessagesHandled
  <2>10. CASE ThreadSignalMessageHandled
    BY <2>10 DEF ThreadSignalMessageHandled
  <2>11. CASE ThreadUpdateHandlers
    BY <2>11, <1>h DEF ThreadUpdateHandlers
  <2>12. CASE Shutdown
    BY <2>12, <1>h DEF Shutdown
  <2> QED
    BY <1>6, <2>1, <2>2, <2>3, <2>4, <2>5, <2>6, <2>7, <2>8, <2>9, <2>10, <2>11, <2>12 DEF ThreadStep
<1>7. ASSUME NEW c \in Clients, NEW m \in Messages, Send(c, m) PROVE Attached'
  BY <1>7 DEF Send
<1>8. ASSUME NEW c \in Waiters, Wait(c) PROVE Attached'
  BY <1>8 DEF Wait
<1>9. ASSUME NEW c \in Clients, SignalEnqueue(c) PROVE Attached'
  BY <1>9 DEF SignalEnqueue
<1>10. ASSUME NEW c \in Clients, CheckHandled(c) PROVE Attached'
  BY <1>10 DEF CheckHandled
<1>11. ASSUME NEW c \in Clients, WakeWaiter(c) PROVE Attached'
  BY <1>11 DEF WakeWaiter
<1>12. ASSUME NEW c \in Clients, Cancel(c) PROVE Attached'
  BY <1>12 DEF Cancel
<1>13. ASSUME NEW m \in Messages, SetDeferredHandled(m) PROVE Attached'
  BY <1>13 DEF SetDeferredHandled
<1>14. ASSUME NEW h \in Handlers, AttachHandler(h) \/ RemoveHandler(h) PROVE Attached'
  BY <1>14, HandlersMove DEF AttachHandler, RemoveHandler
<1>15. CASE UNCHANGED vars
  BY <1>15 DEF vars
<1> QED
  BY NextSplit, <1>1, <1>2, <1>3, <1>4, <1>5, <1>6, <1>7, <1>8, <1>9, <1>10, <1>11,
     <1>12, <1>13, <1>14, <1>15

LEMMA NextContents == Contents /\ [Next]_vars => Contents'
<1> SUFFICES ASSUME Contents, [Next]_vars PROVE Contents'
  OBVIOUS
<1>n. <<>> \in Seq(Messages)
  OBVIOUS
<1> USE DEF Contents, portVars, handlerVars, messageVars, threadVars,
            clientVars, ownerVars
<1>1. CASE Open
  BY <1>1, SubsetAssumption DEF Open
<1>2. CASE Stop
  BY <1>2 DEF Stop
<1>3. CASE WaitForHandlersOpened
  BY <1>3 DEF WaitForHandlersOpened
<1>4. CASE EmitWakeupSignal
  BY <1>4 DEF EmitWakeupSignal
<1>5. CASE Join
  BY <1>5 DEF Join
<1>6. CASE ThreadStep
  <2>1. CASE ThreadOpenHandlers
    BY <2>1 DEF ThreadOpenHandlers
  <2>2. CASE ThreadStopRequested
    BY <2>2 DEF ThreadStopRequested
  <2>3. CASE WaitForQueue
    BY <2>3 DEF WaitForQueue
  <2>4. CASE WakeThread
    BY <2>4 DEF WakeThread
  <2>5. CASE TimeOut
    BY <2>5 DEF TimeOut
  <2>6. CASE ThreadUpdateDeferredMessages
    BY <2>6 DEF ThreadUpdateDeferredMessages
  <2>7. CASE DequeueAll
    BY <2>7, <1>n DEF DequeueAll
  <2>8. CASE HandleMessage
    <3>1. /\ msgArray # <<>> /\ msgArray' = Tail(msgArray)
          /\ UNCHANGED <<mode, queue, deferredHandled, sent, opens>>
      BY <2>8 DEF HandleMessage
    <3>2. Head(msgArray) \in Messages /\ Tail(msgArray) \in Seq(Messages)
      BY <3>1, TailElements
    <3>3. Delivers(Head(msgArray)) \subseteq Messages
      BY <3>2, DeliversWhat
    <3>4. /\ deferredMessages' \subseteq deferredMessages \cup Delivers(Head(msgArray))
          /\ handled' \subseteq handled \cup Delivers(Head(msgArray)) \cup {Head(msgArray)}
          /\ shown' = shown \cup Delivers(Head(msgArray))
      BY <2>8 DEF HandleMessage
    <3> QED
      BY <3>1, <3>2, <3>3, <3>4
  <2>9. CASE MessagesHandled
    BY <2>9 DEF MessagesHandled
  <2>10. CASE ThreadSignalMessageHandled
    BY <2>10 DEF ThreadSignalMessageHandled
  <2>11. CASE ThreadUpdateHandlers
    BY <2>11 DEF ThreadUpdateHandlers
  <2>12. CASE Shutdown
    BY <2>12 DEF Shutdown
  <2> QED
    BY <1>6, <2>1, <2>2, <2>3, <2>4, <2>5, <2>6, <2>7, <2>8, <2>9, <2>10, <2>11, <2>12 DEF ThreadStep
<1>7. ASSUME NEW c \in Clients, NEW m \in Messages, Send(c, m) PROVE Contents'
  BY <1>7, AppendElements DEF Send
<1>8. ASSUME NEW c \in Waiters, Wait(c) PROVE Contents'
  BY <1>8 DEF Wait
<1>9. ASSUME NEW c \in Clients, SignalEnqueue(c) PROVE Contents'
  BY <1>9 DEF SignalEnqueue
<1>10. ASSUME NEW c \in Clients, CheckHandled(c) PROVE Contents'
  BY <1>10 DEF CheckHandled
<1>11. ASSUME NEW c \in Clients, WakeWaiter(c) PROVE Contents'
  BY <1>11 DEF WakeWaiter
<1>12. ASSUME NEW c \in Clients, Cancel(c) PROVE Contents'
  <2>1. /\ queue' = EraseMatchingElements(queue, cmsg[c])
        /\ UNCHANGED <<mode, msgArray, handled, deferredHandled, deferredMessages, sent, shown,
                       opens>>
    BY <1>12 DEF Cancel
  <2>2. queue' \in Seq(Messages)
    BY <2>1, EraseProperties, RemoveAtProperties
  <2> QED
    BY <2>1, <2>2
<1>13. ASSUME NEW m \in Messages, SetDeferredHandled(m) PROVE Contents'
  BY <1>13 DEF SetDeferredHandled
<1>14. ASSUME NEW h \in Handlers, AttachHandler(h) \/ RemoveHandler(h) PROVE Contents'
  BY <1>14 DEF AttachHandler, RemoveHandler
<1>15. CASE UNCHANGED vars
  BY <1>15 DEF vars
<1> QED
  BY NextSplit, <1>1, <1>2, <1>3, <1>4, <1>5, <1>6, <1>7, <1>8, <1>9, <1>10, <1>11,
     <1>12, <1>13, <1>14, <1>15

-----------------------------------------------------------------------------
(* Handlers that are neither attached late nor removed are open exactly    *)
(* while the thread runs.                                                  *)
Pairing ==
    /\ open \subseteq Range(handlers) /\ closedUnopened = {}
    /\ tpc \in {"off", "start"} => open = {}
    /\ tpc \notin {"off", "start"} => Range(handlers) \subseteq open

PairInv == StopInv /\ Pairing

(* The steps that are left then.                                           *)
LEMMA NextUnmoved ==
    ASSUME LateHandlers = {}, Removable = {}, Next
    PROVE  \/ Open \/ Stop \/ WaitForHandlersOpened \/ EmitWakeupSignal \/ Join
           \/ ThreadStep
           \/ \E c \in Clients, m \in Messages : Send(c, m)
           \/ \E c \in Waiters : Wait(c)
           \/ \E c \in Clients : SignalEnqueue(c) \/ CheckHandled(c) \/ WakeWaiter(c) \/ Cancel(c)
           \/ \E m \in Messages : SetDeferredHandled(m)
  BY DEF Next, OwnerStep, ClientStep

LEMMA NextPairing ==
    ASSUME LateHandlers = {}, Removable = {}
    PROVE  PairInv /\ [Next]_vars => Pairing'
<1> SUFFICES ASSUME PairInv, [Next]_vars PROVE Pairing'
  OBVIOUS
<1>n. Range(<<>>) = {}
  BY DEF Range
<1> USE DEF PairInv, Pairing, StopInv, StopProtocol, Types, ThreadPlaces, portVars, handlerVars, messageVars, threadVars,
            clientVars, ownerVars
<1>1. CASE Open
  BY <1>1 DEF Open
<1>2. CASE Stop
  BY <1>2 DEF Stop
<1>3. CASE WaitForHandlersOpened
  BY <1>3 DEF WaitForHandlersOpened
<1>4. CASE EmitWakeupSignal
  BY <1>4 DEF EmitWakeupSignal
<1>5. CASE Join
  BY <1>5, <1>n DEF Join
<1>6. CASE ThreadStep
  <2>1. CASE ThreadOpenHandlers
    BY <2>1 DEF ThreadOpenHandlers
  <2>2. CASE ThreadStopRequested
    BY <2>2 DEF ThreadStopRequested
  <2>3. CASE WaitForQueue
    BY <2>3 DEF WaitForQueue
  <2>4. CASE WakeThread
    BY <2>4 DEF WakeThread
  <2>5. CASE TimeOut
    BY <2>5 DEF TimeOut
  <2>6. CASE ThreadUpdateDeferredMessages
    BY <2>6 DEF ThreadUpdateDeferredMessages
  <2>7. CASE DequeueAll
    BY <2>7 DEF DequeueAll
  <2>8. CASE HandleMessage
    BY <2>8, AskedAttached DEF HandleMessage
  <2>9. CASE MessagesHandled
    BY <2>9 DEF MessagesHandled
  <2>10. CASE ThreadSignalMessageHandled
    BY <2>10 DEF ThreadSignalMessageHandled
  <2>11. CASE ThreadUpdateHandlers
    BY <2>11 DEF ThreadUpdateHandlers
  <2>12. CASE Shutdown
    BY <2>12 DEF Shutdown
  <2> QED
    BY <1>6, <2>1, <2>2, <2>3, <2>4, <2>5, <2>6, <2>7, <2>8, <2>9, <2>10, <2>11, <2>12 DEF ThreadStep
<1>7. ASSUME NEW c \in Clients, NEW m \in Messages, Send(c, m) PROVE Pairing'
  BY <1>7 DEF Send
<1>8. ASSUME NEW c \in Waiters, Wait(c) PROVE Pairing'
  BY <1>8 DEF Wait
<1>9. ASSUME NEW c \in Clients, SignalEnqueue(c) PROVE Pairing'
  BY <1>9 DEF SignalEnqueue
<1>10. ASSUME NEW c \in Clients, CheckHandled(c) PROVE Pairing'
  BY <1>10 DEF CheckHandled
<1>11. ASSUME NEW c \in Clients, WakeWaiter(c) PROVE Pairing'
  BY <1>11 DEF WakeWaiter
<1>12. ASSUME NEW c \in Clients, Cancel(c) PROVE Pairing'
  BY <1>12 DEF Cancel
<1>13. ASSUME NEW m \in Messages, SetDeferredHandled(m) PROVE Pairing'
  BY <1>13 DEF SetDeferredHandled
<1>15. CASE UNCHANGED vars
  BY <1>15 DEF vars
<1> QED
  BY NextUnmoved, <1>1, <1>2, <1>3, <1>4, <1>5, <1>6, <1>7, <1>8, <1>9, <1>10, <1>11,
     <1>12, <1>13, <1>15

-----------------------------------------------------------------------------
(* What the port has still to deliver, and how it relates to what it was   *)
(* sent and what the handlers have been shown.                             *)
Waiting == msgArray \o queue

WaitingOnce ==
    /\ IsInjective(Waiting) /\ Range(Waiting) \subseteq sent
    /\ sent \cap Inner = {}
    /\ tpc # "handle" => msgArray = <<>>
NotShownYet == \A m \in Range(Waiting) : Delivers(m) \cap shown = {}
ShownWasSent == \A x \in shown : \E n \in sent : x \in Delivers(n)
DeferredWasShown == deferredMessages \subseteq shown

Delivery == WaitingOnce /\ NotShownYet /\ ShownWasSent /\ DeferredWasShown

PortInv == StopInv /\ Contents /\ Delivery

PortStep == Port!Next \/ UNCHANGED Port!vars

(* Most steps leave the messages where they are.                           *)
Quiet ==
    /\ UNCHANGED <<queue, msgArray, shown, sent, handled>>
    /\ deferredMessages' \subseteq deferredMessages
    /\ tpc' # "handle" => tpc # "handle" \/ msgArray = <<>>

LEMMA QuietStep ==
    ASSUME Delivery, Quiet
    PROVE  Delivery' /\ PortStep
  BY DEF Quiet, Delivery, WaitingOnce, Waiting, NotShownYet, ShownWasSent, DeferredWasShown, PortStep,
         Port!vars

LEMMA WaitingTypes ==
    ASSUME Contents
    PROVE  /\ Waiting \in Seq(Messages) /\ Range(Waiting) \subseteq Messages
           /\ Range(Waiting) = Range(msgArray) \cup Range(queue)
<1>1. /\ Waiting \in Seq(Messages)
      /\ Range(Waiting) = Range(msgArray) \cup Range(queue)
  BY ConcatElements DEF Contents, Waiting
<1> QED
  BY <1>1, ElementsOfSeq

(* Send(): a message that was neither sent nor shown goes to the end.      *)
LEMMA SendStep ==
    ASSUME Contents, Delivery, NEW c \in Clients, NEW m \in Messages \ Inner, Send(c, m)
    PROVE  Delivery' /\ PortStep
<1>1. /\ m \notin sent /\ m \notin handled /\ sent' = sent \cup {m}
      /\ queue' = Append(queue, m)
      /\ UNCHANGED <<msgArray, shown, handled, deferredMessages, tpc>>
  BY DEF Send, handlerVars, messageVars, threadVars
<1>2. /\ Waiting \in Seq(Messages) /\ Waiting' = Append(Waiting, m)
  BY <1>1, WaitingTypes, AppendToConcat DEF Waiting, Contents
<1>3. m \notin Range(Waiting) /\ IsInjective(Waiting)
  BY <1>1 DEF Delivery, WaitingOnce
<1>4. Range(Waiting') = Range(Waiting) \cup {m} /\ IsInjective(Waiting')
  BY <1>2, <1>3, AppendElements
<1>5. WaitingOnce'
  BY <1>1, <1>4 DEF Delivery, WaitingOnce
<1>6. Delivers(m) \cap shown = {}
  <2>1. ASSUME NEW n \in sent PROVE Delivers(n) \cap Delivers(m) = {}
    <3>1. n \in Messages \ (Inner \cup {m})
      BY <1>1 DEF Delivery, WaitingOnce, Contents
    <3> QED
      BY <3>1, DeliversWhat
  <2> QED
    BY <2>1 DEF Delivery, ShownWasSent
<1>7. NotShownYet'
  BY <1>1, <1>4, <1>6 DEF Delivery, NotShownYet
<1>8. ShownWasSent' /\ DeferredWasShown'
  BY <1>1 DEF Delivery, ShownWasSent, DeferredWasShown
<1>9. m \notin shown
  BY <1>6, DeliversWhat
<1>10. Port!Send(m)
  BY <1>1, <1>2, <1>9 DEF Port!Send, Waiting
<1> QED
  BY <1>5, <1>7, <1>8, <1>10 DEF Delivery, PortStep, Port!Next

(* Cancel(): what is still in the queue leaves it.                         *)
LEMMA CancelStep ==
    ASSUME Contents, Delivery, NEW c \in Clients, Cancel(c)
    PROVE  Delivery' /\ PortStep
<1>1. /\ cmsg[c] \in Messages /\ queue' = EraseMatchingElements(queue, cmsg[c])
      /\ UNCHANGED <<msgArray, shown, handled, deferredMessages, tpc, sent>>
  BY DEF Cancel, handlerVars, messageVars, threadVars
<1>2. PICK m \in Messages : m = cmsg[c]
  BY <1>1
<1>3. CASE queue' = queue
  BY <1>1, <1>3, QuietStep DEF Quiet
<1>4. ASSUME NEW i \in 1 .. Len(queue), queue[i] = m, queue' = RemoveAt(queue, i)
      PROVE  Delivery' /\ PortStep
  <2> DEFINE k == Len(msgArray) + i
  <2>1. Waiting \in Seq(Messages) /\ queue \in Seq(Messages) /\ msgArray \in Seq(Messages)
    BY WaitingTypes DEF Contents
  <2>2. k \in DOMAIN Waiting /\ Waiting[k] = m /\ Waiting' = RemoveAt(Waiting, k)
    <3>1. /\ k \in DOMAIN (msgArray \o queue) /\ (msgArray \o queue)[k] = queue[i]
          /\ RemoveAt(msgArray \o queue, k) = msgArray \o RemoveAt(queue, i)
      BY <2>1, <1>4, RemoveFromConcat
    <3>2. Waiting' = msgArray \o RemoveAt(queue, i)
      BY <1>1, <1>4 DEF Waiting
    <3> QED
      BY <3>1, <3>2, <1>4 DEF Waiting
  <2> HIDE DEF k
  <2>3. k \in 1 .. Len(Waiting)
    BY <2>1, <2>2
  <2>4. Range(Waiting') = Range(Waiting) \ {m} /\ IsInjective(Waiting')
    BY <2>1, <2>2, <2>3, RemoveElements DEF Delivery, WaitingOnce
  <2>5. Delivery'
    BY <1>1, <2>4 DEF Delivery, WaitingOnce, NotShownYet, ShownWasSent, DeferredWasShown
  <2>6. Port!Cancel(m)
    <3>1. \E n \in DOMAIN Waiting : Waiting[n] = m /\ Waiting' = RemoveAt(Waiting, n)
      BY <2>2
    <3> QED
      BY <1>1, <3>1 DEF Port!Cancel, Port!RemoveAt, RemoveAt, Waiting
  <2> QED
    BY <2>5, <2>6 DEF PortStep, Port!Next
<1> QED
  BY <1>1, <1>2, <1>3, <1>4, EraseProperties DEF Contents

(* DequeueAll(): the thread's array is empty and takes over the queue.     *)
LEMMA DequeueStep ==
    ASSUME Contents, Delivery, DequeueAll
    PROVE  Delivery' /\ PortStep
<1>1. /\ msgArray = <<>> /\ msgArray' = queue /\ queue' = <<>>
      /\ tpc' # "handle" => queue = <<>>
      /\ UNCHANGED <<shown, handled, deferredMessages, sent>>
  BY DEF DequeueAll, messageVars, clientVars, Delivery, WaitingOnce
<1>2. Waiting' = Waiting
  BY <1>1, ConcatEmptySeq DEF Waiting, Contents
<1>3. Delivery'
  BY <1>1, <1>2 DEF Delivery, WaitingOnce, NotShownYet, ShownWasSent, DeferredWasShown
<1> QED
  BY <1>1, <1>2, <1>3 DEF PortStep, Port!vars, Waiting

(* ThreadUpdateDeferredMessages(): messages shown earlier become handled.  *)
LEMMA DeferredStep ==
    ASSUME Contents, Delivery, ThreadUpdateDeferredMessages
    PROVE  Delivery' /\ PortStep
<1> DEFINE done == deferredMessages \cap deferredHandled
<1>1. /\ handled' = handled \cup done /\ deferredMessages' = deferredMessages \ done
      /\ tpc # "handle" /\ tpc' # "handle"
      /\ UNCHANGED <<queue, msgArray, shown, sent>>
  BY DEF ThreadUpdateDeferredMessages, portVars, clientVars
<1>2. Delivery'
  BY <1>1 DEF Delivery, WaitingOnce, Waiting, NotShownYet, ShownWasSent, DeferredWasShown
<1>3. done \ handled \in SUBSET (shown \ handled) /\ handled' = handled \cup (done \ handled)
  BY <1>1 DEF Delivery, DeferredWasShown
<1>4. Port!Complete
  BY <1>1, <1>3 DEF Port!Complete
<1> QED
  BY <1>2, <1>4 DEF PortStep, Port!Next

(* ThreadHandleMessages(): the oldest message is shown, and what was       *)
(* accepted of it and not deferred is handled.                             *)
LEMMA HandleStep ==
    ASSUME Contents, Delivery, HandleMessage
    PROVE  Delivery' /\ PortStep
<1>1. /\ tpc = "handle" /\ msgArray # <<>> /\ msgArray' = Tail(msgArray)
      /\ shown' = shown \cup Delivers(Head(msgArray))
      /\ UNCHANGED <<queue, sent, tpc>>
  BY DEF HandleMessage, portVars, clientVars
<1>2. /\ Waiting \in Seq(Messages) /\ Waiting # <<>> /\ Head(Waiting) = Head(msgArray)
      /\ Waiting' = Tail(Waiting)
  BY <1>1, WaitingTypes, TailOfConcat DEF Waiting, Contents
<1>3. PICK m : m = Head(Waiting)
  OBVIOUS
<1>4. /\ m \in Messages /\ Range(Waiting) = {m} \cup Range(Waiting')
      /\ IsInjective(Waiting') /\ m \notin Range(Waiting')
  BY <1>2, <1>3, TailElements, TailInjective DEF Delivery, WaitingOnce
<1>5. /\ m \in sent /\ m \notin Inner /\ Range(Waiting') \subseteq sent
      /\ sent \subseteq Messages /\ sent \cap Inner = {}
  BY <1>4 DEF Delivery, WaitingOnce, Contents
<1>6. WaitingOnce'
  BY <1>1, <1>4, <1>5 DEF WaitingOnce
<1>7. NotShownYet'
  <2> SUFFICES ASSUME NEW n \in Range(Waiting') PROVE Delivers(n) \cap shown' = {}
    BY DEF NotShownYet
  <2>1. n \in Messages \ (Inner \cup {m})
    BY <1>4, <1>5
  <2>2. Delivers(n) \cap Delivers(m) = {}
    BY <2>1, <1>4, <1>5, DeliversWhat
  <2>3. Delivers(n) \cap shown = {}
    BY <1>4 DEF Delivery, NotShownYet
  <2> QED
    BY <2>2, <2>3, <1>1, <1>2, <1>3
<1>8. ShownWasSent'
  BY <1>1, <1>2, <1>3, <1>5 DEF Delivery, ShownWasSent
<1>9. \E done \in SUBSET Delivers(m) :
          handled' = handled \cup done /\ deferredMessages' \subseteq deferredMessages \cup Delivers(m)
  <2> DEFINE accepted == {x \in Delivers(m) \ DOMAIN Parts : Accepted(x)}
  <2>1. PICK deferred \in SUBSET (accepted \cap Deferrable) :
            /\ deferredMessages' = deferredMessages \cup deferred
            /\ handled' = handled \cup (accepted \ deferred) \cup ({m} \cap DOMAIN Parts)
    BY <1>2, <1>3 DEF HandleMessage
  <2>2. (accepted \ deferred) \cup ({m} \cap DOMAIN Parts) \in SUBSET Delivers(m)
    BY <1>4, DeliversWhat
  <2> QED
    BY <2>1, <2>2
<1>10. DeferredWasShown'
  BY <1>1, <1>2, <1>3, <1>9 DEF Delivery, DeferredWasShown
<1>11. Delivers(m) \cap shown = {}
  BY <1>4 DEF Delivery, NotShownYet
<1>12. Port!Deliver
  BY <1>1, <1>2, <1>3, <1>9, <1>11 DEF Port!Deliver, Waiting
<1> QED
  BY <1>6, <1>7, <1>8, <1>10, <1>12 DEF Delivery, PortStep, Port!Next

(* The other steps are these.                                              *)
Moves ==
    \/ Quiet \/ ThreadUpdateDeferredMessages \/ DequeueAll \/ HandleMessage
    \/ \E c \in Clients, m \in Messages \ Inner : Send(c, m)
    \/ \E c \in Clients : Cancel(c)

LEMMA NextMoves ==
    ASSUME StopInv, [Next]_vars
    PROVE  Moves
<1>o. opc = "closed" => tpc # "handle"
  BY DEF StopInv, StopProtocol
<1> USE DEF Moves, Quiet, portVars, handlerVars, messageVars, threadVars, clientVars, ownerVars
<1>1. CASE Open
  BY <1>1, <1>o DEF Open
<1>2. CASE Stop
  BY <1>2 DEF Stop
<1>3. CASE WaitForHandlersOpened
  BY <1>3 DEF WaitForHandlersOpened
<1>4. CASE EmitWakeupSignal
  BY <1>4 DEF EmitWakeupSignal
<1>5. CASE Join
  BY <1>5 DEF Join
<1>6. CASE ThreadStep
  <2>1. CASE ThreadOpenHandlers
    BY <2>1 DEF ThreadOpenHandlers
  <2>2. CASE ThreadStopRequested
    BY <2>2 DEF ThreadStopRequested
  <2>3. CASE WaitForQueue
    BY <2>3 DEF WaitForQueue
  <2>4. CASE WakeThread
    BY <2>4 DEF WakeThread
  <2>5. CASE TimeOut
    BY <2>5 DEF TimeOut
  <2>6. CASE ThreadUpdateDeferredMessages
    BY <2>6
  <2>7. CASE DequeueAll
    BY <2>7
  <2>8. CASE HandleMessage
    BY <2>8
  <2>9. CASE MessagesHandled
    BY <2>9 DEF MessagesHandled
  <2>10. CASE ThreadSignalMessageHandled
    BY <2>10 DEF ThreadSignalMessageHandled
  <2>11. CASE ThreadUpdateHandlers
    BY <2>11 DEF ThreadUpdateHandlers
  <2>12. CASE Shutdown
    BY <2>12 DEF Shutdown
  <2> QED
    BY <1>6, <2>1, <2>2, <2>3, <2>4, <2>5, <2>6, <2>7, <2>8, <2>9, <2>10, <2>11, <2>12 DEF ThreadStep
<1>7. ASSUME NEW c \in Clients, NEW m \in Messages \ Inner, Send(c, m) PROVE Moves
  BY <1>7
<1>8. ASSUME NEW c \in Waiters, Wait(c) PROVE Moves
  BY <1>8 DEF Wait
<1>9. ASSUME NEW c \in Clients, SignalEnqueue(c) PROVE Moves
  BY <1>9 DEF SignalEnqueue
<1>10. ASSUME NEW c \in Clients, CheckHandled(c) PROVE Moves
  BY <1>10 DEF CheckHandled
<1>11. ASSUME NEW c \in Clients, WakeWaiter(c) PROVE Moves
  BY <1>11 DEF WakeWaiter
<1>12. ASSUME NEW c \in Clients, Cancel(c) PROVE Moves
  BY <1>12
<1>13. ASSUME NEW m \in Messages, SetDeferredHandled(m) PROVE Moves
  BY <1>13 DEF SetDeferredHandled
<1>14. ASSUME NEW h \in Handlers, AttachHandler(h) \/ RemoveHandler(h) PROVE Moves
  BY <1>14 DEF AttachHandler, RemoveHandler
<1>15. CASE UNCHANGED vars
  BY <1>15 DEF vars
<1> QED
  BY NextSplit, <1>1, <1>2, <1>3, <1>4, <1>5, <1>6, <1>7, <1>8, <1>9, <1>10, <1>11,
     <1>12, <1>13, <1>14, <1>15

(* Every step of the port and its threads is one of the promise or leaves  *)
(* what it speaks of unchanged.                                            *)
LEMMA NextDelivery == PortInv /\ [Next]_vars => Delivery' /\ PortStep
  BY NextMoves, QuietStep, DeferredStep, DequeueStep, HandleStep, SendStep, CancelStep
     DEF PortInv, Moves

-----------------------------------------------------------------------------
(* The variables have their types in every reachable state: the handlers   *)
(* attached are distinct, which AttachHandler() asserts.                   *)
THEOREM SpecTypeOK == Spec => []TypeOK
<1>1. Init => Types /\ Contents /\ Attached
  <2> SUFFICES ASSUME Init PROVE Types /\ Contents /\ Attached
    OBVIOUS
  <2>1. Types
    BY InitInvariants DEF SleepInv
  <2>2. Contents
    BY SubsetAssumption DEF Init, Contents
  <2>3. Attached
    BY SubsetAssumption DEF Init, Attached
  <2> QED
    BY <2>1, <2>2, <2>3
<1>2. Types /\ Contents /\ Attached /\ [Next]_vars => (Types /\ Contents /\ Attached)'
  BY NextTypes, NextContents, NextAttached
<1> QED
  BY <1>1, <1>2, TypeParts, PTL DEF Spec

(* Handlers attached before Open() and never removed are opened before the *)
(* thread's first message and closed once each, when the thread ends.      *)
THEOREM SpecHandlersPaired ==
    ASSUME LateHandlers = {}, Removable = {}
    PROVE  Spec => []HandlersPaired
<1>1. Init => PairInv
  BY InitInvariants DEF Init, PairInv, Pairing
<1>2. PairInv /\ [Next]_vars => PairInv'
  BY NextStop, NextPairing DEF PairInv
<1>3. PairInv => HandlersPaired
  BY DEF PairInv, Pairing, HandlersPaired, NoHandlerLeftOpen, OnlyOpenHandlersClosed
<1> QED
  BY <1>1, <1>2, <1>3, PTL DEF Spec

(* AsyncPort with its handler thread keeps the promise of MessagePort:     *)
(* messages are delivered at most once and in the order of sending, are    *)
(* handled only after they were delivered, and a message cancelled before  *)
(* the thread has taken it is never delivered.                             *)
THEOREM SpecImplementsPort == Spec => ImplementsPort
<1>1. Init => PortInv /\ Port!Init
  <2> SUFFICES ASSUME Init PROVE PortInv /\ Port!Init
    OBVIOUS
  <2>1. StopInv /\ Contents
    BY InitInvariants, SubsetAssumption DEF Init, Contents
  <2>2. msgArray \o queue = <<>> /\ Range(<<>>) = {} /\ IsInjective(<<>>)
    BY ConcatEmptySeq DEF Init, Range, IsInjective
  <2> QED
    BY <2>1, <2>2 DEF Init, PortInv, Delivery, WaitingOnce, Waiting, NotShownYet, ShownWasSent,
       DeferredWasShown, Port!Init
<1>2. PortInv /\ [Next]_vars => PortInv' /\ [Port!Next]_Port!vars
  BY NextStop, NextContents, NextDelivery DEF PortInv, PortStep
<1> QED
  BY <1>1, <1>2, PTL DEF Spec, ImplementsPort, Port!Spec
=============================================================================
