--------------------------- MODULE HandlerThread ---------------------------
(***************************************************************************)
(* Messaging::AsyncPort with its handler thread: HandlerThreadBase and the *)
(* loops of BlockingHandlerThread and RunThroughHandlerThread, the message *)
(* queue they read (Threading::SafeQueue) and the events and the stop      *)
(* protocol of Win360Event and Win360Thread.                               *)
(*                                                                         *)
(* Three kinds of threads act: the handler thread (tpc), the thread that   *)
(* opens and closes the port (opc) and client threads that send, wait for  *)
(* and cancel messages (cpc, cmsg).  A step ends where the thread next     *)
(* touches state that the others see.  The critical section of the queue   *)
(* makes each queue operation one step.  That of the handler array makes   *)
(* each pass over the array one step, except that messages are handled one *)
(* by one, so that clients see some of them handled.                       *)
(*                                                                         *)
(* Every Win360Event here is an auto-reset event: Wait() consumes the      *)
(* signal, and so does Peek(), by which ThreadStopRequested() looks.       *)
(***************************************************************************)
EXTENDS Naturals, SequencesExt

CONSTANTS
    Clients,        \* threads that use the port
    Waiters,        \* the clients that wait for their messages
    Messages,       \* message objects; each is sent at most once,
                    \* by itself or in a batch
    Parts,          \* batch message -> the messages in the batch
    Deferrable,     \* messages a handler may defer
    Handlers,
    Accepts,        \* message -> the handlers that accept it
    EarlyHandlers,  \* sequence: attached before the port is opened
    LateHandlers,   \* set: may be attached while the port is in use
    Removable,      \* set: may be removed while the port is in use
    Modes,          \* the kinds of handler thread: "blocking", "timeout"
                    \* (blocking with a waitTimeout) and "runthrough"
    MaxOpens        \* bound: how often the port is opened

ASSUME ModesAssumption == Modes \subseteq {"blocking", "timeout", "runthrough"}
ASSUME PartsAssumption ==
    /\ DOMAIN Parts \subseteq Messages
    /\ \A b \in DOMAIN Parts : Parts[b] \subseteq Messages \ DOMAIN Parts
    /\ \A b, d \in DOMAIN Parts : b # d => Parts[b] \cap Parts[d] = {}
ASSUME SubsetAssumption ==
    /\ Waiters \subseteq Clients
    /\ Deferrable \subseteq Messages
    /\ LateHandlers \subseteq Handlers
    /\ Removable \subseteq Handlers
    /\ EarlyHandlers \in Seq(Handlers) /\ IsInjective(EarlyHandlers)
    /\ Accepts \in [Messages -> SUBSET Handlers]
    /\ MaxOpens \in Nat

VARIABLES
    mode,             \* the kind of handler thread the port was given
    queue,            \* msgQueue.queueArray
    enqueueEvent,     \* msgQueue.enqueueEvent
    stopRequest,      \* stopRequestEvent
    openedEvent,      \* handlersOpenedEvent
    handledEvent,     \* msgHandledEvent
    handlers,         \* the attached handlers
    open,             \* the handlers that are open
    handled,          \* the messages whose handled flag is set
    deferredHandled,  \* the messages whose deferredHandled flag is set
    deferredMessages, \* the deferred messages the handler thread keeps
    msgArray,         \* the handler thread's local array of dequeued messages
    msgHandled,       \* its local flag: something was handled in this round
    tpc, opc, cpc,    \* what each thread does next
    cmsg,             \* the message a client sends or waits for
    opens,            \* how often the port was opened
    sent,             \* history: messages sent
    shown,            \* history: messages the handlers have been shown
    closedUnopened    \* history: handlers closed although they were not open

portVars == <<queue, enqueueEvent, stopRequest, openedEvent, handledEvent>>
handlerVars == <<handlers, open, closedUnopened>>
messageVars == <<handled, deferredHandled>>
threadVars == <<deferredMessages, msgArray, msgHandled, tpc, shown>>
clientVars == <<cpc, cmsg, sent>>
ownerVars == <<opc, opens>>
vars == <<portVars, handlerVars, messageVars, threadVars, clientVars, ownerVars,
          mode>>

TypeOK ==
    /\ mode \in Modes
    /\ queue \in Seq(Messages) /\ msgArray \in Seq(Messages)
    /\ {enqueueEvent, stopRequest, openedEvent, handledEvent, msgHandled} \subseteq BOOLEAN
    /\ handlers \in Seq(Handlers) /\ IsInjective(handlers)
    /\ open \subseteq Handlers /\ closedUnopened \subseteq Handlers
    /\ handled \cup deferredHandled \cup deferredMessages \cup sent \cup shown \subseteq Messages
    /\ tpc \in {"off", "start", "loop", "wait", "blocked", "deferred", "dequeue",
                "handle", "signal", "update", "shutdown"}
    /\ opc \in {"closed", "starting", "open", "wakeup", "join"}
    /\ cpc \in [Clients -> {"idle", "signal", "check", "blocked"}]
    /\ cmsg \in [Clients -> Messages \cup {"none"}]
    /\ opens \in 0..MaxOpens

Init ==
    /\ mode \in Modes
    /\ queue = <<>> /\ msgArray = <<>>
    /\ enqueueEvent = FALSE /\ stopRequest = FALSE
    /\ openedEvent = FALSE /\ handledEvent = FALSE
    /\ handlers = EarlyHandlers
    /\ open = {} /\ closedUnopened = {}
    /\ handled = {} /\ deferredHandled = {} /\ deferredMessages = {}
    /\ msgHandled = FALSE
    /\ tpc = "off" /\ opc = "closed"
    /\ cpc = [c \in Clients |-> "idle"]
    /\ cmsg = [c \in Clients |-> "none"]
    /\ opens = 0
    /\ sent = {} /\ shown = {}

-----------------------------------------------------------------------------
(* The owner: AsyncPort::Open() and AsyncPort::Close().                    *)

(* Win360Thread::Start() ... *)
Open ==
    /\ opc = "closed" /\ opens < MaxOpens
    /\ opc' = "starting" /\ opens' = opens + 1
    /\ tpc' = "start"
    /\ UNCHANGED <<portVars, handlerVars, messageVars, deferredMessages, msgArray,
                   msgHandled, shown, clientVars, mode>>

(* ... and WaitForHandlersOpened().                                        *)
WaitForHandlersOpened ==
    /\ opc = "starting" /\ openedEvent
    /\ openedEvent' = FALSE
    /\ opc' = "open"
    /\ UNCHANGED <<queue, enqueueEvent, stopRequest, handledEvent, handlerVars,
                   messageVars, threadVars, clientVars, opens, mode>>

\* Mutant: Close() detaches the handlers before it stops the thread.
ClearThenStop ==
    /\ opc = "open"
    /\ opc' = "wakeup"
    /\ stopRequest' = TRUE
    /\ handlers' = <<>>
    /\ UNCHANGED <<queue, enqueueEvent, openedEvent, handledEvent, open,
                   closedUnopened, messageVars, threadVars, clientVars, opens,
                   mode>>

(* Win360Thread::Stop(): ask the thread to stop, wake it up, wait for its  *)
(* end.                                                                    *)
Stop ==
    /\ opc = "open"
    /\ opc' = "wakeup"
    /\ stopRequest' = TRUE
    /\ UNCHANGED <<queue, enqueueEvent, openedEvent, handledEvent, handlerVars,
                   messageVars, threadVars, clientVars, opens, mode>>

\* Mutant: the handler thread does not override EmitWakeupSignal().
NoWakeupSignal ==
    /\ opc = "wakeup"
    /\ opc' = "join"
    /\ UNCHANGED <<portVars, handlerVars, messageVars, threadVars, clientVars,
                   opens, mode>>

EmitWakeupSignal ==
    /\ opc = "wakeup"
    /\ opc' = "join"
    /\ enqueueEvent' = (enqueueEvent \/ mode # "runthrough")
    /\ UNCHANGED <<queue, stopRequest, openedEvent, handledEvent, handlerVars,
                   messageVars, threadVars, clientVars, opens, mode>>

(* The thread has ended; Close() then detaches all handlers.               *)
Join ==
    /\ opc = "join" /\ tpc = "off"
    /\ opc' = "closed"
    /\ handlers' = <<>>
    /\ UNCHANGED <<portVars, open, closedUnopened, messageVars, threadVars,
                   clientVars, opens, mode>>

-----------------------------------------------------------------------------
\* Mutant: AttachHandler() does not look whether the handler is attached.
AttachAgain(h) ==
    /\ Len(handlers) < 3
    /\ handlers' = Append(handlers, h)
    /\ UNCHANGED <<portVars, open, closedUnopened, messageVars, threadVars,
                   clientVars, ownerVars, mode>>

(* Handlers come and go.  The array's critical section is recursive and    *)
(* AttachHandler() and RemoveHandler() are called by handlers as well      *)
(* (render plugins register in the render thread), so they interleave with *)
(* the handling of messages.                                               *)
AttachHandler(h) ==
    /\ h \notin Range(handlers)
    /\ handlers' = Append(handlers, h)
    /\ UNCHANGED <<portVars, open, closedUnopened, messageVars, threadVars,
                   clientVars, ownerVars, mode>>

RemoveHandler(h) ==
    /\ \E i \in DOMAIN handlers :
          handlers[i] = h /\ handlers' = RemoveAt(handlers, i)
    /\ UNCHANGED <<portVars, open, closedUnopened, messageVars, threadVars,
                   clientVars, ownerVars, mode>>

-----------------------------------------------------------------------------
(* The clients.                                                            *)
SignalOnEnqueue == mode # "runthrough"

\* Mutant: Enqueue() asks whether the queue was empty when it no longer is.
SendWithoutSignal(c, m) ==
    /\ cpc[c] = "idle"
    /\ m \notin sent \cup handled
    /\ sent' = sent \cup {m}
    /\ queue' = Append(queue, m)
    /\ cmsg' = [cmsg EXCEPT ![c] = m]
    /\ cpc' = [cpc EXCEPT ![c] = IF queue' = <<>> THEN "signal" ELSE "idle"]
    /\ UNCHANGED <<enqueueEvent, stopRequest, openedEvent, handledEvent,
                   handlerVars, messageVars, threadVars, ownerVars, mode>>

(* AsyncPort::Send(), SafeQueue::Enqueue(): the message is in the queue    *)
(* before the event is signalled.  Nothing asks whether the port is open.  *)
Send(c, m) ==
    /\ cpc[c] = "idle"
    /\ m \notin sent \cup handled
    /\ sent' = sent \cup {m}
    /\ queue' = Append(queue, m)
    /\ cmsg' = [cmsg EXCEPT ![c] = m]
    /\ cpc' = [cpc EXCEPT ![c] = IF SignalOnEnqueue THEN "signal" ELSE "idle"]
    /\ UNCHANGED <<enqueueEvent, stopRequest, openedEvent, handledEvent,
                   handlerVars, messageVars, threadVars, ownerVars, mode>>

SignalEnqueue(c) ==
    /\ cpc[c] = "signal"
    /\ enqueueEvent' = TRUE
    /\ cpc' = [cpc EXCEPT ![c] = "idle"]
    /\ UNCHANGED <<queue, stopRequest, openedEvent, handledEvent, handlerVars,
                   messageVars, threadVars, cmsg, sent, ownerVars, mode>>

(* AsyncPort::Wait() for the message sent last.                            *)
Wait(c) ==
    /\ cpc[c] = "idle" /\ cmsg[c] \in Messages
    /\ cpc' = [cpc EXCEPT ![c] = "check"]
    /\ UNCHANGED <<portVars, handlerVars, messageVars, threadVars, cmsg, sent,
                   ownerVars, mode>>

(* The loop of WaitForMessage(): look at the flag, wait for the event.     *)
CheckHandled(c) ==
    /\ cpc[c] = "check"
    /\ cpc' = [cpc EXCEPT ![c] = IF cmsg[c] \in handled THEN "idle" ELSE "blocked"]
    /\ cmsg' = [cmsg EXCEPT ![c] = IF @ \in handled THEN "none" ELSE @]
    /\ UNCHANGED <<portVars, handlerVars, messageVars, threadVars, sent, ownerVars,
                   mode>>

WakeWaiter(c) ==
    /\ cpc[c] = "blocked" /\ handledEvent
    /\ handledEvent' = FALSE
    /\ cpc' = [cpc EXCEPT ![c] = "check"]
    /\ UNCHANGED <<queue, enqueueEvent, stopRequest, openedEvent, handlerVars,
                   messageVars, threadVars, cmsg, sent, ownerVars, mode>>

(* SafeQueue::EraseMatchingElements(); a message is in the queue once.     *)
EraseMatchingElements(s, m) ==
    IF m \in Range(s) THEN RemoveAt(s, CHOOSE i \in DOMAIN s : s[i] = m) ELSE s

(* AsyncPort::Cancel(): the message leaves the queue if it is still there. *)
Cancel(c) ==
    /\ cpc[c] = "idle" /\ cmsg[c] \in Messages
    /\ queue' = EraseMatchingElements(queue, cmsg[c])
    /\ cmsg' = [cmsg EXCEPT ![c] = "none"]
    /\ UNCHANGED <<enqueueEvent, stopRequest, openedEvent, handledEvent,
                   handlerVars, messageVars, threadVars, cpc, sent, ownerVars,
                   mode>>

(* Whoever a handler left a deferred message to sets its flag.             *)
SetDeferredHandled(m) ==
    /\ m \in deferredMessages \ deferredHandled
    /\ deferredHandled' = deferredHandled \cup {m}
    /\ UNCHANGED <<portVars, handlerVars, handled, threadVars, clientVars,
                   ownerVars, mode>>

-----------------------------------------------------------------------------
(* The handler thread.                                                     *)
ThreadOpenHandlers ==
    /\ tpc = "start" /\ tpc' = "loop"
    /\ open' = open \cup Range(handlers)
    /\ openedEvent' = TRUE
    /\ UNCHANGED <<queue, enqueueEvent, stopRequest, handledEvent, handlers,
                   closedUnopened, messageVars, deferredMessages, msgArray,
                   msgHandled, shown, clientVars, ownerVars, mode>>

(* ThreadStopRequested() consumes the request.                             *)
ThreadStopRequested ==
    /\ tpc = "loop"
    /\ tpc' = IF stopRequest THEN "shutdown" ELSE "wait"
    /\ stopRequest' = FALSE
    /\ UNCHANGED <<queue, enqueueEvent, openedEvent, handledEvent, handlerVars,
                   messageVars, deferredMessages, msgArray, msgHandled, shown,
                   clientVars, ownerVars, mode>>

\* Mutant: deferred messages are looked at only when there is something to do.
DeferredIfMessages ==
    /\ tpc = "wait"
    /\ tpc' = IF queue # <<>> THEN "deferred"
              ELSE IF SignalOnEnqueue THEN "blocked" ELSE "dequeue"
    /\ UNCHANGED <<portVars, handlerVars, messageVars, deferredMessages, msgArray,
                   msgHandled, shown, clientVars, ownerVars, mode>>

(* SafeQueue::Wait() waits for the event only if the queue is empty ...    *)
WaitForQueue ==
    /\ tpc = "wait"
    /\ tpc' = IF SignalOnEnqueue /\ queue = <<>> THEN "blocked" ELSE "deferred"
    /\ UNCHANGED <<portVars, handlerVars, messageVars, deferredMessages, msgArray,
                   msgHandled, shown, clientVars, ownerVars, mode>>

WakeThread ==
    /\ tpc = "blocked" /\ tpc' = "deferred"
    /\ enqueueEvent /\ enqueueEvent' = FALSE
    /\ UNCHANGED <<queue, stopRequest, openedEvent, handledEvent, handlerVars,
                   messageVars, deferredMessages, msgArray, msgHandled, shown,
                   clientVars, ownerVars, mode>>

(* ... and WaitTimeout() not for ever.                                     *)
TimeOut ==
    /\ mode = "timeout"
    /\ tpc = "blocked" /\ tpc' = "deferred"
    /\ UNCHANGED <<portVars, handlerVars, messageVars, deferredMessages, msgArray,
                   msgHandled, shown, clientVars, ownerVars, mode>>

ThreadUpdateDeferredMessages ==
    /\ tpc = "deferred" /\ tpc' = "dequeue"
    /\ LET done == deferredMessages \cap deferredHandled
       IN /\ deferredMessages' = deferredMessages \ done
          /\ handled' = handled \cup done
          /\ msgHandled' = (done # {})
    /\ UNCHANGED <<portVars, handlerVars, deferredHandled, msgArray, shown,
                   clientVars, ownerVars, mode>>

\* Mutant: DequeueAll() does not clear the queue.
CopyAll ==
    /\ tpc = "dequeue"
    /\ tpc' = IF queue = <<>> THEN "signal" ELSE "handle"
    /\ msgArray' = queue
    /\ UNCHANGED <<portVars, handlerVars, messageVars, deferredMessages, msgHandled,
                   shown, clientVars, ownerVars, mode>>

(* IsEmpty() and DequeueAll(): only this thread dequeues, and a Cancel()   *)
(* between the two only makes the array empty.                             *)
DequeueAll ==
    /\ tpc = "dequeue"
    /\ tpc' = IF queue = <<>> THEN "signal" ELSE "handle"
    /\ msgArray' = queue
    /\ queue' = <<>>
    /\ UNCHANGED <<enqueueEvent, stopRequest, openedEvent, handledEvent,
                   handlerVars, messageVars, deferredMessages, msgHandled, shown,
                   clientVars, ownerVars, mode>>

(* The messages a message stands for: itself and, if a batch, its parts.   *)
Delivers(m) == {m} \cup (IF m \in DOMAIN Parts THEN Parts[m] ELSE {})

(* The handlers that ThreadHandleSingleMessage() shows a message: all up   *)
(* to the first that accepts it.  It opens those that are not open.        *)
AskedBy(m) ==
    {handlers[i] : i \in {j \in DOMAIN handlers :
        \A k \in 1 .. (j - 1) : handlers[k] \notin Accepts[m]}}

Accepted(m) == Accepts[m] \cap Range(handlers) # {}

\* Mutant: msgHandled = ThreadHandleSingleMessage(msg) in place of |=.
KeepLastResult ==
    /\ tpc = "handle" /\ msgArray # <<>>
    /\ LET m == Head(msgArray)
           accepted == {x \in Delivers(m) \ DOMAIN Parts : Accepted(x)}
       IN \E deferred \in SUBSET (accepted \cap Deferrable) :
            /\ deferredMessages' = deferredMessages \cup deferred
            /\ handled' = handled \cup (accepted \ deferred) \cup ({m} \cap DOMAIN Parts)
            /\ msgHandled' = (accepted # deferred \/ m \in DOMAIN Parts)
            /\ open' = open \cup UNION {AskedBy(x) : x \in Delivers(m) \ DOMAIN Parts}
            /\ shown' = shown \cup Delivers(m)
    /\ msgArray' = Tail(msgArray)
    /\ UNCHANGED <<portVars, handlers, closedUnopened, deferredHandled, tpc,
                   clientVars, ownerVars, mode>>

(* ThreadHandleMessages(), one message of the array: an accepted message   *)
(* is handled unless its handler defers it; a batch is always handled.     *)
(* (It is one step, as its sender can wait for the batch only.)            *)
HandleMessage ==
    /\ tpc = "handle" /\ msgArray # <<>>
    /\ LET m == Head(msgArray)
           accepted == {x \in Delivers(m) \ DOMAIN Parts : Accepted(x)}
       IN \E deferred \in SUBSET (accepted \cap Deferrable) :
            /\ deferredMessages' = deferredMessages \cup deferred
            /\ handled' = handled \cup (accepted \ deferred) \cup ({m} \cap DOMAIN Parts)
            /\ msgHandled' = (msgHandled \/ accepted # deferred \/ m \in DOMAIN Parts)
            /\ open' = open \cup UNION {AskedBy(x) : x \in Delivers(m) \ DOMAIN Parts}
            /\ shown' = shown \cup Delivers(m)
    /\ msgArray' = Tail(msgArray)
    /\ UNCHANGED <<portVars, handlers, closedUnopened, deferredHandled, tpc,
                   clientVars, ownerVars, mode>>

\* Mutant: the loop does not signal the handled messages.
ForgetSignal ==
    /\ tpc = "handle" /\ msgArray = <<>>
    /\ tpc' = "update"
    /\ UNCHANGED <<portVars, handlerVars, messageVars, deferredMessages, msgArray,
                   msgHandled, shown, clientVars, ownerVars, mode>>

MessagesHandled ==
    /\ tpc = "handle" /\ msgArray = <<>>
    /\ tpc' = "signal"
    /\ UNCHANGED <<portVars, handlerVars, messageVars, deferredMessages, msgArray,
                   msgHandled, shown, clientVars, ownerVars, mode>>

ThreadSignalMessageHandled ==
    /\ tpc = "signal" /\ tpc' = "update"
    /\ handledEvent' = (handledEvent \/ msgHandled)
    /\ msgHandled' = FALSE
    /\ UNCHANGED <<queue, enqueueEvent, stopRequest, openedEvent, handlerVars,
                   messageVars, deferredMessages, msgArray, shown, clientVars,
                   ownerVars, mode>>

ThreadUpdateHandlers ==
    /\ tpc = "update" /\ tpc' = "loop"
    /\ open' = open \cup Range(handlers)
    /\ UNCHANGED <<portVars, handlers, closedUnopened, messageVars,
                   deferredMessages, msgArray, msgHandled, shown, clientVars,
                   ownerVars, mode>>

(* ThreadDiscardDeferredMessages() and ThreadCloseHandlers(); closing a    *)
(* handler that is not open fails the assertion in Handler::Close().       *)
Shutdown ==
    /\ tpc = "shutdown" /\ tpc' = "off"
    /\ deferredMessages' = {}
    /\ open' = open \ Range(handlers)
    /\ closedUnopened' = closedUnopened \cup (Range(handlers) \ open)
    /\ UNCHANGED <<portVars, handlers, messageVars, msgArray, msgHandled, shown,
                   clientVars, ownerVars, mode>>

-----------------------------------------------------------------------------
OwnerStep == WaitForHandlersOpened \/ EmitWakeupSignal \/ Join
ClientStep(c) == SignalEnqueue(c) \/ CheckHandled(c) \/ WakeWaiter(c)
ThreadStep ==
    \/ ThreadOpenHandlers \/ ThreadStopRequested \/ WaitForQueue \/ WakeThread
    \/ TimeOut \/ ThreadUpdateDeferredMessages \/ DequeueAll \/ HandleMessage
    \/ MessagesHandled \/ ThreadSignalMessageHandled \/ ThreadUpdateHandlers
    \/ Shutdown

Inner == UNION Range(Parts)

Next ==
    \/ Open \/ Stop \/ OwnerStep \/ ThreadStep
    \/ \E c \in Clients, m \in Messages \ Inner : Send(c, m)
    \/ \E c \in Waiters : Wait(c)
    \/ \E c \in Clients : Cancel(c) \/ ClientStep(c)
    \/ \E m \in Messages : SetDeferredHandled(m)
    \/ \E h \in LateHandlers : AttachHandler(h)
    \/ \E h \in Removable : RemoveHandler(h)

Spec == Init /\ [][Next]_vars

(* The scheduler runs every thread that can run.  Nobody has to open or    *)
(* close the port, to send, to wait or to complete a deferred message.     *)
Fairness ==
    /\ WF_vars(OwnerStep) /\ WF_vars(ThreadStep)
    /\ \A c \in Clients : WF_vars(ClientStep(c))

FairSpec == Spec /\ Fairness

-----------------------------------------------------------------------------
(* Properties                                                              *)

(* The handler thread does not sleep beside a message: if it sleeps and    *)
(* the queue is not empty, the event is set or its sender is about to set  *)
(* it.  (SafeQueue::Wait() looks at the queue and sleeps in two steps.)    *)
NoLostMessage ==
    tpc = "blocked" /\ queue # <<>> =>
        enqueueEvent \/ \E c \in Clients : cpc[c] = "signal"

(* A stop request is not slept through: "it is important that this method  *)
(* is called AFTER the stopRequestEvent is signalled".                     *)
NoMissedStop ==
    opc = "join" /\ tpc = "blocked" => stopRequest /\ enqueueEvent

(* One client that waits for a handled message is woken: the event is set  *)
(* or the handler thread will still set it in this round.                  *)
WaiterSignalled ==
    \A c \in Clients : cpc[c] = "blocked" /\ cmsg[c] \in handled =>
        handledEvent \/ msgHandled

(* Once the handler thread has ended, no handler is left open: each was    *)
(* closed in the thread, also those that were attached late.               *)
NoHandlerLeftOpen == tpc \in {"off", "start"} => open = {}

(* n_assert(this->IsOpen()) in Handler::Close(): "Open ... is called once  *)
(* after the handler has been attached to a port".  It holds for handlers  *)
(* attached before the port is opened; one attached after the last pass of *)
(* ThreadUpdateHandlers() is closed unopened.                              *)
OnlyOpenHandlersClosed == closedUnopened = {}

(* Open() and Close() of the handlers are paired.                          *)
HandlersPaired == NoHandlerLeftOpen /\ OnlyOpenHandlersClosed

(* A port that stays open delivers what it was sent, unless cancelled.     *)
MessagesDelivered ==
    \A m \in Messages :
        (opc = "open" /\ m \in Range(queue)) ~>
            (opc # "open" \/ m \notin Range(queue \o msgArray))

(* A port that stays open notices that a deferred message was handled: it  *)
(* does unless its thread waits for new messages for ever.                 *)
DeferredCompleted ==
    \A m \in Messages :
        (mode # "blocking" /\ opc = "open" /\ m \in deferredMessages \cap deferredHandled) ~>
            (opc # "open" \/ m \in handled)

(* "This method will wait until a message has been handled": Wait()        *)
(* returns when the message has been handled.                              *)
WaitReturns ==
    \A c \in Clients :
        (cpc[c] = "blocked" /\ cmsg[c] \in handled) ~> (cpc[c] # "blocked")

(* Close() returns: the thread ends, whatever it was doing.                *)
CloseReturns == opc = "join" ~> opc = "closed"

(* The port keeps its promise: messages are delivered once and in order.   *)
Port == INSTANCE MessagePort WITH
    pending <- msgArray \o queue,
    delivered <- shown,
    handled <- handled
ImplementsPort == Port!Spec
=============================================================================
