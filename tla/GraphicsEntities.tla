-------------------------- MODULE GraphicsEntities --------------------------
(***************************************************************************)
(* A Graphics::ModelEntity of the main thread and its counterpart, the     *)
(* InternalGraphics::InternalModelEntity of the render thread, from the    *)
(* attachment to a stage until the removal.                                *)
(*                                                                         *)
(* They are tied by messages in one direction (create and discard are sent *)
(* at once, all others are batched until the end of the main thread's      *)
(* frame), by an ObjectRef the render thread validates, and by a           *)
(* FrameSyncSharedData, whose use count says who has to create and destroy *)
(* its data objects (who may access them when is told in FrameSync).       *)
(*                                                                         *)
(* The two threads meet at the sync point of module FrameSync: in          *)
(* lock-step mode (RenderApplication) in a barrier whose wait may time     *)
(* out, otherwise (GraphicsFeatureUnit) the render thread goes on alone    *)
(* and signals an event the main thread waits for in every frame.  The     *)
(* module leaves off where the main thread completes a round without the   *)
(* render thread, which flips the queue under the render thread's hands.   *)
(* Models come from module ManagedModels.  A failed assertion ends the     *)
(* program; cause says why.                                                *)
(***************************************************************************)
EXTENDS Naturals, Sequences, SequencesExt

CONSTANTS
    Entity,         \* attachments: an entity attached again is another one
    Model, NoModel,
    ModelOf,        \* the model each entity shows
    MaxPlays        \* bound: animation clips the main thread plays on each entity

ASSUME EntityAssumption ==
    /\ ModelOf \in [Entity -> Model]
    /\ NoModel \notin Model
    /\ MaxPlays \in [Entity -> Nat]

VARIABLES
    uses, status, broken, aborted,      \* of ManagedModels
    lockStep,       \* the mode of the frame synchronization
    outstandingThreads,     \* how many threads the barrier's round still misses
    frameSyncEvent,
    mainPc, owner,  \* what the main thread does, and to whose shared data
    renderPc, client,   \* the same of the render thread
    phase,          \* the main thread's side of each entity
    batch,          \* batched messages
    msgQueue,       \* messages sent and not flipped yet
    msgArray,       \* messages of the frame the render thread works on
    entities,       \* of the internal stage, in the order of their creation
    entityIndex,    \* how many of them are still to be updated in this frame
    refs,           \* entities whose ObjectRef is valid
    valid,          \* entities whose internal entity has its model
    deferred,       \* deferred messages of each internal entity
    useCount, dataObjects, dataObjectSize,  \* of each FrameSyncSharedData
    sent, played,   \* history: clips sent to an entity, clips it has started
    trouble,        \* history: what was unfinished when an entity was removed
    cause           \* history: the entity and the assertion that ended the program

M == INSTANCE ManagedModels WITH User <- Entity

modelVars == <<uses, status, broken, aborted>>
syncVars == <<lockStep, outstandingThreads, frameSyncEvent>>
mainVars == <<mainPc, owner>>
renderVars == <<renderPc, client, entityIndex>>
entityVars == <<entities, refs, valid, deferred, played>>
sharedVars == <<useCount, dataObjects, dataObjectSize>>
gameVars == <<phase, batch, sent, trouble>>
vars == <<modelVars, syncVars, mainVars, renderVars, entityVars, sharedVars, gameVars,
          msgQueue, msgArray, cause>>

Nobody == "none"
Play == [kind : {"play"}, entity : Entity, clip : Nat]
Message == Play \cup [kind : {"create", "discard"}, entity : Entity]

TypeOK ==
    /\ uses \in [Entity -> Model \cup {NoModel}]
    /\ status \in [Model -> M!Status]
    /\ {broken, aborted, lockStep, frameSyncEvent} \subseteq BOOLEAN
    /\ outstandingThreads \in {1, 2}
    /\ mainPc \in {"frame", "destroy", "clear", "sync", "wait", "outrun"}
    /\ renderPc \in {"sync", "wait", "handle", "create", "cull", "write"}
    /\ {owner, client} \subseteq Entity \cup {Nobody}
    /\ phase \in [Entity -> {"new", "attached", "removed"}]
    /\ batch \in Seq(Play) /\ msgQueue \in Seq(Message) /\ msgArray \in Seq(Message)
    /\ entities \in Seq(Entity) /\ entityIndex \in 0 .. Len(entities)
    /\ refs \cup valid \subseteq Entity
    /\ deferred \in [Entity -> Seq(Nat)]
    /\ played \in [Entity -> Seq(Nat)]
    /\ useCount \in [Entity -> 0 .. 2]
    /\ dataObjects \in [Entity -> BOOLEAN] /\ dataObjectSize \in [Entity -> BOOLEAN]
    /\ sent \in [Entity -> Nat] /\ \A e \in Entity : sent[e] <= MaxPlays[e]
    /\ trouble \in [Entity -> SUBSET {"uncreated", "batched", "unplayed", "unsettled"}]
    /\ cause \in [entity : Entity \cup {"none"}, why : {"none", "ref", "data", "deferred", "model"}]

Init ==
    /\ M!Init
    /\ lockStep \in BOOLEAN /\ outstandingThreads = 2 /\ frameSyncEvent = FALSE
    /\ mainPc = "sync" /\ owner = Nobody
    /\ renderPc = "sync" /\ client = Nobody
    /\ entities = <<>> /\ entityIndex = 0
    /\ phase = [e \in Entity |-> "new"]
    /\ batch = <<>> /\ msgQueue = <<>> /\ msgArray = <<>>
    /\ refs = {} /\ valid = {}
    /\ deferred = [e \in Entity |-> <<>>] /\ played = [e \in Entity |-> <<>>]
    /\ useCount = [e \in Entity |-> 0]
    /\ dataObjects = [e \in Entity |-> FALSE] /\ dataObjectSize = [e \in Entity |-> FALSE]
    /\ sent = [e \in Entity |-> 0] /\ trouble = [e \in Entity |-> {}]
    /\ cause = [entity |-> "none", why |-> "none"]

(* A failed n_assert() ends the program.                                   *)
Blame(e, why) == cause' = [entity |-> e, why |-> why]
Fail(e, why) ==
    /\ aborted' = TRUE /\ Blame(e, why)
    /\ UNCHANGED <<uses, status, broken, syncVars, mainVars, renderVars, entityVars,
                   sharedVars, gameVars, msgQueue, msgArray>>

-----------------------------------------------------------------------------
(* The main thread's frame.                                                *)

MainGoto(from, to) == ~aborted /\ mainPc = from /\ mainPc' = to

Create(e) == [kind |-> "create", entity |-> e]
Discard(e) == [kind |-> "discard", entity |-> e]
Send(messages) == msgQueue' = msgQueue \o messages

(* Stage::AttachEntity(): OwnerSetup() of new shared data, then the        *)
(* CreateModelEntity message, not batched.                                 *)
AttachEntity(e) ==
    /\ MainGoto("frame", "frame")
    /\ phase[e] = "new"
    /\ phase' = [phase EXCEPT ![e] = "attached"]
    /\ useCount' = [useCount EXCEPT ![e] = 1]
    /\ dataObjects' = [dataObjects EXCEPT ![e] = TRUE]
    /\ dataObjectSize' = [dataObjectSize EXCEPT ![e] = TRUE]
    /\ Send(<<Create(e)>>)
    /\ UNCHANGED <<modelVars, syncVars, owner, renderVars, entityVars, batch, sent, trouble,
                   msgArray, cause>>

(* Any of the messages the render thread defers, as AnimPlayClip.          *)
PlayClip(e) ==
    /\ MainGoto("frame", "frame")
    /\ phase[e] = "attached" /\ sent[e] < MaxPlays[e]
    /\ sent' = [sent EXCEPT ![e] = @ + 1]
    /\ batch' = Append(batch, [kind |-> "play", entity |-> e, clip |-> sent'[e]])
    /\ UNCHANGED <<modelVars, syncVars, owner, renderVars, entityVars, sharedVars, phase,
                   trouble, msgQueue, msgArray, cause>>

(* What the render thread has not got to yet.                              *)
Trouble(e) ==
    {t \in {"uncreated", "batched", "unplayed", "unsettled"} :
        CASE t = "uncreated" -> e \notin refs
          [] t = "batched" -> \E i \in DOMAIN batch : batch[i].entity = e
          [] t = "unplayed" -> Len(played[e]) # sent[e]
          [] OTHER -> uses[e] = NoModel \/ status[uses[e]] # "settled"}

\* Mutant: OwnerDiscard() destroys the data objects whatever the use count is.
RemoveAndDestroy(e) ==
    /\ phase[e] = "attached"
    /\ phase' = [phase EXCEPT ![e] = "removed"]
    /\ trouble' = [trouble EXCEPT ![e] = Trouble(e)]
    /\ useCount' = [useCount EXCEPT ![e] = @ - 1]
    /\ MainGoto("frame", "destroy")
    /\ owner' = e
    /\ UNCHANGED <<modelVars, syncVars, renderVars, entityVars, dataObjects, dataObjectSize,
                   batch, sent, msgQueue, msgArray, cause>>

(* Stage::RemoveEntity(): OwnerDiscard(), then the DiscardGraphicsEntity   *)
(* message, not batched.  As the last user of the shared data the main     *)
(* thread destroys the data objects before it sends the message.           *)
RemoveEntity(e) ==
    /\ phase[e] = "attached"
    /\ phase' = [phase EXCEPT ![e] = "removed"]
    /\ trouble' = [trouble EXCEPT ![e] = Trouble(e)]
    /\ useCount' = [useCount EXCEPT ![e] = @ - 1]
    /\ \/ /\ useCount[e] = 1
          /\ MainGoto("frame", "destroy")
          /\ owner' = e
          /\ UNCHANGED msgQueue
       \/ /\ useCount[e] # 1
          /\ MainGoto("frame", "frame")
          /\ Send(<<Discard(e)>>)
          /\ UNCHANGED owner
    /\ UNCHANGED <<modelVars, syncVars, renderVars, entityVars, dataObjects, dataObjectSize,
                   batch, sent, msgArray, cause>>

(* DestroyDataObjects(): the pointers first ...                            *)
DestroyObjects ==
    /\ MainGoto("destroy", "clear")
    /\ dataObjects' = [dataObjects EXCEPT ![owner] = FALSE]
    /\ UNCHANGED <<modelVars, syncVars, owner, renderVars, entityVars, useCount,
                   dataObjectSize, gameVars, msgQueue, msgArray, cause>>

(* ... and the size after them.                                            *)
ClearSize ==
    /\ MainGoto("clear", "frame")
    /\ dataObjectSize' = [dataObjectSize EXCEPT ![owner] = FALSE]
    /\ Send(<<Discard(owner)>>)
    /\ owner' = Nobody
    /\ UNCHANGED <<modelVars, syncVars, renderVars, entityVars, useCount, dataObjects,
                   gameVars, msgArray, cause>>

(* FlushBatchedMessages() at the end of the frame.                         *)
EndFrame ==
    /\ MainGoto("frame", "sync")
    /\ Send(batch) /\ batch' = <<>>
    /\ UNCHANGED <<modelVars, syncVars, owner, renderVars, entityVars, sharedVars, phase,
                   sent, trouble, msgArray, cause>>

-----------------------------------------------------------------------------
(* The sync point.                                                         *)

RenderGoto(from, to) == ~aborted /\ renderPc = from /\ renderPc' = to

\* Mutant: SignalContinue() does not reset the count.
CountDown == outstandingThreads - 1

(* Arrive() counts, and SignalContinue() of the last thread starts again.  *)
CountArrival == IF outstandingThreads = 1 THEN 2 ELSE outstandingThreads - 1

(* SyncFlipMessageQueue()                                                  *)
Flip ==
    /\ msgArray' = msgQueue
    /\ msgQueue' = <<>>

(* In lock-step mode the threads meet in the barrier: the first to arrive  *)
(* waits, the last one flips the queue and releases it.  The main thread   *)
(* may also be the last one because the render thread gave up waiting or   *)
(* because it gave up itself: the module does not follow it then.          *)
MainArrive ==
    /\ lockStep
    /\ \/ /\ outstandingThreads = 2
          /\ MainGoto("sync", "wait")
          /\ UNCHANGED <<renderPc, msgQueue, msgArray>>
       \/ /\ outstandingThreads = 1 /\ renderPc = "wait"
          /\ MainGoto("sync", "frame") /\ renderPc' = "handle"
          /\ Flip
       \/ /\ outstandingThreads = 1 /\ renderPc # "wait"
          /\ MainGoto("sync", "outrun")
          /\ UNCHANGED <<renderPc, msgQueue, msgArray>>
    /\ outstandingThreads' = CountArrival
    /\ UNCHANGED <<modelVars, lockStep, frameSyncEvent, owner, client, entityIndex, entityVars,
                   sharedVars, gameVars, cause>>

(* If the render thread is the last one it does the same, whether the main *)
(* thread is in the barrier or somewhere in its frame.                     *)
RenderArrive ==
    /\ lockStep
    /\ \/ /\ outstandingThreads = 2
          /\ RenderGoto("sync", "wait")
          /\ UNCHANGED <<mainPc, msgQueue, msgArray>>
       \/ /\ outstandingThreads = 1
          /\ RenderGoto("sync", "handle")
          /\ mainPc' = IF mainPc = "wait" THEN "frame" ELSE mainPc
          /\ Flip
    /\ outstandingThreads' = CountArrival
    /\ UNCHANGED <<modelVars, lockStep, frameSyncEvent, owner, client, entityIndex, entityVars,
                   sharedVars, gameVars, cause>>

(* Wait() times out: the thread goes on as if it had been released, and    *)
(* does not give its count back.                                           *)
MainGiveUp ==
    /\ MainGoto("wait", "frame")
    /\ UNCHANGED <<modelVars, syncVars, owner, renderVars, entityVars, sharedVars, gameVars,
                   msgQueue, msgArray, cause>>

RenderGiveUp ==
    /\ RenderGoto("wait", "handle")
    /\ UNCHANGED <<modelVars, syncVars, mainVars, client, entityIndex, entityVars, sharedVars,
                   gameVars, msgQueue, msgArray, cause>>

(* Otherwise the render thread synchronizes alone.                         *)
RenderSync ==
    /\ ~lockStep
    /\ RenderGoto("sync", "handle")
    /\ Flip
    /\ frameSyncEvent' = TRUE
    /\ UNCHANGED <<modelVars, lockStep, outstandingThreads, mainVars, client, entityIndex,
                   entityVars, sharedVars, gameVars, cause>>

(* The main thread waits for the event of any frame since its last wait.   *)
MainSync ==
    /\ ~lockStep /\ frameSyncEvent
    /\ MainGoto("sync", "frame")
    /\ frameSyncEvent' = FALSE
    /\ UNCHANGED <<modelVars, lockStep, outstandingThreads, owner, renderVars, entityVars, sharedVars,
                   gameVars, msgQueue, msgArray, cause>>

-----------------------------------------------------------------------------
(* The render thread's frame: first the messages.                          *)

Head1(kind, e) == msgArray # <<>> /\ Head(msgArray).kind = kind /\ Head(msgArray).entity = e

\* Mutant: an entity that becomes valid forgets what it has deferred.
ForgetDeferred(e) ==
    /\ valid' = valid \cup {e}
    /\ deferred' = [deferred EXCEPT ![e] = <<>>]
    /\ UNCHANGED played

(* ValidateModelInstance(), if the model is usable: HandleDeferredMessages *)
Validate(e) ==
    /\ valid' = valid \cup {e}
    /\ played' = [played EXCEPT ![e] = @ \o deferred[e]]
    /\ deferred' = [deferred EXCEPT ![e] = <<>>]

(* The rest of the CreateModelEntity handler: InternalStage::AttachEntity()*)
(* activates the entity, which asks for its model; the ref is validated.   *)
Activate(e) ==
    /\ M!Acquire(e, ModelOf[e])
    /\ IF M!Usable(ModelOf[e]) THEN Validate(e) ELSE UNCHANGED <<valid, deferred, played>>
    /\ entities' = Append(entities, e)
    /\ refs' = refs \cup {e}
    /\ msgArray' = Tail(msgArray)
    /\ UNCHANGED cause

(* The handler of CreateModelEntity up to ClientSetup(): if the main       *)
(* thread has discarded the shared data before, it is created again.       *)
ClientSetup(e) ==
    /\ Head1("create", e)
    /\ useCount' = [useCount EXCEPT ![e] = @ + 1]
    /\ IF useCount[e] = 0
       THEN /\ RenderGoto("handle", "create")
            /\ UNCHANGED <<modelVars, entityVars, msgArray, cause>>
       ELSE RenderGoto("handle", "handle") /\ Activate(e)
    /\ UNCHANGED <<syncVars, mainVars, client, entityIndex, dataObjects, dataObjectSize, gameVars,
                   msgQueue>>

(* CreateDataObjects() asserts that there are none.                        *)
CreateDataObjects(e) ==
    /\ Head1("create", e)
    /\ \/ /\ dataObjects[e]
          /\ ~aborted /\ renderPc = "create"
          /\ Fail(e, "data")
       \/ /\ ~dataObjects[e]
          /\ RenderGoto("create", "handle")
          /\ dataObjects' = [dataObjects EXCEPT ![e] = TRUE]
          /\ dataObjectSize' = [dataObjectSize EXCEPT ![e] = TRUE]
          /\ Activate(e)
          /\ UNCHANGED <<syncVars, mainVars, client, entityIndex, useCount, gameVars, msgQueue>>

(* The handler of AnimPlayClip: deferred as long as the entity is not      *)
(* valid.  (The model it then has, the placeholder included, is assumed to *)
(* have a character, which the handler asserts.)                           *)
HandlePlay(e) ==
    /\ Head1("play", e) /\ e \in refs
    /\ RenderGoto("handle", "handle")
    /\ IF e \in valid
       THEN /\ played' = [played EXCEPT ![e] = Append(@, Head(msgArray).clip)]
            /\ UNCHANGED deferred
       ELSE /\ deferred' = [deferred EXCEPT ![e] = Append(@, Head(msgArray).clip)]
            /\ UNCHANGED played
    /\ msgArray' = Tail(msgArray)
    /\ UNCHANGED <<modelVars, syncVars, mainVars, client, entityIndex, entities, refs, valid, sharedVars,
                   gameVars, msgQueue, cause>>

(* HandleMessage() asserts that the ref of the entity is valid.            *)
RefInvalid(e) ==
    /\ ~aborted /\ renderPc = "handle"
    /\ Head1("play", e) \/ Head1("discard", e)
    /\ e \notin refs
    /\ Fail(e, "ref")

\* Mutant: the internal entity does not discard its shared data.
DiscardWithoutData(e) ==
    /\ Head1("discard", e) /\ e \in refs /\ deferred[e] = <<>>
    /\ RenderGoto("handle", "handle")
    /\ M!Release(e)
    /\ \E i \in DOMAIN entities : entities[i] = e /\ entities' = RemoveAt(entities, i)
    /\ refs' = refs \ {e} /\ valid' = valid \ {e}
    /\ msgArray' = Tail(msgArray)
    /\ UNCHANGED <<syncVars, mainVars, client, entityIndex, deferred, played, sharedVars, gameVars,
                   msgQueue, cause>>

(* The handler of DiscardGraphicsEntity: InternalStage::RemoveEntity()     *)
(* deactivates the entity, which gives its model back and, as the last     *)
(* user, destroys the shared data; the ref is invalidated.  (Of trouble,   *)
(* only batched messages can do harm after that.)                          *)
HandleDiscard(e) ==
    /\ Head1("discard", e) /\ e \in refs /\ deferred[e] = <<>>
    /\ useCount[e] = 1 => dataObjectSize[e]
    /\ RenderGoto("handle", "handle")
    /\ M!Release(e)
    /\ useCount' = [useCount EXCEPT ![e] = @ - 1]
    /\ dataObjects' = [dataObjects EXCEPT ![e] = useCount[e] # 1]
    /\ dataObjectSize' = [dataObjectSize EXCEPT ![e] = useCount[e] # 1]
    /\ \E i \in DOMAIN entities : entities[i] = e /\ entities' = RemoveAt(entities, i)
    /\ refs' = refs \ {e} /\ valid' = valid \ {e}
    /\ trouble' = [trouble EXCEPT ![e] = @ \cap {"batched"}]
    /\ msgArray' = Tail(msgArray)
    /\ UNCHANGED <<syncVars, mainVars, client, entityIndex, deferred, played, phase, batch, sent,
                   msgQueue, cause>>

(* What may fail on the way: messages are still deferred, the model cannot *)
(* be given back, the size of the data objects is not theirs.              *)
DiscardFails(e) ==
    /\ Head1("discard", e) /\ e \in refs
    /\ ~aborted /\ renderPc = "handle"
    /\ \/ deferred[e] # <<>> /\ Fail(e, "deferred")
       \/ /\ deferred[e] = <<>>
          /\ M!ReleaseFails(e) /\ Blame(e, "model")
          /\ UNCHANGED <<syncVars, mainVars, renderVars, entityVars, sharedVars, gameVars,
                         msgQueue, msgArray>>
       \/ /\ deferred[e] = <<>> /\ useCount[e] = 1 /\ ~dataObjectSize[e]
          /\ Fail(e, "data")

-----------------------------------------------------------------------------
(* Then the update of resources and entities.                              *)

\* The frame is over when no entity is left to be updated.
CullOr(index) == IF index = 0 THEN "sync" ELSE "cull"

(* InternalGraphicsServer::OnFrame() begins with Prepare() and, if there   *)
(* is a default view with a camera, as is assumed, goes on with its stage. *)
Prepare ==
    /\ msgArray = <<>>
    /\ RenderGoto("handle", CullOr(Len(entities)))
    /\ M!Progress
    /\ entityIndex' = Len(entities)
    /\ UNCHANGED <<syncVars, mainVars, client, entityVars, sharedVars, gameVars, msgQueue,
                   msgArray, cause>>

(* OnCullBefore() of the stage, from the last entity to the first:         *)
(* OnResetSharedData() writes the shared data through Client(), which      *)
(* asserts the size (as the later calls of the frame do, which then find   *)
(* it, since the render thread itself is a user of the data) ...           *)
BeginWrite(e) ==
    /\ entityIndex > 0 /\ e = entities[entityIndex]
    /\ \/ /\ ~dataObjectSize[e]
          /\ ~aborted /\ renderPc = "cull"
          /\ Fail(e, "data")
       \/ /\ dataObjectSize[e]
          /\ RenderGoto("cull", "write")
          /\ client' = e
          /\ UNCHANGED <<modelVars, syncVars, mainVars, entityIndex, entityVars, sharedVars,
                         gameVars, msgQueue, msgArray, cause>>

\* Mutant: an entity asks for its model only when it is activated.
EndWriteUnasked ==
    /\ RenderGoto("write", CullOr(entityIndex - 1))
    /\ client' = Nobody
    /\ entityIndex' = entityIndex - 1
    /\ UNCHANGED <<modelVars, syncVars, mainVars, entityVars, sharedVars, gameVars, msgQueue,
                   msgArray, cause>>

(* ... and OnCullBefore() of the entity asks for its model again.  (The    *)
(* removal of entities marked for it does not occur: nothing marks any.)   *)
EndWrite ==
    LET e == client
    IN /\ RenderGoto("write", CullOr(entityIndex - 1))
       /\ client' = Nobody
       /\ entityIndex' = entityIndex - 1
       /\ IF e \notin valid /\ M!Usable(ModelOf[e])
          THEN Validate(e)
          ELSE UNCHANGED <<valid, deferred, played>>
       /\ UNCHANGED <<modelVars, syncVars, mainVars, entities, refs, sharedVars, gameVars, msgQueue,
                      msgArray, cause>>

-----------------------------------------------------------------------------
Game(e) == AttachEntity(e) \/ PlayClip(e) \/ RemoveEntity(e)
Finish == DestroyObjects \/ ClearSize
Handle(e) == \/ ClientSetup(e) \/ CreateDataObjects(e) \/ HandlePlay(e) \/ RefInvalid(e)
             \/ HandleDiscard(e) \/ DiscardFails(e)
Cull == (\E e \in Entity : BeginWrite(e)) \/ EndWrite
Render == RenderArrive \/ RenderSync \/ (\E e \in Entity : Handle(e)) \/ Prepare \/ Cull

Aborted == aborted /\ UNCHANGED vars

Next ==
    \/ \E e \in Entity : Game(e)
    \/ Finish \/ EndFrame \/ MainSync \/ MainArrive \/ MainGiveUp
    \/ Render \/ RenderGiveUp
    \/ Aborted

Spec == Init /\ [][Next]_vars

Serve(m) == Prepare /\ ~M!Usable(m) /\ ~broken /\ status'[m] \in {"usable", "settled"}

(* Threads run and waits time out; the game comes to the end of its frame, *)
(* whatever else it does in it; a model that is used gets usable           *)
(* (ModelsServed of ResourceLoading).                                      *)
FairSpec ==
    /\ Spec
    /\ WF_vars(Finish \/ MainSync \/ MainArrive \/ MainGiveUp) /\ SF_vars(EndFrame)
    /\ WF_vars(Render \/ RenderGiveUp)
    /\ \A m \in Model : SF_vars(Serve(m))

-----------------------------------------------------------------------------
(* Properties.                                                             *)

Holders(e) == (IF phase[e] = "attached" THEN 1 ELSE 0)
              + (IF e \in Range(entities) \/ (renderPc = "create" /\ Head1("create", e)) THEN 1 ELSE 0)

(* The use count of shared data is the number of threads that hold it, and *)
(* whoever holds it finds the data objects, unless the entity was removed  *)
(* before the render thread had created its counterpart.                   *)
SharedDataHeld ==
    \A e \in Entity :
        /\ useCount[e] = Holders(e)
        /\ useCount[e] > 0 /\ "uncreated" \notin trouble[e] => dataObjects[e] /\ dataObjectSize[e]

(* An entity starts the clips in the order in which the main thread sent   *)
(* them, batching, double buffering and deferral notwithstanding, and none *)
(* is lost or started twice: those on their way are the ones after those   *)
(* it has started or deferred, in order.                                   *)
ClipsInOrder ==
    \A e \in Entity :
        LET begun == played[e] \o deferred[e]
            onTheirWay == msgArray \o msgQueue \o batch
            plays == {i \in DOMAIN onTheirWay :
                         onTheirWay[i].kind = "play" /\ onTheirWay[i].entity = e}
        IN /\ \A i \in DOMAIN begun : begun[i] = i
           /\ {onTheirWay[i].clip : i \in plays} = (Len(begun) + 1) .. sent[e]
           /\ \A i, j \in plays : i < j => onTheirWay[i].clip < onTheirWay[j].clip
           /\ Len(begun) <= sent[e]

(* The program only ends for something that was unfinished when the main   *)
(* thread removed the entity, and for the assertion that goes with it: the *)
(* entity still had batched messages, or the render thread had not created *)
(* it, not played its clips or not loaded its model with all textures.     *)
(* Of these the main thread can see its batch only.                        *)
RemovedTooEarly ==
    LET early == CASE cause.why = "ref" -> "batched" [] cause.why = "data" -> "uncreated"
                   [] cause.why = "deferred" -> "unplayed" [] cause.why = "model" -> "unsettled"
    IN aborted => early \in trouble[cause.entity]

(* The render thread catches up with the main thread again and again: the *)
(* clips sent to an entity get started, unless the entity is removed or    *)
(* the program ends.                                                       *)
ClipsStart ==
    []<>(\A e \in Entity :
            Len(played[e]) = sent[e] \/ phase[e] = "removed" \/ broken \/ aborted)

(* A removed entity leaves nothing behind on either side.                  *)
RemovedGoes ==
    []<>(\A e \in Entity : phase[e] = "removed" =>
            aborted \/ (e \notin Range(entities) /\ e \notin refs /\ useCount[e] = 0 /\ ~dataObjects[e]))
=============================================================================
