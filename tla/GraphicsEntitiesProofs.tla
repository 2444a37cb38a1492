----------------------- MODULE GraphicsEntitiesProofs -----------------------
(***************************************************************************)
(* An entity of the main thread and its counterpart on the render thread:  *)
(* the invariant follows the messages of each entity from the batch        *)
(* through the queue and the array to their handler.                       *)
(***************************************************************************)
EXTENDS GraphicsEntities, SequenceLemmas

-----------------------------------------------------------------------------
(* The inductive invariant.                                                *)

(* Messages in flight, the oldest first.                                   *)
Stream == msgArray \o msgQueue

(* What may come before what: of one entity the create message is the      *)
(* first, nothing follows the discard message but messages that were       *)
(* batched when the entity was removed, and clips come in order.           *)
MayPrecede ==
    {p \in Message \X Message :
        p[1].entity = p[2].entity =>
            /\ p[2].kind # "create"
            /\ p[1].kind = "discard" => p[2].kind = "play" /\ "batched" \in trouble[p[1].entity]
            /\ p[1].kind = "play" /\ p[2].kind = "play" => p[1].clip < p[2].clip}

InOrder ==
    /\ Along(Stream, MayPrecede) /\ Along(batch, MayPrecede)
    /\ \A x \in Range(Stream), y \in Range(batch) : <<x, y>> \in MayPrecede

(* The main thread destroys the data objects of e.                         *)
Destroying(e) == mainPc \in {"destroy", "clear"} /\ owner = e

(* e is removed and its discard message is not handled yet.                *)
Leaving(e) == phase[e] = "removed" /\ (Discard(e) \in Range(Stream) \/ Destroying(e))

(* Which messages an entity has in flight, by its phase.                   *)
NewUnknown ==
    \A e \in Entity : phase[e] = "new" =>
        /\ \A x \in Range(Stream) \cup Range(batch) : x.entity # e
        /\ trouble[e] = {}
AttachedStays ==
    \A e \in Entity : phase[e] = "attached" => Discard(e) \notin Range(Stream) /\ trouble[e] = {}
RemovedBatched ==
    \A e \in Entity : phase[e] = "removed" =>
        /\ \A y \in Range(batch) : y.entity = e => "batched" \in trouble[e]
        /\ ~Leaving(e) => \A x \in Range(Stream) : x.entity = e => "batched" \in trouble[e]
RemovedUncreated ==
    \A e \in Entity : phase[e] = "removed" /\ Create(e) \in Range(Stream) =>
        Leaving(e) /\ {"uncreated", "unsettled"} \subseteq trouble[e]
DestroyingUncreated ==
    /\ mainPc \in {"destroy", "clear"} => owner \in Entity
    /\ \A e \in Entity : Destroying(e) =>
          phase[e] = "removed" /\ "uncreated" \in trouble[e] /\ Discard(e) \notin Range(Stream)

(* An entity is in its stage, has a valid ref and a model from the create  *)
(* message to the discard message.                                         *)
CreatedWhileHeld ==
    /\ refs = Range(entities) /\ IsInjective(entities)
    /\ \A e \in Entity :
          /\ e \in refs <=> (phase[e] = "attached" \/ Leaving(e)) /\ Create(e) \notin Range(Stream)
          /\ e \in refs <=> uses[e] # NoModel

(* Where the render thread is in its frame.                                *)
RenderPlaces ==
    /\ renderPc \in {"sync", "wait", "cull", "write"} => msgArray = <<>>
    /\ renderPc \in {"cull", "write"} <=> entityIndex > 0
    /\ renderPc = "create" => \A e \in Entity : Head1("create", e) => phase[e] = "removed"
    /\ renderPc = "write" => client \in Entity

(* What was finished when an entity was removed stays so until the discard *)
(* message is handled.                                                     *)
FinishedStays ==
    \A e \in Entity : phase[e] = "removed" =>
        /\ Leaving(e) /\ "unplayed" \notin trouble[e] => Len(played[e]) = sent[e]
        /\ e \in refs /\ "unsettled" \notin trouble[e] => status[uses[e]] \in {"settled", "lost"}

(* Clips of e on their way, and those begun.                               *)
ClipsOf(e, messages) ==
    {x.clip : x \in {y \in messages : y.kind = "play" /\ y.entity = e}}

ClipsFollow ==
    \A e \in Entity :
        /\ \A i \in 1 .. Len(played[e]) : played[e][i] = i
        /\ \A i \in 1 .. Len(deferred[e]) : deferred[e][i] = Len(played[e]) + i
        /\ ClipsOf(e, Range(Stream) \cup Range(batch))
              = (Len(played[e]) + Len(deferred[e]) + 1) .. sent[e]
        /\ Len(played[e]) + Len(deferred[e]) <= sent[e]
        /\ e \in valid => deferred[e] = <<>>

(* The life of each entity, from the create message to the discard         *)
(* message.                                                                *)
Lives ==
    /\ InOrder /\ NewUnknown /\ AttachedStays
    /\ RemovedBatched /\ RemovedUncreated /\ DestroyingUncreated
    /\ CreatedWhileHeld

IInv ==
    /\ TypeOK /\ Lives
    /\ ClipsFollow /\ SharedDataHeld /\ FinishedStays
    /\ RenderPlaces
    /\ RemovedTooEarly

-----------------------------------------------------------------------------
(* The two threads at the barrier.                                         *)
Meet == MainArrive \/ RenderArrive \/ MainGiveUp \/ RenderGiveUp

(* The next-state relation, one step per line.  In the handler of the      *)
(* create message Activate() comes at once or after the data objects have  *)
(* been created.                                                           *)
Activation(e) ==
    /\ Head1("create", e) /\ ~aborted
    /\ renderPc \in {"handle", "create"} /\ renderPc' = "handle"
    /\ Activate(e)
    /\ UNCHANGED <<syncVars, mainVars, client, entityIndex, gameVars, msgQueue>>
    /\ \/ /\ renderPc = "handle" /\ useCount[e] # 0
          /\ useCount' = [useCount EXCEPT ![e] = @ + 1]
          /\ UNCHANGED <<dataObjects, dataObjectSize>>
       \/ /\ renderPc = "create" /\ ~dataObjects[e]
          /\ UNCHANGED useCount
          /\ dataObjects' = [dataObjects EXCEPT ![e] = TRUE]
          /\ dataObjectSize' = [dataObjectSize EXCEPT ![e] = TRUE]

ClientSetupFirst(e) ==
    /\ Head1("create", e) /\ useCount[e] = 0
    /\ RenderGoto("handle", "create")
    /\ useCount' = [useCount EXCEPT ![e] = @ + 1]
    /\ UNCHANGED <<modelVars, entityVars, msgArray, cause, syncVars, mainVars, client,
                   entityIndex, dataObjects, dataObjectSize, gameVars, msgQueue>>

(* A failed assertion changes nothing else.                                *)
Failure(e, why) ==
    /\ ~aborted /\ aborted' = TRUE /\ Blame(e, why)
    /\ UNCHANGED <<uses, status, broken, syncVars, mainVars, renderVars, entityVars,
                   sharedVars, gameVars, msgQueue, msgArray>>

FailureOf(e) ==
    \/ Failure(e, "data") /\ Head1("create", e) /\ renderPc = "create" /\ dataObjects[e]
    \/ Failure(e, "ref") /\ (Head1("play", e) \/ Head1("discard", e)) /\ e \notin refs
    \/ Failure(e, "deferred") /\ Head1("discard", e) /\ e \in refs /\ deferred[e] # <<>>
    \/ Failure(e, "model") /\ Head1("discard", e) /\ e \in refs /\ M!ReleaseFails(e)
    \/ Failure(e, "data") /\ Head1("discard", e) /\ e \in refs /\ useCount[e] = 1
       /\ ~dataObjectSize[e]
    \/ Failure(e, "data") /\ entityIndex > 0 /\ e = entities[entityIndex] /\ ~dataObjectSize[e]

BeginWriteOf(e) ==
    /\ entityIndex > 0 /\ e = entities[entityIndex] /\ dataObjectSize[e]
    /\ RenderGoto("cull", "write")
    /\ client' = e
    /\ UNCHANGED <<modelVars, syncVars, mainVars, entityIndex, entityVars, sharedVars,
                   gameVars, msgQueue, msgArray, cause>>

LEMMA StepsOfNext ==
    ASSUME [Next]_vars
    PROVE  \/ \E e \in Entity :
                 \/ AttachEntity(e) \/ PlayClip(e) \/ RemoveEntity(e)
                 \/ ClientSetupFirst(e) \/ Activation(e) \/ HandlePlay(e) \/ HandleDiscard(e)
                 \/ FailureOf(e) \/ BeginWriteOf(e)
           \/ DestroyObjects \/ ClearSize \/ EndFrame \/ MainSync
           \/ Meet \/ RenderSync \/ Prepare \/ EndWrite
           \/ UNCHANGED vars
<1>1. ASSUME NEW e \in Entity, ClientSetup(e) PROVE ClientSetupFirst(e) \/ Activation(e)
  BY <1>1 DEF ClientSetup, ClientSetupFirst, Activation, RenderGoto
<1>2. ASSUME NEW e \in Entity, CreateDataObjects(e) PROVE FailureOf(e) \/ Activation(e)
  BY <1>2 DEF CreateDataObjects, FailureOf, Failure, Fail, Activation, RenderGoto
<1>3. ASSUME NEW e \in Entity, RefInvalid(e) PROVE FailureOf(e)
  BY <1>3 DEF RefInvalid, FailureOf, Failure, Fail
<1>4. ASSUME NEW e \in Entity, DiscardFails(e) PROVE FailureOf(e)
  BY <1>4 DEF DiscardFails, FailureOf, Failure, Fail, M!ReleaseFails
<1>5. ASSUME NEW e \in Entity, BeginWrite(e) PROVE FailureOf(e) \/ BeginWriteOf(e)
  BY <1>5 DEF BeginWrite, BeginWriteOf, FailureOf, Failure, Fail
<1>6. Aborted => UNCHANGED vars
  BY DEF Aborted
<1> QED
  BY <1>1, <1>2, <1>3, <1>4, <1>5, <1>6 DEF Next, Game, Finish, Meet, Render, Handle, Cull

-----------------------------------------------------------------------------
(* Messages in flight.                                                     *)
LEMMA StreamTypes ==
    ASSUME TypeOK
    PROVE  /\ Stream \in Seq(Message) /\ batch \in Seq(Message)
           /\ Range(Stream) = Range(msgArray) \cup Range(msgQueue)
           /\ Range(Stream) \subseteq Message /\ Range(batch) \subseteq Play
           /\ Play \subseteq Message
<1>1. batch \in Seq(Play) /\ msgQueue \in Seq(Message) /\ msgArray \in Seq(Message)
  BY DEF TypeOK
<1>2. Play \subseteq Message
  BY DEF Message
<1>3. batch \in Seq(Message)
  BY <1>1, <1>2, SeqMonotonic
<1>4. Stream \in Seq(Message) /\ Range(Stream) = Range(msgArray) \cup Range(msgQueue)
  BY <1>1, ConcatElements DEF Stream
<1> QED
  BY <1>1, <1>2, <1>3, <1>4, ElementsOfSeq

(* A message of each kind.                                                 *)
LEMMA Messages ==
    /\ \A x \in Message : /\ x.entity \in Entity /\ x.kind \in {"create", "discard", "play"}
                          /\ x.kind = "create" => x = Create(x.entity)
                          /\ x.kind = "discard" => x = Discard(x.entity)
                          /\ x.kind = "play" => x \in Play /\ x.clip \in Nat
    /\ \A e \in Entity : /\ Create(e) \in Message /\ Create(e).entity = e
                         /\ Create(e).kind = "create"
                         /\ Discard(e) \in Message /\ Discard(e).entity = e
                         /\ Discard(e).kind = "discard"
    /\ \A x \in Play : x.kind = "play"
BY DEF Message, Play, Create, Discard

LEMMA PrecedeFacts ==
    ASSUME NEW x \in Message, NEW y \in Message
    PROVE  <<x, y>> \in MayPrecede <=>
              (x.entity = y.entity =>
                /\ y.kind # "create"
                /\ x.kind = "discard" => y.kind = "play" /\ "batched" \in trouble[x.entity]
                /\ x.kind = "play" /\ y.kind = "play" => x.clip < y.clip)
<1>1. <<x, y>>[1] = x /\ <<x, y>>[2] = y /\ <<x, y>> \in Message \X Message
  OBVIOUS
<1> QED
  BY <1>1 DEF MayPrecede

(* The render thread takes the oldest message.                             *)
LEMMA StreamHandled ==
    ASSUME TypeOK, InOrder, NEW e \in Entity, NEW k, Head1(k, e),
           msgArray' = Tail(msgArray), msgQueue' = msgQueue
    PROVE  /\ Head(msgArray) \in Range(Stream) /\ Head(msgArray) \in Message
           /\ Head(msgArray).entity = e /\ Head(msgArray).kind = k
           /\ Range(Stream) = {Head(msgArray)} \cup Range(Stream')
           /\ Stream' \in Seq(Message) /\ Along(Stream', MayPrecede)
           /\ \A y \in Range(Stream') : <<Head(msgArray), y>> \in MayPrecede
<1>1. msgQueue \in Seq(Message) /\ msgArray \in Seq(Message) /\ msgArray # <<>>
  BY DEF TypeOK, Head1
<1>2. /\ Head(msgArray) = msgArray[1] /\ Head(msgArray) \in Message
      /\ Tail(msgArray) \in Seq(Message)
      /\ Len(Tail(msgArray)) = Len(msgArray) - 1 /\ Len(msgArray) \in Nat \ {0}
      /\ \A i \in 1 .. (Len(msgArray) - 1) : Tail(msgArray)[i] = msgArray[i + 1]
  BY <1>1, HeadTailProperties, EmptySeq
<1>3. /\ Stream \in Seq(Message) /\ Len(Stream) = Len(msgArray) + Len(msgQueue)
      /\ \A i \in 1 .. (Len(msgArray) + Len(msgQueue)) :
            Stream[i] = IF i <= Len(msgArray) THEN msgArray[i] ELSE msgQueue[i - Len(msgArray)]
  BY <1>1, ConcatProperties DEF Stream
<1> DEFINE rest == Tail(msgArray) \o msgQueue
<1>4. /\ rest \in Seq(Message) /\ Len(rest) = Len(msgArray) - 1 + Len(msgQueue)
      /\ \A i \in 1 .. (Len(msgArray) - 1 + Len(msgQueue)) :
            rest[i] = IF i <= Len(msgArray) - 1 THEN Tail(msgArray)[i]
                      ELSE msgQueue[i - (Len(msgArray) - 1)]
  BY <1>1, <1>2, ConcatProperties
<1> HIDE DEF rest
<1>5. Len(msgQueue) \in Nat
  BY <1>1
<1>6. Stream # <<>>
  BY <1>2, <1>3, <1>5
<1>7. /\ Head(Stream) = Stream[1] /\ Tail(Stream) \in Seq(Message)
      /\ Len(Tail(Stream)) = Len(Stream) - 1
      /\ \A i \in 1 .. (Len(Stream) - 1) : Tail(Stream)[i] = Stream[i + 1]
  BY <1>3, <1>6, HeadTailProperties
<1>8. Head(Stream) = Head(msgArray)
  <2>1. 1 \in 1 .. (Len(msgArray) + Len(msgQueue)) /\ 1 <= Len(msgArray)
    BY <1>2, <1>5
  <2> QED
    BY <2>1, <1>2, <1>3, <1>7
<1>9. Tail(Stream) = rest
  <2>1. Len(Tail(Stream)) = Len(rest)
    BY <1>2, <1>3, <1>4, <1>5, <1>7
  <2>2. ASSUME NEW i \in 1 .. Len(rest) PROVE Tail(Stream)[i] = rest[i]
    <3>1. /\ i \in 1 .. (Len(msgArray) - 1 + Len(msgQueue)) /\ i \in 1 .. (Len(Stream) - 1)
          /\ i + 1 \in 1 .. (Len(msgArray) + Len(msgQueue))
          /\ i + 1 - Len(msgArray) = i - (Len(msgArray) - 1)
      BY <2>2, <1>2, <1>3, <1>4, <1>5
    <3>2. Tail(Stream)[i] = Stream[i + 1]
      BY <3>1, <1>7
    <3>3. CASE i <= Len(msgArray) - 1
      <4>1. i + 1 <= Len(msgArray) /\ i \in 1 .. (Len(msgArray) - 1)
        BY <3>3, <1>2
      <4> QED
        BY <4>1, <3>1, <3>2, <3>3, <1>2, <1>3, <1>4
    <3>4. CASE ~(i <= Len(msgArray) - 1)
      <4>1. ~(i + 1 <= Len(msgArray))
        BY <3>4, <1>2
      <4> QED
        BY <4>1, <3>1, <3>2, <3>4, <1>3, <1>4
    <3> QED
      BY <3>3, <3>4
  <2> QED
    BY <2>1, <2>2, <1>4, <1>7, <1>3, SeqEqual
<1>10. Stream' = Tail(Stream)
  BY <1>9 DEF Stream, rest
<1>11. Range(Stream) = {Head(Stream)} \cup Range(Tail(Stream))
  BY <1>3, <1>6, TailElements
<1>12. Along(Tail(Stream), MayPrecede) /\ \A y \in Range(Tail(Stream)) : <<Head(Stream), y>> \in MayPrecede
  BY <1>3, <1>6, AlongTail DEF InOrder
<1> QED
  BY <1>2, <1>7, <1>8, <1>10, <1>11, <1>12 DEF Head1

(* The main thread sends messages.                                         *)
LEMMA StreamSent ==
    ASSUME TypeOK, NEW s \in Seq(Message), Send(s), msgArray' = msgArray
    PROVE  /\ Stream' = Stream \o s /\ Stream' \in Seq(Message)
           /\ Range(Stream') = Range(Stream) \cup Range(s)
<1>1. msgQueue \in Seq(Message) /\ msgArray \in Seq(Message)
  BY DEF TypeOK
<1>2. Stream' = Stream \o s
  BY <1>1, ConcatAssociative DEF Stream, Send
<1> QED
  BY <1>2, StreamTypes, ConcatElements

-----------------------------------------------------------------------------
(* The types, in parts: which steps touch what.                            *)
ModelTypes ==
    /\ uses \in [Entity -> Model \cup {NoModel}] /\ status \in [Model -> M!Status]
    /\ {broken, aborted} \subseteq BOOLEAN
ThreadTypes ==
    /\ {lockStep, frameSyncEvent} \subseteq BOOLEAN /\ outstandingThreads \in {1, 2}
    /\ mainPc \in {"frame", "destroy", "clear", "sync", "wait", "outrun"}
    /\ renderPc \in {"sync", "wait", "handle", "create", "cull", "write"}
    /\ {owner, client} \subseteq Entity \cup {Nobody}
GameTypes ==
    /\ phase \in [Entity -> {"new", "attached", "removed"}]
    /\ batch \in Seq(Play) /\ msgQueue \in Seq(Message) /\ msgArray \in Seq(Message)
    /\ sent \in [Entity -> Nat] /\ \A e \in Entity : sent[e] <= MaxPlays[e]
    /\ trouble \in [Entity -> SUBSET {"uncreated", "batched", "unplayed", "unsettled"}]
    /\ cause \in [entity : Entity \cup {"none"}, why : {"none", "ref", "data", "deferred", "model"}]
EntityTypes ==
    /\ entities \in Seq(Entity) /\ entityIndex \in 0 .. Len(entities)
    /\ refs \cup valid \subseteq Entity
    /\ deferred \in [Entity -> Seq(Nat)] /\ played \in [Entity -> Seq(Nat)]
SharedTypes ==
    /\ useCount \in [Entity -> 0 .. 2]
    /\ dataObjects \in [Entity -> BOOLEAN] /\ dataObjectSize \in [Entity -> BOOLEAN]

LEMMA TypesInParts ==
    TypeOK <=> ModelTypes /\ ThreadTypes /\ GameTypes /\ EntityTypes /\ SharedTypes
BY DEF TypeOK, ModelTypes, ThreadTypes, GameTypes, EntityTypes, SharedTypes

LEMMA ModelsKeepTypes ==
    ASSUME TypeOK,
           \/ \E e \in Entity : M!Acquire(e, ModelOf[e]) \/ M!Release(e)
           \/ M!Progress
           \/ UNCHANGED <<uses, status, broken>> /\ aborted' \in BOOLEAN
    PROVE  ModelTypes'
<1>t. ModelTypes
  BY TypesInParts
<1>1. ASSUME NEW e \in Entity, M!Acquire(e, ModelOf[e]) PROVE ModelTypes'
  BY <1>1, <1>t, EntityAssumption DEF M!Acquire, ModelTypes
<1>2. ASSUME NEW e \in Entity, M!Release(e) PROVE ModelTypes'
  <2>1. /\ uses' = [uses EXCEPT ![e] = NoModel] /\ aborted' = aborted
        /\ \/ UNCHANGED <<status, broken>>
           \/ broken' \in BOOLEAN /\ status' = [status EXCEPT ![uses[e]] = "pending"]
           \/ broken' \in BOOLEAN /\ \E lost \in SUBSET Model :
                status' = [m \in Model |-> IF m = uses[e] THEN "pending"
                                           ELSE IF m \in lost THEN "lost" ELSE status[m]]
    BY <1>2, <1>t DEF M!Release, ModelTypes
  <2>2. {"pending", "lost"} \subseteq M!Status
    BY DEF M!Status
  <2>3. status' \in [Model -> M!Status]
    BY <2>1, <2>2, <1>t DEF ModelTypes
  <2> QED
    BY <2>1, <2>3, <1>t DEF ModelTypes
<1>3. CASE M!Progress
  BY <1>3, <1>t DEF M!Progress, ModelTypes
<1>4. CASE UNCHANGED <<uses, status, broken>> /\ aborted' \in BOOLEAN
  BY <1>4, <1>t DEF ModelTypes
<1> QED
  BY <1>1, <1>2, <1>3, <1>4

LEMMA NextModelTypes == TypeOK /\ [Next]_vars => ModelTypes'
<1> SUFFICES ASSUME TypeOK, [Next]_vars PROVE ModelTypes'
  OBVIOUS
<1>t. aborted \in BOOLEAN
  BY DEF TypeOK
<1>1. ASSUME NEW e \in Entity, Activation(e) PROVE ModelTypes'
  BY <1>1, ModelsKeepTypes DEF Activation, Activate
<1>2. ASSUME NEW e \in Entity, HandleDiscard(e) PROVE ModelTypes'
  BY <1>2, ModelsKeepTypes DEF HandleDiscard
<1>3. CASE Prepare
  BY <1>3, ModelsKeepTypes DEF Prepare
<1>4. ASSUME NEW e \in Entity, FailureOf(e) PROVE ModelTypes'
  BY <1>4, ModelsKeepTypes DEF FailureOf, Failure
<1>5. ASSUME UNCHANGED modelVars PROVE ModelTypes'
  BY <1>5, <1>t, ModelsKeepTypes DEF modelVars
<1>6. ASSUME NEW e \in Entity,
             \/ AttachEntity(e) \/ PlayClip(e) \/ RemoveEntity(e)
             \/ ClientSetupFirst(e) \/ HandlePlay(e) \/ BeginWriteOf(e)
      PROVE  UNCHANGED modelVars
  BY <1>6 DEF AttachEntity, PlayClip, RemoveEntity, ClientSetupFirst, HandlePlay,
              BeginWriteOf
<1>7. DestroyObjects \/ ClearSize \/ EndFrame \/ MainSync
      \/ Meet \/ RenderSync \/ EndWrite \/ UNCHANGED vars
      => UNCHANGED modelVars
  BY DEF DestroyObjects, ClearSize, EndFrame, MainSync, Meet, MainArrive, RenderArrive,
         MainGiveUp, RenderGiveUp, RenderSync, Flip,
         EndWrite, vars
<1> QED
  BY <1>1, <1>2, <1>3, <1>4, <1>5, <1>6, <1>7, StepsOfNext

LEMMA NextThreadTypes == TypeOK /\ [Next]_vars => ThreadTypes'
<1> SUFFICES ASSUME TypeOK, [Next]_vars PROVE ThreadTypes'
  OBVIOUS
<1>t. ThreadTypes
  BY TypesInParts
<1>a. CountArrival \in {1, 2}
  BY <1>t DEF CountArrival, ThreadTypes
<1>1. ASSUME NEW e \in Entity,
             \/ AttachEntity(e) \/ PlayClip(e) \/ RemoveEntity(e)
      PROVE  ThreadTypes'
  BY <1>1, <1>t, <1>a DEF ThreadTypes, AttachEntity, PlayClip, RemoveEntity, MainGoto,
                          syncVars, mainVars, renderVars
<1>2. ASSUME NEW e \in Entity,
             \/ ClientSetupFirst(e) \/ Activation(e) \/ HandlePlay(e) \/ HandleDiscard(e)
             \/ FailureOf(e) \/ BeginWriteOf(e)
      PROVE  ThreadTypes'
  BY <1>2, <1>t, <1>a DEF ThreadTypes, ClientSetupFirst, Activation, HandlePlay, HandleDiscard,
                          FailureOf, Failure, BeginWriteOf, RenderGoto,
                          syncVars, mainVars, renderVars
<1>3. CASE DestroyObjects \/ ClearSize \/ EndFrame \/ MainSync
  BY <1>3, <1>t, <1>a DEF ThreadTypes, DestroyObjects, ClearSize, EndFrame, MainSync,
                          MainGoto, syncVars, mainVars, renderVars
<1>4. CASE Meet \/ RenderSync \/ Prepare \/ EndWrite \/ UNCHANGED vars
  BY <1>4, <1>t, <1>a DEF ThreadTypes, CountArrival, Meet, MainArrive, RenderArrive, MainGiveUp,
                          RenderGiveUp, RenderSync, Flip, Prepare, EndWrite, CullOr,
                          MainGoto, RenderGoto, syncVars, mainVars, renderVars, vars
<1> QED
  BY <1>1, <1>2, <1>3, <1>4, StepsOfNext

LEMMA SendTypes ==
    ASSUME TypeOK
    PROVE  /\ \A e \in Entity : msgQueue \o <<Create(e)>> \in Seq(Message)
                                /\ msgQueue \o <<Discard(e)>> \in Seq(Message)
           /\ msgQueue \o batch \in Seq(Message)
           /\ \A e \in Entity : \A n \in Nat :
                 Append(batch, [kind |-> "play", entity |-> e, clip |-> n]) \in Seq(Play)
           /\ msgArray # <<>> => Tail(msgArray) \in Seq(Message)
           /\ <<>> \in Seq(Message) /\ <<>> \in Seq(Play)
<1>1. msgQueue \in Seq(Message) /\ msgArray \in Seq(Message) /\ batch \in Seq(Play)
      /\ batch \in Seq(Message)
  BY StreamTypes DEF TypeOK
<1>2. ASSUME NEW m \in Message PROVE msgQueue \o <<m>> \in Seq(Message)
  BY <1>1, ConcatProperties, SingletonElements
<1>3. msgQueue \o batch \in Seq(Message)
  BY <1>1, ConcatProperties
<1>4. ASSUME NEW m \in Play PROVE Append(batch, m) \in Seq(Play)
  BY <1>1, AppendProperties
<1>5. \A e \in Entity : \A n \in Nat : [kind |-> "play", entity |-> e, clip |-> n] \in Play
  BY DEF Play
<1>6. msgArray # <<>> => Tail(msgArray) \in Seq(Message)
  BY <1>1, HeadTailProperties
<1> QED
  BY <1>2, <1>3, <1>4, <1>5, <1>6, Messages

LEMMA NextGameTypes == TypeOK /\ DestroyingUncreated /\ [Next]_vars => GameTypes'
<1> SUFFICES ASSUME TypeOK, DestroyingUncreated, [Next]_vars PROVE GameTypes'
  OBVIOUS
<1>t. GameTypes
  BY TypesInParts
<1>1. ASSUME NEW e \in Entity, AttachEntity(e) PROVE GameTypes'
  <2>1. msgQueue' \in Seq(Message)
    BY <1>1, SendTypes DEF AttachEntity, Send
  <2>2. phase' = [phase EXCEPT ![e] = "attached"] /\ UNCHANGED <<batch, sent, trouble, msgArray, cause>>
    BY <1>1 DEF AttachEntity
  <2> QED
    BY <2>1, <2>2, <1>t DEF GameTypes
<1>2. ASSUME NEW e \in Entity, PlayClip(e) PROVE GameTypes'
  <2>1. sent[e] + 1 \in Nat /\ sent[e] + 1 <= MaxPlays[e]
    BY <1>2, <1>t, EntityAssumption DEF GameTypes, PlayClip
  <2>2. /\ sent' = [sent EXCEPT ![e] = sent[e] + 1] /\ sent'[e] = sent[e] + 1
        /\ batch' = Append(batch, [kind |-> "play", entity |-> e, clip |-> sent[e] + 1])
        /\ UNCHANGED <<phase, msgQueue, msgArray, trouble, cause>>
    BY <1>2, <1>t DEF GameTypes, PlayClip
  <2>3. sent' \in [Entity -> Nat] /\ \A f \in Entity : sent'[f] <= MaxPlays[f]
    BY <2>1, <2>2, <1>t DEF GameTypes
  <2>4. batch' \in Seq(Play)
    BY <2>1, <2>2, SendTypes
  <2> QED
    BY <2>2, <2>3, <2>4, <1>t DEF GameTypes
<1>3. ASSUME NEW e \in Entity, RemoveEntity(e) PROVE GameTypes'
  <2>1. Trouble(e) \in SUBSET {"uncreated", "batched", "unplayed", "unsettled"}
    BY DEF Trouble
  <2> QED
    BY <1>3, <2>1, <1>t, SendTypes DEF GameTypes, RemoveEntity, Send
<1>4. CASE ClearSize
  <2>1. owner \in Entity
    BY <1>4 DEF ClearSize, MainGoto, DestroyingUncreated
  <2> QED
    BY <1>4, <2>1, <1>t, SendTypes DEF GameTypes, ClearSize, Send, gameVars
<1>5. CASE EndFrame
  BY <1>5, <1>t, SendTypes DEF GameTypes, EndFrame, Send
<1>6. CASE Meet \/ RenderSync
  BY <1>6, <1>t, SendTypes DEF GameTypes, Meet, MainArrive, RenderArrive, MainGiveUp,
                               RenderGiveUp, RenderSync, Flip, gameVars
<1>7. ASSUME NEW e \in Entity, Activation(e) \/ HandlePlay(e) \/ HandleDiscard(e) PROVE GameTypes'
  <2>1. msgArray' \in Seq(Message)
    BY <1>7, SendTypes DEF Activation, Activate, HandlePlay, HandleDiscard, Head1
  <2>2. UNCHANGED <<phase, batch, sent, msgQueue, cause>>
    BY <1>7 DEF Activation, Activate, HandlePlay, HandleDiscard, gameVars
  <2>3. trouble' \in {trouble, [trouble EXCEPT ![e] = @ \cap {"batched"}]}
    BY <1>7 DEF Activation, Activate, HandlePlay, HandleDiscard, gameVars
  <2>4. trouble' \in [Entity -> SUBSET {"uncreated", "batched", "unplayed", "unsettled"}]
    BY <2>3, <1>t DEF GameTypes
  <2> QED
    BY <2>1, <2>2, <2>4, <1>t DEF GameTypes
<1>8. ASSUME NEW e \in Entity, FailureOf(e) PROVE GameTypes'
  <2>1. \E why \in {"none", "ref", "data", "deferred", "model"} : cause' = [entity |-> e, why |-> why]
    BY <1>8 DEF FailureOf, Failure, Blame
  <2>2. UNCHANGED <<gameVars, msgQueue, msgArray>>
    BY <1>8 DEF FailureOf, Failure
  <2> QED
    BY <2>1, <2>2, <1>t DEF GameTypes, gameVars
<1>9. ASSUME NEW e \in Entity, ClientSetupFirst(e) \/ BeginWriteOf(e) PROVE GameTypes'
  BY <1>9, <1>t DEF GameTypes, ClientSetupFirst, BeginWriteOf, gameVars
<1>10. CASE DestroyObjects \/ MainSync \/ Prepare \/ EndWrite \/ UNCHANGED vars
  BY <1>10, <1>t DEF GameTypes, DestroyObjects, MainSync, Prepare, EndWrite, gameVars, vars
<1> QED
  BY <1>1, <1>2, <1>3, <1>4, <1>5, <1>6, <1>7, <1>8, <1>9, <1>10, StepsOfNext

LEMMA ValidateTypes ==
    ASSUME EntityTypes, NEW e \in Entity, Validate(e)
    PROVE  /\ valid' \subseteq Entity
           /\ deferred' \in [Entity -> Seq(Nat)] /\ played' \in [Entity -> Seq(Nat)]
<1>1. played[e] \in Seq(Nat) /\ deferred[e] \in Seq(Nat)
  BY DEF EntityTypes
<1>2. played[e] \o deferred[e] \in Seq(Nat) /\ <<>> \in Seq(Nat)
  BY <1>1, ConcatProperties
<1> QED
  BY <1>2 DEF EntityTypes, Validate

LEMMA NextEntityTypes ==
    TypeOK /\ CreatedWhileHeld /\ RenderPlaces /\ [Next]_vars => EntityTypes'
<1> SUFFICES ASSUME TypeOK, CreatedWhileHeld, RenderPlaces, [Next]_vars
             PROVE  EntityTypes'
  OBVIOUS
<1>t. EntityTypes
  BY TypesInParts
<1>l. Len(entities) \in Nat
  BY <1>t DEF EntityTypes
<1>1. ASSUME NEW e \in Entity, Activation(e) PROVE EntityTypes'
  <2>1. Append(entities, e) \in Seq(Entity) /\ Len(Append(entities, e)) = Len(entities) + 1
    BY <1>t, AppendProperties DEF EntityTypes
  <2>2. entities' = Append(entities, e) /\ entityIndex' = entityIndex /\ refs' = refs \cup {e}
    BY <1>1 DEF Activation, Activate
  <2>3. /\ valid' \subseteq Entity
        /\ deferred' \in [Entity -> Seq(Nat)] /\ played' \in [Entity -> Seq(Nat)]
    <3>1. Validate(e) \/ UNCHANGED <<valid, deferred, played>>
      BY <1>1 DEF Activation, Activate
    <3> QED
      BY <3>1, <1>t, ValidateTypes DEF EntityTypes
  <2>4. entityIndex' \in 0 .. Len(entities')
    BY <2>1, <2>2, <1>l, <1>t DEF EntityTypes
  <2> QED
    BY <2>1, <2>2, <2>3, <2>4, <1>t DEF EntityTypes
<1>2. ASSUME NEW e \in Entity, HandlePlay(e) PROVE EntityTypes'
  <2>1. Head(msgArray).clip \in Nat
    <3>1. Head(msgArray) \in Message /\ Head(msgArray).kind = "play"
      BY <1>2, HeadTailProperties DEF HandlePlay, Head1, TypeOK
    <3> QED
      BY <3>1, Messages
  <2>2. /\ Append(played[e], Head(msgArray).clip) \in Seq(Nat)
        /\ Append(deferred[e], Head(msgArray).clip) \in Seq(Nat)
    BY <2>1, <1>t, AppendProperties DEF EntityTypes
  <2> QED
    BY <1>2, <2>2, <1>t DEF EntityTypes, HandlePlay
<1>3. ASSUME NEW e \in Entity, HandleDiscard(e) PROVE EntityTypes'
  <2>1. PICK i \in DOMAIN entities : entities' = RemoveAt(entities, i)
    BY <1>3 DEF HandleDiscard
  <2>2. entities' \in Seq(Entity) /\ Len(entities') \in Nat
    BY <2>1, <1>t, RemoveAtProperties, ElementsOfSeq DEF EntityTypes
  <2>3. entityIndex = 0
    BY <1>3, <1>t DEF HandleDiscard, RenderGoto, RenderPlaces, EntityTypes
  <2> QED
    BY <1>3, <2>2, <2>3, <1>t DEF EntityTypes, HandleDiscard
<1>4. CASE Prepare
  BY <1>4, <1>t, <1>l DEF EntityTypes, Prepare, entityVars
<1>5. CASE EndWrite
  <2>1. client \in Entity /\ entityIndex > 0
    BY <1>5 DEF EndWrite, RenderGoto, RenderPlaces
  <2>2. /\ valid' \subseteq Entity
        /\ deferred' \in [Entity -> Seq(Nat)] /\ played' \in [Entity -> Seq(Nat)]
    <3>1. Validate(client) \/ UNCHANGED <<valid, deferred, played>>
      BY <1>5 DEF EndWrite
    <3> QED
      BY <3>1, <2>1, <1>t, ValidateTypes DEF EntityTypes
  <2>3. entityIndex' = entityIndex - 1 /\ UNCHANGED <<entities, refs>>
    BY <1>5 DEF EndWrite
  <2> QED
    BY <2>1, <2>2, <2>3, <1>l, <1>t DEF EntityTypes
<1>6. ASSUME UNCHANGED <<entityVars, entityIndex>> PROVE EntityTypes'
  BY <1>6, <1>t DEF EntityTypes, entityVars
<1>7. ASSUME NEW e \in Entity,
             \/ AttachEntity(e) \/ PlayClip(e) \/ RemoveEntity(e)
             \/ ClientSetupFirst(e) \/ FailureOf(e) \/ BeginWriteOf(e)
      PROVE  UNCHANGED <<entityVars, entityIndex>>
  BY <1>7 DEF AttachEntity, PlayClip, RemoveEntity, ClientSetupFirst, FailureOf, Failure,
              BeginWriteOf, renderVars
<1>8. DestroyObjects \/ ClearSize \/ EndFrame \/ MainSync
      \/ Meet \/ RenderSync \/ UNCHANGED vars
      => UNCHANGED <<entityVars, entityIndex>>
  BY DEF DestroyObjects, ClearSize, EndFrame, MainSync, Meet, MainArrive, RenderArrive,
         MainGiveUp, RenderGiveUp, RenderSync, Flip,
         renderVars, vars
<1> QED
  BY <1>1, <1>2, <1>3, <1>4, <1>5, <1>6, <1>7, <1>8, StepsOfNext

-----------------------------------------------------------------------------
(* The lives of the entities.                                              *)

(* Steps that neither send nor handle a message.                           *)
LEMMA LivesQuiet ==
    ASSUME TypeOK, Lives,
           UNCHANGED <<Stream, batch, phase, trouble, refs, entities, uses>>,
           mainPc' \in {"destroy", "clear"} <=> mainPc \in {"destroy", "clear"},
           mainPc \in {"destroy", "clear"} => owner' = owner
    PROVE  Lives'
<1>1. MayPrecede' = MayPrecede
  BY DEF MayPrecede
<1>2. \A e : Destroying(e)' <=> Destroying(e)
  BY DEF Destroying
<1>3. \A e : Leaving(e)' <=> Leaving(e)
  BY <1>2 DEF Leaving
<1>4. InOrder'
  BY <1>1 DEF Lives, InOrder
<1>5. NewUnknown' /\ AttachedStays' /\ RemovedUncreated'
  BY <1>3 DEF Lives, NewUnknown, AttachedStays, RemovedUncreated
<1>6. RemovedBatched'
  BY <1>3 DEF Lives, RemovedBatched
<1>7. DestroyingUncreated'
  BY <1>2 DEF Lives, DestroyingUncreated
<1>8. CreatedWhileHeld'
  BY <1>3 DEF Lives, CreatedWhileHeld
<1> QED
  BY <1>4, <1>5, <1>6, <1>7, <1>8 DEF Lives

(* What a step adds to trouble does not forbid an order.                   *)
LEMMA PrecedeWider ==
    ASSUME \A e \in Entity : "batched" \in trouble[e] => "batched" \in trouble'[e]
    PROVE  MayPrecede \subseteq MayPrecede'
<1>1. ASSUME NEW p \in Message \X Message PROVE p[1].entity \in Entity
  BY <1>1, Messages
<1> QED
  BY <1>1 DEF MayPrecede

(* The order after a message has been sent, and after one has been         *)
(* handled.                                                                *)
LEMMA OrderSent ==
    ASSUME TypeOK, InOrder, NEW m \in Message,
           Send(<<m>>), msgArray' = msgArray, batch' = batch,
           MayPrecede \subseteq MayPrecede',
           \A x \in Range(Stream) : <<x, m>> \in MayPrecede',
           \A y \in Range(batch) : <<m, y>> \in MayPrecede'
    PROVE  InOrder' /\ Range(Stream') = Range(Stream) \cup {m}
<1>1. <<m>> \in Seq(Message) /\ Range(<<m>>) = {m} /\ Along(<<m>>, MayPrecede')
  BY SingletonElements
<1>2. /\ Stream' = Stream \o <<m>> /\ Stream' \in Seq(Message)
      /\ Range(Stream') = Range(Stream) \cup {m}
  BY <1>1, StreamSent
<1>3. Along(Stream, MayPrecede') /\ Along(batch, MayPrecede')
  BY AlongWider DEF InOrder
<1>4. Along(Stream', MayPrecede')
  BY <1>1, <1>2, <1>3, StreamTypes, ConcatElements
<1> QED
  BY <1>2, <1>3, <1>4 DEF InOrder

LEMMA OrderHandled ==
    ASSUME TypeOK, InOrder, NEW e \in Entity, NEW k, Head1(k, e),
           msgArray' = Tail(msgArray), msgQueue' = msgQueue, batch' = batch,
           MayPrecede \subseteq MayPrecede'
    PROVE  InOrder'
<1>1. /\ Along(Stream', MayPrecede)
      /\ Range(Stream') \subseteq Range(Stream)
  BY StreamHandled
<1>2. Along(Stream', MayPrecede') /\ Along(batch, MayPrecede')
  BY <1>1, AlongWider DEF InOrder
<1> QED
  BY <1>1, <1>2 DEF InOrder

LEMMA LivesAttach ==
    ASSUME TypeOK, Lives, NEW e \in Entity, AttachEntity(e)
    PROVE  Lives' /\ Range(Stream') = Range(Stream) \cup {Create(e)}
<1>t. /\ phase \in [Entity -> {"new", "attached", "removed"}] /\ mainPc = "frame"
      /\ trouble \in [Entity -> SUBSET {"uncreated", "batched", "unplayed", "unsettled"}]
  BY DEF TypeOK, AttachEntity, MainGoto
<1>a. /\ phase[e] = "new" /\ phase' = [phase EXCEPT ![e] = "attached"]
      /\ Send(<<Create(e)>>)
      /\ UNCHANGED <<msgArray, batch, trouble, entities, refs, uses, mainPc, owner>>
  BY DEF AttachEntity, MainGoto, entityVars, modelVars
<1>s. /\ \A x \in Range(Stream) \cup Range(batch) : x.entity # e
      /\ Range(Stream) \subseteq Message /\ Range(batch) \subseteq Message
      /\ trouble[e] = {}
  BY <1>a, StreamTypes DEF Lives, NewUnknown
<1>1. MayPrecede \subseteq MayPrecede'
  BY <1>a, PrecedeWider
<1>2. /\ \A x \in Range(Stream) : <<x, Create(e)>> \in MayPrecede
      /\ \A y \in Range(batch) : <<Create(e), y>> \in MayPrecede
  BY <1>s, Messages, PrecedeFacts
<1>3. InOrder' /\ Range(Stream') = Range(Stream) \cup {Create(e)}
  BY <1>a, <1>1, <1>2, Messages, OrderSent DEF Lives
<1>4. NewUnknown'
  BY <1>a, <1>3, <1>t, Messages DEF Lives, NewUnknown
<1>5. AttachedStays'
  BY <1>a, <1>3, <1>s, <1>t, Messages DEF Lives, AttachedStays
<1>6. \A f \in Entity : (Destroying(f)' <=> Destroying(f)) /\ ~Destroying(f)
  BY <1>a, <1>t DEF Destroying
<1>7. \A f \in Entity : Leaving(f)' <=> Leaving(f)
  BY <1>a, <1>3, <1>6, <1>t, Messages DEF Leaving
<1>u. RemovedUncreated'
  <2> SUFFICES ASSUME NEW f \in Entity, phase'[f] = "removed", Create(f) \in Range(Stream')
               PROVE  Leaving(f)' /\ {"uncreated", "unsettled"} \subseteq trouble'[f]
    BY DEF RemovedUncreated
  <2>1. f # e /\ phase[f] = "removed"
    BY <1>a, <1>t
  <2> QED
    BY <2>1, <1>a, <1>3, <1>7, Messages DEF Lives, RemovedUncreated
<1>8. RemovedBatched'
  <2> SUFFICES ASSUME NEW f \in Entity, phase'[f] = "removed"
               PROVE  /\ \A y \in Range(batch') : y.entity = f => "batched" \in trouble'[f]
                      /\ ~Leaving(f)' => \A x \in Range(Stream') : x.entity = f => "batched" \in trouble'[f]
    BY DEF RemovedBatched
  <2>1. f # e /\ phase[f] = "removed"
    BY <1>a, <1>t
  <2> QED
    BY <2>1, <1>a, <1>3, <1>7, Messages DEF Lives, RemovedBatched
<1>9. DestroyingUncreated'
  BY <1>a, <1>6, <1>t DEF DestroyingUncreated
<1>10. CreatedWhileHeld'
  <2>1. ASSUME NEW f \in Entity
        PROVE  f \in refs' <=> (phase'[f] = "attached" \/ Leaving(f)') /\ Create(f) \notin Range(Stream')
    <3>1. CASE f = e
      BY <3>1, <1>a, <1>3, <1>t, Messages DEF Lives, CreatedWhileHeld, Leaving
    <3>2. CASE f # e
      <4>1. Create(f) \in Range(Stream') <=> Create(f) \in Range(Stream)
        BY <3>2, <1>3, Messages
      <4> QED
        BY <4>1, <3>2, <1>a, <1>7, <1>t DEF Lives, CreatedWhileHeld
    <3> QED
      BY <3>1, <3>2
  <2> QED
    BY <2>1, <1>a DEF Lives, CreatedWhileHeld
<1> QED
  BY <1>3, <1>4, <1>5, <1>u, <1>8, <1>9, <1>10 DEF Lives

LEMMA LivesPlayClip ==
    ASSUME TypeOK, Lives, ClipsFollow, NEW e \in Entity, PlayClip(e)
    PROVE  Lives' /\ Range(batch') = Range(batch) \cup
                        {[kind |-> "play", entity |-> e, clip |-> sent[e] + 1]}
<1> DEFINE m == [kind |-> "play", entity |-> e, clip |-> sent[e] + 1]
<1>t. sent \in [Entity -> Nat] /\ phase \in [Entity -> {"new", "attached", "removed"}]
  BY DEF TypeOK
<1>a. /\ phase[e] = "attached" /\ batch' = Append(batch, m) /\ mainPc = "frame"
      /\ UNCHANGED <<msgArray, msgQueue, phase, trouble, entities, refs, uses, mainPc, owner>>
  BY <1>t DEF PlayClip, MainGoto, entityVars, modelVars
<1>m. m \in Message /\ m \in Play /\ m.kind = "play" /\ m.entity = e /\ m.clip = sent[e] + 1
  BY <1>t DEF Message, Play
<1>s. /\ Range(Stream) \subseteq Message /\ Range(batch) \subseteq Play /\ Play \subseteq Message
      /\ batch \in Seq(Message) /\ Stream' = Stream
  BY <1>a, StreamTypes DEF Stream
<1> HIDE DEF m
<1>1. ASSUME NEW x \in Range(Stream) \cup Range(batch) PROVE <<x, m>> \in MayPrecede
  <2>1. x \in Message
    BY <1>s
  <2>2. ASSUME x.entity = e PROVE x.kind # "discard"
    <3>1. CASE x \in Range(Stream)
      BY <2>1, <2>2, <3>1, <1>a, Messages DEF Lives, AttachedStays
    <3>2. CASE x \in Range(batch)
      BY <3>2, <1>s, Messages
    <3> QED
      BY <3>1, <3>2
  <2>3. ASSUME x.entity = e, x.kind = "play" PROVE x.clip < m.clip
    <3>1. x.clip \in ClipsOf(e, Range(Stream) \cup Range(batch))
      BY <2>3 DEF ClipsOf
    <3>2. x.clip <= sent[e] /\ x.clip \in Nat
      <4>1. /\ x.clip \in (Len(played[e]) + Len(deferred[e]) + 1) .. sent[e]
            /\ x.clip \in Nat
        BY <3>1, <2>1, <2>3, Messages DEF ClipsFollow
      <4>2. Len(played[e]) \in Nat /\ Len(deferred[e]) \in Nat
        BY DEF TypeOK
      <4> QED
        BY <4>1, <4>2
    <3> QED
      BY <3>2, <1>m, <1>t
  <2> QED
    BY <2>1, <2>2, <2>3, <1>m, PrecedeFacts
<1>2. /\ batch' \in Seq(Message) /\ Range(batch') = Range(batch) \cup {m}
      /\ Along(batch', MayPrecede)
  <2>1. batch' = batch \o <<m>>
    BY <1>a, <1>m, <1>s, AppendIsConcat
  <2>2. <<m>> \in Seq(Message) /\ Range(<<m>>) = {m} /\ Along(<<m>>, MayPrecede)
    BY <1>m, SingletonElements
  <2>3. Along(batch, MayPrecede)
    BY DEF Lives, InOrder
  <2>4. \A x \in Range(batch), y \in Range(<<m>>) : <<x, y>> \in MayPrecede
    BY <2>2, <1>1
  <2>5. /\ batch \o <<m>> \in Seq(Message)
        /\ Range(batch \o <<m>>) = Range(batch) \cup Range(<<m>>)
        /\ Along(batch \o <<m>>, MayPrecede)
    BY <2>2, <2>3, <2>4, <1>s, ConcatElements
  <2> QED
    BY <2>1, <2>2, <2>5
<1>3. MayPrecede' = MayPrecede
  BY <1>a DEF MayPrecede
<1>4. InOrder'
  BY <1>1, <1>2, <1>3, <1>s DEF Lives, InOrder
<1>5. \A f \in Entity : (Destroying(f)' <=> Destroying(f)) /\ (Leaving(f)' <=> Leaving(f))
  BY <1>a, <1>s DEF Destroying, Leaving
<1>6. NewUnknown' /\ AttachedStays' /\ RemovedUncreated'
  BY <1>a, <1>2, <1>m, <1>s, <1>5 DEF Lives, NewUnknown, AttachedStays, RemovedUncreated
<1>7. RemovedBatched'
  BY <1>a, <1>2, <1>m, <1>s, <1>5 DEF Lives, RemovedBatched
<1>8. DestroyingUncreated' /\ CreatedWhileHeld'
  BY <1>a, <1>s, <1>5 DEF Lives, DestroyingUncreated, CreatedWhileHeld
<1> QED
  BY <1>2, <1>4, <1>6, <1>7, <1>8 DEF Lives, m

(* What trouble says of an entity that is removed.                         *)
LEMMA TroubleFacts ==
    ASSUME TypeOK, NEW e \in Entity
    PROVE  /\ "uncreated" \in Trouble(e) <=> e \notin refs
           /\ "batched" \in Trouble(e) <=> \E y \in Range(batch) : y.entity = e
           /\ "unplayed" \notin Trouble(e) => Len(played[e]) = sent[e]
           /\ uses[e] = NoModel => "unsettled" \in Trouble(e)
           /\ "unsettled" \notin Trouble(e) => status[uses[e]] = "settled"
<1>1. (\E i \in DOMAIN batch : batch[i].entity = e) <=> \E y \in Range(batch) : y.entity = e
  BY ElementsOfSeq, StreamTypes
<1> QED
  BY <1>1 DEF Trouble

LEMMA LivesRemove ==
    ASSUME TypeOK, Lives, SharedDataHeld, NEW e \in Entity, RemoveEntity(e)
    PROVE  /\ Lives' /\ Leaving(e)'
           /\ Range(Stream') \in {Range(Stream), Range(Stream) \cup {Discard(e)}}
<1>t. /\ phase \in [Entity -> {"new", "attached", "removed"}]
      /\ trouble \in [Entity -> SUBSET {"uncreated", "batched", "unplayed", "unsettled"}]
      /\ useCount \in [Entity -> 0 .. 2]
  BY DEF TypeOK
<1>a. /\ phase[e] = "attached" /\ phase' = [phase EXCEPT ![e] = "removed"]
      /\ trouble' = [trouble EXCEPT ![e] = Trouble(e)] /\ mainPc = "frame"
      /\ UNCHANGED <<msgArray, batch, entities, refs, uses>>
  BY DEF RemoveEntity, MainGoto, entityVars, modelVars
<1>b. \/ useCount[e] = 1 /\ mainPc' = "destroy" /\ owner' = e /\ msgQueue' = msgQueue
      \/ mainPc' = "frame" /\ Send(<<Discard(e)>>)
  BY DEF RemoveEntity, MainGoto
<1>s. /\ Range(Stream) \subseteq Message /\ Range(batch) \subseteq Play /\ Play \subseteq Message
      /\ trouble[e] = {} /\ Discard(e) \notin Range(Stream)
  BY <1>a, StreamTypes DEF Lives, AttachedStays
<1>1. MayPrecede \subseteq MayPrecede'
  BY <1>a, <1>s, <1>t, PrecedeWider
<1>2. /\ InOrder'
      /\ \/ Range(Stream') = Range(Stream) /\ mainPc' = "destroy" /\ owner' = e
            /\ useCount[e] = 1
         \/ Range(Stream') = Range(Stream) \cup {Discard(e)} /\ mainPc' = "frame"
  <2>1. CASE useCount[e] = 1 /\ mainPc' = "destroy" /\ owner' = e /\ msgQueue' = msgQueue
    <3>1. Stream' = Stream /\ batch' = batch
      BY <2>1, <1>a DEF Stream
    <3>2. Along(Stream', MayPrecede') /\ Along(batch', MayPrecede')
      BY <3>1, <1>1, AlongWider DEF Lives, InOrder
    <3> QED
      BY <2>1, <3>1, <3>2, <1>1 DEF Lives, InOrder
  <2>2. CASE mainPc' = "frame" /\ Send(<<Discard(e)>>)
    <3>1. \A x \in Range(Stream) : <<x, Discard(e)>> \in MayPrecede
      BY <1>s, Messages, PrecedeFacts
    <3>2. ASSUME NEW y \in Range(batch) PROVE <<Discard(e), y>> \in MayPrecede'
      <4>1. y \in Message /\ y.kind = "play"
        BY <1>s, Messages
      <4>2. y.entity = e => "batched" \in trouble'[e]
        BY <1>a, <1>t, TroubleFacts
      <4>3. <<Discard(e), y>> \in Message \X Message /\ <<Discard(e), y>>[1] = Discard(e)
            /\ <<Discard(e), y>>[2] = y
        BY <4>1, Messages
      <4> QED
        BY <4>1, <4>2, <4>3, Messages DEF MayPrecede
    <3> QED
      BY <2>2, <3>1, <3>2, <1>a, <1>1, Messages, OrderSent DEF Lives
  <2> QED
    BY <1>b, <2>1, <2>2
<1>3. \A f \in Entity : ~Destroying(f) /\ (Destroying(f)' => f = e)
  BY <1>a, <1>2 DEF Destroying
<1>4. Leaving(e)'
  <2>1. phase'[e] = "removed"
    BY <1>a, <1>t
  <2>2. Discard(e) \in Range(Stream') \/ Destroying(e)'
    BY <1>2 DEF Destroying
  <2> QED
    BY <2>1, <2>2 DEF Leaving
<1>5. ASSUME NEW f \in Entity, f # e
      PROVE  /\ phase'[f] = phase[f] /\ trouble'[f] = trouble[f] /\ (Leaving(f)' <=> Leaving(f))
             /\ (Create(f) \in Range(Stream') <=> Create(f) \in Range(Stream))
             /\ (Discard(f) \in Range(Stream') <=> Discard(f) \in Range(Stream))
             /\ \A x \in Range(Stream') : x.entity = f => x \in Range(Stream)
  <2>1. /\ (Create(f) \in Range(Stream') <=> Create(f) \in Range(Stream))
        /\ (Discard(f) \in Range(Stream') <=> Discard(f) \in Range(Stream))
        /\ \A x \in Range(Stream') : x.entity = f => x \in Range(Stream)
    BY <1>2, <1>5, Messages
  <2>2. phase'[f] = phase[f] /\ trouble'[f] = trouble[f]
    BY <1>5, <1>a, <1>t
  <2> QED
    BY <2>1, <2>2, <1>3, <1>5 DEF Leaving
<1>6. Create(e) \in Range(Stream') <=> Create(e) \in Range(Stream)
  BY <1>2, Messages
<1>7. phase'[e] = "removed" /\ trouble'[e] = Trouble(e)
  BY <1>a, <1>t
<1>8. NewUnknown' /\ AttachedStays'
  BY <1>5, <1>7, <1>a DEF Lives, NewUnknown, AttachedStays
<1>9. RemovedBatched'
  <2> SUFFICES ASSUME NEW f \in Entity, phase'[f] = "removed"
               PROVE  /\ \A y \in Range(batch') : y.entity = f => "batched" \in trouble'[f]
                      /\ ~Leaving(f)' => \A x \in Range(Stream') : x.entity = f => "batched" \in trouble'[f]
    BY DEF RemovedBatched
  <2>1. CASE f = e
    BY <2>1, <1>4, <1>7, <1>a, TroubleFacts
  <2>2. CASE f # e
    BY <2>2, <1>5, <1>a DEF Lives, RemovedBatched
  <2> QED
    BY <2>1, <2>2
<1>10. RemovedUncreated'
  <2> SUFFICES ASSUME NEW f \in Entity, phase'[f] = "removed", Create(f) \in Range(Stream')
               PROVE  Leaving(f)' /\ {"uncreated", "unsettled"} \subseteq trouble'[f]
    BY DEF RemovedUncreated
  <2>1. CASE f = e
    <3>1. e \notin refs /\ uses[e] = NoModel
      BY <2>1, <1>6 DEF Lives, CreatedWhileHeld
    <3> QED
      BY <3>1, <2>1, <1>4, <1>7, TroubleFacts
  <2>2. CASE f # e
    BY <2>2, <1>5 DEF Lives, RemovedUncreated
  <2> QED
    BY <2>1, <2>2
<1>11. DestroyingUncreated'
  <2>1. mainPc' \in {"destroy", "clear"} => owner' = e
    BY <1>2
  <2>2. ASSUME Destroying(e)' PROVE "uncreated" \in trouble'[e] /\ Discard(e) \notin Range(Stream')
    <3>1. useCount[e] = 1 /\ Range(Stream') = Range(Stream)
      BY <2>2, <1>2 DEF Destroying
    <3>2. e \notin refs
      BY <3>1, <1>a DEF SharedDataHeld, Holders, Lives, CreatedWhileHeld
    <3> QED
      BY <3>1, <3>2, <1>7, <1>s, TroubleFacts
  <2> QED
    BY <2>1, <2>2, <1>3, <1>7 DEF DestroyingUncreated
<1>12. CreatedWhileHeld'
  <2>1. ASSUME NEW f \in Entity
        PROVE  f \in refs' <=> (phase'[f] = "attached" \/ Leaving(f)') /\ Create(f) \notin Range(Stream')
    <3>1. CASE f = e
      BY <3>1, <1>a, <1>4, <1>6 DEF Lives, CreatedWhileHeld
    <3>2. CASE f # e
      BY <3>2, <1>a, <1>5 DEF Lives, CreatedWhileHeld
    <3> QED
      BY <3>1, <3>2
  <2> QED
    BY <2>1, <1>a DEF Lives, CreatedWhileHeld
<1> QED
  BY <1>2, <1>4, <1>8, <1>9, <1>10, <1>11, <1>12 DEF Lives

LEMMA LivesClear ==
    ASSUME TypeOK, Lives, ClearSize
    PROVE  /\ Lives' /\ Range(Stream') = Range(Stream) \cup {Discard(owner)}
           /\ \A f \in Entity : Leaving(f)' <=> Leaving(f)
<1> DEFINE e == owner
<1>a. /\ mainPc = "clear" /\ mainPc' = "frame" /\ Send(<<Discard(e)>>)
      /\ UNCHANGED <<msgArray, batch, entities, refs, uses, phase, trouble>>
  BY DEF ClearSize, MainGoto, entityVars, modelVars, gameVars
<1>b. /\ e \in Entity /\ phase[e] = "removed" /\ "uncreated" \in trouble[e]
      /\ Discard(e) \notin Range(Stream) /\ Leaving(e)
  BY <1>a DEF Lives, DestroyingUncreated, Destroying, Leaving
<1>d. \A f : (Destroying(f) <=> f = e) /\ ~Destroying(f)'
  BY <1>a DEF Destroying
<1> HIDE DEF e
<1>s. Range(Stream) \subseteq Message /\ Range(batch) \subseteq Play /\ Play \subseteq Message
  BY StreamTypes
<1>1. MayPrecede' = MayPrecede
  BY <1>a DEF MayPrecede
<1>2. InOrder' /\ Range(Stream') = Range(Stream) \cup {Discard(e)}
  <2>1. \A x \in Range(Stream) : <<x, Discard(e)>> \in MayPrecede
    BY <1>b, <1>s, Messages, PrecedeFacts
  <2>2. \A y \in Range(batch) : <<Discard(e), y>> \in MayPrecede
    BY <1>b, <1>s, Messages, PrecedeFacts DEF Lives, RemovedBatched
  <2> QED
    BY <2>1, <2>2, <1>1, <1>a, <1>b, Messages, OrderSent DEF Lives
<1>3. \A f \in Entity : /\ Discard(f) \in Range(Stream') <=> Discard(f) \in Range(Stream) \/ f = e
                        /\ Create(f) \in Range(Stream') <=> Create(f) \in Range(Stream)
  BY <1>2, <1>b, Messages
<1>4. \A f \in Entity : Leaving(f)' <=> Leaving(f)
  BY <1>a, <1>b, <1>d, <1>3 DEF Leaving
<1>5. NewUnknown'
  BY <1>a, <1>b, <1>2, Messages DEF Lives, NewUnknown
<1>6. AttachedStays' /\ RemovedUncreated'
  BY <1>a, <1>b, <1>3, <1>4 DEF Lives, AttachedStays, RemovedUncreated
<1>7. RemovedBatched'
  <2> SUFFICES ASSUME NEW f \in Entity, phase[f] = "removed"
               PROVE  /\ \A y \in Range(batch) : y.entity = f => "batched" \in trouble[f]
                      /\ ~Leaving(f) => \A x \in Range(Stream') : x.entity = f => "batched" \in trouble[f]
    BY <1>a, <1>4 DEF RemovedBatched
  <2>1. ~Leaving(f) => f # e
    BY <1>b
  <2> QED
    BY <2>1, <1>2, <1>b, Messages DEF Lives, RemovedBatched
<1>8. DestroyingUncreated'
  BY <1>a, <1>d DEF DestroyingUncreated
<1>9. CreatedWhileHeld'
  BY <1>a, <1>3, <1>4 DEF Lives, CreatedWhileHeld
<1> QED
  BY <1>2, <1>4, <1>5, <1>6, <1>7, <1>8, <1>9 DEF Lives, e

LEMMA LivesEndFrame ==
    ASSUME TypeOK, Lives, EndFrame
    PROVE  /\ Lives' /\ Range(Stream') \cup Range(batch') = Range(Stream) \cup Range(batch)
           /\ \A f \in Entity : Leaving(f)' <=> Leaving(f)
<1>a. /\ mainPc = "frame" /\ mainPc' = "sync" /\ Send(batch) /\ batch' = <<>>
      /\ UNCHANGED <<msgArray, entities, refs, uses, phase, trouble>>
  BY DEF EndFrame, MainGoto, entityVars, modelVars
<1>s. /\ Range(Stream) \subseteq Message /\ Range(batch) \subseteq Play /\ Play \subseteq Message
      /\ Stream \in Seq(Message) /\ batch \in Seq(Message)
  BY StreamTypes
<1>1. MayPrecede' = MayPrecede
  BY <1>a DEF MayPrecede
<1>2. Stream' = Stream \o batch /\ Range(Stream') = Range(Stream) \cup Range(batch)
  BY <1>a, <1>s, StreamSent
<1>3. Range(batch') = {}
  BY <1>a DEF Range
<1>4. InOrder'
  <2>1. Along(Stream', MayPrecede)
    BY <1>2, <1>s, ConcatElements DEF Lives, InOrder
  <2>2. Along(batch', MayPrecede)
    BY <1>a DEF Along
  <2> QED
    BY <2>1, <2>2, <1>1, <1>3 DEF InOrder
<1>5. \A f \in Entity : /\ Discard(f) \in Range(Stream') <=> Discard(f) \in Range(Stream)
                        /\ Create(f) \in Range(Stream') <=> Create(f) \in Range(Stream)
  BY <1>2, <1>s, Messages
<1>6. \A f \in Entity : (Leaving(f)' <=> Leaving(f)) /\ ~Destroying(f)'
  BY <1>a, <1>5 DEF Leaving, Destroying
<1>7. NewUnknown' /\ AttachedStays' /\ RemovedUncreated'
  BY <1>a, <1>2, <1>3, <1>5, <1>6 DEF Lives, NewUnknown, AttachedStays, RemovedUncreated
<1>8. RemovedBatched'
  BY <1>a, <1>2, <1>3, <1>6 DEF Lives, RemovedBatched
<1>9. DestroyingUncreated' /\ CreatedWhileHeld'
  BY <1>a, <1>5, <1>6 DEF Lives, DestroyingUncreated, CreatedWhileHeld
<1> QED
  BY <1>2, <1>3, <1>4, <1>6, <1>7, <1>8, <1>9 DEF Lives

(* The handlers.                                                           *)
LEMMA LivesActivation ==
    ASSUME TypeOK, Lives, NEW e \in Entity, Activation(e)
    PROVE  /\ Lives' /\ Range(Stream) = {Create(e)} \cup Range(Stream')
           /\ \A f \in Entity : Leaving(f)' <=> Leaving(f)
           /\ e \notin refs
<1>t. /\ uses \in [Entity -> Model \cup {NoModel}] /\ entities \in Seq(Entity)
      /\ phase \in [Entity -> {"new", "attached", "removed"}]
  BY DEF TypeOK
<1>a. /\ Head1("create", e) /\ msgArray' = Tail(msgArray) /\ refs' = refs \cup {e}
      /\ entities' = Append(entities, e) /\ uses' = [uses EXCEPT ![e] = ModelOf[e]]
      /\ UNCHANGED <<msgQueue, batch, phase, trouble, mainPc, owner>>
  BY DEF Activation, Activate, M!Acquire, gameVars, mainVars
<1>1. MayPrecede' = MayPrecede
  BY <1>a DEF MayPrecede
<1>2. InOrder'
  BY <1>a, <1>1, OrderHandled DEF Lives
<1>3. /\ Range(Stream) = {Create(e)} \cup Range(Stream') /\ Range(Stream') \subseteq Message
      /\ \A y \in Range(Stream') : <<Create(e), y>> \in MayPrecede
  <2>1. /\ Head(msgArray) \in Message /\ Head(msgArray).entity = e /\ Head(msgArray).kind = "create"
        /\ Range(Stream) = {Head(msgArray)} \cup Range(Stream')
        /\ \A y \in Range(Stream') : <<Head(msgArray), y>> \in MayPrecede
    BY <1>a, StreamHandled DEF Lives
  <2>2. Head(msgArray) = Create(e)
    BY <2>1, Messages
  <2> QED
    BY <2>1, <2>2, StreamTypes
<1>4. Create(e) \notin Range(Stream')
  BY <1>3, Messages, PrecedeFacts
<1>5. \A f \in Entity : /\ Discard(f) \in Range(Stream') <=> Discard(f) \in Range(Stream)
                        /\ Create(f) \in Range(Stream') <=> Create(f) \in Range(Stream) /\ f # e
  BY <1>3, <1>4, Messages
<1>6. \A f \in Entity : (Leaving(f)' <=> Leaving(f)) /\ (Destroying(f)' <=> Destroying(f))
  BY <1>a, <1>5 DEF Leaving, Destroying
<1>7. phase[e] = "attached" \/ Leaving(e)
  <2>1. phase[e] # "new" /\ (phase[e] = "removed" => Leaving(e))
    BY <1>3, Messages DEF Lives, NewUnknown, RemovedUncreated
  <2> QED
    BY <2>1, <1>t
<1>8. e \notin refs /\ refs = Range(entities)
  BY <1>3 DEF Lives, CreatedWhileHeld
<1>9. NewUnknown' /\ AttachedStays' /\ RemovedUncreated'
  BY <1>a, <1>3, <1>5, <1>6 DEF Lives, NewUnknown, AttachedStays, RemovedUncreated
<1>10. RemovedBatched'
  BY <1>a, <1>3, <1>6 DEF Lives, RemovedBatched
<1>11. DestroyingUncreated'
  BY <1>a, <1>5, <1>6 DEF Lives, DestroyingUncreated
<1>12. CreatedWhileHeld'
  <2>1. refs' = Range(entities') /\ IsInjective(entities')
    BY <1>a, <1>8, <1>t, AppendElements DEF Lives, CreatedWhileHeld
  <2>2. ModelOf[e] # NoModel
    BY EntityAssumption
  <2>3. ASSUME NEW f \in Entity
        PROVE  /\ f \in refs' <=> (phase'[f] = "attached" \/ Leaving(f)') /\ Create(f) \notin Range(Stream')
               /\ f \in refs' <=> uses'[f] # NoModel
    <3>1. CASE f = e
      BY <3>1, <2>2, <1>a, <1>4, <1>6, <1>7, <1>t
    <3>2. CASE f # e
      BY <3>2, <1>a, <1>5, <1>6, <1>t DEF Lives, CreatedWhileHeld
    <3> QED
      BY <3>1, <3>2
  <2> QED
    BY <2>1, <2>3 DEF CreatedWhileHeld
<1> QED
  BY <1>2, <1>3, <1>6, <1>8, <1>9, <1>10, <1>11, <1>12 DEF Lives

LEMMA LivesHandlePlay ==
    ASSUME TypeOK, Lives, NEW e \in Entity, HandlePlay(e)
    PROVE  /\ Lives' /\ Head(msgArray) \in Play /\ Head(msgArray).entity = e
           /\ Range(Stream) = {Head(msgArray)} \cup Range(Stream')
           /\ \A y \in Range(Stream') \cup Range(batch) : <<Head(msgArray), y>> \in MayPrecede
           /\ \A f \in Entity : Leaving(f)' <=> Leaving(f)
<1>a. /\ Head1("play", e) /\ msgArray' = Tail(msgArray)
      /\ UNCHANGED <<msgQueue, batch, phase, trouble, mainPc, owner, refs, entities, uses>>
  BY DEF HandlePlay, gameVars, mainVars, modelVars
<1>1. MayPrecede' = MayPrecede
  BY <1>a DEF MayPrecede
<1>2. InOrder'
  BY <1>a, <1>1, OrderHandled DEF Lives
<1>3. /\ Head(msgArray) \in Play /\ Head(msgArray).entity = e /\ Head(msgArray).kind = "play"
      /\ Head(msgArray) \in Range(Stream)
      /\ Range(Stream) = {Head(msgArray)} \cup Range(Stream')
      /\ \A y \in Range(Stream') : <<Head(msgArray), y>> \in MayPrecede
  BY <1>a, StreamHandled, Messages DEF Lives
<1>4. \A y \in Range(batch) : <<Head(msgArray), y>> \in MayPrecede
  BY <1>3 DEF Lives, InOrder
<1>5. \A f \in Entity : /\ Discard(f) \in Range(Stream') <=> Discard(f) \in Range(Stream)
                        /\ Create(f) \in Range(Stream') <=> Create(f) \in Range(Stream)
  BY <1>3, Messages
<1>6. \A f \in Entity : (Leaving(f)' <=> Leaving(f)) /\ (Destroying(f)' <=> Destroying(f))
  BY <1>a, <1>5 DEF Leaving, Destroying
<1>7. NewUnknown' /\ AttachedStays' /\ RemovedUncreated'
  BY <1>a, <1>3, <1>5, <1>6 DEF Lives, NewUnknown, AttachedStays, RemovedUncreated
<1>8. RemovedBatched'
  BY <1>a, <1>3, <1>6 DEF Lives, RemovedBatched
<1>9. DestroyingUncreated' /\ CreatedWhileHeld'
  BY <1>a, <1>5, <1>6 DEF Lives, DestroyingUncreated, CreatedWhileHeld
<1> QED
  BY <1>2, <1>3, <1>4, <1>6, <1>7, <1>8, <1>9 DEF Lives

LEMMA LivesDiscard ==
    ASSUME TypeOK, Lives, NEW e \in Entity, HandleDiscard(e)
    PROVE  /\ Lives' /\ phase[e] = "removed" /\ ~Leaving(e)'
           /\ Range(Stream) = {Discard(e)} \cup Range(Stream')
           /\ \A f \in Entity \ {e} : Leaving(f)' <=> Leaving(f)
           /\ Create(e) \notin Range(Stream')
<1>t. /\ uses \in [Entity -> Model \cup {NoModel}] /\ entities \in Seq(Entity)
      /\ phase \in [Entity -> {"new", "attached", "removed"}]
      /\ trouble \in [Entity -> SUBSET {"uncreated", "batched", "unplayed", "unsettled"}]
  BY DEF TypeOK
<1>a. /\ Head1("discard", e) /\ msgArray' = Tail(msgArray) /\ refs' = refs \ {e} /\ e \in refs
      /\ trouble' = [trouble EXCEPT ![e] = @ \cap {"batched"}]
      /\ uses' = [uses EXCEPT ![e] = NoModel]
      /\ UNCHANGED <<msgQueue, batch, phase, mainPc, owner>>
  BY DEF HandleDiscard, M!Release, mainVars
<1>1. \A f \in Entity : "batched" \in trouble[f] <=> "batched" \in trouble'[f]
  BY <1>a, <1>t
<1>2. MayPrecede \subseteq MayPrecede'
  BY <1>1, PrecedeWider
<1>3. InOrder'
  BY <1>a, <1>2, OrderHandled DEF Lives
<1>4. /\ Range(Stream) = {Discard(e)} \cup Range(Stream') /\ Range(Stream') \subseteq Message
      /\ \A y \in Range(Stream') : <<Discard(e), y>> \in MayPrecede
  <2>1. /\ Head(msgArray) \in Message /\ Head(msgArray).entity = e /\ Head(msgArray).kind = "discard"
        /\ Range(Stream) = {Head(msgArray)} \cup Range(Stream')
        /\ \A y \in Range(Stream') : <<Head(msgArray), y>> \in MayPrecede
    BY <1>a, StreamHandled DEF Lives
  <2>2. Head(msgArray) = Discard(e)
    BY <2>1, Messages
  <2> QED
    BY <2>1, <2>2, StreamTypes
<1>5. /\ Create(e) \notin Range(Stream') /\ Discard(e) \notin Range(Stream')
      /\ \A x \in Range(Stream') : x.entity = e => "batched" \in trouble[e]
  <2>1. ASSUME NEW x \in Range(Stream'), x.entity = e
        PROVE  x.kind = "play" /\ "batched" \in trouble[e]
    <3>1. x \in Message /\ <<Discard(e), x>> \in MayPrecede
      BY <1>4
    <3>2. Discard(e) \in Message /\ Discard(e).entity = e /\ Discard(e).kind = "discard"
      BY Messages
    <3> QED
      BY <3>1, <3>2, <2>1, PrecedeFacts
  <2> QED
    BY <2>1, Messages
<1>6. phase[e] = "removed" /\ ~Destroying(e)
  <2>1. phase[e] \notin {"new", "attached"}
    BY <1>4, Messages DEF Lives, NewUnknown, AttachedStays
  <2> QED
    BY <2>1, <1>4, <1>t DEF Lives, DestroyingUncreated
<1>7. ~Leaving(e)' /\ \A f : Destroying(f)' <=> Destroying(f)
  BY <1>5, <1>6, <1>a DEF Leaving, Destroying
<1>8. ASSUME NEW f \in Entity, f # e
      PROVE  /\ Leaving(f)' <=> Leaving(f)
             /\ Create(f) \in Range(Stream') <=> Create(f) \in Range(Stream)
             /\ Discard(f) \in Range(Stream') <=> Discard(f) \in Range(Stream)
             /\ trouble'[f] = trouble[f] /\ uses'[f] = uses[f]
  <2>1. /\ Create(f) \in Range(Stream') <=> Create(f) \in Range(Stream)
        /\ Discard(f) \in Range(Stream') <=> Discard(f) \in Range(Stream)
    BY <1>4, <1>8, Messages
  <2> QED
    BY <2>1, <1>7, <1>8, <1>a, <1>t DEF Leaving
<1>9. NewUnknown' /\ AttachedStays'
  BY <1>a, <1>4, <1>6, <1>8 DEF Lives, NewUnknown, AttachedStays
<1>10. RemovedBatched'
  <2> SUFFICES ASSUME NEW f \in Entity, phase[f] = "removed"
               PROVE  /\ \A y \in Range(batch) : y.entity = f => "batched" \in trouble'[f]
                      /\ ~Leaving(f)' => \A x \in Range(Stream') : x.entity = f => "batched" \in trouble'[f]
    BY <1>a DEF RemovedBatched
  <2>1. CASE f = e
    BY <2>1, <1>1, <1>5, <1>6 DEF Lives, RemovedBatched
  <2>2. CASE f # e
    BY <2>2, <1>1, <1>4, <1>8 DEF Lives, RemovedBatched
  <2> QED
    BY <2>1, <2>2
<1>11. RemovedUncreated'
  BY <1>a, <1>5, <1>8 DEF Lives, RemovedUncreated
<1>12. DestroyingUncreated'
  BY <1>a, <1>6, <1>7, <1>8 DEF Lives, DestroyingUncreated
<1>13. CreatedWhileHeld'
  <2>1. refs' = Range(entities') /\ IsInjective(entities')
    <3>1. PICK i \in DOMAIN entities : entities[i] = e /\ entities' = RemoveAt(entities, i)
      BY DEF HandleDiscard
    <3>2. i \in 1 .. Len(entities) /\ refs = Range(entities) /\ IsInjective(entities)
      BY <1>t DEF Lives, CreatedWhileHeld
    <3> QED
      BY <3>1, <3>2, <1>a, <1>t, RemoveElements
  <2>2. ASSUME NEW f \in Entity
        PROVE  /\ f \in refs' <=> (phase'[f] = "attached" \/ Leaving(f)') /\ Create(f) \notin Range(Stream')
               /\ f \in refs' <=> uses'[f] # NoModel
    <3>1. CASE f = e
      BY <3>1, <1>a, <1>6, <1>7, <1>t
    <3>2. CASE f # e
      BY <3>2, <1>a, <1>8 DEF Lives, CreatedWhileHeld
    <3> QED
      BY <3>1, <3>2
  <2> QED
    BY <2>1, <2>2 DEF CreatedWhileHeld
<1> QED
  BY <1>3, <1>4, <1>5, <1>6, <1>7, <1>8, <1>9, <1>10, <1>11, <1>12, <1>13 DEF Lives

(* The other steps: no message is sent or handled.                         *)
Quiet(e) ==
    \/ ClientSetupFirst(e) \/ FailureOf(e) \/ BeginWriteOf(e)
    \/ DestroyObjects \/ MainSync \/ Meet \/ RenderSync \/ Prepare \/ EndWrite

LEMMA QuietSteps ==
    ASSUME TypeOK, RenderPlaces, (\E e \in Entity : Quiet(e)) \/ DestroyObjects \/ MainSync
               \/ Meet \/ RenderSync \/ Prepare \/ EndWrite \/ UNCHANGED vars
    PROVE  /\ UNCHANGED <<Stream, batch, phase, trouble, sent, refs, entities, uses>>
           /\ mainPc' \in {"destroy", "clear"} <=> mainPc \in {"destroy", "clear"}
           /\ mainPc \in {"destroy", "clear"} => owner' = owner
           /\ \A f : (Leaving(f)' <=> Leaving(f)) /\ (Destroying(f)' <=> Destroying(f))
<1>1. /\ UNCHANGED <<batch, phase, trouble, sent, refs, entities, uses>>
      /\ mainPc' \in {"destroy", "clear"} <=> mainPc \in {"destroy", "clear"}
      /\ mainPc \in {"destroy", "clear"} => owner' = owner
  BY DEF Quiet, ClientSetupFirst, FailureOf, Failure, BeginWriteOf, 
         DestroyObjects, MainSync, Meet, MainArrive, RenderArrive, MainGiveUp, RenderGiveUp,
         RenderSync, Flip, Prepare, M!Progress, EndWrite,
         MainGoto, gameVars, entityVars, modelVars, mainVars, vars
<1>2. Stream' = Stream
  <2>1. CASE Meet \/ RenderSync
    <3>1. \/ msgArray = <<>> /\ msgArray' = msgQueue /\ msgQueue' = <<>>
          \/ UNCHANGED <<msgArray, msgQueue>>
      BY <2>1 DEF Meet, MainArrive, RenderArrive, MainGiveUp, RenderGiveUp, RenderSync, Flip,
                  RenderGoto, RenderPlaces
    <3> QED
      BY <3>1, ConcatEmptySeq DEF Stream, TypeOK
  <2>2. CASE ~(Meet \/ RenderSync)
    <3>1. UNCHANGED <<msgArray, msgQueue>>
      BY <2>2 DEF Quiet, ClientSetupFirst, FailureOf, Failure, BeginWriteOf, 
             DestroyObjects, MainSync, Prepare, EndWrite, vars
    <3> QED
      BY <3>1 DEF Stream
  <2> QED
    BY <2>1, <2>2
<1> QED
  BY <1>1, <1>2 DEF Leaving, Destroying

LEMMA LoudSteps ==
    ASSUME [Next]_vars
    PROVE  \/ \E e \in Entity : \/ AttachEntity(e) \/ PlayClip(e) \/ RemoveEntity(e)
                                \/ Activation(e) \/ HandlePlay(e) \/ HandleDiscard(e)
           \/ ClearSize \/ EndFrame
           \/ (\E e \in Entity : Quiet(e)) \/ DestroyObjects \/ MainSync
              \/ Meet \/ RenderSync \/ Prepare \/ EndWrite \/ UNCHANGED vars
BY StepsOfNext DEF Quiet

LEMMA NextLives == IInv /\ [Next]_vars => Lives'
<1> SUFFICES ASSUME IInv, [Next]_vars PROVE Lives'
  OBVIOUS
<1>1. TypeOK /\ Lives /\ RenderPlaces /\ ClipsFollow /\ SharedDataHeld
  BY DEF IInv
<1> QED
  BY <1>1, LivesAttach, LivesPlayClip, LivesRemove, LivesActivation, LivesHandlePlay, LivesDiscard,
     LivesClear, LivesEndFrame, QuietSteps, LivesQuiet, LoudSteps

-----------------------------------------------------------------------------
(* Where the two threads are in their frames.                              *)
LEMMA NextPlaces == IInv /\ [Next]_vars => RenderPlaces'
<1> SUFFICES ASSUME IInv, [Next]_vars PROVE RenderPlaces'
  OBVIOUS
<1>t. /\ phase \in [Entity -> {"new", "attached", "removed"}]
      /\ entityIndex \in Nat /\ Len(entities) \in Nat /\ entities \in Seq(Entity)
      /\ entityIndex <= Len(entities)
      /\ RenderPlaces
      /\ renderPc \in {"sync", "wait", "handle", "create", "cull", "write"}
  BY DEF IInv, TypeOK
<1>1. ASSUME NEW e \in Entity,
             \/ AttachEntity(e) \/ PlayClip(e) \/ RemoveEntity(e)
      PROVE  RenderPlaces'
  <2>1. /\ UNCHANGED <<renderVars, msgArray>>
        /\ \A f \in Entity : phase[f] = "removed" => phase'[f] = "removed"
    BY <1>1, <1>t DEF AttachEntity, PlayClip, RemoveEntity, MainGoto, syncVars, gameVars
  <2> QED
    BY <2>1, <1>t DEF RenderPlaces, renderVars, Head1
<1>2. CASE DestroyObjects \/ ClearSize \/ EndFrame \/ MainSync
  <2>1. UNCHANGED <<renderVars, msgArray, phase>>
    BY <1>2 DEF DestroyObjects, ClearSize, EndFrame, MainSync, MainGoto, syncVars, gameVars
  <2> QED
    BY <2>1, <1>t DEF RenderPlaces, renderVars, Head1
<1>3. ASSUME NEW e \in Entity, ClientSetupFirst(e)
      PROVE  RenderPlaces'
  <2>1. /\ renderPc = "handle" /\ renderPc' = "create"
        /\ UNCHANGED <<client, entityIndex, msgArray, phase>>
        /\ Head1("create", e) /\ useCount[e] = 0
    BY <1>3 DEF ClientSetupFirst, RenderGoto, gameVars
  <2>2. phase[e] = "removed"
    <3>1. phase[e] # "attached"
      BY <2>1 DEF IInv, SharedDataHeld, Holders
    <3>2. phase[e] # "new"
      <4>1. Head(msgArray) \in Range(Stream) /\ Head(msgArray).entity = e
        <5>1. msgArray # <<>> /\ msgArray \in Seq(Message)
          BY <2>1 DEF Head1, IInv, TypeOK
        <5> QED
          BY <5>1, <2>1, TailElements, StreamTypes DEF Head1, IInv
      <4> QED
        BY <4>1 DEF IInv, Lives, NewUnknown
    <3> QED
      BY <3>1, <3>2, <1>t
  <2> QED
    BY <2>1, <2>2, <1>t DEF RenderPlaces, Head1
<1>4. ASSUME NEW e \in Entity, Activation(e) \/ HandlePlay(e) \/ HandleDiscard(e)
      PROVE  RenderPlaces'
  <2>1. /\ renderPc \in {"handle", "create"} /\ renderPc' = "handle"
        /\ UNCHANGED <<client, entityIndex>>
    BY <1>4 DEF Activation, HandlePlay, HandleDiscard, RenderGoto
  <2> QED
    BY <2>1, <1>t DEF RenderPlaces
<1>5. ASSUME NEW e \in Entity, FailureOf(e) PROVE RenderPlaces'
  <2>1. UNCHANGED <<renderVars, msgArray, phase>>
    BY <1>5 DEF FailureOf, Failure, gameVars
  <2> QED
    BY <2>1, <1>t DEF RenderPlaces, renderVars, Head1
<1>6. ASSUME NEW e \in Entity, BeginWriteOf(e) PROVE RenderPlaces'
  <2>1. /\ renderPc = "cull" /\ renderPc' = "write" /\ client' = e
        /\ UNCHANGED <<entityIndex, msgArray>>
    BY <1>6 DEF BeginWriteOf, RenderGoto
  <2> QED
    BY <2>1, <1>t DEF RenderPlaces
<1>7. CASE Meet \/ RenderSync
  <2>1. /\ UNCHANGED <<entityIndex, client>>
        /\ \/ renderPc' = "handle"
           \/ renderPc = "sync" /\ renderPc' = "wait" /\ msgArray' = msgArray
           \/ renderPc' = renderPc /\ UNCHANGED <<msgArray, phase>>
        /\ renderPc' = "handle" => renderPc \in {"sync", "wait", "handle"}
    BY <1>7, <1>t DEF Meet, MainArrive, RenderArrive, MainGiveUp, RenderGiveUp, RenderSync,
                      Flip,
                      RenderGoto, MainGoto, renderVars, gameVars
  <2> QED
    BY <2>1, <1>t DEF RenderPlaces, Head1
<1>8. CASE Prepare
  <2>1. /\ msgArray' = <<>> /\ renderPc' = CullOr(Len(entities)) /\ entityIndex' = Len(entities)
    BY <1>8 DEF Prepare, RenderGoto
  <2> QED
    BY <2>1, <1>t DEF RenderPlaces, CullOr
<1>9. CASE EndWrite
  <2>1. /\ renderPc = "write" /\ renderPc' = CullOr(entityIndex - 1) /\ entityIndex' = entityIndex - 1
        /\ UNCHANGED <<msgArray>>
    BY <1>9 DEF EndWrite, RenderGoto
  <2>2. msgArray = <<>> /\ entityIndex > 0
    BY <2>1, <1>t DEF RenderPlaces
  <2> QED
    BY <2>1, <2>2, <1>t DEF RenderPlaces, CullOr
<1>10. CASE UNCHANGED vars
  BY <1>10, <1>t DEF vars, RenderPlaces, renderVars, gameVars, Head1
<1> QED
  BY <1>1, <1>2, <1>3, <1>4, <1>5, <1>6, <1>7, <1>8, <1>9, <1>10, StepsOfNext

-----------------------------------------------------------------------------
(* The clips.                                                              *)
InFlight == Range(Stream) \cup Range(batch)

LEMMA ClipsOfMessages ==
    /\ \A e, A, B : ClipsOf(e, A \cup B) = ClipsOf(e, A) \cup ClipsOf(e, B)
    /\ \A e, m : m.kind # "play" \/ m.entity # e => ClipsOf(e, {m}) = {}
    /\ \A e, m : m.kind = "play" /\ m.entity = e => ClipsOf(e, {m}) = {m.clip}
BY DEF ClipsOf

(* What ClipsFollow says of one entity.                                    *)
Follow(e) ==
    /\ \A i \in 1 .. Len(played[e]) : played[e][i] = i
    /\ \A i \in 1 .. Len(deferred[e]) : deferred[e][i] = Len(played[e]) + i
    /\ ClipsOf(e, InFlight) = (Len(played[e]) + Len(deferred[e]) + 1) .. sent[e]
    /\ Len(played[e]) + Len(deferred[e]) <= sent[e]
    /\ e \in valid => deferred[e] = <<>>

LEMMA FollowAll == ClipsFollow <=> \A e \in Entity : Follow(e)
BY DEF ClipsFollow, Follow, InFlight

LEMMA ClipTypes ==
    ASSUME TypeOK, NEW e \in Entity
    PROVE  /\ played[e] \in Seq(Nat) /\ Len(played[e]) \in Nat
           /\ deferred[e] \in Seq(Nat) /\ Len(deferred[e]) \in Nat
           /\ sent[e] \in Nat
BY DEF TypeOK

(* A step that leaves the clips of e alone.                                *)
LEMMA FollowStays ==
    ASSUME NEW e \in Entity, Follow(e),
           played'[e] = played[e], deferred'[e] = deferred[e], sent'[e] = sent[e],
           e \in valid' => e \in valid,
           ClipsOf(e, InFlight') = ClipsOf(e, InFlight)
    PROVE  Follow(e)'
BY DEF Follow

(* Numbers that follow each other.                                         *)
LEMMA CountingConcat ==
    ASSUME NEW s \in Seq(Nat), NEW t \in Seq(Nat),
           \A i \in 1 .. Len(s) : s[i] = i,
           \A i \in 1 .. Len(t) : t[i] = Len(s) + i
    PROVE  /\ Len(s \o t) = Len(s) + Len(t)
           /\ \A i \in 1 .. Len(s \o t) : (s \o t)[i] = i
<1>1. /\ Len(s) \in Nat /\ Len(t) \in Nat /\ Len(s \o t) = Len(s) + Len(t)
      /\ \A i \in 1 .. (Len(s) + Len(t)) :
            (s \o t)[i] = IF i <= Len(s) THEN s[i] ELSE t[i - Len(s)]
  BY ConcatProperties
<1>2. ASSUME NEW i \in 1 .. (Len(s) + Len(t)) PROVE (s \o t)[i] = i
  <2>1. CASE i <= Len(s)
    <3>1. i \in 1 .. Len(s)
      BY <2>1, <1>1
    <3> QED
      BY <2>1, <3>1, <1>1
  <2>2. CASE ~(i <= Len(s))
    <3>1. i - Len(s) \in 1 .. Len(t) /\ Len(s) + (i - Len(s)) = i
      BY <2>2, <1>1
    <3> QED
      BY <2>2, <3>1, <1>1
  <2> QED
    BY <2>1, <2>2
<1> QED
  BY <1>1, <1>2

LEMMA CountingAppend ==
    ASSUME NEW s \in Seq(Nat), NEW k \in Nat, \A i \in 1 .. Len(s) : s[i] = k + i
    PROVE  /\ Len(Append(s, k + Len(s) + 1)) = Len(s) + 1
           /\ \A i \in 1 .. Len(Append(s, k + Len(s) + 1)) : Append(s, k + Len(s) + 1)[i] = k + i
<1>1. Len(s) \in Nat /\ k + Len(s) + 1 \in Nat
  OBVIOUS
<1> DEFINE t == Append(s, k + Len(s) + 1)
<1>2. /\ Len(t) = Len(s) + 1 /\ t[Len(s) + 1] = k + Len(s) + 1
      /\ \A i \in 1 .. Len(s) : t[i] = s[i]
  BY <1>1, AppendProperties
<1> HIDE DEF t
<1>3. ASSUME NEW i \in 1 .. Len(t) PROVE t[i] = k + i
  <2>1. i \in 1 .. Len(s) \/ i = Len(s) + 1
    BY <1>1, <1>2
  <2>2. k + Len(s) + 1 = k + (Len(s) + 1)
    BY <1>1
  <2> QED
    BY <2>1, <2>2, <1>2
<1> QED
  BY <1>2, <1>3 DEF t

LEMMA Counting ==
    \A a, b \in Nat : a + b \in Nat /\ a + (b + 1) = a + b + 1
OBVIOUS

LEMMA CountingNext ==
    ASSUME NEW n \in Nat, NEW s \in Nat, NEW x \in Nat, NEW left,
           {x} \cup left = (n + 1) .. s, \A c \in left : x < c
    PROVE  x = n + 1 /\ n < s /\ left = (n + 2) .. s
<1>1. x \in (n + 1) .. s
  OBVIOUS
<1>0. n < s
  BY <1>1
<1>2. x = n + 1
  <2>1. n + 1 \in {x} \cup left
    BY <1>1
  <2>2. n + 1 \notin left
    BY <1>1
  <2> QED
    BY <2>1, <2>2
<1>3. ASSUME NEW c \in left PROVE c \in (n + 2) .. s
  <2>1. c \in (n + 1) .. s /\ x < c
    OBVIOUS
  <2> QED
    BY <2>1, <1>2
<1>4. ASSUME NEW c \in (n + 2) .. s PROVE c \in left
  <2>1. c \in (n + 1) .. s /\ c # n + 1
    OBVIOUS
  <2> QED
    BY <2>1, <1>2
<1>5. left = (n + 2) .. s
  BY <1>3, <1>4
<1> QED
  BY <1>0, <1>2, <1>5

(* The entity gets valid: what was deferred is started.                    *)
LEMMA FollowValidate ==
    ASSUME TypeOK, NEW e \in Entity, Validate(e), UNCHANGED sent, Follow(e),
           ClipsOf(e, InFlight') = ClipsOf(e, InFlight)
    PROVE  Follow(e)'
<1>1. /\ played'[e] = played[e] \o deferred[e] /\ deferred'[e] = <<>>
      /\ sent'[e] = sent[e]
  BY DEF Validate, TypeOK
<1>2. /\ played[e] \in Seq(Nat) /\ Len(played[e]) \in Nat
      /\ deferred[e] \in Seq(Nat) /\ Len(deferred[e]) \in Nat
  BY ClipTypes
<1>a. /\ \A i \in 1 .. Len(played[e]) : played[e][i] = i
      /\ \A i \in 1 .. Len(deferred[e]) : deferred[e][i] = Len(played[e]) + i
  BY DEF Follow
<1>b. /\ Len(played[e] \o deferred[e]) = Len(played[e]) + Len(deferred[e])
      /\ \A i \in 1 .. Len(played[e] \o deferred[e]) : (played[e] \o deferred[e])[i] = i
  BY <1>2, <1>a, CountingConcat
<1>3. /\ Len(played'[e]) = Len(played[e]) + Len(deferred[e])
      /\ \A i \in 1 .. Len(played'[e]) : played'[e][i] = i
  BY <1>1, <1>b
<1>4. Len(deferred'[e]) = 0 /\ 1 .. Len(deferred'[e]) = {}
  BY <1>1, EmptySeq
<1>5. Len(played'[e]) + Len(deferred'[e]) = Len(played[e]) + Len(deferred[e])
  BY <1>2, <1>3, <1>4
<1> QED
  BY <1>1, <1>3, <1>4, <1>5 DEF Follow

(* The next clip on its way is the one after those begun.                  *)
LEMMA FollowHandlePlay ==
    ASSUME TypeOK, Lives, NEW e \in Entity, HandlePlay(e), Follow(e)
    PROVE  /\ Follow(e)' /\ Len(played[e]) + Len(deferred[e]) < sent[e]
           /\ \A f \in Entity \ {e} : ClipsOf(f, InFlight') = ClipsOf(f, InFlight)
<1> DEFINE x == Head(msgArray)
<1>1. /\ x \in Play /\ x.entity = e /\ x.kind = "play" /\ x.clip \in Nat /\ x \in Message
      /\ Range(Stream) = {x} \cup Range(Stream') /\ batch' = batch
      /\ \A y \in Range(Stream') \cup Range(batch) : <<x, y>> \in MayPrecede
      /\ Range(Stream) \subseteq Message /\ Range(batch) \subseteq Message
  <2>1. /\ x \in Play /\ x.entity = e
        /\ Range(Stream) = {x} \cup Range(Stream')
        /\ \A y \in Range(Stream') \cup Range(batch) : <<x, y>> \in MayPrecede
    BY LivesHandlePlay
  <2>2. batch' = batch
    BY DEF HandlePlay, gameVars
  <2>3. Range(Stream) \subseteq Message /\ Range(batch) \subseteq Message /\ x \in Message
    BY <2>1, StreamTypes
  <2> QED
    BY <2>1, <2>2, <2>3, Messages
<1> HIDE DEF x
<1>2. InFlight = {x} \cup InFlight' /\ InFlight' \subseteq Message
  BY <1>1 DEF InFlight
<1>3. /\ ClipsOf(e, InFlight) = {x.clip} \cup ClipsOf(e, InFlight')
      /\ \A f \in Entity \ {e} : ClipsOf(f, InFlight') = ClipsOf(f, InFlight)
  <2>1. \A f : ClipsOf(f, InFlight) = ClipsOf(f, {x}) \cup ClipsOf(f, InFlight')
    BY <1>2, ClipsOfMessages
  <2>2. ClipsOf(e, {x}) = {x.clip} /\ \A f : f # e => ClipsOf(f, {x}) = {}
    BY <1>1, ClipsOfMessages
  <2> QED
    BY <2>1, <2>2
<1>4. ASSUME NEW c \in ClipsOf(e, InFlight') PROVE x.clip < c
  <2>1. PICK y \in InFlight' : y.kind = "play" /\ y.entity = e /\ c = y.clip
    BY <1>4 DEF ClipsOf
  <2>2. y \in Message /\ <<x, y>> \in MayPrecede
    BY <2>1, <1>1, <1>2 DEF InFlight
  <2> QED
    BY <2>1, <2>2, <1>1, PrecedeFacts
<1>5. /\ played[e] \in Seq(Nat) /\ Len(played[e]) \in Nat
      /\ deferred[e] \in Seq(Nat) /\ Len(deferred[e]) \in Nat
      /\ sent[e] \in Nat
  BY ClipTypes
<1>l. Len(played[e]) \in Nat /\ Len(deferred[e]) \in Nat /\ sent[e] \in Nat
  BY <1>5
<1>s. Len(played[e]) + Len(deferred[e]) \in Nat
  BY <1>l, Counting
<1>6. PICK n \in Nat : n = Len(played[e]) + Len(deferred[e])
  BY <1>s
<1>7. /\ x.clip = n + 1 /\ n < sent[e]
      /\ ClipsOf(e, InFlight') = (n + 2) .. sent[e]
  <2>1. {x.clip} \cup ClipsOf(e, InFlight') = (n + 1) .. sent[e]
    BY <1>3, <1>6 DEF Follow
  <2> QED
    <3>1. x.clip \in Nat /\ sent[e] \in Nat /\ \A c \in ClipsOf(e, InFlight') : x.clip < c
      BY <1>1, <1>4, <1>l
    <3> QED
      BY <2>1, <3>1, CountingNext
<1>8. /\ sent' = sent /\ valid' = valid
      /\ \/ /\ e \in valid /\ deferred' = deferred
            /\ played'[e] = Append(played[e], n + 1)
         \/ /\ e \notin valid /\ played' = played
            /\ deferred'[e] = Append(deferred[e], n + 1)
  <2>1. played \in [Entity -> Seq(Nat)] /\ deferred \in [Entity -> Seq(Nat)]
    BY DEF TypeOK
  <2>2. x.clip = n + 1 /\ x = Head(msgArray)
    BY <1>7 DEF x
  <2>3. CASE e \in valid
    <3>1. sent' = sent /\ valid' = valid /\ deferred' = deferred
      BY <2>3 DEF HandlePlay, gameVars
    <3>2. played' = [played EXCEPT ![e] = Append(@, x.clip)]
      BY <2>2, <2>3 DEF HandlePlay
    <3>3. played'[e] = Append(played[e], n + 1)
      BY <3>2, <2>1, <2>2
    <3> QED
      BY <2>3, <3>1, <3>3
  <2>4. CASE e \notin valid
    <3>1. sent' = sent /\ valid' = valid /\ played' = played
      BY <2>4 DEF HandlePlay, gameVars
    <3>2. deferred' = [deferred EXCEPT ![e] = Append(@, x.clip)]
      BY <2>2, <2>4 DEF HandlePlay
    <3>3. deferred'[e] = Append(deferred[e], n + 1)
      BY <3>2, <2>1, <2>2
    <3> QED
      BY <2>4, <3>1, <3>3
  <2> QED
    BY <2>3, <2>4
<1>9. ASSUME Len(played'[e]) + Len(deferred'[e]) = n + 1
      PROVE  /\ ClipsOf(e, InFlight') = (Len(played'[e]) + Len(deferred'[e]) + 1) .. sent'[e]
             /\ Len(played'[e]) + Len(deferred'[e]) <= sent'[e]
  <2>1. (n + 1) + 1 = n + 2 /\ n + 1 <= sent[e]
    BY <1>5, <1>7
  <2> QED
    BY <2>1, <1>7, <1>8, <1>9
<1>10. Follow(e)'
  <2>1. CASE e \in valid
    <3>0. deferred[e] = <<>> /\ Len(deferred[e]) = 0
      BY <2>1, EmptySeq DEF Follow
    <3>1. deferred[e] = <<>> /\ Len(deferred[e]) = 0 /\ n = Len(played[e])
      BY <3>0, <1>l, <1>6
    <3>2. /\ n + 1 = 0 + Len(played[e]) + 1 /\ 0 \in Nat
          /\ \A i \in 1 .. Len(played[e]) : played[e][i] = 0 + i
      BY <3>1, <1>5 DEF Follow
    <3>3. /\ Len(played'[e]) = Len(played[e]) + 1
          /\ \A i \in 1 .. Len(played'[e]) : played'[e][i] = 0 + i
      <4>1. /\ Len(Append(played[e], 0 + Len(played[e]) + 1)) = Len(played[e]) + 1
            /\ \A i \in 1 .. Len(Append(played[e], 0 + Len(played[e]) + 1)) :
                  Append(played[e], 0 + Len(played[e]) + 1)[i] = 0 + i
        BY <3>2, <1>5, CountingAppend
      <4> QED
        BY <4>1, <2>1, <3>2, <1>8
    <3>4. \A i \in 1 .. Len(played'[e]) : played'[e][i] = i
      BY <3>3, <1>5
    <3>5. deferred'[e] = <<>> /\ 1 .. Len(deferred'[e]) = {}
      BY <2>1, <3>1, <1>8
    <3>6. Len(played'[e]) + Len(deferred'[e]) = n + 1
      BY <3>1, <3>3, <3>5, <1>5
    <3> QED
      BY <3>4, <3>5, <3>6, <1>9 DEF Follow
  <2>2. CASE e \notin valid
    <3>1. /\ n + 1 = Len(played[e]) + Len(deferred[e]) + 1
          /\ \A i \in 1 .. Len(deferred[e]) : deferred[e][i] = Len(played[e]) + i
      BY <1>6 DEF Follow
    <3>2. /\ Len(deferred'[e]) = Len(deferred[e]) + 1 /\ played'[e] = played[e]
          /\ \A i \in 1 .. Len(deferred'[e]) : deferred'[e][i] = Len(played[e]) + i
      <4>1. /\ Len(Append(deferred[e], Len(played[e]) + Len(deferred[e]) + 1)) = Len(deferred[e]) + 1
            /\ \A i \in 1 .. Len(Append(deferred[e], Len(played[e]) + Len(deferred[e]) + 1)) :
                  Append(deferred[e], Len(played[e]) + Len(deferred[e]) + 1)[i] = Len(played[e]) + i
        BY <3>1, <1>5, CountingAppend
      <4> QED
        BY <4>1, <2>2, <3>1, <1>8
    <3>3. Len(played'[e]) + Len(deferred'[e]) = n + 1
      <4>1. Len(played'[e]) = Len(played[e]) /\ Len(deferred'[e]) = Len(deferred[e]) + 1
        BY <3>2
      <4>2. Len(played[e]) + (Len(deferred[e]) + 1) = Len(played[e]) + Len(deferred[e]) + 1
        BY <1>l, Counting
      <4> QED
        BY <4>1, <4>2, <1>6
    <3> QED
      BY <2>2, <3>2, <3>3, <1>8, <1>9 DEF Follow
  <2> QED
    BY <2>1, <2>2
<1>11. Len(played[e]) + Len(deferred[e]) < sent[e]
  BY <1>6, <1>7
<1> QED
  BY <1>3, <1>10, <1>11

(* A clip is sent.                                                         *)
LEMMA CountingSent ==
    \A n, s \in Nat : n <= s => ((n + 1) .. s) \cup {s + 1} = (n + 1) .. (s + 1)
OBVIOUS

LEMMA FollowPlayClip ==
    ASSUME TypeOK, Lives, ClipsFollow, NEW e \in Entity, PlayClip(e)
    PROVE  ClipsFollow'
<1> DEFINE m == [kind |-> "play", entity |-> e, clip |-> sent[e] + 1]
<1>1. /\ Range(batch') = Range(batch) \cup {m} /\ Stream' = Stream
      /\ sent' = [sent EXCEPT ![e] = @ + 1] /\ UNCHANGED <<played, deferred, valid>>
  BY LivesPlayClip DEF PlayClip, Stream, entityVars
<1>2. \A f : ClipsOf(f, InFlight') = ClipsOf(f, InFlight) \cup ClipsOf(f, {m})
  <2>1. InFlight' = InFlight \cup {m}
    BY <1>1 DEF InFlight
  <2> QED
    BY <2>1, ClipsOfMessages
<1>3. m.kind = "play" /\ m.entity = e /\ m.clip = sent[e] + 1
  OBVIOUS
<1>4. ClipsOf(e, {m}) = {sent[e] + 1} /\ \A f : f # e => ClipsOf(f, {m}) = {}
  BY <1>3, ClipsOfMessages
<1> HIDE DEF m
<1>5. ASSUME NEW f \in Entity, f # e PROVE Follow(f)'
  <2>1. Follow(f) /\ ClipsOf(f, InFlight') = ClipsOf(f, InFlight)
    BY <1>2, <1>4, <1>5, FollowAll
  <2>2. sent'[f] = sent[f]
    BY <1>1, <1>5 DEF TypeOK
  <2> QED
    BY <2>1, <2>2, <1>1, FollowStays
<1>6. Follow(e)'
  <2>1. Follow(e) /\ sent'[e] = sent[e] + 1
    BY <1>1, FollowAll DEF TypeOK
  <2>2. Len(played[e]) \in Nat /\ Len(deferred[e]) \in Nat /\ sent[e] \in Nat
    BY ClipTypes
  <2>3. Len(played[e]) + Len(deferred[e]) \in Nat
    BY <2>2, Counting
  <2>4. PICK n \in Nat : n = Len(played[e]) + Len(deferred[e])
    BY <2>3
  <2>5. n <= sent[e] /\ n <= sent[e] + 1
    <3>1. n <= sent[e]
      BY <2>1, <2>4 DEF Follow
    <3> QED
      BY <3>1, <2>2
  <2>6. ClipsOf(e, InFlight') = (n + 1) .. sent'[e]
    <3>1. ClipsOf(e, InFlight) = (n + 1) .. sent[e]
      BY <2>1, <2>4 DEF Follow
    <3> QED
      BY <3>1, <2>1, <2>2, <2>5, <1>2, <1>4, CountingSent
  <2> QED
    BY <2>1, <2>4, <2>5, <2>6, <1>1 DEF Follow
<1> QED
  BY <1>5, <1>6, FollowAll DEF ClipsFollow, Follow, InFlight

LEMMA NextClipsFollow == IInv /\ [Next]_vars => ClipsFollow'
<1> SUFFICES ASSUME IInv, [Next]_vars PROVE ClipsFollow'
  OBVIOUS
<1>t. TypeOK /\ Lives /\ ClipsFollow /\ RenderPlaces /\ SharedDataHeld
  BY DEF IInv
<1>f. \A f \in Entity : Follow(f)
  BY <1>t, FollowAll
<1>a. (\A f \in Entity : Follow(f)') => ClipsFollow'
  BY DEF ClipsFollow, Follow, InFlight
<1>s. ASSUME UNCHANGED <<played, deferred, valid, sent>>,
             \A f \in Entity : ClipsOf(f, InFlight') = ClipsOf(f, InFlight)
      PROVE  ClipsFollow'
  BY <1>s, <1>f, <1>a, FollowStays
<1>v. ASSUME NEW e \in Entity, Validate(e), UNCHANGED sent,
             \A f \in Entity : ClipsOf(f, InFlight') = ClipsOf(f, InFlight)
      PROVE  ClipsFollow'
  <2>1. Follow(e)'
    BY <1>v, <1>t, <1>f, FollowValidate
  <2>2. ASSUME NEW f \in Entity, f # e PROVE Follow(f)'
    <3>1. played'[f] = played[f] /\ deferred'[f] = deferred[f] /\ (f \in valid' => f \in valid)
      BY <1>v, <2>2, <1>t DEF Validate, TypeOK
    <3> QED
      BY <3>1, <1>v, <1>f, FollowStays
  <2> QED
    BY <2>1, <2>2, <1>a
<1>m. ASSUME NEW m, m.kind # "play", InFlight' = InFlight \cup {m} \/ InFlight = InFlight' \cup {m}
      PROVE  \A f \in Entity : ClipsOf(f, InFlight') = ClipsOf(f, InFlight)
  <2>1. \A f : ClipsOf(f, {m}) = {}
    BY <1>m, ClipsOfMessages
  <2> QED
    BY <1>m, <2>1, ClipsOfMessages
<1>1. ASSUME NEW e \in Entity, AttachEntity(e) PROVE ClipsFollow'
  <2>1. InFlight' = InFlight \cup {Create(e)} /\ Create(e).kind # "play"
    BY <1>1, <1>t, LivesAttach, Messages DEF InFlight, AttachEntity
  <2>2. UNCHANGED <<played, deferred, valid, sent>>
    BY <1>1 DEF AttachEntity, entityVars
  <2> QED
    BY <2>1, <2>2, <1>m, <1>s
<1>2. ASSUME NEW e \in Entity, PlayClip(e) PROVE ClipsFollow'
  BY <1>2, <1>t, FollowPlayClip
<1>3. ASSUME NEW e \in Entity, RemoveEntity(e) PROVE ClipsFollow'
  <2>1. /\ InFlight' = InFlight \/ InFlight' = InFlight \cup {Discard(e)}
        /\ Discard(e).kind # "play"
    BY <1>3, <1>t, LivesRemove, Messages DEF InFlight, RemoveEntity
  <2>2. UNCHANGED <<played, deferred, valid, sent>>
    BY <1>3 DEF RemoveEntity, entityVars
  <2>3. \A f \in Entity : ClipsOf(f, InFlight') = ClipsOf(f, InFlight)
    BY <2>1, <1>m
  <2> QED
    BY <2>2, <2>3, <1>s
<1>4. ASSUME NEW e \in Entity, Activation(e) PROVE ClipsFollow'
  <2>1. InFlight = InFlight' \cup {Create(e)} /\ Create(e).kind # "play"
    BY <1>4, <1>t, LivesActivation, Messages DEF InFlight, Activation, gameVars
  <2>2. \A f \in Entity : ClipsOf(f, InFlight') = ClipsOf(f, InFlight)
    BY <2>1, <1>m
  <2>3. sent' = sent /\ (Validate(e) \/ UNCHANGED <<valid, deferred, played>>)
    BY <1>4 DEF Activation, Activate, gameVars
  <2> QED
    BY <2>2, <2>3, <1>s, <1>v
<1>5. ASSUME NEW e \in Entity, HandlePlay(e) PROVE ClipsFollow'
  <2>1. /\ Follow(e)'
        /\ \A f \in Entity \ {e} : ClipsOf(f, InFlight') = ClipsOf(f, InFlight)
    BY <1>5, <1>t, <1>f, FollowHandlePlay
  <2>2. ASSUME NEW f \in Entity, f # e PROVE Follow(f)'
    <3>1. /\ played'[f] = played[f] /\ deferred'[f] = deferred[f] /\ valid' = valid
          /\ sent' = sent
      BY <1>5, <2>2, <1>t DEF HandlePlay, TypeOK, gameVars
    <3> QED
      BY <3>1, <2>1, <2>2, <1>f, FollowStays
  <2> QED
    BY <2>1, <2>2, <1>a
<1>6. ASSUME NEW e \in Entity, HandleDiscard(e) PROVE ClipsFollow'
  <2>1. InFlight = InFlight' \cup {Discard(e)} /\ Discard(e).kind # "play"
    BY <1>6, <1>t, LivesDiscard, Messages DEF InFlight, HandleDiscard
  <2>2. \A f \in Entity : ClipsOf(f, InFlight') = ClipsOf(f, InFlight)
    BY <2>1, <1>m
  <2>3. UNCHANGED <<played, deferred, sent>> /\ valid' = valid \ {e}
    BY <1>6 DEF HandleDiscard
  <2> QED
    BY <2>2, <2>3, <1>f, <1>a, FollowStays
<1>7. CASE ClearSize
  <2>1. owner \in Entity
    BY <1>7, <1>t DEF ClearSize, MainGoto, Lives, DestroyingUncreated
  <2>2. InFlight' = InFlight \cup {Discard(owner)} /\ Discard(owner).kind # "play"
    BY <1>7, <1>t, <2>1, LivesClear, Messages DEF InFlight, ClearSize, gameVars
  <2>3. UNCHANGED <<played, deferred, valid, sent>>
    BY <1>7 DEF ClearSize, entityVars, gameVars
  <2> QED
    BY <2>2, <2>3, <1>m, <1>s
<1>8. CASE EndFrame
  <2>1. InFlight' = InFlight
    BY <1>8, <1>t, LivesEndFrame DEF InFlight
  <2>2. UNCHANGED <<played, deferred, valid, sent>>
    BY <1>8 DEF EndFrame, entityVars
  <2> QED
    BY <2>1, <2>2, <1>s
<1>9. CASE (\E e \in Entity : Quiet(e)) \/ DestroyObjects \/ MainSync
           \/ Meet \/ RenderSync \/ Prepare \/ EndWrite \/ UNCHANGED vars
  <2>1. InFlight' = InFlight /\ UNCHANGED sent
    BY <1>9, <1>t, QuietSteps DEF InFlight
  <2>2. CASE EndWrite
    <3>1. /\ client \in Entity
          /\ Validate(client) \/ UNCHANGED <<valid, deferred, played>>
      BY <2>2, <1>t DEF EndWrite, RenderGoto, RenderPlaces
    <3> QED
      BY <3>1, <2>1, <1>s, <1>v
  <2>3. CASE ~EndWrite
    <3>1. UNCHANGED <<played, deferred, valid>>
      BY <1>9, <2>3 DEF Quiet, ClientSetupFirst, FailureOf, Failure, BeginWriteOf, 
         DestroyObjects, MainSync, Meet, MainArrive, RenderArrive, MainGiveUp, RenderGiveUp,
         RenderSync, Flip, Prepare, entityVars, vars
    <3> QED
      BY <3>1, <2>1, <1>s
  <2> QED
    BY <2>2, <2>3
<1> QED
  BY <1>1, <1>2, <1>3, <1>4, <1>5, <1>6, <1>7, <1>8, <1>9, LoudSteps

-----------------------------------------------------------------------------
(* The shared data.                                                        *)
Creating(e) == renderPc = "create" /\ Head1("create", e)

(* What SharedDataHeld says of one entity, by who holds its shared data.   *)
Held(e) ==
    /\ useCount[e] = (IF phase[e] = "attached" THEN 1 ELSE 0)
                     + (IF e \in refs \/ Creating(e) THEN 1 ELSE 0)
    /\ useCount[e] > 0 /\ "uncreated" \notin trouble[e] => dataObjects[e] /\ dataObjectSize[e]

LEMMA HeldAll ==
    refs = Range(entities) => (SharedDataHeld <=> \A e \in Entity : Held(e))
BY DEF SharedDataHeld, Holders, Held, Creating

LEMMA HeldStays ==
    ASSUME NEW e \in Entity, Held(e),
           useCount'[e] = useCount[e], phase'[e] = phase[e], trouble'[e] = trouble[e],
           dataObjects'[e] = dataObjects[e], dataObjectSize'[e] = dataObjectSize[e],
           e \in refs' <=> e \in refs, Creating(e)' <=> Creating(e)
    PROVE  Held(e)'
BY DEF Held

(* The message the render thread handles is on its way.                    *)
LEMMA HeadInFlight ==
    ASSUME TypeOK, NEW e \in Entity, NEW k, Head1(k, e)
    PROVE  /\ Head(msgArray) \in Range(Stream) /\ Head(msgArray) \in Message
           /\ Head(msgArray).entity = e /\ Head(msgArray).kind = k
<1>1. msgArray # <<>> /\ msgArray \in Seq(Message)
  BY DEF Head1, TypeOK
<1> QED
  BY <1>1, TailElements, StreamTypes DEF Head1

LEMMA NextHeld == IInv /\ [Next]_vars => SharedDataHeld'
<1> SUFFICES ASSUME IInv, [Next]_vars PROVE SharedDataHeld'
  OBVIOUS
<1>t. /\ TypeOK /\ Lives /\ RenderPlaces /\ SharedDataHeld
      /\ phase \in [Entity -> {"new", "attached", "removed"}]
      /\ trouble \in [Entity -> SUBSET {"uncreated", "batched", "unplayed", "unsettled"}]
      /\ useCount \in [Entity -> 0 .. 2]
      /\ dataObjects \in [Entity -> BOOLEAN] /\ dataObjectSize \in [Entity -> BOOLEAN]
  BY DEF IInv, TypeOK
<1>n. Lives' /\ RenderPlaces'
  BY NextLives, NextPlaces
<1>r. refs = Range(entities) /\ refs' = Range(entities')
  BY <1>t, <1>n DEF Lives, CreatedWhileHeld
<1>h. \A f \in Entity : Held(f)
  BY <1>t, <1>r, HeldAll
<1>p. (\A f \in Entity : Held(f)') => SharedDataHeld'
  BY <1>r DEF SharedDataHeld, Holders, Held, Creating
<1>s. ASSUME UNCHANGED <<useCount, phase, trouble, dataObjects, dataObjectSize, refs>>,
             \/ UNCHANGED <<renderPc, msgArray>>
             \/ renderPc # "create" /\ renderPc' # "create"
      PROVE  SharedDataHeld'
  <2>1. \A f \in Entity : Creating(f)' <=> Creating(f)
    BY <1>s DEF Creating, Head1
  <2> QED
    BY <2>1, <1>s, <1>h, <1>p, HeldStays
<1>1. ASSUME NEW e \in Entity, AttachEntity(e) PROVE SharedDataHeld'
  <2>1. /\ phase[e] = "new" /\ phase' = [phase EXCEPT ![e] = "attached"]
        /\ useCount' = [useCount EXCEPT ![e] = 1]
        /\ dataObjects' = [dataObjects EXCEPT ![e] = TRUE]
        /\ dataObjectSize' = [dataObjectSize EXCEPT ![e] = TRUE]
        /\ UNCHANGED <<renderPc, msgArray, refs, trouble>>
    BY <1>1 DEF AttachEntity, renderVars, entityVars
  <2>2. \A f \in Entity : Creating(f)' <=> Creating(f)
    BY <2>1 DEF Creating, Head1
  <2>3. ~Creating(e) /\ e \notin refs
    <3>1. ~Creating(e)
      BY <2>1, <1>t, HeadInFlight DEF Lives, NewUnknown, Creating
    <3>2. e \notin refs
      BY <2>1, <1>t DEF Lives, CreatedWhileHeld, Leaving
    <3> QED
      BY <3>1, <3>2
  <2>4. Held(e)'
    BY <2>1, <2>2, <2>3, <1>t DEF Held
  <2>5. ASSUME NEW f \in Entity, f # e PROVE Held(f)'
    BY <2>1, <2>2, <2>5, <1>t, <1>h, HeldStays
  <2> QED
    BY <2>4, <2>5, <1>p
<1>2. ASSUME NEW e \in Entity, RemoveEntity(e) PROVE SharedDataHeld'
  <2>1. /\ phase[e] = "attached" /\ phase' = [phase EXCEPT ![e] = "removed"]
        /\ useCount' = [useCount EXCEPT ![e] = @ - 1]
        /\ trouble' = [trouble EXCEPT ![e] = Trouble(e)]
        /\ UNCHANGED <<renderPc, msgArray, refs, dataObjects, dataObjectSize>>
    BY <1>2 DEF RemoveEntity, renderVars, entityVars
  <2>2. \A f \in Entity : Creating(f)' <=> Creating(f)
    BY <2>1 DEF Creating, Head1
  <2>3. trouble[e] = {}
    BY <2>1, <1>t DEF Lives, AttachedStays
  <2>4. phase'[e] = "removed" /\ useCount'[e] = useCount[e] - 1 /\ useCount[e] \in 0 .. 2
    BY <2>1, <1>t
  <2>5. Held(e)'
    <3>1. Held(e)
      BY <1>h
    <3> QED
      BY <3>1, <2>1, <2>2, <2>3, <2>4 DEF Held
  <2>6. ASSUME NEW f \in Entity, f # e PROVE Held(f)'
    BY <2>1, <2>2, <2>6, <1>t, <1>h, HeldStays
  <2> QED
    BY <2>5, <2>6, <1>p
<1>3. ASSUME NEW e \in Entity, ClientSetupFirst(e) PROVE SharedDataHeld'
  <2>1. /\ Head1("create", e) /\ useCount[e] = 0
        /\ renderPc = "handle" /\ renderPc' = "create"
        /\ useCount' = [useCount EXCEPT ![e] = @ + 1]
        /\ UNCHANGED <<phase, trouble, msgArray, refs, dataObjects, dataObjectSize>>
    BY <1>3 DEF ClientSetupFirst, RenderGoto, entityVars, gameVars
  <2>2. Creating(e)' /\ \A f : f # e => ~Creating(f)' /\ ~Creating(f)
    BY <2>1 DEF Creating, Head1
  <2>3. "uncreated" \in trouble[e]
    <3>1. phase[e] = "removed"
      BY <2>1, <2>2, <1>n DEF RenderPlaces, Creating
    <3>2. Create(e) \in Range(Stream)
      BY <2>1, <1>t, HeadInFlight, Messages
    <3> QED
      BY <3>1, <3>2, <1>t DEF Lives, RemovedUncreated
  <2>4. Held(e)'
    <3>1. useCount'[e] = 1
      BY <2>1, <1>t
    <3>2. phase[e] # "attached" /\ e \notin refs
      BY <2>1, <1>h DEF Held
    <3> QED
      BY <3>1, <3>2, <2>1, <2>2, <2>3 DEF Held
  <2>5. ASSUME NEW f \in Entity, f # e PROVE Held(f)'
    BY <2>1, <2>2, <2>5, <1>t, <1>h, HeldStays
  <2> QED
    BY <2>4, <2>5, <1>p
<1>4. ASSUME NEW e \in Entity, Activation(e) PROVE SharedDataHeld'
  <2>1. /\ Head1("create", e) /\ renderPc' = "handle" /\ refs' = refs \cup {e} /\ e \notin refs
        /\ UNCHANGED <<phase, trouble>>
    BY <1>4, <1>t, LivesActivation DEF Activation, Activate, gameVars
  <2>2. \A f : ~Creating(f)' /\ (f # e => ~Creating(f))
    BY <2>1 DEF Creating, Head1
  <2>3. CASE /\ renderPc = "handle" /\ useCount[e] # 0
             /\ useCount' = [useCount EXCEPT ![e] = @ + 1]
             /\ UNCHANGED <<dataObjects, dataObjectSize>>
    <3>1. ~Creating(e) /\ useCount'[e] = useCount[e] + 1 /\ useCount[e] \in 0 .. 2
      BY <2>3, <1>t DEF Creating
    <3>2. Held(e)'
      <4>1. Held(e)
        BY <1>h
      <4> QED
        BY <4>1, <3>1, <2>1, <2>2, <2>3 DEF Held
    <3>3. ASSUME NEW f \in Entity, f # e PROVE Held(f)'
      BY <2>1, <2>2, <2>3, <3>3, <1>t, <1>h, HeldStays
    <3> QED
      BY <3>2, <3>3, <1>p
  <2>4. CASE /\ renderPc = "create" /\ UNCHANGED useCount
             /\ dataObjects' = [dataObjects EXCEPT ![e] = TRUE]
             /\ dataObjectSize' = [dataObjectSize EXCEPT ![e] = TRUE]
    <3>1. Creating(e)
      BY <2>1, <2>4 DEF Creating
    <3>2. Held(e)'
      <4>1. Held(e)
        BY <1>h
      <4>2. dataObjects'[e] /\ dataObjectSize'[e]
        BY <2>4, <1>t
      <4> QED
        BY <4>1, <4>2, <3>1, <2>1, <2>2, <2>4 DEF Held
    <3>3. ASSUME NEW f \in Entity, f # e PROVE Held(f)'
      BY <2>1, <2>2, <2>4, <3>3, <1>t, <1>h, HeldStays
    <3> QED
      BY <3>2, <3>3, <1>p
  <2> QED
    BY <1>4, <2>3, <2>4 DEF Activation
<1>5. ASSUME NEW e \in Entity, HandleDiscard(e) PROVE SharedDataHeld'
  <2>1. /\ renderPc = "handle" /\ renderPc' = "handle" /\ refs' = refs \ {e} /\ e \in refs
        /\ useCount' = [useCount EXCEPT ![e] = @ - 1]
        /\ dataObjects' = [dataObjects EXCEPT ![e] = useCount[e] # 1]
        /\ dataObjectSize' = [dataObjectSize EXCEPT ![e] = useCount[e] # 1]
        /\ trouble' = [trouble EXCEPT ![e] = @ \cap {"batched"}]
        /\ UNCHANGED phase
    BY <1>5 DEF HandleDiscard, RenderGoto
  <2>2. phase[e] = "removed"
    BY <1>5, <1>t, LivesDiscard
  <2>3. \A f : ~Creating(f)' /\ ~Creating(f)
    BY <2>1 DEF Creating
  <2>4. Held(e)'
    <3>1. useCount[e] = 1
      BY <1>h, <2>1, <2>2 DEF Held
    <3>2. useCount'[e] = 0
      BY <3>1, <2>1, <1>t
    <3> QED
      BY <3>2, <2>1, <2>2, <2>3 DEF Held
  <2>5. ASSUME NEW f \in Entity, f # e PROVE Held(f)'
    BY <2>1, <2>3, <2>5, <1>t, <1>h, HeldStays
  <2> QED
    BY <2>4, <2>5, <1>p
<1>6. CASE DestroyObjects \/ ClearSize
  <2>1. /\ mainPc \in {"destroy", "clear"}
        /\ UNCHANGED <<phase, useCount, trouble, refs, renderPc, msgArray>>
        /\ dataObjects' \in {dataObjects, [dataObjects EXCEPT ![owner] = FALSE]}
        /\ dataObjectSize' \in {dataObjectSize, [dataObjectSize EXCEPT ![owner] = FALSE]}
    BY <1>6 DEF DestroyObjects, ClearSize, MainGoto, renderVars, entityVars, gameVars
  <2>2. owner \in Entity /\ "uncreated" \in trouble[owner]
    BY <2>1, <1>t DEF Lives, DestroyingUncreated, Destroying
  <2>3. \A f \in Entity : Creating(f)' <=> Creating(f)
    BY <2>1 DEF Creating, Head1
  <2>4. ASSUME NEW f \in Entity PROVE Held(f)'
    <3>1. CASE f = owner
      BY <3>1, <2>1, <2>2, <2>3, <1>h DEF Held
    <3>2. CASE f # owner
      <4>1. dataObjects'[f] = dataObjects[f] /\ dataObjectSize'[f] = dataObjectSize[f]
        BY <3>2, <2>1, <1>t
      <4> QED
        BY <4>1, <2>1, <2>3, <1>h, HeldStays
    <3> QED
      BY <3>1, <3>2
  <2> QED
    BY <2>4, <1>p
<1>7. ASSUME NEW e \in Entity, PlayClip(e) \/ FailureOf(e) PROVE SharedDataHeld'
  <2>1. UNCHANGED <<useCount, phase, trouble, dataObjects, dataObjectSize, refs, renderPc, msgArray>>
    BY <1>7 DEF PlayClip, FailureOf, Failure, renderVars, entityVars, gameVars, sharedVars
  <2> QED
    BY <2>1, <1>s
<1>8. ASSUME NEW e \in Entity, HandlePlay(e) \/ BeginWriteOf(e) PROVE SharedDataHeld'
  <2>1. /\ UNCHANGED <<useCount, phase, trouble, dataObjects, dataObjectSize, refs>>
        /\ renderPc # "create" /\ renderPc' # "create"
    BY <1>8 DEF HandlePlay, BeginWriteOf, RenderGoto, entityVars, gameVars, sharedVars
  <2> QED
    BY <2>1, <1>s
<1>9. CASE EndFrame \/ MainSync \/ UNCHANGED vars
  <2>1. UNCHANGED <<useCount, phase, trouble, dataObjects, dataObjectSize, refs, renderPc, msgArray>>
    BY <1>9 DEF EndFrame, MainSync, vars, renderVars, entityVars, gameVars, sharedVars
  <2> QED
    BY <2>1, <1>s
<1>10. CASE Meet \/ RenderSync \/ Prepare \/ EndWrite
  <2>1. /\ UNCHANGED <<useCount, phase, trouble, dataObjects, dataObjectSize, refs>>
        /\ \/ renderPc # "create" /\ renderPc' # "create"
           \/ UNCHANGED <<renderPc, msgArray>>
    BY <1>10 DEF Meet, MainArrive, RenderArrive, MainGiveUp, RenderGiveUp, RenderSync, Flip,
                 Prepare, EndWrite, CullOr, RenderGoto, renderVars, entityVars, gameVars, sharedVars
  <2> QED
    BY <2>1, <1>s
<1> QED
  BY <1>1, <1>2, <1>3, <1>4, <1>5, <1>6, <1>7, <1>8, <1>9, <1>10, StepsOfNext

LEMMA NextTypeOK == IInv /\ [Next]_vars => TypeOK'
<1> SUFFICES ASSUME IInv, [Next]_vars PROVE TypeOK'
  OBVIOUS
<1>t. /\ TypeOK /\ useCount \in [Entity -> 0 .. 2] /\ DestroyingUncreated
      /\ dataObjects \in [Entity -> BOOLEAN] /\ dataObjectSize \in [Entity -> BOOLEAN]
  BY DEF IInv, Lives, TypeOK
<1>1. /\ \/ useCount' = useCount
         \/ \E e \in Entity : \E n : useCount' = [useCount EXCEPT ![e] = n]
      /\ \/ dataObjects' = dataObjects
         \/ \E e \in Entity, b \in BOOLEAN : dataObjects' = [dataObjects EXCEPT ![e] = b]
      /\ \/ dataObjectSize' = dataObjectSize
         \/ \E e \in Entity, b \in BOOLEAN : dataObjectSize' = [dataObjectSize EXCEPT ![e] = b]
  <2>1. ASSUME UNCHANGED <<useCount, dataObjects, dataObjectSize>> PROVE <1>1!:
    BY <2>1
  <2>2. ASSUME NEW e \in Entity,
               \/ AttachEntity(e) \/ RemoveEntity(e) \/ ClientSetupFirst(e) \/ Activation(e)
               \/ HandleDiscard(e)
        PROVE  <1>1!:
    <3>1. TRUE \in BOOLEAN /\ (useCount[e] # 1) \in BOOLEAN
      OBVIOUS
    <3> QED
      BY <2>2, <3>1 DEF AttachEntity, RemoveEntity, ClientSetupFirst, Activation, HandleDiscard
  <2>3. CASE DestroyObjects \/ ClearSize
    <3>1. owner \in Entity
      BY <2>3, <1>t DEF DestroyObjects, ClearSize, MainGoto, DestroyingUncreated
    <3> QED
      BY <2>3, <3>1 DEF DestroyObjects, ClearSize
  <2>4. ASSUME NEW e \in Entity,
               \/ PlayClip(e) \/ HandlePlay(e) \/ FailureOf(e) \/ BeginWriteOf(e)
        PROVE  UNCHANGED <<useCount, dataObjects, dataObjectSize>>
    BY <2>4 DEF PlayClip, HandlePlay, FailureOf, Failure, BeginWriteOf, sharedVars
  <2>5. ASSUME EndFrame \/ MainSync \/ Meet \/ RenderSync \/ Prepare \/ EndWrite
               \/ UNCHANGED vars
        PROVE  UNCHANGED <<useCount, dataObjects, dataObjectSize>>
    BY <2>5 DEF EndFrame, MainSync, Meet, MainArrive, RenderArrive, MainGiveUp, RenderGiveUp,
                RenderSync, Flip, Prepare, EndWrite, vars,
                sharedVars
  <2> QED
    BY <2>1, <2>2, <2>3, <2>4, <2>5, StepsOfNext
<1>2. SharedTypes'
  <2>1. useCount' \in [Entity -> 0 .. 2]
    <3>1. useCount' = [e \in Entity |-> useCount'[e]]
      BY <1>1, <1>t
    <3>2. \A e \in Entity : useCount'[e] = Holders(e)'
      BY NextHeld DEF SharedDataHeld
    <3>3. \A e \in Entity : Holders(e)' \in 0 .. 2
      BY DEF Holders
    <3>4. \A e \in Entity : useCount'[e] \in 0 .. 2
      BY <3>2, <3>3
    <3> QED
      BY <3>1, <3>4
  <2>2. dataObjects' \in [Entity -> BOOLEAN] /\ dataObjectSize' \in [Entity -> BOOLEAN]
    BY <1>1, <1>t
  <2> QED
    BY <2>1, <2>2 DEF SharedTypes
<1>3. ModelTypes' /\ ThreadTypes' /\ GameTypes' /\ EntityTypes'
  BY NextModelTypes, NextThreadTypes, NextGameTypes, NextEntityTypes DEF IInv, Lives
<1> QED
  BY <1>2, <1>3 DEF TypeOK, ModelTypes, ThreadTypes, GameTypes, EntityTypes, SharedTypes

-----------------------------------------------------------------------------
(* What was finished.                                                      *)
Finished(e) ==
    phase[e] = "removed" =>
        /\ Leaving(e) /\ "unplayed" \notin trouble[e] => Len(played[e]) = sent[e]
        /\ e \in refs /\ "unsettled" \notin trouble[e] => status[uses[e]] \in {"settled", "lost"}

LEMMA FinishedOnes ==
    ASSUME NEW e \in Entity, Finished(e),
           phase'[e] = "removed" => phase[e] = "removed" /\ (Leaving(e)' => Leaving(e)),
           played'[e] = played[e], sent'[e] = sent[e], trouble'[e] = trouble[e],
           e \in refs' => e \in refs, uses'[e] = uses[e],
           \A m : status[m] \in {"settled", "lost"} => status'[m] \in {"settled", "lost"}
    PROVE  Finished(e)'
BY DEF Finished

(* Validation does not start a clip of an entity whose clips have all been *)
(* started.                                                                *)
LEMMA NothingDeferred ==
    ASSUME TypeOK, NEW e \in Entity, Follow(e), Len(played[e]) = sent[e]
    PROVE  /\ deferred[e] = <<>>
           /\ Validate(e) => played'[e] = played[e]
<1>1. /\ played[e] \in Seq(Nat) /\ Len(played[e]) \in Nat
      /\ deferred[e] \in Seq(Nat) /\ Len(deferred[e]) \in Nat
  BY ClipTypes
<1>2. Len(deferred[e]) = 0
  <2>1. Len(played[e]) + Len(deferred[e]) <= Len(played[e])
    BY DEF Follow
  <2>2. Len(played[e]) \in Nat /\ Len(deferred[e]) \in Nat
    BY <1>1
  <2>3. \A a, b \in Nat : a + b <= a => b = 0
    OBVIOUS
  <2> QED
    BY <2>1, <2>2, <2>3
<1>3. deferred[e] = <<>>
  <2>1. deferred[e] # <<>> => Len(deferred[e]) \in Nat \ {0}
    BY <1>1, EmptySeq
  <2> QED
    BY <1>2, <2>1
<1>4. Validate(e) => played'[e] = played[e] \o <<>>
  BY <1>3 DEF Validate, TypeOK
<1> QED
  BY <1>1, <1>3, <1>4, ConcatEmptySeq

LEMMA FinishedValidate ==
    ASSUME TypeOK, NEW e \in Entity, Follow(e), Finished(e), phase' = phase, trouble' = trouble,
           sent' = sent, Leaving(e)' <=> Leaving(e), Validate(e) \/ UNCHANGED played,
           e \in refs' /\ phase[e] = "removed" /\ "unsettled" \notin trouble[e]
              => status'[uses'[e]] \in {"settled", "lost"}
    PROVE  Finished(e)'
<1>1. phase[e] = "removed" /\ Leaving(e) /\ "unplayed" \notin trouble[e] => Len(played'[e]) = sent[e]
  BY NothingDeferred DEF Finished
<1> QED
  BY <1>1 DEF Finished

LEMMA NextFinishedStays == IInv /\ [Next]_vars => FinishedStays'
<1> SUFFICES ASSUME IInv, [Next]_vars PROVE FinishedStays'
  OBVIOUS
<1>t. /\ TypeOK /\ Lives /\ RenderPlaces /\ SharedDataHeld /\ ClipsFollow
      /\ phase \in [Entity -> {"new", "attached", "removed"}]
      /\ trouble \in [Entity -> SUBSET {"uncreated", "batched", "unplayed", "unsettled"}]
      /\ sent \in [Entity -> Nat] /\ played \in [Entity -> Seq(Nat)]
      /\ uses \in [Entity -> Model \cup {NoModel}] /\ status \in [Model -> M!Status]
  BY DEF IInv, TypeOK
<1>h. \A f \in Entity : Finished(f) /\ Follow(f)
  BY <1>t, FollowAll DEF IInv, FinishedStays, Finished
<1>p. (\A f \in Entity : Finished(f)') => FinishedStays'
  BY DEF FinishedStays, Finished
<1>1. ASSUME NEW e \in Entity, AttachEntity(e) PROVE FinishedStays'
  <2>1. /\ Range(Stream') = Range(Stream) \cup {Create(e)}
        /\ phase' = [phase EXCEPT ![e] = "attached"]
        /\ UNCHANGED <<mainPc, owner, played, sent, trouble, refs, uses, status>>
    BY <1>1, <1>t, LivesAttach DEF AttachEntity, MainGoto, entityVars, modelVars
  <2>2. \A f \in Entity : phase'[f] = "removed" => phase[f] = "removed" /\ (Leaving(f)' => Leaving(f))
    <3> SUFFICES ASSUME NEW f \in Entity, phase'[f] = "removed"
                 PROVE  phase[f] = "removed" /\ (Leaving(f)' => Leaving(f))
      OBVIOUS
    <3>1. phase[f] = "removed"
      BY <2>1, <1>t
    <3>2. Discard(f) # Create(e)
      BY Messages
    <3>3. Discard(f) \in Range(Stream') => Discard(f) \in Range(Stream)
      BY <2>1, <3>2
    <3>4. Destroying(f)' <=> Destroying(f)
      BY <2>1 DEF Destroying
    <3> QED
      BY <3>1, <3>3, <3>4 DEF Leaving
  <2> QED
    BY <2>1, <2>2, <1>h, <1>p, FinishedOnes
<1>2. ASSUME NEW e \in Entity, PlayClip(e) PROVE FinishedStays'
  <2>1. /\ phase[e] = "attached" /\ sent' = [sent EXCEPT ![e] = @ + 1]
        /\ UNCHANGED <<phase, mainPc, owner, msgArray, msgQueue, played, trouble, refs, uses, status>>
    BY <1>2 DEF PlayClip, MainGoto, entityVars, modelVars
  <2>2. \A f \in Entity : Leaving(f)' <=> Leaving(f)
    BY <2>1 DEF Leaving, Destroying, Stream
  <2>3. Finished(e)'
    BY <2>1 DEF Finished
  <2>4. ASSUME NEW f \in Entity, f # e PROVE Finished(f)'
    BY <2>1, <2>2, <2>4, <1>t, <1>h, FinishedOnes
  <2> QED
    BY <2>3, <2>4, <1>p
<1>3. ASSUME NEW e \in Entity, RemoveEntity(e) PROVE FinishedStays'
  <2>1. /\ Range(Stream') \subseteq Range(Stream) \cup {Discard(e)}
        /\ phase' = [phase EXCEPT ![e] = "removed"]
        /\ trouble' = [trouble EXCEPT ![e] = Trouble(e)]
        /\ mainPc' = "frame" \/ owner' = e
        /\ UNCHANGED <<played, sent, refs, uses, status>>
    <3>1. Range(Stream') \in {Range(Stream), Range(Stream) \cup {Discard(e)}}
      BY <1>3, <1>t, LivesRemove
    <3>2. Range(Stream') \subseteq Range(Stream) \cup {Discard(e)}
      BY <3>1
    <3> QED
      BY <1>3, <3>2 DEF RemoveEntity, MainGoto, entityVars, modelVars
  <2>2. Finished(e)'
    <3>1. trouble'[e] = Trouble(e)
      BY <2>1, <1>t
    <3> QED
      BY <2>1, <3>1, <1>t, TroubleFacts DEF Finished
  <2>3. ASSUME NEW f \in Entity, f # e PROVE Finished(f)'
    <3>0. phase'[f] = phase[f] /\ ~Destroying(f)'
      BY <2>1, <2>3, <1>t DEF Destroying
    <3>1. phase'[f] = phase[f] /\ (Leaving(f)' => Leaving(f))
      <4>1. Discard(f) \in Range(Stream') => Discard(f) \in Range(Stream)
        BY <2>1, <2>3, Messages
      <4> QED
        BY <3>0, <4>1 DEF Leaving
    <3> QED
      BY <2>1, <2>3, <3>1, <1>t, <1>h, FinishedOnes
  <2> QED
    BY <2>2, <2>3, <1>p
<1>4. ASSUME NEW e \in Entity, Activation(e) PROVE FinishedStays'
  <2>1. /\ \A f \in Entity : Leaving(f)' <=> Leaving(f)
        /\ Create(e) \in Range(Stream)
        /\ refs' = refs \cup {e} /\ uses' = [uses EXCEPT ![e] = ModelOf[e]]
        /\ UNCHANGED <<phase, trouble, sent, status>>
        /\ Validate(e) \/ UNCHANGED played
    BY <1>4, <1>t, LivesActivation DEF Activation, Activate, M!Acquire, gameVars
  <2>2. Finished(e)'
    <3>1. phase[e] = "removed" => "unsettled" \in trouble[e]
      BY <2>1, <1>t DEF Lives, RemovedUncreated
    <3> QED
      BY <2>1, <3>1, <1>t, <1>h, FinishedValidate
  <2>3. ASSUME NEW f \in Entity, f # e PROVE Finished(f)'
    <3>1. played'[f] = played[f]
      BY <2>1, <2>3, <1>t DEF Validate
    <3> QED
      BY <2>1, <2>3, <3>1, <1>t, <1>h, FinishedOnes
  <2> QED
    BY <2>2, <2>3, <1>p
<1>5. ASSUME NEW e \in Entity, HandlePlay(e) PROVE FinishedStays'
  <2>1. /\ \A f \in Entity : Leaving(f)' <=> Leaving(f)
        /\ UNCHANGED <<phase, trouble, sent, refs, uses, status>>
        /\ \A f \in Entity \ {e} : played'[f] = played[f]
    BY <1>5, <1>t, LivesHandlePlay DEF HandlePlay, gameVars, modelVars
  <2>2. Len(played[e]) # sent[e]
    <3>1. Len(played[e]) + Len(deferred[e]) < sent[e]
      BY <1>5, <1>t, <1>h, FollowHandlePlay
    <3>2. Len(played[e]) \in Nat /\ Len(deferred[e]) \in Nat /\ sent[e] \in Nat
      BY <1>t, ClipTypes
    <3>3. \A a, b, c \in Nat : a + b < c => a # c
      OBVIOUS
    <3> QED
      BY <3>1, <3>2, <3>3
  <2>3. Finished(e)'
    <3>1. Finished(e)
      BY <1>h
    <3> QED
      BY <3>1, <2>1, <2>2 DEF Finished
  <2>4. ASSUME NEW f \in Entity, f # e PROVE Finished(f)'
    BY <2>1, <2>4, <1>h, FinishedOnes
  <2> QED
    BY <2>3, <2>4, <1>p
<1>6. ASSUME NEW e \in Entity, HandleDiscard(e) PROVE FinishedStays'
  <2>1. /\ ~Leaving(e)' /\ refs' = refs \ {e} /\ M!Release(e)
        /\ \A f \in Entity \ {e} : Leaving(f)' <=> Leaving(f)
        /\ trouble' = [trouble EXCEPT ![e] = @ \cap {"batched"}]
        /\ uses' = [uses EXCEPT ![e] = NoModel]
        /\ UNCHANGED <<phase, played, sent>>
    BY <1>6, <1>t, LivesDiscard DEF HandleDiscard, M!Release
  <2>2. Finished(e)'
    BY <2>1 DEF Finished
  <2>3. ASSUME NEW f \in Entity, f # e PROVE Finished(f)'
    <3>1. /\ uses'[f] = uses[f] /\ trouble'[f] = trouble[f] /\ (f \in refs' => f \in refs)
          /\ Leaving(f)' <=> Leaving(f)
      BY <2>1, <2>3, <1>t
    <3>2. ASSUME f \in refs, status[uses[f]] \in {"settled", "lost"}
          PROVE  status'[uses[f]] \in {"settled", "lost"}
      <4>1. uses[f] \in Model
        BY <3>2, <1>t DEF Lives, CreatedWhileHeld
      <4>2. CASE M!LastUser(e)
        <5>1. uses[f] # uses[e]
          BY <4>2, <2>3 DEF M!LastUser
        <5>2. \/ status' = [status EXCEPT ![uses[e]] = "pending"]
              \/ \E lost \in SUBSET Model :
                    status' = [m \in Model |-> IF m = uses[e] THEN "pending"
                                               ELSE IF m \in lost THEN "lost" ELSE status[m]]
          BY <4>2, <2>1 DEF M!Release
        <5> QED
          BY <5>1, <5>2, <4>1, <3>2, <1>t
      <4>3. CASE ~M!LastUser(e)
        BY <4>3, <3>2, <2>1 DEF M!Release
      <4> QED
        BY <4>2, <4>3
    <3>3. Finished(f)
      BY <1>h
    <3> QED
      BY <3>1, <3>2, <3>3, <2>1 DEF Finished
  <2> QED
    BY <2>2, <2>3, <1>p
<1>7. CASE ClearSize \/ EndFrame
  <2>1. /\ \A f \in Entity : Leaving(f)' <=> Leaving(f)
        /\ UNCHANGED <<phase, trouble, sent, played, refs, uses, status>>
    BY <1>7, <1>t, LivesClear, LivesEndFrame DEF ClearSize, EndFrame, entityVars, gameVars,
                                                 modelVars
  <2> QED
    BY <2>1, <1>h, <1>p, FinishedOnes
<1>8. CASE (\E e \in Entity : Quiet(e)) \/ DestroyObjects \/ MainSync
           \/ Meet \/ RenderSync \/ Prepare \/ EndWrite \/ UNCHANGED vars
  <2>1. /\ UNCHANGED <<phase, trouble, sent, refs, uses>>
        /\ \A f : Leaving(f)' <=> Leaving(f)
    BY <1>8, <1>t, QuietSteps
  <2>2. CASE EndWrite
    <3>1. PICK e \in Entity : Validate(e) \/ UNCHANGED played
      BY <2>2, <1>t DEF EndWrite, RenderGoto, RenderPlaces
    <3>2. status' = status
      BY <2>2 DEF EndWrite, modelVars
    <3>3. Finished(e)'
      <4>1. e \in refs' /\ phase[e] = "removed" /\ "unsettled" \notin trouble[e]
               => status'[uses'[e]] \in {"settled", "lost"}
        <5>1. Finished(e)
          BY <1>h
        <5> QED
          BY <5>1, <3>2, <2>1 DEF Finished
      <4> QED
        BY <4>1, <3>1, <2>1, <1>t, <1>h, FinishedValidate
    <3>4. ASSUME NEW f \in Entity, f # e PROVE Finished(f)'
      <4>1. played'[f] = played[f]
        BY <3>1, <3>4, <1>t DEF Validate
      <4> QED
        BY <4>1, <3>2, <2>1, <1>h, FinishedOnes
    <3> QED
      BY <3>3, <3>4, <1>p
  <2>3. CASE Prepare
    <3>1. played' = played /\ M!Progress
      BY <2>3 DEF Prepare, entityVars
    <3>2. \A m \in Model : status[m] \in {"settled", "lost"} => status'[m] \in {"settled", "lost"}
      BY <3>1 DEF M!Progress, M!Higher
    <3>3. ASSUME NEW f \in Entity PROVE Finished(f)'
      <4>1. f \in refs => uses[f] \in Model
        BY <1>t DEF Lives, CreatedWhileHeld
      <4>2. Finished(f)
        BY <1>h
      <4> QED
        BY <4>1, <4>2, <3>1, <3>2, <2>1 DEF Finished
    <3> QED
      BY <3>3, <1>p
  <2>4. CASE ~EndWrite /\ ~Prepare
    <3>1. UNCHANGED <<played, status>>
      BY <1>8, <2>4 DEF Quiet, ClientSetupFirst, FailureOf, Failure, BeginWriteOf, 
         DestroyObjects, MainSync, Meet, MainArrive, RenderArrive, MainGiveUp, RenderGiveUp,
         RenderSync, Flip, entityVars, modelVars, vars
    <3> QED
      BY <3>1, <2>1, <1>h, <1>p, FinishedOnes
  <2> QED
    BY <2>2, <2>3, <2>4
<1> QED
  BY <1>1, <1>2, <1>3, <1>4, <1>5, <1>6, <1>7, <1>8, LoudSteps

-----------------------------------------------------------------------------
(* What ends the program.                                                  *)

(* Nothing happens after that.                                             *)
LEMMA AbortedStays ==
    ASSUME aborted, [Next]_vars
    PROVE  UNCHANGED vars
<1>1. ASSUME NEW e \in Entity,
             \/ AttachEntity(e) \/ PlayClip(e) \/ RemoveEntity(e)
             \/ ClientSetupFirst(e) \/ Activation(e) \/ HandlePlay(e) \/ HandleDiscard(e)
             \/ FailureOf(e) \/ BeginWriteOf(e)
      PROVE  FALSE
  BY <1>1 DEF AttachEntity, PlayClip, RemoveEntity, ClientSetupFirst, Activation,
              HandlePlay, HandleDiscard, FailureOf, Failure, BeginWriteOf, MainGoto, RenderGoto
<1>2. ASSUME DestroyObjects \/ ClearSize \/ EndFrame \/ MainSync
             \/ Meet \/ RenderSync \/ Prepare \/ EndWrite
      PROVE  FALSE
  BY <1>2 DEF DestroyObjects, ClearSize, EndFrame, MainSync, Meet, MainArrive, RenderArrive,
              MainGiveUp, RenderGiveUp, RenderSync, Flip,
              Prepare, EndWrite, MainGoto, RenderGoto
<1> QED
  BY <1>1, <1>2, StepsOfNext

(* Only a failed assertion ends it.                                        *)
LEMMA OnlyFailures ==
    ASSUME ~aborted, [Next]_vars
    PROVE  ~aborted' \/ \E e \in Entity : FailureOf(e)
<1>1. ASSUME NEW e \in Entity,
             \/ AttachEntity(e) \/ PlayClip(e) \/ RemoveEntity(e)
             \/ ClientSetupFirst(e) \/ HandlePlay(e) \/ BeginWriteOf(e)
      PROVE  ~aborted'
  BY <1>1 DEF AttachEntity, PlayClip, RemoveEntity, ClientSetupFirst, HandlePlay,
              BeginWriteOf, modelVars
<1>2. ASSUME NEW e \in Entity, Activation(e) \/ HandleDiscard(e) PROVE ~aborted'
  BY <1>2 DEF Activation, Activate, HandleDiscard, M!Acquire, M!Release
<1>3. ASSUME DestroyObjects \/ ClearSize \/ EndFrame \/ MainSync
             \/ Meet \/ RenderSync \/ Prepare \/ EndWrite \/ UNCHANGED vars
      PROVE  ~aborted'
  BY <1>3 DEF DestroyObjects, ClearSize, EndFrame, MainSync, Meet, MainArrive, RenderArrive,
              MainGiveUp, RenderGiveUp, RenderSync, Flip,
              Prepare, M!Progress, EndWrite, modelVars, vars
<1> QED
  BY <1>1, <1>2, <1>3, StepsOfNext

(* The create message of an entity is the first of its messages.           *)
LEMMA CreateFirst ==
    ASSUME TypeOK, InOrder, NEW e \in Entity, NEW k, Head1(k, e), k # "create"
    PROVE  Create(e) \notin Range(Stream)
<1>1. /\ Head(msgArray) \in Message /\ Head(msgArray).entity = e /\ Head(msgArray).kind = k
      /\ msgArray # <<>> /\ msgArray \in Seq(Message) /\ msgQueue \in Seq(Message)
  BY HeadInFlight DEF Head1, TypeOK
<1>2. Stream[1] = Head(msgArray) /\ Stream \in Seq(Message)
  <2>1. Len(msgArray) \in Nat \ {0} /\ Len(msgQueue) \in Nat
    BY <1>1, EmptySeq
  <2>2. 1 \in 1 .. (Len(msgArray) + Len(msgQueue)) /\ 1 <= Len(msgArray)
    BY <2>1
  <2>3. Stream[1] = msgArray[1] /\ Stream \in Seq(Message)
    BY <2>2, <1>1, ConcatProperties DEF Stream
  <2> QED
    BY <2>3, <1>1, TailElements
<1>3. ASSUME NEW j \in 1 .. Len(Stream), Stream[j] = Create(e) PROVE FALSE
  <2>1. /\ Create(e) \in Message /\ Create(e).entity = e /\ Create(e).kind = "create"
    BY Messages
  <2>2. j # 1
    BY <2>1, <1>1, <1>2, <1>3
  <2>3. 1 < j /\ 1 \in 1 .. Len(Stream) /\ DOMAIN Stream = 1 .. Len(Stream)
    BY <2>2, <1>2, ElementsOfSeq
  <2>4. <<Head(msgArray), Create(e)>> \in MayPrecede
    BY <2>3, <1>2, <1>3 DEF InOrder, Along
  <2> QED
    BY <2>1, <2>4, <1>1, PrecedeFacts
<1> QED
  BY <1>2, <1>3, ElementsOfSeq

LEMMA FailuresTooEarly ==
    ASSUME IInv, NEW e \in Entity, FailureOf(e)
    PROVE  RemovedTooEarly'
<1>t. /\ TypeOK /\ Lives /\ RenderPlaces /\ SharedDataHeld /\ ClipsFollow /\ FinishedStays
      /\ phase \in [Entity -> {"new", "attached", "removed"}]
      /\ entities \in Seq(Entity) /\ entityIndex \in 0 .. Len(entities)
      /\ useCount \in [Entity -> 0 .. 2]
  BY DEF IInv, TypeOK
<1>f. ASSUME NEW why, NEW early, Failure(e, why), early \in trouble[e],
             <<why, early>> \in {<<"ref", "batched">>, <<"data", "uncreated">>,
                                 <<"deferred", "unplayed">>, <<"model", "unsettled">>}
      PROVE  RemovedTooEarly'
  <2>1. cause'.why = why /\ cause'.entity = e /\ trouble' = trouble
    BY <1>f DEF Failure, Blame, gameVars
  <2> QED
    BY <2>1, <1>f DEF RemovedTooEarly
<1>d. ASSUME e \in refs, ~dataObjectSize[e] PROVE "uncreated" \in trouble[e]
  <2>1. e \in Range(entities)
    BY <1>d, <1>t DEF Lives, CreatedWhileHeld
  <2>2. useCount[e] > 0
    <3>1. useCount[e] = Holders(e)
      BY <1>t DEF SharedDataHeld
    <3> QED
      BY <3>1, <2>1 DEF Holders
  <2> QED
    BY <2>2, <1>d, <1>t DEF SharedDataHeld
<1>r. ASSUME Head1("discard", e) PROVE phase[e] = "removed" /\ Leaving(e)
  <2>1. Discard(e) \in Range(Stream)
    BY <1>r, <1>t, HeadInFlight, Messages
  <2>2. phase[e] \notin {"new", "attached"}
    BY <2>1, <1>t, Messages DEF Lives, NewUnknown, AttachedStays
  <2> QED
    BY <2>1, <2>2, <1>t DEF Leaving
<1>1. CASE Failure(e, "data") /\ Head1("create", e) /\ renderPc = "create" /\ dataObjects[e]
  <2>1. phase[e] = "removed"
    BY <1>1, <1>t DEF RenderPlaces
  <2>2. Create(e) \in Range(Stream)
    BY <1>1, <1>t, HeadInFlight, Messages
  <2>3. "uncreated" \in trouble[e]
    BY <2>1, <2>2, <1>t DEF Lives, RemovedUncreated
  <2> QED
    BY <2>3, <1>1, <1>f
<1>2. CASE Failure(e, "ref") /\ (Head1("play", e) \/ Head1("discard", e)) /\ e \notin refs
  <2>1. Create(e) \notin Range(Stream)
    BY <1>2, <1>t, CreateFirst DEF Lives
  <2>2. Head(msgArray) \in Range(Stream) /\ Head(msgArray).entity = e
    BY <1>2, <1>t, HeadInFlight
  <2>3. phase[e] = "removed" /\ ~Leaving(e)
    BY <2>1, <2>2, <1>2, <1>t DEF Lives, CreatedWhileHeld, NewUnknown
  <2>4. "batched" \in trouble[e]
    BY <2>2, <2>3, <1>t DEF Lives, RemovedBatched
  <2> QED
    BY <2>4, <1>2, <1>f
<1>3. CASE Failure(e, "deferred") /\ Head1("discard", e) /\ e \in refs /\ deferred[e] # <<>>
  <2>1. Len(played[e]) # sent[e]
    BY <1>3, <1>t, FollowAll, NothingDeferred
  <2>2. "unplayed" \in trouble[e]
    BY <2>1, <1>3, <1>r, <1>t DEF FinishedStays
  <2> QED
    BY <2>2, <1>3, <1>f
<1>4. CASE Failure(e, "model") /\ Head1("discard", e) /\ e \in refs /\ M!ReleaseFails(e)
  <2>1. status[uses[e]] \notin {"settled", "lost"}
    BY <1>4 DEF M!ReleaseFails
  <2>2. "unsettled" \in trouble[e]
    BY <2>1, <1>4, <1>r, <1>t DEF FinishedStays
  <2> QED
    BY <2>2, <1>4, <1>f
<1>5. CASE Failure(e, "data") /\ Head1("discard", e) /\ e \in refs /\ useCount[e] = 1
           /\ ~dataObjectSize[e]
  BY <1>5, <1>d, <1>f
<1>6. CASE Failure(e, "data") /\ entityIndex > 0 /\ e = entities[entityIndex] /\ ~dataObjectSize[e]
  <2>1. entityIndex \in 1 .. Len(entities)
    BY <1>6, <1>t
  <2>2. e \in refs
    BY <2>1, <1>6, <1>t, ElementsOfSeq DEF Lives, CreatedWhileHeld
  <2> QED
    BY <2>2, <1>6, <1>d, <1>f
<1> QED
  BY <1>1, <1>2, <1>3, <1>4, <1>5, <1>6 DEF FailureOf

LEMMA NextRemovedTooEarly == IInv /\ [Next]_vars => RemovedTooEarly'
<1> SUFFICES ASSUME IInv, [Next]_vars PROVE RemovedTooEarly'
  OBVIOUS
<1>1. CASE aborted
  <2>1. UNCHANGED <<aborted, cause, trouble>>
    BY <1>1, AbortedStays DEF vars, modelVars, gameVars
  <2>2. RemovedTooEarly
    BY DEF IInv
  <2> QED
    BY <2>1, <2>2 DEF RemovedTooEarly
<1>2. CASE ~aborted
  BY <1>2, OnlyFailures, FailuresTooEarly DEF RemovedTooEarly
<1> QED
  BY <1>1, <1>2

-----------------------------------------------------------------------------
(* The invariant, and what it implies.                                     *)
LEMMA InitIInv == Init => IInv
<1> SUFFICES ASSUME Init PROVE IInv
  OBVIOUS
<1>i. /\ uses = [e \in Entity |-> NoModel] /\ status = [m \in Model |-> "pending"]
      /\ broken = FALSE /\ aborted = FALSE
      /\ lockStep \in BOOLEAN /\ outstandingThreads = 2 /\ frameSyncEvent = FALSE
      /\ mainPc = "sync" /\ owner = Nobody /\ renderPc = "sync" /\ client = Nobody
      /\ entities = <<>> /\ entityIndex = 0
      /\ phase = [e \in Entity |-> "new"]
      /\ batch = <<>> /\ msgQueue = <<>> /\ msgArray = <<>>
      /\ refs = {} /\ valid = {}
      /\ deferred = [e \in Entity |-> <<>>] /\ played = [e \in Entity |-> <<>>]
      /\ useCount = [e \in Entity |-> 0]
      /\ dataObjects = [e \in Entity |-> FALSE] /\ dataObjectSize = [e \in Entity |-> FALSE]
      /\ sent = [e \in Entity |-> 0] /\ trouble = [e \in Entity |-> {}]
      /\ cause = [entity |-> "none", why |-> "none"]
  BY DEF Init, M!Init
<1>e. /\ \A S : <<>> \in Seq(S) /\ Len(<<>>) = 0 /\ Range(<<>>) = {} /\ DOMAIN <<>> = {}
  <2>1. \A S : <<>> \in Seq(S) /\ Len(<<>>) = 0
    BY EmptySeq
  <2>2. DOMAIN <<>> = {}
    OBVIOUS
  <2> QED
    BY <2>1, <2>2 DEF Range
<1>s. Stream = <<>> /\ Range(Stream) = {} /\ Range(batch) = {} /\ Range(entities) = {}
  <2>1. Stream = <<>>
    BY <1>i, <1>e, ConcatEmptySeq DEF Stream
  <2> QED
    BY <2>1, <1>i, <1>e
<1>1. ModelTypes
  BY <1>i DEF ModelTypes, M!Status
<1>2. ThreadTypes
  BY <1>i DEF ThreadTypes
<1>3. GameTypes
  <2>1. /\ sent \in [Entity -> Nat] /\ \A e \in Entity : sent[e] <= MaxPlays[e]
    BY <1>i, EntityAssumption
  <2> QED
    BY <2>1, <1>i, <1>e DEF GameTypes
<1>4. EntityTypes
  <2>1. entityIndex \in 0 .. Len(entities)
    BY <1>i, <1>e
  <2> QED
    BY <2>1, <1>i, <1>e DEF EntityTypes
<1>5. SharedTypes
  BY <1>i DEF SharedTypes
<1>6. Lives
  <2>1. InOrder /\ IsInjective(entities)
    BY <1>i, <1>e, <1>s DEF InOrder, Along, IsInjective
  <2>2. NewUnknown /\ AttachedStays /\ RemovedBatched /\ RemovedUncreated
    BY <1>i, <1>s DEF NewUnknown, AttachedStays, RemovedBatched, RemovedUncreated
  <2>3. DestroyingUncreated
    BY <1>i DEF DestroyingUncreated, Destroying
  <2>4. CreatedWhileHeld
    BY <2>1, <1>i, <1>s DEF CreatedWhileHeld, Leaving
  <2> QED
    BY <2>1, <2>2, <2>3, <2>4 DEF Lives
<1>7. ClipsFollow
  <2> SUFFICES ASSUME NEW e \in Entity PROVE Follow(e)
    BY FollowAll
  <2>1. played[e] = <<>> /\ deferred[e] = <<>> /\ sent[e] = 0
    BY <1>i
  <2>2. Len(played[e]) = 0 /\ Len(deferred[e]) = 0
    BY <2>1, <1>e
  <2>3. ClipsOf(e, InFlight) = {} /\ (Len(played[e]) + Len(deferred[e]) + 1) .. sent[e] = {}
    BY <2>1, <2>2, <1>s DEF ClipsOf, InFlight
  <2> QED
    BY <2>1, <2>2, <2>3, <1>i DEF Follow
<1>8. SharedDataHeld
  BY <1>i, <1>s DEF SharedDataHeld, Holders
<1>9. FinishedStays /\ RenderPlaces /\ RemovedTooEarly
  BY <1>i DEF FinishedStays, RenderPlaces, RemovedTooEarly, Head1
<1> QED
  BY <1>1, <1>2, <1>3, <1>4, <1>5, <1>6, <1>7, <1>8, <1>9, TypesInParts DEF IInv

LEMMA NextIInv == IInv /\ [Next]_vars => IInv'
<1> SUFFICES ASSUME IInv, [Next]_vars PROVE IInv'
  OBVIOUS
<1> QED
  BY NextTypeOK, NextLives, NextClipsFollow, NextHeld, NextFinishedStays, NextPlaces,
     NextRemovedTooEarly DEF IInv

(* The invariant holds in every reachable state.                           *)
THEOREM SpecIInv == Spec => []IInv
<1>1. Init => IInv
  BY InitIInv
<1>2. IInv /\ [Next]_vars => IInv'
  BY NextIInv
<1> QED
  BY <1>1, <1>2, PTL DEF Spec

(* Type correctness: among others the use counts of the shared data stay   *)
(* between 0 and 2, and the render thread's index within its stage.        *)
THEOREM SpecTypeOK == Spec => []TypeOK
<1>1. IInv => TypeOK
  BY DEF IInv
<1> QED
  BY <1>1, SpecIInv, PTL

(* The use count of each FrameSyncSharedData counts the threads that hold  *)
(* it, and these find its data objects, unless the entity was removed      *)
(* before the render thread had created its counterpart.                   *)
THEOREM SpecSharedDataHeld == Spec => []SharedDataHeld
<1>1. IInv => SharedDataHeld
  BY DEF IInv
<1> QED
  BY <1>1, SpecIInv, PTL

(* The program only ends for what was unfinished when the main thread      *)
(* removed the entity, and in the way that goes with it.                   *)
THEOREM SpecRemovedTooEarly == Spec => []RemovedTooEarly
<1>1. IInv => RemovedTooEarly
  BY DEF IInv
<1> QED
  BY <1>1, SpecIInv, PTL

(* An entity starts its clips in the order in which they were sent, and    *)
(* none is lost or started twice.                                          *)
THEOREM SpecClipsInOrder == Spec => []ClipsInOrder
<1>1. IInv => ClipsInOrder
  <2> SUFFICES ASSUME IInv PROVE ClipsInOrder
    OBVIOUS
  <2>t. TypeOK /\ Lives /\ ClipsFollow
    BY DEF IInv
  <2> DEFINE onTheirWay == msgArray \o msgQueue \o batch
             plays(e) == {i \in DOMAIN onTheirWay :
                             onTheirWay[i].kind = "play" /\ onTheirWay[i].entity = e}
  <2>1. /\ onTheirWay \in Seq(Message) /\ Range(onTheirWay) = InFlight
        /\ Along(onTheirWay, MayPrecede)
    <3>1. Stream \in Seq(Message) /\ batch \in Seq(Message) /\ onTheirWay = Stream \o batch
      BY <2>t, StreamTypes DEF Stream
    <3>2. /\ Along(Stream, MayPrecede) /\ Along(batch, MayPrecede)
          /\ \A x \in Range(Stream), y \in Range(batch) : <<x, y>> \in MayPrecede
      BY <2>t DEF Lives, InOrder
    <3> HIDE DEF onTheirWay
    <3> QED
      BY <3>1, <3>2, ConcatElements DEF InFlight
  <2> HIDE DEF onTheirWay
  <2>2. /\ DOMAIN onTheirWay = 1 .. Len(onTheirWay)
        /\ InFlight = {onTheirWay[i] : i \in DOMAIN onTheirWay}
        /\ \A i \in DOMAIN onTheirWay : onTheirWay[i] \in Message
    BY <2>1, ElementsOfSeq
  <2>3. ASSUME NEW e \in Entity
        PROVE  /\ \A i \in DOMAIN (played[e] \o deferred[e]) : (played[e] \o deferred[e])[i] = i
               /\ {onTheirWay[i].clip : i \in plays(e)}
                     = (Len(played[e] \o deferred[e]) + 1) .. sent[e]
               /\ \A i, j \in plays(e) : i < j => onTheirWay[i].clip < onTheirWay[j].clip
               /\ Len(played[e] \o deferred[e]) <= sent[e]
    <3>1. Follow(e)
      BY <2>t, FollowAll
    <3>2. /\ played[e] \in Seq(Nat) /\ deferred[e] \in Seq(Nat)
          /\ played[e] \o deferred[e] \in Seq(Nat)
      BY <2>t, ClipTypes, ConcatProperties
    <3>3. /\ \A i \in 1 .. Len(played[e]) : played[e][i] = i
          /\ \A i \in 1 .. Len(deferred[e]) : deferred[e][i] = Len(played[e]) + i
      BY <3>1 DEF Follow
    <3>4. /\ Len(played[e] \o deferred[e]) = Len(played[e]) + Len(deferred[e])
          /\ \A i \in 1 .. Len(played[e] \o deferred[e]) : (played[e] \o deferred[e])[i] = i
      BY <3>2, <3>3, CountingConcat
    <3>5. \A i \in DOMAIN (played[e] \o deferred[e]) : (played[e] \o deferred[e])[i] = i
      BY <3>2, <3>4, LenProperties
    <3>6. {onTheirWay[i].clip : i \in plays(e)} = ClipsOf(e, InFlight)
      BY <2>2 DEF ClipsOf
    <3>7. ASSUME NEW i \in plays(e), NEW j \in plays(e), i < j
          PROVE  onTheirWay[i].clip < onTheirWay[j].clip
      <4>1. /\ i \in DOMAIN onTheirWay /\ j \in DOMAIN onTheirWay
            /\ onTheirWay[i].kind = "play" /\ onTheirWay[i].entity = e
            /\ onTheirWay[j].kind = "play" /\ onTheirWay[j].entity = e
        BY <3>7
      <4>2. <<onTheirWay[i], onTheirWay[j]>> \in MayPrecede
        BY <4>1, <3>7, <2>1 DEF Along
      <4>3. onTheirWay[i] \in Message /\ onTheirWay[j] \in Message
        BY <4>1, <2>2
      <4> QED
        BY <4>1, <4>2, <4>3, PrecedeFacts
    <3> HIDE DEF plays
    <3> QED
      BY <3>1, <3>4, <3>5, <3>6, <3>7 DEF Follow
  <2> QED
    BY <2>3 DEF ClipsInOrder, onTheirWay
<1> QED
  BY <1>1, SpecIInv, PTL
=============================================================================
