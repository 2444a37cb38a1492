-------------------------- MODULE ResourceLoading --------------------------
(***************************************************************************)
(* Models and their parts (meshes, textures) as the render thread loads    *)
(* them: Resources::ResourceManager counts the clients of each resource,   *)
(* Resources::SimpleResourceMapper (one per kind) loads it through a       *)
(* StreamResourceLoader or StreamModelLoader, whose ReadStream message the *)
(* IO thread handles, and polls the loader once per frame.                 *)
(*                                                                         *)
(* A model that has been read creates its parts as managed resources and   *)
(* discards them when it is unloaded.  A resource that cannot be loaded is *)
(* replaced by the placeholder of its kind, which all of them share.       *)
(*                                                                         *)
(* To discard the last client of a resource that is still pending is an    *)
(* assertion failure: its ManagedResource contains no Resource yet.  The   *)
(* program then ends, and Cancel() of a load is never reached.             *)
(***************************************************************************)
EXTENDS Naturals, FiniteSets

CONSTANTS
    User,               \* model entities and other users of models
    Model, Mesh, Texture,
    NoModel,
    Parts,              \* the meshes and textures of each model
    PlaceholderParts    \* those of the placeholder model

Resource == Model \cup Mesh \cup Texture

ASSUME ResourceAssumption ==
    /\ NoModel \notin Resource
    /\ Model \cap (Mesh \cup Texture) = {} /\ Mesh \cap Texture = {}
    /\ Parts \in [Model -> SUBSET (Mesh \cup Texture)]
    /\ PlaceholderParts \subseteq Mesh \cup Texture
    /\ IsFiniteSet(Model) /\ IsFiniteSet(User)

VARIABLES
    holds,          \* the model each user has got from LoadManagedModel()
    clientCount,    \* of the ManagedResource; 0: there is none
    contained,      \* what the ManagedResource contains
    pendingResources,
    readStream,     \* the loader's ReadStream message
    placeholder,    \* is the placeholder model loaded?
    state           \* of the resource manager

vars == <<holds, clientCount, contained, pendingResources, readStream, placeholder, state>>

Contents == {"nothing", "resource", "placeholder"}

TypeOK ==
    /\ holds \in [User -> Model \cup {NoModel}]
    /\ clientCount \in [Resource -> Nat]
    /\ contained \in [Resource -> Contents]
    /\ pendingResources \subseteq Resource
    /\ readStream \in [Resource -> {"none", "sent", "ok", "failed"}]
    /\ placeholder \in BOOLEAN
    /\ state \in {"open", "closed", "aborted"}

(* The placeholder model is loaded synchronously when its mapper is        *)
(* attached; that creates its parts.                                       *)
Init ==
    /\ holds = [u \in User |-> NoModel]
    /\ clientCount = [r \in Resource |-> IF r \in PlaceholderParts THEN 1 ELSE 0]
    /\ contained = [r \in Resource |-> "nothing"]
    /\ pendingResources = PlaceholderParts
    /\ readStream = [r \in Resource |-> IF r \in PlaceholderParts THEN "sent" ELSE "none"]
    /\ placeholder = TRUE
    /\ state = "open"

-----------------------------------------------------------------------------
(* CreateManagedResource(), calls[r] times for each resource r, when the   *)
(* loads of done have ended.                                               *)

\* Mutant: the mapper does not remember that the load is pending.
CreateForgotten(calls, done) ==
    LET new == {r \in Resource : clientCount[r] = 0 /\ calls[r] > 0}
    IN /\ clientCount' = [r \in Resource |-> clientCount[r] + calls[r]]
       /\ pendingResources' = pendingResources \ done
       /\ readStream' = [r \in Resource |-> IF r \in new THEN "sent"
                                            ELSE IF r \in done THEN "none"
                                            ELSE readStream[r]]

\* Mutant: a managed resource that exists is returned without a further client.
CreateUncounted(calls, done) ==
    LET new == {r \in Resource : clientCount[r] = 0 /\ calls[r] > 0}
    IN /\ clientCount' = [r \in Resource |-> IF r \in new THEN calls[r] ELSE clientCount[r]]
       /\ pendingResources' = (pendingResources \ done) \cup new
       /\ readStream' = [r \in Resource |-> IF r \in new THEN "sent"
                                            ELSE IF r \in done THEN "none"
                                            ELSE readStream[r]]

(* The first call makes the mapper create the resource and its loader,     *)
(* which sends a ReadStream message; the load is pending.                  *)
CreateManagedResources(calls, done) ==
    LET new == {r \in Resource : clientCount[r] = 0 /\ calls[r] > 0}
    IN /\ clientCount' = [r \in Resource |-> clientCount[r] + calls[r]]
       /\ pendingResources' = (pendingResources \ done) \cup new
       /\ readStream' = [r \in Resource |-> IF r \in new THEN "sent"
                                            ELSE IF r \in done THEN "none"
                                            ELSE readStream[r]]

(* ModelServer::LoadManagedModel()                                         *)
LoadManagedModel(u, m) ==
    /\ state = "open" /\ holds[u] = NoModel
    /\ holds' = [holds EXCEPT ![u] = m]
    /\ CreateManagedResources([r \in Resource |-> IF r = m THEN 1 ELSE 0], {})
    /\ UNCHANGED <<contained, placeholder, state>>

-----------------------------------------------------------------------------
\* Mutant: Unload() clears the nodes and leaves their resources alone.
UnloadNodesOnly(m) == {}

(* The parts that go with model m when its last client goes: Unload()      *)
(* discards the parts of the model, or those of the placeholder.           *)
UnloadedWith(m) ==
    IF clientCount[m] # 1 THEN {}
    ELSE CASE contained[m] = "resource" -> Parts[m]
           [] contained[m] = "placeholder" /\ placeholder -> PlaceholderParts
           [] OTHER -> {}

(* DiscardManagedResource() for all of rs: the last client of a pending    *)
(* resource fails the assertion on its Resource's use count; a contained   *)
(* placeholder is unloaded like a resource, whoever else shows it (what    *)
(* becomes of the other kinds' placeholders matters to drawing only).      *)
DiscardManagedResources(rs) ==
    LET gone == {r \in rs : clientCount[r] = 1}
    IN IF gone \cap pendingResources # {}
       THEN /\ state' = "aborted"
            /\ UNCHANGED <<clientCount, contained, pendingResources, readStream, placeholder>>
       ELSE /\ clientCount' = [r \in Resource |->
                   IF r \in rs THEN clientCount[r] - 1 ELSE clientCount[r]]
            /\ contained' = [r \in Resource |-> IF r \in gone THEN "nothing" ELSE contained[r]]
            /\ placeholder' = (placeholder /\
                   \A m \in gone \cap Model : contained[m] # "placeholder")
            /\ UNCHANGED <<pendingResources, readStream, state>>

(* ModelServer::DiscardManagedModel()                                      *)
DiscardManagedModel(u) ==
    /\ state = "open" /\ holds[u] # NoModel
    /\ DiscardManagedResources({holds[u]} \cup UnloadedWith(holds[u]))
    /\ holds' = IF state' = "aborted" THEN holds ELSE [holds EXCEPT ![u] = NoModel]

(* Close(): the mappers discard what is left, the placeholder model and    *)
(* its parts.  All users have gone: the graphics server is closed before   *)
(* the model server and asserts that it has no entities.                   *)
Close ==
    /\ state = "open" /\ \A u \in User : holds[u] = NoModel
    /\ IF placeholder /\ PlaceholderParts \cap pendingResources # {}
       THEN /\ state' = "aborted"
            /\ UNCHANGED <<clientCount, contained, placeholder>>
       ELSE /\ state' = "closed"
            /\ clientCount' = [r \in Resource |-> 0]
            /\ contained' = [r \in Resource |-> "nothing"]
            /\ placeholder' = FALSE
    /\ UNCHANGED <<holds, pendingResources, readStream>>

-----------------------------------------------------------------------------
(* The IO thread: OnReadStream().  A stream that can be read and not be    *)
(* set up counts as failed.  (Files are not empty, that is asserted, and   *)
(* those of models have the right header, otherwise the program ends.)     *)
ReadStream(r) ==
    /\ state = "open" /\ readStream[r] = "sent"
    /\ \E result \in {"ok", "failed"} : readStream' = [readStream EXCEPT ![r] = result]
    /\ UNCHANGED <<holds, clientCount, contained, pendingResources, placeholder, state>>

Handled(r) == readStream[r] \in {"ok", "failed"}

\* Mutant: a resource whose load has failed stays pending.
PrepareLoadedOnly ==
    LET done == {r \in pendingResources : readStream[r] = "ok"}
        loaded == {r \in done : readStream[r] = "ok"}
    IN /\ state = "open" /\ done # {}
       /\ contained' = [r \in Resource |-> IF r \in loaded THEN "resource"
                                           ELSE IF r \in done THEN "placeholder"
                                           ELSE contained[r]]
       /\ CreateManagedResources([r \in Resource |->
              Cardinality({m \in loaded \cap Model : r \in Parts[m]})], done)
       /\ UNCHANGED <<holds, placeholder, state>>

(* ResourceManager::Prepare(): every mapper polls its pending resources.   *)
(* What has been read is set up; a model creates its parts by that.        *)
Prepare ==
    LET done == {r \in pendingResources : Handled(r)}
        loaded == {r \in done : readStream[r] = "ok"}
    IN /\ state = "open" /\ done # {}
       /\ contained' = [r \in Resource |-> IF r \in loaded THEN "resource"
                                           ELSE IF r \in done THEN "placeholder"
                                           ELSE contained[r]]
       /\ CreateManagedResources([r \in Resource |->
              Cardinality({m \in loaded \cap Model : r \in Parts[m]})], done)
       /\ UNCHANGED <<holds, placeholder, state>>

Ended == state # "open" /\ UNCHANGED vars

Next ==
    \/ \E u \in User : DiscardManagedModel(u) \/ \E m \in Model : LoadManagedModel(u, m)
    \/ \E r \in Resource : ReadStream(r)
    \/ Prepare \/ Close \/ Ended

Spec == Init /\ [][Next]_vars

(* The IO thread handles every message and the render thread comes to      *)
(* Prepare() in every frame; users may do nothing.                         *)
FairSpec == Spec /\ WF_vars(Prepare) /\ \A r \in Resource : WF_vars(ReadStream(r))

-----------------------------------------------------------------------------
(* How far model m has come, for module ManagedModels: ManagedResource's   *)
(* GetState() and Model::CheckPendingResources(), which asks for meshes    *)
(* and not for textures.                                                   *)
Arrived(rs) == \A r \in rs : contained[r] # "nothing"

Status(m) ==
    LET parts == IF contained[m] = "resource" THEN Parts[m] ELSE PlaceholderParts
    IN CASE contained[m] = "nothing" -> "pending"
         [] contained[m] = "placeholder" /\ ~placeholder -> "lost"
         [] OTHER -> IF Arrived(parts) THEN "settled"
                     ELSE IF Arrived(parts \cap Mesh) THEN "usable"
                     ELSE "pending"

(* Nothing but the loss of the placeholder can unload it while it is open. *)
Managed == INSTANCE ManagedModels WITH
    uses <- holds,
    status <- [m \in Model |-> Status(m)],
    broken <- ~placeholder,
    aborted <- state = "aborted"

-----------------------------------------------------------------------------
(* Properties.                                                             *)

(* The client count of every resource is the number of users that hold it  *)
(* and of loaded models, the placeholder included, it is a part of:        *)
(* CreateManagedResource() and DiscardManagedResource() are paired across  *)
(* loading, sharing and unloading, so that nothing leaks or goes early.    *)
CountExact ==
    state = "open" => \A r \in Resource :
        clientCount[r] = Cardinality({u \in User : holds[u] = r})
                         + Cardinality({m \in Model : contained[m] = "resource" /\ r \in Parts[m]})
                         + (IF placeholder /\ r \in PlaceholderParts THEN 1 ELSE 0)

(* A managed resource contains nothing exactly as long as its mapper lists *)
(* it as pending and its ReadStream message is under way: no load is       *)
(* forgotten, and CheckPendingResources() counts what is missing.          *)
PendingExact ==
    state = "open" => \A r \in Resource :
        /\ (r \in pendingResources) <=> (clientCount[r] > 0 /\ contained[r] = "nothing")
        /\ (r \in pendingResources) <=> (readStream[r] # "none")

(* Loading implements ManagedModels: in particular, a program that lets go *)
(* of a model as its last user only when the model has settled never fails *)
(* the assertion, and a model in use is not unloaded.                      *)
ImplementsManagedModels == Managed!Spec

(* Every model somebody holds becomes usable, if only as the placeholder.  *)
ModelsServed == Managed!Served
=============================================================================
