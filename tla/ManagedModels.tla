--------------------------- MODULE ManagedModels ---------------------------
(***************************************************************************)
(* What the users of Models::ModelServer, the model entities on the render *)
(* thread, may count on: LoadManagedModel() returns at once, the model     *)
(* comes later, stays while it has users, and goes with the last of them.  *)
(*                                                                         *)
(* Module ResourceLoading implements this; GraphicsEntities uses it.       *)
(*                                                                         *)
(* It also says what they have to put up with.  To discard a model as its  *)
(* last user may end the program with a failed assertion as long as the    *)
(* model or one of its parts is not loaded; and the placeholder of the     *)
(* models that could not be loaded may get lost, then these are never      *)
(* usable again.                                                           *)
(***************************************************************************)
CONSTANTS
    User, Model,
    NoModel         \* what a user without a model uses, no model

VARIABLES
    uses,           \* the model each user has
    status,         \* how far the loading of each model has come
    broken,         \* the placeholder model is lost
    aborted         \* an assertion has failed

modelVars == <<uses, status, broken, aborted>>

(* "usable": GetState() is Loaded and CheckPendingResources() is true, all *)
(* meshes are there.  "settled": so are the textures.  "lost": the model   *)
(* shows a placeholder that is not loaded any more.                        *)
Status == {"pending", "usable", "settled", "lost"}

Higher(s) == CASE s = "pending" -> IF broken THEN Status ELSE Status \ {"lost"}
               [] s = "usable" -> {"usable", "settled"}
               [] OTHER -> {s}

Used(m) == \E u \in User : uses[u] = m
Usable(m) == status[m] \in {"usable", "settled"}

Init ==
    /\ uses = [u \in User |-> NoModel]
    /\ status = [m \in Model |-> "pending"]
    /\ broken = FALSE /\ aborted = FALSE

(* LoadManagedModel()                                                      *)
Acquire(u, m) ==
    /\ ~aborted /\ uses[u] = NoModel
    /\ uses' = [uses EXCEPT ![u] = m]
    /\ UNCHANGED <<status, broken, aborted>>

LastUser(u) == \A v \in User \ {u} : uses[v] # uses[u]

(* DiscardManagedModel(), and it comes back.                               *)
Release(u) ==
    /\ ~aborted /\ uses[u] # NoModel
    /\ uses' = [uses EXCEPT ![u] = NoModel]
    /\ IF ~LastUser(u) THEN UNCHANGED <<status, broken>>
       ELSE \/ /\ status' = [status EXCEPT ![uses[u]] = "pending"]
               /\ UNCHANGED broken
            \/ \* uses[u] was the placeholder, as the models in lost are
               /\ \E lost \in SUBSET {m \in Model \ {uses[u]} : Used(m)} :
                     status' = [m \in Model |->
                         IF m = uses[u] THEN "pending"
                         ELSE IF m \in lost THEN "lost"
                         ELSE status[m]]
               /\ broken' = TRUE
    /\ UNCHANGED aborted

(* DiscardManagedModel(), and it does not.                                 *)
ReleaseFails(u) ==
    /\ ~aborted /\ uses[u] # NoModel
    /\ LastUser(u) /\ status[uses[u]] \notin {"settled", "lost"}
    /\ aborted' = TRUE
    /\ UNCHANGED <<uses, status, broken>>

(* ResourceManager::Prepare()                                              *)
Progress ==
    /\ ~aborted
    /\ status' \in [Model -> Status]
    /\ \A m \in Model : /\ status'[m] \in Higher(status[m])
                        /\ ~Used(m) => status'[m] = status[m]
    /\ UNCHANGED <<uses, broken, aborted>>

(* At shutdown the placeholder is discarded, which may fail as well.       *)
Close ==
    /\ ~aborted /\ \A u \in User : uses[u] = NoModel
    /\ \/ aborted' = TRUE /\ UNCHANGED broken
       \/ broken' = TRUE /\ UNCHANGED aborted
    /\ UNCHANGED <<uses, status>>

Next ==
    \/ \E u \in User : \/ \E m \in Model : Acquire(u, m)
                       \/ Release(u) \/ ReleaseFails(u)
    \/ Progress \/ Close

Spec == Init /\ [][Next]_modelVars

(* Every model that is used becomes usable, unless the placeholder of the  *)
(* failed ones is lost.                                                    *)
Served == \A m \in Model : Used(m) ~> Usable(m) \/ ~Used(m) \/ broken \/ aborted
=============================================================================
