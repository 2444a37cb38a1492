----------------------- MODULE ResourceLoadingProofs -----------------------
(***************************************************************************)
(* Resource loading for any models, parts and users: the client counts are *)
(* exact, no load is forgotten, and loading implements ManagedModels.      *)
(*                                                                         *)
(* CountExact and PendingExact need each other: that a pending resource    *)
(* has a client keeps Prepare() from creating it a second time, and what   *)
(* unloading takes away is counted because a part that several models have *)
(* counts each of them.                                                    *)
(***************************************************************************)
EXTENDS ResourceLoading, FiniteSetTheorems, TLAPS

(* What CountExact counts.                                                 *)
UsersOf(r) == {u \in User : holds[u] = r}
ModelsWith(r) == {m \in Model : contained[m] = "resource" /\ r \in Parts[m]}
PlaceholderHas(r) == IF placeholder /\ r \in PlaceholderParts THEN 1 ELSE 0

(* A resource without clients contains nothing.                            *)
UnusedEmpty ==
    state = "open" => \A r \in Resource : clientCount[r] = 0 => contained[r] = "nothing"

IInv == TypeOK /\ UnusedEmpty /\ PendingExact /\ CountExact

-----------------------------------------------------------------------------
(* Models have parts and are none.                                         *)
LEMMA Kinds ==
    /\ NoModel \notin Resource /\ Model \subseteq Resource
    /\ PlaceholderParts \subseteq Resource \ Model
    /\ \A m \in Model : Parts[m] \subseteq Resource \ Model
BY ResourceAssumption DEF Resource

(* The sets that are counted are finite.                                   *)
LEMMA CountsFinite ==
    ASSUME NEW r
    PROVE  /\ IsFiniteSet(UsersOf(r)) /\ Cardinality(UsersOf(r)) \in Nat
           /\ IsFiniteSet(ModelsWith(r)) /\ Cardinality(ModelsWith(r)) \in Nat
           /\ PlaceholderHas(r) \in {0, 1}
<1>1. UsersOf(r) \subseteq User /\ ModelsWith(r) \subseteq Model
  BY DEF UsersOf, ModelsWith
<1>2. IsFiniteSet(User) /\ IsFiniteSet(Model)
  BY ResourceAssumption
<1>3. IsFiniteSet(UsersOf(r)) /\ IsFiniteSet(ModelsWith(r))
  BY <1>1, <1>2, FS_Subset
<1> QED
  BY <1>3, FS_CardinalityType DEF PlaceholderHas

(* Nobody holds a part directly and models are no parts, so that each kind *)
(* of resource has clients of one kind only.                               *)
LEMMA ClientsByKind ==
    ASSUME TypeOK
    PROVE  /\ \A r \in Model : ModelsWith(r) = {} /\ PlaceholderHas(r) = 0
           /\ \A r \in Resource \ Model : UsersOf(r) = {}
BY Kinds DEF TypeOK, UsersOf, ModelsWith, PlaceholderHas

(* CountExact in terms of these sets.                                      *)
LEMMA CountSum ==
    CountExact <=> (state = "open" => \A r \in Resource :
        clientCount[r] = Cardinality(UsersOf(r)) + Cardinality(ModelsWith(r))
                         + PlaceholderHas(r))
BY DEF CountExact, UsersOf, ModelsWith, PlaceholderHas

(* The clients of a model are its users, those of a part the models.       *)
LEMMA CountByKind ==
    ASSUME TypeOK, CountExact, state = "open"
    PROVE  /\ \A r \in Model : clientCount[r] = Cardinality(UsersOf(r))
           /\ \A r \in Resource \ Model :
                clientCount[r] = Cardinality(ModelsWith(r)) + PlaceholderHas(r)
<1>1. \A r \in Resource : /\ Cardinality(UsersOf(r)) \in Nat
                          /\ Cardinality(ModelsWith(r)) \in Nat
                          /\ PlaceholderHas(r) \in {0, 1}
  BY CountsFinite
<1>2. Cardinality({}) = 0
  BY FS_EmptySet
<1>3. \A r \in Resource : clientCount[r] = Cardinality(UsersOf(r))
                             + Cardinality(ModelsWith(r)) + PlaceholderHas(r)
  BY CountSum
<1>4. ASSUME NEW r \in Model PROVE clientCount[r] = Cardinality(UsersOf(r))
  <2>1. r \in Resource /\ ModelsWith(r) = {} /\ PlaceholderHas(r) = 0
    BY <1>4, ClientsByKind, Kinds
  <2>2. clientCount[r] = Cardinality(UsersOf(r)) + 0 + 0
    BY <2>1, <1>2, <1>3
  <2>3. Cardinality(UsersOf(r)) \in Nat
    BY <2>1, <1>1
  <2> QED
    BY <2>2, <2>3
<1>5. ASSUME NEW r \in Resource \ Model
      PROVE  clientCount[r] = Cardinality(ModelsWith(r)) + PlaceholderHas(r)
  <2>1. UsersOf(r) = {}
    BY ClientsByKind
  <2>2. clientCount[r] = 0 + Cardinality(ModelsWith(r)) + PlaceholderHas(r)
    BY <2>1, <1>2, <1>3
  <2>3. Cardinality(ModelsWith(r)) \in Nat /\ PlaceholderHas(r) \in {0, 1}
    BY <1>1
  <2> QED
    BY <2>2, <2>3
<1> QED
  BY <1>4, <1>5

(* A model that is held has a client, and so has each part of a loaded one.*)
LEMMA ClientsCounted ==
    ASSUME TypeOK, CountExact, state = "open"
    PROVE  /\ \A u \in User : holds[u] # NoModel => clientCount[holds[u]] > 0
           /\ \A m \in Model : contained[m] = "resource" =>
                  \A r \in Parts[m] : clientCount[r] > 0
           /\ placeholder => \A r \in PlaceholderParts : clientCount[r] > 0
<1>1. \A S : IsFiniteSet(S) /\ S # {} => Cardinality(S) > 0
  BY FS_EmptySet, FS_CardinalityType
<1>2. ASSUME NEW u \in User, holds[u] # NoModel PROVE clientCount[holds[u]] > 0
  <2>1. holds[u] \in Model /\ UsersOf(holds[u]) # {}
    BY <1>2 DEF TypeOK, UsersOf
  <2> QED
    BY <2>1, <1>1, CountByKind, CountsFinite
<1>3. ASSUME NEW m \in Model, contained[m] = "resource", NEW r \in Parts[m]
      PROVE  clientCount[r] > 0
  <2>1. r \in Resource \ Model /\ ModelsWith(r) # {}
    BY <1>3, Kinds DEF ModelsWith
  <2> QED
    BY <2>1, <1>1, CountByKind, CountsFinite
<1>4. ASSUME placeholder, NEW r \in PlaceholderParts PROVE clientCount[r] > 0
  <2>1. r \in Resource \ Model /\ PlaceholderHas(r) = 1
    BY <1>4, Kinds DEF PlaceholderHas
  <2> QED
    BY <2>1, CountByKind, CountsFinite
<1> QED
  BY <1>2, <1>3, <1>4

-----------------------------------------------------------------------------
LEMMA InitIInv == Init => IInv
<1> SUFFICES ASSUME Init PROVE IInv
  OBVIOUS
<1>1. TypeOK
  BY Kinds DEF Init, TypeOK, Contents
<1>2. UnusedEmpty /\ PendingExact
  BY DEF Init, UnusedEmpty, PendingExact
<1>3. CountExact
  <2> SUFFICES ASSUME NEW r \in Resource
               PROVE  clientCount[r] = Cardinality(UsersOf(r)) + Cardinality(ModelsWith(r))
                                       + PlaceholderHas(r)
    BY CountSum
  <2>1. UsersOf(r) = {} /\ ModelsWith(r) = {}
    BY Kinds DEF Init, UsersOf, ModelsWith
  <2>2. clientCount[r] = PlaceholderHas(r) /\ PlaceholderHas(r) \in {0, 1}
    BY DEF Init, PlaceholderHas
  <2> QED
    BY <2>1, <2>2, FS_EmptySet
<1> QED
  BY <1>1, <1>2, <1>3 DEF IInv

(* LoadManagedModel() adds a user to the model and nothing else.           *)
LEMMA LoadIInv ==
    ASSUME IInv, NEW u \in User, NEW m \in Model, LoadManagedModel(u, m)
    PROVE  IInv'
<1> USE DEF IInv
<1>1. /\ state = "open" /\ state' = "open" /\ holds[u] = NoModel
      /\ holds' = [holds EXCEPT ![u] = m]
      /\ clientCount' = [r \in Resource |-> clientCount[r] + (IF r = m THEN 1 ELSE 0)]
      /\ contained' = contained /\ placeholder' = placeholder
  BY DEF LoadManagedModel, CreateManagedResources
<1>2. /\ pendingResources' = IF clientCount[m] = 0 THEN pendingResources \cup {m}
                             ELSE pendingResources
      /\ readStream' = [r \in Resource |-> IF r = m /\ clientCount[m] = 0 THEN "sent"
                                           ELSE readStream[r]]
  BY Kinds DEF LoadManagedModel, CreateManagedResources, TypeOK
<1>3. TypeOK'
  BY <1>1, <1>2, Kinds DEF TypeOK
<1>4. UnusedEmpty' /\ PendingExact'
  BY <1>1, <1>2, Kinds DEF TypeOK, UnusedEmpty, PendingExact
<1>5. CountExact'
  <2> SUFFICES ASSUME NEW r \in Resource
               PROVE  clientCount'[r] = Cardinality(UsersOf(r)') + Cardinality(ModelsWith(r)')
                                        + PlaceholderHas(r)'
    BY DEF CountExact, UsersOf, ModelsWith, PlaceholderHas
  <2>1. ModelsWith(r)' = ModelsWith(r) /\ PlaceholderHas(r)' = PlaceholderHas(r)
    BY <1>1 DEF ModelsWith, PlaceholderHas
  <2>2. clientCount[r] = Cardinality(UsersOf(r)) + Cardinality(ModelsWith(r)) + PlaceholderHas(r)
    BY <1>1, CountSum
  <2>3. CASE r = m
    <3>1. UsersOf(r)' = UsersOf(r) \cup {u} /\ u \notin UsersOf(r)
      BY <2>3, <1>1, Kinds DEF UsersOf, TypeOK
    <3>2. Cardinality(UsersOf(r)') = Cardinality(UsersOf(r)) + 1
      BY <3>1, CountsFinite, FS_AddElement
    <3>3. clientCount'[r] = clientCount[r] + 1
      BY <1>1, <2>3
    <3>4. /\ Cardinality(UsersOf(r)) \in Nat /\ Cardinality(ModelsWith(r)) \in Nat
          /\ PlaceholderHas(r) \in Nat
      BY CountsFinite
    <3> QED
      BY <2>1, <2>2, <3>2, <3>3, <3>4
  <2>4. CASE r # m
    <3>1. UsersOf(r)' = UsersOf(r)
      BY <2>4, <1>1, Kinds DEF UsersOf, TypeOK
    <3>2. clientCount'[r] = clientCount[r]
      BY <1>1, <2>4 DEF TypeOK
    <3> QED
      BY <2>1, <2>2, <3>1, <3>2
  <2> QED
    BY <2>3, <2>4
<1> QED
  BY <1>3, <1>4, <1>5

(* What DiscardManagedModel() discards, and which of it loses its last     *)
(* client.                                                                 *)
Discarded(u) == {holds[u]} \cup UnloadedWith(holds[u])
Gone(u) == {r \in Discarded(u) : clientCount[r] = 1}

(* The parts that go with a model exist and have a client: the model.      *)
LEMMA UnloadedCounted ==
    ASSUME IInv, state = "open", NEW m \in Model
    PROVE  /\ UnloadedWith(m) \subseteq Resource \ Model
           /\ \A r \in UnloadedWith(m) : clientCount[r] > 0
<1>1. CASE clientCount[m] = 1 /\ contained[m] = "resource"
  <2>1. UnloadedWith(m) = Parts[m]
    BY <1>1 DEF UnloadedWith
  <2> QED
    BY <2>1, <1>1, Kinds, ClientsCounted DEF IInv
<1>2. CASE clientCount[m] = 1 /\ contained[m] = "placeholder" /\ placeholder
  <2>1. UnloadedWith(m) = PlaceholderParts
    BY <1>2 DEF UnloadedWith
  <2> QED
    BY <2>1, <1>2, Kinds, ClientsCounted DEF IInv
<1>3. CASE /\ ~(clientCount[m] = 1 /\ contained[m] = "resource")
           /\ ~(clientCount[m] = 1 /\ contained[m] = "placeholder" /\ placeholder)
  <2>1. UnloadedWith(m) = {}
    BY <1>3 DEF UnloadedWith
  <2> QED
    BY <2>1
<1> QED
  BY <1>1, <1>2, <1>3

(* The discard that fails the assertion changes nothing else.              *)
LEMMA DiscardFails ==
    ASSUME NEW u \in User, DiscardManagedModel(u), Gone(u) \cap pendingResources # {}
    PROVE  /\ state = "open" /\ holds[u] # NoModel /\ state' = "aborted"
           /\ UNCHANGED <<holds, clientCount, contained, pendingResources, readStream,
                          placeholder>>
<1>1. /\ state = "open" /\ holds[u] # NoModel
      /\ DiscardManagedResources(Discarded(u))
      /\ holds' = IF state' = "aborted" THEN holds ELSE [holds EXCEPT ![u] = NoModel]
  BY DEF DiscardManagedModel, Discarded
<1>2. /\ state' = "aborted"
      /\ UNCHANGED <<clientCount, contained, pendingResources, readStream, placeholder>>
  BY <1>1 DEF DiscardManagedResources, Gone
<1> QED
  BY <1>1, <1>2

(* What the discard that succeeds does.                                    *)
LEMMA DiscardSucceeds ==
    ASSUME IInv, NEW u \in User, DiscardManagedModel(u), Gone(u) \cap pendingResources = {}
    PROVE  /\ state = "open" /\ state' = "open" /\ holds[u] \in Model
           /\ holds' = [holds EXCEPT ![u] = NoModel]
           /\ Discarded(u) \subseteq Resource
           /\ \A r \in Discarded(u) : clientCount[r] > 0
           /\ clientCount' = [r \in Resource |->
                  IF r \in Discarded(u) THEN clientCount[r] - 1 ELSE clientCount[r]]
           /\ contained' = [r \in Resource |->
                  IF r \in Gone(u) THEN "nothing" ELSE contained[r]]
           /\ placeholder' = (placeholder /\
                  ~(clientCount[holds[u]] = 1 /\ contained[holds[u]] = "placeholder"))
           /\ UNCHANGED <<pendingResources, readStream>>
<1>1. /\ state = "open" /\ holds[u] \in Model
      /\ DiscardManagedResources(Discarded(u))
  BY DEF DiscardManagedModel, Discarded, IInv, TypeOK
<1>2. /\ clientCount' = [r \in Resource |->
             IF r \in Discarded(u) THEN clientCount[r] - 1 ELSE clientCount[r]]
      /\ contained' = [r \in Resource |->
             IF r \in Gone(u) THEN "nothing" ELSE contained[r]]
      /\ placeholder' = (placeholder /\
             \A m \in Gone(u) \cap Model : contained[m] # "placeholder")
      /\ UNCHANGED <<pendingResources, readStream, state>>
  BY <1>1 DEF DiscardManagedResources, Gone
<1>3. holds' = [holds EXCEPT ![u] = NoModel]
  BY <1>1, <1>2 DEF DiscardManagedModel
<1>4. /\ UnloadedWith(holds[u]) \subseteq Resource \ Model
      /\ \A r \in UnloadedWith(holds[u]) : clientCount[r] > 0
  BY <1>1, UnloadedCounted
<1>5. Discarded(u) \subseteq Resource /\ \A r \in Discarded(u) : clientCount[r] > 0
  <2>1. clientCount[holds[u]] > 0
    BY <1>1, Kinds, ClientsCounted DEF IInv
  <2> QED
    BY <1>1, <1>4, <2>1, Kinds DEF Discarded
<1>6. (\A m \in Gone(u) \cap Model : contained[m] # "placeholder")
      <=> ~(clientCount[holds[u]] = 1 /\ contained[holds[u]] = "placeholder")
  BY <1>1, <1>4 DEF Gone, Discarded
<1> QED
  BY <1>1, <1>2, <1>3, <1>5, <1>6

(* DiscardManagedModel() takes a user from the model and, with the last of *)
(* them, the model from its parts.                                         *)
LEMMA DiscardIInv ==
    ASSUME IInv, NEW u \in User, DiscardManagedModel(u)
    PROVE  IInv'
<1> USE DEF IInv
<1>1. CASE Gone(u) \cap pendingResources # {}
  <2>1. /\ state' = "aborted"
        /\ UNCHANGED <<holds, clientCount, contained, pendingResources, readStream, placeholder>>
    BY <1>1, DiscardFails
  <2> QED
    BY <2>1 DEF TypeOK, UnusedEmpty, PendingExact, CountExact
<1>2. CASE Gone(u) \cap pendingResources = {}
  <2> DEFINE m == holds[u]
  <2>1. /\ state = "open" /\ state' = "open" /\ m \in Model
        /\ holds' = [holds EXCEPT ![u] = NoModel]
        /\ Discarded(u) \subseteq Resource
        /\ \A r \in Discarded(u) : clientCount[r] > 0
        /\ clientCount' = [r \in Resource |->
               IF r \in Discarded(u) THEN clientCount[r] - 1 ELSE clientCount[r]]
        /\ contained' = [r \in Resource |->
               IF r \in Gone(u) THEN "nothing" ELSE contained[r]]
        /\ placeholder' = (placeholder /\
               ~(clientCount[m] = 1 /\ contained[m] = "placeholder"))
        /\ UNCHANGED <<pendingResources, readStream>>
    BY <1>2, DiscardSucceeds
  <2>2. \A r \in Resource : clientCount[r] \in Nat
    BY DEF TypeOK
  <2>3. TypeOK'
    <3>1. clientCount' \in [Resource -> Nat]
      BY <2>1, <2>2
    <3>2. contained' \in [Resource -> Contents] /\ holds' \in [User -> Model \cup {NoModel}]
      BY <2>1 DEF TypeOK, Contents
    <3> QED
      BY <2>1, <3>1, <3>2 DEF TypeOK
  <2>4. UnusedEmpty' /\ PendingExact'
    <3> SUFFICES ASSUME NEW r \in Resource
                 PROVE  /\ clientCount'[r] = 0 => contained'[r] = "nothing"
                        /\ (r \in pendingResources')
                             <=> (clientCount'[r] > 0 /\ contained'[r] = "nothing")
                        /\ (r \in pendingResources') <=> (readStream'[r] # "none")
      BY <2>1 DEF UnusedEmpty, PendingExact
    <3>1. /\ clientCount[r] = 0 => contained[r] = "nothing"
          /\ (r \in pendingResources) <=> (clientCount[r] > 0 /\ contained[r] = "nothing")
          /\ (r \in pendingResources) <=> (readStream[r] # "none")
      BY <2>1 DEF UnusedEmpty, PendingExact
    <3>2. CASE r \in Gone(u)
      <4>1. clientCount'[r] = 0 /\ contained'[r] = "nothing" /\ r \notin pendingResources
        BY <3>2, <1>2, <2>1 DEF Gone
      <4> QED
        BY <4>1, <3>1, <2>1
    <3>3. CASE r \notin Gone(u)
      <4>1. clientCount'[r] > 0 <=> clientCount[r] > 0
        BY <3>3, <2>1, <2>2 DEF Gone
      <4>2. clientCount'[r] = 0 <=> clientCount[r] = 0
        BY <3>3, <2>1, <2>2 DEF Gone
      <4>3. contained'[r] = contained[r]
        BY <3>3, <2>1
      <4> QED
        BY <4>1, <4>2, <4>3, <3>1, <2>1
    <3> QED
      BY <3>2, <3>3
  <2>5. CountExact'
    <3> SUFFICES ASSUME NEW r \in Resource
                 PROVE  clientCount'[r] = Cardinality(UsersOf(r)') + Cardinality(ModelsWith(r)')
                                          + PlaceholderHas(r)'
      BY DEF CountExact, UsersOf, ModelsWith, PlaceholderHas
    <3>1. clientCount[r] = Cardinality(UsersOf(r)) + Cardinality(ModelsWith(r)) + PlaceholderHas(r)
      BY <2>1, CountSum
    <3>2. /\ Cardinality(UsersOf(r)) \in Nat /\ Cardinality(ModelsWith(r)) \in Nat
          /\ PlaceholderHas(r) \in {0, 1}
          /\ IsFiniteSet(UsersOf(r)) /\ IsFiniteSet(ModelsWith(r))
      BY CountsFinite
    <3>3. UnloadedWith(m) \subseteq Resource \ Model
      BY <2>1, UnloadedCounted
    <3>4. \A k \in Model : contained'[k] = IF k = m /\ clientCount[m] = 1 THEN "nothing"
                                          ELSE contained[k]
      BY <2>1, <3>3, Kinds DEF Gone, Discarded
    <3>5. clientCount'[r] = IF r \in Discarded(u) THEN clientCount[r] - 1 ELSE clientCount[r]
      BY <2>1
    <3>6. CASE r \in Model
      <4>1. ModelsWith(r)' = ModelsWith(r) /\ PlaceholderHas(r)' = PlaceholderHas(r)
        BY <3>6, Kinds DEF ModelsWith, PlaceholderHas
      <4>2. CASE r = m
        <5>1. UsersOf(r)' = UsersOf(r) \ {u} /\ u \in UsersOf(r)
          BY <4>2, <2>1, Kinds DEF UsersOf, TypeOK
        <5>2. Cardinality(UsersOf(r)') = Cardinality(UsersOf(r)) - 1
          BY <5>1, <3>2, FS_RemoveElement
        <5>3. clientCount'[r] = clientCount[r] - 1
          BY <4>2, <3>5 DEF Discarded
        <5> QED
          BY <4>1, <5>2, <5>3, <3>1, <3>2
      <4>3. CASE r # m
        <5>1. UsersOf(r)' = UsersOf(r)
          BY <3>6, <4>3, <2>1, Kinds DEF UsersOf, TypeOK
        <5>2. clientCount'[r] = clientCount[r]
          BY <3>6, <4>3, <3>3, <3>5 DEF Discarded
        <5> QED
          BY <4>1, <5>1, <5>2, <3>1
      <4> QED
        BY <4>2, <4>3
    <3>7. CASE r \notin Model
      <4>1. UsersOf(r)' = UsersOf(r)
        BY <3>7, <2>1, Kinds DEF UsersOf, TypeOK
      <4>2. CASE clientCount[m] = 1 /\ contained[m] = "resource"
        <5>1. r \in Discarded(u) <=> r \in Parts[m]
          BY <3>7, <4>2, <2>1 DEF Discarded, UnloadedWith
        <5>2. placeholder' = placeholder
          BY <4>2, <2>1 DEF TypeOK
        <5>3. PlaceholderHas(r)' = PlaceholderHas(r)
          BY <5>2 DEF PlaceholderHas
        <5>4. ModelsWith(r)' = ModelsWith(r) \ {m}
          BY <4>2, <2>1, <3>4 DEF ModelsWith
        <5>5. m \in ModelsWith(r) <=> r \in Parts[m]
          BY <4>2, <2>1 DEF ModelsWith
        <5>6. Cardinality(ModelsWith(r)') = IF r \in Parts[m] THEN Cardinality(ModelsWith(r)) - 1
                                            ELSE Cardinality(ModelsWith(r))
          <6>1. Cardinality(ModelsWith(r) \ {m}) = IF m \in ModelsWith(r)
                    THEN Cardinality(ModelsWith(r)) - 1 ELSE Cardinality(ModelsWith(r))
            BY <3>2, FS_RemoveElement
          <6> QED
            BY <5>4, <5>5, <6>1, Zenon
        <5> QED
          BY <4>1, <5>1, <5>3, <5>6, <3>1, <3>2, <3>5
      <4>3. CASE clientCount[m] = 1 /\ contained[m] = "placeholder" /\ placeholder
        <5>1. r \in Discarded(u) <=> r \in PlaceholderParts
          BY <3>7, <4>3, <2>1 DEF Discarded, UnloadedWith
        <5>2. PlaceholderHas(r)' = 0
          BY <4>3, <2>1 DEF PlaceholderHas
        <5>3. PlaceholderHas(r) = IF r \in PlaceholderParts THEN 1 ELSE 0
          BY <4>3 DEF PlaceholderHas
        <5>4. ModelsWith(r)' = ModelsWith(r)
          BY <4>3, <2>1, <3>4 DEF ModelsWith
        <5> QED
          BY <4>1, <5>1, <5>2, <5>3, <5>4, <3>1, <3>2, <3>5
      <4>4. CASE \/ clientCount[m] # 1 \/ contained[m] = "nothing"
                 \/ contained[m] = "placeholder" /\ ~placeholder
        <5>1. UnloadedWith(m) = {}
          BY <4>4 DEF UnloadedWith
        <5>2. clientCount'[r] = clientCount[r]
          BY <3>7, <5>1, <3>5, <2>1 DEF Discarded
        <5>3. placeholder' = placeholder
          BY <4>4, <2>1 DEF TypeOK
        <5>4. PlaceholderHas(r)' = PlaceholderHas(r)
          BY <5>3 DEF PlaceholderHas
        <5>5. ModelsWith(r)' = ModelsWith(r)
          BY <4>4, <2>1, <3>4 DEF ModelsWith
        <5> QED
          BY <4>1, <5>2, <5>4, <5>5, <3>1
      <4> QED
        BY <4>2, <4>3, <4>4, <2>1, Kinds DEF TypeOK, Contents
    <3> QED
      BY <3>6, <3>7
  <2> QED
    BY <2>3, <2>4, <2>5
<1> QED
  BY <1>1, <1>2

(* What Prepare() finds done, what of it has been read, and how many calls *)
(* of CreateManagedResource() the models among it make for a part.         *)
Done == {r \in pendingResources : Handled(r)}
Loaded == {r \in Done : readStream[r] = "ok"}
NewOwners(r) == {m \in Loaded \cap Model : r \in Parts[m]}
Created == {r \in Resource : clientCount[r] = 0 /\ Cardinality(NewOwners(r)) > 0}

LEMMA PrepareEffect ==
    ASSUME Prepare
    PROVE  /\ state = "open" /\ state' = "open" /\ holds' = holds /\ placeholder' = placeholder
           /\ contained' = [r \in Resource |-> IF r \in Loaded THEN "resource"
                                               ELSE IF r \in Done THEN "placeholder"
                                               ELSE contained[r]]
           /\ clientCount' = [r \in Resource |-> clientCount[r] + Cardinality(NewOwners(r))]
           /\ pendingResources' = (pendingResources \ Done) \cup Created
           /\ readStream' = [r \in Resource |-> IF r \in Created THEN "sent"
                                                ELSE IF r \in Done THEN "none"
                                                ELSE readStream[r]]
BY DEF Prepare, CreateManagedResources, Done, Loaded, NewOwners, Created

(* A resource that is done had clients and contained nothing.              *)
LEMMA DoneWasPending ==
    ASSUME IInv, state = "open"
    PROVE  /\ Done \subseteq Resource /\ Loaded \subseteq Done /\ Done \subseteq pendingResources
           /\ \A r \in Done : clientCount[r] > 0 /\ contained[r] = "nothing"
           /\ Done \cap Created = {}
<1>1. Done \subseteq Resource /\ Loaded \subseteq Done /\ Done \subseteq pendingResources
  BY DEF Done, Loaded, IInv, TypeOK
<1>2. \A r \in Done : clientCount[r] > 0 /\ contained[r] = "nothing"
  BY <1>1 DEF IInv, PendingExact
<1> QED
  BY <1>1, <1>2 DEF Created

LEMMA NewOwnersFinite ==
    ASSUME NEW r
    PROVE  IsFiniteSet(NewOwners(r)) /\ Cardinality(NewOwners(r)) \in Nat
<1>1. NewOwners(r) \subseteq Model /\ IsFiniteSet(Model)
  BY ResourceAssumption DEF NewOwners
<1> QED
  BY <1>1, FS_Subset, FS_CardinalityType

LEMMA PrepareIInv ==
    ASSUME IInv, Prepare
    PROVE  IInv'
<1> USE DEF IInv
<1>1. /\ state = "open" /\ state' = "open" /\ holds' = holds /\ placeholder' = placeholder
      /\ contained' = [r \in Resource |-> IF r \in Loaded THEN "resource"
                                          ELSE IF r \in Done THEN "placeholder"
                                          ELSE contained[r]]
      /\ clientCount' = [r \in Resource |-> clientCount[r] + Cardinality(NewOwners(r))]
      /\ pendingResources' = (pendingResources \ Done) \cup Created
      /\ readStream' = [r \in Resource |-> IF r \in Created THEN "sent"
                                           ELSE IF r \in Done THEN "none"
                                           ELSE readStream[r]]
  BY PrepareEffect
<1>2. /\ Done \subseteq Resource /\ Loaded \subseteq Done /\ Done \subseteq pendingResources
      /\ \A r \in Done : clientCount[r] > 0 /\ contained[r] = "nothing"
      /\ Done \cap Created = {}
  BY <1>1, DoneWasPending
<1>3. \A r \in Resource : clientCount[r] \in Nat /\ Cardinality(NewOwners(r)) \in Nat
  BY NewOwnersFinite DEF TypeOK
<1>4. TypeOK'
  <2>1. clientCount' \in [Resource -> Nat]
    BY <1>1, <1>3
  <2>2. Created \subseteq Resource
    BY DEF Created
  <2> QED
    BY <1>1, <1>2, <2>1, <2>2 DEF TypeOK, Contents
<1>5. UnusedEmpty' /\ PendingExact'
  <2> SUFFICES ASSUME NEW r \in Resource
               PROVE  /\ clientCount'[r] = 0 => contained'[r] = "nothing"
                      /\ (r \in pendingResources')
                           <=> (clientCount'[r] > 0 /\ contained'[r] = "nothing")
                      /\ (r \in pendingResources') <=> (readStream'[r] # "none")
    BY <1>1 DEF UnusedEmpty, PendingExact
  <2>1. /\ clientCount[r] = 0 => contained[r] = "nothing"
        /\ (r \in pendingResources) <=> (clientCount[r] > 0 /\ contained[r] = "nothing")
        /\ (r \in pendingResources) <=> (readStream[r] # "none")
    BY <1>1 DEF UnusedEmpty, PendingExact
  <2>2. clientCount'[r] = clientCount[r] + Cardinality(NewOwners(r))
    BY <1>1
  <2>3. CASE r \in Done
    <3>1. clientCount'[r] > 0
      BY <2>2, <2>3, <1>2, <1>3
    <3> QED
      BY <2>3, <3>1, <1>1, <1>2, <1>3
  <2>4. CASE r \in Created
    <3>1. clientCount[r] = 0 /\ clientCount'[r] > 0
      BY <2>2, <2>4, <1>3 DEF Created
    <3>2. r \notin Done /\ r \notin Loaded
      BY <2>4, <1>2
    <3> QED
      BY <2>1, <2>4, <3>1, <3>2, <1>1, <1>3
  <2>5. CASE r \notin Done /\ r \notin Created
    <3>1. clientCount'[r] = 0 <=> clientCount[r] = 0
      BY <2>2, <2>5, <1>3 DEF Created
    <3>2. clientCount'[r] > 0 <=> clientCount[r] > 0
      BY <2>2, <2>5, <1>3 DEF Created
    <3> QED
      BY <2>1, <2>5, <3>1, <3>2, <1>1, <1>2
  <2> QED
    BY <2>3, <2>4, <2>5
<1>6. CountExact'
  <2> SUFFICES ASSUME NEW r \in Resource
               PROVE  clientCount'[r] = Cardinality(UsersOf(r)') + Cardinality(ModelsWith(r)')
                                        + PlaceholderHas(r)'
    BY DEF CountExact, UsersOf, ModelsWith, PlaceholderHas
  <2>1. UsersOf(r)' = UsersOf(r) /\ PlaceholderHas(r)' = PlaceholderHas(r)
    BY <1>1 DEF UsersOf, PlaceholderHas
  <2>2. clientCount[r] = Cardinality(UsersOf(r)) + Cardinality(ModelsWith(r)) + PlaceholderHas(r)
    BY <1>1, CountSum
  <2>3. /\ ModelsWith(r)' = ModelsWith(r) \cup NewOwners(r)
        /\ ModelsWith(r) \cap NewOwners(r) = {}
    <3>1. \A m \in Model : /\ contained'[m] = "resource" <=>
                                 contained[m] = "resource" \/ m \in Loaded
                           /\ m \in Loaded => contained[m] = "nothing"
      BY <1>1, <1>2, Kinds
    <3> QED
      BY <3>1 DEF ModelsWith, NewOwners
  <2>4. Cardinality(ModelsWith(r)') = Cardinality(ModelsWith(r)) + Cardinality(NewOwners(r))
    <3>1. Cardinality(ModelsWith(r) \cup NewOwners(r))
            = Cardinality(ModelsWith(r)) + Cardinality(NewOwners(r))
              - Cardinality(ModelsWith(r) \cap NewOwners(r))
      BY CountsFinite, NewOwnersFinite, FS_Union
    <3>2. Cardinality(ModelsWith(r) \cap NewOwners(r)) = 0
      BY <2>3, FS_EmptySet
    <3>3. Cardinality(ModelsWith(r)) \in Nat /\ Cardinality(NewOwners(r)) \in Nat
      BY CountsFinite, NewOwnersFinite
    <3> QED
      BY <2>3, <3>1, <3>2, <3>3
  <2>5. clientCount'[r] = clientCount[r] + Cardinality(NewOwners(r))
    BY <1>1
  <2>6. /\ Cardinality(UsersOf(r)) \in Nat /\ Cardinality(ModelsWith(r)) \in Nat
        /\ PlaceholderHas(r) \in Nat /\ Cardinality(NewOwners(r)) \in Nat
    BY CountsFinite, NewOwnersFinite
  <2> QED
    BY <2>1, <2>2, <2>4, <2>5, <2>6
<1> QED
  BY <1>4, <1>5, <1>6

(* Every step keeps the invariant.                                         *)
LEMMA NextIInv == IInv /\ [Next]_vars => IInv'
<1> SUFFICES ASSUME IInv, [Next]_vars PROVE IInv'
  OBVIOUS
<1> USE DEF IInv
<1>1. ASSUME NEW u \in User, DiscardManagedModel(u) PROVE IInv'
  BY <1>1, DiscardIInv
<1>2. ASSUME NEW u \in User, NEW m \in Model, LoadManagedModel(u, m) PROVE IInv'
  BY <1>2, LoadIInv
<1>3. ASSUME NEW r \in Resource, ReadStream(r) PROVE IInv'
  <2>1. /\ state = "open" /\ readStream[r] = "sent"
        /\ \E result \in {"ok", "failed"} : readStream' = [readStream EXCEPT ![r] = result]
        /\ UNCHANGED <<holds, clientCount, contained, pendingResources, placeholder, state>>
    BY <1>3 DEF ReadStream
  <2>2. TypeOK'
    BY <2>1 DEF TypeOK
  <2>3. UnusedEmpty' /\ CountExact'
    BY <2>1 DEF UnusedEmpty, CountExact
  <2>4. PendingExact'
    BY <2>1 DEF TypeOK, PendingExact
  <2> QED
    BY <2>2, <2>3, <2>4
<1>4. CASE Prepare
  BY <1>4, PrepareIInv
<1>5. CASE Close
  <2>1. /\ UNCHANGED <<holds, pendingResources, readStream>>
        /\ \/ state' = "aborted" /\ UNCHANGED <<clientCount, contained, placeholder>>
           \/ /\ state' = "closed" /\ placeholder' = FALSE
              /\ clientCount' = [r \in Resource |-> 0]
              /\ contained' = [r \in Resource |-> "nothing"]
    BY <1>5 DEF Close
  <2>2. TypeOK'
    <3>1. placeholder' \in BOOLEAN
      BY <2>1 DEF TypeOK
    <3>2. clientCount' \in [Resource -> Nat] /\ contained' \in [Resource -> Contents]
      BY <2>1 DEF TypeOK, Contents
    <3> QED
      BY <2>1, <3>1, <3>2 DEF TypeOK
  <2> QED
    BY <2>1, <2>2 DEF UnusedEmpty, PendingExact, CountExact
<1>6. CASE UNCHANGED vars
  BY <1>6 DEF vars, TypeOK, UnusedEmpty, PendingExact, CountExact
<1> QED
  BY <1>1, <1>2, <1>3, <1>4, <1>5, <1>6 DEF Next, Ended

-----------------------------------------------------------------------------
(* The inductive invariant holds in every state.                           *)
THEOREM SpecIInv == Spec => []IInv
<1> QED
  BY InitIInv, NextIInv, PTL DEF Spec

(* Every variable of the resource manager keeps its type.                  *)
THEOREM SpecTypeOK == Spec => []TypeOK
<1>1. IInv => TypeOK
  BY DEF IInv
<1> QED
  BY <1>1, SpecIInv, PTL

(* CreateManagedResource() and DiscardManagedResource() are paired: client *)
(* counts are exact, whatever models share.                                *)
THEOREM SpecCountExact == Spec => []CountExact
<1>1. IInv => CountExact
  BY DEF IInv
<1> QED
  BY <1>1, SpecIInv, PTL

(* A resource is on its mapper's list exactly as long as it is loaded.     *)
THEOREM SpecPendingExact == Spec => []PendingExact
<1>1. IInv => PendingExact
  BY DEF IInv
<1> QED
  BY <1>1, SpecIInv, PTL

-----------------------------------------------------------------------------
(* The status of a model, by what it contains.                             *)
PartsStatus(rs) == IF Arrived(rs) THEN "settled"
                   ELSE IF Arrived(rs \cap Mesh) THEN "usable"
                   ELSE "pending"

LEMMA StatusByContents ==
    ASSUME NEW m
    PROVE  /\ contained[m] = "nothing" => Status(m) = "pending"
           /\ contained[m] = "resource" => Status(m) = PartsStatus(Parts[m])
           /\ contained[m] = "placeholder" =>
                Status(m) = IF placeholder THEN PartsStatus(PlaceholderParts) ELSE "lost"
BY DEF Status, PartsStatus

LEMMA StatusByContentsPrimed ==
    ASSUME NEW m
    PROVE  /\ contained'[m] = "nothing" => Status(m)' = "pending"
           /\ contained'[m] = "resource" => Status(m)' = PartsStatus(Parts[m])'
           /\ contained'[m] = "placeholder" =>
                Status(m)' = IF placeholder' THEN PartsStatus(PlaceholderParts)' ELSE "lost"
BY DEF Status, PartsStatus

(* Without a change of contents nothing changes for the users.             *)
LEMMA StatusUnchanged ==
    ASSUME UNCHANGED <<contained, placeholder>>
    PROVE  \A m : Status(m)' = Status(m)
BY DEF Status, Arrived

(* A model that has one client has one user.                               *)
LEMMA LastClient ==
    ASSUME IInv, state = "open", NEW u \in User, holds[u] \in Model
    PROVE  (clientCount[holds[u]] = 1) <=> Managed!LastUser(u)
<1>1. clientCount[holds[u]] = Cardinality(UsersOf(holds[u]))
  BY CountByKind DEF IInv
<1>2. u \in UsersOf(holds[u])
  BY DEF UsersOf
<1>3. Cardinality(UsersOf(holds[u])) = 1 <=> UsersOf(holds[u]) = {u}
  BY <1>2, CountsFinite, FS_Singleton
<1>4. UsersOf(holds[u]) = {u} <=> \A v \in User \ {u} : holds[v] # holds[u]
  BY DEF UsersOf
<1> QED
  BY <1>1, <1>3, <1>4 DEF Managed!LastUser

(* A model contains something only as long as it is used.                  *)
LEMMA ContentsUsed ==
    ASSUME IInv, state = "open", NEW m \in Model, ~Managed!Used(m)
    PROVE  contained[m] = "nothing" /\ clientCount[m] = 0
<1>1. UsersOf(m) = {}
  BY DEF UsersOf, Managed!Used
<1>2. clientCount[m] = 0
  BY <1>1, CountByKind, FS_EmptySet DEF IInv
<1> QED
  BY <1>2, Kinds DEF IInv, UnusedEmpty

(* Two models that contain a part are two clients of it, and the           *)
(* placeholder is another.                                                 *)
LEMMA SharedPart ==
    ASSUME IInv, state = "open", NEW m \in Model, NEW k \in Model, k # m,
           contained[m] = "resource", contained[k] = "resource", NEW r \in Parts[m] \cap Parts[k]
    PROVE  clientCount[r] # 1
<1>1. r \in Resource \ Model /\ m \in ModelsWith(r) /\ k \in ModelsWith(r)
  BY Kinds DEF ModelsWith
<1>2. Cardinality(ModelsWith(r)) # 1 /\ Cardinality(ModelsWith(r)) # 0
  <2>1. IsFiniteSet(ModelsWith(r))
    BY CountsFinite
  <2>2. Cardinality(ModelsWith(r)) = 1 <=> \E x : ModelsWith(r) = {x}
    BY <2>1, FS_Singleton
  <2>3. Cardinality(ModelsWith(r)) = 0 <=> ModelsWith(r) = {}
    BY <2>1, FS_EmptySet
  <2> QED
    BY <1>1, <2>2, <2>3
<1>3. clientCount[r] = Cardinality(ModelsWith(r)) + PlaceholderHas(r)
  BY <1>1, CountByKind DEF IInv
<1>4. Cardinality(ModelsWith(r)) \in Nat /\ PlaceholderHas(r) \in {0, 1}
  BY CountsFinite
<1> QED
  BY <1>2, <1>3, <1>4

LEMMA SharedPlaceholderPart ==
    ASSUME IInv, state = "open", NEW m \in Model, contained[m] = "resource",
           placeholder, NEW r \in Parts[m] \cap PlaceholderParts
    PROVE  clientCount[r] # 1
<1>1. r \in Resource \ Model /\ m \in ModelsWith(r) /\ PlaceholderHas(r) = 1
  BY Kinds DEF ModelsWith, PlaceholderHas
<1>2. Cardinality(ModelsWith(r)) \in Nat /\ Cardinality(ModelsWith(r)) # 0
  BY <1>1, CountsFinite, FS_EmptySet
<1>3. clientCount[r] = Cardinality(ModelsWith(r)) + 1
  BY <1>1, CountByKind DEF IInv
<1> QED
  BY <1>2, <1>3

-----------------------------------------------------------------------------
(* The discard that fails the assertion is ReleaseFails(): the last user   *)
(* let go of a model that had not settled.                                 *)
LEMMA DiscardFailsRefines ==
    ASSUME IInv, NEW u \in User, DiscardManagedModel(u), Gone(u) \cap pendingResources # {}
    PROVE  Managed!ReleaseFails(u)
<1> DEFINE m == holds[u]
<1>1. /\ state = "open" /\ m \in Model /\ state' = "aborted"
      /\ UNCHANGED <<holds, contained, placeholder>>
  BY DiscardFails DEF IInv, TypeOK
<1>2. PICK r \in Gone(u) : r \in pendingResources
  OBVIOUS
<1>3. clientCount[r] = 1 /\ contained[r] = "nothing"
  BY <1>1, <1>2 DEF Gone, IInv, TypeOK, PendingExact
<1>4. clientCount[m] = 1
  BY <1>2, <1>3 DEF Gone, Discarded, UnloadedWith
<1>5. Status(m) \notin {"settled", "lost"}
  <2>1. CASE r = m
    BY <2>1, <1>3, StatusByContents
  <2>2. CASE r # m
    <3>1. r \in UnloadedWith(m)
      BY <2>2, <1>2 DEF Gone, Discarded
    <3>2. \/ contained[m] = "resource" /\ UnloadedWith(m) = Parts[m]
          \/ contained[m] = "placeholder" /\ placeholder /\ UnloadedWith(m) = PlaceholderParts
      BY <3>1, <1>4 DEF UnloadedWith
    <3>3. ~Arrived(UnloadedWith(m))
      BY <3>1, <1>3 DEF Arrived
    <3>4. PartsStatus(UnloadedWith(m)) \notin {"settled", "lost"}
      BY <3>3 DEF PartsStatus
    <3> QED
      BY <3>2, <3>4, StatusByContents
  <2> QED
    BY <2>1, <2>2
<1>6. Managed!LastUser(u)
  BY <1>1, <1>4, LastClient
<1>7. m # NoModel
  BY <1>1, Kinds
<1>8. [k \in Model |-> Status(k)]' = [k \in Model |-> Status(k)]
  BY <1>1, StatusUnchanged
<1> QED
  BY <1>1, <1>5, <1>6, <1>7, <1>8 DEF Managed!ReleaseFails

(* What a discard that succeeds does to the model and to the others.       *)
LEMMA DiscardStatus ==
    ASSUME IInv, NEW u \in User, DiscardManagedModel(u), Gone(u) \cap pendingResources = {},
           NEW m \in Model, holds[u] = m, clientCount[m] = 1
    PROVE  /\ Status(m)' = "pending"
           /\ \A k \in Model \ {m} :
                Status(k)' = IF placeholder /\ contained[m] = "placeholder"
                                /\ contained[k] = "placeholder"
                             THEN "lost" ELSE Status(k)
<1>1. /\ state = "open"
      /\ contained' = [r \in Resource |-> IF r \in Gone(u) THEN "nothing" ELSE contained[r]]
      /\ placeholder' = (placeholder /\ ~(contained[m] = "placeholder"))
  BY DiscardSucceeds
<1>2. /\ UnloadedWith(m) \subseteq Resource \ Model
      /\ m \in Gone(u) /\ \A k \in Model \ {m} : k \notin Gone(u)
  BY <1>1, UnloadedCounted DEF Gone, Discarded
<1>3. contained'[m] = "nothing" /\ \A k \in Model \ {m} : contained'[k] = contained[k]
  BY <1>1, <1>2, Kinds
<1>4. Status(m)' = "pending"
  BY <1>3, StatusByContentsPrimed
<1>5. ASSUME NEW k \in Model \ {m}
      PROVE  Status(k)' = IF placeholder /\ contained[m] = "placeholder"
                             /\ contained[k] = "placeholder"
                          THEN "lost" ELSE Status(k)
  <2>1. k \in Model /\ contained'[k] = contained[k]
    BY <1>3
  <2>2. CASE contained[k] = "nothing"
    BY <2>1, <2>2, StatusByContents, StatusByContentsPrimed
  <2>3. CASE contained[k] = "resource"
    <3>1. \A r \in Parts[k] : r \notin Gone(u)
      <4> SUFFICES ASSUME NEW r \in Parts[k], r \in UnloadedWith(m)
                   PROVE  clientCount[r] # 1
        BY <2>1, Kinds, <1>1 DEF Gone, Discarded
      <4>1. CASE contained[m] = "resource"
        <5>1. r \in Parts[m]
          BY <4>1 DEF UnloadedWith
        <5> QED
          BY <5>1, <4>1, <2>3, <1>1, SharedPart
      <4>2. CASE contained[m] = "placeholder" /\ placeholder
        <5>1. r \in PlaceholderParts
          BY <4>2 DEF UnloadedWith
        <5> QED
          BY <5>1, <4>2, <2>3, <1>1, SharedPlaceholderPart
      <4> QED
        BY <4>1, <4>2 DEF UnloadedWith
    <3>2. \A r \in Parts[k] : contained'[r] = contained[r]
      BY <2>1, <3>1, <1>1, Kinds
    <3>3. PartsStatus(Parts[k])' = PartsStatus(Parts[k])
      BY <3>2 DEF PartsStatus, Arrived
    <3> QED
      BY <2>1, <2>3, <3>3, StatusByContents, StatusByContentsPrimed
  <2>4. CASE contained[k] = "placeholder" /\ ~(placeholder /\ contained[m] = "placeholder")
    <3>1. placeholder' = placeholder
      BY <2>4, <1>1 DEF IInv, TypeOK
    <3>2. CASE ~placeholder
      BY <2>1, <2>4, <3>1, <3>2, StatusByContents, StatusByContentsPrimed
    <3>3. CASE placeholder
      <4>1. \A r \in PlaceholderParts : r \notin Gone(u)
        <5> SUFFICES ASSUME NEW r \in PlaceholderParts, r \in UnloadedWith(m)
                     PROVE  clientCount[r] # 1
          BY Kinds, <1>1 DEF Gone, Discarded
        <5>1. contained[m] = "resource" /\ r \in Parts[m]
          BY <2>4, <3>3 DEF UnloadedWith
        <5> QED
          BY <5>1, <3>3, <1>1, SharedPlaceholderPart
      <4>2. \A r \in PlaceholderParts : contained'[r] = contained[r]
        BY <4>1, <1>1, Kinds
      <4>3. PartsStatus(PlaceholderParts)' = PartsStatus(PlaceholderParts)
        BY <4>2 DEF PartsStatus, Arrived
      <4> QED
        BY <2>1, <2>4, <3>1, <3>3, <4>3, StatusByContents, StatusByContentsPrimed
    <3> QED
      BY <3>2, <3>3
  <2>5. CASE contained[k] = "placeholder" /\ placeholder /\ contained[m] = "placeholder"
    <3>1. ~placeholder'
      BY <2>5, <1>1
    <3> QED
      BY <2>1, <2>5, <3>1, StatusByContentsPrimed
  <2> QED
    BY <2>1, <2>2, <2>3, <2>4, <2>5, Kinds DEF IInv, TypeOK, Contents
<1> QED
  BY <1>4, <1>5

(* The discard that succeeds is Release().                                 *)
LEMMA DiscardSucceedsRefines ==
    ASSUME IInv, NEW u \in User, DiscardManagedModel(u), Gone(u) \cap pendingResources = {}
    PROVE  Managed!Release(u)
<1>1. PICK m \in Model : holds[u] = m
  BY DiscardSucceeds
<1>2. /\ state = "open" /\ state' = "open"
      /\ holds' = [holds EXCEPT ![u] = NoModel]
      /\ contained' = [r \in Resource |-> IF r \in Gone(u) THEN "nothing" ELSE contained[r]]
      /\ placeholder' = (placeholder /\ ~(clientCount[m] = 1 /\ contained[m] = "placeholder"))
  BY <1>1, DiscardSucceeds
<1>3. holds[u] # NoModel /\ (clientCount[m] = 1 <=> Managed!LastUser(u))
  BY <1>1, <1>2, Kinds, LastClient
<1>4. CASE clientCount[m] # 1
  <2>1. Gone(u) = {}
    BY <1>1, <1>4 DEF Gone, Discarded, UnloadedWith
  <2>2. contained' = contained /\ placeholder' = placeholder
    BY <2>1, <1>2, <1>4 DEF IInv, TypeOK
  <2>3. [k \in Model |-> Status(k)]' = [k \in Model |-> Status(k)]
    BY <2>2, StatusUnchanged
  <2> QED
    BY <2>2, <2>3, <1>2, <1>3, <1>4 DEF Managed!Release
<1>5. CASE clientCount[m] = 1
  <2>1. /\ Status(m)' = "pending"
        /\ \A k \in Model \ {m} :
             Status(k)' = IF placeholder /\ contained[m] = "placeholder"
                             /\ contained[k] = "placeholder"
                          THEN "lost" ELSE Status(k)
    BY <1>1, <1>5, DiscardStatus
  <2>2. CASE placeholder /\ contained[m] = "placeholder"
    <3> DEFINE lost == {k \in Model \ {m} : contained[k] = "placeholder"}
    <3>1. lost \in SUBSET {k \in Model \ {m} : Managed!Used(k)}
      BY <1>2, ContentsUsed
    <3>2. [k \in Model |-> Status(k)]' =
              [k \in Model |-> IF k = m THEN "pending" ELSE IF k \in lost THEN "lost"
                              ELSE [j \in Model |-> Status(j)][k]]
      BY <2>1, <2>2
    <3>3. (~placeholder)' = TRUE
      BY <1>2, <1>5, <2>2
    <3> HIDE DEF lost
    <3> QED
      BY <1>1, <1>2, <1>3, <1>5, <3>1, <3>2, <3>3 DEF Managed!Release
  <2>3. CASE ~(placeholder /\ contained[m] = "placeholder")
    <3>1. [k \in Model |-> Status(k)]' = [[k \in Model |-> Status(k)] EXCEPT ![m] = "pending"]
      BY <2>1, <2>3
    <3>2. placeholder' = placeholder
      BY <1>2, <1>5, <2>3 DEF IInv, TypeOK
    <3> QED
      BY <1>1, <1>2, <1>3, <1>5, <3>1, <3>2 DEF Managed!Release
  <2> QED
    BY <2>2, <2>3
<1> QED
  BY <1>4, <1>5

(* Prepare() is Progress(): no model goes back, and only models that are   *)
(* used go on.                                                             *)
LEMMA PrepareRefines ==
    ASSUME IInv, Prepare
    PROVE  Managed!Progress
<1>1. /\ state = "open" /\ state' = "open" /\ holds' = holds /\ placeholder' = placeholder
      /\ contained' = [r \in Resource |-> IF r \in Loaded THEN "resource"
                                          ELSE IF r \in Done THEN "placeholder"
                                          ELSE contained[r]]
  BY PrepareEffect
<1>2. /\ Loaded \subseteq Done
      /\ \A r \in Done : clientCount[r] > 0 /\ contained[r] = "nothing"
  BY <1>1, DoneWasPending
<1>3. \A r \in Resource : contained[r] # "nothing" => contained'[r] = contained[r]
  BY <1>1, <1>2
<1>4. \A rs \in SUBSET Resource : Arrived(rs) => Arrived(rs)'
  BY <1>1, <1>3 DEF Arrived
<1>5. ASSUME NEW m \in Model
      PROVE  /\ Status(m)' \in Managed!Status /\ Status(m)' \in Managed!Higher(Status(m))
             /\ ~Managed!Used(m) => Status(m)' = Status(m)
  <2>1. /\ contained[m] \in Contents /\ contained'[m] \in Contents
        /\ placeholder \in BOOLEAN
    BY <1>1, Kinds DEF IInv, TypeOK, Contents
  <2>2. ASSUME NEW rs \in SUBSET Resource
        PROVE  /\ PartsStatus(rs) \in {"pending", "usable", "settled"}
               /\ PartsStatus(rs)' \in {"pending", "usable", "settled"}
               /\ PartsStatus(rs) = "settled" => PartsStatus(rs)' = "settled"
               /\ PartsStatus(rs) = "usable" => PartsStatus(rs)' \in {"usable", "settled"}
    <3>1. rs \cap Mesh \in SUBSET Resource
      OBVIOUS
    <3> QED
      BY <2>2, <3>1, <1>4 DEF PartsStatus
  <2>3. Parts[m] \in SUBSET Resource /\ PlaceholderParts \in SUBSET Resource
    BY Kinds
  <2>4. CASE contained[m] = "nothing"
    <3>1. Status(m) = "pending"
      BY <2>4, StatusByContents
    <3>2. Status(m)' \in {"pending", "usable", "settled"} \cup (IF placeholder THEN {} ELSE {"lost"})
      BY <2>1, <2>2, <2>3, <1>1, StatusByContentsPrimed DEF Contents
    <3>3. ~Managed!Used(m) => Status(m)' = "pending"
      <4> SUFFICES ASSUME ~Managed!Used(m) PROVE Status(m)' = "pending"
        OBVIOUS
      <4>1. m \notin Done
        BY <1>1, <1>2, ContentsUsed
      <4>2. contained'[m] = "nothing"
        BY <4>1, <2>4, <1>1, <1>2, Kinds
      <4> QED
        BY <4>2, StatusByContentsPrimed
    <3> QED
      BY <3>1, <3>2, <3>3 DEF Managed!Higher, Managed!Status
  <2>5. CASE contained[m] # "nothing"
    <3>1. Managed!Used(m)
      BY <2>5, <1>1, ContentsUsed
    <3>2. contained'[m] = contained[m]
      BY <2>5, <1>3, Kinds
    <3>3. CASE contained[m] = "resource"
      BY <3>1, <3>2, <3>3, <2>2, <2>3, StatusByContents, StatusByContentsPrimed
         DEF Managed!Higher, Managed!Status
    <3>4. CASE contained[m] = "placeholder" /\ placeholder
      BY <3>1, <3>2, <3>4, <1>1, <2>2, <2>3, StatusByContents, StatusByContentsPrimed
         DEF Managed!Higher, Managed!Status
    <3>5. CASE contained[m] = "placeholder" /\ ~placeholder
      BY <3>1, <3>2, <3>5, <1>1, StatusByContents, StatusByContentsPrimed
         DEF Managed!Higher, Managed!Status
    <3> QED
      BY <2>1, <2>5, <3>3, <3>4, <3>5 DEF Contents
  <2> QED
    BY <2>4, <2>5
<1>6. ~(state = "aborted") /\ (state = "aborted")' = (state = "aborted")
  BY <1>1
<1>7. (~placeholder)' = ~placeholder
  BY <1>1
<1>8. [m \in Model |-> Status(m)]' \in [Model -> Managed!Status]
  BY <1>5
<1>9. \A m \in Model :
          /\ [k \in Model |-> Status(k)]'[m] \in Managed!Higher([k \in Model |-> Status(k)][m])
          /\ ~Managed!Used(m) =>
               [k \in Model |-> Status(k)]'[m] = [k \in Model |-> Status(k)][m]
  BY <1>5
<1> QED
  BY <1>1, <1>6, <1>7, <1>8, <1>9 DEF Managed!Progress

(* Close() is Close(): nobody uses a model, so all are pending already.    *)
LEMMA CloseRefines ==
    ASSUME IInv, Close
    PROVE  Managed!Close
<1>1. state = "open" /\ (\A u \in User : holds[u] = NoModel) /\ holds' = holds
  BY DEF Close
<1>2. CASE state' = "aborted" /\ UNCHANGED <<clientCount, contained, placeholder>>
  <2>1. [m \in Model |-> Status(m)]' = [m \in Model |-> Status(m)]
    BY <1>2, StatusUnchanged
  <2> QED
    BY <1>1, <1>2, <2>1 DEF Managed!Close
<1>3. CASE /\ state' = "closed" /\ placeholder' = FALSE
           /\ contained' = [r \in Resource |-> "nothing"]
  <2>1. ASSUME NEW m \in Model PROVE Status(m)' = "pending" /\ Status(m) = "pending"
    <3>1. ~Managed!Used(m)
      BY <1>1, Kinds DEF Managed!Used
    <3>2. contained[m] = "nothing" /\ contained'[m] = "nothing"
      BY <1>1, <1>3, <3>1, Kinds, ContentsUsed
    <3> QED
      BY <3>2, StatusByContents, StatusByContentsPrimed
  <2>2. [m \in Model |-> Status(m)]' = [m \in Model |-> Status(m)]
    BY <2>1
  <2>3. (~placeholder)' = TRUE /\ (state = "aborted")' = (state = "aborted")
        /\ ~(state = "aborted")
    BY <1>1, <1>3
  <2> QED
    BY <1>1, <2>2, <2>3 DEF Managed!Close
<1> QED
  BY <1>2, <1>3 DEF Close

(* Loading implements ManagedModels, for any number of users and models    *)
(* and whatever parts they share: a program that lets go of a model as its *)
(* last user only when the model has settled never fails the assertion,    *)
(* and a model in use is not unloaded.                                     *)
THEOREM SpecImplementsManagedModels == Spec => ImplementsManagedModels
<1>1. Init => Managed!Init
  <2> SUFFICES ASSUME Init PROVE Managed!Init
    OBVIOUS
  <2>1. \A m \in Model : Status(m) = "pending"
    BY Kinds, StatusByContents DEF Init
  <2> QED
    BY <2>1 DEF Init, Managed!Init
<1>2. IInv /\ [Next]_vars => [Managed!Next]_(Managed!modelVars)
  <2> SUFFICES ASSUME IInv, [Next]_vars
               PROVE  Managed!Next \/ UNCHANGED Managed!modelVars
    BY DEF Managed!modelVars
  <2>1. ASSUME NEW u \in User, NEW m \in Model, LoadManagedModel(u, m)
        PROVE  Managed!Acquire(u, m)
    <3>1. /\ state = "open" /\ state' = "open" /\ holds[u] = NoModel
          /\ holds' = [holds EXCEPT ![u] = m]
          /\ UNCHANGED <<contained, placeholder>>
      BY <2>1 DEF LoadManagedModel
    <3>2. [k \in Model |-> Status(k)]' = [k \in Model |-> Status(k)]
      BY <3>1, StatusUnchanged
    <3> QED
      BY <3>1, <3>2 DEF Managed!Acquire
  <2>2. ASSUME NEW u \in User, DiscardManagedModel(u)
        PROVE  Managed!Release(u) \/ Managed!ReleaseFails(u)
    BY <2>2, DiscardSucceedsRefines, DiscardFailsRefines
  <2>3. ASSUME \/ \E r \in Resource : ReadStream(r)
               \/ UNCHANGED vars
        PROVE  UNCHANGED Managed!modelVars
    <3>1. UNCHANGED <<holds, contained, placeholder, state>>
      BY <2>3 DEF ReadStream, vars
    <3>2. [k \in Model |-> Status(k)]' = [k \in Model |-> Status(k)]
      BY <3>1, StatusUnchanged
    <3> QED
      BY <3>1, <3>2 DEF Managed!modelVars
  <2>4. CASE Prepare
    BY <2>4, PrepareRefines DEF Managed!Next
  <2>5. CASE Close
    BY <2>5, CloseRefines DEF Managed!Next
  <2> QED
    BY <2>1, <2>2, <2>3, <2>4, <2>5 DEF Next, Ended, Managed!Next
<1> QED
  BY <1>1, <1>2, SpecIInv, PTL DEF Spec, ImplementsManagedModels, Managed!Spec
=============================================================================
