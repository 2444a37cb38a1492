\* Two entities that show the same model.
CONSTANTS
    Entity = {e1, e2}
    e1 = e1
    e2 = e2
    m1 = m1
    Model <- MCModel
    ModelOf <- MCModelOf
    NoModel = NoModel
    MaxPlays <- MCMaxPlays
SPECIFICATION FairSpec
INVARIANTS
    TypeOK
    SharedDataHeld
    ClipsInOrder
    RemovedTooEarly
PROPERTIES
    ClipsStart
    RemovedGoes
