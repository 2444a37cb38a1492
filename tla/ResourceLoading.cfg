\* Two users of two models that share a texture.
CONSTANTS
    User = {u1, u2}
    m1 = m1
    m2 = m2
    mesh = mesh
    tex = tex
    ptex = ptex
    Model <- MCModel
    Mesh <- MCMesh
    Texture <- MCTexture
    NoModel = NoModel
    Parts <- MCParts
    PlaceholderParts <- MCPlaceholderParts
SPECIFICATION FairSpec
INVARIANTS
    TypeOK
    CountExact
    PendingExact
PROPERTIES
    ImplementsManagedModels
    ModelsServed
