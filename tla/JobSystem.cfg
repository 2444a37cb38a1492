\* Two workers, a character over two frames and a particle system.
CONSTANTS
    a1 = a1  a2 = a2  a3 = a3  eval = eval  particle = particle
    character = character  particles = particles
    NumWorkerThreads = 2
    Jobs <- MCJobs
    NumSlices <- MCNumSlices
    Ports = {character, particles}
    Script <- MCScript
SPECIFICATION FairSpec
\* The scripts come to their end.
CHECK_DEADLOCK FALSE
INVARIANTS
    TypeOK
    CompletionExact
PROPERTIES
    Ordered
    ScriptsEnd
