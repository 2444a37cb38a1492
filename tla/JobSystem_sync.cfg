\* Three workers; a sync after two independent jobs.
CONSTANTS
    a1 = a1  a2 = a2  a3 = a3  eval = eval  particle = particle
    character = character  particles = particles
    NumWorkerThreads = 3
    Jobs <- MCJobs
    NumSlices <- MCNumSlices
    Ports = {character}
    Script <- LooseScript
SPECIFICATION Spec
CHECK_DEADLOCK FALSE
PROPERTIES
    Ordered
