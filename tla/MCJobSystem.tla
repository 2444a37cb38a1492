---------------------------- MODULE MCJobSystem ----------------------------
(***************************************************************************)
(* The calls of the program on its job ports, for three frames:            *)
(*  - a character: a chain of animation jobs, new in each frame, a sync    *)
(*    and the skeleton's evaluation job, the same in each frame            *)
(*    (CharacterInstance::StartUpdate, WaitUpdateDone); in the third frame *)
(*    no animation is active;                                              *)
(*  - a particle system: one job, then the wait.                           *)
(* LooseScript syncs after two independent jobs.                           *)
(***************************************************************************)
EXTENDS JobSystem

CONSTANTS a1, a2, a3, eval, particle, character, particles

MCJobs == {a1, a2, a3, eval, particle}
MCNumSlices == [j \in Jobs |-> CASE j = a1 -> 2 [] j = particle -> 3 [] OTHER -> 1]

Push(j) == [call |-> "PushJob", jobs |-> <<j>>]
Chain(s) == [call |-> "PushJobChain", jobs |-> s]
DoSync == [call |-> "PushSync", jobs |-> <<>>]
Wait == [call |-> "WaitDone", jobs |-> <<>>]

MCScript == [p \in Ports |->
    IF p = character
    THEN <<Chain(<<a1, a2>>), DoSync, Push(eval), Wait,
           Chain(<<a3>>), DoSync, Push(eval), Wait,
           Push(eval), Wait>>
    ELSE <<Push(particle), Wait>>]

LooseScript == [p \in Ports |-> <<Push(a2), Push(a3), DoSync, Push(eval), Wait>>]
=============================================================================
