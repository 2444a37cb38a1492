----------------------- MODULE CriticalSectionProofs -----------------------
(***************************************************************************)
(* The critical section is a recursive lock for any set of threads, any    *)
(* spin bound and any nesting depth, with and without store buffers; and   *)
(* without them it loses no wakeup.                                        *)
(*                                                                         *)
(* IInv adds to TypeOK and Exclusive what the single steps of Enter() and  *)
(* Leave() rely on: a lock word that names a thread names one that holds   *)
(* (HolderNamed), a free lock has no recursion left (FreeLock), and each   *)
(* program point fixes how deep its thread is nested (Nesting).            *)
(***************************************************************************)
EXTENDS CriticalSection, FiniteSetTheorems, TLAPS

HolderNamed == \A t \in Threads : lockerThread = t => Holds(t)

FreeLock == lockerThread = NoThread => recursiveLockCount = 0

Nesting ==
    \A t \in Threads :
        /\ pc[t] \notin {"run", "count"} => depth[t] = 0
        /\ pc[t] = "count" => depth[t] < MaxDepth
        /\ t \in buffered => depth[t] = 0 /\ pc[t] \in {"run", "quick", "check", "wminus"}

IInv == TypeOK /\ Exclusive /\ HolderNamed /\ FreeLock /\ Nesting

-----------------------------------------------------------------------------
(* Next, one disjunct per action.                                          *)
LEMMA NextSplit ==
    ASSUME Next
    PROVE  \E t \in Threads :
               \/ Enter(t) \/ Leave(t)
               \/ QuickLock(t) \/ Spin(t) \/ GiveUpSpinning(t)
               \/ AllocateKernelSemaphore(t) \/ PublishSemaphore(t)
               \/ WaiterPlus(t) \/ KernelTry(t)
               \/ SemaphoreWait(t) \/ WaiterMinus(t) \/ CountEntry(t)
               \/ Unlock(t) \/ CheckWaiters(t) \/ TakeWaiter(t)
               \/ ReleaseSemaphore(t) \/ Drain(t)
  BY DEF Next, Internal

(* The initial state satisfies the inductive invariant.                    *)
LEMMA InitIInv == Init => IInv
  <1> SUFFICES ASSUME Init PROVE IInv OBVIOUS
  <1> USE ThreadsAssumption, BoundsAssumption DEF Init
  <1>1. TypeOK
    <2>1. 0 \in 0..SpinMax /\ 0 \in 0..MaxDepth
      OBVIOUS
    <2>2. semaphore \in Threads \cup {NoThread} /\ handles \in SUBSET Threads
      OBVIOUS
    <2>3. /\ spins \in [Threads -> 0..SpinMax]
          /\ depth \in [Threads -> 0..MaxDepth]
          /\ pc \in [Threads -> PCs]
      BY <2>1 DEF PCs
    <2> QED BY <2>1, <2>2, <2>3 DEF TypeOK
  <1>2. \A t \in Threads : ~Holds(t)
    BY DEF Holds
  <1>3. Exclusive /\ HolderNamed /\ FreeLock /\ Nesting
    BY <1>2 DEF Exclusive, HolderNamed, FreeLock, Nesting
  <1> QED BY <1>1, <1>3 DEF IInv

(* A successful or failed compare-exchange keeps the invariant.            *)
LEMMA LockStep ==
    ASSUME IInv, NEW t \in Threads,
           NEW from \in {"quick", "spin", "try"}, pc[t] = from,
           NEW success \in {"count", "minus"}, NEW failure \in {"spin", "sleep"},
           PerfLockImmediate(t, success, failure),
           spins' \in [Threads -> 0..SpinMax],
           UNCHANGED <<recursiveLockCount, waiterCount, semaphore, handles, semCount,
                       buffered, depth, storeBuffers>>
    PROVE  IInv'
  <1> USE ThreadsAssumption, BoundsAssumption
  <1>1. TypeOK'
    BY DEF IInv, TypeOK, PCs, PerfLockImmediate
  <1>2. CASE lockerThread = NoThread
    <2>1. lockerThread' = t /\ pc' = [pc EXCEPT ![t] = success] /\ t \notin buffered
      BY <1>2 DEF PerfLockImmediate
    <2>2. \A u \in Threads : ~Holds(u)
      BY <1>2 DEF IInv, Exclusive
    <2>3. \A u \in Threads \ {t} : ~Holds(u)'
      BY <2>1, <2>2 DEF Holds, IInv, TypeOK
    <2>4. Holds(t)' /\ depth[t] = 0 /\ recursiveLockCount = 0
      BY <1>2, <2>1 DEF Holds, IInv, TypeOK, Nesting, FreeLock
    <2>5. Exclusive' /\ HolderNamed' /\ FreeLock'
      BY <2>1, <2>3, <2>4 DEF Exclusive, HolderNamed, FreeLock
    <2>6. Nesting'
      BY <2>1, <2>4 DEF Nesting, IInv, TypeOK
    <2> QED BY <1>1, <2>5, <2>6 DEF IInv
  <1>3. CASE lockerThread # NoThread
    <2>1. lockerThread' = lockerThread /\ pc' = [pc EXCEPT ![t] = failure]
      BY <1>3 DEF PerfLockImmediate
    <2>2. \A u \in Threads : Holds(u)' <=> Holds(u)
      BY <2>1 DEF Holds, IInv, TypeOK
    <2>3. Exclusive' /\ HolderNamed' /\ FreeLock'
      BY <2>1, <2>2 DEF IInv, Exclusive, HolderNamed, FreeLock
    <2>4. Nesting'
      BY <2>1 DEF Nesting, IInv, TypeOK, PerfLockImmediate
    <2> QED BY <1>1, <2>3, <2>4 DEF IInv
  <1> QED BY <1>2, <1>3

(* A step between two program points outside the lock keeps it too.        *)
LEMMA QuietStep ==
    ASSUME IInv, NEW t \in Threads,
           NEW from \in {"spin", "alloc", "publish", "plus", "sleep", "check", "wminus",
                     "release"},
           NEW to \in {"alloc", "publish", "plus", "try", "run", "wminus", "release"},
           Goto(t, from, to), t \in buffered => to \in {"run", "wminus"},
           waiterCount' \in Int, semaphore' \in Threads \cup {NoThread},
           handles' \in SUBSET Threads, semCount' \in Nat,
           UNCHANGED <<lockerThread, recursiveLockCount, buffered, spins, depth,
                       storeBuffers>>
    PROVE  IInv'
  <1> USE ThreadsAssumption, BoundsAssumption
  <1>1. TypeOK'
    BY DEF IInv, TypeOK, PCs, Goto
  <1>2. \A u \in Threads : Holds(u)' <=> Holds(u)
    BY DEF Holds, IInv, TypeOK, Goto
  <1>3. Exclusive' /\ HolderNamed' /\ FreeLock'
    BY <1>2 DEF IInv, Exclusive, HolderNamed, FreeLock
  <1>4. Nesting'
    BY DEF Nesting, IInv, TypeOK, Goto
  <1> QED BY <1>1, <1>3, <1>4 DEF IInv

(* Every step keeps the inductive invariant.                               *)
LEMMA NextIInv == IInv /\ [Next]_vars => IInv'
  <1> SUFFICES ASSUME IInv, [Next]_vars PROVE IInv' OBVIOUS
  <1> USE ThreadsAssumption, BoundsAssumption
  <1>0. CASE UNCHANGED vars
    BY <1>0 DEF vars, IInv, TypeOK, Exclusive, Holds, HolderNamed, FreeLock, Nesting
  <1>1. ASSUME NEW t \in Threads, Enter(t) PROVE IInv'
    <2>1. \A u \in Threads : Holds(u)' <=> Holds(u) \/ (u = t /\ pc'[t] = "count")
      BY <1>1 DEF Enter, Holds, IInv, TypeOK
    <2>2. pc'[t] = "count" => Holds(t)
      BY <1>1 DEF Enter, LockerSeenBy, IInv, TypeOK, HolderNamed
    <2>3. TypeOK'
      BY <1>1 DEF Enter, IInv, TypeOK, PCs
    <2>4. Exclusive' /\ HolderNamed' /\ FreeLock'
      BY <1>1, <2>1, <2>2 DEF Enter, IInv, Exclusive, HolderNamed, FreeLock
    <2>5. t \in Threads /\ lockerThread # t => depth[t] = 0
      BY DEF IInv, TypeOK, Exclusive, Holds
    <2>6. Nesting'
      BY <1>1, <2>5 DEF Enter, LockerSeenBy, IInv, TypeOK, Nesting
    <2> QED BY <2>3, <2>4, <2>6 DEF IInv
  <1>2. ASSUME NEW t \in Threads, Leave(t) PROVE IInv'
    <2>1. Holds(t) /\ recursiveLockCount = depth[t] /\ lockerThread = t
          /\ t \notin buffered /\ \A u \in Threads \ {t} : ~Holds(u)
      BY <1>2 DEF Leave, Holds, IInv, TypeOK, Exclusive, Nesting
    <2>2. TypeOK'
      BY <1>2, <2>1 DEF Leave, IInv, TypeOK, PCs
    <2>3. Holds(t)' /\ \A u \in Threads \ {t} : ~Holds(u)'
      BY <1>2, <2>1 DEF Leave, Holds, IInv, TypeOK
    <2>4. Exclusive' /\ HolderNamed' /\ FreeLock'
      BY <1>2, <2>1, <2>3 DEF Leave, IInv, TypeOK, Exclusive, HolderNamed, FreeLock
    <2>5. Nesting'
      BY <1>2, <2>1 DEF Leave, IInv, TypeOK, Nesting
    <2> QED BY <2>2, <2>4, <2>5 DEF IInv
  <1>3. ASSUME NEW t \in Threads, QuickLock(t) PROVE IInv'
    <2>1. pc[t] = "quick" /\ PerfLockImmediate(t, "count", "spin")
      BY <1>3 DEF QuickLock
    <2> QED BY <1>3, <2>1, LockStep DEF QuickLock, IInv, TypeOK
  <1>4. ASSUME NEW t \in Threads, Spin(t) PROVE IInv'
    <2>1. pc[t] = "spin" /\ PerfLockImmediate(t, "count", "spin")
      BY <1>4 DEF Spin
    <2>2. spins' \in [Threads -> 0..SpinMax]
      BY <1>4 DEF Spin, IInv, TypeOK
    <2> QED BY <1>4, <2>1, <2>2, LockStep DEF Spin
  <1>5. ASSUME NEW t \in Threads, GiveUpSpinning(t) PROVE IInv'
    BY <1>5, QuietStep DEF GiveUpSpinning, IInv, TypeOK, Nesting, Goto
  <1>6. ASSUME NEW t \in Threads, AllocateKernelSemaphore(t) PROVE IInv'
    BY <1>6, QuietStep DEF AllocateKernelSemaphore, IInv, TypeOK, Nesting, Goto
  <1>17. ASSUME NEW t \in Threads, PublishSemaphore(t) PROVE IInv'
    BY <1>17, QuietStep DEF PublishSemaphore, IInv, TypeOK, Nesting, Goto
  <1>7. ASSUME NEW t \in Threads, WaiterPlus(t) PROVE IInv'
    <2>1. waiterCount' \in Int
      BY <1>7 DEF WaiterPlus, IInv, TypeOK
    <2>2. Goto(t, "plus", "try") /\ t \notin buffered
      BY <1>7 DEF WaiterPlus, Goto, IInv, Nesting
    <2> QED BY <1>7, <2>1, <2>2, QuietStep DEF WaiterPlus, IInv, TypeOK
  <1>8. ASSUME NEW t \in Threads, KernelTry(t) PROVE IInv'
    <2>1. pc[t] = "try" /\ PerfLockImmediate(t, "minus", "sleep")
      BY <1>8 DEF KernelTry
    <2> QED BY <1>8, <2>1, LockStep DEF KernelTry, IInv, TypeOK
  <1>9. ASSUME NEW t \in Threads, SemaphoreWait(t) PROVE IInv'
    <2>1. semCount' \in Nat
      BY <1>9 DEF SemaphoreWait, IInv, TypeOK
    <2>2. Goto(t, "sleep", "plus") /\ t \notin buffered
      BY <1>9 DEF SemaphoreWait, Goto, IInv, Nesting
    <2> QED BY <1>9, <2>1, <2>2, QuietStep DEF SemaphoreWait, IInv, TypeOK
  <1>10. ASSUME NEW t \in Threads, WaiterMinus(t) PROVE IInv'
    <2>1. \A u \in Threads : Holds(u)' <=> Holds(u)
      BY <1>10 DEF WaiterMinus, Goto, Holds, IInv, TypeOK
    <2>2. TypeOK'
      BY <1>10 DEF WaiterMinus, Goto, IInv, TypeOK, PCs
    <2>3. Exclusive' /\ HolderNamed' /\ FreeLock'
      BY <1>10, <2>1 DEF WaiterMinus, IInv, Exclusive, HolderNamed, FreeLock
    <2>4. Nesting'
      BY <1>10 DEF WaiterMinus, Goto, IInv, TypeOK, Nesting
    <2> QED BY <2>2, <2>3, <2>4 DEF IInv
  <1>11. ASSUME NEW t \in Threads, CountEntry(t) PROVE IInv'
    <2>1. pc[t] = "count" /\ recursiveLockCount = depth[t] /\ lockerThread = t
          /\ depth[t] < MaxDepth /\ t \notin buffered
          /\ \A u \in Threads \ {t} : ~Holds(u)
      BY <1>11 DEF CountEntry, Goto, Holds, IInv, TypeOK, Exclusive, Nesting
    <2>2. TypeOK'
      BY <1>11, <2>1 DEF CountEntry, Goto, IInv, TypeOK, PCs
    <2>3. Holds(t)' /\ \A u \in Threads \ {t} : ~Holds(u)'
      BY <1>11, <2>1 DEF CountEntry, Goto, Holds, IInv, TypeOK
    <2>4. Exclusive' /\ HolderNamed' /\ FreeLock'
      BY <1>11, <2>1, <2>3 DEF CountEntry, IInv, TypeOK, Exclusive, HolderNamed, FreeLock
    <2>5. Nesting'
      BY <1>11, <2>1 DEF CountEntry, Goto, IInv, TypeOK, Nesting
    <2> QED BY <2>2, <2>4, <2>5 DEF IInv
  <1>12. ASSUME NEW t \in Threads, Unlock(t) PROVE IInv'
    <2>1. pc[t] = "unlock" /\ recursiveLockCount = 0 /\ lockerThread = t
          /\ depth[t] = 0 /\ t \notin buffered
          /\ \A u \in Threads \ {t} : ~Holds(u)
      BY <1>12 DEF Unlock, Goto, Holds, IInv, TypeOK, Exclusive, Nesting
    <2>2. TypeOK'
      BY <1>12 DEF Unlock, Goto, IInv, TypeOK, PCs
    <2>3. \A u \in Threads \ {t} : ~Holds(u)'
      BY <1>12, <2>1 DEF Unlock, Goto, Holds, IInv, TypeOK
    <2>4. Holds(t)' <=> storeBuffers
      BY <1>12, <2>1 DEF Unlock, Goto, Holds, IInv, TypeOK
    <2>5. Exclusive' /\ HolderNamed' /\ FreeLock'
      BY <1>12, <2>1, <2>3, <2>4 DEF Unlock, IInv, TypeOK, Exclusive, HolderNamed, FreeLock
    <2>6. Nesting'
      BY <1>12, <2>1 DEF Unlock, Goto, IInv, TypeOK, Nesting
    <2> QED BY <2>2, <2>5, <2>6 DEF IInv
  <1>13. ASSUME NEW t \in Threads, CheckWaiters(t) PROVE IInv'
    BY <1>13, QuietStep DEF CheckWaiters, IInv, TypeOK, Nesting, Goto
  <1>14. ASSUME NEW t \in Threads, TakeWaiter(t) PROVE IInv'
    <2>1. waiterCount' \in Int
      BY <1>14 DEF TakeWaiter, IInv, TypeOK
    <2>2. Goto(t, "wminus", "release") /\ t \notin buffered
      BY <1>14 DEF TakeWaiter, Goto, IInv, Nesting
    <2> QED BY <1>14, <2>1, <2>2, QuietStep DEF TakeWaiter, IInv, TypeOK
  <1>15. ASSUME NEW t \in Threads, ReleaseSemaphore(t) PROVE IInv'
    <2>1. semCount' \in Nat
      BY <1>15 DEF ReleaseSemaphore, IInv, TypeOK
    <2>2. Goto(t, "release", "run") /\ t \notin buffered
      BY <1>15 DEF ReleaseSemaphore, Goto, IInv, Nesting
    <2> QED BY <1>15, <2>1, <2>2, QuietStep DEF ReleaseSemaphore, IInv, TypeOK
  <1>16. ASSUME NEW t \in Threads, Drain(t) PROVE IInv'
    <2>1. Holds(t) /\ depth[t] = 0 /\ recursiveLockCount = 0 /\ lockerThread = t
          /\ pc[t] \notin {"minus", "count", "unlock"}
          /\ \A u \in Threads \ {t} : ~Holds(u)
      BY <1>16 DEF Drain, Holds, IInv, TypeOK, Exclusive, Nesting
    <2>2. TypeOK'
      BY <1>16 DEF Drain, IInv, TypeOK
    <2>3. \A u \in Threads : ~Holds(u)'
      BY <1>16, <2>1 DEF Drain, Holds, IInv, TypeOK
    <2>4. Exclusive' /\ HolderNamed' /\ FreeLock'
      BY <1>16, <2>1, <2>3 DEF Drain, Exclusive, HolderNamed, FreeLock
    <2>5. Nesting'
      BY <1>16 DEF Drain, IInv, TypeOK, Nesting
    <2> QED BY <2>2, <2>4, <2>5 DEF IInv
  <1> QED
    BY <1>0, <1>1, <1>2, <1>3, <1>4, <1>5, <1>6, <1>7, <1>8, <1>9, <1>10, <1>11,
       <1>12, <1>13, <1>14, <1>15, <1>16, <1>17, NextSplit

LEMMA SpecIInv == Spec => []IInv
  BY InitIInv, NextIInv, PTL DEF Spec

-----------------------------------------------------------------------------
(* The recursion count stays within the nesting bound and every variable   *)
(* keeps its type, whatever the interleaving of Enter() and Leave().       *)
THEOREM SpecTypeOK == Spec => []TypeOK
  BY SpecIInv, PTL DEF IInv

(* Mutual exclusion: at most one thread holds the lock, the lock word      *)
(* names it and recursiveLockCount is its nesting depth.                   *)
THEOREM SpecExclusive == Spec => []Exclusive
  BY SpecIInv, PTL DEF IInv

(* Enter() and Leave() are those of a recursive lock: the counting of an   *)
(* entry is where the abstract Enter takes effect, the decrement of Leave()*)
(* where the abstract Leave does, and every other step is a stutter.       *)
THEOREM SpecImplementsLock == Spec => ImplementsLock
  <1>1. Init => Lock!Init
    BY DEF Init, Lock!Init
  <1>2. IInv /\ [Next]_vars => [Lock!Next]_(Lock!vars)
    <2> SUFFICES ASSUME IInv, [Next]_vars PROVE [Lock!Next]_(Lock!vars) OBVIOUS
    <2>1. ASSUME NEW t \in Threads, CountEntry(t) PROVE Lock!Next
      <3>1. \A u \in Threads \ {t} : depth[u] = 0
        BY <2>1 DEF CountEntry, Goto, Holds, IInv, TypeOK, Exclusive
      <3>2. depth' = [depth EXCEPT ![t] = @ + 1]
        BY <2>1 DEF CountEntry
      <3> QED BY <3>1, <3>2 DEF Lock!Next, Lock!Enter
    <2>2. ASSUME NEW t \in Threads, Leave(t) PROVE Lock!Next
      BY <2>2 DEF Leave, Lock!Next, Lock!Leave
    <2>3. CASE \E t \in Threads : CountEntry(t) \/ Leave(t)
      BY <2>1, <2>2, <2>3
    <2>4. CASE ~\E t \in Threads : CountEntry(t) \/ Leave(t)
      <3>1. CASE UNCHANGED vars
        BY <3>1 DEF vars, Lock!vars
      <3>2. CASE Next
        BY <2>4, <3>2, NextSplit
        DEF Enter, QuickLock, Spin, GiveUpSpinning, AllocateKernelSemaphore,
            PublishSemaphore,
            WaiterPlus, KernelTry, SemaphoreWait, WaiterMinus, Unlock, CheckWaiters,
            TakeWaiter, ReleaseSemaphore, Drain, Lock!vars
      <3> QED BY <3>1, <3>2
    <2> QED BY <2>3, <2>4
  <1> QED BY <1>1, <1>2, SpecIInv, PTL DEF Spec, ImplementsLock, Lock!Spec

-----------------------------------------------------------------------------
(* The waiters.  Each step moves one thread into or out of Registered or   *)
(* Releasing, or neither, and changes waiterCount and semCount accordingly.*)
LEMMA RegisteredFinite == /\ IsFiniteSet(Registered) /\ IsFiniteSet(Releasing)
                          /\ Cardinality(Registered) \in Nat
                          /\ Cardinality(Releasing) \in Nat
  <1>1. Registered \subseteq Threads /\ Releasing \subseteq Threads
    BY DEF Registered, Releasing
  <1>2. IsFiniteSet(Registered) /\ IsFiniteSet(Releasing)
    BY <1>1, ThreadsAssumption, FS_Subset
  <1> QED BY <1>2, FS_CardinalityType

(* A thread that stays in, or stays out of, both sets leaves them alone.   *)
LEMMA SamePlace ==
    ASSUME TypeOK, NEW t \in Threads, \A u \in Threads \ {t} : pc'[u] = pc[u],
           t \in Registered <=> t \in Registered',
           t \in Releasing <=> t \in Releasing'
    PROVE  Registered' = Registered /\ Releasing' = Releasing
  BY DEF Registered, Releasing

LEMMA WaitersStep ==
    TypeOK /\ WaitersAccounted /\ [Next]_vars => WaitersAccounted'
  <1> SUFFICES ASSUME TypeOK, WaitersAccounted, [Next]_vars PROVE WaitersAccounted'
    OBVIOUS
  <1> DEFINE quiet == /\ Registered' = Registered /\ Releasing' = Releasing
                      /\ waiterCount' = waiterCount /\ semCount' = semCount
  <1>0. quiet => WaitersAccounted'
    BY DEF WaitersAccounted
  <1>1. CASE UNCHANGED vars
    BY <1>1, <1>0 DEF vars, Registered, Releasing
  <1>2. ASSUME NEW t \in Threads,
               \/ Enter(t) \/ Leave(t) \/ QuickLock(t) \/ Spin(t)
               \/ GiveUpSpinning(t) \/ AllocateKernelSemaphore(t)
               \/ PublishSemaphore(t) \/ KernelTry(t) \/ CountEntry(t)
               \/ Unlock(t) \/ CheckWaiters(t) \/ Drain(t)
        PROVE  WaitersAccounted'
    <2>1. \A u \in Threads \ {t} : pc'[u] = pc[u]
      BY <1>2 DEF TypeOK, Enter, Leave, QuickLock, Spin, GiveUpSpinning, Goto, KernelTry,
         AllocateKernelSemaphore, PublishSemaphore, CountEntry, Unlock, CheckWaiters, Drain, PerfLockImmediate
    <2>2. pc[t] \in {"try", "sleep", "minus"} <=> pc'[t] \in {"try", "sleep", "minus"}
      BY <1>2 DEF TypeOK, Enter, Leave, QuickLock, Spin, GiveUpSpinning, Goto, KernelTry,
         AllocateKernelSemaphore, PublishSemaphore, CountEntry, Unlock, CheckWaiters, Drain, PerfLockImmediate
    <2>3. pc[t] = "release" <=> pc'[t] = "release"
      BY <1>2 DEF TypeOK, Enter, Leave, QuickLock, Spin, GiveUpSpinning, Goto, KernelTry,
         AllocateKernelSemaphore, PublishSemaphore, CountEntry, Unlock, CheckWaiters, Drain, PerfLockImmediate
    <2>4. Registered' = Registered /\ Releasing' = Releasing
      BY <2>1, <2>2, <2>3, SamePlace DEF Registered, Releasing
    <2>5. waiterCount' = waiterCount /\ semCount' = semCount
      BY <1>2 DEF Enter, Leave, QuickLock, Spin, GiveUpSpinning, KernelTry,
         AllocateKernelSemaphore, PublishSemaphore, CountEntry, Unlock, CheckWaiters, Drain
    <2> QED BY <2>4, <2>5, <1>0
  <1>3. ASSUME NEW t \in Threads, WaiterPlus(t) PROVE WaitersAccounted'
    <2>1. t \notin Registered /\ Registered' = Registered \cup {t}
          /\ Releasing' = Releasing
      BY <1>3 DEF WaiterPlus, Goto, Registered, Releasing, TypeOK
    <2>2. Cardinality(Registered') = Cardinality(Registered) + 1
      BY <2>1, RegisteredFinite, FS_AddElement
    <2>3. waiterCount' = waiterCount + 1 /\ semCount' = semCount
      BY <1>3 DEF WaiterPlus
    <2> QED BY <2>1, <2>2, <2>3, RegisteredFinite DEF WaitersAccounted, TypeOK
  <1>4. ASSUME NEW t \in Threads, SemaphoreWait(t) PROVE WaitersAccounted'
    <2>1. t \in Registered /\ Registered' = Registered \ {t}
          /\ Releasing' = Releasing
      BY <1>4 DEF SemaphoreWait, Goto, Registered, Releasing, TypeOK
    <2>2. Cardinality(Registered') = Cardinality(Registered) - 1
      BY <2>1, RegisteredFinite, FS_RemoveElement
    <2>3. waiterCount' = waiterCount /\ semCount' = semCount - 1
      BY <1>4 DEF SemaphoreWait
    <2> QED BY <2>1, <2>2, <2>3, RegisteredFinite DEF WaitersAccounted, TypeOK
  <1>5. ASSUME NEW t \in Threads, WaiterMinus(t) PROVE WaitersAccounted'
    <2>1. t \in Registered /\ Registered' = Registered \ {t}
          /\ Releasing' = Releasing
      BY <1>5 DEF WaiterMinus, Goto, Registered, Releasing, TypeOK
    <2>2. Cardinality(Registered') = Cardinality(Registered) - 1
      BY <2>1, RegisteredFinite, FS_RemoveElement
    <2>3. waiterCount' = waiterCount - 1 /\ semCount' = semCount
      BY <1>5 DEF WaiterMinus
    <2> QED BY <2>1, <2>2, <2>3, RegisteredFinite DEF WaitersAccounted, TypeOK
  <1>6. ASSUME NEW t \in Threads, TakeWaiter(t) PROVE WaitersAccounted'
    <2>1. t \notin Releasing /\ Releasing' = Releasing \cup {t}
          /\ Registered' = Registered
      BY <1>6 DEF TakeWaiter, Goto, Registered, Releasing, TypeOK
    <2>2. Cardinality(Releasing') = Cardinality(Releasing) + 1
      BY <2>1, RegisteredFinite, FS_AddElement
    <2>3. waiterCount' = waiterCount - 1 /\ semCount' = semCount
      BY <1>6 DEF TakeWaiter
    <2> QED BY <2>1, <2>2, <2>3, RegisteredFinite DEF WaitersAccounted, TypeOK
  <1>7. ASSUME NEW t \in Threads, ReleaseSemaphore(t) PROVE WaitersAccounted'
    <2>1. t \in Releasing /\ Releasing' = Releasing \ {t}
          /\ Registered' = Registered
      BY <1>7 DEF ReleaseSemaphore, Goto, Registered, Releasing, TypeOK
    <2>2. Cardinality(Releasing') = Cardinality(Releasing) - 1
      BY <2>1, RegisteredFinite, FS_RemoveElement
    <2>3. waiterCount' = waiterCount /\ semCount' = semCount + 1
      BY <1>7 DEF ReleaseSemaphore
    <2> QED BY <2>1, <2>2, <2>3, RegisteredFinite DEF WaitersAccounted, TypeOK
  <1> QED BY <1>1, <1>2, <1>3, <1>4, <1>5, <1>6, <1>7, NextSplit

(* The waiter count and the semaphore never lose or invent a waiter.       *)
THEOREM SpecWaitersAccounted == Spec => []WaitersAccounted
  <1>1. Init => WaitersAccounted
    <2> SUFFICES ASSUME Init PROVE WaitersAccounted OBVIOUS
    <2>1. Registered = {} /\ Releasing = {}
      BY DEF Init, Registered, Releasing
    <2> QED BY <2>1, FS_EmptySet DEF Init, WaitersAccounted
  <1> QED BY <1>1, WaitersStep, SpecTypeOK, PTL DEF Spec

(* Nobody uses the kernel semaphore before it has been created: a thread   *)
(* that reads a positive waiterCount in PerfUnlock() reads it from a       *)
(* thread that has passed AllocateKernelSemaphore().                       *)
THEOREM SpecSemaphoreExists == Spec => []SemaphoreExists
  <1>1. Init => SemaphoreExists
    BY DEF Init, SemaphoreExists
  <1>2. TypeOK /\ WaitersAccounted /\ SemaphoreExists /\ [Next]_vars => SemaphoreExists'
    <2> SUFFICES ASSUME TypeOK, WaitersAccounted, SemaphoreExists, [Next]_vars
                 PROVE  SemaphoreExists'
      OBVIOUS
    <2>1. CASE UNCHANGED vars
      BY <2>1 DEF vars, SemaphoreExists
    <2>2. ASSUME NEW t \in Threads, CheckWaiters(t) PROVE SemaphoreExists'
      <3>1. waiterCount > 0 => Registered # {}
        <4> SUFFICES ASSUME waiterCount > 0, Registered = {} PROVE FALSE OBVIOUS
        <4>1. Cardinality(Registered) = 0
          BY FS_EmptySet
        <4> QED BY <4>1, RegisteredFinite DEF WaitersAccounted, TypeOK
      <3>2. waiterCount > 0 => semaphore # NoThread
        BY <3>1 DEF Registered, SemaphoreExists
      <3> QED BY <2>2, <3>2 DEF CheckWaiters, Goto, SemaphoreExists, TypeOK
    <2>3. ASSUME NEW t \in Threads,
                 \/ Enter(t) \/ Leave(t) \/ QuickLock(t) \/ Spin(t)
                 \/ GiveUpSpinning(t) \/ AllocateKernelSemaphore(t)
                 \/ PublishSemaphore(t) \/ KernelTry(t) \/ CountEntry(t) \/ Unlock(t)
                 \/ Drain(t)
          PROVE  SemaphoreExists'
      BY <2>3, ThreadsAssumption DEF TypeOK, SemaphoreExists, Enter, Leave, QuickLock, Spin, GiveUpSpinning,
         Goto, KernelTry, AllocateKernelSemaphore, PublishSemaphore, CountEntry, Unlock, Drain,
         PerfLockImmediate
    <2>4. ASSUME NEW t \in Threads,
                 \/ WaiterPlus(t) \/ SemaphoreWait(t) \/ WaiterMinus(t)
                 \/ TakeWaiter(t) \/ ReleaseSemaphore(t)
          PROVE  SemaphoreExists'
      BY <2>4 DEF TypeOK, SemaphoreExists, Goto, WaiterPlus, SemaphoreWait, WaiterMinus,
         TakeWaiter, ReleaseSemaphore
    <2> QED BY <2>1, <2>2, <2>3, <2>4, NextSplit
  <1> QED BY <1>1, <1>2, SpecTypeOK, SpecWaitersAccounted, PTL DEF Spec

(* Threads that create the semaphore at the same time use one of them: the *)
(* compare-exchange keeps the first, and the others are closed.            *)
THEOREM SpecOneSemaphore == Spec => []OneSemaphore
  <1>1. Init => OneSemaphore
    BY ThreadsAssumption DEF Init, OneSemaphore, Publishing
  <1>2. TypeOK /\ OneSemaphore /\ [Next]_vars => OneSemaphore'
    <2> SUFFICES ASSUME TypeOK, OneSemaphore, [Next]_vars PROVE OneSemaphore'
      OBVIOUS
    <2>1. ASSUME NEW t \in Threads, AllocateKernelSemaphore(t) PROVE OneSemaphore'
      <3>1. CASE semaphore # NoThread
        <4>1. pc[t] = "alloc" /\ pc' = [pc EXCEPT ![t] = "plus"]
              /\ UNCHANGED <<handles, semaphore>>
          BY <2>1, <3>1 DEF AllocateKernelSemaphore, Goto
        <4>2. Publishing' = Publishing
          BY <4>1 DEF Publishing, TypeOK
        <4> QED BY <4>1, <4>2 DEF OneSemaphore
      <3>2. CASE semaphore = NoThread
        <4>1. pc[t] = "alloc" /\ pc' = [pc EXCEPT ![t] = "publish"]
              /\ handles' = handles \cup {t} /\ semaphore' = semaphore
          BY <2>1, <3>2 DEF AllocateKernelSemaphore, Goto
        <4>2. Publishing' = Publishing \cup {t}
          BY <4>1 DEF Publishing, TypeOK
        <4> QED BY <4>1, <4>2, <3>2, ThreadsAssumption DEF OneSemaphore
      <3> QED BY <3>1, <3>2
    <2>2. ASSUME NEW t \in Threads, PublishSemaphore(t) PROVE OneSemaphore'
      <3>1. pc[t] = "publish" /\ pc' = [pc EXCEPT ![t] = "plus"]
        BY <2>2 DEF PublishSemaphore, Goto
      <3>2. t \in Publishing /\ Publishing' = Publishing \ {t}
        BY <3>1 DEF Publishing, TypeOK
      <3>3. CASE semaphore = NoThread
        <4>1. semaphore' = t /\ handles' = handles
          BY <2>2, <3>3 DEF PublishSemaphore
        <4> QED BY <4>1, <3>2, <3>3, ThreadsAssumption DEF OneSemaphore
      <3>4. CASE semaphore # NoThread
        <4>1. handles' = handles \ {t} /\ semaphore' = semaphore
          BY <2>2, <3>4 DEF PublishSemaphore
        <4> QED BY <4>1, <3>2, <3>4 DEF OneSemaphore
      <3> QED BY <3>3, <3>4
    <2>3. CASE ~\E t \in Threads : AllocateKernelSemaphore(t) \/ PublishSemaphore(t)
      <3>1. UNCHANGED <<semaphore, handles>> /\ Publishing' = Publishing
        BY <2>3, NextSplit
        DEF Enter, Leave, QuickLock, Spin, GiveUpSpinning, WaiterPlus, KernelTry,
            SemaphoreWait, WaiterMinus, CountEntry, Unlock, CheckWaiters, TakeWaiter,
            ReleaseSemaphore, Drain, Goto, PerfLockImmediate, vars, Publishing, TypeOK
      <3> QED BY <3>1 DEF OneSemaphore
    <2> QED BY <2>1, <2>2, <2>3
  <1> QED BY <1>1, <1>2, SpecTypeOK, PTL DEF Spec

(* All three together: there is one semaphore, nobody uses it before it is *)
(* in place, and its tokens match the waiters.                             *)
THEOREM SpecSemaphoreExact == Spec => []SemaphoreExact
  BY SpecWaitersAccounted, SpecSemaphoreExists, SpecOneSemaphore, PTL DEF SemaphoreExact

-----------------------------------------------------------------------------
(* No lost wakeup when a store is visible at once.  The step that could    *)
(* lose one is CheckWaiters: it leaves OnTheWay without waking anybody.    *)
(* By WaitersAccounted it does so only when the tokens in the semaphore    *)
(* and the tokens on their way there are as many as the registered         *)
(* threads, so the sleeper's token is there.                               *)
NothingBuffered == ~storeBuffers => buffered = {}

LEMMA SpecNothingBuffered == Spec => []NothingBuffered
  <1>1. Init => NothingBuffered
    BY DEF Init, NothingBuffered
  <1>2. NothingBuffered /\ [Next]_vars => NothingBuffered'
    <2> SUFFICES ASSUME NothingBuffered, [Next]_vars PROVE NothingBuffered' OBVIOUS
    <2>1. CASE UNCHANGED vars
      BY <2>1 DEF vars, NothingBuffered
    <2>2. ASSUME NEW t \in Threads, Unlock(t) PROVE NothingBuffered'
      <3>1. storeBuffers' = storeBuffers
        BY <2>2 DEF Unlock
      <3>2. ~storeBuffers => buffered' = buffered
        BY <2>2 DEF Unlock
      <3> QED BY <3>1, <3>2 DEF NothingBuffered
    <2>3. ASSUME NEW t \in Threads, Drain(t) PROVE NothingBuffered'
      BY <2>3 DEF Drain, NothingBuffered
    <2>4. ASSUME NEW t \in Threads,
                 \/ Enter(t) \/ Leave(t) \/ QuickLock(t) \/ Spin(t)
                 \/ GiveUpSpinning(t) \/ AllocateKernelSemaphore(t)
                 \/ PublishSemaphore(t) \/ WaiterPlus(t)
                 \/ KernelTry(t) \/ SemaphoreWait(t) \/ WaiterMinus(t) \/ CountEntry(t)
                 \/ CheckWaiters(t) \/ TakeWaiter(t) \/ ReleaseSemaphore(t)
          PROVE  NothingBuffered'
      <3>1. storeBuffers' = storeBuffers /\ buffered' = buffered
        BY <2>4
        DEF Enter, Leave, QuickLock, Spin, GiveUpSpinning, AllocateKernelSemaphore,
            PublishSemaphore,
            WaiterPlus, KernelTry, SemaphoreWait, WaiterMinus, CountEntry,
            CheckWaiters, TakeWaiter, ReleaseSemaphore
      <3> QED BY <3>1 DEF NothingBuffered
    <2> QED BY <2>1, <2>2, <2>3, <2>4, NextSplit
  <1> QED BY <1>1, <1>2, PTL DEF Spec

LEMMA WakeupStep ==
    ASSUME TypeOK, WaitersAccounted, NothingBuffered, NoLostWakeup, ~storeBuffers,
           [Next]_vars
    PROVE  NoLostWakeup'
  <1>1. CASE UNCHANGED vars
    BY <1>1 DEF vars, NoLostWakeup, OnTheWay
  <1>2. ASSUME NEW t \in Threads, CheckWaiters(t) PROVE NoLostWakeup'
    <2>1. CASE waiterCount > 0
      BY <1>2, <2>1 DEF CheckWaiters, Goto, NoLostWakeup, OnTheWay, TypeOK
    <2>2. CASE ~(waiterCount > 0)
      <3> SUFFICES ASSUME NEW u \in Threads, pc'[u] = "sleep"
                   PROVE  semCount' > 0 \/ OnTheWay' # {}
        BY DEF NoLostWakeup
      <3>1. u \in Registered
        BY <1>2 DEF CheckWaiters, Goto, Registered, TypeOK
      <3>2. Cardinality(Registered) > 0
        <4>1. Cardinality(Registered) # 0
          BY <3>1, RegisteredFinite, FS_EmptySet
        <4> QED BY <4>1, RegisteredFinite
      <3>3. semCount > 0 \/ Cardinality(Releasing) > 0
        BY <2>2, <3>2, RegisteredFinite DEF WaitersAccounted, TypeOK
      <3>4. Cardinality(Releasing) > 0 => \E r \in Threads : pc[r] = "release"
        <4>1. Releasing = {} => Cardinality(Releasing) = 0
          BY FS_EmptySet
        <4> QED BY <4>1 DEF Releasing
      <3>5. ASSUME NEW r \in Threads, pc[r] = "release" PROVE OnTheWay' # {}
        <4>1. pc'[r] = "release"
          BY <1>2, <3>5 DEF CheckWaiters, Goto, TypeOK
        <4> QED BY <4>1 DEF OnTheWay
      <3>6. semCount' = semCount
        BY <1>2 DEF CheckWaiters
      <3> QED BY <3>3, <3>4, <3>5, <3>6
    <2> QED BY <2>1, <2>2
  <1>3. ASSUME NEW t \in Threads,
               \/ Enter(t) \/ Leave(t) \/ QuickLock(t) \/ Spin(t) \/ KernelTry(t)
        PROVE  NoLostWakeup'
    BY <1>3, ThreadsAssumption
    DEF Enter, Leave, QuickLock, Spin, KernelTry, PerfLockImmediate,
        NoLostWakeup, OnTheWay, TypeOK
  <1>4. ASSUME NEW t \in Threads,
               \/ GiveUpSpinning(t) \/ AllocateKernelSemaphore(t)
               \/ PublishSemaphore(t) \/ WaiterPlus(t)
               \/ WaiterMinus(t) \/ CountEntry(t) \/ TakeWaiter(t)
        PROVE  NoLostWakeup'
    BY <1>4 DEF GiveUpSpinning, AllocateKernelSemaphore, PublishSemaphore, WaiterPlus,
                WaiterMinus, CountEntry, TakeWaiter, Goto, NoLostWakeup, OnTheWay, TypeOK
  <1>5. ASSUME NEW t \in Threads, SemaphoreWait(t) \/ Unlock(t) PROVE NoLostWakeup'
    <2>1. t \in OnTheWay'
      BY <1>5 DEF SemaphoreWait, Unlock, Goto, OnTheWay, TypeOK
    <2> QED BY <2>1 DEF NoLostWakeup
  <1>6. ASSUME NEW t \in Threads, ReleaseSemaphore(t) PROVE NoLostWakeup'
    BY <1>6 DEF ReleaseSemaphore, NoLostWakeup, TypeOK
  <1>7. ASSUME NEW t \in Threads, Drain(t) PROVE NoLostWakeup'
    BY <1>7 DEF Drain, NothingBuffered
  <1> QED BY <1>1, <1>2, <1>3, <1>4, <1>5, <1>6, <1>7, NextSplit

(* PerfUnlock() looks for waiters after it has released the lock: if the   *)
(* processor keeps that order, no thread is left asleep beside a free lock.*)
THEOREM SpecNoLostWakeup == Spec => []OrderedNoLostWakeup
  <1>1. Init => OrderedNoLostWakeup
    BY DEF Init, OrderedNoLostWakeup, NoLostWakeup
  <1>2. [Next]_vars => storeBuffers' = storeBuffers
    BY NextSplit
    DEF vars, Enter, Leave, QuickLock, Spin, GiveUpSpinning, AllocateKernelSemaphore,
            PublishSemaphore,
        WaiterPlus, KernelTry, SemaphoreWait, WaiterMinus, CountEntry, Unlock,
        CheckWaiters, TakeWaiter, ReleaseSemaphore, Drain
  <1>3. TypeOK /\ WaitersAccounted /\ NothingBuffered /\ OrderedNoLostWakeup /\ [Next]_vars
          => OrderedNoLostWakeup'
    BY <1>2, WakeupStep DEF OrderedNoLostWakeup
  <1> QED
    BY <1>1, <1>3, SpecNothingBuffered, SpecTypeOK, SpecWaitersAccounted, PTL DEF Spec
=============================================================================
