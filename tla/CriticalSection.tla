-------------------------- MODULE CriticalSection --------------------------
(***************************************************************************)
(* Win360::Win360CriticalSection as the Win32 build compiles it            *)
(* (NEBULA3_USER_CRITICAL_SECTION): a lock word taken with an interlocked  *)
(* compare-exchange, a recursion count, a spin phase, and a kernel         *)
(* semaphore for the threads that give up spinning.                        *)
(*                                                                         *)
(* A step is one access to shared memory or one kernel call, so threads    *)
(* interleave between any two of them.  Every access but one is an         *)
(* interlocked instruction, a kernel call or an access only the holder     *)
(* makes.  The exception is the plain store "lockerThread = 0" of          *)
(* PerfUnlock(): _WriteBarrier() and _ReadWriteBarrier() constrain the     *)
(* compiler only, so an x86 processor may keep the store in its store      *)
(* buffer past the load of waiterCount that follows.  storeBuffers says    *)
(* whether the machine has these buffers (one per thread, at most this one *)
(* store in it: an interlocked instruction or a kernel call drains it).    *)
(***************************************************************************)
EXTENDS Integers, FiniteSets

CONSTANTS
    Threads,        \* the threads that share the critical section
    NoThread,       \* the value 0 of the lock word
    SpinMax,        \* spinMax: attempts before a thread uses the semaphore
    MaxDepth        \* bound: nested Enter() calls of one thread

ASSUME ThreadsAssumption == IsFiniteSet(Threads) /\ NoThread \notin Threads
ASSUME BoundsAssumption == SpinMax \in Nat /\ MaxDepth \in Nat \ {0}

VARIABLES
    storeBuffers,         \* the machine: store buffers, or stores visible at once
    lockerThread,         \* the lock word
    recursiveLockCount,   \* written by the holder only
    waiterCount,          \* may be negative for a while
    semaphore,            \* the kernel semaphore in use, by the thread that created it
    handles,              \* semaphores that exist, by the thread that created them
    semCount,             \* the count of the semaphore in use: nobody has used another
    buffered,             \* threads whose "lockerThread = 0" is not yet visible
    spins,                \* PerfLock's dwSpin, per thread
    depth,                \* Enter() calls a thread has not left yet (the caller's view)
    pc                    \* the next shared access of each thread

vars == <<storeBuffers, lockerThread, recursiveLockCount, waiterCount, semaphore,
          handles, semCount, buffered, spins, depth, pc>>

PCs == {"run", "quick", "spin", "alloc", "publish", "plus", "try", "sleep", "minus",
        "count", "unlock", "check", "wminus", "release"}

TypeOK ==
    /\ storeBuffers \in BOOLEAN
    /\ lockerThread \in Threads \cup {NoThread}
    /\ recursiveLockCount \in 0..MaxDepth
    /\ waiterCount \in Int
    /\ semaphore \in Threads \cup {NoThread}
    /\ handles \in SUBSET Threads
    /\ semCount \in Nat
    /\ buffered \in SUBSET Threads
    /\ spins \in [Threads -> 0..SpinMax]
    /\ depth \in [Threads -> 0..MaxDepth]
    /\ pc \in [Threads -> PCs]

Init ==
    /\ storeBuffers \in BOOLEAN
    /\ lockerThread = NoThread
    /\ recursiveLockCount = 0
    /\ waiterCount = 0
    /\ semaphore = NoThread
    /\ handles = {}
    /\ semCount = 0
    /\ buffered = {}
    /\ spins = [t \in Threads |-> 0]
    /\ depth = [t \in Threads |-> 0]
    /\ pc = [t \in Threads |-> "run"]

-----------------------------------------------------------------------------
Goto(t, from, to) == pc[t] = from /\ pc' = [pc EXCEPT ![t] = to]

(* A thread sees its own buffered store before the memory does.            *)
LockerSeenBy(t) == IF t \in buffered THEN NoThread ELSE lockerThread

(* InterlockedCompareExchange drains the store buffer of its thread, hence *)
(* the guard; it succeeds when the lock word is 0.                         *)
PerfLockImmediate(t, success, failure) ==
    /\ t \notin buffered
    /\ IF lockerThread = NoThread
       THEN lockerThread' = t /\ pc' = [pc EXCEPT ![t] = success]
       ELSE UNCHANGED lockerThread /\ pc' = [pc EXCEPT ![t] = failure]

(* Enter() reads the lock word: it is the caller's (a nested call), 0 (try *)
(* to take it at once) or another thread's (PerfLock).  It reads it twice; *)
(* one read stands for both, because the compare-exchange that follows a 0 *)
(* fails in the same way when the word has changed meanwhile.              *)
Enter(t) ==
    /\ pc[t] = "run"
    /\ depth[t] < MaxDepth
    /\ pc' = [pc EXCEPT ![t] = CASE LockerSeenBy(t) = t -> "count"
                                 [] LockerSeenBy(t) = NoThread -> "quick"
                                 [] OTHER -> "spin"]
    /\ spins' = [spins EXCEPT ![t] = 0]
    /\ UNCHANGED <<lockerThread, recursiveLockCount, waiterCount, semaphore, handles,
                   semCount, buffered, depth, storeBuffers>>

QuickLock(t) ==
    /\ pc[t] = "quick"
    /\ PerfLockImmediate(t, "count", "spin")
    /\ UNCHANGED <<recursiveLockCount, waiterCount, semaphore, handles, semCount, buffered,
                   spins, depth, storeBuffers>>

(* One turn of the spin loop of PerfLock().                                *)
Spin(t) ==
    /\ pc[t] = "spin"
    /\ spins[t] < SpinMax
    /\ PerfLockImmediate(t, "count", "spin")
    /\ spins' = [spins EXCEPT ![t] = @ + 1]
    /\ UNCHANGED <<recursiveLockCount, waiterCount, semaphore, handles, semCount, buffered,
                   depth, storeBuffers>>

GiveUpSpinning(t) ==
    /\ spins[t] = SpinMax
    /\ Goto(t, "spin", "alloc")
    /\ UNCHANGED <<lockerThread, recursiveLockCount, waiterCount, semaphore, handles,
                   semCount, buffered, spins, depth, storeBuffers>>

(* AllocateKernelSemaphore(): a thread that finds no semaphore creates     *)
(* one ...                                                                 *)
AllocateKernelSemaphore(t) ==
    /\ \/ /\ semaphore # NoThread
          /\ Goto(t, "alloc", "plus")
          /\ UNCHANGED handles
       \/ /\ semaphore = NoThread
          /\ Goto(t, "alloc", "publish")
          /\ handles' = handles \cup {t}
    /\ UNCHANGED <<lockerThread, recursiveLockCount, waiterCount, semaphore,
                   semCount, buffered, spins, depth, storeBuffers>>

\* Mutant: the handle is stored without a compare-exchange.
StoreHandle(t) ==
    /\ Goto(t, "publish", "plus")
    /\ semaphore' = t
    /\ UNCHANGED <<lockerThread, recursiveLockCount, waiterCount, handles,
                   semCount, buffered, spins, depth, storeBuffers>>

(* ... and puts it in place, unless it finds that another thread has done  *)
(* so meanwhile: it is late and closes its own.                            *)
PublishSemaphore(t) ==
    /\ Goto(t, "publish", "plus")
    /\ \/ /\ semaphore = NoThread
          /\ semaphore' = t
          /\ UNCHANGED handles
       \/ /\ semaphore # NoThread
          /\ handles' = handles \ {t}
          /\ UNCHANGED semaphore
    /\ UNCHANGED <<lockerThread, recursiveLockCount, waiterCount,
                   semCount, buffered, spins, depth, storeBuffers>>

\* Mutant: PerfLockKernel() sleeps without trying the lock once more.
SleepAtOnce(t) ==
    /\ Goto(t, "plus", "sleep")
    /\ waiterCount' = waiterCount + 1
    /\ UNCHANGED <<lockerThread, recursiveLockCount, semaphore, handles, semCount,
                   buffered, spins, depth, storeBuffers>>

(* PerfLockKernel(): announce the waiter, try again, sleep, and start over *)
(* when the semaphore lets the thread through.                             *)
WaiterPlus(t) ==
    /\ Goto(t, "plus", "try")
    /\ waiterCount' = waiterCount + 1
    /\ UNCHANGED <<lockerThread, recursiveLockCount, semaphore, handles, semCount,
                   buffered, spins, depth, storeBuffers>>

KernelTry(t) ==
    /\ pc[t] = "try"
    /\ PerfLockImmediate(t, "minus", "sleep")
    /\ UNCHANGED <<recursiveLockCount, waiterCount, semaphore, handles, semCount, buffered,
                   spins, depth, storeBuffers>>

SemaphoreWait(t) ==
    /\ semCount > 0
    /\ Goto(t, "sleep", "plus")
    /\ semCount' = semCount - 1
    /\ UNCHANGED <<lockerThread, recursiveLockCount, waiterCount, semaphore, handles,
                   buffered, spins, depth, storeBuffers>>

\* Mutant: PerfLock() returns without WaiterMinus().
KeepWaiter(t) ==
    /\ Goto(t, "minus", "count")
    /\ UNCHANGED <<lockerThread, recursiveLockCount, waiterCount, semaphore, handles,
                   semCount, buffered, spins, depth, storeBuffers>>

(* PerfLock() takes its waiter off the count once it holds the lock.       *)
WaiterMinus(t) ==
    /\ Goto(t, "minus", "count")
    /\ waiterCount' = waiterCount - 1
    /\ UNCHANGED <<lockerThread, recursiveLockCount, semaphore, handles, semCount,
                   buffered, spins, depth, storeBuffers>>

\* Mutant: a nested Enter() is not counted.
CountFirstEntry(t) ==
    /\ Goto(t, "count", "run")
    /\ recursiveLockCount' = 1
    /\ depth' = [depth EXCEPT ![t] = @ + 1]
    /\ UNCHANGED <<lockerThread, waiterCount, semaphore, handles, semCount, buffered,
                   spins, storeBuffers>>

(* recursiveLockCount++ : Enter() returns to its caller.                   *)
CountEntry(t) ==
    /\ Goto(t, "count", "run")
    /\ recursiveLockCount' = recursiveLockCount + 1
    /\ depth' = [depth EXCEPT ![t] = @ + 1]
    /\ UNCHANGED <<lockerThread, waiterCount, semaphore, handles, semCount, buffered,
                   spins, storeBuffers>>

-----------------------------------------------------------------------------
\* Mutant: every Leave() unlocks.
UnlockAlways(t) ==
    /\ pc[t] = "run"
    /\ depth[t] > 0
    /\ depth' = [depth EXCEPT ![t] = @ - 1]
    /\ recursiveLockCount' = recursiveLockCount - 1
    /\ pc' = [pc EXCEPT ![t] = "unlock"]
    /\ UNCHANGED <<lockerThread, waiterCount, semaphore, handles, semCount, buffered,
                   spins, storeBuffers>>

(* Leave() by a caller that has entered before; only the last one unlocks. *)
Leave(t) ==
    /\ pc[t] = "run"
    /\ depth[t] > 0
    /\ depth' = [depth EXCEPT ![t] = @ - 1]
    /\ recursiveLockCount' = recursiveLockCount - 1
    /\ pc' = [pc EXCEPT ![t] = IF recursiveLockCount = 1 THEN "unlock" ELSE "run"]
    /\ UNCHANGED <<lockerThread, waiterCount, semaphore, handles, semCount, buffered,
                   spins, storeBuffers>>

(* PerfUnlock(): lockerThread = 0.                                         *)
Unlock(t) ==
    /\ Goto(t, "unlock", "check")
    /\ IF storeBuffers
       THEN buffered' = buffered \cup {t} /\ UNCHANGED lockerThread
       ELSE lockerThread' = NoThread /\ UNCHANGED buffered
    /\ UNCHANGED <<recursiveLockCount, waiterCount, semaphore, handles, semCount, spins,
                   depth, storeBuffers>>

\* Mutant: a single waiter is overlooked.
CheckTwoWaiters(t) ==
    /\ Goto(t, "check", IF waiterCount > 1 THEN "wminus" ELSE "run")
    /\ UNCHANGED <<lockerThread, recursiveLockCount, waiterCount, semaphore, handles,
                   semCount, buffered, spins, depth, storeBuffers>>

(* if (this->waiterCount > 0)                                              *)
CheckWaiters(t) ==
    /\ Goto(t, "check", IF waiterCount > 0 THEN "wminus" ELSE "run")
    /\ UNCHANGED <<lockerThread, recursiveLockCount, waiterCount, semaphore, handles,
                   semCount, buffered, spins, depth, storeBuffers>>

TakeWaiter(t) ==
    /\ t \notin buffered
    /\ Goto(t, "wminus", "release")
    /\ waiterCount' = waiterCount - 1
    /\ UNCHANGED <<lockerThread, recursiveLockCount, semaphore, handles, semCount,
                   buffered, spins, depth, storeBuffers>>

ReleaseSemaphore(t) ==
    /\ Goto(t, "release", "run")
    /\ semCount' = semCount + 1
    /\ UNCHANGED <<lockerThread, recursiveLockCount, waiterCount, semaphore, handles,
                   buffered, spins, depth, storeBuffers>>

(* The processor writes the buffered store of a thread to memory.          *)
Drain(t) ==
    /\ t \in buffered
    /\ lockerThread' = NoThread
    /\ buffered' = buffered \ {t}
    /\ UNCHANGED <<recursiveLockCount, waiterCount, semaphore, handles, semCount, spins,
                   depth, pc, storeBuffers>>

-----------------------------------------------------------------------------
(* The steps a thread takes inside Enter() and Leave() ...                 *)
Internal(t) ==
    \/ QuickLock(t) \/ Spin(t) \/ GiveUpSpinning(t) \/ AllocateKernelSemaphore(t)
    \/ PublishSemaphore(t) \/ WaiterPlus(t) \/ KernelTry(t) \/ SemaphoreWait(t) \/ WaiterMinus(t)
    \/ CountEntry(t) \/ Unlock(t) \/ CheckWaiters(t) \/ TakeWaiter(t)
    \/ ReleaseSemaphore(t) \/ Drain(t)

(* ... and the two calls, which are the caller's choice.                   *)
Next == \E t \in Threads : Enter(t) \/ Leave(t) \/ Internal(t)

Spec == Init /\ [][Next]_vars

(* The scheduler runs every thread that can run, stores reach the memory,  *)
(* and a holder eventually leaves (no code waits forever inside a critical *)
(* section).  Nobody has to enter.                                         *)
Fairness == \A t \in Threads : WF_vars(Internal(t)) /\ WF_vars(Leave(t))

FairSpec == Spec /\ Fairness

-----------------------------------------------------------------------------
(* Properties                                                              *)

(* The threads the lock word belongs to from the moment their              *)
(* compare-exchange succeeds until their "lockerThread = 0" is visible.    *)
Holds(t) == depth[t] > 0 \/ pc[t] \in {"minus", "count", "unlock"} \/ t \in buffered

(* At most one thread is between a successful lock and the end of its      *)
(* unlock, it is the thread the lock word names, and the recursion count   *)
(* is the number of calls this thread still has to leave.                  *)
Exclusive ==
    \A t \in Threads : Holds(t) =>
        /\ lockerThread = t
        /\ \A u \in Threads \ {t} : ~Holds(u)
        /\ recursiveLockCount = depth[t]

(* waiterCount, the tokens in the semaphore and the tokens about to be put *)
(* there add up to the threads inside PerfLockKernel() that count          *)
(* themselves as waiters, although waiterCount alone goes below zero.      *)
Registered == {t \in Threads : pc[t] \in {"try", "sleep", "minus"}}
Releasing == {t \in Threads : pc[t] = "release"}

WaitersAccounted ==
    waiterCount + semCount + Cardinality(Releasing) = Cardinality(Registered)

(* ReleaseSemaphore() and WaitForSingleObject() get a semaphore handle     *)
(* that exists (n_assert(this->semaphore) in PerfLockKernel).              *)
SemaphoreExists ==
    (\E t \in Threads : pc[t] \in {"plus", "try", "sleep", "minus", "wminus", "release"})
        => semaphore # NoThread

(* However many threads create a semaphore at the same time, they use one, *)
(* and those that are late have closed theirs or are about to.             *)
Publishing == {t \in Threads : pc[t] = "publish"}

OneSemaphore ==
    /\ handles = Publishing \cup ({semaphore} \ {NoThread})
    /\ semaphore \notin Publishing

(* So all use the same semaphore, and it carries neither a token for       *)
(* nobody nor one too few.                                                 *)
SemaphoreExact == WaitersAccounted /\ SemaphoreExists /\ OneSemaphore

(* "AFTER it is released we check if there're waiters": no thread sleeps   *)
(* on the semaphore while the lock is free, unless somebody is on the way  *)
(* to take the lock or to wake a sleeper.                                  *)
OnTheWay == {t \in Threads : pc[t] \in {"check", "wminus", "release", "plus", "try"}}

NoLostWakeup ==
    (lockerThread = NoThread /\ \E t \in Threads : pc[t] = "sleep")
        => semCount > 0 \/ OnTheWay # {}

(* On a machine that keeps the order of PerfUnlock() this holds ...        *)
OrderedNoLostWakeup == ~storeBuffers => NoLostWakeup

(* ... and a sleeper does not sleep on beside a free lock: either a thread *)
(* gets the lock or nobody sleeps any more.                                *)
SleeperWoken ==
    (~storeBuffers /\ lockerThread = NoThread /\ \E t \in Threads : pc[t] = "sleep")
        ~> (lockerThread # NoThread \/ \A t \in Threads : pc[t] # "sleep")

(* The critical section is a recursive lock.                               *)
Lock == INSTANCE RecursiveLock
ImplementsLock == Lock!Spec
=============================================================================
