# TLA+ specifications of the Nebula3 threading, messaging and resource core

Nebula3 runs a game on a main thread, a render thread and a handful of service
threads (IO, HTTP, job workers).  What can go wrong between them goes through a
small set of classes in `code/foundation` (`threading`, `messaging`, `framesync`
and `jobs`), and through the two protocols `code/render` builds on them: the
entities that have one half on each side of the frame, and the resources the IO
thread reads for the render thread.  This project models those classes as they
are built for Win32, checks them with TLC and proves the central results with
TLAPS.  The rest of the repository is listed with the reason why it is not
modelled.

## The system

| Component | State | Operations | Who calls whom |
|---|---|---|---|
| `Threading::CriticalSection` (`win360criticalsection.h`) | lock word, recursion count, waiter count, semaphore | `Enter`, `Leave` | everything below |
| `Threading::Event`, `SafeQueue`, `Thread` | auto-reset events; an array under a critical section with an event; stop request, thread handle | `Wait`, `Signal`, `Peek`; `Enqueue`, `DequeueAll`, `Wait`, `Erase...`; `Start`, `Stop`, `ThreadStopRequested` | handler threads, job workers |
| `Messaging::AsyncPort` and `HandlerThreadBase` (`BlockingHandlerThread`, `RunThroughHandlerThread`) | message queue, handlers, deferred messages, handled flags | `Open`, `Close`, `AttachHandler`, `RemoveHandler`, `Send`, `SendWait`, `Wait`, `Peek`, `Cancel` | every `Interface` singleton (IO, HTTP, debug, graphics) is such a port |
| `Threading::ThreadBarrier` (`win360threadbarrier.h`) | count, manual-reset event, critical section that outlives the call | `Arrive`, `Wait`, `SignalContinue` | frame synchronization |
| `FrameSync::FrameSyncHandlerThread`, `FrameSyncTimer` | lock-step flag, double-buffered messages, master time and thread-local times | `ArriveAtSyncPoint`, `EnterLockStepMode`, `LeaveLockStepMode`, `WaitForMessage`, the frame loop | `GraphicsInterface` on the main thread, `DoWork` on the render thread |
| `Jobs::TPJobPort`, `TPJobThreadPool`, `TPWorkerThread`, `TPJob` | a command queue per worker, completion counter and event per job, last pushed job per port | `PushJob`, `PushJobChain`, `PushSync`, `WaitDone`, `CheckDone`, the worker loop | animation, characters, particles, visibility |
| `FrameSync::FrameSyncSharedData` | use count, two data objects, their size | `OwnerSetup`, `ClientSetup`, `Owner`, `Client`, `OwnerDiscard`, `ClientDiscard` | the two halves of a graphics entity |
| `Graphics::ModelEntity`, `Stage`; `InternalGraphics::InternalModelEntity`, `InternalStage`; `Threading::ObjectRef` | attachment, batched messages; entities of the stage, model, deferred messages; the ref that leads from one to the other | `AttachEntity`, `RemoveEntity`, messages such as `AnimPlayClip`; their handlers, `OnCullBefore` | the game on the main thread, messages to the render thread's frame loop |
| `Resources::ResourceManager`, `SimpleResourceMapper`, `StreamResourceLoader`; `Models::ModelServer`, `Model` | client counts, contained resources, pending loads, placeholders | `LoadManagedModel`, `DiscardManagedModel`, `Prepare`, `Close`; `OnReadStream` on the IO thread | model entities, and the models themselves for their meshes and textures |

What is hard about it:

* **Interleaving.** A check under a lock and the sleep that follows it are two
  steps (`SafeQueue::Wait`, `WaitForMessage`, `PerfLockKernel`); so are a store
  and the check of the waiters after it (`PerfUnlock`); two flags are read in
  an order nobody tests (`lockStepMode` while it is being switched).
* **Signals that carry no count.** Auto-reset events forget a second signal and
  wake one thread; a manual-reset event may be reset before all have seen it.
* **Counts kept by several threads:** waiters, missing threads, slices left.
* **Lifetimes that two threads decide.** An entity is removed by one thread
  while the other has not created it, still defers its messages or still loads
  its model; create and discard messages overtake the batched ones.
* **Sharing.** Models share textures, failed resources share a placeholder, and
  only client counts say when something may be unloaded.
* **Timeouts.** The barrier gives up after two seconds, and nothing takes back
  the count.
* **Ordering promises** made in comments: messages in order, chained jobs,
  "all previous jobs on this port", "when the method returns, all threads have
  arrived".

What makes each component correct is stated at the end of its module and listed
below under *Runs*.

## Modules

| Module | Models | State and actions |
|---|---|---|
| `RecursiveLock` | the promise of a critical section | `depth`: calls still to be left |
| `CriticalSection` | `win360criticalsection.h` | one action per interlocked operation or kernel call of `Enter()`/`Leave()`; the semaphore is created and put in place in two steps (`handles`, `semaphore`); `buffered` holds a thread whose `lockerThread = 0` is still in its store buffer |
| `CriticalSectionProofs` | its theorems | |
| `MessagePort` | the promise of a port | `pending`, `delivered`, `handled` |
| `HandlerThread` | `AsyncPort`, both handler threads, the queue, events and stop protocol | `tpc` is the handler thread's place in `DoWork()`, `opc` the owner's in `Open()`/`Close()`, `cpc` a client's in `Send()`/`Wait()` |
| `MCHandlerThread` | instances for TLC | |
| `HandlerThreadProofs` | theorems about `HandlerThread` | |
| `Barrier` | the promise of a thread barrier | `arrived`, `leaving`, `gaveUp` |
| `ThreadBarrier` | `win360threadbarrier.h` | `bpc` is a thread's place between `Arrive()` and the return of `Wait()` |
| `ThreadBarrierProofs` | its theorems | |
| `FrameSync` | `framesynchandlerthread.cc`, the two frame loops | composes `ThreadBarrier` (instance `B` on the same variables) with the message buffers and clocks; `reading` and `writing` are the data objects of `FrameSyncSharedData` each side has references to |
| `FrameSyncProofs` | its theorems, on those of `ThreadBarrierProofs` | |
| `JobSystem` | `jobs/tp` | `pushing`, `curJob`, `chain`, `index` are the pushing thread's place in its call, `jobQueue`/`curCommands` what each worker has |
| `MCJobSystem` | the calls of a character and of a particle system | |
| `JobSystemProofs` | theorems about `JobSystem` | |
| `ManagedModels` | the promise of `ModelServer` to its users | `uses`, `status` of each model, `broken`, `aborted` |
| `ResourceLoading` | `ResourceManager`, `SimpleResourceMapper`, the stream loaders and the IO thread's `OnReadStream()` | `contained` and `clientCount` are a `ManagedResource`, `readStream` the loader's message |
| `MCResourceLoading` | two models that share a texture | |
| `ResourceLoadingProofs` | theorems about `ResourceLoading` | |
| `GraphicsEntities` | a `ModelEntity` and its `InternalModelEntity`, `FrameSyncSharedData`, `ObjectRef`, both frame loops | `mainPc` and `renderPc` are the threads' places in their frames, `outstandingThreads` the barrier's count, `owner` and `client` the data object each is at; includes `ManagedModels` (instance `M`) |
| `MCGraphicsEntities` | two entities that show one model | |
| `GraphicsEntitiesProofs` | theorems about `GraphicsEntities` | |
| `SequenceLemmas` | queues and lists: the elements of a sequence and their order after `Append`, `\o`, `Tail` and `RemoveAt` | |

How they fit together: `CriticalSection` implements `RecursiveLock`, so the
other modules make a section under a lock one step.  `ThreadBarrier` implements
`Barrier` and is itself part of `FrameSync`.  `HandlerThread` includes the
`SafeQueue`; its liveness justifies that in `ResourceLoading` the IO thread
handles every `ReadStream` message, and its `NoLostMessage` that in
`JobSystem` a worker takes its commands whenever there are any.
`ResourceLoading` implements `ManagedModels`, which is what `GraphicsEntities`
knows of models.  `FrameSync` shows that the sync point returns and that no
message is lost, so `GraphicsEntities` makes the flip of the messages one step
with the last arrival at the sync point.  That stands until a round of the
barrier comes out early: in lock-step mode the waits of `GraphicsEntities` may
time out as well (`MainGiveUp`, `RenderGiveUp`), and it follows the threads until
the main thread completes a round the render thread is not waiting in (`mainPc =
"outrun"`), whose flip would overwrite the messages the render thread is at.  If
the render thread completes such a round, nothing is overwritten, and the model
goes on.

In `ResourceLoading` and `GraphicsEntities` a failed `n_assert()` ends the
program: `state` or `aborted` says so and nothing happens any more.  The
properties say when that can happen.

Variables that say what is *allowed* rather than what happens (`storeBuffers`,
`mode`) are set once in `Init`, so one run covers all variants.  Variables marked
*history* in the modules are not in the code: they record what the properties
need (who was released, what was sent, which slices ran) and no guard reads them
except to bound an input (a message is sent once).

## Runs

Passing runs, with distinct states:

| Run | Bounds | What it shows |
|---|---|---|
| `criticalsection` | 3 threads, spin bound 1, nesting 2; 169 540 | mutual exclusion, exact bookkeeping of waiters and of the one semaphore in use, refinement of `RecursiveLock`, all with and without store buffers; without them no lost wakeup, and nobody sleeps on while the lock stays free |
| `handlerthread_safety` | 2 clients, 4 messages of which one is a batch and one inside it, 1 early and 1 late, removable handler, all three loops; 3.5 million | nothing is slept through (message, stop request), a waiter is signalled, messages are delivered once and in order (refinement of `MessagePort`) |
| `handlerthread_liveness` | 2 clients, 2 messages, 2 handlers, all three loops; 76 000 | messages get delivered, completed deferred messages get noticed, the waiter wakes, `Close()` returns, handlers are closed, and only open ones |
| `threadbarrier` | 3 threads, any wait may time out; 343 | rounds are exact (the assertion holds, the count accounts for all, a round without timeouts waits for all), no stale event, refinement of `Barrier`, no deadlock |
| `framesync` | 1 message, lock-step entered twice, time modulo 4; 510 328 | no message lost, same frame on both sides, sync actions only when all have arrived and no data object held by both sides, until a wait times out or a round comes out early; with timeouts, every arrival returns, every message gets handled |
| `jobsystem` | 2 workers, 5 jobs of 1 to 3 slices, three frames; 21 000 | every slice runs once, completion neither early nor late, chains and syncs order the jobs, no assertion, no deadlock |
| `resourceloading` | 2 users, 2 models that share a texture, 1 mesh, a placeholder with a texture, every load may fail; 4 768 | client counts are exact, no load is forgotten, whoever holds a model gets it or the placeholder, refinement of `ManagedModels` |
| `graphicsentities` | 2 entities with one model, 2 clips on one of them, both modes, waits that time out, removal at any time; 430 582 | shared data is there while it is held, clips start once, in order and eventually, removed entities go, and the program ends only for what was unfinished when the main thread removed an entity |

Why these bounds are enough to see the interesting cases: three threads on a
lock give a holder, a sleeper and a third that takes the lock between them;
three on the barrier give one that is last, one released and one already in
the next round.  Two clients make the two-sender and the waiter-and-canceller
races, a batch and a part the case of one message carrying another.  Two
workers and jobs of one, two and three slices give empty units, even units and
a remainder.  Two users, a shared texture and a model with a mesh
make the last user, the second user, the pending part, the part that another
model has already and the lost placeholder.  Two entities with one model make a
removal of the last and of a second user, and a stage the render thread walks
while one of them waits for its model; two clips can be told apart.
The clock modulo four tells "behind", "equal" and "ahead" apart, since in
lock-step the two sides are never more than one frame apart, and it has the parity
the data objects are chosen by.  `MaxOpens`, `MaxEnters`, `MaxDepth`, `SpinMax` and `MaxPlays` are the
only bounds on behaviour; `MaxDepth` and `SpinMax` are constants of the
proofs, too.

Each violating run shows one disagreement between code and documentation:

| Run | Property | Finding |
|---|---|---|
| `criticalsection_lostwakeup` | `NoLostWakeup` | `PerfUnlock()` has a compiler barrier where it needs a fence: with a store buffer the waiter check runs before the lock is free |
| `handlerthread_twowaiters` | `WaitReturns` | two threads in `Wait()` share one auto-reset event; one sleeps on beside its handled message |
| `threadbarrier_lostrelease` | `AllResumed` | the next round's `Wait()` resets the event before a released thread has looked at it |
| `jobsystem_sync` | `Ordered` | `PushSync()` waits for the last job only, not for "all previous jobs on this port" |

The timeouts of the barrier hide the third, and one more of the kind: lock-step
mode is cleared after the sync point (`framesynchandlerthread.cc:70`), when the
render thread may already be in the barrier again, although "lock-step mode
disabled, the master thread is allowed to run" (line 105).  A thread that sleeps
for nothing goes on two seconds later.  In `ThreadBarrier` and `FrameSync` a wait may
therefore always time out, and the properties say what holds until a round has
come out short (`gaveUp`, `early`).  What no longer holds then: `Wait()` returns
although not all have arrived, and since the count is not given back the next
round completes one thread early and flips the messages while the other thread
still reads them.  Nor do the two data objects of a `FrameSyncSharedData` keep
the threads apart any longer: `DisjointBuffers` of `FrameSync` has the three
hypotheses that no round has come out early, that nobody has given up waiting in
this one and that lock-step mode is on.  In free-running mode the frame count
changes under a main thread that reads (`Owner` allows it, the model has these
reads, and the property says nothing of them).  And the game must not use a
reference in a later frame: `GetTrackedCharJointInfo()` hands out a pointer into
the data object of this frame (`modelentity.cc:177`), so the model lets go of all
references at the sync point.

What the two render models say about the assertions is a contract nobody wrote
down.  `ImplementsManagedModels`: whoever lets go of a model as its last user
must not do so before the model *and all its parts* are loaded, for
`OnDiscardManagedResource()` takes a pending resource off the list and then asks
the `Resource` it does not have yet (`simpleresourcemapper.cc:189`); and the model is
taken for loaded while textures are pending (`statenode.cc:121`).  If the model
had failed to load, the placeholder it shares with other failed models is
unloaded under them (`broken`).  `RemovedTooEarly`: the main thread must not
remove an entity that

* has messages batched in the same frame (they arrive after the discard message
  and find no entity, `objectref.h:80`),
* has not been created on the render thread (`OwnerDiscard()` and
  `ClientSetup()` race for the data objects),
* still defers messages (`internalgraphicsentity.cc:170`), or
* uses a model that has not settled,

and otherwise the program does not end.  Of these the main thread can see the
first only: its own batch.

Fairness.  Threads are weakly fair: Windows schedules every runnable thread
of these priorities.  Calls from outside are not fair: nobody has to open a
port, send, enter a critical section or complete a deferred message, but a
holder of a critical section leaves it and the main thread goes on to its next
frame.  `FrameSync` adds strong fairness for `Arrive(t)`: the barrier's critical
section is free again and again, and its semaphore wakes a waiter (see
`SleeperWoken`), so a thread is not kept out for ever.  In `ResourceLoading` the
IO thread handles every message and the render thread comes to `Prepare()`;
users may keep or drop their models as they like.  In `GraphicsEntities` the
game is not fair in anything but that it comes to the end of its frame (strong
fairness, for it may begin to attach or remove again and again), and a model in
use becomes usable if `Prepare()` is called for ever, which is `ModelsServed` of
`ResourceLoading`.  Deadlock is checked in
`criticalsection` and the runs of the barrier and of the frame
synchronization; a port may be closed for good and the job scripts come to
their end, so those runs do not check it.

## Proofs

All results hold for every value of the constants.

**Critical section** (`CriticalSectionProofs`), from `ThreadsAssumption` (finitely
many threads, `NoThread` not among them) and `BoundsAssumption`:
`SpecTypeOK`, `SpecExclusive`, `SpecImplementsLock`, `SpecWaitersAccounted`,
`SpecSemaphoreExists`, `SpecOneSemaphore`, `SpecSemaphoreExact`, `SpecNoLostWakeup`.  `Exclusive` is not inductive: `IInv`
adds that a lock word which names a thread names one that holds the lock
(`HolderNamed`), that a free lock has no recursion left (`FreeLock`) and how
deep a thread is nested at each program point (`Nesting`).  `OneSemaphore` is
inductive by itself: the handles that exist are the one in place and those of the
threads that have not reached the compare-exchange yet.  The waiter equation
is proved on top with one lemma about moving a thread in or out of a set and
its cardinality.  `SpecNoLostWakeup` is the counterpart of the finding: without
store buffers the code is right, for any number of threads.

**Thread barrier** (`ThreadBarrierProofs`), from `BarrierAssumption` (a finite,
non-empty set of threads): `SpecTypeOK`, `SpecArriveAssertion`,
`SpecCountExact`, `SpecAllArrived`, `SpecRoundsExact`, `SpecNoStaleEvent`,
`SpecImplementsBarrier`.  `CountExact` alone is not inductive, because the
critical section spans two calls: `LockerInside` says who is inside,
`ZeroForLast` that the count is zero exactly while the last thread is inside,
and `ReleasedInside` where released threads can be.  One lemma per kind of step
says what it does to the set of arrived threads; both the invariant and the
refinement use them.

**Handler thread** (`HandlerThreadProofs`), from `SubsetAssumption` (waiters are
clients, handlers given before `Open()` are distinct) and `PartsAssumption` (a
message is in one batch at most): `SpecNoLostMessage`, `SpecNoMissedStop`,
`SpecWaiterSignalled`, `SpecTypeOK`, `SpecHandlersPaired`, `SpecImplementsPort`, for
every kind of loop and any number of clients, messages and handlers.
`NoLostMessage` becomes inductive with the fact that only a thread whose queue
signals its event sleeps (`SleepsOnEvent`).  `NoMissedStop` needs the whole stop
protocol: `StopProtocol` says for each place of the owner in `Open()`/`Close()`
where the thread can be, that a stop request is either pending or has been taken
by a thread on its way out, and that none is left over for the next `Open()`.
`WaiterSignalled` needs that `msgHandled` is clear when a round begins
(`RoundBegins`), and it is a theorem only under the hypothesis that no two
clients wait, which `handlerthread_twowaiters` shows to be necessary for
`WaitReturns`.  `SpecHandlersPaired` has the hypothesis that handlers are attached
before `Open()` and stay: a handler attached late may be closed unopened and a
removed one stays open (see *Hazards* in `PROJECT.json`).
For the refinement of `MessagePort`, `Delivery` says that what has been dequeued
followed by what is queued has no message twice, that all of it was sent and none
of it, nor a part of it, has been shown to a handler.  Every step then is a step
of the port or leaves all it speaks of alone: six lemmas (`QuietStep`, `SendStep`,
`CancelStep`, `DequeueStep`, `DeferredStep`, `HandleStep`) carry both the invariant
and the refinement.

**Frame synchronization** (`FrameSyncProofs`), from `FrameSyncAssumption`:
`SpecTypeOK`, `SpecLockStep`, `SpecDisjointBuffers`, `SpecNoMessageLost`, for any
number of messages, of switches between the modes and any even modulus of the
clock that tells three times apart.  The invariant of the barrier is not proved again: `FrameSyncProofs`
instantiates `ThreadBarrierProofs` and shows that each of its own steps is a step
of the barrier or leaves it alone, so `BP!IInv` holds.  On top of it
`BarrierPlaces` says where in the barrier a thread is at each place of its frame,
`MasterTime` and `SlaveTime` how far apart the clocks are (equal, or one ahead
between flip and the end of the frame, while no round has come out short),
`NoFreeSync` that in free-running mode nobody stays in the barrier but who still
leaves it, and `ArrayEmpty` and `SentOnce` that the flip never overwrites messages
that were not handled.  `Reading` and `Writing` say that references are held within
a frame only and are those the frame count selects: the render thread's as long as
no round has come out early, the main thread's in lock-step mode as long as no
wait has timed out either.  Since the time stands still while both are in their
frames, `DisjointBuffers` follows.

**Resource loading** (`ResourceLoadingProofs`), from `ResourceAssumption` (models,
meshes and textures are different things; finitely many models and users):
`SpecTypeOK`, `SpecCountExact`, `SpecPendingExact`, `SpecImplementsManagedModels`.
`CountExact` and `PendingExact` need each other: a pending resource has a client,
which keeps `Prepare()` from creating it a second time, and a resource without
clients contains nothing (`UnusedEmpty`).  Discarding a model that was the last
user of a part unloads the part; `UnloadedCounted` is the sum it rests on.  Each
step maps to a step of `ManagedModels` or a stutter; letting go of a model that
is not settled maps to the failed assertion there.

**Graphics entities** (`GraphicsEntitiesProofs`), from `EntityAssumption`:
`SpecTypeOK`, `SpecSharedDataHeld`, `SpecRemovedTooEarly`, `SpecClipsInOrder`, for any number of entities, models and clips.  The invariant
follows the messages of each entity from the batch through the queue and the array
to their handler.  `InOrder` says what may come before what in that stream (of one
entity the create message first, nothing behind the discard message but what was
batched when it was removed, clips in order); `Lives` says for each phase of an
entity on either side which messages it has in flight.  From these follow
`ClipsFollow` (the clips started are those before the ones in flight),
`SharedDataHeld` with its use counts, `FinishedStays` (what has failed once stays
in the state that explains it), and that an assertion fails only for what
`RemovedTooEarly` lists.  `RenderPlaces` says that the render thread has handled
its messages wherever a flip may find it.  Models are
the environment here: nothing is assumed about them but the steps of
`ManagedModels`.

**Job system** (`JobSystemProofs`), from the assumptions of `JobSystem` (at least
one worker; every job has a slice; calls are well formed): `SpecTypeOK`,
`SpecCompletionExact`, for any number of workers, jobs, slices and ports and for
every script that keeps `ReuseAssumption`.  That assumption is what the code leaves
to its callers (the assertion in `NotifyStart()`): a job belongs to one port and is
pushed again only after a wait for its last run; the calls of the character and of the
particle system keep it.  The invariant tells the work units of a job apart by their
first slice.  While a job runs, each unit that is not reported yet has one place:
the pushing thread has still to push it, or it is one command of one worker
(`Placed`, `UnitsApart`).  `WorkUnits` shows from the division with its remainder
that the units partition the slices, so the counter is the number of slices of the
units that have a place (`JobExact`); from the counter follows that only the worker
that reports the last unit signals the event (`SignalExact`).  `Reused` and `LastPushed`
relate each job to the calls of its port: a job that is not complete was pushed by
a call that has not been waited for, which is why `NotifyStart()` finds the counter at
zero.  There is one lemma for each kind of step (`QuietKeeps`, `StartKeeps`,
`PushKeeps`, `ProcessKeeps`, `NotifyKeeps`, `SignalKeeps`).  The proof needs nothing of
syncs: they order jobs, they complete none.

What the attempts changed in the models.  Releasing a model in `ManagedModels` may
now lose a set of users and not only one: several models share the placeholder
that goes away under them.  Elements are taken out of arrays where the code
takes them out, at a position (`RemoveAt`), which the provers can follow and
`SelectSeq` is not.  `PartsAssumption` says that no message is in two batches, and
`SubsetAssumption` that a handler is attached once: without them messages would be
delivered twice.  The pushing thread of `JobSystem` has its loop variables instead
of a list of things to do, and `ReuseAssumption` says what the callers of a job
port owe it: a job belongs to one port and is pushed again only after a wait for
its last run, or the assertion in `NotifyStart()` fails.

Only model-checked: all liveness properties (fairness and `ENABLED` are out of the
provers' reach), and `Ordered` of `JobSystem`, which is
a property of the calls made as much as of the code (`jobsystem_sync`): a theorem
needs the discipline that makes a script wait for what its later jobs read.  No recursive definition is
used, so nothing that needs induction over data is claimed.

## Not modelled

* The Xbox 360, Wii and PS3 variants of these classes, and the critical
  section's fallback on the operating system's.
* `SafePriorityQueue`, `SafeFlag`, thread-local storage, thread priorities.
* Starting, stopping and fixing the master time; timers read from other threads.
* What happens to messages when a port is closed with messages in its queue:
  they stay unhandled and the code promises nothing.  A handler attached late
  may be closed unopened (listed as a hazard), a removed one stays open; both
  trip assertions of `Handler`.
* Polling whether jobs are done (`TPJobPort::CheckDone()`); set-up and discarding
  of the job pool, the lifetime of job objects (a worker
  may hold a sync on a job that has been released; a worker that is stopped
  with commands pending asserts), pushes from two threads, units of 65536 slices
  and more (their number is truncated to 16 bits).
* `PoolResourceMapper`, unmanaged resources, resources that have no placeholder,
  cancelling of loads (`SimpleResourceMapper` never cancels one), what becomes
  of meshes and textures whose placeholder is unloaded (it matters to drawing
  only), model files with a bad header (`StreamModelLoader` ends the program on
  one, `n_error()`), empty files (`OnReadStream()` asserts that there are none).
* Graphics entities other than model entities, views, stages that are discarded,
  a stage no view shows (its entities are not updated), animation resources; the
  assertion that the model of an animated entity has a character, which a
  placeholder may not have (`internalmodelentityhandler.cc:134`); what happens after
  the main thread has flipped the queue under the render thread's hands.
* `GraphicsHandler::WaitForPendingResources()` (`graphicshandler.cc:75`): it may
  return before messages sent earlier have created their entities, and in
  lock-step mode the render thread would wait for the caller at the sync point.
* IO streams, HTTP, sockets, containers, memory, mathematics, the application
  layer, drawing, add-ons, tools and third-party code: see the components in
  `PROJECT.json` for the reason of each.

## Plan

1. *Done:* lock, ports, barrier, frame synchronization, job system, shared data
   and graphics entities, resource loading; the abstract `RecursiveLock`,
   `MessagePort`, `Barrier` and `ManagedModels`, each with its refinement proved;
   every invariant the runs check proved.
2. *Prove:* `Ordered` of `JobSystem` under a discipline on scripts.
3. *Later:* the life cycle of jobs and of the pool (release of chained jobs,
   `Discard()` with commands pending); entity life cycle and state machines of
   the application layer.
