----------------------------- MODULE JobSystem -----------------------------
(***************************************************************************)
(* The thread-pool job system of the Win32 build: Jobs::TPJobPort,         *)
(* TPJobThreadPool, TPWorkerThread and TPJob.  One thread pushes jobs on   *)
(* its ports ("FIXME: class is currently not thread-safe!"); the pool cuts *)
(* each job into work units for the workers; a worker handles its commands *)
(* in the order in which they were pushed.                                 *)
(*                                                                         *)
(* What the pushing thread does on each port is given by a script of the   *)
(* calls it makes; the calls on different ports interleave.  A worker's    *)
(* queue is a SafeQueue, and by NoLostMessage of module HandlerThread its  *)
(* Wait() returns whenever the queue has a command.  The completion event  *)
(* of a job is a manual-reset event.                                       *)
(***************************************************************************)
EXTENDS Integers, FiniteSets, SequencesExt

CONSTANTS
    NumWorkerThreads,
    Jobs,
    NumSlices,      \* job -> number of slices of its input buffer
    Ports,
    Script          \* port -> sequence of the calls made on it

NoJob == "none"

Pushes(p, i) ==
    IF Script[p][i].call \in {"PushJob", "PushJobChain"} THEN Range(Script[p][i].jobs) ELSE {}

(* Call n on port p waits for what call i has pushed, and j is the last.   *)
WaitsFor(p, n, i, j) ==
    /\ Script[p][n].call = "WaitDone"
    /\ \A k \in (i + 1) .. (n - 1) : Pushes(p, k) = {}
    /\ j = Script[p][i].jobs[Len(Script[p][i].jobs)]

ASSUME NumAssumption == NumWorkerThreads \in Nat \ {0}
ASSUME JobsAssumption == NoJob \notin Jobs
ASSUME SlicesAssumption == NumSlices \in [Jobs -> Nat \ {0}]
ASSUME ScriptAssumption ==
    /\ Script \in [Ports -> Seq([call : {"PushJob", "PushJobChain", "PushSync", "WaitDone"},
                                 jobs : Seq(Jobs)])]
    /\ \A p \in Ports : \A i \in DOMAIN Script[p] :
           /\ Script[p][i].call = "PushJob" => Len(Script[p][i].jobs) = 1
           /\ Script[p][i].call = "PushJobChain" => Script[p][i].jobs # <<>>
           /\ IsInjective(Script[p][i].jobs)
(* What NotifyStart() asserts is up to the callers: a job belongs to one   *)
(* port and is pushed again only after a wait for its last run.            *)
ASSUME ReuseAssumption ==
    \A p, q \in Ports : \A i \in DOMAIN Script[p], k \in DOMAIN Script[q] :
        \A j \in Pushes(p, i) \cap Pushes(q, k) :
            /\ p = q
            /\ i < k => \E n \in (i + 1) .. (k - 1) : WaitsFor(p, n, i, j)

Workers == 0 .. (NumWorkerThreads - 1)
Slices(j) == 0 .. (NumSlices[j] - 1)

VARIABLES
    jobQueue,           \* commands pushed to each worker
    curCommands,        \* commands each worker has dequeued
    signalling,         \* per worker: a job whose event it is about to signal
    completionCounter,
    completionEvent,
    nextThreadIndex,
    lastPushedJob,      \* per port
    pushing,            \* what the pushing thread does next
    curJob,             \* the job it starts, pushes or syncs with
    chain,              \* the jobs of its call that come after it
    threadIndex,        \* the worker at which each job of a chain begins
    index,              \* the next work unit or worker in its loop
    position,           \* the next call on each port
    runs,               \* history: how often each slice ran since NotifyStart()
    pushed,             \* history: per port, the jobs pushed so far
    synced,             \* history: per port, the jobs pushed before its last sync
    requires            \* history: per job, the jobs it has to come after

workerVars == <<curCommands, signalling>>
pusherVars == <<pushing, curJob, chain, threadIndex, index>>
portVars == <<lastPushedJob, position, pushed, synced, requires>>
jobVars == <<completionCounter, completionEvent>>
vars == <<jobQueue, workerVars, jobVars, nextThreadIndex, pusherVars, portVars, runs>>

Run(j, first, num) == [code |-> "Run", job |-> j, first |-> first, num |-> num, done |-> 0]
Sync(j) == [code |-> "Sync", job |-> j]
InvalidIndex == -1

Commands ==
    [code : {"Run"}, job : Jobs, first : Workers, num : Nat \ {0}, done : Nat]
        \cup [code : {"Sync"}, job : Jobs]

TypeOK ==
    /\ jobQueue \in [Workers -> Seq(Commands)] /\ curCommands \in [Workers -> Seq(Commands)]
    /\ signalling \in [Workers -> Jobs \cup {NoJob}]
    /\ completionCounter \in [Jobs -> Nat] /\ completionEvent \in [Jobs -> BOOLEAN]
    /\ \A j \in Jobs : completionCounter[j] <= NumSlices[j]
    /\ nextThreadIndex \in Workers /\ index \in Workers
    /\ threadIndex \in Workers \cup {InvalidIndex}
    /\ lastPushedJob \in [Ports -> Jobs \cup {NoJob}]
    /\ pushing \in {"idle", "sync", "start", "push"}
    /\ pushing # "idle" => curJob \in Jobs
    /\ chain \in Seq(Jobs)
    /\ position \in [Ports -> Nat] /\ \A p \in Ports : position[p] \in 1 .. (Len(Script[p]) + 1)

Init ==
    /\ jobQueue = [w \in Workers |-> <<>>]
    /\ curCommands = [w \in Workers |-> <<>>]
    /\ signalling = [w \in Workers |-> NoJob]
    /\ completionCounter = [j \in Jobs |-> 0]
    /\ completionEvent = [j \in Jobs |-> FALSE]
    /\ nextThreadIndex = 0
    /\ lastPushedJob = [p \in Ports |-> NoJob]
    /\ pushing = "idle" /\ curJob = NoJob /\ chain = <<>>
    /\ threadIndex = InvalidIndex /\ index = 0
    /\ position = [p \in Ports |-> 1]
    /\ runs = [j \in Jobs |-> [s \in Slices(j) |-> 0]]
    /\ pushed = [p \in Ports |-> {}] /\ synced = [p \in Ports |-> {}]
    /\ requires = [j \in Jobs |-> {}]

-----------------------------------------------------------------------------
(* numWorkUnitSlices: the first units take the remainder.                  *)
NumWorkUnitSlices(j, i) ==
    NumSlices[j] \div NumWorkerThreads + (IF i < NumSlices[j] % NumWorkerThreads THEN 1 ELSE 0)

(* The slices of a work unit are NumWorkerThreads apart; done of them have *)
(* been processed.                                                         *)
From(first, done, num) == {first + k * NumWorkerThreads : k \in done .. (num - 1)}

WorkUnit(j, i) == From(i, 0, NumWorkUnitSlices(j, i))

-----------------------------------------------------------------------------
(* The pushing thread: TPJobPort and TPJobThreadPool.                      *)
NextCall(p, call) ==
    /\ pushing = "idle"
    /\ position[p] <= Len(Script[p]) /\ Script[p][position[p]].call = call
    /\ position' = [position EXCEPT ![p] = @ + 1]

PushJob(p) ==
    /\ NextCall(p, "PushJob")
    /\ LET j == Script[p][position[p]].jobs[1]
       IN /\ lastPushedJob' = [lastPushedJob EXCEPT ![p] = j]
          /\ pushing' = "start" /\ curJob' = j /\ threadIndex' = InvalidIndex
          /\ pushed' = [pushed EXCEPT ![p] = @ \cup {j}]
          /\ requires' = [requires EXCEPT ![j] = synced[p] \ {j}]
    /\ UNCHANGED <<jobQueue, workerVars, jobVars, nextThreadIndex, chain, index, synced, runs>>

PushJobChain(p) ==
    /\ NextCall(p, "PushJobChain")
    /\ LET jobs == Script[p][position[p]].jobs
       IN /\ lastPushedJob' = [lastPushedJob EXCEPT ![p] = jobs[Len(jobs)]]
          /\ pushing' = "start" /\ curJob' = Head(jobs) /\ chain' = Tail(jobs)
          /\ threadIndex' = nextThreadIndex
          /\ pushed' = [pushed EXCEPT ![p] = @ \cup Range(jobs)]
          /\ requires' = [j \in Jobs |->
                 IF j \in Range(jobs)
                 THEN synced[p] \cup {jobs[i] : i \in {k \in DOMAIN jobs :
                          \E n \in DOMAIN jobs : jobs[n] = j /\ k < n}}
                 ELSE requires[j]]
    /\ UNCHANGED <<jobQueue, workerVars, jobVars, nextThreadIndex, index, synced, runs>>

(* TPJobPort::PushSync() syncs with the job that was pushed last, if any.  *)
PushSync(p) ==
    /\ NextCall(p, "PushSync")
    /\ IF lastPushedJob[p] = NoJob
       THEN UNCHANGED <<pushing, curJob>>
       ELSE pushing' = "sync" /\ curJob' = lastPushedJob[p]
    /\ synced' = [synced EXCEPT ![p] = pushed[p]]
    /\ UNCHANGED <<jobQueue, workerVars, jobVars, nextThreadIndex, chain, threadIndex, index,
                   lastPushedJob, pushed, requires, runs>>

(* WaitDone() returns.  (CheckDone() looks at the same event and changes   *)
(* nothing.)                                                               *)
WaitDone(p) ==
    /\ NextCall(p, "WaitDone")
    /\ lastPushedJob[p] # NoJob /\ completionEvent[lastPushedJob[p]]
    /\ UNCHANGED <<jobQueue, workerVars, jobVars, nextThreadIndex, pusherVars, lastPushedJob,
                   pushed, synced, requires, runs>>

\* Mutant: the chain syncs with the job it pushes next.
SyncWithNext ==
    /\ pushing = "sync"
    /\ jobQueue' = [jobQueue EXCEPT ![index] =
           Append(@, Sync(IF chain = <<>> THEN curJob ELSE Head(chain)))]
    /\ IF index + 1 \in Workers
       THEN index' = index + 1 /\ UNCHANGED <<pushing, curJob, chain>>
       ELSE /\ index' = 0
            /\ IF chain = <<>>
               THEN pushing' = "idle" /\ UNCHANGED <<curJob, chain>>
               ELSE pushing' = "start" /\ curJob' = Head(chain) /\ chain' = Tail(chain)
    /\ UNCHANGED <<workerVars, jobVars, nextThreadIndex, threadIndex, portVars, runs>>

(* TPJobThreadPool::PushSync(), one worker after the other; in a chain the *)
(* next job follows.                                                       *)
PushSyncCommand ==
    /\ pushing = "sync"
    /\ jobQueue' = [jobQueue EXCEPT ![index] = Append(@, Sync(curJob))]
    /\ IF index + 1 \in Workers
       THEN index' = index + 1 /\ UNCHANGED <<pushing, curJob, chain>>
       ELSE /\ index' = 0
            /\ IF chain = <<>>
               THEN pushing' = "idle" /\ UNCHANGED <<curJob, chain>>
               ELSE pushing' = "start" /\ curJob' = Head(chain) /\ chain' = Tail(chain)
    /\ UNCHANGED <<workerVars, jobVars, nextThreadIndex, threadIndex, portVars, runs>>

\* Mutant: NotifyStart() does not set the counter.
KeepCounter ==
    /\ pushing = "start" /\ pushing' = "push"
    /\ completionEvent' = [completionEvent EXCEPT ![curJob] = FALSE]
    /\ runs' = [runs EXCEPT ![curJob] = [s \in Slices(curJob) |-> 0]]
    /\ nextThreadIndex' = IF threadIndex = InvalidIndex THEN nextThreadIndex ELSE threadIndex
    /\ UNCHANGED <<jobQueue, workerVars, completionCounter, curJob, chain, threadIndex, index,
                   portVars>>

\* Mutant: NotifyStart() does not reset the event of the run before.
KeepEvent ==
    /\ pushing = "start" /\ pushing' = "push"
    /\ completionCounter' = [completionCounter EXCEPT ![curJob] = NumSlices[curJob]]
    /\ runs' = [runs EXCEPT ![curJob] = [s \in Slices(curJob) |-> 0]]
    /\ nextThreadIndex' = IF threadIndex = InvalidIndex THEN nextThreadIndex ELSE threadIndex
    /\ UNCHANGED <<jobQueue, workerVars, completionEvent, curJob, chain, threadIndex, index,
                   portVars>>

(* TPJob::NotifyStart(); PushJobSlices() then begins at its threadIndex.   *)
(* Exchange() and Reset() are one step: no worker has slices of the job    *)
(* between them, so none reads the counter, and who finds the event set    *)
(* finds it as it was before.                                              *)
StartJob ==
    /\ pushing = "start" /\ pushing' = "push"
    /\ completionCounter' = [completionCounter EXCEPT ![curJob] = NumSlices[curJob]]
    /\ completionEvent' = [completionEvent EXCEPT ![curJob] = FALSE]
    /\ runs' = [runs EXCEPT ![curJob] = [s \in Slices(curJob) |-> 0]]
    /\ nextThreadIndex' = IF threadIndex = InvalidIndex THEN nextThreadIndex ELSE threadIndex
    /\ UNCHANGED <<jobQueue, workerVars, curJob, chain, threadIndex, index, portVars>>

(* PushJobSlices(): the work units that have slices go to one worker after *)
(* the other; in a chain a sync with the job follows.                      *)
PushWorkUnit ==
    /\ pushing = "push"
    /\ jobQueue' = [jobQueue EXCEPT ![nextThreadIndex] =
           Append(@, Run(curJob, index, NumWorkUnitSlices(curJob, index)))]
    /\ nextThreadIndex' = (nextThreadIndex + 1) % NumWorkerThreads
    /\ IF index + 1 \in Workers /\ NumWorkUnitSlices(curJob, index + 1) > 0
       THEN index' = index + 1 /\ UNCHANGED pushing
       ELSE index' = 0 /\ pushing' = IF chain = <<>> THEN "idle" ELSE "sync"
    /\ UNCHANGED <<workerVars, jobVars, curJob, chain, threadIndex, portVars, runs>>

-----------------------------------------------------------------------------
(* The workers: TPWorkerThread::DoWork().                                  *)
DequeueAll(w) ==
    /\ curCommands[w] = <<>> /\ signalling[w] = NoJob /\ jobQueue[w] # <<>>
    /\ curCommands' = [curCommands EXCEPT ![w] = jobQueue[w]]
    /\ jobQueue' = [jobQueue EXCEPT ![w] = <<>>]
    /\ UNCHANGED <<signalling, jobVars, nextThreadIndex, pusherVars, portVars, runs>>

Current(w, code) ==
    curCommands[w] # <<>> /\ signalling[w] = NoJob /\ Head(curCommands[w]).code = code

(* ProcessJobSlices(): one slice after the other ...                       *)
ProcessSlice(w) ==
    /\ Current(w, "Run")
    /\ LET c == Head(curCommands[w])
       IN /\ c.done < c.num
          /\ runs' = [runs EXCEPT ![c.job][c.first + c.done * NumWorkerThreads] = @ + 1]
          /\ curCommands' = [curCommands EXCEPT ![w][1].done = @ + 1]
    /\ UNCHANGED <<jobQueue, signalling, jobVars, nextThreadIndex, pusherVars, portVars>>

(* ... then NotifySlicesComplete(): Interlocked::Add() returns the previous*)
(* value, so the unit that brings the counter to zero signals the event.   *)
NotifySlicesComplete(w) ==
    /\ Current(w, "Run")
    /\ LET c == Head(curCommands[w])
       IN /\ c.done = c.num
          /\ completionCounter' = [completionCounter EXCEPT ![c.job] = @ - c.num]
          /\ signalling' = [signalling EXCEPT ![w] =
                 IF completionCounter[c.job] = c.num THEN c.job ELSE NoJob]
    /\ curCommands' = [curCommands EXCEPT ![w] = Tail(@)]
    /\ UNCHANGED <<jobQueue, completionEvent, nextThreadIndex, pusherVars, portVars, runs>>

SignalCompletion(w) ==
    /\ signalling[w] # NoJob
    /\ completionEvent' = [completionEvent EXCEPT ![signalling[w]] = TRUE]
    /\ signalling' = [signalling EXCEPT ![w] = NoJob]
    /\ UNCHANGED <<jobQueue, curCommands, completionCounter, nextThreadIndex, pusherVars,
                   portVars, runs>>

\* Mutant: a sync command does not wait.
SkipSync(w) ==
    /\ Current(w, "Sync")
    /\ curCommands' = [curCommands EXCEPT ![w] = Tail(@)]
    /\ UNCHANGED <<jobQueue, signalling, jobVars, nextThreadIndex, pusherVars, portVars, runs>>

(* A sync command waits for the completion event of its job.               *)
WaitSync(w) ==
    /\ Current(w, "Sync") /\ completionEvent[Head(curCommands[w]).job]
    /\ curCommands' = [curCommands EXCEPT ![w] = Tail(@)]
    /\ UNCHANGED <<jobQueue, signalling, jobVars, nextThreadIndex, pusherVars, portVars, runs>>

-----------------------------------------------------------------------------
WorkerStep(w) ==
    \/ DequeueAll(w) \/ ProcessSlice(w) \/ NotifySlicesComplete(w)
    \/ SignalCompletion(w) \/ WaitSync(w)

PusherStep ==
    \/ StartJob \/ PushWorkUnit \/ PushSyncCommand
    \/ \E p \in Ports : PushJob(p) \/ PushJobChain(p) \/ PushSync(p) \/ WaitDone(p)

Next == PusherStep \/ \E w \in Workers : WorkerStep(w)

Spec == Init /\ [][Next]_vars

(* The scheduler runs every worker that can run, and the pushing thread.   *)
Fairness == WF_vars(PusherStep) /\ \A w \in Workers : WF_vars(WorkerStep(w))

FairSpec == Spec /\ Fairness

-----------------------------------------------------------------------------
(* Properties                                                              *)

Done(j) == \A s \in Slices(j) : runs[j][s] = 1

(* n_assert(0 == this->completionCounter) in NotifyStart(): a job is not   *)
(* started again while a worker has still to report some of its slices.    *)
StartAssertion == pushing = "start" => completionCounter[curJob] = 0

(* completionCounter is the number of slices in the work units that are    *)
(* still to be reported, wherever they are: not yet pushed, in a queue, or *)
(* with a worker.                                                          *)
Units(w, j) ==
    {c \in Range(curCommands[w]) \cup Range(jobQueue[w]) : c.code = "Run" /\ c.job = j}

Unpushed(j) ==
    UNION {WorkUnit(j, i) : i \in {k \in Workers : pushing = "push" /\ curJob = j /\ index <= k}}

Unreported(j) ==
    Unpushed(j) \cup
    UNION {UNION {From(c.first, 0, c.num) : c \in Units(w, j)} : w \in Workers}

CounterExact == \A j \in Jobs : completionCounter[j] = Cardinality(Unreported(j))

(* The completion event of a job says that each of its slices has run, and *)
(* none twice.                                                             *)
EventMeansDone == \A j \in Jobs : completionEvent[j] => Done(j)

(* Completion is reported neither early nor late, over several frames.     *)
CompletionExact == StartAssertion /\ CounterExact /\ EventMeansDone

(* "push a job chain, each job in the chain depends on previous job" and   *)
(* "push a sync command (waits for completion of all previous jobs on this *)
(* port)": when a slice runs, the jobs it has to come after are done.      *)
Ordered ==
    [][\A j \in Jobs : \A s \in Slices(j) :
           runs'[j][s] > runs[j][s] => \A d \in requires[j] : Done(d)]_vars

(* No worker waits for ever: every job that is waited for completes, so    *)
(* each WaitDone() returns and every port comes to the end of its script.  *)
ScriptsEnd == <>(\A p \in Ports : position[p] > Len(Script[p]))
=============================================================================
