-------------------------- MODULE JobSystemProofs --------------------------
(***************************************************************************)
(* Completion is reported exactly (CompletionExact) for any number of      *)
(* workers, jobs, slices and ports and for every script of calls in which  *)
(* a job is pushed again only after a wait for its last run.               *)
(*                                                                         *)
(* The work units of a job are told apart by their first slice.  While a   *)
(* job runs, each unit that is not reported yet has one place: the pushing *)
(* thread has still to push it (Ahead), or it is one command of one worker *)
(* (Placed, UnitsApart).  The units partition the slices (WorkUnits), so   *)
(* the counter is the number of slices of the units that have a place, and *)
(* the worker that takes it to zero is the only one to signal the event.   *)
(* That no job is started earlier needs to know, for each port, what its   *)
(* calls so far have pushed and waited for (Reused).                       *)
(***************************************************************************)
EXTENDS JobSystem, SequenceLemmas, FunctionTheorems, FiniteSetTheorems

(* What a worker has to do, in order.                                      *)
Cmds(w) == curCommands[w] \o jobQueue[w]

(* The work units of j that the pushing thread has still to push, and all  *)
(* that are not reported yet.                                              *)
Ahead(j) == {k \in Workers : pushing = "push" /\ curJob = j /\ index <= k}
Held(j) == Ahead(j) \cup {k \in Workers : \E w \in Workers : \E c \in Units(w, j) : c.first = k}

RunsType ==
    /\ DOMAIN runs = Jobs
    /\ \A j \in Jobs : runs[j] \in [Slices(j) -> Nat]

Placed(j) ==
    \A w \in Workers : \A c \in Units(w, j) :
        c.num = NumWorkUnitSlices(j, c.first) /\ c.done <= c.num /\ c.first \notin Ahead(j)

(* Two commands are different units.                                       *)
Apart ==
    {p \in Commands \X Commands :
        p[1].code = "Run" /\ p[2].code = "Run" /\ p[1].job = p[2].job => p[1].first # p[2].first}

UnitsApart ==
    /\ \A w \in Workers : Along(Cmds(w), Apart)
    /\ \A v, w \in Workers, j \in Jobs : v # w =>
           \A c \in Units(v, j), d \in Units(w, j) : c.first # d.first

(* Nothing of an earlier run of j is left.                                 *)
Safe(j) == Held(j) = {} /\ \A w \in Workers : signalling[w] # j

(* The slices of j that have run since it was started.                     *)
RunExact(j) ==
    /\ \A w \in Workers : \A c \in Units(w, j) : \A k \in 0 .. (c.num - 1) :
           runs[j][c.first + k * NumWorkerThreads] = IF k < c.done THEN 1 ELSE 0
    /\ \A s \in Unpushed(j) : runs[j][s] = 0
    /\ ~Safe(j) \/ completionEvent[j] => \A s \in Slices(j) \ Unreported(j) : runs[j][s] = 1

(* The event is set after the last unit was reported, by one worker.       *)
SignalExact(j) ==
    /\ Held(j) # {} => ~completionEvent[j] /\ \A w \in Workers : signalling[w] # j
    /\ \A v, w \in Workers :
           signalling[v] = j => ~completionEvent[j] /\ (signalling[w] = j => v = w)

JobExact(j) ==
    /\ Placed(j) /\ RunExact(j) /\ SignalExact(j)
    /\ completionCounter[j] = Cardinality(Unreported(j))

(* The jobs of the pushing thread's current call that are still to start.  *)
ToStart == Range(chain) \cup (IF pushing = "start" THEN {curJob} ELSE {})

PusherExact ==
    /\ pushing = "idle" => chain = <<>>
    /\ pushing \in {"idle", "start"} => index = 0
    /\ pushing = "push" => NumWorkUnitSlices(curJob, index) > 0
    /\ IsInjective(chain) /\ (pushing # "idle" => curJob \notin Range(chain))
    /\ \A j \in ToStart : Safe(j)
    /\ ToStart # {} => \E p \in Ports : position[p] > 1 /\ ToStart \subseteq Pushes(p, position[p] - 1)

(* The last call of p that pushed j has not been waited for.               *)
Recent(p, j) ==
    \E i \in 1 .. (position[p] - 1) :
        /\ j \in Pushes(p, i)
        /\ \A k \in (i + 1) .. (position[p] - 1) : j \notin Pushes(p, k) /\ ~WaitsFor(p, k, i, j)

LastPushed ==
    \A p \in Ports : \A i \in 1 .. (position[p] - 1) :
        Pushes(p, i) # {} /\ (\A k \in (i + 1) .. (position[p] - 1) : Pushes(p, k) = {}) =>
            lastPushedJob[p] = Script[p][i].jobs[Len(Script[p][i].jobs)]

Reused ==
    \A p \in Ports, j \in Jobs :
        (\E i \in DOMAIN Script[p] : j \in Pushes(p, i)) => Safe(j) \/ Recent(p, j)

JobsInv == TypeOK /\ RunsType /\ UnitsApart /\ \A j \in Jobs : JobExact(j)

IInv == JobsInv /\ PusherExact /\ LastPushed /\ Reused

-----------------------------------------------------------------------------
(* The division of a job into work units.                                  *)
LEMMA DivMod ==
    ASSUME NEW n \in Nat \ {0}, NEW x \in Nat
    PROVE  /\ x \div n \in Nat /\ x % n \in 0 .. (n - 1)
           /\ x = (x % n) + (x \div n) * n
<1>1. x \div n \in Nat /\ x % n \in 0 .. (n - 1)
  OBVIOUS
<1>2. x % n = x - n * (x \div n)
  OBVIOUS
<1>3. PICK q \in Nat : q = x \div n
  BY <1>1
<1>4. n * q = q * n /\ n * q \in Int
  OBVIOUS
<1>5. x = (x % n) + q * n
  BY <1>1, <1>2, <1>3, <1>4
<1> QED
  BY <1>1, <1>3, <1>5

LEMMA TimesMonotone ==
    ASSUME NEW n \in Nat, NEW k \in Int, NEW l \in Int, k <= l
    PROVE  k * n <= l * n
<1>1. (l - k) * n >= 0
  BY SMT
<1>2. (l - k) * n = l * n - k * n
  BY SMT
<1> QED
  BY <1>1, <1>2

(* A slice belongs to one unit.                                            *)
LEMMA Stride ==
    ASSUME NEW n \in Nat \ {0}, NEW i \in 0 .. (n - 1), NEW k \in Int,
           NEW i2 \in 0 .. (n - 1), NEW k2 \in Int, i + k * n = i2 + k2 * n
    PROVE  i = i2 /\ k = k2
<1>0. k * n \in Int /\ k2 * n \in Int
  OBVIOUS
<1>1. ~(k + 1 <= k2)
  <2> SUFFICES ASSUME k + 1 <= k2 PROVE FALSE
    OBVIOUS
  <2>1. (k + 1) * n <= k2 * n
    BY TimesMonotone
  <2>2. (k + 1) * n = k * n + n
    OBVIOUS
  <2> QED
    BY <2>1, <2>2, <1>0
<1>2. ~(k2 + 1 <= k)
  <2> SUFFICES ASSUME k2 + 1 <= k PROVE FALSE
    OBVIOUS
  <2>1. (k2 + 1) * n <= k * n
    BY TimesMonotone
  <2>2. (k2 + 1) * n = k2 * n + n
    OBVIOUS
  <2> QED
    BY <2>1, <2>2, <1>0
<1>3. k = k2
  BY <1>1, <1>2
<1> QED
  BY <1>0, <1>3

(* The first units take the remainder: the work units cover the slices.    *)
UnitSize(n, size, i) == size \div n + (IF i < size % n THEN 1 ELSE 0)

(* The n units of a job of size slices cover them; empty units come last,  *)
(* and the first is not empty.                                             *)
LEMMA UnitsCover ==
    ASSUME NEW n \in Nat \ {0}, NEW size \in Nat
    PROVE  /\ \A i \in 0 .. (n - 1) : UnitSize(n, size, i) \in Nat
           /\ \A i \in 0 .. (n - 1) : \A k \in 0 .. (UnitSize(n, size, i) - 1) :
                  i + k * n \in 0 .. (size - 1)
           /\ \A s \in 0 .. (size - 1) : \E i \in 0 .. (n - 1) :
                  \E k \in 0 .. (UnitSize(n, size, i) - 1) : s = i + k * n
           /\ \A i, l \in 0 .. (n - 1) : i <= l /\ UnitSize(n, size, i) = 0 => UnitSize(n, size, l) = 0
           /\ size > 0 => UnitSize(n, size, 0) > 0
<1>1. PICK q \in Nat, r \in 0 .. (n - 1) : q = size \div n /\ r = size % n /\ size = r + q * n
  BY DivMod
<1>2. \A i : UnitSize(n, size, i) = q + (IF i < r THEN 1 ELSE 0)
  BY <1>1 DEF UnitSize
<1>3. q * n \in Nat
  BY <1>1
<1>4. ASSUME NEW i \in 0 .. (n - 1), NEW k \in 0 .. (UnitSize(n, size, i) - 1)
      PROVE  i + k * n \in 0 .. (size - 1)
  <2>1. k \in Nat /\ k * n \in Nat
    OBVIOUS
  <2>2. CASE i < r
    <3>1. k <= q
      BY <2>2, <1>2, <1>1
    <3>2. k * n <= q * n
      BY <3>1, TimesMonotone
    <3> QED
      BY <3>2, <2>1, <2>2, <1>1, <1>3
  <2>3. CASE ~(i < r)
    <3>1. k + 1 <= q
      BY <2>3, <1>2, <1>1
    <3>2. (k + 1) * n <= q * n
      BY <3>1, TimesMonotone
    <3>3. (k + 1) * n = k * n + n
      BY <2>1
    <3> QED
      BY <3>2, <3>3, <2>1, <2>3, <1>1, <1>3
  <2> QED
    BY <2>2, <2>3
<1>5. ASSUME NEW s \in 0 .. (size - 1)
      PROVE  \E i \in 0 .. (n - 1) : \E k \in 0 .. (UnitSize(n, size, i) - 1) : s = i + k * n
  <2>0. s \in Nat
    OBVIOUS
  <2>1. PICK k \in Nat, i \in 0 .. (n - 1) : s = i + k * n
    <3>1. s \div n \in Nat /\ s % n \in 0 .. (n - 1) /\ s = (s % n) + (s \div n) * n
      BY <2>0, DivMod
    <3> QED
      BY <3>1
  <2>2. k * n \in Nat
    BY <2>1
  <2>3. ~(q + 1 <= k)
    <3> SUFFICES ASSUME q + 1 <= k PROVE FALSE
      OBVIOUS
    <3>1. (q + 1) * n <= k * n
      BY TimesMonotone
    <3>2. (q + 1) * n = q * n + n
      OBVIOUS
    <3> QED
      BY <3>1, <3>2, <2>1, <2>2, <1>1, <1>3
  <2>4. CASE i < r
    <3>1. k \in 0 .. (UnitSize(n, size, i) - 1)
      BY <2>3, <2>4, <1>1, <1>2
    <3> QED
      BY <3>1, <2>1
  <2>5. CASE ~(i < r)
    <3>1. k # q
      BY <2>1, <2>2, <2>5, <1>1, <1>3
    <3>2. k \in 0 .. (UnitSize(n, size, i) - 1)
      BY <3>1, <2>3, <2>5, <1>1, <1>2
    <3> QED
      BY <3>2, <2>1
  <2> QED
    BY <2>4, <2>5
<1>6. \A i \in 0 .. (n - 1) : UnitSize(n, size, i) \in Nat
  BY <1>1, <1>2
<1>7. \A i, l \in 0 .. (n - 1) : i <= l /\ UnitSize(n, size, i) = 0 => UnitSize(n, size, l) = 0
  BY <1>1, <1>2
<1>8. ASSUME size > 0 PROVE UnitSize(n, size, 0) > 0
  <2>1. CASE q = 0
    <3>1. r > 0
      BY <2>1, <1>1, <1>8
    <3> QED
      BY <3>1, <1>2, <1>1
  <2>2. CASE q > 0
    BY <2>2, <1>2, <1>1
  <2> QED
    BY <2>1, <2>2, <1>1
<1> QED
  BY <1>4, <1>5, <1>6, <1>7, <1>8

(* A unit of m slices has m elements: Cardinality is what the code counts. *)
LEMMA FromCounted ==
    ASSUME NEW f \in Int, NEW m \in Nat
    PROVE  IsFiniteSet(From(f, 0, m)) /\ Cardinality(From(f, 0, m)) = m
<1> DEFINE S == 0 .. (m - 1)
           g == [k \in S |-> f + k * NumWorkerThreads]
           T == From(f, 0, m)
<1>1. IsFiniteSet(S) /\ Cardinality(S) = m
  BY FS_Interval
<1>2. g \in [S -> T] /\ \A t \in T : \E k \in S : g[k] = t
  BY DEF From
<1>3. ASSUME NEW k \in S, NEW l \in S, g[k] = g[l] PROVE k = l
  <2>1. 0 + k * NumWorkerThreads = 0 + l * NumWorkerThreads
    BY <1>3, NumAssumption
  <2> QED
    BY <2>1, Stride, NumAssumption
<1>4. g \in Bijection(S, T)
  <2> HIDE DEF g, T, S
  <2> QED
    BY <1>2, <1>3, Fun_IsBij
<1> QED
  BY <1>1, <1>4, FS_Bijection DEF ExistsBijection

(* The work units of a job are a partition of its slices, and the empty    *)
(* ones come last.                                                         *)
LEMMA WorkUnits ==
    ASSUME NEW j \in Jobs
    PROVE  /\ 0 \in Workers
           /\ \A i \in Workers :
                 /\ NumWorkUnitSlices(j, i) \in Nat /\ WorkUnit(j, i) \subseteq Slices(j)
                 /\ IsFiniteSet(WorkUnit(j, i))
                 /\ Cardinality(WorkUnit(j, i)) = NumWorkUnitSlices(j, i)
           /\ \A i, k \in Workers : i # k => WorkUnit(j, i) \cap WorkUnit(j, k) = {}
           /\ Slices(j) = UNION {WorkUnit(j, i) : i \in Workers}
           /\ \A i, k \in Workers :
                 i <= k /\ NumWorkUnitSlices(j, i) = 0 => NumWorkUnitSlices(j, k) = 0
           /\ NumWorkUnitSlices(j, 0) > 0
           /\ IsFiniteSet(Slices(j)) /\ Cardinality(Slices(j)) = NumSlices[j]
<1>0. /\ NumWorkerThreads \in Nat \ {0} /\ NumSlices[j] \in Nat \ {0}
      /\ Workers = 0 .. (NumWorkerThreads - 1) /\ Slices(j) = 0 .. (NumSlices[j] - 1)
  BY NumAssumption, SlicesAssumption DEF Workers, Slices
<1>1. \A i : NumWorkUnitSlices(j, i) = UnitSize(NumWorkerThreads, NumSlices[j], i)
  BY DEF NumWorkUnitSlices, UnitSize
<1> DEFINE size(i) == NumWorkUnitSlices(j, i)
<1>2. /\ \A i \in Workers : size(i) \in Nat
      /\ \A i \in Workers : \A k \in 0 .. (size(i) - 1) : i + k * NumWorkerThreads \in Slices(j)
      /\ \A s \in Slices(j) : \E i \in Workers : \E k \in 0 .. (size(i) - 1) :
             s = i + k * NumWorkerThreads
      /\ \A i, l \in Workers : i <= l /\ size(i) = 0 => size(l) = 0
      /\ size(0) > 0
  <2> DEFINE u(i) == UnitSize(NumWorkerThreads, NumSlices[j], i)
  <2>1. NumSlices[j] \in Nat
    BY <1>0
  <2>2. /\ \A i \in 0 .. (NumWorkerThreads - 1) : u(i) \in Nat
        /\ \A i \in 0 .. (NumWorkerThreads - 1) : \A k \in 0 .. (u(i) - 1) :
               i + k * NumWorkerThreads \in 0 .. (NumSlices[j] - 1)
        /\ \A s \in 0 .. (NumSlices[j] - 1) : \E i \in 0 .. (NumWorkerThreads - 1) :
               \E k \in 0 .. (u(i) - 1) : s = i + k * NumWorkerThreads
        /\ \A i, l \in 0 .. (NumWorkerThreads - 1) : i <= l /\ u(i) = 0 => u(l) = 0
        /\ NumSlices[j] > 0 => u(0) > 0
    BY <1>0, <2>1, UnitsCover
  <2>3. \A i : size(i) = u(i)
    BY <1>1
  <2>4. NumSlices[j] > 0
    BY <1>0
  <2> HIDE DEF u, size
  <2> QED
    BY <2>2, <2>3, <2>4, <1>0
<1>3. \A i : WorkUnit(j, i) = {i + k * NumWorkerThreads : k \in 0 .. (size(i) - 1)}
  BY DEF WorkUnit, From
<1>4. ASSUME NEW i \in Workers
      PROVE  IsFiniteSet(WorkUnit(j, i)) /\ Cardinality(WorkUnit(j, i)) = size(i)
  <2>1. i \in Int /\ size(i) \in Nat
    BY <1>0, <1>2
  <2> QED
    BY <2>1, FromCounted DEF WorkUnit
<1>5. ASSUME NEW i \in Workers, NEW k \in Workers, i # k
      PROVE  WorkUnit(j, i) \cap WorkUnit(j, k) = {}
  <2> SUFFICES ASSUME NEW s \in WorkUnit(j, i), s \in WorkUnit(j, k) PROVE FALSE
    OBVIOUS
  <2>1. PICK a \in 0 .. (size(i) - 1) : s = i + a * NumWorkerThreads
    BY <1>3
  <2>2. PICK b \in 0 .. (size(k) - 1) : s = k + b * NumWorkerThreads
    BY <1>3
  <2>3. i \in 0 .. (NumWorkerThreads - 1) /\ k \in 0 .. (NumWorkerThreads - 1)
    BY <1>0
  <2>4. a \in Int /\ b \in Int
    OBVIOUS
  <2>5. i = k
    BY <2>1, <2>2, <2>3, <2>4, NumAssumption, Stride
  <2> QED
    BY <2>5, <1>5
<1>6. IsFiniteSet(Slices(j)) /\ Cardinality(Slices(j)) = NumSlices[j]
  <2>1. PICK m \in Nat \ {0} : NumSlices[j] = m
    BY <1>0
  <2>2. IsFiniteSet(0 .. (m - 1)) /\ Cardinality(0 .. (m - 1)) = m
    BY FS_Interval
  <2> QED
    BY <2>1, <2>2, <1>0
<1>7. Slices(j) = UNION {WorkUnit(j, i) : i \in Workers}
  BY <1>2, <1>3
<1>8. \A i \in Workers : WorkUnit(j, i) \subseteq Slices(j)
  BY <1>2, <1>3
<1> QED
  BY <1>0, <1>2, <1>4, <1>5, <1>6, <1>7, <1>8

-----------------------------------------------------------------------------
(* What a step does to the commands of a worker.                           *)
QueueTypes ==
    jobQueue \in [Workers -> Seq(Commands)] /\ curCommands \in [Workers -> Seq(Commands)]

(* The commands of a worker are those dequeued and those queued.           *)
LEMMA CmdsTypes ==
    ASSUME QueueTypes, NEW w \in Workers
    PROVE  /\ Cmds(w) \in Seq(Commands) /\ Range(Cmds(w)) \subseteq Commands
           /\ Range(Cmds(w)) = Range(curCommands[w]) \cup Range(jobQueue[w])
<1>1. curCommands[w] \in Seq(Commands) /\ jobQueue[w] \in Seq(Commands)
  BY DEF QueueTypes
<1> QED
  BY <1>1, ConcatElements, ElementsOfSeq DEF Cmds

LEMMA UnitsTypes ==
    ASSUME QueueTypes, NEW w \in Workers, NEW j \in Jobs
    PROVE  /\ Units(w, j) = {c \in Range(Cmds(w)) : c.code = "Run" /\ c.job = j}
           /\ \A c \in Units(w, j) :
                 /\ c \in Commands /\ c.code = "Run" /\ c.job = j /\ c.first \in Workers
                 /\ c.num \in Nat \ {0} /\ c.done \in Nat
<1>1. Units(w, j) = {c \in Range(Cmds(w)) : c.code = "Run" /\ c.job = j}
  BY CmdsTypes DEF Units
<1>2. ASSUME NEW c \in Commands, c.code = "Run"
      PROVE  c.first \in Workers /\ c.num \in Nat \ {0} /\ c.done \in Nat
  BY <1>2 DEF Commands
<1> QED
  BY <1>1, <1>2, CmdsTypes

LEMMA UnitsTypesAfter ==
    ASSUME QueueTypes', NEW w \in Workers, NEW j \in Jobs
    PROVE  /\ Cmds(w)' \in Seq(Commands)
           /\ Units(w, j)' = {c \in Range(Cmds(w)') : c.code = "Run" /\ c.job = j}
<1>1. curCommands'[w] \in Seq(Commands) /\ jobQueue'[w] \in Seq(Commands)
  BY DEF QueueTypes
<1>2. /\ Cmds(w)' \in Seq(Commands)
      /\ Range(Cmds(w)') = Range(curCommands'[w]) \cup Range(jobQueue'[w])
  BY <1>1, ConcatElements DEF Cmds
<1> QED
  BY <1>2 DEF Units

OthersKept(w) == \A v \in Workers \ {w} : Cmds(v)' = Cmds(v)
Kept == \A v \in Workers : Cmds(v)' = Cmds(v)
Added(w, c) == Cmds(w)' = Append(Cmds(w), c) /\ OthersKept(w)
Dropped(w) == Cmds(w)' = Tail(Cmds(w)) /\ OthersKept(w)
Advanced(w, c) == Cmds(w)' = <<c>> \o Tail(Cmds(w)) /\ OthersKept(w)

(* Dequeuing moves the queue behind the current commands and leaves their  *)
(* order alone.                                                            *)
LEMMA KeepCmds ==
    ASSUME QueueTypes, UNCHANGED <<jobQueue, curCommands>> \/ \E w \in Workers : DequeueAll(w)
    PROVE  Kept /\ QueueTypes'
<1>1. CASE UNCHANGED <<jobQueue, curCommands>>
  BY <1>1 DEF Kept, Cmds, QueueTypes
<1>2. ASSUME NEW w \in Workers, DequeueAll(w) PROVE Kept /\ QueueTypes'
  <2>1. QueueTypes'
    BY <1>2 DEF DequeueAll, QueueTypes
  <2>2. ASSUME NEW v \in Workers PROVE Cmds(v)' = Cmds(v)
    <3>1. CASE v = w
      <4>1. /\ curCommands[w] = <<>> /\ curCommands'[w] = jobQueue[w] /\ jobQueue'[w] = <<>>
            /\ jobQueue[w] \in Seq(Commands)
        BY <1>2 DEF DequeueAll, QueueTypes
      <4> QED
        BY <4>1, <3>1, ConcatEmptySeq DEF Cmds
    <3>2. CASE v # w
      BY <3>2, <1>2 DEF DequeueAll, QueueTypes, Cmds
    <3> QED
      BY <3>1, <3>2
  <2> QED
    BY <2>1, <2>2 DEF Kept
<1> QED
  BY <1>1, <1>2

(* Pushing a command appends it to what the worker has to do.              *)
LEMMA AddCmd ==
    ASSUME QueueTypes, NEW w \in Workers, NEW c \in Commands, curCommands' = curCommands,
           jobQueue' = [jobQueue EXCEPT ![w] = Append(@, c)]
    PROVE  Added(w, c) /\ QueueTypes'
<1>1. curCommands[w] \in Seq(Commands) /\ jobQueue[w] \in Seq(Commands)
  BY DEF QueueTypes
<1>2. Append(jobQueue[w], c) \in Seq(Commands)
  BY <1>1, AppendElements
<1>3. QueueTypes'
  BY <1>2 DEF QueueTypes
<1>4. Cmds(w)' = Append(Cmds(w), c)
  BY <1>1, AppendToConcat DEF QueueTypes, Cmds
<1> QED
  BY <1>3, <1>4 DEF Added, OthersKept, Cmds, QueueTypes

(* A worker that is done with a command drops the first of them.           *)
LEMMA DropCmd ==
    ASSUME QueueTypes, NEW w \in Workers, curCommands[w] # <<>>, jobQueue' = jobQueue,
           curCommands' = [curCommands EXCEPT ![w] = Tail(@)]
    PROVE  /\ Dropped(w) /\ QueueTypes'
           /\ Cmds(w) # <<>> /\ Head(Cmds(w)) = Head(curCommands[w])
           /\ Head(curCommands[w]) \in Commands
<1>1. curCommands[w] \in Seq(Commands) /\ jobQueue[w] \in Seq(Commands)
  BY DEF QueueTypes
<1>2. Tail(curCommands[w]) \in Seq(Commands) /\ Head(curCommands[w]) \in Commands
  BY <1>1, TailElements
<1>3. QueueTypes'
  BY <1>2 DEF QueueTypes
<1>4. /\ Cmds(w)' = Tail(Cmds(w))
      /\ Cmds(w) # <<>> /\ Head(Cmds(w)) = Head(curCommands[w])
  BY <1>1, TailOfConcat DEF QueueTypes, Cmds
<1> QED
  BY <1>2, <1>3, <1>4 DEF Dropped, OthersKept, Cmds, QueueTypes

LEMMA ReplaceHead ==
    ASSUME NEW S, NEW s \in Seq(S), s # <<>>, NEW x \in S
    PROVE  [s EXCEPT ![1] = x] = <<x>> \o Tail(s)
<1> DEFINE t == [s EXCEPT ![1] = x]
           u == <<x>> \o Tail(s)
<1>1. Len(s) \in Nat \ {0} /\ DOMAIN s = 1 .. Len(s)
  BY EmptySeq
<1>2. t \in Seq(S) /\ Len(t) = Len(s) /\ t[1] = x /\ \A i \in 2 .. Len(s) : t[i] = s[i]
  BY <1>1
<1>3. /\ Tail(s) \in Seq(S) /\ Len(Tail(s)) = Len(s) - 1
      /\ \A i \in 1 .. (Len(s) - 1) : Tail(s)[i] = s[i + 1]
  BY HeadTailProperties
<1>4. <<x>> \in Seq(S) /\ Len(<<x>>) = 1 /\ <<x>>[1] = x
  OBVIOUS
<1>5. /\ u \in Seq(S) /\ Len(u) = Len(s)
      /\ \A i \in 1 .. Len(s) : u[i] = IF i <= 1 THEN <<x>>[i] ELSE Tail(s)[i - 1]
  BY <1>1, <1>3, <1>4, ConcatProperties
<1> HIDE DEF t, u
<1>6. ASSUME NEW i \in 1 .. Len(s) PROVE t[i] = u[i]
  <2>1. CASE i = 1
    BY <2>1, <1>1, <1>2, <1>4, <1>5
  <2>2. CASE i # 1
    <3>1. i \in 2 .. Len(s) /\ i - 1 \in 1 .. (Len(s) - 1) /\ (i - 1) + 1 = i
      BY <2>2, <1>1
    <3>2. t[i] = s[i] /\ u[i] = Tail(s)[i - 1]
      BY <3>1, <1>2, <1>5
    <3>3. Tail(s)[i - 1] = s[(i - 1) + 1]
      BY <3>1, <1>3
    <3> QED
      BY <3>1, <3>2, <3>3
  <2> QED
    BY <2>1, <2>2
<1>7. t = u
  BY <1>2, <1>5, <1>6, SeqEqual
<1> QED
  BY <1>7 DEF t, u

(* A worker that has run a slice replaces its first command by what is     *)
(* left of it.                                                             *)
LEMMA AdvanceCmd ==
    ASSUME QueueTypes, NEW w \in Workers, NEW c \in Commands, curCommands[w] # <<>>,
           jobQueue' = jobQueue,
           curCommands' = [curCommands EXCEPT ![w] = [curCommands[w] EXCEPT ![1] = c]]
    PROVE  /\ Advanced(w, c) /\ QueueTypes'
           /\ Cmds(w) # <<>> /\ Head(Cmds(w)) = Head(curCommands[w])
<1>1. curCommands[w] \in Seq(Commands) /\ jobQueue[w] \in Seq(Commands)
  BY DEF QueueTypes
<1>2. Tail(curCommands[w]) \in Seq(Commands) /\ <<c>> \in Seq(Commands)
  BY <1>1, TailElements
<1>3. [curCommands[w] EXCEPT ![1] = c] = <<c>> \o Tail(curCommands[w])
  BY <1>1, ReplaceHead
<1>4. <<c>> \o Tail(curCommands[w]) \in Seq(Commands)
  BY <1>2, ConcatProperties
<1>5. QueueTypes'
  BY <1>3, <1>4 DEF QueueTypes
<1>6. /\ Cmds(w) # <<>> /\ Head(Cmds(w)) = Head(curCommands[w])
      /\ Tail(Cmds(w)) = Tail(curCommands[w]) \o jobQueue[w]
  BY <1>1, TailOfConcat DEF Cmds
<1>7. Cmds(w)' = (<<c>> \o Tail(curCommands[w])) \o jobQueue[w]
  BY <1>3 DEF Cmds, QueueTypes
<1>8. Cmds(w)' = <<c>> \o Tail(Cmds(w))
  <2> DEFINE one == <<c>>
             t == Tail(curCommands[w])
             q == jobQueue[w]
  <2>0. one \in Seq(Commands) /\ t \in Seq(Commands) /\ q \in Seq(Commands)
    BY <1>1, <1>2
  <2>1. (one \o t) \o q = one \o (t \o q)
    <3> HIDE DEF one, t, q
    <3> QED
      BY <2>0, ConcatAssociative
  <2> QED
    BY <2>1, <1>6, <1>7
<1> QED
  BY <1>5, <1>6, <1>8 DEF Advanced, OthersKept, Cmds, QueueTypes

-----------------------------------------------------------------------------
(* What that does to the units, which stay apart.                          *)
LEMMA ApartIs ==
    ASSUME NEW c \in Commands, NEW d \in Commands
    PROVE  <<c, d>> \in Apart <=> (c.code = "Run" /\ d.code = "Run" /\ c.job = d.job => c.first # d.first)
BY DEF Apart

LEMMA KeepUnits ==
    ASSUME QueueTypes, QueueTypes', Kept
    PROVE  /\ \A v \in Workers, j \in Jobs : Units(v, j)' = Units(v, j)
           /\ UnitsApart => UnitsApart'
<1>1. ASSUME NEW v \in Workers, NEW j \in Jobs PROVE Units(v, j)' = Units(v, j)
  <2>1. /\ Units(v, j)' = {d \in Range(Cmds(v)') : d.code = "Run" /\ d.job = j}
        /\ Units(v, j) = {d \in Range(Cmds(v)) : d.code = "Run" /\ d.job = j}
    BY UnitsTypes, UnitsTypesAfter
  <2> QED
    BY <2>1 DEF Kept
<1> QED
  BY <1>1 DEF Kept, UnitsApart

(* A unit that no worker has may be pushed.                                *)
LEMMA AddUnit ==
    ASSUME QueueTypes, QueueTypes', UnitsApart, NEW w \in Workers, NEW c \in Commands, Added(w, c),
           c.code = "Run" => \A v \in Workers : \A d \in Units(v, c.job) : d.first # c.first
    PROVE  /\ UnitsApart'
           /\ \A v \in Workers, j \in Jobs :
                 Units(v, j)' = IF v = w /\ c.code = "Run" /\ c.job = j THEN Units(v, j) \cup {c}
                                ELSE Units(v, j)
<1>1. Cmds(w) \in Seq(Commands) /\ Range(Cmds(w)) \subseteq Commands
  BY CmdsTypes
<1>2. /\ Cmds(w)' = Append(Cmds(w), c) /\ Range(Cmds(w)') = Range(Cmds(w)) \cup {c}
      /\ \A v \in Workers \ {w} : Cmds(v)' = Cmds(v)
  BY <1>1, AppendElements DEF Added, OthersKept
<1>3. ASSUME NEW v \in Workers, NEW j \in Jobs
      PROVE  Units(v, j)' = IF v = w /\ c.code = "Run" /\ c.job = j THEN Units(v, j) \cup {c}
                            ELSE Units(v, j)
  <2>1. /\ Units(v, j)' = {d \in Range(Cmds(v)') : d.code = "Run" /\ d.job = j}
        /\ Units(v, j) = {d \in Range(Cmds(v)) : d.code = "Run" /\ d.job = j}
    BY UnitsTypes, UnitsTypesAfter
  <2> QED
    BY <2>1, <1>2
<1>4. ASSUME NEW v \in Workers PROVE Along(Cmds(v)', Apart)
  <2>1. CASE v = w
    <3>1. Cmds(w)' = Cmds(w) \o <<c>>
      BY <1>1, <1>2, AppendIsConcat
    <3>2. <<c>> \in Seq(Commands) /\ Range(<<c>>) = {c} /\ Along(<<c>>, Apart)
      BY SingletonElements
    <3>3. Along(Cmds(w), Apart)
      BY DEF UnitsApart
    <3>4. ASSUME NEW d \in Range(Cmds(w)) PROVE <<d, c>> \in Apart
      <4>1. ASSUME d.code = "Run", c.code = "Run", d.job = c.job PROVE d.first # c.first
        <5>1. c.job \in Jobs
          BY <4>1 DEF Commands
        <5>2. d \in Units(w, c.job)
          BY <4>1, <5>1, UnitsTypes
        <5> QED
          BY <5>2, <4>1
      <4> QED
        BY <4>1, <1>1, ApartIs
    <3>5. Along(Cmds(w) \o <<c>>, Apart)
      BY <1>1, <3>2, <3>3, <3>4, ConcatElements
    <3> QED
      BY <2>1, <3>1, <3>5
  <2>2. CASE v # w
    BY <2>2, <1>2 DEF UnitsApart
  <2> QED
    BY <2>1, <2>2
<1>5. ASSUME NEW u \in Workers, NEW v \in Workers, NEW j \in Jobs, u # v,
             NEW a \in Units(u, j)', NEW b \in Units(v, j)'
      PROVE  a.first # b.first
  <2>1. CASE a \in Units(u, j) /\ b \in Units(v, j)
    BY <2>1, <1>5 DEF UnitsApart
  <2>2. CASE a \notin Units(u, j) \/ b \notin Units(v, j)
    <3>1. /\ c.code = "Run" /\ c.job = j
          /\ \/ a = c /\ b \in Units(v, j)
             \/ b = c /\ a \in Units(u, j)
      BY <2>2, <1>3, <1>5
    <3> QED
      BY <3>1
  <2> QED
    BY <2>1, <2>2
<1>6. UnitsApart'
  BY <1>4, <1>5 DEF UnitsApart
<1> QED
  BY <1>3, <1>6

(* The first command of w, its unit, and the commands behind it.           *)
LEMMA HeadUnit ==
    ASSUME QueueTypes, UnitsApart, NEW w \in Workers, Cmds(w) # <<>>
    PROVE  LET c == Head(Cmds(w))
               rest == Tail(Cmds(w))
           IN  /\ c \in Commands /\ rest \in Seq(Commands) /\ Range(Cmds(w)) = {c} \cup Range(rest)
               /\ Along(rest, Apart) /\ \A d \in Range(rest) : <<c, d>> \in Apart
               /\ \A d \in Range(rest) : d \in Commands
               /\ c.code = "Run" =>
                     /\ c.job \in Jobs /\ c.first \in Workers /\ c \in Units(w, c.job)
                     /\ \A d \in Range(rest) : d.code = "Run" /\ d.job = c.job => d.first # c.first
                     /\ \A v \in Workers : \A d \in Units(v, c.job) : d # c => d.first # c.first
<1> DEFINE c == Head(Cmds(w))
           rest == Tail(Cmds(w))
<1>1. Cmds(w) \in Seq(Commands) /\ Along(Cmds(w), Apart)
  BY CmdsTypes DEF UnitsApart
<1>2. /\ c \in Commands /\ rest \in Seq(Commands) /\ Range(Cmds(w)) = {c} \cup Range(rest)
      /\ Along(rest, Apart) /\ \A d \in Range(rest) : <<c, d>> \in Apart
  BY <1>1, TailElements, AlongTail
<1>3. \A d \in Range(rest) : d \in Commands
  BY <1>2, ElementsOfSeq
<1> HIDE DEF c, rest
<1>4. ASSUME c.code = "Run"
      PROVE  /\ c.job \in Jobs /\ c.first \in Workers /\ c \in Units(w, c.job)
             /\ \A d \in Range(rest) : d.code = "Run" /\ d.job = c.job => d.first # c.first
             /\ \A v \in Workers : \A d \in Units(v, c.job) : d # c => d.first # c.first
  <2>1. c.job \in Jobs /\ c.first \in Workers
    BY <1>2, <1>4 DEF Commands
  <2>2. c \in Units(w, c.job)
    BY <1>2, <1>4, <2>1, UnitsTypes
  <2>3. \A d \in Range(rest) : d.code = "Run" /\ d.job = c.job => d.first # c.first
    BY <1>2, <1>3, <1>4, ApartIs
  <2>4. ASSUME NEW v \in Workers, NEW d \in Units(v, c.job), d # c PROVE d.first # c.first
    <3>1. CASE v = w
      <4>1. d \in Range(rest) /\ d.code = "Run" /\ d.job = c.job
        BY <3>1, <2>4, <2>1, <1>2, UnitsTypes
      <4> QED
        BY <4>1, <2>3
    <3>2. CASE v # w
      BY <3>2, <2>1, <2>2 DEF UnitsApart
    <3> QED
      BY <3>1, <3>2
  <2> QED
    BY <2>1, <2>2, <2>3, <2>4
<1> QED
  BY <1>2, <1>3, <1>4 DEF c, rest

LEMMA DropUnit ==
    ASSUME QueueTypes, QueueTypes', UnitsApart, NEW w \in Workers, Cmds(w) # <<>>, Dropped(w)
    PROVE  /\ UnitsApart'
           /\ \A v \in Workers, j \in Jobs :
                 Units(v, j)' = IF v = w THEN Units(v, j) \ {Head(Cmds(w))} ELSE Units(v, j)
<1> DEFINE c == Head(Cmds(w))
           rest == Tail(Cmds(w))
<1>1. /\ c \in Commands /\ rest \in Seq(Commands) /\ Range(Cmds(w)) = {c} \cup Range(rest)
      /\ Along(rest, Apart)
      /\ c.code = "Run" => \A d \in Range(rest) : d.code = "Run" /\ d.job = c.job => d.first # c.first
  BY HeadUnit
<1>2. Cmds(w)' = rest /\ \A v \in Workers \ {w} : Cmds(v)' = Cmds(v)
  BY DEF Dropped, OthersKept
<1> HIDE DEF c, rest
<1>3. ASSUME NEW v \in Workers, NEW j \in Jobs
      PROVE  Units(v, j)' = IF v = w THEN Units(v, j) \ {c} ELSE Units(v, j)
  <2>1. /\ Units(v, j)' = {d \in Range(Cmds(v)') : d.code = "Run" /\ d.job = j}
        /\ Units(v, j) = {d \in Range(Cmds(v)) : d.code = "Run" /\ d.job = j}
    BY UnitsTypes, UnitsTypesAfter
  <2>2. c.code = "Run" => c \notin Range(rest)
    BY <1>1
  <2> QED
    BY <2>1, <2>2, <1>1, <1>2
<1>4. \A v \in Workers : Along(Cmds(v)', Apart)
  BY <1>1, <1>2 DEF UnitsApart
<1>5. UnitsApart'
  BY <1>3, <1>4 DEF UnitsApart
<1> QED
  BY <1>3, <1>5 DEF c

LEMMA AdvanceUnit ==
    ASSUME QueueTypes, QueueTypes', UnitsApart, NEW w \in Workers, Cmds(w) # <<>>,
           NEW d \in Commands, Advanced(w, d), Head(Cmds(w)).code = "Run",
           d.code = "Run", d.job = Head(Cmds(w)).job, d.first = Head(Cmds(w)).first
    PROVE  /\ UnitsApart'
           /\ \A v \in Workers, j \in Jobs :
                 Units(v, j)' = IF v = w /\ j = d.job THEN (Units(v, j) \ {Head(Cmds(w))}) \cup {d}
                                ELSE Units(v, j)
<1> DEFINE c == Head(Cmds(w))
           rest == Tail(Cmds(w))
<1>1. /\ c \in Commands /\ rest \in Seq(Commands) /\ Range(Cmds(w)) = {c} \cup Range(rest)
      /\ Along(rest, Apart) /\ \A e \in Range(rest) : <<c, e>> \in Apart /\ e \in Commands
      /\ \A e \in Range(rest) : e.code = "Run" /\ e.job = c.job => e.first # c.first
      /\ c.code = "Run" /\ d.job = c.job /\ d.first = c.first
      /\ d.job \in Jobs /\ c \in Units(w, d.job)
  BY HeadUnit
<1>2. Cmds(w)' = <<d>> \o rest /\ \A v \in Workers \ {w} : Cmds(v)' = Cmds(v)
  BY DEF Advanced, OthersKept
<1> HIDE DEF c, rest
<1>3. <<d>> \in Seq(Commands) /\ Range(<<d>>) = {d} /\ Along(<<d>>, Apart)
  BY SingletonElements
<1>4. \A e \in Range(rest) : <<d, e>> \in Apart
  BY <1>1, ApartIs
<1>5. Range(Cmds(w)') = {d} \cup Range(rest) /\ Along(Cmds(w)', Apart)
  <2> DEFINE one == <<d>>
  <2>1. /\ Range(one \o rest) = Range(one) \cup Range(rest)
        /\ (\A x \in Range(one), y \in Range(rest) : <<x, y>> \in Apart) => Along(one \o rest, Apart)
    <3>1. one \in Seq(Commands) /\ Along(one, Apart) /\ rest \in Seq(Commands) /\ Along(rest, Apart)
      BY <1>1, <1>3
    <3> HIDE DEF one
    <3> QED
      BY <3>1, ConcatElements
  <2> QED
    BY <2>1, <1>2, <1>3, <1>4
<1>6. ASSUME NEW v \in Workers, NEW j \in Jobs
      PROVE  Units(v, j)' = IF v = w /\ j = d.job THEN (Units(v, j) \ {c}) \cup {d} ELSE Units(v, j)
  <2>1. /\ Units(v, j)' = {e \in Range(Cmds(v)') : e.code = "Run" /\ e.job = j}
        /\ Units(v, j) = {e \in Range(Cmds(v)) : e.code = "Run" /\ e.job = j}
    BY UnitsTypes, UnitsTypesAfter
  <2>2. c \notin Range(rest)
    BY <1>1
  <2>3. CASE v = w
    BY <2>1, <2>2, <2>3, <1>1, <1>5
  <2>4. CASE v # w
    BY <2>1, <2>4, <1>2
  <2> QED
    BY <2>3, <2>4
<1>7. \A v \in Workers : Along(Cmds(v)', Apart)
  BY <1>2, <1>5 DEF UnitsApart
<1>8. ASSUME NEW u \in Workers, NEW v \in Workers, NEW j \in Jobs, u # v,
             NEW a \in Units(u, j)', NEW b \in Units(v, j)'
      PROVE  a.first # b.first
  <2>1. /\ \E x \in Units(u, j) : x.first = a.first
        /\ \E y \in Units(v, j) : y.first = b.first
    BY <1>1, <1>6
  <2> QED
    BY <2>1, <1>8 DEF UnitsApart
<1>9. UnitsApart'
  BY <1>7, <1>8 DEF UnitsApart
<1> QED
  BY <1>6, <1>9 DEF c

-----------------------------------------------------------------------------
(* The work units that are not reported, and what a step leaves alone.     *)
LEMMA UnreportedUnits ==
    QueueTypes => \A j \in Jobs : Placed(j) =>
        /\ Unreported(j) = UNION {WorkUnit(j, k) : k \in Held(j)}
        /\ \A w \in Workers : \A c \in Units(w, j) : c.first \in Held(j)
        /\ Held(j) \subseteq Workers /\ Ahead(j) \subseteq Held(j)
<1> SUFFICES ASSUME QueueTypes, NEW j \in Jobs, Placed(j)
             PROVE  /\ Unreported(j) = UNION {WorkUnit(j, k) : k \in Held(j)}
                    /\ \A w \in Workers : \A c \in Units(w, j) : c.first \in Held(j)
                    /\ Held(j) \subseteq Workers /\ Ahead(j) \subseteq Held(j)
  OBVIOUS
<1>1. \A w \in Workers : \A c \in Units(w, j) :
          c.first \in Workers /\ From(c.first, 0, c.num) = WorkUnit(j, c.first)
  BY UnitsTypes DEF Placed, WorkUnit
<1>2. Unpushed(j) = UNION {WorkUnit(j, k) : k \in Ahead(j)}
  BY DEF Unpushed, Ahead
<1>3. Held(j) = Ahead(j) \cup {k \in Workers : \E w \in Workers : \E c \in Units(w, j) : c.first = k}
  BY DEF Held
<1>4. ASSUME NEW s PROVE s \in Unreported(j) <=> s \in UNION {WorkUnit(j, k) : k \in Held(j)}
  <2>1. s \in Unreported(j) <=>
          \/ s \in Unpushed(j)
          \/ \E w \in Workers : \E c \in Units(w, j) : s \in From(c.first, 0, c.num)
    BY DEF Unreported
  <2>2. s \in UNION {WorkUnit(j, k) : k \in Held(j)} <=>
          \/ s \in Unpushed(j)
          \/ \E w \in Workers : \E c \in Units(w, j) : s \in WorkUnit(j, c.first)
    BY <1>1, <1>2, <1>3
  <2> QED
    BY <2>1, <2>2, <1>1
<1>5. Unreported(j) = UNION {WorkUnit(j, k) : k \in Held(j)}
  BY <1>4
<1> QED
  BY <1>1, <1>3, <1>5 DEF Ahead

(* UnreportedUnits, for the next state.                                    *)
LEMMA UnreportedUnitsAfter ==
    QueueTypes' => \A j \in Jobs : Placed(j)' =>
        /\ Unreported(j)' = UNION {WorkUnit(j, k) : k \in Held(j)'}
        /\ \A w \in Workers : \A c \in Units(w, j)' : c.first \in Held(j)'
        /\ Held(j)' \subseteq Workers /\ Ahead(j)' \subseteq Held(j)'
<1>1. (QueueTypes => \A j \in Jobs : Placed(j) =>
        /\ Unreported(j) = UNION {WorkUnit(j, k) : k \in Held(j)}
        /\ \A w \in Workers : \A c \in Units(w, j) : c.first \in Held(j)
        /\ Held(j) \subseteq Workers /\ Ahead(j) \subseteq Held(j))'
  BY UnreportedUnits, PTL
<1> QED
  BY <1>1 DEF WorkUnit, NumWorkUnitSlices, From

(* What is reported then counts no longer.                                 *)
LEMMA UnreportedCounts ==
    ASSUME QueueTypes, NEW j \in Jobs, Placed(j)
    PROVE  /\ Unreported(j) \subseteq Slices(j)
           /\ IsFiniteSet(Unreported(j)) /\ Cardinality(Unreported(j)) \in 0 .. NumSlices[j]
           /\ \A k \in Held(j) :
                 /\ UNION {WorkUnit(j, i) : i \in Held(j) \ {k}} = Unreported(j) \ WorkUnit(j, k)
                 /\ Cardinality(Unreported(j) \ WorkUnit(j, k))
                        = Cardinality(Unreported(j)) - NumWorkUnitSlices(j, k)
                 /\ WorkUnit(j, k) \subseteq Unreported(j)
<1>1. Unreported(j) = UNION {WorkUnit(j, k) : k \in Held(j)} /\ Held(j) \subseteq Workers
  BY UnreportedUnits
<1>2. /\ \A i \in Workers :
            /\ NumWorkUnitSlices(j, i) \in Nat /\ WorkUnit(j, i) \subseteq Slices(j)
            /\ IsFiniteSet(WorkUnit(j, i))
            /\ Cardinality(WorkUnit(j, i)) = NumWorkUnitSlices(j, i)
      /\ \A i, k \in Workers : i # k => WorkUnit(j, i) \cap WorkUnit(j, k) = {}
      /\ IsFiniteSet(Slices(j)) /\ Cardinality(Slices(j)) = NumSlices[j]
  BY WorkUnits
<1>3. Unreported(j) \subseteq Slices(j)
  BY <1>1, <1>2
<1>4. IsFiniteSet(Unreported(j)) /\ Cardinality(Unreported(j)) <= Cardinality(Slices(j))
  BY <1>2, <1>3, FS_Subset
<1>5. Cardinality(Unreported(j)) \in 0 .. NumSlices[j]
  BY <1>2, <1>4, FS_CardinalityType
<1>6. ASSUME NEW k \in Held(j)
      PROVE  /\ UNION {WorkUnit(j, i) : i \in Held(j) \ {k}} = Unreported(j) \ WorkUnit(j, k)
             /\ Cardinality(Unreported(j) \ WorkUnit(j, k))
                    = Cardinality(Unreported(j)) - NumWorkUnitSlices(j, k)
             /\ WorkUnit(j, k) \subseteq Unreported(j)
  <2>1. k \in Workers /\ WorkUnit(j, k) \subseteq Unreported(j)
    BY <1>1
  <2>2. UNION {WorkUnit(j, i) : i \in Held(j) \ {k}} = Unreported(j) \ WorkUnit(j, k)
    BY <1>1, <1>2, <2>1
  <2>3. Unreported(j) \cap WorkUnit(j, k) = WorkUnit(j, k)
    BY <2>1
  <2>4. Cardinality(Unreported(j) \ WorkUnit(j, k))
            = Cardinality(Unreported(j)) - Cardinality(Unreported(j) \cap WorkUnit(j, k))
    BY <1>4, FS_Difference
  <2> QED
    BY <2>1, <2>2, <2>3, <2>4, <1>2
<1> QED
  BY <1>3, <1>4, <1>5, <1>6

(* A step that j has no part in.                                           *)
Stays(j) ==
    /\ \A w \in Workers : Units(w, j)' = Units(w, j)
    /\ \A w \in Workers : signalling'[w] = j <=> signalling[w] = j
    /\ Ahead(j)' = Ahead(j) /\ runs'[j] = runs[j]
    /\ completionEvent'[j] = completionEvent[j] /\ completionCounter'[j] = completionCounter[j]

(* A job is untouched by a step that leaves its units, slices, counter and *)
(* event alone.                                                            *)
LEMMA JobStays ==
    ASSUME NEW j \in Jobs, Stays(j)
    PROVE  (JobExact(j) => JobExact(j)') /\ (Safe(j)' <=> Safe(j))
<1>1. Held(j)' = Held(j)
  BY DEF Stays, Held
<1>2. Safe(j)' <=> Safe(j)
  BY <1>1 DEF Stays, Safe
<1>3. Unpushed(j)' = Unpushed(j)
  <2>1. Unpushed(j) = UNION {WorkUnit(j, k) : k \in Ahead(j)}
    BY DEF Unpushed, Ahead
  <2>2. Unpushed(j)' = UNION {WorkUnit(j, k) : k \in Ahead(j)'}
    BY DEF Unpushed, Ahead, WorkUnit, NumWorkUnitSlices, From
  <2> QED
    BY <2>1, <2>2 DEF Stays
<1>4. Unreported(j)' = Unreported(j)
  BY <1>3 DEF Stays, Unreported, From
<1>5. Placed(j) => Placed(j)'
  BY DEF Stays, Placed, NumWorkUnitSlices
<1>6. RunExact(j) => RunExact(j)'
  BY <1>2, <1>3, <1>4 DEF Stays, RunExact, Slices
<1>7. SignalExact(j) => SignalExact(j)'
  BY <1>1 DEF Stays, SignalExact
<1> QED
  BY <1>2, <1>4, <1>5, <1>6, <1>7 DEF JobExact, Stays

-----------------------------------------------------------------------------
(* The steps, job by job.                                                  *)
JobsKept == QueueTypes' /\ RunsType' /\ UnitsApart' /\ \A j \in Jobs : JobExact(j)'

LEMMA JobsInvTypes ==
    JobsInv =>
        /\ QueueTypes /\ RunsType /\ UnitsApart /\ \A j \in Jobs : JobExact(j)
        /\ signalling \in [Workers -> Jobs \cup {NoJob}]
        /\ completionCounter \in [Jobs -> Nat] /\ completionEvent \in [Jobs -> BOOLEAN]
        /\ pushing # "idle" => curJob \in Jobs
        /\ index \in Workers /\ nextThreadIndex \in Workers
BY DEF JobsInv, TypeOK, QueueTypes

(* These steps start, push, run, report and complete nothing.              *)
QuietStep ==
    \/ \E p \in Ports : PushJob(p) \/ PushJobChain(p) \/ PushSync(p) \/ WaitDone(p)
    \/ PushSyncCommand
    \/ \E w \in Workers : DequeueAll(w) \/ WaitSync(w)
    \/ UNCHANGED vars

LEMMA StaysAll ==
    ASSUME JobsInv, QueueTypes', UnitsApart',
           \A v \in Workers, j \in Jobs : Units(v, j)' = Units(v, j),
           \A j \in Jobs : Ahead(j)' = Ahead(j),
           UNCHANGED <<signalling, jobVars, runs>>
    PROVE  JobsKept /\ \A j \in Jobs : Safe(j)' <=> Safe(j)
<1>1. ASSUME NEW j \in Jobs PROVE Stays(j)
  BY DEF Stays, jobVars
<1>2. RunsType'
  BY DEF RunsType, Slices, JobsInv
<1> QED
  BY <1>1, <1>2, JobStays DEF JobsKept, JobsInv

(* Calls, syncs and dequeuing concern no job's completion.                 *)
LEMMA QuietKeeps ==
    ASSUME JobsInv, QuietStep
    PROVE  JobsKept /\ \A j \in Jobs : Safe(j)' <=> Safe(j)
<1>t. QueueTypes /\ UnitsApart /\ (pushing # "idle" => curJob \in Jobs)
  BY JobsInvTypes
<1>1. CASE \/ \E p \in Ports : PushJob(p) \/ PushJobChain(p) \/ PushSync(p) \/ WaitDone(p)
           \/ \E w \in Workers : DequeueAll(w)
           \/ UNCHANGED vars
  <2>1. /\ UNCHANGED <<signalling, jobVars, runs>>
        /\ UNCHANGED <<jobQueue, curCommands>> \/ \E w \in Workers : DequeueAll(w)
        /\ UNCHANGED pusherVars \/ (pushing = "idle" /\ pushing' # "push")
    BY <1>1 DEF PushJob, PushJobChain, PushSync, WaitDone, DequeueAll, NextCall, vars, workerVars,
                pusherVars
  <2>2. Kept /\ QueueTypes'
    BY <2>1, <1>t, KeepCmds
  <2>3. UnitsApart' /\ \A v \in Workers, j \in Jobs : Units(v, j)' = Units(v, j)
    BY <2>2, <1>t, KeepUnits
  <2>4. \A j \in Jobs : Ahead(j)' = Ahead(j)
    BY <2>1 DEF Ahead, pusherVars
  <2> QED
    BY <2>1, <2>2, <2>3, <2>4, StaysAll
<1>2. CASE PushSyncCommand
  <2>1. /\ UNCHANGED <<signalling, jobVars, runs, curCommands>>
        /\ pushing = "sync" /\ pushing' # "push"
        /\ jobQueue' = [jobQueue EXCEPT ![index] = Append(@, Sync(curJob))]
    BY <1>2 DEF PushSyncCommand, workerVars
  <2>2. Sync(curJob) \in Commands /\ Sync(curJob).code # "Run" /\ index \in Workers
    BY <2>1, <1>t, JobsInvTypes DEF Sync, Commands
  <2>3. Added(index, Sync(curJob)) /\ QueueTypes'
    BY <2>1, <2>2, <1>t, AddCmd
  <2>4. UnitsApart' /\ \A v \in Workers, j \in Jobs : Units(v, j)' = Units(v, j)
    BY <2>2, <2>3, <1>t, AddUnit
  <2>5. \A j \in Jobs : Ahead(j)' = Ahead(j)
    BY <2>1 DEF Ahead
  <2> QED
    BY <2>1, <2>3, <2>4, <2>5, StaysAll
<1>3. ASSUME NEW w \in Workers, WaitSync(w)
      PROVE  JobsKept /\ \A j \in Jobs : Safe(j)' <=> Safe(j)
  <2>1. /\ UNCHANGED <<signalling, jobVars, runs, pusherVars, jobQueue>>
        /\ curCommands[w] # <<>> /\ Head(curCommands[w]).code = "Sync"
        /\ curCommands' = [curCommands EXCEPT ![w] = Tail(@)]
    BY <1>3 DEF WaitSync, Current
  <2>2. /\ Dropped(w) /\ QueueTypes' /\ Cmds(w) # <<>>
        /\ Head(Cmds(w)) = Head(curCommands[w])
    BY <2>1, <1>t, DropCmd
  <2>3. /\ UnitsApart'
        /\ \A v \in Workers, j \in Jobs :
              Units(v, j)' = IF v = w THEN Units(v, j) \ {Head(Cmds(w))} ELSE Units(v, j)
    BY <2>2, <1>t, DropUnit
  <2>4. \A j \in Jobs : Head(Cmds(w)) \notin Units(w, j)
    BY <2>1, <2>2, <1>t, UnitsTypes
  <2>5. \A v \in Workers, j \in Jobs : Units(v, j)' = Units(v, j)
    BY <2>3, <2>4
  <2>6. \A j \in Jobs : Ahead(j)' = Ahead(j)
    BY <2>1 DEF Ahead, pusherVars
  <2> QED
    BY <2>1, <2>2, <2>3, <2>5, <2>6, StaysAll
<1> QED
  BY <1>1, <1>2, <1>3 DEF QuietStep

(* TPJob::NotifyStart(): all units of the job are to be pushed.            *)
LEMMA StartKeeps ==
    ASSUME JobsInv, StartJob, index = 0, Safe(curJob)
    PROVE  JobsKept /\ \A j \in Jobs \ {curJob} : Safe(j)' <=> Safe(j)
<1>t. /\ QueueTypes /\ UnitsApart /\ RunsType /\ curJob \in Jobs /\ \A j \in Jobs : JobExact(j)
      /\ completionCounter \in [Jobs -> Nat] /\ completionEvent \in [Jobs -> BOOLEAN]
  BY JobsInvTypes DEF StartJob
<1>1. /\ pushing = "start" /\ pushing' = "push" /\ curJob' = curJob /\ index' = 0
      /\ UNCHANGED <<jobQueue, curCommands, signalling>>
      /\ completionCounter' = [completionCounter EXCEPT ![curJob] = NumSlices[curJob]]
      /\ completionEvent' = [completionEvent EXCEPT ![curJob] = FALSE]
      /\ runs' = [runs EXCEPT ![curJob] = [s \in Slices(curJob) |-> 0]]
  BY DEF StartJob, workerVars
<1>2. Kept /\ QueueTypes'
  BY <1>1, <1>t, KeepCmds
<1>3. UnitsApart' /\ \A v \in Workers, j \in Jobs : Units(v, j)' = Units(v, j)
  BY <1>2, <1>t, KeepUnits
<1>4. RunsType'
  <2>1. [s \in Slices(curJob) |-> 0] \in [Slices(curJob) -> Nat]
    OBVIOUS
  <2> QED
    BY <2>1, <1>1, <1>t DEF RunsType, Slices
<1>5. ASSUME NEW j \in Jobs \ {curJob} PROVE JobExact(j)' /\ (Safe(j)' <=> Safe(j))
  <2>1. Ahead(j)' = Ahead(j)
    BY <1>1 DEF Ahead
  <2>2. /\ completionCounter'[j] = completionCounter[j] /\ completionEvent'[j] = completionEvent[j]
        /\ runs'[j] = runs[j]
    BY <1>1, <1>t DEF RunsType
  <2>3. Stays(j)
    BY <2>1, <2>2, <1>1, <1>3 DEF Stays
  <2> QED
    BY <2>3, <1>t, JobStays
<1>6. ASSUME NEW j \in Jobs, j = curJob PROVE JobExact(j)'
  <2>1. Held(j) = {} /\ \A w \in Workers : signalling[w] # j
    BY <1>6 DEF Safe
  <2>2. \A w \in Workers : Units(w, j)' = {}
    <3>1. ASSUME NEW w \in Workers, NEW c \in Units(w, j) PROVE c.first \in Held(j)
      BY <1>t, UnreportedUnits DEF JobExact
    <3> QED
      BY <3>1, <2>1, <1>3
  <2>3. Ahead(j)' = Workers
    BY <1>1, <1>6 DEF Ahead, Workers
  <2>4. Placed(j)'
    BY <2>2 DEF Placed
  <2>5. Unpushed(j)' = Slices(j)
    <3>1. Unpushed(j)' = UNION {WorkUnit(j, k) : k \in Ahead(j)'}
      BY DEF Unpushed, Ahead, WorkUnit, NumWorkUnitSlices, From
    <3> QED
      BY <3>1, <2>3, WorkUnits
  <2>6. Unreported(j)' = Slices(j)
    BY <2>2, <2>5 DEF Unreported
  <2>7. completionCounter'[j] = NumSlices[j] /\ ~completionEvent'[j]
    BY <1>1, <1>t, <1>6
  <2>8. completionCounter'[j] = Cardinality(Unreported(j)')
    BY <2>6, <2>7, WorkUnits
  <2>9. SignalExact(j)'
    BY <2>1, <2>7, <1>1 DEF SignalExact
  <2>10. RunExact(j)'
    <3>1. \A s \in Slices(j) : runs'[j][s] = 0
      BY <1>1, <1>t, <1>6 DEF RunsType
    <3>2. Slices(j)' \ Unreported(j)' = {}
      BY <2>6 DEF Slices
    <3> QED
      BY <3>1, <3>2, <2>2, <2>5 DEF RunExact
  <2> QED
    BY <2>4, <2>8, <2>9, <2>10 DEF JobExact
<1> QED
  BY <1>1, <1>2, <1>3, <1>4, <1>5, <1>6 DEF JobsKept

(* The slices of a unit that is not reported are not.                      *)
LEMMA UnitSlices ==
    ASSUME QueueTypes, NEW j \in Jobs, Placed(j), NEW w \in Workers, NEW c \in Units(w, j)
    PROVE  /\ c.first \in Workers /\ c.first \in Held(j)
           /\ WorkUnit(j, c.first) = {c.first + k * NumWorkerThreads : k \in 0 .. (c.num - 1)}
           /\ WorkUnit(j, c.first) \subseteq Unreported(j) /\ WorkUnit(j, c.first) \subseteq Slices(j)
           /\ c.num = NumWorkUnitSlices(j, c.first) /\ c.num \in Nat \ {0} /\ c.done \in 0 .. c.num
           /\ c.first \notin Ahead(j)
<1>1. /\ c.first \in Workers /\ c.first \in Held(j)
      /\ c.num = NumWorkUnitSlices(j, c.first) /\ c.num \in Nat \ {0} /\ c.done \in 0 .. c.num
      /\ c.first \notin Ahead(j)
  BY UnitsTypes, UnreportedUnits DEF Placed
<1>2. WorkUnit(j, c.first) \subseteq Unreported(j)
  BY <1>1, UnreportedCounts
<1>3. WorkUnit(j, c.first) \subseteq Slices(j)
  BY <1>1, WorkUnits
<1> QED
  BY <1>1, <1>2, <1>3 DEF WorkUnit, From

(* PushJobSlices(): a unit goes from the pushing thread to a worker.       *)
LEMMA PushKeeps ==
    ASSUME JobsInv, PushWorkUnit, NumWorkUnitSlices(curJob, index) > 0
    PROVE  JobsKept /\ \A j \in Jobs : Safe(j) => Safe(j)'
<1>t. /\ QueueTypes /\ UnitsApart /\ RunsType /\ curJob \in Jobs /\ \A j \in Jobs : JobExact(j)
      /\ index \in Workers /\ nextThreadIndex \in Workers
  BY JobsInvTypes DEF PushWorkUnit
<1>1. PICK j \in Jobs, k \in Workers, num \in Nat \ {0}, w \in Workers :
          j = curJob /\ k = index /\ num = NumWorkUnitSlices(j, k) /\ w = nextThreadIndex
  <2>1. NumWorkUnitSlices(curJob, index) \in Nat
    BY <1>t, WorkUnits
  <2> QED
    BY <2>1, <1>t
<1> DEFINE c == Run(j, k, num)
<1>2. /\ c \in Commands /\ c.code = "Run" /\ c.job = j /\ c.first = k /\ c.num = num /\ c.done = 0
  BY DEF Run, Commands
<1> HIDE DEF c
<1>3. /\ pushing = "push" /\ curJob' = j
      /\ UNCHANGED <<curCommands, signalling, jobVars, runs>>
      /\ jobQueue' = [jobQueue EXCEPT ![w] = Append(@, c)]
      /\ \/ k + 1 \in Workers /\ index' = k + 1 /\ pushing' = "push"
         \/ /\ k + 1 \notin Workers \/ ~(NumWorkUnitSlices(j, k + 1) > 0)
            /\ pushing' # "push"
  BY <1>1 DEF PushWorkUnit, workerVars, c
<1>4. Added(w, c) /\ QueueTypes'
  BY <1>2, <1>3, <1>t, AddCmd
<1>5. Placed(j) /\ k \in Ahead(j) /\ Ahead(j) = {i \in Workers : k <= i}
  BY <1>1, <1>3, <1>t DEF JobExact, Ahead, Workers
<1>6. \A v \in Workers : \A d \in Units(v, j) : d.first # k
  BY <1>5 DEF Placed
<1>7. /\ UnitsApart'
      /\ \A v \in Workers, i \in Jobs :
            Units(v, i)' = IF v = w /\ i = j THEN Units(v, i) \cup {c} ELSE Units(v, i)
  BY <1>2, <1>4, <1>6, <1>t, AddUnit
<1>8. ASSUME NEW i \in Jobs \ {j} PROVE JobExact(i)' /\ (Safe(i)' <=> Safe(i))
  <2>1. Ahead(i)' = Ahead(i)
    BY <1>1, <1>3 DEF Ahead
  <2>2. Stays(i)
    BY <2>1, <1>3, <1>7 DEF Stays, jobVars
  <2> QED
    BY <2>2, <1>t, JobStays
<1>9. /\ Ahead(j)' \subseteq Ahead(j) \ {k}
      /\ \A i \in Ahead(j) \ {k} : i \in Ahead(j)' \/ WorkUnit(j, i) = {}
  <2>1. CASE k + 1 \in Workers /\ index' = k + 1 /\ pushing' = "push"
    BY <2>1, <1>3, <1>5 DEF Ahead, Workers
  <2>2. CASE /\ k + 1 \notin Workers \/ ~(NumWorkUnitSlices(j, k + 1) > 0)
             /\ pushing' # "push"
    <3>1. Ahead(j)' = {}
      BY <2>2 DEF Ahead
    <3>2. ASSUME NEW i \in Ahead(j) \ {k} PROVE WorkUnit(j, i) = {}
      <4>1. i \in Workers /\ k + 1 \in Workers /\ k + 1 <= i
        BY <1>5, NumAssumption DEF Workers
      <4>2. NumWorkUnitSlices(j, k + 1) = 0
        BY <2>2, <4>1, WorkUnits
      <4>3. NumWorkUnitSlices(j, i) = 0
        BY <4>1, <4>2, WorkUnits
      <4> QED
        BY <4>1, <4>3, WorkUnits, FS_EmptySet
    <3> QED
      BY <3>1, <3>2
  <2> QED
    BY <2>1, <2>2, <1>3
<1>10. Held(j)' = (Held(j) \ Ahead(j)) \cup Ahead(j)' \cup {k} /\ Held(j)' \subseteq Held(j)
  <2>1. \A v \in Workers : Units(v, j)' = IF v = w THEN Units(v, j) \cup {c} ELSE Units(v, j)
    BY <1>7
  <2>2. \A i \in Workers : (\E v \in Workers : \E d \in Units(v, j)' : d.first = i) <=>
                           (i = k \/ \E v \in Workers : \E d \in Units(v, j) : d.first = i)
    BY <2>1, <1>2
  <2>3. \A i \in Workers : (\E v \in Workers : \E d \in Units(v, j) : d.first = i) => i \notin Ahead(j)
    BY <1>5 DEF Placed
  <2>4. Held(j)' = Ahead(j)' \cup {i \in Workers : \E v \in Workers : \E d \in Units(v, j)' : d.first = i}
    BY DEF Held
  <2> QED
    BY <2>2, <2>3, <2>4, <1>5, <1>9 DEF Held
<1>11. JobExact(j)'
  <2>1. Placed(j)'
    BY <1>1, <1>2, <1>5, <1>7, <1>9 DEF Placed, NumWorkUnitSlices
  <2>2. Unreported(j)' = Unreported(j)
    <3>1. /\ Unreported(j) = UNION {WorkUnit(j, i) : i \in Held(j)}
          /\ Unreported(j)' = UNION {WorkUnit(j, i) : i \in Held(j)'}
      BY <2>1, <1>4, <1>5, <1>t, UnreportedUnits, UnreportedUnitsAfter
    <3>2. \A i \in Held(j) : i \in Held(j)' \/ WorkUnit(j, i) = {}
      BY <1>9, <1>10
    <3> QED
      BY <3>1, <3>2, <1>10
  <2>3. k \in Held(j) /\ k \in Held(j)'
    BY <1>5, <1>10 DEF Held
  <2>4. SignalExact(j)'
    BY <2>3, <1>3, <1>t DEF JobExact, SignalExact, jobVars
  <2>5. RunExact(j)'
    <3>1. RunExact(j) /\ ~Safe(j)
      BY <2>3, <1>t DEF JobExact, Safe
    <3>2. /\ Unpushed(j) = UNION {WorkUnit(j, i) : i \in Ahead(j)}
          /\ Unpushed(j)' = UNION {WorkUnit(j, i) : i \in Ahead(j)'}
      BY DEF Unpushed, Ahead, WorkUnit, NumWorkUnitSlices, From
    <3>3. \A s \in Unpushed(j)' : runs'[j][s] = 0
      BY <3>1, <3>2, <1>3, <1>9 DEF RunExact
    <3>4. \A s \in Slices(j)' \ Unreported(j)' : runs'[j][s] = 1
      BY <3>1, <2>2, <1>3 DEF RunExact, Slices
    <3>5. WorkUnit(j, k) = {k + i * NumWorkerThreads : i \in 0 .. (num - 1)}
      BY <1>1 DEF WorkUnit, From
    <3>6. \A i \in 0 .. (num - 1) : runs[j][k + i * NumWorkerThreads] = 0
      BY <3>1, <3>2, <3>5, <1>5 DEF RunExact
    <3>7. ASSUME NEW v \in Workers, NEW d \in Units(v, j)', NEW i \in 0 .. (d.num - 1)
          PROVE  runs'[j][d.first + i * NumWorkerThreads] = IF i < d.done THEN 1 ELSE 0
      <4>1. CASE d \in Units(v, j)
        BY <4>1, <3>1, <1>3 DEF RunExact
      <4>2. CASE d = c
        BY <4>2, <3>6, <1>2, <1>3
      <4> QED
        BY <4>1, <4>2, <1>7
    <3> QED
      BY <3>3, <3>4, <3>7 DEF RunExact
  <2>6. completionCounter'[j] = Cardinality(Unreported(j)')
    BY <2>2, <1>3, <1>t DEF JobExact, jobVars
  <2> QED
    BY <2>1, <2>4, <2>5, <2>6 DEF JobExact
<1>12. ~Safe(j)
  BY <1>5 DEF Safe, Held
<1>13. RunsType'
  BY <1>3, <1>t DEF RunsType, Slices
<1> QED
  BY <1>4, <1>7, <1>8, <1>11, <1>12, <1>13 DEF JobsKept

(* ProcessJobSlices(): one more slice of the worker's unit has run.        *)
LEMMA ProcessKeeps ==
    ASSUME JobsInv, NEW w \in Workers, ProcessSlice(w)
    PROVE  JobsKept /\ \A i \in Jobs : Safe(i)' <=> Safe(i)
<1>t. /\ QueueTypes /\ UnitsApart /\ RunsType /\ \A j \in Jobs : JobExact(j)
  BY JobsInvTypes
<1>0. Head(curCommands[w]) \in Commands /\ curCommands[w] # <<>> /\ curCommands[w] \in Seq(Commands)
      /\ Head(curCommands[w]).code = "Run"
  BY <1>t, TailElements DEF QueueTypes, ProcessSlice, Current
<1>c. PICK c \in Commands, j \in Jobs : c = Head(curCommands[w]) /\ j = c.job
  BY <1>0 DEF Commands
<1>1. /\ curCommands[w] # <<>> /\ c.code = "Run" /\ c.done < c.num
      /\ runs' = [runs EXCEPT ![j][c.first + c.done * NumWorkerThreads] = @ + 1]
      /\ curCommands' = [curCommands EXCEPT ![w][1].done = @ + 1]
      /\ UNCHANGED <<jobQueue, signalling, jobVars, pusherVars>>
  BY <1>c DEF ProcessSlice, Current
<1>d. PICK d \in Commands : d = [c EXCEPT !.done = c.done + 1]
  <2>1. c \in [code : {"Run"}, job : Jobs, first : Workers, num : Nat \ {0}, done : Nat]
    BY <1>1 DEF Commands
  <2>2. [c EXCEPT !.done = c.done + 1]
            \in [code : {"Run"}, job : Jobs, first : Workers, num : Nat \ {0}, done : Nat]
    BY <2>1
  <2> QED
    BY <2>2 DEF Commands
<1>2. c = curCommands[w][1]
  BY <1>0, <1>c, TailElements
<1>3. curCommands' = [curCommands EXCEPT ![w] = [curCommands[w] EXCEPT ![1] = d]]
  BY <1>1, <1>2, <1>d
<1>4. /\ d.code = "Run" /\ d.job = c.job /\ d.first = c.first /\ d.num = c.num
      /\ d.done = c.done + 1
  BY <1>1, <1>d DEF Commands
<1>5. Head(Cmds(w)) = c /\ Cmds(w) # <<>> /\ Advanced(w, d) /\ QueueTypes'
  BY <1>1, <1>3, <1>c, <1>t, AdvanceCmd
<1>6. /\ c \in Units(w, j)
      /\ \A v \in Workers : \A e \in Units(v, j) : e # c => e.first # c.first
  BY <1>1, <1>5, <1>c, <1>t, HeadUnit
<1>7. /\ UnitsApart'
      /\ \A v \in Workers, i \in Jobs :
            Units(v, i)' = IF v = w /\ i = j THEN (Units(v, i) \ {c}) \cup {d} ELSE Units(v, i)
  BY <1>1, <1>4, <1>5, <1>c, <1>t, AdvanceUnit
<1>8. Placed(j) /\ RunExact(j) /\ SignalExact(j)
  BY <1>t DEF JobExact
<1>9. /\ c.first \in Workers /\ c.first \in Held(j)
      /\ WorkUnit(j, c.first) = {c.first + k * NumWorkerThreads : k \in 0 .. (c.num - 1)}
      /\ WorkUnit(j, c.first) \subseteq Unreported(j) /\ WorkUnit(j, c.first) \subseteq Slices(j)
      /\ c.num = NumWorkUnitSlices(j, c.first) /\ c.num \in Nat \ {0} /\ c.done \in 0 .. c.num
      /\ c.first \notin Ahead(j)
  BY <1>6, <1>8, <1>t, UnitSlices
<1>s. PICK s0 \in Slices(j) : s0 = c.first + c.done * NumWorkerThreads /\ s0 \in WorkUnit(j, c.first)
  BY <1>1, <1>9
<1>10. s0 \in WorkUnit(j, c.first) /\ s0 \in Slices(j) /\ s0 \in Unreported(j)
  BY <1>9, <1>s
<1>11. /\ runs' = [runs EXCEPT ![j] = [runs[j] EXCEPT ![s0] = runs[j][s0] + 1]]
       /\ runs[j] \in [Slices(j) -> Nat]
  BY <1>1, <1>s, <1>t DEF RunsType
<1>12. /\ \A i \in Jobs \ {j} : runs'[i] = runs[i]
       /\ \A s \in Slices(j) : runs'[j][s] = IF s = s0 THEN runs[j][s] + 1 ELSE runs[j][s]
       /\ DOMAIN runs' = Jobs /\ runs'[j] \in [Slices(j) -> Nat]
  BY <1>6, <1>10, <1>11, <1>t DEF RunsType
<1>13. RunsType'
  BY <1>12, <1>t DEF RunsType, Slices
<1>14. \A i \in Jobs : Ahead(i)' = Ahead(i)
  BY <1>1 DEF Ahead, pusherVars
<1>15. ASSUME NEW i \in Jobs \ {j} PROVE JobExact(i)' /\ (Safe(i)' <=> Safe(i))
  <2>1. Stays(i)
    BY <1>1, <1>7, <1>12, <1>14 DEF Stays, jobVars
  <2> QED
    BY <2>1, <1>t, JobStays
<1>16. Held(j)' = Held(j) /\ Placed(j)'
  <2>1. \A v \in Workers : Units(v, j)' = IF v = w THEN (Units(v, j) \ {c}) \cup {d} ELSE Units(v, j)
    BY <1>6, <1>7
  <2>2. \A i \in Workers : (\E v \in Workers : \E e \in Units(v, j)' : e.first = i) <=>
                           (\E v \in Workers : \E e \in Units(v, j) : e.first = i)
    BY <2>1, <1>4, <1>6
  <2>3. Held(j)' = Held(j)
    BY <2>2, <1>6, <1>14 DEF Held
  <2>4. Placed(j)'
    BY <2>1, <1>1, <1>4, <1>6, <1>8, <1>9, <1>14 DEF Placed, NumWorkUnitSlices
  <2> QED
    BY <2>3, <2>4
<1>17. Safe(j)' <=> Safe(j)
  BY <1>1, <1>16 DEF Safe
<1>18. Unreported(j)' = Unreported(j)
  BY <1>5, <1>6, <1>8, <1>16, <1>t, UnreportedUnits, UnreportedUnitsAfter
<1>19. SignalExact(j)'
  BY <1>1, <1>8, <1>16 DEF SignalExact, jobVars
<1>20. RunExact(j)'
  <2>1. ASSUME NEW v \in Workers, NEW e \in Units(v, j)', NEW k \in 0 .. (e.num - 1)
        PROVE  runs'[j][e.first + k * NumWorkerThreads] = IF k < e.done THEN 1 ELSE 0
    <3>1. CASE e \in Units(v, j) /\ e # c
      <4>1. /\ e.first \in Workers /\ e.first # c.first
            /\ WorkUnit(j, e.first) = {e.first + i * NumWorkerThreads : i \in 0 .. (e.num - 1)}
            /\ WorkUnit(j, e.first) \subseteq Slices(j)
        BY <3>1, <1>6, <1>8, <1>t, UnitSlices
      <4>2. WorkUnit(j, e.first) \cap WorkUnit(j, c.first) = {}
        BY <4>1, <1>6, <1>9, WorkUnits
      <4>3. e.first + k * NumWorkerThreads \in WorkUnit(j, e.first)
        BY <4>1
      <4>4. e.first + k * NumWorkerThreads \in Slices(j) /\ e.first + k * NumWorkerThreads # s0
        BY <4>1, <4>2, <4>3, <1>10
      <4> QED
        BY <4>4, <3>1, <1>8, <1>12 DEF RunExact
    <3>2. CASE e = d
      <4>1. k \in 0 .. (c.num - 1) /\ e.first = c.first /\ e.done = c.done + 1
        BY <3>2, <1>4
      <4>2. /\ runs[j][c.first + k * NumWorkerThreads] = IF k < c.done THEN 1 ELSE 0
            /\ c.first + k * NumWorkerThreads \in Slices(j)
        BY <4>1, <1>6, <1>8, <1>9 DEF RunExact
      <4>3. CASE k = c.done
        BY <4>1, <4>2, <4>3, <1>12, <1>9, <1>s
      <4>4. CASE k # c.done
        <5>1. c.first + k * NumWorkerThreads # s0
          <6>1. c.first \in 0 .. (NumWorkerThreads - 1) /\ k \in Int /\ c.done \in Int
            BY <1>9 DEF Workers
          <6> QED
            BY <6>1, <4>4, NumAssumption, Stride, <1>s
        <5>2. (k < c.done) <=> (k < c.done + 1)
          BY <4>4, <1>9
        <5> QED
          BY <5>1, <5>2, <4>1, <4>2, <1>12
      <4> QED
        BY <4>3, <4>4
    <3>3. v # w => c \notin Units(v, j)
      BY <1>6, <1>t DEF UnitsApart
    <3> QED
      BY <3>1, <3>2, <3>3, <1>7
  <2>2. ASSUME NEW s \in Unpushed(j)' PROVE runs'[j][s] = 0
    <3>1. /\ Unpushed(j) = UNION {WorkUnit(j, i) : i \in Ahead(j)}
          /\ Unpushed(j)' = UNION {WorkUnit(j, i) : i \in Ahead(j)'}
      BY DEF Unpushed, Ahead, WorkUnit, NumWorkUnitSlices, From
    <3>2. PICK i \in Ahead(j) : s \in WorkUnit(j, i)
      BY <3>1, <1>6, <1>14
    <3>3. i \in Workers /\ i # c.first
      BY <3>2, <1>9 DEF Ahead
    <3>4. WorkUnit(j, i) \subseteq Slices(j) /\ WorkUnit(j, i) \cap WorkUnit(j, c.first) = {}
      BY <3>3, <1>6, <1>9, WorkUnits
    <3>5. s \in Slices(j) /\ s # s0 /\ runs[j][s] = 0
      BY <3>1, <3>2, <3>4, <1>8, <1>10 DEF RunExact
    <3> QED
      BY <3>5, <1>12
  <2>3. ~Safe(j)
    BY <1>9 DEF Safe
  <2>4. \A s \in Slices(j)' \ Unreported(j)' : runs'[j][s] = 1
    BY <2>3, <1>8, <1>10, <1>12, <1>18 DEF RunExact, Slices
  <2> QED
    BY <2>1, <2>2, <2>4 DEF RunExact
<1>21. JobExact(j)'
  BY <1>1, <1>6, <1>16, <1>18, <1>19, <1>20, <1>t DEF JobExact, jobVars
<1> QED
  BY <1>5, <1>7, <1>13, <1>15, <1>17, <1>21 DEF JobsKept

(* NotifySlicesComplete(): a unit is reported, and the worker that reports *)
(* the last one signals.                                                   *)
LEMMA NotifyKeeps ==
    ASSUME JobsInv, NEW w \in Workers, NotifySlicesComplete(w),
           pushing = "push" => NumWorkUnitSlices(curJob, index) > 0
    PROVE  JobsKept /\ \A i \in Jobs : Safe(i) => Safe(i)'
<1>t. /\ QueueTypes /\ UnitsApart /\ RunsType /\ \A i \in Jobs : JobExact(i)
      /\ signalling \in [Workers -> Jobs \cup {NoJob}] /\ completionCounter \in [Jobs -> Nat]
      /\ index \in Workers
  BY JobsInvTypes
<1>0. Head(curCommands[w]) \in Commands /\ curCommands[w] # <<>>
      /\ Head(curCommands[w]).code = "Run" /\ signalling[w] = NoJob
  BY <1>t, TailElements DEF QueueTypes, NotifySlicesComplete, Current
<1>c. PICK c \in Commands, j \in Jobs : c = Head(curCommands[w]) /\ j = c.job
  BY <1>0 DEF Commands
<1>1. /\ c.code = "Run" /\ c.done = c.num
      /\ completionCounter' = [completionCounter EXCEPT ![j] = @ - c.num]
      /\ signalling' = [signalling EXCEPT ![w] = IF completionCounter[j] = c.num THEN j ELSE NoJob]
      /\ curCommands' = [curCommands EXCEPT ![w] = Tail(@)]
      /\ UNCHANGED <<jobQueue, completionEvent, pusherVars, runs>>
  BY <1>c DEF NotifySlicesComplete, Current
<1>2. Head(Cmds(w)) = c /\ Cmds(w) # <<>> /\ Dropped(w) /\ QueueTypes'
  BY <1>0, <1>1, <1>c, <1>t, DropCmd
<1>3. /\ c \in Units(w, j)
      /\ \A v \in Workers : \A e \in Units(v, j) : e # c => e.first # c.first
  BY <1>1, <1>2, <1>c, <1>t, HeadUnit
<1>4. /\ UnitsApart'
      /\ \A v \in Workers, i \in Jobs :
            Units(v, i)' = IF v = w THEN Units(v, i) \ {c} ELSE Units(v, i)
  BY <1>2, <1>t, DropUnit
<1>5. /\ \A v \in Workers : Units(v, j)' = Units(v, j) \ {c}
      /\ \A v \in Workers, i \in Jobs \ {j} : Units(v, i)' = Units(v, i)
  <2>1. \A v \in Workers : v # w => c \notin Units(v, j)
    BY <1>3, <1>t DEF UnitsApart
  <2>2. \A i \in Jobs \ {j} : c \notin Units(w, i)
    BY <1>c, <1>t, UnitsTypes
  <2> QED
    BY <2>1, <2>2, <1>4
<1>6. Placed(j) /\ RunExact(j) /\ SignalExact(j) /\ completionCounter[j] = Cardinality(Unreported(j))
  BY <1>t DEF JobExact
<1>7. /\ c.first \in Workers /\ c.first \in Held(j)
      /\ WorkUnit(j, c.first) = {c.first + k * NumWorkerThreads : k \in 0 .. (c.num - 1)}
      /\ c.num = NumWorkUnitSlices(j, c.first) /\ c.num \in Nat \ {0}
      /\ c.first \notin Ahead(j)
  BY <1>3, <1>6, <1>t, UnitSlices
<1>8. \A i \in Jobs : Ahead(i)' = Ahead(i)
  BY <1>1 DEF Ahead, pusherVars
<1>9. RunsType'
  BY <1>1, <1>t DEF RunsType, Slices
<1>10. ASSUME NEW i \in Jobs \ {j} PROVE JobExact(i)' /\ (Safe(i)' <=> Safe(i))
  <2>1. i # NoJob
    BY JobsAssumption
  <2>2. \A v \in Workers : signalling'[v] = i <=> signalling[v] = i
    BY <2>1, <1>0, <1>1, <1>t
  <2>3. Stays(i)
    BY <2>2, <1>1, <1>5, <1>8, <1>t DEF Stays
  <2> QED
    BY <2>3, <1>t, JobStays
<1>11. Held(j)' = Held(j) \ {c.first} /\ Placed(j)'
  <2>1. \A i \in Workers : (\E v \in Workers : \E e \in Units(v, j)' : e.first = i) <=>
                           (i # c.first /\ \E v \in Workers : \E e \in Units(v, j) : e.first = i)
    BY <1>3, <1>5
  <2>2. /\ Held(j) = Ahead(j) \cup {i \in Workers : \E v \in Workers : \E e \in Units(v, j) : e.first = i}
        /\ Held(j)' = Ahead(j)' \cup {i \in Workers : \E v \in Workers : \E e \in Units(v, j)' : e.first = i}
    BY DEF Held
  <2>3. Held(j)' = Held(j) \ {c.first}
    BY <2>1, <2>2, <1>7, <1>8
  <2>4. Placed(j)'
    BY <1>5, <1>6, <1>8 DEF Placed, NumWorkUnitSlices
  <2> QED
    BY <2>3, <2>4
<1>12. Unreported(j)' = Unreported(j) \ WorkUnit(j, c.first)
  <2>1. Unreported(j)' = UNION {WorkUnit(j, i) : i \in Held(j)'}
    BY <1>2, <1>11, UnreportedUnitsAfter
  <2>2. UNION {WorkUnit(j, i) : i \in Held(j) \ {c.first}} = Unreported(j) \ WorkUnit(j, c.first)
    BY <1>6, <1>7, <1>t, UnreportedCounts
  <2> QED
    BY <2>1, <2>2, <1>11
<1>13. /\ completionCounter'[j] = Cardinality(Unreported(j)')
       /\ completionCounter[j] = c.num <=> Unreported(j)' = {}
  <2>1. /\ Cardinality(Unreported(j)') = completionCounter[j] - c.num
        /\ IsFiniteSet(Unreported(j)) /\ completionCounter[j] \in Nat
    BY <1>6, <1>7, <1>12, <1>t, UnreportedCounts
  <2>2. IsFiniteSet(Unreported(j)')
    BY <2>1, <1>12, FS_Subset
  <2>3. Cardinality(Unreported(j)') = 0 <=> Unreported(j)' = {}
    BY <2>2, FS_EmptySet
  <2> QED
    BY <2>1, <2>3, <1>1, <1>7, <1>t
<1>14. Unreported(j)' = {} <=> Held(j)' = {}
  <2>1. Unreported(j)' = UNION {WorkUnit(j, i) : i \in Held(j)'}
    BY <1>2, <1>11, UnreportedUnitsAfter
  <2>2. ASSUME Held(j)' # {} PROVE \E i \in Held(j)' : NumWorkUnitSlices(j, i) > 0 /\ i \in Workers
    <3>1. CASE Ahead(j)' = {}
      <4>0. PICK v \in Workers : \E e \in Units(v, j)' : e.first \in Held(j)'
        BY <2>2, <3>1 DEF Held
      <4>1. PICK e \in Units(v, j)' : e.first \in Held(j)'
        BY <4>0
      <4>2. e \in Units(v, j)
        BY <4>1, <1>5
      <4>3. e.num = NumWorkUnitSlices(j, e.first) /\ e.num \in Nat \ {0} /\ e.first \in Workers
        BY <4>2, <1>6, <1>t, UnitSlices
      <4> QED
        BY <4>1, <4>3
    <3>2. CASE Ahead(j)' # {}
      <4>1. pushing = "push" /\ curJob = j /\ Ahead(j) = {i \in Workers : index <= i}
        BY <3>2, <1>8 DEF Ahead
      <4>2. index \in Ahead(j)' /\ index \in Held(j)'
        BY <4>1, <1>8, <1>t DEF Workers, Held
      <4> QED
        BY <4>1, <4>2, <1>t
    <3> QED
      BY <3>1, <3>2
  <2>3. \A i \in Workers : NumWorkUnitSlices(j, i) > 0 => WorkUnit(j, i) # {}
    BY WorkUnits, FS_EmptySet
  <2> QED
    BY <2>1, <2>2, <2>3
<1>15. Held(j) # {} /\ ~Safe(j) /\ ~completionEvent[j] /\ \A v \in Workers : signalling[v] # j
  BY <1>6, <1>7 DEF SignalExact, Safe
<1>16. SignalExact(j)'
  <2>1. CASE Held(j)' = {}
    <3>1. signalling' = [signalling EXCEPT ![w] = j]
      BY <2>1, <1>1, <1>13, <1>14
    <3> QED
      BY <2>1, <3>1, <1>1, <1>15, <1>t DEF SignalExact
  <2>2. CASE Held(j)' # {}
    <3>1. signalling' = [signalling EXCEPT ![w] = NoJob] /\ j # NoJob
      BY <2>2, <1>1, <1>13, <1>14, JobsAssumption
    <3> QED
      BY <3>1, <1>1, <1>15, <1>t DEF SignalExact
  <2> QED
    BY <2>1, <2>2
<1>17. RunExact(j)'
  <2>1. \A v \in Workers : \A e \in Units(v, j)' : \A k \in 0 .. (e.num - 1) :
            runs'[j][e.first + k * NumWorkerThreads] = IF k < e.done THEN 1 ELSE 0
    BY <1>1, <1>5, <1>6 DEF RunExact
  <2>2. Unpushed(j)' = Unpushed(j)
    BY <1>8 DEF Unpushed, Ahead, WorkUnit, NumWorkUnitSlices, From
  <2>3. \A s \in WorkUnit(j, c.first) : runs[j][s] = 1
    <3>1. \A k \in 0 .. (c.num - 1) :
              k < c.done /\ runs[j][c.first + k * NumWorkerThreads] = IF k < c.done THEN 1 ELSE 0
      BY <1>1, <1>3, <1>6, <1>7 DEF RunExact
    <3> QED
      BY <3>1, <1>7
  <2>4. \A s \in Slices(j) \ Unreported(j) : runs[j][s] = 1
    BY <1>6, <1>15 DEF RunExact
  <2>5. \A s \in Slices(j)' \ Unreported(j)' : runs'[j][s] = 1
    BY <2>3, <2>4, <1>1, <1>12 DEF Slices
  <2>6. \A s \in Unpushed(j)' : runs'[j][s] = 0
    BY <2>2, <1>1, <1>6 DEF RunExact
  <2> QED
    BY <2>1, <2>5, <2>6 DEF RunExact
<1>18. JobExact(j)'
  BY <1>11, <1>13, <1>16, <1>17 DEF JobExact
<1> QED
  BY <1>2, <1>4, <1>9, <1>10, <1>15, <1>18 DEF JobsKept

(* The event of a job is signalled when nothing of it is left.             *)
LEMMA SignalKeeps ==
    ASSUME JobsInv, NEW w \in Workers, SignalCompletion(w)
    PROVE  JobsKept /\ \A i \in Jobs : Safe(i) => Safe(i)'
<1>t. /\ QueueTypes /\ UnitsApart /\ RunsType /\ \A i \in Jobs : JobExact(i)
      /\ signalling \in [Workers -> Jobs \cup {NoJob}] /\ completionEvent \in [Jobs -> BOOLEAN]
  BY JobsInvTypes
<1>c. PICK j \in Jobs : j = signalling[w]
  BY <1>t DEF SignalCompletion
<1>1. /\ completionEvent' = [completionEvent EXCEPT ![j] = TRUE]
      /\ signalling' = [signalling EXCEPT ![w] = NoJob]
      /\ UNCHANGED <<jobQueue, curCommands, completionCounter, pusherVars, runs>>
  BY <1>c DEF SignalCompletion
<1>2. Kept /\ QueueTypes'
  BY <1>1, <1>t, KeepCmds
<1>3. UnitsApart' /\ \A v \in Workers, i \in Jobs : Units(v, i)' = Units(v, i)
  BY <1>2, <1>t, KeepUnits
<1>4. \A i \in Jobs : Ahead(i)' = Ahead(i) /\ i # NoJob
  BY <1>1, JobsAssumption DEF Ahead, pusherVars
<1>5. RunsType'
  BY <1>1, <1>t DEF RunsType, Slices
<1>6. ASSUME NEW i \in Jobs \ {j} PROVE JobExact(i)' /\ (Safe(i)' <=> Safe(i))
  <2>1. \A v \in Workers : signalling'[v] = i <=> signalling[v] = i
    BY <1>1, <1>4, <1>c, <1>t
  <2>2. Stays(i)
    BY <2>1, <1>1, <1>3, <1>4, <1>t DEF Stays
  <2> QED
    BY <2>2, <1>t, JobStays
<1>7. /\ Placed(j) /\ RunExact(j) /\ completionCounter[j] = Cardinality(Unreported(j))
      /\ Held(j) = {} /\ ~Safe(j) /\ \A v \in Workers : signalling[v] = j => v = w
  BY <1>c, <1>t DEF JobExact, SignalExact, Safe
<1>8. Held(j)' = {} /\ Placed(j)'
  <2>1. Placed(j)'
    BY <1>3, <1>4, <1>7 DEF Placed, NumWorkUnitSlices
  <2>2. Held(j)' = Held(j)
    BY <1>3, <1>4 DEF Held
  <2> QED
    BY <2>1, <2>2, <1>7
<1>9. SignalExact(j)'
  <2>1. \A v \in Workers : signalling'[v] # j
    BY <1>1, <1>4, <1>7, <1>t
  <2> QED
    BY <2>1, <1>8 DEF SignalExact
<1>10. Unreported(j)' = Unreported(j)
  BY <1>2, <1>7, <1>8, <1>t, UnreportedUnits, UnreportedUnitsAfter
<1>11. RunExact(j)'
  <2>1. Unpushed(j)' = Unpushed(j)
    BY <1>4 DEF Unpushed, Ahead, WorkUnit, NumWorkUnitSlices, From
  <2> QED
    BY <2>1, <1>1, <1>3, <1>7, <1>10 DEF RunExact, Slices
<1>12. JobExact(j)'
  BY <1>1, <1>7, <1>8, <1>9, <1>10, <1>11 DEF JobExact
<1> QED
  BY <1>2, <1>3, <1>5, <1>6, <1>7, <1>12 DEF JobsKept

-----------------------------------------------------------------------------
(* The calls on the ports.                                                 *)
CallStep(p) == PushJob(p) \/ PushJobChain(p) \/ PushSync(p) \/ WaitDone(p)

(* A step is one of these six kinds.                                       *)
LEMMA StepsOfNext ==
    ASSUME [Next]_vars
    PROVE  \/ QuietStep \/ StartJob \/ PushWorkUnit
           \/ \E w \in Workers : ProcessSlice(w) \/ NotifySlicesComplete(w) \/ SignalCompletion(w)
BY DEF Next, PusherStep, WorkerStep, QuietStep

(* Every step keeps the facts about jobs, and only NotifyStart() ends a    *)
(* job's safety.                                                           *)
LEMMA NextJobs ==
    ASSUME IInv, [Next]_vars
    PROVE  /\ JobsKept
           /\ \A j \in Jobs : Safe(j) => Safe(j)' \/ (StartJob /\ j = curJob)
<1>1. /\ JobsInv /\ (pushing = "push" => NumWorkUnitSlices(curJob, index) > 0)
      /\ pushing = "start" => index = 0 /\ Safe(curJob)
  BY DEF IInv, PusherExact, ToStart
<1>2. CASE QuietStep
  BY <1>1, <1>2, QuietKeeps
<1>3. CASE StartJob
  BY <1>1, <1>3, StartKeeps DEF StartJob
<1>4. CASE PushWorkUnit
  BY <1>1, <1>4, PushKeeps DEF PushWorkUnit
<1>5. ASSUME NEW w \in Workers, ProcessSlice(w) \/ NotifySlicesComplete(w) \/ SignalCompletion(w)
      PROVE  JobsKept /\ \A j \in Jobs : Safe(j) => Safe(j)'
  BY <1>1, <1>5, ProcessKeeps, NotifyKeeps, SignalKeeps
<1> QED
  BY <1>2, <1>3, <1>4, <1>5, StepsOfNext

(* What the assumptions say of one call.                                   *)
LEMMA Calls ==
    ASSUME NEW p \in Ports, NEW i \in DOMAIN Script[p]
    PROVE  LET jobs == Script[p][i].jobs
           IN  /\ jobs \in Seq(Jobs) /\ IsInjective(jobs) /\ Pushes(p, i) \subseteq Jobs
               /\ Script[p][i].call = "PushJob" =>
                     /\ jobs[1] \in Jobs /\ Len(jobs) = 1 /\ jobs[Len(jobs)] = jobs[1]
                     /\ Pushes(p, i) = {jobs[1]}
               /\ Script[p][i].call = "PushJobChain" =>
                     /\ Head(jobs) \in Jobs /\ Tail(jobs) \in Seq(Jobs) /\ jobs[Len(jobs)] \in Jobs
                     /\ Pushes(p, i) = {Head(jobs)} \cup Range(Tail(jobs))
                     /\ IsInjective(Tail(jobs)) /\ Head(jobs) \notin Range(Tail(jobs))
               /\ Script[p][i].call \in {"PushSync", "WaitDone"} => Pushes(p, i) = {}
<1> DEFINE jobs == Script[p][i].jobs
<1>1. /\ jobs \in Seq(Jobs) /\ IsInjective(jobs)
      /\ Script[p][i].call = "PushJob" => Len(jobs) = 1
      /\ Script[p][i].call = "PushJobChain" => jobs # <<>>
  <2> DEFINE Call == [call : {"PushJob", "PushJobChain", "PushSync", "WaitDone"}, jobs : Seq(Jobs)]
  <2>1. Script[p] \in Seq(Call)
    BY ScriptAssumption
  <2>2. Script[p][i] \in Call
    <3> HIDE DEF Call
    <3> QED
      BY <2>1, ElementsOfSeq
  <2>3. jobs \in Seq(Jobs)
    BY <2>2
  <2> QED
    BY <2>3, ScriptAssumption
<1>2. /\ Range(jobs) = {jobs[k] : k \in 1 .. Len(jobs)} /\ Range(jobs) \subseteq Jobs
      /\ \A k \in 1 .. Len(jobs) : jobs[k] \in Jobs
  BY <1>1, ElementsOfSeq
<1>3. Pushes(p, i) = IF Script[p][i].call \in {"PushJob", "PushJobChain"} THEN Range(jobs) ELSE {}
  BY DEF Pushes
<1> HIDE DEF jobs
<1>4. ASSUME Script[p][i].call = "PushJob"
      PROVE  /\ jobs[1] \in Jobs /\ Len(jobs) = 1 /\ jobs[Len(jobs)] = jobs[1]
             /\ Pushes(p, i) = {jobs[1]}
  <2>1. Len(jobs) = 1 /\ 1 .. 1 = {1}
    BY <1>1, <1>4
  <2> QED
    BY <2>1, <1>2, <1>3, <1>4
<1>5. ASSUME Script[p][i].call = "PushJobChain"
      PROVE  /\ Head(jobs) \in Jobs /\ Tail(jobs) \in Seq(Jobs) /\ jobs[Len(jobs)] \in Jobs
             /\ Pushes(p, i) = {Head(jobs)} \cup Range(Tail(jobs))
             /\ IsInjective(Tail(jobs)) /\ Head(jobs) \notin Range(Tail(jobs))
  <2>1. jobs # <<>> /\ Len(jobs) \in 1 .. Len(jobs)
    BY <1>1, <1>5, EmptySeq
  <2>2. /\ Head(jobs) \in Jobs /\ Tail(jobs) \in Seq(Jobs)
        /\ Range(jobs) = {Head(jobs)} \cup Range(Tail(jobs))
    BY <2>1, <1>1, TailElements
  <2>3. IsInjective(Tail(jobs)) /\ Head(jobs) \notin Range(Tail(jobs))
    BY <2>1, <1>1, TailInjective
  <2> QED
    BY <2>1, <2>2, <2>3, <1>2, <1>3, <1>5
<1>6. Pushes(p, i) \subseteq Jobs
  BY <1>2, <1>3
<1>7. Script[p][i].call \in {"PushSync", "WaitDone"} => Pushes(p, i) = {}
  BY <1>3
<1> QED
  BY <1>1, <1>4, <1>5, <1>6, <1>7 DEF jobs

(* What every call leaves alone.                                           *)
LEMMA CallSteps ==
    ASSUME IInv, NEW p \in Ports, CallStep(p)
    PROVE  /\ position[p] \in DOMAIN Script[p] /\ position[p] \in Nat \ {0}
           /\ pushing = "idle" /\ chain = <<>> /\ index = 0 /\ ToStart = {}
           /\ position' = [position EXCEPT ![p] = @ + 1] /\ position'[p] = position[p] + 1
           /\ UNCHANGED <<jobQueue, workerVars, jobVars, nextThreadIndex, index, runs>>
<1>1. \E call \in {"PushJob", "PushJobChain", "PushSync", "WaitDone"} : NextCall(p, call)
  BY DEF CallStep, PushJob, PushJobChain, PushSync, WaitDone
<1>2. /\ pushing = "idle" /\ position[p] <= Len(Script[p])
      /\ position' = [position EXCEPT ![p] = @ + 1]
  BY <1>1 DEF NextCall
<1>3. UNCHANGED <<jobQueue, workerVars, jobVars, nextThreadIndex, index, runs>>
  BY DEF CallStep, PushJob, PushJobChain, PushSync, WaitDone, pusherVars
<1>4. chain = <<>> /\ index = 0
  BY <1>2 DEF IInv, PusherExact
<1>5. position \in [Ports -> Nat] /\ position[p] \in 1 .. (Len(Script[p]) + 1)
  BY DEF IInv, JobsInv, TypeOK
<1>6. Len(Script[p]) \in Nat /\ DOMAIN Script[p] = 1 .. Len(Script[p])
  BY ScriptAssumption
<1>7. position[p] \in DOMAIN Script[p] /\ position[p] \in Nat \ {0} /\ position'[p] = position[p] + 1
  BY <1>2, <1>5, <1>6
<1>8. Range(chain) = {}
  BY <1>4 DEF Range
<1> QED
  BY <1>2, <1>3, <1>4, <1>7, <1>8 DEF ToStart

(* The jobs of the next call are safe to start: by ReuseAssumption their   *)
(* last run has been waited for.                                           *)
LEMMA NextCallSafe ==
    ASSUME IInv, NEW p \in Ports, position[p] \in DOMAIN Script[p], NEW j \in Pushes(p, position[p])
    PROVE  Safe(j)
<1>1. j \in Jobs /\ position[p] \in Nat
  BY Calls DEF IInv, JobsInv, TypeOK
<1>2. Safe(j) \/ Recent(p, j)
  BY <1>1 DEF IInv, Reused
<1>3. ASSUME Recent(p, j) PROVE FALSE
  <2>1. PICK i \in 1 .. (position[p] - 1) :
            /\ j \in Pushes(p, i)
            /\ \A k \in (i + 1) .. (position[p] - 1) : j \notin Pushes(p, k) /\ ~WaitsFor(p, k, i, j)
    BY <1>3 DEF Recent
  <2>2. i \in DOMAIN Script[p] /\ i < position[p]
    <3>1. Len(Script[p]) \in Nat /\ DOMAIN Script[p] = 1 .. Len(Script[p])
      BY ScriptAssumption
    <3> QED
      BY <3>1, <2>1, <1>1
  <2>3. \E n \in (i + 1) .. (position[p] - 1) : WaitsFor(p, n, i, j)
    BY <2>1, <2>2, ReuseAssumption
  <2> QED
    BY <2>1, <2>3
<1> QED
  BY <1>2, <1>3

(* The counter never exceeds the number of slices.                         *)
LEMMA CounterRange ==
    QueueTypes => \A j \in Jobs : JobExact(j) => completionCounter[j] \in 0 .. NumSlices[j]
BY UnreportedCounts DEF JobExact

LEMMA CounterRangeAfter ==
    QueueTypes' => \A j \in Jobs : JobExact(j)' => completionCounter'[j] \in 0 .. NumSlices[j]
<1>1. (QueueTypes => \A j \in Jobs : JobExact(j) => completionCounter[j] \in 0 .. NumSlices[j])'
  BY CounterRange, PTL
<1> QED
  BY <1>1

LEMMA NextTypeOK == IInv /\ [Next]_vars => TypeOK'
<1> SUFFICES ASSUME IInv, [Next]_vars PROVE TypeOK'
  OBVIOUS
<1>t. TypeOK /\ NumWorkerThreads \in Nat \ {0} /\ Workers = 0 .. (NumWorkerThreads - 1)
  BY NumAssumption DEF IInv, JobsInv, Workers
<1>1. QueueTypes' /\ \A j \in Jobs : JobExact(j)'
  BY NextJobs DEF JobsKept
<1>2. \A j \in Jobs : completionCounter'[j] \in Nat /\ completionCounter'[j] <= NumSlices[j]
  <2>1. \A j \in Jobs : completionCounter'[j] \in 0 .. NumSlices[j]
    BY <1>1, CounterRangeAfter
  <2> QED
    BY <2>1, SlicesAssumption
<1> DEFINE JobTypes ==
              /\ signalling \in [Workers -> Jobs \cup {NoJob}]
              /\ completionCounter \in [Jobs -> Nat] /\ completionEvent \in [Jobs -> BOOLEAN]
           PusherTypes ==
              /\ nextThreadIndex \in Workers /\ index \in Workers
              /\ threadIndex \in Workers \cup {InvalidIndex}
              /\ lastPushedJob \in [Ports -> Jobs \cup {NoJob}]
              /\ pushing \in {"idle", "sync", "start", "push"}
              /\ pushing # "idle" => curJob \in Jobs
              /\ chain \in Seq(Jobs)
              /\ position \in [Ports -> Nat]
              /\ \A p \in Ports : position[p] \in 1 .. (Len(Script[p]) + 1)
<1>3. SUFFICES JobTypes' /\ PusherTypes'
  BY <1>1, <1>2, <1>3 DEF QueueTypes, TypeOK
<1>s. JobTypes /\ PusherTypes
  BY <1>t DEF TypeOK
<1>4. CASE UNCHANGED vars
  BY <1>4, <1>s DEF vars, workerVars, jobVars, pusherVars, portVars
<1>5. ASSUME NEW p \in Ports, CallStep(p) PROVE JobTypes' /\ PusherTypes'
  <2>1. /\ position[p] \in DOMAIN Script[p] /\ position[p] \in Nat \ {0}
        /\ pushing = "idle" /\ chain = <<>> /\ index = 0
        /\ position' = [position EXCEPT ![p] = @ + 1] /\ position'[p] = position[p] + 1
        /\ UNCHANGED <<jobQueue, workerVars, jobVars, nextThreadIndex, index, runs>>
    BY <1>5, CallSteps
  <2>2. position' \in [Ports -> Nat] /\ \A q \in Ports : position'[q] \in 1 .. (Len(Script[q]) + 1)
    <3>1. Len(Script[p]) \in Nat /\ DOMAIN Script[p] = 1 .. Len(Script[p])
      BY ScriptAssumption
    <3>2. position'[p] \in 1 .. (Len(Script[p]) + 1) /\ position'[p] \in Nat
      BY <3>1, <2>1
    <3> QED
      BY <3>2, <2>1, <1>s
  <2>3. JobTypes' /\ nextThreadIndex' \in Workers /\ index' \in Workers
    BY <2>1, <1>s DEF workerVars, jobVars
  <2>4. CASE PushJob(p)
    <3>1. Script[p][position[p]].jobs[1] \in Jobs
      BY <2>1, <2>4, Calls DEF PushJob, NextCall
    <3> QED
      BY <2>2, <2>3, <2>4, <3>1, <1>s DEF PushJob
  <2>5. CASE PushJobChain(p)
    <3>1. LET jobs == Script[p][position[p]].jobs
          IN  Head(jobs) \in Jobs /\ Tail(jobs) \in Seq(Jobs) /\ jobs[Len(jobs)] \in Jobs
      BY <2>1, <2>5, Calls DEF PushJobChain, NextCall
    <3> QED
      BY <2>2, <2>3, <2>5, <3>1, <1>s DEF PushJobChain
  <2>6. CASE PushSync(p)
    BY <2>1, <2>2, <2>3, <2>6, <1>s DEF PushSync
  <2>7. CASE WaitDone(p)
    BY <2>2, <2>3, <2>7, <1>s DEF WaitDone, pusherVars
  <2> QED
    BY <1>5, <2>4, <2>5, <2>6, <2>7 DEF CallStep
<1>6. CASE PushSyncCommand
  <2>1. JobTypes' /\ UNCHANGED <<nextThreadIndex, threadIndex, lastPushedJob, position>>
    BY <1>6, <1>s DEF PushSyncCommand, workerVars, jobVars, portVars
  <2>2. index' \in Workers
    BY <1>6, <1>t DEF PushSyncCommand
  <2>3. /\ chain' \in Seq(Jobs) /\ pushing' \in {"idle", "sync", "start", "push"}
        /\ pushing' # "idle" => curJob' \in Jobs
    <3>1. chain # <<>> => Head(chain) \in Jobs /\ Tail(chain) \in Seq(Jobs)
      BY <1>s, TailElements
    <3> QED
      BY <1>6, <1>s, <3>1 DEF PushSyncCommand
  <2> QED
    BY <2>1, <2>2, <2>3, <1>s
<1>7. CASE StartJob
  <2>1. UNCHANGED <<signalling, curJob, chain, threadIndex, index, lastPushedJob, position>>
    BY <1>7 DEF StartJob, workerVars, portVars
  <2>2. pushing = "start" /\ pushing' = "push" /\ nextThreadIndex' \in Workers
    BY <1>7, <1>s DEF StartJob
  <2>3. completionCounter' \in [Jobs -> Nat] /\ completionEvent' \in [Jobs -> BOOLEAN]
    BY <1>7, <1>s, SlicesAssumption DEF StartJob
  <2> QED
    BY <2>1, <2>2, <2>3, <1>s
<1>8. CASE PushWorkUnit
  <2>1. JobTypes' /\ UNCHANGED <<curJob, chain, threadIndex, lastPushedJob, position>>
    BY <1>8, <1>s DEF PushWorkUnit, workerVars, jobVars, portVars
  <2>2. nextThreadIndex' \in Workers
    <3>1. nextThreadIndex' = (nextThreadIndex + 1) % NumWorkerThreads /\ nextThreadIndex + 1 \in Nat
      BY <1>8, <1>s, <1>t DEF PushWorkUnit
    <3> QED
      BY <3>1, <1>t, DivMod
  <2>3. /\ pushing = "push" /\ index' \in Workers /\ pushing' \in {"push", "idle", "sync"}
    BY <1>8, <1>t DEF PushWorkUnit
  <2> QED
    BY <2>1, <2>2, <2>3, <1>s
<1>9. ASSUME NEW w \in Workers, WorkerStep(w) PROVE JobTypes' /\ PusherTypes'
  <2>1. PusherTypes'
    BY <1>9, <1>s DEF WorkerStep, DequeueAll, ProcessSlice, NotifySlicesComplete, SignalCompletion,
                      WaitSync, pusherVars, portVars
  <2>2. CASE DequeueAll(w) \/ ProcessSlice(w) \/ WaitSync(w)
    <3>1. UNCHANGED <<signalling, jobVars>>
      BY <2>2 DEF DequeueAll, ProcessSlice, WaitSync
    <3> QED
      BY <2>1, <3>1, <1>s DEF jobVars
  <2>3. CASE NotifySlicesComplete(w)
    <3>1. /\ \E x : completionCounter' = [completionCounter EXCEPT ![Head(curCommands[w]).job] = x]
          /\ \E x \in {Head(curCommands[w]).job, NoJob} : signalling' = [signalling EXCEPT ![w] = x]
          /\ completionEvent' = completionEvent
      BY <2>3 DEF NotifySlicesComplete
    <3>2. Head(curCommands[w]).job \in Jobs
      <4>1. curCommands[w] \in Seq(Commands) /\ curCommands[w] # <<>>
        BY <2>3, <1>t DEF TypeOK, NotifySlicesComplete, Current
      <4>2. Head(curCommands[w]) \in Commands
        BY <4>1, TailElements
      <4> QED
        BY <4>2 DEF Commands
    <3>3. completionCounter' \in [Jobs -> Nat]
      BY <3>1, <1>2, <1>s
    <3> QED
      BY <2>1, <3>1, <3>2, <3>3, <1>s
  <2>4. CASE SignalCompletion(w)
    BY <2>1, <2>4, <1>s DEF SignalCompletion
  <2> QED
    BY <1>9, <2>2, <2>3, <2>4 DEF WorkerStep
<1> QED
  BY <1>4, <1>5, <1>6, <1>7, <1>8, <1>9 DEF Next, PusherStep, CallStep

-----------------------------------------------------------------------------
(* What the calls so far have pushed and waited for.                       *)
LEMMA NextLastPushed == IInv /\ [Next]_vars => LastPushed'
<1> SUFFICES ASSUME IInv, [Next]_vars PROVE LastPushed'
  OBVIOUS
<1>t. TypeOK /\ LastPushed
  BY DEF IInv, JobsInv
<1>1. CASE UNCHANGED <<position, lastPushedJob>>
  BY <1>1, <1>t DEF LastPushed, Pushes
<1>2. ASSUME NEW p \in Ports, CallStep(p) PROVE LastPushed'
  <2>1. PICK n \in Nat \ {0} : n = position[p]
    BY <1>2, CallSteps
  <2>2. /\ n \in DOMAIN Script[p] /\ position'[p] = n + 1
        /\ \A q \in Ports \ {p} : position'[q] = position[q]
    BY <1>2, <1>t, <2>1, CallSteps DEF TypeOK
  <2>3. /\ \A q \in Ports \ {p} : lastPushedJob'[q] = lastPushedJob[q]
        /\ \/ Pushes(p, n) = {} /\ lastPushedJob'[p] = lastPushedJob[p]
           \/ Pushes(p, n) # {} /\ lastPushedJob'[p] = Script[p][n].jobs[Len(Script[p][n].jobs)]
    <3>1. CASE PushJob(p)
      <4>1. /\ Script[p][n].call = "PushJob"
            /\ lastPushedJob' = [lastPushedJob EXCEPT ![p] = Script[p][n].jobs[1]]
        BY <3>1, <2>1 DEF PushJob, NextCall
      <4> QED
        BY <4>1, <2>2, <1>t, Calls DEF TypeOK
    <3>2. CASE PushJobChain(p)
      <4>1. /\ Script[p][n].call = "PushJobChain"
            /\ lastPushedJob' = [lastPushedJob EXCEPT ![p] = Script[p][n].jobs[Len(Script[p][n].jobs)]]
        BY <3>2, <2>1 DEF PushJobChain, NextCall
      <4> QED
        BY <4>1, <2>2, <1>t, Calls DEF TypeOK
    <3>3. CASE PushSync(p) \/ WaitDone(p)
      <4>1. Script[p][n].call \in {"PushSync", "WaitDone"} /\ lastPushedJob' = lastPushedJob
        BY <3>3, <2>1 DEF PushSync, WaitDone, NextCall
      <4> QED
        BY <4>1, <2>2, Calls
    <3> QED
      BY <1>2, <3>1, <3>2, <3>3 DEF CallStep
  <2>4. ASSUME NEW q \in Ports, NEW i \in 1 .. (position'[q] - 1), Pushes(q, i) # {},
               \A k \in (i + 1) .. (position'[q] - 1) : Pushes(q, k) = {}
        PROVE  lastPushedJob'[q] = Script[q][i].jobs[Len(Script[q][i].jobs)]
    <3>1. CASE q # p
      BY <3>1, <2>2, <2>3, <2>4, <1>t DEF LastPushed
    <3>2. CASE q = p /\ i = n
      BY <3>2, <2>3, <2>4
    <3>3. CASE q = p /\ i # n
      <4>1. i \in 1 .. (n - 1) /\ n \in (i + 1) .. (position'[q] - 1)
        BY <3>3, <2>2
      <4>2. Pushes(p, n) = {} /\ \A k \in (i + 1) .. (n - 1) : Pushes(p, k) = {}
        BY <3>3, <4>1, <2>2, <2>4
      <4> QED
        BY <3>3, <4>1, <4>2, <2>1, <2>3, <2>4, <1>t DEF LastPushed
    <3> QED
      BY <3>1, <3>2, <3>3
  <2> QED
    BY <2>4 DEF LastPushed, Pushes
<1> QED
  BY <1>1, <1>2 DEF Next, PusherStep, WorkerStep, CallStep, StartJob, PushWorkUnit, PushSyncCommand,
       DequeueAll, ProcessSlice, NotifySlicesComplete, SignalCompletion, WaitSync, vars, portVars

(* Once WaitDone() has returned nothing is left of the last job pushed.    *)
LEMMA WaitedSafe ==
    ASSUME IInv, NEW j \in Jobs, completionEvent[j]
    PROVE  Safe(j)
<1>1. SignalExact(j)
  BY DEF IInv, JobsInv, JobExact
<1> QED
  BY <1>1 DEF SignalExact, Safe

(* A job that is not safe was pushed by a call that has not been waited    *)
(* for.                                                                    *)
LEMMA NextReused == IInv /\ [Next]_vars => Reused'
<1> SUFFICES ASSUME IInv, [Next]_vars,
                    NEW p \in Ports, NEW j \in Jobs, NEW m \in DOMAIN Script[p], j \in Pushes(p, m)
             PROVE  Safe(j)' \/ Recent(p, j)'
  BY DEF Reused, Pushes
<1>t. TypeOK /\ LastPushed /\ (Safe(j) \/ Recent(p, j))
  BY DEF IInv, JobsInv, Reused
<1>s. Safe(j) => Safe(j)' \/ (StartJob /\ j = curJob)
  BY NextJobs
<1>1. ASSUME UNCHANGED position PROVE Recent(p, j) => Recent(p, j)'
  BY <1>1 DEF Recent, Pushes, WaitsFor
<1>2. CASE StartJob
  <2>1. CASE j = curJob
    <3>1. j \in ToStart
      BY <1>2, <2>1 DEF StartJob, ToStart
    <3>2. PICK q \in Ports : position[q] > 1 /\ j \in Pushes(q, position[q] - 1)
      BY <3>1 DEF IInv, PusherExact
    <3>3. PICK n \in Nat : n = position[q] - 1 /\ n \in DOMAIN Script[q] /\ n \in 1 .. (position[q] - 1)
      <4>1. position[q] \in 1 .. (Len(Script[q]) + 1)
        BY <1>t DEF TypeOK
      <4>2. Len(Script[q]) \in Nat /\ DOMAIN Script[q] = 1 .. Len(Script[q])
        BY ScriptAssumption
      <4> QED
        BY <3>2, <4>1, <4>2
    <3>4. p = q
      BY <3>2, <3>3, ReuseAssumption
    <3>5. position' = position
      BY <1>2 DEF StartJob, portVars
    <3>6. (n + 1) .. (position'[p] - 1) = {}
      <4>1. position[p] \in Nat
        BY <1>t DEF TypeOK
      <4> QED
        BY <4>1, <3>3, <3>4, <3>5
    <3>7. Recent(p, j)'
      BY <3>2, <3>3, <3>4, <3>5, <3>6 DEF Recent, Pushes
    <3> QED
      BY <3>7
  <2>2. CASE j # curJob
    BY <1>1, <1>2, <1>s, <1>t, <2>2 DEF StartJob, portVars
  <2> QED
    BY <2>1, <2>2
<1>3. CASE UNCHANGED position /\ ~StartJob
  BY <1>1, <1>3, <1>s, <1>t
<1>4. ASSUME NEW q \in Ports, CallStep(q) PROVE Safe(j)' \/ Recent(p, j)'
  <2>0. ~StartJob
    BY <1>4, CallSteps DEF StartJob
  <2>1. PICK n \in Nat \ {0} : n = position[q]
    BY <1>4, CallSteps
  <2>2. /\ n \in DOMAIN Script[q] /\ position'[q] = n + 1
        /\ \A r \in Ports \ {q} : position'[r] = position[r]
    BY <1>4, <1>t, <2>1, CallSteps DEF TypeOK
  <2>3. CASE Safe(j)
    BY <2>0, <2>3, <1>s
  <2>4. CASE Recent(p, j) /\ p # q
    BY <2>2, <2>4 DEF Recent, Pushes, WaitsFor
  <2>5. CASE p = q /\ j \in Pushes(p, n)
    <3>1. n \in 1 .. (position'[p] - 1) /\ (n + 1) .. (position'[p] - 1) = {}
      BY <2>2, <2>5
    <3> QED
      BY <3>1, <2>5 DEF Recent, Pushes
  <2>6. CASE Recent(p, j) /\ p = q /\ j \notin Pushes(p, n)
    <3>1. PICK i \in 1 .. (n - 1) :
              /\ j \in Pushes(p, i)
              /\ \A k \in (i + 1) .. (n - 1) : j \notin Pushes(p, k) /\ ~WaitsFor(p, k, i, j)
      BY <2>1, <2>6 DEF Recent
    <3>2. CASE WaitsFor(p, n, i, j)
      <4>1. /\ Script[p][n].call = "WaitDone" /\ \A k \in (i + 1) .. (n - 1) : Pushes(p, k) = {}
            /\ j = Script[p][i].jobs[Len(Script[p][i].jobs)]
        BY <3>2 DEF WaitsFor
      <4>2. lastPushedJob[p] = j
        BY <4>1, <3>1, <2>1, <2>6, <1>t DEF LastPushed
      <4>3. WaitDone(p)
        BY <4>1, <1>4, <2>1, <2>6 DEF CallStep, PushJob, PushJobChain, PushSync, NextCall
      <4>4. Safe(j)
        BY <4>2, <4>3, WaitedSafe DEF WaitDone
      <4> QED
        BY <4>4, <2>0, <1>s
    <3>3. CASE ~WaitsFor(p, n, i, j)
      <4>1. i \in 1 .. (position'[p] - 1)
        BY <3>1, <2>2, <2>6
      <4>2. \A k \in (i + 1) .. (position'[p] - 1) : j \notin Pushes(p, k) /\ ~WaitsFor(p, k, i, j)
        BY <3>1, <3>3, <2>2, <2>6
      <4> QED
        BY <4>1, <4>2, <3>1 DEF Recent, Pushes, WaitsFor
    <3> QED
      BY <3>2, <3>3
  <2> QED
    BY <2>3, <2>4, <2>5, <2>6, <1>t
<1>5. StartJob \/ (UNCHANGED position /\ ~StartJob) \/ \E q \in Ports : CallStep(q)
  BY DEF Next, PusherStep, WorkerStep, CallStep, StartJob, PushWorkUnit, PushSyncCommand,
       DequeueAll, ProcessSlice, NotifySlicesComplete, SignalCompletion, WaitSync, vars, portVars
<1> QED
  BY <1>2, <1>3, <1>4, <1>5

-----------------------------------------------------------------------------
(* The pushing thread.                                                     *)
LEMMA EmptyChain == Range(<<>>) = {} /\ IsInjective(<<>>)
BY DEF Range, IsInjective

(* The pushing thread starts safe jobs only, each of its chain once.       *)
LEMMA NextPusher == IInv /\ [Next]_vars => PusherExact'
<1> SUFFICES ASSUME IInv, [Next]_vars PROVE PusherExact'
  OBVIOUS
<1>t. /\ TypeOK /\ PusherExact /\ NumWorkerThreads \in Nat \ {0}
      /\ Workers = 0 .. (NumWorkerThreads - 1)
  BY NumAssumption DEF IInv, JobsInv, Workers
<1>s. \A j \in Jobs : Safe(j) => Safe(j)' \/ (StartJob /\ j = curJob)
  BY NextJobs
<1>j. ToStart \subseteq Jobs
  BY <1>t, ElementsOfSeq DEF TypeOK, ToStart
<1>1. CASE UNCHANGED <<pusherVars, position>> /\ ~StartJob
  <2>1. ToStart' = ToStart
    BY <1>1 DEF ToStart, pusherVars
  <2>2. \A j \in ToStart' : Safe(j)'
    BY <2>1, <1>1, <1>j, <1>s, <1>t DEF PusherExact
  <2>3. ToStart' # {} => \E p \in Ports : position'[p] > 1
                                          /\ ToStart' \subseteq Pushes(p, position'[p] - 1)
    BY <2>1, <1>1, <1>t DEF PusherExact
  <2>4. /\ pushing' = "idle" => chain' = <<>>
        /\ pushing' \in {"idle", "start"} => index' = 0
        /\ pushing' = "push" => NumWorkUnitSlices(curJob', index') > 0
        /\ IsInjective(chain') /\ (pushing' # "idle" => curJob' \notin Range(chain'))
    BY <1>1, <1>t DEF PusherExact, pusherVars
  <2> QED
    BY <2>2, <2>3, <2>4 DEF PusherExact, Pushes, NumWorkUnitSlices
<1>2. ASSUME NEW p \in Ports, CallStep(p) PROVE PusherExact'
  <2>1. PICK n \in Nat \ {0} : n = position[p]
    BY <1>2, CallSteps
  <2>2. /\ n \in DOMAIN Script[p] /\ position'[p] = n + 1
        /\ pushing = "idle" /\ chain = <<>> /\ index = 0 /\ index' = 0
    BY <1>2, <2>1, CallSteps
  <2>3. \A j \in Pushes(p, n) : Safe(j)'
    <3>1. ASSUME NEW j \in Pushes(p, n) PROVE Safe(j) /\ j \in Jobs
      BY <2>1, <2>2, NextCallSafe, Calls
    <3> QED
      BY <3>1, <2>2, <1>s DEF StartJob
  <2>4. CASE PushJob(p) \/ PushJobChain(p)
    <3>1. /\ pushing' = "start" /\ IsInjective(chain') /\ curJob' \notin Range(chain')
          /\ Pushes(p, n) = {curJob'} \cup Range(chain')
      <4>1. CASE PushJob(p)
        <5>1. pushing' = "start" /\ chain' = <<>> /\ curJob' = Script[p][n].jobs[1]
          BY <4>1, <2>1, <2>2 DEF PushJob
        <5>2. Pushes(p, n) = {Script[p][n].jobs[1]}
          BY <4>1, <2>1, <2>2, Calls DEF PushJob, NextCall
        <5> QED
          BY <5>1, <5>2, EmptyChain
      <4>2. CASE PushJobChain(p)
        <5>1. /\ pushing' = "start" /\ curJob' = Head(Script[p][n].jobs)
              /\ chain' = Tail(Script[p][n].jobs)
          BY <4>2, <2>1 DEF PushJobChain
        <5>2. Script[p][n].call = "PushJobChain"
          BY <4>2, <2>1 DEF PushJobChain, NextCall
        <5> QED
          BY <5>1, <5>2, <2>2, Calls
      <4> QED
        BY <2>4, <4>1, <4>2
    <3>2. ToStart' = Pushes(p, n)
      BY <3>1 DEF ToStart
    <3>3. position'[p] > 1 /\ ToStart' \subseteq Pushes(p, position'[p] - 1)
      <4>1. position'[p] - 1 = n /\ position'[p] > 1
        BY <2>2
      <4> QED
        BY <4>1, <3>2
    <3>4. \A j \in ToStart' : Safe(j)'
      BY <2>3, <3>2
    <3> QED
      BY <2>2, <3>1, <3>3, <3>4 DEF PusherExact, Pushes
  <2>5. CASE PushSync(p) \/ WaitDone(p)
    <3>1. chain' = <<>> /\ pushing' \in {"idle", "sync"}
      BY <2>2, <2>5 DEF PushSync, WaitDone, pusherVars
    <3>2. ToStart' = {} /\ IsInjective(chain') /\ Range(chain') = {}
      BY <3>1, EmptyChain DEF ToStart
    <3> QED
      BY <2>2, <3>1, <3>2 DEF PusherExact
  <2> QED
    BY <1>2, <2>4, <2>5 DEF CallStep
<1>3. CASE PushSyncCommand
  <2>1. position' = position /\ pushing = "sync" /\ ~StartJob /\ ToStart = Range(chain)
    BY <1>3 DEF PushSyncCommand, portVars, StartJob, ToStart
  <2>2. CASE UNCHANGED <<pushing, curJob, chain>>
    <3>1. ToStart' = ToStart
      BY <2>2 DEF ToStart
    <3>2. \A j \in ToStart' : Safe(j)'
      BY <3>1, <2>1, <1>j, <1>s, <1>t DEF PusherExact
    <3> QED
      BY <2>1, <2>2, <3>1, <3>2, <1>t DEF PusherExact, Pushes
  <2>3. CASE chain = <<>> /\ pushing' = "idle" /\ UNCHANGED <<curJob, chain>> /\ index' = 0
    <3>1. ToStart' = {} /\ IsInjective(chain')
      BY <2>3, EmptyChain DEF ToStart
    <3> QED
      BY <2>3, <3>1 DEF PusherExact
  <2>4. CASE /\ chain # <<>> /\ pushing' = "start" /\ curJob' = Head(chain) /\ chain' = Tail(chain)
             /\ index' = 0
    <3>1. /\ Range(chain) = {Head(chain)} \cup Range(Tail(chain))
          /\ IsInjective(Tail(chain)) /\ Head(chain) \notin Range(Tail(chain))
      BY <2>4, <1>t, TailElements, TailInjective DEF TypeOK, PusherExact
    <3>2. ToStart' = ToStart
      BY <2>1, <2>4, <3>1 DEF ToStart
    <3>3. \A j \in ToStart' : Safe(j)'
      BY <3>2, <2>1, <1>j, <1>s, <1>t DEF PusherExact
    <3> QED
      BY <2>1, <2>4, <3>1, <3>2, <3>3, <1>t DEF PusherExact, Pushes
  <2> QED
    BY <1>3, <2>2, <2>3, <2>4 DEF PushSyncCommand
<1>4. CASE StartJob
  <2>1. /\ position' = position /\ pushing = "start" /\ pushing' = "push"
        /\ UNCHANGED <<curJob, chain, index>>
    BY <1>4 DEF StartJob, portVars
  <2>2. index' = 0 /\ curJob \in Jobs /\ curJob \notin Range(chain) /\ IsInjective(chain)
    BY <2>1, <1>t DEF PusherExact, TypeOK
  <2>3. ToStart' = Range(chain) /\ ToStart' \subseteq ToStart /\ curJob \notin ToStart'
    BY <2>1, <2>2 DEF ToStart
  <2>4. \A j \in ToStart' : Safe(j)'
    BY <2>3, <1>j, <1>s, <1>t DEF PusherExact
  <2>5. NumWorkUnitSlices(curJob, 0) > 0
    BY <2>2, WorkUnits
  <2>6. ToStart' # {} => \E p \in Ports : position'[p] > 1
                                          /\ ToStart' \subseteq Pushes(p, position'[p] - 1)
    BY <2>1, <2>3, <1>t DEF PusherExact
  <2> QED
    BY <2>1, <2>2, <2>4, <2>5, <2>6 DEF PusherExact, NumWorkUnitSlices, Pushes
<1>5. CASE PushWorkUnit
  <2>1. /\ position' = position /\ pushing = "push" /\ ~StartJob /\ UNCHANGED <<curJob, chain>>
        /\ ToStart' = ToStart /\ pushing' # "start"
        /\ pushing' = "idle" => chain = <<>> /\ index' = 0
        /\ pushing' = "push" => NumWorkUnitSlices(curJob, index') > 0
    BY <1>5 DEF PushWorkUnit, portVars, StartJob, ToStart
  <2>2. \A j \in ToStart' : Safe(j)'
    BY <2>1, <1>j, <1>s, <1>t DEF PusherExact
  <2> QED
    BY <2>1, <2>2, <1>t DEF PusherExact, Pushes, NumWorkUnitSlices
<1>6. \/ UNCHANGED <<pusherVars, position>> /\ ~StartJob
      \/ \E p \in Ports : CallStep(p)
      \/ PushSyncCommand \/ StartJob \/ PushWorkUnit
  BY DEF Next, PusherStep, WorkerStep, CallStep, DequeueAll, ProcessSlice, NotifySlicesComplete,
       SignalCompletion, WaitSync, vars, portVars
<1> QED
  BY <1>1, <1>2, <1>3, <1>4, <1>5, <1>6

LEMMA NextIInv == IInv /\ [Next]_vars => IInv'
<1> SUFFICES ASSUME IInv, [Next]_vars PROVE IInv'
  OBVIOUS
<1>1. JobsKept
  BY NextJobs
<1> QED
  BY <1>1, NextTypeOK, NextPusher, NextLastPushed, NextReused DEF IInv, JobsInv, JobsKept

LEMMA InitIInv == Init => IInv
<1> SUFFICES ASSUME Init PROVE IInv
  OBVIOUS
<1>0. 0 \in Workers /\ NumWorkerThreads \in Nat \ {0}
  BY NumAssumption DEF Workers
<1>1. TypeOK
  <2>1. \A p \in Ports : 1 \in 1 .. (Len(Script[p]) + 1)
    <3>1. \A p \in Ports : Len(Script[p]) \in Nat
      BY ScriptAssumption
    <3> QED
      BY <3>1
  <2> QED
    BY <1>0, <2>1, SlicesAssumption DEF Init, TypeOK
<1>2. RunsType
  BY DEF Init, RunsType
<1>3. \A w \in Workers : Cmds(w) = <<>>
  BY ConcatEmptySeq DEF Init, Cmds
<1>4. \A w \in Workers, j \in Jobs : Units(w, j) = {}
  BY EmptyChain DEF Init, Units
<1>5. UnitsApart
  BY <1>3, <1>4 DEF UnitsApart, Along
<1>6. ASSUME NEW j \in Jobs PROVE JobExact(j) /\ Safe(j)
  <2>1. Ahead(j) = {} /\ Held(j) = {}
    BY <1>4 DEF Init, Ahead, Held
  <2>2. j # NoJob
    BY JobsAssumption
  <2>3. Unpushed(j) = {} /\ Unreported(j) = {}
    BY <1>4 DEF Init, Unpushed, Unreported
  <2>4. Safe(j)
    BY <2>1, <2>2 DEF Init, Safe
  <2>5. Placed(j) /\ SignalExact(j)
    BY <1>4, <2>1, <2>2 DEF Init, Placed, SignalExact
  <2>6. RunExact(j)
    BY <1>4, <2>3, <2>4 DEF Init, RunExact
  <2>7. completionCounter[j] = Cardinality(Unreported(j))
    BY <2>3, FS_EmptySet DEF Init
  <2> QED
    BY <2>4, <2>5, <2>6, <2>7 DEF JobExact
<1>7. PusherExact
  <2>1. ToStart = {}
    BY EmptyChain DEF Init, ToStart
  <2> QED
    BY <2>1, EmptyChain DEF Init, PusherExact
<1>8. LastPushed
  BY DEF Init, LastPushed
<1> QED
  BY <1>1, <1>2, <1>5, <1>6, <1>7, <1>8 DEF IInv, JobsInv, Reused

-----------------------------------------------------------------------------
(* The invariant, for every script that keeps ReuseAssumption.             *)
THEOREM SpecIInv == Spec => []IInv
<1> QED
  BY InitIInv, NextIInv, PTL DEF Spec

(* The variables have their types in every reachable state; the counter of *)
(* a job never exceeds the number of its slices.                           *)
THEOREM SpecTypeOK == Spec => []TypeOK
<1>1. IInv => TypeOK
  BY DEF IInv, JobsInv
<1> QED
  BY <1>1, SpecIInv, PTL

(* Completion is reported neither early nor late: NotifyStart() finds the  *)
(* counter at zero, the counter is the number of slices still to be        *)
(* reported, and once the event is set each slice has run exactly once.    *)
THEOREM SpecCompletionExact == Spec => []CompletionExact
<1>1. IInv => CompletionExact
  <2> SUFFICES ASSUME IInv PROVE CompletionExact
    OBVIOUS
  <2>t. QueueTypes /\ TypeOK /\ PusherExact /\ \A j \in Jobs : JobExact(j)
    BY JobsInvTypes DEF IInv, JobsInv
  <2>1. ASSUME NEW j \in Jobs, Safe(j) \/ completionEvent[j] PROVE Unreported(j) = {}
    <3>1. Held(j) = {}
      BY <2>1, <2>t DEF Safe, JobExact, SignalExact
    <3>2. Unreported(j) = UNION {WorkUnit(j, k) : k \in Held(j)}
      BY <2>t, UnreportedUnits DEF JobExact
    <3> QED
      BY <3>1, <3>2
  <2>2. StartAssertion
    <3> SUFFICES ASSUME pushing = "start" PROVE completionCounter[curJob] = 0
      BY DEF StartAssertion
    <3>1. curJob \in Jobs /\ Safe(curJob)
      BY <2>t DEF TypeOK, PusherExact, ToStart
    <3>2. Unreported(curJob) = {}
      BY <3>1, <2>1
    <3>3. completionCounter[curJob] = Cardinality(Unreported(curJob))
      BY <3>1, <2>t DEF JobExact
    <3> QED
      BY <3>2, <3>3, FS_EmptySet
  <2>3. CounterExact
    BY <2>t DEF CounterExact, JobExact
  <2>4. EventMeansDone
    BY <2>1, <2>t DEF EventMeansDone, Done, JobExact, RunExact
  <2> QED
    BY <2>2, <2>3, <2>4 DEF CompletionExact
<1> QED
  BY <1>1, SpecIInv, PTL
=============================================================================
