--------------------------- MODULE UmsLifecycleProofs ---------------------------
(****************************************************************************)
(* Proofs about UmsLifecycle on one processor: an affinity mask of one, hence *)
(* one list, at most one scheduler, and any number of workers.                *)
(****************************************************************************)
EXTENDS UmsLifecycle, UmsUniprocessorProofs

(****************************************************************************)
(* The inductive invariant.                                                   *)
(****************************************************************************)

\* Where main is, and what it has freed so far
AppType ==
  /\ apc \in {"join", "lists", "done", "crashed"}
  /\ apc = "join" => ai \in 0..ncpu
  /\ apc \in {"join", "crashed"} => freed = {}

\* A worker still in WORKERTHREADEXIT after its wake-up keeps its scheduler asleep:
\* no mutex comes before the end of its section
ClearAwaited ==
  \A w \in Worker : wpc[w] = "x_clear" => mutex[w] \in Sched /\ SleepsFor(mutex[w], w)

\* The schedulers before the one main waits for have ended
JoinedEnded ==
  apc = "join" => \A s \in Sched : s < ai => spc[s] = "exited"

\* What holds once main has joined all its schedulers: no worker is in its routine,
\* and none in a request, but perhaps at the very end of the last one
AllOver ==
  /\ \A s \in Sched : spc[s] = "exited"
  /\ wpc \in [Worker -> {"sleep", "x_done", "exited"}]
  /\ \A w \in Worker : wpc[w] = "sleep" => task[w] # TASK_RUNNING

\* The part of the invariant that holds before the last join is over
Before == Inv /\ ClearAwaited /\ JoinedEnded

LifeInv ==
  /\ AppType
  /\ apc = "join" => Before
  /\ apc \in {"lists", "done"} => AllOver

(****************************************************************************)
(* The constants of main.                                                     *)
(****************************************************************************)

\* The processors are numbers, and the schedulers are some of 0..ncpu-1
LEMMA Processors == ncpu \in Nat /\ \A s \in Sched : s \in 0..(ncpu - 1)
<1>1. ncpu \in Nat
  BY LifecycleAssumption, FS_CardinalityType DEF ncpu
<1> QED
  BY <1>1, LifecycleAssumption DEF Started

(****************************************************************************)
(* Steps of the schedulers and the workers.                                   *)
(****************************************************************************)

\* While main joins, a worker reaches the end of its last wake-up only in
\* the section in which it has woken its scheduler
LEMMA StepClearAwaited == Inv /\ ClearAwaited /\ [UniNext]_vars => ClearAwaited'
<1> SUFFICES ASSUME Inv, ClearAwaited, [UniNext]_vars, NEW w \in Worker, wpc'[w] = "x_clear"
             PROVE  mutex'[w] \in Sched /\ SleepsFor(mutex[w], w)' /\ mutex'[w] = mutex[w]
  BY DEF ClearAwaited, SleepsFor, kwtOf
<1>0. TypeOK
  BY DEF Inv, OwnerInv
<1>1. CASE UNCHANGED vars
  BY <1>1 DEF vars, kwtVars, schedVars, workerVars, ClearAwaited, SleepsFor, kwtOf
<1>2. ASSUME NEW s \in Sched, HasProcessor(s), SchedStep(s) PROVE FALSE
  BY <1>0, <1>2, OneScheduler, AloneScheduler DEF WorkerSectionPC
<1>3. ASSUME NEW v \in Worker, HasProcessor(v), WorkerStep(v)
      PROVE  mutex'[w] \in Sched /\ SleepsFor(mutex[w], w)' /\ mutex'[w] = mutex[w]
  <2>1. UNCHANGED <<spc, batch, mutex>>
    BY <1>0, <1>3, OneWorker
  <2>2. CASE v # w
    BY <1>0, <1>3, <2>2, OneWorker, AloneWorker DEF WorkerSectionPC
  <2>3. CASE v = w
    <3>1. wpc[w] = "x_wake"
      BY <1>0, <1>3, <2>3, SMTT(60)
      DEF TypeOK, WorkerStep, Yield, Exit, Park, Resume, SetKwtIdle, SetKwtExiting,
          DecNthreads, EndWorker, LookUpScheduler, WakeUpScheduler, ClearScheduler
    <3> QED
      BY <2>1, <3>1 DEF Inv, UniInv, ExitAwaited, SleepsFor, kwtOf
  <2> QED
    BY <2>2, <2>3
<1> QED
  BY <1>1, <1>2, <1>3 DEF UniNext, UniSchedStep, UniWorkerStep

\* A scheduler that has ended takes no step
LEMMA EndedStays ==
  ASSUME TypeOK, [Next]_vars, NEW s \in Sched, spc[s] = "exited"
  PROVE  spc'[s] = "exited"
<1>1. ~SchedStep(s)
  BY SMTT(60)
  DEF SchedStep, Dequeue, Execute,
      PrepareToWait, CheckReady, DequeueWoken, GetWtReadyQueue, Advance, ClaimWorker,
      PassWorker, TidFreed, DecThreadsReady, ScanFreed, FinishScan, SkipUnknown, SetKstRunning,
      SetKwtRunning, WakeUpWorker, SetTaskState, TestWorker, ExecuteWoken, SetKstIdle,
      IncThreadsReady, WakeUpSchedulers, UnlockWorker, Leave
<1>2. CASE UNCHANGED vars
  BY <1>2 DEF vars, schedVars
<1>3. ASSUME NEW t \in Sched \ {s}, SchedStep(t) PROVE spc'[s] = "exited"
  BY <1>3, OneScheduler
<1>4. ASSUME NEW w \in Worker, WorkerStep(w) PROVE spc'[s] = "exited"
  BY <1>4, OneWorker
<1> QED
  BY <1>1, <1>2, <1>3, <1>4 DEF Next

\* When everything is over a worker can at most end
LEMMA StepAllOver == AllOver /\ [UniNext]_vars => AllOver'
<1> SUFFICES ASSUME AllOver, [UniNext]_vars PROVE AllOver'
  OBVIOUS
<1>1. CASE UNCHANGED vars
  BY <1>1 DEF AllOver, vars, schedVars, workerVars
<1>2. ASSUME NEW s \in Sched, SchedStep(s) PROVE FALSE
  <2>1. spc[s] = "exited"
    BY DEF AllOver
  <2> QED
    BY <1>2, <2>1, SMTT(60)
    DEF SchedStep, Dequeue, Execute,
        PrepareToWait, CheckReady, DequeueWoken, GetWtReadyQueue, Advance, ClaimWorker,
        PassWorker, TidFreed, DecThreadsReady, ScanFreed, FinishScan, SkipUnknown, SetKstRunning,
        SetKwtRunning, WakeUpWorker, SetTaskState, TestWorker, ExecuteWoken, SetKstIdle,
        IncThreadsReady, WakeUpSchedulers, UnlockWorker, Leave
<1>3. ASSUME NEW v \in Worker, WorkerStep(v) PROVE AllOver'
  <2>1. EndWorker(v)
    BY <1>3, SMTT(60)
    DEF AllOver, WorkerStep, Yield, Exit, Park, Resume, SetKwtIdle, SetKwtExiting,
        DecNthreads, LookUpScheduler, WakeUpScheduler, ClearScheduler
  <2> QED
    BY <2>1 DEF AllOver, EndWorker, schedVars
<1> QED
  BY <1>1, <1>2, <1>3 DEF UniNext, UniSchedStep, UniWorkerStep

(****************************************************************************)
(* Steps of main.                                                             *)
(****************************************************************************)

\* A step of main that changes nothing of the dispatch
LEMMA InvUnchanged == Inv /\ UNCHANGED vars => Inv'
BY StepInv

\* The joins: main goes on when the scheduler has ended, or where there is none
LEMMA JoinKeeps ==
  ASSUME AppType, Before, NEW cpu \in 0..(ncpu - 1), Join(cpu)
  PROVE  AppType' /\ Before'
<1>1. UNCHANGED <<vars, freed>> /\ apc = "join" /\ ai = cpu
  BY DEF Join
<1>2. /\ apc' \in {"join", "crashed"}
      /\ apc' = "join" => ai' \in 0..ncpu
      /\ apc' = "join" => \A s \in Sched : s < ai' => spc[s] = "exited"
  <2>1. cpu \in Sched => spc[cpu] = "exited"
    BY DEF Join, Before, Inv, UniInv, ScanLive
  <2>2. (apc' = "join" /\ ai' = cpu + 1) \/ apc' = "crashed"
    BY <1>1 DEF Join, AGoto
  <2> QED
    BY <1>1, <2>1, <2>2, Processors DEF Before, JoinedEnded
<1>3. Inv'
  BY <1>1, InvUnchanged DEF Before
<1>4. ClearAwaited' /\ AppType'
  BY <1>1, <1>2 DEF Before, ClearAwaited, SleepsFor, kwtOf, AppType,
                    vars, kwtVars, schedVars, workerVars
<1>5. JoinedEnded'
  BY <1>1, <1>2 DEF JoinedEnded, vars, schedVars
<1> QED
  BY <1>3, <1>4, <1>5 DEF Before

\* When all schedulers have ended no worker waits for anybody: the scheduler that
\* executes it would not have left
LEMMA NobodyLeft ==
  ASSUME Inv, ClearAwaited, \A s \in Sched : spc[s] = "exited"
  PROVE  AllOver
<1>1. ASSUME NEW w \in Worker
      PROVE  /\ wpc[w] \in {"sleep", "x_done", "exited"}
             /\ wpc[w] = "sleep" => task[w] # TASK_RUNNING
  <2>1. ~Released(w)
    BY DEF Inv, OwnerInv, ReleasedIsAwaited, Awaits, AwaitPC
  <2>2. wpc[w] \notin YieldPC \cup {"park", "x_dec", "x_read", "x_wake", "x_clear"}
    BY DEF Inv, UniInv, YieldAwaited, ExitAwaited, ClearAwaited, SleepsFor
  <2>3. wpc[w] # "x_oops" /\ wpc[w] \in WorkerPC
    BY DEF Inv, UniInv, MarkTells, OwnerInv, TypeOK
  <2> QED
    BY <2>1, <2>2, <2>3 DEF Released, WorkerPC, YieldPC, ExitPC
<1>2. wpc \in [Worker -> {"sleep", "x_done", "exited"}]
  BY <1>1 DEF Inv, OwnerInv, TypeOK
<1> QED
  BY <1>1, <1>2 DEF AllOver

(****************************************************************************)
(* LifeInv is inductive.                                                      *)
(****************************************************************************)

\* Before the first join
LEMMA InitLifeInv == LifeInit => LifeInv
<1> SUFFICES ASSUME LifeInit PROVE LifeInv
  OBVIOUS
<1>1. Inv /\ Init /\ apc = "join" /\ ai = 0 /\ freed = {}
  BY InitInv DEF LifeInit
<1>2. AppType
  BY <1>1, Processors DEF AppType
<1>3. ClearAwaited
  BY <1>1, AllParked DEF ClearAwaited, Init
<1>4. JoinedEnded
  BY <1>1, Processors DEF JoinedEnded
<1> QED
  BY <1>1, <1>2, <1>3, <1>4 DEF LifeInv, Before

\* A step of a scheduler or a worker
LEMMA ThreadKeepsLifeInv == LifeInv /\ [UniNext]_vars /\ UNCHANGED appVars => LifeInv'
<1> SUFFICES ASSUME LifeInv, [UniNext]_vars, UNCHANGED appVars PROVE LifeInv'
  OBVIOUS
<1>1. AppType'
  BY DEF LifeInv, AppType, appVars
<1>2. AllOver => AllOver'
  BY StepAllOver
<1>3. ASSUME Before PROVE Before'
  <2>1. Inv' /\ ClearAwaited'
    BY <1>3, StepInv, StepClearAwaited DEF Before
  <2>2. TypeOK /\ [Next]_vars
    BY <1>3, UniStep DEF Before, Inv, OwnerInv
  <2>3. JoinedEnded'
    BY <1>3, <2>2, EndedStays DEF Before, JoinedEnded, appVars
  <2> QED
    BY <2>1, <2>3 DEF Before
<1> QED
  BY <1>1, <1>2, <1>3 DEF LifeInv, appVars

\* A step of main
LEMMA MainKeepsLifeInv == LifeInv /\ AppStep => LifeInv'
<1> SUFFICES ASSUME LifeInv, AppStep PROVE LifeInv'
  OBVIOUS
<1>1. CASE \E cpu \in 0..(ncpu - 1) : Join(cpu)
  <2>1. AppType /\ Before /\ apc' \in {"join", "crashed"}
    BY <1>1 DEF LifeInv, Join, AGoto
  <2>2. AppType' /\ Before'
    BY <1>1, <2>1, JoinKeeps
  <2> QED
    BY <2>1, <2>2 DEF LifeInv
<1>2. CASE Joined
  <2>1. Before /\ apc = "join" /\ ai = ncpu /\ apc' = "lists" /\ UNCHANGED <<vars, freed>>
    BY <1>2 DEF LifeInv, Joined, AGoto
  <2>2. \A s \in Sched : spc[s] = "exited"
    BY <2>1, Processors DEF Before, JoinedEnded
  <2>3. AllOver'
    BY <2>1, <2>2, NobodyLeft DEF Before, AllOver, vars, schedVars, workerVars
  <2> QED
    BY <2>1, <2>3 DEF LifeInv, AppType
<1>3. CASE DestroyList \/ (\E w \in Worker : DestroyWorker(w)) \/ Return
  <2>1. /\ apc = "lists" /\ apc' \in {"lists", "done"} /\ UNCHANGED <<spc, wpc, task>>
    BY <1>3 DEF DestroyList, DestroyWorker, Return, AGoto, vars, schedVars, workerVars
  <2> QED
    BY <2>1 DEF LifeInv, AppType, AllOver
<1> QED
  BY <1>1, <1>2, <1>3 DEF AppStep

\* On one processor every step of the life keeps it
LEMMA LifeInvariance == ASSUME ncpu = 1 PROVE LifeSpec => []LifeInv
<1>1. LifeInv /\ [LifeNext]_lifeVars => LifeInv'
  <2> SUFFICES ASSUME LifeInv, [LifeNext]_lifeVars PROVE LifeInv'
    OBVIOUS
  <2>1. CASE LifeAppStep
    BY <2>1, MainKeepsLifeInv DEF LifeAppStep
  <2>2. CASE (\E s \in Sched : LifeSchedStep(s)) \/ (\E w \in Worker : LifeWorkerStep(w))
    <3>1. UniNext /\ UNCHANGED appVars
      BY <2>2 DEF LifeSchedStep, LifeWorkerStep, Scheduled, UniNext, UniSchedStep, UniWorkerStep
    <3> QED
      BY <3>1, ThreadKeepsLifeInv
  <2>3. CASE UNCHANGED lifeVars
    BY <2>3, ThreadKeepsLifeInv DEF lifeVars
  <2> QED
    BY <2>1, <2>2, <2>3 DEF LifeNext
<1> QED
  BY <1>1, InitLifeInv, PTL DEF LifeSpec

(****************************************************************************)
(* The theorems.                                                              *)
(****************************************************************************)

\* COMPLLISTDESTROY and WORKERTHREADDESTROY free nothing a worker still uses, although
\* main never joins a worker: whatever main has freed, every scheduler has left, and
\* a scheduler that executes a worker leaves only after the worker's last wake-up.
THEOREM NothingFreedInUse == ASSUME ncpu = 1 PROVE LifeSpec => []NoFreedUse
<1>1. LifeInv => NoFreedUse
  <2> SUFFICES ASSUME LifeInv PROVE NoFreedUse
    OBVIOUS
  <2>1. CASE apc \in {"lists", "done"}
    <3>1. \A w \in Worker : wpc[w] \in {"sleep", "x_done", "exited"}
      BY <2>1 DEF LifeInv, AllOver
    <3> QED
      BY <3>1 DEF NoFreedUse, YieldPC, ExitPC
  <2>2. CASE apc \in {"join", "crashed"}
    BY <2>2 DEF LifeInv, AppType, NoFreedUse
  <2> QED
    BY <2>1, <2>2 DEF LifeInv, AppType
<1> QED
  BY <1>1, LifeInvariance, PTL

=================================================================================
