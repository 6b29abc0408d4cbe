------------------------- MODULE UmsUniprocessorProofs -------------------------
(****************************************************************************)
(* What the documentation says of the dispatch protocol, proved for one       *)
(* processor: for every number of schedulers, workers and completion lists,   *)
(* and wherever the processor is switched outside the sections.               *)
(****************************************************************************)
EXTENDS UmsUniprocessor, UmsReadyProofs

(****************************************************************************)
(* The inductive invariant.  Each part relates where a worker is in its       *)
(* routine or ioctl to where the scheduler that owns its kwt->mutex is.       *)
(****************************************************************************)

\* No two threads are in a section
OneSection == \A t, u \in InSection : t = u

\* The mark of a worker says where it is, and no ioctl of a worker has faulted
MarkTells ==
  \A w \in Worker :
    /\ wpc[w] \notin {"y_oops", "x_oops"}
    /\ wpc[w] \in YieldPC \cup {"park"} => state[w] = WT_IDLE
    /\ wpc[w] \in ExitPC => state[w] = WT_EXITING

\* A worker marked as running is executed by the scheduler it names as its own,
\* and is awake as soon as that scheduler waits for it
RunningDispatched ==
  \A w \in Worker : state[w] = WT_RUNNING =>
    /\ mutex[w] \in Sched /\ curr_sched_tid[w] = mutex[w]
    /\ batch[mutex[w]] # <<>> /\ kwtOf(mutex[w]) = w
    /\ \/ spc[mutex[w]] = "wake" /\ wpc[w] = "sleep" /\ task[w] = TASK_INTERRUPTIBLE
       \/ spc[mutex[w]] \in AwaitPC /\ Released(w)
    /\ spc[mutex[w]] \in {"test", "asleep"} => task[mutex[w]] = TASK_INTERRUPTIBLE

\* s sleeps in wait_worker_thread on behalf of w
SleepsFor(s, w) == spc[s] = "asleep" /\ batch[s] # <<>> /\ kwtOf(s) = w

\* A yield finds its scheduler asleep, and wakes that one
YieldAwaited ==
  \A w \in Worker : wpc[w] \in YieldPC \cup {"park"} =>
    /\ mutex[w] \in Sched /\ SleepsFor(mutex[w], w)
    /\ wpc[w] \in {"y_read", "y_wake"} => curr_sched_tid[w] = mutex[w]
    /\ wpc[w] = "y_wake" => waker[w] = mutex[w]

\* So does an exit, and until then nobody else wakes the scheduler
ExitAwaited ==
  \A w \in Worker : wpc[w] \in {"x_dec", "x_read", "x_wake"} =>
    /\ mutex[w] \in Sched /\ SleepsFor(mutex[w], w)
    /\ task[mutex[w]] = TASK_INTERRUPTIBLE /\ curr_sched_tid[w] = mutex[w]
    /\ wpc[w] = "x_wake" => waker[w] = mutex[w]

\* A worker that has ended is locked only by the EXECUTEUMSTHREAD it ended in
ExitHeld ==
  \A w \in Worker : wpc[w] \in ExitPC /\ mutex[w] # None =>
    /\ spc[mutex[w]] \in AwaitPC \cup ReleasePC
    /\ batch[mutex[w]] # <<>> /\ kwtOf(mutex[w]) = w

\* and is in no queue but those its exit has still to visit
ExitGone ==
  \A w \in Worker, c \in CL : wpc[w] \in ExitPC /\ w \in wt_ready_queue[c] =>
    wpc[w] = "x_dec" /\ \E i \in 1..Len(wlists[w]) : wlists[w][i] = c

AtRest(w) == wpc[w] = "sleep" /\ state[w] = WT_IDLE

\* The first worker of the batch is the one s executes
Executing(s) == spc[s] \in {"wake"} \cup AwaitPC \cup ReleasePC

\* Every dequeued worker sleeps and is idle until it is executed
BatchAtRest ==
  \A s \in Sched : \A i \in 1..Len(batch[s]) :
    (i = 1 /\ Executing(s)) \/ AtRest(batch[s][i])

\* A scan stands on an element of the queue: on one it has just moved on to, or on
\* that of the worker it has locked or passed, which cannot exit
ScanLive ==
  \A s \in Sched :
    /\ spc[s] # "oops"
    /\ spc[s] = "scan" => CursorLive(s)
    /\ spc[s] = "lock" => cursor[s] \in wt_ready_queue[kclOf(s)]
    /\ spc[s] = "dec" => \E i \in 1..Len(batch[s]) : batch[s][i] = cursor[s]
    /\ spc[s] \notin {"scan", "lock", "dec"} => cursor[s] = None

\* An element belongs to a worker of the list
QueuedListed == \A c \in CL : \A w \in wt_ready_queue[c] : c \in Lists(w)

\* The element a scan has moved on to is there until its worker exits
DecQueued ==
  \A s \in Sched, w \in Worker : spc[s] \in {"lock", "dec"} /\ cursor[s] = w =>
    wpc[w] \in ExitPC \/ w \in wt_ready_queue[kclOf(s)]

\* What the parts above need of the protocol on any number of processors.  It says
\* nothing of the counters, nor of the lists a worker has been added to.
OwnerInv ==
  /\ TypeOK
  /\ BatchOwned
  /\ WakesMarked
  /\ ReleasedIsAwaited
  /\ ExitMarked
  /\ QueuedListed
  /\ DecQueued

UniInv ==
  /\ OneSection
  /\ MarkTells
  /\ RunningDispatched
  /\ YieldAwaited
  /\ ExitAwaited
  /\ ExitHeld
  /\ ExitGone
  /\ BatchAtRest
  /\ ScanLive

(****************************************************************************)
(* Who runs while a thread is in a section.                                   *)
(****************************************************************************)

\* While a scheduler takes a step no other thread is in a section
LEMMA AloneScheduler ==
  ASSUME NEW s \in Sched, HasProcessor(s)
  PROVE  /\ \A w \in Worker : wpc[w] \notin WorkerSectionPC
         /\ \A t \in Sched \ {s} : spc[t] \notin SchedSectionPC
BY ThreadAssumption DEF HasProcessor, InSection

\* The same of a worker
LEMMA AloneWorker ==
  ASSUME NEW v \in Worker, HasProcessor(v)
  PROVE  /\ \A t \in Sched : spc[t] \notin SchedSectionPC
         /\ \A w \in Worker \ {v} : wpc[w] \notin WorkerSectionPC
BY ThreadAssumption DEF HasProcessor, InSection

\* A step on one processor is a step of the dispatch protocol
LEMMA UniStep == [UniNext]_vars => [Next]_vars
BY DEF UniNext, UniSchedStep, UniWorkerStep, Next

\* and so is everything proved of it
LEMMA UniIsDispatch == UniSpec => Spec
BY UniStep, PTL DEF UniSpec, Spec

\* A thread that steps was alone in its section, and no other enters one
LEMMA StepOneSection == OwnerInv /\ OneSection /\ [UniNext]_vars => OneSection'
<1> SUFFICES ASSUME OwnerInv, OneSection, [UniNext]_vars PROVE OneSection'
  OBVIOUS
<1>1. ASSUME NEW s \in Sched, HasProcessor(s), SchedStep(s) PROVE \A t \in InSection' : t = s
  BY <1>1, AloneScheduler, OneScheduler DEF InSection, OwnerInv
<1>2. ASSUME NEW v \in Worker, HasProcessor(v), WorkerStep(v) PROVE \A t \in InSection' : t = v
  BY <1>2, AloneWorker, OneWorker DEF InSection, OwnerInv
<1>3. CASE UNCHANGED vars
  BY <1>3 DEF OneSection, InSection, vars, schedVars, workerVars
<1> QED
  BY <1>1, <1>2, <1>3 DEF OneSection, UniNext, UniSchedStep, UniWorkerStep

(****************************************************************************)
(* What a step leaves alone.                                                  *)
(****************************************************************************)

\* A scheduler names itself to the worker it executes; it wakes other schedulers
\* only out of the dequeue
LEMMA OneSchedulerNames ==
  ASSUME TypeOK, NEW s \in Sched, SchedStep(s)
  PROVE  /\ waker' = waker
         /\ \A w \in Worker : \/ curr_sched_tid'[w] = curr_sched_tid[w]
                              \/ SetKwtRunning(s) /\ w = kwtOf(s)
         /\ \A t \in Sched \ {s} : task'[t] = task[t] \/ spc[t] \in {"check", "blocked"}
<1>1. waker' = waker
  BY SMTT(60)
  DEF SchedStep, Dequeue, Execute, workerVars,
      PrepareToWait, CheckReady, DequeueWoken, GetWtReadyQueue, Advance, ClaimWorker, PassWorker, TidFreed,
      DecThreadsReady, ScanFreed, FinishScan, SkipUnknown, SetKstRunning,
      SetKwtRunning, WakeUpWorker, SetTaskState, TestWorker, ExecuteWoken, SetKstIdle,
      IncThreadsReady, WakeUpSchedulers, UnlockWorker, Leave
<1>2. \A w \in Worker : \/ curr_sched_tid'[w] = curr_sched_tid[w]
                        \/ SetKwtRunning(s) /\ w = kwtOf(s)
  BY SMTT(60)
  DEF TypeOK, SchedStep, Dequeue, Execute, kwtVars,
      PrepareToWait, CheckReady, DequeueWoken, GetWtReadyQueue, Advance, ClaimWorker, PassWorker, TidFreed,
      DecThreadsReady, ScanFreed, FinishScan, SkipUnknown, SetKstRunning,
      SetKwtRunning, WakeUpWorker, SetTaskState, TestWorker, ExecuteWoken, SetKstIdle,
      IncThreadsReady, WakeUpSchedulers, UnlockWorker, Leave
<1>3. CASE WakeUpWorker(s)
  <2>1. batch[s] # <<>> => kwtOf(s) \in Worker
    BY BatchType
  <2>2. \A t \in Sched : task'[t] = task[t]
    BY <1>3, <2>1, ThreadAssumption DEF WakeUpWorker, wake_up_process, TypeOK
  <2> QED
    BY <1>1, <1>2, <2>2
<1>4. CASE ~WakeUpWorker(s)
  <2>1. \A t \in Sched \ {s} : task'[t] = task[t] \/ spc[t] \in {"check", "blocked"}
    BY <1>4, SMTT(60)
    DEF TypeOK, SchedStep, Dequeue, Execute, set_current_state, wake_up_interruptible_all,
        PrepareToWait, CheckReady, DequeueWoken, GetWtReadyQueue, Advance, ClaimWorker, PassWorker, TidFreed,
        DecThreadsReady, ScanFreed, FinishScan, SkipUnknown, SetKstRunning,
        SetKwtRunning, SetTaskState, TestWorker, ExecuteWoken, SetKstIdle,
        IncThreadsReady, WakeUpSchedulers, UnlockWorker, Leave
  <2> QED
    BY <1>1, <1>2, <2>1
<1> QED
  BY <1>3, <1>4

\* A worker wakes the scheduler it has looked up, and touches no other worker
LEMMA OneWorkerNames ==
  ASSUME TypeOK, NEW v \in Worker, WorkerStep(v)
  PROVE  /\ \A w \in Worker \ {v} : /\ curr_sched_tid'[w] = curr_sched_tid[w]
                                    /\ waker'[w] = waker[w]
         /\ \A t \in Sched : \/ task'[t] = task[t]
                             \/ wpc[v] \in {"y_wake", "x_wake"} /\ waker[v] = t
BY ThreadAssumption, SMTT(60)
   DEF TypeOK, WorkerStep, Yield, Exit, kwtVars, schedVars,
       set_current_state, wake_up_process,
       Park, Resume, SetKwtIdle, SetKwtExiting, DecNthreads, EndWorker, LookUpScheduler,
       WakeUpScheduler, ClearScheduler

\* A locked worker stays locked by the same scheduler through a step of another
LEMMA HeldThrough ==
  ASSUME OwnerInv, NEW s \in Sched, SchedStep(s), NEW w \in Worker, mutex[w] \in Sched \ {s}
  PROVE  /\ mutex'[w] = mutex[w] /\ state'[w] = state[w] /\ wpc'[w] = wpc[w]
         /\ curr_sched_tid'[w] = curr_sched_tid[w] /\ task'[w] = task[w]
         /\ spc'[mutex[w]] = spc[mutex[w]] /\ batch'[mutex[w]] = batch[mutex[w]]
<1>1. batch[s] # <<>> => mutex[kwtOf(s)] = s
  BY HeadOwned DEF OwnerInv
<1>2. ~ClaimWorker(s, w)
  BY ThreadAssumption DEF ClaimWorker, CanClaim
<1>3. mutex'[w] = mutex[w]
  BY <1>1, <1>2, OneSchedulerMutex DEF OwnerInv, UnlockWorker
<1>4. state'[w] = state[w] /\ curr_sched_tid'[w] = curr_sched_tid[w]
  BY <1>1, OneSchedulerWalk, OneSchedulerNames DEF OwnerInv, SetKwtRunning
<1>5. task'[w] = task[w]
  BY <1>1, OneSchedulerTask DEF OwnerInv, WakeUpWorker
<1> QED
  BY <1>3, <1>4, <1>5, OneScheduler DEF OwnerInv

\* A free worker of a queue sleeps and is idle: what a dequeue locks is at rest
LEMMA FreeAtRest ==
  ASSUME OwnerInv, UniInv, NEW w \in Worker, mutex[w] = None,
         NEW c \in CL, w \in wt_ready_queue[c]
  PROVE  AtRest(w)
<1>1. mutex[w] \notin Sched
  BY ThreadAssumption
<1>2. wpc[w] # "user" /\ state[w] # WT_RUNNING /\ wpc[w] \notin YieldPC \cup {"park"}
  BY <1>1 DEF OwnerInv, ReleasedIsAwaited, Released, UniInv, RunningDispatched, YieldAwaited
<1>3. wpc[w] \notin ExitPC
  BY <1>1 DEF UniInv, ExitGone, ExitAwaited
<1>4. wpc[w] = "sleep"
  BY <1>2, <1>3 DEF OwnerInv, TypeOK, WorkerPC
<1>5. state[w] # WT_EXITING
  BY <1>3 DEF OwnerInv, ExitMarked
<1> QED
  BY <1>2, <1>4, <1>5 DEF AtRest, OwnerInv, TypeOK

(****************************************************************************)
(* UniInv is inductive together with OwnerInv.                                *)
(****************************************************************************)

Inv == OwnerInv /\ UniInv

\* What a worker does to itself at each of its control points
LEMMA WorkerMoves ==
  ASSUME TypeOK, NEW w \in Worker, WorkerStep(w)
  PROVE  \/ wpc[w] = "park" /\ wpc'[w] = "sleep" /\ state'[w] = state[w]
            /\ task'[w] = TASK_INTERRUPTIBLE
         \/ wpc[w] = "sleep" /\ task[w] = TASK_RUNNING /\ wpc'[w] = "user"
            /\ state'[w] = state[w] /\ UNCHANGED <<task, curr_sched_tid>>
         \/ wpc[w] = "user" /\ wpc'[w] = "y_read" /\ state'[w] = WT_IDLE
            /\ UNCHANGED <<task, curr_sched_tid>>
         \/ wpc[w] = "user" /\ wpc'[w] = "x_dec" /\ state'[w] = WT_EXITING
            /\ wlists'[w] = clid_list[w] /\ UNCHANGED <<task, curr_sched_tid>>
         \/ DecNthreads(w) /\ wpc'[w] \in {"x_dec", "x_read"} /\ state'[w] = state[w]
            /\ UNCHANGED <<task, curr_sched_tid>>
         \/ LookUpScheduler(w, "y_read", "y_wake") /\ wpc'[w] = "y_wake"
            /\ state'[w] = state[w] /\ UNCHANGED <<task, curr_sched_tid>>
         \/ LookUpScheduler(w, "x_read", "x_wake") /\ wpc'[w] = "x_wake"
            /\ state'[w] = state[w] /\ UNCHANGED <<task, curr_sched_tid>>
         \/ wpc[w] = "y_wake" /\ state'[w] = state[w]
            /\ \/ waker[w] # None /\ wpc'[w] = "y_clear"
               \/ waker[w] = None /\ wpc'[w] = "y_oops"
         \/ wpc[w] = "x_wake" /\ state'[w] = state[w]
            /\ \/ waker[w] # None /\ wpc'[w] = "x_clear"
               \/ waker[w] = None /\ wpc'[w] = "x_oops"
         \/ wpc[w] = "y_clear" /\ wpc'[w] = "park" /\ state'[w] = state[w]
         \/ wpc[w] = "x_clear" /\ wpc'[w] = "x_done" /\ state'[w] = state[w]
         \/ wpc[w] = "x_done" /\ wpc'[w] = "exited" /\ state'[w] = state[w]
BY ThreadAssumption, SMTT(60)
   DEF TypeOK, WorkerStep, Yield, Exit, kwtVars, set_current_state,
       Park, Resume, SetKwtIdle, SetKwtExiting, DecNthreads, EndWorker, LookUpScheduler,
       WakeUpScheduler, ClearScheduler

\* What the step changes is recorded in the mark, and wake_up_scheduler has a task
LEMMA StepMarkTells == Inv /\ [UniNext]_vars => MarkTells'
<1> SUFFICES ASSUME Inv, [UniNext]_vars, NEW w \in Worker
             PROVE  /\ wpc'[w] \notin {"y_oops", "x_oops"}
                    /\ wpc'[w] \in YieldPC \cup {"park"} => state'[w] = WT_IDLE
                    /\ wpc'[w] \in ExitPC => state'[w] = WT_EXITING
  BY DEF MarkTells
<1> DEFINE Told == /\ wpc[w] \notin {"y_oops", "x_oops"}
                   /\ wpc[w] \in YieldPC \cup {"park"} => state[w] = WT_IDLE
                   /\ wpc[w] \in ExitPC => state[w] = WT_EXITING
<1>0. Told /\ TypeOK
  BY DEF Inv, UniInv, MarkTells, OwnerInv
<1>1. CASE UNCHANGED vars
  BY <1>0, <1>1 DEF vars, kwtVars, workerVars
<1>2. ASSUME NEW s \in Sched, HasProcessor(s), SchedStep(s) PROVE Told'
  <2>1. ASSUME SetKwtRunning(s), w = kwtOf(s) PROVE wpc[w] = "sleep"
    <3>1. w = batch[s][1] /\ 1 \in 1..Len(batch[s]) /\ spc[s] = "running"
      BY <1>0, <2>1, BatchType DEF SetKwtRunning, kwtOf, TypeOK
    <3> QED
      BY <3>1 DEF Inv, UniInv, BatchAtRest, Executing, AwaitPC, ReleasePC, AtRest
  <2> QED
    BY <1>0, <1>2, <2>1, OneScheduler, OneSchedulerWalk DEF YieldPC, ExitPC
<1>3. ASSUME NEW v \in Worker, HasProcessor(v), WorkerStep(v) PROVE Told'
  <2>1. CASE v # w
    BY <1>0, <1>3, <2>1, OneWorker
  <2>2. CASE v = w
    <3>1. wpc[w] \in {"y_wake", "x_wake"} => waker[w] # None
      BY ThreadAssumption DEF Inv, UniInv, YieldAwaited, ExitAwaited, YieldPC
    <3>2. DecNthreads(w) => wpc[w] = "x_dec"
      BY DEF DecNthreads
    <3>3. /\ LookUpScheduler(w, "y_read", "y_wake") => wpc[w] = "y_read"
          /\ LookUpScheduler(w, "x_read", "x_wake") => wpc[w] = "x_read"
      BY DEF LookUpScheduler
    <3> QED
      BY <1>0, <1>3, <2>2, <3>1, <3>2, <3>3, WorkerMoves DEF YieldPC, ExitPC
  <2> QED
    BY <2>1, <2>2
<1> QED
  BY <1>1, <1>2, <1>3 DEF UniNext, UniSchedStep, UniWorkerStep

\* A scheduler that dispatches or awaits a worker goes on from there
LEMMA DispatcherMoves ==
  ASSUME TypeOK, NEW s \in Sched, SchedStep(s), spc[s] \in {"wake"} \cup AwaitPC
  PROVE  /\ UNCHANGED <<batch, mutex, state, curr_sched_tid>>
         /\ \/ spc[s] = "wake" /\ spc'[s] = "settask" /\ WorkerAlive(kwtOf(s))
               /\ WakeUpWorker(s)
            \/ spc[s] = "wake" /\ spc'[s] = "oops" /\ ~WorkerAlive(kwtOf(s))
            \/ spc[s] = "settask" /\ spc'[s] = "test"
               /\ task' = [task EXCEPT ![s] = TASK_INTERRUPTIBLE]
            \/ spc[s] = "test" /\ spc'[s] = "asleep" /\ state[kwtOf(s)] = WT_RUNNING
               /\ task' = task
            \/ spc[s] = "test" /\ spc'[s] = "idle" /\ state[kwtOf(s)] # WT_RUNNING
            \/ spc[s] = "asleep" /\ task[s] = TASK_RUNNING /\ spc'[s] = "settask"
               /\ task' = task
BY SMTT(60)
   DEF TypeOK, SchedStep, Dequeue, Execute, kwtVars, AwaitPC, set_current_state,
       PrepareToWait, CheckReady, DequeueWoken, GetWtReadyQueue, Advance, ClaimWorker, PassWorker, TidFreed,
       DecThreadsReady, ScanFreed, FinishScan, SkipUnknown, SetKstRunning,
       SetKwtRunning, WakeUpWorker, SetTaskState, TestWorker, ExecuteWoken, SetKstIdle,
       IncThreadsReady, WakeUpSchedulers, UnlockWorker, Leave

\* A dispatched worker is woken in the section in which it is marked, and its
\* scheduler sleeps until the worker marks itself otherwise
LEMMA StepRunningDispatched == Inv /\ [UniNext]_vars => RunningDispatched'
<1> DEFINE Dispatched(s, w) ==
             /\ curr_sched_tid[w] = s /\ batch[s] # <<>> /\ Head(batch[s]) = w
             /\ \/ spc[s] = "wake" /\ wpc[w] = "sleep" /\ task[w] = TASK_INTERRUPTIBLE
                \/ spc[s] \in AwaitPC /\ Released(w)
             /\ spc[s] \in {"test", "asleep"} => task[s] = TASK_INTERRUPTIBLE
<1> SUFFICES ASSUME Inv, [UniNext]_vars, NEW w \in Worker, state'[w] = WT_RUNNING
             PROVE  \E s \in Sched : mutex'[w] = s /\ Dispatched(s, w)'
  BY DEF RunningDispatched, kwtOf
<1> USE DEF TASK_RUNNING, TASK_INTERRUPTIBLE
<1>0. /\ TypeOK
      /\ state[w] = WT_RUNNING => \E s \in Sched : mutex[w] = s /\ Dispatched(s, w)
  BY DEF Inv, UniInv, OwnerInv, RunningDispatched, kwtOf
<1>1. CASE UNCHANGED vars
  BY <1>0, <1>1 DEF vars, kwtVars, workerVars, schedVars, Released
<1>2. ASSUME NEW s \in Sched, HasProcessor(s), SchedStep(s)
      PROVE  \E t \in Sched : mutex'[w] = t /\ Dispatched(t, w)'
  <2>1. CASE SetKwtRunning(s) /\ w = kwtOf(s)
    <3>1. w = batch[s][1] /\ 1 \in 1..Len(batch[s]) /\ spc[s] = "running" /\ batch[s] # <<>>
      BY <1>0, <2>1, BatchType DEF SetKwtRunning, kwtOf, TypeOK
    <3>2. AtRest(w)
      BY <3>1 DEF Inv, UniInv, BatchAtRest, Executing, AwaitPC, ReleasePC
    <3>3. task[w] = TASK_INTERRUPTIBLE
      BY <1>0, <3>2 DEF Inv, OwnerInv, ReleasedIsAwaited, Released, AtRest, TypeOK, WT_IDLE, WT_RUNNING
    <3>4. mutex[w] = s
      BY <2>1, <3>1, HeadOwned DEF Inv, OwnerInv
    <3>5. /\ mutex' = mutex /\ curr_sched_tid'[w] = s /\ batch' = batch /\ spc'[s] = "wake"
          /\ wpc' = wpc /\ task' = task
      BY <1>0, <2>1 DEF SetKwtRunning, TypeOK, workerVars
    <3> QED
      BY <2>1, <3>1, <3>2, <3>3, <3>4, <3>5 DEF AtRest, kwtOf
  <2>2. CASE ~(SetKwtRunning(s) /\ w = kwtOf(s))
    <3>1. state[w] = WT_RUNNING
      BY <1>0, <1>2, <2>2, OneSchedulerWalk
    <3>2. PICK t \in Sched : mutex[w] = t /\ Dispatched(t, w)
      BY <1>0, <3>1
    <3>3. CASE t # s
      <4>1. /\ mutex'[w] = t /\ wpc'[w] = wpc[w] /\ curr_sched_tid'[w] = t /\ task'[w] = task[w]
            /\ spc'[t] = spc[t] /\ batch'[t] = batch[t]
        BY <1>2, <3>2, <3>3, HeldThrough DEF Inv
      <4>2. task'[t] = task[t]
        BY <1>0, <1>2, <3>2, <3>3, OneSchedulerNames DEF AwaitPC
      <4> QED
        BY <3>2, <4>1, <4>2 DEF Released
    <3>4. CASE t = s
      <4>1. spc[s] \in {"wake"} \cup AwaitPC /\ kwtOf(s) = w
        BY <3>2, <3>4 DEF kwtOf
      <4>2. UNCHANGED <<batch, mutex, curr_sched_tid>> /\ wpc' = wpc
        BY <1>0, <1>2, <4>1, DispatcherMoves, OneScheduler
      <4>3. CASE WakeUpWorker(s)
        <5>1. /\ spc[s] = "wake" /\ wpc[w] = "sleep"
          BY <3>2, <3>4, <4>3 DEF WakeUpWorker, AwaitPC
        <5>2. spc'[s] = "settask" /\ task'[w] = TASK_RUNNING
          BY <1>0, <4>1, <4>3, <5>1
          DEF WakeUpWorker, WorkerAlive, wake_up_process, TypeOK
        <5> QED
          BY <3>2, <3>4, <4>2, <5>1, <5>2 DEF Released, AwaitPC
      <4>4. CASE ~WakeUpWorker(s)
        <5>1. task'[w] = task[w]
          BY <1>0, <1>2, <4>4, OneSchedulerTask
        <5>2. spc[s] # "wake" /\ Released(w)
          <6>1. spc[s] = "wake" => wpc[w] = "sleep"
            BY <3>2, <3>4 DEF AwaitPC
          <6> QED
            BY <1>0, <1>2, <3>2, <3>4, <4>1, <4>4, <6>1, DispatcherMoves DEF WorkerAlive
        <5>3. Released(w)'
          BY <4>2, <5>1, <5>2 DEF Released
        <5>4. spc'[s] \in AwaitPC
          BY <1>0, <1>2, <3>1, <4>1, <5>2, DispatcherMoves DEF AwaitPC
        <5>5. spc'[s] \in {"test", "asleep"} => task'[s] = TASK_INTERRUPTIBLE
          BY <1>0, <1>2, <3>2, <3>4, <4>1, <5>2, DispatcherMoves DEF TypeOK
        <5> QED
          BY <3>2, <3>4, <4>2, <5>3, <5>4, <5>5
      <4> QED
        BY <4>3, <4>4
    <3> QED
      BY <3>3, <3>4
  <2> QED
    BY <2>1, <2>2
<1>3. ASSUME NEW v \in Worker, HasProcessor(v), WorkerStep(v)
      PROVE  \E t \in Sched : mutex'[w] = t /\ Dispatched(t, w)'
  <2>1. UNCHANGED <<spc, batch, mutex>>
    BY <1>0, <1>3, OneWorker
  <2>2. CASE v # w
    <3>1. state[w] = WT_RUNNING /\ wpc'[w] = wpc[w] /\ task'[w] = task[w]
      BY <1>0, <1>3, <2>2, OneWorker
    <3>2. PICK t \in Sched : mutex[w] = t /\ Dispatched(t, w)
      BY <1>0, <3>1
    <3>3. curr_sched_tid'[w] = curr_sched_tid[w]
      BY <1>0, <1>3, <2>2, OneWorkerNames
    <3>4. wpc[v] \in {"y_wake", "x_wake"} => waker[v] # t
      BY <2>2, <3>2 DEF Inv, UniInv, YieldAwaited, ExitAwaited, SleepsFor, kwtOf, YieldPC
    <3>5. task'[t] = task[t]
      BY <1>0, <1>3, <3>4, OneWorkerNames
    <3> QED
      BY <2>1, <3>1, <3>2, <3>3, <3>5 DEF Released
  <2>3. CASE v = w
    <3>1. wpc[w] = "sleep" /\ task[w] = TASK_RUNNING /\ wpc'[w] = "user"
          /\ state'[w] = state[w] /\ UNCHANGED <<task, curr_sched_tid>>
      <4>1. wpc[w] \in YieldPC \cup {"park"} \cup ExitPC => state[w] # WT_RUNNING
        BY DEF Inv, UniInv, MarkTells, WT_IDLE, WT_EXITING, WT_RUNNING
      <4>2. /\ DecNthreads(w) => wpc[w] = "x_dec"
            /\ LookUpScheduler(w, "y_read", "y_wake") => wpc[w] = "y_read"
            /\ LookUpScheduler(w, "x_read", "x_wake") => wpc[w] = "x_read"
        BY DEF DecNthreads, LookUpScheduler
      <4> QED
        BY <1>0, <1>3, <2>3, <4>1, <4>2, WorkerMoves
        DEF YieldPC, ExitPC, WT_IDLE, WT_EXITING, WT_RUNNING
    <3>2. PICK t \in Sched : mutex[w] = t /\ Dispatched(t, w)
      BY <1>0, <3>1
    <3> QED
      BY <2>1, <3>1, <3>2 DEF Released
  <2> QED
    BY <2>2, <2>3
<1> QED
  BY <1>1, <1>2, <1>3 DEF UniNext, UniSchedStep, UniWorkerStep

\* A worker that leaves its routine leaves its scheduler asleep: no other thread is
\* in a section, and wait_worker_thread is one up to its schedule()
LEMMA RunsForSleeper ==
  ASSUME Inv, NEW w \in Worker, HasProcessor(w), wpc[w] = "user"
  PROVE  /\ mutex[w] \in Sched /\ SleepsFor(mutex[w], w)
         /\ task[mutex[w]] = TASK_INTERRUPTIBLE /\ curr_sched_tid[w] = mutex[w]
<1>1. state[w] = WT_RUNNING
  BY DEF Inv, OwnerInv, ReleasedIsAwaited, Released
<1>2. /\ mutex[w] \in Sched /\ curr_sched_tid[w] = mutex[w]
      /\ batch[mutex[w]] # <<>> /\ kwtOf(mutex[w]) = w
      /\ spc[mutex[w]] \in AwaitPC
      /\ spc[mutex[w]] \in {"test", "asleep"} => task[mutex[w]] = TASK_INTERRUPTIBLE
  BY <1>1 DEF Inv, UniInv, RunningDispatched
<1>3. spc[mutex[w]] \notin {"settask", "test"}
  BY <1>2, AloneWorker DEF SchedSectionPC
<1> QED
  BY <1>2, <1>3 DEF SleepsFor, AwaitPC

\* The yield is one section: its scheduler is where it was when the worker called
LEMMA StepYieldAwaited == Inv /\ [UniNext]_vars => YieldAwaited'
<1> SUFFICES ASSUME Inv, [UniNext]_vars, NEW w \in Worker,
                    wpc'[w] \in YieldPC \cup {"park"}
             PROVE  \E s \in Sched :
                      /\ mutex'[w] = s /\ spc'[s] = "asleep" /\ batch'[s] # <<>>
                      /\ Head(batch'[s]) = w
                      /\ wpc'[w] \in {"y_read", "y_wake"} => curr_sched_tid'[w] = s
                      /\ wpc'[w] = "y_wake" => waker'[w] = s
  BY DEF YieldAwaited, SleepsFor, kwtOf
<1> DEFINE Awaited == \E s \in Sched :
                        /\ mutex[w] = s /\ spc[s] = "asleep" /\ batch[s] # <<>>
                        /\ Head(batch[s]) = w
                        /\ wpc[w] \in {"y_read", "y_wake"} => curr_sched_tid[w] = s
                        /\ wpc[w] = "y_wake" => waker[w] = s
<1>0. /\ TypeOK /\ wpc[w] # "y_oops"
      /\ wpc[w] \in YieldPC \cup {"park"} => Awaited
  BY DEF Inv, UniInv, OwnerInv, MarkTells, YieldAwaited, SleepsFor, kwtOf
<1>1. CASE UNCHANGED vars
  BY <1>0, <1>1 DEF vars, kwtVars, workerVars, schedVars
<1>2. ASSUME NEW s \in Sched, HasProcessor(s), SchedStep(s) PROVE FALSE
  BY <1>0, <1>2, AloneScheduler, OneScheduler DEF YieldPC, WorkerSectionPC
<1>3. ASSUME NEW v \in Worker, HasProcessor(v), WorkerStep(v) PROVE Awaited'
  <2>1. UNCHANGED <<spc, batch, mutex>>
    BY <1>0, <1>3, OneWorker
  <2>2. v = w
    BY <1>0, <1>3, AloneWorker, OneWorker DEF YieldPC, WorkerSectionPC
  <2>3. CASE wpc[w] = "user" /\ wpc'[w] = "y_read" /\ UNCHANGED curr_sched_tid
    BY <1>3, <2>1, <2>2, <2>3, RunsForSleeper DEF SleepsFor, kwtOf
  <2>4. CASE LookUpScheduler(w, "y_read", "y_wake")
    <3>1. wpc[w] = "y_read"
      BY <2>4 DEF LookUpScheduler
    <3>2. PICK s \in Sched : /\ mutex[w] = s /\ spc[s] = "asleep" /\ batch[s] # <<>>
                             /\ Head(batch[s]) = w /\ curr_sched_tid[w] = s
      BY <1>0, <3>1 DEF YieldPC
    <3>3. waker'[w] = s /\ curr_sched_tid' = curr_sched_tid
      BY <1>0, <2>4, <3>2 DEF LookUpScheduler, SchedAlive, TypeOK, kwtVars
    <3> QED
      BY <2>1, <3>2, <3>3
  <2>5. CASE wpc[w] \in {"y_wake", "y_clear"} /\ wpc'[w] \in {"y_clear", "park"}
    BY <1>0, <2>1, <2>5 DEF YieldPC
  <2>6. wpc[w] = "y_wake" => waker[w] # None
    BY <1>0, ThreadAssumption DEF YieldPC
  <2> QED
    BY <1>0, <1>3, <2>2, <2>3, <2>4, <2>5, <2>6, WorkerMoves DEF YieldPC
<1> QED
  BY <1>1, <1>2, <1>3 DEF UniNext, UniSchedStep, UniWorkerStep

\* Nothing wakes the scheduler of an exiting worker before the worker does
LEMMA StepExitAwaited == Inv /\ [UniNext]_vars => ExitAwaited'
<1> DEFINE Awaiting(s, w) ==
             /\ spc[s] = "asleep" /\ batch[s] # <<>> /\ Head(batch[s]) = w
             /\ task[s] = TASK_INTERRUPTIBLE /\ curr_sched_tid[w] = s
             /\ wpc[w] = "x_wake" => waker[w] = s
<1> SUFFICES ASSUME Inv, [UniNext]_vars, NEW w \in Worker,
                    wpc'[w] \in {"x_dec", "x_read", "x_wake"}
             PROVE  \E s \in Sched : mutex'[w] = s /\ Awaiting(s, w)'
  BY DEF ExitAwaited, SleepsFor, kwtOf
<1>0. /\ TypeOK
      /\ wpc[w] \in {"x_dec", "x_read", "x_wake"} =>
           \E s \in Sched : mutex[w] = s /\ Awaiting(s, w)
  BY DEF Inv, UniInv, OwnerInv, ExitAwaited, SleepsFor, kwtOf
<1>1. CASE UNCHANGED vars
  BY <1>0, <1>1 DEF vars, kwtVars, workerVars, schedVars
<1>2. ASSUME NEW s \in Sched, HasProcessor(s), SchedStep(s)
      PROVE  \E t \in Sched : mutex'[w] = t /\ Awaiting(t, w)'
  <2>1. wpc' = wpc /\ wpc[w] = "x_dec"
    BY <1>0, <1>2, AloneScheduler, OneScheduler DEF WorkerSectionPC
  <2>2. PICK t \in Sched : mutex[w] = t /\ Awaiting(t, w)
    BY <1>0, <2>1
  <2>3. t # s
    BY <1>0, <1>2, <2>2, DispatcherMoves DEF AwaitPC, TASK_RUNNING, TASK_INTERRUPTIBLE
  <2>4. /\ mutex'[w] = t /\ curr_sched_tid'[w] = t
        /\ spc'[t] = spc[t] /\ batch'[t] = batch[t]
    BY <1>2, <2>2, <2>3, HeldThrough DEF Inv
  <2>5. task'[t] = task[t]
    BY <1>0, <1>2, <2>2, <2>3, OneSchedulerNames
  <2> QED
    BY <2>1, <2>2, <2>4, <2>5
<1>3. ASSUME NEW v \in Worker, HasProcessor(v), WorkerStep(v)
      PROVE  \E t \in Sched : mutex'[w] = t /\ Awaiting(t, w)'
  <2>1. UNCHANGED <<spc, batch, mutex>>
    BY <1>0, <1>3, OneWorker
  <2>2. CASE v # w
    <3>1. wpc'[w] = wpc[w]
      BY <1>0, <1>3, <2>2, OneWorker
    <3>2. PICK t \in Sched : mutex[w] = t /\ Awaiting(t, w)
      BY <1>0, <3>1
    <3>3. curr_sched_tid'[w] = curr_sched_tid[w] /\ waker'[w] = waker[w]
      BY <1>0, <1>3, <2>2, OneWorkerNames
    <3>4. wpc[v] \in {"y_wake", "x_wake"} => waker[v] # t
      BY <2>2, <3>2 DEF Inv, UniInv, YieldAwaited, ExitAwaited, SleepsFor, kwtOf, YieldPC
    <3>5. task'[t] = task[t]
      BY <1>0, <1>3, <3>4, OneWorkerNames
    <3> QED
      BY <2>1, <3>1, <3>2, <3>3, <3>5
  <2>3. CASE v = w
    <3>1. CASE wpc[w] = "user" /\ wpc'[w] = "x_dec" /\ UNCHANGED <<task, curr_sched_tid>>
      BY <1>3, <2>1, <2>3, <3>1, RunsForSleeper DEF SleepsFor, kwtOf
    <3>2. CASE DecNthreads(w) /\ wpc'[w] \in {"x_dec", "x_read"}
               /\ UNCHANGED <<task, curr_sched_tid>>
      <4>1. wpc[w] = "x_dec"
        BY <3>2 DEF DecNthreads
      <4> QED
        BY <1>0, <2>1, <3>2, <4>1
    <3>3. CASE LookUpScheduler(w, "x_read", "x_wake")
      <4>1. wpc[w] = "x_read"
        BY <3>3 DEF LookUpScheduler
      <4>2. PICK s \in Sched : mutex[w] = s /\ Awaiting(s, w)
        BY <1>0, <4>1
      <4>3. waker'[w] = s /\ UNCHANGED <<curr_sched_tid, task>>
        BY <1>0, <3>3, <4>2 DEF LookUpScheduler, SchedAlive, TypeOK, kwtVars
      <4> QED
        BY <2>1, <4>2, <4>3
    <3> QED
      BY <1>0, <1>3, <2>3, <3>1, <3>2, <3>3, WorkerMoves
  <2> QED
    BY <2>2, <2>3
<1> QED
  BY <1>1, <1>2, <1>3 DEF UniNext, UniSchedStep, UniWorkerStep

\* A worker that has ended is not locked again: it is in no queue
LEMMA StepExitHeld == Inv /\ [UniNext]_vars => ExitHeld'
<1> SUFFICES ASSUME Inv, [UniNext]_vars, NEW w \in Worker, wpc'[w] \in ExitPC, mutex'[w] # None
             PROVE  \E s \in Sched : /\ mutex'[w] = s /\ spc'[s] \in AwaitPC \cup ReleasePC
                                     /\ batch'[s] # <<>> /\ Head(batch'[s]) = w
  BY DEF ExitHeld, kwtOf
<1>0. /\ TypeOK /\ mutex[w] \in Sched \cup {None}
      /\ wpc[w] \in ExitPC /\ mutex[w] # None =>
           \E s \in Sched : /\ mutex[w] = s /\ spc[s] \in AwaitPC \cup ReleasePC
                            /\ batch[s] # <<>> /\ Head(batch[s]) = w
  BY DEF Inv, UniInv, OwnerInv, ExitHeld, kwtOf, TypeOK
<1>1. CASE UNCHANGED vars
  BY <1>0, <1>1 DEF vars, kwtVars, workerVars, schedVars
<1>2. ASSUME NEW s \in Sched, SchedStep(s)
      PROVE  \E t \in Sched : /\ mutex'[w] = t /\ spc'[t] \in AwaitPC \cup ReleasePC
                              /\ batch'[t] # <<>> /\ Head(batch'[t]) = w
  <2>1. wpc[w] \in ExitPC
    BY <1>0, <1>2, OneScheduler
  <2>2. mutex[w] # None
    <3> SUFFICES ASSUME mutex[w] = None PROVE FALSE
      OBVIOUS
    <3>1. batch[s] # <<>> => mutex[kwtOf(s)] = s
      BY HeadOwned DEF Inv, OwnerInv
    <3>2. ClaimWorker(s, w)
      BY <1>0, <1>2, <3>1, ThreadAssumption, OneSchedulerMutex DEF UnlockWorker
    <3>3. w \in wt_ready_queue[kclOf(s)] /\ kclOf(s) \in CL
      BY <3>2, ListAssumption DEF ClaimWorker, kclOf, Inv, UniInv, ScanLive
    <3> QED
      BY <2>1, <3>3, FreeAtRest DEF Inv, AtRest, ExitPC
  <2>3. PICK t \in Sched : /\ mutex[w] = t /\ spc[t] \in AwaitPC \cup ReleasePC
                           /\ batch[t] # <<>> /\ Head(batch[t]) = w
    BY <1>0, <2>1, <2>2
  <2>4. CASE t # s
    BY <1>2, <2>3, <2>4, HeldThrough DEF Inv
  <2>5. CASE t = s
    <3>1. ~UnlockWorker(s)
      BY <1>0, <2>3, <2>5 DEF UnlockWorker, kwtOf, TypeOK
    <3>2. ~ClaimWorker(s, w)
      BY <2>2 DEF ClaimWorker, CanClaim
    <3>3. mutex'[w] = s
      BY <1>0, <1>2, <2>3, <2>5, <3>1, <3>2, OneSchedulerMutex
    <3>4. state[w] = WT_EXITING
      BY <2>1 DEF Inv, UniInv, MarkTells
    <3>5. batch' = batch /\ spc'[s] \in AwaitPC \cup ReleasePC
      BY <1>0, <1>2, <2>3, <2>5, <3>1, SMTT(60)
      DEF TypeOK, SchedStep, Dequeue, Execute, AwaitPC, ReleasePC,
          PrepareToWait, CheckReady, DequeueWoken, GetWtReadyQueue, Advance, ClaimWorker, PassWorker, TidFreed,
          DecThreadsReady, ScanFreed, FinishScan, SkipUnknown, SetKstRunning,
          SetKwtRunning, WakeUpWorker, SetTaskState, TestWorker, ExecuteWoken, SetKstIdle,
          IncThreadsReady, WakeUpSchedulers, Leave
    <3> QED
      BY <2>3, <2>5, <3>3, <3>5
  <2> QED
    BY <2>4, <2>5
<1>3. ASSUME NEW v \in Worker, HasProcessor(v), WorkerStep(v)
      PROVE  \E t \in Sched : /\ mutex'[w] = t /\ spc'[t] \in AwaitPC \cup ReleasePC
                              /\ batch'[t] # <<>> /\ Head(batch'[t]) = w
  <2>1. UNCHANGED <<spc, batch, mutex>>
    BY <1>0, <1>3, OneWorker
  <2>2. CASE wpc[w] \in ExitPC
    BY <1>0, <2>1, <2>2
  <2>3. CASE wpc[w] \notin ExitPC
    <3>1. v = w /\ wpc[w] = "user"
      BY <1>0, <1>3, <2>3, OneWorker, OneWorkerWalk
    <3> QED
      BY <1>3, <2>1, <3>1, RunsForSleeper DEF SleepsFor, AwaitPC, kwtOf
  <2> QED
    BY <2>2, <2>3
<1> QED
  BY <1>1, <1>2, <1>3 DEF UniNext, UniSchedStep, UniWorkerStep

\* The walk of for_each_dec_kcl_nthreads passes every list the worker is queued in
LEMMA StepExitGone == Inv /\ [UniNext]_vars => ExitGone'
<1> SUFFICES ASSUME Inv, [UniNext]_vars, NEW w \in Worker, NEW c \in CL,
                    wpc'[w] \in ExitPC, w \in wt_ready_queue'[c]
             PROVE  wpc'[w] = "x_dec" /\ \E i \in 1..Len(wlists'[w]) : wlists'[w][i] = c
  BY DEF ExitGone
<1>0. /\ TypeOK
      /\ wpc[w] \in ExitPC /\ w \in wt_ready_queue[c] =>
           wpc[w] = "x_dec" /\ \E i \in 1..Len(wlists[w]) : wlists[w][i] = c
  BY DEF Inv, UniInv, OwnerInv, ExitGone
<1>1. CASE UNCHANGED vars
  BY <1>0, <1>1 DEF vars, kclVars, workerVars
<1>2. ASSUME NEW s \in Sched, SchedStep(s)
      PROVE  wpc'[w] = "x_dec" /\ \E i \in 1..Len(wlists'[w]) : wlists'[w][i] = c
  BY <1>0, <1>2, OneScheduler
<1>3. ASSUME NEW v \in Worker, WorkerStep(v)
      PROVE  wpc'[w] = "x_dec" /\ \E i \in 1..Len(wlists'[w]) : wlists'[w][i] = c
  <2>0. [Next]_vars
    BY <1>3 DEF Next
  <2>1. w \in wt_ready_queue[c]
    <3>1. ASSUME NEW u \in Worker, DecNthreads(u) PROVE w \in wt_ready_queue[c]
      BY <1>0, <3>1, DecEffect
    <3> QED
      BY <2>0, <3>1, FrameQueues
  <2>2. CASE v # w
    BY <1>0, <1>3, <2>1, <2>2, OneWorker
  <2>3. CASE v = w
    <3>1. CASE wpc[w] = "user" /\ wpc'[w] = "x_dec" /\ wlists'[w] = clid_list[w]
      <4>1. c \in Lists(w)
        BY <2>1 DEF Inv, OwnerInv, QueuedListed
      <4> QED
        BY <1>0, <3>1, <4>1 DEF Lists, TypeOK
    <3>2. CASE DecNthreads(w)
      <4>1. /\ wlists[w] # <<>> /\ wlists[w] \in Seq(CL) /\ wpc[w] = "x_dec"
            /\ wlists'[w] = Tail(wlists[w]) /\ c # Head(wlists[w])
            /\ wpc'[w] = IF Len(wlists[w]) = 1 THEN "x_read" ELSE "x_dec"
        BY <1>0, <3>2, DecEffect DEF DecNthreads, TypeOK
      <4>2. PICK i \in 1..Len(wlists[w]) : wlists[w][i] = c
        BY <1>0, <2>1, <4>1 DEF ExitPC
      <4>3. /\ Head(wlists[w]) = wlists[w][1] /\ Len(wlists[w]) \in Nat
            /\ Len(Tail(wlists[w])) = Len(wlists[w]) - 1
            /\ \A j \in 1..(Len(wlists[w]) - 1) : Tail(wlists[w])[j] = wlists[w][j + 1]
        BY <4>1
      <4>4. i - 1 \in 1..(Len(wlists[w]) - 1) /\ (i - 1) + 1 = i
        BY <4>1, <4>2, <4>3
      <4>5. Len(wlists[w]) # 1 /\ i - 1 \in 1..Len(wlists'[w]) /\ wlists'[w][i - 1] = c
        BY <4>1, <4>2, <4>3, <4>4
      <4> QED
        BY <4>1, <4>5
    <3>3. CASE wpc[w] \in ExitPC /\ ~DecNthreads(w)
      <4>1. wpc[w] = "x_dec"
        BY <1>0, <2>1, <3>3
      <4>2. ~LookUpScheduler(w, "y_read", "y_wake") /\ ~LookUpScheduler(w, "x_read", "x_wake")
        BY <4>1 DEF LookUpScheduler
      <4> QED
        BY <1>0, <1>3, <2>3, <3>3, <4>1, <4>2, WorkerMoves
    <3>4. wpc[w] \notin ExitPC =>
            wpc[w] = "user" /\ wpc'[w] = "x_dec" /\ wlists'[w] = clid_list[w]
      <4>1. wpc[w] \in YieldPC => waker[w] # None \/ wpc[w] # "y_wake"
        BY ThreadAssumption DEF Inv, UniInv, YieldAwaited
      <4>2. DecNthreads(w) => wpc[w] = "x_dec"
        BY DEF DecNthreads
      <4>3. /\ LookUpScheduler(w, "y_read", "y_wake") => wpc[w] = "y_read"
            /\ LookUpScheduler(w, "x_read", "x_wake") => wpc[w] = "x_read"
        BY DEF LookUpScheduler
      <4> QED
        BY <1>0, <1>3, <2>3, <4>1, <4>2, <4>3, WorkerMoves DEF ExitPC, YieldPC
    <3> QED
      BY <3>1, <3>2, <3>3, <3>4
  <2> QED
    BY <2>2, <2>3
<1> QED
  BY <1>1, <1>2, <1>3 DEF UniNext, UniSchedStep, UniWorkerStep

\* A worker at rest stays at rest until the scheduler that has locked it executes it
LEMMA RestThrough ==
  ASSUME Inv, [UniNext]_vars, NEW w \in Worker, AtRest(w),
         \A s \in Sched : ~(SetKwtRunning(s) /\ kwtOf(s) = w)
  PROVE  wpc'[w] = "sleep" /\ state'[w] = WT_IDLE
<1>0. TypeOK
  BY DEF Inv, OwnerInv
<1>1. CASE UNCHANGED vars
  BY <1>1 DEF vars, kwtVars, workerVars, AtRest
<1>2. ASSUME NEW s \in Sched, SchedStep(s) PROVE wpc'[w] = "sleep" /\ state'[w] = WT_IDLE
  BY <1>0, <1>2, OneScheduler, OneSchedulerWalk DEF AtRest
<1>3. ASSUME NEW v \in Worker, WorkerStep(v) PROVE wpc'[w] = "sleep" /\ state'[w] = WT_IDLE
  <2>1. CASE v # w
    BY <1>0, <1>3, <2>1, OneWorker DEF AtRest
  <2>2. CASE v = w
    <3>1. task[w] # TASK_RUNNING
      BY DEF AtRest, Inv, OwnerInv, ReleasedIsAwaited, Released, WT_IDLE, WT_RUNNING
    <3>2. /\ ~DecNthreads(w)
          /\ ~LookUpScheduler(w, "y_read", "y_wake") /\ ~LookUpScheduler(w, "x_read", "x_wake")
      BY DEF DecNthreads, LookUpScheduler, AtRest
    <3> QED
      BY <1>0, <1>3, <2>2, <3>1, <3>2, WorkerMoves DEF AtRest
  <2> QED
    BY <2>1, <2>2
<1> QED
  BY <1>1, <1>2, <1>3 DEF UniNext, UniSchedStep, UniWorkerStep

\* A dequeue locks only workers at rest, and they stay so until they are executed
LEMMA StepBatchAtRest == Inv /\ [UniNext]_vars => BatchAtRest'
<1> SUFFICES ASSUME Inv, [UniNext]_vars, NEW t \in Sched, NEW i \in 1..Len(batch'[t])
             PROVE  \/ i = 1 /\ Executing(t)'
                    \/ wpc'[batch'[t][i]] = "sleep" /\ state'[batch'[t][i]] = WT_IDLE
  BY DEF BatchAtRest, AtRest
<1> DEFINE Fine == \/ i = 1 /\ Executing(t)'
                   \/ wpc'[batch'[t][i]] = "sleep" /\ state'[batch'[t][i]] = WT_IDLE
<1>0. /\ TypeOK /\ BatchOwned /\ [Next]_vars
      /\ \A s \in Sched : batch[s] \in Seq(Worker) /\ Len(batch[s]) \in Nat
      /\ \A s \in Sched : \A j \in 1..Len(batch[s]) :
           batch[s][j] \in Worker /\ ((j = 1 /\ Executing(s)) \/ AtRest(batch[s][j]))
  BY UniStep DEF Inv, UniInv, OwnerInv, BatchAtRest, TypeOK
<1>1. ASSUME NEW j \in 1..Len(batch[t]), AtRest(batch[t][j]), batch'[t][i] = batch[t][j]
      PROVE  Fine
  <2>1. ASSUME NEW s \in Sched, SetKwtRunning(s), kwtOf(s) = batch[t][j] PROVE Fine
    <3>1. batch' = batch /\ spc'[s] = "wake" /\ batch[s] # <<>>
      BY <1>0, <2>1 DEF SetKwtRunning, TypeOK
    <3>2. mutex[kwtOf(s)] = s /\ kwtOf(s) = batch[s][1] /\ 1 \in 1..Len(batch[s])
      BY <1>0, <3>1, HeadOwned, BatchType DEF kwtOf
    <3>3. s = t /\ j = 1
      <4>1. mutex[batch[t][j]] = t
        BY <1>0 DEF BatchOwned
      <4>2. s = t
        BY <2>1, <3>2, <4>1
      <4> QED
        BY <1>0, <2>1, <3>2, <4>2 DEF BatchOwned
    <3>4. i = 1
      BY <1>0, <1>1, <3>1, <3>3 DEF BatchOwned
    <3> QED
      BY <3>1, <3>3, <3>4 DEF Executing
  <2>2. CASE \A s \in Sched : ~(SetKwtRunning(s) /\ kwtOf(s) = batch[t][j])
    BY <1>0, <1>1, <2>2, RestThrough
  <2> QED
    BY <2>1, <2>2
<1>2. CASE UNCHANGED <<mutex, batch>>
  <2>1. i \in 1..Len(batch[t]) /\ batch'[t][i] = batch[t][i]
    BY <1>2
  <2>2. CASE AtRest(batch[t][i])
    BY <1>1, <2>1, <2>2
  <2>3. CASE i = 1 /\ Executing(t)
    <3>1. CASE UNCHANGED vars
      BY <2>3, <3>1 DEF vars, schedVars, Executing
    <3>2. ASSUME NEW v \in Worker, WorkerStep(v) PROVE Fine
      BY <1>0, <2>3, <3>2, OneWorker DEF Executing
    <3>3. ASSUME NEW s \in Sched \ {t}, SchedStep(s) PROVE Fine
      BY <1>0, <2>3, <3>3, OneScheduler DEF Executing
    <3>4. ASSUME SchedStep(t) PROVE Fine
      <4>1. CASE spc[t] = "wake"
        <5>1. WorkerAlive(kwtOf(t))
          <6>1. batch[t] # <<>> /\ state[kwtOf(t)] = WT_RUNNING
            BY <4>1 DEF Inv, OwnerInv, WakesMarked, ExecutePC
          <6>2. kwtOf(t) \in Worker /\ mutex[kwtOf(t)] = t
            BY <1>0, <6>1, HeadOwned
          <6>3. wpc[kwtOf(t)] = "sleep"
            BY <4>1, <6>1, <6>2 DEF Inv, UniInv, RunningDispatched, AwaitPC
          <6> QED
            BY <6>3 DEF WorkerAlive
        <5> QED
          BY <1>0, <2>3, <3>4, <4>1, <5>1, DispatcherMoves DEF Executing, AwaitPC
      <4>2. CASE spc[t] \in AwaitPC
        BY <1>0, <2>3, <3>4, <4>2, DispatcherMoves DEF Executing, AwaitPC, ReleasePC
      <4>3. CASE spc[t] \in ReleasePC
        <5>1. ~UnlockWorker(t)
          <6> SUFFICES ASSUME UnlockWorker(t) PROVE FALSE
            OBVIOUS
          <6>1. mutex'[kwtOf(t)] = None /\ mutex[kwtOf(t)] = t
            BY <1>0, HeadOwned DEF UnlockWorker, TypeOK
          <6> QED
            BY <1>2, <6>1, ThreadAssumption
        <5>2. spc'[t] \in ReleasePC
          BY <1>0, <3>4, <4>3, <5>1, SMTT(60)
          DEF TypeOK, SchedStep, Dequeue, Execute, ReleasePC,
            PrepareToWait, CheckReady, DequeueWoken, GetWtReadyQueue, Advance, ClaimWorker, PassWorker, TidFreed,
            DecThreadsReady, ScanFreed, FinishScan, SkipUnknown, SetKstRunning,
            SetKwtRunning, WakeUpWorker, SetTaskState, TestWorker, ExecuteWoken, SetKstIdle,
            IncThreadsReady, WakeUpSchedulers, Leave
        <5> QED
          BY <2>3, <5>2 DEF Executing
      <4> QED
        BY <2>3, <4>1, <4>2, <4>3 DEF Executing
    <3> QED
      BY <3>1, <3>2, <3>3, <3>4 DEF UniNext, UniSchedStep, UniWorkerStep
  <2> QED
    BY <1>0, <2>1, <2>2, <2>3
<1>3. ASSUME NEW s \in Sched, NEW w \in Worker, ClaimWorker(s, w) PROVE Fine
  <2>1. /\ batch' = [batch EXCEPT ![s] = Append(batch[s], w)]
        /\ spc[s] = "lock" /\ spc' = [spc EXCEPT ![s] = "dec"]
        /\ UNCHANGED <<wpc, state>>
        /\ mutex[w] = None /\ w \in wt_ready_queue[kclOf(s)]
    BY <1>3 DEF ClaimWorker, CanClaim, workerVars, Inv, UniInv, ScanLive
  <2>2. AtRest(w)
    BY <2>1, FreeAtRest, ListAssumption DEF Inv, kclOf
  <2>3. CASE t # s
    BY <1>0, <2>1, <2>3 DEF Executing, AtRest, TypeOK
  <2>4. CASE t = s
    <3>1. batch'[t] = Append(batch[t], w) /\ ~Executing(t)
      BY <1>0, <2>1, <2>4 DEF TypeOK, Executing, AwaitPC, ReleasePC
    <3>2. CASE i \in 1..Len(batch[t])
      <4>1. batch'[t][i] = batch[t][i]
        BY <1>0, <3>1, <3>2
      <4>2. AtRest(batch[t][i])
        BY <1>0, <3>1, <3>2
      <4> QED
        BY <2>1, <4>1, <4>2 DEF AtRest
    <3>3. CASE i = Len(batch[t]) + 1
      <4>1. batch'[t][i] = w
        BY <1>0, <3>1, <3>3
      <4> QED
        BY <2>1, <2>2, <4>1 DEF AtRest
    <3>4. Len(batch'[t]) = Len(batch[t]) + 1
      BY <1>0, <3>1
    <3> QED
      BY <1>0, <3>2, <3>3, <3>4
  <2> QED
    BY <2>3, <2>4
<1>4. ASSUME NEW s \in Sched, SkipUnknown(s) \/ UnlockWorker(s) PROVE Fine
  <2>1. /\ batch[s] # <<>> /\ batch'[s] = Tail(batch[s]) /\ UNCHANGED <<wpc, state>>
        /\ \A r \in Sched \ {s} : batch'[r] = batch[r] /\ spc'[r] = spc[r]
    BY <1>0, <1>4 DEF SkipUnknown, UnlockWorker, NextInBatch, TypeOK, workerVars, kwtVars
  <2>2. CASE t # s
    BY <1>0, <2>1, <2>2 DEF Executing, AtRest
  <2>3. CASE t = s
    <3>1. i + 1 \in 1..Len(batch[t]) /\ batch'[t][i] = batch[t][i + 1]
      <4>1. i \in 1..Len(Tail(batch[s])) /\ batch'[t] = Tail(batch[s])
        BY <2>1, <2>3
      <4>2. \A k \in 1..Len(Tail(batch[s])) : /\ k + 1 \in 1..Len(batch[s])
                                              /\ Tail(batch[s])[k] = batch[s][k + 1]
        BY <1>0, <2>1, TailOwned
      <4> QED
        BY <2>3, <4>1, <4>2
    <3>2. AtRest(batch[t][i + 1])
      BY <1>0, <3>1
    <3> QED
      BY <2>1, <3>1, <3>2 DEF AtRest
  <2> QED
    BY <2>2, <2>3
<1> QED
  BY <1>0, <1>2, <1>3, <1>4, FrameOwned

\* How a scheduler enters, goes through and leaves the walk over wt_ready_queue
LEMMA ScanMoves ==
  ASSUME TypeOK, NEW s \in Sched, SchedStep(s)
  PROVE  \/ ScanFreed(s)
         \/ WakeUpWorker(s)
         \/ \E w \in Worker : Advance(s, w) \/ ClaimWorker(s, w) \/ PassWorker(s, w)
         \/ TidFreed(s)
         \/ DecThreadsReady(s)
         \/ FinishScan(s)
         \/ /\ cursor'[s] = cursor[s]
            /\ spc[s] \notin {"scan", "lock", "dec"} /\ spc'[s] \notin {"lock", "dec", "oops"}
            /\ spc'[s] = "scan" => spc[s] = "get"
BY SMTT(60)
   DEF TypeOK, SchedStep, Dequeue, Execute,
       PrepareToWait, CheckReady, DequeueWoken, GetWtReadyQueue,
       SkipUnknown, NextInBatch, SetKstRunning,
       SetKwtRunning, SetTaskState, TestWorker, ExecuteWoken, SetKstIdle,
       IncThreadsReady, WakeUpSchedulers, UnlockWorker, Leave

\* The element under the scan belongs to a worker that sleeps, and the whole way to
\* the next claim is one section
LEMMA StepScanLive == Inv /\ [UniNext]_vars => ScanLive'
<1> SUFFICES ASSUME Inv, [UniNext]_vars, NEW t \in Sched
             PROVE  /\ spc'[t] # "oops"
                    /\ spc'[t] = "scan" =>
                         cursor'[t] = None \/ cursor'[t] \in wt_ready_queue'[kclOf(t)]
                    /\ spc'[t] = "lock" => cursor'[t] \in wt_ready_queue'[kclOf(t)]
                    /\ spc'[t] = "dec" =>
                         \E i \in 1..Len(batch'[t]) : batch'[t][i] = cursor'[t]
                    /\ spc'[t] \notin {"scan", "lock", "dec"} => cursor'[t] = None
  BY DEF ScanLive, CursorLive, kclOf
<1> DEFINE Live == /\ spc[t] # "oops"
                   /\ spc[t] = "scan" =>
                        cursor[t] = None \/ cursor[t] \in wt_ready_queue[kclOf(t)]
                   /\ spc[t] = "lock" => cursor[t] \in wt_ready_queue[kclOf(t)]
                   /\ spc[t] = "dec" => \E i \in 1..Len(batch[t]) : batch[t][i] = cursor[t]
                   /\ spc[t] \notin {"scan", "lock", "dec"} => cursor[t] = None
<1>0. /\ TypeOK /\ Live /\ kclOf(t) \in CL /\ kclOf(t)' = kclOf(t)
  BY ListAssumption DEF Inv, UniInv, OwnerInv, ScanLive, CursorLive, kclOf
<1>1. CASE UNCHANGED vars
  BY <1>0, <1>1 DEF vars, kclVars, schedVars
<1>2. ASSUME NEW v \in Worker, HasProcessor(v), WorkerStep(v) PROVE Live'
  <2>1. UNCHANGED <<spc, batch, cursor>>
    BY <1>0, <1>2, OneWorker, OneWorkerWalk
  <2>2. spc[t] \notin {"scan", "lock"}
    BY <1>2, AloneWorker DEF SchedSectionPC
  <2> QED
    BY <1>0, <2>1, <2>2
<1>3. ASSUME NEW s \in Sched \ {t}, SchedStep(s) PROVE Live'
  BY <1>0, <1>3, OneScheduler, OneSchedulerWalk
<1>4. ASSUME SchedStep(t) PROVE Live'
  <2>0. UNCHANGED <<wt_ready_queue, clid_list>>
    BY <1>0, <1>4, OneScheduler
  <2>1. ~ScanFreed(t) /\ ~TidFreed(t)
    BY <1>0 DEF ScanFreed, TidFreed, CursorLive
  <2>2. CASE WakeUpWorker(t)
    <3>1. spc[t] = "wake" /\ batch[t] # <<>> /\ state[kwtOf(t)] = WT_RUNNING
      BY <2>2 DEF WakeUpWorker, Inv, OwnerInv, WakesMarked
    <3>2. kwtOf(t) \in Worker /\ mutex[kwtOf(t)] = t
      BY <3>1, HeadOwned DEF Inv, OwnerInv
    <3>3. WorkerAlive(kwtOf(t))
      BY <3>1, <3>2 DEF Inv, UniInv, RunningDispatched, AwaitPC, WorkerAlive
    <3>4. spc'[t] = "settask" /\ cursor' = cursor
      BY <1>0, <2>2, <3>3 DEF WakeUpWorker, TypeOK
    <3> QED
      BY <1>0, <3>1, <3>4
  <2>3. ASSUME NEW w \in Worker, ClaimWorker(t, w) PROVE Live'
    <3>1. batch[t] \in Seq(Worker) /\ Len(batch[t]) \in Nat
      BY <1>0 DEF TypeOK
    <3>2. /\ batch'[t] = Append(batch[t], w) /\ cursor'[t] = w /\ spc'[t] = "dec"
      BY <1>0, <2>3 DEF ClaimWorker, TypeOK, CursorLive
    <3>3. /\ Len(batch[t]) + 1 \in 1..Len(batch'[t])
          /\ batch'[t][Len(batch[t]) + 1] = w
      BY <3>1, <3>2
    <3> QED
      BY <3>2, <3>3
  <2>4. ASSUME NEW w \in Worker, PassWorker(t, w) PROVE Live'
    BY <1>0, <2>0, <2>4 DEF PassWorker, TypeOK
  <2>8. ASSUME NEW w \in Worker, Advance(t, w) PROVE Live'
    BY <1>0, <2>0, <2>8 DEF Advance, Ahead, TypeOK
  <2>5. CASE DecThreadsReady(t)
    <3>1. /\ spc[t] = "dec" /\ spc'[t] \in {"scan", "dec"} /\ UNCHANGED <<batch, cursor>>
      BY <1>0, <2>5 DEF DecThreadsReady, TypeOK
    <3>2. PICK i \in 1..Len(batch[t]) : batch[t][i] = cursor[t]
      BY <1>0, <3>1
    <3>3. cursor[t] \in Worker /\ wpc[cursor[t]] = "sleep"
      <4>1. ~Executing(t)
        BY <3>1 DEF Executing, AwaitPC, ReleasePC
      <4>2. AtRest(batch[t][i])
        BY <4>1 DEF Inv, UniInv, BatchAtRest
      <4>3. batch[t][i] \in Worker
        BY <1>0 DEF TypeOK
      <4> QED
        BY <3>2, <4>2, <4>3 DEF AtRest
    <3>4. cursor[t] \in wt_ready_queue[kclOf(t)]
      BY <3>1, <3>3 DEF Inv, OwnerInv, DecQueued, ExitPC
    <3> QED
      BY <2>0, <3>1, <3>2, <3>4
  <2>6. CASE FinishScan(t)
    BY <1>0, <2>6 DEF FinishScan, TypeOK
  <2>7. CASE /\ cursor'[t] = cursor[t]
             /\ spc[t] \notin {"scan", "lock", "dec"} /\ spc'[t] \notin {"lock", "dec", "oops"}
             /\ spc'[t] = "scan" => spc[t] = "get"
    BY <1>0, <2>7
  <2> QED
    BY <1>0, <1>4, <2>1, <2>2, <2>3, <2>4, <2>5, <2>6, <2>7, <2>8, ScanMoves
<1> QED
  BY <1>1, <1>2, <1>3, <1>4 DEF UniNext, UniSchedStep, UniWorkerStep

(****************************************************************************)
(* The theorems.                                                              *)
(****************************************************************************)

\* At the start every worker sleeps where its creation has parked it
LEMMA InitUniInv == Init => UniInv
<1> SUFFICES ASSUME Init PROVE UniInv
  OBVIOUS
<1>1. /\ \A w \in Worker : wpc[w] = "sleep" /\ state[w] = WT_IDLE
      /\ \A s \in Sched : /\ spc[s] = "dequeue" /\ cursor[s] = None
                          /\ Len(batch[s]) = 0
  BY AllParked, EmptySeq DEF Init
<1>2. InSection = {}
  BY <1>1 DEF InSection, SchedSectionPC, WorkerSectionPC
<1>3. OneSection
  BY <1>2 DEF OneSection
<1>4. MarkTells /\ RunningDispatched /\ YieldAwaited /\ ExitAwaited /\ ExitHeld /\ ExitGone
  BY <1>1 DEF MarkTells, RunningDispatched, YieldAwaited, ExitAwaited, ExitHeld, ExitGone,
              YieldPC, ExitPC, WT_IDLE, WT_RUNNING
<1>5. BatchAtRest /\ ScanLive
  BY <1>1 DEF BatchAtRest, ScanLive
<1> QED
  BY <1>3, <1>4, <1>5 DEF UniInv

\* Only exits remove elements, and the lists of a worker stay
LEMMA StepQueuedListed == TypeOK /\ QueuedListed /\ [Next]_vars => QueuedListed'
<1> SUFFICES ASSUME TypeOK, QueuedListed, [Next]_vars, NEW c \in CL,
                    NEW w \in wt_ready_queue'[c]
             PROVE  c \in Lists(w)'
  BY DEF QueuedListed
<1>1. w \in wt_ready_queue[c]
  <2>1. ASSUME NEW v \in Worker, DecNthreads(v) PROVE w \in wt_ready_queue[c]
    BY <2>1, DecEffect
  <2> QED
    BY <2>1, FrameQueues
<1>2. clid_list' = clid_list
  BY FrameWorker
<1> QED
  BY <1>1, <1>2 DEF QueuedListed, Lists

\* A claim finds the element, and only the exit of its worker removes it
LEMMA StepDecQueued == TypeOK /\ DecQueued /\ [Next]_vars => DecQueued'
<1> SUFFICES ASSUME TypeOK, DecQueued, [Next]_vars, NEW t \in Sched, NEW w \in Worker,
                    spc'[t] \in {"lock", "dec"}, cursor'[t] = w
             PROVE  wpc'[w] \in ExitPC \/ w \in wt_ready_queue'[kclOf(t)]
  BY DEF DecQueued, kclOf
<1> DEFINE Queued == wpc[w] \in ExitPC \/ w \in wt_ready_queue[kclOf(t)]
<1>0. kclOf(t) \in CL /\ kclOf(t)' = kclOf(t)
  BY ListAssumption DEF kclOf
<1>1. CASE UNCHANGED vars
  BY <1>1 DEF DecQueued, vars, kclVars, schedVars, workerVars
<1>2. ASSUME NEW s \in Sched \ {t}, SchedStep(s) PROVE Queued'
  BY <1>0, <1>2, OneScheduler, OneSchedulerWalk DEF DecQueued
<1>3. CASE SchedStep(t)
  <2>1. UNCHANGED <<wpc, wt_ready_queue>>
    BY <1>3, OneScheduler
  <2>2. ASSUME NEW v \in Worker, Advance(t, v) PROVE w \in wt_ready_queue[kclOf(t)]
    BY <2>2 DEF Advance, Ahead, TypeOK
  <2>3. ASSUME ~\E v \in Worker : Advance(t, v)
        PROVE  spc[t] \in {"lock", "dec"} /\ cursor[t] = w
    <3>1. ~ScanFreed(t) /\ ~TidFreed(t) /\ ~WakeUpWorker(t) /\ ~FinishScan(t)
          /\ \A v \in Worker : ~PassWorker(t, v)
      BY DEF ScanFreed, TidFreed, WakeUpWorker, FinishScan, PassWorker, TypeOK
    <3>3. ASSUME NEW v \in Worker, ClaimWorker(t, v)
          PROVE  spc[t] \in {"lock", "dec"} /\ cursor[t] = w
      BY <3>3 DEF ClaimWorker
    <3>2. CASE DecThreadsReady(t)
      BY <3>2 DEF DecThreadsReady
    <3> QED
      BY <1>3, <2>3, <3>1, <3>2, <3>3, ScanMoves
  <2> QED
    BY <1>0, <2>1, <2>2, <2>3 DEF DecQueued
<1>4. ASSUME NEW v \in Worker, WorkerStep(v) PROVE Queued'
  <2>1. UNCHANGED <<spc, cursor>> /\ (wpc[w] \in ExitPC => wpc'[w] \in ExitPC)
    BY <1>4, OneWorker, OneWorkerWalk
  <2>2. Queued
    BY <2>1 DEF DecQueued
  <2>3. ASSUME NEW u \in Worker, DecNthreads(u) PROVE Queued'
    BY <1>0, <2>1, <2>2, <2>3, DecEffect DEF ExitPC
  <2> QED
    BY <1>0, <2>1, <2>2, <2>3, FrameQueues
<1> QED
  BY <1>0, <1>1, <1>2, <1>3, <1>4 DEF Next

\* OwnerInv is kept on any number of processors
LEMMA StepOwnerInv == OwnerInv /\ [Next]_vars => OwnerInv'
BY StepTypeOK, StepBatchOwned, StepWakesMarked, StepReleasedIsAwaited, StepExitMarked,
   StepQueuedListed, StepDecQueued DEF OwnerInv

\* At the start nobody owns anything
LEMMA InitInv == Init => Inv
<1> SUFFICES ASSUME Init PROVE Inv
  OBVIOUS
<1>1. TypeOK /\ BatchOwned /\ WakesMarked /\ ReleasedIsAwaited /\ QueuedListed
  BY InitIInv DEF IInv, QueuedUntilExit, QueuedListed
<1>2. ExitMarked /\ DecQueued
  BY DEF Init, ExitMarked, DecQueued, ExitPC, WT_IDLE, WT_EXITING
<1> QED
  BY <1>1, <1>2, InitUniInv DEF Inv, OwnerInv

\* No step on one processor breaks the invariant
LEMMA StepInv == Inv /\ [UniNext]_vars => Inv'
<1>1. Inv /\ [UniNext]_vars => UniInv'
  BY StepOneSection, StepMarkTells, StepRunningDispatched, StepYieldAwaited, StepExitAwaited,
     StepExitHeld, StepExitGone, StepBatchAtRest, StepScanLive DEF UniInv, Inv
<1> QED
  BY <1>1, UniStep, StepOwnerInv DEF Inv

\* It holds for ever on one processor
LEMMA UniInvariance == UniSpec => []Inv
BY InitInv, StepInv, PTL DEF UniSpec

\* A worker marked as running, whose scheduler waits for it, is awake: on one
\* processor the wake-up of EXECUTEUMSTHREAD never meets a worker that is still on
\* its way to schedule(), which would sleep through it.
THEOREM NoLostDispatch == UniSpec => []DispatchedIsAwake
<1>1. Inv => DispatchedIsAwake
  <2> SUFFICES ASSUME Inv, NEW s \in Sched, NEW w \in Worker, Awaits(s, w), state[w] = WT_RUNNING
               PROVE  ~(wpc[w] = "sleep" /\ task[w] = TASK_INTERRUPTIBLE)
    BY DEF DispatchedIsAwake
  <2>1. mutex[w] = s
    BY HeadOwned DEF Awaits, Inv, OwnerInv
  <2>2. Released(w)
    BY <2>1 DEF Awaits, AwaitPC, Inv, UniInv, RunningDispatched
  <2> QED
    BY <2>2 DEF Released, TASK_RUNNING, TASK_INTERRUPTIBLE
<1> QED
  BY <1>1, UniInvariance, PTL

\* Every worker DEQUEUECOMPLLIST returns is idle when the scheduler gets to it: none
\* has run or exited on another scheduler since.
THEOREM DequeuesReady == UniSpec => []DequeuedAreReady
<1>1. Inv => DequeuedAreReady
  <2> SUFFICES ASSUME Inv, NEW s \in Sched, spc[s] = "user", NEW i \in DOMAIN batch[s]
               PROVE  state[batch[s][i]] = WT_IDLE
    BY DEF DequeuedAreReady
  <2>1. i \in 1..Len(batch[s])
    BY DEF Inv, OwnerInv, TypeOK
  <2>2. ~Executing(s)
    BY DEF Executing, AwaitPC, ReleasePC
  <2> QED
    BY <2>1, <2>2 DEF Inv, UniInv, BatchAtRest, AtRest
<1> QED
  BY <1>1, UniInvariance, PTL

\* threads_ready is the number of workers of the queue that nobody has locked, when
\* no scheduler is about to move it: on one processor a worker that exits is locked
\* until it is in no queue, and its count is not taken out a second time.
THEOREM CountIsReady == UniSpec => []ThreadsReadyIsCount
<1>1. Inv /\ IInv /\ ReadyAccounting => ThreadsReadyIsCount
  <2> SUFFICES ASSUME Inv, IInv, ReadyAccounting, NEW c \in CL,
                      \A s \in Sched : spc[s] \notin {"dec", "inc", "wakeall", "unlock"}
               PROVE  threads_ready[c] = Cardinality({w \in wt_ready_queue[c] : mutex[w] = None})
    BY DEF ThreadsReadyIsCount
  <2>1. ASSUME NEW w \in Worker, CountedTwice(w, c) PROVE FALSE
    <3>1. wpc[w] \in ExitPC /\ state[w] # WT_RUNNING
      BY <2>1 DEF CountedTwice, Inv, UniInv, MarkTells, WT_EXITING, WT_RUNNING
    <3>2. PICK s \in Sched :
            /\ mutex[w] = s
            /\ ~(spc[s] \in AwaitPC \cup ReleasePC /\ batch[s] # <<>> /\ kwtOf(s) = w)
      BY <2>1, <3>1 DEF CountedTwice
    <3> QED
      BY <3>1, <3>2, ThreadAssumption DEF Inv, UniInv, ExitHeld
  <2>2. TwiceSet(c) = {}
    BY <2>1 DEF TwiceSet
  <2>3. CountedSet(c) = {w \in wt_ready_queue[c] : mutex[w] = None}
    <3>1. ASSUME NEW w \in Worker, Counted(w, c) PROVE w \in wt_ready_queue[c] /\ mutex[w] = None
      <4>1. mutex[w] = None /\ wpc[w] \notin ExitPC /\ c \in Lists(w)
        BY <3>1 DEF Counted
      <4> QED
        BY <4>1 DEF IInv, TypeOK, QueuedUntilExit, Lists
    <3>2. ASSUME NEW w \in wt_ready_queue[c], mutex[w] = None PROVE w \in Worker /\ Counted(w, c)
      <4>1. w \in Worker /\ c \in Lists(w)
        BY DEF IInv, TypeOK, QueuedUntilExit
      <4>2. AtRest(w)
        BY <3>2, <4>1, FreeAtRest DEF Inv
      <4> QED
        BY <3>2, <4>1, <4>2 DEF Counted, AtRest, ExitPC
    <3> QED
      BY <3>1, <3>2 DEF CountedSet
  <2>4. Cardinality(TwiceSet(c)) = 0 /\ Cardinality(CountedSet(c)) \in Nat
    BY <2>2, SetsFinite, FS_EmptySet
  <2>5. threads_ready[c] = Cardinality(CountedSet(c)) - Cardinality(TwiceSet(c))
    BY DEF ReadyAccounting, CountedSet, TwiceSet
  <2> QED
    BY <2>3, <2>4, <2>5
<1>2. UniSpec => []ReadyAccounting /\ []IInv
  BY UniIsDispatch, CountsKept, Invariance, PTL
<1> QED
  BY <1>1, <1>2, UniInvariance, PTL

\* A scheduler that waits in a dequeue or leaves has nothing left of its batch
BatchDone ==
  \A s \in Sched : spc[s] \in {"dequeue", "check", "blocked", "get", "leaving", "exited"} =>
    batch[s] = <<>>

LEMMA StepBatchDone == TypeOK /\ BatchDone /\ [Next]_vars => BatchDone'
<1> SUFFICES ASSUME TypeOK, BatchDone, [Next]_vars, NEW s \in Sched,
                    spc'[s] \in {"dequeue", "check", "blocked", "get", "leaving", "exited"}
             PROVE  batch'[s] = <<>>
  BY DEF BatchDone
<1>0. batch[s] \in Seq(Worker)
  BY DEF TypeOK
<1>1. ASSUME NEW w \in Worker, WorkerStep(w) PROVE batch'[s] = <<>>
  <2>1. UNCHANGED <<spc, batch>>
    BY <1>1, OneWorker
  <2> QED
    BY <2>1 DEF BatchDone
<1>2. ASSUME NEW t \in Sched, Dequeue(t) PROVE batch'[s] = <<>>
  <2>1. CASE t # s
    <3>1. SchedStep(t)
      BY <1>2 DEF SchedStep
    <3>2. spc'[s] = spc[s] /\ batch'[s] = batch[s]
      BY <2>1, <3>1, OneScheduler
    <3> QED
      BY <3>2 DEF BatchDone
  <2>2. CASE t = s /\ \E w \in Worker : Advance(t, w) \/ ClaimWorker(t, w) \/ PassWorker(t, w)
    BY <2>2 DEF BatchDone, TypeOK, Advance, ClaimWorker, PassWorker
  <2>3. CASE t = s /\ (TidFreed(t) \/ DecThreadsReady(t) \/ ScanFreed(t) \/ FinishScan(t))
    BY <2>3 DEF BatchDone, TypeOK, TidFreed, DecThreadsReady, ScanFreed, FinishScan
  <2>4. CASE t = s /\ (PrepareToWait(t) \/ CheckReady(t) \/ DequeueWoken(t) \/ GetWtReadyQueue(t))
    BY <2>4 DEF BatchDone, TypeOK, PrepareToWait, CheckReady, DequeueWoken, GetWtReadyQueue
  <2> QED
    BY <1>2, <2>1, <2>2, <2>3, <2>4 DEF Dequeue
<1>3. ASSUME NEW t \in Sched, SkipUnknown(t) \/ UnlockWorker(t) PROVE batch'[s] = <<>>
  <2>1. NextInBatch(t) /\ spc[t] \in {"user", "unlock"} /\ batch[t] \in Seq(Worker) /\ batch[t] # <<>>
    BY <1>3 DEF SkipUnknown, UnlockWorker, TypeOK
  <2>2. CASE t # s
    BY <2>1, <2>2 DEF BatchDone, NextInBatch, TypeOK
  <2>3. CASE t = s
    <3>1. Len(batch[s]) = 1 /\ batch'[s] = Tail(batch[s])
      BY <2>1, <2>3 DEF NextInBatch, TypeOK
    <3>2. Tail(batch[s]) \in Seq(Worker) /\ Len(Tail(batch[s])) = 0
      BY <1>0, <3>1, <2>1, <2>3, HeadTailProperties
    <3> QED
      BY <3>1, <3>2, EmptySeq
  <2> QED
    BY <2>2, <2>3
<1>4. ASSUME NEW t \in Sched, Execute(t) \/ Leave(t), ~SkipUnknown(t), ~UnlockWorker(t)
      PROVE  batch'[s] = <<>>
  BY <1>4 DEF BatchDone, Execute, TypeOK, SetKstRunning, SetKwtRunning, WakeUpWorker,
     SetTaskState, TestWorker, ExecuteWoken, SetKstIdle, IncThreadsReady, WakeUpSchedulers, Leave
<1>5. CASE UNCHANGED <<spc, batch>>
  BY <1>5 DEF BatchDone
<1> QED
  BY <1>1, <1>2, <1>3, <1>4, <1>5 DEF Next, SchedStep, vars, schedVars

\* A worker a dequeue has locked is executed, and then unlocked, by the scheduler
\* that locked it, as long as completion_list_get finds every worker of the list.
THEOREM LockedExecuted == ASSUME AllFindable PROVE UniSpec => []LockedIsExecuted
<1>1. Init => BatchDone
  BY DEF Init, BatchDone
<1>2. IInv /\ BatchDone /\ [Next]_vars => BatchDone'
  BY StepBatchDone DEF IInv
<1>3. UniSpec => []BatchDone /\ []LockedInBatch /\ []IInv
  BY <1>1, <1>2, UniIsDispatch, Invariance, AllFindable, LockedStaysInBatch, PTL DEF Spec
<1>4. Inv /\ IInv /\ BatchDone /\ LockedInBatch => LockedIsExecuted
  <2> SUFFICES ASSUME Inv, IInv, BatchDone, LockedInBatch, NEW w \in Worker, mutex[w] # None
               PROVE  /\ spc[mutex[w]] \notin {"leaving", "exited", "oops"}
                      /\ \E i \in DOMAIN batch[mutex[w]] : batch[mutex[w]][i] = w
    BY DEF LockedIsExecuted
  <2>1. \E i \in DOMAIN batch[mutex[w]] : batch[mutex[w]][i] = w
    BY DEF LockedInBatch
  <2>2. mutex[w] \in Sched
    BY DEF IInv, TypeOK
  <2>3. batch[mutex[w]] # <<>>
    BY <2>1
  <2> QED
    BY <2>1, <2>2, <2>3 DEF BatchDone, Inv, UniInv, ScanLive
<1> QED
  BY <1>3, <1>4, UniInvariance, PTL

\* get_wt_ready_queue never follows the next pointer of a freed list element.
THEOREM ScanSafe == UniSpec => []ScanIsSafe
<1>1. Inv => ScanIsSafe
  BY DEF Inv, UniInv, ScanLive, ScanIsSafe, CursorLive
<1> QED
  BY <1>1, UniInvariance, PTL

\* While a worker executes its routine kwt->curr_sched_tid names the scheduler that
\* owns kwt->mutex.
THEOREM NamesItsScheduler == UniSpec => []CurrSchedIsHolder
<1>1. Inv => CurrSchedIsHolder
  BY DEF Inv, OwnerInv, ReleasedIsAwaited, Released, UniInv, RunningDispatched, CurrSchedIsHolder
<1> QED
  BY <1>1, UniInvariance, PTL

\* wake_up_process is never called with the null task of a thread that has ended
\* or was never named.
THEOREM NoNullTask == UniSpec => []NoOops
<1>1. Inv => NoOops
  BY DEF Inv, UniInv, ScanLive, MarkTells, NoOops
<1> QED
  BY <1>1, UniInvariance, PTL
================================================================================
