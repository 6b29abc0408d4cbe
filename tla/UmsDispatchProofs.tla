--------------------------- MODULE UmsDispatchProofs ---------------------------
(****************************************************************************)
(* Proofs about UmsDispatch, for every number of schedulers, workers and      *)
(* completion lists, every assignment of workers to lists and every MAX_WT.   *)
(****************************************************************************)
EXTENDS UmsDispatch, FiniteSetTheorems, SequenceTheorems, TLAPS

(****************************************************************************)
(* The inductive invariant, a conjunction of named parts.                     *)
(****************************************************************************)

\* A scheduler owns kwt->mutex of every worker it has dequeued and not unlocked,
\* and has it once
BatchOwned ==
  \A s \in Sched :
    /\ \A i \in 1..Len(batch[s]) : mutex[batch[s][i]] = s
    /\ \A i, j \in 1..Len(batch[s]) : batch[s][i] = batch[s][j] => i = j

\* A scheduler about to wake a worker has marked it, and itself, as running
WakesMarked ==
  \A s \in Sched :
    /\ spc[s] \in ExecutePC => batch[s] # <<>>
    /\ spc[s] \in {"running", "wake"} \cup AwaitPC => wt_running[s] = kwtOf(s)
    /\ spc[s] = "wake" => state[kwtOf(s)] = WT_RUNNING

\* w executes its routine, or sleeps no longer and is about to
Released(w) == wpc[w] = "user" \/ (wpc[w] = "sleep" /\ task[w] = TASK_RUNNING)

\* RunsOnlyWhenDispatched, from the wake-up on
ReleasedIsAwaited ==
  \A w \in Worker : Released(w) =>
    /\ mutex[w] \in Sched /\ Awaits(mutex[w], w) /\ state[w] = WT_RUNNING

\* The lists of a worker never change, its element stays in all of them until it
\* exits, and every element, one that a walk stands on included, belongs to a
\* worker of the list
QueuedUntilExit ==
  /\ clid_list = ClidList
  /\ \A w \in Worker : wpc[w] \notin ExitPC =>
       \A i \in 1..Len(clid_list[w]) : w \in wt_ready_queue[clid_list[w][i]]
  /\ \A c \in CL : \A w \in wt_ready_queue[c] : c \in Lists(w)
  /\ \A s \in Sched : \A i \in 1..Len(batch[s]) : kclOf(s) \in Lists(batch[s][i])
  /\ \A s \in Sched : spc[s] = "lock" => kclOf(s) \in Lists(cursor[s])

\* An exiting worker still has its element in the lists it has not visited
QueuedWhileLeaving ==
  \A w \in Worker : wpc[w] = "x_dec" =>
    /\ \A i \in 1..Len(wlists[w]) : w \in wt_ready_queue[wlists[w][i]]
    /\ \A i, j \in 1..Len(wlists[w]) : wlists[w][i] = wlists[w][j] => i = j

NthreadsCounts == \A c \in CL : nthreads[c] = Cardinality(wt_ready_queue[c])

IInv ==
  /\ TypeOK
  /\ BatchOwned
  /\ WakesMarked
  /\ ReleasedIsAwaited
  /\ QueuedUntilExit
  /\ QueuedWhileLeaving
  /\ NthreadsCounts
  /\ LeavesAfterAllDone

(****************************************************************************)
(* Type correctness.                                                          *)
(****************************************************************************)

\* The initial state is well typed: the counters start at the size of the queues
LEMMA InitTypeOK == Init => TypeOK
<1> SUFFICES ASSUME Init PROVE TypeOK
  OBVIOUS
<1>1. \A c \in CL : /\ wt_ready_queue[c] \in SUBSET Worker
                    /\ Cardinality(wt_ready_queue[c]) \in Nat
  <2> TAKE c \in CL
  <2>1. wt_ready_queue[c] \in SUBSET Worker
    BY DEF Init
  <2>2. IsFiniteSet(wt_ready_queue[c])
    BY <2>1, ThreadAssumption, FS_Subset
  <2> QED
    BY <2>1, <2>2, FS_CardinalityType
<1>2. /\ threads_ready \in [CL -> Int]
      /\ nthreads \in [CL -> Int]
      /\ wt_ready_queue \in [CL -> SUBSET Worker]
  <2>1. /\ threads_ready = [c \in CL |-> Cardinality(wt_ready_queue[c])]
        /\ nthreads = [c \in CL |-> Cardinality(wt_ready_queue[c])]
    BY DEF Init
  <2>2. wt_ready_queue = [c \in CL |-> {w \in Worker : c \in Lists(w)}]
    BY DEF Init
  <2>3. \A c \in CL : Cardinality(wt_ready_queue[c]) \in Int
    BY <1>1
  <2>4. wt_ready_queue \in [CL -> SUBSET Worker]
    BY <2>2
  <2> QED
    BY <2>1, <2>3, <2>4
<1> QED
  BY <1>2, ThreadAssumption, ListAssumption, BoundAssumption
  DEF Init, TypeOK, WT_IDLE, TASK_RUNNING, TASK_INTERRUPTIBLE, SchedPC, DequeuePC,
      WorkerPC

\* The first worker of a batch and what is left of the batch are well typed
LEMMA BatchType ==
  ASSUME TypeOK, NEW s \in Sched, batch[s] # <<>>
  PROVE  /\ kwtOf(s) \in Worker
         /\ Tail(batch[s]) \in Seq(Worker)
         /\ Len(Tail(batch[s])) = Len(batch[s]) - 1
         /\ Len(batch[s]) \in Nat \ {0}
<1>1. batch[s] \in Seq(Worker)
  BY DEF TypeOK
<1> QED
  BY <1>1, HeadTailProperties, EmptySeq, LenProperties DEF kwtOf

\* The same of the lists left in a walk over clid_list
LEMMA ListsType ==
  ASSUME NEW q \in Seq(CL), q # <<>>
  PROVE  Head(q) \in CL /\ Tail(q) \in Seq(CL)
BY HeadTailProperties, EmptySeq

\* No handler writes a value out of its domain; a claim needs room in the array
LEMMA StepTypeOK == TypeOK /\ [Next]_vars => TypeOK'
<1> SUFFICES ASSUME TypeOK, [Next]_vars PROVE TypeOK'
  OBVIOUS
<1>1. ASSUME NEW s \in Sched, PrepareToWait(s) PROVE TypeOK'
  BY <1>1 DEF TypeOK, vars, kwtVars, kclVars, schedVars, workerVars, PrepareToWait, SchedPC, DequeuePC, ExecutePC, AwaitPC, ReleasePC, set_current_state, TASK_INTERRUPTIBLE
<1>2. ASSUME NEW s \in Sched, CheckReady(s) PROVE TypeOK'
  BY <1>2 DEF TypeOK, vars, kwtVars, kclVars, schedVars, workerVars, CheckReady, SchedPC, DequeuePC, ExecutePC, AwaitPC, ReleasePC, set_current_state, TASK_RUNNING
<1>3. ASSUME NEW s \in Sched, DequeueWoken(s) PROVE TypeOK'
  BY <1>3 DEF TypeOK, vars, kwtVars, kclVars, schedVars, workerVars, DequeueWoken, SchedPC, DequeuePC, ExecutePC, AwaitPC, ReleasePC
<1>4. ASSUME NEW s \in Sched, GetWtReadyQueue(s) PROVE TypeOK'
  BY <1>4 DEF TypeOK, vars, kwtVars, kclVars, schedVars, workerVars, GetWtReadyQueue, SchedPC, DequeuePC, ExecutePC, AwaitPC, ReleasePC
<1>5. ASSUME NEW s \in Sched, DecThreadsReady(s) PROVE TypeOK'
  BY <1>5 DEF TypeOK, vars, kwtVars, kclVars, schedVars, workerVars, DecThreadsReady, SchedPC, DequeuePC, ExecutePC, AwaitPC, ReleasePC
<1>6. ASSUME NEW s \in Sched, ScanFreed(s) PROVE TypeOK'
  <2>1. Ahead(s) \subseteq Worker
    BY ListAssumption DEF TypeOK, Ahead, kclOf
  <2>2. seen' \in [Sched -> SUBSET Worker]
    <3>1. CASE UNCHANGED seen
      BY <3>1 DEF TypeOK
    <3>2. ASSUME NEW missed \in SUBSET Ahead(s),
                 seen' = [seen EXCEPT ![s] = @ \cup missed]
          PROVE  seen' \in [Sched -> SUBSET Worker]
      BY <2>1, <3>2 DEF TypeOK
    <3> QED
      BY <1>6, <3>1, <3>2 DEF ScanFreed
  <2>3. /\ cursor' \in [Sched -> Worker \cup {None}]
        /\ spc' \in [Sched -> SchedPC]
    BY <1>6 DEF TypeOK, ScanFreed, SchedPC
  <2> QED
    BY <1>6, <2>2, <2>3 DEF TypeOK, vars, kwtVars, kclVars, schedVars, workerVars, ScanFreed
<1>7. ASSUME NEW s \in Sched, FinishScan(s) PROVE TypeOK'
  BY <1>7 DEF TypeOK, vars, kwtVars, kclVars, schedVars, workerVars, FinishScan, SchedPC, DequeuePC, ExecutePC, AwaitPC, ReleasePC
<1>8. ASSUME NEW s \in Sched, SkipUnknown(s) PROVE TypeOK'
  <2>1. /\ Tail(batch[s]) \in Seq(Worker) /\ Len(Tail(batch[s])) <= MAX_WT
    BY <1>8, BatchType, BoundAssumption DEF TypeOK, SkipUnknown
  <2>2. /\ batch' \in [Sched -> Seq(Worker)]
        /\ \A t \in Sched : Len(batch'[t]) <= MAX_WT
    BY <1>8, <2>1 DEF TypeOK, SkipUnknown, NextInBatch
  <2>3. spc' \in [Sched -> SchedPC]
    BY <1>8 DEF TypeOK, SkipUnknown, NextInBatch, SchedPC, DequeuePC
  <2> QED
    BY <1>8, <2>2, <2>3 DEF TypeOK, vars, kwtVars, kclVars, schedVars, workerVars, SkipUnknown
<1>9. ASSUME NEW s \in Sched, SetKstRunning(s) PROVE TypeOK'
  BY <1>9, BatchType DEF TypeOK, vars, kwtVars, kclVars, schedVars, workerVars, SetKstRunning, SchedPC, ExecutePC
<1>10. ASSUME NEW s \in Sched, SetKwtRunning(s) PROVE TypeOK'
  BY <1>10 DEF TypeOK, vars, kwtVars, kclVars, schedVars, workerVars, SetKwtRunning, SchedPC, DequeuePC, ExecutePC, AwaitPC, ReleasePC, kwtOf, WT_RUNNING
<1>11. ASSUME NEW s \in Sched, WakeUpWorker(s) PROVE TypeOK'
  BY <1>11 DEF TypeOK, vars, kwtVars, kclVars, schedVars, workerVars, WakeUpWorker, SchedPC, DequeuePC, ExecutePC, AwaitPC, ReleasePC, wake_up_process, kwtOf, TASK_RUNNING
<1>12. ASSUME NEW s \in Sched, SetTaskState(s) PROVE TypeOK'
  BY <1>12 DEF TypeOK, vars, kwtVars, kclVars, schedVars, workerVars, SetTaskState, SchedPC, DequeuePC, ExecutePC, AwaitPC, ReleasePC, set_current_state, TASK_INTERRUPTIBLE
<1>13. ASSUME NEW s \in Sched, TestWorker(s) PROVE TypeOK'
  BY <1>13 DEF TypeOK, vars, kwtVars, kclVars, schedVars, workerVars, TestWorker, SchedPC, DequeuePC, ExecutePC, AwaitPC, ReleasePC, set_current_state, TASK_RUNNING
<1>14. ASSUME NEW s \in Sched, ExecuteWoken(s) PROVE TypeOK'
  BY <1>14 DEF TypeOK, vars, kwtVars, kclVars, schedVars, workerVars, ExecuteWoken, SchedPC, DequeuePC, ExecutePC, AwaitPC, ReleasePC
<1>15. ASSUME NEW s \in Sched, SetKstIdle(s) PROVE TypeOK'
  BY <1>15, BatchType DEF TypeOK, vars, kwtVars, kclVars, schedVars, workerVars, SetKstIdle, SchedPC, ExecutePC, ReleasePC
<1>16. ASSUME NEW s \in Sched, IncThreadsReady(s) PROVE TypeOK'
  <2>1. /\ slists[s] \in Seq(CL) /\ Head(slists[s]) \in CL /\ Tail(slists[s]) \in Seq(CL)
        /\ kwtOf(s) \in Worker
    BY <1>16, ListsType, BatchType DEF TypeOK, IncThreadsReady
  <2>2. /\ threads_ready' \in [CL -> Int]
        /\ slists' \in [Sched -> Seq(CL)]
        /\ spc' \in [Sched -> SchedPC]
    <3>1. threads_ready' \in [CL -> Int]
      BY <1>16 DEF TypeOK, IncThreadsReady
    <3>2. clid_list[kwtOf(s)] \in Seq(CL)
      BY <2>1 DEF TypeOK
    <3>3. slists' \in [Sched -> Seq(CL)]
      BY <1>16, <2>1, <3>2 DEF TypeOK, IncThreadsReady
    <3>4. spc' \in [Sched -> SchedPC]
      BY <1>16 DEF TypeOK, IncThreadsReady, SchedPC, ExecutePC, ReleasePC
    <3> QED
      BY <3>1, <3>3, <3>4
  <2> QED
    BY <1>16, <2>2 DEF TypeOK, vars, kwtVars, kclVars, schedVars, workerVars, IncThreadsReady
<1>17. ASSUME NEW s \in Sched, WakeUpSchedulers(s) PROVE TypeOK'
  BY <1>17 DEF TypeOK, vars, kwtVars, kclVars, schedVars, workerVars, WakeUpSchedulers, SchedPC, DequeuePC, ExecutePC, AwaitPC, ReleasePC, wake_up_interruptible_all, TASK_RUNNING
<1>18. ASSUME NEW s \in Sched, UnlockWorker(s) PROVE TypeOK'
  <2>1. /\ batch' \in [Sched -> Seq(Worker)]
        /\ \A t \in Sched : Len(batch'[t]) <= MAX_WT
        /\ spc' \in [Sched -> SchedPC]
        /\ mutex' \in [Worker -> Sched \cup {None}]
    <3>1. /\ Tail(batch[s]) \in Seq(Worker) /\ Len(Tail(batch[s])) <= MAX_WT
      BY <1>18, BatchType, BoundAssumption DEF TypeOK, UnlockWorker
    <3>2. /\ batch' \in [Sched -> Seq(Worker)]
          /\ \A t \in Sched : Len(batch'[t]) <= MAX_WT
      BY <1>18, <3>1 DEF TypeOK, UnlockWorker, NextInBatch
    <3>3. spc' \in [Sched -> SchedPC]
      BY <1>18 DEF TypeOK, UnlockWorker, NextInBatch, SchedPC, DequeuePC
    <3>4. mutex' \in [Worker -> Sched \cup {None}]
      BY <1>18 DEF TypeOK, UnlockWorker
    <3> QED
      BY <3>2, <3>3, <3>4
  <2> QED
    BY <1>18, <2>1 DEF TypeOK, vars, kwtVars, kclVars, schedVars, workerVars, UnlockWorker
<1>19. ASSUME NEW s \in Sched, Leave(s) PROVE TypeOK'
  BY <1>19 DEF TypeOK, vars, kwtVars, kclVars, schedVars, workerVars, Leave, SchedPC, DequeuePC, ExecutePC, AwaitPC, ReleasePC
<1>20. ASSUME NEW s \in Sched, NEW w \in Worker, ClaimWorker(s, w) PROVE TypeOK'
  <2>1. /\ Append(batch[s], w) \in Seq(Worker)
        /\ Len(Append(batch[s], w)) <= MAX_WT
    BY <1>20, AppendProperties, LenProperties, BoundAssumption
    DEF TypeOK, ClaimWorker, CanClaim
  <2>2. /\ batch' \in [Sched -> Seq(Worker)]
        /\ \A t \in Sched : Len(batch'[t]) <= MAX_WT
    BY <1>20, <2>1 DEF TypeOK, ClaimWorker
  <2> QED
    BY <1>20, <2>2 DEF TypeOK, ClaimWorker, vars, kwtVars, kclVars, schedVars, workerVars,
                       SchedPC, DequeuePC
<1>21. ASSUME NEW s \in Sched, NEW w \in Worker, PassWorker(s, w) PROVE TypeOK'
  BY <1>21 DEF TypeOK, vars, kwtVars, kclVars, schedVars, workerVars, PassWorker, SchedPC, DequeuePC, ExecutePC, AwaitPC, ReleasePC
<1>32. ASSUME NEW s \in Sched, NEW w \in Worker, Advance(s, w) PROVE TypeOK'
  BY <1>32 DEF TypeOK, vars, kwtVars, kclVars, schedVars, workerVars, Advance, SchedPC, DequeuePC, ExecutePC, AwaitPC, ReleasePC, Ahead, kclOf
<1>33. ASSUME NEW s \in Sched, TidFreed(s) PROVE TypeOK'
  BY <1>33 DEF TypeOK, vars, kwtVars, kclVars, schedVars, workerVars, TidFreed, SchedPC, DequeuePC, ExecutePC, AwaitPC, ReleasePC
<1>22. ASSUME NEW w \in Worker, Park(w) PROVE TypeOK'
  BY <1>22 DEF TypeOK, vars, kwtVars, kclVars, schedVars, workerVars, Park, WorkerPC, YieldPC, ExitPC, set_current_state, TASK_INTERRUPTIBLE
<1>23. ASSUME NEW w \in Worker, Resume(w) PROVE TypeOK'
  BY <1>23 DEF TypeOK, vars, kwtVars, kclVars, schedVars, workerVars, Resume, WorkerPC, YieldPC, ExitPC
<1>24. ASSUME NEW w \in Worker, SetKwtIdle(w) PROVE TypeOK'
  BY <1>24, BoundAssumption DEF TypeOK, vars, kwtVars, kclVars, schedVars, workerVars, SetKwtIdle, WorkerPC, YieldPC, ExitPC, WT_IDLE
<1>25. ASSUME NEW w \in Worker, SetKwtExiting(w) PROVE TypeOK'
  BY <1>25 DEF TypeOK, vars, kwtVars, kclVars, schedVars, workerVars, SetKwtExiting, WorkerPC, YieldPC, ExitPC, WT_EXITING
<1>26. ASSUME NEW w \in Worker, DecNthreads(w) PROVE TypeOK'
  <2>1. Head(wlists[w]) \in CL /\ Tail(wlists[w]) \in Seq(CL)
    BY <1>26, ListsType DEF TypeOK, DecNthreads
  <2>2. /\ wt_ready_queue' \in [CL -> SUBSET Worker]
        /\ nthreads' \in [CL -> Int]
        /\ wlists' \in [Worker -> Seq(CL)]
        /\ wpc' \in [Worker -> WorkerPC]
    <3>1. /\ wt_ready_queue' \in [CL -> SUBSET Worker]
          /\ nthreads' \in [CL -> Int]
      BY <1>26, <2>1 DEF TypeOK, DecNthreads
    <3>2. wlists' \in [Worker -> Seq(CL)]
      BY <1>26, <2>1 DEF TypeOK, DecNthreads
    <3>3. wpc' \in [Worker -> WorkerPC]
      BY <1>26 DEF TypeOK, DecNthreads, WorkerPC, ExitPC
    <3> QED
      BY <3>1, <3>2, <3>3
  <2> QED
    BY <1>26, <2>2 DEF TypeOK, vars, kwtVars, kclVars, schedVars, workerVars, DecNthreads
<1>27. ASSUME NEW w \in Worker, EndWorker(w) PROVE TypeOK'
  BY <1>27 DEF TypeOK, vars, kwtVars, kclVars, schedVars, workerVars, EndWorker, WorkerPC, YieldPC, ExitPC
<1>28. ASSUME NEW w \in Worker, NEW from, NEW to \in WorkerPC, LookUpScheduler(w, from, to) PROVE TypeOK'
  BY <1>28 DEF TypeOK, vars, kwtVars, kclVars, schedVars, workerVars, LookUpScheduler
<1>29. ASSUME NEW w \in Worker, NEW from, NEW to \in WorkerPC, NEW oops \in WorkerPC, WakeUpScheduler(w, from, to, oops) PROVE TypeOK'
  <2>1. task' \in [Sched \cup Worker -> {TASK_RUNNING, TASK_INTERRUPTIBLE}]
    BY <1>29 DEF TypeOK, WakeUpScheduler, wake_up_process, TASK_RUNNING
  <2>2. wpc' \in [Worker -> WorkerPC]
    BY <1>29 DEF TypeOK, WakeUpScheduler
  <2> QED
    BY <1>29, <2>1, <2>2 DEF TypeOK, vars, kwtVars, kclVars, schedVars, workerVars, WakeUpScheduler
<1>30. ASSUME NEW w \in Worker, NEW from, NEW to \in WorkerPC, ClearScheduler(w, from, to) PROVE TypeOK'
  BY <1>30 DEF TypeOK, vars, kwtVars, kclVars, schedVars, workerVars, ClearScheduler
<1>31. ASSUME UNCHANGED vars PROVE TypeOK'
  BY <1>31 DEF TypeOK, vars, kwtVars, kclVars, schedVars, workerVars
<1> QED
  BY <1>1, <1>2, <1>3, <1>4, <1>5, <1>6, <1>7, <1>8, <1>9, <1>10, <1>11, <1>12, <1>13, <1>14, <1>15, <1>16, <1>17, <1>18, <1>19, <1>20, <1>21, <1>22, <1>23, <1>24, <1>25, <1>26, <1>27, <1>28, <1>29, <1>30, <1>31,
     <1>32, <1>33
  DEF Next, SchedStep, Dequeue, Execute, WorkerStep, Yield, Exit, WorkerPC, YieldPC, ExitPC

(****************************************************************************)
(* Which actions change the owner of a mutex or a batch.                      *)
(****************************************************************************)

\* kwt->mutex and the batches change only when a worker is claimed, skipped or unlocked
LEMMA FrameOwned ==
  [Next]_vars =>
    \/ UNCHANGED <<mutex, batch>>
    \/ \E s \in Sched : \/ \E w \in Worker : ClaimWorker(s, w)
                        \/ SkipUnknown(s)
                        \/ UnlockWorker(s)
BY SMTT(60) DEF Next, SchedStep, Dequeue, Execute, WorkerStep, Yield, Exit, vars, kwtVars,
       PrepareToWait, CheckReady, DequeueWoken, GetWtReadyQueue, Advance, PassWorker, TidFreed, DecThreadsReady,
       ScanFreed, FinishScan, SetKstRunning, SetKwtRunning, WakeUpWorker, SetTaskState,
       TestWorker, ExecuteWoken, SetKstIdle, IncThreadsReady, WakeUpSchedulers, Leave, Park,
       Resume, SetKwtIdle, SetKwtExiting, DecNthreads, EndWorker, LookUpScheduler,
       WakeUpScheduler, ClearScheduler, schedVars

(****************************************************************************)
(* What a step of one thread leaves alone.                                    *)
(****************************************************************************)

\* A step of s leaves the other schedulers and the workers' control alone, and sets
\* no worker state but WT_RUNNING
LEMMA OneScheduler ==
  ASSUME TypeOK, NEW s \in Sched, SchedStep(s)
  PROVE  /\ \A t \in Sched \ {s} : /\ spc'[t] = spc[t] /\ batch'[t] = batch[t]
                                   /\ wt_running'[t] = wt_running[t]
         /\ \A w \in Worker : state'[w] \in {state[w], WT_RUNNING}
         /\ UNCHANGED <<wpc, wlists, nthreads, wt_ready_queue, clid_list>>
BY SMTT(60) DEF TypeOK, SchedStep, Dequeue, Execute, kwtVars, kclVars, workerVars,
       PrepareToWait, CheckReady, DequeueWoken, GetWtReadyQueue, Advance, ClaimWorker, PassWorker, TidFreed,
       DecThreadsReady, ScanFreed, FinishScan, SkipUnknown, NextInBatch, SetKstRunning,
       SetKwtRunning, WakeUpWorker, SetTaskState, TestWorker, ExecuteWoken, SetKstIdle,
       IncThreadsReady, WakeUpSchedulers, UnlockWorker, Leave

\* A scheduler touches the task of a worker only in the wake-up of EXECUTEUMSTHREAD
LEMMA OneSchedulerTask ==
  ASSUME TypeOK, NEW s \in Sched, SchedStep(s), NEW w \in Worker
  PROVE  task'[w] = task[w] \/ (WakeUpWorker(s) /\ kwtOf(s) = w)
BY ThreadAssumption, SMTT(60)
   DEF TypeOK, SchedStep, Dequeue, Execute, kwtVars, kclVars, workerVars,
       set_current_state, wake_up_process, wake_up_interruptible_all,
       PrepareToWait, CheckReady, DequeueWoken, GetWtReadyQueue, Advance, ClaimWorker, PassWorker, TidFreed,
       DecThreadsReady, ScanFreed, FinishScan, SkipUnknown, NextInBatch, SetKstRunning,
       SetKwtRunning, WakeUpWorker, SetTaskState, TestWorker, ExecuteWoken, SetKstIdle,
       IncThreadsReady, WakeUpSchedulers, UnlockWorker, Leave

\* A step of w leaves the schedulers' control and the other workers alone, writes
\* kwt->state only at the end of its routine, and never releases itself
LEMMA OneWorker ==
  ASSUME TypeOK, NEW w \in Worker, WorkerStep(w)
  PROVE  /\ UNCHANGED <<spc, batch, wt_running, mutex, clid_list>>
         /\ \A v \in Worker \ {w} :
              /\ wpc'[v] = wpc[v] /\ state'[v] = state[v] /\ task'[v] = task[v]
              /\ wlists'[v] = wlists[v]
         /\ UNCHANGED state \/ wpc[w] = "user"
         /\ Released(w)' => Released(w) /\ UNCHANGED state
         /\ wpc[w] \in ExitPC => wpc'[w] \in ExitPC
BY ThreadAssumption, SMTT(60)
   DEF TypeOK, WorkerStep, Yield, Exit, kwtVars, kclVars, schedVars, Released,
       set_current_state, wake_up_process, TASK_INTERRUPTIBLE, TASK_RUNNING, ExitPC,
       Park, Resume, SetKwtIdle, SetKwtExiting, DecNthreads, EndWorker, LookUpScheduler,
       WakeUpScheduler, ClearScheduler

(****************************************************************************)
(* The ownership of kwt->mutex.                                               *)
(****************************************************************************)

\* NextInBatch drops the first worker: the rest is still owned, and is not it
LEMMA TailOwned ==
  ASSUME TypeOK, BatchOwned, NEW s \in Sched, batch[s] # <<>>
  PROVE  \A i \in 1..Len(Tail(batch[s])) :
           /\ i + 1 \in 1..Len(batch[s])
           /\ Tail(batch[s])[i] = batch[s][i + 1]
           /\ Tail(batch[s])[i] # kwtOf(s)
           /\ mutex[Tail(batch[s])[i]] = s
           /\ \A j \in 1..Len(Tail(batch[s])) : Tail(batch[s])[i] = Tail(batch[s])[j] => i = j
<1>1. batch[s] \in Seq(Worker)
  BY DEF TypeOK
<1>2. \A i \in 1..Len(Tail(batch[s])) : /\ i + 1 \in 1..Len(batch[s])
                                        /\ Tail(batch[s])[i] = batch[s][i + 1]
  BY <1>1, BatchType, HeadTailProperties
<1>3. kwtOf(s) = batch[s][1] /\ 1 \in 1..Len(batch[s])
  BY <1>1, BatchType DEF kwtOf
<1>4. \A i, j \in 1..Len(Tail(batch[s])) : Tail(batch[s])[i] = Tail(batch[s])[j] => i = j
  <2> SUFFICES ASSUME NEW i \in 1..Len(Tail(batch[s])), NEW j \in 1..Len(Tail(batch[s])),
                      Tail(batch[s])[i] = Tail(batch[s])[j]
               PROVE  i = j
    OBVIOUS
  <2>1. /\ batch[s][i + 1] = batch[s][j + 1]
        /\ i + 1 \in 1..Len(batch[s]) /\ j + 1 \in 1..Len(batch[s])
    BY <1>2
  <2>2. i + 1 = j + 1
    BY <2>1 DEF BatchOwned
  <2> QED
    BY <2>2
<1>5. \A i \in 1..Len(Tail(batch[s])) : /\ Tail(batch[s])[i] # kwtOf(s)
                                        /\ mutex[Tail(batch[s])[i]] = s
  BY <1>2, <1>3 DEF BatchOwned
<1> QED
  BY <1>2, <1>4, <1>5

\* The worker a scheduler executes is one whose kwt->mutex it holds
LEMMA HeadOwned ==
  ASSUME TypeOK, BatchOwned, NEW s \in Sched, batch[s] # <<>>
  PROVE  kwtOf(s) \in Worker /\ mutex[kwtOf(s)] = s
<1>1. kwtOf(s) = batch[s][1] /\ 1 \in 1..Len(batch[s])
  BY BatchType DEF TypeOK, kwtOf
<1> QED
  BY <1>1, BatchType DEF BatchOwned

\* kwt->mutex moves only by mutex_trylock and by the unlock of EXECUTEUMSTHREAD
LEMMA StepBatchOwned ==
  TypeOK /\ BatchOwned /\ [Next]_vars => BatchOwned'
<1> SUFFICES ASSUME TypeOK, BatchOwned, [Next]_vars PROVE BatchOwned'
  OBVIOUS
<1>1. CASE UNCHANGED <<mutex, batch>>
  BY <1>1 DEF BatchOwned
<1>2. ASSUME NEW s \in Sched, NEW w \in Worker, ClaimWorker(s, w) PROVE BatchOwned'
  <2>1. \A t \in Sched : \A i \in 1..Len(batch[t]) : batch[t][i] \in Worker /\ batch[t][i] # w
    <3>1. \A t \in Sched : \A i \in 1..Len(batch[t]) : batch[t][i] \in Worker
      BY BatchType DEF TypeOK
    <3>2. mutex[w] = None /\ None \notin Sched
      BY <1>2, ThreadAssumption DEF ClaimWorker, CanClaim
    <3> QED
      BY <3>1, <3>2 DEF BatchOwned
  <2>2. /\ Len(Append(batch[s], w)) = Len(batch[s]) + 1
        /\ \A i \in 1..Len(batch[s]) : Append(batch[s], w)[i] = batch[s][i]
        /\ Append(batch[s], w)[Len(batch[s]) + 1] = w
        /\ Len(batch[s]) \in Nat
    BY AppendProperties, LenProperties DEF TypeOK
  <2>3. /\ batch'[s] = Append(batch[s], w) /\ mutex'[w] = s
        /\ \A t \in Sched \ {s} : batch'[t] = batch[t]
        /\ \A v \in Worker \ {w} : mutex'[v] = mutex[v]
    BY <1>2 DEF ClaimWorker, TypeOK
  <2>4. ASSUME NEW t \in Sched \ {s}
        PROVE  /\ \A i \in 1..Len(batch'[t]) : mutex'[batch'[t][i]] = t
               /\ \A i, j \in 1..Len(batch'[t]) : batch'[t][i] = batch'[t][j] => i = j
    BY <2>1, <2>3 DEF BatchOwned
  <2>5. ASSUME NEW i \in 1..Len(batch'[s]) PROVE mutex'[batch'[s][i]] = s
    <3>1. CASE i \in 1..Len(batch[s])
      BY <2>1, <2>2, <2>3, <3>1 DEF BatchOwned
    <3>2. CASE i = Len(batch[s]) + 1
      BY <2>2, <2>3, <3>2
    <3> QED
      BY <2>2, <2>3, <3>1, <3>2
  <2>6. \A i, j \in 1..Len(batch'[s]) : batch'[s][i] = batch'[s][j] => i = j
    BY <2>1, <2>2, <2>3 DEF BatchOwned
  <2> QED
    BY <2>4, <2>5, <2>6 DEF BatchOwned
<1>3. ASSUME NEW s \in Sched, SkipUnknown(s) PROVE BatchOwned'
  <2>1. /\ batch[s] # <<>> /\ batch'[s] = Tail(batch[s]) /\ mutex' = mutex
        /\ \A t \in Sched \ {s} : batch'[t] = batch[t]
    BY <1>3 DEF SkipUnknown, NextInBatch, kwtVars, TypeOK
  <2>2. \A i, j \in 1..Len(batch'[s]) : batch'[s][i] = batch'[s][j] => i = j
    BY <2>1, TailOwned
  <2>3. \A i \in 1..Len(batch'[s]) : mutex'[batch'[s][i]] = s
    BY <2>1, TailOwned
  <2>4. ASSUME NEW t \in Sched \ {s}
        PROVE  /\ \A i \in 1..Len(batch'[t]) : mutex'[batch'[t][i]] = t
               /\ \A i, j \in 1..Len(batch'[t]) : batch'[t][i] = batch'[t][j] => i = j
    BY <2>1 DEF BatchOwned
  <2> QED
    BY <2>2, <2>3, <2>4 DEF BatchOwned
<1>4. ASSUME NEW s \in Sched, UnlockWorker(s) PROVE BatchOwned'
  <2>1. /\ batch[s] # <<>> /\ batch'[s] = Tail(batch[s])
        /\ \A t \in Sched \ {s} : batch'[t] = batch[t]
        /\ \A w \in Worker \ {kwtOf(s)} : mutex'[w] = mutex[w]
    BY <1>4 DEF UnlockWorker, NextInBatch, TypeOK
  <2>2. \A t \in Sched \ {s} : \A i \in 1..Len(batch[t]) :
          batch[t][i] \in Worker /\ batch[t][i] # kwtOf(s)
    <3>1. \A t \in Sched : \A i \in 1..Len(batch[t]) : batch[t][i] \in Worker
      BY DEF TypeOK
    <3>2. mutex[kwtOf(s)] = s
      BY <2>1, HeadOwned
    <3> QED
      BY <3>1, <3>2 DEF BatchOwned
  <2>3. \A i \in 1..Len(Tail(batch[s])) : Tail(batch[s])[i] \in Worker
    BY <2>1, BatchType
  <2>4. \A i, j \in 1..Len(batch'[s]) : batch'[s][i] = batch'[s][j] => i = j
    BY <2>1, TailOwned
  <2>5. \A i \in 1..Len(batch'[s]) : mutex'[batch'[s][i]] = s
    BY <2>1, <2>3, TailOwned
  <2>6. \A t \in Sched \ {s} : \A i \in 1..Len(batch'[t]) : mutex'[batch'[t][i]] = t
    BY <2>1, <2>2 DEF BatchOwned
  <2> QED
    BY <2>1, <2>4, <2>5, <2>6 DEF BatchOwned
<1> QED
  BY <1>1, <1>2, <1>3, <1>4, FrameOwned

(****************************************************************************)
(* What a scheduler has marked when it wakes a worker and waits for it.       *)
(****************************************************************************)

\* EXECUTEUMSTHREAD marks scheduler and worker as running before the wake-up
LEMMA StepWakesMarked ==
  TypeOK /\ BatchOwned /\ WakesMarked /\ ReleasedIsAwaited /\ [Next]_vars => WakesMarked'
<1> SUFFICES ASSUME TypeOK, BatchOwned, WakesMarked, ReleasedIsAwaited, [Next]_vars,
                    NEW t \in Sched
             PROVE  /\ spc'[t] \in ExecutePC => batch'[t] # <<>>
                    /\ spc'[t] \in {"running", "wake"} \cup AwaitPC
                          => wt_running'[t] = Head(batch'[t])
                    /\ spc'[t] = "wake" => state'[Head(batch'[t])] = WT_RUNNING
  BY DEF WakesMarked, kwtOf
<1>1. CASE UNCHANGED vars
  BY <1>1 DEF WakesMarked, vars, kwtVars, schedVars, kwtOf
<1>2. ASSUME SchedStep(t) PROVE
        /\ spc'[t] \in ExecutePC => batch'[t] # <<>>
        /\ spc'[t] \in {"running", "wake"} \cup AwaitPC => wt_running'[t] = Head(batch'[t])
        /\ spc'[t] = "wake" => state'[Head(batch'[t])] = WT_RUNNING
  <2>1. batch[t] # <<>> => kwtOf(t) \in Worker
    BY BatchType
  <2> QED
    BY <1>2, <2>1, SMTT(60)
    DEF TypeOK, WakesMarked, kwtOf, kwtVars, ExecutePC, AwaitPC, ReleasePC,
        SchedStep, Dequeue, Execute, PrepareToWait, CheckReady, DequeueWoken,
        GetWtReadyQueue, Advance, ClaimWorker, PassWorker, TidFreed, DecThreadsReady, ScanFreed, FinishScan,
        SkipUnknown, NextInBatch, SetKstRunning, SetKwtRunning, WakeUpWorker,
        SetTaskState, TestWorker, ExecuteWoken, SetKstIdle, IncThreadsReady,
        WakeUpSchedulers, UnlockWorker, Leave
<1>3. ASSUME NEW s \in Sched \ {t}, SchedStep(s) PROVE
        /\ spc'[t] \in ExecutePC => batch'[t] # <<>>
        /\ spc'[t] \in {"running", "wake"} \cup AwaitPC => wt_running'[t] = Head(batch'[t])
        /\ spc'[t] = "wake" => state'[Head(batch'[t])] = WT_RUNNING
  <2>1. batch[t] # <<>> => kwtOf(t) \in Worker
    BY BatchType
  <2> QED
    BY <1>3, <2>1, OneScheduler DEF WakesMarked, kwtOf, ExecutePC
<1>4. ASSUME NEW w \in Worker, WorkerStep(w) PROVE
        /\ spc'[t] \in ExecutePC => batch'[t] # <<>>
        /\ spc'[t] \in {"running", "wake"} \cup AwaitPC => wt_running'[t] = Head(batch'[t])
        /\ spc'[t] = "wake" => state'[Head(batch'[t])] = WT_RUNNING
  <2>1. UNCHANGED <<spc, batch, wt_running>>
    BY <1>4, OneWorker
  <2>2. ASSUME spc[t] = "wake" PROVE state'[kwtOf(t)] = state[kwtOf(t)]
    <3>1. batch[t] # <<>>
      BY <2>2 DEF WakesMarked, ExecutePC
    <3>2. kwtOf(t) \in Worker /\ mutex[kwtOf(t)] = t
      BY <3>1, HeadOwned
    <3>3. wpc[kwtOf(t)] # "user"
      BY <2>2, <3>2 DEF ReleasedIsAwaited, Released, Awaits, AwaitPC
    <3> QED
      BY <1>4, <3>2, <3>3, OneWorker
  <2> QED
    BY <2>1, <2>2 DEF WakesMarked, kwtOf
<1> QED
  BY <1>1, <1>2, <1>3, <1>4 DEF Next

(****************************************************************************)
(* A worker that runs, or is about to, is awaited by the owner of its mutex.  *)
(****************************************************************************)

\* No step of a worker, and no step on another worker, unlocks a locked worker
LEMMA MutexKept ==
  ASSUME TypeOK, BatchOwned, ReleasedIsAwaited, [Next]_vars, NEW w \in Worker, Released(w)
  PROVE  mutex'[w] = mutex[w]
<1>1. mutex[w] \in Sched /\ spc[mutex[w]] \in AwaitPC
  BY DEF ReleasedIsAwaited, Awaits
<1>2. ASSUME NEW r \in Sched, NEW v \in Worker, ClaimWorker(r, v) PROVE mutex'[w] = mutex[w]
  BY <1>1, <1>2, ThreadAssumption DEF ClaimWorker, CanClaim, TypeOK
<1>3. ASSUME NEW r \in Sched, SkipUnknown(r) PROVE mutex'[w] = mutex[w]
  BY <1>3 DEF SkipUnknown, kwtVars
<1>4. ASSUME NEW r \in Sched, UnlockWorker(r) PROVE mutex'[w] = mutex[w]
  <2>1. spc[r] = "unlock" /\ batch[r] # <<>>
    BY <1>4 DEF UnlockWorker
  <2>2. kwtOf(r) # w
    BY <1>1, <2>1, HeadOwned DEF AwaitPC
  <2> QED
    BY <1>4, <2>2 DEF UnlockWorker, TypeOK
<1> QED
  BY <1>2, <1>3, <1>4, FrameOwned

\* A released worker is awaited until it writes its own state in yield or exit
LEMMA StepReleasedIsAwaited ==
  /\ TypeOK /\ BatchOwned /\ WakesMarked /\ ReleasedIsAwaited /\ [Next]_vars
  => ReleasedIsAwaited'
<1> SUFFICES ASSUME TypeOK, BatchOwned, WakesMarked, ReleasedIsAwaited, [Next]_vars,
                    NEW w \in Worker, Released(w)'
             PROVE  /\ mutex'[w] \in Sched /\ spc'[mutex'[w]] \in AwaitPC
                    /\ batch'[mutex'[w]] # <<>> /\ Head(batch'[mutex'[w]]) = w
                    /\ state'[w] = WT_RUNNING
  BY DEF ReleasedIsAwaited, Awaits, kwtOf
<1> DEFINE t == mutex[w]
           Awaited == /\ mutex'[w] = t /\ t \in Sched /\ spc'[t] \in AwaitPC
                      /\ batch'[t] # <<>> /\ Head(batch'[t]) = w
                      /\ state'[w] = WT_RUNNING
<1>0. Released(w) => /\ t \in Sched /\ spc[t] \in AwaitPC /\ batch[t] # <<>>
                     /\ Head(batch[t]) = w /\ state[w] = WT_RUNNING
  BY DEF ReleasedIsAwaited, Awaits, kwtOf
<1>1. CASE UNCHANGED vars
  BY <1>0, <1>1 DEF vars, kwtVars, schedVars, workerVars, Released
<1>2. ASSUME NEW v \in Worker, WorkerStep(v) PROVE Awaited
  <2>1. CASE v = w
    BY <1>0, <1>2, <2>1, OneWorker
  <2>2. CASE v # w
    BY <1>0, <1>2, <2>2, OneWorker DEF Released
  <2> QED
    BY <2>1, <2>2
<1>3. ASSUME NEW s \in Sched, SchedStep(s) PROVE Awaited
  <2>1. CASE WakeUpWorker(s) /\ kwtOf(s) = w
    <3>1. batch[s] # <<>> /\ t = s
      BY <2>1, HeadOwned DEF WakeUpWorker
    <3>2. state[w] = WT_RUNNING
      BY <2>1 DEF WakesMarked, WakeUpWorker
    <3>3. CASE WorkerAlive(w)
      BY <2>1, <3>1, <3>2, <3>3
      DEF WakeUpWorker, kwtVars, TypeOK, AwaitPC, kwtOf
    <3>4. CASE ~WorkerAlive(w)
      BY <1>3, <2>1, <3>4 DEF WakeUpWorker, WorkerAlive, Released, workerVars
    <3> QED
      BY <3>3, <3>4
  <2>2. CASE ~(WakeUpWorker(s) /\ kwtOf(s) = w)
    <3>1. Released(w)
      BY <1>3, <2>2, OneScheduler, OneSchedulerTask DEF Released
    <3>2. CASE t = s
      BY <1>0, <1>3, <3>1, <3>2, SMTT(60)
      DEF TypeOK, AwaitPC, kwtOf, kwtVars, SchedStep, Dequeue, Execute, PrepareToWait,
          CheckReady, DequeueWoken, GetWtReadyQueue, Advance, ClaimWorker, PassWorker, TidFreed,
          DecThreadsReady, ScanFreed, FinishScan, SkipUnknown, SetKstRunning,
          SetKwtRunning, WakeUpWorker, SetTaskState, TestWorker, ExecuteWoken, SetKstIdle,
          IncThreadsReady, WakeUpSchedulers, UnlockWorker, Leave
    <3>3. CASE t # s
      <4>1. mutex'[w] = mutex[w]
        BY <3>1, MutexKept
      <4>2. t \in Sched \ {s}
        BY <1>0, <3>1, <3>3
      <4> QED
        BY <1>0, <1>3, <3>1, <4>1, <4>2, OneScheduler
    <3> QED
      BY <3>2, <3>3
  <2> QED
    BY <2>1, <2>2
<1> QED
  BY <1>1, <1>2, <1>3 DEF Next

(****************************************************************************)
(* The queues of the completion lists and their counters.                     *)
(****************************************************************************)

\* Only WORKERTHREADEXIT removes list elements and counts nthreads down
LEMMA FrameQueues ==
  [Next]_vars =>
    \/ UNCHANGED <<wt_ready_queue, nthreads>>
    \/ \E w \in Worker : DecNthreads(w)
BY SMTT(60) DEF Next, SchedStep, Dequeue, Execute, WorkerStep, Yield, Exit, vars, kclVars,
       PrepareToWait, CheckReady, DequeueWoken, GetWtReadyQueue, Advance, ClaimWorker, PassWorker, TidFreed,
       DecThreadsReady, ScanFreed, FinishScan, SkipUnknown, SetKstRunning, SetKwtRunning,
       WakeUpWorker, SetTaskState, TestWorker, ExecuteWoken, SetKstIdle, IncThreadsReady,
       WakeUpSchedulers, UnlockWorker, Leave, Park, Resume, SetKwtIdle, SetKwtExiting,
       EndWorker, LookUpScheduler, WakeUpScheduler, ClearScheduler

\* The walk of an exiting worker starts with kwt->clid_list, which never changes,
\* and only its own removals move it on
LEMMA FrameWorker ==
  ASSUME TypeOK, [Next]_vars
  PROVE  /\ clid_list' = clid_list
         /\ \A w \in Worker :
              /\ wpc[w] \in ExitPC => wpc'[w] \in ExitPC
              /\ wpc'[w] = "x_dec" =>
                   \/ wpc[w] = "user" /\ wlists'[w] = clid_list[w]
                      /\ UNCHANGED <<wt_ready_queue, nthreads>>
                   \/ wpc[w] = "x_dec" /\ (wlists'[w] = wlists[w] \/ DecNthreads(w))
<1>1. ASSUME NEW s \in Sched, SchedStep(s) PROVE UNCHANGED <<clid_list, wpc, wlists>>
  BY <1>1 DEF SchedStep, Dequeue, Execute, kwtVars, workerVars, PrepareToWait, CheckReady,
     DequeueWoken, GetWtReadyQueue, Advance, ClaimWorker, PassWorker, TidFreed, DecThreadsReady,
     ScanFreed, FinishScan, SkipUnknown, SetKstRunning, SetKwtRunning, WakeUpWorker,
     SetTaskState, TestWorker, ExecuteWoken, SetKstIdle, IncThreadsReady, WakeUpSchedulers,
     UnlockWorker, Leave
<1>2. CASE \E v \in Worker : WorkerStep(v)
  BY <1>2, SMTT(60) DEF WorkerStep, Yield, Exit, kclVars, kwtVars, TypeOK, ExitPC,
     Park, Resume, SetKwtIdle, SetKwtExiting, DecNthreads, EndWorker, LookUpScheduler,
     WakeUpScheduler, ClearScheduler
<1>3. CASE UNCHANGED <<clid_list, wpc, wlists>>
  BY <1>3
<1> QED
  BY <1>1, <1>2, <1>3 DEF Next, vars, kwtVars, workerVars

\* What one round of for_each_dec_kcl_nthreads does to the queues and the counter
LEMMA DecEffect ==
  ASSUME TypeOK, NEW w \in Worker, DecNthreads(w)
  PROVE  /\ wlists[w] # <<>> /\ Head(wlists[w]) \in CL /\ wpc[w] = "x_dec"
         /\ \A c \in CL : wt_ready_queue'[c] = IF c = Head(wlists[w])
                                             THEN wt_ready_queue[c] \ {w}
                                             ELSE wt_ready_queue[c]
         /\ \A c \in CL : nthreads'[c] = IF c = Head(wlists[w])
                                       THEN nthreads[c] - 1 ELSE nthreads[c]
         /\ wlists'[w] = Tail(wlists[w])
         /\ UNCHANGED <<batch, spc>>
<1>1. wlists[w] # <<>> /\ wlists[w] \in Seq(CL)
  BY DEF DecNthreads, TypeOK
<1>2. Head(wlists[w]) \in CL
  BY <1>1, ListsType
<1> QED
  BY <1>1, <1>2 DEF DecNthreads, TypeOK, schedVars

\* The element DecNthreads removes is there, and the rest of the walk is intact
LEMMA StepQueuedWhileLeaving ==
  TypeOK /\ QueuedUntilExit /\ QueuedWhileLeaving /\ [Next]_vars => QueuedWhileLeaving'
<1> SUFFICES ASSUME TypeOK, QueuedUntilExit, QueuedWhileLeaving, [Next]_vars,
                    NEW w \in Worker, wpc'[w] = "x_dec"
             PROVE  /\ \A i \in 1..Len(wlists'[w]) : w \in wt_ready_queue'[wlists'[w][i]]
                    /\ \A i, j \in 1..Len(wlists'[w]) : wlists'[w][i] = wlists'[w][j] => i = j
  BY DEF QueuedWhileLeaving
<1>0. clid_list[w] \in Seq(CL) /\ wlists[w] \in Seq(CL)
  BY DEF TypeOK
<1>1. CASE wpc[w] = "user" /\ wlists'[w] = clid_list[w]
           /\ UNCHANGED <<wt_ready_queue, nthreads>>
  <2>1. wpc[w] \notin ExitPC
    BY <1>1 DEF ExitPC
  <2> QED
    BY <1>1, <2>1, ListAssumption DEF QueuedUntilExit
<1>2. CASE wpc[w] = "x_dec" /\ DecNthreads(w)
  <2>1. /\ Tail(wlists[w]) \in Seq(CL)
        /\ \A i \in 1..Len(Tail(wlists[w])) : /\ Tail(wlists[w])[i] = wlists[w][i + 1]
                                              /\ i + 1 \in 1..Len(wlists[w])
        /\ Head(wlists[w]) = wlists[w][1] /\ 1 \in 1..Len(wlists[w])
    BY <1>0, <1>2, DecEffect, HeadTailProperties, EmptySeq
  <2>2. \A i \in 1..Len(Tail(wlists[w])) :
          Tail(wlists[w])[i] \in CL /\ Tail(wlists[w])[i] # Head(wlists[w])
    BY <1>0, <1>2, <2>1 DEF QueuedWhileLeaving
  <2>3. wlists'[w] = Tail(wlists[w])
    BY <1>2, DecEffect
  <2>4. ASSUME NEW i \in 1..Len(Tail(wlists[w]))
        PROVE  w \in wt_ready_queue'[Tail(wlists[w])[i]]
    <3>1. w \in wt_ready_queue[Tail(wlists[w])[i]]
      BY <1>2, <2>1 DEF QueuedWhileLeaving
    <3> QED
      BY <1>2, <2>2, <3>1, DecEffect
  <2>5. \A i, j \in 1..Len(Tail(wlists[w])) : Tail(wlists[w])[i] = Tail(wlists[w])[j] => i = j
    BY <1>2, <2>1 DEF QueuedWhileLeaving
  <2> QED
    BY <2>3, <2>4, <2>5
<1>3. CASE wpc[w] = "x_dec" /\ wlists'[w] = wlists[w]
  <2>1. \A i \in 1..Len(wlists[w]) : wlists[w][i] \in CL /\ w \in wt_ready_queue[wlists[w][i]]
    BY <1>0, <1>3 DEF QueuedWhileLeaving
  <2>2. ASSUME NEW v \in Worker, DecNthreads(v), v # w, NEW i \in 1..Len(wlists[w])
        PROVE  w \in wt_ready_queue'[wlists[w][i]]
    BY <2>1, <2>2, DecEffect
  <2>3. ASSUME DecNthreads(w) PROVE FALSE
    <3>1. Len(Tail(wlists[w])) = Len(wlists[w]) - 1 /\ Len(wlists[w]) \in Nat
      BY <1>0, <2>3, DecEffect, HeadTailProperties, LenProperties
    <3> QED
      <4>1. Tail(wlists[w]) = wlists[w]
        BY <1>3, <2>3, DecEffect
      <4>2. Len(wlists[w]) = Len(wlists[w]) - 1
        BY <3>1, <4>1, Zenon
      <4>3. \A n \in Nat : n # n - 1
        OBVIOUS
      <4> QED
        BY <3>1, <4>2, <4>3, Zenon
  <2>4. \A i \in 1..Len(wlists[w]) : w \in wt_ready_queue'[wlists[w][i]]
    BY <2>1, <2>2, <2>3, FrameQueues
  <2> QED
    BY <1>3, <2>4 DEF QueuedWhileLeaving
<1> QED
  BY <1>1, <1>2, <1>3, FrameWorker

\* nthreads goes down with the removal of one element that was in the queue
LEMMA StepNthreadsCounts ==
  TypeOK /\ QueuedWhileLeaving /\ NthreadsCounts /\ [Next]_vars => NthreadsCounts'
<1> SUFFICES ASSUME TypeOK, QueuedWhileLeaving, NthreadsCounts, [Next]_vars, NEW c \in CL
             PROVE  nthreads'[c] = Cardinality(wt_ready_queue'[c])
  BY DEF NthreadsCounts
<1>1. CASE UNCHANGED <<wt_ready_queue, nthreads>>
  BY <1>1 DEF NthreadsCounts
<1>2. ASSUME NEW w \in Worker, DecNthreads(w)
      PROVE  nthreads'[c] = Cardinality(wt_ready_queue'[c])
  <2>1. CASE c = Head(wlists[w])
    <3>1. w \in wt_ready_queue[c]
      <4>1. wlists[w] \in Seq(CL) /\ wlists[w] # <<>> /\ wpc[w] = "x_dec"
        BY <1>2, DecEffect DEF TypeOK
      <4>2. c = wlists[w][1] /\ 1 \in 1..Len(wlists[w])
        BY <2>1, <4>1, EmptySeq
      <4> QED
        BY <4>1, <4>2 DEF QueuedWhileLeaving
    <3>2. IsFiniteSet(wt_ready_queue[c])
      BY ThreadAssumption, FS_Subset DEF TypeOK
    <3>3. Cardinality(wt_ready_queue[c] \ {w}) = Cardinality(wt_ready_queue[c]) - 1
      BY <3>1, <3>2, FS_RemoveElement
    <3> QED
      BY <1>2, <2>1, <3>3, DecEffect DEF NthreadsCounts
  <2>2. CASE c # Head(wlists[w])
    BY <1>2, <2>2, DecEffect DEF NthreadsCounts
  <2> QED
    BY <2>1, <2>2
<1> QED
  BY <1>1, <1>2, FrameQueues

\* A walk comes to an element only by moving on to it
LEMMA FrameLock ==
  ASSUME TypeOK, [Next]_vars, NEW s \in Sched, spc'[s] = "lock"
  PROVE  \/ spc[s] = "lock" /\ cursor'[s] = cursor[s]
         \/ \E w \in Worker : Advance(s, w)
<1>1. ASSUME NEW w \in Worker, WorkerStep(w) PROVE UNCHANGED <<spc, cursor>>
  BY <1>1 DEF WorkerStep, Yield, Exit, schedVars, Park, Resume, SetKwtIdle, SetKwtExiting,
     DecNthreads, EndWorker, LookUpScheduler, WakeUpScheduler, ClearScheduler
<1>2. ASSUME NEW t \in Sched, Dequeue(t)
      PROVE  \/ spc[s] = "lock" /\ cursor'[s] = cursor[s]
             \/ \E w \in Worker : Advance(s, w)
  BY <1>2 DEF Dequeue, TypeOK, PrepareToWait, CheckReady, DequeueWoken, GetWtReadyQueue,
     ClaimWorker, PassWorker, TidFreed, DecThreadsReady, ScanFreed, FinishScan, Advance
<1>3. ASSUME NEW t \in Sched, Execute(t) \/ Leave(t)
      PROVE  spc[s] = "lock" /\ cursor'[s] = cursor[s]
  BY <1>3 DEF Execute, TypeOK, NextInBatch, SkipUnknown, SetKstRunning, SetKwtRunning,
     WakeUpWorker, SetTaskState, TestWorker, ExecuteWoken, SetKstIdle, IncThreadsReady,
     WakeUpSchedulers, UnlockWorker, Leave
<1>4. CASE UNCHANGED <<spc, cursor>>
  BY <1>4
<1> QED
  BY <1>1, <1>2, <1>3, <1>4 DEF Next, SchedStep, vars, schedVars

\* Only WORKERTHREADEXIT removes elements, and only those of its own worker
LEMMA StepQueuedUntilExit ==
  TypeOK /\ QueuedUntilExit /\ [Next]_vars => QueuedUntilExit'
<1> SUFFICES ASSUME TypeOK, QueuedUntilExit, [Next]_vars PROVE QueuedUntilExit'
  OBVIOUS
<1>1. clid_list' = clid_list /\ clid_list = ClidList
  BY FrameWorker DEF QueuedUntilExit
<1>2. ASSUME NEW w \in Worker, wpc'[w] \notin ExitPC, NEW i \in 1..Len(clid_list[w])
      PROVE  w \in wt_ready_queue'[clid_list[w][i]]
  <2>1. /\ wpc[w] \notin ExitPC /\ w \in wt_ready_queue[clid_list[w][i]]
        /\ clid_list[w][i] \in CL
    BY <1>2, FrameWorker DEF QueuedUntilExit, TypeOK
  <2>2. ASSUME NEW v \in Worker, DecNthreads(v)
        PROVE  w \in wt_ready_queue'[clid_list[w][i]]
    <3>1. v # w
      BY <2>1, <2>2, DecEffect DEF ExitPC
    <3> QED
      BY <2>1, <2>2, <3>1, DecEffect
  <2> QED
    BY <2>1, <2>2, FrameQueues
<1>3. ASSUME NEW c \in CL PROVE wt_ready_queue'[c] \subseteq wt_ready_queue[c]
  <2>1. ASSUME NEW v \in Worker, DecNthreads(v)
        PROVE  wt_ready_queue'[c] \subseteq wt_ready_queue[c]
    BY <2>1, DecEffect
  <2> QED
    BY <2>1, FrameQueues
<1>4. \A c \in CL : \A w \in wt_ready_queue'[c] : c \in Lists(w)'
  BY <1>1, <1>3 DEF QueuedUntilExit, Lists
<1>5. ASSUME NEW t \in Sched, NEW i \in 1..Len(batch'[t])
      PROVE  kclOf(t) \in Lists(batch'[t][i])
  <2>1. CASE UNCHANGED <<mutex, batch>>
    BY <1>5, <2>1 DEF QueuedUntilExit
  <2>2. ASSUME NEW s \in Sched, NEW w \in Worker, ClaimWorker(s, w)
        PROVE  kclOf(t) \in Lists(batch'[t][i])
    <3>1. CASE t # s
      BY <1>5, <2>2, <3>1 DEF ClaimWorker, TypeOK, QueuedUntilExit
    <3>2. CASE t = s
      <4>1. /\ batch'[s] = Append(batch[s], w)
            /\ spc[s] = "lock" /\ cursor[s] = w
        BY <2>2 DEF ClaimWorker, TypeOK
      <4>2. kclOf(s) \in Lists(w)
        BY <4>1 DEF QueuedUntilExit
      <4>3. /\ Len(Append(batch[s], w)) = Len(batch[s]) + 1
            /\ \A j \in 1..Len(batch[s]) : Append(batch[s], w)[j] = batch[s][j]
            /\ Append(batch[s], w)[Len(batch[s]) + 1] = w
            /\ Len(batch[s]) \in Nat
        BY AppendProperties, LenProperties DEF TypeOK
      <4>4. CASE i = Len(batch[s]) + 1
        BY <3>2, <4>1, <4>2, <4>3, <4>4
      <4>5. CASE i \in 1..Len(batch[s])
        BY <3>2, <4>1, <4>3, <4>5 DEF QueuedUntilExit
      <4> QED
        BY <1>5, <3>2, <4>1, <4>3, <4>4, <4>5
    <3> QED
      BY <3>1, <3>2
  <2>3. ASSUME NEW s \in Sched, SkipUnknown(s) \/ UnlockWorker(s)
        PROVE  kclOf(t) \in Lists(batch'[t][i])
    <3>1. /\ batch[s] # <<>> /\ batch'[s] = Tail(batch[s])
          /\ \A r \in Sched \ {s} : batch'[r] = batch[r]
      BY <2>3 DEF SkipUnknown, UnlockWorker, NextInBatch, TypeOK
    <3>2. CASE t # s
      BY <1>5, <3>1, <3>2 DEF QueuedUntilExit
    <3>3. CASE t = s
      <4>1. i + 1 \in 1..Len(batch[s]) /\ Tail(batch[s])[i] = batch[s][i + 1]
        <5>1. batch[s] \in Seq(Worker)
          BY DEF TypeOK
        <5> QED
          <6>1. i \in 1..Len(Tail(batch[s]))
            BY <1>5, <3>1, <3>3
          <6>2. /\ Len(Tail(batch[s])) = Len(batch[s]) - 1 /\ Len(batch[s]) \in Nat
                /\ \A j \in 1..Len(Tail(batch[s])) : Tail(batch[s])[j] = batch[s][j + 1]
            BY <3>1, <5>1, BatchType, HeadTailProperties
          <6> QED
            BY <6>1, <6>2
      <4> QED
        BY <3>1, <3>3, <4>1 DEF QueuedUntilExit
    <3> QED
      BY <3>2, <3>3
  <2> QED
    BY <2>1, <2>2, <2>3, FrameOwned
<1>6. ASSUME NEW s \in Sched, spc'[s] = "lock" PROVE kclOf(s) \in Lists(cursor'[s])
  <2>1. CASE spc[s] = "lock" /\ cursor'[s] = cursor[s]
    BY <2>1 DEF QueuedUntilExit
  <2>2. ASSUME NEW w \in Worker, Advance(s, w) PROVE kclOf(s) \in Lists(cursor'[s])
    <3>1. cursor'[s] = w /\ w \in wt_ready_queue[kclOf(s)]
      BY <2>2 DEF Advance, TypeOK, Ahead
    <3> QED
      BY <3>1, ListAssumption DEF QueuedUntilExit, kclOf
  <2> QED
    BY <1>6, <2>1, <2>2, FrameLock
<1> QED
  BY <1>1, <1>2, <1>4, <1>5, <1>6 DEF QueuedUntilExit, Lists, kclOf

(****************************************************************************)
(* The dequeue answers -1 only when nobody is left.                           *)
(****************************************************************************)

\* A scheduler starts to leave only when get_wt_ready_queue answers -1
LEMMA FrameLeaving ==
  ASSUME TypeOK, [Next]_vars, NEW s \in Sched, spc'[s] \in {"leaving", "exited"}
  PROVE  spc[s] \in {"leaving", "exited"} \/ (GetWtReadyQueue(s) /\ NoThreadsLeft(s))
<1>1. CASE UNCHANGED vars
  BY <1>1 DEF vars, schedVars
<1>2. ASSUME NEW w \in Worker, WorkerStep(w) PROVE spc' = spc
  BY <1>2, OneWorker
<1>3. ASSUME NEW t \in Sched \ {s}, SchedStep(t) PROVE spc'[s] = spc[s]
  BY <1>3, OneScheduler
<1>4. CASE SchedStep(s)
  BY <1>4, SMTT(60)
     DEF TypeOK, SchedStep, Dequeue, Execute, NextInBatch, PrepareToWait, CheckReady,
         DequeueWoken, GetWtReadyQueue, Advance, ClaimWorker, PassWorker, TidFreed,
         DecThreadsReady, ScanFreed, FinishScan, SkipUnknown, SetKstRunning, SetKwtRunning,
         WakeUpWorker, SetTaskState, TestWorker, ExecuteWoken, SetKstIdle, IncThreadsReady,
         WakeUpSchedulers, UnlockWorker, Leave
<1> QED
  BY <1>1, <1>2, <1>3, <1>4 DEF Next

\* nthreads = 0 means that no worker of the list is short of its end
LEMMA EmptyQueue ==
  ASSUME TypeOK, QueuedUntilExit, NthreadsCounts, NEW s \in Sched, NoThreadsLeft(s),
         NEW w \in Worker, kclOf(s) \in Lists(w)
  PROVE  wpc[w] \in ExitPC
<1>1. kclOf(s) \in CL
  BY ListAssumption DEF kclOf
<1>2. IsFiniteSet(wt_ready_queue[kclOf(s)])
  BY <1>1, ThreadAssumption, FS_Subset DEF TypeOK
<1>3. wt_ready_queue[kclOf(s)] = {}
  BY <1>1, <1>2, FS_EmptySet DEF NthreadsCounts, NoThreadsLeft
<1>4. PICK i \in 1..Len(clid_list[w]) : clid_list[w][i] = kclOf(s)
  BY DEF Lists, TypeOK
<1> QED
  BY <1>3, <1>4 DEF QueuedUntilExit

\* get_wt_ready_queue answers -1 only when the queue of the list is empty
LEMMA StepLeavesAfterAllDone ==
  /\ TypeOK /\ QueuedUntilExit /\ NthreadsCounts /\ LeavesAfterAllDone /\ [Next]_vars
  => LeavesAfterAllDone'
<1> SUFFICES ASSUME TypeOK, QueuedUntilExit, NthreadsCounts, LeavesAfterAllDone, [Next]_vars,
                    NEW s \in Sched, spc'[s] \in {"leaving", "exited"},
                    NEW w \in Worker, kclOf(s) \in Lists(w)
             PROVE  wpc'[w] \in ExitPC
  BY FrameWorker DEF LeavesAfterAllDone, Lists, kclOf
<1>1. CASE spc[s] \in {"leaving", "exited"}
  BY <1>1, FrameWorker DEF LeavesAfterAllDone
<1>2. CASE NoThreadsLeft(s)
  BY <1>2, EmptyQueue, FrameWorker
<1> QED
  BY <1>1, <1>2, FrameLeaving

(****************************************************************************)
(* The theorems.                                                              *)
(****************************************************************************)

\* The inductive invariant holds at the start
LEMMA InitIInv == Init => IInv
<1> SUFFICES ASSUME Init PROVE IInv
  OBVIOUS
<1>1. TypeOK
  BY InitTypeOK
<1>2. BatchOwned /\ WakesMarked /\ LeavesAfterAllDone
  BY EmptySeq DEF Init, BatchOwned, WakesMarked, LeavesAfterAllDone, ExecutePC, AwaitPC, ReleasePC
<1>3. ReleasedIsAwaited /\ QueuedWhileLeaving
  BY BoundAssumption, ThreadAssumption
  DEF Init, ReleasedIsAwaited, QueuedWhileLeaving, Released, TASK_RUNNING, TASK_INTERRUPTIBLE
<1>4. NthreadsCounts
  <2>1. nthreads = [c \in CL |-> Cardinality(wt_ready_queue[c])]
    BY DEF Init
  <2> QED
    BY <2>1 DEF NthreadsCounts
<1>5. QueuedUntilExit
  <2>1. \A c \in CL : wt_ready_queue[c] = {w \in Worker : c \in Lists(w)}
    BY DEF Init
  <2>2. ASSUME NEW w \in Worker, NEW i \in 1..Len(clid_list[w])
        PROVE  clid_list[w][i] \in CL /\ clid_list[w][i] \in Lists(w)
    BY <1>1 DEF TypeOK, Lists
  <2>3. \A s \in Sched : Len(batch[s]) = 0
    BY EmptySeq DEF Init
  <2>4. clid_list = ClidList /\ \A s \in Sched : spc[s] # "lock"
    BY DEF Init
  <2> QED
    BY <2>1, <2>2, <2>3, <2>4 DEF QueuedUntilExit
<1> QED
  BY <1>1, <1>2, <1>3, <1>4, <1>5 DEF IInv

\* Every step keeps the inductive invariant
LEMMA StepIInv == IInv /\ [Next]_vars => IInv'
BY StepTypeOK, StepBatchOwned, StepWakesMarked, StepReleasedIsAwaited, StepQueuedUntilExit,
   StepQueuedWhileLeaving, StepNthreadsCounts, StepLeavesAfterAllDone DEF IInv

\* The inductive invariant holds for ever
LEMMA Invariance == Spec => []IInv
<1>1. IInv /\ UNCHANGED vars => IInv'
  BY StepIInv
<1> QED
  BY InitIInv, StepIInv, PTL DEF Spec

\* Every field of the kernel structures and every local of the ioctl handlers
\* stays in its domain; no dequeue writes past the end of wt_ready_tid.
THEOREM TypeCorrect == Spec => []TypeOK
<1>1. IInv => TypeOK
  BY DEF IInv
<1> QED
  BY <1>1, Invariance, PTL

\* A worker executes its routine only while the scheduler that owns kwt->mutex
\* waits for it in EXECUTEUMSTHREAD: never undispatched, never on two schedulers.
THEOREM OnlyDispatchedRun == Spec => []RunsOnlyWhenDispatched
<1>1. IInv => RunsOnlyWhenDispatched
  BY DEF IInv, RunsOnlyWhenDispatched, ReleasedIsAwaited, Released, WakesMarked, Awaits, AwaitPC
<1> QED
  BY <1>1, Invariance, PTL

\* DEQUEUECOMPLLIST answers -1 only when every worker of the list has ended its
\* routine.
THEOREM OnlyEmptyListsClose == Spec => []LeavesAfterAllDone
<1>1. IInv => LeavesAfterAllDone
  BY DEF IInv
<1> QED
  BY <1>1, Invariance, PTL

\* Only the owner unlocks kwt->mutex, at the end of the EXECUTEUMSTHREAD of that
\* worker, and never while the worker executes its routine.
THEOREM OwnerReleases == Spec => ReleasedAfterRun
<1> DEFINE Release(w) == mutex[w] # None /\ mutex'[w] # mutex[w] =>
                           /\ mutex'[w] = None /\ wpc[w] # "user"
                           /\ spc[mutex[w]] = "unlock" /\ kwtOf(mutex[w]) = w
<1>1. IInv /\ [Next]_vars => \A w \in Worker : Release(w)
  <2> SUFFICES ASSUME IInv, [Next]_vars, NEW w \in Worker,
                      mutex[w] # None, mutex'[w] # mutex[w]
               PROVE  /\ mutex'[w] = None /\ wpc[w] # "user"
                      /\ spc[mutex[w]] = "unlock" /\ kwtOf(mutex[w]) = w
    OBVIOUS
  <2>1. ASSUME NEW s \in Sched, NEW v \in Worker, ClaimWorker(s, v) PROVE FALSE
    BY <2>1 DEF IInv, TypeOK, ClaimWorker, CanClaim
  <2>2. ASSUME NEW s \in Sched, SkipUnknown(s) PROVE FALSE
    BY <2>2 DEF SkipUnknown, kwtVars
  <2>3. ASSUME NEW s \in Sched, UnlockWorker(s)
        PROVE  /\ mutex'[w] = None /\ wpc[w] # "user"
               /\ spc[mutex[w]] = "unlock" /\ kwtOf(mutex[w]) = w
    <3>1. kwtOf(s) = w /\ mutex'[w] = None /\ spc[s] = "unlock" /\ batch[s] # <<>>
      BY <2>3 DEF IInv, TypeOK, UnlockWorker
    <3>2. mutex[w] = s
      BY <3>1, HeadOwned DEF IInv
    <3>3. wpc[w] # "user"
      BY <3>1, <3>2 DEF IInv, ReleasedIsAwaited, Released, Awaits, AwaitPC
    <3> QED
      BY <3>1, <3>2, <3>3
  <2> QED
    BY <2>1, <2>2, <2>3, FrameOwned
<1> QED
  BY <1>1, Invariance, PTL DEF Spec, ReleasedAfterRun

(****************************************************************************)
(* No locked worker is left behind, when completion_list_get finds them all.  *)
(****************************************************************************)

\* completion_list_get finds every worker whose kernel element a dequeue can reach
AllFindable ==
  \A w \in Worker : \A i \in 1..Len(ClidList[w]) : w \in UserList[ClidList[w][i]]

LEMMA NoneUnknown ==
  ASSUME IInv, AllFindable, NEW s \in Sched, batch[s] # <<>>
  PROVE  kwtOf(s) \in UserList[kclOf(s)]
<1>1. kwtOf(s) \in Worker /\ kwtOf(s) = batch[s][1] /\ 1 \in 1..Len(batch[s])
  BY BatchType DEF IInv, TypeOK, kwtOf
<1>2. kclOf(s) \in Lists(kwtOf(s)) /\ clid_list = ClidList
  BY <1>1 DEF IInv, QueuedUntilExit
<1>3. ClidList[kwtOf(s)] \in Seq(CL)
  BY <1>1, ListAssumption
<1>4. PICK i \in 1..Len(ClidList[kwtOf(s)]) : ClidList[kwtOf(s)][i] = kclOf(s)
  BY <1>2, <1>3 DEF Lists
<1> QED
  BY <1>1, <1>4 DEF AllFindable

\* A locked worker is in the batch of the scheduler that locked it
LockedInBatch ==
  \A w \in Worker : mutex[w] # None =>
    \E i \in DOMAIN batch[mutex[w]] : batch[mutex[w]][i] = w

\* A claim appends the worker to the batch, an unlock takes out the one it unlocks
LEMMA StepLockedInBatch ==
  ASSUME IInv, AllFindable, LockedInBatch, [Next]_vars
  PROVE  LockedInBatch'
<1> SUFFICES ASSUME NEW w \in Worker, mutex'[w] # None
             PROVE  \E i \in DOMAIN batch'[mutex'[w]] : batch'[mutex'[w]][i] = w
  BY DEF LockedInBatch
<1>0. \A s \in Sched : batch[s] \in Seq(Worker) /\ DOMAIN batch[s] = 1..Len(batch[s])
  BY DEF IInv, TypeOK
<1>1. CASE UNCHANGED <<mutex, batch>>
  BY <1>1 DEF LockedInBatch
<1>2. ASSUME NEW s \in Sched, NEW v \in Worker, ClaimWorker(s, v)
      PROVE  \E i \in DOMAIN batch'[mutex'[w]] : batch'[mutex'[w]][i] = w
  <2>1. /\ mutex' = [mutex EXCEPT ![v] = s]
        /\ batch' = [batch EXCEPT ![s] = Append(batch[s], v)]
    BY <1>2 DEF ClaimWorker
  <2>2. /\ batch'[s] = Append(batch[s], v)
        /\ DOMAIN batch'[s] = 1..(Len(batch[s]) + 1)
        /\ batch'[s][Len(batch[s]) + 1] = v
        /\ \A i \in 1..Len(batch[s]) : batch'[s][i] = batch[s][i]
    BY <1>0, <2>1 DEF IInv, TypeOK
  <2>3. Len(batch[s]) \in Nat
    BY <1>0
  <2>4. CASE w = v
    <3>1. mutex'[w] = s
      BY <2>1, <2>4 DEF IInv, TypeOK
    <3>2. Len(batch[s]) + 1 \in DOMAIN batch'[s]
      BY <2>2, <2>3
    <3> QED
      BY <2>2, <2>4, <3>1, <3>2
  <2>5. CASE w # v
    <3>1. mutex'[w] = mutex[w] /\ mutex[w] \in Sched
      BY <2>1, <2>5 DEF IInv, TypeOK
    <3>2. PICK i \in DOMAIN batch[mutex[w]] : batch[mutex[w]][i] = w
      BY <3>1 DEF LockedInBatch
    <3>3. CASE mutex[w] = s
      BY <1>0, <2>2, <2>3, <3>1, <3>2, <3>3
    <3>4. CASE mutex[w] # s
      BY <2>1, <3>1, <3>2, <3>4 DEF IInv, TypeOK
    <3> QED
      BY <3>3, <3>4
  <2> QED
    BY <2>4, <2>5
<1>3. ASSUME NEW s \in Sched, SkipUnknown(s)
      PROVE  FALSE
  BY <1>3, NoneUnknown DEF SkipUnknown
<1>4. ASSUME NEW s \in Sched, UnlockWorker(s)
      PROVE  \E i \in DOMAIN batch'[mutex'[w]] : batch'[mutex'[w]][i] = w
  <2>1. /\ mutex' = [mutex EXCEPT ![kwtOf(s)] = None] /\ batch[s] # <<>>
        /\ batch' = [batch EXCEPT ![s] = Tail(batch[s])]
    BY <1>4 DEF UnlockWorker, NextInBatch
  <2>2. /\ w # kwtOf(s) /\ mutex'[w] = mutex[w] /\ mutex[w] \in Sched
    BY <2>1 DEF IInv, TypeOK
  <2>3. PICK i \in DOMAIN batch[mutex[w]] : batch[mutex[w]][i] = w
    BY <2>2 DEF LockedInBatch
  <2>4. CASE mutex[w] = s
    <3>1. /\ i \in 2..Len(batch[s]) /\ batch'[s] = Tail(batch[s])
          /\ Len(batch[s]) \in Nat
      BY <1>0, <2>1, <2>2, <2>3, <2>4 DEF kwtOf, IInv, TypeOK
    <3>2. /\ DOMAIN Tail(batch[s]) = 1..(Len(batch[s]) - 1)
          /\ \A j \in 1..(Len(batch[s]) - 1) : Tail(batch[s])[j] = batch[s][j + 1]
      BY <1>0, <2>1
    <3>3. i - 1 \in 1..(Len(batch[s]) - 1) /\ (i - 1) + 1 = i
      BY <3>1
    <3> QED
      BY <2>2, <2>3, <2>4, <3>1, <3>2, <3>3
  <2>5. CASE mutex[w] # s
    BY <2>1, <2>2, <2>3, <2>5 DEF IInv, TypeOK
  <2> QED
    BY <2>4, <2>5
<1> QED
  BY <1>1, <1>2, <1>3, <1>4, FrameOwned

\* A worker a dequeue has locked is executed, and then unlocked, by the scheduler
\* that locked it, as long as completion_list_get finds every worker of the list.
LEMMA LockedStaysInBatch == ASSUME AllFindable PROVE Spec => []LockedInBatch
<1>1. Init => LockedInBatch
  BY DEF Init, LockedInBatch
<1>2. IInv /\ LockedInBatch /\ [Next]_vars => LockedInBatch'
  BY AllFindable, StepLockedInBatch
<1> QED
  BY <1>1, <1>2, Invariance, PTL DEF Spec

(****************************************************************************)
(* The refinement of UmsScheduling.                                           *)
(****************************************************************************)
\* The abstract processor s runs the worker in its routine that s has locked
CpuOwner ==
  \A s \in Sched :
    /\ abstractCpu[s] # None =>
         /\ abstractCpu[s] \in Worker /\ wpc[abstractCpu[s]] = "user"
         /\ mutex[abstractCpu[s]] = s
    /\ \A w \in Worker : wpc[w] = "user" /\ mutex[w] = s => abstractCpu[s] = w

\* The worker a scheduler runs is the one it owns, and it runs on that one alone
LEMMA CpuIsOwner == IInv => CpuOwner
<1> SUFFICES ASSUME IInv, NEW s \in Sched
             PROVE  /\ abstractCpu[s] # None =>
                         /\ abstractCpu[s] \in Worker /\ wpc[abstractCpu[s]] = "user"
                         /\ mutex[abstractCpu[s]] = s
                    /\ \A w \in Worker : wpc[w] = "user" /\ mutex[w] = s => abstractCpu[s] = w
  BY DEF CpuOwner
<1>1. batch[s] # <<>> => kwtOf(s) \in Worker /\ mutex[kwtOf(s)] = s
  BY HeadOwned DEF IInv
<1>2. \A w \in Worker : wpc[w] = "user" =>
        /\ mutex[w] \in Sched /\ batch[mutex[w]] # <<>> /\ kwtOf(mutex[w]) = w
  BY DEF IInv, ReleasedIsAwaited, Released, Awaits
<1>3. abstractCpu[s] = IF batch[s] # <<>> /\ wpc[kwtOf(s)] = "user" THEN kwtOf(s) ELSE None
  BY DEF abstractCpu
<1> QED
  BY <1>1, <1>2, <1>3

Closed == {s \in Sched : spc[s] \in {"leaving", "exited"}}

\* A step that changes neither status, cpu nor closed is a stutter above
LEMMA FrameScheduling ==
  ASSUME TypeOK, [Next]_vars
  PROVE  \/ \E w \in Worker : Resume(w) \/ SetKwtIdle(w) \/ SetKwtExiting(w)
         \/ \E s \in Sched : GetWtReadyQueue(s) /\ NoThreadsLeft(s)
         \/ /\ \A w \in Worker : /\ wpc'[w] = "user" <=> wpc[w] = "user"
                                 /\ wpc'[w] \in ExitPC <=> wpc[w] \in ExitPC
            /\ \A s \in Sched : spc'[s] \in {"leaving", "exited"}
                               <=> spc[s] \in {"leaving", "exited"}
BY SMTT(60) DEF Next, SchedStep, Dequeue, Execute, WorkerStep, Yield, Exit, vars, schedVars,
       workerVars, TypeOK, NextInBatch, ExitPC,
       PrepareToWait, CheckReady, DequeueWoken, GetWtReadyQueue, Advance, ClaimWorker, PassWorker, TidFreed,
       DecThreadsReady, ScanFreed, FinishScan, SkipUnknown, SetKstRunning, SetKwtRunning,
       WakeUpWorker, SetTaskState, TestWorker, ExecuteWoken, SetKstIdle, IncThreadsReady,
       WakeUpSchedulers, UnlockWorker, Leave, Park, DecNthreads, EndWorker,
       LookUpScheduler, WakeUpScheduler, ClearScheduler

\* A processor changes only when one of the workers its scheduler has locked
\* starts or stops running
LEMMA CpuKept ==
  ASSUME IInv, IInv', [Next]_vars, NEW s \in Sched,
         \A w \in Worker : wpc'[w] = "user" => Released(w),
         \A w \in Worker : mutex[w] = s => (wpc'[w] = "user" <=> wpc[w] = "user")
  PROVE  abstractCpu'[s] = abstractCpu[s]
<1>1. \A w \in Worker : Released(w) => mutex'[w] = mutex[w]
  BY MutexKept DEF IInv
<1>2. CpuOwner /\ CpuOwner'
  BY CpuIsOwner, PTL
<1>3. CASE abstractCpu[s] # None
  BY <1>1, <1>2, <1>3 DEF CpuOwner, Released
<1>4. CASE abstractCpu[s] = None
  <2> SUFFICES ASSUME abstractCpu'[s] # None PROVE FALSE
    BY <1>4
  <2> DEFINE w == abstractCpu'[s]
  <2>1. w \in Worker /\ wpc'[w] = "user" /\ mutex'[w] = s
    BY <1>2 DEF CpuOwner
  <2>2. mutex[w] = s /\ wpc[w] = "user"
    BY <1>1, <2>1
  <2>3. abstractCpu[s] = w
    BY <1>2, <2>1, <2>2 DEF CpuOwner
  <2> QED
    BY <1>4, <2>1, <2>3, ThreadAssumption
<1> QED
  BY <1>3, <1>4

\* The initial states map to the initial state of UmsScheduling
LEMMA SchedulingInit == Init => Promise!Init
<1> SUFFICES ASSUME Init PROVE Promise!Init
  OBVIOUS
<1>1. abstractStatus = [w \in Worker |-> "ready"]
  BY DEF Init, abstractStatus, ExitPC
<1>2. abstractCpu = [s \in Sched |-> None]
  BY DEF Init, abstractCpu
<1>3. {s \in Sched : spc[s] \in {"leaving", "exited"}} = {}
  BY DEF Init
<1> QED
  BY <1>1, <1>2, <1>3 DEF Promise!Init

\* Every step but the resume, the yield, the exit and the answer -1 is a stutter
LEMMA SchedulingStutter ==
  ASSUME IInv, IInv', [Next]_vars,
         \A w \in Worker : /\ wpc'[w] = "user" <=> wpc[w] = "user"
                           /\ wpc'[w] \in ExitPC <=> wpc[w] \in ExitPC,
         \A s \in Sched : spc'[s] \in {"leaving", "exited"}
                          <=> spc[s] \in {"leaving", "exited"}
  PROVE  UNCHANGED Promise!vars
<1>1. abstractStatus' = abstractStatus
  BY DEF abstractStatus
<1>2. ASSUME NEW s \in Sched PROVE abstractCpu'[s] = abstractCpu[s]
  <2>1. \A w \in Worker : wpc'[w] = "user" => Released(w)
    BY DEF Released
  <2>2. \A w \in Worker : mutex[w] = s => (wpc'[w] = "user" <=> wpc[w] = "user")
    OBVIOUS
  <2> QED
    BY <2>1, <2>2, CpuKept
<1>3. abstractCpu' = abstractCpu
  BY <1>2 DEF abstractCpu
<1>4. Closed' = Closed
  BY DEF Closed
<1> QED
  BY <1>1, <1>3, <1>4 DEF Promise!vars, Closed

\* The answer -1 of the dequeue is Close
LEMMA SchedulingClose ==
  ASSUME IInv, IInv', [Next]_vars, NEW s \in Sched, GetWtReadyQueue(s), NoThreadsLeft(s)
  PROVE  Promise!Close(s)
<1>1. wpc' = wpc /\ mutex' = mutex /\ batch' = batch
  BY DEF GetWtReadyQueue, workerVars, kwtVars
<1>2. spc[s] = "get" /\ spc' = [spc EXCEPT ![s] = "leaving"]
  BY DEF GetWtReadyQueue
<1>3. Closed' = Closed \cup {s} /\ s \notin Closed
  BY <1>2 DEF Closed, IInv, TypeOK
<1>4. abstractStatus' = abstractStatus /\ abstractCpu' = abstractCpu
  BY <1>1 DEF abstractStatus, abstractCpu, kwtOf
<1>5. abstractCpu[s] = None
  <2>1. CpuOwner
    BY CpuIsOwner
  <2>2. \A w \in Worker : wpc[w] = "user" => mutex[w] # s
    BY <1>2 DEF IInv, ReleasedIsAwaited, Released, Awaits, AwaitPC
  <2> QED
    BY <2>1, <2>2 DEF CpuOwner
<1>6. ASSUME NEW w \in Worker, NEW i \in 1..Len(ClidList[w]), ClidList[w][i] = ListOf[s]
      PROVE  abstractStatus[w] = "done"
  <2>1. kclOf(s) \in Lists(w)
    BY <1>6, ListAssumption DEF IInv, QueuedUntilExit, Lists, kclOf
  <2>2. wpc[w] \in ExitPC
    BY <2>1, EmptyQueue DEF IInv
  <2> QED
    BY <2>2 DEF abstractStatus, ExitPC
<1> QED
  BY <1>3, <1>4, <1>5, <1>6 DEF Promise!Close, Closed

\* The return of a worker from schedule() into its routine is Dispatch
LEMMA SchedulingDispatch ==
  ASSUME IInv, IInv', [Next]_vars, NEW w \in Worker, Resume(w)
  PROVE  Promise!Dispatch(mutex[w], w)
<1> DEFINE s == mutex[w]
<1>1. Released(w) /\ wpc[w] = "sleep" /\ wpc' = [wpc EXCEPT ![w] = "user"]
  BY DEF Resume, Released
<1>2. /\ s \in Sched /\ spc[s] \in AwaitPC /\ batch[s] # <<>> /\ kwtOf(s) = w
  BY <1>1 DEF IInv, ReleasedIsAwaited, Awaits
<1>3. spc' = spc /\ mutex' = mutex /\ batch' = batch
  BY DEF Resume, schedVars, kwtVars
<1>4. Closed' = Closed /\ s \notin Closed
  BY <1>2, <1>3 DEF Closed, AwaitPC
<1>5. /\ abstractStatus[w] = "ready"
      /\ abstractStatus' = [abstractStatus EXCEPT ![w] = "running"]
  BY <1>1 DEF abstractStatus, ExitPC, IInv, TypeOK
<1>6. abstractCpu[s] = None
  BY <1>1, <1>2 DEF abstractCpu
<1>7. abstractCpu' = [abstractCpu EXCEPT ![s] = w]
  <2>1. abstractCpu'[s] = w
    BY <1>1, <1>2, <1>3 DEF abstractCpu, kwtOf, IInv, TypeOK
  <2>2. ASSUME NEW t \in Sched \ {s} PROVE abstractCpu'[t] = abstractCpu[t]
    <3>1. \A v \in Worker : v # w => wpc'[v] = wpc[v]
      BY <1>1 DEF IInv, TypeOK
    <3>2. \A v \in Worker : wpc'[v] = "user" => Released(v)
      BY <1>1, <3>1 DEF Released
    <3>3. \A v \in Worker : mutex[v] = t => (wpc'[v] = "user" <=> wpc[v] = "user")
      BY <3>1
    <3> QED
      BY <3>2, <3>3, CpuKept
  <2> QED
    BY <2>1, <2>2 DEF abstractCpu
<1>8. \E i \in 1..Len(ClidList[w]) : ClidList[w][i] = ListOf[s]
  <2>1. batch[s][1] = w /\ 1 \in 1..Len(batch[s])
    BY <1>2, BatchType DEF kwtOf, IInv, TypeOK
  <2>2. kclOf(s) \in Lists(w) /\ clid_list = ClidList /\ ClidList[w] \in Seq(CL)
    BY <1>2, <2>1, ListAssumption DEF IInv, QueuedUntilExit
  <2> QED
    BY <2>2 DEF Lists, kclOf
<1> QED
  BY <1>2, <1>4, <1>5, <1>6, <1>7, <1>8 DEF Promise!Dispatch, Closed

\* A yield or an exit is Stop
LEMMA SchedulingStop ==
  ASSUME IInv, IInv', [Next]_vars, NEW w \in Worker, SetKwtIdle(w) \/ SetKwtExiting(w)
  PROVE  \E next \in {"ready", "done"} : Promise!Stop(mutex[w], next)
<1> DEFINE s == mutex[w]
           next == IF SetKwtIdle(w) THEN "ready" ELSE "done"
<1>1. /\ wpc[w] = "user"
      /\ wpc' = [wpc EXCEPT ![w] = IF SetKwtIdle(w) THEN "y_read" ELSE "x_dec"]
  BY DEF SetKwtIdle, SetKwtExiting
<1>2. /\ s \in Sched /\ batch[s] # <<>> /\ kwtOf(s) = w
  BY <1>1 DEF IInv, ReleasedIsAwaited, Awaits, Released
<1>3. spc' = spc /\ mutex' = mutex /\ batch' = batch
  BY DEF SetKwtIdle, SetKwtExiting, schedVars
<1>4. Closed' = Closed
  BY <1>3 DEF Closed
<1>5. abstractStatus' = [abstractStatus EXCEPT ![w] = next]
  BY <1>1 DEF abstractStatus, ExitPC, IInv, TypeOK
<1>6. abstractCpu[s] = w /\ w # None
  BY <1>1, <1>2, ThreadAssumption DEF abstractCpu
<1>7. abstractCpu' = [abstractCpu EXCEPT ![s] = None]
  <2>1. abstractCpu'[s] = None
    <3>1. wpc'[w] # "user"
      BY <1>1 DEF IInv, TypeOK
    <3>2. Head(batch'[s]) = w
      BY <1>2, <1>3 DEF kwtOf
    <3> QED
      BY <1>2, <3>1, <3>2 DEF abstractCpu, kwtOf
  <2>2. ASSUME NEW t \in Sched \ {s} PROVE abstractCpu'[t] = abstractCpu[t]
    <3>1. \A v \in Worker : v # w => wpc'[v] = wpc[v]
      BY <1>1 DEF IInv, TypeOK
    <3>2. \A v \in Worker : wpc'[v] = "user" => Released(v)
      BY <1>1, <3>1 DEF Released
    <3>3. \A v \in Worker : mutex[v] = t => (wpc'[v] = "user" <=> wpc[v] = "user")
      BY <3>1
    <3> QED
      BY <3>2, <3>3, CpuKept
  <2> QED
    BY <2>1, <2>2 DEF abstractCpu
<1> QED
  BY <1>2, <1>4, <1>5, <1>6, <1>7 DEF Promise!Stop, Closed

\* Every behaviour of the dispatch protocol is a user mode schedule in the sense
\* of UmsScheduling: a scheduler runs one worker at a time, a worker runs on one
\* scheduler at a time, never after its end, and a scheduler stops only when its
\* whole list is done.
THEOREM Refinement == Spec => ImplementsScheduling
<1>1. IInv /\ IInv' /\ [Next]_vars => [Promise!Next]_(Promise!vars)
  <2> SUFFICES ASSUME IInv, IInv', [Next]_vars PROVE [Promise!Next]_(Promise!vars)
    OBVIOUS
  <2>1. ASSUME NEW w \in Worker, Resume(w) PROVE Promise!Next
    <3>1. mutex[w] \in Sched
      BY <2>1 DEF IInv, ReleasedIsAwaited, Released, Resume
    <3> QED
      BY <2>1, <3>1, SchedulingDispatch DEF Promise!Next
  <2>2. ASSUME NEW w \in Worker, SetKwtIdle(w) \/ SetKwtExiting(w) PROVE Promise!Next
    <3>1. mutex[w] \in Sched
      BY <2>2 DEF IInv, ReleasedIsAwaited, Released, SetKwtIdle, SetKwtExiting
    <3> QED
      BY <2>2, <3>1, SchedulingStop DEF Promise!Next
  <2>3. ASSUME NEW s \in Sched, GetWtReadyQueue(s) /\ NoThreadsLeft(s) PROVE Promise!Next
    BY <2>3, SchedulingClose DEF Promise!Next
  <2>4. TypeOK
    BY DEF IInv
  <2> QED
    BY <2>1, <2>2, <2>3, <2>4, FrameScheduling, SchedulingStutter
<1> QED
  BY <1>1, SchedulingInit, Invariance, PTL DEF Spec, ImplementsScheduling, Promise!Spec

================================================================================
