----------------------------- MODULE UmsReadyProofs -----------------------------
(****************************************************************************)
(* The accounting of kcl->threads_ready: on any number of processors no       *)
(* decrement or increment is lost, whatever the order in which dequeues,      *)
(* yields and exits meet.                                                     *)
(****************************************************************************)
EXTENDS UmsDispatchProofs

(****************************************************************************)
(* What IInv does not say of the two walks over clid_list.                    *)
(****************************************************************************)

\* q holds lists of worker w, each once
ListsOnce(q, w) ==
  /\ \A i \in 1..Len(q) : q[i] \in Lists(w)
  /\ \A i, j \in 1..Len(q) : q[i] = q[j] => i = j

\* for_each_dec_kcl_threads_ready walks the lists of the worker just locked
DecClaimed ==
  \A s \in Sched : spc[s] = "dec" =>
    cursor[s] \in Worker /\ mutex[cursor[s]] = s /\ ListsOnce(slists[s], cursor[s])

\* for_each_inc_kcl_threads_ready walks the lists of a worker that has yielded
IncIdle ==
  \A s \in Sched : spc[s] = "inc" =>
    state[kwtOf(s)] = WT_IDLE /\ ListsOnce(slists[s], kwtOf(s))

\* wait_worker_thread returns when the worker has stopped, and only the same
\* scheduler can start it again
ReleaseStopped == \A s \in Sched : spc[s] \in ReleasePC => state[kwtOf(s)] # WT_RUNNING

\* An exiting worker may be marked as running by a late dispatch, never as idle
ExitMarked ==
  \A w \in Worker : /\ wpc[w] \in ExitPC => state[w] # WT_IDLE
                    /\ state[w] = WT_EXITING => wpc[w] \in ExitPC

ReadyInv == DecClaimed /\ IncIdle /\ ReleaseStopped /\ ExitMarked

(****************************************************************************)
(* Sequences of lists.                                                        *)
(****************************************************************************)

LEMMA ClidListOnce ==
  ASSUME IInv, NEW w \in Worker
  PROVE  ListsOnce(clid_list[w], w)
<1>1. clid_list[w] \in Seq(CL) /\ clid_list = ClidList
  BY DEF IInv, TypeOK, QueuedUntilExit
<1>2. \A i \in 1..Len(clid_list[w]) : clid_list[w][i] \in Lists(w)
  BY <1>1 DEF Lists
<1> QED
  BY <1>1, <1>2, ListAssumption DEF ListsOnce

\* The walk moves on: the head is gone for good, the rest is still to come
LEMMA WalkOn ==
  ASSUME NEW q \in Seq(CL), q # <<>>, NEW w, ListsOnce(q, w)
  PROVE  /\ Head(q) \in CL /\ Head(q) \in Lists(w)
         /\ Tail(q) \in Seq(CL) /\ ListsOnce(Tail(q), w)
         /\ {Tail(q)[i] : i \in DOMAIN Tail(q)} = {q[i] : i \in DOMAIN q} \ {Head(q)}
         /\ Head(q) \in {q[i] : i \in DOMAIN q}
         /\ Len(q) = 1 <=> Tail(q) = <<>>
<1>1. /\ Head(q) = q[1] /\ 1 \in 1..Len(q) /\ DOMAIN q = 1..Len(q) /\ Len(q) \in Nat
      /\ Tail(q) \in Seq(CL) /\ DOMAIN Tail(q) = 1..(Len(q) - 1)
      /\ Len(Tail(q)) = Len(q) - 1
      /\ \A i \in 1..(Len(q) - 1) : Tail(q)[i] = q[i + 1]
  BY EmptySeq, HeadTailProperties, LenProperties
<1>2. Head(q) \in CL /\ Head(q) \in Lists(w)
  BY <1>1 DEF ListsOnce
<1>3. ListsOnce(Tail(q), w)
  <2>1. \A i \in 1..(Len(q) - 1) : i + 1 \in 1..Len(q)
    BY <1>1
  <2>2. \A i \in 1..(Len(q) - 1) : Tail(q)[i] \in Lists(w)
    BY <1>1, <2>1 DEF ListsOnce
  <2>3. ASSUME NEW i \in 1..(Len(q) - 1), NEW j \in 1..(Len(q) - 1), Tail(q)[i] = Tail(q)[j]
        PROVE  i = j
    <3>1. i + 1 = j + 1
      BY <1>1, <2>1, <2>3 DEF ListsOnce
    <3> QED
      BY <3>1
  <2> QED
    BY <1>1, <2>2, <2>3 DEF ListsOnce
<1>4. ASSUME NEW x PROVE (\E i \in DOMAIN Tail(q) : Tail(q)[i] = x)
                         <=> x # Head(q) /\ \E i \in DOMAIN q : q[i] = x
  <2>1. ASSUME NEW i \in DOMAIN Tail(q), Tail(q)[i] = x
        PROVE  x # Head(q) /\ \E j \in DOMAIN q : q[j] = x
    <3>1. i + 1 \in 1..Len(q) /\ q[i + 1] = x /\ i + 1 # 1
      BY <1>1, <2>1
    <3> QED
      BY <1>1, <3>1 DEF ListsOnce
  <2>2. ASSUME NEW i \in DOMAIN q, q[i] = x, x # Head(q)
        PROVE  \E j \in DOMAIN Tail(q) : Tail(q)[j] = x
    <3>1. i # 1 /\ i \in 1..Len(q)
      BY <1>1, <2>2
    <3>2. i - 1 \in 1..(Len(q) - 1) /\ (i - 1) + 1 = i
      BY <1>1, <3>1
    <3> QED
      BY <1>1, <2>2, <3>2
  <2> QED
    BY <2>1, <2>2
<1>5. Len(q) = 1 <=> Tail(q) = <<>>
  <2>1. Len(Tail(q)) = 0 <=> Tail(q) = <<>>
    BY <1>1, EmptySeq
  <2> QED
    BY <1>1, <2>1
<1>6. {Tail(q)[i] : i \in DOMAIN Tail(q)} = {q[i] : i \in DOMAIN q} \ {Head(q)}
  BY <1>4, Zenon
<1>7. Head(q) \in {q[i] : i \in DOMAIN q}
  BY <1>1
<1> QED
  BY <1>1, <1>2, <1>3, <1>5, <1>6, <1>7

(****************************************************************************)
(* ReadyInv is inductive together with IInv.                                  *)
(****************************************************************************)

\* A step of s leaves the locals of the other schedulers alone, and writes no
\* worker state but that of the worker it executes
LEMMA OneSchedulerWalk ==
  ASSUME TypeOK, NEW s \in Sched, SchedStep(s)
  PROVE  /\ \A t \in Sched \ {s} : cursor'[t] = cursor[t] /\ slists'[t] = slists[t]
         /\ \A w \in Worker : state'[w] = state[w] \/ (SetKwtRunning(s) /\ w = kwtOf(s))
         /\ UNCHANGED threads_ready \/ DecThreadsReady(s) \/ IncThreadsReady(s)
BY SMTT(60) DEF TypeOK, SchedStep, Dequeue, Execute, kwtVars, kclVars,
       PrepareToWait, CheckReady, DequeueWoken, GetWtReadyQueue, Advance, ClaimWorker, PassWorker, TidFreed,
       DecThreadsReady, ScanFreed, FinishScan, SkipUnknown, SetKstRunning,
       SetKwtRunning, WakeUpWorker, SetTaskState, TestWorker, ExecuteWoken, SetKstIdle,
       IncThreadsReady, WakeUpSchedulers, UnlockWorker, Leave

\* A step of a worker touches no walk of a scheduler and no count of ready workers,
\* and marks the worker as it yields or exits
LEMMA OneWorkerWalk ==
  ASSUME TypeOK, NEW w \in Worker, WorkerStep(w)
  PROVE  /\ UNCHANGED <<cursor, slists, threads_ready>>
         /\ \/ state' = state /\ (wpc'[w] \in ExitPC <=> wpc[w] \in ExitPC)
            \/ wpc[w] = "user" /\ state'[w] = WT_IDLE /\ wpc'[w] \notin ExitPC
            \/ wpc[w] = "user" /\ state'[w] = WT_EXITING /\ wpc'[w] \in ExitPC
BY SMTT(60) DEF TypeOK, WorkerStep, Yield, Exit, kwtVars, kclVars, schedVars, ExitPC,
       Park, Resume, SetKwtIdle, SetKwtExiting, DecNthreads, EndWorker, LookUpScheduler,
       WakeUpScheduler, ClearScheduler

\* A worker whose scheduler does not wait for it is not in its routine
LEMMA HeldNotRunning ==
  ASSUME IInv, NEW s \in Sched, spc[s] \notin AwaitPC, NEW w \in Worker, mutex[w] = s
  PROVE  wpc[w] # "user"
BY DEF IInv, ReleasedIsAwaited, Released, Awaits

\* An exiting worker keeps its mark unless a late dispatch overwrites it
LEMMA StepExitMarked == TypeOK /\ ExitMarked /\ [Next]_vars => ExitMarked'
<1> SUFFICES ASSUME TypeOK, ExitMarked, [Next]_vars, NEW w \in Worker
             PROVE  /\ wpc'[w] \in ExitPC => state'[w] # WT_IDLE
                    /\ state'[w] = WT_EXITING => wpc'[w] \in ExitPC
  BY DEF ExitMarked
<1> USE DEF WT_IDLE, WT_RUNNING, WT_EXITING
<1>1. CASE UNCHANGED vars
  BY <1>1 DEF ExitMarked, vars, kwtVars, workerVars
<1>2. ASSUME NEW s \in Sched, SchedStep(s)
      PROVE  /\ wpc'[w] \in ExitPC => state'[w] # WT_IDLE
             /\ state'[w] = WT_EXITING => wpc'[w] \in ExitPC
  BY <1>2, OneScheduler DEF ExitMarked
<1>3. ASSUME NEW v \in Worker, WorkerStep(v)
      PROVE  /\ wpc'[w] \in ExitPC => state'[w] # WT_IDLE
             /\ state'[w] = WT_EXITING => wpc'[w] \in ExitPC
  BY <1>3, OneWorker, OneWorkerWalk DEF ExitMarked
<1> QED
  BY <1>1, <1>2, <1>3 DEF Next

\* The state of a worker in EXECUTEUMSTHREAD past wait_worker_thread is written by
\* no other thread
LEMMA ReleaseKeepsState ==
  ASSUME IInv, [Next]_vars, NEW s \in Sched, spc[s] \in ReleasePC
  PROVE  state'[kwtOf(s)] = state[kwtOf(s)]
<1>1. batch[s] # <<>>
  BY DEF IInv, WakesMarked, ExecutePC
<1>2. kwtOf(s) \in Worker /\ mutex[kwtOf(s)] = s
  BY <1>1, HeadOwned DEF IInv
<1>3. wpc[kwtOf(s)] # "user"
  BY <1>2, HeldNotRunning DEF AwaitPC, ReleasePC
<1>4. CASE UNCHANGED vars
  BY <1>4 DEF vars, kwtVars
<1>5. ASSUME NEW t \in Sched, SchedStep(t) PROVE state'[kwtOf(s)] = state[kwtOf(s)]
  <2>1. ASSUME SetKwtRunning(t), kwtOf(s) = kwtOf(t) PROVE FALSE
    <3>1. mutex[kwtOf(t)] = t /\ spc[t] = "running"
      BY <2>1, HeadOwned DEF SetKwtRunning, IInv
    <3> QED
      BY <1>2, <2>1, <3>1 DEF ReleasePC
  <2> QED
    BY <1>2, <1>5, <2>1, OneSchedulerWalk DEF IInv
<1>6. ASSUME NEW v \in Worker, WorkerStep(v) PROVE state'[kwtOf(s)] = state[kwtOf(s)]
  BY <1>2, <1>3, <1>6, OneWorker DEF IInv
<1> QED
  BY <1>4, <1>5, <1>6 DEF Next

\* wait_worker_thread ends its loop on a worker that is not marked as running
LEMMA StepReleaseStopped == IInv /\ ReleaseStopped /\ [Next]_vars => ReleaseStopped'
<1> SUFFICES ASSUME IInv, ReleaseStopped, [Next]_vars, NEW s \in Sched, spc'[s] \in ReleasePC
             PROVE  state'[Head(batch'[s])] # WT_RUNNING
  BY DEF ReleaseStopped, kwtOf
<1>1. \/ spc[s] \in ReleasePC /\ batch'[s] = batch[s]
      \/ TestWorker(s) /\ spc'[s] = "idle"
  <2>1. CASE UNCHANGED vars
    BY <2>1 DEF vars, schedVars
  <2>2. ASSUME NEW t \in Sched \ {s}, SchedStep(t)
        PROVE  spc[s] \in ReleasePC /\ batch'[s] = batch[s]
    BY <2>2, OneScheduler DEF IInv
  <2>3. ASSUME NEW v \in Worker, WorkerStep(v)
        PROVE  spc[s] \in ReleasePC /\ batch'[s] = batch[s]
    BY <2>3, OneWorker DEF IInv
  <2>4. ASSUME SchedStep(s)
        PROVE  \/ spc[s] \in ReleasePC /\ batch'[s] = batch[s]
               \/ TestWorker(s) /\ spc'[s] = "idle"
    BY <2>4, SMTT(60) DEF IInv, TypeOK, ReleasePC, SchedStep, Dequeue, Execute,
       PrepareToWait, CheckReady, DequeueWoken, GetWtReadyQueue, Advance, ClaimWorker, PassWorker, TidFreed,
       DecThreadsReady, ScanFreed, FinishScan, SkipUnknown, NextInBatch, SetKstRunning,
       SetKwtRunning, WakeUpWorker, SetTaskState, TestWorker, ExecuteWoken, SetKstIdle,
       IncThreadsReady, WakeUpSchedulers, UnlockWorker, Leave
  <2> QED
    BY <2>1, <2>2, <2>3, <2>4 DEF Next
<1>2. CASE spc[s] \in ReleasePC /\ batch'[s] = batch[s]
  BY <1>2, ReleaseKeepsState DEF ReleaseStopped, kwtOf
<1>3. CASE TestWorker(s) /\ spc'[s] = "idle"
  <2>1. state[kwtOf(s)] # WT_RUNNING /\ UNCHANGED <<state, batch>>
    BY <1>3 DEF TestWorker, kwtVars, IInv, TypeOK
  <2> QED
    BY <2>1 DEF kwtOf
<1> QED
  BY <1>1, <1>2, <1>3

\* The walk of for_each_dec_kcl_threads_ready belongs to one claim: nothing but
\* its own rounds moves it, and kwt->mutex is kept all along
LEMMA StepDecClaimed == IInv /\ DecClaimed /\ [Next]_vars => DecClaimed'
<1> SUFFICES ASSUME IInv, DecClaimed, [Next]_vars PROVE DecClaimed'
  OBVIOUS
<1>0. clid_list' = clid_list
  BY FrameWorker DEF IInv
<1> SUFFICES ASSUME NEW s \in Sched, spc'[s] = "dec"
             PROVE  /\ cursor'[s] \in Worker /\ mutex'[cursor'[s]] = s
                    /\ ListsOnce(slists'[s], cursor'[s])
  BY <1>0 DEF DecClaimed, ListsOnce, Lists
<1>1. CASE /\ spc[s] = "dec" /\ cursor'[s] = cursor[s]
           /\ ListsOnce(slists'[s], cursor[s])
  <2>1. cursor[s] \in Worker /\ mutex[cursor[s]] = s
    BY <1>1 DEF DecClaimed
  <2>2. mutex'[cursor[s]] = s
    <3>1. ASSUME NEW t \in Sched, NEW w \in Worker, ClaimWorker(t, w)
          PROVE  mutex'[cursor[s]] = s
      BY <2>1, <3>1, ThreadAssumption DEF ClaimWorker, CanClaim, IInv, TypeOK
    <3>2. ASSUME NEW t \in Sched, SkipUnknown(t) PROVE mutex'[cursor[s]] = s
      BY <2>1, <3>2 DEF SkipUnknown, kwtVars
    <3>3. ASSUME NEW t \in Sched, UnlockWorker(t) PROVE mutex'[cursor[s]] = s
      <4>1. kwtOf(t) \in Worker /\ mutex[kwtOf(t)] = t /\ spc[t] = "unlock"
        BY <3>3, HeadOwned DEF UnlockWorker, IInv
      <4> QED
        BY <1>1, <2>1, <3>3, <4>1 DEF UnlockWorker, IInv, TypeOK
    <3> QED
      BY <2>1, <3>1, <3>2, <3>3, FrameOwned
  <2> QED
    BY <1>1, <2>1, <2>2
<1>2. ASSUME NEW w \in Worker, ClaimWorker(s, w)
      PROVE  /\ cursor'[s] \in Worker /\ mutex'[cursor'[s]] = s
             /\ ListsOnce(slists'[s], cursor'[s])
  <2>1. cursor'[s] = w /\ mutex'[w] = s /\ slists'[s] = clid_list[w]
    BY <1>2 DEF ClaimWorker, IInv, TypeOK
  <2> QED
    BY <2>1, ClidListOnce
<1>3. \/ spc[s] = "dec" /\ cursor'[s] = cursor[s] /\ slists'[s] = slists[s]
      \/ DecThreadsReady(s)
      \/ \E w \in Worker : ClaimWorker(s, w)
  <2>1. CASE UNCHANGED vars
    BY <2>1 DEF vars, schedVars
  <2>2. ASSUME NEW t \in Sched \ {s}, SchedStep(t)
        PROVE  spc[s] = "dec" /\ cursor'[s] = cursor[s] /\ slists'[s] = slists[s]
    BY <2>2, OneScheduler, OneSchedulerWalk DEF IInv
  <2>3. ASSUME NEW v \in Worker, WorkerStep(v)
        PROVE  spc[s] = "dec" /\ cursor'[s] = cursor[s] /\ slists'[s] = slists[s]
    BY <2>3, OneWorker, OneWorkerWalk DEF IInv
  <2>4. ASSUME SchedStep(s)
        PROVE  DecThreadsReady(s) \/ \E w \in Worker : ClaimWorker(s, w)
    BY <2>4, SMTT(60) DEF IInv, TypeOK, SchedStep, Dequeue, Execute,
       PrepareToWait, CheckReady, DequeueWoken, GetWtReadyQueue, Advance, PassWorker, TidFreed,
       ScanFreed, FinishScan, SkipUnknown, NextInBatch, SetKstRunning,
       SetKwtRunning, WakeUpWorker, SetTaskState, TestWorker, ExecuteWoken, SetKstIdle,
       IncThreadsReady, WakeUpSchedulers, UnlockWorker, Leave
  <2> QED
    BY <2>1, <2>2, <2>3, <2>4 DEF Next
<1>4. CASE spc[s] = "dec" /\ cursor'[s] = cursor[s] /\ slists'[s] = slists[s]
  BY <1>1, <1>4 DEF DecClaimed
<1>5. CASE DecThreadsReady(s)
  <2>1. /\ spc[s] = "dec" /\ cursor' = cursor /\ slists[s] # <<>>
        /\ slists'[s] = Tail(slists[s]) /\ slists[s] \in Seq(CL)
    BY <1>5 DEF DecThreadsReady, IInv, TypeOK
  <2>2. ListsOnce(Tail(slists[s]), cursor[s])
    BY <2>1, WalkOn DEF DecClaimed
  <2> QED
    BY <1>1, <2>1, <2>2
<1> QED
  BY <1>2, <1>3, <1>4, <1>5

\* The walk of for_each_inc_kcl_threads_ready belongs to a worker that has yielded
LEMMA StepIncIdle == IInv /\ IncIdle /\ [Next]_vars => IncIdle'
<1> SUFFICES ASSUME IInv, IncIdle, [Next]_vars PROVE IncIdle'
  OBVIOUS
<1>0. clid_list' = clid_list
  BY FrameWorker DEF IInv
<1> SUFFICES ASSUME NEW s \in Sched, spc'[s] = "inc"
             PROVE  /\ state'[Head(batch'[s])] = WT_IDLE
                    /\ ListsOnce(slists'[s], Head(batch'[s]))
  BY <1>0 DEF IncIdle, ListsOnce, Lists, kwtOf
<1>1. \/ spc[s] = "inc" /\ slists'[s] = slists[s] /\ batch'[s] = batch[s]
      \/ IncThreadsReady(s)
      \/ SetKstIdle(s)
  <2>1. CASE UNCHANGED vars
    BY <2>1 DEF vars, schedVars
  <2>2. ASSUME NEW t \in Sched \ {s}, SchedStep(t)
        PROVE  spc[s] = "inc" /\ slists'[s] = slists[s] /\ batch'[s] = batch[s]
    BY <2>2, OneScheduler, OneSchedulerWalk DEF IInv
  <2>3. ASSUME NEW v \in Worker, WorkerStep(v)
        PROVE  spc[s] = "inc" /\ slists'[s] = slists[s] /\ batch'[s] = batch[s]
    BY <2>3, OneWorker, OneWorkerWalk DEF IInv
  <2>4. ASSUME SchedStep(s) PROVE IncThreadsReady(s) \/ SetKstIdle(s)
    BY <2>4, SMTT(60) DEF IInv, TypeOK, SchedStep, Dequeue, Execute,
       PrepareToWait, CheckReady, DequeueWoken, GetWtReadyQueue, Advance, ClaimWorker, PassWorker, TidFreed,
       DecThreadsReady, ScanFreed, FinishScan, SkipUnknown, NextInBatch, SetKstRunning,
       SetKwtRunning, WakeUpWorker, SetTaskState, TestWorker, ExecuteWoken,
       WakeUpSchedulers, UnlockWorker, Leave
  <2> QED
    BY <2>1, <2>2, <2>3, <2>4 DEF Next
<1>2. CASE spc[s] = "inc" /\ slists'[s] = slists[s] /\ batch'[s] = batch[s]
  BY <1>2, ReleaseKeepsState DEF IncIdle, kwtOf, ReleasePC
<1>3. CASE IncThreadsReady(s)
  <2>1. /\ spc[s] = "inc" /\ UNCHANGED <<batch, state>> /\ slists[s] # <<>>
        /\ slists'[s] = Tail(slists[s]) /\ slists[s] \in Seq(CL)
    BY <1>3 DEF IncThreadsReady, IInv, TypeOK, kwtVars
  <2>2. ListsOnce(Tail(slists[s]), kwtOf(s))
    BY <2>1, WalkOn DEF IncIdle
  <2> QED
    BY <2>1, <2>2 DEF IncIdle, kwtOf
<1>4. CASE SetKstIdle(s)
  <2>1. /\ UNCHANGED <<batch, state>> /\ batch[s] # <<>> /\ state[kwtOf(s)] = WT_IDLE
        /\ slists'[s] = clid_list[kwtOf(s)]
    BY <1>4 DEF SetKstIdle, IInv, TypeOK, kwtVars, GaveUpCpu
  <2>2. kwtOf(s) \in Worker
    BY <2>1, HeadOwned DEF IInv
  <2> QED
    BY <2>1, <2>2, ClidListOnce DEF kwtOf
<1> QED
  BY <1>1, <1>2, <1>3, <1>4

\* The walks and the marks of the workers are as ReadyInv says at the start and
\* after every step
LEMMA ReadyInvariance == Spec => []ReadyInv
<1>1. Init => ReadyInv
  BY DEF Init, ReadyInv, DecClaimed, IncIdle, ReleaseStopped, ExitMarked, ReleasePC, ExitPC,
         WT_IDLE, WT_EXITING
<1>2. IInv /\ ReadyInv /\ [Next]_vars => ReadyInv'
  BY StepDecClaimed, StepIncIdle, StepReleaseStopped, StepExitMarked DEF ReadyInv, IInv
<1> QED
  BY <1>1, <1>2, Invariance, PTL DEF Spec

(****************************************************************************)
(* Counted and CountedTwice, seen from the owner of kwt->mutex.               *)
(****************************************************************************)

\* s holds w, and has still to take its count out of c or has put it back
HolderCounts(s, w, c) ==
  \/ spc[s] = "dec" /\ cursor[s] = w /\ c \in ListsLeft(s) /\ wpc[w] \notin ExitPC
  \/ /\ batch[s] # <<>> /\ kwtOf(s) = w
     /\ \/ spc[s] = "inc" /\ c \notin ListsLeft(s)
        \/ spc[s] \in {"wakeall", "unlock"} /\ state[w] = WT_IDLE

\* s holds w and will not put back the count that its claim has taken out
HolderTwice(s, w, c) ==
  /\ \/ state[w] = WT_RUNNING
     \/ ~(spc[s] \in AwaitPC \cup ReleasePC /\ batch[s] # <<>> /\ kwtOf(s) = w)
  /\ ~(spc[s] = "dec" /\ cursor[s] = w /\ c \in ListsLeft(s))

CountedByHolder ==
  \A w \in Worker, c \in CL :
    /\ Counted(w, c) <=>
         /\ c \in Lists(w)
         /\ IF mutex[w] = None THEN wpc[w] \notin ExitPC ELSE HolderCounts(mutex[w], w, c)
    /\ CountedTwice(w, c) <=>
         /\ c \in Lists(w) /\ wpc[w] \in ExitPC
         /\ mutex[w] # None /\ HolderTwice(mutex[w], w, c)

\* A worker has one holder at most
LEMMA OneHolder == TypeOK => CountedByHolder
<1> SUFFICES ASSUME TypeOK, NEW w \in Worker, NEW c \in CL
             PROVE  /\ Counted(w, c) <=>
                         /\ c \in Lists(w)
                         /\ IF mutex[w] = None THEN wpc[w] \notin ExitPC
                            ELSE HolderCounts(mutex[w], w, c)
                    /\ CountedTwice(w, c) <=>
                         /\ c \in Lists(w) /\ wpc[w] \in ExitPC
                         /\ mutex[w] # None /\ HolderTwice(mutex[w], w, c)
  BY DEF CountedByHolder
<1>1. mutex[w] \in Sched \/ mutex[w] = None
  BY DEF TypeOK
<1>2. None \notin Sched
  BY ThreadAssumption
<1>3. Counted(w, c) <=> /\ c \in Lists(w)
                        /\ \/ mutex[w] = None /\ wpc[w] \notin ExitPC
                           \/ \E s \in Sched : mutex[w] = s /\ HolderCounts(s, w, c)
  BY DEF Counted, HolderCounts
<1>4. CountedTwice(w, c) <=> /\ c \in Lists(w) /\ wpc[w] \in ExitPC
                             /\ \E s \in Sched : mutex[w] = s /\ HolderTwice(s, w, c)
  BY DEF CountedTwice, HolderTwice
<1> QED
  BY <1>1, <1>2, <1>3, <1>4

\* The step leaves the part of w in the count of c as it is
Same(w, c) ==
  /\ Counted(w, c)' <=> Counted(w, c)
  /\ CountedTwice(w, c)' <=> CountedTwice(w, c)

\* The part of w changes only with the part its holder gives it
LEMMA SameByHolder ==
  ASSUME IInv, [Next]_vars, NEW w \in Worker, NEW c \in CL,
         mutex'[w] = mutex[w], wpc'[w] \in ExitPC <=> wpc[w] \in ExitPC,
         \A s \in Sched : mutex[w] = s =>
           /\ HolderCounts(s, w, c)' <=> HolderCounts(s, w, c)
           /\ wpc[w] \in ExitPC => (HolderTwice(s, w, c)' <=> HolderTwice(s, w, c))
  PROVE  Same(w, c)
<1>1. CountedByHolder /\ CountedByHolder'
  BY StepIInv, OneHolder, PTL DEF IInv
<1>2. clid_list' = clid_list
  BY FrameWorker DEF IInv
<1>3. Lists(w)' = Lists(w)
  BY <1>2 DEF Lists
<1>4. CASE mutex[w] = None
  BY <1>1, <1>3, <1>4 DEF Same, CountedByHolder
<1>5. CASE mutex[w] \in Sched
  <2> DEFINE s == mutex[w]
  <2>1. /\ HolderCounts(mutex[w], w, c)' <=> HolderCounts(mutex[w], w, c)
        /\ wpc[w] \in ExitPC => (HolderTwice(mutex[w], w, c)' <=> HolderTwice(mutex[w], w, c))
    <3>1. PICK t \in Sched : mutex[w] = t
      BY <1>5
    <3>2. /\ HolderCounts(t, w, c)' <=> HolderCounts(t, w, c)
          /\ wpc[w] \in ExitPC => (HolderTwice(t, w, c)' <=> HolderTwice(t, w, c))
      BY <3>1
    <3> QED
      BY <3>1, <3>2 DEF HolderCounts, HolderTwice, ListsLeft, kwtOf
  <2> QED
    BY <1>1, <1>3, <2>1 DEF Same, CountedByHolder
<1> QED
  BY <1>4, <1>5 DEF IInv, TypeOK

\* A scheduler locks only the worker it claims and unlocks only the one it executes
LEMMA OneSchedulerMutex ==
  ASSUME TypeOK, NEW s \in Sched, SchedStep(s), NEW w \in Worker
  PROVE  \/ mutex'[w] = mutex[w]
         \/ ClaimWorker(s, w)
         \/ UnlockWorker(s) /\ w = kwtOf(s)
BY SMTT(60) DEF TypeOK, SchedStep, Dequeue, Execute, kwtVars, kclVars,
       PrepareToWait, CheckReady, DequeueWoken, GetWtReadyQueue, Advance, ClaimWorker, PassWorker, TidFreed,
       DecThreadsReady, ScanFreed, FinishScan, SkipUnknown, SetKstRunning,
       SetKwtRunning, WakeUpWorker, SetTaskState, TestWorker, ExecuteWoken, SetKstIdle,
       IncThreadsReady, WakeUpSchedulers, UnlockWorker, Leave

\* A step of another scheduler than its holder leaves the part of a worker alone
LEMMA SameOfOther ==
  ASSUME IInv, NEW s \in Sched, SchedStep(s), NEW w \in Worker, NEW c \in CL,
         mutex[w] # s, ~ClaimWorker(s, w)
  PROVE  Same(w, c)
<1>1. [Next]_vars
  BY DEF Next
<1>2. batch[s] # <<>> => mutex[kwtOf(s)] = s
  BY HeadOwned DEF IInv
<1>3. mutex'[w] = mutex[w]
  BY <1>2, OneSchedulerMutex DEF IInv, UnlockWorker
<1>4. state'[w] = state[w] /\ wpc'[w] = wpc[w]
  BY <1>2, OneScheduler, OneSchedulerWalk DEF IInv, SetKwtRunning
<1>5. ASSUME NEW t \in Sched, mutex[w] = t
      PROVE  /\ HolderCounts(t, w, c)' <=> HolderCounts(t, w, c)
             /\ HolderTwice(t, w, c)' <=> HolderTwice(t, w, c)
  <2>1. /\ spc'[t] = spc[t] /\ batch'[t] = batch[t] /\ cursor'[t] = cursor[t]
        /\ slists'[t] = slists[t]
    BY <1>5, OneScheduler, OneSchedulerWalk DEF IInv
  <2> QED
    BY <1>4, <2>1 DEF HolderCounts, HolderTwice, ListsLeft, kwtOf
<1> QED
  BY <1>1, <1>3, <1>4, <1>5, SameByHolder

\* A yield or an exit leaves the part of the worker alone: its scheduler still
\* waits for it
LEMMA SameOfWorkerStep ==
  ASSUME IInv, NEW v \in Worker, WorkerStep(v), NEW w \in Worker, NEW c \in CL
  PROVE  Same(w, c)
<1>1. [Next]_vars
  BY DEF Next
<1>2. /\ UNCHANGED <<spc, batch, mutex, cursor, slists>>
      /\ w # v => wpc'[w] = wpc[w] /\ state'[w] = state[w]
  BY OneWorker, OneWorkerWalk DEF IInv
<1>3. CASE state'[w] = state[w] /\ (wpc'[w] \in ExitPC <=> wpc[w] \in ExitPC)
  BY <1>1, <1>2, <1>3, SameByHolder DEF HolderCounts, HolderTwice, ListsLeft, kwtOf
<1>4. CASE /\ wpc[w] = "user"
           /\ \/ state'[w] = WT_IDLE /\ wpc'[w] \notin ExitPC
              \/ state'[w] = WT_EXITING /\ wpc'[w] \in ExitPC
  <2> DEFINE s == mutex[w]
  <2>1. /\ s \in Sched /\ spc[s] \in AwaitPC /\ batch[s] # <<>> /\ kwtOf(s) = w
    BY <1>4 DEF IInv, ReleasedIsAwaited, Released, Awaits
  <2>2. CountedByHolder /\ CountedByHolder'
    BY <1>1, StepIInv, OneHolder, PTL DEF IInv
  <2>3. ~HolderCounts(s, w, c) /\ ~HolderCounts(s, w, c)'
    BY <1>2, <2>1 DEF HolderCounts, AwaitPC, kwtOf
  <2>4. state'[w] # WT_RUNNING => ~HolderTwice(s, w, c)'
    BY <1>2, <2>1 DEF HolderTwice, kwtOf
  <2>5. s # None
    BY <2>1, ThreadAssumption
  <2>6. ~Counted(w, c) /\ ~Counted(w, c)'
    BY <1>2, <2>2, <2>3, <2>5 DEF CountedByHolder
  <2>7. ~CountedTwice(w, c)
    BY <1>4, <2>2 DEF CountedByHolder, ExitPC
  <2>8. ~CountedTwice(w, c)'
    BY <1>2, <1>4, <2>2, <2>4 DEF CountedByHolder, WT_IDLE, WT_EXITING, WT_RUNNING
  <2> QED
    BY <2>6, <2>7, <2>8 DEF Same
<1> QED
  BY <1>2, <1>3, <1>4, OneWorkerWalk DEF IInv

\* mutex_trylock takes a worker without touching its part yet: all its lists are
\* still to be told
LEMMA SameOfClaim ==
  ASSUME IInv, NEW s \in Sched, NEW w \in Worker, NEW c \in CL, ClaimWorker(s, w)
  PROVE  Same(w, c)
<1>1. [Next]_vars
  BY DEF Next, SchedStep, Dequeue
<1>2. CountedByHolder /\ CountedByHolder'
  BY <1>1, StepIInv, OneHolder, PTL DEF IInv
<1>3. /\ mutex[w] = None /\ mutex'[w] = s /\ s # None
      /\ UNCHANGED <<wpc, clid_list>>
      /\ spc'[s] = "dec" /\ cursor'[s] = w /\ slists'[s] = clid_list[w]
  BY ThreadAssumption DEF ClaimWorker, CanClaim, workerVars, IInv, TypeOK
<1>4. ListsLeft(s)' = Lists(w) /\ Lists(w)' = Lists(w)
  BY <1>3 DEF ListsLeft, Lists
<1>5. c \in Lists(w) => /\ HolderCounts(s, w, c)' <=> wpc[w] \notin ExitPC
                        /\ ~HolderTwice(s, w, c)'
  BY <1>3, <1>4 DEF HolderCounts, HolderTwice
<1> QED
  BY <1>2, <1>3, <1>4, <1>5 DEF Same, CountedByHolder

\* The unlock at the end of EXECUTEUMSTHREAD: a worker that has yielded is ready
\* for the next dequeue, one that has ended is not
LEMMA SameOfUnlock ==
  ASSUME IInv, ReadyInv, NEW s \in Sched, UnlockWorker(s), NEW c \in CL,
         NEW w \in Worker, w = kwtOf(s)
  PROVE  Same(w, c)
<1>1. [Next]_vars
  BY DEF Next, SchedStep, Execute
<1>2. CountedByHolder /\ CountedByHolder'
  BY <1>1, StepIInv, OneHolder, PTL DEF IInv
<1>3. w \in Worker /\ mutex[w] = s /\ spc[s] = "unlock" /\ batch[s] # <<>> /\ s # None
  BY HeadOwned, ThreadAssumption DEF UnlockWorker, IInv
<1>4. mutex'[w] = None /\ UNCHANGED <<wpc, clid_list>>
  BY <1>3 DEF UnlockWorker, workerVars, IInv, TypeOK
<1>5. state[w] # WT_RUNNING
  BY <1>3 DEF ReadyInv, ReleaseStopped, ReleasePC
<1>6. state[w] = WT_IDLE <=> wpc[w] \notin ExitPC
  BY <1>3, <1>5 DEF ReadyInv, ExitMarked, IInv, TypeOK
<1>7. HolderCounts(s, w, c) <=> wpc[w] \notin ExitPC
  BY <1>3, <1>6 DEF HolderCounts
<1>8. ~HolderTwice(s, w, c)
  BY <1>3, <1>5 DEF HolderTwice, ReleasePC
<1> QED
  BY <1>2, <1>3, <1>4, <1>7, <1>8 DEF Same, CountedByHolder, Lists

\* The steps of a scheduler that no count can tell from none
LEMMA QuietScheduler ==
  ASSUME TypeOK, NEW s \in Sched, SchedStep(s)
  PROVE  \/ \E v \in Worker : ClaimWorker(s, v)
         \/ DecThreadsReady(s) \/ IncThreadsReady(s) \/ SetKstIdle(s)
         \/ SkipUnknown(s) \/ UnlockWorker(s) \/ SetKwtRunning(s) \/ WakeUpWorker(s)
         \/ /\ UNCHANGED <<batch, state>>
            /\ spc[s] \notin {"dec", "inc"} /\ spc'[s] \notin {"dec", "inc"}
            /\ spc'[s] \in {"wakeall", "unlock"} <=> spc[s] \in {"wakeall", "unlock"}
            /\ spc'[s] \in AwaitPC \cup ReleasePC <=> spc[s] \in AwaitPC \cup ReleasePC
BY SMTT(60) DEF TypeOK, SchedStep, Dequeue, Execute, kwtVars, AwaitPC, ReleasePC,
       PrepareToWait, CheckReady, DequeueWoken, GetWtReadyQueue, Advance, PassWorker, TidFreed,
       ScanFreed, FinishScan, SetKstRunning, SetTaskState, TestWorker, ExecuteWoken,
       WakeUpSchedulers, Leave

\* The steps of a scheduler, other than the rounds of its two walks, leave the part
\* of a worker it holds alone
LEMMA SameOfHolder ==
  ASSUME IInv, ReadyInv, NEW s \in Sched, SchedStep(s), NEW w \in Worker, NEW c \in CL,
         mutex[w] = s, ~DecThreadsReady(s), ~IncThreadsReady(s)
  PROVE  Same(w, c)
<1>1. [Next]_vars
  BY DEF Next
<1>2. wpc'[w] = wpc[w]
  BY OneScheduler DEF IInv
<1>3. ASSUME mutex'[w] = mutex[w],
             HolderCounts(s, w, c)' <=> HolderCounts(s, w, c),
             wpc[w] \in ExitPC => (HolderTwice(s, w, c)' <=> HolderTwice(s, w, c))
      PROVE  Same(w, c)
  BY <1>1, <1>2, <1>3, SameByHolder
<1>4. ASSUME NEW v \in Worker, ClaimWorker(s, v) PROVE Same(w, c)
  <2>1. w # v
    BY <1>4, ThreadAssumption DEF ClaimWorker, CanClaim
  <2>2. /\ mutex'[w] = mutex[w] /\ state' = state
        /\ spc[s] = "lock" /\ spc'[s] = "dec" /\ cursor'[s] = v
    BY <1>4, <2>1 DEF ClaimWorker, IInv, TypeOK
  <2> QED
    BY <1>3, <2>1, <2>2 DEF HolderCounts, HolderTwice, AwaitPC, ReleasePC
<1>5. CASE SetKstIdle(s)
  <2>1. /\ UNCHANGED <<mutex, batch, state, clid_list>> /\ spc[s] = "idle" /\ batch[s] # <<>>
        /\ spc'[s] = IF GaveUpCpu(kwtOf(s)) THEN "inc" ELSE "wakeall"
        /\ slists'[s] = clid_list[kwtOf(s)]
    BY <1>5 DEF SetKstIdle, kwtVars, IInv, TypeOK
  <2>2. ListsLeft(s)' = Lists(kwtOf(s))
    BY <2>1 DEF ListsLeft, Lists
  <2>3. kwtOf(s)' = kwtOf(s)
    BY <2>1 DEF kwtOf
  <2>4. CASE c \in Lists(w)
    <3>1. ~HolderCounts(s, w, c) /\ ~HolderCounts(s, w, c)'
      BY <2>1, <2>2, <2>3, <2>4 DEF HolderCounts, GaveUpCpu
    <3>2. HolderTwice(s, w, c)' <=> HolderTwice(s, w, c)
      BY <2>1, <2>3 DEF HolderTwice, ReleasePC
    <3> QED
      BY <1>3, <2>1, <3>1, <3>2
  <2>5. CASE c \notin Lists(w)
    BY <2>1, <2>5 DEF Same, Counted, CountedTwice, Lists
  <2> QED
    BY <2>4, <2>5
<1>6. CASE SkipUnknown(s)
  <2>1. /\ UNCHANGED <<mutex, state>> /\ spc[s] = "user"
        /\ spc'[s] \in {"user", "dequeue"}
    BY <1>6 DEF SkipUnknown, NextInBatch, kwtVars, IInv, TypeOK
  <2> QED
    BY <1>3, <2>1 DEF HolderCounts, HolderTwice, AwaitPC, ReleasePC
<1>7. CASE UnlockWorker(s)
  <2>1. CASE w = kwtOf(s)
    BY <1>7, <2>1, SameOfUnlock
  <2>2. CASE w # kwtOf(s)
    <3>1. /\ mutex'[w] = mutex[w] /\ state' = state /\ spc[s] = "unlock"
          /\ spc'[s] \in {"user", "dequeue"}
      BY <1>7, <2>2 DEF UnlockWorker, NextInBatch, IInv, TypeOK
    <3> QED
      BY <1>3, <2>2, <3>1 DEF HolderCounts, HolderTwice, AwaitPC, ReleasePC
  <2> QED
    BY <2>1, <2>2
<1>8. CASE SetKwtRunning(s)
  <2>1. /\ UNCHANGED <<mutex, batch>> /\ spc[s] = "running" /\ spc'[s] = "wake"
    BY <1>8 DEF SetKwtRunning, IInv, TypeOK
  <2> QED
    BY <1>3, <2>1 DEF HolderCounts, HolderTwice, AwaitPC, ReleasePC
<1>9. CASE WakeUpWorker(s)
  <2>1. /\ UNCHANGED <<mutex, batch, state>> /\ spc[s] = "wake" /\ batch[s] # <<>>
        /\ spc'[s] \in {"settask", "oops"} /\ state[kwtOf(s)] = WT_RUNNING
    BY <1>9 DEF WakeUpWorker, kwtVars, IInv, TypeOK, WakesMarked
  <2> QED
    BY <1>3, <2>1 DEF HolderCounts, HolderTwice, AwaitPC, ReleasePC, kwtOf
<1>10. CASE /\ UNCHANGED <<batch, state>>
            /\ spc[s] \notin {"dec", "inc"} /\ spc'[s] \notin {"dec", "inc"}
            /\ spc'[s] \in {"wakeall", "unlock"} <=> spc[s] \in {"wakeall", "unlock"}
            /\ spc'[s] \in AwaitPC \cup ReleasePC <=> spc[s] \in AwaitPC \cup ReleasePC
  <2>1. CASE mutex'[w] = mutex[w]
    BY <1>2, <1>3, <1>10, <2>1 DEF HolderCounts, HolderTwice, kwtOf
  <2>2. CASE mutex'[w] # mutex[w]
    BY <1>4, <1>7, <2>2, OneSchedulerMutex DEF IInv
  <2> QED
    BY <2>1, <2>2
<1> QED
  BY <1>4, <1>5, <1>6, <1>7, <1>8, <1>9, <1>10, QuietScheduler DEF IInv

\* One round of for_each_dec_kcl_threads_ready: the worker stops counting in the
\* list it is at, or counts twice there if it has exited since it was queued
LEMMA DecMoves ==
  ASSUME IInv, ReadyInv, NEW s \in Sched, DecThreadsReady(s),
         NEW h, h = Head(slists[s]), NEW k, k = cursor[s]
  PROVE  /\ h \in CL /\ k \in Worker
         /\ threads_ready' = [threads_ready EXCEPT ![h] = @ - 1]
         /\ \A w \in Worker, c \in CL : w # k \/ c # h => Same(w, c)
         /\ wpc[k] \notin ExitPC => /\ Counted(k, h) /\ ~Counted(k, h)'
                                    /\ ~CountedTwice(k, h) /\ ~CountedTwice(k, h)'
         /\ wpc[k] \in ExitPC => /\ ~Counted(k, h) /\ ~Counted(k, h)'
                                 /\ ~CountedTwice(k, h) /\ CountedTwice(k, h)'
<1>1. [Next]_vars /\ SchedStep(s)
  BY DEF Next, SchedStep, Dequeue
<1>2. CountedByHolder /\ CountedByHolder'
  BY <1>1, StepIInv, OneHolder, PTL DEF IInv
<1>3. /\ spc[s] = "dec" /\ slists[s] # <<>> /\ slists[s] \in Seq(CL)
      /\ UNCHANGED <<mutex, state, clid_list, batch, cursor, wpc>>
      /\ slists'[s] = Tail(slists[s])
      /\ spc'[s] = IF Len(slists[s]) = 1 THEN "scan" ELSE "dec"
      /\ threads_ready' = [threads_ready EXCEPT ![h] = @ - 1]
  BY DEF DecThreadsReady, kwtVars, workerVars, IInv, TypeOK
<1>4. k \in Worker /\ mutex[k] = s /\ s # None /\ ListsOnce(slists[s], k)
  BY <1>3, ThreadAssumption DEF ReadyInv, DecClaimed
<1>5. /\ h \in CL /\ h \in Lists(k) /\ h \in ListsLeft(s)
      /\ ListsLeft(s)' = ListsLeft(s) \ {h}
      /\ Len(slists[s]) = 1 => ListsLeft(s)' = {}
  <2>1. /\ Head(slists[s]) \in CL /\ Head(slists[s]) \in Lists(k)
        /\ {Tail(slists[s])[i] : i \in DOMAIN Tail(slists[s])}
             = {slists[s][i] : i \in DOMAIN slists[s]} \ {Head(slists[s])}
        /\ Head(slists[s]) \in {slists[s][i] : i \in DOMAIN slists[s]}
        /\ Len(slists[s]) = 1 <=> Tail(slists[s]) = <<>>
    BY <1>3, <1>4, WalkOn
  <2>2. ListsLeft(s)' = {Tail(slists[s])[i] : i \in DOMAIN Tail(slists[s])}
    BY <1>3 DEF ListsLeft
  <2>3. Tail(slists[s]) = <<>> => ListsLeft(s)' = {}
    BY <2>2
  <2> QED
    BY <2>1, <2>2, <2>3 DEF ListsLeft
<1>6. Lists(k)' = Lists(k)
  BY <1>3 DEF Lists
<1>7. ASSUME NEW w \in Worker, NEW c \in CL, w # k \/ c # h PROVE Same(w, c)
  <2>1. CASE mutex[w] # s
    BY <1>1, <1>3, <2>1, SameOfOther DEF ClaimWorker
  <2>2. CASE mutex[w] = s
    <3>1. HolderCounts(s, w, c)' <=> HolderCounts(s, w, c)
      BY <1>3, <1>5, <1>7 DEF HolderCounts
    <3>2. HolderTwice(s, w, c)' <=> HolderTwice(s, w, c)
      BY <1>3, <1>5, <1>7 DEF HolderTwice, AwaitPC, ReleasePC
    <3> QED
      BY <1>1, <1>3, <2>2, <3>1, <3>2, SameByHolder
  <2> QED
    BY <2>1, <2>2
<1>8. /\ HolderCounts(s, k, h) <=> wpc[k] \notin ExitPC
      /\ ~HolderTwice(s, k, h)
  BY <1>3, <1>5 DEF HolderCounts, HolderTwice
<1>9. ~HolderCounts(s, k, h)'
  BY <1>3, <1>5 DEF HolderCounts
<1>10. HolderTwice(s, k, h)'
  BY <1>3, <1>5 DEF HolderTwice, AwaitPC, ReleasePC
<1>11. /\ Counted(k, h) <=> wpc[k] \notin ExitPC
       /\ ~CountedTwice(k, h)
  BY <1>2, <1>4, <1>5, <1>8 DEF CountedByHolder
<1>12. /\ ~Counted(k, h)'
       /\ CountedTwice(k, h)' <=> wpc[k] \in ExitPC
  BY <1>2, <1>3, <1>4, <1>5, <1>6, <1>9, <1>10 DEF CountedByHolder
<1> QED
  BY <1>3, <1>4, <1>5, <1>7, <1>11, <1>12

\* One round of for_each_inc_kcl_threads_ready: the worker counts again in the list
\* it is at
LEMMA IncMoves ==
  ASSUME IInv, ReadyInv, NEW s \in Sched, IncThreadsReady(s),
         NEW h, h = Head(slists[s]), NEW k, k = kwtOf(s)
  PROVE  /\ h \in CL /\ k \in Worker
         /\ threads_ready' = [threads_ready EXCEPT ![h] = @ + 1]
         /\ \A w \in Worker, c \in CL : w # k \/ c # h => Same(w, c)
         /\ ~Counted(k, h) /\ Counted(k, h)'
         /\ ~CountedTwice(k, h) /\ ~CountedTwice(k, h)'
<1>1. [Next]_vars /\ SchedStep(s)
  BY DEF Next, SchedStep, Execute
<1>2. CountedByHolder /\ CountedByHolder'
  BY <1>1, StepIInv, OneHolder, PTL DEF IInv
<1>3. /\ spc[s] = "inc" /\ slists[s] # <<>> /\ slists[s] \in Seq(CL) /\ batch[s] # <<>>
      /\ UNCHANGED <<mutex, state, clid_list, batch, cursor, wpc>>
      /\ threads_ready' = [threads_ready EXCEPT ![h] = @ + 1]
      /\ \/ spc'[s] = "inc" /\ slists'[s] = Tail(slists[s])
         \/ spc'[s] = "wakeall" /\ Len(slists[s]) = 1
  BY DEF IncThreadsReady, kwtVars, workerVars, IInv, TypeOK
<1>4. /\ k \in Worker /\ mutex[k] = s /\ s # None /\ ListsOnce(slists[s], k)
      /\ state[k] = WT_IDLE
  BY <1>3, HeadOwned, ThreadAssumption DEF ReadyInv, IncIdle, IInv
<1>5. /\ h \in CL /\ h \in Lists(k) /\ h \in ListsLeft(s)
      /\ slists'[s] = Tail(slists[s]) => ListsLeft(s)' = ListsLeft(s) \ {h}
      /\ Len(slists[s]) = 1 => ListsLeft(s) = {h}
  <2>1. /\ Head(slists[s]) \in CL /\ Head(slists[s]) \in Lists(k)
        /\ {Tail(slists[s])[i] : i \in DOMAIN Tail(slists[s])}
             = {slists[s][i] : i \in DOMAIN slists[s]} \ {Head(slists[s])}
        /\ Head(slists[s]) \in {slists[s][i] : i \in DOMAIN slists[s]}
    BY <1>3, <1>4, WalkOn
  <2>2. slists'[s] = Tail(slists[s]) =>
          ListsLeft(s)' = {Tail(slists[s])[i] : i \in DOMAIN Tail(slists[s])}
    BY <1>3 DEF ListsLeft
  <2>3. Len(slists[s]) = 1 => ListsLeft(s) = {slists[s][1]} /\ h = slists[s][1]
    BY <1>3 DEF ListsLeft
  <2> QED
    BY <2>1, <2>2, <2>3 DEF ListsLeft
<1>6. Lists(k)' = Lists(k) /\ kwtOf(s)' = kwtOf(s)
  BY <1>3 DEF Lists, kwtOf
<1>7. ASSUME NEW w \in Worker, NEW c \in CL, w # k \/ c # h PROVE Same(w, c)
  <2>1. CASE mutex[w] # s
    BY <1>1, <1>3, <2>1, SameOfOther DEF ClaimWorker
  <2>2. CASE mutex[w] = s
    <3>1. HolderCounts(s, w, c)' <=> HolderCounts(s, w, c)
      BY <1>3, <1>4, <1>5, <1>6, <1>7 DEF HolderCounts
    <3>2. HolderTwice(s, w, c)' <=> HolderTwice(s, w, c)
      BY <1>3, <1>6 DEF HolderTwice, AwaitPC, ReleasePC
    <3> QED
      BY <1>1, <1>3, <2>2, <3>1, <3>2, SameByHolder
  <2> QED
    BY <2>1, <2>2
<1>8. ~HolderCounts(s, k, h) /\ ~HolderTwice(s, k, h)
  BY <1>3, <1>4, <1>5 DEF HolderCounts, HolderTwice, ReleasePC, WT_IDLE, WT_RUNNING
<1>9. HolderCounts(s, k, h)'
  BY <1>3, <1>4, <1>5, <1>6 DEF HolderCounts
<1>10. ~HolderTwice(s, k, h)'
  BY <1>3, <1>4, <1>6 DEF HolderTwice, ReleasePC, WT_IDLE, WT_RUNNING
<1>11. ~Counted(k, h) /\ ~CountedTwice(k, h)
  BY <1>2, <1>4, <1>5, <1>8 DEF CountedByHolder
<1>12. Counted(k, h)' /\ ~CountedTwice(k, h)'
  BY <1>2, <1>3, <1>4, <1>5, <1>6, <1>9, <1>10 DEF CountedByHolder
<1> QED
  BY <1>3, <1>4, <1>5, <1>7, <1>11, <1>12

(****************************************************************************)
(* The count.                                                                 *)
(****************************************************************************)

CountedSet(c) == {w \in Worker : Counted(w, c)}

TwiceSet(c) == {w \in Worker : CountedTwice(w, c)}

\* The sets are finite, their sizes numbers
LEMMA SetsFinite ==
  \A c \in CL : /\ IsFiniteSet(CountedSet(c)) /\ Cardinality(CountedSet(c)) \in Nat
                /\ IsFiniteSet(TwiceSet(c)) /\ Cardinality(TwiceSet(c)) \in Nat
<1> SUFFICES ASSUME NEW c \in CL
             PROVE  /\ IsFiniteSet(CountedSet(c)) /\ Cardinality(CountedSet(c)) \in Nat
                    /\ IsFiniteSet(TwiceSet(c)) /\ Cardinality(TwiceSet(c)) \in Nat
  OBVIOUS
<1>1. CountedSet(c) \subseteq Worker /\ TwiceSet(c) \subseteq Worker
  BY DEF CountedSet, TwiceSet
<1>2. IsFiniteSet(CountedSet(c)) /\ IsFiniteSet(TwiceSet(c))
  BY <1>1, ThreadAssumption, FS_Subset
<1> QED
  BY <1>2, FS_CardinalityType

\* A step that no part of c notices leaves both sets as they are
LEMMA SameSets ==
  ASSUME NEW c \in CL, \A w \in Worker : Same(w, c)
  PROVE  CountedSet(c)' = CountedSet(c) /\ TwiceSet(c)' = TwiceSet(c)
BY DEF CountedSet, TwiceSet, Same

\* The counter of every list follows the two sets through every step
LEMMA StepReadyAccounting == IInv /\ ReadyInv /\ ReadyAccounting /\ [Next]_vars => ReadyAccounting'
<1> SUFFICES ASSUME IInv, ReadyInv, ReadyAccounting, [Next]_vars, NEW c \in CL
             PROVE  threads_ready'[c] = Cardinality(CountedSet(c)') - Cardinality(TwiceSet(c)')
  BY DEF ReadyAccounting, CountedSet, TwiceSet
<1>0. /\ threads_ready[c] = Cardinality(CountedSet(c)) - Cardinality(TwiceSet(c))
      /\ IsFiniteSet(CountedSet(c)) /\ Cardinality(CountedSet(c)) \in Nat
      /\ IsFiniteSet(TwiceSet(c)) /\ Cardinality(TwiceSet(c)) \in Nat
      /\ threads_ready \in [CL -> Int]
  BY SetsFinite DEF ReadyAccounting, CountedSet, TwiceSet, IInv, TypeOK
<1>1. ASSUME UNCHANGED threads_ready, \A w \in Worker : Same(w, c)
      PROVE  threads_ready'[c] = Cardinality(CountedSet(c)') - Cardinality(TwiceSet(c)')
  BY <1>0, <1>1, SameSets
<1>2. ASSUME NEW s \in Sched, DecThreadsReady(s)
      PROVE  threads_ready'[c] = Cardinality(CountedSet(c)') - Cardinality(TwiceSet(c)')
  <2> DEFINE h == Head(slists[s])
             k == cursor[s]
  <2>1. /\ h \in CL /\ k \in Worker
        /\ threads_ready' = [threads_ready EXCEPT ![h] = @ - 1]
        /\ \A w \in Worker : w # k \/ c # h => Same(w, c)
    BY <1>2, DecMoves
  <2>2. CASE c # h
    BY <1>0, <2>1, <2>2, SameSets
  <2>3. CASE c = h /\ wpc[k] \notin ExitPC
    <3>1. PICK v \in Worker : v = k
      BY <2>1
    <3>2. /\ Counted(v, c) /\ ~Counted(v, c)'
          /\ ~CountedTwice(v, c) /\ ~CountedTwice(v, c)'
          /\ \A w \in Worker : w # v => Same(w, c)
      BY <1>2, <2>1, <2>3, <3>1, DecMoves
    <3>3. CountedSet(c)' = CountedSet(c) \ {v} /\ v \in CountedSet(c)
      BY <3>2 DEF CountedSet, Same
    <3>4. TwiceSet(c)' = TwiceSet(c)
      BY <3>2 DEF TwiceSet, Same
    <3>5. Cardinality(CountedSet(c)') = Cardinality(CountedSet(c)) - 1
      BY <1>0, <3>3, FS_RemoveElement
    <3> QED
      BY <1>0, <2>1, <2>3, <3>4, <3>5
  <2>4. CASE c = h /\ wpc[k] \in ExitPC
    <3>1. PICK v \in Worker : v = k
      BY <2>1
    <3>2. /\ ~Counted(v, c) /\ ~Counted(v, c)'
          /\ ~CountedTwice(v, c) /\ CountedTwice(v, c)'
          /\ \A w \in Worker : w # v => Same(w, c)
      BY <1>2, <2>1, <2>4, <3>1, DecMoves
    <3>3. TwiceSet(c)' = TwiceSet(c) \cup {v} /\ v \notin TwiceSet(c)
      BY <3>2 DEF TwiceSet, Same
    <3>4. CountedSet(c)' = CountedSet(c)
      BY <3>2 DEF CountedSet, Same
    <3>5. Cardinality(TwiceSet(c)') = Cardinality(TwiceSet(c)) + 1
      BY <1>0, <3>3, FS_AddElement
    <3> QED
      BY <1>0, <2>1, <2>4, <3>4, <3>5
  <2> QED
    BY <2>2, <2>3, <2>4
<1>3. ASSUME NEW s \in Sched, IncThreadsReady(s)
      PROVE  threads_ready'[c] = Cardinality(CountedSet(c)') - Cardinality(TwiceSet(c)')
  <2> DEFINE h == Head(slists[s])
             k == kwtOf(s)
  <2>1. /\ h \in CL /\ k \in Worker
        /\ threads_ready' = [threads_ready EXCEPT ![h] = @ + 1]
        /\ \A w \in Worker : w # k \/ c # h => Same(w, c)
    BY <1>3, IncMoves
  <2>2. CASE c # h
    BY <1>0, <2>1, <2>2, SameSets
  <2>3. CASE c = h
    <3>1. PICK v \in Worker : v = k
      BY <2>1
    <3>2. /\ ~Counted(v, c) /\ Counted(v, c)'
          /\ ~CountedTwice(v, c) /\ ~CountedTwice(v, c)'
          /\ \A w \in Worker : w # v => Same(w, c)
      BY <1>3, <2>1, <2>3, <3>1, IncMoves
    <3>3. CountedSet(c)' = CountedSet(c) \cup {v} /\ v \notin CountedSet(c)
      BY <3>2 DEF CountedSet, Same
    <3>4. TwiceSet(c)' = TwiceSet(c)
      BY <3>2 DEF TwiceSet, Same
    <3>5. Cardinality(CountedSet(c)') = Cardinality(CountedSet(c)) + 1
      BY <1>0, <3>3, FS_AddElement
    <3> QED
      BY <1>0, <2>1, <2>3, <3>4, <3>5
  <2> QED
    BY <2>2, <2>3
<1>4. ASSUME NEW s \in Sched, SchedStep(s), ~DecThreadsReady(s), ~IncThreadsReady(s)
      PROVE  UNCHANGED threads_ready /\ \A w \in Worker : Same(w, c)
  <2>1. UNCHANGED threads_ready
    BY <1>4, OneSchedulerWalk DEF IInv
  <2>2. ASSUME NEW w \in Worker PROVE Same(w, c)
    BY <1>4, SameOfClaim, SameOfOther, SameOfHolder
  <2> QED
    BY <2>1, <2>2
<1>5. ASSUME NEW v \in Worker, WorkerStep(v)
      PROVE  UNCHANGED threads_ready /\ \A w \in Worker : Same(w, c)
  BY <1>5, SameOfWorkerStep, OneWorkerWalk DEF IInv
<1>6. CASE UNCHANGED vars
  <2>1. UNCHANGED threads_ready /\ \A w \in Worker : Same(w, c)
    BY <1>6 DEF vars, kwtVars, kclVars, schedVars, workerVars, Same, Counted, CountedTwice,
                Lists, ListsLeft, kwtOf
  <2> QED
    BY <1>1, <2>1
<1> QED
  BY <1>1, <1>2, <1>3, <1>4, <1>5, <1>6 DEF Next

\* At the start every worker of a list counts in it once
LEMMA InitReadyAccounting == Init => ReadyAccounting
<1> SUFFICES ASSUME Init, NEW c \in CL
             PROVE  threads_ready[c] = Cardinality(CountedSet(c)) - Cardinality(TwiceSet(c))
  BY DEF ReadyAccounting, CountedSet, TwiceSet
<1>1. /\ \A w \in Worker : mutex[w] = None /\ wpc[w] \notin ExitPC
      /\ wt_ready_queue[c] = {w \in Worker : c \in Lists(w)}
      /\ threads_ready[c] = Cardinality(wt_ready_queue[c])
  BY DEF Init, ExitPC
<1>2. CountedSet(c) = wt_ready_queue[c]
  BY <1>1 DEF CountedSet, Counted
<1>3. TwiceSet(c) = {}
  BY <1>1 DEF TwiceSet, CountedTwice
<1>4. Cardinality(CountedSet(c)) \in Nat /\ Cardinality(TwiceSet(c)) = 0
  BY <1>3, SetsFinite, FS_EmptySet
<1> QED
  BY <1>1, <1>2, <1>4

\* threads_ready counts the workers a dequeue could lock, corrected by the counts
\* in flight: no decrement of a dequeue and no increment of an execute is lost or
\* done twice, except the second decrement of a worker that exits while queued.
THEOREM CountsKept == Spec => []ReadyAccounting
<1>1. IInv /\ ReadyInv /\ ReadyAccounting /\ [Next]_vars => ReadyAccounting'
  BY StepReadyAccounting
<1> QED
  BY <1>1, InitReadyAccounting, Invariance, ReadyInvariance, PTL DEF Spec
================================================================================
