------------------------------ MODULE UmsDispatch ------------------------------
(****************************************************************************)
(* The dispatch protocol of the UMS kernel module: what the ioctl requests   *)
(* DEQUEUECOMPLLIST, EXECUTEUMSTHREAD, UMSTHREADTYIELD and WORKERTHREADEXIT   *)
(* (src/lkm/ums_core.c) do to the three kernel structures kworker_thread,     *)
(* kcompletion_list and ksched_thread, driven by scheduler threads that loop  *)
(* as scheduler_proc of the example does, and by worker threads that yield    *)
(* and return when they please.                                               *)
(*                                                                            *)
(* One action is one access to shared memory that another thread can observe. *)
(* A section under kcl->mutex or proc_mutex is one action: no reader sees two *)
(* of the fields it writes.  kwt->mutex, which a scheduler takes in one ioctl *)
(* and releases in another, is explicit.                                      *)
(****************************************************************************)
EXTENDS Integers, Sequences, FiniteSets

CONSTANTS
  Sched,      \* scheduler threads (EnterUmsSchedulingMode)
  Worker,     \* worker threads (ums_create_worker_thread)
  CL,         \* completion lists
  None,       \* the tid -1, and the null task of a pid nobody has
  ListOf,     \* [Sched -> CL]: the completion list each scheduler dequeues
  ClidList,   \* [Worker -> Seq(CL)]: kwt->clid_list once the adds are done
  UserList,   \* [CL -> SUBSET Worker]: the workers completion_list_get finds
  Parked,     \* workers already asleep in CREATEWORKERTHREAD at the start
  MAX_WT,     \* capacity of the array a dequeue fills
  MaxYields   \* bound: how often a worker routine yields at most

ASSUME ThreadAssumption ==
  /\ IsFiniteSet(Worker)
  /\ Sched \cap Worker = {}
  /\ None \notin Sched \cup Worker

ASSUME ListAssumption ==
  /\ ListOf \in [Sched -> CL]
  /\ ClidList \in [Worker -> Seq(CL)]
  /\ \A w \in Worker : \A i, j \in 1..Len(ClidList[w]) :
       ClidList[w][i] = ClidList[w][j] => i = j
  /\ UserList \in [CL -> SUBSET Worker]

ASSUME BoundAssumption ==
  /\ Parked \subseteq Worker
  /\ MAX_WT \in Nat \ {0}
  /\ MaxYields \in Nat

VARIABLES
  \* kworker_thread
  state,          \* kwt->state
  curr_sched_tid, \* kwt->curr_sched_tid
  mutex,          \* owner of kwt->mutex
  nswitches,      \* kwt->nswitches
  clid_list,      \* kwt->clid_list
  \* kcompletion_list
  threads_ready,  \* kcl->threads_ready
  nthreads,       \* kcl->nthreads
  wt_ready_queue, \* kcl->wt_ready_queue, a set of tids
  \* ksched_thread
  wt_running,     \* kst->wt_running while kst->running, else None
  \* task_struct
  task,           \* the state of every thread's task
  \* scheduler threads: control and locals
  spc,            \* where in its loop the scheduler is
  batch,          \* wt_ready_tid[i..]: the dequeued workers still to execute
  cursor,         \* the element of wt_ready_queue the scan stands on
  seen,           \* the elements the scan has been on
  slists,         \* lists left in a list_for_each over clid_list
  \* worker threads: control and locals
  wpc,            \* where in its routine or ioctl the worker is
  waker,          \* proc: the task wake_up_scheduler looked up
  wlists          \* lists left in for_each_dec_kcl_nthreads

kwtVars == <<state, curr_sched_tid, mutex, nswitches, clid_list>>
kclVars == <<threads_ready, nthreads, wt_ready_queue>>
schedVars == <<spc, batch, cursor, seen, slists>>
workerVars == <<wpc, waker, wlists>>
vars == <<kwtVars, kclVars, wt_running, task, schedVars, workerVars>>

WT_IDLE == "WT_IDLE"
WT_RUNNING == "WT_RUNNING"
WT_EXITING == "WT_EXITING"

TASK_RUNNING == "TASK_RUNNING"
TASK_INTERRUPTIBLE == "TASK_INTERRUPTIBLE"

(****************************************************************************)
(* Control points of a scheduler thread.                                      *)
(****************************************************************************)
DequeuePC == {"dequeue", "check", "blocked", "get", "scan", "lock", "dec"}
AwaitPC   == {"settask", "test", "asleep"}              \* wait_worker_thread
ReleasePC == {"idle", "inc", "wakeall", "unlock"}
ExecutePC == {"running", "wake"} \cup AwaitPC \cup ReleasePC
SchedPC   == DequeuePC \cup ExecutePC \cup {"user", "leaving", "exited", "oops"}

(****************************************************************************)
(* Control points of a worker thread.  A worker killed by an oops inside the  *)
(* yield ioctl is at "y_oops", inside the exit ioctl at "x_oops".             *)
(****************************************************************************)
YieldPC == {"y_read", "y_wake", "y_clear", "y_oops"}
ExitPC  == {"x_dec", "x_read", "x_wake", "x_clear", "x_done", "exited", "x_oops"}
WorkerPC == {"park", "sleep", "user"} \cup YieldPC \cup ExitPC

----------------------------------------------------------------------------
(* Linux: tasks, pids and wake-ups, as far as the module uses them.           *)

\* find_get_pid and get_pid_task find the task of a thread that has not ended
SchedAlive(s) == spc[s] \notin {"exited", "oops"}
WorkerAlive(w) == wpc[w] \notin {"exited", "x_oops", "y_oops"}

set_current_state(t, s) == task' = [task EXCEPT ![t] = s]

wake_up_process(t) == task' = [task EXCEPT ![t] = TASK_RUNNING]

\* wake_up_interruptible_all: every scheduler in wait_event on this list
wake_up_interruptible_all(c) ==
  task' = [t \in DOMAIN task |->
             IF t \in Sched /\ ListOf[t] = c /\ spc[t] \in {"check", "blocked"}
             THEN TASK_RUNNING ELSE task[t]]

----------------------------------------------------------------------------
Lists(w) == {clid_list[w][i] : i \in DOMAIN clid_list[w]}

Init ==
  /\ state = [w \in Worker |-> WT_IDLE]
  /\ curr_sched_tid = [w \in Worker |-> None]
  /\ mutex = [w \in Worker |-> None]
  /\ nswitches = [w \in Worker |-> 0]
  /\ clid_list = ClidList
  /\ wt_ready_queue = [c \in CL |-> {w \in Worker : c \in Lists(w)}]
  /\ threads_ready = [c \in CL |-> Cardinality(wt_ready_queue[c])]
  /\ nthreads = [c \in CL |-> Cardinality(wt_ready_queue[c])]
  /\ wt_running = [s \in Sched |-> None]
  /\ task = [t \in Sched \cup Worker |->
               IF t \in Parked THEN TASK_INTERRUPTIBLE ELSE TASK_RUNNING]
  /\ spc = [s \in Sched |-> "dequeue"]
  /\ batch = [s \in Sched |-> <<>>]
  /\ cursor = [s \in Sched |-> None]
  /\ seen = [s \in Sched |-> {}]
  /\ slists = [s \in Sched |-> <<>>]
  /\ wpc = [w \in Worker |-> IF w \in Parked THEN "sleep" ELSE "park"]
  /\ waker = [w \in Worker |-> None]
  /\ wlists = [w \in Worker |-> <<>>]

----------------------------------------------------------------------------
(* DEQUEUECOMPLLIST.                                                          *)

kclOf(s) == ListOf[s]

\* wait_event_interruptible: queue on wt_ready_wq, then test the condition
PrepareToWait(s) ==
  /\ spc[s] = "dequeue"
  /\ set_current_state(s, TASK_INTERRUPTIBLE)
  /\ spc' = [spc EXCEPT ![s] = "check"]
  /\ UNCHANGED <<kwtVars, kclVars, wt_running, batch, cursor, seen, slists, workerVars>>

DequeueReady(s) == threads_ready[kclOf(s)] > 0 \/ nthreads[kclOf(s)] = 0

CheckReady(s) ==
  /\ spc[s] = "check"
  /\ \/ /\ DequeueReady(s)
        /\ set_current_state(s, TASK_RUNNING)
        /\ spc' = [spc EXCEPT ![s] = "get"]
     \/ /\ ~DequeueReady(s)
        /\ spc' = [spc EXCEPT ![s] = "blocked"]
        /\ UNCHANGED task
  /\ UNCHANGED <<kwtVars, kclVars, wt_running, batch, cursor, seen, slists, workerVars>>

DequeueWoken(s) ==
  /\ spc[s] = "blocked" /\ task[s] = TASK_RUNNING
  /\ spc' = [spc EXCEPT ![s] = "dequeue"]
  /\ UNCHANGED <<kwtVars, kclVars, wt_running, task, batch, cursor, seen, slists, workerVars>>

\* Mutant: the counter of ready workers instead of that of remaining workers
NoneReady(s) == threads_ready[kclOf(s)] <= 0

NoThreadsLeft(s) == nthreads[kclOf(s)] = 0

\* get_wt_ready_queue: -1 when no worker is left, and scheduler_proc returns
GetWtReadyQueue(s) ==
  /\ spc[s] = "get"
  /\ spc' = [spc EXCEPT ![s] = IF NoThreadsLeft(s) THEN "leaving" ELSE "scan"]
  /\ UNCHANGED <<kwtVars, kclVars, wt_running, task, batch, cursor, seen, slists, workerVars>>

\* The walk follows kcle->hnode.next: the element it stands on must still exist
CursorLive(s) == cursor[s] = None \/ cursor[s] \in wt_ready_queue[kclOf(s)]

\* The elements still ahead.  Their order, the hash order of the tids, is left open.
Ahead(s) == wt_ready_queue[kclOf(s)] \ seen[s]

\* Mutants: no mutex_trylock; the bound of the array off by one
CanClaimUnlocked(s, w) == Len(batch[s]) < MAX_WT
CanClaimPastEnd(s, w) == Len(batch[s]) <= MAX_WT /\ mutex[w] = None

\* i < MAX_WT, and mutex_trylock(&kwt->mutex) succeeds
CanClaim(s, w) == Len(batch[s]) < MAX_WT /\ mutex[w] = None

\* hash_for_each_rcu moves on to its next element
Advance(s, w) ==
  /\ spc[s] = "scan" /\ CursorLive(s) /\ w \in Ahead(s)
  /\ cursor' = [cursor EXCEPT ![s] = w]
  /\ seen' = [seen EXCEPT ![s] = @ \cup {w}]
  /\ spc' = [spc EXCEPT ![s] = "lock"]
  /\ UNCHANGED <<kwtVars, kclVars, wt_running, task, batch, slists, workerVars>>

ClaimWorker(s, w) ==
  /\ spc[s] = "lock" /\ cursor[s] = w
  /\ CanClaim(s, w)
  /\ mutex' = [mutex EXCEPT ![w] = s]
  /\ batch' = [batch EXCEPT ![s] = Append(@, w)]
  /\ slists' = [slists EXCEPT ![s] = clid_list[w]]
  /\ spc' = [spc EXCEPT ![s] = "dec"]
  /\ UNCHANGED <<state, curr_sched_tid, nswitches, clid_list, kclVars, wt_running, task,
                 cursor, seen, workerVars>>

PassWorker(s, w) ==
  /\ spc[s] = "lock" /\ cursor[s] = w
  /\ ~CanClaim(s, w)
  /\ spc' = [spc EXCEPT ![s] = "scan"]
  /\ UNCHANGED <<kwtVars, kclVars, wt_running, task, batch, cursor, seen, slists, workerVars>>

\* The element was freed before its tid was read.  The tid is still there, and
\* the walk goes on as above, or get_kworker_thread finds nobody for what is
\* there instead, and the trylock of its -1 faults.
TidFreed(s) ==
  /\ spc[s] = "lock" /\ ~CursorLive(s) /\ Len(batch[s]) < MAX_WT
  /\ spc' = [spc EXCEPT ![s] = "oops"]
  /\ UNCHANGED <<kwtVars, kclVars, wt_running, task, batch, cursor, seen, slists, workerVars>>

\* Mutant: only the first list of the worker is told
DecThreadsReadyOnce(s) ==
  /\ spc[s] = "dec" /\ slists[s] # <<>>
  /\ threads_ready' = [threads_ready EXCEPT ![Head(slists[s])] = @ - 1]
  /\ slists' = [slists EXCEPT ![s] = <<>>]
  /\ spc' = [spc EXCEPT ![s] = "scan"]
  /\ UNCHANGED <<kwtVars, nthreads, wt_ready_queue, wt_running, task, batch, cursor, seen, workerVars>>

\* for_each_dec_kcl_threads_ready, one list at a time
DecThreadsReady(s) ==
  /\ spc[s] = "dec" /\ slists[s] # <<>>
  /\ threads_ready' = [threads_ready EXCEPT ![Head(slists[s])] = @ - 1]
  /\ slists' = [slists EXCEPT ![s] = Tail(@)]
  /\ spc' = [spc EXCEPT ![s] = IF Len(slists[s]) = 1 THEN "scan" ELSE "dec"]
  /\ UNCHANGED <<kwtVars, nthreads, wt_ready_queue, wt_running, task, batch, cursor, seen, workerVars>>

\* The element was deleted and freed under the cursor.  Its next pointer reads
\* as null, and the rest of the bucket is missed, or it is garbage, and faults.
ScanFreed(s) ==
  /\ spc[s] = "scan" /\ ~CursorLive(s)
  /\ \/ /\ \E missed \in SUBSET Ahead(s) : seen' = [seen EXCEPT ![s] = @ \cup missed]
        /\ cursor' = [cursor EXCEPT ![s] = None]
        /\ UNCHANGED spc
     \/ /\ spc' = [spc EXCEPT ![s] = "oops"]
        /\ UNCHANGED <<cursor, seen>>
  /\ UNCHANGED <<kwtVars, kclVars, wt_running, task, batch, slists, workerVars>>

\* n = 0 waits again, n > 0 is copied to the user
FinishScan(s) ==
  /\ spc[s] = "scan" /\ CursorLive(s) /\ Ahead(s) = {}
  /\ cursor' = [cursor EXCEPT ![s] = None]
  /\ seen' = [seen EXCEPT ![s] = {}]
  /\ spc' = [spc EXCEPT ![s] = IF batch[s] = <<>> THEN "dequeue" ELSE "user"]
  /\ UNCHANGED <<kwtVars, kclVars, wt_running, task, batch, slists, workerVars>>

----------------------------------------------------------------------------
(* EXECUTEUMSTHREAD of the first worker of the batch.                         *)

kwtOf(s) == Head(batch[s])

\* The loop of scheduler_proc over the batch, then the next dequeue
NextInBatch(s) ==
  /\ batch' = [batch EXCEPT ![s] = Tail(@)]
  /\ spc' = [spc EXCEPT ![s] = IF Len(batch[s]) = 1 THEN "dequeue" ELSE "user"]

\* completion_list_get returns -1: scheduler_proc does not execute the worker
SkipUnknown(s) ==
  /\ spc[s] = "user" /\ batch[s] # <<>>
  /\ kwtOf(s) \notin UserList[kclOf(s)]
  /\ NextInBatch(s)
  /\ UNCHANGED <<kwtVars, kclVars, wt_running, task, cursor, seen, slists, workerVars>>

SetKstRunning(s) ==
  /\ spc[s] = "user" /\ batch[s] # <<>>
  /\ kwtOf(s) \in UserList[kclOf(s)]
  /\ wt_running' = [wt_running EXCEPT ![s] = kwtOf(s)]
  /\ spc' = [spc EXCEPT ![s] = "running"]
  /\ UNCHANGED <<kwtVars, kclVars, task, batch, cursor, seen, slists, workerVars>>

\* Mutant: the worker is not told who dispatches it
SetStateRunning(s) ==
  /\ spc[s] = "running" /\ batch[s] # <<>>
  /\ state' = [state EXCEPT ![kwtOf(s)] = WT_RUNNING]
  /\ spc' = [spc EXCEPT ![s] = "wake"]
  /\ UNCHANGED <<curr_sched_tid, mutex, nswitches, clid_list, kclVars, wt_running, task,
                 batch, cursor, seen, slists, workerVars>>

SetKwtRunning(s) ==
  /\ spc[s] = "running" /\ batch[s] # <<>>
  /\ state' = [state EXCEPT ![kwtOf(s)] = WT_RUNNING]
  /\ curr_sched_tid' = [curr_sched_tid EXCEPT ![kwtOf(s)] = s]
  /\ spc' = [spc EXCEPT ![s] = "wake"]
  /\ UNCHANGED <<mutex, nswitches, clid_list, kclVars, wt_running, task,
                 batch, cursor, seen, slists, workerVars>>

\* wake_up_process of the null task faults in the scheduler's ioctl
WakeUpWorker(s) ==
  /\ spc[s] = "wake" /\ batch[s] # <<>>
  /\ \/ /\ WorkerAlive(kwtOf(s))
        /\ wake_up_process(kwtOf(s))
        /\ spc' = [spc EXCEPT ![s] = "settask"]
     \/ /\ ~WorkerAlive(kwtOf(s))
        /\ spc' = [spc EXCEPT ![s] = "oops"]
        /\ UNCHANGED task
  /\ UNCHANGED <<kwtVars, kclVars, wt_running, batch, cursor, seen, slists, workerVars>>

SetTaskState(s) ==
  /\ spc[s] = "settask"
  /\ set_current_state(s, TASK_INTERRUPTIBLE)
  /\ spc' = [spc EXCEPT ![s] = "test"]
  /\ UNCHANGED <<kwtVars, kclVars, wt_running, batch, cursor, seen, slists, workerVars>>

\* while (kwt->state == WT_RUNNING) schedule()
TestWorker(s) ==
  /\ spc[s] = "test" /\ batch[s] # <<>>
  /\ \/ /\ state[kwtOf(s)] = WT_RUNNING
        /\ spc' = [spc EXCEPT ![s] = "asleep"]
        /\ UNCHANGED task
     \/ /\ state[kwtOf(s)] # WT_RUNNING
        /\ set_current_state(s, TASK_RUNNING)
        /\ spc' = [spc EXCEPT ![s] = "idle"]
  /\ UNCHANGED <<kwtVars, kclVars, wt_running, batch, cursor, seen, slists, workerVars>>

\* Mutant: "if" instead of "while" around schedule()
ExecuteWokenOnce(s) ==
  /\ spc[s] = "asleep" /\ task[s] = TASK_RUNNING
  /\ spc' = [spc EXCEPT ![s] = "idle"]
  /\ UNCHANGED <<kwtVars, kclVars, wt_running, task, batch, cursor, seen, slists, workerVars>>

ExecuteWoken(s) ==
  /\ spc[s] = "asleep" /\ task[s] = TASK_RUNNING
  /\ spc' = [spc EXCEPT ![s] = "settask"]
  /\ UNCHANGED <<kwtVars, kclVars, wt_running, task, batch, cursor, seen, slists, workerVars>>

\* Mutant: an exiting worker goes back to its lists too
GaveUpCpuAnyhow(w) == state[w] # WT_RUNNING

GaveUpCpu(w) == state[w] = WT_IDLE

\* set_kst_in_idle_state, and whether the worker goes back to its lists
SetKstIdle(s) ==
  /\ spc[s] = "idle" /\ batch[s] # <<>>
  /\ wt_running' = [wt_running EXCEPT ![s] = None]
  /\ slists' = [slists EXCEPT ![s] = clid_list[kwtOf(s)]]
  /\ spc' = [spc EXCEPT ![s] = IF GaveUpCpu(kwtOf(s)) THEN "inc" ELSE "wakeall"]
  /\ UNCHANGED <<kwtVars, kclVars, task, batch, cursor, seen, workerVars>>

\* for_each_inc_kcl_threads_ready
IncThreadsReady(s) ==
  /\ spc[s] = "inc" /\ slists[s] # <<>> /\ batch[s] # <<>>
  /\ threads_ready' = [threads_ready EXCEPT ![Head(slists[s])] = @ + 1]
  /\ \/ /\ Len(slists[s]) > 1
        /\ slists' = [slists EXCEPT ![s] = Tail(@)]
        /\ UNCHANGED spc
     \/ /\ Len(slists[s]) = 1
        /\ slists' = [slists EXCEPT ![s] = clid_list[kwtOf(s)]]
        /\ spc' = [spc EXCEPT ![s] = "wakeall"]
  /\ UNCHANGED <<kwtVars, nthreads, wt_ready_queue, wt_running, task, batch, cursor, seen, workerVars>>

\* Mutant: nobody on the wait queues is woken
WakeUpNobody(s) ==
  /\ spc[s] = "wakeall" /\ slists[s] # <<>>
  /\ slists' = [slists EXCEPT ![s] = Tail(@)]
  /\ spc' = [spc EXCEPT ![s] = IF Len(slists[s]) = 1 THEN "unlock" ELSE "wakeall"]
  /\ UNCHANGED <<kwtVars, kclVars, wt_running, task, batch, cursor, seen, workerVars>>

\* wake_up_schedulers
WakeUpSchedulers(s) ==
  /\ spc[s] = "wakeall" /\ slists[s] # <<>>
  /\ wake_up_interruptible_all(Head(slists[s]))
  /\ slists' = [slists EXCEPT ![s] = Tail(@)]
  /\ spc' = [spc EXCEPT ![s] = IF Len(slists[s]) = 1 THEN "unlock" ELSE "wakeall"]
  /\ UNCHANGED <<kwtVars, kclVars, wt_running, batch, cursor, seen, workerVars>>

\* Mutant: EXECUTEUMSTHREAD returns without mutex_unlock
UnlockForgotten(s) ==
  /\ spc[s] = "unlock" /\ batch[s] # <<>>
  /\ NextInBatch(s)
  /\ UNCHANGED <<kwtVars, kclVars, wt_running, task, cursor, seen, slists, workerVars>>

UnlockWorker(s) ==
  /\ spc[s] = "unlock" /\ batch[s] # <<>>
  /\ mutex' = [mutex EXCEPT ![kwtOf(s)] = None]
  /\ NextInBatch(s)
  /\ UNCHANGED <<state, curr_sched_tid, nswitches, clid_list, kclVars, wt_running, task,
                 cursor, seen, slists, workerVars>>

\* SCHEDTHREADDESTROY, and the thread ends
Leave(s) ==
  /\ spc[s] = "leaving"
  /\ spc' = [spc EXCEPT ![s] = "exited"]
  /\ UNCHANGED <<kwtVars, kclVars, wt_running, task, batch, cursor, seen, slists, workerVars>>

----------------------------------------------------------------------------
(* The worker thread: its routine, UMSTHREADTYIELD and WORKERTHREADEXIT.      *)

\* The end of CREATEWORKERTHREAD and of UMSTHREADTYIELD: no condition is tested
Park(w) ==
  /\ wpc[w] = "park"
  /\ set_current_state(w, TASK_INTERRUPTIBLE)
  /\ wpc' = [wpc EXCEPT ![w] = "sleep"]
  /\ UNCHANGED <<kwtVars, kclVars, wt_running, schedVars, waker, wlists>>

Resume(w) ==
  /\ wpc[w] = "sleep" /\ task[w] = TASK_RUNNING
  /\ wpc' = [wpc EXCEPT ![w] = "user"]
  /\ UNCHANGED <<kwtVars, kclVars, wt_running, task, schedVars, waker, wlists>>

SetKwtIdle(w) ==
  /\ wpc[w] = "user" /\ nswitches[w] < MaxYields
  /\ nswitches' = [nswitches EXCEPT ![w] = @ + 1]
  /\ state' = [state EXCEPT ![w] = WT_IDLE]
  /\ wpc' = [wpc EXCEPT ![w] = "y_read"]
  /\ UNCHANGED <<curr_sched_tid, mutex, clid_list, kclVars, wt_running, task, schedVars, waker, wlists>>

\* wake_up_scheduler: look up the task, wake it, forget it
LookUpScheduler(w, from, to) ==
  /\ wpc[w] = from
  /\ waker' = [waker EXCEPT ![w] =
                 IF curr_sched_tid[w] \in Sched /\ SchedAlive(curr_sched_tid[w])
                 THEN curr_sched_tid[w] ELSE None]
  /\ wpc' = [wpc EXCEPT ![w] = to]
  /\ UNCHANGED <<kwtVars, kclVars, wt_running, task, schedVars, wlists>>

WakeUpScheduler(w, from, to, oops) ==
  /\ wpc[w] = from
  /\ \/ /\ waker[w] # None
        /\ wake_up_process(waker[w])
        /\ wpc' = [wpc EXCEPT ![w] = to]
     \/ /\ waker[w] = None
        /\ wpc' = [wpc EXCEPT ![w] = oops]
        /\ UNCHANGED task
  /\ UNCHANGED <<kwtVars, kclVars, wt_running, schedVars, waker, wlists>>

ClearScheduler(w, from, to) ==
  /\ wpc[w] = from
  /\ curr_sched_tid' = [curr_sched_tid EXCEPT ![w] = None]
  /\ waker' = [waker EXCEPT ![w] = None]
  /\ wpc' = [wpc EXCEPT ![w] = to]
  /\ UNCHANGED <<state, mutex, nswitches, clid_list, kclVars, wt_running, task, schedVars, wlists>>

Yield(w) ==
  \/ SetKwtIdle(w)
  \/ LookUpScheduler(w, "y_read", "y_wake")
  \/ WakeUpScheduler(w, "y_wake", "y_clear", "y_oops")
  \/ ClearScheduler(w, "y_clear", "park")

SetKwtExiting(w) ==
  /\ wpc[w] = "user"
  /\ state' = [state EXCEPT ![w] = WT_EXITING]
  /\ wlists' = [wlists EXCEPT ![w] = clid_list[w]]
  /\ wpc' = [wpc EXCEPT ![w] = "x_dec"]
  /\ UNCHANGED <<curr_sched_tid, mutex, nswitches, clid_list, kclVars, wt_running, task, schedVars, waker>>

\* for_each_dec_kcl_nthreads: the worker leaves the list, its element is freed
DecNthreads(w) ==
  /\ wpc[w] = "x_dec" /\ wlists[w] # <<>>
  /\ wt_ready_queue' = [wt_ready_queue EXCEPT ![Head(wlists[w])] = @ \ {w}]
  /\ nthreads' = [nthreads EXCEPT ![Head(wlists[w])] = @ - 1]
  /\ wlists' = [wlists EXCEPT ![w] = Tail(@)]
  /\ wpc' = [wpc EXCEPT ![w] = IF Len(wlists[w]) = 1 THEN "x_read" ELSE "x_dec"]
  /\ UNCHANGED <<kwtVars, threads_ready, wt_running, task, schedVars, waker>>

\* ums_create_worker_thread_aux returns and the thread ends
EndWorker(w) ==
  /\ wpc[w] = "x_done"
  /\ wpc' = [wpc EXCEPT ![w] = "exited"]
  /\ UNCHANGED <<kwtVars, kclVars, wt_running, task, schedVars, waker, wlists>>

\* Mutant: the exiting worker does not wake its scheduler
ExitSilently(w) ==
  \/ SetKwtExiting(w)
  \/ DecNthreads(w)
  \/ ClearScheduler(w, "x_read", "x_done")
  \/ EndWorker(w)

Exit(w) ==
  \/ SetKwtExiting(w)
  \/ DecNthreads(w)
  \/ LookUpScheduler(w, "x_read", "x_wake")
  \/ WakeUpScheduler(w, "x_wake", "x_clear", "x_oops")
  \/ ClearScheduler(w, "x_clear", "x_done")
  \/ EndWorker(w)

----------------------------------------------------------------------------
Dequeue(s) ==
  \/ PrepareToWait(s) \/ CheckReady(s) \/ DequeueWoken(s) \/ GetWtReadyQueue(s)
  \/ \E w \in Worker : Advance(s, w) \/ ClaimWorker(s, w) \/ PassWorker(s, w)
  \/ TidFreed(s) \/ DecThreadsReady(s) \/ ScanFreed(s) \/ FinishScan(s)

Execute(s) ==
  \/ SkipUnknown(s) \/ SetKstRunning(s) \/ SetKwtRunning(s) \/ WakeUpWorker(s)
  \/ SetTaskState(s) \/ TestWorker(s) \/ ExecuteWoken(s)
  \/ SetKstIdle(s) \/ IncThreadsReady(s) \/ WakeUpSchedulers(s) \/ UnlockWorker(s)

SchedStep(s) == Dequeue(s) \/ Execute(s) \/ Leave(s)

WorkerStep(w) == Park(w) \/ Resume(w) \/ Yield(w) \/ Exit(w)

Next == (\E s \in Sched : SchedStep(s)) \/ (\E w \in Worker : WorkerStep(w))

Spec == Init /\ [][Next]_vars

\* Every thread that can take a step is given the processor at last
FairSpec ==
  /\ Spec
  /\ \A s \in Sched : WF_vars(SchedStep(s))
  /\ \A w \in Worker : WF_vars(WorkerStep(w))

----------------------------------------------------------------------------
TypeOK ==
  /\ state \in [Worker -> {WT_IDLE, WT_RUNNING, WT_EXITING}]
  /\ curr_sched_tid \in [Worker -> Sched \cup {None}]
  /\ mutex \in [Worker -> Sched \cup {None}]
  /\ nswitches \in [Worker -> 0..MaxYields]
  /\ clid_list \in [Worker -> Seq(CL)]
  /\ threads_ready \in [CL -> Int]
  /\ nthreads \in [CL -> Int]
  /\ wt_ready_queue \in [CL -> SUBSET Worker]
  /\ wt_running \in [Sched -> Worker \cup {None}]
  /\ task \in [Sched \cup Worker -> {TASK_RUNNING, TASK_INTERRUPTIBLE}]
  /\ spc \in [Sched -> SchedPC]
  /\ batch \in [Sched -> Seq(Worker)]
  /\ \A s \in Sched : Len(batch[s]) <= MAX_WT
  /\ cursor \in [Sched -> Worker \cup {None}]
  /\ seen \in [Sched -> SUBSET Worker]
  /\ slists \in [Sched -> Seq(CL)]
  /\ wpc \in [Worker -> WorkerPC]
  /\ waker \in [Worker -> Sched \cup {None}]
  /\ wlists \in [Worker -> Seq(CL)]

----------------------------------------------------------------------------
(* Safety.                                                                    *)

\* Scheduler s is past the wake-up of worker w and waits for it
Awaits(s, w) == spc[s] \in AwaitPC /\ batch[s] # <<>> /\ kwtOf(s) = w

\* A worker executes its routine only between the EXECUTEUMSTHREAD that woke it
\* and its own next yield or exit: the scheduler that holds kwt->mutex waits for
\* it in wait_worker_thread and names it in its info file.
RunsOnlyWhenDispatched ==
  \A w \in Worker : wpc[w] = "user" =>
    \E s \in Sched : /\ mutex[w] = s /\ Awaits(s, w)
                     /\ state[w] = WT_RUNNING /\ wt_running[s] = w

\* DEQUEUECOMPLLIST answers -1, and scheduler_proc returns, only when every
\* worker of the list is past the end of its routine for good.
LeavesAfterAllDone ==
  \A s \in Sched : spc[s] \in {"leaving", "exited"} =>
    \A w \in Worker : kclOf(s) \in Lists(w) => wpc[w] \in ExitPC

ListsLeft(s) == {slists[s][i] : i \in DOMAIN slists[s]}

\* w counts as ready in c: nobody holds it, or its holder has still to take the
\* count out, or has already put it back
Counted(w, c) ==
  /\ c \in Lists(w)
  /\ \/ mutex[w] = None /\ wpc[w] \notin ExitPC
     \/ \E s \in Sched :
          /\ mutex[w] = s
          /\ \/ /\ spc[s] = "dec" /\ cursor[s] = w /\ c \in ListsLeft(s)
                /\ wpc[w] \notin ExitPC
             \/ /\ batch[s] # <<>> /\ kwtOf(s) = w
                /\ \/ spc[s] = "inc" /\ c \notin ListsLeft(s)
                   \/ spc[s] \in {"wakeall", "unlock"} /\ state[w] = WT_IDLE

\* w was claimed again between its exit and the removal of its list element, and
\* the count its exit never put back has been taken out a second time
CountedTwice(w, c) ==
  /\ c \in Lists(w) /\ wpc[w] \in ExitPC
  /\ \E s \in Sched :
       /\ mutex[w] = s
       /\ \/ state[w] = WT_RUNNING
          \/ ~(spc[s] \in AwaitPC \cup ReleasePC /\ batch[s] # <<>> /\ kwtOf(s) = w)
       /\ ~(spc[s] = "dec" /\ cursor[s] = w /\ c \in ListsLeft(s))

\* threads_ready is the number of workers a dequeue could lock, corrected by the
\* decrements and increments in flight and by the double decrements of exiting
\* workers: no count is lost in any interleaving of dequeues, yields and exits.
ReadyAccounting ==
  \A c \in CL : threads_ready[c] = Cardinality({w \in Worker : Counted(w, c)})
                                  - Cardinality({w \in Worker : CountedTwice(w, c)})

\* kwt->mutex is released only by its holder, at the end of EXECUTEUMSTHREAD,
\* when the worker has left its routine.
ReleasedAfterRun ==
  [][\A w \in Worker : mutex[w] # None /\ mutex'[w] # mutex[w] =>
       /\ mutex'[w] = None /\ wpc[w] # "user"
       /\ spc[mutex[w]] = "unlock" /\ kwtOf(mutex[w]) = w]_vars

(* The dispatcher as UmsScheduling sees it.                                   *)

abstractStatus ==
  [w \in Worker |-> IF wpc[w] = "user" THEN "running"
                   ELSE IF wpc[w] \in ExitPC THEN "done" ELSE "ready"]

abstractCpu ==
  [s \in Sched |-> IF batch[s] # <<>> /\ wpc[kwtOf(s)] = "user"
                   THEN kwtOf(s) ELSE None]

Promise == INSTANCE UmsScheduling WITH
  Serves <- [s \in Sched |-> {w \in Worker : \E i \in 1..Len(ClidList[w]) :
                                                ClidList[w][i] = ListOf[s]}],
  status <- abstractStatus,
  cpu <- abstractCpu,
  closed <- {s \in Sched : spc[s] \in {"leaving", "exited"}}

\* Every behaviour of the dispatch protocol is a user mode schedule: schedulers
\* run one worker at a time, no worker runs on two of them or after its end.
ImplementsScheduling == Promise!Spec

----------------------------------------------------------------------------
(* What the documentation says of the protocol.                               *)

\* "returns an array of identifiers of worker threads that are ready"
DequeuedAreReady ==
  \A s \in Sched : spc[s] = "user" =>
    \A i \in DOMAIN batch[s] : state[batch[s][i]] = WT_IDLE

\* "Number of the current ready threads in the completion list": while no scheduler
\* is between the trylock of a worker and the decrements for it, or between its
\* increments and the unlock, threads_ready counts the workers of the queue that
\* a dequeue could lock.  So it is never negative either.
ThreadsReadyIsCount ==
  (\A s \in Sched : spc[s] \notin {"dec", "inc", "wakeall", "unlock"}) =>
    \A c \in CL : threads_ready[c] = Cardinality({w \in wt_ready_queue[c] : mutex[w] = None})

\* A worker is locked only by a scheduler that is alive and still has to execute it
\* or to finish its EXECUTEUMSTHREAD: no dequeued worker stays locked behind, out
\* of the reach of every scheduler.  "For each thread returned the user must
\* retrieve the worker_thread structure from the completion_list via
\* completion_list_get(), and then call ExecuteUmsThread" (doc/report.md).
LockedIsExecuted ==
  \A w \in Worker : mutex[w] # None =>
    /\ spc[mutex[w]] \notin {"leaving", "exited", "oops"}
    /\ \E i \in DOMAIN batch[mutex[w]] : batch[mutex[w]][i] = w

\* "set the states of both to running via macros and wakes up the worker_thread"
DispatchedIsAwake ==
  \A s \in Sched, w \in Worker : Awaits(s, w) /\ state[w] = WT_RUNNING =>
    ~(wpc[w] = "sleep" /\ task[w] = TASK_INTERRUPTIBLE)

\* "The tid of the current scheduler thread that put to execution the worker thread"
CurrSchedIsHolder ==
  \A w \in Worker : wpc[w] = "user" => curr_sched_tid[w] = mutex[w]

\* The walk of get_wt_ready_queue never stands on a freed element
ScanIsSafe == \A s \in Sched : spc[s] \in {"scan", "lock"} => CursorLive(s)

\* A thread that wakes another one up finds its task: no ioctl faults on a thread
\* that has ended or on the tid -1
NoOops ==
  /\ \A s \in Sched : spc[s] # "oops"
  /\ \A w \in Worker : wpc[w] \notin {"y_oops", "x_oops"}

----------------------------------------------------------------------------
(* Liveness.                                                                  *)

\* "If nthreads is zero the then the number of threads copied is set to -1": a
\* scheduler that waits in the dequeue learns that no worker is left
EmptyListNoticed ==
  \A s \in Sched : spc[s] = "blocked" /\ nthreads[kclOf(s)] = 0 ~> spc[s] = "leaving"

\* Every scheduler thread returns, as the example needs for its pthread_join
SchedulersReturn == <>(\A s \in Sched : spc[s] = "exited")

\* Every worker thread returns
WorkersReturn == <>(\A w \in Worker : wpc[w] = "exited")

================================================================================
