# A TLA+ model of the UMS kernel module

The repository implements User Mode Scheduling (UMS) for Linux 5.4: a kernel module
(`src/lkm`), a user library on top of its `ioctl` requests (`src/lib`) and an example program
(`src/example`). Application threads called *schedulers* dequeue *worker* threads from *completion
lists* and let them run, one at a time, until the worker yields or returns. This directory models
the protocol behind that, checks it with TLC and proves its safety with TLAPS.

Paths below are relative to the root of the repository.

## 1. Inventory

| Part | State | Operations | Interacts with |
|---|---|---|---|
| dispatch protocol (`lkm/ums_core.c`) | none of its own | `DEQUEUECOMPLLIST`, `EXECUTEUMSTHREAD`, `UMSTHREADTYIELD`, `WORKERTHREADEXIT`, `SCHEDTHREADDESTROY` | all kernel objects; puts tasks to sleep and wakes them |
| `kcompletion_list` (`lkm/kcompletion_list.[ch]`) | identifier, `threads_ready`, `nthreads`, a hash table of elements (tids), a wait queue, a mutex | create, look up, add a worker, walk and lock the ready workers, count up and down, remove an element, destroy | walked by schedulers, emptied by exiting workers |
| `kworker_thread` (`lkm/kworker_thread.[ch]`) | state, `curr_sched_tid`, times, number of switches, the list of its completion lists, `mutex`, `proc_mutex` | create, look up, add a list, set running / idle / exiting, wake up the scheduler, copy, destroy | `mutex` is taken in one request and released in another |
| `ksched_thread` (`lkm/ksched_thread.[ch]`) | running, the running worker, times | create, look up, set running / idle, wait for and wake up a worker, copy, destroy | read by `/proc` |
| `/proc/ums` (`lkm/ums_proc.[ch]`, `ums_proc_p.h`) | a tree of process, scheduler and worker entries with identifiers | create the entries, read them, remove them | reads copies of the two thread objects |
| module and device (`ums_init`, `ums_exit`) | the device, the tables | register, destroy everything | no lock against running requests; not modelled |
| library (`lib/ums.c`) | the device's descriptor; a stack frame per new worker | one function per request; the start function of a worker | pthread mutex and condition variable between creator and worker |
| library lists (`lib/completion_list.c`, `lib/worker_thread.c`) | an array of `MAX_WT` pointers; a tid | init, add, get | filled by the application, searched by schedulers |
| example (`example/main.c`) | lists, workers, one scheduler thread per processor | set up, scheduler loop, join, tear down | everything |

What is hard here is concurrency: threads on several processors, or switched at each `schedule()`,
that sleep and wake each other by hand (`set_current_state`, `wake_up_process`), counters and
elements under different mutexes or none, and a mutex held from one system call to a later one. The
report itself says that the project "may be susceptible to race conditions". `PROJECT.json` lists
the hazards, each at its line.

What makes each part correct:

* dispatch: a worker runs only for one scheduler, which waits for it; no dequeued worker is lost;
  no wake-up is lost; schedulers leave exactly when their list has no worker left.
* completion lists: the two counters say how many workers can be locked and how many are left; a
  walk never touches a freed element; identifiers are unique; the array of the library and the
  queue of the kernel agree.
* workers: created before they are used; their mutex is freed only by its holder; `curr_sched_tid`
  names that holder while the worker runs.
* `/proc`: every scheduler and every worker it lists gets an entry of its own; a reader finds the
  entry its file stands for, or nothing; an entry outlives the reads of it; removal ends.
* the whole application: nothing is freed that a thread still uses; `main` returns.

## 2. Modules

| Module | Models | State and actions |
|---|---|---|
| `UmsScheduling` | what UMS promises, without a kernel | `status` of workers, `cpu` of schedulers, `closed`; `Dispatch`, `Stop`, `Close` |
| `UmsDispatch` | the dispatch protocol on any number of processors | the fields of the three kernel objects under their names in the code, `task` for the task states, and for every thread where it stands in the request it is in |
| `UmsUniprocessor` | the same on one processor of a kernel with voluntary preemption | the actions of `UmsDispatch`, each guarded by `HasProcessor` |
| `UmsSetup` | creation of lists and workers, and the adds, before schedulers run | the library's structures, the frame shared with a new thread, the tables and counters of the kernel |
| `UmsLifecycle` | `main` around the dispatch: the affinity mask and the list each scheduler gets, the joins, `COMPLLISTDESTROY` and `WORKERTHREADDESTROY` | `apc`, `ai`: where `main` is; `freed`; the rest as in `UmsDispatch` |
| `UmsProc` | the tree `/proc/ums` of several processes: `UMSINIT`, `ENTERUMSSCHEDMODE`, the two read handlers, `UMSDESTROY` | the hash tables, as buckets with the element added last first, identifiers and their mutex, the files that can be opened, and where each main thread, scheduler and reader stands |
| `UmsDispatchProofs`, `UmsReadyProofs` | theorems about `UmsDispatch`: the promises and the refinement; the accounting of `threads_ready` | |
| `UmsUniprocessorProofs`, `UmsLifecycleProofs`, `UmsProcProofs` | theorems about the module of that name | |
| `UmsProcTreeProofs` | theorems about `UmsProc`: what the lists hold, and what readers find in them | |
| `UmsSetupProofs`, `UmsSetupCountProofs` | theorems about `UmsSetup`: the meetings of creator and thread; what has been built at the end | |
| `MCUmsDispatch`, `MCUmsLists`, `MCUmsUniprocessor`, `MCUmsSetup`, `MCUmsProc`, `MCUmsLifecycle` | instances for TLC | |

`UmsUniprocessor` extends `UmsDispatch` and `UmsLifecycle` extends `UmsUniprocessor`: each adds guards
or a thread to the actions of the one below and restates none. In `UmsLifecycle` the mask decides: one
processor gives the sections of `UmsUniprocessor`, more give the steps of `UmsDispatch`. `UmsDispatch`
instantiates `UmsScheduling` with a refinement mapping (`Promise`). What `SetupComplete` says of the end
of `UmsSetup` is what `Init` of `UmsDispatch` starts from. `UmsProc` stands beside them: it shares the
tables of threads and the queue of ready workers with them, and models of the dispatch only that a
worker's exit takes its element away (`WorkerExits`) and that a scheduler leaves when the queue is empty
(`LeaveMode`).

### Correspondence

One action is one access to memory that another thread can observe. A section under `kcl->mutex`,
`proc_mutex` or a table's mutex is one action. `kwt->mutex`, held across requests, is the variable
`mutex`. In `UmsDispatch`:

* `DEQUEUECOMPLLIST`: `PrepareToWait`, `CheckReady`, `DequeueWoken` (`wait_event_interruptible`),
  `GetWtReadyQueue` (the test of `nthreads`), then the walk: `Advance` to an element, then `ClaimWorker`
  or `PassWorker` (`mutex_trylock`; on several processors the element may be taken out in between, and
  `TidFreed` reads its tid after it was freed), `DecThreadsReady` per list of a claimed worker,
  `ScanFreed` when the element under the walk has been freed, `FinishScan`. The example's scheduler then
  takes the batch one worker at a time, or skips a worker its array does not hold (`SkipUnknown`).
* `EXECUTEUMSTHREAD`: `SetKstRunning`, `SetKwtRunning`, `WakeUpWorker`, `SetTaskState`,
  `TestWorker`, `ExecuteWoken` (`wait_worker_thread`), `SetKstIdle`, `IncThreadsReady` and
  `WakeUpSchedulers` per list, `UnlockWorker`.
* `UMSTHREADTYIELD`: `SetKwtIdle`, the three steps of `wake_up_scheduler` (`LookUpScheduler`,
  `WakeUpScheduler`, `ClearScheduler`), `Park`, `Resume`.
* `WORKERTHREADEXIT`: `SetKwtExiting`, `DecNthreads` per list, the same three steps, `EndWorker`.

A wake-up of a thread that has ended finds no task: the kernel dereferences a null pointer and kills
the calling thread inside its request. The program counters `oops`, `y_oops` and `x_oops` stand for
that. A walk that stands on a freed element goes on with whatever its pointer holds: `ScanFreed`
chooses between missing the rest of a bucket and a fault.

In `UmsSetup` a creator makes its lists (`ReadLastId`, `AddList`, `IncLastId`), then each worker
(`StartThread`, `LockFrame`, `TestTid`, `DestroyCond` against `LockParentFrame`, `SetTid`,
`SignalParent`, `UnlockParentFrame` of the new thread; `FirstLookup`, `SetTaskState`, `TestCreated`,
`CreatorWoken`, `NextLookup` against `CreateKworker`, `WakeParent`, `Park`), and adds it to each of
its lists (`AddToArray`, `AddClid`, `AddElement`, and a load and a store per counter).

In `UmsLifecycle`:

* `Started`, `increment`, `ListAt`: the loop of `main` that creates the schedulers, with the integer
  division and the numbers of the processors as they are. `Sched` and `ListOf` are what that loop
  makes of the affinity mask (`LifecycleAssumption`).
* `Scheduled`: with one processor a thread takes a step only when no other is inside a section.
* The end: `Join` (which may kill `main` where the mask has a gap and the handle was never written),
  `Joined`, `DestroyList`, `DestroyWorker`, `Return`. Threads run until `main` returns or is killed.

In `UmsProc`:

* `UMSINIT`: `create_proc_ums_pid`, then `InitSchedulers`, because the structure can be found before its
  table is initialised (`Garbage`, as is a scheduler's between `AddFolder` and `SetSchedPid`): a walk,
  an insertion or a lookup that comes to such a table finds it empty or faults. `SetUp` stands for what
  `UmsSetup` does.
* `ENTERUMSSCHEDMODE`: `EnterMode` (the `ksched_thread`), then for every process found in the bucket
  `LockPup`, `AddFolder`, `UnlockPup`, `SetSchedPid` (`create_scheduler_folder`), then for every
  element of the queue `NextWorker`, `CreateFile`, `AddFile`, `SetWtPid`, `FileMade`
  (`create_workers_file`), and `EndWalk`. `EnterAstray` ends it early where another process has removed
  the tree, or has not initialised a table yet.
* `UMSDESTROY`: `BeginRemoval`, then one walk over three nested loops. `walk` holds a cursor for each:
  the table, the bucket, and the element it goes to next, cached as `hash_for_each_safe` caches it.
  `NextBucket` and `NextEntry` move the innermost one; at the end of a table `Unlink` (`proc_remove` up to
  its wait for readers) and `Free`, or `FreedByAnother` when two processes remove at once; `WalkAstray`
  where a cached pointer has been freed by the other, or the table is not initialised; `EndRemoval` at
  the end of the only pass, whatever has been added behind it.
* a read: `StartRead`, `LookUp`, `FindThread`, `CopyThread`, `Answer`. The lookups are the operators
  `SchedulersAt`, `WorkersAt`, `get_scheduler`, `get_worker`: nested walks over buckets that compare
  no key, as in the code.

### What is abstracted

* The order of a walk is the hash order of tids: any order is allowed.
* Times, `ksched_thread.nswitches`, affinity and log messages do not appear. `kworker_thread.nswitches`
  does: it bounds the yields.
* The two counters of the wait condition are read in one step. `threads_ready` only goes up before
  the wake-up that follows it, so reading them apart adds no lost wake-up.
* Memory is sequentially consistent; the sleeps and wake-ups of the kernel carry the barriers that
  matter for the flags tested around them.
* No signals arrive (they would end the interruptible sleeps), `kmalloc` does not fail, and a tid is
  not reused while the program runs.
* A routine may yield or return whenever it runs; no time limit makes it.
* `UmsProc` has one completion list per process. `Hash` of an identifier is its remainder by the number of
  buckets. `hash_min` with 3 bits permutes 0 to 7 and so gives the first eight identifiers a bucket
  each, too; only the order of the buckets differs, which is the order in which a removal takes the
  entries.
* The processes of the passing runs lie in different buckets (`MCPidHash`) and have at most as many
  schedulers and workers as a table has buckets, two instead of the eight of `ums_interface.h`. Up to
  this limit `get_scheduler` and `get_worker` find the right entry although they compare no key. The
  code does not enforce it; `pid_collision` is the other case.
* With two pids in one bucket one structure is put into two lists. The model keeps both lists whole; what
  the links overwritten by the second insertion lead to is not followed, and neither are two insertions
  into one bucket on two processors at the same time.
* `sched->mutex` is never initialised: locking it succeeds at once, or the thread faults or hangs
  (`"oops"`). What a thread writes to freed memory is not tracked; that it may fault is.
* procfs is modelled from its use: an unlinked entry is not found by a later read, and `proc_remove`
  returns when the reads under way have ended.
* Workers are added before schedulers run, as in the example.

## 3. Runs

Bounds: two schedulers and two workers are the least with which two schedulers compete for a worker
while another one is free, a batch has an element behind the one in execution, and a third thread
can wake the two others. One yield per worker is enough for a worker to be dispatched again, on
another scheduler, and then to exit. `CHECK_DEADLOCK FALSE` because all threads return, and the
system then stops.

| Run | Instance | Result |
|---|---|---|
| `dispatch_smp` | 2 schedulers, 2 workers, one list, arrays of 2, 1 yield, workers not parked yet | the safety properties and the refinement hold, on any number of processors: 773,469 states up to symmetry |
| `dispatch_lists` | 2 lists, a scheduler each, both workers on both, arrays of 1 that do not know every worker, 1 yield | types, `LeavesAfterAllDone` and the exact accounting of `threads_ready` hold: 1,036,802 states |
| `uniprocessor` | 2 schedulers, 2 workers, 1 yield, one processor | what the documentation says of the dispatch holds, and all threads return: 12,578 states |
| `setup` | 1 creator, 2 lists, 3 workers, arrays of 2 | the stack frame outlives its use, adds come after creation, identifiers, queues and counters end up right, and the third add to an array fails without a trace in it: 1,407 states |
| `proc` | 1 process, 2 schedulers, 2 workers, 1 reader | own directories and files, a read finds the structure of its file, all workers are listed: 164,415 states |
| `proc_shared` | 2 processes with a scheduler each, 1 worker, 1 reader, no bucket shared | no entry is freed under a read, and with fairness a removal ends: 169,328 states |
| `lifecycle` | a mask of one processor, hence 1 list and 1 scheduler; 3 workers, arrays of 3, 1 yield | nothing is used after it is freed, and `main` ends: 4,830 states |
| `yield_race`, `last_wakeup` | several processors | TLC refutes `DispatchedIsAwake` and `EmptyListNoticed` |
| `setup_hang`, `id_race` | one creator; two | TLC refutes `CreatorReturns` and `UniqueIds` |
| `pid_collision` | as `proc_shared`, both pids in one bucket | TLC refutes `ReadsItsProcess` |

Why these bounds for the last modules: two schedulers of one process are what `pup->mutex` is for, and
two workers give a table with two identifiers and a walk with something behind its element. Two
processes are what it takes for one to remove what another makes, reads or removes. Three workers for
arrays of two make one add of each list meet a full array. Three workers in one batch leave one
before and one behind the worker `main`'s only scheduler executes.

### What the runs show

On several processors the protocol is *safe* in the sense of `UmsScheduling`: whatever wake-ups are
lost and whatever elements are freed under a walk, a worker runs only for the scheduler that holds
its mutex and waits for it, mutexes are released only by their holders, and no scheduler leaves
while a worker of its list can still run. What fails there are the promises about progress and about
the contents of a batch, each with a short counterexample:

* `yield_race`: a worker in `UMSTHREADTYIELD` wakes its scheduler before it sets its own task state.
  If it is dispatched again in between it sleeps for ever, and so does its scheduler.
* `last_wakeup`: `WT_EXITING` is visible before the worker's elements and counts are gone. The last
  wake-up of a list can therefore come before its `nthreads` reaches zero, and a second scheduler is
  never told. `DequeuedAreReady` (a dequeue returns the dead worker), `ThreadsReadyIsCount` and
  `ScanIsSafe` fail on several processors for the same reason; they are checked on one.
* `setup_hang`: `WAITWTCREATION` tests before it sets the task state, the other way round than its
  own loop, and `doc/report.md`, do it. `WokenReturns` shows that the loop is right.
* `id_race`: the identifier of a completion list is read outside the mutex that guards it.

* `pid_collision`: `create_scheduler_folder` enters a scheduler into every process of the bucket of its
  pid, and the lookups take the first entry of a bucket. A read of a file in the directory of one process
  finds a scheduler of another. One pair of pids in eight shares a bucket.

A worker that did not fit the array of the library (`lib/ums.c:137` ignores what
`completion_list_add` answers) is locked by a dequeue and never unlocked. `LockedIsExecuted` says that
whoever is locked is in the batch of a scheduler that is alive and has it still to execute. It is
checked on one processor with arrays large enough, and proved there under the hypothesis that every
array finds its workers (`AllFindable`). With a worker missing from `UserList` it fails; on several
processors it fails because a scheduler may fault in its walk (`ScanFreed`) and leave what it has locked.

On one processor of the kernel the project was developed for ("5.4.121 with Voluntary Kernel
Preemption") none of the races of the dispatch exists: all these properties hold there, for any number of
scheduler threads. The difference is the content of `UmsUniprocessor`: kernel code is switched out only
where it calls `schedule()` or takes a mutex (`might_sleep`); `mutex_trylock`, `mutex_unlock`, wake-ups
and `printk` are no such places. The mutants of that run put a mutex into one of these sections, and each
race is back. This says nothing of a machine with more processors, and `main.c:70` asks for as many
processors as lists: of the test script only the tests with one list can run on one.

`lifecycle` adds `main`, on one processor, and so with one list and one scheduler (`main.c:67-104` starts
one scheduler per processor of the mask). `main` joins its scheduler and not its workers, and then frees
what the last worker may still be using in `WORKERTHREADEXIT`. `NoFreedUse` holds all the same, for a
reason that is nowhere written down: the scheduler that executes the worker cannot leave before the
worker has called `wake_up_scheduler`, and that is the last thing the worker does to a shared object. On
several processors the scheduler sees `WT_EXITING` earlier, and the argument is gone: the same module
with `CpuSet` and `Sched` = {0, 1} reaches a state in which the `kworker_thread` of a worker that is still
in its exit is freed. No run or theorem promises anything for that case.

`proc` and `proc_shared` show that `/proc/ums` works within the sizes of its tables and wherever a
mutex is missing: the section under `pup->mutex` gives each scheduler a directory; `last_wt_id` is in
effect unprotected, and correct because each scheduler adds only to its own table; procfs keeps an
entry alive while it is read. `UMSDESTROY` of one process removes the entries of every process
(`ums_proc.c:248`), while `ums_proc.h:45` documents the function as one that removes `/proc/ums/<pid>`:
`EnterAstray`, `WalkAstray` and `FreedByAnother` are what this does to the others, and the reason why
`WorkersListed` speaks only of the time before the first removal. `FindsItsEntry` is about the structure
a read finds. The pid in it is another matter: the info file is there before `sched_pid` is stored
(`ums_proc.c:77, 79`), so a read may report any thread or none (`PidRead`), and no property says otherwise.

### Fairness

`FairSpec` of `UmsDispatch` and `UmsSetup` gives every thread weak fairness: a thread that can take a
step is not passed over for ever by a kernel that schedules all runnable tasks. `WakeSpuriously` of
`UmsSetup` has none: nothing makes a condition variable return by itself. On one processor a step of a
thread is disabled whenever another thread is inside a section, so weak fairness would say nothing;
`FairUniSpec` uses strong fairness per thread, which is what the Linux scheduler provides by giving
every runnable task the processor again and again. `FairLifeSpec` adds `main` as one more such thread,
and is meant for a mask of one processor. No fairness is assumed of the choice between yielding and
returning; the bound `MaxYields` ends the routines. `FairSpec` of `UmsProc` is weak and covers only a
removal and a read that have begun: nobody has to start a read, to enter scheduling mode or to end the
process.

## 4. Proofs

Eight modules hold proofs, for every value of the constants that satisfies the named assumptions. TLC
evaluates the assumptions in every run of the module that declares them. Before each proof TLC checked
the parts of the inductive invariant on the instances of section 3 and on slightly larger ones. Of the
invariants the passing runs check only `FindsItsEntry` is not proved.

| Module | Theorem | States |
|---|---|---|
| `UmsDispatchProofs` | `TypeCorrect` | `Spec => []TypeOK`: types, and no dequeue writes past its array |
| | `OnlyDispatchedRun` | `Spec => []RunsOnlyWhenDispatched` |
| | `OnlyEmptyListsClose` | `Spec => []LeavesAfterAllDone` |
| | `OwnerReleases` | `Spec => ReleasedAfterRun`, an action property |
| | `Refinement` | `Spec => ImplementsScheduling`: the protocol implements `UmsScheduling` |
| `UmsReadyProofs` | `CountsKept` | `Spec => []ReadyAccounting` |
| `UmsUniprocessorProofs` | `NoLostDispatch` | `UniSpec => []DispatchedIsAwake` |
| | `DequeuesReady` | `UniSpec => []DequeuedAreReady` |
| | `CountIsReady` | `UniSpec => []ThreadsReadyIsCount` |
| | `LockedExecuted` | if `AllFindable`, `UniSpec => []LockedIsExecuted` |
| | `ScanSafe` | `UniSpec => []ScanIsSafe` |
| | `NamesItsScheduler` | `UniSpec => []CurrSchedIsHolder` |
| | `NoNullTask` | `UniSpec => []NoOops` |
| `UmsLifecycleProofs` | `NothingFreedInUse` | if `ncpu = 1`, `LifeSpec => []NoFreedUse` |
| `UmsSetupProofs` | `FrameIsKept` | `Spec => []FrameOutlivesUse` |
| | `AddedIsCreated` | `Spec => []AddsCreatedWorker` |
| `UmsSetupCountProofs` | `IdsAreUnique` | if `OneMain`, `Spec => []UniqueIds` |
| | `ListsAreComplete` | if `OneMain`, `Spec => []SetupComplete` |
| | `ArraysHoldTheQueues` | if `OneMain`, `Spec => []ArraysKeepUp` |
| `UmsProcProofs` | `OwnDirectoryAlways` | `Spec => []OwnDirectory` |
| `UmsProcTreeProofs` | `OwnFileAlways` | if `SchedulersSpread`, `Spec => []OwnFile` |
| | `WorkersListedAlways` | if `SchedulersSpread`, `Spec => []WorkersListed` |
| | `EntriesOutliveReadersAlways` | if `SchedulersSpread` and `WorkersSpread`, `Spec => []EntriesOutliveReaders` |

### Dispatch

For every set of schedulers, every finite set of workers, all lists, all assignments of workers to
lists, every `MAX_WT` and every bound on yields, on any number of processors. Assumptions:
`ThreadAssumption` (threads are distinct, workers finite), `ListAssumption` (the assignment is well
typed, a worker is on a list once) and `BoundAssumption`.

None of the properties is inductive. The inductive invariant `IInv` adds:

* `BatchOwned`: a scheduler owns the mutex of every worker in its batch, each once. It makes the
  head of a batch (`kwtOf`) a worker nobody else can execute.
* `WakesMarked`: worker and scheduler are marked as running before the wake-up.
* `ReleasedIsAwaited`: the property from the wake-up on, not only from the routine on. Without it the
  step in which a woken worker returns from `schedule()` cannot be proved. It is preserved because a
  worker that is awake changes its own `state` only when it leaves its routine, and `MutexKept` says
  that nobody unlocks it before.
* `QueuedUntilExit`, `QueuedWhileLeaving`, `NthreadsCounts`: an element stays in every list until its
  worker's exit reaches the list, and `nthreads` is the number of elements, so `nthreads = 0` means
  that every worker of the list has started to exit.

The proof that a step preserves a part splits the next-state relation by the few actions that touch
its variables; frame lemmas (`FrameOwned`, `FrameQueues`, `OneScheduler`, ...) deal with the others.
For the refinement, the return of a worker into its routine is `Dispatch`, a yield or an exit is
`Stop`, the answer -1 is `Close`, and every other step is a stutter.

### The accounting of `threads_ready`

`CountsKept` says that no increment or decrement of `threads_ready` is lost or done twice, on any number
of processors and in every interleaving of dequeues, yields and exits: the counter of a list is the
number of workers a dequeue could lock, corrected by what is in flight. `ReadyAccounting` has to name
everything in flight (`Counted`, and `CountedTwice` for a worker that an exit has counted off while a
dequeue that locked it before is about to do the same), and is proved step by step: a step changes the
counter of a list by one exactly when one worker enters or leaves the sets that are counted. Besides
`IInv` the induction needs `ReadyInv`: where a walk over `clid_list` is, the worker it counts for is
locked by the scheduler that walks (`DecClaimed`) or has yielded to it (`IncIdle`), lists that are
still to be visited are each there once, `wait_worker_thread` has returned only for a worker that has
stopped (`ReleaseStopped`), and an exiting worker is never marked idle (`ExitMarked`).

### One processor

`UmsUniprocessor` adds guards to `UmsDispatch`, so all the theorems above hold there too (`UniIsDispatch`).
What is new are seven promises that fail on several processors. They are proved for any
number of schedulers, workers and lists, from one invariant that says what each section leaves
established where it gives the processor away:

* `OneSection`: two threads are never in a section at once. It is what the guard `HasProcessor` buys,
  and the reason why the other parts need to hold only where a section ends.
* `MarkTells`, `RunningDispatched`, `YieldAwaited`, `ExitAwaited`: the mark of a worker agrees with where
  it is; a worker that is marked running, yields or exits has its scheduler asleep in
  `wait_worker_thread` for it, and names that scheduler. This is where `yield_race` is excluded: between
  its wake-up and its `schedule()` a yielding worker is not switched out.
* `ExitHeld`, `ExitGone`: a worker that exits is in no queue but those it has still to leave, and is
  locked only by the scheduler it exits to. This excludes `last_wakeup`.
* `BatchAtRest`, `ScanLive`: a dequeued worker sleeps until it is executed, and a scan stands on an
  element that is still there.

The assumption `AllParked` (`Parked = Worker`) belongs to the module: on one processor the creator of a
worker returns from `WAITWTCREATION` only after the section of the worker's `CREATEWORKERTHREAD`, which
ends in its `schedule()`, so every worker sleeps before it is added to a list.

`CountIsReady` combines that invariant with the accounting of the previous paragraph: outside the sections
that move the counter nothing is in flight, so `threads_ready` is the number of workers of the queue
nobody has locked. `LockedExecuted` is about the mutex held from one request to another. It needs
`BatchOwned`, that a scheduler that is not executing has an empty batch (`BatchDone`), that no scheduler
faults (`ScanLive`), and that none skips a worker: `AllFindable` says that the array of every list holds
the workers of the list, which is what `ums_completion_list_add` is meant to ensure and does not.

### `main`

`NothingFreedInUse` holds for a mask of one processor, and any number of workers, whatever their routines
do. The hypothesis is `ncpu = 1`; `LifecycleAssumption`, which is the test of `main.c:70` and the loop that
starts the schedulers, then leaves one list and at most one scheduler.

`LifeInv` has two phases. Until the last join it is the invariant of one processor, with `JoinedEnded` (the
schedulers before the one `main` waits for have ended) and `ClearAwaited`: a worker that has done its last
wake-up and still has to clear its field has its scheduler asleep, because no place to switch comes in
between. At the last join all schedulers have ended, so by `ClearAwaited` no worker is at that step, and
`AllOver` says that from there on nobody but `main` does anything to an object that is freed.

### Setup

For any number of creators, lists and workers, whatever the order of their steps, spurious returns of
the condition variable included. `SetupAssumption` says that every `pthread_create` makes a thread of
its own. `SetupInv` adds to the two properties:

* `TestsUnderLock`: a creator that tests the tid holds the mutex in its frame.
* `FrameUsed`: while a new thread is between its lock and its unlock, its creator is about to lock,
  and the thread holds the mutex; a thread still before its lock has stored no tid. Together with
  the mutex this is why the creator cannot see the tid and leave in between.
* `FoundStays`: once `WAITWTCREATION` has found the `kworker_thread` it is still in the table at the
  add.

What has been built at the end (`UmsSetupCountProofs`) is proved under `OneMain`: one thread makes every
list, once each, as `main` does. With two, `id_race` has a counterexample. Lists and workers are any
number, and the new threads run beside their creator as they like. `CountInv` follows the creator
through its two loops:

* `TableHolds`, `IdsBelow`, `UniqueIds`: the table holds the lists made so far, with identifiers below
  `compl_list_last_id`, but for the list that is being made. So the lookup by identifier in
  `COMPLLISTADD` finds the list that was meant (`KclIsList`), although it takes the first element of a
  bucket whose identifier matches.
* `BornInTime`: a worker has its `kworker_thread` before the first add, so `CREATEWORKERTHREAD` never
  resets a `clid_list` that has been filled. This uses `FoundStays` above.
* `QueueHolds`, `ReadyHolds`, `NthreadsHold`, `ClidsHold`, `ArrayHolds`: each structure knows the workers
  added up to the step of `ums_completion_list_add` that fills it. `JoinedSo(c, l, done)` is the set of
  workers of `l` past the points in `done`; a step adds one worker to one of these sets and leaves the
  others alone (`Moves`), and the cardinalities go up with the counters. Two threads that add to one list
  would lose a count here: the register of the `++` is part of `ReadyHolds`.

### /proc

`OwnDirectory` holds for any number of processes, schedulers, workers and readers, wherever the pids
lie, and however removals interleave with it. `ProcAssumption` types the constants. `ProcInv` adds
`UsedIds` (an identifier in use is below `last_sched_id`, except for the holder of `pup->mutex`, who
has used it and not moved it on yet) and `Holders` (a scheduler inside the section owns the mutex). A
removal only takes entries away, and an identifier is never given out again.

The other three rest on lookups that compare no key, and hold where no bucket is shared. That is
what the hypotheses say: `SchedulersSpread` (no two processes in one bucket, and not more schedulers
of a process than its table has buckets), and for what readers find `WorkersSpread` (not more workers
of a process than buckets). The code enforces neither. Both hold in the passing runs, and for one instance
of the example with its five workers on up to eight processors; `pid_collision` shows a read gone wrong
without the first. `OwnFile` and `WorkersListed` do not need `WorkersSpread`: the worker structures of one
scheduler may share buckets, only the readers then find the wrong one.

Each property needs to know what a lookup returns, and this needs to know where every structure is.
The invariant is built in this order:

* `WalkInv` follows `ENTERUMSSCHEDMODE`. A scheduler between `proc_mkdir` and the end of its section has
  the directory of the identifier it was told (`DirInv`). The numbers of its files are as many as the
  workers it has seen, and the file of the number in use is that of the worker it is at (`FileInv`,
  `FileId`). `DirCount` bounds `last_sched_id` by the schedulers that have a directory: with it an identifier
  in use stays below the number of buckets, so two schedulers of a process never meet in one.
  `OwnFile` is a part.
* `TableInv` says where a structure is: in the one list its identifier leads to (`Homes`), once
  (`Once`), and a process's or a scheduler's structure is the only one there until it is freed
  (`PupLinked`, `SchedLinked`). The insertion into every structure a lookup finds becomes an insertion
  into one list (`ProcChain`, `SchedulersAtIs`). That the scheduler itself is found, although removals
  free what they please, needs `Removed`: what is freed has been in a list, so a structure that is
  about to be added is not. That `hash_del` of the first place leaves no other behind follows
  (`EntryFreed`). `CursorInv` says of the loops of a removal that they stand in tables, and go to
  elements, that have been added at some time.
* `ReadInv` follows the readers. Under both hypotheses `NodeAtIs`: a lookup returns the structure
  whose path the file has, or nothing. A reader that has found one is a reader of that path, so
  `NoReaders` keeps `Free` from it, in whichever process the removal runs.
* `ListInv` adds for `WorkersListed` that while nobody has begun to remove, every worker a scheduler has
  seen has a file with a pid, but for the one it works on (`Walked`).

The walks over a bucket are folds (`FlattenSeq`) over sequences of at most one element here, so no
induction is needed: `FlattenOne` and `FlattenNone` are what is used of them.

### Only model-checked

`FindsItsEntry`, and the temporal properties under fairness (`SchedulersReturn`, `WorkersReturn`,
`EmptyListNoticed`, `WokenReturns`, `RemovalEnds`, `MainEnds`): liveness and `ENABLED` are out of the prover's
reach.

## 5. What is left

In this order:

1. `COMPLLISTADD` beside running schedulers, and by several threads. `add_worker_thread` inserts and counts
   without a lock, so counts and elements can be lost, and a worker that has ended can be put on a further
   list. `UmsSetup` has the load and the store of each counter apart, but each creator has lists of its
   own and no scheduler runs. The example is not exposed.
2. `main` on several processors: `UmsLifecycle` has its steps, but what holds of them is not stated.
3. `ListsAreComplete` states `Init` of `UmsDispatch` as the end of `UmsSetup`; the two are not yet composed
   in one specification.

### Not modelled

* `COMPLLISTADD` once schedulers run (above).
* `ums_init`, `ums_exit` and with them `destroy_kcl_htable`, `destroy_kwt_htable`, `destroy_kst_htable`
  and `remove_proc_ums`: loading is one sequential step before everything, unloading frees all at
  once. `fops` has no owner, so the module can be unloaded under a thread that sleeps in a request;
  `PROJECT.json` lists this as a hazard.
* The text of the `/proc` files, the measured times, the affinity of threads to processors, logging.
* Programs that skip a call of the library or call it in the wrong order, where the failed lookups of
  the kernel module are dereferenced.
