------------------------------- MODULE UmsSetup -------------------------------
(****************************************************************************)
(* How an application builds what UmsDispatch starts from: completion lists   *)
(* (ums_completion_list_init), worker threads (ums_create_worker_thread) and  *)
(* the workers of each list (ums_completion_list_add), down to the requests   *)
(* UMSINITCOMPLLIST, CREATEWORKERTHREAD, WAITWTCREATION and COMPLLISTADD.     *)
(*                                                                            *)
(* A creator is an application thread, of one process or of several, that     *)
(* makes its lists and then its workers, each added to all of its lists, as   *)
(* main of the example does.  It meets every new thread twice: on a condition *)
(* variable in its own stack frame, and in the kernel.  An action is an access *)
(* to memory another thread can observe; a pthread or kernel mutex section    *)
(* around a single access is one action.                                      *)
(****************************************************************************)
EXTENDS Integers, Sequences, FiniteSets

CONSTANTS
  Creator,    \* application threads that create workers
  Worker,     \* the threads they create
  CL,         \* the completion_list structures of the application
  None,       \* the tid -1
  ListsOf,    \* [Creator -> Seq(CL)]: the lists each creator makes
  WorkersOf,  \* [Creator -> Seq(Worker)]: the workers each creator makes
  MAX_WT      \* capacity of the array of a completion_list

ASSUME SetupAssumption ==
  /\ Creator \cap Worker = {} /\ None \notin Creator \cup Worker
  /\ ListsOf \in [Creator -> Seq(CL)] /\ WorkersOf \in [Creator -> Seq(Worker)]
  \* every pthread_create makes a thread of its own
  /\ \A c, d \in Creator : \A i \in 1..Len(WorkersOf[c]), j \in 1..Len(WorkersOf[d]) :
       WorkersOf[c][i] = WorkersOf[d][j] => c = d /\ i = j
  /\ MAX_WT \in Nat \ {0}

VARIABLES
  \* the library
  id,                \* completion_list.clc.id
  wt,                \* completion_list.wt, up to last_index
  tid,               \* worker_thread.wtc.tid
  mutex,             \* owner of ucwa_args.mutex of the frame made for a worker
  cond,              \* ucwa_args.cond: "none", "ready", "waited" or "destroyed"
  \* the kernel module
  compl_list_last_id,
  compl_list_htable, \* the lists with a kcompletion_list, newest first
  wt_htable,         \* the workers with a kworker_thread
  clid_list,         \* kwt->clid_list
  wt_ready_queue, threads_ready, nthreads,
  task,              \* the task state of every thread
  \* creators: control and locals
  cpc,
  li, wi,            \* the list and the worker the creator is at
  kwt,               \* WAITWTCREATION: the last lookup found the worker
  reg,               \* the register of a ++ on a counter of a completion list
  \* worker threads: control
  wpc

libVars == <<id, wt, tid, mutex, cond>>
kernelVars == <<compl_list_last_id, compl_list_htable, wt_htable, clid_list,
                wt_ready_queue, threads_ready, nthreads>>
vars == <<libVars, kernelVars, task, cpc, li, wi, kwt, reg, wpc>>

TASK_RUNNING == "TASK_RUNNING"
TASK_INTERRUPTIBLE == "TASK_INTERRUPTIBLE"

set_current_state(t, s) == task' = [task EXCEPT ![t] = s]

list(c) == ListsOf[c][li[c]]
worker(c) == WorkersOf[c][wi[c]]

\* The element of a bucket found first is the one added last
get_kcompletion_list(i) ==
  LET Has(k) == id[compl_list_htable[k]] = i
  IN  compl_list_htable[CHOOSE k \in DOMAIN compl_list_htable :
                          Has(k) /\ \A m \in 1..(k - 1) : ~Has(m)]

kcl(c) == get_kcompletion_list(id[list(c)])

Init ==
  /\ id = [l \in CL |-> -1]
  /\ wt = [l \in CL |-> <<>>]
  /\ tid = [w \in Worker |-> None]
  /\ mutex = [w \in Worker |-> None]
  /\ cond = [w \in Worker |-> "none"]
  /\ compl_list_last_id = 0
  /\ compl_list_htable = <<>>
  /\ wt_htable = {}
  /\ clid_list = [w \in Worker |-> <<>>]
  /\ wt_ready_queue = [l \in CL |-> {}]
  /\ threads_ready = [l \in CL |-> 0]
  /\ nthreads = [l \in CL |-> 0]
  /\ task = [t \in Creator \cup Worker |-> TASK_RUNNING]
  /\ cpc = [c \in Creator |-> "init"]
  /\ li = [c \in Creator |-> 1]
  /\ wi = [c \in Creator |-> 1]
  /\ kwt = [c \in Creator |-> FALSE]
  /\ reg = [c \in Creator |-> 0]
  /\ wpc = [w \in Worker |-> "none"]

At(c, l) == cpc[c] = l
Goto(c, l) == cpc' = [cpc EXCEPT ![c] = l]

----------------------------------------------------------------------------
(* UMSINITCOMPLLIST.                                                          *)

\* The identifier is read before compl_list_htable_mutex is taken
ReadLastId(c) ==
  /\ At(c, "init") /\ li[c] <= Len(ListsOf[c])
  /\ id' = [id EXCEPT ![list(c)] = compl_list_last_id]
  /\ Goto(c, "init_add")
  /\ UNCHANGED <<wt, tid, mutex, cond, kernelVars, task, li, wi, kwt, reg, wpc>>

AddList(c) ==
  /\ At(c, "init_add")
  /\ compl_list_htable' = <<list(c)>> \o compl_list_htable
  /\ Goto(c, "init_inc")
  /\ UNCHANGED <<libVars, compl_list_last_id, wt_htable, clid_list, wt_ready_queue,
                 threads_ready, nthreads, task, li, wi, kwt, reg, wpc>>

\* Mutant: the identifier is not moved on
KeepLastId(c) ==
  /\ At(c, "init_inc")
  /\ li' = [li EXCEPT ![c] = @ + 1]
  /\ Goto(c, "init")
  /\ UNCHANGED <<libVars, kernelVars, task, wi, kwt, reg, wpc>>

IncLastId(c) ==
  /\ At(c, "init_inc")
  /\ compl_list_last_id' = compl_list_last_id + 1
  /\ li' = [li EXCEPT ![c] = @ + 1]
  /\ Goto(c, "init")
  /\ UNCHANGED <<libVars, compl_list_htable, wt_htable, clid_list, wt_ready_queue,
                 threads_ready, nthreads, task, wi, kwt, reg, wpc>>

ListsMade(c) ==
  /\ At(c, "init") /\ li[c] > Len(ListsOf[c])
  /\ Goto(c, "create")
  /\ UNCHANGED <<libVars, kernelVars, task, li, wi, kwt, reg, wpc>>

----------------------------------------------------------------------------
(* ums_create_worker_thread: the condition variable in the creator's frame.   *)

\* worker_thread_init, pthread_cond_init, pthread_mutex_init, pthread_create
StartThread(c) ==
  /\ At(c, "create") /\ wi[c] <= Len(WorkersOf[c])
  /\ tid' = [tid EXCEPT ![worker(c)] = None]
  /\ cond' = [cond EXCEPT ![worker(c)] = "ready"]
  /\ wpc' = [wpc EXCEPT ![worker(c)] = "lock"]
  /\ Goto(c, "lock")
  /\ UNCHANGED <<id, wt, mutex, kernelVars, task, li, wi, kwt, reg>>

\* pthread_mutex_lock, at first and again at the end of pthread_cond_wait
LockFrame(c) ==
  /\ At(c, "lock") /\ mutex[worker(c)] = None /\ cond[worker(c)] = "ready"
  /\ mutex' = [mutex EXCEPT ![worker(c)] = c]
  /\ Goto(c, "test")
  /\ UNCHANGED <<id, wt, tid, cond, kernelVars, task, li, wi, kwt, reg, wpc>>

\* Mutant: the tid is not waited for
TidKnownAnyhow(c) == TRUE

TidKnown(c) == tid[worker(c)] # None

\* pthread_cond_wait, or pthread_mutex_unlock
TestTid(c) ==
  /\ At(c, "test")
  /\ mutex' = [mutex EXCEPT ![worker(c)] = None]
  /\ \/ /\ TidKnown(c)
        /\ Goto(c, "destroy")
        /\ UNCHANGED cond
     \/ /\ ~TidKnown(c)
        /\ cond' = [cond EXCEPT ![worker(c)] = "waited"]
        /\ Goto(c, "lock")
  /\ UNCHANGED <<id, wt, tid, kernelVars, task, li, wi, kwt, reg, wpc>>

\* pthread_cond_wait may return with nobody having signalled
WakeSpuriously(c) ==
  /\ At(c, "lock") /\ cond[worker(c)] = "waited"
  /\ cond' = [cond EXCEPT ![worker(c)] = "ready"]
  /\ UNCHANGED <<id, wt, tid, mutex, kernelVars, task, cpc, li, wi, kwt, reg, wpc>>

DestroyCond(c) ==
  /\ At(c, "destroy")
  /\ cond' = [cond EXCEPT ![worker(c)] = "destroyed"]
  /\ Goto(c, "lookup")
  /\ UNCHANGED <<id, wt, tid, mutex, kernelVars, task, li, wi, kwt, reg, wpc>>

----------------------------------------------------------------------------
(* WAITWTCREATION.                                                            *)

get_kworker_thread(c) == kwt' = [kwt EXCEPT ![c] = tid[worker(c)] \in wt_htable]

\* The first lookup comes before the task state is set
FirstLookup(c) ==
  /\ At(c, "lookup")
  /\ get_kworker_thread(c)
  /\ Goto(c, "settask")
  /\ UNCHANGED <<libVars, kernelVars, task, li, wi, reg, wpc>>

SetTaskState(c) ==
  /\ At(c, "settask")
  /\ set_current_state(c, TASK_INTERRUPTIBLE)
  /\ Goto(c, "found")
  /\ UNCHANGED <<libVars, kernelVars, li, wi, kwt, reg, wpc>>

\* Mutant: the creator does not wait for the worker
DoNotWait(c) ==
  /\ At(c, "found")
  /\ set_current_state(c, TASK_RUNNING)
  /\ li' = [li EXCEPT ![c] = 1]
  /\ Goto(c, "add")
  /\ UNCHANGED <<libVars, kernelVars, wi, kwt, reg, wpc>>

\* while (kwt == -1) schedule(), and back to ums_create_worker_thread
TestCreated(c) ==
  /\ At(c, "found")
  /\ \/ /\ kwt[c]
        /\ set_current_state(c, TASK_RUNNING)
        /\ li' = [li EXCEPT ![c] = 1]
        /\ Goto(c, "add")
     \/ /\ ~kwt[c]
        /\ Goto(c, "asleep")
        /\ UNCHANGED <<task, li>>
  /\ UNCHANGED <<libVars, kernelVars, wi, kwt, reg, wpc>>

\* Mutant: the loop looks up the worker before it sets the task state
WokenLooksUp(c) ==
  /\ At(c, "asleep") /\ task[c] = TASK_RUNNING
  /\ Goto(c, "lookup")
  /\ UNCHANGED <<libVars, kernelVars, task, li, wi, kwt, reg, wpc>>

\* In the loop the task state is set before the lookup
CreatorWoken(c) ==
  /\ At(c, "asleep") /\ task[c] = TASK_RUNNING
  /\ set_current_state(c, TASK_INTERRUPTIBLE)
  /\ Goto(c, "again")
  /\ UNCHANGED <<libVars, kernelVars, li, wi, kwt, reg, wpc>>

NextLookup(c) ==
  /\ At(c, "again")
  /\ get_kworker_thread(c)
  /\ Goto(c, "found")
  /\ UNCHANGED <<libVars, kernelVars, task, li, wi, reg, wpc>>

----------------------------------------------------------------------------
(* ums_completion_list_add, of one worker to one list after the other.        *)

\* Mutant: the array is not tested for room
HasRoomAnyhow(l) == TRUE

HasRoom(l) == Len(wt[l]) < MAX_WT

\* completion_list_add, whose failure ums_completion_list_add does not look at
AddToArray(c) ==
  /\ At(c, "add") /\ li[c] <= Len(ListsOf[c])
  /\ wt' = IF HasRoom(list(c)) THEN [wt EXCEPT ![list(c)] = Append(@, worker(c))] ELSE wt
  /\ Goto(c, "clid")
  /\ UNCHANGED <<id, tid, mutex, cond, kernelVars, task, li, wi, kwt, reg, wpc>>

\* worker_thread_add_clid.  kwt->mutex is free: no scheduler knows the worker yet
AddClid(c) ==
  /\ At(c, "clid")
  /\ clid_list' = [clid_list EXCEPT ![worker(c)] = <<id[list(c)]>> \o @]
  /\ Goto(c, "queue")
  /\ UNCHANGED <<libVars, compl_list_last_id, compl_list_htable, wt_htable, wt_ready_queue,
                 threads_ready, nthreads, task, li, wi, kwt, reg, wpc>>

\* add_worker_thread takes no lock
AddElement(c) ==
  /\ At(c, "queue")
  /\ wt_ready_queue' = [wt_ready_queue EXCEPT ![kcl(c)] = @ \cup {worker(c)}]
  /\ Goto(c, "ready_load")
  /\ UNCHANGED <<libVars, compl_list_last_id, compl_list_htable, wt_htable, clid_list,
                 threads_ready, nthreads, task, li, wi, kwt, reg, wpc>>

\* kcl->threads_ready++ and kcl->nthreads++, loaded and stored
Load(c, counter, from, to) ==
  /\ At(c, from)
  /\ reg' = [reg EXCEPT ![c] = counter[kcl(c)]]
  /\ Goto(c, to)
  /\ UNCHANGED <<libVars, kernelVars, task, li, wi, kwt, wpc>>

StoreReady(c) ==
  /\ At(c, "ready_store")
  /\ threads_ready' = [threads_ready EXCEPT ![kcl(c)] = reg[c] + 1]
  /\ Goto(c, "nthreads_load")
  /\ UNCHANGED <<libVars, compl_list_last_id, compl_list_htable, wt_htable, clid_list,
                 wt_ready_queue, nthreads, task, li, wi, kwt, reg, wpc>>

\* Mutant: nthreads is not counted up
StoreNothing(c) ==
  /\ At(c, "nthreads_store")
  /\ li' = [li EXCEPT ![c] = @ + 1]
  /\ Goto(c, "add")
  /\ UNCHANGED <<libVars, kernelVars, task, wi, kwt, reg, wpc>>

StoreNthreads(c) ==
  /\ At(c, "nthreads_store")
  /\ nthreads' = [nthreads EXCEPT ![kcl(c)] = reg[c] + 1]
  /\ li' = [li EXCEPT ![c] = @ + 1]
  /\ Goto(c, "add")
  /\ UNCHANGED <<libVars, compl_list_last_id, compl_list_htable, wt_htable, clid_list,
                 wt_ready_queue, threads_ready, task, wi, kwt, reg, wpc>>

WorkerAdded(c) ==
  /\ At(c, "add") /\ li[c] > Len(ListsOf[c])
  /\ wi' = [wi EXCEPT ![c] = @ + 1]
  /\ Goto(c, "create")
  /\ UNCHANGED <<libVars, kernelVars, task, li, kwt, reg, wpc>>

WorkersMade(c) ==
  /\ At(c, "create") /\ wi[c] > Len(WorkersOf[c])
  /\ Goto(c, "done")
  /\ UNCHANGED <<libVars, kernelVars, task, li, wi, kwt, reg, wpc>>

----------------------------------------------------------------------------
(* ums_create_worker_thread_aux, the new thread.                              *)

parent(w) == CHOOSE c \in Creator : \E i \in DOMAIN WorkersOf[c] : WorkersOf[c][i] = w

WAt(w, l) == wpc[w] = l
WGoto(w, l) == wpc' = [wpc EXCEPT ![w] = l]

LockParentFrame(w) ==
  /\ WAt(w, "lock") /\ mutex[w] = None
  /\ mutex' = [mutex EXCEPT ![w] = w]
  /\ WGoto(w, "settid")
  /\ UNCHANGED <<id, wt, tid, cond, kernelVars, task, cpc, li, wi, kwt, reg>>

SetTid(w) ==
  /\ WAt(w, "settid")
  /\ tid' = [tid EXCEPT ![w] = w]
  /\ WGoto(w, "signal")
  /\ UNCHANGED <<id, wt, mutex, cond, kernelVars, task, cpc, li, wi, kwt, reg>>

SignalParent(w) ==
  /\ WAt(w, "signal")
  /\ cond' = [cond EXCEPT ![w] = IF @ = "waited" THEN "ready" ELSE @]
  /\ WGoto(w, "unlock")
  /\ UNCHANGED <<id, wt, tid, mutex, kernelVars, task, cpc, li, wi, kwt, reg>>

UnlockParentFrame(w) ==
  /\ WAt(w, "unlock")
  /\ mutex' = [mutex EXCEPT ![w] = None]
  /\ WGoto(w, "create")
  /\ UNCHANGED <<id, wt, tid, cond, kernelVars, task, cpc, li, wi, kwt, reg>>

\* CREATEWORKERTHREAD: create_worker_thread, wake up the parent, park
CreateKworker(w) ==
  /\ WAt(w, "create")
  /\ wt_htable' = wt_htable \cup {w}
  /\ clid_list' = [clid_list EXCEPT ![w] = <<>>]
  /\ WGoto(w, "wakeparent")
  /\ UNCHANGED <<libVars, compl_list_last_id, compl_list_htable, wt_ready_queue,
                 threads_ready, nthreads, task, cpc, li, wi, kwt, reg>>

WakeParent(w) ==
  /\ WAt(w, "wakeparent")
  /\ set_current_state(parent(w), TASK_RUNNING)
  /\ WGoto(w, "park")
  /\ UNCHANGED <<libVars, kernelVars, cpc, li, wi, kwt, reg>>

Park(w) ==
  /\ WAt(w, "park")
  /\ set_current_state(w, TASK_INTERRUPTIBLE)
  /\ WGoto(w, "sleep")
  /\ UNCHANGED <<libVars, kernelVars, cpc, li, wi, kwt, reg>>

----------------------------------------------------------------------------
InitList(c) == ReadLastId(c) \/ AddList(c) \/ IncLastId(c) \/ ListsMade(c)

CreateWorker(c) ==
  \/ StartThread(c) \/ LockFrame(c) \/ TestTid(c) \/ DestroyCond(c)
  \/ FirstLookup(c) \/ SetTaskState(c) \/ TestCreated(c) \/ CreatorWoken(c) \/ NextLookup(c)

AddWorker(c) ==
  \/ AddToArray(c) \/ AddClid(c) \/ AddElement(c)
  \/ Load(c, threads_ready, "ready_load", "ready_store") \/ StoreReady(c)
  \/ Load(c, nthreads, "nthreads_load", "nthreads_store") \/ StoreNthreads(c)
  \/ WorkerAdded(c) \/ WorkersMade(c)

CreatorStep(c) == InitList(c) \/ CreateWorker(c) \/ AddWorker(c)

WorkerStep(w) ==
  \/ LockParentFrame(w) \/ SetTid(w) \/ SignalParent(w) \/ UnlockParentFrame(w)
  \/ CreateKworker(w) \/ WakeParent(w) \/ Park(w)

Next == \/ \E c \in Creator : CreatorStep(c) \/ WakeSpuriously(c)
        \/ \E w \in Worker : WorkerStep(w)

Spec == Init /\ [][Next]_vars

\* Every thread that can take a step is given the processor at last
FairSpec == /\ Spec
            /\ \A c \in Creator : WF_vars(CreatorStep(c))
            /\ \A w \in Worker : WF_vars(WorkerStep(w))

----------------------------------------------------------------------------
(* Properties.                                                                *)

FramePC == {"lock", "test", "destroy", "lookup", "settask", "found", "asleep", "again"}

\* ucwa_args lies on the creator's stack: as long as a new thread still uses its
\* mutex or its condition variable, the creator is in the call that made the
\* frame, and has not destroyed the condition variable.
FrameOutlivesUse ==
  \A w \in Worker : wpc[w] \in {"lock", "settid", "signal", "unlock"} =>
    /\ cpc[parent(w)] \in FramePC /\ worker(parent(w)) = w
    /\ cond[w] \in {"ready", "waited"}

\* COMPLLISTADD does not test what get_kworker_thread returns: when it is sent, the
\* new thread has put its kworker_thread into the table.
AddsCreatedWorker == \A c \in Creator : At(c, "clid") => tid[worker(c)] \in wt_htable

\* "a unique identifer among the entity" (doc/report.md)
UniqueIds ==
  \A i, j \in DOMAIN compl_list_htable :
    id[compl_list_htable[i]] = id[compl_list_htable[j]] => i = j

Done == \A c \in Creator : At(c, "done")

Joined(l) == UNION {{WorkersOf[c][i] : i \in DOMAIN WorkersOf[c]} :
                      c \in {d \in Creator : \E j \in DOMAIN ListsOf[d] : ListsOf[d][j] = l}}

\* What the dispatch starts from: once the creators are done every list holds its
\* workers and counts them twice, as ready and as not yet finished, and every
\* worker knows its lists.
SetupComplete ==
  Done => \A l \in CL :
    /\ wt_ready_queue[l] = Joined(l)
    /\ threads_ready[l] = Cardinality(Joined(l))
    /\ nthreads[l] = Cardinality(Joined(l))
    /\ \A w \in Joined(l) : \E i \in DOMAIN clid_list[w] : clid_list[w][i] = id[l]

\* Of the workers in a list's ready queue the array of the library holds exactly the
\* first MAX_WT that were added, up to its last place and never past it.  The failure
\* of completion_list_add on a full array stops nobody: the kernel gets the others too,
\* and a dequeue returns workers that completion_list_get does not find.
ArraysKeepUp ==
  \A l \in CL :
    /\ Len(wt[l]) <= MAX_WT
    /\ \A c \in Creator : \A k \in DOMAIN WorkersOf[c] :
         WorkersOf[c][k] \in wt_ready_queue[l] =>
           (k <= MAX_WT <=> \E i \in DOMAIN wt[l] : wt[l][i] = WorkersOf[c][k])

\* A creator that has been woken once in WAITWTCREATION is never left asleep: the
\* loop sets the task state before it looks the worker up.
WokenReturns ==
  \A c \in Creator : At(c, "asleep") /\ task[c] = TASK_RUNNING ~> At(c, "add")

\* "If it happend then put itself to TASK_RUNNING, else call schedule()": the
\* creator returns from WAITWTCREATION (doc/report.md).
CreatorReturns == \A c \in Creator : At(c, "lookup") ~> At(c, "add")
================================================================================
