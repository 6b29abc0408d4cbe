----------------------------- MODULE UmsLifecycle -----------------------------
(****************************************************************************)
(* The whole life of the example's application, main, around the dispatch     *)
(* protocol: the affinity mask that decides how many schedulers there are and *)
(* which list each dequeues, pthread_join, and the end, where the lists and   *)
(* workers are given back to kfree while worker threads may still be in their *)
(* last ioctl.  A mask of one processor gives the sections of UmsUniprocessor;*)
(* with more processors the schedulers run in parallel, as in UmsDispatch.    *)
(****************************************************************************)
EXTENDS UmsUniprocessor, SequencesExt

CONSTANTS
  CpuSet,    \* the processors of the affinity mask of main
  list       \* list[N_COMPLETION_LISTS], counted from 1

----------------------------------------------------------------------------
(* Before the schedulers run.                                                 *)

\* kwt->clid_list after one worker_thread_add_clid after the other: list_add puts
\* each at the head
ClidsAfter(lists) == Reverse(lists)

ncpu == Cardinality(CpuSet)

\* float increment = N_COMPLETION_LISTS/ncpu is the quotient of two integers
increment == Len(list) \div ncpu

\* The loop goes over 0..ncpu-1, whatever the numbers in the mask
Started == {cpu \in 0..(ncpu - 1) : cpu \in CpuSet}

ListAt(cpu) == list[cpu * increment + 1]

ASSUME LifecycleAssumption ==
  /\ IsFiniteSet(CpuSet) /\ CpuSet \subseteq Nat
  /\ list \in Seq(CL) /\ ncpu >= Len(list) /\ Len(list) > 0
  /\ Sched = Started /\ ListOf = [cpu \in Started |-> ListAt(cpu)]

VARIABLES
  apc,    \* where main is
  ai,     \* the index of its loop
  freed   \* lists and workers given to kfree

appVars == <<apc, ai, freed>>

LifeInit ==
  /\ Init
  /\ apc = "join"
  /\ ai = 0
  /\ freed = {}

AGoto(l, i) == apc' = l /\ ai' = i

----------------------------------------------------------------------------
(* The end of main.                                                           *)

\* Mutant: main does not wait
JoinNobody(cpu) ==
  /\ apc = "join" /\ ai = cpu
  /\ AGoto("join", ai + 1)
  /\ UNCHANGED <<vars, freed>>

\* pthread_join.  Where the mask has a gap sched[cpu] was never written, and joining
\* that garbage returns or kills the process.
Join(cpu) ==
  /\ apc = "join" /\ ai = cpu
  /\ cpu \in Sched => spc[cpu] \in {"exited", "oops"}
  /\ \/ AGoto("join", ai + 1)
     \/ cpu \notin Sched /\ AGoto("crashed", ai)
  /\ UNCHANGED <<vars, freed>>

Joined ==
  /\ apc = "join" /\ ai = ncpu
  /\ AGoto("lists", 1)
  /\ UNCHANGED <<vars, freed>>

\* COMPLLISTDESTROY: destroy_completion_list
DestroyList ==
  /\ apc = "lists" /\ ai <= Len(list)
  /\ freed' = freed \cup {list[ai]}
  /\ wt_ready_queue' = [wt_ready_queue EXCEPT ![list[ai]] = {}]
  /\ AGoto("lists", ai + 1)
  /\ UNCHANGED <<kwtVars, threads_ready, nthreads, wt_running, task, schedVars, workerVars>>

\* WORKERTHREADDESTROY: destroy_kworker_thread, which empties clid_list
DestroyWorker(w) ==
  /\ apc = "lists" /\ ai > Len(list) /\ w \notin freed
  /\ freed' = freed \cup {w}
  /\ clid_list' = [clid_list EXCEPT ![w] = <<>>]
  /\ UNCHANGED <<state, curr_sched_tid, mutex, nswitches, kclVars, wt_running, task,
                 schedVars, workerVars, apc, ai>>

\* UMSDESTROY, of which UmsProc speaks; main returns and the process is gone
Return ==
  /\ apc = "lists" /\ ai > Len(list) /\ Worker \subseteq freed
  /\ AGoto("done", ai)
  /\ UNCHANGED <<vars, freed>>

----------------------------------------------------------------------------
AppStep ==
  \/ (\E cpu \in 0..(ncpu - 1) : Join(cpu)) \/ Joined
  \/ DestroyList \/ (\E w \in Worker : DestroyWorker(w)) \/ Return

\* The threads of the process run until main returns or is killed
Running == apc \notin {"done", "crashed"}

\* What the mask makes of the others' sections: with one processor they are whole
Scheduled(t) == ncpu = 1 => HasProcessor(t)

LifeSchedStep(s) == Running /\ Scheduled(s) /\ SchedStep(s) /\ UNCHANGED appVars
LifeWorkerStep(w) == Running /\ Scheduled(w) /\ WorkerStep(w) /\ UNCHANGED appVars
LifeAppStep == (ncpu = 1 => InSection = {}) /\ AppStep

LifeNext == \/ \E s \in Sched : LifeSchedStep(s)
            \/ \E w \in Worker : LifeWorkerStep(w)
            \/ LifeAppStep

lifeVars == <<vars, appVars>>

LifeSpec == LifeInit /\ [][LifeNext]_lifeVars

\* On one processor a runnable thread is chosen at last, as in FairUniSpec
FairLifeSpec ==
  /\ LifeSpec
  /\ \A s \in Sched : SF_lifeVars(LifeSchedStep(s))
  /\ \A w \in Worker : SF_lifeVars(LifeWorkerStep(w))
  /\ SF_lifeVars(LifeAppStep)

----------------------------------------------------------------------------
(* Properties.                                                                *)

\* Main joins its schedulers and never its workers, and frees lists and workers as
\* soon as the last scheduler has left.  Still no worker uses a list or a
\* kworker_thread after that.  On one processor: a worker lets the schedulers of a
\* list go, by nthreads--, before its WORKERTHREADEXIT is over, but the scheduler
\* that executes it leaves only after its wake-up, the last thing it does.
NoFreedUse ==
  \A w \in Worker :
    /\ wpc[w] \in (YieldPC \cup ExitPC) \ {"x_done", "exited"} => w \notin freed
    /\ wpc[w] = "x_dec" => \A i \in DOMAIN wlists[w] : wlists[w][i] \notin freed

\* The program ends: every scheduler returns to its pthread_join, and main goes on to
\* its return (test.sh runs it hundreds of times, one after the other).
MainEnds == <>(apc = "done")
================================================================================
