----------------------------- MODULE UmsScheduling -----------------------------
(****************************************************************************)
(* What user mode scheduling promises, without the kernel: a scheduler thread *)
(* is a processor that runs one worker thread at a time, a worker runs on one *)
(* processor at a time and only when it has been given to it, a worker that   *)
(* has returned never runs again, and a processor shuts down only when every  *)
(* worker of its completion list has returned.                                *)
(****************************************************************************)
CONSTANTS
  Sched,   \* scheduler threads
  Worker,  \* worker threads
  None,    \* no worker
  Serves   \* [Sched -> SUBSET Worker]: the workers on the scheduler's list

VARIABLES
  status,  \* what each worker is doing
  cpu,     \* the worker each scheduler runs, or None
  closed   \* the schedulers that have shut down

vars == <<status, cpu, closed>>

Init ==
  /\ status = [w \in Worker |-> "ready"]
  /\ cpu = [s \in Sched |-> None]
  /\ closed = {}

\* ExecuteUmsThread: an idle scheduler runs a ready worker of its list
Dispatch(s, w) ==
  /\ s \notin closed /\ cpu[s] = None
  /\ w \in Serves[s] /\ status[w] = "ready"
  /\ cpu' = [cpu EXCEPT ![s] = w]
  /\ status' = [status EXCEPT ![w] = "running"]
  /\ UNCHANGED closed

\* UmsThreadYield (next = "ready"), or the end of the routine (next = "done")
Stop(s, next) ==
  /\ cpu[s] # None
  /\ status' = [status EXCEPT ![cpu[s]] = next]
  /\ cpu' = [cpu EXCEPT ![s] = None]
  /\ UNCHANGED closed

Close(s) ==
  /\ s \notin closed /\ cpu[s] = None
  /\ \A w \in Serves[s] : status[w] = "done"
  /\ closed' = closed \cup {s}
  /\ UNCHANGED <<status, cpu>>

Next ==
  \E s \in Sched :
    \/ \E w \in Worker : Dispatch(s, w)
    \/ \E next \in {"ready", "done"} : Stop(s, next)
    \/ Close(s)

Spec == Init /\ [][Next]_vars
================================================================================
