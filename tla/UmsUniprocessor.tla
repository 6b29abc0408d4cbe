---------------------------- MODULE UmsUniprocessor ----------------------------
(****************************************************************************)
(* The dispatch protocol on one processor of the kernel the module was        *)
(* developed for, 5.4.121 "with Voluntary Kernel Preemption"                  *)
(* (doc/report.md).  There a thread inside the kernel is switched out only    *)
(* where it calls schedule() or takes a mutex (might_sleep), so a piece of an *)
(* ioctl without either is one section that no other thread interrupts.       *)
(* UmsDispatch leaves every access open to every interleaving, as on several  *)
(* processors; here a thread takes a step only when no other is in a section. *)
(****************************************************************************)
EXTENDS UmsDispatch

\* Every worker was created long before: two of them cannot both be in a section
ASSUME AllParked == Parked = Worker

\* Mutant: a mutex is taken between the unlock of proc_mutex and schedule()
SchedSectionSplit == {"wakeall", "unlock", "check", "get", "scan", "lock"}

\* EXECUTEUMSTHREAD from the unlock of proc_mutex to schedule(), and its wake-ups;
\* DEQUEUECOMPLLIST from the queueing on wt_ready_wq up to a locked worker
SchedSectionPC ==
  {"wake", "settask", "test", "wakeall", "unlock", "check", "get", "scan", "lock"}

\* Mutant: a mutex is taken after wake_up_scheduler and before schedule()
WorkerSectionSplit == {"y_read", "y_wake", "y_clear", "x_read", "x_wake", "x_clear"}

\* wake_up_scheduler, and UMSTHREADTYIELD up to its schedule()
WorkerSectionPC ==
  {"y_read", "y_wake", "y_clear", "park", "x_read", "x_wake", "x_clear"}

InSection == {s \in Sched : spc[s] \in SchedSectionPC}
             \cup {w \in Worker : wpc[w] \in WorkerSectionPC}

HasProcessor(t) == InSection \subseteq {t}

UniSchedStep(s) == HasProcessor(s) /\ SchedStep(s)

UniWorkerStep(w) == HasProcessor(w) /\ WorkerStep(w)

UniNext == (\E s \in Sched : UniSchedStep(s)) \/ (\E w \in Worker : UniWorkerStep(w))

UniSpec == Init /\ [][UniNext]_vars

\* A runnable thread is chosen at last: the processor is free again and again
FairUniSpec ==
  /\ UniSpec
  /\ \A s \in Sched : SF_vars(UniSchedStep(s))
  /\ \A w \in Worker : SF_vars(UniWorkerStep(w))
================================================================================
