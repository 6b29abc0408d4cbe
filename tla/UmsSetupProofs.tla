---------------------------- MODULE UmsSetupProofs ----------------------------
(****************************************************************************)
(* The two meetings of a creator and its new thread, on the condition         *)
(* variable and in the kernel, for any number of creators, lists and workers. *)
(****************************************************************************)
EXTENDS UmsSetup, TLAPS

\* Where ums_completion_list_add is, and where a creator has no new thread
AddPC == {"add", "clid", "queue", "ready_load", "ready_store", "nthreads_load",
          "nthreads_store"}
ListPC == {"init", "init_add", "init_inc", "create", "done"}
BusyPC == FramePC \cup AddPC

\* A new thread uses the frame: it holds its mutex, or is about to lock it
HoldPC == {"settid", "signal", "unlock"}
UsePC == {"lock"} \cup HoldPC

Shapes ==
  /\ cpc \in [Creator -> BusyPC \cup ListPC]
  /\ wi \in [Creator -> Nat \ {0}]
  /\ kwt \in [Creator -> BOOLEAN]
  /\ tid = [w \in Worker |-> tid[w]]
  /\ mutex = [w \in Worker |-> mutex[w]]
  /\ cond = [w \in Worker |-> cond[w]]
  /\ wpc = [w \in Worker |-> wpc[w]]

HasWorker == \A c \in Creator : cpc[c] \in BusyPC => wi[c] \in 1..Len(WorkersOf[c])

TestsUnderLock == \A c \in Creator : cpc[c] = "test" => mutex[worker(c)] = c

\* While a new thread uses the frame its creator is in the loop on the tid, and
\* outside the section under the mutex whenever the thread is inside
FrameUsed ==
  \A w \in Worker :
    /\ wpc[w] \in UsePC =>
         parent(w) \in Creator /\ worker(parent(w)) = w /\ cond[w] \in {"ready", "waited"}
    /\ wpc[w] = "lock" => cpc[parent(w)] \in {"lock", "test"} /\ tid[w] = None
    /\ wpc[w] \in HoldPC => cpc[parent(w)] = "lock" /\ mutex[w] = w

\* The worker of c has been found in the table of the kernel module
Found(c) == tid[worker(c)] \in wt_htable

FoundStays ==
  \A c \in Creator :
    \/ cpc[c] \in {"settask", "found", "asleep", "again"} /\ kwt[c]
    \/ cpc[c] \in AddPC
    => Found(c)

SetupInv == Shapes /\ HasWorker /\ TestsUnderLock /\ FrameUsed /\ FoundStays

LEMMA InitSetupInv == Init => SetupInv
BY DEF Init, SetupInv, Shapes, HasWorker, TestsUnderLock, FrameUsed, FoundStays, BusyPC,
       FramePC, AddPC, ListPC, UsePC, HoldPC

\* Nobody else creates the thread a creator is at
LEMMA ParentIsCreator ==
  ASSUME SetupAssumption, NEW c \in Creator, wi[c] \in 1..Len(WorkersOf[c])
  PROVE  worker(c) \in Worker /\ parent(worker(c)) = c
<1>1. WorkersOf[c] \in Seq(Worker) /\ DOMAIN WorkersOf[c] = 1..Len(WorkersOf[c])
  BY DEF SetupAssumption
<1>2. worker(c) \in Worker
  BY <1>1 DEF worker
<1>3. \E i \in DOMAIN WorkersOf[c] : WorkersOf[c][i] = worker(c)
  BY <1>1 DEF worker
<1>4. ASSUME NEW d \in Creator, NEW i \in DOMAIN WorkersOf[d], WorkersOf[d][i] = worker(c)
      PROVE  d = c
  <2>1. WorkersOf[d] \in Seq(Worker)
    BY DEF SetupAssumption
  <2>2. i \in 1..Len(WorkersOf[d])
    BY <2>1
  <2> QED
    BY <1>4, <2>2 DEF SetupAssumption, worker
<1> QED
  BY <1>2, <1>3, <1>4 DEF parent

\* A step of a creator that touches neither frames nor threads
LEMMA LocalStep ==
  ASSUME SetupInv, NEW c \in Creator, NEW l \in BusyPC \cup ListPC, l \notin {"lock", "test"},
         cpc[c] \notin {"lock", "test"}, Goto(c, l),
         UNCHANGED <<tid, mutex, cond, wt_htable, wpc>>,
         wi' \in [Creator -> Nat \ {0}], \A d \in Creator \ {c} : wi'[d] = wi[d],
         kwt' \in [Creator -> BOOLEAN], \A d \in Creator \ {c} : kwt'[d] = kwt[d],
         l \in BusyPC => cpc[c] \in BusyPC /\ wi'[c] = wi[c],
         l \in AddPC \/ (l \in {"settask", "found", "asleep", "again"} /\ kwt'[c]) => Found(c)
  PROVE  SetupInv'
<1> USE DEF SetupInv
<1>1. /\ cpc'[c] = l /\ cpc' \in [Creator -> BusyPC \cup ListPC]
      /\ \A d \in Creator \ {c} : cpc'[d] = cpc[d] /\ worker(d)' = worker(d)
  BY DEF Shapes, Goto, worker
<1>2. Shapes'
  BY <1>1 DEF Shapes
<1>3. HasWorker'
  BY <1>1 DEF HasWorker
<1>4. TestsUnderLock'
  BY <1>1 DEF TestsUnderLock
<1>5. FrameUsed'
  <2> SUFFICES ASSUME NEW w \in Worker, wpc[w] \in UsePC
               PROVE  /\ parent(w) \in Creator /\ worker(parent(w))' = w
                      /\ cond[w] \in {"ready", "waited"}
                      /\ wpc[w] = "lock" => cpc'[parent(w)] \in {"lock", "test"} /\ tid[w] = None
                      /\ wpc[w] \in HoldPC => cpc'[parent(w)] = "lock" /\ mutex[w] = w
    BY DEF FrameUsed, UsePC, parent
  <2>1. parent(w) \in Creator \ {c}
    BY DEF FrameUsed, UsePC
  <2> QED
    BY <1>1, <2>1 DEF FrameUsed
<1>6. FoundStays'
  <2> SUFFICES ASSUME NEW d \in Creator,
                      \/ cpc'[d] \in {"settask", "found", "asleep", "again"} /\ kwt'[d]
                      \/ cpc'[d] \in AddPC
               PROVE  Found(d)'
    BY DEF FoundStays
  <2>1. CASE d = c
    <3>1. l \in BusyPC /\ Found(c)
      BY <1>1, <2>1 DEF BusyPC, FramePC
    <3>2. worker(c)' = worker(c)
      BY <3>1 DEF worker
    <3> QED
      BY <2>1, <3>1, <3>2 DEF Found
  <2>2. CASE d # c
    BY <1>1, <2>2 DEF FoundStays, Found
  <2> QED
    BY <2>1, <2>2
<1> QED
  BY <1>2, <1>3, <1>4, <1>5, <1>6

LEMMA StartStep ==
  ASSUME SetupInv, SetupAssumption, NEW c \in Creator, StartThread(c)
  PROVE  SetupInv'
<1> USE DEF SetupInv
<1> DEFINE w == worker(c)
<1>1. /\ wi[c] \in 1..Len(WorkersOf[c]) /\ UNCHANGED <<mutex, wt_htable, wi, kwt>>
      /\ tid' = [tid EXCEPT ![w] = None] /\ cond' = [cond EXCEPT ![w] = "ready"]
      /\ wpc' = [wpc EXCEPT ![w] = "lock"] /\ cpc' = [cpc EXCEPT ![c] = "lock"]
      /\ cpc[c] = "create"
  <2>1. cpc[c] = "create" /\ wi[c] <= Len(WorkersOf[c]) /\ wi[c] \in Nat \ {0}
    BY DEF StartThread, At, Shapes
  <2>2. Len(WorkersOf[c]) \in Nat
    BY DEF SetupAssumption
  <2> QED
    BY <2>1, <2>2 DEF StartThread, Goto, kernelVars
<1>2. w \in Worker /\ parent(w) = c
  BY <1>1, ParentIsCreator
<1>3. \A d \in Creator : worker(d)' = worker(d)
  BY <1>1 DEF worker
<1>4. \A d \in Creator \ {c} : cpc[d] \in BusyPC => worker(d) # w
  BY <1>2, ParentIsCreator DEF HasWorker
<1> HIDE DEF w
<1>5. Shapes'
  BY <1>1 DEF Shapes, BusyPC, FramePC
<1>6. HasWorker'
  BY <1>1 DEF HasWorker, Shapes
<1>7. TestsUnderLock'
  BY <1>1, <1>3 DEF TestsUnderLock, Shapes
<1>8. FrameUsed'
  <2> SUFFICES ASSUME NEW v \in Worker
               PROVE  /\ wpc'[v] \in UsePC =>
                           /\ parent(v) \in Creator /\ worker(parent(v))' = v
                           /\ cond'[v] \in {"ready", "waited"}
                      /\ wpc'[v] = "lock" => cpc'[parent(v)] \in {"lock", "test"} /\ tid'[v] = None
                      /\ wpc'[v] \in HoldPC => cpc'[parent(v)] = "lock" /\ mutex'[v] = v
    BY DEF FrameUsed, parent
  <2>1. CASE v = w
    BY <1>1, <1>2, <1>3, <2>1 DEF Shapes, UsePC, HoldPC, w
  <2>2. CASE v # w
    BY <1>1, <1>2, <1>3, <2>2 DEF Shapes, UsePC, FrameUsed
  <2> QED
    BY <2>1, <2>2
<1>9. FoundStays'
  <2> SUFFICES ASSUME NEW d \in Creator,
                      \/ cpc'[d] \in {"settask", "found", "asleep", "again"} /\ kwt'[d]
                      \/ cpc'[d] \in AddPC
               PROVE  Found(d)'
    BY DEF FoundStays
  <2>1. d # c /\ cpc[d] = cpc'[d] /\ cpc[d] \in BusyPC
    BY <1>1 DEF Shapes, AddPC, BusyPC, FramePC
  <2>2. tid'[worker(d)] = tid[worker(d)]
    BY <1>1, <1>4, <2>1, ParentIsCreator DEF Shapes, HasWorker
  <2> QED
    BY <1>1, <1>3, <2>1, <2>2 DEF FoundStays, Found
<1> QED
  BY <1>5, <1>6, <1>7, <1>8, <1>9

\* The steps of a creator on its own frame
LEMMA FrameStep ==
  ASSUME SetupInv, SetupAssumption, NEW c \in Creator,
         LockFrame(c) \/ TestTid(c) \/ WakeSpuriously(c) \/ DestroyCond(c)
  PROVE  SetupInv'
<1> USE DEF SetupInv
<1> DEFINE w == worker(c)
<1>1. /\ UNCHANGED <<tid, wt_htable, wi, kwt, wpc>>
      /\ cpc[c] \in {"lock", "test", "destroy"}
      /\ \A d \in Creator \ {c} : cpc'[d] = cpc[d]
      /\ cpc'[c] \in {"lock", "test", "destroy", "lookup"}
      /\ mutex' = [mutex EXCEPT ![w] = mutex'[w]] /\ cond' = [cond EXCEPT ![w] = cond'[w]]
  BY DEF LockFrame, TestTid, WakeSpuriously, DestroyCond, At, Goto, kernelVars, Shapes
<1>2. wi[c] \in 1..Len(WorkersOf[c])
  BY <1>1 DEF HasWorker, BusyPC, FramePC
<1>3. w \in Worker /\ parent(w) = c
  BY <1>2, ParentIsCreator
<1>4. \A d \in Creator : worker(d)' = worker(d)
  BY <1>1 DEF worker
<1>5. \A d \in Creator \ {c} : cpc[d] \in BusyPC => worker(d) # w
  BY <1>3, ParentIsCreator DEF HasWorker
<1>6. Shapes'
  <2>1. PICK l \in {"lock", "test", "destroy", "lookup"} : cpc' = [cpc EXCEPT ![c] = l]
    BY DEF LockFrame, TestTid, WakeSpuriously, DestroyCond, At, Goto, Shapes
  <2>2. cpc' \in [Creator -> BusyPC \cup ListPC]
    BY <2>1 DEF Shapes, BusyPC, FramePC
  <2> QED
    BY <1>1, <2>2 DEF Shapes
<1>7. HasWorker'
  <2> SUFFICES ASSUME NEW d \in Creator, cpc'[d] \in BusyPC
               PROVE  wi[d] \in 1..Len(WorkersOf[d])
    BY <1>1 DEF HasWorker
  <2> QED
    BY <1>1, <1>2 DEF HasWorker
<1>8. TestsUnderLock'
  <2> SUFFICES ASSUME NEW d \in Creator, cpc'[d] = "test" PROVE mutex'[worker(d)] = d
    BY <1>4 DEF TestsUnderLock
  <2>1. CASE d = c
    BY <1>3, <2>1 DEF LockFrame, TestTid, WakeSpuriously, DestroyCond, At, Goto, Shapes
  <2>2. CASE d # c
    <3>1. cpc[d] = "test" /\ worker(d) # w
      BY <1>1, <1>5, <2>2 DEF Shapes, BusyPC, FramePC
    <3>2. worker(d) \in Worker
      BY <3>1, ParentIsCreator DEF HasWorker, BusyPC, FramePC
    <3> QED
      BY <1>1, <3>1, <3>2 DEF Shapes, TestsUnderLock
  <2> QED
    BY <2>1, <2>2
<1>9. FrameUsed'
  <2> SUFFICES ASSUME NEW v \in Worker, wpc[v] \in UsePC
               PROVE  /\ parent(v) \in Creator /\ worker(parent(v))' = v
                      /\ cond'[v] \in {"ready", "waited"}
                      /\ wpc[v] = "lock" => cpc'[parent(v)] \in {"lock", "test"} /\ tid[v] = None
                      /\ wpc[v] \in HoldPC => cpc'[parent(v)] = "lock" /\ mutex'[v] = v
    BY <1>1 DEF FrameUsed, parent, UsePC
  <2>1. parent(v) \in Creator /\ worker(parent(v))' = v
    BY <1>4 DEF FrameUsed, UsePC
  <2>2. CASE v = w
    <3>1. cpc[c] \in {"lock", "test"}
      BY <1>3, <2>2 DEF FrameUsed, UsePC
    <3>2. CASE LockFrame(c)
      BY <1>3, <2>1, <2>2, <3>2 DEF LockFrame, At, Goto, Shapes, FrameUsed, UsePC, HoldPC,
         SetupAssumption
    <3>3. CASE TestTid(c)
      <4>1. mutex[w] = c /\ c \notin Worker
        BY <3>3 DEF TestTid, At, TestsUnderLock, SetupAssumption
      <4>2. wpc[w] = "lock" /\ tid[w] = None
        BY <1>3, <2>2, <4>1 DEF FrameUsed, UsePC
      <4>3. cpc'[c] = "lock" /\ cond'[w] = "waited"
        BY <1>3, <3>3, <4>2 DEF TestTid, TidKnown, Goto, Shapes
      <4> QED
        BY <1>3, <2>1, <2>2, <4>2, <4>3 DEF HoldPC
    <3>4. CASE WakeSpuriously(c)
      BY <1>3, <2>1, <2>2, <3>4 DEF WakeSpuriously, At, Shapes, FrameUsed, UsePC
    <3>5. CASE DestroyCond(c)
      BY <3>1, <3>5 DEF DestroyCond, At
    <3> QED
      BY <3>2, <3>3, <3>4, <3>5
  <2>3. CASE v # w
    <3>1. parent(v) # c
      BY <2>3 DEF FrameUsed, UsePC
    <3> QED
      BY <1>1, <2>1, <2>3, <3>1 DEF Shapes, FrameUsed, UsePC
  <2> QED
    BY <2>2, <2>3
<1>10. FoundStays'
  <2> SUFFICES ASSUME NEW d \in Creator,
                      \/ cpc'[d] \in {"settask", "found", "asleep", "again"} /\ kwt'[d]
                      \/ cpc'[d] \in AddPC
               PROVE  Found(d)'
    BY DEF FoundStays
  <2>1. d # c /\ cpc[d] = cpc'[d]
    BY <1>1 DEF Shapes, AddPC
  <2> QED
    BY <1>1, <1>4, <2>1 DEF FoundStays, Found
<1> QED
  BY <1>6, <1>7, <1>8, <1>9, <1>10

\* Everything else a creator does
LEMMA OtherCreatorStep ==
  ASSUME SetupInv, NEW c \in Creator,
         \/ InitList(c) \/ AddWorker(c)
         \/ FirstLookup(c) \/ SetTaskState(c) \/ TestCreated(c) \/ CreatorWoken(c)
         \/ NextLookup(c)
  PROVE  SetupInv'
<1>1. cpc \in [Creator -> BusyPC \cup ListPC] /\ wi \in [Creator -> Nat \ {0}]
      /\ kwt \in [Creator -> BOOLEAN]
  BY DEF SetupInv, Shapes
<1>2. CASE InitList(c)
  <2>1. /\ UNCHANGED <<tid, mutex, cond, wt_htable, wpc, wi, kwt>>
        /\ cpc[c] \notin {"lock", "test"}
    BY <1>2 DEF InitList, ReadLastId, AddList, IncLastId, ListsMade, At, libVars, kernelVars
  <2>2. PICK l \in ListPC : Goto(c, l)
    BY <1>2 DEF InitList, ReadLastId, AddList, IncLastId, ListsMade, ListPC
  <2>3. l \notin BusyPC /\ l \notin {"lock", "test", "settask", "found", "asleep", "again"}
        /\ l \notin AddPC
    BY DEF ListPC, BusyPC, FramePC, AddPC
  <2> QED
    BY <1>1, <2>1, <2>2, <2>3, LocalStep
<1>3. CASE AddWorker(c)
  <2>1. CASE WorkerAdded(c) \/ WorkersMade(c)
    <3>1. /\ UNCHANGED <<tid, mutex, cond, wt_htable, wpc, kwt>>
          /\ cpc[c] \notin {"lock", "test"}
          /\ \A d \in Creator \ {c} : wi'[d] = wi[d]
          /\ wi' \in [Creator -> Nat \ {0}]
      BY <1>1, <2>1 DEF WorkerAdded, WorkersMade, At, libVars, kernelVars
    <3>2. PICK l \in {"create", "done"} : Goto(c, l)
      BY <2>1 DEF WorkerAdded, WorkersMade
    <3>3. l \in ListPC /\ l \notin BusyPC /\ l \notin AddPC
          /\ l \notin {"lock", "test", "settask", "found", "asleep", "again"}
      BY DEF ListPC, BusyPC, FramePC, AddPC
    <3> QED
      BY <1>1, <3>1, <3>2, <3>3, LocalStep
  <2>2. CASE ~(WorkerAdded(c) \/ WorkersMade(c))
    <3>1. /\ UNCHANGED <<tid, mutex, cond, wt_htable, wpc, wi, kwt>>
          /\ cpc[c] \in AddPC
      BY <1>3, <2>2 DEF AddWorker, AddToArray, AddClid, AddElement, Load, StoreReady,
         StoreNthreads, At, libVars, kernelVars, AddPC
    <3>2. PICK l \in AddPC : Goto(c, l)
      BY <1>3, <2>2 DEF AddWorker, AddToArray, AddClid, AddElement, Load, StoreReady,
         StoreNthreads, AddPC
    <3>3. Found(c)
      BY <3>1 DEF SetupInv, FoundStays
    <3>4. l \in BusyPC /\ cpc[c] \in BusyPC /\ {l, cpc[c]} \cap {"lock", "test"} = {}
      BY <3>1 DEF BusyPC, AddPC
    <3> QED
      BY <1>1, <3>1, <3>2, <3>3, <3>4, LocalStep
  <2> QED
    BY <2>1, <2>2
<1>4. CASE FirstLookup(c) \/ NextLookup(c)
  <2>1. /\ UNCHANGED <<tid, mutex, cond, wt_htable, wpc, wi>>
        /\ cpc[c] \in {"lookup", "again"}
        /\ kwt' \in [Creator -> BOOLEAN] /\ \A d \in Creator \ {c} : kwt'[d] = kwt[d]
        /\ kwt'[c] => Found(c)
    <3>1. /\ UNCHANGED <<tid, mutex, cond, wt_htable, wpc, wi>>
          /\ cpc[c] \in {"lookup", "again"}
      BY <1>4 DEF FirstLookup, NextLookup, At, libVars, kernelVars
    <3>2. kwt' = [kwt EXCEPT ![c] = Found(c)]
      BY <1>4 DEF FirstLookup, NextLookup, get_kworker_thread, Found
    <3>3. Found(c) \in BOOLEAN
      BY DEF Found
    <3>4. kwt'[c] = Found(c) /\ \A d \in Creator \ {c} : kwt'[d] = kwt[d]
      BY <1>1, <3>2, Zenon
    <3>5. kwt' \in [Creator -> BOOLEAN]
      BY <1>1, <3>2, <3>3, Zenon
    <3> QED
      BY <3>1, <3>4, <3>5
  <2>2. PICK l \in {"settask", "found"} : Goto(c, l)
    BY <1>4 DEF FirstLookup, NextLookup
  <2>3. /\ {l, cpc[c]} \subseteq BusyPC /\ {l, cpc[c]} \cap {"lock", "test"} = {}
        /\ l \notin AddPC
    BY <2>1 DEF BusyPC, FramePC, AddPC
  <2> QED
    BY <1>1, <2>1, <2>2, <2>3, LocalStep
<1>5. CASE SetTaskState(c) \/ TestCreated(c) \/ CreatorWoken(c)
  <2>1. /\ UNCHANGED <<tid, mutex, cond, wt_htable, wpc, wi, kwt>>
        /\ cpc[c] \in {"settask", "found", "asleep"}
    BY <1>5 DEF SetTaskState, TestCreated, CreatorWoken, At, libVars, kernelVars
  <2>2. kwt[c] => Found(c)
    BY <2>1 DEF SetupInv, FoundStays
  <2>3. PICK l \in {"found", "add", "asleep", "again"} : Goto(c, l) /\ (l = "add" => kwt[c])
    BY <1>5 DEF SetTaskState, TestCreated, CreatorWoken
  <2>4. /\ {l, cpc[c]} \subseteq BusyPC /\ {l, cpc[c]} \cap {"lock", "test"} = {}
        /\ l \in AddPC => l = "add"
    BY <2>1 DEF BusyPC, FramePC, AddPC
  <2> QED
    BY <1>1, <2>1, <2>2, <2>3, <2>4, LocalStep
<1> QED
  BY <1>2, <1>3, <1>4, <1>5

\* The new thread
LEMMA NewThreadStep ==
  ASSUME SetupInv, SetupAssumption, NEW w \in Worker, WorkerStep(w)
  PROVE  SetupInv'
<1> USE DEF SetupInv
<1>1. /\ UNCHANGED <<cpc, wi, kwt>> /\ wt_htable \subseteq wt_htable'
      /\ tid' = [tid EXCEPT ![w] = tid'[w]] /\ mutex' = [mutex EXCEPT ![w] = mutex'[w]]
      /\ cond' = [cond EXCEPT ![w] = cond'[w]] /\ wpc' = [wpc EXCEPT ![w] = wpc'[w]]
  BY DEF WorkerStep, LockParentFrame, SetTid, SignalParent, UnlockParentFrame, CreateKworker,
     WakeParent, Park, WAt, WGoto, libVars, kernelVars, Shapes
<1>2. \A d \in Creator : worker(d)' = worker(d)
  BY <1>1 DEF worker
<1>3. Shapes' /\ HasWorker'
  BY <1>1 DEF Shapes, HasWorker
<1>4. \/ UNCHANGED <<tid, mutex, cond>> /\ wpc[w] \notin UsePC /\ wpc'[w] \notin UsePC
      \/ LockParentFrame(w) \/ SetTid(w) \/ SignalParent(w) \/ UnlockParentFrame(w)
  BY DEF WorkerStep, CreateKworker, WakeParent, Park, WAt, WGoto, libVars, UsePC, HoldPC, Shapes
<1>5. \A c \in Creator : cpc[c] \in BusyPC =>
        worker(c) \in Worker /\ parent(worker(c)) = c
  BY ParentIsCreator DEF HasWorker
<1>6. TestsUnderLock'
  <2> SUFFICES ASSUME NEW c \in Creator, cpc[c] = "test" PROVE mutex'[worker(c)] = c
    BY <1>1, <1>2 DEF TestsUnderLock
  <2>1. mutex[worker(c)] = c /\ c # None /\ c \notin Worker
    BY DEF TestsUnderLock, SetupAssumption
  <2>2. worker(c) \in Worker
    BY <1>5 DEF BusyPC, FramePC
  <2>3. CASE worker(c) # w
    BY <1>1, <2>1, <2>2, <2>3 DEF Shapes
  <2>4. CASE worker(c) = w
    <3>1. mutex[w] \notin {None, w}
      BY <2>1, <2>4
    <3>2. UNCHANGED mutex
      BY <1>4, <3>1 DEF LockParentFrame, SetTid, SignalParent, UnlockParentFrame, FrameUsed,
         WAt, HoldPC
    <3> QED
      BY <2>1, <3>2
  <2> QED
    BY <2>3, <2>4
<1>7. FrameUsed'
  <2> SUFFICES ASSUME NEW v \in Worker, wpc'[v] \in UsePC
               PROVE  /\ parent(v) \in Creator /\ worker(parent(v))' = v
                      /\ cond'[v] \in {"ready", "waited"}
                      /\ wpc'[v] = "lock" => cpc[parent(v)] \in {"lock", "test"} /\ tid'[v] = None
                      /\ wpc'[v] \in HoldPC => cpc[parent(v)] = "lock" /\ mutex'[v] = v
    BY <1>1 DEF FrameUsed, parent, UsePC
  <2>1. CASE v # w
    BY <1>1, <1>2, <2>1 DEF Shapes, FrameUsed, UsePC
  <2>2. CASE v = w
    <3>1. CASE LockParentFrame(w)
      <4>1. /\ wpc[w] = "lock" /\ mutex[w] = None /\ wpc'[w] = "settid" /\ mutex'[w] = w
            /\ UNCHANGED cond
        BY <3>1 DEF LockParentFrame, WAt, WGoto, Shapes
      <4>2. /\ parent(w) \in Creator /\ worker(parent(w)) = w /\ cond[w] \in {"ready", "waited"}
            /\ cpc[parent(w)] \in {"lock", "test"}
        BY <4>1 DEF FrameUsed, UsePC
      <4>3. cpc[parent(w)] # "test"
        BY <4>1, <4>2 DEF TestsUnderLock, SetupAssumption
      <4> QED
        BY <1>2, <2>2, <4>1, <4>2, <4>3
    <3>2. CASE SetTid(w) \/ SignalParent(w)
      <4>1. /\ wpc[w] \in {"settid", "signal"} /\ wpc'[w] \in {"signal", "unlock"}
            /\ UNCHANGED mutex
            /\ cond[w] \in {"ready", "waited"} => cond'[w] \in {"ready", "waited"}
        BY <3>2 DEF SetTid, SignalParent, WAt, WGoto, Shapes
      <4>2. /\ parent(w) \in Creator /\ worker(parent(w)) = w /\ cond[w] \in {"ready", "waited"}
            /\ cpc[parent(w)] = "lock" /\ mutex[w] = w
        BY <4>1 DEF FrameUsed, UsePC, HoldPC
      <4> QED
        BY <1>2, <2>2, <4>1, <4>2
    <3>3. CASE UnlockParentFrame(w)
      BY <2>2, <3>3 DEF UnlockParentFrame, WGoto, Shapes, UsePC, HoldPC
    <3> QED
      BY <1>4, <2>2, <3>1, <3>2, <3>3
  <2> QED
    BY <2>1, <2>2
<1>8. FoundStays'
  <2> SUFFICES ASSUME NEW c \in Creator,
                      \/ cpc[c] \in {"settask", "found", "asleep", "again"} /\ kwt[c]
                      \/ cpc[c] \in AddPC
               PROVE  Found(c)'
    BY <1>1 DEF FoundStays
  <2>1. Found(c) /\ cpc[c] # "lock" /\ cpc[c] \in BusyPC
    BY DEF FoundStays, BusyPC, FramePC, AddPC
  <2>2. tid'[worker(c)] = tid[worker(c)]
    <3>1. worker(c) \in Worker /\ parent(worker(c)) = c
      BY <1>5, <2>1
    <3>2. CASE worker(c) = w
      <4>1. ~SetTid(w)
        BY <2>1, <3>1, <3>2 DEF SetTid, WAt, FrameUsed, HoldPC
      <4> QED
        BY <1>4, <4>1 DEF LockParentFrame, SignalParent, UnlockParentFrame
    <3>3. CASE worker(c) # w
      BY <1>1, <3>1, <3>3 DEF Shapes
    <3> QED
      BY <3>2, <3>3
  <2> QED
    BY <1>1, <1>2, <2>1, <2>2 DEF Found
<1> QED
  BY <1>3, <1>6, <1>7, <1>8

LEMMA SetupInvPreserved ==
  ASSUME SetupInv, SetupAssumption, [Next]_vars
  PROVE  SetupInv'
<1>1. CASE UNCHANGED vars
  BY <1>1 DEF vars, libVars, kernelVars, SetupInv, Shapes, HasWorker, TestsUnderLock,
     FrameUsed, FoundStays, Found, worker, parent
<1>2. ASSUME NEW c \in Creator, CreatorStep(c) \/ WakeSpuriously(c)
      PROVE  SetupInv'
  BY <1>2, StartStep, FrameStep, OtherCreatorStep DEF CreatorStep, CreateWorker
<1>3. ASSUME NEW w \in Worker, WorkerStep(w)
      PROVE  SetupInv'
  BY <1>3, NewThreadStep
<1> QED
  BY <1>1, <1>2, <1>3 DEF Next

LEMMA SetupInvariance == Spec => []SetupInv
<1>1. SetupInv /\ [Next]_vars => SetupInv'
  BY SetupAssumption, SetupInvPreserved
<1> QED
  BY InitSetupInv, <1>1, PTL DEF Spec

\* ums_create_worker_thread does not return, nor destroy the condition variable,
\* while the new thread still uses the frame of its caller.
THEOREM FrameIsKept == Spec => []FrameOutlivesUse
<1>1. SetupInv => FrameOutlivesUse
  BY DEF SetupInv, FrameUsed, FrameOutlivesUse, UsePC, HoldPC, FramePC
<1> QED
  BY <1>1, SetupInvariance, PTL

\* WAITWTCREATION returns only when the worker has its kworker_thread, and the
\* COMPLLISTADDs that follow find it.
THEOREM AddedIsCreated == Spec => []AddsCreatedWorker
<1>1. SetupInv => AddsCreatedWorker
  BY DEF SetupInv, FoundStays, Found, AddsCreatedWorker, At, AddPC
<1> QED
  BY <1>1, SetupInvariance, PTL
================================================================================
