----------------------------- MODULE UmsProcProofs -----------------------------
(****************************************************************************)
(* OwnDirectory for any number of processes, schedulers, workers and readers, *)
(* for any hash function and however the removals interleave.                 *)
(****************************************************************************)
EXTENDS UmsProc, TLAPS

(****************************************************************************)
(* The invariant.  An identifier in use is below last_sched_id, except that   *)
(* the holder of pup->mutex has used last_sched_id itself before moving it on. *)
(****************************************************************************)
Shapes ==
  /\ last_sched_id \in [Proc -> Nat]
  /\ pmutex \in [Proc -> Sched \cup {None}]
  /\ path = [n \in Sched \cup WNode |-> path[n]]
  /\ spc = [s \in Sched |-> spc[s]]
  /\ todo = [s \in Sched |-> todo[s]]
  /\ kcle \in [Sched -> Worker \cup {None}]

Directories == \A s \in Sched : path[s] = <<>> \/ path[s] \in Proc \X Nat

UsedIds ==
  \A s \in Sched, p \in Proc, i \in Nat : path[s] = <<p, i>> =>
    i < last_sched_id[p] \/ (i = last_sched_id[p] /\ pmutex[p] = s)

Holders ==
  \A s \in Sched, p \in Proc : spc[s] \in {"locked", "added"} /\ Head(todo[s]) = p =>
    pmutex[p] = s

ProcInv == Shapes /\ Directories /\ UsedIds /\ Holders /\ OwnDirectory

invVars == <<last_sched_id, pmutex, path, spc, todo, kcle>>

LEMMA EmptyIsNoPair == ASSUME NEW p, NEW i PROVE <<>> # <<p, i>>
<1>1. Len(<<>>) = 0 /\ Len(<<p, i>>) = 2
  OBVIOUS
<1> QED
  BY <1>1

LEMMA InitProcInv == Init => ProcInv
<1> SUFFICES ASSUME Init PROVE ProcInv
  OBVIOUS
<1>1. Shapes
  BY DEF Init, Shapes
<1>2. \A s \in Sched : path[s] = <<>> /\ spc[s] = "start"
  BY DEF Init
<1>3. Directories /\ Holders /\ OwnDirectory
  BY <1>2 DEF Directories, Holders, OwnDirectory
<1>4. UsedIds
  BY <1>2, EmptyIsNoPair DEF UsedIds
<1> QED
  BY <1>1, <1>3, <1>4 DEF ProcInv

LEMMA QuietStep == ASSUME ProcInv, UNCHANGED invVars PROVE ProcInv'
BY DEF ProcInv, invVars, Shapes, Directories, UsedIds, Holders, OwnDirectory

\* A step of a scheduler outside the section under pup->mutex
LEMMA OutsideStep ==
  ASSUME ProcInv, NEW s \in Sched, NEW l, l \notin {"locked", "added"}, SGoto(s, l),
         UNCHANGED <<last_sched_id, pmutex, path>>,
         todo' = [todo EXCEPT ![s] = todo'[s]],
         kcle' \in [Sched -> Worker \cup {None}]
  PROVE  ProcInv'
<1>1. Shapes'
  BY DEF ProcInv, Shapes, SGoto
<1>2. Directories' /\ UsedIds' /\ OwnDirectory'
  BY DEF ProcInv, Directories, UsedIds, OwnDirectory
<1>3. Holders'
  <2> SUFFICES ASSUME NEW t \in Sched, NEW p \in Proc, spc'[t] \in {"locked", "added"},
                      Head(todo'[t]) = p
               PROVE  pmutex'[p] = t
    BY DEF Holders
  <2>1. t # s
    BY DEF ProcInv, Shapes, SGoto
  <2>2. spc[t] = spc'[t] /\ todo[t] = todo'[t]
    BY <2>1 DEF ProcInv, Shapes, SGoto
  <2> QED
    BY <2>2 DEF ProcInv, Holders
<1> QED
  BY <1>1, <1>2, <1>3 DEF ProcInv

LEMMA LockStep ==
  ASSUME ProcInv, ProcAssumption, NEW s \in Sched, NEW pup \in Proc, LockPup(s, pup)
  PROVE  ProcInv'
<1> USE DEF ProcInv
<1>1. UNCHANGED <<last_sched_id, path, todo, kcle>>
  BY DEF LockPup, tableVars, locals
<1>2. /\ Head(todo[s]) = pup /\ pmutex[pup] = None
      /\ pmutex' = [pmutex EXCEPT ![pup] = s]
      /\ spc' = [spc EXCEPT ![s] = "locked"]
  BY DEF LockPup, SGoto
<1>3. Shapes'
  BY <1>1, <1>2 DEF Shapes
<1>4. Directories' /\ OwnDirectory'
  BY <1>1 DEF Directories, OwnDirectory
<1>5. \A t \in Sched, p \in Proc : pmutex[p] = t => pmutex'[p] = t
  BY <1>2 DEF Shapes, ProcAssumption
<1>6. UsedIds'
  BY <1>1, <1>5 DEF UsedIds
<1>7. Holders'
  BY <1>1, <1>2, <1>5 DEF Holders, Shapes
<1> QED
  BY <1>3, <1>4, <1>6, <1>7

LEMMA AddStep ==
  ASSUME ProcInv, NEW s \in Sched, NEW pup \in Proc, AddFolder(s, pup)
  PROVE  ProcInv'
<1> USE DEF ProcInv
<1>1. UNCHANGED <<last_sched_id, pmutex, todo, kcle>>
  BY DEF AddFolder, idVars
<1>2. /\ spc[s] = "locked" /\ Head(todo[s]) = pup
      /\ path' = [path EXCEPT ![s] = <<pup, last_sched_id[pup]>>]
      /\ spc' = [spc EXCEPT ![s] = "added"]
  BY DEF AddFolder, SGoto
<1>3. pmutex[pup] = s
  BY <1>2 DEF Holders
<1>4. /\ path'[s] = <<pup, last_sched_id[pup]>>
      /\ last_sched_id[pup] \in Nat
      /\ \A t \in Sched \ {s} : path'[t] = path[t]
  BY <1>2 DEF Shapes
<1>5. Shapes'
  BY <1>1, <1>2 DEF Shapes
<1>6. Directories'
  <2> SUFFICES ASSUME NEW t \in Sched PROVE path'[t] = <<>> \/ path'[t] \in Proc \X Nat
    BY DEF Directories
  <2>1. CASE t = s
    <3>1. <<pup, last_sched_id[pup]>> \in Proc \X Nat
      BY <1>4
    <3> QED
      BY <1>4, <2>1, <3>1, Zenon
  <2>2. CASE t # s
    BY <1>4, <2>2 DEF Directories
  <2> QED
    BY <2>1, <2>2
<1>7. UsedIds'
  BY <1>1, <1>3, <1>4 DEF UsedIds
<1>8. Holders'
  BY <1>1, <1>2 DEF Holders, Shapes
<1>9. \A t \in Sched \ {s} : path[t] # <<pup, last_sched_id[pup]>>
  BY <1>3, <1>4 DEF UsedIds
<1>10. OwnDirectory'
  BY <1>4, <1>9 DEF OwnDirectory
<1> QED
  BY <1>5, <1>6, <1>7, <1>8, <1>10

LEMMA UnlockStep ==
  ASSUME ProcInv, ProcAssumption, NEW s \in Sched, NEW pup \in Proc, UnlockPup(s, pup)
  PROVE  ProcInv'
<1> USE DEF ProcInv
<1>1. UNCHANGED <<path, todo, kcle>>
  BY DEF UnlockPup, locals
<1>2. /\ spc[s] = "added" /\ Head(todo[s]) = pup
      /\ last_sched_id' = [last_sched_id EXCEPT ![pup] = last_sched_id[pup] + 1]
      /\ pmutex' = [pmutex EXCEPT ![pup] = None]
      /\ spc' = [spc EXCEPT ![s] = "visible"]
  BY DEF UnlockPup, SGoto
<1>3. pmutex[pup] = s
  BY <1>2 DEF Holders
<1>4. Shapes'
  <2>1. last_sched_id \in [Proc -> Nat] /\ last_sched_id[pup] + 1 \in Nat
    BY DEF Shapes
  <2>2. last_sched_id' \in [Proc -> Nat] /\ pmutex' \in [Proc -> Sched \cup {None}]
    BY <1>2, <2>1 DEF Shapes
  <2>3. spc' = [t \in Sched |-> spc'[t]]
    BY <1>2 DEF Shapes
  <2> QED
    BY <1>1, <2>2, <2>3 DEF Shapes
<1>5. Directories' /\ OwnDirectory'
  BY <1>1 DEF Directories, OwnDirectory
<1>6. UsedIds'
  <2> SUFFICES ASSUME NEW t \in Sched, NEW p \in Proc, NEW i \in Nat, path[t] = <<p, i>>
               PROVE  i < last_sched_id'[p] \/ (i = last_sched_id'[p] /\ pmutex'[p] = t)
    BY <1>1 DEF UsedIds
  <2>1. i < last_sched_id[p] \/ (i = last_sched_id[p] /\ pmutex[p] = t)
    BY DEF UsedIds
  <2>2. CASE p = pup
    BY <1>2, <2>1, <2>2 DEF Shapes
  <2>3. CASE p # pup
    BY <1>2, <2>1, <2>3 DEF Shapes
  <2> QED
    BY <2>2, <2>3
<1>7. Holders'
  <2> SUFFICES ASSUME NEW t \in Sched, NEW p \in Proc, spc'[t] \in {"locked", "added"},
                      Head(todo[t]) = p
               PROVE  pmutex'[p] = t
    BY <1>1 DEF Holders
  <2>1. t # s /\ spc[t] = spc'[t]
    BY <1>2 DEF Shapes
  <2>2. pmutex[p] = t
    BY <2>1 DEF Holders
  <2> QED
    BY <1>2, <1>3, <2>1, <2>2 DEF Shapes
<1> QED
  BY <1>4, <1>5, <1>6, <1>7

\* A worker's file is no directory, so its path changes no scheduler's
LEMMA FileStep ==
  ASSUME ProcInv, ProcAssumption, NEW s \in Sched, CreateFile(s)
  PROVE  ProcInv'
<1>1. UNCHANGED <<last_sched_id, pmutex, todo, kcle>>
  BY DEF CreateFile, idVars, locals
<1>2. <<s, kcle[s]>> \notin Sched
  BY DEF ProcInv, Shapes, ProcAssumption
<1>3. \A t \in Sched : path'[t] = path[t]
  BY <1>2 DEF CreateFile, ProcInv, Shapes
<1>4. path' = [n \in Sched \cup WNode |-> path'[n]]
  BY DEF CreateFile, ProcInv, Shapes
<1>5. PICK l \in {"created", "oops"} : SGoto(s, l)
  BY DEF CreateFile
<1>6. Shapes'
  BY <1>1, <1>4, <1>5 DEF ProcInv, Shapes, SGoto
<1>7. Directories' /\ UsedIds' /\ OwnDirectory'
  BY <1>1, <1>3 DEF ProcInv, Directories, UsedIds, OwnDirectory
<1>8. Holders'
  BY <1>1, <1>5 DEF ProcInv, Shapes, Holders, SGoto
<1> QED
  BY <1>6, <1>7, <1>8 DEF ProcInv

\* The steps of a scheduler that leave its todo alone
LEMMA PlainStep ==
  ASSUME ProcInv, NEW s \in Sched, NEW l, l \notin {"locked", "added"}, SGoto(s, l),
         UNCHANGED <<last_sched_id, pmutex, path, todo, kcle>>
  PROVE  ProcInv'
<1>1. todo' = [todo EXCEPT ![s] = todo'[s]]
  BY DEF ProcInv, Shapes
<1>2. kcle' \in [Sched -> Worker \cup {None}]
  BY DEF ProcInv, Shapes
<1> QED
  BY <1>1, <1>2, OutsideStep

LEMMA SchedulerStep ==
  ASSUME ProcInv, ProcAssumption, NEW s \in Sched, SchedStep(s)
  PROVE  ProcInv'
<1>1. CASE EnterMode(s)
  <2>1. SGoto(s, "folder") /\ UNCHANGED <<last_sched_id, pmutex, path, kcle>>
    BY <1>1 DEF EnterMode, tableVars, idVars
  <2>2. todo' = [todo EXCEPT ![s] = todo'[s]] /\ kcle' \in [Sched -> Worker \cup {None}]
    BY <1>1, <2>1 DEF EnterMode, ProcInv, Shapes
  <2> QED
    BY <2>1, <2>2, OutsideStep
<1>2. ASSUME NEW pup \in Proc, LockPup(s, pup) \/ AddFolder(s, pup) \/ UnlockPup(s, pup)
      PROVE  ProcInv'
  BY <1>2, LockStep, AddStep, UnlockStep
<1>3. CASE SetSchedPid(s) \/ SetWtPid(s)
  <2>1. PICK l \in {"folder", "file"} : SGoto(s, l)
    BY <1>3 DEF SetSchedPid, SetWtPid
  <2>2. UNCHANGED <<last_sched_id, pmutex, path, kcle>>
    BY <1>3 DEF SetSchedPid, SetWtPid, idVars
  <2>3. todo' = [todo EXCEPT ![s] = todo'[s]] /\ kcle' \in [Sched -> Worker \cup {None}]
    BY <1>3, <2>2 DEF SetSchedPid, SetWtPid, ProcInv, Shapes
  <2> QED
    BY <2>1, <2>2, <2>3, OutsideStep
<1>4. ASSUME NEW w \in Worker, NextWorker(s, w)
      PROVE  ProcInv'
  <2>1. SGoto(s, "file") /\ UNCHANGED <<last_sched_id, pmutex, path>>
    BY <1>4 DEF NextWorker, tableVars, idVars
  <2>2. todo' = [todo EXCEPT ![s] = todo'[s]] /\ kcle' \in [Sched -> Worker \cup {None}]
    BY <1>4 DEF NextWorker, ProcInv, Shapes
  <2> QED
    BY <2>1, <2>2, OutsideStep
<1>5. CASE CreateFile(s)
  BY <1>5, FileStep
<1>6. CASE AddFile(s) \/ FileMade(s) \/ EndWalk(s) \/ EnterAstray(s) \/ LeaveMode(s)
  <2>1. PICK l \in {"filed", "walk", "entered", "oops", "left"} : SGoto(s, l)
    BY <1>6 DEF AddFile, FileMade, EndWalk, FillsRaw, EnterAstray, LeaveMode
  <2>2. UNCHANGED <<last_sched_id, pmutex, path, todo, kcle>>
    BY <1>6 DEF AddFile, FileMade, EndWalk, FillsRaw, EnterAstray, LeaveMode,
                tableVars, idVars, locals
  <2> QED
    BY <2>1, <2>2, PlainStep
<1> QED
  BY <1>1, <1>2, <1>3, <1>4, <1>5, <1>6 DEF SchedStep

LEMMA MainThreadStep ==
  ASSUME ProcInv, NEW p \in Proc, MainStep(p)
  PROVE  ProcInv'
<1>1. UNCHANGED invVars
  <2>1. CASE create_proc_ums_pid(p) \/ InitSchedulers(p) \/ SetUp(p) \/ BeginRemoval(p)
    BY <2>1 DEF create_proc_ums_pid, InitSchedulers, SetUp, BeginRemoval, invVars,
                tableVars, idVars, mainOthers, schedVars, locals
  <2>2. ASSUME NEW w \in Worker, DestroyWorker(p, w)
        PROVE  UNCHANGED invVars
    BY <2>2 DEF DestroyWorker, invVars, tableVars, idVars, mainOthers, schedVars, locals
  <2>3. CASE RemovalStep(p)
    BY <2>3 DEF RemovalStep, NextBucket, NextEntry, Unlink, WalkAstray, Free,
                FreedByAnother, EndRemoval, invVars,
                tableVars, idVars, mainOthers, schedVars, locals
  <2> QED
    BY <2>1, <2>2, <2>3 DEF MainStep
<1> QED
  BY <1>1, QuietStep

\* Readers and workers touch neither directories nor identifiers
LEMMA OtherStep ==
  ASSUME ProcInv,
         \/ \E w \in Worker : WorkerExits(w)
         \/ \E r \in Reader : ReadStep(r) \/ \E f \in files : StartRead(r, f)
  PROVE  ProcInv'
<1>1. UNCHANGED invVars
  BY DEF WorkerExits, ReadStep, LookUp, FindThread, CopyThread, Answer, StartRead, invVars,
         readOthers, tableVars, idVars, schedVars, locals
<1> QED
  BY <1>1, QuietStep

LEMMA ProcInvPreserved == ASSUME ProcInv, ProcAssumption, [Next]_vars PROVE ProcInv'
<1>1. CASE UNCHANGED vars
  BY <1>1, QuietStep DEF vars, tableVars, idVars, schedVars, locals, invVars
<1>2. CASE Next
  BY <1>2, MainThreadStep, SchedulerStep, OtherStep DEF Next
<1> QED
  BY <1>1, <1>2

\* Every scheduler that enters scheduling mode gets a directory of its own, however
\* many enter at once: create_scheduler_folder reads, uses and increments
\* last_sched_id under pup->mutex.
THEOREM OwnDirectoryAlways == Spec => []OwnDirectory
<1>1. ProcInv /\ [Next]_vars => ProcInv'
  BY ProcAssumption, ProcInvPreserved
<1>2. ProcInv => OwnDirectory
  BY DEF ProcInv
<1> QED
  BY InitProcInv, <1>1, <1>2, PTL DEF Spec
================================================================================
