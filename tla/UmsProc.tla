-------------------------------- MODULE UmsProc --------------------------------
(****************************************************************************)
(* The directory tree /proc/ums (src/lkm/ums_proc.c): made by UMSINIT and by  *)
(* every ENTERUMSSCHEDMODE, read by anybody at any time, removed by           *)
(* UMSDESTROY.  Several processes share the one table proc_ums_pids.          *)
(*                                                                            *)
(* A hash table is its buckets, each a list with the element added last first, *)
(* and nobody compares a key.  A table is linked before hash_init: until then *)
(* whoever walks it finds it empty or faults.  An action is an access to memory *)
(* another thread can observe, or a section under one mutex.                  *)
(* procfs gives two guarantees: an entry taken out of its directory is not    *)
(* found by a read that starts later, and proc_remove returns only when the   *)
(* reads of the entry under way have ended.                                   *)
(****************************************************************************)
EXTENDS Integers, Sequences, SequencesExt, FiniteSets

CONSTANTS
  Proc,       \* processes, named by the pid of their main thread
  Sched,      \* their scheduler threads
  Worker,     \* their worker threads
  Reader,     \* threads that read files under /proc/ums
  Root,       \* the table proc_ums_pids
  None,       \* nobody, and the tid of no thread
  LeaderOf,   \* [Sched \cup Worker -> Proc]: current->group_leader->pid
  PidHash,    \* [Proc -> Bucket]: the bucket of a pid in proc_ums_pids
  NBuckets    \* buckets of each of the three kinds of table

Table == {Root} \cup Proc \cup Sched   \* proc_ums_pids, a process's, a scheduler's
WNode == Sched \X Worker   \* the structure a scheduler makes for a worker
Bucket == 0 .. NBuckets - 1

ASSUME ProcAssumption ==
  /\ None \notin Proc \cup Sched \cup Worker \cup WNode
  /\ Root \notin Proc \cup Sched
  /\ Sched \cap (Proc \cup Worker) = {}
  /\ (Proc \cup Sched) \cap (Nat \cup (Sched \X (Worker \cup {None}))) = {}
  /\ LeaderOf \in [Sched \cup Worker -> Proc]
  /\ NBuckets \in Nat \ {0}
  /\ PidHash \in [Proc -> Bucket]

VARIABLES
  htable,         \* the hash tables
  freed,          \* structures given to kfree
  last_sched_id,  \* pup->last_sched_id
  pmutex,         \* owner of pup->mutex
  last_wt_id,     \* sched->last_wt_id
  path,           \* the directory of a scheduler, the file of a worker
  named,          \* structures whose sched_pid or wt_pid has been stored
  files,          \* the files a path lookup finds
  threads,        \* tids with a ksched_thread or a kworker_thread
  wt_ready_queue, \* kcl->wt_ready_queue of the process's completion list
  \* the main thread of a process
  ppc,
  walk,           \* where remove_proc_ums_pid is: a cursor for each of its loops
  removing,       \* the structure whose proc_remove waits for the readers
  \* a scheduler thread in ENTERUMSSCHEDMODE
  spc, todo, sched_id, kcle, seen,
  \* a reader
  rpc, rfile, rnode, rtid

tableVars == <<htable, freed, path, named, files>>
idVars == <<last_sched_id, pmutex, last_wt_id>>
mainVars == <<ppc, walk, removing>>
locals == <<todo, sched_id, kcle, seen>>
schedVars == <<spc, locals>>
readVars == <<rpc, rfile, rnode, rtid>>
vars == <<tableVars, idVars, threads, wt_ready_queue, mainVars, schedVars, readVars>>

\* What a step of each kind of thread leaves to the others
mainOthers == <<idVars, wt_ready_queue, schedVars, readVars>>
schedOthers == <<threads, wt_ready_queue, mainVars, readVars>>
readOthers == <<tableVars, idVars, threads, wt_ready_queue, mainVars, schedVars>>

NoEntries == [b \in Bucket |-> <<>>]   \* what hash_init makes

Init ==
  /\ htable = [t \in Table |-> NoEntries]
  /\ freed = {}
  /\ last_sched_id = [p \in Proc |-> 0]
  /\ pmutex = [p \in Proc |-> None]
  /\ last_wt_id = [s \in Sched |-> 0]
  /\ path = [n \in Sched \cup WNode |-> <<>>]
  /\ named = {}
  /\ files = {}
  /\ threads = {}
  /\ wt_ready_queue = [p \in Proc |-> {}]
  /\ ppc = [p \in Proc |-> "start"]
  /\ walk = [p \in Proc |-> <<>>]
  /\ removing = [p \in Proc |-> None]
  /\ spc = [s \in Sched |-> "start"]
  /\ todo = [s \in Sched |-> <<>>]
  /\ sched_id = [s \in Sched |-> 0]
  /\ kcle = [s \in Sched |-> None]
  /\ seen = [s \in Sched |-> {}]
  /\ rpc = [r \in Reader |-> "idle"]
  /\ rfile = [r \in Reader |-> <<>>]
  /\ rnode = [r \in Reader |-> None]
  /\ rtid = [r \in Reader |-> None]

----------------------------------------------------------------------------
(* linux/hashtable.h, and the lookups of ums_proc.c.                          *)

Hash(k) == IF k \in Proc THEN PidHash[k] ELSE k % NBuckets

hash_add(t, k, n) == htable' = [htable EXCEPT ![t][Hash(k)] = <<n>> \o @]

hash_del(n) ==
  htable' = [t \in Table |-> [b \in Bucket |-> RemoveFirst(htable[t][b], n)]]

\* hash_for_each_possible
Possible(t, k) == htable[t][Hash(k)]

\* The loops of create_workers_file, get_scheduler and get_worker, one in the other
SchedulersAt(i, p) ==
  LET P == Possible(Root, p)
  IN FlattenSeq([k \in DOMAIN P |-> Possible(P[k], i)])

WorkersAt(j, i, p) ==
  LET S == SchedulersAt(i, p)
  IN FlattenSeq([k \in DOMAIN S |-> Possible(S[k], j)])

First(q) == IF q = <<>> THEN None ELSE Head(q)

get_scheduler(i, p) == First(SchedulersAt(i, p))
get_worker(j, i, p) == First(WorkersAt(j, i, p))

\* get_ids_from_schedulers_dir and get_ids_from_workers_dir: a file is the path
\* <<pid, scheduler id>> (info) or <<pid, scheduler id, worker id>>
NodeAt(f) ==
  IF Len(f) = 2 THEN get_scheduler(f[2], f[1]) ELSE get_worker(f[3], f[2], f[1])

\* The table of n is linked, and not initialised yet
Garbage(n) ==
  \/ n \in Proc /\ ppc[n] = "linked"
  \/ n \in Sched /\ path[n] # <<>> /\ n \notin named

\* The lookup of file f may come to such a table
GoesAstray(f) ==
  \/ \E n \in Range(Possible(Root, f[1])) : Garbage(n)
  \/ Len(f) = 3 /\ \E n \in Range(SchedulersAt(f[2], f[1])) : Garbage(n)

----------------------------------------------------------------------------
(* The main thread: UMSINIT, pthread_join of the schedulers, the end.         *)

PGoto(p, l) == ppc' = [ppc EXCEPT ![p] = l]

\* UMSINIT.  The structure is found by others before its table is initialised.
create_proc_ums_pid(p) ==
  /\ ppc[p] = "start"
  /\ hash_add(Root, p, p)
  /\ PGoto(p, "linked")
  /\ UNCHANGED <<freed, path, named, files, threads, walk, removing, mainOthers>>

\* proc_mkdir and hash_init, which may fault if another process removes p already
InitSchedulers(p) ==
  /\ ppc[p] = "linked"
  /\ \/ /\ htable' = [htable EXCEPT ![p] = NoEntries]
        /\ PGoto(p, "initialised")
     \/ /\ p \in freed \/ \E q \in Proc : removing[q] = p
        /\ PGoto(p, "oops")
        /\ UNCHANGED htable
  /\ UNCHANGED <<freed, path, named, files, threads, walk, removing, mainOthers>>

Workers(p) == {w \in Worker : LeaderOf[w] = p}

\* The lists and workers of the process, as UmsSetup makes them
SetUp(p) ==
  /\ ppc[p] = "initialised"
  /\ threads' = threads \cup Workers(p)
  /\ wt_ready_queue' = [wt_ready_queue EXCEPT ![p] = Workers(p)]
  /\ PGoto(p, "ready")
  /\ UNCHANGED <<tableVars, idVars, walk, removing, schedVars, readVars>>

\* The main thread has joined its schedulers, and WORKERTHREADDESTROY is done for
\* each of its workers in turn
DestroyWorker(p, w) ==
  /\ ppc[p] = "ready" /\ w \in Workers(p) \cap threads
  /\ \A s \in Sched : LeaderOf[s] = p => spc[s] \in {"left", "oops"}
  /\ threads' = threads \ {w}
  /\ UNCHANGED <<tableVars, mainVars, mainOthers>>

\* A cursor before the first bucket of the table of n
Enters(n) == [of |-> n, bkt |-> -1, next |-> None]

\* UMSDESTROY: the walk of remove_proc_ums_pid, over every process whoever calls it
BeginRemoval(p) ==
  /\ ppc[p] = "ready"
  /\ \A s \in Sched : LeaderOf[s] = p => spc[s] \in {"left", "oops"}
  /\ Workers(p) \cap threads = {}
  /\ walk' = [walk EXCEPT ![p] = <<Enters(Root)>>]
  /\ PGoto(p, "destroy")
  /\ UNCHANGED <<tableVars, threads, removing, mainOthers>>

\* The innermost hash_for_each_safe: the structure whose table it walks, its bucket, and
\* the element it goes to next, as it was when the one before was visited
cursor(p) == Last(walk[p])

Walking(p) == ppc[p] = "destroy" /\ removing[p] = None

\* Nothing is left of the table of the cursor; the loops are only three deep
AtEnd(c) == c.next = None /\ (c.of \in WNode \/ c.bkt = NBuckets - 1)

\* The element after n in q, if n is still there
After(n, q) ==
  IF \E k \in 2 .. Len(q) : q[k - 1] = n
  THEN q[CHOOSE k \in 2 .. Len(q) : q[k - 1] = n]
  ELSE None

NextBucket(p) ==
  LET c == cursor(p)
      b == c.bkt + 1
  IN /\ Walking(p) /\ c.next = None /\ ~AtEnd(c)
     /\ walk' = [walk EXCEPT ![p] = Append(Front(@),
                   [c EXCEPT !.bkt = b, !.next = First(htable[c.of][b])])]
     /\ UNCHANGED <<tableVars, threads, ppc, removing, mainOthers>>

\* The next pointer of an element is read before the element is removed
NextEntry(p) ==
  LET c == cursor(p)
      n == c.next
  IN /\ Walking(p) /\ n # None
     /\ walk' = [walk EXCEPT ![p] = Front(@) \o
                   <<[c EXCEPT !.next = After(n, htable[c.of][c.bkt])], Enters(n)>>]
     /\ UNCHANGED <<tableVars, threads, ppc, removing, mainOthers>>

\* File or directory f lies in the directory of n, or is the entry of n
Under(n, f) ==
  /\ f # <<>>
  /\ IF n \in Proc THEN f[1] = n ELSE IsPrefix(path[n], f)

\* Mutant: the entry is found until it is freed
UnlinkLate(p) ==
  LET n == cursor(p).of
  IN /\ Walking(p) /\ AtEnd(cursor(p)) /\ n # Root
     /\ walk' = [walk EXCEPT ![p] = Front(@)]
     /\ removing' = [removing EXCEPT ![p] = n]
     /\ UNCHANGED <<tableVars, threads, ppc, mainOthers>>

\* proc_remove of an entry and all below it, up to the wait for the readers
Unlink(p) ==
  LET n == cursor(p).of
  IN /\ Walking(p) /\ AtEnd(cursor(p)) /\ n # Root
     /\ walk' = [walk EXCEPT ![p] = Front(@)]
     /\ removing' = [removing EXCEPT ![p] = n]
     /\ files' = {f \in files : ~Under(n, f)}
     /\ UNCHANGED <<htable, freed, path, named, threads, ppc, mainOthers>>

\* The structure the walk reads next has been freed by another process, or is not
\* initialised.  If its memory still reads as it was, the walk goes on.
WalkAstray(p) ==
  LET c == cursor(p)
      n == IF c.next = None THEN c.of ELSE c.next
  IN /\ Walking(p)
     /\ n \in freed \/ (n = c.of /\ Garbage(n))
     /\ PGoto(p, "oops")
     /\ UNCHANGED <<tableVars, threads, walk, removing, mainOthers>>

\* Mutant: nobody waits for the readers
NobodyReads(n) == TRUE

\* A reader killed by an oops never ends its read
NoReaders(n) == \A r \in Reader : rpc[r] # "idle" => ~Under(n, rfile[r])

\* proc_remove returns; hash_del and kfree.  For a directory proc_remove is then
\* called on entries that went with it, which may still be intact or not.
Free(p) ==
  LET n == removing[p] IN
  /\ ppc[p] = "destroy" /\ n \notin freed \cup {None} /\ NoReaders(n)
  /\ hash_del(n)
  /\ freed' = freed \cup {n}
  /\ removing' = [removing EXCEPT ![p] = None]
  /\ \/ UNCHANGED ppc
     \/ n \notin WNode /\ PGoto(p, "oops")
  /\ UNCHANGED <<path, named, files, threads, walk, mainOthers>>

\* Two processes remove at once: the second kfree faults, or goes unnoticed
FreedByAnother(p) ==
  /\ ppc[p] = "destroy" /\ removing[p] \in freed
  /\ removing' = [removing EXCEPT ![p] = None]
  /\ UNCHANGED ppc \/ PGoto(p, "oops")
  /\ UNCHANGED <<tableVars, threads, walk, mainOthers>>

\* One pass: what others have added to a bucket already passed stays
EndRemoval(p) ==
  /\ Walking(p) /\ AtEnd(cursor(p)) /\ cursor(p).of = Root
  /\ PGoto(p, "done")
  /\ UNCHANGED <<tableVars, threads, walk, removing, mainOthers>>

----------------------------------------------------------------------------
(* A scheduler: ENTERUMSSCHEDMODE, with create_scheduler_folder and a         *)
(* create_workers_file for each worker of its list, then SCHEDTHREADDESTROY.  *)

SGoto(s, l) == spc' = [spc EXCEPT ![s] = l]

leader(s) == LeaderOf[s]

\* create_sched_thread, and the lookup that starts create_scheduler_folder
EnterMode(s) ==
  /\ spc[s] = "start" /\ ppc[leader(s)] = "ready"
  /\ threads' = threads \cup {s}
  /\ todo' = [todo EXCEPT ![s] = Possible(Root, leader(s))]
  /\ SGoto(s, "folder")
  /\ UNCHANGED <<tableVars, idVars, wt_ready_queue, mainVars, sched_id, kcle, seen, readVars>>

\* The structures the scheduler works on: pup and sched, or sched and w
Stale(s) ==
  /\ spc[s] \notin {"start", "left", "oops"} /\ todo[s] # <<>>
  /\ \/ {s, Head(todo[s])} \cap freed # {}
     \/ \E p \in Proc : removing[p] # None /\ removing[p] \in {s, leader(s)}

\* Mutant: pup->mutex is not taken
NoLock(s, pup) ==
  /\ spc[s] = "folder" /\ todo[s] # <<>> /\ Head(todo[s]) = pup /\ ~Stale(s)
  /\ SGoto(s, "locked")
  /\ UNCHANGED <<tableVars, idVars, locals, schedOthers>>

LockPup(s, pup) ==
  /\ spc[s] = "folder" /\ todo[s] # <<>> /\ Head(todo[s]) = pup /\ ~Stale(s)
  /\ pmutex[pup] = None
  /\ pmutex' = [pmutex EXCEPT ![pup] = s]
  /\ SGoto(s, "locked")
  /\ UNCHANGED <<tableVars, last_sched_id, last_wt_id, locals, schedOthers>>

AddFolder(s, pup) ==
  /\ spc[s] = "locked" /\ Head(todo[s]) = pup /\ ~Stale(s)
  /\ path' = [path EXCEPT ![s] = <<pup, last_sched_id[pup]>>]
  /\ hash_add(pup, last_sched_id[pup], s)
  /\ sched_id' = [sched_id EXCEPT ![s] = last_sched_id[pup]]
  /\ SGoto(s, "added")
  /\ UNCHANGED <<freed, named, files, idVars, todo, kcle, seen, schedOthers>>

\* The end of the section under pup->mutex.  With proc_create, right after it, the
\* info file can be read.
UnlockPup(s, pup) ==
  /\ spc[s] = "added" /\ Head(todo[s]) = pup /\ ~Stale(s)
  /\ last_sched_id' = [last_sched_id EXCEPT ![pup] = @ + 1]
  /\ pmutex' = [pmutex EXCEPT ![pup] = None]
  /\ files' = files \cup {path[s]}
  /\ SGoto(s, "visible")
  /\ UNCHANGED <<htable, freed, path, named, last_wt_id, locals, schedOthers>>

\* sched->sched_pid, hash_init of its table, and on to the next pup of the bucket
SetSchedPid(s) ==
  /\ spc[s] = "visible" /\ ~Stale(s)
  /\ named' = named \cup {s}
  /\ htable' = [htable EXCEPT ![s] = NoEntries]
  /\ todo' = [todo EXCEPT ![s] = Tail(@)]
  /\ SGoto(s, "folder")
  /\ UNCHANGED <<freed, path, files, idVars, sched_id, kcle, seen, schedOthers>>

\* The walk over kcl->wt_ready_queue, between two calls of create_workers_file
Walks(s) == spc[s] \in {"folder", "walk"} /\ todo[s] = <<>>

\* The next element of kcl->wt_ready_queue, in any order, and the lookups of
\* create_workers_file
NextWorker(s, w) ==
  /\ Walks(s) /\ w \in wt_ready_queue[leader(s)] \ seen[s]
  /\ kcle' = [kcle EXCEPT ![s] = w]
  /\ seen' = [seen EXCEPT ![s] = @ \cup {w}]
  /\ todo' = [todo EXCEPT ![s] = SchedulersAt(sched_id[s], leader(s))]
  /\ SGoto(s, "file")
  /\ UNCHANGED <<tableVars, idVars, sched_id, schedOthers>>

sched(s) == Head(todo[s])

\* proc_create under sched->mutex.  Nobody ever initialised that mutex: locking it
\* succeeds at once, or the thread faults or hangs.
CreateFile(s) ==
  /\ spc[s] = "file" /\ todo[s] # <<>> /\ ~Stale(s)
  /\ \/ LET f == Append(path[sched(s)], last_wt_id[sched(s)])
        IN /\ path' = [path EXCEPT ![<<s, kcle[s]>>] = f]
           /\ files' = files \cup {f}
           /\ SGoto(s, "created")
     \/ SGoto(s, "oops") /\ UNCHANGED <<path, files>>
  /\ UNCHANGED <<htable, freed, named, idVars, locals, schedOthers>>

\* Mutant: the identifier is not moved on
KeepFileId(s) ==
  /\ spc[s] = "created" /\ ~Stale(s)
  /\ hash_add(sched(s), last_wt_id[sched(s)], <<s, kcle[s]>>)
  /\ SGoto(s, "filed")
  /\ UNCHANGED <<freed, path, named, files, idVars, locals, schedOthers>>

\* Mutant: the key is the identifier of the next file
AddUnderNextId(s) ==
  /\ spc[s] = "created" /\ ~Stale(s)
  /\ hash_add(sched(s), last_wt_id[sched(s)] + 1, <<s, kcle[s]>>)
  /\ last_wt_id' = [last_wt_id EXCEPT ![sched(s)] = @ + 1]
  /\ SGoto(s, "filed")
  /\ UNCHANGED <<freed, path, named, files, last_sched_id, pmutex, locals,
                 schedOthers>>

AddFile(s) ==
  /\ spc[s] = "created" /\ ~Stale(s)
  /\ hash_add(sched(s), last_wt_id[sched(s)], <<s, kcle[s]>>)
  /\ last_wt_id' = [last_wt_id EXCEPT ![sched(s)] = @ + 1]
  /\ SGoto(s, "filed")
  /\ UNCHANGED <<freed, path, named, files, last_sched_id, pmutex, locals,
                 schedOthers>>

SetWtPid(s) ==
  /\ spc[s] = "filed" /\ ~Stale(s)
  /\ named' = named \cup {<<s, kcle[s]>>}
  /\ todo' = [todo EXCEPT ![s] = Tail(@)]
  /\ SGoto(s, "file")
  /\ UNCHANGED <<htable, freed, path, files, idVars, sched_id, kcle, seen, schedOthers>>

\* create_workers_file returns.  If the worker has exited meanwhile, its element
\* is freed: the walk goes on, misses the rest, or faults.
FileMade(s) ==
  /\ spc[s] = "file" /\ todo[s] = <<>>
  /\ \/ SGoto(s, "walk")
     \/ /\ kcle[s] \notin wt_ready_queue[leader(s)]
        /\ \E l \in {"entered", "oops"} : SGoto(s, l)
  /\ UNCHANGED <<tableVars, idVars, locals, schedOthers>>

\* Mutant: one worker is enough
EndWalkEarly(s) ==
  /\ Walks(s) /\ seen[s] # {}
  /\ SGoto(s, "entered")
  /\ UNCHANGED <<tableVars, idVars, locals, schedOthers>>

EndWalk(s) ==
  /\ Walks(s) /\ wt_ready_queue[leader(s)] \subseteq seen[s]
  /\ SGoto(s, "entered")
  /\ UNCHANGED <<tableVars, idVars, locals, schedOthers>>

\* The scheduler is about to add to, or to look into, a table not yet initialised
FillsRaw(s) ==
  \/ spc[s] \in {"locked", "file", "created"} /\ todo[s] # <<>> /\ Garbage(Head(todo[s]))
  \/ /\ Walks(s) /\ wt_ready_queue[leader(s)] \ seen[s] # {}
     /\ \E n \in Range(Possible(Root, leader(s))) : Garbage(n)

\* In such a table it may fault.  In what another process has removed, or is
\* removing, it faults or gets through with its writes in freed memory.
EnterAstray(s) ==
  /\ \/ FillsRaw(s) /\ SGoto(s, "oops")
     \/ Stale(s) /\ \E l \in {"entered", "oops"} : SGoto(s, l)
  /\ UNCHANGED <<tableVars, idVars, locals, schedOthers>>

\* A worker of the list returns, as UmsDispatch has it: its element is removed
WorkerExits(w) ==
  /\ w \in wt_ready_queue[LeaderOf[w]]
  /\ \E s \in Sched : leader(s) = LeaderOf[w] /\ spc[s] = "entered"
  /\ wt_ready_queue' = [wt_ready_queue EXCEPT ![LeaderOf[w]] = @ \ {w}]
  /\ UNCHANGED <<tableVars, idVars, threads, mainVars, schedVars, readVars>>

\* The dequeue has answered that no worker is left; SCHEDTHREADDESTROY
LeaveMode(s) ==
  /\ spc[s] = "entered" /\ wt_ready_queue[leader(s)] = {}
  /\ threads' = threads \ {s}
  /\ SGoto(s, "left")
  /\ UNCHANGED <<tableVars, idVars, wt_ready_queue, mainVars, locals, readVars>>

----------------------------------------------------------------------------
(* sched_info_read and worker_read.                                           *)

\* The thread a file is about, whose tid the structure of the file holds
Tid(n) == IF n \in Sched THEN n ELSE n[2]

OfFile(n, f) == path[n] = f

StartRead(r, f) ==
  /\ rpc[r] = "idle" /\ f \in files
  /\ rpc' = [rpc EXCEPT ![r] = "open"]
  /\ rfile' = [rfile EXCEPT ![r] = f]
  /\ UNCHANGED <<rnode, rtid, readOthers>>

EndRead(r) ==
  /\ rpc' = [rpc EXCEPT ![r] = "idle"]
  /\ rfile' = [rfile EXCEPT ![r] = <<>>]
  /\ rnode' = [rnode EXCEPT ![r] = None]
  /\ rtid' = [rtid EXCEPT ![r] = None]

\* get_ids_from_..._dir, and get_scheduler or get_worker, which may answer -1, or
\* fault in a table not yet initialised
LookUp(r) ==
  /\ rpc[r] = "open"
  /\ LET n == NodeAt(rfile[r]) IN
     \/ n = None /\ EndRead(r)
     \/ /\ n # None
        /\ rnode' = [rnode EXCEPT ![r] = n]
        /\ rpc' = [rpc EXCEPT ![r] = "found"]
        /\ UNCHANGED <<rfile, rtid>>
     \/ /\ GoesAstray(rfile[r])
        /\ rpc' = [rpc EXCEPT ![r] = "oops"]
        /\ UNCHANGED <<rfile, rnode, rtid>>
  /\ UNCHANGED readOthers

\* The pid read from the structure: anything, if it has not been stored or is freed
PidRead(n) == IF n \in named \ freed THEN {Tid(n)} ELSE Sched \cup Worker \cup {None}

\* The lookup of ksched_thread_copy or kworker_thread_copy
FindThread(r) ==
  /\ rpc[r] = "found"
  /\ \E t \in PidRead(rnode[r]) :
       IF t \in threads /\ (t \in Sched <=> rnode[r] \in Sched)
       THEN /\ rtid' = [rtid EXCEPT ![r] = t]
            /\ rpc' = [rpc EXCEPT ![r] = "holds"]
            /\ UNCHANGED <<rfile, rnode>>
       ELSE EndRead(r)
  /\ UNCHANGED readOthers

\* The copy under kst->mutex or kwt->proc_mutex.  If the structure has been freed
\* since it was found, mutex_lock may fault.
CopyThread(r) ==
  /\ rpc[r] = "holds"
  /\ \/ rpc' = [rpc EXCEPT ![r] = "copied"]
     \/ rtid[r] \notin threads /\ rpc' = [rpc EXCEPT ![r] = "oops"]
  /\ UNCHANGED <<rfile, rnode, rtid, readOthers>>

Answer(r) ==
  /\ rpc[r] = "copied"
  /\ EndRead(r)
  /\ UNCHANGED readOthers

----------------------------------------------------------------------------
RemovalStep(p) ==
  \/ NextBucket(p) \/ NextEntry(p) \/ Unlink(p) \/ WalkAstray(p)
  \/ Free(p) \/ FreedByAnother(p) \/ EndRemoval(p)

MainStep(p) ==
  \/ create_proc_ums_pid(p) \/ InitSchedulers(p) \/ SetUp(p) \/ BeginRemoval(p)
  \/ \E w \in Worker : DestroyWorker(p, w)
  \/ RemovalStep(p)

SchedStep(s) ==
  \/ EnterMode(s)
  \/ \E pup \in Proc : LockPup(s, pup) \/ AddFolder(s, pup) \/ UnlockPup(s, pup)
  \/ SetSchedPid(s) \/ \E w \in Worker : NextWorker(s, w)
  \/ CreateFile(s) \/ AddFile(s) \/ SetWtPid(s) \/ FileMade(s) \/ EndWalk(s)
  \/ EnterAstray(s) \/ LeaveMode(s)

ReadStep(r) == LookUp(r) \/ FindThread(r) \/ CopyThread(r) \/ Answer(r)

Next ==
  \/ \E p \in Proc : MainStep(p)
  \/ \E s \in Sched : SchedStep(s)
  \/ \E w \in Worker : WorkerExits(w)
  \/ \E r \in Reader : ReadStep(r) \/ \E f \in files : StartRead(r, f)

Spec == Init /\ [][Next]_vars

\* A removal and a read that have begun go on; nobody has to start either
FairSpec ==
  /\ Spec
  /\ \A p \in Proc : WF_vars(RemovalStep(p))
  /\ \A r \in Reader : WF_vars(ReadStep(r))

----------------------------------------------------------------------------
(* Properties.                                                                *)

\* No bucket is shared: pids that do not collide, and not more schedulers or workers
\* of a process than buckets.  The code checks neither.
SchedulersSpread ==
  /\ \A p, q \in Proc : PidHash[p] = PidHash[q] => p = q
  /\ IsFiniteSet(Sched)
  /\ \A p \in Proc : Cardinality({s \in Sched : leader(s) = p}) <= NBuckets

WorkersSpread ==
  /\ IsFiniteSet(Worker)
  /\ \A p \in Proc : Cardinality(Workers(p)) <= NBuckets

\* Every scheduler gets a directory of its own, under the identifier it is told:
\* pup->mutex makes the read and the increment of last_sched_id one step.
OwnDirectory ==
  \A s, t \in Sched : s # t /\ path[s] # <<>> => path[s] # path[t]

\* Every worker a scheduler lists gets a file of its own, although last_wt_id is
\* protected by a mutex nobody initialised: a table has one scheduler that adds.
OwnFile ==
  \A m, n \in WNode : m # n /\ path[m] # <<>> => path[m] # path[n]

\* A read that finds a structure has found the one of its file: the lookups compare no
\* identifier, so the key an element is added under has to be the one in the path.
\* It holds only as long as no bucket is shared; ReadsItsProcess is about the other case.
FindsItsEntry == \A r \in Reader : rnode[r] # None => OfFile(rnode[r], rfile[r])

\* The directory '<sched_id>' is created "in /proc/ums/<pid>/schedulers", pid being "the
\* process who initialize the ums system" (ums_proc.h): what a read of a file under the
\* directory of a process finds is a scheduler or a worker of that process.
ReadsItsProcess ==
  \A r \in Reader : rnode[r] # None => LeaderOf[Tid(rnode[r])] = rfile[r][1]

\* remove_proc_ums_pid never frees a structure that a read of its file still uses,
\* whichever process removes it.
EntriesOutliveReaders ==
  \A r \in Reader : rpc[r] # "idle" /\ rnode[r] # None => rnode[r] \notin freed

\* A scheduler that has entered while every worker of its list was there has a
\* file for each of them, until somebody removes the tree.
WorkersListed ==
  \A s \in Sched :
    spc[s] = "entered" /\ (\A p \in Proc : ppc[p] \in {"start", "linked", "initialised", "ready"})
      /\ wt_ready_queue[leader(s)] = Workers(leader(s))
    => \A w \in wt_ready_queue[leader(s)] :
         <<s, w>> \in named /\ path[<<s, w>>] \in files

\* UMSDESTROY returns: new reads do not keep it waiting.  It may fault where another
\* process removes or initialises entries, and so may a reader, whose read then never
\* ends.
RemovalEnds ==
  \A p \in Proc : ppc[p] = "destroy" ~>
    ppc[p] \in {"done", "oops"} \/ \E r \in Reader : rpc[r] = "oops"
================================================================================
