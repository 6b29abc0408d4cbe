--------------------------- MODULE UmsProcTreeProofs ---------------------------
(****************************************************************************)
(* What the lists of /proc/ums hold, for any number of processes, schedulers, *)
(* workers and readers and however the entries, the reads and the removals of *)
(* several processes interleave.  The hypotheses say that no bucket is shared: *)
(* no two pids in one bucket and not more schedulers of a process than its    *)
(* table has buckets (SchedulersSpread); for what the readers find also not   *)
(* more workers of a process than buckets (WorkersSpread).  The code checks   *)
(* neither: MCUmsProc has the runs that show what its lookups find when two   *)
(* pids do share a bucket.                                                    *)
(*                                                                            *)
(* The argument.  The directories and files a scheduler has made tell where   *)
(* it is in its walk (WalkInv): the identifiers it has used are as many as    *)
(* the elements it has seen, so they stay below the number of buckets.  Then  *)
(* a structure is in the one list its identifier leads to, its home, until it *)
(* is freed (TableInv), the loops of a removal stand on structures that have  *)
(* been in a list (CursorInv), a lookup finds what the path stands for or     *)
(* nothing (NodeAtIs), and a reader holds the structure of its file (ReadInv), *)
(* which the wait for the readers of the file protects.                       *)
(****************************************************************************)
EXTENDS UmsProcProofs, FiniteSetTheorems, SequenceTheorems

----------------------------------------------------------------------------
(* Sequences and buckets.                                                     *)

Injective(q) == \A k, l \in DOMAIN q : q[k] = q[l] => k = l

\* A sequence whose places are all the same one has at most one
LEMMA AtMostOne ==
  ASSUME NEW S, NEW q \in Seq(S), \A k, l \in DOMAIN q : k = l
  PROVE  q = <<>> \/ (1 \in DOMAIN q /\ q = <<q[1]>>)
<1>1. Len(q) \in Nat /\ DOMAIN q = 1..Len(q)
  BY LenProperties
<1>2. Len(q) = 0 \/ Len(q) = 1
  <2>1. Len(q) >= 2 => 1 \in DOMAIN q /\ 2 \in DOMAIN q
    BY <1>1
  <2>2. ~(Len(q) >= 2)
    BY <2>1
  <2> QED
    BY <1>1, <2>2
<1>3. CASE Len(q) = 0
  BY <1>3
<1>4. CASE Len(q) = 1
  <2>1. q[1] \in S /\ 1 \in DOMAIN q
    BY <1>1, <1>4
  <2> DEFINE z == <<q[1]>>
  <2>2. z \in Seq(S) /\ Len(z) = 1 /\ z[1] = q[1]
    BY <2>1
  <2> HIDE DEF z
  <2>3. q = z
    BY <1>4, <2>2, SeqEqual
  <2> QED
    BY <2>1, <2>3 DEF z
<1> QED
  BY <1>2, <1>3, <1>4

LEMMA Prepended ==
  ASSUME NEW S, NEW q \in Seq(S), NEW n \in S
  PROVE  /\ <<n>> \o q \in Seq(S)
         /\ DOMAIN (<<n>> \o q) = 1 .. Len(q) + 1
         /\ (<<n>> \o q)[1] = n
         /\ \A k \in DOMAIN q : k+1 \in DOMAIN (<<n>> \o q) /\ (<<n>> \o q)[k+1] = q[k]
         /\ \A k \in DOMAIN (<<n>> \o q) : k = 1 \/ (k-1 \in DOMAIN q /\ (<<n>> \o q)[k] = q[k-1])
         /\ q = <<>> => <<n>> \o q = <<n>>
<1>1. <<n>> \in Seq(S) /\ Len(<<n>>) = 1 /\ <<n>>[1] = n /\ Len(q) \in Nat
  OBVIOUS
<1> DEFINE z == <<n>> \o q
<1>2. /\ z \in Seq(S) /\ Len(z) = 1 + Len(q)
      /\ \A i \in 1 .. 1 + Len(q) : z[i] = IF i <= 1 THEN <<n>>[i] ELSE q[i - 1]
  BY <1>1, ConcatProperties
<1>3. q = <<>> => z = <<n>>
  BY <1>1, ConcatEmptySeq
<1> HIDE DEF z
<1>4. DOMAIN z = 1 .. Len(q) + 1 /\ DOMAIN q = 1 .. Len(q)
  BY <1>1, <1>2
<1>5. /\ z[1] = n
      /\ \A k \in DOMAIN q : k+1 \in DOMAIN z /\ z[k+1] = q[k]
      /\ \A k \in DOMAIN z : k = 1 \/ (k-1 \in DOMAIN q /\ z[k] = q[k-1])
  BY <1>1, <1>2, <1>4
<1> QED
  BY <1>2, <1>3, <1>4, <1>5 DEF z

LEMMA RemoveAtIs ==
  ASSUME NEW S, NEW q \in Seq(S), NEW i \in DOMAIN q
  PROVE  /\ RemoveAt(q, i) \in Seq(S)
         /\ DOMAIN RemoveAt(q, i) = 1 .. Len(q) - 1
         /\ \A k \in 1 .. Len(q) - 1 : RemoveAt(q, i)[k] = IF k < i THEN q[k] ELSE q[k+1]
<1>1. Len(q) \in Nat /\ i \in 1..Len(q)
  OBVIOUS
<1> DEFINE a == SubSeq(q, 1, i-1)
           b == SubSeq(q, i+1, Len(q))
<1>2. a \in Seq(S) /\ Len(a) = i-1 /\ \A k \in 1..i-1 : a[k] = q[k]
  BY <1>1
<1>3. b \in Seq(S) /\ Len(b) = Len(q) - i /\ \A k \in 1..Len(q)-i : b[k] = q[i+k]
  BY <1>1
<1>4. RemoveAt(q, i) = a \o b
  BY DEF RemoveAt
<1> HIDE DEF a, b
<1> DEFINE z == a \o b
<1>5. /\ z \in Seq(S) /\ Len(z) = Len(q) - 1
      /\ \A k \in 1 .. Len(q) - 1 : z[k] = IF k <= i-1 THEN a[k] ELSE b[k - (i-1)]
  BY <1>1, <1>2, <1>3, ConcatProperties
<1> HIDE DEF z
<1>6. \A k \in 1 .. Len(q) - 1 : z[k] = IF k < i THEN q[k] ELSE q[k+1]
  <2> SUFFICES ASSUME NEW k \in 1 .. Len(q) - 1 PROVE z[k] = IF k < i THEN q[k] ELSE q[k+1]
    OBVIOUS
  <2>1. CASE k < i
    BY <1>1, <1>2, <1>5, <2>1
  <2>2. CASE k >= i
    <3>1. k - (i-1) \in 1..Len(q)-i /\ i + (k - (i-1)) = k+1 /\ ~(k <= i-1)
      BY <1>1, <2>2
    <3>2. z[k] = b[k - (i-1)]
      BY <1>5, <3>1
    <3>3. b[k - (i-1)] = q[i + (k - (i-1))]
      BY <1>3, <3>1
    <3> QED
      BY <2>2, <3>1, <3>2, <3>3, <1>1
  <2> QED
    BY <1>1, <2>1, <2>2
<1>7. DOMAIN z = 1 .. Len(q) - 1
  BY <1>1, <1>5
<1> QED
  BY <1>4, <1>5, <1>6, <1>7 DEF z

LEMMA RemovedFirst ==
  ASSUME NEW S, NEW q \in Seq(S), NEW n, Injective(q)
  PROVE  /\ RemoveFirst(q, n) \in Seq(S)
         /\ Injective(RemoveFirst(q, n))
         /\ \A k \in DOMAIN RemoveFirst(q, n) : \E l \in DOMAIN q :
              RemoveFirst(q, n)[k] = q[l] /\ q[l] # n
         /\ (\A l \in DOMAIN q : q[l] # n) => RemoveFirst(q, n) = q
<1>0. Len(q) \in Nat /\ DOMAIN q = 1..Len(q)
  OBVIOUS
<1>1. CASE \A l \in DOMAIN q : q[l] # n
  BY <1>0, <1>1 DEF RemoveFirst
<1>2. CASE \E l \in DOMAIN q : q[l] = n
  <2> DEFINE I == {l \in 1..Len(q) : q[l] = n}
             i == Min(I)
  <2>1. PICK m \in DOMAIN q : q[m] = n
    BY <1>2
  <2>2. I = {m}
    BY <1>0, <2>1 DEF Injective
  <2>3. i = m
    BY <1>0, <2>2 DEF Min
  <2>4. RemoveFirst(q, n) = RemoveAt(q, m)
    BY <1>0, <2>1, <2>2, <2>3 DEF RemoveFirst, SelectInSeq
  <2> DEFINE z == RemoveAt(q, m)
  <2>5. /\ z \in Seq(S) /\ DOMAIN z = 1 .. Len(q) - 1
        /\ \A k \in 1 .. Len(q) - 1 : z[k] = IF k < m THEN q[k] ELSE q[k+1]
    BY RemoveAtIs
  <2> HIDE DEF z
  <2>6. \A k \in DOMAIN z : \E l \in DOMAIN q : z[k] = q[l] /\ l # m /\ l = IF k < m THEN k ELSE k+1
    BY <1>0, <2>5
  <2>7. Injective(z)
    <3> SUFFICES ASSUME NEW k \in DOMAIN z, NEW l \in DOMAIN z, z[k] = z[l] PROVE k = l
      BY DEF Injective
    <3> DEFINE up(x) == IF x < m THEN x ELSE x+1
    <3>1. up(k) \in DOMAIN q /\ up(l) \in DOMAIN q /\ q[up(k)] = q[up(l)]
      BY <1>0, <2>5
    <3>2. up(k) = up(l)
      <4> HIDE DEF up
      <4> QED BY <3>1 DEF Injective
    <3> QED
      BY <1>0, <2>5, <3>2
  <2>8. \A k \in DOMAIN z : \E l \in DOMAIN q : z[k] = q[l] /\ q[l] # n
    BY <2>1, <2>6 DEF Injective
  <2> QED
    BY <1>2, <2>4, <2>5, <2>7, <2>8 DEF z
<1> QED
  BY <1>1, <1>2

LEMMA FlattenOne == ASSUME NEW q PROVE FlattenSeq(<<q>>) = q
<1> DEFINE g == [i \in 1..1 |-> q]
           F(f) == [i \in 1..Len(<<q>>) |-> IF i = 1 THEN <<q>>[i] ELSE f[i-1] \o <<q>>[i]]
           h == CHOOSE f : f = F(f)
<1>1. Len(<<q>>) = 1 /\ <<q>>[1] = q
  OBVIOUS
<1>2. g = F(g)
  BY <1>1
<1>3. h = F(h)
  <2> HIDE DEF F
  <2> QED BY <1>2
<1>4. h[1] = q
  BY <1>1, <1>3
<1> QED
  BY <1>1, <1>4 DEF FlattenSeq

LEMMA FlattenNone == FlattenSeq(<<>>) = <<>>
BY DEF FlattenSeq

LEMMA HashMod == ASSUME NEW n \in Nat \ {0}, NEW k \in Nat PROVE k % n \in 0..n-1
OBVIOUS
LEMMA HashSmall == ASSUME NEW n \in Nat \ {0}, NEW k \in 0..n-1 PROVE k % n = k
OBVIOUS

----------------------------------------------------------------------------
(* The invariant.                                                             *)

Nodes == Proc \cup Sched \cup WNode   \* the structures in the lists

\* A main thread that has started no scheduler yet
Beginning == {"start", "linked", "initialised"}

\* The scheduler holds the structure it fills
Listing(s) == spc[s] \in {"file", "created", "filed"} /\ todo[s] # <<>>

Types ==
  /\ htable \in [Table -> [Bucket -> Seq(Nodes)]]
  /\ last_wt_id \in [Sched -> Nat]
  /\ wt_ready_queue \in [Proc -> SUBSET Worker]
  /\ removing = [p \in Proc |-> removing[p]]
  /\ ppc = [p \in Proc |-> ppc[p]]
  /\ sched_id \in [Sched -> Nat]
  /\ seen \in [Sched -> SUBSET Worker]

\* Where a scheduler is, and the directory it has by then: the one of the identifier
\* it has been told, unless its process has been removed meanwhile
DirInv(s) ==
  /\ spc[s] = "start" => path[s] = <<>>
  /\ spc[s] # "start" => ppc[leader(s)] \notin Beginning
  /\ spc[s] = "folder" => todo[s] \in {<<>>, <<leader(s)>>}
  /\ spc[s] \in {"locked", "added", "visible"} => todo[s] = <<leader(s)>>
  /\ (spc[s] = "folder" /\ todo[s] # <<>>) \/ spc[s] = "locked" => path[s] = <<>>
  /\ spc[s] \in {"added", "visible"} => path[s] = <<leader(s), sched_id[s]>>
  /\ Walks(s) \/ spc[s] \in {"file", "created", "filed"} =>
       path[s] = <<leader(s), sched_id[s]>> \/ leader(s) \in freed
  /\ path[s] # <<>> => path[s][1] = leader(s) /\ path[s][2] \in Bucket

\* The path of file number j in the directory of s
FileOf(s, j) == <<path[s][1], path[s][2], j>>

\* File number j of s is that of w.  Number last_wt_id is only in use between
\* proc_create and the increment, or for ever if the scheduler goes no further.
FileId(s, w, j) ==
  /\ path[<<s, w>>] = FileOf(s, j)
  /\ j <= last_wt_id[s] /\ j < Cardinality(seen[s])
  /\ j = last_wt_id[s] => kcle[s] = w /\ spc[s] \in {"created", "entered", "oops", "left"}

FilesOwned(s) ==
  \A w \in Worker :
    \/ path[<<s, w>>] = <<>>
    \/ w \in seen[s] /\ path[s] # <<>> /\ \E j \in Nat : FileId(s, w, j)

\* The walk over the workers: at most as many numbers are used as workers were seen
FileInv(s) ==
  /\ spc[s] \in {"created", "filed"} => todo[s] # <<>>
  /\ spc[s] \in {"file", "created", "filed"} => kcle[s] \in seen[s]
  /\ Listing(s) => todo[s] = <<s>> /\ path[s] # <<>>
  /\ Listing(s) /\ spc[s] = "file" => path[<<s, kcle[s]>>] = <<>>
  /\ spc[s] = "created" => path[<<s, kcle[s]>>] = FileOf(s, last_wt_id[s])
  /\ spc[s] = "filed" => path[<<s, kcle[s]>>] # <<>>
  /\ Listing(s) /\ spc[s] # "filed" => last_wt_id[s] < Cardinality(seen[s])
  /\ last_wt_id[s] <= Cardinality(seen[s])
  /\ seen[s] \subseteq Workers(leader(s)) /\ IsFiniteSet(seen[s])
  /\ FilesOwned(s)

\* A completion list has workers of its process
Queues == \A p \in Proc : wt_ready_queue[p] \subseteq Workers(p)

\* The schedulers with a directory in that of p, and how many identifiers they need
Dirs(p) == {s \in Sched : path[s] # <<>> /\ path[s][1] = p}

DirCount ==
  /\ \A p \in Proc : last_sched_id[p] <= Cardinality(Dirs(p))
  /\ \A s \in Sched : spc[s] = "added" => last_sched_id[leader(s)] < Cardinality(Dirs(leader(s)))

WalkInv == 
  /\ \A s \in Sched : DirInv(s) /\ FileInv(s)
  /\ Queues
  /\ DirCount
  /\ OwnFile

\* The structure has been added to a list
Entered(n) ==
  \/ n \in Proc /\ ppc[n] # "start"
  \/ n \in Sched /\ path[n] # <<>>
  \/ \E s \in Sched, w \in Worker, j \in Nat :
       n = <<s, w>> /\ j < last_wt_id[s] /\ path[n] = FileOf(s, j)

\* The list a structure is added to
Home(n, t, b) ==
  \/ n \in Proc /\ t = Root /\ b = PidHash[n] /\ ppc[n] # "start"
  \/ n \in Sched /\ t = leader(n) /\ path[n] # <<>> /\ b = Hash(path[n][2])
  \/ \E w \in Worker, j \in Nat :
       t \in Sched /\ n = <<t, w>> /\ j < last_wt_id[t] /\ path[n] = FileOf(t, j) /\ b = Hash(j)

\* A list holds structures at home in it that are not freed ...
Homes ==
  \A t \in Table, b \in Bucket : \A k \in DOMAIN htable[t][b] :
    Home(htable[t][b][k], t, b) /\ htable[t][b][k] \notin freed

\* ... each of them once; what is freed was in a list, and what is being removed
Once == \A t \in Table, b \in Bucket : Injective(htable[t][b])

Removed ==
  /\ \A n \in freed : Entered(n)
  /\ \A p \in Proc : removing[p] # None => Entered(removing[p])

\* Where a loop of a removal is: in a table that has been added, at one of its buckets
Cursors ==
  {c \in [of : Nodes \cup {Root}, bkt : Int, next : Nodes \cup {None}] :
     /\ c.of = Root \/ Entered(c.of)
     /\ -1 <= c.bkt /\ c.bkt < NBuckets
     /\ c.next # None => Entered(c.next) /\ c.of \in Table /\ c.bkt \in Bucket}

CursorInv ==
  /\ walk \in [Proc -> Seq(Cursors)]
  /\ \A p \in Proc : ppc[p] = "destroy" => walk[p] # <<>> /\ walk[p][1].of = Root

\* A process's structure stays the only one in its list until it is freed, ...
PupLinked ==
  \A p \in Proc : ppc[p] # "start" => p \in freed \/ htable[Root][PidHash[p]] = <<p>>

\* ... and so does a scheduler's
SchedLinked ==
  \A s \in Sched : path[s] # <<>> =>
    s \in freed \/ htable[leader(s)][Hash(path[s][2])] = <<s>>

TableInv == Homes /\ Once /\ Removed /\ PupLinked /\ SchedLinked

TreeInv == ProcInv /\ Types /\ WalkInv /\ TableInv /\ CursorInv

\* The structures of a directory or file
PathsOf(f) == {n \in Sched \cup WNode : path[n] = f}

ReadTypes ==
  /\ rpc = [r \in Reader |-> rpc[r]]
  /\ rfile = [r \in Reader |-> rfile[r]]
  /\ rnode = [r \in Reader |-> rnode[r]]

\* A reader knows the structure of its file, or none, and that one is not freed
ReadInv ==
  /\ \A f \in files : f # <<>> /\ PathsOf(f) # {}
  /\ \A r \in Reader : rpc[r] = "idle" => rnode[r] = None
  /\ \A r \in Reader : rpc[r] # "idle" =>
       /\ rfile[r] # <<>> /\ PathsOf(rfile[r]) # {}
       /\ rnode[r] # None => rnode[r] \in PathsOf(rfile[r]) \ freed
       /\ rpc[r] \in {"found", "holds", "copied"} => rnode[r] # None

\* Nobody has begun to remove
AllThere == \A p \in Proc : ppc[p] \in Beginning \cup {"ready"}

Listed(s, w) == <<s, w>> \in named /\ path[<<s, w>>] \in files

\* The workers a scheduler has seen have a file, except the one it works on
Walked(s) ==
  /\ spc[s] \in {"start", "folder", "locked", "added", "visible"} => seen[s] = {}
  /\ Walks(s) \/ (spc[s] = "file" /\ todo[s] = <<>>) => \A w \in seen[s] : Listed(s, w)
  /\ Listing(s) => \A w \in seen[s] \ {kcle[s]} : Listed(s, w)
  /\ spc[s] \in {"created", "filed"} => path[<<s, kcle[s]>>] \in files
  /\ spc[s] = "entered" /\ wt_ready_queue[leader(s)] = Workers(leader(s)) =>
       \A w \in Workers(leader(s)) : Listed(s, w)

ListInv ==
  AllThere =>
    /\ freed = {} /\ \A p \in Proc : removing[p] = None
    /\ \A s \in Sched : Walked(s)

----------------------------------------------------------------------------

LEMMA HashIs ==
  ASSUME ProcAssumption
  PROVE  /\ \A p \in Proc : Hash(p) = PidHash[p] /\ PidHash[p] \in Bucket
         /\ \A i \in Nat : Hash(i) = i % NBuckets /\ Hash(i) \in Bucket
         /\ \A i \in Bucket : i \in Nat /\ Hash(i) = i
<1>1. NBuckets \in Nat \ {0} /\ PidHash \in [Proc -> Bucket] /\ \A p \in Proc : p \notin Nat
  BY DEF ProcAssumption
<1>2. \A i \in Nat : i % NBuckets \in 0 .. NBuckets - 1
  BY <1>1, HashMod
<1>3. \A i \in 0 .. NBuckets - 1 : i \in Nat /\ i % NBuckets = i
  BY <1>1, HashSmall
<1> QED
  BY <1>1, <1>2, <1>3 DEF Hash, Bucket

LEMMA DirectoryIs ==
  ASSUME TreeInv, NEW s \in Sched, path[s] # <<>>
  PROVE  \E i \in Bucket : path[s] = <<leader(s), i>> /\ path[s][1] = leader(s) /\ path[s][2] = i
<1>1. path[s] \in Proc \X Nat
  BY DEF TreeInv, ProcInv, Directories
<1>2. path[s][1] = leader(s) /\ path[s][2] \in Bucket
  BY DEF TreeInv, WalkInv, DirInv
<1>3. path[s] = <<path[s][1], path[s][2]>>
  BY <1>1
<1> QED
  BY <1>2, <1>3

LEMMA RootChain ==
  ASSUME TreeInv, ProcAssumption, SchedulersSpread, NEW p \in Proc
  PROVE  htable[Root][PidHash[p]] = <<>> \/ (htable[Root][PidHash[p]] = <<p>> /\ p \notin freed)
<1> DEFINE b == PidHash[p]
           q == htable[Root][b]
<1>1. b \in Bucket /\ Root \in Table /\ q \in Seq(Nodes)
  BY HashIs DEF TreeInv, Types, Table
<1>2. \A k \in DOMAIN q : q[k] = p /\ p \notin freed
  <2> SUFFICES ASSUME NEW k \in DOMAIN q PROVE q[k] = p /\ p \notin freed
    OBVIOUS
  <2>1. Home(q[k], Root, b) /\ q[k] \notin freed
    BY <1>1 DEF TreeInv, TableInv, Homes
  <2>2. q[k] \in Proc /\ PidHash[q[k]] = b
    <3>1. Root \notin Sched /\ \A s \in Sched : leader(s) # Root
      BY DEF ProcAssumption, leader
    <3> QED
      BY <2>1, <3>1 DEF Home
  <2> QED
    BY <2>1, <2>2 DEF SchedulersSpread
<1>3. Injective(q)
  BY <1>1 DEF TreeInv, TableInv, Once
<1>4. \A k, l \in DOMAIN q : k = l
  BY <1>2, <1>3 DEF Injective
<1> HIDE DEF q
<1>5. q = <<>> \/ (1 \in DOMAIN q /\ q = <<q[1]>>)
  BY <1>1, <1>4, AtMostOne
<1>6. q = <<>> \/ (q = <<p>> /\ p \notin freed)
  BY <1>2, <1>5
<1> QED
  BY <1>6 DEF q

LEMMA ProcChain ==
  ASSUME TreeInv, ProcAssumption, NEW p \in Proc, NEW b \in Bucket
  PROVE  \/ htable[p][b] = <<>>
         \/ \E s \in Sched : /\ htable[p][b] = <<s>> /\ s \notin freed
                            /\ leader(s) = p /\ path[s] = <<p, b>>
<1> DEFINE q == htable[p][b]
<1>1. p \in Table /\ q \in Seq(Nodes)
  BY DEF TreeInv, Types, Table
<1>2. \A k \in DOMAIN q : q[k] \in Sched /\ leader(q[k]) = p /\ path[q[k]] = <<p, b>> /\ q[k] \notin freed
  <2> SUFFICES ASSUME NEW k \in DOMAIN q
               PROVE  q[k] \in Sched /\ leader(q[k]) = p /\ path[q[k]] = <<p, b>> /\ q[k] \notin freed
    OBVIOUS
  <2>1. Home(q[k], p, b) /\ q[k] \notin freed
    BY <1>1 DEF TreeInv, TableInv, Homes
  <2>2. q[k] \in Sched /\ leader(q[k]) = p /\ path[q[k]] # <<>> /\ Hash(path[q[k]][2]) = b
    <3>1. p # Root /\ p \notin Sched
      BY DEF ProcAssumption
    <3> QED
      BY <2>1, <3>1 DEF Home
  <2>3. PICK i \in Bucket : path[q[k]] = <<p, i>> /\ path[q[k]][2] = i
    BY <2>2, DirectoryIs
  <2>4. i = b
    BY <2>2, <2>3, HashIs
  <2> QED
    BY <2>1, <2>2, <2>3, <2>4
<1>3. Injective(q)
  BY <1>1 DEF TreeInv, TableInv, Once
<1>4. \A k, l \in DOMAIN q : q[k] = q[l]
  <2>1. \A s, u \in Sched : path[s] = <<p, b>> /\ path[u] = <<p, b>> => s = u
    BY EmptyIsNoPair DEF TreeInv, ProcInv, OwnDirectory
  <2> HIDE DEF q
  <2> QED
    BY <1>2, <2>1
<1>5. \A k, l \in DOMAIN q : k = l
  BY <1>3, <1>4 DEF Injective
<1> HIDE DEF q
<1>6. q = <<>> \/ (1 \in DOMAIN q /\ q = <<q[1]>>)
  BY <1>1, <1>5, AtMostOne
<1>7. q = <<>> \/ \E s \in Sched : q = <<s>> /\ s \notin freed /\ leader(s) = p /\ path[s] = <<p, b>>
  BY <1>2, <1>6
<1> QED
  BY <1>7 DEF q

LEMMA SchedulersAtIs ==
  ASSUME TreeInv, ProcAssumption, SchedulersSpread, NEW p \in Proc, NEW i \in Nat
  PROVE  \/ SchedulersAt(i, p) = <<>> /\ htable[Root][PidHash[p]] = <<>>
         \/ SchedulersAt(i, p) = htable[p][Hash(i)] /\ htable[Root][PidHash[p]] = <<p>>
<1> DEFINE P == Possible(Root, p)
<1>1. P = htable[Root][PidHash[p]]
  BY HashIs DEF Possible
<1>2. CASE P = <<>>
  <2>1. [k \in DOMAIN P |-> Possible(P[k], i)] = <<>>
    BY <1>2
  <2> QED
    BY <1>1, <1>2, <2>1, FlattenNone DEF SchedulersAt
<1>3. CASE P = <<p>>
  <2>1. [k \in DOMAIN P |-> Possible(P[k], i)] = <<Possible(p, i)>>
    BY <1>3
  <2>2. SchedulersAt(i, p) = Possible(p, i)
    BY <2>1, FlattenOne DEF SchedulersAt
  <2> QED
    BY <1>1, <1>3, <2>2 DEF Possible
<1> QED
  BY <1>1, <1>2, <1>3, RootChain

\* An element of a table has been added
LEMMA HomeIsEntered ==
  ASSUME NEW n, NEW t \in Table, NEW b \in Bucket, Home(n, t, b)
  PROVE  Entered(n)
BY DEF Home, Entered

----------------------------------------------------------------------------

\* A step leaves scheduler t and what it has made alone
Same(t) ==
  /\ spc'[t] = spc[t] /\ todo'[t] = todo[t] /\ sched_id'[t] = sched_id[t]
  /\ kcle'[t] = kcle[t] /\ seen'[t] = seen[t] /\ last_wt_id'[t] = last_wt_id[t]
  /\ path'[t] = path[t] /\ \A w \in Worker : path'[<<t, w>>] = path[<<t, w>>]

\* Nothing freed comes back, and no process starts again
Ahead ==
  /\ freed \subseteq freed'
  /\ \A p \in Proc : ppc[p] \notin Beginning => ppc'[p] \notin Beginning

LEMMA SameStep ==
  ASSUME NEW t \in Sched, DirInv(t), FileInv(t), Same(t), Ahead, LeaderOf[t] \in Proc,
         kcle[t] \in Worker \cup {None}, None \notin Worker, seen[t] \subseteq Worker
  PROVE  DirInv(t)' /\ FileInv(t)'
<1>1. DirInv(t)'
  BY DEF DirInv, Same, Ahead, leader, Walks
<1>2. \A w \in Worker, j \in Nat : FileId(t, w, j) => FileId(t, w, j)'
  BY DEF FileId, FileOf, Same
<1>3. /\ (Listing(t) <=> Listing(t)') 
      /\ spc[t] \in {"file", "created", "filed"} => path'[<<t, kcle[t]>>] = path[<<t, kcle[t]>>]
  BY DEF Listing, Same, FileInv
<1>4. FileInv(t)'
  BY <1>2, <1>3 DEF FileInv, FilesOwned, Same, FileOf, leader, Workers
<1> QED
  BY <1>1, <1>4

\* Steps of other threads
LEMMA QuietWalk ==
  ASSUME TreeInv, ProcAssumption, Ahead, Queues',
         UNCHANGED <<path, spc, todo, sched_id, kcle, seen, last_wt_id, last_sched_id>>
  PROVE  WalkInv'
<1>1. \A t \in Sched : DirInv(t)' /\ FileInv(t)'
  <2> TAKE t \in Sched
  <2>1. DirInv(t) /\ FileInv(t) /\ Same(t)
    BY DEF TreeInv, WalkInv, Same
  <2>2. LeaderOf[t] \in Proc /\ kcle[t] \in Worker \cup {None} /\ None \notin Worker /\ seen[t] \subseteq Worker
    BY DEF TreeInv, ProcInv, Shapes, Types, ProcAssumption
  <2> QED
    BY <2>1, <2>2, SameStep
<1>2. DirCount' /\ OwnFile'
  BY DEF TreeInv, WalkInv, DirCount, Dirs, OwnFile
<1> QED
  BY <1>1, <1>2 DEF WalkInv

\* Steps of a scheduler that make neither a directory nor a file
LEMMA SchedWalk ==
  ASSUME TreeInv, ProcAssumption, NEW s \in Sched, \A t \in Sched \ {s} : Same(t),
         UNCHANGED <<path, last_sched_id, ppc, freed, wt_ready_queue>>,
         spc'[s] # "added", DirInv(s)', FileInv(s)'
  PROVE  WalkInv'
<1>1. \A t \in Sched : DirInv(t)' /\ FileInv(t)'
  <2> TAKE t \in Sched
  <2>1. CASE t = s
    BY <2>1
  <2>2. CASE t # s
    <3>1. DirInv(t) /\ FileInv(t) /\ Same(t) /\ Ahead
      BY <2>2 DEF TreeInv, WalkInv, Ahead
    <3>2. LeaderOf[t] \in Proc /\ kcle[t] \in Worker \cup {None} /\ None \notin Worker /\ seen[t] \subseteq Worker
      BY DEF TreeInv, ProcInv, Shapes, Types, ProcAssumption
    <3> QED
      BY <3>1, <3>2, SameStep
  <2> QED
    BY <2>1, <2>2
<1>2. Queues' /\ OwnFile'
  BY DEF TreeInv, WalkInv, Queues, Workers, OwnFile
<1>3. DirCount'
  <2>1. \A p \in Proc : Dirs(p)' = Dirs(p)
    BY DEF Dirs
  <2>2. \A t \in Sched : spc'[t] = "added" => spc[t] = "added" /\ leader(t) \in Proc
    BY DEF Same, leader, ProcAssumption
  <2> QED
    BY <2>1, <2>2 DEF TreeInv, WalkInv, DirCount, leader
<1> QED
  BY <1>1, <1>2, <1>3 DEF WalkInv

AfterFile == {"created", "entered", "oops", "left"}

\* The files a scheduler has made stay its own
LEMMA FilesKept ==
  ASSUME TreeInv, NEW s \in Sched, UNCHANGED path,
         last_wt_id'[s] \in Nat, last_wt_id'[s] >= last_wt_id[s],
         seen[s] \subseteq seen'[s], IsFiniteSet(seen'[s]),
         spc[s] \in AfterFile /\ last_wt_id'[s] = last_wt_id[s] =>
           kcle'[s] = kcle[s] /\ spc'[s] \in AfterFile
  PROVE  FilesOwned(s)'
<1> SUFFICES ASSUME NEW w \in Worker, path[<<s, w>>] # <<>>
             PROVE  w \in seen'[s] /\ path'[s] # <<>> /\ \E j \in Nat : FileId(s, w, j)'
  BY DEF FilesOwned
<1>1. PICK j \in Nat : w \in seen[s] /\ path[s] # <<>> /\ FileId(s, w, j)
  BY DEF TreeInv, WalkInv, FileInv, FilesOwned
<1>2. Cardinality(seen[s]) <= Cardinality(seen'[s]) /\ Cardinality(seen[s]) \in Nat /\ Cardinality(seen'[s]) \in Nat
  BY FS_Subset, FS_CardinalityType
<1>3. last_wt_id[s] \in Nat
  BY DEF TreeInv, Types
<1>4. FileId(s, w, j)'
  BY <1>1, <1>2, <1>3 DEF FileId, FileOf, AfterFile
<1> QED
  BY <1>1, <1>4

LEMMA FilesSame ==
  ASSUME TreeInv, NEW s \in Sched, UNCHANGED path,
         last_wt_id'[s] = last_wt_id[s], seen'[s] = seen[s],
         spc[s] \in AfterFile => kcle'[s] = kcle[s] /\ spc'[s] \in AfterFile
  PROVE  FilesOwned(s)'
<1>1. last_wt_id[s] \in Nat /\ IsFiniteSet(seen[s])
  BY DEF TreeInv, Types, WalkInv, FileInv
<1>2. last_wt_id'[s] \in Nat /\ last_wt_id'[s] >= last_wt_id[s]
  BY <1>1
<1> QED
  BY <1>1, <1>2, FilesKept

LEMMA TailOfOne == ASSUME NEW x PROVE Tail(<<x>>) = <<>>
OBVIOUS

LEMMA EnterModeWalk ==
  ASSUME TreeInv, ProcAssumption, SchedulersSpread, NEW s \in Sched, EnterMode(s)
  PROVE  WalkInv'
<1>1. /\ UNCHANGED <<path, last_sched_id, ppc, freed, wt_ready_queue, sched_id, kcle, seen, last_wt_id>>
      /\ spc[s] = "start" /\ ppc[leader(s)] = "ready"
      /\ todo' = [todo EXCEPT ![s] = Possible(Root, leader(s))]
      /\ spc' = [spc EXCEPT ![s] = "folder"]
  BY DEF EnterMode, tableVars, idVars, mainVars, SGoto
<1>2. leader(s) \in Proc
  BY DEF leader, ProcAssumption
<1>3. /\ \A t \in Sched \ {s} : Same(t)
      /\ spc'[s] = "folder" /\ todo'[s] = Possible(Root, leader(s))
  BY <1>1 DEF Same, TreeInv, ProcInv, Shapes
<1>4. Possible(Root, leader(s)) = <<leader(s)>> \/ (Possible(Root, leader(s)) = <<>> /\ leader(s) \in freed)
  BY <1>1, <1>2, RootChain, HashIs DEF Possible, TreeInv, TableInv, PupLinked
<1>5. DirInv(s) /\ FileInv(s)
  BY DEF TreeInv, WalkInv
<1>6. DirInv(s)'
  BY <1>1, <1>3, <1>4, <1>5 DEF DirInv, Walks, leader, Beginning
<1>7. FileInv(s)'
  <2>1. FilesOwned(s)'
    BY <1>1, <1>5 DEF DirInv, FileInv, FilesOwned
  <2> QED
    BY <1>1, <1>3, <1>5, <2>1 DEF FileInv, Listing, leader, Workers
<1> QED
  BY <1>1, <1>3, <1>6, <1>7, SchedWalk

LEMMA LockWalk ==
  ASSUME TreeInv, ProcAssumption, NEW s \in Sched, NEW pup \in Proc, LockPup(s, pup)
  PROVE  WalkInv'
<1>1. /\ UNCHANGED <<path, last_sched_id, ppc, freed, wt_ready_queue, todo, sched_id, kcle, seen, last_wt_id>>
      /\ spc[s] = "folder" /\ todo[s] # <<>>
      /\ spc' = [spc EXCEPT ![s] = "locked"]
  BY DEF LockPup, tableVars, locals, schedOthers, mainVars, SGoto
<1>2. (\A t \in Sched \ {s} : Same(t)) /\ spc'[s] = "locked"
  BY <1>1 DEF Same, TreeInv, ProcInv, Shapes
<1>3. DirInv(s) /\ FileInv(s)
  BY DEF TreeInv, WalkInv
<1>4. DirInv(s)'
  BY <1>1, <1>2, <1>3 DEF DirInv, Walks, leader
<1>5. FileInv(s)'
  <2>1. FilesOwned(s)'
    BY <1>1, <1>3 DEF DirInv, FileInv, FilesOwned
  <2> QED
    BY <1>1, <1>2, <1>3, <2>1 DEF FileInv, Listing, leader, Workers
<1> QED
  BY <1>1, <1>2, <1>4, <1>5, SchedWalk

LEMMA SchedPidWalk ==
  ASSUME TreeInv, ProcAssumption, NEW s \in Sched, SetSchedPid(s)
  PROVE  WalkInv'
<1>1. /\ UNCHANGED <<path, last_sched_id, ppc, freed, wt_ready_queue, sched_id, kcle, seen, last_wt_id>>
      /\ spc[s] = "visible"
      /\ todo' = [todo EXCEPT ![s] = Tail(todo[s])]
      /\ spc' = [spc EXCEPT ![s] = "folder"]
  BY DEF SetSchedPid, idVars, schedOthers, mainVars, SGoto
<1>2. /\ \A t \in Sched \ {s} : Same(t)
      /\ spc'[s] = "folder" /\ todo'[s] = Tail(todo[s])
  BY <1>1 DEF Same, TreeInv, ProcInv, Shapes
<1>3. DirInv(s) /\ FileInv(s)
  BY DEF TreeInv, WalkInv
<1>4. todo'[s] = <<>>
  <2>1. todo[s] = <<leader(s)>>
    BY <1>1, <1>3 DEF DirInv
  <2> QED
    BY <1>2, <2>1, TailOfOne
<1>5. DirInv(s)'
  BY <1>1, <1>2, <1>3, <1>4 DEF DirInv, Walks, leader
<1>6. FileInv(s)'
  <2>1. FilesOwned(s)'
    BY <1>1, <1>2, FilesSame DEF AfterFile
  <2> QED
    BY <1>1, <1>2, <1>3, <1>4, <2>1 DEF FileInv, Listing, leader, Workers
<1> QED
  BY <1>1, <1>2, <1>5, <1>6, SchedWalk

\* Scheduler s finds its own structure, if it finds any
LEMMA OwnStructure ==
  ASSUME TreeInv, ProcAssumption, SchedulersSpread, NEW s \in Sched,
         path[s] = <<leader(s), sched_id[s]>> \/ leader(s) \in freed
  PROVE  \/ SchedulersAt(sched_id[s], leader(s)) = <<>>
         \/ SchedulersAt(sched_id[s], leader(s)) = <<s>> /\ path[s] # <<>> /\ s \notin freed
<1> DEFINE p == leader(s)
           i == sched_id[s]
<1>1. p \in Proc /\ i \in Nat
  BY DEF leader, ProcAssumption, TreeInv, Types
<1>2. \/ SchedulersAt(i, p) = <<>>
      \/ SchedulersAt(i, p) = htable[p][Hash(i)] /\ htable[Root][PidHash[p]] = <<p>>
  BY <1>1, SchedulersAtIs
<1>3. CASE SchedulersAt(i, p) = htable[p][Hash(i)] /\ htable[Root][PidHash[p]] = <<p>>
  <2>1. p \notin freed
    BY <1>1, <1>3, RootChain
  <2>2. path[s] = <<p, i>> /\ path[s] # <<>>
    BY <2>1, EmptyIsNoPair
  <2>3. i \in Bucket /\ Hash(i) = i
    <3>1. PICK k \in Bucket : path[s] = <<leader(s), k>> /\ path[s][2] = k
      BY <2>2, DirectoryIs
    <3>2. i = k
      BY <2>2, <3>1
    <3> QED
      BY <3>1, <3>2, HashIs
  <2>4. \/ htable[p][i] = <<>>
        \/ \E u \in Sched : htable[p][i] = <<u>> /\ u \notin freed /\ path[u] = <<p, i>>
    <3> HIDE DEF p, i
    <3> QED BY <1>1, <2>3, ProcChain
  <2>5. \A u \in Sched : path[u] = <<p, i>> => u = s
    BY <2>2 DEF TreeInv, ProcInv, OwnDirectory
  <2> QED
    BY <1>3, <2>2, <2>3, <2>4, <2>5
<1> QED
  BY <1>2, <1>3

LEMMA NextWorkerWalk ==
  ASSUME TreeInv, ProcAssumption, SchedulersSpread, NEW s \in Sched, NEW w \in Worker,
         NextWorker(s, w)
  PROVE  WalkInv'
<1>1. /\ UNCHANGED <<path, last_sched_id, ppc, freed, wt_ready_queue, sched_id, last_wt_id>>
      /\ Walks(s) /\ w \in wt_ready_queue[leader(s)] /\ w \notin seen[s]
      /\ kcle' = [kcle EXCEPT ![s] = w]
      /\ seen' = [seen EXCEPT ![s] = seen[s] \cup {w}]
      /\ todo' = [todo EXCEPT ![s] = SchedulersAt(sched_id[s], leader(s))]
      /\ spc' = [spc EXCEPT ![s] = "file"]
  BY DEF NextWorker, tableVars, idVars, schedOthers, mainVars, SGoto
<1>2. /\ \A t \in Sched \ {s} : Same(t)
      /\ spc'[s] = "file" /\ todo'[s] = SchedulersAt(sched_id[s], leader(s))
      /\ kcle'[s] = w /\ seen'[s] = seen[s] \cup {w}
  BY <1>1 DEF Same, TreeInv, ProcInv, Shapes, Types
<1>3. DirInv(s) /\ FileInv(s)
  BY DEF TreeInv, WalkInv
<1>4. path[s] = <<leader(s), sched_id[s]>> \/ leader(s) \in freed
  BY <1>1, <1>3 DEF DirInv
<1>5. todo'[s] = <<>> \/ (todo'[s] = <<s>> /\ path[s] # <<>>)
  BY <1>2, <1>4, OwnStructure
<1>6. DirInv(s)'
  BY <1>1, <1>2, <1>3, <1>4 DEF DirInv, Walks, leader
<1>7. /\ IsFiniteSet(seen'[s]) /\ Cardinality(seen'[s]) = Cardinality(seen[s]) + 1
      /\ Cardinality(seen[s]) \in Nat /\ last_wt_id[s] \in Nat
  BY <1>1, <1>2, <1>3, FS_AddElement, FS_CardinalityType DEF FileInv, TreeInv, Types
<1>8. FilesOwned(s)'
  <2>1. spc[s] \notin AfterFile
    BY <1>1 DEF Walks, AfterFile
  <2>2. last_wt_id'[s] \in Nat /\ last_wt_id'[s] >= last_wt_id[s]
    BY <1>1, <1>7
  <2> QED
    BY <1>1, <1>2, <1>7, <2>1, <2>2, FilesKept
<1>9. FileInv(s)'
  <2>1. path[<<s, w>>] = <<>>
    BY <1>1, <1>3 DEF FileInv, FilesOwned
  <2>2. seen'[s] \subseteq Workers(leader(s))
    <3>1. wt_ready_queue[leader(s)] \subseteq Workers(leader(s))
      BY DEF TreeInv, WalkInv, Queues, leader, ProcAssumption
    <3> QED
      BY <1>1, <1>2, <1>3, <3>1 DEF FileInv
  <2>3. last_wt_id'[s] < Cardinality(seen'[s]) /\ last_wt_id'[s] <= Cardinality(seen'[s])
    BY <1>1, <1>3, <1>7 DEF FileInv
  <2> QED
    BY <1>1, <1>2, <1>5, <1>7, <1>8, <2>1, <2>2, <2>3 DEF FileInv, Listing, leader, Workers
<1> QED
  BY <1>1, <1>2, <1>6, <1>9, SchedWalk

LEMMA WtPidWalk ==
  ASSUME TreeInv, ProcAssumption, NEW s \in Sched, SetWtPid(s)
  PROVE  WalkInv'
<1>1. /\ UNCHANGED <<path, last_sched_id, ppc, freed, wt_ready_queue, sched_id, kcle, seen, last_wt_id>>
      /\ spc[s] = "filed"
      /\ todo' = [todo EXCEPT ![s] = Tail(todo[s])]
      /\ spc' = [spc EXCEPT ![s] = "file"]
  BY DEF SetWtPid, idVars, schedOthers, mainVars, SGoto
<1>2. /\ \A t \in Sched \ {s} : Same(t)
      /\ spc'[s] = "file" /\ todo'[s] = Tail(todo[s])
  BY <1>1 DEF Same, TreeInv, ProcInv, Shapes
<1>3. DirInv(s) /\ FileInv(s)
  BY DEF TreeInv, WalkInv
<1>4. todo'[s] = <<>>
  <2>1. todo[s] = <<s>>
    BY <1>1, <1>3 DEF FileInv, Listing
  <2> QED
    BY <1>2, <2>1, TailOfOne
<1>5. path[s] = <<leader(s), sched_id[s]>> \/ leader(s) \in freed
  BY <1>1, <1>3 DEF DirInv
<1>6. DirInv(s)'
  BY <1>1, <1>2, <1>3, <1>4, <1>5 DEF DirInv, Walks, leader
<1>7. FilesOwned(s)'
  BY <1>1, <1>2, FilesSame DEF AfterFile
<1>8. FileInv(s)'
  BY <1>1, <1>2, <1>3, <1>4, <1>7 DEF FileInv, Listing, leader, Workers
<1> QED
  BY <1>1, <1>2, <1>6, <1>8, SchedWalk

LEMMA PlainWalk ==
  ASSUME TreeInv, ProcAssumption, NEW s \in Sched,
         FileMade(s) \/ EndWalk(s) \/ EnterAstray(s) \/ LeaveMode(s)
  PROVE  WalkInv'
<1>1. UNCHANGED <<path, last_sched_id, ppc, freed, wt_ready_queue, todo, sched_id, kcle, seen, last_wt_id>>
  BY DEF FileMade, EndWalk, FillsRaw, EnterAstray, LeaveMode, tableVars, idVars, locals, schedOthers, mainVars
<1>2. PICK l \in {"walk", "entered", "oops", "left"} :
        /\ spc' = [spc EXCEPT ![s] = l] /\ spc[s] # "start"
        /\ l = "walk" => spc[s] = "file" /\ todo[s] = <<>>
  BY DEF FileMade, EndWalk, FillsRaw, EnterAstray, LeaveMode, SGoto, Walks, Stale
<1>3. (\A t \in Sched \ {s} : Same(t)) /\ spc'[s] = l
  BY <1>1, <1>2 DEF Same, TreeInv, ProcInv, Shapes
<1>4. DirInv(s) /\ FileInv(s)
  BY DEF TreeInv, WalkInv
<1>5. DirInv(s)'
  BY <1>1, <1>2, <1>3, <1>4 DEF DirInv, Walks, leader
<1>6. FilesOwned(s)'
  BY <1>1, <1>2, <1>3, FilesSame DEF AfterFile
<1>7. FileInv(s)'
  BY <1>1, <1>2, <1>3, <1>4, <1>6 DEF FileInv, Listing, leader, Workers
<1> QED
  BY <1>1, <1>2, <1>3, <1>5, <1>7, SchedWalk

\* What a scheduler holds while it makes a file
LEMMA Holding ==
  ASSUME TreeInv, NEW s \in Sched, Listing(s)
  PROVE  /\ todo[s] = <<s>> /\ sched(s) = s /\ path[s] # <<>>
         /\ kcle[s] \in Worker /\ kcle[s] \in seen[s]
         /\ last_wt_id[s] \in Nat /\ Cardinality(seen[s]) \in Nat
<1>1. FileInv(s) /\ seen[s] \subseteq Worker /\ last_wt_id[s] \in Nat
  BY DEF TreeInv, WalkInv, Types
<1>2. todo[s] = <<s>> /\ path[s] # <<>> /\ kcle[s] \in seen[s] /\ IsFiniteSet(seen[s])
  BY <1>1 DEF FileInv, Listing
<1>3. Head(<<s>>) = s
  OBVIOUS
<1> QED
  BY <1>1, <1>2, <1>3, FS_CardinalityType DEF sched

LEMMA AddFileWalk ==
  ASSUME TreeInv, ProcAssumption, NEW s \in Sched, AddFile(s)
  PROVE  WalkInv'
<1>0. DirInv(s) /\ FileInv(s)
  BY DEF TreeInv, WalkInv
<1>1. Listing(s) /\ spc[s] = "created"
  BY <1>0 DEF AddFile, FileInv, Listing
<1>2. /\ todo[s] = <<s>> /\ sched(s) = s /\ path[s] # <<>>
      /\ kcle[s] \in Worker /\ kcle[s] \in seen[s]
      /\ last_wt_id[s] \in Nat /\ Cardinality(seen[s]) \in Nat
  BY <1>1, Holding
<1>3. /\ UNCHANGED <<path, last_sched_id, ppc, freed, wt_ready_queue, todo, sched_id, kcle, seen>>
      /\ last_wt_id' = [last_wt_id EXCEPT ![s] = last_wt_id[s] + 1]
      /\ spc' = [spc EXCEPT ![s] = "filed"]
  BY <1>2 DEF AddFile, locals, schedOthers, mainVars, SGoto
<1>4. /\ \A t \in Sched \ {s} : Same(t)
      /\ spc'[s] = "filed" /\ last_wt_id'[s] = last_wt_id[s] + 1
  BY <1>3 DEF Same, TreeInv, ProcInv, Shapes, Types
<1>5. DirInv(s)'
  BY <1>0, <1>1, <1>3, <1>4 DEF DirInv, Walks, leader
<1>6. last_wt_id'[s] \in Nat /\ last_wt_id'[s] >= last_wt_id[s] /\ last_wt_id'[s] # last_wt_id[s]
  BY <1>2, <1>4
<1>7. FilesOwned(s)'
  BY <1>0, <1>3, <1>6, FilesKept DEF FileInv
<1>8. FileInv(s)'
  <2>1. path[<<s, kcle[s]>>] # <<>>
    <3>1. path[<<s, kcle[s]>>] = FileOf(s, last_wt_id[s])
      BY <1>0, <1>1 DEF FileInv
    <3>2. Len(FileOf(s, last_wt_id[s])) = 3 /\ Len(<<>>) = 0
      BY DEF FileOf
    <3> QED
      BY <3>1, <3>2
  <2>2. last_wt_id'[s] <= Cardinality(seen[s])
    BY <1>0, <1>1, <1>2, <1>4 DEF FileInv
  <2> QED
    BY <1>0, <1>1, <1>2, <1>3, <1>4, <1>7, <2>1, <2>2 DEF FileInv, Listing, leader, Workers
<1> QED
  BY <1>3, <1>4, <1>5, <1>8, SchedWalk

LEMMA AppendToPair == ASSUME NEW a, NEW b, NEW c PROVE Append(<<a, b>>, c) = <<a, b, c>>
<1> DEFINE S == {a, b, c}
           q == Append(<<a, b>>, c)
           z == <<a, b, c>>
<1>1. <<a, b>> \in Seq(S) /\ Len(<<a, b>>) = 2 /\ <<a, b>>[1] = a /\ <<a, b>>[2] = b
  OBVIOUS
<1>2. q \in Seq(S) /\ Len(q) = 3 /\ q[1] = a /\ q[2] = b /\ q[3] = c
  BY <1>1, AppendProperties
<1>3. z \in Seq(S) /\ Len(z) = 3 /\ z[1] = a /\ z[2] = b /\ z[3] = c
  OBVIOUS
<1> HIDE DEF S, q, z
<1>4. \A i \in 1 .. Len(q) : q[i] = z[i]
  BY <1>2, <1>3
<1>5. q = z
  BY <1>2, <1>3, <1>4, SeqEqual
<1> QED
  BY <1>5 DEF q, z

LEMMA TripleIs ==
  ASSUME NEW a, NEW b, NEW c, NEW d, NEW e, NEW f, <<a, b, c>> = <<d, e, f>>
  PROVE  a = d /\ b = e /\ c = f
OBVIOUS

LEMMA TripleNotEmpty == ASSUME NEW a, NEW b, NEW c PROVE <<a, b, c>> # <<>>
<1>1. Len(<<a, b, c>>) = 3 /\ Len(<<>>) = 0
  OBVIOUS
<1> QED
  BY <1>1

\* Files of two schedulers lie in two directories
LEMMA FilesApart ==
  ASSUME TreeInv, NEW s \in Sched, NEW t \in Sched, path[s] # <<>>, path[t] # <<>>,
         NEW i, NEW j, FileOf(s, i) = FileOf(t, j)
  PROVE  s = t /\ i = j
<1>1. PICK a \in Bucket : path[s] = <<leader(s), a>> /\ path[s][1] = leader(s) /\ path[s][2] = a
  BY DirectoryIs
<1>2. PICK b \in Bucket : path[t] = <<leader(t), b>> /\ path[t][1] = leader(t) /\ path[t][2] = b
  BY DirectoryIs
<1>3. leader(s) = leader(t) /\ a = b /\ i = j
  BY <1>1, <1>2, TripleIs DEF FileOf
<1> QED
  BY <1>1, <1>2, <1>3 DEF TreeInv, ProcInv, OwnDirectory

LEMMA CreateFileWalk ==
  ASSUME TreeInv, ProcAssumption, NEW s \in Sched, CreateFile(s)
  PROVE  WalkInv'
<1>0. DirInv(s) /\ FileInv(s)
  BY DEF TreeInv, WalkInv
<1>1. Listing(s) /\ spc[s] = "file"
  BY <1>0 DEF CreateFile, Listing
<1>2. /\ todo[s] = <<s>> /\ sched(s) = s /\ path[s] # <<>>
      /\ kcle[s] \in Worker /\ kcle[s] \in seen[s]
      /\ last_wt_id[s] \in Nat /\ Cardinality(seen[s]) \in Nat
  BY <1>1, Holding
<1>3. UNCHANGED <<last_sched_id, ppc, freed, wt_ready_queue, todo, sched_id, kcle, seen, last_wt_id>>
  BY DEF CreateFile, locals, schedOthers, mainVars, idVars
<1> DEFINE n == <<s, kcle[s]>>
           f == FileOf(s, last_wt_id[s])
<1>4. Append(path[s], last_wt_id[s]) = f
  <2>1. PICK a \in Bucket : path[s] = <<leader(s), a>> /\ path[s][1] = leader(s) /\ path[s][2] = a
    BY <1>2, DirectoryIs
  <2> QED
    BY <2>1, AppendToPair DEF FileOf
<1>5. CASE spc' = [spc EXCEPT ![s] = "oops"] /\ UNCHANGED path
  <2>1. (\A t \in Sched \ {s} : Same(t)) /\ spc'[s] = "oops"
    BY <1>3, <1>5 DEF Same, TreeInv, ProcInv, Shapes
  <2>2. DirInv(s)'
    BY <1>0, <1>1, <1>3, <1>5, <2>1 DEF DirInv, Walks, leader
  <2>3. FilesOwned(s)'
    BY <1>1, <1>3, <1>5, <2>1, FilesSame DEF AfterFile
  <2>4. FileInv(s)'
    BY <1>0, <1>1, <1>3, <1>5, <2>1, <2>3 DEF FileInv, Listing, leader, Workers
  <2> QED
    BY <1>3, <1>5, <2>1, <2>2, <2>4, SchedWalk
<1>6. CASE /\ path' = [path EXCEPT ![n] = f]
           /\ spc' = [spc EXCEPT ![s] = "created"]
  <2>1. n \in WNode /\ n \notin Sched
    BY <1>2 DEF WNode, ProcAssumption
  <2>2. /\ path'[n] = f
        /\ \A m \in Sched \cup WNode : m # n => path'[m] = path[m]
        /\ \A t \in Sched : path'[t] = path[t]
    BY <1>6, <2>1 DEF TreeInv, ProcInv, Shapes
  <2>3. spc'[s] = "created" /\ \A t \in Sched \ {s} : spc'[t] = spc[t]
    BY <1>6 DEF TreeInv, ProcInv, Shapes
  <2>4. \A t \in Sched, w \in Worker : <<t, w>> \in WNode /\ (<<t, w>> = n <=> t = s /\ w = kcle[s])
    BY DEF WNode
  <2>5. \A t \in Sched : DirInv(t)' /\ FileInv(t)'
    <3> TAKE t \in Sched
    <3>1. CASE t # s
      <4>1. DirInv(t) /\ FileInv(t) /\ Same(t) /\ Ahead
        BY <1>3, <2>2, <2>3, <2>4, <3>1 DEF TreeInv, WalkInv, Ahead, Same
      <4>2. LeaderOf[t] \in Proc /\ kcle[t] \in Worker \cup {None} /\ None \notin Worker /\ seen[t] \subseteq Worker
        BY DEF TreeInv, ProcInv, Shapes, Types, ProcAssumption
      <4> QED
        BY <4>1, <4>2, SameStep
    <3>2. CASE t = s
      <4>1. DirInv(s)'
        BY <1>0, <1>1, <1>3, <2>2, <2>3 DEF DirInv, Walks, leader
      <4>2. f' = f
        BY <1>3, <2>2 DEF FileOf
      <4>3. last_wt_id[s] < Cardinality(seen[s])
        BY <1>0, <1>1 DEF FileInv
      <4>4. FilesOwned(s)'
        <5> SUFFICES ASSUME NEW w \in Worker, path'[<<s, w>>] # <<>>
                     PROVE  w \in seen[s] /\ path'[s] # <<>> /\ \E j \in Nat : FileId(s, w, j)'
          BY <1>3 DEF FilesOwned
        <5>1. CASE w = kcle[s]
          <6>1. FileId(s, w, last_wt_id[s])'
            BY <1>2, <1>3, <2>2, <2>3, <4>2, <4>3, <5>1 DEF FileId
          <6> QED
            BY <1>2, <1>3, <2>2, <5>1, <6>1
        <5>2. CASE w # kcle[s]
          <6>1. path'[<<s, w>>] = path[<<s, w>>]
            BY <2>2, <2>4, <5>2
          <6>2. PICK j \in Nat : w \in seen[s] /\ FileId(s, w, j)
            BY <1>0, <6>1 DEF FileInv, FilesOwned
          <6>3. FileId(s, w, j)'
            BY <1>1, <1>3, <2>2, <2>3, <6>1, <6>2 DEF FileId, FileOf
          <6> QED
            BY <1>2, <2>2, <6>2, <6>3
        <5> QED
          BY <5>1, <5>2
      <4>5. FileInv(s)'
        BY <1>0, <1>1, <1>2, <1>3, <2>2, <2>3, <4>2, <4>3, <4>4 DEF FileInv, Listing, leader, Workers
      <4> QED
        BY <3>2, <4>1, <4>5
    <3> QED
      BY <3>1, <3>2
  <2>6. Queues'
    BY <1>3 DEF TreeInv, WalkInv, Queues, Workers
  <2>7. DirCount'
    <3>1. \A p \in Proc : Dirs(p)' = Dirs(p)
      BY <2>2 DEF Dirs
    <3>2. \A t \in Sched : spc'[t] = "added" => spc[t] = "added" /\ leader(t) \in Proc
      BY <2>3 DEF leader, ProcAssumption
    <3> QED
      BY <1>3, <3>1, <3>2 DEF TreeInv, WalkInv, DirCount, leader
  <2>8. \A m \in WNode : m # n /\ path[m] # <<>> => path[m] # f
    <3> SUFFICES ASSUME NEW t \in Sched, NEW w \in Worker, <<t, w>> # n, path[<<t, w>>] = f
                 PROVE  FALSE
      BY TripleNotEmpty DEF WNode, FileOf
    <3>1. path[<<t, w>>] # <<>>
      BY TripleNotEmpty DEF FileOf
    <3>2. PICK j \in Nat : path[t] # <<>> /\ FileId(t, w, j)
      BY <3>1 DEF TreeInv, WalkInv, FileInv, FilesOwned
    <3>3. FileOf(t, j) = FileOf(s, last_wt_id[s])
      BY <3>2 DEF FileId
    <3>4. t = s /\ j = last_wt_id[s]
      BY <1>2, <3>2, <3>3, FilesApart
    <3> QED
      BY <1>1, <3>2, <3>4 DEF FileId
  <2>9. OwnFile'
    <3>1. f # <<>>
      BY TripleNotEmpty DEF FileOf
    <3> HIDE DEF f, n
    <3>2. \A m, k \in WNode : m # k /\ path'[m] # <<>> => path'[m] # path'[k]
      BY <2>2, <2>8, <3>1 DEF TreeInv, WalkInv, OwnFile
    <3> QED
      BY <3>2 DEF OwnFile
  <2> QED
    BY <2>5, <2>6, <2>7, <2>9 DEF WalkInv
<1> QED
  BY <1>2, <1>4, <1>5, <1>6 DEF CreateFile, SGoto

\* What a scheduler holds while it makes its directory
LEMMA InSection ==
  ASSUME TreeInv, NEW s \in Sched, spc[s] \in {"locked", "added"}
  PROVE  /\ todo[s] = <<leader(s)>> /\ Head(todo[s]) = leader(s)
         /\ leader(s) \in Proc => pmutex[leader(s)] = s
<1>1. todo[s] = <<leader(s)>>
  BY DEF TreeInv, WalkInv, DirInv
<1>2. Head(<<leader(s)>>) = leader(s)
  OBVIOUS
<1> QED
  BY <1>1, <1>2 DEF TreeInv, ProcInv, Holders

LEMMA SchedulersFinite ==
  ASSUME SchedulersSpread, NEW S, S \subseteq Sched
  PROVE  IsFiniteSet(S) /\ Cardinality(S) \in Nat
BY FS_Subset, FS_CardinalityType DEF SchedulersSpread

\* An identifier is left for a scheduler without a directory
LEMMA RoomForOne ==
  ASSUME TreeInv, ProcAssumption, SchedulersSpread, NEW s \in Sched, path[s] = <<>>
  PROVE  /\ last_sched_id[leader(s)] \in Bucket
         /\ Cardinality(Dirs(leader(s)) \cup {s}) = Cardinality(Dirs(leader(s))) + 1
<1> DEFINE p == leader(s)
           D == Dirs(p)
           A == {u \in Sched : leader(u) = p}
<1>1. p \in Proc
  BY DEF leader, ProcAssumption
<1>2. s \notin D /\ D \cup {s} \subseteq A /\ A \subseteq Sched /\ D \subseteq Sched
  BY DEF Dirs, TreeInv, WalkInv, DirInv
<1> HIDE DEF D, A
<1>3. IsFiniteSet(A) /\ Cardinality(A) \in Nat /\ IsFiniteSet(D) /\ Cardinality(D) \in Nat
  BY <1>2, SchedulersFinite
<1>4. Cardinality(D \cup {s}) = Cardinality(D) + 1
  BY <1>2, <1>3, FS_AddElement
<1>5. Cardinality(D \cup {s}) <= Cardinality(A)
  BY <1>2, <1>3, FS_Subset
<1>6. Cardinality(A) <= NBuckets
  BY <1>1 DEF SchedulersSpread, A
<1>7. last_sched_id[p] \in Nat /\ last_sched_id[p] <= Cardinality(D)
  BY <1>1 DEF TreeInv, ProcInv, Shapes, WalkInv, DirCount, D
<1>8. last_sched_id[p] \in Bucket
  BY <1>3, <1>4, <1>5, <1>6, <1>7 DEF Bucket, ProcAssumption
<1> QED
  BY <1>4, <1>8 DEF D

LEMMA AddFolderWalk ==
  ASSUME TreeInv, ProcAssumption, SchedulersSpread, NEW s \in Sched, NEW pup \in Proc,
         AddFolder(s, pup)
  PROVE  WalkInv'
<1>0. DirInv(s) /\ FileInv(s)
  BY DEF TreeInv, WalkInv
<1>1. spc[s] = "locked" /\ pup = leader(s) /\ path[s] = <<>>
  BY <1>0, InSection DEF AddFolder, DirInv
<1> DEFINE i == last_sched_id[pup]
<1>2. /\ UNCHANGED <<last_sched_id, last_wt_id, ppc, freed, wt_ready_queue, todo, kcle, seen>>
      /\ path' = [path EXCEPT ![s] = <<pup, i>>]
      /\ sched_id' = [sched_id EXCEPT ![s] = i]
      /\ spc' = [spc EXCEPT ![s] = "added"]
  BY DEF AddFolder, schedOthers, mainVars, idVars, SGoto
<1>3. i \in Bucket /\ Cardinality(Dirs(pup) \cup {s}) = Cardinality(Dirs(pup)) + 1
  BY <1>1, RoomForOne
<1>4. /\ path'[s] = <<pup, i>>
      /\ \A t \in Sched \ {s} : path'[t] = path[t]
      /\ \A n \in WNode : path'[n] = path[n]
  BY <1>2 DEF TreeInv, ProcInv, Shapes, ProcAssumption, WNode
<1>5. path'[s] # <<>> /\ path'[s][1] = pup /\ path'[s][2] = i
  BY <1>4, EmptyIsNoPair
<1>6. /\ spc'[s] = "added" /\ \A t \in Sched \ {s} : spc'[t] = spc[t]
      /\ sched_id'[s] = i /\ \A t \in Sched \ {s} : sched_id'[t] = sched_id[t]
  BY <1>2 DEF TreeInv, ProcInv, Shapes, Types
<1>7. \A t \in Sched : DirInv(t)' /\ FileInv(t)'
  <2> TAKE t \in Sched
  <2>1. CASE t # s
    <3>1. DirInv(t) /\ FileInv(t) /\ Same(t) /\ Ahead
      BY <1>2, <1>4, <1>6, <2>1 DEF TreeInv, WalkInv, Ahead, Same, WNode
    <3>2. LeaderOf[t] \in Proc /\ kcle[t] \in Worker \cup {None} /\ None \notin Worker /\ seen[t] \subseteq Worker
      BY DEF TreeInv, ProcInv, Shapes, Types, ProcAssumption
    <3> QED
      BY <3>1, <3>2, SameStep
  <2>2. CASE t = s
    <3>1. DirInv(s)'
      BY <1>0, <1>1, <1>2, <1>3, <1>4, <1>5, <1>6 DEF DirInv, Walks, leader
    <3>2. FilesOwned(s)'
      BY <1>0, <1>1, <1>4 DEF FileInv, FilesOwned, WNode
    <3>3. FileInv(s)'
      BY <1>0, <1>1, <1>2, <1>6, <3>2 DEF FileInv, Listing, leader, Workers
    <3> QED
      BY <2>2, <3>1, <3>3
  <2> QED
    BY <2>1, <2>2
<1>8. Queues' /\ OwnFile'
  BY <1>2, <1>4 DEF TreeInv, WalkInv, Queues, Workers, OwnFile
<1>9. DirCount'
  <2>1. Dirs(pup)' = Dirs(pup) \cup {s}
    BY <1>1, <1>4, <1>5 DEF Dirs
  <2>2. \A p \in Proc \ {pup} : Dirs(p)' = Dirs(p)
    BY <1>1, <1>4, <1>5 DEF Dirs
  <2>10. \A p \in Proc : Cardinality(Dirs(p)) \in Nat /\ last_sched_id[p] \in Nat
    BY SchedulersFinite DEF Dirs, TreeInv, ProcInv, Shapes
  <2>11. Cardinality(Dirs(pup)') = Cardinality(Dirs(pup)) + 1
    BY <1>3, <2>1
  <2>12. \A p \in Proc \ {pup} : Cardinality(Dirs(p)') = Cardinality(Dirs(p))
    BY <2>2
  <2>3. \A p \in Proc : /\ Cardinality(Dirs(p)) \in Nat /\ last_sched_id[p] \in Nat
                       /\ Cardinality(Dirs(p)') \in Nat
                       /\ Cardinality(Dirs(p)) <= Cardinality(Dirs(p)')
    BY <2>10, <2>11, <2>12
  <2>4. \A p \in Proc : last_sched_id'[p] <= Cardinality(Dirs(p)')
    <3> TAKE p \in Proc
    <3>1. last_sched_id'[p] = last_sched_id[p] /\ last_sched_id[p] <= Cardinality(Dirs(p))
      BY <1>2 DEF TreeInv, WalkInv, DirCount
    <3> QED
      BY <2>3, <3>1
  <2>5. \A t \in Sched : spc'[t] = "added" => last_sched_id'[leader(t)] < Cardinality(Dirs(leader(t))')
    <3> SUFFICES ASSUME NEW t \in Sched, spc'[t] = "added"
                 PROVE  last_sched_id'[leader(t)] < Cardinality(Dirs(leader(t))')
      OBVIOUS
    <3>1. leader(t) \in Proc
      BY DEF leader, ProcAssumption
    <3>2. CASE t = s
      <4>1. leader(t) = pup /\ last_sched_id'[pup] = last_sched_id[pup] /\ last_sched_id[pup] <= Cardinality(Dirs(pup))
        BY <1>1, <1>2, <3>2 DEF TreeInv, WalkInv, DirCount
      <4> QED
        BY <2>3, <2>11, <4>1
    <3>3. CASE t # s
      <4>1. last_sched_id[leader(t)] < Cardinality(Dirs(leader(t))) 
        BY <1>6, <3>3 DEF TreeInv, WalkInv, DirCount
      <4> QED
        BY <1>2, <2>3, <3>1, <4>1
    <3> QED
      BY <3>2, <3>3
  <2> QED
    BY <2>4, <2>5 DEF DirCount, leader
<1> QED
  BY <1>7, <1>8, <1>9 DEF WalkInv

LEMMA UnlockWalk ==
  ASSUME TreeInv, ProcAssumption, SchedulersSpread, NEW s \in Sched, NEW pup \in Proc,
         UnlockPup(s, pup)
  PROVE  WalkInv'
<1>0. DirInv(s) /\ FileInv(s)
  BY DEF TreeInv, WalkInv
<1>1. spc[s] = "added" /\ pup = leader(s) /\ pmutex[pup] = s
  BY InSection DEF UnlockPup
<1>2. /\ UNCHANGED <<path, last_wt_id, ppc, freed, wt_ready_queue, todo, sched_id, kcle, seen>>
      /\ last_sched_id' = [last_sched_id EXCEPT ![pup] = last_sched_id[pup] + 1]
      /\ spc' = [spc EXCEPT ![s] = "visible"]
  BY DEF UnlockPup, locals, schedOthers, mainVars, SGoto
<1>3. (\A t \in Sched \ {s} : Same(t)) /\ spc'[s] = "visible"
  BY <1>2 DEF Same, TreeInv, ProcInv, Shapes
<1>4. DirInv(s)'
  BY <1>0, <1>1, <1>2, <1>3 DEF DirInv, Walks, leader
<1>5. FilesOwned(s)'
  BY <1>1, <1>2, <1>3, FilesSame DEF AfterFile
<1>6. FileInv(s)'
  BY <1>0, <1>1, <1>2, <1>3, <1>5 DEF FileInv, Listing, leader, Workers
<1>7. \A t \in Sched : DirInv(t)' /\ FileInv(t)'
  <2> TAKE t \in Sched
  <2>1. CASE t # s
    <3>1. DirInv(t) /\ FileInv(t) /\ Same(t) /\ Ahead
      BY <1>2, <1>3, <2>1 DEF TreeInv, WalkInv, Ahead
    <3>2. LeaderOf[t] \in Proc /\ kcle[t] \in Worker \cup {None} /\ None \notin Worker /\ seen[t] \subseteq Worker
      BY DEF TreeInv, ProcInv, Shapes, Types, ProcAssumption
    <3> QED
      BY <3>1, <3>2, SameStep
  <2> QED
    BY <1>4, <1>6, <2>1
<1>8. Queues' /\ OwnFile'
  BY <1>2 DEF TreeInv, WalkInv, Queues, Workers, OwnFile
<1>9. DirCount'
  <2>1. \A p \in Proc : Dirs(p)' = Dirs(p) /\ Cardinality(Dirs(p)) \in Nat
    BY <1>2, SchedulersFinite DEF Dirs
  <2>2. last_sched_id \in [Proc -> Nat] /\ last_sched_id[pup] < Cardinality(Dirs(pup))
    BY <1>1 DEF TreeInv, ProcInv, Shapes, WalkInv, DirCount
  <2>3. \A t \in Sched : spc'[t] = "added" => spc[t] = "added" /\ leader(t) \in Proc /\ leader(t) # pup
    <3> SUFFICES ASSUME NEW t \in Sched, spc'[t] = "added"
                 PROVE  spc[t] = "added" /\ leader(t) \in Proc /\ leader(t) # pup
      OBVIOUS
    <3>1. t # s /\ spc[t] = "added" /\ leader(t) \in Proc
      BY <1>3 DEF Same, leader, ProcAssumption
    <3>2. pmutex[leader(t)] = t
      BY <3>1, InSection
    <3> QED
      BY <1>1, <3>1, <3>2
  <2>4. \A p \in Proc : last_sched_id'[p] <= Cardinality(Dirs(p))
    BY <1>2, <2>1, <2>2 DEF TreeInv, WalkInv, DirCount
  <2>5. \A t \in Sched : spc'[t] = "added" => last_sched_id'[leader(t)] < Cardinality(Dirs(leader(t)))
    BY <1>2, <2>2, <2>3 DEF TreeInv, WalkInv, DirCount
  <2> QED
    BY <2>1, <2>3, <2>4, <2>5 DEF DirCount, leader
<1> QED
  BY <1>7, <1>8, <1>9 DEF WalkInv

LEMMA InitTreeInv == ASSUME ProcAssumption, Init PROVE TreeInv
<1>1. ProcInv
  BY InitProcInv
<1>2. Types
  <2>1. <<>> \in Seq(Nodes)
    OBVIOUS
  <2>2. NoEntries \in [Bucket -> Seq(Nodes)]
    BY <2>1 DEF NoEntries
  <2>3. htable \in [Table -> [Bucket -> Seq(Nodes)]]
    BY <2>2 DEF Init
  <2> QED
    BY <2>3 DEF Init, Types
<1>3. /\ \A n \in Sched \cup WNode : path[n] = <<>>
      /\ \A s \in Sched : /\ spc[s] = "start" /\ todo[s] = <<>> /\ seen[s] = {}
                          /\ last_wt_id[s] = 0
      /\ \A p \in Proc : ppc[p] = "start" /\ removing[p] = None /\ last_sched_id[p] = 0
      /\ \A t \in Table, b \in Bucket : htable[t][b] = <<>>
      /\ freed = {}
  BY DEF Init, NoEntries
<1>4. WalkInv
  <2>1. \A s \in Sched : DirInv(s)
    BY <1>3 DEF DirInv, Walks
  <2>2. \A s \in Sched : FilesOwned(s)
    BY <1>3 DEF FilesOwned, WNode
  <2>3. \A s \in Sched : FileInv(s)
    <3>1. IsFiniteSet({}) /\ Cardinality({}) = 0
      BY FS_EmptySet
    <3> TAKE s \in Sched
    <3>2. spc[s] = "start" /\ seen[s] = {} /\ last_wt_id[s] = 0 /\ FilesOwned(s)
      BY <1>3, <2>2
    <3>3. last_wt_id[s] <= Cardinality(seen[s]) /\ IsFiniteSet(seen[s])
      BY <3>1, <3>2
    <3> QED
      BY <3>2, <3>3 DEF FileInv, Listing
  <2>4. Queues
    BY DEF Init, Queues
  <2>5. DirCount
    <3>1. \A p \in Proc : Dirs(p) = {}
      BY <1>3 DEF Dirs
    <3>2. Cardinality({}) = 0
      BY FS_EmptySet
    <3>3. \A p \in Proc : last_sched_id[p] <= Cardinality(Dirs(p))
      <4> TAKE p \in Proc
      <4>1. last_sched_id[p] = 0 /\ Dirs(p) = {}
        BY <1>3, <3>1
      <4>2. Cardinality(Dirs(p)) = 0
        BY <3>2, <4>1
      <4> QED
        BY <4>1, <4>2
    <3> QED
      BY <1>3, <3>3 DEF DirCount
  <2>6. OwnFile
    BY <1>3 DEF OwnFile
  <2> QED
    BY <2>1, <2>3, <2>4, <2>5, <2>6 DEF WalkInv
<1>5. TableInv
  <2>1. \A t \in Table, b \in Bucket : DOMAIN htable[t][b] = {}
    BY <1>3
  <2> QED
    BY <1>3, <2>1 DEF TableInv, Homes, Once, Injective, Removed, PupLinked, SchedLinked
<1>6. CursorInv
  <2>1. <<>> \in Seq(Cursors)
    OBVIOUS
  <2> HIDE DEF Cursors
  <2> QED
    BY <1>3, <2>1 DEF Init, CursorInv
<1> QED
  BY <1>1, <1>2, <1>4, <1>5, <1>6 DEF TreeInv

\* What has begun, been given a directory or a file stays so
Onward ==
  /\ \A p \in Proc : ppc[p] # "start" => ppc'[p] # "start"
  /\ \A n \in Sched \cup WNode : path[n] # <<>> => path'[n] = path[n]
  /\ \A s \in Sched : last_wt_id'[s] \in Nat /\ last_wt_id'[s] >= last_wt_id[s]

\* A worker's file lies in the directory of its scheduler
LEMMA FileHasDirectory ==
  ASSUME TreeInv, NEW s \in Sched, NEW w \in Worker, path[<<s, w>>] # <<>>
  PROVE  path[s] # <<>>
BY DEF TreeInv, WalkInv, FileInv, FilesOwned

LEMMA HomeStays ==
  ASSUME TreeInv, Onward
  PROVE  /\ \A n, t, b : Home(n, t, b) => Home(n, t, b)'
         /\ \A n : Entered(n) => Entered(n)'
<1>1. ASSUME NEW s \in Sched, NEW w \in Worker, NEW j \in Nat, path[<<s, w>>] = FileOf(s, j),
             j < last_wt_id[s]
      PROVE  path'[<<s, w>>] = FileOf(s, j)' /\ j < last_wt_id'[s]
  <2>1. path[<<s, w>>] # <<>>
    BY <1>1, TripleNotEmpty DEF FileOf
  <2>2. path[s] # <<>>
    BY <2>1, FileHasDirectory
  <2>3. <<s, w>> \in WNode /\ last_wt_id[s] \in Nat
    BY DEF WNode, TreeInv, Types
  <2>4. path'[<<s, w>>] = path[<<s, w>>] /\ path'[s] = path[s]
    BY <2>1, <2>2, <2>3 DEF Onward
  <2>5. FileOf(s, j)' = FileOf(s, j)
    BY <2>4 DEF FileOf
  <2>6. last_wt_id'[s] \in Nat /\ last_wt_id'[s] >= last_wt_id[s]
    BY DEF Onward
  <2>7. j < last_wt_id'[s]
    BY <1>1, <2>3, <2>6
  <2> QED
    BY <1>1, <2>4, <2>5, <2>7
<1>2. ASSUME NEW n, NEW t, NEW b, Home(n, t, b) PROVE Home(n, t, b)'
  <2>1. CASE n \in Proc /\ t = Root /\ b = PidHash[n] /\ ppc[n] # "start"
    BY <2>1 DEF Home, Onward
  <2>2. CASE n \in Sched /\ t = leader(n) /\ path[n] # <<>> /\ b = Hash(path[n][2])
    BY <2>2 DEF Home, Onward, leader, Hash
  <2>3. ASSUME NEW w \in Worker, NEW j \in Nat, t \in Sched, n = <<t, w>>, j < last_wt_id[t],
               path[n] = FileOf(t, j), b = Hash(j)
        PROVE  Home(n, t, b)'
    BY <2>3, <1>1 DEF Home, Hash
  <2> QED
    BY <1>2, <2>1, <2>2, <2>3 DEF Home
<1>3. ASSUME NEW n, Entered(n) PROVE Entered(n)'
  BY <1>1, <1>3 DEF Entered, Onward
<1> QED
  BY <1>2, <1>3

\* A step that only empties lists
LEMMA HomesKept ==
  ASSUME TreeInv, Onward, UNCHANGED freed,
         \A t \in Table, b \in Bucket : htable'[t][b] \in {htable[t][b], <<>>},
         \A p \in Proc : removing'[p] # None => Entered(removing'[p])
  PROVE  Homes' /\ Once' /\ Removed'
<1>1. Homes'
  <2> SUFFICES ASSUME NEW t \in Table, NEW b \in Bucket, NEW k \in DOMAIN htable'[t][b],
                      NEW n, n = htable'[t][b][k]
               PROVE  Home(n, t, b)' /\ n \notin freed'
    BY DEF Homes, Table, Bucket, Home
  <2>1. htable'[t][b] = htable[t][b]
    OBVIOUS
  <2>2. Home(htable[t][b][k], t, b) /\ htable[t][b][k] \notin freed
    BY <2>1 DEF TreeInv, TableInv, Homes
  <2>3. Home(n, t, b) => Home(n, t, b)'
    BY HomeStays
  <2> QED
    BY <2>1, <2>2, <2>3
<1>2. Once'
  BY DEF TreeInv, TableInv, Once, Injective, Table, Bucket
<1>3. Removed'
  <2>1. \A n : Entered(n) => Entered(n)'
    BY HomeStays
  <2> QED
    BY <2>1 DEF TreeInv, TableInv, Removed
<1> QED
  BY <1>1, <1>2, <1>3

----------------------------------------------------------------------------

LEMMA OnwardStep == ASSUME TreeInv, ProcAssumption, [Next]_vars PROVE Onward
<1>0. Types /\ Shapes /\ \A s \in Sched : DirInv(s) /\ FileInv(s)
  BY DEF TreeInv, ProcInv, WalkInv
<1>1. CASE UNCHANGED <<ppc, path, last_wt_id>>
  BY <1>0, <1>1 DEF Onward, Types
<1>2. ASSUME NEW p \in Proc, MainStep(p) PROVE Onward
  <2>1. UNCHANGED <<path, last_wt_id>>
    BY <1>2 DEF MainStep, create_proc_ums_pid, InitSchedulers, SetUp, DestroyWorker, BeginRemoval,
                RemovalStep, NextBucket, NextEntry, Unlink,
                WalkAstray, Free, FreedByAnother, EndRemoval, tableVars, idVars, mainOthers
  <2>2. ppc' = ppc \/ \E l \in {"linked", "initialised", "ready", "destroy", "done", "oops"} :
                        ppc' = [ppc EXCEPT ![p] = l]
    BY <1>2 DEF MainStep, create_proc_ums_pid, InitSchedulers, SetUp, DestroyWorker, BeginRemoval,
                RemovalStep, NextBucket, NextEntry, Unlink,
                WalkAstray, Free, FreedByAnother, EndRemoval, mainVars, PGoto
  <2>3. \A q \in Proc : ppc[q] # "start" => ppc'[q] # "start"
    BY <1>0, <2>2 DEF Types
  <2> QED
    BY <1>0, <2>1, <2>3 DEF Onward, Types
<1>3. ASSUME NEW s \in Sched, SchedStep(s) PROVE Onward
  <2>1. CASE \E pup \in Proc : AddFolder(s, pup)
    <3>1. UNCHANGED <<ppc, last_wt_id>> /\ \E x : path' = [path EXCEPT ![s] = x]
      BY <2>1 DEF AddFolder, idVars, schedOthers, mainVars
    <3>2. path[s] = <<>>
      BY <1>0, <2>1 DEF AddFolder, DirInv
    <3> QED
      BY <1>0, <3>1, <3>2 DEF Onward, Types, Shapes
  <2>2. CASE CreateFile(s)
    <3> DEFINE n == <<s, kcle[s]>>
    <3>1. /\ UNCHANGED <<ppc, last_wt_id>>
          /\ path' = path \/ \E x : path' = [path EXCEPT ![n] = x]
      BY <2>2 DEF CreateFile, idVars, schedOthers, mainVars
    <3>2. path[n] = <<>>
      BY <1>0, <2>2 DEF CreateFile, FileInv, Listing
    <3> HIDE DEF n
    <3>3. path = [m \in Sched \cup WNode |-> path[m]]
      BY <1>0 DEF Shapes
    <3>4. \A m \in Sched \cup WNode : path[m] # <<>> => path'[m] = path[m]
      BY <3>1, <3>2, <3>3
    <3>5. \A t \in Sched : last_wt_id'[t] \in Nat /\ last_wt_id'[t] >= last_wt_id[t]
      BY <1>0, <3>1 DEF Types
    <3> QED
      BY <3>1, <3>4, <3>5 DEF Onward
  <2>3. CASE AddFile(s)
    <3>1. UNCHANGED <<ppc, path>> /\ last_wt_id' = [last_wt_id EXCEPT ![sched(s)] = last_wt_id[sched(s)] + 1]
      BY <2>3 DEF AddFile, schedOthers, mainVars
    <3>2. last_wt_id \in [Sched -> Nat]
      BY <1>0 DEF Types
    <3> QED
      BY <3>1, <3>2 DEF Onward
  <2>4. CASE UNCHANGED <<ppc, path, last_wt_id>>
    BY <1>1, <2>4
  <2> QED
    BY <1>3, <2>1, <2>2, <2>3, <2>4 DEF SchedStep, EnterMode, LockPup, UnlockPup, SetSchedPid,
         NextWorker, SetWtPid, FileMade, EndWalk, FillsRaw, EnterAstray, LeaveMode, tableVars, idVars,
         schedOthers, mainVars
<1>4. CASE \E w \in Worker : WorkerExits(w)
  BY <1>1, <1>4 DEF WorkerExits, tableVars, idVars, mainVars
<1>5. CASE \E r \in Reader : ReadStep(r) \/ \E f \in files : StartRead(r, f)
  BY <1>1, <1>5 DEF ReadStep, LookUp, FindThread, CopyThread, Answer, StartRead,
                    readOthers, tableVars, idVars, mainVars
<1>6. CASE UNCHANGED vars
  BY <1>1, <1>6 DEF vars, tableVars, idVars, mainVars
<1> QED
  BY <1>2, <1>3, <1>4, <1>5, <1>6 DEF Next

LEMMA MainWalk ==
  ASSUME TreeInv, ProcAssumption, NEW p \in Proc, MainStep(p)
  PROVE  WalkInv'
<1>0. Types /\ Queues
  BY DEF TreeInv, WalkInv
<1>1. UNCHANGED <<path, spc, todo, sched_id, kcle, seen, last_wt_id, last_sched_id>>
  BY DEF MainStep, create_proc_ums_pid, InitSchedulers, SetUp, DestroyWorker, BeginRemoval,
         RemovalStep, NextBucket, NextEntry, Unlink,
                WalkAstray, Free, FreedByAnother, EndRemoval, tableVars, idVars, mainOthers,
         schedVars, locals
<1>2. Ahead
  <2>1. freed \subseteq freed'
    BY DEF MainStep, create_proc_ums_pid, InitSchedulers, SetUp, DestroyWorker, BeginRemoval,
           RemovalStep, NextBucket, NextEntry, Unlink,
                WalkAstray, Free, FreedByAnother, EndRemoval, tableVars
  <2>2. \/ ppc' = ppc
        \/ ppc[p] \in Beginning /\ \E l : ppc' = [ppc EXCEPT ![p] = l]
        \/ \E l \in {"destroy", "done", "oops"} : ppc' = [ppc EXCEPT ![p] = l]
    BY DEF MainStep, create_proc_ums_pid, InitSchedulers, SetUp, DestroyWorker, BeginRemoval,
           RemovalStep, NextBucket, NextEntry, Unlink,
                WalkAstray, Free, FreedByAnother, EndRemoval, mainVars, PGoto, Beginning
  <2>3. \A q \in Proc : ppc[q] \notin Beginning => ppc'[q] \notin Beginning
    BY <1>0, <2>2 DEF Types, Beginning
  <2> QED
    BY <2>1, <2>3 DEF Ahead
<1>3. Queues'
  <2>1. wt_ready_queue' = wt_ready_queue \/ wt_ready_queue' = [wt_ready_queue EXCEPT ![p] = Workers(p)]
    BY DEF MainStep, create_proc_ums_pid, InitSchedulers, SetUp, DestroyWorker, BeginRemoval,
           RemovalStep, NextBucket, NextEntry, Unlink,
                WalkAstray, Free, FreedByAnother, EndRemoval, mainOthers
  <2>2. \A q \in Proc : wt_ready_queue[q] \subseteq Workers(q)
    BY <1>0 DEF Queues
  <2>3. \A q \in Proc : wt_ready_queue'[q] \subseteq Workers(q)
    BY <1>0, <2>1, <2>2 DEF Types
  <2> QED
    BY <2>3 DEF Queues, Workers
<1> QED
  BY <1>1, <1>2, <1>3, QuietWalk

LEMMA OthersWalk ==
  ASSUME TreeInv, ProcAssumption,
         \/ \E w \in Worker : WorkerExits(w)
         \/ \E r \in Reader : ReadStep(r) \/ \E f \in files : StartRead(r, f)
         \/ UNCHANGED vars
  PROVE  WalkInv'
<1>0. Types /\ Queues
  BY DEF TreeInv, WalkInv
<1>1. UNCHANGED <<path, spc, todo, sched_id, kcle, seen, last_wt_id, last_sched_id, freed, ppc>>
  BY DEF WorkerExits, ReadStep, LookUp, FindThread, CopyThread, Answer, StartRead, vars,
         readOthers, tableVars, idVars, mainVars, schedVars, locals
<1>2. Ahead
  BY <1>1 DEF Ahead
<1>3. Queues'
  <2>1. wt_ready_queue' = wt_ready_queue \/
          \E w \in Worker : wt_ready_queue' = [wt_ready_queue EXCEPT ![LeaderOf[w]] = wt_ready_queue[LeaderOf[w]] \ {w}]
    BY DEF WorkerExits, ReadStep, LookUp, FindThread, CopyThread, Answer, StartRead, vars, readOthers
  <2>2. \A q \in Proc : wt_ready_queue[q] \subseteq Workers(q)
    BY <1>0 DEF Queues
  <2>3. \A q \in Proc : wt_ready_queue'[q] \subseteq Workers(q)
    BY <1>0, <2>1, <2>2 DEF Types
  <2> QED
    BY <2>3 DEF Queues, Workers
<1> QED
  BY <1>1, <1>2, <1>3, QuietWalk

LEMMA SchedulerWalk ==
  ASSUME TreeInv, ProcAssumption, SchedulersSpread, NEW s \in Sched, SchedStep(s)
  PROVE  WalkInv'
BY EnterModeWalk, LockWalk, AddFolderWalk, UnlockWalk, SchedPidWalk, NextWorkerWalk,
   CreateFileWalk, AddFileWalk, WtPidWalk, PlainWalk DEF SchedStep

LEMMA WalkInvPreserved ==
  ASSUME TreeInv, ProcAssumption, SchedulersSpread, [Next]_vars
  PROVE  WalkInv'
BY MainWalk, SchedulerWalk, OthersWalk DEF Next

----------------------------------------------------------------------------

Prepends(t, b, n) == htable' = [htable EXCEPT ![t][b] = <<n>> \o htable[t][b]]

\* hash_add of a structure that is in no list yet
LEMMA EntryAdded ==
  ASSUME TreeInv, Onward, NEW t \in Table, NEW b \in Bucket, NEW n \in Nodes,
         Prepends(t, b, n),
         UNCHANGED <<freed, removing>>, ~Entered(n), Home(n, t, b)'
  PROVE  /\ htable' \in [Table -> [Bucket -> Seq(Nodes)]]
         /\ Homes' /\ Once' /\ Removed'
         /\ htable[t][b] = <<>> => htable'[t][b] = <<n>>
         /\ \A u \in Table, c \in Bucket : u # t \/ c # b => htable'[u][c] = htable[u][c]
<1> DEFINE q == htable[t][b]
           z == <<n>> \o q
<1>0. htable \in [Table -> [Bucket -> Seq(Nodes)]]
  BY DEF TreeInv, Types, Nodes
<1>1. q \in Seq(Nodes)
  BY <1>0
<1>2. /\ z \in Seq(Nodes) /\ DOMAIN z = 1 .. Len(q) + 1 /\ z[1] = n
      /\ \A k \in DOMAIN z : k = 1 \/ (k-1 \in DOMAIN q /\ z[k] = q[k-1])
      /\ q = <<>> => z = <<n>>
  <2> HIDE DEF q
  <2> QED
    BY <1>1, Prepended
<1> HIDE DEF z
<1>3. /\ htable' \in [Table -> [Bucket -> Seq(Nodes)]]
      /\ htable'[t][b] = z
      /\ \A u \in Table, c \in Bucket : u # t \/ c # b => htable'[u][c] = htable[u][c]
  BY <1>0, <1>2 DEF z, Prepends
<1>4. /\ \A u \in Table, c \in Bucket : \A k \in DOMAIN htable[u][c] :
           Home(htable[u][c][k], u, c) /\ htable[u][c][k] \notin freed /\ htable[u][c][k] # n
      /\ n \notin freed
  BY HomeIsEntered DEF TreeInv, TableInv, Homes, Removed
<1>5. \A m, u, c : Home(m, u, c) => Home(m, u, c)'
  BY HomeStays
<1>6. Homes'
  <2> SUFFICES ASSUME NEW u \in Table, NEW c \in Bucket, NEW k \in DOMAIN htable'[u][c],
                      NEW m, m = htable'[u][c][k]
               PROVE  Home(m, u, c)' /\ m \notin freed'
    BY DEF Homes, Table, Bucket, Home
  <2>1. CASE u # t \/ c # b
    <3>1. htable'[u][c] = htable[u][c]
      BY <1>3, <2>1
    <3>2. Home(m, u, c) /\ m \notin freed
      BY <1>4, <3>1
    <3> QED
      BY <1>5, <3>2
  <2>2. CASE u = t /\ c = b
    <3>1. m = z[k] /\ k \in DOMAIN z
      BY <1>3, <2>2
    <3>2. CASE k = 1
      <4>1. m = n
        BY <1>2, <3>1, <3>2
      <4> QED
        BY <1>4, <2>2, <4>1
    <3>3. CASE k # 1
      <4>1. k-1 \in DOMAIN q /\ m = q[k-1]
        BY <1>2, <3>1, <3>3
      <4>2. Home(m, u, c) /\ m \notin freed
        BY <1>4, <2>2, <4>1
      <4> QED
        BY <1>5, <4>2
    <3> QED
      BY <3>2, <3>3
  <2> QED
    BY <2>1, <2>2
<1>7. Once'
  <2>1. Injective(z)
    <3> SUFFICES ASSUME NEW k \in DOMAIN z, NEW l \in DOMAIN z, z[k] = z[l] PROVE k = l
      BY DEF Injective
    <3>1. Injective(q) /\ \A i \in DOMAIN q : q[i] # n
      BY <1>4 DEF TreeInv, TableInv, Once
    <3>2. k \in Int /\ l \in Int
      BY <1>1, <1>2
    <3>3. k-1 \in DOMAIN q /\ l-1 \in DOMAIN q /\ q[k-1] = q[l-1] => k-1 = l-1
      <4> HIDE DEF q
      <4> QED BY <3>1 DEF Injective
    <3> QED
      BY <1>2, <3>1, <3>2, <3>3
  <2>2. ASSUME NEW u \in Table, NEW c \in Bucket PROVE Injective(htable'[u][c])
    <3>1. CASE u = t /\ c = b
      BY <1>3, <2>1, <3>1
    <3>2. CASE u # t \/ c # b
      BY <1>3, <3>2 DEF TreeInv, TableInv, Once
    <3> QED
      BY <3>1, <3>2
  <2> QED
    BY <2>2 DEF Once, Table, Bucket, Injective
<1>8. Removed'
  <2>1. \A m : Entered(m) => Entered(m)'
    BY HomeStays
  <2> QED
    BY <2>1 DEF TreeInv, TableInv, Removed
<1> QED
  BY <1>2, <1>3, <1>6, <1>7, <1>8

\* hash_del of a structure that is in some list, and kfree
LEMMA EntryFreed ==
  ASSUME TreeInv, Onward, NEW n, Entered(n), hash_del(n), freed' = freed \cup {n},
         \A p \in Proc : removing'[p] \in {removing[p], None}
  PROVE  /\ htable' \in [Table -> [Bucket -> Seq(Nodes)]]
         /\ Homes' /\ Once' /\ Removed'
         /\ \A t \in Table, b \in Bucket : \A m :
              m # n /\ htable[t][b] = <<m>> => htable'[t][b] = <<m>>
<1>0. htable \in [Table -> [Bucket -> Seq(Nodes)]]
  BY DEF TreeInv, Types, Nodes
<1>1. htable' = [t \in Table |-> [b \in Bucket |-> RemoveFirst(htable[t][b], n)]]
  BY DEF hash_del
<1>2. ASSUME NEW t \in Table, NEW b \in Bucket
      PROVE  /\ htable'[t][b] \in Seq(Nodes) /\ Injective(htable'[t][b])
             /\ \A k \in DOMAIN htable'[t][b] : \E l \in DOMAIN htable[t][b] :
                  htable'[t][b][k] = htable[t][b][l] /\ htable[t][b][l] # n
             /\ (\A l \in DOMAIN htable[t][b] : htable[t][b][l] # n) => htable'[t][b] = htable[t][b]
  <2> DEFINE q == htable[t][b]
  <2>1. q \in Seq(Nodes) /\ Injective(q)
    BY <1>0 DEF TreeInv, TableInv, Once
  <2>2. htable'[t][b] = RemoveFirst(q, n)
    BY <1>1
  <2> HIDE DEF q
  <2>3. /\ RemoveFirst(q, n) \in Seq(Nodes) /\ Injective(RemoveFirst(q, n))
        /\ \A k \in DOMAIN RemoveFirst(q, n) : \E l \in DOMAIN q : RemoveFirst(q, n)[k] = q[l] /\ q[l] # n
        /\ (\A l \in DOMAIN q : q[l] # n) => RemoveFirst(q, n) = q
    BY <2>1, RemovedFirst
  <2> QED
    BY <2>2, <2>3 DEF q
<1>3. htable' \in [Table -> [Bucket -> Seq(Nodes)]]
  <2>1. htable' = [t \in Table |-> [b \in Bucket |-> htable'[t][b]]]
    BY <1>1
  <2> QED
    BY <1>2, <2>1
<1>4. Homes'
  <2> SUFFICES ASSUME NEW t \in Table, NEW b \in Bucket, NEW k \in DOMAIN htable'[t][b],
                      NEW m, m = htable'[t][b][k]
               PROVE  Home(m, t, b)' /\ m \notin freed'
    BY DEF Homes, Table, Bucket, Home
  <2>1. PICK l \in DOMAIN htable[t][b] : m = htable[t][b][l] /\ m # n
    BY <1>2
  <2>2. Home(m, t, b) /\ m \notin freed
    BY <2>1 DEF TreeInv, TableInv, Homes
  <2>3. Home(m, t, b) => Home(m, t, b)'
    BY HomeStays
  <2> QED
    BY <2>1, <2>2, <2>3
<1>5. Once'
  BY <1>2 DEF Once, Table, Bucket, Injective
<1>6. Removed'
  <2>1. \A m : Entered(m) => Entered(m)'
    BY HomeStays
  <2> QED
    BY <2>1 DEF TreeInv, TableInv, Removed
<1>7. ASSUME NEW t \in Table, NEW b \in Bucket, NEW m, m # n, htable[t][b] = <<m>>
      PROVE  htable'[t][b] = <<m>>
  <2>1. \A l \in DOMAIN <<m>> : <<m>>[l] # n
    BY <1>7
  <2> QED
    BY <1>2, <1>7, <2>1
<1> QED
  BY <1>3, <1>4, <1>5, <1>6, <1>7

----------------------------------------------------------------------------

LEMMA DirectoryHash ==
  ASSUME TreeInv, ProcAssumption, NEW s \in Sched, path[s] # <<>>
  PROVE  Hash(path[s][2]) \in Bucket /\ leader(s) \in Proc /\ leader(s) \in Table
<1>1. PICK i \in Bucket : path[s][2] = i
  BY DirectoryIs
<1>2. Hash(i) \in Bucket
  BY HashIs
<1>3. leader(s) \in Proc
  BY DEF leader, ProcAssumption
<1> QED
  BY <1>1, <1>2, <1>3 DEF Table

LEMMA LinksKept ==
  ASSUME TreeInv, ProcAssumption, UNCHANGED freed,
         \A p \in Proc : ppc'[p] # "start" => ppc[p] # "start",
         \A s \in Sched : path'[s] = path[s],
         \A p \in Proc, b \in Bucket : /\ htable'[Root][b] = htable[Root][b]
                                       /\ htable'[p][b] = htable[p][b]
  PROVE  PupLinked' /\ SchedLinked'
<1>1. PupLinked'
  BY HashIs DEF TreeInv, TableInv, PupLinked
<1>2. SchedLinked'
  <2> SUFFICES ASSUME NEW s \in Sched, path[s] # <<>>, s \notin freed
               PROVE  htable'[leader(s)][Hash(path[s][2])] = <<s>>
    BY DEF SchedLinked, leader, Hash
  <2>1. htable[leader(s)][Hash(path[s][2])] = <<s>>
    BY DEF TreeInv, TableInv, SchedLinked
  <2>2. leader(s) \in Proc
    BY DEF leader, ProcAssumption
  <2>3. Hash(path[s][2]) \in Bucket
    BY DirectoryHash
  <2> QED
    BY <2>1, <2>2, <2>3
<1> QED
  BY <1>1, <1>2

\* Steps that change no list
LEMMA SameTables ==
  ASSUME TreeInv, ProcAssumption, Onward, UNCHANGED <<htable, freed>>,
         \A p \in Proc : ppc'[p] # "start" => ppc[p] # "start",
         \A s \in Sched : path'[s] = path[s],
         \A p \in Proc : removing'[p] # None => Entered(removing'[p])
  PROVE  TableInv'
<1>1. Homes' /\ Once' /\ Removed'
  BY HomesKept
<1>2. PupLinked' /\ SchedLinked'
  BY LinksKept
<1> QED
  BY <1>1, <1>2 DEF TableInv

LEMMA CreateProcTables ==
  ASSUME TreeInv, ProcAssumption, SchedulersSpread, Onward, NEW p \in Proc, create_proc_ums_pid(p)
  PROVE  TableInv' /\ htable' \in [Table -> [Bucket -> Seq(Nodes)]]
<1> PICK b : b = PidHash[p]
  OBVIOUS
<1>1. /\ Prepends(Root, b, p)
      /\ ppc[p] = "start" /\ ppc' = [ppc EXCEPT ![p] = "linked"]
      /\ UNCHANGED <<freed, path, removing>>
  BY HashIs DEF create_proc_ums_pid, hash_add, PGoto, Prepends
<1>2. Root \in Table /\ b \in Bucket /\ p \in Nodes
  BY HashIs DEF Table, Nodes
<1>3. ppc'[p] = "linked" /\ \A q \in Proc \ {p} : ppc'[q] = ppc[q]
  BY <1>1 DEF TreeInv, Types
<1>4. ~Entered(p)
  <2>1. p \notin Sched /\ \A s \in Sched, w \in Worker : p # <<s, w>>
    BY DEF ProcAssumption
  <2> QED
    BY <1>1, <2>1 DEF Entered
<1>5. Home(p, Root, b)'
  BY <1>3 DEF Home
<1>6. htable[Root][b] = <<>>
  <2>1. htable[Root][b] = <<p>> => 1 \in DOMAIN htable[Root][b] /\ htable[Root][b][1] = p
    OBVIOUS
  <2>2. htable[Root][b] = <<p>> => Entered(p)
    BY <1>2, <2>1, HomeIsEntered DEF TreeInv, TableInv, Homes
  <2> QED
    BY <1>4, <2>2, RootChain
<1>7. /\ htable' \in [Table -> [Bucket -> Seq(Nodes)]]
      /\ Homes' /\ Once' /\ Removed'
      /\ htable'[Root][b] = <<p>>
      /\ \A u \in Table, c \in Bucket : u # Root \/ c # b => htable'[u][c] = htable[u][c]
  BY <1>1, <1>2, <1>4, <1>5, <1>6, EntryAdded
<1>8. PupLinked'
  <2> SUFFICES ASSUME NEW q \in Proc, ppc'[q] # "start", q \notin freed
               PROVE  htable'[Root][PidHash[q]] = <<q>>
    BY <1>1 DEF PupLinked
  <2>1. CASE q = p
    BY <1>7, <2>1
  <2>2. CASE q # p
    <3>1. htable[Root][PidHash[q]] = <<q>>
      BY <1>1, <1>3, <2>2 DEF TreeInv, TableInv, PupLinked
    <3>2. PidHash[q] # b /\ PidHash[q] \in Bucket
      BY <2>2, HashIs DEF SchedulersSpread
    <3> QED
      BY <1>2, <1>7, <3>1, <3>2
  <2> QED
    BY <2>1, <2>2
<1>9. SchedLinked'
  <2> SUFFICES ASSUME NEW s \in Sched, path[s] # <<>>, s \notin freed
               PROVE  htable'[leader(s)][Hash(path[s][2])] = <<s>>
    BY <1>1 DEF SchedLinked, leader, Hash
  <2>1. htable[leader(s)][Hash(path[s][2])] = <<s>>
    BY DEF TreeInv, TableInv, SchedLinked
  <2>2. leader(s) \in Table /\ leader(s) # Root
    BY DEF leader, ProcAssumption, Table
  <2>3. Hash(path[s][2]) \in Bucket
    BY DirectoryHash
  <2> QED
    BY <1>7, <2>1, <2>2, <2>3
<1> QED
  BY <1>7, <1>8, <1>9 DEF TableInv

LEMMA InitSchedulersTables ==
  ASSUME TreeInv, ProcAssumption, Onward, NEW p \in Proc, InitSchedulers(p), ~UNCHANGED htable
  PROVE  TableInv' /\ htable' \in [Table -> [Bucket -> Seq(Nodes)]]
<1>0. htable \in [Table -> [Bucket -> Seq(Nodes)]] /\ p \in Table
  BY DEF TreeInv, Types, Nodes, Table
<1>1. /\ htable' = [htable EXCEPT ![p] = NoEntries]
      /\ ppc[p] = "linked" /\ ppc' = [ppc EXCEPT ![p] = "initialised"]
      /\ UNCHANGED <<freed, path, removing>>
  BY DEF InitSchedulers, PGoto
<1>2. NoEntries \in [Bucket -> Seq(Nodes)] /\ \A b \in Bucket : NoEntries[b] = <<>>
  <2>1. <<>> \in Seq(Nodes)
    OBVIOUS
  <2> QED
    BY <2>1 DEF NoEntries
<1>3. /\ htable' \in [Table -> [Bucket -> Seq(Nodes)]]
      /\ \A t \in Table, b \in Bucket : htable'[t][b] \in {htable[t][b], <<>>}
      /\ \A t \in Table, b \in Bucket : t # p => htable'[t][b] = htable[t][b]
  BY <1>0, <1>1, <1>2
<1>4. Homes' /\ Once' /\ Removed'
  BY <1>1, <1>3, HomesKept DEF TreeInv, TableInv, Removed
<1>5. \A q \in Proc : ppc'[q] # "start" => ppc[q] # "start"
  BY <1>1 DEF TreeInv, Types
<1>6. PupLinked'
  <2>1. Root # p /\ Root \in Table
    BY DEF ProcAssumption, Table
  <2> QED
    BY <1>1, <1>3, <1>5, <2>1, HashIs DEF TreeInv, TableInv, PupLinked
<1>7. SchedLinked'
  <2> SUFFICES ASSUME NEW s \in Sched, path[s] # <<>>, s \notin freed
               PROVE  htable'[leader(s)][Hash(path[s][2])] = <<s>>
    BY <1>1 DEF SchedLinked, leader, Hash
  <2>1. htable[leader(s)][Hash(path[s][2])] = <<s>>
    BY DEF TreeInv, TableInv, SchedLinked
  <2>2. leader(s) # p
    BY <1>1 DEF TreeInv, WalkInv, DirInv, Beginning
  <2>3. Hash(path[s][2]) \in Bucket /\ leader(s) \in Table
    BY DirectoryHash
  <2> QED
    BY <1>3, <2>1, <2>2, <2>3
<1> QED
  BY <1>3, <1>4, <1>6, <1>7 DEF TableInv

LEMMA SetSchedPidTables ==
  ASSUME TreeInv, ProcAssumption, Onward, NEW s \in Sched, SetSchedPid(s)
  PROVE  TableInv' /\ htable' \in [Table -> [Bucket -> Seq(Nodes)]]
<1>0. htable \in [Table -> [Bucket -> Seq(Nodes)]] /\ s \in Table
  BY DEF TreeInv, Types, Nodes, Table
<1>1. /\ htable' = [htable EXCEPT ![s] = NoEntries]
      /\ UNCHANGED <<freed, path, ppc, removing>>
  BY DEF SetSchedPid, schedOthers, mainVars
<1>2. NoEntries \in [Bucket -> Seq(Nodes)] /\ \A b \in Bucket : NoEntries[b] = <<>>
  <2>1. <<>> \in Seq(Nodes)
    OBVIOUS
  <2> QED
    BY <2>1 DEF NoEntries
<1>3. /\ htable' \in [Table -> [Bucket -> Seq(Nodes)]]
      /\ \A t \in Table, b \in Bucket : htable'[t][b] \in {htable[t][b], <<>>}
      /\ \A t \in Table, b \in Bucket : t # s => htable'[t][b] = htable[t][b]
  BY <1>0, <1>1, <1>2
<1>4. Homes' /\ Once' /\ Removed'
  BY <1>1, <1>3, HomesKept DEF TreeInv, TableInv, Removed
<1>5. PupLinked' /\ SchedLinked'
  <2>1. Root # s /\ Root \in Table /\ \A p \in Proc : p # s /\ p \in Table
    BY DEF ProcAssumption, Table
  <2> QED
    BY <1>1, <1>3, <2>1, LinksKept
<1> QED
  BY <1>3, <1>4, <1>5 DEF TableInv

LEMMA AddFolderTables ==
  ASSUME TreeInv, ProcAssumption, SchedulersSpread, Onward, NEW s \in Sched, NEW pup \in Proc,
         AddFolder(s, pup)
  PROVE  TableInv' /\ htable' \in [Table -> [Bucket -> Seq(Nodes)]]
<1> PICK i : i = last_sched_id[pup]
  OBVIOUS
<1>1. spc[s] = "locked" /\ pup = leader(s) /\ path[s] = <<>> /\ pmutex[pup] = s
  BY InSection DEF AddFolder, TreeInv, WalkInv, DirInv
<1>2. i \in Bucket /\ i \in Nat /\ Hash(i) = i
  BY <1>1, RoomForOne, HashIs
<1>3. /\ Prepends(pup, i, s)
      /\ path' = [path EXCEPT ![s] = <<pup, i>>]
      /\ UNCHANGED <<freed, ppc, removing>>
  BY <1>2 DEF AddFolder, hash_add, schedOthers, mainVars, Prepends
<1>4. path'[s] = <<pup, i>> /\ \A t \in Sched \ {s} : path'[t] = path[t]
  BY <1>3 DEF TreeInv, ProcInv, Shapes
<1>5. ~Entered(s)
  <2>1. s \notin Proc /\ \A t \in Sched, w \in Worker : s # <<t, w>>
    BY DEF ProcAssumption
  <2> QED
    BY <1>1, <2>1 DEF Entered
<1>6. Home(s, pup, i)'
  <2>1. path'[s] # <<>> /\ path'[s][2] = i
    BY <1>4, EmptyIsNoPair
  <2>2. Hash(path'[s][2]) = i
    BY <1>2, <2>1
  <2> QED
    BY <1>1, <2>1, <2>2 DEF Home, Hash, leader
<1>7. htable[pup][i] = <<>>
  <2>1. \A t \in Sched : path[t] # <<pup, i>>
    BY <1>1, <1>2, EmptyIsNoPair DEF TreeInv, ProcInv, UsedIds
  <2> QED
    BY <1>2, <2>1, ProcChain
<1>8. /\ htable' \in [Table -> [Bucket -> Seq(Nodes)]]
      /\ Homes' /\ Once' /\ Removed'
      /\ htable'[pup][i] = <<s>>
      /\ \A u \in Table, c \in Bucket : u # pup \/ c # i => htable'[u][c] = htable[u][c]
  <2>1. pup \in Table /\ s \in Nodes
    BY DEF Table, Nodes
  <2>2. UNCHANGED <<freed, removing>> /\ i \in Bucket
    BY <1>2, <1>3
  <2> QED
    BY <1>3, <1>5, <1>6, <1>7, <2>1, <2>2, EntryAdded
<1>9. PupLinked'
  <2>1. Root \in Table /\ Root # pup
    BY DEF Table, ProcAssumption
  <2> SUFFICES ASSUME NEW q \in Proc, ppc[q] # "start", q \notin freed
               PROVE  htable'[Root][PidHash[q]] = <<q>>
    BY <1>3 DEF PupLinked
  <2>2. htable[Root][PidHash[q]] = <<q>> /\ PidHash[q] \in Bucket
    BY HashIs DEF TreeInv, TableInv, PupLinked
  <2> QED
    BY <1>8, <2>1, <2>2
<1>10. SchedLinked'
  <2> SUFFICES ASSUME NEW t \in Sched, path'[t] # <<>>, t \notin freed
               PROVE  htable'[leader(t)][Hash(path'[t][2])] = <<t>>
    BY <1>3 DEF SchedLinked, leader, Hash
  <2>1. CASE t = s
    <3>1. path'[s][2] = i
      BY <1>4
    <3>2. Hash(path'[s][2]) = i
      BY <1>2, <3>1
    <3> QED
      BY <1>1, <1>8, <2>1, <3>2
  <2>2. CASE t # s
    <3>1. path'[t] = path[t]
      BY <1>4, <2>2
    <3>2. htable[leader(t)][Hash(path[t][2])] = <<t>>
      BY <3>1 DEF TreeInv, TableInv, SchedLinked
    <3>3. Hash(path[t][2]) \in Bucket /\ leader(t) \in Table
      BY <3>1, DirectoryHash
    <3>4. htable[pup][i] # <<t>>
      BY <1>7
    <3>5. htable'[leader(t)][Hash(path[t][2])] = htable[leader(t)][Hash(path[t][2])]
      BY <1>8, <3>2, <3>3, <3>4
    <3> QED
      BY <3>1, <3>2, <3>5
  <2> QED
    BY <2>1, <2>2
<1> QED
  BY <1>8, <1>9, <1>10 DEF TableInv

LEMMA AddFileTables ==
  ASSUME TreeInv, ProcAssumption, Onward, NEW s \in Sched, AddFile(s)
  PROVE  TableInv' /\ htable' \in [Table -> [Bucket -> Seq(Nodes)]]
<1> PICK n, j : n = <<s, kcle[s]>> /\ j = last_wt_id[s]
  OBVIOUS
<1>0. FileInv(s)
  BY DEF TreeInv, WalkInv
<1>1. Listing(s) /\ spc[s] = "created"
  BY <1>0 DEF AddFile, FileInv, Listing
<1>2. sched(s) = s /\ path[s] # <<>> /\ kcle[s] \in Worker /\ j \in Nat
  BY <1>1, Holding
<1>3. /\ Prepends(s, Hash(j), n)
      /\ last_wt_id' = [last_wt_id EXCEPT ![s] = j + 1]
      /\ UNCHANGED <<freed, path, ppc, removing>>
  BY <1>2 DEF AddFile, hash_add, schedOthers, mainVars, Prepends
<1>4. path[n] = FileOf(s, j)
  BY <1>0, <1>1 DEF FileInv
<1>5. ~Entered(n)
  <2>1. n \notin Proc /\ n \notin Sched
    BY <1>2 DEF ProcAssumption
  <2>2. ASSUME NEW t \in Sched, NEW w \in Worker, NEW k \in Nat, n = <<t, w>>,
               k < last_wt_id[t], path[n] = FileOf(t, k)
        PROVE  FALSE
    <3>1. t = s
      BY <2>2
    <3>2. FileOf(s, k) = FileOf(s, j)
      BY <1>4, <2>2, <3>1
    <3>3. k = j
      BY <1>2, <3>2, FilesApart
    <3> QED
      BY <1>2, <2>2, <3>1, <3>3
  <2> QED
    BY <2>1, <2>2 DEF Entered
<1>6. Home(n, s, Hash(j))'
  <2>1. j < last_wt_id'[s]
    BY <1>2, <1>3 DEF TreeInv, Types
  <2>2. path'[n] = FileOf(s, j)'
    BY <1>3, <1>4 DEF FileOf
  <2>3. n = <<s, kcle[s]>> /\ kcle[s] \in Worker /\ j \in Nat
    BY <1>2
  <2> PICK w : w = kcle[s]
    OBVIOUS
  <2>4. s \in Sched /\ n = <<s, w>> /\ j < last_wt_id'[s] /\ path'[n] = FileOf(s, j)' /\ Hash(j) = Hash(j)
    BY <2>1, <2>2, <2>3
  <2> QED
    BY <2>3, <2>4 DEF Home, Hash, FileOf
<1>7. /\ htable' \in [Table -> [Bucket -> Seq(Nodes)]]
      /\ Homes' /\ Once' /\ Removed'
      /\ \A u \in Table, c \in Bucket : u # s \/ c # Hash(j) => htable'[u][c] = htable[u][c]
  <2>1. s \in Table /\ n \in Nodes /\ Hash(j) \in Bucket
    BY <1>2, HashIs DEF Table, Nodes, WNode
  <2>2. UNCHANGED <<freed, removing>>
    BY <1>3
  <2> QED
    BY <1>3, <1>5, <1>6, <2>1, <2>2, EntryAdded
<1>8. PupLinked' /\ SchedLinked'
  <2>1. Root # s /\ Root \in Table /\ \A p \in Proc : p # s /\ p \in Table
    BY DEF ProcAssumption, Table
  <2> QED
    BY <1>3, <1>7, <2>1, LinksKept
<1> QED
  BY <1>7, <1>8 DEF TableInv

LEMMA FreeTables ==
  ASSUME TreeInv, ProcAssumption, Onward, NEW p \in Proc, Free(p)
  PROVE  TableInv' /\ htable' \in [Table -> [Bucket -> Seq(Nodes)]]
<1> PICK n : n = removing[p]
  OBVIOUS
<1>1. /\ hash_del(n) /\ freed' = freed \cup {n} /\ n # None
      /\ ppc[p] = "destroy" /\ (ppc' = ppc \/ ppc' = [ppc EXCEPT ![p] = "oops"])
      /\ removing' = [removing EXCEPT ![p] = None]
      /\ UNCHANGED <<path, last_wt_id>>
  BY DEF Free, PGoto, mainOthers, idVars
<1>2. Entered(n)
  BY <1>1 DEF TreeInv, TableInv, Removed
<1>3. \A q \in Proc : removing'[q] \in {removing[q], None}
  BY <1>1 DEF TreeInv, Types
<1>4. \A q \in Proc : ppc'[q] # "start" => ppc[q] # "start"
  BY <1>1 DEF TreeInv, Types
<1>5. /\ htable' \in [Table -> [Bucket -> Seq(Nodes)]]
      /\ Homes' /\ Once' /\ Removed'
      /\ \A t \in Table, b \in Bucket : \A m :
              m # n /\ htable[t][b] = <<m>> => htable'[t][b] = <<m>>
  BY <1>1, <1>2, <1>3, EntryFreed
<1>6. PupLinked'
  <2>1. Root \in Table /\ \A q \in Proc : PidHash[q] \in Bucket
    BY HashIs DEF Table
  <2> SUFFICES ASSUME NEW q \in Proc, ppc'[q] # "start", q \notin freed'
               PROVE  htable'[Root][PidHash[q]] = <<q>>
    BY DEF PupLinked
  <2>2. htable[Root][PidHash[q]] = <<q>> /\ q # n
    BY <1>1, <1>4 DEF TreeInv, TableInv, PupLinked
  <2> QED
    BY <1>5, <2>1, <2>2
<1>7. SchedLinked'
  <2> SUFFICES ASSUME NEW s \in Sched, path[s] # <<>>, s \notin freed'
               PROVE  htable'[leader(s)][Hash(path[s][2])] = <<s>>
    BY <1>1 DEF SchedLinked, leader, Hash
  <2>1. htable[leader(s)][Hash(path[s][2])] = <<s>> /\ s # n
    BY <1>1 DEF TreeInv, TableInv, SchedLinked
  <2>2. Hash(path[s][2]) \in Bucket /\ leader(s) \in Table
    BY DirectoryHash
  <2> QED
    BY <1>5, <2>1, <2>2
<1> QED
  BY <1>5, <1>6, <1>7 DEF TableInv

\* The innermost loop of a removal
LEMMA CursorIs ==
  ASSUME TreeInv, NEW p \in Proc, ppc[p] = "destroy"
  PROVE  /\ cursor(p) \in Cursors /\ walk[p] \in Seq(Cursors)
         /\ Len(walk[p]) \in Nat \ {0} /\ cursor(p) = walk[p][Len(walk[p])]
<1>1. walk[p] \in Seq(Cursors) /\ walk[p] # <<>>
  BY DEF TreeInv, CursorInv
<1>2. Len(walk[p]) \in Nat \ {0} /\ cursor(p) = walk[p][Len(walk[p])]
  BY <1>1 DEF cursor, Last
<1>3. walk[p][Len(walk[p])] \in Cursors
  BY <1>1, <1>2
<1> QED
  BY <1>1, <1>2, <1>3

LEMMA UnlinkTables ==
  ASSUME TreeInv, ProcAssumption, Onward, NEW p \in Proc, Unlink(p)
  PROVE  TableInv'
<1> PICK n : n = cursor(p).of
  OBVIOUS
<1>1. /\ UNCHANGED <<htable, freed, path, ppc>> /\ ppc[p] = "destroy" /\ n # Root
      /\ removing' = [removing EXCEPT ![p] = n]
  BY DEF Unlink, Walking
<1>2. Entered(n)
  BY <1>1, CursorIs DEF Cursors
<1>3. \A q \in Proc : removing'[q] # None => Entered(removing'[q])
  BY <1>1, <1>2 DEF TreeInv, TableInv, Removed, Types
<1> QED
  BY <1>1, <1>3, SameTables

LEMMA MainTables ==
  ASSUME TreeInv, ProcAssumption, SchedulersSpread, Onward, NEW p \in Proc, MainStep(p)
  PROVE  TableInv' /\ htable' \in [Table -> [Bucket -> Seq(Nodes)]]
<1>0. Types /\ Removed /\ htable \in [Table -> [Bucket -> Seq(Nodes)]]
  BY DEF TreeInv, TableInv, Types, Nodes
<1>1. CASE \/ SetUp(p) \/ BeginRemoval(p) \/ EndRemoval(p) \/ FreedByAnother(p)
           \/ NextBucket(p) \/ NextEntry(p) \/ WalkAstray(p)
           \/ \E w \in Worker : DestroyWorker(p, w)
  <2>1. UNCHANGED <<htable, freed, path>>
    BY <1>1 DEF SetUp, BeginRemoval, EndRemoval, FreedByAnother, NextBucket, NextEntry, WalkAstray,
                DestroyWorker, tableVars
  <2>2. /\ ppc' = ppc \/ (ppc[p] # "start" /\ \E l : ppc' = [ppc EXCEPT ![p] = l])
        /\ removing' = removing \/ removing' = [removing EXCEPT ![p] = None]
    BY <1>1 DEF SetUp, BeginRemoval, EndRemoval, FreedByAnother, NextBucket, NextEntry, WalkAstray,
                Walking, DestroyWorker, mainVars, PGoto
  <2>3. /\ \A q \in Proc : ppc'[q] # "start" => ppc[q] # "start"
        /\ \A q \in Proc : removing'[q] # None => Entered(removing'[q])
    BY <1>0, <2>2 DEF Types, Removed
  <2> QED
    BY <1>0, <2>1, <2>3, SameTables
<1>2. CASE Unlink(p)
  BY <1>0, <1>2, UnlinkTables DEF Unlink
<1>3. CASE InitSchedulers(p) /\ UNCHANGED htable
  <2>1. /\ UNCHANGED <<htable, freed, path, removing>> /\ ppc[p] = "linked"
        /\ \E l : ppc' = [ppc EXCEPT ![p] = l]
    BY <1>3 DEF InitSchedulers, PGoto
  <2>2. \A q \in Proc : ppc'[q] # "start" => ppc[q] # "start"
    BY <1>0, <2>1 DEF Types
  <2> QED
    BY <1>0, <2>1, <2>2, SameTables DEF Removed
<1> QED
  BY <1>1, <1>2, <1>3, CreateProcTables, InitSchedulersTables, FreeTables DEF MainStep, RemovalStep

LEMMA OthersTables ==
  ASSUME TreeInv, ProcAssumption, Onward, UNCHANGED <<htable, freed, ppc, removing>>,
         \A s \in Sched : path'[s] = path[s]
  PROVE  TableInv' /\ htable' \in [Table -> [Bucket -> Seq(Nodes)]]
BY SameTables DEF TreeInv, TableInv, Removed, Types, Nodes

LEMMA SchedulerTables ==
  ASSUME TreeInv, ProcAssumption, SchedulersSpread, Onward, NEW s \in Sched, SchedStep(s)
  PROVE  TableInv' /\ htable' \in [Table -> [Bucket -> Seq(Nodes)]]
<1>1. CASE CreateFile(s)
  <2>1. UNCHANGED <<htable, freed, ppc, removing>>
    BY <1>1 DEF CreateFile, schedOthers, mainVars
  <2>2. \A t \in Sched : path'[t] = path[t]
    <3>1. <<s, kcle[s]>> \notin Sched
      BY DEF TreeInv, ProcInv, Shapes, ProcAssumption
    <3> QED
      BY <1>1, <3>1 DEF CreateFile, TreeInv, ProcInv, Shapes
  <2> QED
    BY <2>1, <2>2, OthersTables
<1>2. CASE UNCHANGED <<htable, freed, ppc, removing, path>>
  BY <1>2, OthersTables
<1> QED
  BY <1>1, <1>2, AddFolderTables, SetSchedPidTables, AddFileTables
  DEF SchedStep, EnterMode, LockPup, UnlockPup, NextWorker, SetWtPid, FileMade, EndWalk,
      FillsRaw, EnterAstray, LeaveMode, tableVars, schedOthers, mainVars

LEMMA TableInvPreserved ==
  ASSUME TreeInv, ProcAssumption, SchedulersSpread, [Next]_vars
  PROVE  TableInv' /\ htable' \in [Table -> [Bucket -> Seq(Nodes)]]
<1>0. Onward
  BY OnwardStep
<1>1. CASE \E p \in Proc : MainStep(p)
  BY <1>0, <1>1, MainTables
<1>2. CASE \E s \in Sched : SchedStep(s)
  BY <1>0, <1>2, SchedulerTables
<1>3. CASE \/ \E w \in Worker : WorkerExits(w)
           \/ \E r \in Reader : ReadStep(r) \/ \E f \in files : StartRead(r, f)
           \/ UNCHANGED vars
  <2>1. UNCHANGED <<htable, freed, ppc, removing, path>>
    BY <1>3 DEF WorkerExits, ReadStep, LookUp, FindThread, CopyThread, Answer, StartRead, vars,
                readOthers, tableVars, mainVars
  <2> QED
    BY <1>0, <2>1, OthersTables
<1> QED
  BY <1>1, <1>2, <1>3 DEF Next

LEMMA TypesPreserved ==
  ASSUME TreeInv, ProcAssumption, SchedulersSpread, [Next]_vars
  PROVE  Types'
<1>0. Types
  BY DEF TreeInv
<1>1. htable' \in [Table -> [Bucket -> Seq(Nodes)]]
  BY TableInvPreserved
<1>2. CASE UNCHANGED <<last_wt_id, wt_ready_queue, removing, ppc, sched_id, seen>>
  BY <1>0, <1>1, <1>2 DEF Types, Nodes
<1>3. ASSUME NEW p \in Proc, MainStep(p) PROVE Types'
  <2>1. /\ UNCHANGED <<last_wt_id, sched_id, seen>>
        /\ wt_ready_queue' = wt_ready_queue \/ wt_ready_queue' = [wt_ready_queue EXCEPT ![p] = Workers(p)]
    BY <1>3 DEF MainStep, create_proc_ums_pid, InitSchedulers, SetUp, DestroyWorker, BeginRemoval,
                RemovalStep, NextBucket, NextEntry, Unlink,
                WalkAstray, Free, FreedByAnother, EndRemoval, mainOthers, idVars,
                schedVars, locals
  <2>2. /\ removing' = removing \/ \E x : removing' = [removing EXCEPT ![p] = x]
        /\ ppc' = ppc \/ \E x : ppc' = [ppc EXCEPT ![p] = x]
    BY <1>3 DEF MainStep, create_proc_ums_pid, InitSchedulers, SetUp, DestroyWorker, BeginRemoval,
                RemovalStep, NextBucket, NextEntry, Unlink,
                WalkAstray, Free, FreedByAnother, EndRemoval, mainVars, PGoto
  <2>3. wt_ready_queue' \in [Proc -> SUBSET Worker]
    <3>1. Workers(p) \in SUBSET Worker
      BY DEF Workers
    <3>2. wt_ready_queue \in [Proc -> SUBSET Worker]
      BY <1>0 DEF Types
    <3> PICK W \in SUBSET Worker : W = Workers(p)
      BY <3>1
    <3>3. wt_ready_queue' = wt_ready_queue \/ wt_ready_queue' = [wt_ready_queue EXCEPT ![p] = W]
      BY <2>1
    <3>4. [wt_ready_queue EXCEPT ![p] = W] \in [Proc -> SUBSET Worker]
      BY <3>2
    <3> QED
      BY <3>2, <3>3, <3>4
  <2>4. removing' = [q \in Proc |-> removing'[q]] /\ ppc' = [q \in Proc |-> ppc'[q]]
    BY <1>0, <2>2 DEF Types
  <2> QED
    BY <1>0, <1>1, <2>1, <2>3, <2>4 DEF Types, Nodes
<1>4. ASSUME NEW s \in Sched, SchedStep(s) PROVE Types'
  <2>1. CASE \E pup \in Proc : AddFolder(s, pup)
    <3>1. PICK pup \in Proc : sched_id' = [sched_id EXCEPT ![s] = last_sched_id[pup]]
      BY <2>1 DEF AddFolder
    <3>2. sched_id' \in [Sched -> Nat]
      BY <1>0, <3>1 DEF Types, TreeInv, ProcInv, Shapes
    <3>3. UNCHANGED <<last_wt_id, wt_ready_queue, removing, ppc, seen>>
      BY <2>1 DEF AddFolder, idVars, schedOthers, mainVars
    <3> QED
      BY <1>0, <1>1, <3>2, <3>3 DEF Types, Nodes
  <2>2. CASE AddFile(s)
    <3>1. last_wt_id' = [last_wt_id EXCEPT ![sched(s)] = last_wt_id[sched(s)] + 1]
      BY <2>2 DEF AddFile
    <3>2. last_wt_id' \in [Sched -> Nat]
      <4>1. last_wt_id \in [Sched -> Nat]
        BY <1>0 DEF Types
      <4>2. last_wt_id' = [t \in Sched |-> IF t = sched(s) THEN last_wt_id[t] + 1 ELSE last_wt_id[t]]
        BY <3>1, <4>1
      <4> QED
        BY <4>1, <4>2
    <3>3. UNCHANGED <<wt_ready_queue, removing, ppc, sched_id, seen>>
      BY <2>2 DEF AddFile, locals, schedOthers, mainVars
    <3> QED
      BY <1>0, <1>1, <3>2, <3>3 DEF Types, Nodes
  <2>3. CASE \E w \in Worker : NextWorker(s, w)
    <3>1. PICK w \in Worker : seen' = [seen EXCEPT ![s] = seen[s] \cup {w}]
      BY <2>3 DEF NextWorker
    <3>2. seen' \in [Sched -> SUBSET Worker]
      BY <1>0, <3>1 DEF Types
    <3>3. UNCHANGED <<last_wt_id, wt_ready_queue, removing, ppc, sched_id>>
      BY <2>3 DEF NextWorker, idVars, schedOthers, mainVars
    <3> QED
      BY <1>0, <1>1, <3>2, <3>3 DEF Types, Nodes
  <2> QED
    BY <1>2, <1>4, <2>1, <2>2, <2>3
    DEF SchedStep, EnterMode, LockPup, UnlockPup, SetSchedPid, CreateFile, SetWtPid, FileMade,
        EndWalk, FillsRaw, EnterAstray, LeaveMode, idVars, locals, schedOthers, mainVars
<1>5. ASSUME NEW w \in Worker, WorkerExits(w) PROVE Types'
  <2>1. /\ wt_ready_queue' = [wt_ready_queue EXCEPT ![LeaderOf[w]] = wt_ready_queue[LeaderOf[w]] \ {w}]
        /\ UNCHANGED <<last_wt_id, removing, ppc, sched_id, seen>>
    BY <1>5 DEF WorkerExits, idVars, mainVars, schedVars, locals
  <2>2. wt_ready_queue \in [Proc -> SUBSET Worker]
    BY <1>0 DEF Types
  <2>3. wt_ready_queue' = [q \in Proc |->
          IF q = LeaderOf[w] THEN wt_ready_queue[q] \ {w} ELSE wt_ready_queue[q]]
    BY <2>1, <2>2
  <2>4. wt_ready_queue' \in [Proc -> SUBSET Worker]
    BY <2>2, <2>3
  <2> QED
    BY <1>0, <1>1, <2>1, <2>4 DEF Types, Nodes
<1>6. CASE \/ \E r \in Reader : ReadStep(r) \/ \E f \in files : StartRead(r, f)
           \/ UNCHANGED vars
  BY <1>2, <1>6 DEF ReadStep, LookUp, FindThread, CopyThread, Answer, StartRead, vars,
                    readOthers, idVars, mainVars, schedVars, locals
<1> QED
  BY <1>3, <1>4, <1>5, <1>6 DEF Next

----------------------------------------------------------------------------

\* What is added to a table stays added, so a cursor stays one
LEMMA CursorsGrow == ASSUME TreeInv, Onward PROVE Cursors \subseteq Cursors'
<1>1. \A n : Entered(n) => Entered(n)'
  BY HomeStays
<1>2. Nodes' = Nodes /\ Table' = Table /\ Bucket' = Bucket
  BY DEF Nodes, Table, Bucket, WNode
<1> QED
  BY <1>1, <1>2 DEF Cursors

LEMMA CursorsStay ==
  ASSUME TreeInv, Onward, NEW q \in Seq(Cursors)
  PROVE  q \in Seq(Cursors')
BY CursorsGrow

\* What is in a table is added
LEMMA InTable ==
  ASSUME TreeInv, NEW t \in Table, NEW b \in Bucket
  PROVE  /\ htable[t][b] \in Seq(Nodes)
         /\ \A k \in 1 .. Len(htable[t][b]) :
              htable[t][b][k] \in Nodes /\ Entered(htable[t][b][k])
<1>1. htable[t][b] \in Seq(Nodes)
  BY DEF TreeInv, Types
<1>2. ASSUME NEW k \in 1 .. Len(htable[t][b])
      PROVE  htable[t][b][k] \in Nodes /\ Entered(htable[t][b][k])
  <2>1. k \in DOMAIN htable[t][b] /\ htable[t][b][k] \in Nodes
    BY <1>1, <1>2
  <2>2. Home(htable[t][b][k], t, b)
    BY <2>1 DEF TreeInv, TableInv, Homes
  <2> QED
    BY <2>1, <2>2, HomeIsEntered
<1> QED
  BY <1>1, <1>2

LEMMA NextIs ==
  ASSUME TreeInv, NEW t \in Table, NEW b \in Bucket, NEW n
  PROVE  /\ First(htable[t][b]) = None \/
              (First(htable[t][b]) \in Nodes /\ Entered(First(htable[t][b])))
         /\ After(n, htable[t][b]) = None \/
              (After(n, htable[t][b]) \in Nodes /\ Entered(After(n, htable[t][b])))
<1> PICK q : q = htable[t][b]
  OBVIOUS
<1>1. q \in Seq(Nodes) /\ \A k \in 1 .. Len(q) : q[k] \in Nodes /\ Entered(q[k])
  BY InTable
<1>2. First(q) = None \/ (First(q) \in Nodes /\ Entered(First(q)))
  <2>1. CASE q # <<>>
    <3>1. 1 \in 1 .. Len(q) /\ First(q) = q[1]
      BY <1>1, <2>1 DEF First
    <3> QED
      BY <1>1, <3>1
  <2> QED
    BY <2>1 DEF First
<1>3. After(n, q) = None \/ (After(n, q) \in Nodes /\ Entered(After(n, q)))
  <2>1. CASE \E k \in 2 .. Len(q) : q[k - 1] = n
    <3>1. PICK i : i = CHOOSE k \in 2 .. Len(q) : q[k - 1] = n
      OBVIOUS
    <3>2. i \in 2 .. Len(q)
      BY <2>1, <3>1
    <3>3. After(n, q) = q[i]
      BY <2>1, <3>1 DEF After
    <3>4. i \in 1 .. Len(q)
      BY <1>1, <3>2
    <3> QED
      BY <1>1, <3>3, <3>4
  <2> QED
    BY <2>1 DEF After
<1> QED
  BY <1>2, <1>3

\* The loops of a removal are replaced by others
LEMMA WalkMoved ==
  ASSUME TreeInv, Onward, NEW p \in Proc, NEW q \in Seq(Cursors'),
         walk' = [walk EXCEPT ![p] = q], q # <<>> => q[1].of = Root,
         ppc'[p] = "destroy" => q # <<>>,
         \A r \in Proc \ {p} : ppc'[r] = ppc[r]
  PROVE  CursorInv'
<1>1. walk \in [Proc -> Seq(Cursors)] /\ \A r \in Proc : walk[r] \in Seq(Cursors)
  BY DEF TreeInv, CursorInv
<1>2. walk'[p] = q /\ \A r \in Proc \ {p} : walk'[r] = walk[r]
  BY <1>1
<1>3. walk' = [r \in Proc |-> IF r = p THEN q ELSE walk[r]]
  BY <1>1
<1>4. walk' \in [Proc -> Seq(Cursors')]
  <2>1. \A r \in Proc : walk[r] \in Seq(Cursors')
    BY <1>1, CursorsStay
  <2> HIDE DEF Cursors
  <2> QED
    BY <1>3, <2>1
<1>5. \A r \in Proc : ppc'[r] = "destroy" => walk'[r] # <<>> /\ walk'[r][1].of = Root
  BY <1>2 DEF TreeInv, CursorInv
<1> QED
  BY <1>4, <1>5 DEF CursorInv

LEMMA WalkSame ==
  ASSUME TreeInv, Onward, UNCHANGED walk,
         \A p \in Proc : ppc'[p] = "destroy" => ppc[p] = "destroy"
  PROVE  CursorInv'
<1>1. walk \in [Proc -> Seq(Cursors)]
  BY DEF TreeInv, CursorInv
<1>2. walk \in [Proc -> Seq(Cursors')]
  <2>1. \A p \in Proc : walk[p] \in Seq(Cursors')
    BY <1>1, CursorsStay
  <2> HIDE DEF Cursors
  <2> QED
    BY <1>1, <2>1
<1> QED
  BY <1>2 DEF TreeInv, CursorInv

LEMMA OneBefore == ASSUME NEW k \in Nat \ {0}, k # 1 PROVE 1 \in 1 .. k - 1
OBVIOUS

\* A loop that begins has not come to a bucket
LEMMA Begun ==
  ASSUME ProcAssumption, NEW n, n = Root \/ (n \in Nodes /\ Entered(n))
  PROVE  Enters(n) \in Cursors /\ Enters(n).of = n
<1>1. NBuckets \in Nat \ {0}
  BY DEF ProcAssumption
<1> QED
  BY <1>1 DEF Enters, Cursors

\* A loop goes on to another bucket or element of its table
LEMMA GoesOn ==
  ASSUME TreeInv, NEW c \in Cursors, NEW b \in Bucket, c.of \in Table,
         NEW m, m = None \/ (m \in Nodes /\ Entered(m)), ProcAssumption
  PROVE  [c EXCEPT !.bkt = b, !.next = m] \in Cursors
<1>1. NBuckets \in Nat \ {0}
  BY DEF ProcAssumption
<1> PICK d : d = [c EXCEPT !.bkt = b, !.next = m]
  OBVIOUS
<1>2. c \in [of : Nodes \cup {Root}, bkt : Int, next : Nodes \cup {None}]
  BY DEF Cursors
<1>3. b \in Int /\ -1 <= b /\ b < NBuckets
  BY <1>1 DEF Bucket
<1>4. /\ d \in [of : Nodes \cup {Root}, bkt : Int, next : Nodes \cup {None}]
      /\ d.of = c.of /\ d.bkt = b /\ d.next = m
  BY <1>2, <1>3
<1>5. c.of = Root \/ Entered(c.of)
  BY DEF Cursors
<1> QED
  BY <1>3, <1>4, <1>5 DEF Cursors

LEMMA RemovalCursors ==
  ASSUME TreeInv, ProcAssumption, Onward, NEW p \in Proc,
         NextBucket(p) \/ NextEntry(p) \/ Unlink(p)
  PROVE  CursorInv'
<1> PICK c, q, k : c = cursor(p) /\ q = walk[p] /\ k = Len(walk[p])
  OBVIOUS
<1>1. ppc[p] = "destroy" /\ ppc' = ppc
  BY DEF NextBucket, NextEntry, Unlink, Walking
<1>2. c \in Cursors /\ q \in Seq(Cursors) /\ k \in Nat \ {0} /\ k = Len(q) /\ c = q[k] /\ q[1].of = Root
  BY <1>1, CursorIs DEF TreeInv, CursorInv
<1>3. /\ c.of = Root \/ (c.of \in Nodes /\ Entered(c.of))
      /\ c.bkt \in Int /\ -1 <= c.bkt /\ c.bkt < NBuckets
      /\ c.next # None => c.next \in Nodes /\ Entered(c.next) /\ c.of \in Table /\ c.bkt \in Bucket
  BY <1>2 DEF Cursors
<1>8. k \in Int /\ k >= 1
  BY <1>2
<1>9. k # 1 => 1 \in 1 .. k - 1
  BY <1>2, OneBefore
<1> HIDE DEF Cursors
<1>4. /\ Front(q) \in Seq(Cursors) /\ Len(Front(q)) = k - 1
      /\ \A i \in 1 .. k - 1 : Front(q)[i] = q[i]
  BY <1>2 DEF Front
<1>5. CASE NextBucket(p)
  <2> PICK b, d : /\ b = c.bkt + 1
                  /\ d = [c EXCEPT !.bkt = b, !.next = First(htable[c.of][b])]
    OBVIOUS
  <2>1. walk' = [walk EXCEPT ![p] = Append(Front(q), d)] /\ c.next = None /\ ~AtEnd(c)
    BY <1>5 DEF NextBucket
  <2>2. c.of \in Table /\ b \in Bucket
    <3>1. c.of \notin WNode /\ c.bkt # NBuckets - 1
      BY <2>1 DEF AtEnd
    <3>2. NBuckets \in Nat
      BY DEF ProcAssumption
    <3> QED
      BY <1>3, <3>1, <3>2 DEF Nodes, Table, Bucket
  <2>3. d \in Cursors
    BY <1>2, <2>2, NextIs, GoesOn
  <2>4. d.of = c.of
    BY <1>2 DEF Cursors
  <2> PICK z : z = Append(Front(q), d)
    OBVIOUS
  <2>5. z \in Seq(Cursors) /\ z # <<>> /\ Len(z) = k /\ z[k] = d /\ \A i \in 1 .. k - 1 : z[i] = q[i]
    <3> PICK f : f = Front(q)
      OBVIOUS
    <3>1. f \in Seq(Cursors) /\ Len(f) = k - 1 /\ \A i \in 1 .. k - 1 : f[i] = q[i]
      BY <1>4
    <3>2. z = Append(f, d)
      OBVIOUS
    <3>3. z \in Seq(Cursors) /\ z # <<>> /\ Len(z) = Len(f) + 1 /\ z[Len(f) + 1] = d
          /\ \A i \in 1 .. Len(f) : z[i] = f[i]
      BY ONLY <2>3, <3>1, <3>2, AppendProperties
    <3>4. Len(f) + 1 = k
      BY ONLY <1>8, <3>1
    <3> QED
      BY ONLY <3>1, <3>3, <3>4
  <2>6. z[1].of = Root
    <3>1. CASE k = 1
      BY <1>2, <2>4, <2>5, <3>1
    <3>2. CASE k # 1
      <4>1. z[1] = q[1]
        BY <1>9, <2>5, <3>2
      <4> QED
        BY <1>2, <4>1
    <3> QED
      BY <3>1, <3>2
  <2> QED
    BY <1>1, <2>1, <2>5, <2>6, WalkMoved, CursorsStay
<1>6. CASE NextEntry(p)
  <2> PICK n, d, e : /\ n = c.next /\ e = Enters(n)
                     /\ d = [c EXCEPT !.next = After(n, htable[c.of][c.bkt])]
    OBVIOUS
  <2>1. walk' = [walk EXCEPT ![p] = Front(q) \o <<d, e>>] /\ n # None
    BY <1>6 DEF NextEntry
  <2>2. c.of \in Table /\ c.bkt \in Bucket /\ n \in Nodes /\ Entered(n)
    BY <1>3, <2>1
  <2>3. d = [c EXCEPT !.bkt = c.bkt, !.next = After(n, htable[c.of][c.bkt])]
    BY <1>2 DEF Cursors
  <2>4. d \in Cursors /\ e \in Cursors
    <3> PICK m : m = After(n, htable[c.of][c.bkt])
      OBVIOUS
    <3>1. m = None \/ (m \in Nodes /\ Entered(m))
      BY <2>2, NextIs
    <3>2. [c EXCEPT !.bkt = c.bkt, !.next = m] \in Cursors
      BY <1>2, <2>2, <3>1, GoesOn
    <3>3. e \in Cursors
      BY <2>2, Begun
    <3> QED
      BY <2>3, <3>2, <3>3
  <2>5. d.of = c.of
    BY <1>2 DEF Cursors
  <2> PICK y : y = <<d, e>>
    OBVIOUS
  <2>6. y \in Seq(Cursors) /\ Len(y) = 2 /\ y[1] = d
    BY <2>4
  <2> PICK z : z = Front(q) \o y
    OBVIOUS
  <2>7. z \in Seq(Cursors) /\ Len(z) = k + 1 /\ z[k] = d /\ \A i \in 1 .. k - 1 : z[i] = q[i]
    <3>1. /\ z \in Seq(Cursors) /\ Len(z) = (k - 1) + 2
          /\ \A i \in 1 .. (k - 1) + 2 : z[i] = IF i <= k - 1 THEN Front(q)[i] ELSE y[i - (k - 1)]
      BY <1>4, <2>6, ConcatProperties
    <3>2. k \in 1 .. (k - 1) + 2 /\ ~(k <= k - 1) /\ k - (k - 1) = 1 /\ (k - 1) + 2 = k + 1
      BY <1>8
    <3>3. z[k] = y[k - (k - 1)]
      BY <3>1, <3>2, Zenon
    <3>4. ASSUME NEW i \in 1 .. k - 1 PROVE z[i] = q[i]
      <4>1. i \in 1 .. (k - 1) + 2 /\ i <= k - 1
        BY <1>8
      <4> QED
        BY <1>4, <3>1, <4>1, Zenon
    <3> QED
      BY <2>6, <3>1, <3>2, <3>3, <3>4
  <2>8. z[1].of = Root
    <3>1. CASE k = 1
      <4>1. z[1] = d /\ q[1] = c
        BY <1>2, <2>7, <3>1
      <4> QED
        BY <1>2, <2>5, <4>1
    <3>2. CASE k # 1
      <4>1. z[1] = q[1]
        BY <1>9, <2>7, <3>2
      <4> QED
        BY <1>2, <4>1
    <3> QED
      BY <3>1, <3>2
  <2>9. z # <<>>
    <3>1. Len(z) # 0 /\ Len(<<>>) = 0
      BY <1>8, <2>7
    <3> QED
      BY <3>1
  <2> QED
    BY <1>1, <2>1, <2>7, <2>8, <2>9, WalkMoved, CursorsStay
<1>7. CASE Unlink(p)
  <2>1. walk' = [walk EXCEPT ![p] = Front(q)] /\ c.of # Root
    BY <1>7 DEF Unlink
  <2>2. k > 1
    BY <1>2, <2>1
  <2>3. Front(q) # <<>> /\ Front(q)[1].of = Root
    BY <1>2, <1>4, <2>2
  <2> QED
    BY <1>1, <1>4, <2>1, <2>3, WalkMoved, CursorsStay
<1> QED
  BY <1>5, <1>6, <1>7

LEMMA CursorInvPreserved ==
  ASSUME TreeInv, ProcAssumption, [Next]_vars
  PROVE  CursorInv'
<1>0. Onward /\ Types
  BY OnwardStep DEF TreeInv
<1>1. ASSUME NEW p \in Proc, BeginRemoval(p) PROVE CursorInv'
  <2> PICK e, q : e = Enters(Root) /\ q = <<e>>
    OBVIOUS
  <2>1. /\ walk' = [walk EXCEPT ![p] = q] /\ ppc' = [ppc EXCEPT ![p] = "destroy"]
    BY <1>1 DEF BeginRemoval, PGoto
  <2>2. e \in Cursors /\ e.of = Root
    BY Begun
  <2> HIDE DEF Cursors
  <2>3. q \in Seq(Cursors) /\ q # <<>> /\ q[1] = e
    BY <2>2
  <2>4. \A r \in Proc \ {p} : ppc'[r] = ppc[r]
    BY <1>0, <2>1 DEF Types
  <2> QED
    BY <1>0, <2>1, <2>2, <2>3, <2>4, WalkMoved, CursorsStay
<1>2. ASSUME NEW p \in Proc, MainStep(p) PROVE CursorInv'
  <2>1. CASE BeginRemoval(p) \/ NextBucket(p) \/ NextEntry(p) \/ Unlink(p)
    BY <1>0, <1>1, <2>1, RemovalCursors
  <2>2. CASE ~(BeginRemoval(p) \/ NextBucket(p) \/ NextEntry(p) \/ Unlink(p))
    <3>1. /\ UNCHANGED walk
          /\ ppc' = ppc \/ \E l \in {"linked", "initialised", "ready", "done", "oops"} :
                             ppc' = [ppc EXCEPT ![p] = l]
      BY <1>2, <2>2 DEF MainStep, create_proc_ums_pid, InitSchedulers, SetUp, DestroyWorker,
                        RemovalStep, WalkAstray, Free, FreedByAnother, EndRemoval, mainVars, PGoto
    <3>2. \A r \in Proc : ppc'[r] = "destroy" => ppc[r] = "destroy"
      BY <1>0, <3>1 DEF Types
    <3> QED
      BY <1>0, <3>1, <3>2, WalkSame
  <2> QED
    BY <2>1, <2>2
<1>3. CASE UNCHANGED mainVars
  BY <1>0, <1>3, WalkSame DEF mainVars
<1> QED
  BY <1>2, <1>3 DEF Next, SchedStep, EnterMode, LockPup, AddFolder, UnlockPup, SetSchedPid,
         NextWorker, CreateFile, AddFile, SetWtPid, FileMade, EndWalk, FillsRaw, EnterAstray,
         LeaveMode, WorkerExits, ReadStep, LookUp, FindThread, CopyThread, Answer,
         StartRead, schedOthers, readOthers, vars

LEMMA TreeInvPreserved ==
  ASSUME TreeInv, ProcAssumption, SchedulersSpread, [Next]_vars
  PROVE  TreeInv'
BY ProcInvPreserved, TypesPreserved, WalkInvPreserved, TableInvPreserved, CursorInvPreserved
DEF TreeInv

LEMMA TreeInvAlways == SchedulersSpread => (Spec => []TreeInv)
<1> SUFFICES ASSUME SchedulersSpread PROVE Spec => []TreeInv
  OBVIOUS
<1>1. Init => TreeInv
  BY ProcAssumption, InitTreeInv
<1>2. TreeInv /\ [Next]_vars => TreeInv'
  BY ProcAssumption, TreeInvPreserved
<1> QED
  BY <1>1, <1>2, PTL DEF Spec

\* Every worker a scheduler lists gets a file of its own, although create_workers_file
\* works under a mutex nobody has initialised, and whatever the removals of other
\* processes do: only the scheduler itself counts last_wt_id on.
THEOREM OwnFileAlways == SchedulersSpread => (Spec => []OwnFile)
<1>1. TreeInv => OwnFile
  BY DEF TreeInv, WalkInv
<1> QED
  BY <1>1, TreeInvAlways, PTL

----------------------------------------------------------------------------

\* The schedulers found at the place of a directory
LEMMA SchedulersAtDirectory ==
  ASSUME TreeInv, ProcAssumption, SchedulersSpread, NEW s \in Sched, path[s] # <<>>
  PROVE  \/ SchedulersAt(path[s][2], leader(s)) = <<>>
         \/ SchedulersAt(path[s][2], leader(s)) = <<s>> /\ s \notin freed
<1>1. PICK i \in Bucket : path[s] = <<leader(s), i>> /\ path[s][2] = i
  BY DirectoryIs
<1>2. i \in Nat /\ Hash(i) = i /\ leader(s) \in Proc
  BY HashIs DEF leader, ProcAssumption
<1>3. SchedulersAt(i, leader(s)) = <<>> \/ SchedulersAt(i, leader(s)) = htable[leader(s)][i]
  BY <1>2, SchedulersAtIs
<1>4. \/ htable[leader(s)][i] = <<>>
      \/ \E t \in Sched : htable[leader(s)][i] = <<t>> /\ t \notin freed /\ path[t] = <<leader(s), i>>
  BY <1>2, ProcChain
<1>5. \A t \in Sched : path[t] = <<leader(s), i>> => t = s
  BY <1>1 DEF TreeInv, ProcInv, OwnDirectory
<1> QED
  BY <1>1, <1>3, <1>4, <1>5

\* A file of a worker has an identifier for which there is a bucket
LEMMA FileIs ==
  ASSUME TreeInv, ProcAssumption, WorkersSpread, NEW s \in Sched, NEW w \in Worker,
         path[<<s, w>>] # <<>>
  PROVE  path[s] # <<>> /\ \E j \in Bucket : path[<<s, w>>] = FileOf(s, j)
<1>1. PICK j \in Nat : path[s] # <<>> /\ FileId(s, w, j)
  BY DEF TreeInv, WalkInv, FileInv, FilesOwned
<1>2. seen[s] \subseteq Workers(leader(s)) /\ leader(s) \in Proc
  BY DEF TreeInv, WalkInv, FileInv, leader, ProcAssumption
<1>3. /\ IsFiniteSet(Workers(leader(s))) /\ Cardinality(Workers(leader(s))) <= NBuckets
      /\ Cardinality(Workers(leader(s))) \in Nat
  BY <1>2, FS_Subset, FS_CardinalityType DEF WorkersSpread, Workers
<1>4. Cardinality(seen[s]) <= Cardinality(Workers(leader(s))) /\ Cardinality(seen[s]) \in Nat
  BY <1>2, <1>3, FS_Subset, FS_CardinalityType
<1>5. j < Cardinality(seen[s]) /\ path[<<s, w>>] = FileOf(s, j)
  BY <1>1 DEF FileId
<1>6. j \in Bucket
  BY <1>3, <1>4, <1>5 DEF Bucket, ProcAssumption
<1> QED
  BY <1>1, <1>5, <1>6

\* The workers found at the place of a file
LEMMA WorkersAtFile ==
  ASSUME TreeInv, ProcAssumption, SchedulersSpread, WorkersSpread,
         NEW s \in Sched, path[s] # <<>>, NEW j \in Bucket
  PROVE  LET W == WorkersAt(j, path[s][2], leader(s))
         IN W = <<>> \/ \E w \in Worker : Head(W) = <<s, w>> /\ path[<<s, w>>] = FileOf(s, j)
                                       /\ <<s, w>> \notin freed
<1> DEFINE S == SchedulersAt(path[s][2], leader(s))
           W == WorkersAt(j, path[s][2], leader(s))
           q == htable[s][Hash(j)]
<1>1. W = FlattenSeq([k \in DOMAIN S |-> Possible(S[k], j)])
  BY DEF WorkersAt
<1>2. CASE S = <<>>
  <2>1. [k \in DOMAIN S |-> Possible(S[k], j)] = <<>>
    BY <1>2
  <2> QED
    BY <1>1, <2>1, FlattenNone
<1>3. CASE S = <<s>>
  <2>1. [k \in DOMAIN S |-> Possible(S[k], j)] = <<q>>
    BY <1>3 DEF Possible
  <2>2. W = q
    BY <1>1, <2>1, FlattenOne
  <2>3. s \in Table /\ Hash(j) = j /\ j \in Nat
    BY HashIs DEF Table
  <2>4. q \in Seq(Nodes)
    BY <2>3 DEF TreeInv, Types, Nodes
  <2>5. CASE q # <<>>
    <3> PICK n : n = q[1]
      OBVIOUS
    <3>1. 1 \in DOMAIN q /\ Head(q) = n
      BY <2>4, <2>5
    <3>2. Home(n, s, j) /\ n \notin freed
      BY <2>3, <3>1 DEF TreeInv, TableInv, Homes
    <3>3. s # Root /\ \A t \in Sched : leader(t) # s
      BY DEF ProcAssumption, leader
    <3>4. PICK w \in Worker, k \in Nat : n = <<s, w>> /\ path[n] = FileOf(s, k) /\ j = Hash(k)
      BY <3>2, <3>3 DEF Home
    <3>5. path[n] # <<>>
      BY <3>4, TripleNotEmpty DEF FileOf
    <3>6. PICK l \in Bucket : path[<<s, w>>] = FileOf(s, l)
      BY <3>4, <3>5, FileIs
    <3>7. k = l
      BY <3>4, <3>6, TripleIs DEF FileOf
    <3>8. k = j
      BY <3>4, <3>7, HashIs
    <3> QED
      BY <2>2, <3>1, <3>2, <3>4, <3>8
  <2> QED
    BY <2>2, <2>5
<1> QED
  BY <1>2, <1>3, SchedulersAtDirectory

\* Every lookup finds what the file stands for, or nothing
LEMMA NodeAtIs ==
  ASSUME TreeInv, ProcAssumption, SchedulersSpread, WorkersSpread,
         NEW m \in Sched \cup WNode, path[m] # <<>>, NodeAt(path[m]) # None
  PROVE  NodeAt(path[m]) = m /\ m \notin freed
<1>1. CASE m \in Sched
  <2>1. PICK i \in Bucket : path[m] = <<leader(m), i>> /\ path[m][2] = i
    BY <1>1, DirectoryIs
  <2>2. Len(path[m]) = 2 /\ path[m][1] = leader(m)
    BY <2>1
  <2>3. NodeAt(path[m]) = First(SchedulersAt(path[m][2], leader(m)))
    BY <2>2 DEF NodeAt, get_scheduler
  <2>4. First(<<>>) = None /\ First(<<m>>) = m
    BY DEF First
  <2> QED
    BY <1>1, <2>3, <2>4, SchedulersAtDirectory
<1>2. ASSUME NEW s \in Sched, NEW w \in Worker, m = <<s, w>>
      PROVE  NodeAt(path[m]) = m /\ m \notin freed
  <2>1. PICK j \in Bucket : path[s] # <<>> /\ path[m] = FileOf(s, j)
    BY <1>2, FileIs
  <2>2. PICK i \in Bucket : path[s] = <<leader(s), i>> /\ path[s][1] = leader(s) /\ path[s][2] = i
    BY <2>1, DirectoryIs
  <2>3. path[m] = <<leader(s), i, j>>
    BY <2>1, <2>2 DEF FileOf
  <2>4. Len(path[m]) = 3 /\ path[m][1] = leader(s) /\ path[m][2] = i /\ path[m][3] = j
    BY <2>3
  <2> PICK W : W = WorkersAt(j, path[s][2], leader(s))
    OBVIOUS
  <2>5. NodeAt(path[m]) = First(W)
    BY <2>2, <2>4 DEF NodeAt, get_worker
  <2>6. W = <<>> \/ \E v \in Worker : Head(W) = <<s, v>> /\ path[<<s, v>>] = FileOf(s, j)
                                   /\ <<s, v>> \notin freed
    BY <2>1, WorkersAtFile
  <2>7. W # <<>> /\ First(W) = Head(W)
    BY <2>5 DEF First
  <2>8. PICK v \in Worker : Head(W) = <<s, v>> /\ path[<<s, v>>] = path[m] /\ <<s, v>> \notin freed
    BY <2>1, <2>6, <2>7
  <2>9. <<s, v>> \in WNode /\ m \in WNode
    BY <1>2 DEF WNode
  <2>10. <<s, v>> = m
    BY <2>8, <2>9 DEF TreeInv, WalkInv, OwnFile
  <2> QED
    BY <2>5, <2>7, <2>8, <2>10
<1>3. CASE m \in WNode
  <2>1. PICK s \in Sched, w \in Worker : m = <<s, w>>
    BY <1>3 DEF WNode
  <2> QED
    BY <1>2, <2>1
<1> QED
  BY <1>1, <1>3

LEMMA PathsStay ==
  ASSUME Onward, NEW f, f # <<>>
  PROVE  PathsOf(f) \subseteq PathsOf(f)'
BY DEF Onward, PathsOf

\* Steps of other threads
LEMMA ReadKept ==
  ASSUME ReadTypes, ReadInv, Onward, UNCHANGED readVars,
         \A f \in files' : f \in files \/ (f # <<>> /\ \E n \in Sched \cup WNode : path'[n] = f),
         \A n \in freed', r \in Reader : n \in freed \/ rpc[r] = "idle" \/ rnode[r] # n
  PROVE  ReadTypes' /\ ReadInv'
<1>1. UNCHANGED <<rpc, rfile, rnode>>
  BY DEF readVars
<1>2. ReadTypes'
  BY <1>1 DEF ReadTypes
<1>3. \A f \in files' : f # <<>> /\ PathsOf(f)' # {}
  <2> TAKE f \in files'
  <2>1. CASE f \in files
    BY <2>1, PathsStay DEF ReadInv
  <2>2. CASE f # <<>> /\ \E n \in Sched \cup WNode : path'[n] = f
    BY <2>2 DEF PathsOf
  <2> QED
    BY <2>1, <2>2
<1>4. ASSUME NEW r \in Reader, rpc[r] # "idle"
      PROVE  /\ rfile[r] # <<>> /\ PathsOf(rfile[r])' # {}
             /\ rnode[r] # None => rnode[r] \in PathsOf(rfile[r])' \ freed'
             /\ rpc[r] \in {"found", "holds", "copied"} => rnode[r] # None
  <2> PICK f : f = rfile[r]
    OBVIOUS
  <2>1. /\ f # <<>> /\ PathsOf(f) # {}
        /\ rnode[r] # None => rnode[r] \in PathsOf(f) \ freed
        /\ rpc[r] \in {"found", "holds", "copied"} => rnode[r] # None
    BY <1>4 DEF ReadInv
  <2>2. PathsOf(f) \subseteq PathsOf(f)'
    BY <2>1, PathsStay
  <2>3. PathsOf(rfile[r])' = PathsOf(f)'
    BY <1>1 DEF PathsOf
  <2>4. rnode[r] \in freed' => rnode[r] \in freed
    BY <1>4
  <2> QED
    BY <2>1, <2>2, <2>3, <2>4
<1> QED
  BY <1>1, <1>2, <1>3, <1>4 DEF ReadInv

LEMMA ReaderStep ==
  ASSUME TreeInv, ProcAssumption, SchedulersSpread, WorkersSpread, ReadTypes, ReadInv,
         NEW r \in Reader, ReadStep(r) \/ \E f \in files : StartRead(r, f)
  PROVE  ReadTypes' /\ ReadInv'
<1>1. UNCHANGED <<path, files, freed>>
  BY DEF ReadStep, LookUp, FindThread, CopyThread, Answer, StartRead, readOthers, tableVars
<1> DEFINE Good(q, f, n) ==
             /\ f # <<>> /\ PathsOf(f) # {}
             /\ n # None => n \in PathsOf(f) \ freed
             /\ q \in {"found", "holds", "copied"} => n # None
<1>2. IF rpc[r] = "idle" THEN rnode[r] = None ELSE Good(rpc[r], rfile[r], rnode[r])
  BY DEF ReadInv
<1>3. ASSUME NEW q, NEW f, NEW n,
             IF q = "idle" THEN n = None ELSE Good(q, f, n),
             rpc' = [rpc EXCEPT ![r] = q], rfile' = [rfile EXCEPT ![r] = f],
             rnode' = [rnode EXCEPT ![r] = n]
      PROVE  ReadTypes' /\ ReadInv'
  <2>1. ReadTypes'
    BY <1>3 DEF ReadTypes
  <2>2. \A u \in Reader : IF rpc'[u] = "idle" THEN rnode'[u] = None
                          ELSE Good(rpc'[u], rfile'[u], rnode'[u])
    <3> TAKE u \in Reader
    <3>1. CASE u = r
      <4>1. rpc'[r] = q /\ rfile'[r] = f /\ rnode'[r] = n
        BY <1>3 DEF ReadTypes
      <4> HIDE DEF Good
      <4> QED
        BY <1>3, <3>1, <4>1
    <3>2. CASE u # r
      <4>1. rpc'[u] = rpc[u] /\ rfile'[u] = rfile[u] /\ rnode'[u] = rnode[u]
        BY <1>3, <3>2 DEF ReadTypes
      <4>2. IF rpc[u] = "idle" THEN rnode[u] = None ELSE Good(rpc[u], rfile[u], rnode[u])
        BY DEF ReadInv
      <4> HIDE DEF Good
      <4> QED
        BY <4>1, <4>2
    <3> QED
      BY <3>1, <3>2
  <2>3. \A x : PathsOf(x)' = PathsOf(x)
    BY <1>1 DEF PathsOf
  <2> QED
    BY <1>1, <2>1, <2>2, <2>3 DEF ReadInv, PathsOf
\* The read goes on with the structure it knows
<1>4. ASSUME NEW q \in {"holds", "copied", "oops"},
             rpc[r] \in {"open", "found", "holds"}, rpc[r] = "open" => q = "oops",
             rpc' = [rpc EXCEPT ![r] = q], UNCHANGED <<rfile, rnode>>
      PROVE  ReadTypes' /\ ReadInv'
  <2>1. q # "idle" /\ Good(q, rfile[r], rnode[r])
    BY <1>2, <1>4
  <2>2. rfile' = [rfile EXCEPT ![r] = rfile[r]] /\ rnode' = [rnode EXCEPT ![r] = rnode[r]]
    BY <1>4 DEF ReadTypes
  <2> HIDE DEF Good
  <2>3. IF q = "idle" THEN rnode[r] = None ELSE Good(q, rfile[r], rnode[r])
    BY <2>1
  <2> QED
    BY <1>3, <1>4, <2>2, <2>3, Zenon
<1>5. CASE LookUp(r)
  <2> PICK f, n : f = rfile[r] /\ n = NodeAt(rfile[r])
    OBVIOUS
  <2>1. rpc[r] = "open"
    BY <1>5 DEF LookUp
  <2>2. CASE EndRead(r)
    BY <1>3, <2>2 DEF EndRead
  <2>3. CASE /\ n # None /\ UNCHANGED rfile
             /\ rnode' = [rnode EXCEPT ![r] = n] /\ rpc' = [rpc EXCEPT ![r] = "found"]
    <3>1. /\ rnode' = [rnode EXCEPT ![r] = n] /\ rpc' = [rpc EXCEPT ![r] = "found"]
          /\ UNCHANGED rfile
      BY <2>3
    <3>2. f # <<>> /\ PathsOf(f) # {}
      BY <1>2, <2>1
    <3>3. PICK m \in Sched \cup WNode : path[m] = f
      BY <3>2 DEF PathsOf
    <3>4. n = m /\ n \notin freed
      BY <2>3, <3>2, <3>3, NodeAtIs
    <3>5. n \in PathsOf(f) \ freed
      BY <3>3, <3>4 DEF PathsOf
    <3>6. Good("found", f, n)
      BY <2>3, <3>2, <3>5
    <3>7. rfile' = [rfile EXCEPT ![r] = f]
      BY <3>1 DEF ReadTypes
    <3> HIDE DEF Good
    <3> QED
      BY <1>3, <3>1, <3>6, <3>7
  <2>4. CASE rpc' = [rpc EXCEPT ![r] = "oops"] /\ UNCHANGED <<rfile, rnode>>
    BY <1>4, <2>1, <2>4
  <2>5. \/ EndRead(r)
        \/ /\ n # None /\ UNCHANGED rfile
           /\ rnode' = [rnode EXCEPT ![r] = n] /\ rpc' = [rpc EXCEPT ![r] = "found"]
        \/ rpc' = [rpc EXCEPT ![r] = "oops"] /\ UNCHANGED <<rfile, rnode>>
    <3>1. n = NodeAt(rfile[r])
      OBVIOUS
    <3> HIDE DEF Good
    <3> QED
      BY ONLY <1>5, <3>1 DEF LookUp
  <2> QED
    BY <2>2, <2>3, <2>4, <2>5
<1>6. CASE FindThread(r)
  <2>1. CASE EndRead(r)
    BY <1>3, <2>1 DEF EndRead
  <2>2. CASE ~EndRead(r)
    <3>1. /\ rpc[r] = "found" /\ rpc' = [rpc EXCEPT ![r] = "holds"]
          /\ UNCHANGED <<rfile, rnode>>
      BY <1>6, <2>2 DEF FindThread
    <3> QED
      BY <1>4, <3>1
  <2> QED
    BY <2>1, <2>2
<1>7. CASE CopyThread(r)
  <2>1. /\ rpc[r] = "holds" /\ UNCHANGED <<rfile, rnode>>
        /\ \E q \in {"copied", "oops"} : rpc' = [rpc EXCEPT ![r] = q]
    BY <1>7 DEF CopyThread
  <2> QED
    BY <1>4, <2>1
<1>8. CASE Answer(r)
  BY <1>3, <1>8 DEF Answer, EndRead
<1>9. ASSUME NEW f \in files, StartRead(r, f)
       PROVE  ReadTypes' /\ ReadInv'
  <2>1. /\ rpc[r] = "idle" /\ rpc' = [rpc EXCEPT ![r] = "open"]
        /\ rfile' = [rfile EXCEPT ![r] = f] /\ UNCHANGED rnode
    BY <1>9 DEF StartRead
  <2>2. rnode[r] = None
    BY <1>2, <2>1
  <2>3. f # <<>> /\ PathsOf(f) # {}
    BY DEF ReadInv
  <2>4. Good("open", f, None)
    BY <2>3
  <2>5. rnode' = [rnode EXCEPT ![r] = None]
    BY <2>1, <2>2 DEF ReadTypes
  <2> HIDE DEF Good
  <2>6. IF "open" = "idle" THEN None = None ELSE Good("open", f, None)
    BY <2>4
  <2> QED
    BY <1>3, <2>1, <2>5, <2>6, Zenon
<1> QED
  BY <1>5, <1>6, <1>7, <1>8, <1>9 DEF ReadStep

\* A structure a reader has found is not freed under it
LEMMA FreeRead ==
  ASSUME TreeInv, ProcAssumption, WorkersSpread, ReadInv, NEW p \in Proc, Free(p),
         NEW r \in Reader, rpc[r] # "idle"
  PROVE  rnode[r] # removing[p]
<1> SUFFICES ASSUME rnode[r] = removing[p] PROVE FALSE
  OBVIOUS
<1> PICK n : n = removing[p]
  OBVIOUS
<1>1. n # None /\ ~Under(n, rfile[r])
  BY DEF Free, NoReaders
<1>2. rfile[r] # <<>> /\ n \in Sched \cup WNode /\ path[n] = rfile[r]
  BY <1>1 DEF ReadInv, PathsOf
<1>3. n \notin Proc
  BY <1>2 DEF ProcAssumption, WNode
<1>4. Len(path[n]) \in Nat
  <2>1. CASE n \in Sched
    BY <1>2, <2>1, DirectoryIs
  <2>2. ASSUME NEW s \in Sched, NEW w \in Worker, n = <<s, w>> PROVE Len(path[n]) \in Nat
    <3>1. PICK j \in Bucket : path[n] = FileOf(s, j)
      BY <1>2, <2>2, FileIs
    <3> QED
      BY <3>1 DEF FileOf
  <2> QED
    BY <1>2, <2>1, <2>2 DEF WNode
<1>5. IsPrefix(path[n], path[n])
  BY <1>4 DEF IsPrefix
<1> QED
  BY <1>1, <1>2, <1>3, <1>5 DEF Under

LEMMA MainRead ==
  ASSUME TreeInv, ProcAssumption, WorkersSpread, Onward, ReadTypes, ReadInv,
         NEW p \in Proc, MainStep(p)
  PROVE  ReadTypes' /\ ReadInv'
<1>1. UNCHANGED readVars
  BY DEF MainStep, create_proc_ums_pid, InitSchedulers, SetUp, DestroyWorker, BeginRemoval,
         RemovalStep, NextBucket, NextEntry, Unlink,
                WalkAstray, Free, FreedByAnother, EndRemoval, mainOthers, tableVars
<1>2. files' \subseteq files
  BY DEF MainStep, create_proc_ums_pid, InitSchedulers, SetUp, DestroyWorker, BeginRemoval,
         RemovalStep, NextBucket, NextEntry, Unlink,
                WalkAstray, Free, FreedByAnother, EndRemoval, tableVars
<1>3. \A n \in freed', r \in Reader : n \in freed \/ rpc[r] = "idle" \/ rnode[r] # n
  <2>1. CASE Free(p)
    BY <2>1, FreeRead DEF Free
  <2>2. CASE ~Free(p)
    BY <2>2 DEF MainStep, create_proc_ums_pid, InitSchedulers, SetUp, DestroyWorker, BeginRemoval,
                RemovalStep, NextBucket, NextEntry, Unlink, WalkAstray,
                FreedByAnother, EndRemoval, tableVars
  <2> QED
    BY <2>1, <2>2
<1> QED
  BY <1>1, <1>2, <1>3, ReadKept

LEMMA SchedulerRead ==
  ASSUME TreeInv, ProcAssumption, Onward, ReadTypes, ReadInv, NEW s \in Sched, SchedStep(s)
  PROVE  ReadTypes' /\ ReadInv'
<1>0. DirInv(s) /\ FileInv(s)
  BY DEF TreeInv, WalkInv
<1>1. UNCHANGED <<readVars, freed>>
  BY DEF SchedStep, EnterMode, LockPup, AddFolder, UnlockPup, SetSchedPid, NextWorker, CreateFile,
         AddFile, SetWtPid, FileMade, EndWalk, FillsRaw, EnterAstray, LeaveMode, schedOthers, tableVars
<1>2. CASE UNCHANGED files
  BY <1>1, <1>2, ReadKept
<1>3. CASE \E pup \in Proc : UnlockPup(s, pup)
  <2>1. UNCHANGED path /\ files' = files \cup {path[s]} /\ spc[s] = "added"
    BY <1>3 DEF UnlockPup
  <2>2. path[s] # <<>>
    BY <1>0, <2>1, EmptyIsNoPair DEF DirInv
  <2> QED
    BY <1>1, <2>1, <2>2, ReadKept
<1>4. CASE CreateFile(s) /\ ~UNCHANGED files
  <2>1. Listing(s) /\ spc[s] = "file"
    BY <1>0, <1>4 DEF CreateFile, Listing
  <2>2. sched(s) = s /\ path[s] # <<>> /\ kcle[s] \in Worker
    BY <2>1, Holding
  <2> PICK n, f : n = <<s, kcle[s]>> /\ f = Append(path[s], last_wt_id[s])
    OBVIOUS
  <2>3. path' = [path EXCEPT ![n] = f] /\ files' = files \cup {f}
    BY <1>4, <2>2 DEF CreateFile
  <2>4. f # <<>>
    <3>1. PICK i \in Bucket : path[s] = <<leader(s), i>>
      BY <2>2, DirectoryIs
    <3> QED
      BY <3>1, AppendToPair, TripleNotEmpty
  <2>5. n \in Sched \cup WNode
    BY <2>2 DEF WNode
  <2>6. path'[n] = f
    BY <2>3, <2>5 DEF TreeInv, ProcInv, Shapes
  <2> QED
    BY <1>1, <2>3, <2>4, <2>5, <2>6, ReadKept
<1> QED
  BY <1>2, <1>3, <1>4
  DEF SchedStep, EnterMode, LockPup, AddFolder, SetSchedPid, NextWorker, AddFile, SetWtPid,
      FileMade, EndWalk, FillsRaw, EnterAstray, LeaveMode, tableVars

LEMMA ReadInvPreserved ==
  ASSUME TreeInv, ProcAssumption, SchedulersSpread, WorkersSpread, ReadTypes, ReadInv, [Next]_vars
  PROVE  ReadTypes' /\ ReadInv'
<1>0. Onward
  BY OnwardStep
<1>1. CASE (\E w \in Worker : WorkerExits(w)) \/ UNCHANGED vars
  <2>1. UNCHANGED <<readVars, files, freed>>
    BY <1>1 DEF WorkerExits, vars, tableVars, readVars
  <2> QED
    BY <1>0, <2>1, ReadKept
<1> QED
  BY <1>0, <1>1, MainRead, SchedulerRead, ReaderStep DEF Next

LEMMA ReadInvAlways ==
  SchedulersSpread /\ WorkersSpread => (Spec => [](TreeInv /\ ReadTypes /\ ReadInv))
<1> SUFFICES ASSUME SchedulersSpread, WorkersSpread
             PROVE  Spec => [](TreeInv /\ ReadTypes /\ ReadInv)
  OBVIOUS
<1> DEFINE I == TreeInv /\ ReadTypes /\ ReadInv
<1>1. Init => I
  <2> SUFFICES ASSUME Init PROVE I
    OBVIOUS
  <2>1. ReadTypes
    BY DEF Init, ReadTypes
  <2>2. ReadInv
    BY DEF Init, ReadInv
  <2> QED
    BY <2>1, <2>2, InitTreeInv, ProcAssumption
<1>2. I /\ [Next]_vars => I'
  BY ProcAssumption, TreeInvPreserved, ReadInvPreserved
<1> QED
  BY <1>1, <1>2, PTL DEF Spec

\* remove_proc_ums_pid frees no structure that a read under way has found, whichever
\* process removes it and however many readers there are: the read has found the
\* structure of its own file, and proc_remove waits for the reads of that file.
THEOREM EntriesOutliveReadersAlways ==
  SchedulersSpread /\ WorkersSpread => (Spec => []EntriesOutliveReaders)
<1> SUFFICES ASSUME SchedulersSpread, WorkersSpread PROVE Spec => []EntriesOutliveReaders
  OBVIOUS
<1>1. TreeInv /\ ReadTypes /\ ReadInv => EntriesOutliveReaders
  BY DEF ReadInv, EntriesOutliveReaders
<1>2. Spec => [](TreeInv /\ ReadTypes /\ ReadInv)
  BY ReadInvAlways
<1> QED
  BY <1>1, <1>2, PTL

----------------------------------------------------------------------------

LEMMA WalkedKept ==
  ASSUME NEW t \in Sched, Walked(t), Same(t), FileInv(t), named \subseteq named', files \subseteq files',
         spc[t] = "entered" /\ wt_ready_queue'[leader(t)] = Workers(leader(t)) =>
           wt_ready_queue[leader(t)] = Workers(leader(t))
  PROVE  Walked(t)'
<1>1. seen[t] \subseteq Worker /\ Workers(leader(t)) \subseteq Worker
  BY DEF FileInv, Workers
<1>2. \A w \in Worker : Listed(t, w) => Listed(t, w)'
  BY DEF Listed, Same
<1>3. spc[t] \in {"created", "filed"} => path'[<<t, kcle[t]>>] = path[<<t, kcle[t]>>]
  BY <1>1 DEF FileInv, Same
<1>4. /\ spc'[t] = spc[t] /\ todo'[t] = todo[t] /\ seen'[t] = seen[t] /\ kcle'[t] = kcle[t]
      /\ Walks(t)' = Walks(t) /\ Listing(t)' = Listing(t)
  BY DEF Same, Walks, Listing
<1>5. leader(t)' = leader(t) /\ Workers(leader(t))' = Workers(leader(t))
  BY DEF leader, Workers
<1> QED
  BY <1>1, <1>2, <1>3, <1>4, <1>5 DEF Walked

\* While nobody removes, nothing disappears
LEMMA AllThereStep ==
  ASSUME Types, [Next]_vars, AllThere'
  PROVE  AllThere /\ UNCHANGED <<freed, removing>> /\ files \subseteq files' /\ named \subseteq named'
<1>1. ASSUME NEW p \in Proc PROVE ~RemovalStep(p) /\ ~BeginRemoval(p)
  <2>1. ppc'[p] \notin {"destroy", "oops", "done"}
    BY DEF AllThere, Beginning
  <2> QED
    BY <2>1 DEF Types, RemovalStep, NextBucket, NextEntry, Unlink,
                WalkAstray, Free, FreedByAnother, EndRemoval, Walking, BeginRemoval, PGoto
<1>2. ASSUME NEW p \in Proc, MainStep(p)
      PROVE  AllThere /\ UNCHANGED <<freed, removing, files, named>>
  <2>1. \/ create_proc_ums_pid(p) \/ InitSchedulers(p) \/ SetUp(p)
        \/ \E w \in Worker : DestroyWorker(p, w)
    BY <1>1, <1>2 DEF MainStep
  <2>2. ppc' = ppc \/ (ppc[p] \in Beginning /\ \E x : ppc' = [ppc EXCEPT ![p] = x])
    BY <2>1 DEF create_proc_ums_pid, InitSchedulers, SetUp, DestroyWorker, mainVars, PGoto, Beginning
  <2>3. UNCHANGED <<freed, removing, files, named>>
    BY <2>1 DEF create_proc_ums_pid, InitSchedulers, SetUp, DestroyWorker, tableVars, mainVars
  <2> QED
    BY <2>2, <2>3 DEF Types, AllThere
<1>3. ASSUME NEW s \in Sched, SchedStep(s)
      PROVE  UNCHANGED <<ppc, freed, removing>> /\ files \subseteq files' /\ named \subseteq named'
  BY <1>3 DEF SchedStep, EnterMode, LockPup, AddFolder, UnlockPup, SetSchedPid, NextWorker,
              CreateFile, AddFile, SetWtPid, FileMade, EndWalk, FillsRaw, EnterAstray, LeaveMode,
              tableVars, schedOthers, mainVars
<1>4. CASE \/ \E w \in Worker : WorkerExits(w)
           \/ \E r \in Reader : ReadStep(r) \/ \E f \in files : StartRead(r, f)
           \/ UNCHANGED vars
  <2>1. UNCHANGED <<ppc, freed, removing, files, named>>
    BY <1>4 DEF WorkerExits, ReadStep, LookUp, FindThread, CopyThread, Answer, StartRead, vars,
                readOthers, tableVars, mainVars
  <2> QED
    BY <2>1 DEF AllThere
<1>5. UNCHANGED ppc => AllThere
  BY DEF AllThere
<1> QED
  BY <1>2, <1>3, <1>4, <1>5 DEF Next

\* Nothing of what a scheduler works on has been removed
LEMMA NothingStale ==
  ASSUME ListInv, AllThere, NEW s \in Sched
  PROVE  ~Stale(s)
BY DEF ListInv, Stale

LEMMA SchedulerWalked ==
  ASSUME TreeInv, ProcAssumption, SchedulersSpread, ListInv, AllThere, Onward,
         NEW s \in Sched, SchedStep(s), files \subseteq files', named \subseteq named'
  PROVE  Walked(s)'
<1>0. Walked(s) /\ DirInv(s) /\ FileInv(s) /\ ~Stale(s) /\ freed = {}
  BY NothingStale DEF ListInv, TreeInv, WalkInv
<1>1. /\ spc = [t \in Sched |-> spc[t]] /\ todo = [t \in Sched |-> todo[t]]
      /\ kcle \in [Sched -> Worker \cup {None}] /\ seen \in [Sched -> SUBSET Worker]
      /\ seen[s] \subseteq Worker /\ seen[s] \subseteq Workers(leader(s))
  BY <1>0 DEF TreeInv, ProcInv, Shapes, Types, FileInv
<1>2. leader(s)' = leader(s) /\ Workers(leader(s))' = Workers(leader(s)) /\ Workers(leader(s)) \subseteq Worker
  BY DEF leader, Workers
<1>3. ASSUME NEW w \in Worker, path'[<<s, w>>] = path[<<s, w>>], Listed(s, w) PROVE Listed(s, w)'
  BY <1>3 DEF Listed
<1>4. CASE EnterMode(s) \/ \E pup \in Proc : LockPup(s, pup) \/ AddFolder(s, pup) \/ UnlockPup(s, pup)
  <2>1. PICK l \in {"folder", "locked", "added", "visible"} : spc' = [spc EXCEPT ![s] = l]
    BY <1>4 DEF EnterMode, LockPup, AddFolder, UnlockPup, SGoto
  <2>2. spc[s] \in {"start", "folder", "locked", "added"} /\ seen' = seen
    BY <1>4 DEF EnterMode, LockPup, AddFolder, UnlockPup, locals
  <2>3. spc'[s] = l /\ seen'[s] = {}
    BY <1>0, <1>1, <2>1, <2>2 DEF Walked
  <2> QED
    BY <2>3 DEF Walked, Listing
<1>5. CASE SetSchedPid(s)
  <2>1. spc[s] = "visible" /\ spc' = [spc EXCEPT ![s] = "folder"] /\ seen' = seen
    BY <1>5 DEF SetSchedPid, SGoto
  <2>2. spc'[s] = "folder" /\ seen'[s] = {}
    BY <1>0, <1>1, <2>1 DEF Walked
  <2> QED
    BY <2>2 DEF Walked, Listing
<1>6. ASSUME NEW w \in Worker, NextWorker(s, w) PROVE Walked(s)'
  <2>1. /\ Walks(s) /\ w \in wt_ready_queue[leader(s)]
        /\ kcle' = [kcle EXCEPT ![s] = w] /\ seen' = [seen EXCEPT ![s] = seen[s] \cup {w}]
        /\ todo' = [todo EXCEPT ![s] = SchedulersAt(sched_id[s], leader(s))]
        /\ spc' = [spc EXCEPT ![s] = "file"] /\ UNCHANGED path
    BY <1>6 DEF NextWorker, SGoto, tableVars
  <2>2. /\ spc'[s] = "file" /\ kcle'[s] = w /\ seen'[s] = seen[s] \cup {w}
        /\ todo'[s] = SchedulersAt(sched_id[s], leader(s))
    BY <1>1, <2>1
  <2>3. path[s] = <<leader(s), sched_id[s]>> /\ leader(s) \in Proc
    BY <1>0, <2>1 DEF DirInv, leader, ProcAssumption
  <2>4. SchedulersAt(sched_id[s], leader(s)) # <<>>
    <3>1. path[s] # <<>> /\ path[s][2] = sched_id[s] /\ sched_id[s] \in Nat
      BY <2>3, EmptyIsNoPair DEF TreeInv, Types
    <3>2. htable[leader(s)][Hash(sched_id[s])] = <<s>>
      BY <1>0, <3>1 DEF TreeInv, TableInv, SchedLinked
    <3>3. ppc[leader(s)] # "start"
      BY <1>0, <3>1 DEF DirInv, Beginning
    <3>4. htable[Root][PidHash[leader(s)]] = <<leader(s)>>
      BY <1>0, <2>3, <3>3 DEF TreeInv, TableInv, PupLinked
    <3>5. <<s>> # <<>> /\ <<leader(s)>> # <<>>
      OBVIOUS
    <3> QED
      BY <2>3, <3>1, <3>2, <3>4, <3>5, SchedulersAtIs
  <2>5. \A v \in seen[s] : Listed(s, v)'
    BY <1>0, <1>1, <1>3, <2>1 DEF Walked
  <2> QED
    BY <2>2, <2>4, <2>5 DEF Walked, Walks, Listing
<1>7. CASE CreateFile(s)
  <2>1. Listing(s) /\ spc[s] = "file" /\ UNCHANGED <<todo, kcle, seen>>
    BY <1>0, <1>7 DEF CreateFile, Listing, locals
  <2>2. sched(s) = s /\ kcle[s] \in Worker
    BY <2>1, Holding
  <2> PICK n, f : n = <<s, kcle[s]>> /\ f = Append(path[s], last_wt_id[s])
    OBVIOUS
  <2>3. \/ spc' = [spc EXCEPT ![s] = "oops"]
        \/ /\ path' = [path EXCEPT ![n] = f] /\ files' = files \cup {f}
           /\ spc' = [spc EXCEPT ![s] = "created"]
    BY <1>7, <2>2 DEF CreateFile, SGoto
  <2>4. CASE spc' = [spc EXCEPT ![s] = "oops"]
    <3>1. spc'[s] = "oops"
      BY <1>1, <2>4
    <3> QED
      BY <3>1 DEF Walked, Walks, Listing
  <2>5. CASE /\ path' = [path EXCEPT ![n] = f] /\ files' = files \cup {f}
             /\ spc' = [spc EXCEPT ![s] = "created"]
    <3>1. spc'[s] = "created"
      BY <1>1, <2>5
    <3>2. n \in Sched \cup WNode
      BY <2>2 DEF WNode
    <3>3. path'[n] = f /\ \A m \in Sched \cup WNode : m # n => path'[m] = path[m]
      BY <2>5, <3>2 DEF TreeInv, ProcInv, Shapes
    <3>4. \A w \in Worker \ {kcle[s]} : path'[<<s, w>>] = path[<<s, w>>]
      <4>1. \A w \in Worker \ {kcle[s]} : <<s, w>> \in WNode /\ <<s, w>> # n
        BY DEF WNode
      <4> QED
        BY <3>3, <4>1
    <3>5. \A w \in seen[s] \ {kcle[s]} : Listed(s, w)'
      BY <1>0, <1>1, <1>3, <2>1, <3>4 DEF Walked
    <3>6. path'[<<s, kcle'[s]>>] \in files'
      <4>1. <<s, kcle'[s]>> = n /\ f \in files'
        BY <2>1, <2>5
      <4> QED
        BY <3>3, <4>1
    <3> QED
      BY <2>1, <3>1, <3>5, <3>6 DEF Walked, Walks, Listing
  <2> QED
    BY <2>3, <2>4, <2>5
<1>8. CASE AddFile(s)
  <2>1. /\ spc[s] = "created" /\ spc' = [spc EXCEPT ![s] = "filed"]
        /\ UNCHANGED <<path, files, todo, kcle, seen>>
    BY <1>8 DEF AddFile, SGoto, locals
  <2>2. spc'[s] = "filed"
    BY <1>1, <2>1
  <2>3. Listing(s)
    BY <1>0, <2>1 DEF FileInv, Listing
  <2>4. \A w \in seen[s] \ {kcle[s]} : Listed(s, w)'
    BY <1>0, <1>1, <1>3, <2>1, <2>3 DEF Walked
  <2> QED
    BY <1>0, <2>1, <2>2, <2>4 DEF Walked, Walks, Listing
<1>9. CASE SetWtPid(s)
  <2>1. /\ spc[s] = "filed" /\ spc' = [spc EXCEPT ![s] = "file"]
        /\ todo' = [todo EXCEPT ![s] = Tail(todo[s])] /\ named' = named \cup {<<s, kcle[s]>>}
        /\ UNCHANGED <<path, files, kcle, seen>>
    BY <1>9 DEF SetWtPid, SGoto
  <2>2. Listing(s)
    BY <1>0, <2>1 DEF FileInv, Listing
  <2>3. spc'[s] = "file" /\ todo'[s] = <<>>
    BY <1>1, <2>1, <2>2, Holding, TailOfOne
  <2>4. \A w \in seen[s] \ {kcle[s]} : Listed(s, w)'
    BY <1>0, <1>1, <1>3, <2>1, <2>2 DEF Walked
  <2>5. Listed(s, kcle[s])'
    BY <1>0, <2>1 DEF Walked, Listed
  <2>6. \A w \in seen[s] : Listed(s, w)'
    BY <2>1, <2>4, <2>5 DEF Listed
  <2> QED
    BY <2>1, <2>3, <2>6 DEF Walked, Walks, Listing
<1>10. CASE FileMade(s)
  <2>1. /\ spc[s] = "file" /\ todo[s] = <<>>
        /\ UNCHANGED <<path, files, named, kcle, seen, todo, wt_ready_queue>>
        /\ \/ spc' = [spc EXCEPT ![s] = "walk"]
           \/ /\ kcle[s] \notin wt_ready_queue[leader(s)]
              /\ \E l \in {"entered", "oops"} : spc' = [spc EXCEPT ![s] = l]
    BY <1>10 DEF FileMade, SGoto, tableVars, locals, schedOthers
  <2>2. \A w \in seen[s] : Listed(s, w)'
    BY <1>0, <1>1, <1>3, <2>1 DEF Walked
  <2>3. CASE spc' = [spc EXCEPT ![s] = "walk"]
    <3>1. spc'[s] = "walk"
      BY <1>1, <2>3
    <3> QED
      BY <2>1, <2>2, <3>1 DEF Walked, Walks, Listing
  <2>4. CASE /\ kcle[s] \notin wt_ready_queue[leader(s)]
             /\ \E l \in {"entered", "oops"} : spc' = [spc EXCEPT ![s] = l]
    <3>1. spc'[s] \in {"entered", "oops"}
      BY <1>1, <2>4
    <3>2. kcle[s] \in Workers(leader(s))
      BY <1>0, <1>1, <2>1 DEF FileInv
    <3> QED
      BY <1>2, <2>1, <2>4, <3>1, <3>2 DEF Walked, Walks, Listing
  <2> QED
    BY <2>1, <2>3, <2>4
<1>11. CASE EndWalk(s)
  <2>1. /\ Walks(s) /\ wt_ready_queue[leader(s)] \subseteq seen[s]
        /\ UNCHANGED <<path, files, named, wt_ready_queue>>
        /\ spc' = [spc EXCEPT ![s] = "entered"]
    BY <1>11 DEF EndWalk, SGoto, tableVars, schedOthers
  <2>2. spc'[s] = "entered"
    BY <1>1, <2>1
  <2>3. \A w \in seen[s] : Listed(s, w)'
    BY <1>0, <1>1, <1>3, <2>1 DEF Walked
  <2>4. wt_ready_queue'[leader(s)] = Workers(leader(s)) => \A w \in Workers(leader(s)) : Listed(s, w)'
    BY <2>1, <2>3
  <2> QED
    BY <1>2, <2>2, <2>4 DEF Walked, Walks, Listing
<1>12. CASE LeaveMode(s)
  <2>1. spc' = [spc EXCEPT ![s] = "left"]
    BY <1>12 DEF LeaveMode, SGoto
  <2>2. spc'[s] = "left"
    BY <1>1, <2>1
  <2> QED
    BY <2>2 DEF Walked, Walks, Listing
<1>13. CASE FillsRaw(s) /\ SGoto(s, "oops")
  <2>1. spc' = [spc EXCEPT ![s] = "oops"]
    BY <1>13 DEF SGoto
  <2>2. spc'[s] = "oops"
    BY <1>1, <2>1
  <2> QED
    BY <2>2 DEF Walked, Walks, Listing
<1> QED
  BY <1>0, <1>4, <1>5, <1>6, <1>7, <1>8, <1>9, <1>10, <1>11, <1>12, <1>13 DEF SchedStep, EnterAstray

\* A scheduler's step leaves the others alone
LEMMA OtherSchedulersSame ==
  ASSUME TreeInv, ProcAssumption, NEW s \in Sched, SchedStep(s), NEW t \in Sched, t # s
  PROVE  Same(t) /\ wt_ready_queue' = wt_ready_queue
<1>0. /\ spc = [u \in Sched |-> spc[u]] /\ todo = [u \in Sched |-> todo[u]]
      /\ kcle \in [Sched -> Worker \cup {None}] /\ seen \in [Sched -> SUBSET Worker]
      /\ sched_id \in [Sched -> Nat] /\ last_wt_id \in [Sched -> Nat]
      /\ path = [n \in Sched \cup WNode |-> path[n]]
  BY DEF TreeInv, ProcInv, Shapes, Types
<1>1. /\ wt_ready_queue' = wt_ready_queue
      /\ \E l : spc' = [spc EXCEPT ![s] = l]
      /\ todo' = todo \/ \E x : todo' = [todo EXCEPT ![s] = x]
      /\ kcle' = kcle \/ \E x : kcle' = [kcle EXCEPT ![s] = x]
      /\ seen' = seen \/ \E x : seen' = [seen EXCEPT ![s] = x]
      /\ sched_id' = sched_id \/ \E x : sched_id' = [sched_id EXCEPT ![s] = x]
  BY DEF SchedStep, EnterMode, LockPup, AddFolder, UnlockPup, SetSchedPid, NextWorker, CreateFile,
         AddFile, SetWtPid, FileMade, EndWalk, FillsRaw, EnterAstray, LeaveMode, locals, schedOthers, SGoto
<1>2. /\ spc'[t] = spc[t] /\ todo'[t] = todo[t] /\ kcle'[t] = kcle[t] /\ seen'[t] = seen[t]
      /\ sched_id'[t] = sched_id[t]
  BY <1>0, <1>1
<1>3. last_wt_id'[t] = last_wt_id[t]
  <2>1. CASE AddFile(s)
    <3>1. sched(s) = s
      BY <2>1, Holding DEF AddFile, TreeInv, WalkInv, FileInv, Listing
    <3> QED
      BY <1>0, <2>1, <3>1 DEF AddFile
  <2> QED
    BY <2>1 DEF SchedStep, EnterMode, LockPup, AddFolder, UnlockPup, SetSchedPid, NextWorker,
         CreateFile, SetWtPid, FileMade, EndWalk, FillsRaw, EnterAstray, LeaveMode, idVars
<1>4. path'[t] = path[t] /\ \A w \in Worker : path'[<<t, w>>] = path[<<t, w>>]
  <2>1. t \in Sched \cup WNode /\ t # s /\ t # <<s, kcle[s]>>
    BY <1>0 DEF ProcAssumption
  <2>2. \A w \in Worker : <<t, w>> \in Sched \cup WNode /\ <<t, w>> # s /\ <<t, w>> # <<s, kcle[s]>>
    BY DEF WNode, ProcAssumption
  <2> PICK n : n = <<s, kcle[s]>>
    OBVIOUS
  <2>3. path' = path \/ (\E x : path' = [path EXCEPT ![s] = x]) \/ \E x : path' = [path EXCEPT ![n] = x]
    BY DEF SchedStep, EnterMode, LockPup, AddFolder, UnlockPup, SetSchedPid, NextWorker, CreateFile,
           AddFile, SetWtPid, FileMade, EndWalk, FillsRaw, EnterAstray, LeaveMode, tableVars
  <2>4. \A m \in Sched \cup WNode : m # s /\ m # n => path'[m] = path[m]
    BY <1>0, <2>3
  <2> QED
    BY <2>1, <2>2, <2>4
<1> QED
  BY <1>1, <1>2, <1>3, <1>4 DEF Same

LEMMA ListInvPreserved ==
  ASSUME TreeInv, ProcAssumption, SchedulersSpread, ListInv, [Next]_vars
  PROVE  ListInv'
<1> SUFFICES ASSUME AllThere'
             PROVE  (freed = {} /\ \A p \in Proc : removing[p] = None)' /\ \A t \in Sched : Walked(t)'
  BY DEF ListInv
<1>1. AllThere /\ UNCHANGED <<freed, removing>> /\ files \subseteq files' /\ named \subseteq named'
  BY AllThereStep DEF TreeInv
<1>2. freed = {} /\ (\A p \in Proc : removing[p] = None) /\ \A t \in Sched : Walked(t)
  BY <1>1 DEF ListInv
<1>3. \A t \in Sched : FileInv(t) /\ DirInv(t) /\ leader(t) \in Proc
  BY DEF TreeInv, WalkInv, leader, ProcAssumption
<1>4. ASSUME NEW s \in Sched, SchedStep(s), NEW t \in Sched PROVE Walked(t)'
  <2>1. CASE t = s
    BY <1>1, <1>4, <2>1, OnwardStep, SchedulerWalked
  <2>2. CASE t # s
    BY <1>1, <1>2, <1>3, <1>4, <2>2, OtherSchedulersSame, WalkedKept
  <2> QED
    BY <2>1, <2>2
<1>5. ASSUME NEW t \in Sched, UNCHANGED <<spc, todo, sched_id, kcle, seen, last_wt_id, path>>,
             spc[t] = "entered" /\ wt_ready_queue'[leader(t)] = Workers(leader(t)) =>
               wt_ready_queue[leader(t)] = Workers(leader(t))
      PROVE  Walked(t)'
  <2>1. Same(t)
    BY <1>5 DEF Same
  <2> QED
    BY <1>1, <1>2, <1>3, <1>5, <2>1, WalkedKept
<1>6. ASSUME NEW p \in Proc, MainStep(p), NEW t \in Sched PROVE Walked(t)'
  <2>1. UNCHANGED <<spc, todo, sched_id, kcle, seen, last_wt_id, path>>
    BY <1>6 DEF MainStep, create_proc_ums_pid, InitSchedulers, SetUp, DestroyWorker, BeginRemoval,
                RemovalStep, NextBucket, NextEntry, Unlink,
                WalkAstray, Free, FreedByAnother, EndRemoval, tableVars, idVars, mainOthers,
                schedVars, locals
  <2>2. \/ wt_ready_queue' = wt_ready_queue
        \/ ppc[p] = "initialised" /\ wt_ready_queue' = [wt_ready_queue EXCEPT ![p] = Workers(p)]
    BY <1>6 DEF MainStep, create_proc_ums_pid, InitSchedulers, SetUp, DestroyWorker, BeginRemoval,
                RemovalStep, NextBucket, NextEntry, Unlink,
                WalkAstray, Free, FreedByAnother, EndRemoval, mainOthers
  <2>3. spc[t] = "entered" => ppc[leader(t)] # "initialised"
    BY <1>3 DEF DirInv, Beginning
  <2> QED
    BY <1>3, <1>5, <2>1, <2>2, <2>3 DEF TreeInv, Types
<1>7. ASSUME NEW w \in Worker, WorkerExits(w), NEW t \in Sched PROVE Walked(t)'
  <2>1. /\ UNCHANGED <<spc, todo, sched_id, kcle, seen, last_wt_id, path>>
        /\ w \in wt_ready_queue[LeaderOf[w]]
        /\ wt_ready_queue' = [wt_ready_queue EXCEPT ![LeaderOf[w]] = wt_ready_queue[LeaderOf[w]] \ {w}]
    BY <1>7 DEF WorkerExits, tableVars, idVars, schedVars, locals
  <2>2. LeaderOf[w] \in Proc /\ w \in Workers(LeaderOf[w])
    BY DEF ProcAssumption, Workers
  <2>3. wt_ready_queue'[LeaderOf[w]] # Workers(LeaderOf[w])
    BY <2>1, <2>2 DEF TreeInv, Types
  <2>4. leader(t) # LeaderOf[w] => wt_ready_queue'[leader(t)] = wt_ready_queue[leader(t)]
    BY <1>3, <2>1 DEF TreeInv, Types
  <2> QED
    BY <1>5, <2>1, <2>3, <2>4
<1>8. ASSUME NEW t \in Sched, \/ \E r \in Reader : ReadStep(r) \/ \E f \in files : StartRead(r, f)
                              \/ UNCHANGED vars
      PROVE  Walked(t)'
  <2>1. UNCHANGED <<spc, todo, sched_id, kcle, seen, last_wt_id, path, wt_ready_queue>>
    BY <1>8 DEF ReadStep, LookUp, FindThread, CopyThread, Answer, StartRead, vars,
                readOthers, tableVars, idVars, schedVars, locals
  <2> QED
    BY <1>5, <2>1
<1>9. \A t \in Sched : Walked(t)'
  BY <1>4, <1>6, <1>7, <1>8 DEF Next
<1> QED
  BY <1>1, <1>2, <1>9

LEMMA ListInvSafe == ASSUME ListInv PROVE WorkersListed
<1> SUFFICES ASSUME NEW s \in Sched, spc[s] = "entered",
                    \A p \in Proc : ppc[p] \in {"start", "linked", "initialised", "ready"},
                    wt_ready_queue[leader(s)] = Workers(leader(s)),
                    NEW w \in wt_ready_queue[leader(s)]
             PROVE  <<s, w>> \in named /\ path[<<s, w>>] \in files
  BY DEF WorkersListed
<1>1. AllThere
  BY DEF AllThere, Beginning
<1> QED
  BY <1>1 DEF ListInv, Walked, Listed

\* A scheduler that has entered while every worker of its list was there has a file
\* with a pid for each of them, until somebody removes: create_workers_file finds the
\* scheduler's own directory every time, for any list and any order of its walk.
THEOREM WorkersListedAlways == SchedulersSpread => (Spec => []WorkersListed)
<1> SUFFICES ASSUME SchedulersSpread PROVE Spec => []WorkersListed
  OBVIOUS
<1> DEFINE I == TreeInv /\ ListInv
<1>1. Init => I
  <2> SUFFICES ASSUME Init PROVE I
    OBVIOUS
  <2>1. ListInv
    BY DEF Init, ListInv, Walked, Walks, Listing
  <2> QED
    BY <2>1, InitTreeInv, ProcAssumption
<1>2. I /\ [Next]_vars => I'
  BY ProcAssumption, TreeInvPreserved, ListInvPreserved
<1>3. I => WorkersListed
  BY ListInvSafe
<1> QED
  BY <1>1, <1>2, <1>3, PTL DEF Spec
================================================================================
