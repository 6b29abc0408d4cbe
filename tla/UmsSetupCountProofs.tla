-------------------------- MODULE UmsSetupCountProofs --------------------------
(****************************************************************************)
(* What an application with one creator has built when it starts to schedule: *)
(* identifiers, arrays, queues and counters, for any number of lists and      *)
(* workers and any order of the steps of the creator and the new threads.     *)
(****************************************************************************)
EXTENDS UmsSetupProofs, FiniteSetTheorems, SequenceTheorems

\* main of the example: one thread makes every list once, and every worker.  With two
\* creators the identifiers clash.
OneMain ==
  \E c \in Creator :
    /\ Creator = {c}
    /\ \A i, j \in 1..Len(ListsOf[c]) : ListsOf[c][i] = ListsOf[c][j] => i = j

(****************************************************************************)
(* The inductive invariant.                                                   *)
(****************************************************************************)

CountTypes ==
  /\ id \in [CL -> Int] /\ compl_list_last_id \in Nat /\ compl_list_htable \in Seq(CL)
  /\ wt \in [CL -> Seq(Worker)] /\ clid_list \in [Worker -> Seq(Int)]
  /\ wt_ready_queue \in [CL -> SUBSET Worker]
  /\ threads_ready \in [CL -> Int] /\ nthreads \in [CL -> Int]
  /\ li \in [Creator -> Nat \ {0}] /\ reg \in [Creator -> Int]
  /\ \A w \in Worker : tid[w] \in {None, w}
  /\ wt_htable \subseteq Worker

MakePC == {"init", "init_add", "init_inc"}

HasList ==
  \A c \in Creator : cpc[c] \in {"init_add", "init_inc"} \cup (AddPC \ {"add"}) =>
    li[c] <= Len(ListsOf[c])

\* Lists come before workers
InOrder ==
  \A c \in Creator : /\ cpc[c] \in MakePC => wi[c] = 1
                     /\ cpc[c] = "done" => wi[c] > Len(WorkersOf[c])

\* The table holds the lists made so far
TableHolds ==
  \A c \in Creator : \A l \in CL :
    (\E i \in DOMAIN compl_list_htable : compl_list_htable[i] = l)
    <=> \E j \in 1..Len(ListsOf[c]) :
          /\ ListsOf[c][j] = l
          /\ cpc[c] \in MakePC => j < li[c] \/ (j = li[c] /\ cpc[c] = "init_inc")

\* The next identifier is larger than all in use, but for the list being made
IdsBelow ==
  \A c \in Creator :
    /\ cpc[c] = "init_add" => id[list(c)] = compl_list_last_id
    /\ \A i \in DOMAIN compl_list_htable :
         \/ id[compl_list_htable[i]] < compl_list_last_id
         \/ /\ cpc[c] = "init_inc" /\ i = 1
            /\ id[compl_list_htable[i]] = compl_list_last_id

\* A thread is started once, and its kworker_thread is there before it is added
BornPC == {"wakeparent", "park", "sleep"}

BornInTime ==
  /\ \A w \in wt_htable : wpc[w] \in BornPC
  /\ \A c \in Creator : \A k \in 1..Len(WorkersOf[c]) :
       /\ k > wi[c] \/ (k = wi[c] /\ cpc[c] \in ListPC) => wpc[WorkersOf[c][k]] = "none"
       /\ k < wi[c] \/ (k = wi[c] /\ cpc[c] \in AddPC) => WorkersOf[c][k] \in wt_htable

Base == CountTypes /\ HasList /\ InOrder /\ TableHolds /\ IdsBelow /\ UniqueIds /\ BornInTime

\* The k-th worker of c has been added to its j-th list, up to the points in done
Past(c, k, j, done) ==
  \/ k < wi[c]
  \/ k = wi[c] /\ cpc[c] \in AddPC /\ (j < li[c] \/ (j = li[c] /\ cpc[c] \in done))

\* The workers of c added to l so far
JoinedSo(c, l, done) ==
  {w \in Worker : \E k \in 1..Len(WorkersOf[c]), j \in 1..Len(ListsOf[c]) :
     WorkersOf[c][k] = w /\ ListsOf[c][j] = l /\ Past(c, k, j, done)}

CountedPC == {"nthreads_load", "nthreads_store"}
QueuedPC == {"ready_load", "ready_store"} \cup CountedPC
ClidPC == {"queue"} \cup QueuedPC
ArrayPC == {"clid"} \cup ClidPC
Points == {{}, CountedPC, QueuedPC, ClidPC, ArrayPC}

\* Each of the structures knows the workers added up to its own step, and the
\* register of a counter in flight is up to date
QueueHolds == \A c \in Creator : \A l \in CL : wt_ready_queue[l] = JoinedSo(c, l, QueuedPC)

ReadyHolds ==
  \A c \in Creator :
    /\ \A l \in CL : threads_ready[l] = Cardinality(JoinedSo(c, l, CountedPC))
    /\ cpc[c] = "ready_store" => reg[c] = threads_ready[list(c)]

NthreadsHold ==
  \A c \in Creator :
    /\ \A l \in CL : nthreads[l] = Cardinality(JoinedSo(c, l, {}))
    /\ cpc[c] = "nthreads_store" => reg[c] = nthreads[list(c)]

ClidsHold ==
  \A c \in Creator : \A l \in CL : \A w \in JoinedSo(c, l, ClidPC) :
    \E i \in 1..Len(clid_list[w]) : clid_list[w][i] = id[l]

\* An array holds the workers added to it first, in their order, up to its last place
ArrayHolds ==
  \A c \in Creator : \A l \in CL :
    /\ Len(wt[l]) <= MAX_WT
    /\ \A k \in 1..Len(WorkersOf[c]) :
         WorkersOf[c][k] \in JoinedSo(c, l, ArrayPC) /\ k <= MAX_WT => k <= Len(wt[l])
    /\ \A k \in 1..Len(wt[l]) :
         /\ k <= Len(WorkersOf[c]) /\ wt[l][k] = WorkersOf[c][k]
         /\ WorkersOf[c][k] \in JoinedSo(c, l, ArrayPC)

CountInv == Base /\ QueueHolds /\ ReadyHolds /\ NthreadsHold /\ ClidsHold /\ ArrayHolds

(****************************************************************************)
(* What the operators of the model return, and how a set of workers grows.    *)
(****************************************************************************)

\* The lookup finds the list whose identifier it is given
LEMMA LookupFinds ==
  ASSUME UniqueIds, CountTypes, NEW i \in DOMAIN compl_list_htable
  PROVE  get_kcompletion_list(id[compl_list_htable[i]]) = compl_list_htable[i]
<1> DEFINE Has(k) == id[compl_list_htable[k]] = id[compl_list_htable[i]]
<1>1. \A k \in DOMAIN compl_list_htable : Has(k) <=> k = i
  BY DEF UniqueIds
<1>2. DOMAIN compl_list_htable = 1..Len(compl_list_htable)
  BY DEF CountTypes
<1>3. \A m \in 1..(i - 1) : ~Has(m)
  BY <1>1, <1>2
<1> HIDE DEF Has
<1>4. (CHOOSE k \in DOMAIN compl_list_htable :
         Has(k) /\ \A m \in 1..(k - 1) : ~Has(m)) = i
  BY <1>1, <1>3
<1> QED
  BY <1>4 DEF get_kcompletion_list, Has

LEMMA KclIsList ==
  ASSUME SetupAssumption, Base, NEW c \in Creator, cpc[c] \in AddPC \ {"add"}
  PROVE  kcl(c) = list(c) /\ list(c) \in CL
<1>1. li[c] \in 1..Len(ListsOf[c])
  BY DEF Base, CountTypes, HasList, SetupAssumption
<1>2. list(c) \in CL
  BY <1>1 DEF list, SetupAssumption
<1>3. cpc[c] \notin MakePC
  BY DEF AddPC, MakePC
<1>4. PICK i \in DOMAIN compl_list_htable : compl_list_htable[i] = list(c)
  BY <1>1, <1>2, <1>3 DEF Base, TableHolds, list
<1> QED
  BY <1>2, <1>4, LookupFinds DEF kcl, Base

\* The workers a creator makes
LEMMA AllFinite ==
  ASSUME SetupAssumption, NEW c \in Creator
  PROVE  IsFiniteSet({WorkersOf[c][k] : k \in 1..Len(WorkersOf[c])})
<1> DEFINE T == {WorkersOf[c][k] : k \in 1..Len(WorkersOf[c])}
<1>1. WorkersOf[c] \in Surjection(1..Len(WorkersOf[c]), T)
  <2>1. WorkersOf[c] \in Seq(Worker)
    BY DEF SetupAssumption
  <2>2. WorkersOf[c] \in [1..Len(WorkersOf[c]) -> T]
    BY <2>1
  <2> QED
    BY <2>2 DEF Surjection
<1>2. Len(WorkersOf[c]) \in Nat
  BY DEF SetupAssumption
<1>3. IsFiniteSet(1..Len(WorkersOf[c]))
  BY <1>2, FS_Interval
<1> QED
  BY <1>1, <1>3, FS_Surjection

LEMMA JoinedFinite ==
  ASSUME SetupAssumption, NEW c \in Creator, NEW l, NEW D
  PROVE  IsFiniteSet(JoinedSo(c, l, D)) /\ Cardinality(JoinedSo(c, l, D)) \in Nat
<1>1. JoinedSo(c, l, D) \in SUBSET {WorkersOf[c][k] : k \in 1..Len(WorkersOf[c])}
  BY DEF JoinedSo
<1> QED
  BY <1>1, AllFinite, FS_Subset, FS_CardinalityType

\* A worker that passes the points in D of its list joins it, and nothing else does
LEMMA Joins ==
  ASSUME SetupAssumption, OneMain, NEW c \in Creator,
         wi[c] \in 1..Len(WorkersOf[c]), li[c] \in 1..Len(ListsOf[c]), NEW D,
         cpc[c] \notin D,
         \A k \in 1..Len(WorkersOf[c]), j \in 1..Len(ListsOf[c]) :
           Past(c, k, j, D)' <=> Past(c, k, j, D) \/ (k = wi[c] /\ j = li[c])
  PROVE  /\ worker(c) \in Worker
         /\ \A l \in CL \ {list(c)} : JoinedSo(c, l, D)' = JoinedSo(c, l, D)
         /\ \A l \in CL : l = list(c) =>
              /\ worker(c) \notin JoinedSo(c, l, D)
              /\ JoinedSo(c, l, D)' = JoinedSo(c, l, D) \cup {worker(c)}
              /\ Cardinality(JoinedSo(c, l, D))' = Cardinality(JoinedSo(c, l, D)) + 1
<1>1. /\ worker(c) \in Worker
      /\ \A k \in 1..Len(WorkersOf[c]) : WorkersOf[c][k] = worker(c) => k = wi[c]
  <2>1. worker(c) = WorkersOf[c][wi[c]] /\ worker(c) \in Worker
    BY ParentIsCreator DEF worker
  <2>2. ASSUME NEW k \in 1..Len(WorkersOf[c]), WorkersOf[c][k] = worker(c)
        PROVE  k = wi[c]
    <3>1. WorkersOf[c][k] = WorkersOf[c][wi[c]]
      BY <2>1, <2>2
    <3> HIDE DEF worker
    <3> QED
      BY <3>1 DEF SetupAssumption
  <2> QED
    BY <2>1, <2>2
<1>2. \A j \in 1..Len(ListsOf[c]) : ListsOf[c][j] = list(c) => j = li[c]
  BY DEF list, OneMain
<1>3. ~Past(c, wi[c], li[c], D)
  BY DEF Past, SetupAssumption
<1>4. \A l \in CL \ {list(c)} : JoinedSo(c, l, D)' = JoinedSo(c, l, D)
  BY DEF JoinedSo, list
<1>5. ASSUME NEW l \in CL, l = list(c)
      PROVE  /\ worker(c) \notin JoinedSo(c, l, D)
             /\ JoinedSo(c, l, D)' = JoinedSo(c, l, D) \cup {worker(c)}
             /\ Cardinality(JoinedSo(c, l, D))' = Cardinality(JoinedSo(c, l, D)) + 1
  <2>1. worker(c) \notin JoinedSo(c, l, D)
    BY <1>1, <1>2, <1>3, <1>5 DEF JoinedSo
  <2>2. JoinedSo(c, l, D)' = JoinedSo(c, l, D) \cup {worker(c)}
    BY <1>1, <1>5 DEF JoinedSo, worker, list
  <2>3. Cardinality(JoinedSo(c, l, D) \cup {worker(c)}) = Cardinality(JoinedSo(c, l, D)) + 1
    BY <2>1, JoinedFinite, FS_AddElement
  <2> QED
    BY <2>1, <2>2, <2>3
<1> QED
  BY <1>1, <1>4, <1>5

LEMMA NobodyJoins ==
  ASSUME NEW c \in Creator, NEW D,
         \A k \in 1..Len(WorkersOf[c]), j \in 1..Len(ListsOf[c]) :
           Past(c, k, j, D)' <=> Past(c, k, j, D)
  PROVE  \A l \in CL : JoinedSo(c, l, D)' = JoinedSo(c, l, D)
BY DEF JoinedSo

\* How the actions of ums_completion_list_add pass the points
LEMMA PointFacts ==
  /\ {{}, CountedPC, QueuedPC, ClidPC, ArrayPC} = Points
  /\ \A D \in Points : /\ "add" \notin D
                       /\ "nthreads_load" \in D => "nthreads_store" \in D
                       /\ "ready_load" \in D => "ready_store" \in D
                       /\ "ready_store" \in D => "nthreads_load" \in D
                       /\ "ready_store" \in D => "ready_load" \in D
                       /\ "nthreads_store" \in D => "nthreads_load" \in D
                       /\ "queue" \in D => "ready_load" \in D
                       /\ "clid" \in D => "queue" \in D
                       /\ "clid" \in D => D = ArrayPC
                       /\ "queue" \in D /\ "clid" \notin D => D = ClidPC
                       /\ "ready_load" \in D /\ "queue" \notin D => D = QueuedPC
                       /\ "nthreads_load" \in D /\ "ready_store" \notin D => D = CountedPC
  /\ "clid" \in ArrayPC
  /\ "queue" \in ClidPC /\ "clid" \notin ClidPC
  /\ "ready_load" \in QueuedPC /\ "queue" \notin QueuedPC
  /\ "nthreads_load" \in CountedPC /\ "ready_store" \notin CountedPC
<1>1. Points = {{}, CountedPC, QueuedPC, ClidPC, ArrayPC}
  BY DEF Points
<1>2. /\ ArrayPC = {"clid", "queue", "ready_load", "ready_store", "nthreads_load", "nthreads_store"}
      /\ ClidPC = {"queue", "ready_load", "ready_store", "nthreads_load", "nthreads_store"}
      /\ QueuedPC = {"ready_load", "ready_store", "nthreads_load", "nthreads_store"}
      /\ CountedPC = {"nthreads_load", "nthreads_store"}
  BY DEF ArrayPC, ClidPC, QueuedPC, CountedPC
<1> HIDE DEF ArrayPC, ClidPC, QueuedPC, CountedPC
<1>3. ASSUME NEW D \in Points
      PROVE  /\ "add" \notin D
             /\ "nthreads_load" \in D => "nthreads_store" \in D
             /\ "ready_load" \in D => "ready_store" \in D
             /\ "ready_store" \in D => "nthreads_load" \in D
             /\ "ready_store" \in D => "ready_load" \in D
             /\ "nthreads_store" \in D => "nthreads_load" \in D
             /\ "queue" \in D => "ready_load" \in D
             /\ "clid" \in D => "queue" \in D
             /\ "clid" \in D => D = ArrayPC
             /\ "queue" \in D /\ "clid" \notin D => D = ClidPC
             /\ "ready_load" \in D /\ "queue" \notin D => D = QueuedPC
             /\ "nthreads_load" \in D /\ "ready_store" \notin D => D = CountedPC
  <2>1. CASE D = {}
    BY <2>1
  <2>2. CASE D = CountedPC
    BY <1>2, <2>2
  <2>3. CASE D = QueuedPC
    BY <1>2, <2>3
  <2>4. CASE D = ClidPC
    BY <1>2, <2>4
  <2>5. CASE D = ArrayPC
    BY <1>2, <2>5
  <2> QED
    BY <1>1, <2>1, <2>2, <2>3, <2>4, <2>5
<1>4. /\ "clid" \in ArrayPC
      /\ "queue" \in ClidPC /\ "clid" \notin ClidPC
      /\ "ready_load" \in QueuedPC /\ "queue" \notin QueuedPC
      /\ "nthreads_load" \in CountedPC /\ "ready_store" \notin CountedPC
  BY <1>2
<1> QED
  BY <1>1, <1>3, <1>4

\* A step of ums_completion_list_add within one list
LEMMA PointPassed ==
  ASSUME SetupAssumption, OneMain, SetupInv, Base, NEW c \in Creator, NEW m \in AddPC,
         NEW D \in Points, cpc[c] \in AddPC, li[c] <= Len(ListsOf[c]), Goto(c, m),
         UNCHANGED <<li, wi>>, cpc[c] \in D => m \in D
  PROVE  /\ wi[c] \in 1..Len(WorkersOf[c]) /\ li[c] \in 1..Len(ListsOf[c])
         /\ \A k \in 1..Len(WorkersOf[c]), j \in 1..Len(ListsOf[c]) :
              Past(c, k, j, D)' <=>
                Past(c, k, j, D) \/ (k = wi[c] /\ j = li[c] /\ m \in D)
<1>1. wi[c] \in 1..Len(WorkersOf[c]) /\ li[c] \in 1..Len(ListsOf[c])
  BY DEF SetupInv, HasWorker, BusyPC, Base, CountTypes, SetupAssumption
<1>2. cpc'[c] = m
  BY DEF Goto, SetupInv, Shapes
<1> QED
  BY <1>1, <1>2 DEF Past

\* The next list, and every step that adds nobody
LEMMA NextList ==
  ASSUME SetupAssumption, OneMain, SetupInv, Base, NEW c \in Creator, StoreNthreads(c),
         NEW D \in Points
  PROVE  /\ wi[c] \in 1..Len(WorkersOf[c]) /\ li[c] \in 1..Len(ListsOf[c])
         /\ \A k \in 1..Len(WorkersOf[c]), j \in 1..Len(ListsOf[c]) :
              Past(c, k, j, D)' <=> Past(c, k, j, D) \/ (k = wi[c] /\ j = li[c])
<1>1. cpc[c] = "nthreads_store" /\ cpc'[c] = "add" /\ li'[c] = li[c] + 1 /\ wi' = wi
  BY DEF StoreNthreads, At, Goto, SetupInv, Shapes, Base, CountTypes
<1>2. wi[c] \in 1..Len(WorkersOf[c]) /\ li[c] \in 1..Len(ListsOf[c])
  BY <1>1 DEF SetupInv, HasWorker, BusyPC, AddPC, Base, CountTypes, HasList, SetupAssumption
<1>3. "add" \notin D
  BY PointFacts
<1> QED
  BY <1>1, <1>2, <1>3 DEF Past, AddPC

(****************************************************************************)
(* Base is preserved.                                                         *)
(****************************************************************************)

LEMMA MakeStep ==
  ASSUME SetupAssumption, OneMain, SetupInv, Base, NEW c \in Creator, InitList(c)
  PROVE  Base'
<1> USE DEF Base
<1>1. Creator = {c}
  BY DEF OneMain
<1>2. /\ cpc[c] \in MakePC
      /\ UNCHANGED <<wt, tid, wt_htable, clid_list, wt_ready_queue, threads_ready, nthreads,
                     wi, reg, wpc>>
  BY DEF InitList, ReadLastId, AddList, IncLastId, ListsMade, At, MakePC, libVars, kernelVars
<1>3. ListsOf[c] \in Seq(CL) /\ Len(ListsOf[c]) \in Nat /\ li[c] \in Nat \ {0}
  BY DEF SetupAssumption, CountTypes
<1>4. /\ li[c] <= Len(ListsOf[c]) => list(c) \in CL
      /\ \A j \in 1..Len(ListsOf[c]) : li[c] <= Len(ListsOf[c]) /\ ListsOf[c][j] = list(c)
           => j = li[c]
  BY <1>1, <1>3 DEF list, OneMain
<1>5. wi[c] = 1 /\ cpc' = [cpc EXCEPT ![c] = cpc'[c]]
  BY <1>2 DEF InOrder, InitList, ReadLastId, AddList, IncLastId, ListsMade, Goto, SetupInv, Shapes
<1>6. BornInTime'
  <2>1. cpc[c] \in ListPC /\ cpc'[c] \in ListPC
    BY DEF InitList, ReadLastId, AddList, IncLastId, ListsMade, At, Goto, ListPC, SetupInv, Shapes
  <2>2. cpc[c] \notin AddPC /\ cpc'[c] \notin AddPC
    BY <2>1 DEF ListPC, AddPC
  <2> QED
    BY <1>1, <1>2, <2>1, <2>2 DEF BornInTime
<1>7. CASE ReadLastId(c)
  <2>1. /\ cpc[c] = "init" /\ cpc'[c] = "init_add" /\ li[c] <= Len(ListsOf[c])
        /\ id' = [id EXCEPT ![list(c)] = compl_list_last_id]
        /\ UNCHANGED <<compl_list_last_id, compl_list_htable, li>>
    BY <1>7 DEF ReadLastId, At, Goto, kernelVars, SetupInv, Shapes
  <2>2. \A i \in DOMAIN compl_list_htable : compl_list_htable[i] # list(c)
    <3> SUFFICES ASSUME NEW i \in DOMAIN compl_list_htable, compl_list_htable[i] = list(c)
                 PROVE  FALSE
      OBVIOUS
    <3>1. PICK j \in 1..Len(ListsOf[c]) : ListsOf[c][j] = list(c) /\ j < li[c]
      BY <1>4, <2>1 DEF TableHolds, MakePC
    <3> QED
      BY <1>3, <1>4, <2>1, <3>1
  <2>3. \A i \in DOMAIN compl_list_htable :
          /\ compl_list_htable[i] \in CL
          /\ id'[compl_list_htable[i]] = id[compl_list_htable[i]]
    BY <2>1, <2>2 DEF CountTypes
  <2>4. CountTypes'
    BY <1>2, <1>4, <2>1 DEF CountTypes
  <2>5. HasList' /\ InOrder'
    BY <1>1, <1>2, <1>5, <2>1 DEF HasList, InOrder
  <2>6. TableHolds'
    BY <1>1, <2>1 DEF TableHolds, MakePC
  <2>7. IdsBelow' /\ UniqueIds'
    <3>1. list(c)' = list(c) /\ id'[list(c)] = compl_list_last_id
      BY <1>4, <2>1 DEF list, CountTypes
    <3> QED
      BY <1>1, <2>1, <2>3, <3>1 DEF IdsBelow, UniqueIds
  <2> QED
    BY <1>6, <2>4, <2>5, <2>6, <2>7
<1>8. CASE AddList(c)
  <2>1. /\ cpc[c] = "init_add" /\ cpc'[c] = "init_inc" /\ li[c] <= Len(ListsOf[c])
        /\ compl_list_htable' = <<list(c)>> \o compl_list_htable
        /\ UNCHANGED <<compl_list_last_id, id, li>>
    BY <1>8 DEF AddList, At, Goto, libVars, SetupInv, Shapes, HasList
  <2>2. /\ compl_list_htable' \in Seq(CL)
        /\ DOMAIN compl_list_htable = 1..Len(compl_list_htable)
        /\ Len(compl_list_htable) \in Nat
        /\ DOMAIN compl_list_htable' = 1..(Len(compl_list_htable) + 1)
        /\ compl_list_htable'[1] = list(c)
        /\ \A i \in 2..(Len(compl_list_htable) + 1) :
             /\ i - 1 \in 1..Len(compl_list_htable)
             /\ compl_list_htable'[i] = compl_list_htable[i - 1]
        /\ \A i \in 1..Len(compl_list_htable) :
             /\ i + 1 \in 2..(Len(compl_list_htable) + 1)
             /\ compl_list_htable'[i + 1] = compl_list_htable[i]
    BY <1>4, <2>1 DEF CountTypes
  <2>3. CountTypes'
    BY <1>2, <2>1, <2>2 DEF CountTypes
  <2>4. HasList' /\ InOrder'
    BY <1>1, <1>2, <1>5, <2>1 DEF HasList, InOrder
  <2>5. TableHolds'
    <3> SUFFICES ASSUME NEW l \in CL
                 PROVE  (\E i \in DOMAIN compl_list_htable' : compl_list_htable'[i] = l)
                        <=> \E j \in 1..Len(ListsOf[c]) :
                              ListsOf[c][j] = l /\ (j < li[c] \/ j = li[c])
      BY <1>1, <2>1 DEF TableHolds, MakePC
    <3>1. (\E i \in DOMAIN compl_list_htable' : compl_list_htable'[i] = l)
          <=> l = list(c) \/ \E i \in DOMAIN compl_list_htable : compl_list_htable[i] = l
      <4>1. ASSUME NEW i \in DOMAIN compl_list_htable', compl_list_htable'[i] = l
            PROVE  l = list(c) \/ \E k \in DOMAIN compl_list_htable : compl_list_htable[k] = l
        <5>1. CASE i = 1
          BY <2>2, <4>1, <5>1
        <5>2. CASE i \in 2..(Len(compl_list_htable) + 1)
          BY <2>2, <4>1, <5>2
        <5> QED
          BY <2>2, <5>1, <5>2
      <4>2. l = list(c) => \E i \in DOMAIN compl_list_htable' : compl_list_htable'[i] = l
        <5>1. 1 \in DOMAIN compl_list_htable'
          BY <2>2
        <5> QED
          BY <2>2, <5>1
      <4>3. ASSUME NEW i \in DOMAIN compl_list_htable, compl_list_htable[i] = l
            PROVE  \E k \in DOMAIN compl_list_htable' : compl_list_htable'[k] = l
        <5>1. i + 1 \in DOMAIN compl_list_htable' /\ compl_list_htable'[i + 1] = l
          BY <2>2, <4>3
        <5> QED
          BY <5>1
      <4> QED
        BY <4>1, <4>2, <4>3
    <3>2. (\E i \in DOMAIN compl_list_htable : compl_list_htable[i] = l)
          <=> \E j \in 1..Len(ListsOf[c]) : ListsOf[c][j] = l /\ j < li[c]
      BY <2>1 DEF TableHolds, MakePC
    <3>3. li[c] \in 1..Len(ListsOf[c]) /\ ListsOf[c][li[c]] = list(c)
      BY <1>3, <2>1 DEF list
    <3> QED
      BY <1>4, <2>1, <3>1, <3>2, <3>3
  <2>6. \A i \in DOMAIN compl_list_htable : id[compl_list_htable[i]] < compl_list_last_id
    BY <2>1 DEF IdsBelow
  <2>7. \A i \in DOMAIN compl_list_htable' :
          IF i = 1 THEN id'[compl_list_htable'[i]] = compl_list_last_id
                   ELSE /\ i - 1 \in DOMAIN compl_list_htable
                        /\ compl_list_htable'[i] = compl_list_htable[i - 1]
                        /\ id'[compl_list_htable'[i]] < compl_list_last_id
    <3>1. id[list(c)] = compl_list_last_id
      BY <2>1 DEF IdsBelow
    <3> QED
      BY <2>1, <2>2, <2>6, <3>1
  <2>8. IdsBelow'
    BY <1>1, <2>1, <2>7 DEF IdsBelow
  <2>9. UniqueIds'
    <3> SUFFICES ASSUME NEW i \in DOMAIN compl_list_htable', NEW j \in DOMAIN compl_list_htable',
                        id'[compl_list_htable'[i]] = id'[compl_list_htable'[j]]
                 PROVE  i = j
      BY DEF UniqueIds
    <3>1. CASE i = 1 \/ j = 1
      <4>1. ASSUME NEW k \in DOMAIN compl_list_htable',
                   id'[compl_list_htable'[k]] = compl_list_last_id
            PROVE  k = 1
        <5>1. ~(compl_list_last_id < compl_list_last_id)
          BY DEF CountTypes
        <5> QED
          BY <2>7, <4>1, <5>1
      <4> QED
        BY <2>7, <3>1, <4>1
    <3>2. CASE i # 1 /\ j # 1
      <4>1. i - 1 = j - 1
        BY <2>1, <2>7, <3>2 DEF UniqueIds
      <4> QED
        BY <2>2, <4>1
    <3> QED
      BY <3>1, <3>2
  <2> QED
    BY <1>6, <2>3, <2>4, <2>5, <2>8, <2>9
<1>9. CASE IncLastId(c)
  <2>1. /\ cpc[c] = "init_inc" /\ cpc'[c] = "init" /\ li[c] <= Len(ListsOf[c])
        /\ compl_list_last_id' = compl_list_last_id + 1
        /\ li' = [li EXCEPT ![c] = @ + 1] /\ li'[c] = li[c] + 1
        /\ UNCHANGED <<compl_list_htable, id>>
    BY <1>9 DEF IncLastId, At, Goto, libVars, SetupInv, Shapes, HasList, CountTypes
  <2>2. CountTypes'
    BY <1>2, <2>1 DEF CountTypes
  <2>3. HasList' /\ InOrder'
    BY <1>1, <1>2, <1>5, <2>1 DEF HasList, InOrder, AddPC
  <2>4. TableHolds'
    <3>1. \A j \in 1..Len(ListsOf[c]) : j < li'[c] <=> j < li[c] \/ j = li[c]
      BY <1>3, <2>1
    <3> QED
      BY <1>1, <2>1, <3>1 DEF TableHolds, MakePC
  <2>5. IdsBelow' /\ UniqueIds'
    <3>1. \A i \in DOMAIN compl_list_htable :
            id[compl_list_htable[i]] < compl_list_last_id + 1
      <4> SUFFICES ASSUME NEW i \in DOMAIN compl_list_htable
                   PROVE  id[compl_list_htable[i]] < compl_list_last_id + 1
        OBVIOUS
      <4>1. compl_list_htable[i] \in CL
        BY DEF CountTypes
      <4>2. id[compl_list_htable[i]] \in Int /\ compl_list_last_id \in Nat
        BY <4>1 DEF CountTypes
      <4>3. \/ id[compl_list_htable[i]] < compl_list_last_id
            \/ id[compl_list_htable[i]] = compl_list_last_id
        BY DEF IdsBelow
      <4> QED
        BY <4>2, <4>3
    <3> QED
      BY <1>1, <2>1, <3>1 DEF IdsBelow, UniqueIds
  <2> QED
    BY <1>6, <2>2, <2>3, <2>4, <2>5
<1>10. CASE ListsMade(c)
  <2>1. /\ cpc[c] = "init" /\ cpc'[c] = "create" /\ li[c] > Len(ListsOf[c])
        /\ UNCHANGED <<compl_list_last_id, compl_list_htable, id, li>>
    BY <1>10 DEF ListsMade, At, Goto, libVars, kernelVars, SetupInv, Shapes
  <2>2. CountTypes' /\ UniqueIds' /\ IdsBelow'
    BY <1>1, <1>2, <2>1 DEF CountTypes, UniqueIds, IdsBelow
  <2>3. HasList' /\ InOrder'
    BY <1>1, <2>1 DEF HasList, InOrder, AddPC, MakePC
  <2>4. TableHolds'
    <3>1. \A j \in 1..Len(ListsOf[c]) : j < li[c]
      BY <1>3, <2>1
    <3> QED
      BY <1>1, <2>1, <3>1 DEF TableHolds, MakePC
  <2> QED
    BY <1>6, <2>2, <2>3, <2>4
<1> QED
  BY <1>7, <1>8, <1>9, <1>10 DEF InitList

\* Once the lists are made the table stays as it is
LEMMA TableKept ==
  ASSUME TableHolds, IdsBelow, UniqueIds,
         UNCHANGED <<id, compl_list_last_id, compl_list_htable>>,
         \A c \in Creator : cpc[c] \notin MakePC /\ cpc'[c] \notin MakePC
  PROVE  TableHolds' /\ IdsBelow' /\ UniqueIds'
<1>1. TableHolds'
  BY DEF TableHolds
<1>2. IdsBelow'
  BY DEF IdsBelow, MakePC
<1>3. UniqueIds'
  BY DEF UniqueIds
<1> QED
  BY <1>1, <1>2, <1>3

LEMMA CreateStep ==
  ASSUME SetupAssumption, OneMain, SetupInv, Base, NEW c \in Creator,
         CreateWorker(c) \/ WakeSpuriously(c)
  PROVE  Base'
<1> USE DEF Base
<1>1. Creator = {c}
  BY DEF OneMain
<1>2. /\ UNCHANGED <<id, wt, kernelVars, wi, reg>>
      /\ cpc[c] \in {"create"} \cup FramePC /\ cpc'[c] \in {"add"} \cup FramePC
      /\ cpc'[c] = "add" \/ UNCHANGED li
      /\ cpc'[c] = "add" => cpc[c] = "found" /\ kwt[c]
      /\ li' \in [Creator -> Nat \ {0}]
  <2>1. CASE TestCreated(c)
    <3>1. UNCHANGED <<id, wt, kernelVars, wi, reg>> /\ cpc[c] = "found"
      BY <2>1 DEF TestCreated, At, libVars
    <3>2. \/ cpc'[c] = "add" /\ kwt[c] /\ li' = [li EXCEPT ![c] = 1]
          \/ cpc'[c] = "asleep" /\ UNCHANGED li
      BY <2>1 DEF TestCreated, Goto, SetupInv, Shapes
    <3> QED
      BY <3>1, <3>2 DEF CountTypes, FramePC
  <2>2. CASE WakeSpuriously(c)
    BY <2>2 DEF WakeSpuriously, At, FramePC, CountTypes
  <2>3. CASE ~TestCreated(c) /\ ~WakeSpuriously(c)
    <3>1. /\ UNCHANGED <<id, wt, kernelVars, wi, reg, li>>
          /\ cpc[c] \in {"create"} \cup FramePC
      BY <2>3 DEF CreateWorker, StartThread, LockFrame, TestTid, DestroyCond, FirstLookup,
         SetTaskState, CreatorWoken, NextLookup, At, FramePC, libVars
    <3>2. PICK m \in FramePC : Goto(c, m)
      BY <2>3 DEF CreateWorker, StartThread, LockFrame, TestTid, DestroyCond, FirstLookup,
         SetTaskState, CreatorWoken, NextLookup, FramePC
    <3>3. cpc'[c] = m /\ m # "add"
      BY <3>2 DEF Goto, SetupInv, Shapes, FramePC
    <3> QED
      BY <3>1, <3>3 DEF CountTypes
  <2> QED
    BY <2>1, <2>2, <2>3
<1>3. wi[c] \in 1..Len(WorkersOf[c])
  <2>1. CASE StartThread(c)
    BY <2>1 DEF StartThread, SetupInv, Shapes, SetupAssumption
  <2>2. CASE ~StartThread(c)
    BY <1>2, <2>2 DEF CreateWorker, LockFrame, TestTid, DestroyCond, FirstLookup, SetTaskState,
       TestCreated, CreatorWoken, NextLookup, WakeSpuriously, At, SetupInv, HasWorker, BusyPC,
       FramePC
  <2> QED
    BY <2>1, <2>2
<1>4. worker(c) \in Worker
  BY <1>3, ParentIsCreator
<1>5. CountTypes'
  <2>1. UNCHANGED tid \/ tid' = [tid EXCEPT ![worker(c)] = None]
    BY DEF CreateWorker, StartThread, LockFrame, TestTid, DestroyCond, FirstLookup, SetTaskState,
       TestCreated, CreatorWoken, NextLookup, WakeSpuriously, libVars
  <2>2. \A w \in Worker : tid'[w] \in {None, w}
    BY <2>1 DEF CountTypes, SetupInv, Shapes
  <2> QED
    BY <1>2, <2>2 DEF CountTypes, kernelVars
<1>6. HasList' /\ InOrder'
  BY <1>1, <1>2 DEF HasList, InOrder, AddPC, MakePC, FramePC
<1>7. TableHolds' /\ IdsBelow' /\ UniqueIds'
  BY <1>1, <1>2, TableKept DEF MakePC, FramePC, kernelVars
<1>8. BornInTime'
  <2>1. cpc'[c] \notin ListPC /\ cpc[c] \notin AddPC
    BY <1>2 DEF ListPC, AddPC, FramePC
  <2>2. /\ wpc' = [wpc EXCEPT ![worker(c)] = wpc'[worker(c)]]
        /\ UNCHANGED wpc \/ cpc[c] = "create"
    BY DEF CreateWorker, StartThread, LockFrame, TestTid, DestroyCond, FirstLookup, SetTaskState,
       TestCreated, CreatorWoken, NextLookup, WakeSpuriously, At, SetupInv, Shapes
  <2>3. \A w \in wt_htable : wpc'[w] \in BornPC
    <3> SUFFICES ASSUME NEW w \in wt_htable, cpc[c] = "create" PROVE wpc'[w] \in BornPC
      BY <2>2 DEF BornInTime
    <3>1. wpc[worker(c)] = "none"
      BY <1>3 DEF BornInTime, ListPC, worker
    <3>2. w # worker(c) /\ w \in Worker
      BY <3>1 DEF BornInTime, BornPC, CountTypes
    <3> QED
      BY <2>2, <3>2 DEF BornInTime, SetupInv, Shapes
  <2>4. ASSUME NEW k \in 1..Len(WorkersOf[c]), k > wi[c]
        PROVE  wpc'[WorkersOf[c][k]] = "none"
    <3>1. WorkersOf[c][k] \in Worker /\ WorkersOf[c][k] # worker(c)
      BY <1>3, <2>4 DEF SetupAssumption, worker
    <3> QED
      BY <2>2, <2>4, <3>1 DEF BornInTime, SetupInv, Shapes
  <2>5. ASSUME NEW k \in 1..Len(WorkersOf[c]), k < wi[c] \/ (k = wi[c] /\ cpc'[c] = "add")
        PROVE  WorkersOf[c][k] \in wt_htable
    <3>1. CASE k < wi[c]
      BY <3>1 DEF BornInTime
    <3>2. CASE k = wi[c] /\ cpc'[c] = "add"
      <4>1. tid[worker(c)] \in wt_htable
        BY <1>2, <3>2 DEF SetupInv, FoundStays, Found
      <4>2. tid[worker(c)] = worker(c)
        BY <1>4, <4>1 DEF CountTypes, SetupAssumption
      <4> QED
        BY <3>2, <4>1, <4>2 DEF worker
    <3> QED
      BY <2>5, <3>1, <3>2
  <2>6. cpc'[c] \in AddPC => cpc'[c] = "add"
    BY <1>2 DEF AddPC, FramePC
  <2> QED
    BY <1>1, <1>2, <2>1, <2>3, <2>4, <2>5, <2>6 DEF BornInTime, kernelVars
<1> QED
  BY <1>5, <1>6, <1>7, <1>8

LEMMA AddStep ==
  ASSUME SetupAssumption, OneMain, SetupInv, Base, NEW c \in Creator, AddWorker(c)
  PROVE  Base'
<1> USE DEF Base
<1>1. Creator = {c}
  BY DEF OneMain
<1>2. /\ UNCHANGED <<id, tid, compl_list_last_id, compl_list_htable, wt_htable, wpc>>
      /\ cpc' = [cpc EXCEPT ![c] = cpc'[c]]
      /\ cpc[c] \in AddPC \cup {"create"} /\ cpc'[c] \in AddPC \cup {"create", "done"}
  BY DEF AddWorker, AddToArray, AddClid, AddElement, Load, StoreReady, StoreNthreads,
     WorkerAdded, WorkersMade, At, Goto, AddPC, libVars, kernelVars, SetupInv, Shapes
<1>3. /\ cpc[c] \in AddPC => worker(c) \in Worker /\ wi[c] \in 1..Len(WorkersOf[c])
      /\ cpc[c] \in AddPC /\ li[c] <= Len(ListsOf[c]) => list(c) \in CL
      /\ cpc[c] \in AddPC \ {"add"} => kcl(c) = list(c) /\ list(c) \in CL
  <2>1. cpc[c] \in AddPC => wi[c] \in 1..Len(WorkersOf[c])
    BY DEF SetupInv, HasWorker, BusyPC
  <2>2. li[c] <= Len(ListsOf[c]) => list(c) \in CL
    BY DEF list, SetupAssumption, CountTypes
  <2> QED
    BY <2>1, <2>2, ParentIsCreator, KclIsList
<1>4. CountTypes'
  <2>1. CASE AddToArray(c)
    <3>1. /\ list(c) \in CL /\ worker(c) \in Worker
          /\ UNCHANGED <<clid_list, wt_ready_queue, threads_ready, nthreads, li, reg>>
      BY <1>3, <2>1 DEF AddToArray, At, AddPC, kernelVars
    <3>2. wt' \in [CL -> Seq(Worker)]
      BY <2>1, <3>1 DEF AddToArray, CountTypes
    <3> QED
      BY <1>2, <3>1, <3>2 DEF CountTypes
  <2>2. CASE AddClid(c)
    <3>1. /\ list(c) \in CL /\ worker(c) \in Worker
          /\ UNCHANGED <<wt, wt_ready_queue, threads_ready, nthreads, li, reg>>
      BY <1>3, <2>2 DEF AddClid, At, AddPC, libVars
    <3>2. clid_list' \in [Worker -> Seq(Int)]
      BY <2>2, <3>1 DEF AddClid, CountTypes
    <3> QED
      BY <1>2, <3>1, <3>2 DEF CountTypes
  <2>3. CASE AddElement(c)
    BY <1>2, <1>3, <2>3 DEF AddElement, At, AddPC, libVars, CountTypes
  <2>4. CASE \/ Load(c, threads_ready, "ready_load", "ready_store")
             \/ Load(c, nthreads, "nthreads_load", "nthreads_store")
    <3>1. kcl(c) \in CL
      BY <1>3, <2>4 DEF Load, At, AddPC
    <3>2. /\ reg' \in [Creator -> Int]
          /\ UNCHANGED <<wt, clid_list, wt_ready_queue, threads_ready, nthreads, li>>
      BY <2>4, <3>1 DEF Load, CountTypes, libVars, kernelVars
    <3> QED
      BY <1>2, <3>2 DEF CountTypes
  <2>5. CASE StoreReady(c)
    <3>1. kcl(c) \in CL /\ reg[c] + 1 \in Int
      BY <1>3, <2>5 DEF StoreReady, At, AddPC, CountTypes
    <3>2. /\ threads_ready' \in [CL -> Int] /\ li' \in [Creator -> Nat \ {0}]
          /\ UNCHANGED <<wt, clid_list, wt_ready_queue, nthreads, reg>>
      BY <2>5, <3>1 DEF StoreReady, CountTypes, libVars
    <3> QED
      BY <1>2, <3>2 DEF CountTypes
  <2>6. CASE StoreNthreads(c)
    <3>1. kcl(c) \in CL /\ reg[c] + 1 \in Int
      BY <1>3, <2>6 DEF StoreNthreads, At, AddPC, CountTypes
    <3>2. /\ nthreads' \in [CL -> Int] /\ li' \in [Creator -> Nat \ {0}]
          /\ UNCHANGED <<wt, clid_list, wt_ready_queue, threads_ready, reg>>
      BY <2>6, <3>1 DEF StoreNthreads, CountTypes, libVars
    <3> QED
      BY <1>2, <3>2 DEF CountTypes
  <2>7. CASE WorkerAdded(c) \/ WorkersMade(c)
    BY <1>2, <2>7 DEF WorkerAdded, WorkersMade, libVars, kernelVars, CountTypes
  <2> QED
    BY <2>1, <2>2, <2>3, <2>4, <2>5, <2>6, <2>7 DEF AddWorker
<1>5. HasList'
  <2>1. cpc'[c] \in AddPC \ {"add"} => li'[c] = li[c] /\ li[c] <= Len(ListsOf[c])
    BY DEF AddWorker, AddToArray, AddClid, AddElement, Load, StoreReady, StoreNthreads,
       WorkerAdded, WorkersMade, At, Goto, AddPC, SetupInv, Shapes, HasList
  <2> QED
    BY <1>1, <1>2, <2>1 DEF HasList, AddPC
<1>6. InOrder'
  <2>1. cpc'[c] = "done" => wi'[c] = wi[c] /\ wi[c] > Len(WorkersOf[c])
    BY DEF AddWorker, AddToArray, AddClid, AddElement, Load, StoreReady, StoreNthreads,
       WorkerAdded, WorkersMade, Goto, SetupInv, Shapes
  <2> QED
    BY <1>1, <1>2, <2>1 DEF InOrder, MakePC, AddPC
<1>7. TableHolds' /\ IdsBelow' /\ UniqueIds'
  BY <1>1, <1>2, TableKept DEF MakePC, AddPC
<1>8. BornInTime'
  <2>1. CASE WorkerAdded(c)
    <3>1. cpc[c] = "add" /\ cpc'[c] = "create" /\ wi'[c] = wi[c] + 1
      BY <2>1 DEF WorkerAdded, At, Goto, SetupInv, Shapes
    <3>2. wi[c] \in Nat
      BY DEF SetupInv, Shapes
    <3>3. ASSUME NEW k \in 1..Len(WorkersOf[c])
          PROVE  /\ k > wi[c] + 1 \/ k = wi[c] + 1 => wpc[WorkersOf[c][k]] = "none"
                 /\ k < wi[c] + 1 => WorkersOf[c][k] \in wt_htable
      <4>1. k \in Int
        OBVIOUS
      <4>2. /\ k > wi[c] + 1 \/ k = wi[c] + 1 => k > wi[c]
            /\ k < wi[c] + 1 => k < wi[c] \/ k = wi[c]
        BY <3>2, <4>1
      <4> QED
        BY <3>1, <4>2 DEF BornInTime, AddPC
    <3> QED
      BY <1>1, <1>2, <3>1, <3>3 DEF BornInTime, AddPC
  <2>2. CASE ~WorkerAdded(c)
    <3>1. /\ UNCHANGED wi
          /\ (cpc[c] \in AddPC) <=> (cpc'[c] \in AddPC)
          /\ (cpc[c] \in ListPC) <=> (cpc'[c] \in ListPC)
      BY <2>2 DEF AddWorker, AddToArray, AddClid, AddElement, Load, StoreReady, StoreNthreads,
         WorkersMade, At, Goto, AddPC, ListPC, SetupInv, Shapes
    <3> QED
      BY <1>1, <1>2, <3>1 DEF BornInTime
  <2> QED
    BY <2>1, <2>2
<1> QED
  BY <1>4, <1>5, <1>6, <1>7, <1>8

LEMMA ThreadStep ==
  ASSUME SetupAssumption, OneMain, SetupInv, Base, NEW w \in Worker, WorkerStep(w)
  PROVE  Base'
<1> USE DEF Base
<1>1. /\ UNCHANGED <<id, wt, compl_list_last_id, compl_list_htable, wt_ready_queue,
                     threads_ready, nthreads, cpc, li, wi, reg>>
      /\ wpc' = [wpc EXCEPT ![w] = wpc'[w]] /\ wpc[w] # "none"
      /\ \/ wpc'[w] \in BornPC /\ wt_htable' = wt_htable \cup {w}
         \/ UNCHANGED wt_htable /\ (wpc'[w] \in BornPC \/ wpc[w] \notin BornPC)
      /\ clid_list' \in [Worker -> Seq(Int)]
  <2>1. CASE CreateKworker(w)
    <3>1. clid_list' \in [Worker -> Seq(Int)]
      <4>1. <<>> \in Seq(Int)
        OBVIOUS
      <4> QED
        BY <2>1, <4>1 DEF CreateKworker, CountTypes
    <3> QED
      BY <2>1, <3>1 DEF CreateKworker, WAt, WGoto, BornPC, libVars, SetupInv, Shapes
  <2>2. CASE ~CreateKworker(w)
    <3>1. /\ UNCHANGED <<id, wt, kernelVars, cpc, li, wi, reg>> /\ wpc[w] # "none"
          /\ wpc' = [wpc EXCEPT ![w] = wpc'[w]]
      BY <2>2 DEF WorkerStep, LockParentFrame, SetTid, SignalParent, UnlockParentFrame,
         WakeParent, Park, WAt, WGoto, libVars, SetupInv, Shapes
    <3>2. wpc'[w] \in BornPC \/ wpc[w] \notin BornPC
      BY <2>2 DEF WorkerStep, LockParentFrame, SetTid, SignalParent, UnlockParentFrame,
         WakeParent, Park, WAt, WGoto, BornPC, SetupInv, Shapes
    <3> QED
      BY <3>1, <3>2 DEF kernelVars, CountTypes
  <2> QED
    BY <2>1, <2>2
<1>2. CountTypes'
  <2>1. UNCHANGED tid \/ tid' = [tid EXCEPT ![w] = w]
    BY DEF WorkerStep, LockParentFrame, SetTid, SignalParent, UnlockParentFrame, CreateKworker,
       WakeParent, Park, libVars
  <2>2. \A v \in Worker : tid'[v] \in {None, v}
    BY <2>1 DEF CountTypes, SetupInv, Shapes
  <2> QED
    BY <1>1, <2>2 DEF CountTypes
<1>3. HasList' /\ InOrder'
  BY <1>1 DEF HasList, InOrder, list
<1>4. TableHolds' /\ IdsBelow' /\ UniqueIds'
  BY <1>1 DEF TableHolds, IdsBelow, UniqueIds, list
<1>5. BornInTime'
  <2>1. \A v \in wt_htable' : wpc'[v] \in BornPC
    <3> SUFFICES ASSUME NEW v \in wt_htable' PROVE wpc'[v] \in BornPC
      OBVIOUS
    <3>1. v \in wt_htable => v \in Worker /\ wpc[v] \in BornPC
      BY DEF BornInTime, CountTypes
    <3>2. v \in Worker
      BY <1>1, <3>1
    <3>3. wpc'[v] = IF v = w THEN wpc'[w] ELSE wpc[v]
      BY <1>1, <3>2 DEF SetupInv, Shapes
    <3> QED
      BY <1>1, <3>1, <3>3
  <2>2. \A v \in Worker : wpc[v] = "none" => wpc'[v] = "none"
    BY <1>1 DEF SetupInv, Shapes
  <2>3. \A c \in Creator : \A k \in 1..Len(WorkersOf[c]) : WorkersOf[c][k] \in Worker
    BY DEF SetupAssumption
  <2> QED
    BY <1>1, <2>1, <2>2, <2>3 DEF BornInTime
<1> QED
  BY <1>2, <1>3, <1>4, <1>5

(****************************************************************************)
(* The structures keep up with the workers that join.                         *)
(****************************************************************************)

\* The worker of c joins its list, with respect to the points in D
Joining(c, D) ==
  /\ \A l \in CL \ {list(c)} : JoinedSo(c, l, D)' = JoinedSo(c, l, D)
  /\ \A l \in CL : l = list(c) =>
       /\ worker(c) \notin JoinedSo(c, l, D)
       /\ JoinedSo(c, l, D)' = JoinedSo(c, l, D) \cup {worker(c)}
       /\ Cardinality(JoinedSo(c, l, D))' = Cardinality(JoinedSo(c, l, D)) + 1

Staying(c, D) == \A l \in CL : JoinedSo(c, l, D)' = JoinedSo(c, l, D)

LEMMA Moves ==
  ASSUME SetupAssumption, OneMain, SetupInv, Base, NEW c \in Creator, NEW m \in AddPC,
         NEW D \in Points, cpc[c] \in AddPC, li[c] <= Len(ListsOf[c]), Goto(c, m),
         UNCHANGED <<li, wi>>, cpc[c] \in D => m \in D
  PROVE  /\ m \in D /\ cpc[c] \notin D => Joining(c, D)
         /\ (m \in D => cpc[c] \in D) => Staying(c, D)
<1>1. /\ wi[c] \in 1..Len(WorkersOf[c]) /\ li[c] \in 1..Len(ListsOf[c])
      /\ \A k \in 1..Len(WorkersOf[c]), j \in 1..Len(ListsOf[c]) :
           Past(c, k, j, D)' <=> Past(c, k, j, D) \/ (k = wi[c] /\ j = li[c] /\ m \in D)
  BY PointPassed
<1>2. CASE m \in D /\ cpc[c] \notin D
  BY <1>1, <1>2, Joins DEF Joining
<1>3. CASE m \in D => cpc[c] \in D
  <2>1. \A k \in 1..Len(WorkersOf[c]), j \in 1..Len(ListsOf[c]) :
          Past(c, k, j, D)' <=> Past(c, k, j, D)
    BY <1>1, <1>3 DEF Past
  <2> QED
    BY <1>3, <2>1, NobodyJoins DEF Staying
<1> QED
  BY <1>2, <1>3

\* A step at which nobody joins, and which changes no structure
LEMMA Quiet ==
  ASSUME OneMain, CountInv, NEW c \in Creator, \A D \in Points : Staying(c, D),
         UNCHANGED <<wt, wt_ready_queue, threads_ready, nthreads>>,
         cpc'[c] \in {"ready_store", "nthreads_store"} =>
           cpc'[c] = cpc[c] /\ UNCHANGED <<reg, li>>,
         \A l \in CL : \A w \in JoinedSo(c, l, ClidPC) :
           id'[l] = id[l] /\ clid_list'[w] = clid_list[w]
  PROVE  QueueHolds' /\ ReadyHolds' /\ NthreadsHold' /\ ClidsHold' /\ ArrayHolds'
<1>1. Creator = {c}
  BY DEF OneMain
<1>2. /\ \A l \in CL : JoinedSo(c, l, QueuedPC)' = JoinedSo(c, l, QueuedPC)
      /\ \A l \in CL : JoinedSo(c, l, CountedPC)' = JoinedSo(c, l, CountedPC)
      /\ \A l \in CL : JoinedSo(c, l, {})' = JoinedSo(c, l, {})
      /\ \A l \in CL : JoinedSo(c, l, ClidPC)' = JoinedSo(c, l, ClidPC)
      /\ \A l \in CL : JoinedSo(c, l, ArrayPC)' = JoinedSo(c, l, ArrayPC)
  BY DEF Points, Staying
<1>3. QueueHolds'
  BY <1>1, <1>2 DEF CountInv, QueueHolds
<1>4. ReadyHolds'
  <2>1. cpc'[c] = "ready_store" => reg'[c] = threads_ready'[list(c)']
    BY DEF CountInv, ReadyHolds, list
  <2> QED
    BY <1>1, <1>2, <2>1 DEF CountInv, ReadyHolds
<1>5. NthreadsHold'
  <2>1. cpc'[c] = "nthreads_store" => reg'[c] = nthreads'[list(c)']
    BY DEF CountInv, NthreadsHold, list
  <2> QED
    BY <1>1, <1>2, <2>1 DEF CountInv, NthreadsHold
<1>6. ClidsHold'
  <2> SUFFICES ASSUME NEW l \in CL, NEW w \in JoinedSo(c, l, ClidPC)
               PROVE  \E i \in 1..Len(clid_list'[w]) : clid_list'[w][i] = id'[l]
    BY <1>1, <1>2 DEF ClidsHold
  <2> QED
    BY DEF CountInv, ClidsHold
<1>7. ArrayHolds'
  BY <1>1, <1>2 DEF CountInv, ArrayHolds
<1> QED
  BY <1>3, <1>4, <1>5, <1>6, <1>7

LEMMA QuietCreator ==
  ASSUME SetupAssumption, OneMain, SetupInv, CountInv, NEW c \in Creator,
         \/ InitList(c) \/ CreateWorker(c) \/ WakeSpuriously(c) \/ WorkerAdded(c)
         \/ WorkersMade(c)
  PROVE  CountInv'
<1> USE DEF CountInv
<1>1. Base'
  BY MakeStep, CreateStep, AddStep DEF AddWorker
<1>2. UNCHANGED <<wt, wt_ready_queue, threads_ready, nthreads, clid_list>>
  BY DEF InitList, ReadLastId, AddList, IncLastId, ListsMade, CreateWorker, StartThread, LockFrame,
     TestTid, DestroyCond, FirstLookup, SetTaskState, TestCreated, CreatorWoken, NextLookup,
     WakeSpuriously, WorkerAdded, WorkersMade, libVars, kernelVars
<1>3. /\ \/ cpc[c] \notin AddPC /\ wi' = wi
         \/ cpc[c] = "add" /\ WorkerAdded(c)
      /\ \/ cpc'[c] \notin AddPC
         \/ cpc'[c] = "add" /\ li'[c] = 1 /\ wi' = wi
  <2>1. CASE InitList(c)
    BY <2>1 DEF InitList, ReadLastId, AddList, IncLastId, ListsMade, At, Goto, AddPC, SetupInv,
       Shapes
  <2>2. CASE TestCreated(c)
    BY <2>2 DEF TestCreated, At, Goto, AddPC, SetupInv, Shapes, Base, CountTypes
  <2>3. CASE CreateWorker(c) /\ ~TestCreated(c)
    BY <2>3 DEF CreateWorker, StartThread, LockFrame, TestTid, DestroyCond, FirstLookup,
       SetTaskState, CreatorWoken, NextLookup, At, Goto, AddPC, SetupInv, Shapes
  <2>4. CASE WakeSpuriously(c)
    BY <2>4 DEF WakeSpuriously, At, AddPC
  <2>5. CASE WorkerAdded(c) \/ WorkersMade(c)
    BY <2>5 DEF WorkerAdded, WorkersMade, At, Goto, AddPC, SetupInv, Shapes
  <2> QED
    BY <2>1, <2>2, <2>3, <2>4, <2>5
<1>4. ASSUME NEW D \in Points PROVE Staying(c, D)
  <2>1. "add" \notin D
    BY PointFacts
  <2> SUFFICES ASSUME NEW k \in 1..Len(WorkersOf[c]), NEW j \in 1..Len(ListsOf[c])
               PROVE  Past(c, k, j, D)' <=> Past(c, k, j, D)
    BY NobodyJoins DEF Staying
  <2>2. CASE WorkerAdded(c)
    <3>1. /\ cpc[c] = "add" /\ cpc'[c] = "create" /\ wi'[c] = wi[c] + 1
          /\ li[c] > Len(ListsOf[c])
      BY <2>2 DEF WorkerAdded, At, Goto, SetupInv, Shapes
    <3>2. wi[c] \in Nat /\ li[c] \in Nat /\ k \in Int /\ j < li[c]
      BY <3>1 DEF SetupInv, Shapes, Base, CountTypes, SetupAssumption
    <3> QED
      BY <3>1, <3>2 DEF Past, AddPC
  <2>3. CASE ~WorkerAdded(c)
    <3>1. CASE cpc'[c] \notin AddPC
      BY <1>3, <2>3, <3>1 DEF Past
    <3>2. CASE cpc'[c] = "add" /\ li'[c] = 1 /\ wi' = wi
      BY <1>3, <2>1, <2>3, <3>2 DEF Past
    <3> QED
      BY <1>3, <3>1, <3>2
  <2> QED
    BY <2>2, <2>3
<1>5. ASSUME NEW l \in CL, NEW w \in JoinedSo(c, l, ClidPC)
      PROVE  id'[l] = id[l]
  <2>1. ~ReadLastId(c)
    <3>1. ReadLastId(c) => wi[c] = 1 /\ cpc[c] \notin AddPC
      BY DEF ReadLastId, At, Base, InOrder, MakePC, AddPC
    <3> QED
      BY <3>1 DEF JoinedSo, Past
  <2> QED
    BY <2>1 DEF InitList, AddList, IncLastId, ListsMade, CreateWorker, StartThread, LockFrame,
     TestTid, DestroyCond, FirstLookup, SetTaskState, TestCreated, CreatorWoken, NextLookup,
     WakeSpuriously, WorkerAdded, WorkersMade, libVars, kernelVars
<1>6. cpc'[c] \notin {"ready_store", "nthreads_store"}
  BY <1>3 DEF AddPC
<1> QED
  BY <1>1, <1>2, <1>4, <1>5, <1>6, Quiet

LEMMA QuietThread ==
  ASSUME SetupAssumption, OneMain, SetupInv, CountInv, NEW w \in Worker, WorkerStep(w)
  PROVE  CountInv'
<1> USE DEF CountInv
<1>1. Base'
  BY ThreadStep
<1>2. PICK c \in Creator : Creator = {c}
  BY DEF OneMain
<1>3. /\ UNCHANGED <<id, wt, wt_ready_queue, threads_ready, nthreads, cpc, li, wi, reg>>
      /\ UNCHANGED clid_list \/ (clid_list' = [clid_list EXCEPT ![w] = <<>>] /\ wpc[w] = "create")
  BY DEF WorkerStep, LockParentFrame, SetTid, SignalParent, UnlockParentFrame, CreateKworker,
     WakeParent, Park, WAt, libVars, kernelVars
<1>4. ASSUME NEW D \in Points PROVE Staying(c, D)
  BY <1>3 DEF Staying, JoinedSo, Past
<1>5. ASSUME NEW l \in CL, NEW v \in JoinedSo(c, l, ClidPC)
      PROVE  id'[l] = id[l] /\ clid_list'[v] = clid_list[v]
  <2>1. v \in wt_htable
    BY DEF JoinedSo, Past, Base, BornInTime
  <2>2. wpc[v] # "create"
    BY <2>1 DEF Base, BornInTime, BornPC
  <2> QED
    BY <1>3, <2>1, <2>2 DEF Base, CountTypes
<1> QED
  BY <1>1, <1>3, <1>4, <1>5, Quiet

\* The structures a step leaves alone keep what they hold
LEMMA Keeps ==
  ASSUME OneMain, CountInv, NEW c \in Creator
  PROVE  /\ Staying(c, QueuedPC) /\ UNCHANGED wt_ready_queue => QueueHolds'
         /\ Staying(c, CountedPC) /\ UNCHANGED threads_ready /\ cpc'[c] # "ready_store"
              => ReadyHolds'
         /\ Staying(c, {}) /\ UNCHANGED nthreads /\ cpc'[c] # "nthreads_store"
              => NthreadsHold'
         /\ Staying(c, ClidPC) /\ UNCHANGED <<id, clid_list>> => ClidsHold'
         /\ Staying(c, ArrayPC) /\ UNCHANGED wt => ArrayHolds'
<1>1. Creator = {c}
  BY DEF OneMain
<1>2. Staying(c, QueuedPC) /\ UNCHANGED wt_ready_queue => QueueHolds'
  BY <1>1 DEF CountInv, QueueHolds, Staying
<1>3. Staying(c, CountedPC) /\ UNCHANGED threads_ready /\ cpc'[c] # "ready_store" => ReadyHolds'
  BY <1>1 DEF CountInv, ReadyHolds, Staying
<1>4. Staying(c, {}) /\ UNCHANGED nthreads /\ cpc'[c] # "nthreads_store" => NthreadsHold'
  BY <1>1 DEF CountInv, NthreadsHold, Staying
<1>5. ASSUME Staying(c, ClidPC), UNCHANGED <<id, clid_list>> PROVE ClidsHold'
  <2> SUFFICES ASSUME NEW l \in CL, NEW w \in JoinedSo(c, l, ClidPC)
               PROVE  \E i \in 1..Len(clid_list'[w]) : clid_list'[w][i] = id'[l]
    BY <1>1, <1>5 DEF ClidsHold, Staying
  <2> QED
    BY <1>5 DEF CountInv, ClidsHold
<1>6. ASSUME Staying(c, ArrayPC), UNCHANGED wt PROVE ArrayHolds'
  <2>1. \A l \in CL : JoinedSo(c, l, ArrayPC)' = JoinedSo(c, l, ArrayPC)
    BY <1>6 DEF Staying
  <2> QED
    BY <1>1, <1>6, <2>1 DEF CountInv, ArrayHolds
<1> QED
  BY <1>2, <1>3, <1>4, <1>5, <1>6

LEMMA ArrayStep ==
  ASSUME SetupAssumption, OneMain, SetupInv, CountInv, NEW c \in Creator, AddToArray(c)
  PROVE  CountInv'
<1> USE DEF CountInv
<1>1. Base'
  BY AddStep DEF AddWorker
<1>2. /\ cpc[c] = "add" /\ cpc'[c] = "clid" /\ Goto(c, "clid") /\ li[c] <= Len(ListsOf[c])
      /\ UNCHANGED <<id, li, wi, clid_list, wt_ready_queue, threads_ready, nthreads>>
      /\ wt' = IF HasRoom(list(c)) THEN [wt EXCEPT ![list(c)] = Append(@, worker(c))] ELSE wt
  BY DEF AddToArray, At, Goto, kernelVars, SetupInv, Shapes
<1>3. {"add", "clid"} \subseteq AddPC
  BY DEF AddPC
<1>4. \A D \in Points : D # ArrayPC => Staying(c, D)
  BY <1>2, <1>3, Moves, PointFacts
<1>5. Joining(c, ArrayPC)
  BY <1>2, <1>3, Moves, PointFacts
<1>6. QueueHolds' /\ ReadyHolds' /\ NthreadsHold' /\ ClidsHold'
  BY <1>2, <1>4, Keeps, PointFacts
<1>7. Creator = {c}
  BY DEF OneMain
<1>8. ArrayHolds'
  <2> DEFINE J(l) == JoinedSo(c, l, ArrayPC)
             W(k) == WorkersOf[c][k]
  <2> SUFFICES ASSUME NEW l \in CL
               PROVE  /\ Len(wt'[l]) <= MAX_WT
                      /\ \A k \in 1..Len(WorkersOf[c]) :
                           W(k) \in J(l)' /\ k <= MAX_WT => k <= Len(wt'[l])
                      /\ \A k \in 1..Len(wt'[l]) :
                           k <= Len(WorkersOf[c]) /\ wt'[l][k] = W(k) /\ W(k) \in J(l)'
    BY <1>7 DEF ArrayHolds
  <2>1. /\ Len(wt[l]) <= MAX_WT
        /\ \A k \in 1..Len(WorkersOf[c]) : W(k) \in J(l) /\ k <= MAX_WT => k <= Len(wt[l])
        /\ \A k \in 1..Len(wt[l]) :
             k <= Len(WorkersOf[c]) /\ wt[l][k] = W(k) /\ W(k) \in J(l)
    BY DEF ArrayHolds
  <2>2. /\ wt[l] \in Seq(Worker) /\ Len(wt[l]) \in Nat /\ MAX_WT \in Nat
        /\ Len(WorkersOf[c]) \in Nat
    BY DEF Base, CountTypes, SetupAssumption
  <2>3. CASE l # list(c)
    <3>1. wt'[l] = wt[l] /\ J(l)' = J(l)
      BY <1>2, <1>5, <2>3 DEF Joining, Base, CountTypes
    <3> HIDE DEF J, W
    <3> QED
      BY <2>1, <3>1
  <2>4. CASE l = list(c)
    <3>1. /\ J(l)' = J(l) \cup {worker(c)} /\ worker(c) \notin J(l)
      BY <1>5, <2>4 DEF Joining
    <3>2. /\ wi[c] \in 1..Len(WorkersOf[c]) /\ worker(c) = W(wi[c])
          /\ li[c] \in 1..Len(ListsOf[c]) /\ ListsOf[c][li[c]] = l
      <4>1. wi[c] \in 1..Len(WorkersOf[c])
        BY <1>2, <1>3 DEF SetupInv, HasWorker, BusyPC
      <4> QED
        <5>1. li[c] \in 1..Len(ListsOf[c])
          BY <1>2 DEF Base, CountTypes, SetupAssumption
        <5>2. worker(c) = W(wi[c]) /\ ListsOf[c][li[c]] = l
          BY <2>4 DEF worker, list
        <5> QED
          BY <4>1, <5>1, <5>2
    <3>3. \A k \in 1..Len(WorkersOf[c]) : W(k) = worker(c) => k = wi[c]
      <4> SUFFICES ASSUME NEW k \in 1..Len(WorkersOf[c]), W(k) = worker(c) PROVE k = wi[c]
        OBVIOUS
      <4>1. WorkersOf[c][k] = WorkersOf[c][wi[c]] /\ wi[c] \in 1..Len(WorkersOf[c])
        BY <3>2
      <4> HIDE DEF J, W
      <4> QED
        BY ONLY <4>1, SetupAssumption, c \in Creator, k \in 1..Len(WorkersOf[c]) DEF SetupAssumption
    \* before the step exactly the workers before this one have joined
    <3>4. \A k \in 1..Len(WorkersOf[c]) : W(k) \in J(l) <=> k < wi[c]
      <4>1. ASSUME NEW k \in 1..Len(WorkersOf[c]), k < wi[c]
            PROVE  W(k) \in J(l)
        <5>1. W(k) \in Worker
          BY DEF SetupAssumption
        <5> QED
          BY <3>2, <4>1, <5>1 DEF JoinedSo, Past
      <4>2. ASSUME NEW k \in 1..Len(WorkersOf[c]), W(k) \in J(l)
            PROVE  k < wi[c]
        <5>1. PICK n \in 1..Len(WorkersOf[c]), j \in 1..Len(ListsOf[c]) :
                WorkersOf[c][n] = W(k) /\ Past(c, n, j, ArrayPC)
          BY <4>2 DEF JoinedSo
        <5>2. n = k
          BY <5>1 DEF SetupAssumption
        <5>3. k = wi[c] => W(k) = worker(c)
          BY <3>2
        <5>4. k # wi[c]
          BY <3>1, <4>2, <5>3
        <5> QED
          BY <5>1, <5>2, <5>4 DEF Past
      <4> QED
        BY <4>1, <4>2
    <3> HIDE DEF J, W
    <3>5. \A k \in 1..Len(wt[l]) : k < wi[c]
      BY <2>1, <2>2, <3>4
    <3>6. Len(wt[l]) < wi[c]
      <4>1. CASE Len(wt[l]) = 0
        BY <3>2, <4>1
      <4>2. CASE Len(wt[l]) # 0
        <5>1. Len(wt[l]) \in 1..Len(wt[l])
          BY <2>2, <4>2
        <5> QED
          BY <3>5, <5>1
      <4> QED
        BY <4>1, <4>2
    <3>7. CASE Len(wt[l]) < MAX_WT
      <4>1. wt'[l] = Append(wt[l], worker(c))
        BY <1>2, <2>4, <3>7 DEF HasRoom, Base, CountTypes
      <4>2. /\ Len(wt'[l]) = Len(wt[l]) + 1 /\ wt'[l][Len(wt[l]) + 1] = worker(c)
            /\ \A i \in 1..Len(wt[l]) : wt'[l][i] = wt[l][i]
        BY <2>2, <4>1
      <4>3. Len(wt[l]) + 1 = wi[c]
        <5> SUFFICES ASSUME Len(wt[l]) + 1 < wi[c] PROVE FALSE
          BY <2>2, <3>2, <3>6
        <5>1. Len(wt[l]) + 1 \in 1..Len(WorkersOf[c]) /\ Len(wt[l]) + 1 <= MAX_WT
          BY <2>2, <3>2, <3>7
        <5>2. W(Len(wt[l]) + 1) \in J(l)
          BY <3>4, <5>1
        <5>3. Len(wt[l]) + 1 <= Len(wt[l])
          BY <2>1, <5>1, <5>2
        <5> QED
          BY <2>2, <5>3
      <4>4. ASSUME NEW k \in 1..Len(WorkersOf[c]), W(k) \in J(l)'
            PROVE  k <= Len(wt'[l])
        <5>1. k < wi[c] \/ k = wi[c]
          BY <3>1, <3>3, <3>4, <4>4
        <5> QED
          BY <2>2, <4>2, <4>3, <5>1
      <4>5. ASSUME NEW k \in 1..Len(wt'[l])
            PROVE  k <= Len(WorkersOf[c]) /\ wt'[l][k] = W(k) /\ W(k) \in J(l)'
        <5>1. CASE k \in 1..Len(wt[l])
          BY <2>1, <3>1, <4>2, <5>1
        <5>2. CASE k = wi[c]
          BY <3>1, <3>2, <4>2, <4>3, <5>2
        <5> QED
          BY <2>2, <4>2, <4>3, <5>1, <5>2
      <4> QED
        BY <2>2, <3>7, <4>2, <4>4, <4>5
    <3>8. CASE ~(Len(wt[l]) < MAX_WT)
      <4>1. wt' = wt
        BY <1>2, <2>4, <3>8 DEF HasRoom
      <4>2. MAX_WT < wi[c]
        BY <2>1, <2>2, <3>2, <3>6, <3>8
      <4>3. ASSUME NEW k \in 1..Len(WorkersOf[c]), W(k) \in J(l)', k <= MAX_WT
            PROVE  k <= Len(wt[l])
        <5>1. k < wi[c]
          BY <2>2, <3>2, <4>2, <4>3
        <5> QED
          BY <2>1, <3>4, <4>3, <5>1
      <4> QED
        BY <2>1, <3>1, <4>1, <4>3
    <3> QED
      BY <3>7, <3>8
  <2> QED
    BY <2>3, <2>4
<1> QED
  BY <1>1, <1>6, <1>8

LEMMA ClidStep ==
  ASSUME SetupAssumption, OneMain, SetupInv, CountInv, NEW c \in Creator, AddClid(c)
  PROVE  CountInv'
<1> USE DEF CountInv
<1>1. Base'
  BY AddStep DEF AddWorker
<1>2. /\ cpc[c] = "clid" /\ cpc'[c] = "queue" /\ Goto(c, "queue")
      /\ UNCHANGED <<id, li, wi, wt, wt_ready_queue, threads_ready, nthreads>>
      /\ clid_list' = [clid_list EXCEPT ![worker(c)] = <<id[list(c)]>> \o @]
  BY DEF AddClid, At, Goto, libVars, SetupInv, Shapes
<1>3. {"clid", "queue"} \subseteq AddPC /\ li[c] <= Len(ListsOf[c])
  BY <1>2 DEF AddPC, Base, HasList
<1>4. \A D \in Points : D # ClidPC => Staying(c, D)
  BY <1>2, <1>3, Moves, PointFacts
<1>5. Joining(c, ClidPC)
  BY <1>2, <1>3, Moves, PointFacts
<1>6. QueueHolds' /\ ReadyHolds' /\ NthreadsHold' /\ ArrayHolds'
  BY <1>2, <1>4, Keeps, PointFacts
<1>7. ClidsHold'
  <2> DEFINE J(l) == JoinedSo(c, l, ClidPC)
  <2>1. Creator = {c}
    BY DEF OneMain
  <2> SUFFICES ASSUME NEW l \in CL, NEW w \in J(l)'
               PROVE  \E i \in 1..Len(clid_list'[w]) : clid_list'[w][i] = id[l]
    BY <1>2, <2>1 DEF ClidsHold
  <2>2. w \in Worker /\ clid_list[w] \in Seq(Int)
    BY DEF JoinedSo, Base, CountTypes
  <2>3. w \in J(l) \/ (l = list(c) /\ w = worker(c))
    BY <1>5 DEF Joining
  <2>4. CASE w # worker(c)
    <3>1. clid_list'[w] = clid_list[w] /\ w \in J(l)
      BY <1>2, <2>2, <2>3, <2>4 DEF Base, CountTypes
    <3> QED
      BY <3>1 DEF ClidsHold
  <2>5. CASE w = worker(c)
    <3>1. clid_list'[w] = <<id[list(c)]>> \o clid_list[w] /\ id[list(c)] \in Int
      <4>1. list(c) \in CL
        BY <1>2, <1>3, KclIsList
      <4>2. id[list(c)] \in Int
        BY <4>1 DEF Base, CountTypes
      <4>3. DOMAIN clid_list = Worker
        BY DEF Base, CountTypes
      <4> QED
        BY <1>2, <2>2, <2>5, <4>2, <4>3
    <3>2. /\ Len(clid_list'[w]) = Len(clid_list[w]) + 1 /\ Len(clid_list[w]) \in Nat
          /\ clid_list'[w][1] = id[list(c)]
          /\ \A i \in 1..Len(clid_list[w]) : clid_list'[w][i + 1] = clid_list[w][i]
      BY <2>2, <3>1
    <3>3. CASE w \in J(l)
      <4>1. PICK i \in 1..Len(clid_list[w]) : clid_list[w][i] = id[l]
        BY <3>3 DEF ClidsHold
      <4>2. i + 1 \in 1..Len(clid_list'[w]) /\ clid_list'[w][i + 1] = id[l]
        BY <3>2, <4>1
      <4> QED
        BY <4>2
    <3>4. CASE l = list(c)
      <4>1. 1 \in 1..Len(clid_list'[w])
        BY <3>2
      <4> QED
        BY <3>2, <3>4, <4>1
    <3> QED
      BY <2>3, <3>3, <3>4
  <2> QED
    BY <2>4, <2>5
<1> QED
  BY <1>1, <1>6, <1>7

LEMMA QueueStep ==
  ASSUME SetupAssumption, OneMain, SetupInv, CountInv, NEW c \in Creator, AddElement(c)
  PROVE  CountInv'
<1> USE DEF CountInv
<1>1. Base'
  BY AddStep DEF AddWorker
<1>2. /\ cpc[c] = "queue" /\ cpc'[c] = "ready_load" /\ Goto(c, "ready_load")
      /\ UNCHANGED <<id, li, wi, wt, clid_list, threads_ready, nthreads>>
      /\ wt_ready_queue' = [wt_ready_queue EXCEPT ![kcl(c)] = @ \cup {worker(c)}]
  BY DEF AddElement, At, Goto, libVars, SetupInv, Shapes
<1>3. {"queue", "ready_load"} \subseteq AddPC /\ li[c] <= Len(ListsOf[c])
  BY <1>2 DEF AddPC, Base, HasList
<1>4. \A D \in Points : D # QueuedPC => Staying(c, D)
  BY <1>2, <1>3, Moves, PointFacts
<1>5. Joining(c, QueuedPC)
  BY <1>2, <1>3, Moves, PointFacts
<1>6. ClidsHold' /\ ReadyHolds' /\ NthreadsHold' /\ ArrayHolds'
  BY <1>2, <1>4, Keeps, PointFacts
<1>7. QueueHolds'
  <2>1. Creator = {c} /\ kcl(c) = list(c)
    BY <1>2, <1>3, KclIsList DEF OneMain
  <2> SUFFICES ASSUME NEW l \in CL PROVE wt_ready_queue'[l] = JoinedSo(c, l, QueuedPC)'
    BY <2>1 DEF QueueHolds
  <2>2. CASE l = list(c)
    BY <1>2, <1>5, <2>1, <2>2 DEF Joining, QueueHolds, Base, CountTypes
  <2>3. CASE l # list(c)
    BY <1>2, <1>5, <2>1, <2>3 DEF Joining, QueueHolds, Base, CountTypes
  <2> QED
    BY <2>2, <2>3
<1> QED
  BY <1>1, <1>6, <1>7

\* The two increments
LEMMA LoadStep ==
  ASSUME SetupAssumption, OneMain, SetupInv, CountInv, NEW c \in Creator,
         \/ Load(c, threads_ready, "ready_load", "ready_store")
         \/ Load(c, nthreads, "nthreads_load", "nthreads_store")
  PROVE  CountInv'
<1> USE DEF CountInv
<1>1. Base'
  BY AddStep DEF AddWorker
<1>2. PICK m \in {"ready_store", "nthreads_store"} :
        /\ cpc'[c] = m /\ Goto(c, m)
        /\ m = "ready_store" => cpc[c] = "ready_load" /\ reg'[c] = threads_ready[kcl(c)]
        /\ m = "nthreads_store" => cpc[c] = "nthreads_load" /\ reg'[c] = nthreads[kcl(c)]
  BY DEF Load, At, Goto, SetupInv, Shapes, Base, CountTypes
<1>3. /\ UNCHANGED <<id, li, wi, wt, clid_list, wt_ready_queue, threads_ready, nthreads>>
      /\ cpc[c] \in {"ready_load", "nthreads_load"}
  BY DEF Load, At, libVars, kernelVars
<1>4. {"ready_load", "nthreads_load", m} \subseteq AddPC \ {"add"} /\ li[c] <= Len(ListsOf[c])
  BY <1>3 DEF AddPC, Base, HasList
<1>5. \A D \in Points : (cpc[c] \in D) <=> (m \in D)
  <2>1. CASE m = "ready_store"
    BY <1>2, <2>1, PointFacts
  <2>2. CASE m = "nthreads_store"
    BY <1>2, <2>2, PointFacts
  <2> QED
    BY <2>1, <2>2
<1>6. \A D \in Points : Staying(c, D)
  BY <1>2, <1>3, <1>4, <1>5, Moves
<1>7. QueueHolds' /\ ClidsHold' /\ ArrayHolds'
  BY <1>3, <1>6, Keeps, PointFacts
<1>8. Creator = {c} /\ kcl(c) = list(c) /\ list(c)' = list(c)
  BY <1>3, <1>4, KclIsList DEF OneMain, list
<1>9. ReadyHolds'
  <2>1. \A l \in CL : JoinedSo(c, l, CountedPC)' = JoinedSo(c, l, CountedPC)
    BY <1>6, PointFacts DEF Staying
  <2>2. cpc'[c] = "ready_store" => reg'[c] = threads_ready'[list(c)']
    BY <1>2, <1>3, <1>8 DEF list
  <2> QED
    BY <1>3, <1>8, <2>1, <2>2 DEF ReadyHolds
<1>10. NthreadsHold'
  <2>1. \A l \in CL : JoinedSo(c, l, {})' = JoinedSo(c, l, {})
    BY <1>6, PointFacts DEF Staying
  <2>2. cpc'[c] = "nthreads_store" => reg'[c] = nthreads'[list(c)']
    BY <1>2, <1>3, <1>8 DEF list
  <2> QED
    BY <1>3, <1>8, <2>1, <2>2 DEF NthreadsHold
<1> QED
  BY <1>1, <1>7, <1>9, <1>10

LEMMA ReadyStep ==
  ASSUME SetupAssumption, OneMain, SetupInv, CountInv, NEW c \in Creator, StoreReady(c)
  PROVE  CountInv'
<1> USE DEF CountInv
<1>1. Base'
  BY AddStep DEF AddWorker
<1>2. /\ cpc[c] = "ready_store" /\ cpc'[c] = "nthreads_load" /\ Goto(c, "nthreads_load")
      /\ UNCHANGED <<id, li, wi, wt, clid_list, wt_ready_queue, nthreads>>
      /\ threads_ready' = [threads_ready EXCEPT ![kcl(c)] = reg[c] + 1]
  BY DEF StoreReady, At, Goto, libVars, SetupInv, Shapes
<1>3. {"ready_store", "nthreads_load"} \subseteq AddPC /\ li[c] <= Len(ListsOf[c])
  BY <1>2 DEF AddPC, Base, HasList
<1>4. \A D \in Points : D # CountedPC => Staying(c, D)
  BY <1>2, <1>3, Moves, PointFacts
<1>5. Joining(c, CountedPC)
  BY <1>2, <1>3, Moves, PointFacts
<1>6. ClidsHold' /\ QueueHolds' /\ NthreadsHold' /\ ArrayHolds'
  BY <1>2, <1>4, Keeps, PointFacts
<1>7. ReadyHolds'
  <2>1. /\ Creator = {c} /\ kcl(c) = list(c)
        /\ list(c) \in CL /\ reg[c] = Cardinality(JoinedSo(c, list(c), CountedPC))
    BY <1>2, <1>3, KclIsList DEF OneMain, ReadyHolds
  <2> SUFFICES ASSUME NEW l \in CL
               PROVE  threads_ready'[l] = Cardinality(JoinedSo(c, l, CountedPC))'
    BY <1>2, <2>1 DEF ReadyHolds
  <2>2. CASE l = list(c)
    BY <1>2, <1>5, <2>1, <2>2 DEF Joining, Base, CountTypes
  <2>3. CASE l # list(c)
    BY <1>2, <1>5, <2>1, <2>3 DEF Joining, ReadyHolds, Base, CountTypes
  <2> QED
    BY <2>2, <2>3
<1> QED
  BY <1>1, <1>6, <1>7

LEMMA NthreadsStep ==
  ASSUME SetupAssumption, OneMain, SetupInv, CountInv, NEW c \in Creator, StoreNthreads(c)
  PROVE  CountInv'
<1> USE DEF CountInv
<1>1. Base'
  BY AddStep DEF AddWorker
<1>2. /\ cpc[c] = "nthreads_store" /\ cpc'[c] = "add"
      /\ UNCHANGED <<id, wi, wt, clid_list, wt_ready_queue, threads_ready>>
      /\ nthreads' = [nthreads EXCEPT ![kcl(c)] = reg[c] + 1]
  BY DEF StoreNthreads, At, Goto, libVars, SetupInv, Shapes
<1>3. cpc[c] \in AddPC \ {"add"}
  BY <1>2 DEF AddPC
<1>4. ASSUME NEW D \in Points
      PROVE  /\ wi[c] \in 1..Len(WorkersOf[c]) /\ li[c] \in 1..Len(ListsOf[c])
             /\ \A k \in 1..Len(WorkersOf[c]), j \in 1..Len(ListsOf[c]) :
                  Past(c, k, j, D)' <=> Past(c, k, j, D) \/ (k = wi[c] /\ j = li[c])
  BY NextList
<1>5. ASSUME NEW D \in Points, D # {} PROVE Staying(c, D)
  <2>1. "nthreads_store" \in D
    BY <1>5, PointFacts DEF CountedPC
  <2>2. \A k \in 1..Len(WorkersOf[c]), j \in 1..Len(ListsOf[c]) :
          Past(c, k, j, D)' <=> Past(c, k, j, D)
    BY <1>2, <1>3, <1>4, <2>1 DEF Past
  <2> QED
    BY <2>2, NobodyJoins DEF Staying
<1>6. Joining(c, {})
  <2>1. {} \in Points
    BY PointFacts
  <2> QED
    BY <1>4, <2>1, Joins DEF Joining
<1>7. ClidsHold' /\ QueueHolds' /\ ReadyHolds' /\ ArrayHolds'
  <2>1. CountedPC # {} /\ QueuedPC # {} /\ ClidPC # {} /\ ArrayPC # {}
    BY PointFacts
  <2> QED
    BY <1>2, <1>5, <2>1, Keeps, PointFacts
<1>8. NthreadsHold'
  <2>1. /\ Creator = {c} /\ kcl(c) = list(c)
        /\ list(c) \in CL /\ reg[c] = Cardinality(JoinedSo(c, list(c), {}))
    BY <1>2, <1>3, KclIsList DEF OneMain, NthreadsHold
  <2> SUFFICES ASSUME NEW l \in CL
               PROVE  nthreads'[l] = Cardinality(JoinedSo(c, l, {}))'
    BY <1>2, <2>1 DEF NthreadsHold
  <2>2. CASE l = list(c)
    BY <1>2, <1>6, <2>1, <2>2 DEF Joining, Base, CountTypes
  <2>3. CASE l # list(c)
    BY <1>2, <1>6, <2>1, <2>3 DEF Joining, NthreadsHold, Base, CountTypes
  <2> QED
    BY <2>2, <2>3
<1> QED
  BY <1>1, <1>7, <1>8

(****************************************************************************)
(* The invariant, and what it says at the end.                                *)
(****************************************************************************)

LEMMA InitCountInv ==
  ASSUME SetupAssumption, OneMain, Init
  PROVE  CountInv
<1>1. PICK c \in Creator : Creator = {c}
  BY DEF OneMain
<1>2. cpc[c] = "init" /\ "init" \notin AddPC /\ wi[c] = 1 /\ li[c] = 1
  BY DEF Init, AddPC
<1>3. ListsOf[c] \in Seq(CL) /\ WorkersOf[c] \in Seq(Worker)
  BY DEF SetupAssumption
<1>4. \A D : \A l \in CL : JoinedSo(c, l, D) = {}
  BY <1>2, <1>3 DEF JoinedSo, Past
<1>5. Base
  <2>1. CountTypes
    BY DEF Init, CountTypes
  <2>2. HasList /\ InOrder /\ BornInTime
    BY <1>1, <1>2 DEF Init, HasList, InOrder, BornInTime, MakePC
  <2>3. TableHolds /\ IdsBelow /\ UniqueIds
    <3>1. DOMAIN compl_list_htable = {}
      BY DEF Init
    <3>2. \A j \in 1..Len(ListsOf[c]) : ~(j < 1)
      BY <1>3
    <3> QED
      BY <1>1, <1>2, <3>1, <3>2 DEF TableHolds, IdsBelow, UniqueIds, MakePC
  <2> QED
    BY <2>1, <2>2, <2>3 DEF Base
<1>6. QueueHolds /\ ClidsHold
  BY <1>1, <1>4 DEF Init, QueueHolds, ClidsHold
<1>7. ReadyHolds /\ NthreadsHold
  <2>1. \A l \in CL : /\ Cardinality(JoinedSo(c, l, CountedPC)) = 0
                      /\ Cardinality(JoinedSo(c, l, {})) = 0
    BY <1>4, FS_EmptySet
  <2>2. \A l \in CL : threads_ready[l] = 0 /\ nthreads[l] = 0
    BY DEF Init
  <2> QED
    BY <1>1, <1>2, <2>1, <2>2 DEF ReadyHolds, NthreadsHold
<1>8. ArrayHolds
  <2>1. \A l \in CL : Len(wt[l]) = 0
    BY DEF Init
  <2> QED
    <3>1. \A l \in CL : JoinedSo(c, l, ArrayPC) = {}
      BY <1>4
    <3>2. 0 <= MAX_WT
      BY DEF SetupAssumption
    <3> QED
      BY <1>1, <2>1, <3>1, <3>2 DEF ArrayHolds
<1> QED
  BY <1>5, <1>6, <1>7, <1>8 DEF CountInv

LEMMA CountInvPreserved ==
  ASSUME SetupAssumption, OneMain, SetupInv, CountInv, [Next]_vars
  PROVE  CountInv'
<1>1. CASE UNCHANGED vars
  <2>1. UNCHANGED <<id, wt, tid, kernelVars, cpc, li, wi, reg, wpc>>
    BY <1>1 DEF vars, libVars
  <2>2. UNCHANGED <<compl_list_last_id, compl_list_htable, wt_htable, clid_list, wt_ready_queue,
                    threads_ready, nthreads>>
    BY <2>1 DEF kernelVars
  <2>3. Base'
    BY <2>1, <2>2 DEF CountInv, Base, CountTypes, HasList, InOrder, TableHolds, IdsBelow, UniqueIds,
       BornInTime, list
  <2>4. PICK c \in Creator : Creator = {c}
    BY DEF OneMain
  <2>5. \A D \in Points : Staying(c, D)
    BY <2>1 DEF Staying, JoinedSo, Past
  <2> QED
    BY <2>1, <2>2, <2>3, <2>5, Quiet DEF CountInv
<1>2. ASSUME NEW c \in Creator, CreatorStep(c) \/ WakeSpuriously(c)
      PROVE  CountInv'
  BY <1>2, QuietCreator, ArrayStep, ClidStep, QueueStep, LoadStep, ReadyStep, NthreadsStep
     DEF CreatorStep, AddWorker
<1>3. ASSUME NEW w \in Worker, WorkerStep(w)
      PROVE  CountInv'
  BY <1>3, QuietThread
<1> QED
  BY <1>1, <1>2, <1>3 DEF Next

LEMMA CountInvariance ==
  ASSUME OneMain
  PROVE  Spec => []CountInv
<1>1. Init => CountInv
  BY SetupAssumption, InitCountInv
<1>2. SetupInv /\ CountInv /\ [Next]_vars => CountInv'
  BY SetupAssumption, CountInvPreserved
<1> QED
  BY <1>1, <1>2, SetupInvariance, PTL DEF Spec

\* compl_list_last_id, read before the mutex is taken, gives no identifier twice as
\* long as one thread sends the UMSINITCOMPLLISTs.
THEOREM IdsAreUnique ==
  ASSUME OneMain
  PROVE  Spec => []UniqueIds
<1>1. CountInv => UniqueIds
  BY DEF CountInv, Base
<1> QED
  BY <1>1, CountInvariance, PTL

\* When main has returned from its last ums_completion_list_add, every list holds
\* exactly its workers, its two counters are their number, and every worker knows
\* the identifier of each of its lists.
THEOREM ListsAreComplete ==
  ASSUME OneMain
  PROVE  Spec => []SetupComplete
<1>1. ASSUME CountInv, SetupInv PROVE SetupComplete
  <2>1. PICK c \in Creator : Creator = {c}
    BY DEF OneMain
  <2> SUFFICES ASSUME cpc[c] = "done", NEW l \in CL
               PROVE  /\ wt_ready_queue[l] = Joined(l)
                      /\ threads_ready[l] = Cardinality(Joined(l))
                      /\ nthreads[l] = Cardinality(Joined(l))
                      /\ \A w \in Joined(l) :
                           \E i \in DOMAIN clid_list[w] : clid_list[w][i] = id[l]
    BY <2>1 DEF SetupComplete, Done, At
  <2>2. \A k \in 1..Len(WorkersOf[c]) : k < wi[c]
    BY <1>1 DEF CountInv, Base, InOrder, SetupInv, Shapes, SetupAssumption
  <2>3. /\ WorkersOf[c] \in Seq(Worker) /\ ListsOf[c] \in Seq(CL)
        /\ DOMAIN WorkersOf[c] = 1..Len(WorkersOf[c]) /\ DOMAIN ListsOf[c] = 1..Len(ListsOf[c])
    BY SetupAssumption DEF SetupAssumption
  <2>4. \A D : JoinedSo(c, l, D) = Joined(l)
    <3> TAKE D
    <3>1. JoinedSo(c, l, D) = {w \in Worker :
            \E k \in 1..Len(WorkersOf[c]), j \in 1..Len(ListsOf[c]) :
              WorkersOf[c][k] = w /\ ListsOf[c][j] = l}
      BY <2>2 DEF JoinedSo, Past
    <3>2. Joined(l) = {w \in Worker : \E k \in DOMAIN WorkersOf[c], j \in DOMAIN ListsOf[c] :
                         WorkersOf[c][k] = w /\ ListsOf[c][j] = l}
      BY <2>1, <2>3 DEF Joined
    <3> QED
      BY <2>3, <3>1, <3>2
  <2>5. \A w \in Joined(l) : DOMAIN clid_list[w] = 1..Len(clid_list[w])
    <3>1. Joined(l) \subseteq Worker
      BY <2>4 DEF JoinedSo
    <3> QED
      BY <1>1, <3>1 DEF CountInv, Base, CountTypes
  <2> QED
    BY <1>1, <2>4, <2>5 DEF CountInv, QueueHolds, ReadyHolds, NthreadsHold, ClidsHold
<1> QED
  BY <1>1, CountInvariance, SetupInvariance, PTL

\* completion_list_add never writes past the array, and of the workers of a ready queue
\* the array holds exactly those added before it was full: completion_list_get finds what
\* a dequeue returns just as long as the workers of the list fit.
THEOREM ArraysHoldTheQueues ==
  ASSUME OneMain
  PROVE  Spec => []ArraysKeepUp
<1>1. ASSUME CountInv PROVE ArraysKeepUp
  <2>1. PICK c \in Creator : Creator = {c}
    BY DEF OneMain
  <2>2. /\ WorkersOf[c] \in Seq(Worker) /\ DOMAIN WorkersOf[c] = 1..Len(WorkersOf[c])
        /\ Len(WorkersOf[c]) \in Nat
    BY SetupAssumption DEF SetupAssumption
  <2> SUFFICES ASSUME NEW l \in CL
               PROVE  /\ Len(wt[l]) <= MAX_WT
                      /\ \A k \in 1..Len(WorkersOf[c]) : WorkersOf[c][k] \in wt_ready_queue[l] =>
                           (k <= MAX_WT <=> \E i \in DOMAIN wt[l] : wt[l][i] = WorkersOf[c][k])
    BY <2>1, <2>2 DEF ArraysKeepUp
  <2>3. QueuedPC \subseteq ArrayPC
    BY DEF ArrayPC, ClidPC
  <2>4. wt_ready_queue[l] \subseteq JoinedSo(c, l, ArrayPC)
    <3>1. JoinedSo(c, l, QueuedPC) \subseteq JoinedSo(c, l, ArrayPC)
      BY <2>3 DEF JoinedSo, Past
    <3> QED
      BY <1>1, <3>1 DEF CountInv, QueueHolds
  <2>5. DOMAIN wt[l] = 1..Len(wt[l]) /\ Len(wt[l]) \in Nat /\ MAX_WT \in Nat
    BY <1>1, SetupAssumption DEF CountInv, Base, CountTypes, SetupAssumption
  <2>6. /\ Len(wt[l]) <= MAX_WT
        /\ \A k \in 1..Len(WorkersOf[c]) :
             WorkersOf[c][k] \in JoinedSo(c, l, ArrayPC) /\ k <= MAX_WT => k <= Len(wt[l])
        /\ \A k \in 1..Len(wt[l]) :
             k <= Len(WorkersOf[c]) /\ wt[l][k] = WorkersOf[c][k]
    BY <1>1 DEF CountInv, ArrayHolds
  <2>7. ASSUME NEW k \in 1..Len(WorkersOf[c]), WorkersOf[c][k] \in wt_ready_queue[l]
        PROVE  k <= MAX_WT <=> \E i \in DOMAIN wt[l] : wt[l][i] = WorkersOf[c][k]
    <3>1. ASSUME k <= MAX_WT PROVE \E i \in DOMAIN wt[l] : wt[l][i] = WorkersOf[c][k]
      <4>1. k \in 1..Len(wt[l])
        BY <2>2, <2>4, <2>5, <2>6, <2>7, <3>1
      <4> QED
        BY <2>5, <2>6, <4>1
    <3>2. ASSUME NEW i \in DOMAIN wt[l], wt[l][i] = WorkersOf[c][k] PROVE k <= MAX_WT
      <4>1. i \in 1..Len(WorkersOf[c]) /\ WorkersOf[c][i] = WorkersOf[c][k]
        BY <2>2, <2>5, <2>6, <3>2
      <4>2. i = k
        BY SetupAssumption, <4>1 DEF SetupAssumption
      <4> QED
        BY <2>5, <2>6, <4>2
    <3> QED
      BY <3>1, <3>2
  <2> QED
    BY <2>6, <2>7
<1> QED
  BY <1>1, CountInvariance, PTL
================================================================================
