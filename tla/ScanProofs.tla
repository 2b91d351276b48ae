------------------------------ MODULE ScanProofs ------------------------------
(***************************************************************************)
(* The evaluation phase for any number of threads and any set of files: no *)
(* file is lost, none is worked on twice, a match stays right between the  *)
(* two mutexes, the lists and the counts are right, and the join waits for *)
(* whatever was taken off the queue.                                       *)
(***************************************************************************)
EXTENDS Scan, VisitedTreeProofs, FiniteSetTheorems

-----------------------------------------------------------------------------
(* Sequences as sets of elements *)

Elems(s) == {s[i] : i \in 1 .. Len(s)}
NoRepeat(s) == \A i, j \in 1 .. Len(s) : s[i] = s[j] => i = j

\* A sequence without elements is the empty one.
LEMMA EmptyOfNone ==
  ASSUME NEW S, NEW s \in Seq(S), Len(s) = 0
  PROVE  s = <<>>
OBVIOUS

\* What appending does to the elements of a sequence.
LEMMA ElemsAppend ==
  ASSUME NEW S, NEW s \in Seq(S), NEW e \in S
  PROVE  /\ Append(s, e) \in Seq(S)
         /\ Elems(Append(s, e)) = Elems(s) \cup {e}
         /\ NoRepeat(s) /\ e \notin Elems(s) => NoRepeat(Append(s, e))
<1>1. /\ Append(s, e) \in Seq(S) /\ Len(Append(s, e)) = Len(s) + 1 /\ Len(s) \in Nat
      /\ \A i \in 1 .. Len(s) + 1 :
            Append(s, e)[i] = IF i = Len(s) + 1 THEN e ELSE s[i]
  OBVIOUS
<1> QED BY <1>1 DEF Elems, NoRepeat

\* What taking the first element does to them.
LEMMA ElemsTail ==
  ASSUME NEW S, NEW s \in Seq(S), s # <<>>
  PROVE  /\ Tail(s) \in Seq(S) /\ Head(s) \in S
         /\ Elems(s) = Elems(Tail(s)) \cup {Head(s)}
         /\ NoRepeat(s) => NoRepeat(Tail(s)) /\ Head(s) \notin Elems(Tail(s))
<1>1. /\ Tail(s) \in Seq(S) /\ Len(Tail(s)) = Len(s) - 1 /\ Len(s) \in Nat \ {0}
      /\ Head(s) = s[1]
      /\ \A i \in 1 .. Len(s) - 1 : Tail(s)[i] = s[i + 1]
  OBVIOUS
<1>2. \A i \in 1 .. Len(s) : i # 1 => s[i] = Tail(s)[i - 1] /\ i - 1 \in 1 .. Len(Tail(s))
  BY <1>1
<1>3. Elems(s) = Elems(Tail(s)) \cup {Head(s)}
  <2>1. ASSUME NEW i \in 1 .. Len(s) PROVE s[i] \in Elems(Tail(s)) \cup {Head(s)}
    BY <1>1, <1>2 DEF Elems
  <2>2. ASSUME NEW i \in 1 .. Len(Tail(s)) PROVE Tail(s)[i] \in Elems(s)
    <3>1. i + 1 \in 1 .. Len(s) /\ Tail(s)[i] = s[i + 1]
      BY <1>1
    <3> QED BY <3>1 DEF Elems
  <2>3. Head(s) \in Elems(s)
    BY <1>1 DEF Elems
  <2> QED BY <2>1, <2>2, <2>3 DEF Elems
<1>4. NoRepeat(s) => NoRepeat(Tail(s)) /\ Head(s) \notin Elems(Tail(s))
  BY <1>1 DEF Elems, NoRepeat
<1> QED BY <1>1, <1>3, <1>4

\* The empty sequence has no elements.
LEMMA ElemsEmpty == Elems(<<>>) = {} /\ NoRepeat(<<>>)
  BY DEF Elems, NoRepeat

-----------------------------------------------------------------------------
(* Types, the tree, and what each process holds where *)

Busy == {"metadata", "insert", "list", "found", "count"}

\* main has an entry between fts_read and the append; a worker has one from
\* the pop to the end of the round, and a match from the insertion on.
HandsOK ==
    /\ hand # NULL <=> mpc = "append"
    /\ mpc # "serial" => pc[Main] = "idle"
    /\ \A w \in Workers : w > spawned => pc[w] = "idle"
    /\ \A p \in Procs :
          /\ cur[p] # NULL <=> pc[p] \in Busy
          /\ pc[p] \in {"list", "found"} => old[p] # NULL
          /\ old[p] # NULL => pc[p] \in {"list", "found", "count"}

Base == TypeOK /\ TreeInv /\ HandsOK

\* Base holds at the start.
LEMMA InitBase == Init => Base
<1> SUFFICES ASSUME Init PROVE Base
  OBVIOUS
<1>1. TreeInv /\ TreeTypeOK
  BY TreeInitInv DEF Init, TreeInv
<1>2. TypeOK
  <2>1. /\ lists \in [Digests -> Seq(Entries)] /\ queue \in Seq(Entries)
        /\ hand \in Entries \cup {NULL} /\ remaining \subseteq Entries
        /\ diagnosed \subseteq Entries
    BY DEF Init
  <2>2. threadCount \in 0 .. ThreadCount /\ spawned \in 0 .. threadCount
    BY ThreadAssumption DEF Init
  <2>3. /\ pc \in [Procs -> {"idle", "start", "pop", "poll", "metadata", "insert",
                         "list", "found", "count", "exited"}]
        /\ cur \in [Procs -> Entries \cup {NULL}]
        /\ old \in [Procs -> Entries \cup {NULL}]
    BY DEF Init
  <2> QED BY <1>1, <2>1, <2>2, <2>3 DEF Init, TypeOK
<1>3. HandsOK
  BY DEF Init, HandsOK, Busy, Procs, Main, Workers
<1> QED BY <1>1, <1>2, <1>3 DEF Base

\* The steps that leave the tree alone keep it well formed.
LEMMA SameTree == TreeInv /\ UNCHANGED tree => TreeInv'
  BY DEF TreeInv, TreeTypeOK, WellPlaced, StashOrChildren, DistinctDigests

\* Every step keeps Base.
LEMMA NextBase == Base /\ [Next]_vars => Base'
<1> SUFFICES ASSUME Base, [Next]_vars PROVE Base'
  OBVIOUS
<1> USE ThreadAssumption, MetadataAssumption
    DEF Base, TypeOK, HandsOK, Busy, Procs, Main, Workers, mainVars, workVars
<1>0. UNCHANGED tree => TreeInv' /\ TreeTypeOK'
  BY SameTree DEF TreeInv
<1>1. CASE Spawn
  <2>1. spawned + 1 \in Procs /\ spawned' \in 0 .. threadCount'
    BY <1>1 DEF Spawn
  <2>2. TypeOK'
    BY <1>0, <1>1, <2>1 DEF Spawn
  <2>3. HandsOK'
    BY <1>1, <2>1 DEF Spawn
  <2> QED BY <1>0, <1>1, <2>2, <2>3 DEF Spawn
<1>2. CASE SpawnFails
  BY <1>0, <1>2 DEF SpawnFails
<1>3. CASE AllSpawned
  BY <1>0, <1>3 DEF AllSpawned
<1>4. CASE FtsRead
  BY <1>0, <1>4 DEF FtsRead
<1>5. CASE AppendEntry
  <2>1. queue' \in Seq(Entries)
    BY <1>5, ElemsAppend DEF AppendEntry
  <2>2. mpc' = "serial" /\ pc' = [pc EXCEPT ![Main] = "start"] => HandsOK' /\ TypeOK'
    BY <1>0, <1>5, <2>1 DEF AppendEntry
  <2>3. mpc' = "traverse" /\ UNCHANGED pc => HandsOK' /\ TypeOK'
    BY <1>0, <1>5, <2>1 DEF AppendEntry
  <2> QED BY <1>0, <1>5, <2>2, <2>3 DEF AppendEntry
<1>6. CASE SerialReturn
  BY <1>0, <1>6 DEF SerialReturn
<1>7. CASE SetDone
  BY <1>0, <1>7 DEF SetDone
<1>8. CASE Join
  BY <1>0, <1>8 DEF Join
<1>9. ASSUME NEW p \in Procs, DedupWork(p) PROVE Base'
  <2>1. CASE Start(p)
    BY <1>0, <2>1 DEF Start
  <2>2. CASE Pop(p)
    BY <1>0, <2>2, ElemsTail DEF Pop
  <2>3. CASE PopNothing(p)
    BY <1>0, <2>3 DEF PopNothing
  <2>4. CASE PollDone(p)
    BY <1>0, <2>4 DEF PollDone
  <2>5. CASE Populate(p)
    BY <1>0, <2>5 DEF Populate
  <2>6. CASE PopulateFails(p)
    BY <1>0, <2>6 DEF PopulateFails
  <2>7. CASE InsertVisited(p)
    <3>1. PICK was \in Entries \cup {NULL}, bad \in Entries \cup {NULL} :
            /\ pc[p] = "insert"
            /\ VisitedTreeInsert(cur[p], was, bad)
            /\ old' = [old EXCEPT ![p] = was]
            /\ diagnosed' = diagnosed \cup ({bad} \ {NULL})
            /\ pc' = [pc EXCEPT ![p] = IF was = NULL THEN "count" ELSE "list"]
            /\ UNCHANGED <<mainVars, queue, done, lists, found, total, completed, cur>>
      BY <2>7 DEF InsertVisited
    <3>2. cur[p] \in Entries
      BY <3>1
    <3>3. TreeInv' /\ TreeTypeOK'
      BY <3>1, <3>2, InsertKeepsTreeInv DEF TreeInv
    <3>4. TypeOK'
      BY <3>1, <3>3
    <3>5. HandsOK'
      BY <3>1
    <3> QED BY <3>3, <3>4, <3>5
  <2>8. CASE AddToList(p)
    <3> DEFINE d == Digest[cur[p]]
               l == IF lists[d] = <<>> THEN <<old[p]>> ELSE lists[d]
    <3>1. cur[p] \in Entries /\ old[p] \in Entries /\ d \in Digests
      BY <2>8 DEF AddToList, Digests
    <3>2. l \in Seq(Entries)
      BY <3>1
    <3>3. lists' = [lists EXCEPT ![d] = Append(l, cur[p])] /\ Append(l, cur[p]) \in Seq(Entries)
      BY <2>8, <3>1, <3>2, ElemsAppend DEF AddToList
    <3>4. lists' \in [Digests -> Seq(Entries)]
      BY <3>3
    <3> QED BY <1>0, <2>8, <3>4 DEF AddToList
  <2>9. CASE CountFound(p)
    BY <1>0, <2>9 DEF CountFound
  <2>10. CASE CountCompleted(p)
    BY <1>0, <2>10 DEF CountCompleted
  <2> QED
    BY <1>9, <2>1, <2>2, <2>3, <2>4, <2>5, <2>6, <2>7, <2>8, <2>9, <2>10 DEF DedupWork
<1>10. CASE UNCHANGED vars
  BY <1>0, <1>10 DEF vars
<1> QED
  BY <1>1, <1>2, <1>3, <1>4, <1>5, <1>6, <1>7, <1>8, <1>9, <1>10
  DEF Next, MainStep, Terminated

\* The types, the tree and the hands that all the other invariants rest on.
THEOREM ScanBase == Spec => []Base
<1> QED BY InitBase, NextBase, PTL DEF Spec

\* The types hold for any number of threads and files.
THEOREM ScanTypeOK == Spec => []TypeOK
<1>1. Base => TypeOK
  BY DEF Base
<1> QED BY <1>1, ScanBase, PTL

-----------------------------------------------------------------------------
(* No file is lost *)

\* NoSilentLoss, one file at a time.
Held(e) == \E p \in Procs : pc[p] \in Holding /\ cur[p] = e
OnSomeList(e) == \E d \in Digests : e \in Elems(lists[d])

Placed(e) ==
    \/ e \in remaining \/ hand = e \/ e \in Elems(queue) \/ Held(e)
    \/ e \in InTree \/ OnSomeList(e) \/ e \in diagnosed

AllPlaced == \A e \in Entries : Placed(e)

\* At the start every file remains to be traversed.
LEMMA InitPlaced == Init => AllPlaced
  BY DEF Init, AllPlaced, Placed

\* With a bar, every step leaves each file in one of its places.
LEMMA NextPlaced == ShowProgress /\ Base /\ AllPlaced /\ [Next]_vars => AllPlaced'
<1> SUFFICES ASSUME ShowProgress, Base, AllPlaced, [Next]_vars, NEW e \in Entries
             PROVE  Placed(e)'
  BY DEF AllPlaced
<1> USE MetadataAssumption, ThreadAssumption
    DEF mainVars, workVars, Holding
<1>p. Placed(e) /\ TypeOK /\ HandsOK /\ TreeInv
  BY DEF AllPlaced, Base
<1>t. UNCHANGED tree => (e \in InTree => e \in InTree')
  BY DEF InTree
<1>1. CASE Spawn
  <2>1. Held(e) => Held(e)'
    BY <1>1, <1>p DEF Spawn, Held, TypeOK, HandsOK, Procs, Workers
  <2> QED BY <1>1, <1>p, <1>t, <2>1 DEF Spawn, Placed, OnSomeList
<1>2. CASE SpawnFails
  BY <1>2, <1>p, <1>t DEF SpawnFails, Placed, Held, OnSomeList
<1>3. CASE AllSpawned
  BY <1>3, <1>p, <1>t DEF AllSpawned, Placed, Held, OnSomeList
<1>4. CASE FtsRead
  BY <1>4, <1>p, <1>t DEF FtsRead, Placed, Held, OnSomeList, HandsOK
<1>5. CASE AppendEntry
  <2>1. hand \in Entries /\ queue \in Seq(Entries)
    BY <1>5, <1>p DEF AppendEntry, TypeOK, HandsOK
  <2>2. Elems(queue') = Elems(queue) \cup {hand}
    BY <1>5, <2>1, ElemsAppend DEF AppendEntry
  <2>3. Held(e) => Held(e)'
    BY <1>5, <1>p DEF AppendEntry, Held, HandsOK, TypeOK, Main
  <2> QED BY <1>5, <1>p, <1>t, <2>2, <2>3 DEF AppendEntry, Placed, OnSomeList
<1>6. CASE SerialReturn
  <2>1. Held(e) => Held(e)'
    BY <1>6, <1>p DEF SerialReturn, Held, TypeOK
  <2> QED BY <1>6, <1>p, <1>t, <2>1 DEF SerialReturn, Placed, OnSomeList
<1>7. CASE SetDone
  BY <1>7, <1>p, <1>t DEF SetDone, Placed, Held, OnSomeList
<1>8. CASE Join
  BY <1>8, <1>p, <1>t DEF Join, Placed, Held, OnSomeList
<1>9. ASSUME NEW p \in Procs, DedupWork(p) PROVE Placed(e)'
  <2>1. CASE Start(p)
    <3>1. Held(e) => Held(e)'
      BY <2>1, <1>p DEF Start, Held, TypeOK
    <3> QED BY <2>1, <1>p, <1>t, <3>1 DEF Start, Placed, OnSomeList
  <2>2. CASE Pop(p)
    <3>1. Elems(queue) = Elems(queue') \cup {Head(queue)}
      BY <2>2, <1>p, ElemsTail DEF Pop, TypeOK
    <3>2. Held(e) => Held(e)'
      BY <2>2, <1>p DEF Pop, Held, TypeOK
    <3>3. e = Head(queue) => Held(e)'
      BY <2>2, <1>p DEF Pop, Held, TypeOK
    <3> QED BY <2>2, <1>p, <1>t, <3>1, <3>2, <3>3 DEF Pop, Placed, OnSomeList
  <2>3. CASE PopNothing(p)
    <3>1. Held(e) => Held(e)'
      BY <2>3, <1>p DEF PopNothing, Held, TypeOK
    <3> QED BY <2>3, <1>p, <1>t, <3>1 DEF PopNothing, Placed, OnSomeList
  <2>4. CASE PollDone(p)
    <3>1. Held(e) => Held(e)'
      BY <2>4, <1>p DEF PollDone, Held, TypeOK
    <3> QED BY <2>4, <1>p, <1>t, <3>1 DEF PollDone, Placed, OnSomeList
  <2>5. CASE Populate(p)
    <3>1. Held(e) => Held(e)'
      BY <2>5, <1>p DEF Populate, Held, TypeOK
    <3> QED BY <2>5, <1>p, <1>t, <3>1 DEF Populate, Placed, OnSomeList
  <2>6. CASE PopulateFails(p)
    <3>1. Held(e) /\ e # cur[p] => Held(e)'
      BY <2>6, <1>p DEF PopulateFails, Held, TypeOK
    <3> QED BY <2>6, <1>p, <1>t, <3>1 DEF PopulateFails, Placed, OnSomeList
  <2>7. CASE InsertVisited(p)
    <3>1. PICK was \in Entries \cup {NULL}, bad \in Entries \cup {NULL} :
            /\ pc[p] = "insert"
            /\ VisitedTreeInsert(cur[p], was, bad)
            /\ old' = [old EXCEPT ![p] = was]
            /\ diagnosed' = diagnosed \cup ({bad} \ {NULL})
            /\ pc' = [pc EXCEPT ![p] = IF was = NULL THEN "count" ELSE "list"]
            /\ UNCHANGED <<mainVars, queue, done, lists, found, total, completed, cur>>
      BY <2>7 DEF InsertVisited
    <3>2. cur[p] \in Entries
      BY <3>1, <1>p DEF TypeOK, HandsOK, Busy
    <3>3. Effect(cur[p], was, bad)
      BY <3>1, <3>2, <1>p, InsertEffect
    <3>4. /\ e \in InTree => e \in InTree' \/ e \in diagnosed'
          /\ was = NULL => cur[p] \in InTree' \/ cur[p] \in diagnosed'
      BY <3>1, <3>2, <3>3 DEF Effect, Remembered, Matched, Rejected, Forgotten, InTree
    <3>5. Held(e) /\ e # cur[p] => Held(e)'
      BY <3>1, <1>p DEF Held, TypeOK
    <3>6. was # NULL => Held(cur[p])'
      BY <3>1, <1>p DEF Held, TypeOK
    <3> QED BY <3>1, <1>p, <3>4, <3>5, <3>6 DEF Placed, OnSomeList
  <2>8. CASE AddToList(p)
    <3> DEFINE d == Digest[cur[p]]
               l == IF lists[d] = <<>> THEN <<old[p]>> ELSE lists[d]
    <3>1. cur[p] \in Entries /\ old[p] \in Entries /\ d \in Digests
      BY <2>8, <1>p DEF AddToList, Digests, TypeOK, HandsOK, Busy
    <3>2. l \in Seq(Entries) /\ Elems(lists[d]) \subseteq Elems(l)
      BY <3>1, <1>p, ElemsEmpty DEF TypeOK
    <3>3. /\ lists' = [lists EXCEPT ![d] = Append(l, cur[p])]
          /\ Elems(Append(l, cur[p])) = Elems(l) \cup {cur[p]}
      <4>1. lists' = [lists EXCEPT ![d] = Append(l, cur[p])]
        BY <2>8 DEF AddToList
      <4> HIDE DEF l
      <4>2. Elems(Append(l, cur[p])) = Elems(l) \cup {cur[p]}
        BY <3>1, <3>2, ElemsAppend
      <4> QED BY <4>1, <4>2
    <3>4. OnSomeList(e) \/ e = cur[p] => OnSomeList(e)'
      BY <3>1, <3>2, <3>3, <1>p DEF OnSomeList, TypeOK, Digests
    <3>5. Held(e) /\ e # cur[p] => Held(e)'
      BY <2>8, <1>p DEF AddToList, Held, TypeOK
    <3> QED BY <2>8, <1>p, <1>t, <3>4, <3>5 DEF AddToList, Placed
  <2>9. CASE CountFound(p)
    <3>1. Held(e) => Held(e)'
      BY <2>9, <1>p DEF CountFound, Held, TypeOK
    <3> QED BY <2>9, <1>p, <1>t, <3>1 DEF CountFound, Placed, OnSomeList
  <2>10. CASE CountCompleted(p)
    <3>1. Held(e) => Held(e)'
      BY <2>10, <1>p DEF CountCompleted, Held, TypeOK
    <3> QED BY <2>10, <1>p, <1>t, <3>1 DEF CountCompleted, Placed, OnSomeList
  <2> QED
    BY <1>9, <2>1, <2>2, <2>3, <2>4, <2>5, <2>6, <2>7, <2>8, <2>9, <2>10 DEF DedupWork
<1>10. CASE UNCHANGED vars
  BY <1>10, <1>p, <1>t DEF vars, Placed, Held, OnSomeList
<1> QED
  BY <1>1, <1>2, <1>3, <1>4, <1>5, <1>6, <1>7, <1>8, <1>9, <1>10
  DEF Next, MainStep, Terminated

\* A file in one of the places is not lost.
LEMMA PlacedIsNoSilentLoss == Base /\ AllPlaced => NoSilentLoss
<1> SUFFICES ASSUME Base, AllPlaced PROVE NoSilentLoss
  OBVIOUS
<1> USE MetadataAssumption
<1>1. /\ Queued = Elems(queue) /\ \A d \in Digests : OnList(d) = Elems(lists[d])
      /\ \A e \in Entries : OnSomeList(e) <=> e \in Listed
  BY DEF Queued, OnList, Elems, OnSomeList, Listed
<1>2. \A e \in Entries : Held(e) <=> e \in Pending
  BY DEF Held, Pending
<1>3. /\ remaining \subseteq Entries /\ InHand \subseteq Entries
      /\ diagnosed \subseteq Entries /\ InTree \subseteq Entries
  BY DEF Base, TypeOK, InHand, InTree
<1>4. Pending \subseteq Entries
  BY DEF Base, TypeOK, HandsOK, Busy, Pending, Holding
<1>5. Queued \subseteq Entries /\ Listed \subseteq Entries
  <2>1. \A s \in Seq(Entries) : Elems(s) \subseteq Entries
    BY DEF Elems
  <2> QED BY <1>1, <2>1 DEF Base, TypeOK, Listed
<1>6. \A e \in Entries : hand = e <=> e \in InHand
  BY DEF InHand
<1> QED BY <1>1, <1>2, <1>3, <1>4, <1>5, <1>6 DEF AllPlaced, Placed, NoSilentLoss

\* With the progress display on, every file of the traversal stays accounted
\* for through queue, threads, tree, lists and diagnostics.
THEOREM ScanNoSilentLoss == ShowProgress => (Spec => []NoSilentLoss)
<1> SUFFICES ASSUME ShowProgress PROVE Spec => []NoSilentLoss
  OBVIOUS
<1>1. Base /\ AllPlaced /\ [Next]_vars => AllPlaced'
  BY NextPlaced
<1> QED
  BY <1>1, InitPlaced, ScanBase, PlacedIsNoSilentLoss, PTL DEF Spec

-----------------------------------------------------------------------------
(* No file is worked on twice, and a match stays right *)

Waiting(e) == e \in remaining \/ hand = e \/ e \in Elems(queue)
Carried(e) == \E p \in Procs : cur[p] = e
Gone(e) == e \in InTree \/ OnSomeList(e) \/ e \in diagnosed

OnceFor(e) ==
    /\ ~(e \in remaining /\ hand = e)
    /\ ~(e \in remaining /\ e \in Elems(queue))
    /\ ~(hand = e /\ e \in Elems(queue))
    /\ Waiting(e) => ~Carried(e) /\ ~Gone(e)
    /\ Held(e) => ~Gone(e)
    /\ ~(e \in InTree /\ e \in diagnosed)
    /\ OnSomeList(e) => e \notin diagnosed /\ (e \in InTree => Fixed(e))

CurDistinct == \A p, q \in Procs : cur[p] # NULL /\ cur[p] = cur[q] => p = q

MatchFor(p) ==
    old[p] # NULL =>
        Fixed(old[p]) /\ SameFile(old[p], cur[p]) /\ cur[p] # old[p]

Once ==
    /\ NoRepeat(queue) /\ CurDistinct
    /\ \A e \in Entries : OnceFor(e)
    /\ \A p \in Procs : MatchFor(p)

\* Once holds at the start.
LEMMA InitOnce == Init => Once
<1> SUFFICES ASSUME Init PROVE Once
  OBVIOUS
<1> USE MetadataAssumption
<1>1. InTree = {}
  BY BucketInBuckets DEF Init, TreeInit, NewCharNode, InTree
<1>2. NoRepeat(queue) /\ Elems(queue) = {} /\ \A d \in Digests : Elems(lists[d]) = {}
  BY ElemsEmpty DEF Init
<1>3. \A p \in Procs : cur[p] = NULL /\ old[p] = NULL
  BY DEF Init
<1>4. ASSUME NEW e \in Entries PROVE OnceFor(e)
  BY <1>1, <1>2, <1>3 DEF Init, OnceFor, Waiting, Carried, Gone, Held, OnSomeList
<1> QED BY <1>2, <1>3, <1>4 DEF Once, CurDistinct, MatchFor

\* A step that moves no entry and leaves the tree and the lists alone.
LEMMA OnceStutter ==
  ASSUME Base, Once,
         UNCHANGED <<tree, remaining, hand, queue, lists, diagnosed, cur, old>>,
         \A p \in Procs : pc'[p] \in Holding => pc[p] \in Holding
  PROVE  Once'
<1>1. NoRepeat(queue)' /\ CurDistinct' /\ \A p \in Procs : MatchFor(p)'
  BY DEF Once, CurDistinct, NoRepeat, MatchFor, Fixed
<1>2. ASSUME NEW e \in Entries PROVE OnceFor(e)'
  <2>1. /\ Held(e)' => Held(e)
        /\ (Carried(e)' <=> Carried(e)) /\ InTree' = InTree
        /\ OnSomeList(e)' <=> OnSomeList(e)
        /\ Fixed(e)' <=> Fixed(e)
    BY DEF Held, Carried, OnSomeList, InTree, Fixed
  <2>2. OnceFor(e)
    BY DEF Once
  <2> QED BY <2>1, <2>2 DEF OnceFor, Waiting, Gone
<1> QED BY <1>1, <1>2 DEF Once

\* The steps of main keep Once.
LEMMA OnceMain == Base /\ Once /\ MainStep => Once'
<1> SUFFICES ASSUME Base, Once, MainStep PROVE Once'
  OBVIOUS
<1> USE MetadataAssumption, ThreadAssumption DEF mainVars, workVars, Procs, Main, Workers
<1>p. TypeOK /\ HandsOK
  BY DEF Base
<1>1. CASE Spawn
  BY <1>1, <1>p, OnceStutter DEF Spawn, TypeOK, Holding
<1>2. CASE SpawnFails
  BY <1>2, OnceStutter DEF SpawnFails
<1>3. CASE AllSpawned
  BY <1>3, OnceStutter DEF AllSpawned
<1>4. CASE FtsRead
  <2>1. NoRepeat(queue)' /\ CurDistinct' /\ \A p \in Procs : MatchFor(p)'
    BY <1>4 DEF FtsRead, Once, CurDistinct, NoRepeat, MatchFor, Fixed
  <2>2. ASSUME NEW e \in Entries PROVE OnceFor(e)'
    <3>1. /\ (Held(e)' <=> Held(e)) /\ InTree' = InTree
          /\ Carried(e)' <=> Carried(e)
          /\ OnSomeList(e)' <=> OnSomeList(e)
          /\ Fixed(e)' <=> Fixed(e)
      BY <1>4 DEF FtsRead, Held, Carried, OnSomeList, InTree, Fixed
    <3>2. OnceFor(e) /\ diagnosed' = diagnosed /\ queue' = queue
      BY <1>4 DEF Once, FtsRead
    <3>3. /\ e \in remaining' => e \in remaining /\ hand' # e
          /\ hand' = e => e \in remaining /\ e \notin remaining'
      BY <1>4 DEF FtsRead
    <3> QED BY <3>1, <3>2, <3>3 DEF OnceFor, Waiting, Gone
  <2> QED BY <2>1, <2>2 DEF Once
<1>5. CASE AppendEntry
  <2>1. hand \in Entries /\ queue \in Seq(Entries)
    BY <1>5, <1>p DEF AppendEntry, TypeOK, HandsOK
  <2>2. OnceFor(hand)
    BY <2>1 DEF Once
  <2>3. Elems(queue') = Elems(queue) \cup {hand} /\ NoRepeat(queue')
    BY <1>5, <2>1, <2>2, ElemsAppend DEF AppendEntry, Once, OnceFor
  <2>4. CurDistinct' /\ \A p \in Procs : MatchFor(p)'
    BY <1>5 DEF AppendEntry, Once, CurDistinct, MatchFor, Fixed
  <2>5. ASSUME NEW e \in Entries PROVE OnceFor(e)'
    <3>1. Held(e)' => Held(e)
      BY <1>5, <1>p DEF AppendEntry, Held, Holding, TypeOK
    <3>2. /\ (Carried(e)' <=> Carried(e)) /\ InTree' = InTree
          /\ OnSomeList(e)' <=> OnSomeList(e)
          /\ Fixed(e)' <=> Fixed(e)
      BY <1>5 DEF AppendEntry, Carried, OnSomeList, InTree, Fixed
    <3>3. OnceFor(e) /\ diagnosed' = diagnosed /\ remaining' = remaining /\ hand' = NULL
      BY <1>5 DEF Once, AppendEntry
    <3> QED BY <2>1, <2>3, <3>1, <3>2, <3>3 DEF OnceFor, Waiting, Gone
  <2> QED BY <2>3, <2>4, <2>5 DEF Once
<1>6. CASE SerialReturn
  BY <1>6, <1>p, OnceStutter DEF SerialReturn, TypeOK, Holding
<1>7. CASE SetDone
  BY <1>7, OnceStutter DEF SetDone
<1>8. CASE Join
  BY <1>8, OnceStutter DEF Join
<1> QED
  BY <1>1, <1>2, <1>3, <1>4, <1>5, <1>6, <1>7, <1>8 DEF MainStep

\* Taking an entry off the queue keeps Once.
LEMMA OncePop ==
  ASSUME Base, Once, NEW p \in Procs, Pop(p)
  PROVE  Once'
<1> USE MetadataAssumption DEF mainVars
<1>p. TypeOK /\ HandsOK
  BY DEF Base
<1> DEFINE h == Head(queue)
<1>1. /\ h \in Entries /\ Elems(queue) = Elems(queue') \cup {h}
      /\ NoRepeat(queue') /\ h \notin Elems(queue')
  BY <1>p, ElemsTail DEF Pop, TypeOK, Once
<1>2. OnceFor(h) /\ cur[p] = NULL /\ old[p] = NULL
  BY <1>1, <1>p DEF Once, Pop, HandsOK, Busy
<1>3. \A q \in Procs : cur[q] # h
  BY <1>1, <1>2 DEF OnceFor, Waiting, Carried
<1>4. cur' = [cur EXCEPT ![p] = h] /\ pc' = [pc EXCEPT ![p] = "metadata"]
  BY DEF Pop
<1> HIDE DEF h
<1>5. CurDistinct'
  BY <1>3, <1>4, <1>p DEF Once, CurDistinct, TypeOK
<1>6. ASSUME NEW q \in Procs PROVE MatchFor(q)'
  BY <1>2, <1>4, <1>p DEF Pop, Once, MatchFor, Fixed, TypeOK
<1>7. ASSUME NEW e \in Entries PROVE OnceFor(e)'
  <2>1. /\ Held(e)' => Held(e) \/ e = h
        /\ Carried(e)' => Carried(e) \/ e = h
    BY <1>4, <1>p DEF Held, Carried, TypeOK
  <2>2. /\ InTree' = InTree /\ diagnosed' = diagnosed
        /\ remaining' = remaining /\ hand' = hand
        /\ OnSomeList(e)' <=> OnSomeList(e)
        /\ Fixed(e)' <=> Fixed(e)
    BY DEF Pop, InTree, OnSomeList, Fixed
  <2>3. OnceFor(e)
    BY DEF Once
  <2> QED BY <1>1, <2>1, <2>2, <2>3 DEF OnceFor, Waiting, Gone
<1> QED BY <1>1, <1>5, <1>6, <1>7 DEF Once

\* An unreadable file is reported and nowhere else.
LEMMA OncePopulateFails ==
  ASSUME Base, Once, NEW p \in Procs, PopulateFails(p)
  PROVE  Once'
<1> USE MetadataAssumption DEF mainVars
<1>p. TypeOK /\ HandsOK
  BY DEF Base
<1>1. cur[p] \in Entries /\ Held(cur[p])
  BY <1>p DEF PopulateFails, HandsOK, Busy, Held, Holding
<1>2. OnceFor(cur[p])
  BY <1>1 DEF Once
<1>3. NoRepeat(queue)' /\ CurDistinct' /\ \A q \in Procs : MatchFor(q)'
  BY DEF PopulateFails, Once, CurDistinct, NoRepeat, MatchFor, Fixed
<1>4. ASSUME NEW e \in Entries PROVE OnceFor(e)'
  <2>1. Held(e)' => Held(e) /\ e # cur[p]
    BY <1>p DEF PopulateFails, Held, Holding, TypeOK, Once, CurDistinct
  <2>2. /\ InTree' = InTree /\ remaining' = remaining /\ hand' = hand /\ queue' = queue
        /\ Carried(e)' <=> Carried(e)
        /\ OnSomeList(e)' <=> OnSomeList(e)
        /\ Fixed(e)' <=> Fixed(e)
    BY DEF PopulateFails, InTree, OnSomeList, Fixed, Carried
  <2>3. diagnosed' \subseteq diagnosed \cup {cur[p]}
    BY DEF PopulateFails
  <2>4. OnceFor(e)
    BY DEF Once
  <2>5. Waiting(e) => e # cur[p]
    BY <2>4 DEF OnceFor, Carried
  <2> QED BY <1>1, <1>2, <2>1, <2>2, <2>3, <2>4, <2>5 DEF OnceFor, Waiting, Gone
<1> QED BY <1>3, <1>4 DEF Once

\* Letting go of an entry keeps Once.
LEMMA OnceCountCompleted ==
  ASSUME Base, Once, NEW p \in Procs, CountCompleted(p)
  PROVE  Once'
<1> USE MetadataAssumption DEF mainVars
<1>p. TypeOK /\ HandsOK
  BY DEF Base
<1>1. /\ cur' = [cur EXCEPT ![p] = NULL] /\ old' = [old EXCEPT ![p] = NULL]
      /\ \A q \in Procs : pc'[q] \in Holding => q # p /\ pc[q] \in Holding
  BY <1>p DEF CountCompleted, TypeOK, Holding
<1>2. NoRepeat(queue)' /\ CurDistinct' /\ \A q \in Procs : MatchFor(q)'
  BY <1>p, <1>1 DEF CountCompleted, Once, CurDistinct, NoRepeat, MatchFor, Fixed, TypeOK
<1>3. ASSUME NEW e \in Entries PROVE OnceFor(e)'
  <2>1. (Held(e)' => Held(e)) /\ (Carried(e)' => Carried(e))
    BY <1>p, <1>1 DEF Held, Carried, TypeOK
  <2>2. /\ InTree' = InTree /\ diagnosed' = diagnosed
        /\ remaining' = remaining /\ hand' = hand /\ queue' = queue
        /\ OnSomeList(e)' <=> OnSomeList(e)
        /\ Fixed(e)' <=> Fixed(e)
    BY DEF CountCompleted, InTree, OnSomeList, Fixed
  <2>3. OnceFor(e)
    BY DEF Once
  <2> QED BY <2>1, <2>2, <2>3 DEF OnceFor, Waiting, Gone
<1> QED BY <1>2, <1>3 DEF Once

\* The copy of the match that is taken under visited_mutex stays a file of
\* the tree, because a matched file is fixed there.
LEMMA OnceInsertVisited ==
  ASSUME Base, Once, NEW p \in Procs, InsertVisited(p)
  PROVE  Once'
<1> USE MetadataAssumption DEF mainVars
<1>p. TypeOK /\ HandsOK /\ TreeInv
  BY DEF Base
<1>1. PICK was \in Entries \cup {NULL}, bad \in Entries \cup {NULL} :
        /\ pc[p] = "insert"
        /\ VisitedTreeInsert(cur[p], was, bad)
        /\ old' = [old EXCEPT ![p] = was]
        /\ diagnosed' = diagnosed \cup ({bad} \ {NULL})
        /\ pc' = [pc EXCEPT ![p] = IF was = NULL THEN "count" ELSE "list"]
        /\ UNCHANGED <<mainVars, queue, done, lists, found, total, completed, cur>>
  BY DEF InsertVisited
<1> DEFINE c == cur[p]
<1>2. c \in Entries /\ Held(c) /\ OnceFor(c)
  BY <1>1, <1>p DEF HandsOK, Busy, TypeOK, Held, Holding, Once
<1>3. Effect(c, was, bad)
  BY <1>1, <1>2, <1>p, InsertEffect
<1>4. /\ \A f \in Entries : Fixed(f) => Fixed(f)'
      /\ was # NULL => Fixed(was)'
  BY <1>1, <1>2, <1>p, InsertKeepsFixed
<1>5. c \notin InTree /\ ~OnSomeList(c) /\ c \notin diagnosed
  BY <1>2 DEF OnceFor, Gone
<1>6. \A f \in Entries : Fixed(f)' => f \in InTree'
  BY DEF Fixed, InTree
<1>7. /\ InTree' \subseteq InTree \cup {c} /\ InTree \subseteq Entries
      /\ bad # NULL => bad \notin InTree' /\ (bad = c \/ bad \in InTree)
      /\ bad = c => was = NULL /\ InTree' = InTree
      /\ was # NULL => was \in InTree /\ SameFile(was, c) /\ bad = NULL /\ InTree' = InTree
  BY <1>3, <1>5, <1>2 DEF Effect, Remembered, Matched, Rejected, Forgotten, InTree
<1>8. NoRepeat(queue)' /\ CurDistinct'
  BY <1>1 DEF Once, CurDistinct, NoRepeat
<1>9. ASSUME NEW q \in Procs PROVE MatchFor(q)'
  <2>1. CASE q = p
    BY <1>1, <1>4, <1>5, <1>7, <2>1, <1>p DEF MatchFor, TypeOK
  <2>2. CASE q # p
    <3>1. old'[q] = old[q] /\ cur'[q] = cur[q] /\ old[q] \in Entries \cup {NULL}
      BY <1>1, <2>2, <1>p DEF TypeOK
    <3> QED BY <1>4, <3>1 DEF Once, MatchFor, Fixed
  <2> QED BY <2>1, <2>2
<1>10. ASSUME NEW e \in Entries PROVE OnceFor(e)'
  <2>1. Held(e)' => Held(e) /\ (e = c => was # NULL)
    BY <1>1, <1>p DEF Held, Holding, TypeOK, Once, CurDistinct
  <2>2. /\ remaining' = remaining /\ hand' = hand /\ queue' = queue
        /\ Carried(e)' <=> Carried(e)
        /\ OnSomeList(e)' <=> OnSomeList(e)
    BY <1>1 DEF OnSomeList, Carried
  <2>3. OnceFor(e)
    BY DEF Once
  <2>4. Waiting(e) => e # c
    BY <2>3 DEF OnceFor, Carried
  <2>5. CASE e = c
    BY <1>1, <1>2, <1>5, <1>7, <2>1, <2>2, <2>4, <2>5 DEF OnceFor, Waiting, Gone
  <2>6. CASE e # c
    <3>1. (e \in InTree' => e \in InTree) /\ (e \in diagnosed' => e \in diagnosed \/ e = bad)
      BY <1>1, <1>7, <2>6
    <3>2. e = bad => e \in InTree /\ e \notin InTree' /\ ~Fixed(e)
      BY <1>4, <1>6, <1>7, <2>6
    <3>3. Waiting(e)' <=> Waiting(e)
      BY <2>2 DEF Waiting
    <3>4. Waiting(e) \/ Held(e) => e # bad
      BY <3>2, <2>3 DEF OnceFor, Gone
    <3>5. OnSomeList(e) => e # bad
      BY <3>2, <2>3 DEF OnceFor
    <3> QED BY <1>4, <2>1, <2>2, <2>3, <3>1, <3>2, <3>3, <3>4, <3>5 DEF OnceFor, Gone
  <2> QED BY <2>5, <2>6
<1> QED BY <1>8, <1>9, <1>10 DEF Once

\* Listing a duplicate keeps Once.
LEMMA OnceAddToList ==
  ASSUME Base, Once, NEW p \in Procs, AddToList(p)
  PROVE  Once'
<1> USE MetadataAssumption DEF mainVars
<1>p. TypeOK /\ HandsOK
  BY DEF Base
<1> DEFINE c == cur[p]
           r == old[p]
           d == Digest[c]
           l == IF lists[d] = <<>> THEN <<r>> ELSE lists[d]
<1>1. c \in Entries /\ r \in Entries /\ d \in Digests
  BY <1>p DEF AddToList, Digests, TypeOK, HandsOK, Busy
<1>2. l \in Seq(Entries) /\ Elems(l) \subseteq Elems(lists[d]) \cup {r}
  <2>1. CASE lists[d] = <<>>
    BY <1>1, <2>1 DEF Elems
  <2>2. CASE lists[d] # <<>>
    BY <1>1, <1>p, <2>2 DEF TypeOK
  <2> QED BY <2>1, <2>2
<1>3. lists' = [lists EXCEPT ![d] = Append(l, c)]
  BY DEF AddToList
<1>4. Elems(Append(l, c)) = Elems(l) \cup {c}
  <2> HIDE DEF l, c
  <2> QED BY <1>1, <1>2, ElemsAppend
<1>5. \A e \in Entries : OnSomeList(e)' => OnSomeList(e) \/ e = c \/ e = r
  <2> HIDE DEF l, c, r, d
  <2> QED BY <1>1, <1>2, <1>3, <1>4, <1>p DEF OnSomeList, TypeOK
<1>6. Held(c) /\ OnceFor(c)
  BY <1>1 DEF AddToList, Held, Holding, Once
<1>7. Fixed(r) /\ r \in InTree /\ OnceFor(r) /\ c # r
  BY <1>1, FixedInTree DEF Once, MatchFor
<1>8. NoRepeat(queue)' /\ CurDistinct' /\ \A q \in Procs : MatchFor(q)'
  BY DEF AddToList, Once, CurDistinct, NoRepeat, MatchFor, Fixed
<1>9. ASSUME NEW e \in Entries PROVE OnceFor(e)'
  <2>1. Held(e)' => Held(e) /\ e # c
    BY <1>p DEF AddToList, Held, Holding, TypeOK, Once, CurDistinct
  <2>2. /\ InTree' = InTree /\ remaining' = remaining /\ hand' = hand /\ queue' = queue
        /\ diagnosed' = diagnosed
        /\ Carried(e)' <=> Carried(e)
        /\ Fixed(e)' <=> Fixed(e)
    BY DEF AddToList, InTree, Fixed, Carried
  <2>3. OnceFor(e)
    BY DEF Once
  <2>4. Waiting(e) => e # c
    BY <2>3 DEF OnceFor, Carried
  <2> HIDE DEF c, r
  <2>5. e = c => e \notin InTree /\ e \notin diagnosed /\ ~Waiting(e)
    BY <1>6, <2>4 DEF OnceFor, Gone
  <2>6. e = r => e \in InTree /\ Fixed(e) /\ e \notin diagnosed /\ ~Waiting(e) /\ ~Held(e)
    BY <1>7 DEF OnceFor, Gone
  <2> QED BY <1>5, <2>1, <2>2, <2>3, <2>5, <2>6 DEF OnceFor, Waiting, Gone
<1> QED BY <1>8, <1>9 DEF Once

\* Every step keeps Once.
LEMMA NextOnce == Base /\ Once /\ [Next]_vars => Once'
<1> SUFFICES ASSUME Base, Once, [Next]_vars PROVE Once'
  OBVIOUS
<1> USE DEF mainVars, workVars
<1>p. TypeOK
  BY DEF Base
<1>1. CASE MainStep
  BY <1>1, OnceMain
<1>2. ASSUME NEW p \in Procs, DedupWork(p) PROVE Once'
  <2>1. CASE Start(p)
    BY <2>1, <1>p, OnceStutter DEF Start, TypeOK, Holding
  <2>2. CASE Pop(p)
    BY <2>2, OncePop
  <2>3. CASE PopNothing(p)
    BY <2>3, <1>p, OnceStutter DEF PopNothing, TypeOK, Holding
  <2>4. CASE PollDone(p)
    BY <2>4, <1>p, OnceStutter DEF PollDone, TypeOK, Holding
  <2>5. CASE Populate(p)
    BY <2>5, <1>p, OnceStutter DEF Populate, TypeOK, Holding
  <2>6. CASE PopulateFails(p)
    BY <2>6, OncePopulateFails
  <2>7. CASE InsertVisited(p)
    BY <2>7, OnceInsertVisited
  <2>8. CASE AddToList(p)
    BY <2>8, OnceAddToList
  <2>9. CASE CountFound(p)
    BY <2>9, <1>p, OnceStutter DEF CountFound, TypeOK, Holding
  <2>10. CASE CountCompleted(p)
    BY <2>10, OnceCountCompleted
  <2> QED
    BY <1>2, <2>1, <2>2, <2>3, <2>4, <2>5, <2>6, <2>7, <2>8, <2>9, <2>10 DEF DedupWork
<1>3. CASE UNCHANGED vars
  BY <1>3, OnceStutter DEF vars
<1> QED BY <1>1, <1>2, <1>3 DEF Next, Terminated

\* Once says that no file is worked on twice.
LEMMA OnceIsEachOnce == Base /\ Once => EachOnce
<1> SUFFICES ASSUME Base, Once PROVE EachOnce
  OBVIOUS
<1> USE MetadataAssumption
<1>p. TypeOK
  BY DEF Base
<1>1. /\ Queued = Elems(queue) /\ Queued \subseteq Entries
      /\ \A d \in Digests : OnList(d) = Elems(lists[d])
      /\ \A e \in Entries : e \in Listed => OnSomeList(e)
  BY <1>p DEF Queued, OnList, Elems, OnSomeList, Listed, TypeOK
<1>2. \A e \in Entries : (e \in Pending => Held(e)) /\ (Held(e) => Carried(e))
  BY DEF Held, Pending, Carried
<1>3. /\ remaining \subseteq Entries /\ InTree \subseteq Entries /\ diagnosed \subseteq Entries
      /\ InHand \subseteq Entries /\ \A e \in Entries : e \in InHand => hand = e
  BY <1>p DEF TypeOK, InHand, InTree
<1>4. Pending \subseteq Entries
  BY <1>p DEF Base, TypeOK, HandsOK, Busy, Pending, Holding
<1>5. \A e \in Entries : OnceFor(e)
  BY DEF Once
<1>6. /\ (remaining \cup InHand) \cap (Queued \cup Pending) = {}
      /\ remaining \cap InHand = {}
      /\ Queued \cap Pending = {}
  BY <1>1, <1>2, <1>3, <1>4, <1>5 DEF OnceFor, Waiting
<1>7. /\ (remaining \cup InHand \cup Queued \cup Pending) \cap InTree = {}
      /\ (remaining \cup InHand \cup Queued \cup Pending) \cap Listed = {}
      /\ (InTree \cup Listed) \cap diagnosed = {}
  BY <1>1, <1>2, <1>3, <1>4, <1>5 DEF OnceFor, Waiting, Gone
<1> QED BY <1>6, <1>7 DEF Once, NoRepeat, CurDistinct, EachOnce

\* Once says that a held match is right.
LEMMA OnceIsMatchHeld == Base /\ Once => MatchHeld
<1> SUFFICES ASSUME Base, Once, NEW p \in Procs, old[p] # NULL
             PROVE  /\ cur[p] # NULL /\ cur[p] # old[p]
                    /\ old[p] \in InTree /\ SameFile(old[p], cur[p])
  BY DEF MatchHeld
<1>1. old[p] \in Entries /\ cur[p] # NULL
  BY DEF Base, TypeOK, HandsOK, Busy
<1> QED BY <1>1, FixedInTree DEF Once, MatchFor

\* Whatever the number of threads and their interleaving, no file is queued,
\* held or settled twice.
THEOREM ScanEachOnce == Spec => []EachOnce
<1> QED BY InitOnce, NextOnce, ScanBase, OnceIsEachOnce, PTL DEF Spec

\* The match a thread carries from one mutex to the next stays a file of the
\* tree with the same content on the same device.
THEOREM ScanMatchHeld == Spec => []MatchHeld
<1> QED BY InitOnce, NextOnce, ScanBase, OnceIsMatchHeld, PTL DEF Spec

-----------------------------------------------------------------------------
(* The lists of the duplicate tree *)

Shape(l, d) ==
    /\ Len(l) # 1 /\ NoRepeat(l)
    /\ \A e \in Elems(l) : Digest[e] = d
Shapes == \A d \in Digests : Shape(lists[d], d)

\* A listed file has its first file fixed in the tree.
RepFixed ==
    \A e \in Entries : OnSomeList(e) => \E r \in Entries : Fixed(r) /\ SameFile(r, e)

\* What the section under duplicates_mutex does to the list.
LEMMA Listing ==
  ASSUME Base, Once, NEW p \in Procs, AddToList(p)
  PROVE  /\ cur[p] \in Entries /\ old[p] \in Entries /\ Digest[cur[p]] \in Digests
         /\ ~OnSomeList(cur[p]) /\ cur[p] \notin InTree /\ cur[p] # old[p]
         /\ Fixed(old[p]) /\ old[p] \in InTree /\ SameFile(old[p], cur[p])
         /\ UNCHANGED tree
         /\ \E l \in Seq(Entries) :
              /\ lists' = [lists EXCEPT ![Digest[cur[p]]] = l]
              /\ Elems(l) = {cur[p]} \cup (IF lists[Digest[cur[p]]] = <<>> THEN {old[p]}
                                           ELSE Elems(lists[Digest[cur[p]]]))
              /\ Len(l) # 1
              /\ NoRepeat(lists[Digest[cur[p]]]) => NoRepeat(l)
<1> USE MetadataAssumption DEF mainVars
<1>p. TypeOK /\ HandsOK
  BY DEF Base
<1> DEFINE c == cur[p]
           r == old[p]
           d == Digest[c]
           k == lists[d]
           l == IF k = <<>> THEN <<r>> ELSE k
<1>1. c \in Entries /\ r \in Entries /\ d \in Digests
  BY <1>p DEF AddToList, Digests, TypeOK, HandsOK, Busy
<1>2. Held(c) /\ OnceFor(c)
  BY <1>1 DEF AddToList, Held, Holding, Once
<1>3. Fixed(r) /\ r \in InTree /\ SameFile(r, c) /\ c # r
  BY <1>1, FixedInTree DEF Once, MatchFor
<1>4. ~OnSomeList(c) /\ c \notin InTree
  BY <1>2 DEF OnceFor, Gone
<1>5. k \in Seq(Entries) /\ c \notin Elems(k)
  BY <1>1, <1>4, <1>p DEF TypeOK, OnSomeList
<1>6. lists' = [lists EXCEPT ![d] = Append(l, c)] /\ UNCHANGED tree
  BY DEF AddToList
<1>7. l \in Seq(Entries) /\ Len(l) # 0 /\ Elems(l) = IF k = <<>> THEN {r} ELSE Elems(k)
  <2> HIDE DEF k, r
  <2>1. CASE k = <<>>
    BY <1>1, <2>1 DEF Elems
  <2>2. CASE k # <<>>
    BY <1>5, <2>2
  <2> QED BY <2>1, <2>2
<1>8. c \notin Elems(l) /\ (NoRepeat(k) => NoRepeat(l))
  <2>1. CASE k = <<>>
    <3>1. l = <<r>> /\ NoRepeat(<<r>>)
      BY <2>1 DEF NoRepeat
    <3> QED BY <1>3, <1>7, <2>1, <3>1
  <2>2. CASE k # <<>>
    <3>1. l = k
      BY <2>2
    <3> QED BY <1>5, <3>1
  <2> QED BY <2>1, <2>2
<1>9. Append(l, c) \in Seq(Entries) /\ Elems(Append(l, c)) = Elems(l) \cup {c}
      /\ Len(Append(l, c)) # 1 /\ (NoRepeat(k) => NoRepeat(Append(l, c)))
  <2> HIDE DEF l, c, k
  <2>1. Len(Append(l, c)) # 1
    BY <1>1, <1>7
  <2> QED BY <1>1, <1>7, <1>8, <2>1, ElemsAppend
<1> HIDE DEF l
<1> QED BY <1>1, <1>3, <1>4, <1>6, <1>7, <1>9

\* What the section under visited_mutex leaves of the tree and the lists.
LEMMA Inserting ==
  ASSUME Base, Once, NEW p \in Procs, InsertVisited(p)
  PROVE  /\ UNCHANGED lists
         /\ \A f \in Entries : Fixed(f) => Fixed(f)'
         /\ \A f \in Entries : OnSomeList(f) => (f \in InTree' <=> f \in InTree)
         /\ TreeInv'
<1> USE MetadataAssumption DEF mainVars
<1>p. TypeOK /\ HandsOK /\ TreeInv
  BY DEF Base
<1>1. PICK was \in Entries \cup {NULL}, bad \in Entries \cup {NULL} :
        /\ pc[p] = "insert" /\ VisitedTreeInsert(cur[p], was, bad) /\ UNCHANGED lists
  BY DEF InsertVisited
<1> DEFINE c == cur[p]
<1>2. c \in Entries /\ Held(c) /\ OnceFor(c)
  BY <1>1, <1>p DEF HandsOK, Busy, TypeOK, Held, Holding, Once
<1>3. Effect(c, was, bad)
  BY <1>1, <1>2, <1>p, InsertEffect
<1>4. \A f \in Entries : Fixed(f) => Fixed(f)'
  BY <1>1, <1>2, <1>p, InsertKeepsFixed
<1>5. ~OnSomeList(c) /\ InTree \ {bad} \subseteq InTree' /\ InTree' \subseteq InTree \cup {c}
  BY <1>2, <1>3 DEF OnceFor, Gone, Effect, Remembered, Matched, Rejected, Forgotten
<1>6. ASSUME NEW f \in Entries, OnSomeList(f) PROVE f \in InTree' <=> f \in InTree
  <2>1. f \in InTree => Fixed(f)
    BY <1>6 DEF Once, OnceFor
  <2>2. Fixed(f) => f \in InTree'
    BY <1>4 DEF Fixed, InTree
  <2> QED BY <1>5, <1>6, <2>1, <2>2
<1>7. TreeInv'
  BY <1>1, <1>2, <1>p, InsertKeepsTreeInv
<1> QED BY <1>1, <1>4, <1>6, <1>7

\* The two sections that change the tree or the lists.
LEMMA TreeOrLists ==
  ASSUME [Next]_vars
  PROVE  \/ UNCHANGED <<tree, lists>>
         \/ \E p \in Procs : InsertVisited(p) \/ AddToList(p)
BY DEF Next, MainStep, DedupWork, Terminated, vars, Spawn, SpawnFails, AllSpawned, FtsRead,
       AppendEntry, SerialReturn, SetDone, Join, Start, Pop, PopNothing, PollDone, Populate,
       PopulateFails, CountFound, CountCompleted

\* Every step keeps the lists in shape and their first files fixed.
LEMMA NextLists ==
  ASSUME Base, Once, Shapes, RepFixed, [Next]_vars
  PROVE  Shapes' /\ RepFixed'
<1>p. TypeOK
  BY DEF Base
<1>1. CASE UNCHANGED <<tree, lists>>
  BY <1>1 DEF Shapes, RepFixed, OnSomeList, Fixed
<1>2. ASSUME NEW p \in Procs, InsertVisited(p) PROVE Shapes' /\ RepFixed'
  <2>1. UNCHANGED lists /\ \A f \in Entries : Fixed(f) => Fixed(f)'
    BY <1>2, Inserting
  <2> QED BY <2>1 DEF Shapes, RepFixed, OnSomeList
<1>3. ASSUME NEW p \in Procs, AddToList(p) PROVE Shapes' /\ RepFixed'
  <2> DEFINE c == cur[p]
             r == old[p]
             d == Digest[c]
  <2>1. /\ c \in Entries /\ r \in Entries /\ d \in Digests
        /\ Fixed(r) /\ SameFile(r, c) /\ UNCHANGED tree
    BY <1>3, Listing
  <2>2. PICK l \in Seq(Entries) :
          /\ lists' = [lists EXCEPT ![d] = l]
          /\ Elems(l) = {c} \cup (IF lists[d] = <<>> THEN {r} ELSE Elems(lists[d]))
          /\ Len(l) # 1 /\ (NoRepeat(lists[d]) => NoRepeat(l))
    BY <1>3, Listing
  <2>3. Digest[r] = Digest[c]
    BY <2>1 DEF SameFile
  <2>4. d = Digest[c]
    OBVIOUS
  <2> HIDE DEF c, r, d
  <2>5. Shape(l, d)
    BY <2>1, <2>2, <2>3, <2>4 DEF Shapes, Shape
  <2>6. Shapes'
    BY <2>1, <2>2, <2>5, <1>p DEF Shapes, TypeOK
  <2>7. \A e \in Entries : OnSomeList(e)' => OnSomeList(e) \/ e = c \/ e = r
    BY <2>1, <2>2, <1>p DEF OnSomeList, TypeOK
  <2>8. SameFile(r, r)
    BY DEF SameFile
  <2>9. \A f \in Entries : Fixed(f)' <=> Fixed(f)
    BY <2>1 DEF Fixed
  <2>10. RepFixed'
    BY <2>1, <2>7, <2>8, <2>9 DEF RepFixed
  <2> QED BY <2>6, <2>10
<1> QED BY <1>1, <1>2, <1>3, TreeOrLists

\* The lists are empty at the start.
LEMMA InitLists == Init => Shapes /\ RepFixed
<1> SUFFICES ASSUME Init PROVE Shapes /\ RepFixed
  OBVIOUS
<1>1. \A d \in Digests : lists[d] = <<>>
  BY DEF Init
<1>2. Len(<<>>) # 1 /\ Elems(<<>>) = {} /\ NoRepeat(<<>>)
  BY ElemsEmpty
<1> QED BY <1>1, <1>2 DEF Shapes, Shape, RepFixed, OnSomeList

\* A list of the duplicate tree never has one file, a file of another hash, or
\* a file twice, for any number of threads and whatever their order under the
\* two mutexes.
THEOREM ScanListShape == Spec => []ListShape
<1>1. Base /\ Once /\ Shapes /\ RepFixed /\ [Next]_vars => Shapes' /\ RepFixed'
  BY NextLists
<1>2. Shapes => ListShape
  BY DEF Shapes, Shape, ListShape, NoRepeat, Elems
<1> QED BY <1>1, <1>2, InitLists, InitOnce, NextOnce, ScanBase, PTL DEF Spec

\* Files of one hash are on one device, or two of their lists are one.
HashOnOneDevice == \A e, f \in Entries : Digest[e] = Digest[f] => Device[e] = Device[f]

Grouped ==
    \A d \in Digests : \A e \in Elems(lists[d]) :
        \E r \in Elems(lists[d]) \cap Entries : Fixed(r) /\ SameFile(r, e)

\* Every step keeps each listed file beside its first one.
LEMMA NextGrouped ==
  ASSUME HashOnOneDevice, Base, Once, Shapes, Grouped, [Next]_vars
  PROVE  Grouped'
<1>p. TypeOK
  BY DEF Base
<1>1. CASE UNCHANGED <<tree, lists>>
  BY <1>1 DEF Grouped, Fixed
<1>2. ASSUME NEW p \in Procs, InsertVisited(p) PROVE Grouped'
  <2>1. UNCHANGED lists /\ \A f \in Entries : Fixed(f) => Fixed(f)'
    BY <1>2, Inserting
  <2> QED BY <2>1 DEF Grouped
<1>3. ASSUME NEW p \in Procs, AddToList(p) PROVE Grouped'
  <2> DEFINE c == cur[p]
             r == old[p]
             d == Digest[c]
  <2>1. /\ c \in Entries /\ r \in Entries /\ d \in Digests
        /\ Fixed(r) /\ SameFile(r, c) /\ UNCHANGED tree
    BY <1>3, Listing
  <2>2. PICK l \in Seq(Entries) :
          /\ lists' = [lists EXCEPT ![d] = l]
          /\ Elems(l) = {c} \cup (IF lists[d] = <<>> THEN {r} ELSE Elems(lists[d]))
    BY <1>3, Listing
  <2>3. d = Digest[c]
    OBVIOUS
  <2> HIDE DEF c, r, d
  <2>4. \A e \in Elems(l) : \E s \in Elems(l) \cap Entries : Fixed(s) /\ SameFile(s, e)
    <3>1. CASE lists[d] = <<>>
      BY <2>1, <2>2, <3>1 DEF SameFile
    <3>2. CASE lists[d] # <<>>
      <4>1. lists[d] \in Seq(Entries)
        BY <2>1, <1>p DEF TypeOK
      <4>2. lists[d][1] \in Elems(lists[d])
        BY <3>2, <4>1 DEF Elems
      <4>3. PICK s \in Elems(lists[d]) \cap Entries : Fixed(s)
        BY <2>1, <4>2 DEF Grouped
      <4>4. Digest[s] = d
        BY <2>1, <4>3 DEF Shapes, Shape
      <4>5. SameFile(s, c)
        BY <2>1, <2>3, <4>3, <4>4 DEF HashOnOneDevice, SameFile
      <4> QED BY <2>1, <2>2, <3>2, <4>3, <4>5 DEF Grouped
    <3> QED BY <3>1, <3>2
  <2>5. \A f \in Entries : Fixed(f)' <=> Fixed(f)
    BY <2>1 DEF Fixed
  <2>6. \A b \in Digests : lists'[b] = IF b = d THEN l ELSE lists[b]
    BY <2>1, <2>2, <1>p DEF TypeOK
  <2> QED BY <2>4, <2>5, <2>6 DEF Grouped
<1> QED BY <1>1, <1>2, <1>3, TreeOrLists

\* Every duplicate is on a list with the file it was compared with, if no two
\* devices hold files of one hash (the run ScanDevices shows what happens if
\* they do).
THEOREM ScanListedWithRep == HashOnOneDevice => (Spec => []ListedWithRep)
<1> SUFFICES ASSUME HashOnOneDevice PROVE Spec => []ListedWithRep
  OBVIOUS
<1>1. Init => Grouped
  <2>1. Init => \A d \in Digests : lists[d] = <<>>
    BY DEF Init
  <2> QED BY <2>1, ElemsEmpty DEF Grouped
<1>2. Base /\ Once /\ Shapes /\ RepFixed /\ [Next]_vars => Shapes' /\ RepFixed'
  BY NextLists
<1>3. Base /\ Once /\ Shapes /\ Grouped /\ [Next]_vars => Grouped'
  BY NextGrouped
<1>4. Grouped => ListedWithRep
  <2>1. \A d \in Digests : OnList(d) = Elems(lists[d])
    BY DEF OnList, Elems
  <2> QED BY <2>1, FixedInTree DEF Grouped, ListedWithRep
<1> QED BY <1>1, <1>2, <1>3, <1>4, InitLists, InitOnce, NextOnce, ScanBase, PTL DEF Spec

-----------------------------------------------------------------------------
(* The join *)

Working == {"metadata", "insert", "list", "found", "count", "exited"}

\* In a serial run main takes off each entry before it returns to the traversal.
SerialQueue ==
    IF mpc = "serial" /\ pc[Main] \in {"start", "pop"}
    THEN Len(queue) = 1 ELSE queue = <<>>

Joining ==
    /\ done => mpc \in {"join", "joined"}
    /\ mpc \in {"join", "joined"} => remaining = {}
    /\ mpc # "spawn" => spawned = threadCount
    /\ mpc = "serial" =>
         threadCount = 0 /\ pc[Main] \in {"start", "pop"} \cup Working
    /\ mpc = "joined" => \A w \in 1 .. threadCount : pc[w] = "exited"
    /\ mpc # "spawn" /\ threadCount = 0 => SerialQueue
    /\ mpc = "spawn" => queue = <<>>

\* Every step keeps it.
LEMMA NextJoining ==
  ASSUME Base, Joining, [Next]_vars
  PROVE  Joining'
<1> USE ThreadAssumption, MetadataAssumption
    DEF Procs, Main, Workers, mainVars, workVars, Working
<1>p. TypeOK /\ HandsOK /\ queue \in Seq(Entries) /\ DOMAIN pc = Procs
  BY DEF Base, TypeOK
<1>1. CASE Spawn
  BY <1>1, <1>p DEF Spawn, Joining, SerialQueue, TypeOK
<1>2. CASE SpawnFails
  BY <1>2, <1>p DEF SpawnFails, Joining, SerialQueue, TypeOK
<1>3. CASE AllSpawned
  BY <1>3, <1>p DEF AllSpawned, Joining, SerialQueue, TypeOK
<1>4. CASE FtsRead
  BY <1>4, <1>p DEF FtsRead, Joining, SerialQueue
<1>5. CASE AppendEntry
  <2>1. hand \in Entries
    BY <1>5, <1>p DEF AppendEntry, TypeOK, HandsOK
  <2>2. Len(Append(queue, hand)) = Len(queue) + 1 /\ (queue = <<>> => Len(queue) = 0)
    BY <2>1, <1>p
  <2>3. threadCount = 0 => queue = <<>>
    BY <1>5, <1>p DEF AppendEntry, Joining, SerialQueue
  <2>4. threadCount = 0 => SerialQueue'
    BY <1>5, <2>2, <2>3, <1>p DEF AppendEntry, SerialQueue
  <2> QED BY <1>5, <1>p, <2>4 DEF AppendEntry, Joining
<1>6. CASE SerialReturn
  BY <1>6, <1>p DEF SerialReturn, Joining, SerialQueue
<1>7. CASE SetDone
  BY <1>7, <1>p DEF SetDone, Joining, SerialQueue
<1>8. CASE Join
  BY <1>8, <1>p DEF Join, Joining, SerialQueue
<1>9. ASSUME NEW p \in Procs, DedupWork(p) PROVE Joining'
  <2>0. /\ UNCHANGED mainVars /\ UNCHANGED done
        /\ \A q \in Procs : q # p => pc'[q] = pc[q]
        /\ pc[p] \notin {"idle", "exited"}
    BY <1>9, <1>p DEF DedupWork, Start, Pop, PopNothing, PollDone, Populate, PopulateFails,
                      InsertVisited, AddToList, CountFound, CountCompleted
  <2>1. p # Main => threadCount # 0 /\ mpc # "joined"
    <3>1. ASSUME p # Main PROVE p \in 1 .. spawned
      BY <2>0, <3>1, <1>p DEF HandsOK, TypeOK
    <3>2. ASSUME p # Main PROVE threadCount # 0 /\ p \in 1 .. threadCount
      BY <3>1, <3>2, <1>p DEF TypeOK
    <3> QED BY <2>0, <3>2 DEF Joining
  <2>2. CASE p # Main
    <3>1. mpc # "serial" /\ mpc # "joined" /\ threadCount # 0
      BY <2>1, <2>2 DEF Joining
    <3>2. mpc = "spawn" => queue' = <<>>
      BY <1>9, <1>p DEF Joining, DedupWork, Start, Pop, PopNothing, PollDone, Populate,
                        PopulateFails, InsertVisited, AddToList, CountFound, CountCompleted
    <3> QED BY <2>0, <3>1, <3>2 DEF Joining
  <2>3. CASE p = Main
    <3>1. mpc = "serial" /\ threadCount = 0 /\ done = FALSE
      BY <2>0, <2>3, <1>p DEF HandsOK, Joining, TypeOK
    <3>2. IF pc[p] \in {"start", "pop"} THEN Len(queue) = 1 ELSE queue = <<>>
      BY <2>3, <3>1 DEF Joining, SerialQueue
    <3>3. /\ pc'[p] \in {"start", "pop"} \cup Working
          /\ IF pc'[p] \in {"start", "pop"} THEN Len(queue') = 1 ELSE queue' = <<>>
      <4>1. CASE Start(p)
        BY <3>1, <3>2, <4>1, <1>p DEF Start
      <4>2. CASE Pop(p)
        <5>1. queue \in Seq(Entries) /\ queue # <<>> /\ Len(queue) = 1
          BY <3>2, <4>2, <1>p DEF Pop
        <5>2. Tail(queue) \in Seq(Entries) /\ Len(Tail(queue)) = 0
          BY <5>1
        <5>3. Tail(queue) = <<>>
          BY <5>2, EmptyOfNone
        <5> QED BY <4>2, <5>3, <1>p DEF Pop
      <4>3. CASE PopNothing(p)
        BY <3>2, <4>3, <1>p DEF PopNothing
      <4>4. CASE PollDone(p)
        BY <3>1, <2>3, <4>4 DEF PollDone, Joining
      <4>5. CASE Populate(p) \/ PopulateFails(p)
        BY <3>2, <4>5, <1>p DEF Populate, PopulateFails
      <4>6. CASE InsertVisited(p) \/ AddToList(p) \/ CountFound(p)
        BY <3>2, <4>6, <1>p DEF InsertVisited, AddToList, CountFound
      <4>7. CASE CountCompleted(p)
        BY <3>1, <3>2, <4>7, <1>p DEF CountCompleted
      <4> QED BY <1>9, <4>1, <4>2, <4>3, <4>4, <4>5, <4>6, <4>7 DEF DedupWork
    <3> QED BY <2>0, <2>3, <3>1, <3>3 DEF Joining, SerialQueue
  <2> QED BY <2>2, <2>3
<1>10. CASE UNCHANGED vars
  BY <1>10 DEF vars, Joining, SerialQueue
<1> QED
  BY <1>1, <1>2, <1>3, <1>4, <1>5, <1>6, <1>7, <1>8, <1>9, <1>10
  DEF Next, MainStep, Terminated

\* When main leaves the join every file has been evaluated or is still queued,
\* and after a serial run nothing is, for any number of threads and failing
\* pthread_create calls, with a bar (without one an unreadable file leaves no
\* message).
THEOREM ScanCompleteAtJoin == ShowProgress => (Spec => []CompleteAtJoin)
<1> SUFFICES ASSUME ShowProgress PROVE Spec => []CompleteAtJoin
  OBVIOUS
<1>1. Init => Joining
  BY ThreadAssumption DEF Init, Joining
<1>2. Base /\ Joining /\ [Next]_vars => Joining'
  BY NextJoining
<1>3. Base /\ Joining /\ NoSilentLoss => CompleteAtJoin
  <2> SUFFICES ASSUME Base, Joining, NoSilentLoss, mpc = "joined"
               PROVE  /\ Entries = InTree \cup Listed \cup diagnosed \cup Queued
                      /\ threadCount = 0 => queue = <<>>
    BY DEF CompleteAtJoin
  <2>1. remaining = {} /\ spawned = threadCount
    BY DEF Joining
  <2>2. InHand = {}
    BY DEF Base, HandsOK, InHand
  <2>3. Pending = {}
    <3> SUFFICES ASSUME NEW p \in Procs, pc[p] \in Holding PROVE FALSE
      BY DEF Pending
    <3>1. pc[p] \notin {"idle", "exited"}
      BY DEF Holding
    <3>2. CASE p = Main
      BY <3>1, <3>2 DEF Base, HandsOK
    <3>3. CASE p \in Workers
      BY <2>1, <3>1, <3>3, ThreadAssumption DEF Base, HandsOK, TypeOK, Joining, Workers
    <3> QED BY <3>2, <3>3 DEF Procs
  <2>4. threadCount = 0 => queue = <<>>
    BY DEF Joining, SerialQueue
  <2> QED BY <2>1, <2>2, <2>3, <2>4 DEF NoSilentLoss
<1> QED BY <1>1, <1>2, <1>3, ScanBase, ScanNoSilentLoss, PTL DEF Spec

-----------------------------------------------------------------------------
(* The counts *)

\* Threads are finitely many.
LEMMA ProcsFinite == ASSUME NEW S, S \subseteq Procs
                     PROVE  IsFiniteSet(S) /\ Cardinality(S) \in Nat
<1>1. IsFiniteSet(Workers)
  <2>1. IsFiniteSet(1 .. ThreadCount)
    BY ThreadAssumption, FS_Interval
  <2> QED BY <2>1 DEF Workers
<1>2. IsFiniteSet(Workers \cup {Main})
  BY <1>1, FS_AddElement
<1>3. Procs = Workers \cup {Main}
  BY DEF Procs
<1>4. IsFiniteSet(S)
  BY <1>2, <1>3, FS_Subset
<1> QED BY <1>4, FS_CardinalityType

\* One entry at most is in main's hand.
LEMMA OneOrNone ==
  ASSUME NEW x
  PROVE  Cardinality({x} \ {NULL}) = IF x = NULL THEN 0 ELSE 1
<1>1. CASE x = NULL
  BY <1>1, FS_EmptySet
<1>2. CASE x # NULL
  <2>1. {x} \ {NULL} = {x} /\ Cardinality({x}) = 1
    BY <1>2, FS_Singleton
  <2> QED BY <1>2, <2>1
<1> QED BY <1>1, <1>2

\* The steps that move an entry from main to the end of its round.
LEMMA Movers ==
  ASSUME [Next]_vars
  PROVE  \/ UNCHANGED <<hand, queue, cur, total, completed>>
         \/ FtsRead \/ AppendEntry \/ \E p \in Procs : Pop(p) \/ CountCompleted(p)
BY DEF Next, MainStep, DedupWork, Terminated, vars, mainVars, workVars, Spawn, SpawnFails,
       AllSpawned, SerialReturn, SetDone, Join, Start, PopNothing, PollDone, Populate,
       PopulateFails, InsertVisited, AddToList, CountFound

Carriers == {p \in Procs : cur[p] # NULL}

\* The total exceeds the completed count by the files on their way, at every
\* step of main and the workers and for any number of them.
THEOREM ScanProgressExact == Spec => []ProgressExact
<1>1. Init => ProgressExact
  <2> SUFFICES ASSUME Init
               PROVE  total = completed + Cardinality(InHand) + Len(queue) + Cardinality(Carriers)
    BY DEF ProgressExact, Carriers
  <2>1. InHand = {} /\ queue = <<>> /\ total = 0 /\ completed = 0
    BY DEF Init, InHand
  <2>2. Carriers = {}
    BY DEF Init, Carriers
  <2>3. Cardinality({}) = 0 /\ Len(<<>>) = 0
    BY FS_EmptySet
  <2> QED BY <2>1, <2>2, <2>3
<1>2. Base /\ ProgressExact /\ [Next]_vars => ProgressExact'
  <2> SUFFICES ASSUME Base, ProgressExact, [Next]_vars, ShowProgress
               PROVE  total' = completed' + Cardinality(InHand') + Len(queue')
                                  + Cardinality(Carriers')
    BY DEF ProgressExact, Carriers
  <2> USE MetadataAssumption
  <2>1. /\ TypeOK /\ HandsOK /\ queue \in Seq(Entries) /\ Len(queue) \in Nat
        /\ total \in Nat /\ completed \in Nat
    BY DEF Base, TypeOK
  <2> DEFINE h == IF hand = NULL THEN 0 ELSE 1
             n == Cardinality(Carriers)
  <2>2. total = completed + h + Len(queue) + n
    BY OneOrNone DEF ProgressExact, InHand, Carriers
  <2>3. IsFiniteSet(Carriers) /\ n \in Nat
    BY ProcsFinite DEF Carriers
  <2>4. Cardinality(InHand') = IF hand' = NULL THEN 0 ELSE 1
    BY OneOrNone DEF InHand
  <2>5. CASE UNCHANGED <<hand, queue, cur, total, completed>>
    <3>1. /\ Carriers' = Carriers /\ hand' = hand /\ queue' = queue
          /\ total' = total /\ completed' = completed
      BY <2>5 DEF Carriers
    <3> QED BY <2>2, <2>4, <3>1
  <2>6. CASE FtsRead
    <3>1. /\ hand = NULL /\ hand' # NULL /\ total' = total + 1
          /\ queue' = queue /\ cur' = cur /\ completed' = completed
      BY <2>1, <2>6 DEF FtsRead, HandsOK, TypeOK, workVars
    <3>2. Carriers' = Carriers
      BY <3>1 DEF Carriers
    <3> HIDE DEF n
    <3>3. Cardinality(Carriers') = n
      BY <3>2 DEF n
    <3> QED BY <2>1, <2>2, <2>3, <2>4, <3>1, <3>3
  <2>7. CASE AppendEntry
    <3>1. /\ hand \in Entries /\ hand' = NULL /\ queue' = Append(queue, hand)
          /\ cur' = cur /\ total' = total /\ completed' = completed
      BY <2>1, <2>7 DEF AppendEntry, HandsOK, TypeOK
    <3>2. Len(queue') = Len(queue) + 1
      BY <2>1, <3>1
    <3>3. Carriers' = Carriers
      BY <3>1 DEF Carriers
    <3> HIDE DEF n
    <3>4. Cardinality(Carriers') = n
      BY <3>3 DEF n
    <3>5. Cardinality(InHand') = 0 /\ h = 1
      BY <2>4, <3>1, MetadataAssumption
    <3>6. total' = total /\ completed' = completed
      BY <3>1
    <3> HIDE DEF h
    <3> QED BY <2>1, <2>2, <2>3, <3>2, <3>4, <3>5, <3>6
  <2>8. ASSUME NEW p \in Procs, Pop(p)
        PROVE  total' = completed' + Cardinality(InHand') + Len(queue') + Cardinality(Carriers')
    <3>1. /\ queue # <<>> /\ queue' = Tail(queue) /\ hand' = hand /\ total' = total /\ completed' = completed
          /\ cur[p] = NULL /\ cur' = [cur EXCEPT ![p] = Head(queue)]
      BY <2>1, <2>8 DEF Pop, HandsOK, Busy, mainVars
    <3>2. Len(queue') = Len(queue) - 1 /\ Head(queue) \in Entries
      BY <2>1, <3>1
    <3>3. Carriers' = Carriers \cup {p} /\ p \notin Carriers
      BY <2>1, <3>1, <3>2 DEF Carriers, TypeOK
    <3>4. Cardinality(Carriers \cup {p}) = n + 1
      BY <2>3, <3>3, FS_AddElement
    <3> HIDE DEF n
    <3>5. Cardinality(Carriers') = n + 1
      BY <3>3, <3>4
    <3>6. total \in Nat /\ completed \in Nat /\ Len(queue) \in Nat
      BY <2>1
    <3>7. hand' = hand /\ total' = total /\ completed' = completed
      BY <3>1
    <3>8. Len(queue') = Len(queue) - 1
      BY <3>2
    <3>9. Cardinality(InHand') = h /\ h \in Nat
      BY <2>4, <3>7
    <3> HIDE DEF h
    <3> QED BY <2>2, <2>3, <3>5, <3>6, <3>7, <3>8, <3>9
  <2>9. ASSUME NEW p \in Procs, CountCompleted(p)
        PROVE  total' = completed' + Cardinality(InHand') + Len(queue') + Cardinality(Carriers')
    <3>1. /\ completed' = completed + 1 /\ hand' = hand /\ queue' = queue /\ total' = total
          /\ cur[p] # NULL /\ cur' = [cur EXCEPT ![p] = NULL]
      BY <2>1, <2>9 DEF CountCompleted, HandsOK, Busy, mainVars
    <3>2. Carriers' = Carriers \ {p} /\ p \in Carriers
      BY <2>1, <3>1 DEF Carriers, TypeOK
    <3>3. Cardinality(Carriers \ {p}) = n - 1
      BY <2>3, <3>2, FS_RemoveElement
    <3> HIDE DEF n
    <3>4. Cardinality(Carriers') = n - 1
      BY <3>2, <3>3
    <3>5. total \in Nat /\ completed \in Nat /\ Len(queue) \in Nat
      BY <2>1
    <3>6. hand' = hand /\ queue' = queue /\ total' = total /\ completed' = completed + 1
      BY <3>1
    <3> QED BY <2>2, <2>3, <2>4, <3>4, <3>5, <3>6
  <2> QED BY <2>5, <2>6, <2>7, <2>8, <2>9, Movers
<1> QED BY <1>1, <1>2, ScanBase, PTL DEF Spec

\* Of one content a well-formed tree has one first file after a step as well.
LEMMA OneRepresentativeNext ==
  ASSUME TreeInv'
  PROVE  \A e, f \in InTree' : SameFile(e, f) => e = f
<1> SUFFICES ASSUME NEW e \in InTree', NEW f \in InTree', SameFile(e, f)
             PROVE  e = f
  OBVIOUS
<1>1. Bucket(e) = Bucket(f)
  BY MetadataAssumption DEF InTree, SameFile, Bucket
<1> QED
  BY <1>1, MetadataAssumption, BucketInBuckets
  DEF TreeInv, TreeTypeOK, CharNode, WellPlaced, StashOrChildren, DistinctDigests, InTree,
      SameFile

\* The first file of a content is the one file of a tree that has it.
LEMMA TheFirst ==
  ASSUME NEW T, NEW e, NEW r \in T, SameFile(r, e), \A s, t \in T : SameFile(s, t) => s = t
  PROVE  (CHOOSE s \in T : SameFile(s, e)) = r
<1>1. \A s \in T : SameFile(s, e) => s = r
  BY DEF SameFile
<1> QED BY <1>1

Counting == {p \in Procs : pc[p] = "found"}
Distinct(e) == CloneId[e] # CloneId[Rep(e)]
Uncloned == {e \in Entries : OnSomeList(e) /\ e \notin InTree /\ Distinct(e)}
FoundInv == IsFiniteSet(Uncloned) /\ found + Cardinality(Counting) = Cardinality(Uncloned)

\* Only the two mutexes of visit_entry's end move what is counted.
LEMMA Counters ==
  ASSUME Base, [Next]_vars
  PROVE  \/ UNCHANGED <<tree, lists, found>> /\ Counting' = Counting
         \/ \E p \in Procs : InsertVisited(p) \/ AddToList(p) \/ CountFound(p)
<1> USE ThreadAssumption DEF mainVars, workVars
<1>p. pc \in [Procs -> {"idle", "start", "pop", "poll", "metadata", "insert",
                        "list", "found", "count", "exited"}]
  BY DEF Base, TypeOK
<1>1. CASE MainStep
  <2>1. \A q \in Procs : pc'[q] = "found" <=> pc[q] = "found"
    <3>1. CASE Spawn
      <4>1. spawned \in Nat /\ threadCount \in Nat /\ threadCount <= ThreadCount
        BY DEF Base, TypeOK
      <4>2. spawned + 1 \in Workers /\ spawned + 1 > spawned
        BY <3>1, <4>1 DEF Spawn, Workers
      <4>3. pc[spawned + 1] = "idle"
        BY <4>2 DEF Base, HandsOK
      <4>4. pc' = [pc EXCEPT ![spawned + 1] = "start"]
        BY <3>1 DEF Spawn
      <4> QED BY <4>3, <4>4, <1>p
    <3>2. CASE AppendEntry
      <4>1. pc[Main] = "idle"
        BY <3>2 DEF Base, HandsOK, AppendEntry
      <4>2. pc' = [pc EXCEPT ![Main] = "start"] \/ pc' = pc
        BY <3>2 DEF AppendEntry
      <4> QED BY <4>1, <4>2, <1>p
    <3>3. CASE SerialReturn
      BY <3>3, <1>p DEF SerialReturn
    <3>4. CASE SpawnFails \/ AllSpawned \/ FtsRead \/ SetDone \/ Join
      BY <3>4 DEF SpawnFails, AllSpawned, FtsRead, SetDone, Join
    <3> QED BY <1>1, <3>1, <3>2, <3>3, <3>4 DEF MainStep
  <2>2. UNCHANGED <<tree, lists, found>>
    BY <1>1 DEF MainStep, Spawn, SpawnFails, AllSpawned, FtsRead, AppendEntry,
                SerialReturn, SetDone, Join
  <2> QED BY <2>1, <2>2 DEF Counting
<1>2. ASSUME NEW p \in Procs, DedupWork(p),
             ~InsertVisited(p), ~AddToList(p), ~CountFound(p)
      PROVE  UNCHANGED <<tree, lists, found>> /\ Counting' = Counting
  <2>1. \A q \in Procs : pc'[q] = "found" <=> pc[q] = "found"
    BY <1>2, <1>p DEF DedupWork, Start, Pop, PopNothing, PollDone, Populate, PopulateFails,
                      CountCompleted
  <2>2. UNCHANGED <<tree, lists, found>>
    BY <1>2 DEF DedupWork, Start, Pop, PopNothing, PollDone, Populate, PopulateFails,
                CountCompleted
  <2> QED BY <2>1, <2>2 DEF Counting
<1>3. CASE UNCHANGED vars
  BY <1>3 DEF vars, Counting
<1> QED BY <1>1, <1>2, <1>3 DEF Next, Terminated

\* Every step keeps the count.
LEMMA NextFound ==
  ASSUME Base, Once, RepFixed, FoundInv, [Next]_vars
  PROVE  FoundInv'
<1>p. TypeOK /\ TreeInv /\ HandsOK /\ pc \in [Procs -> {"idle", "start", "pop", "poll", "metadata",
            "insert", "list", "found", "count", "exited"}]
  BY DEF Base, TypeOK
<1>f. found \in Nat /\ IsFiniteSet(Counting) /\ Cardinality(Counting) \in Nat
  BY <1>p, ProcsFinite DEF Counting, TypeOK
<1>1. CASE UNCHANGED <<tree, lists, found>> /\ Counting' = Counting
  <2>1. Uncloned' = Uncloned
    BY <1>1 DEF Uncloned, OnSomeList, InTree, Distinct, Rep
  <2> QED BY <1>1, <2>1 DEF FoundInv
<1>2. ASSUME NEW p \in Procs, InsertVisited(p) PROVE FoundInv'
  <2>1. /\ UNCHANGED lists /\ TreeInv' /\ \A f \in Entries : Fixed(f) => Fixed(f)'
        /\ \A f \in Entries : OnSomeList(f) => (f \in InTree' <=> f \in InTree)
    BY <1>2, Inserting
  <2>2. \A e \in Entries : OnSomeList(e)' <=> OnSomeList(e)
    BY <2>1 DEF OnSomeList
  <2>3. ASSUME NEW e \in Entries, OnSomeList(e) PROVE Distinct(e)' <=> Distinct(e)
    <3>1. PICK r \in Entries : Fixed(r) /\ SameFile(r, e)
      BY <2>3 DEF RepFixed
    <3>2. r \in InTree /\ r \in InTree'
      BY <2>1, <3>1 DEF Fixed, InTree
    <3>3. Rep(e) = r
      BY <1>p, <3>1, <3>2, OneRepresentative, TheFirst DEF Rep
    <3>4. (CHOOSE s \in InTree' : SameFile(s, e)) = r
      BY <2>1, <3>1, <3>2, OneRepresentativeNext, TheFirst
    <3> QED BY <3>3, <3>4 DEF Distinct, Rep
  <2>4. Uncloned' = Uncloned
    BY <2>1, <2>2, <2>3 DEF Uncloned
  <2>5. \A q \in Procs : pc'[q] = "found" <=> pc[q] = "found"
    BY <1>2, <1>p DEF InsertVisited
  <2>6. Counting' = Counting /\ found' = found
    BY <1>2, <2>5 DEF Counting, InsertVisited
  <2> QED BY <2>4, <2>6 DEF FoundInv
<1>3. ASSUME NEW p \in Procs, AddToList(p) PROVE FoundInv'
  <2> DEFINE c == cur[p]
             r == old[p]
             d == Digest[c]
  <2>1. /\ c \in Entries /\ r \in Entries /\ d \in Digests
        /\ ~OnSomeList(c) /\ c \notin InTree /\ r \in InTree
        /\ SameFile(r, c) /\ UNCHANGED tree
    BY <1>3, Listing
  <2>2. PICK l \in Seq(Entries) :
          /\ lists' = [lists EXCEPT ![d] = l]
          /\ Elems(l) = {c} \cup (IF lists[d] = <<>> THEN {r} ELSE Elems(lists[d]))
    BY <1>3, Listing
  <2>3. pc' = [pc EXCEPT ![p] = IF CloneId[c] # CloneId[r] THEN "found" ELSE "count"]
        /\ pc[p] = "list" /\ found' = found
    BY <1>3 DEF AddToList
  <2> HIDE DEF c, r, d
  <2>4. InTree' = InTree /\ \A e \in Entries : Distinct(e)' <=> Distinct(e)
    BY <2>1 DEF InTree, Distinct, Rep
  <2>5. Distinct(c) <=> CloneId[c] # CloneId[r]
    <3>1. Rep(c) = r
      BY <1>p, <2>1, OneRepresentative, TheFirst DEF Rep
    <3> QED BY <3>1 DEF Distinct
  <2>6. ASSUME NEW e \in Entries, e \notin InTree
        PROVE  OnSomeList(e)' <=> OnSomeList(e) \/ e = c
    <3>1. \A b \in Digests : Elems(lists'[b]) = IF b = d THEN Elems(l) ELSE Elems(lists[b])
      BY <2>1, <2>2, <1>p DEF TypeOK
    <3>2. e \in Elems(l) <=> e = c \/ e \in Elems(lists[d])
      BY <2>1, <2>2, <2>6, ElemsEmpty
    <3> QED BY <2>1, <3>1, <3>2 DEF OnSomeList
  <2>7. ASSUME NEW e \in Entries
        PROVE  e \in Uncloned' <=> e \in Uncloned \/ (e = c /\ CloneId[c] # CloneId[r])
    BY <2>1, <2>4, <2>5, <2>6 DEF Uncloned
  <2>8. Uncloned \subseteq Entries /\ Uncloned' \subseteq Entries /\ c \notin Uncloned
        /\ p \notin Counting
    BY <2>1, <2>3 DEF Uncloned, Counting
  <2>9. CASE CloneId[c] # CloneId[r]
    <3>1. Uncloned' = Uncloned \cup {c}
      BY <2>1, <2>7, <2>8, <2>9
    <3>2. Counting' = Counting \cup {p}
      BY <2>3, <2>9, <1>p DEF Counting
    <3>3. IsFiniteSet(Uncloned \cup {c}) /\ Cardinality(Uncloned \cup {c}) = Cardinality(Uncloned) + 1
      BY <2>8, FS_AddElement DEF FoundInv
    <3>4. Cardinality(Counting \cup {p}) = Cardinality(Counting) + 1
      BY <1>f, <2>8, FS_AddElement
    <3>5. Cardinality(Counting') = Cardinality(Counting) + 1
          /\ IsFiniteSet(Uncloned') /\ Cardinality(Uncloned') = Cardinality(Uncloned) + 1
      BY <3>1, <3>2, <3>3, <3>4
    <3>6. found' = found
      BY <2>3
    <3> QED BY <1>f, <3>5, <3>6 DEF FoundInv
  <2>10. CASE CloneId[c] = CloneId[r]
    <3>1. Uncloned' = Uncloned
      BY <2>7, <2>8, <2>10
    <3>2. \A q \in Procs : pc'[q] = "found" <=> pc[q] = "found"
      BY <2>3, <2>10, <1>p
    <3>3. Counting' = Counting /\ found' = found
      BY <2>3, <3>2 DEF Counting
    <3> QED BY <3>1, <3>3 DEF FoundInv
  <2> QED BY <2>9, <2>10
<1>4. ASSUME NEW p \in Procs, CountFound(p) PROVE FoundInv'
  <2>1. /\ pc[p] = "found" /\ pc' = [pc EXCEPT ![p] = "count"] /\ found' = found + 1
        /\ UNCHANGED <<tree, lists>>
    BY <1>4 DEF CountFound
  <2>2. Uncloned' = Uncloned
    BY <2>1 DEF Uncloned, OnSomeList, InTree, Distinct, Rep
  <2>3. Counting' = Counting \ {p} /\ p \in Counting
    BY <2>1, <1>p DEF Counting
  <2>4. Cardinality(Counting \ {p}) = Cardinality(Counting) - 1
    BY <1>f, <2>3, FS_RemoveElement
  <2>5. Cardinality(Counting') = Cardinality(Counting) - 1
    BY <2>3, <2>4
  <2>6. found' = found + 1
    BY <2>1
  <2> QED BY <1>f, <2>2, <2>5, <2>6 DEF FoundInv
<1> QED BY <1>1, <1>2, <1>3, <1>4, Counters

\* "duplicates found" counts each listed file that is not a clone of the first
\* file of its content, once, up to the threads between their two mutexes, for
\* any number of threads, files and devices.
THEOREM ScanFoundExact == Spec => []FoundExact
<1>1. Init => FoundInv
  <2> SUFFICES ASSUME Init PROVE FoundInv
    OBVIOUS
  <2>1. \A d \in Digests : lists[d] = <<>>
    BY DEF Init
  <2>2. Uncloned = {}
    BY <2>1, ElemsEmpty DEF Uncloned, OnSomeList
  <2>3. Counting = {} /\ found = 0
    BY DEF Init, Counting
  <2>4. IsFiniteSet({}) /\ Cardinality({}) = 0
    BY FS_EmptySet
  <2> QED BY <2>2, <2>3, <2>4 DEF FoundInv
<1>2. Base /\ Once /\ RepFixed /\ FoundInv /\ [Next]_vars => FoundInv'
  BY NextFound
<1>3. Base /\ Once /\ Shapes /\ RepFixed /\ [Next]_vars => Shapes' /\ RepFixed'
  BY NextLists
<1>4. Base /\ FoundInv => FoundExact
  <2> SUFFICES ASSUME Base, FoundInv PROVE FoundExact
    OBVIOUS
  <2>1. \A e : e \in Listed <=> e \in Entries /\ OnSomeList(e)
    BY DEF Base, TypeOK, Listed, OnList, OnSomeList, Elems
  <2>2. {e \in Listed \ InTree : CloneId[e] # CloneId[Rep(e)]} = Uncloned
    BY <2>1 DEF Uncloned, Distinct
  <2> QED BY <2>2 DEF FoundInv, FoundExact, Counting
<1> QED BY <1>1, <1>2, <1>3, <1>4, InitLists, InitOnce, NextOnce, ScanBase, PTL DEF Spec
=============================================================================
