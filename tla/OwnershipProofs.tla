--------------------------- MODULE OwnershipProofs ---------------------------
(***************************************************************************)
(* Visits that overlap use the tree as Visited says, one insertion at a    *)
(* time, so that what VisitedProofs shows of it holds under them; and of   *)
(* the memory, whatever is pointed to is allocated and has one owner, and  *)
(* whatever is allocated is pointed to, but for the entries still queued   *)
(* when the queue's head is freed.                                         *)
(***************************************************************************)
EXTENDS Ownership, VisitedProofs

\* Freed memory and lists aside, the visits under way at once are insertions
\* one after the other (visit_entry, visited_mutex).
THEOREM VisitsImplementVisited == HeapSpec => Spec
<1>1. HeapInit => Init
  BY DEF HeapInit
<1>2. [HeapNext]_heapVars => [Next]_vars
  <2> SUFFICES ASSUME [HeapNext]_heapVars PROVE [Next]_vars
    OBVIOUS
  <2>1. ASSUME NEW e \in Queued, Visit(e) PROVE [Next]_vars
    BY <2>1 DEF Visit, Queued, Next
  <2>6. ASSUME NEW e \in Queued, VisitFails(e) PROVE [Next]_vars
    BY <2>6 DEF VisitFails
  <2>2. ASSUME NEW e \in listing, List(e) PROVE [Next]_vars
    BY <2>2 DEF List
  <2>3. ASSUME NEW e \in leaving, Leave(e) PROVE [Next]_vars
    BY <2>3 DEF Leave
  <2>4. CASE FreeVisitedTree \/ FreeDuplicateTree
    BY <2>4 DEF FreeVisitedTree, FreeDuplicateTree
  <2>5. CASE HeapFinished \/ UNCHANGED heapVars
    BY <2>5 DEF HeapFinished, heapVars
  <2> QED BY <2>1, <2>2, <2>3, <2>4, <2>5, <2>6 DEF HeapNext
<1> QED BY <1>1, <1>2, PTL DEF HeapSpec, Spec

\* With any number of visits at once the tree keeps its invariant.
THEOREM HeapInv == HeapSpec => []Inv
  BY VisitsImplementVisited, VisitedInv, PTL

\* With any number of visits at once it keeps one file per content and device.
THEOREM HeapOneFilePerContent == HeapSpec => []OneFilePerContent
  BY VisitsImplementVisited, VisitedOneFilePerContent, PTL

\* With any number of visits at once it answers as the map of FirstSeen.
THEOREM HeapImplementsFirstSeen == HeapSpec => ImplementsFirstSeen
  BY VisitsImplementVisited, VisitedImplementsFirstSeen, PTL
-----------------------------------------------------------------------------
(* The heap *)

All == UNION {{FileEntry(e), Fm(e), StashCopy(e), Node(e), Old(e), FirstCopy(e)} :
              e \in Entries}

StructuresIn(h) == {p[1] : p \in h.paths}

\* A structure has one string and a string one structure; it is the one it
\* was made with, or that of the stashed copy whose node this is; and of the
\* strings that no structure has each is that of a stashed copy of a file
\* that could not be hashed.
Sound(h) ==
    /\ h \in [paths : SUBSET (All \X All), strings : SUBSET All]
    /\ \A p \in h.paths : p[2] \in h.strings
    /\ \A p, q \in h.paths : p[1] = q[1] <=> p[2] = q[2]
    /\ \A p \in h.paths :
          p[2] = p[1] \/ \E e \in Entries : p[1] = Node(e) /\ p[2] = StashCopy(e)
    /\ \A s \in h.strings :
          (\E p \in h.paths : p[2] = s) \/ \E e \in Faulty : s = StashCopy(e)

\* What is allocated, structure by structure.
Exact ==
    /\ Structures \subseteq All
    /\ \A e \in Entries :
          /\ FileEntry(e) \in Structures <=> e \in Queued \cup listing \cup leaving
          /\ Fm(e) \in Structures <=> e \in listing \cup leaving \/ Fm(e) \in ListStructures
          /\ Old(e) \in Structures <=>
                e \in listing \/ (e \in leaving /\ Fm(e) \in ListStructures)
          /\ StashCopy(e) \in Structures <=> phase = "scan" /\ tree[Bucket(e)].fm = e
          /\ Node(e) \in Structures <=> phase = "scan" /\ e \in tree[Bucket(e)].children
          /\ FirstCopy(e) \in Structures <=> FirstCopy(e) \in ListStructures

\* Each visit is before its listing, after it, or neither; only those after
\* it are on a list; and after the join there is none.
Stages ==
    /\ listing \subseteq Entries /\ leaving \subseteq Entries /\ unread \subseteq todo
    /\ todo \cap listing = {} /\ todo \cap leaving = {} /\ listing \cap leaving = {}
    /\ lists \in [{Digest[e] : e \in Entries} ->
                    SUBSET UNION {{Fm(e), FirstCopy(e)} : e \in Entries}]
    /\ \A e \in todo \cup listing :
          Fm(e) \notin ListStructures /\ FirstCopy(e) \notin ListStructures
    /\ phase \in {"scan", "deduplicate", "freed"}
    /\ phase # "scan" => listing = {} /\ leaving = {}

OwnershipInv == Inv /\ Sound(heap) /\ Exact /\ Stages
\* Structures made for different entries, or of different kinds, differ.
LEMMA Tags ==
  ASSUME NEW e \in Entries, NEW f \in Entries
  PROVE  /\ FileEntry(e) = FileEntry(f) <=> e = f
         /\ Fm(e) = Fm(f) <=> e = f
         /\ StashCopy(e) = StashCopy(f) <=> e = f
         /\ Node(e) = Node(f) <=> e = f
         /\ Old(e) = Old(f) <=> e = f
         /\ FirstCopy(e) = FirstCopy(f) <=> e = f
         /\ FileEntry(e) \notin {Fm(f), StashCopy(f), Node(f), Old(f), FirstCopy(f)}
         /\ Fm(e) \notin {StashCopy(f), Node(f), Old(f), FirstCopy(f)}
         /\ StashCopy(e) \notin {Node(f), Old(f), FirstCopy(f)}
         /\ Node(e) \notin {Old(f), FirstCopy(f)}
         /\ Old(e) # FirstCopy(f)
         /\ {FileEntry(e), Fm(e), StashCopy(e), Node(e), Old(e), FirstCopy(e)} \subseteq All
  BY DEF FileEntry, Fm, StashCopy, Node, Old, FirstCopy, All

\* The stashed copies are apart from the other two kinds an insertion makes.
LEMMA StashApart ==
  \A e, f \in Entries : StashCopy(f) # Node(e) /\ StashCopy(f) # Old(e)
  BY DEF StashCopy, Node, Old

\* Every structure is one of the six of some entry.
LEMMA AllKinds ==
  ASSUME NEW s \in All
  PROVE  \E e \in Entries :
           s \in {FileEntry(e), Fm(e), StashCopy(e), Node(e), Old(e), FirstCopy(e)}
  BY DEF All

\* Setting a field of a heap leaves the other.
LEMMA HeapFields ==
  ASSUME NEW A, NEW B, NEW h \in [paths : A, strings : B], NEW v
  PROVE  /\ [h EXCEPT !.paths = v] = [paths |-> v, strings |-> h.strings]
         /\ [h EXCEPT !.strings = v] = [paths |-> h.paths, strings |-> v]
  OBVIOUS

\* What free makes of a heap.
LEMMA FreeFields ==
  ASSUME NEW h, Sound(h), NEW S
  PROVE  Free(h, S) = [paths |-> {p \in h.paths : p[1] \notin S}, strings |-> h.strings]
<1> DEFINE V == {p \in h.paths : p[1] \notin S}
<1>1. Free(h, S) = [h EXCEPT !.paths = V]
  BY DEF Free
<1>2. h \in [paths : SUBSET (All \X All), strings : SUBSET All]
  BY DEF Sound
<1> HIDE DEF V
<1>3. [h EXCEPT !.paths = V] = [paths |-> V, strings |-> h.strings]
  BY <1>2, HeapFields
<1> QED BY <1>1, <1>3 DEF V

\* Allocating what is not allocated keeps the heap sound (metadata_dup).
LEMMA DupSound ==
  ASSUME NEW h, Sound(h), NEW S \in SUBSET All, S \cap StructuresIn(h) = {},
         \A e \in Entries : StashCopy(e) \in S => Node(e) \notin StructuresIn(h)
  PROVE  Sound(Dup(h, S)) /\ StructuresIn(Dup(h, S)) = StructuresIn(h) \cup S
<1> DEFINE g == Dup(h, S)
<1>1. g.paths = h.paths \cup {<<s, s>> : s \in S} /\ g.strings = h.strings \cup S
      /\ g = [paths |-> g.paths, strings |-> g.strings]
  BY DEF Dup
<1>2. g \in [paths : SUBSET (All \X All), strings : SUBSET All]
  BY <1>1 DEF Sound
<1>3. \A p \in h.paths : p = <<p[1], p[2]>> /\ p[1] \notin S /\ p[2] \notin S
  <2>1. \A p \in h.paths : p = <<p[1], p[2]>> /\ p[1] \in StructuresIn(h)
    BY DEF Sound, StructuresIn
  <2> QED BY <2>1 DEF Sound
<1>4. \A p \in g.paths : p \in h.paths \/ (p[1] = p[2] /\ p[1] \in S)
  BY <1>1
<1>5. \A s \in S : <<s, s>> \in g.paths
  BY <1>1
<1>6. StructuresIn(g) = StructuresIn(h) \cup S
  BY <1>1, <1>4, <1>5 DEF StructuresIn
<1> HIDE DEF g
<1>7. Sound(g)
  <2>1. \A p \in g.paths : p[2] \in g.strings
    BY <1>1, <1>4 DEF Sound
  <2>2. \A p, q \in g.paths : p[1] = q[1] <=> p[2] = q[2]
    <3>1. \A p, q \in h.paths : p[1] = q[1] <=> p[2] = q[2]
      BY DEF Sound
    <3> QED BY <1>3, <1>4, <3>1
  <2>3. \A p \in g.paths :
           p[2] = p[1] \/ \E e \in Entries : p[1] = Node(e) /\ p[2] = StashCopy(e)
    BY <1>4 DEF Sound
  <2>4. \A s \in g.strings :
           (\E p \in g.paths : p[2] = s) \/ \E e \in Faulty : s = StashCopy(e)
    <3>1. \A s \in h.strings :
             (\E p \in h.paths : p[2] = s) \/ \E e \in Faulty : s = StashCopy(e)
      BY DEF Sound
    <3>2. h.paths \subseteq g.paths /\ g.strings = h.strings \cup S
      BY <1>1
    <3> QED BY <1>5, <3>1, <3>2
  <2> QED BY <1>2, <2>1, <2>2, <2>3, <2>4 DEF Sound
<1> QED BY <1>6, <1>7 DEF g

\* Freeing structures with their strings frees nobody else's string.
LEMMA FreeMetadataSound ==
  ASSUME NEW h, Sound(h), NEW S
  PROVE  Sound(FreeMetadata(h, S)) /\ StructuresIn(FreeMetadata(h, S)) = StructuresIn(h) \ S
<1> DEFINE g == FreeMetadata(h, S)
<1>1. /\ g.paths = {p \in h.paths : p[1] \notin S}
      /\ g.strings = h.strings \ {p[2] : p \in {q \in h.paths : q[1] \in S}}
      /\ g = [paths |-> g.paths, strings |-> g.strings]
  <2> DEFINE V == {p \in h.paths : p[1] \notin S}
             W == {p[2] : p \in {q \in h.paths : q[1] \in S}}
  <2>1. g = [Free(h, S) EXCEPT !.strings = Free(h, S).strings \ W]
    BY DEF FreeMetadata
  <2>2. Free(h, S) = [paths |-> V, strings |-> h.strings]
    BY FreeFields
  <2> HIDE DEF V, W, g
  <2>3. g = [paths |-> V, strings |-> h.strings \ W]
    BY <2>1, <2>2
  <2>4. g.paths = V /\ g.strings = h.strings \ W /\ g = [paths |-> g.paths, strings |-> g.strings]
    BY <2>3
  <2> QED BY <2>4 DEF V, W
<1>2. g \in [paths : SUBSET (All \X All), strings : SUBSET All]
  BY <1>1 DEF Sound
<1>3. \A p \in g.paths : p[2] \in g.strings
  BY <1>1 DEF Sound
<1>4. \A s \in g.strings : (\E p \in g.paths : p[2] = s) \/ \E e \in Faulty : s = StashCopy(e)
  BY <1>1 DEF Sound
<1>5. StructuresIn(g) = StructuresIn(h) \ S
  BY <1>1 DEF StructuresIn
<1> HIDE DEF g
<1>6. Sound(g)
  BY <1>1, <1>2, <1>3, <1>4 DEF Sound
<1> QED BY <1>5, <1>6 DEF g

\* The stashed copy of a file that cannot be hashed is freed without its path
\* (visited_tree_insert).
LEMMA FreeSound ==
  ASSUME NEW h, Sound(h), NEW f \in Faulty
  PROVE  /\ Sound(Free(h, {StashCopy(f)}))
         /\ StructuresIn(Free(h, {StashCopy(f)})) = StructuresIn(h) \ {StashCopy(f)}
<1> DEFINE g == Free(h, {StashCopy(f)})
<1>1. /\ g.paths = {p \in h.paths : p[1] # StashCopy(f)}
      /\ g.strings = h.strings
      /\ g = [paths |-> g.paths, strings |-> g.strings]
  <2>1. g = [paths |-> {p \in h.paths : p[1] \notin {StashCopy(f)}}, strings |-> h.strings]
    BY FreeFields
  <2> QED BY <2>1
<1>2. g \in [paths : SUBSET (All \X All), strings : SUBSET All]
  BY <1>1 DEF Sound
<1>3. \A p \in h.paths : p[1] = StashCopy(f) => p[2] = StashCopy(f)
  BY Tags, MetadataAssumption DEF Sound
<1>4. \A s \in g.strings : (\E p \in g.paths : p[2] = s) \/ \E e \in Faulty : s = StashCopy(e)
  <2>1. SUFFICES ASSUME NEW s \in h.strings, s # StashCopy(f), NEW p \in h.paths, p[2] = s
                 PROVE  p \in g.paths
    BY <1>1 DEF Sound
  <2> QED BY <1>1, <1>3, <2>1
<1>5. StructuresIn(g) = StructuresIn(h) \ {StashCopy(f)}
  BY <1>1 DEF StructuresIn
<1> HIDE DEF g
<1>6. Sound(g)
  BY <1>1, <1>2, <1>4 DEF Sound
<1> QED BY <1>5, <1>6 DEF g

\* The stashed file's path becomes that of its node at the hash level.
LEMMA HandOnSound ==
  ASSUME NEW h, Sound(h), NEW f \in Entries,
         StashCopy(f) \in StructuresIn(h), Node(f) \notin StructuresIn(h)
  PROVE  /\ Sound(HandOn(h, StashCopy(f), Node(f)))
         /\ StructuresIn(HandOn(h, StashCopy(f), Node(f)))
              = (StructuresIn(h) \ {StashCopy(f)}) \cup {Node(f)}
<1> DEFINE g == HandOn(h, StashCopy(f), Node(f))
           taken == {<<Node(f), p[2]>> : p \in {q \in h.paths : q[1] = StashCopy(f)}}
<1>1. /\ g.paths = {p \in h.paths : p[1] # StashCopy(f)} \cup taken
      /\ g.strings = h.strings
      /\ g = [paths |-> g.paths, strings |-> g.strings]
  <2> DEFINE V == {p \in h.paths : p[1] \notin {StashCopy(f)}}
  <2>1. g = [Free(h, {StashCopy(f)}) EXCEPT !.paths = Free(h, {StashCopy(f)}).paths \cup taken]
    BY DEF HandOn
  <2>2. Free(h, {StashCopy(f)}) = [paths |-> V, strings |-> h.strings]
    BY FreeFields
  <2> HIDE DEF V, taken, g
  <2>3. g = [paths |-> V \cup taken, strings |-> h.strings]
    BY <2>1, <2>2
  <2>4. g.paths = V \cup taken /\ g.strings = h.strings
        /\ g = [paths |-> g.paths, strings |-> g.strings]
    BY <2>3
  <2>5. V = {p \in h.paths : p[1] # StashCopy(f)}
    BY DEF V
  <2> QED BY <2>4, <2>5
<1>2. \A p \in h.paths : p[1] = StashCopy(f) => p[2] = StashCopy(f)
  BY Tags DEF Sound
<1>3. PICK p \in h.paths : p[1] = StashCopy(f)
  BY DEF StructuresIn
<1>4. taken = {<<Node(f), StashCopy(f)>>}
  BY <1>2, <1>3
<1>5. StashCopy(f) \in All /\ Node(f) \in All /\ StashCopy(f) # Node(f)
  BY Tags
<1>6. g \in [paths : SUBSET (All \X All), strings : SUBSET All]
  BY <1>1, <1>4, <1>5 DEF Sound
<1>7. \A q \in g.paths :
         \/ q \in h.paths /\ q[1] # StashCopy(f) /\ q[1] # Node(f) /\ q[2] # StashCopy(f)
         \/ q[1] = Node(f) /\ q[2] = StashCopy(f)
  <2>1. \A q \in h.paths : q[1] # StashCopy(f) => q[2] # StashCopy(f)
    BY <1>2, <1>3 DEF Sound
  <2>2. \A q \in h.paths : q[1] # Node(f)
    BY DEF StructuresIn
  <2> QED BY <1>1, <1>4, <2>1, <2>2
<1>8. \A q \in h.paths : q[1] # StashCopy(f) => q \in g.paths
  BY <1>1
<1>9. <<Node(f), StashCopy(f)>> \in g.paths
  BY <1>1, <1>4
<1>10. StructuresIn(g) = (StructuresIn(h) \ {StashCopy(f)}) \cup {Node(f)}
  BY <1>7, <1>8, <1>9 DEF StructuresIn
<1>11. StashCopy(f) \in h.strings
  BY <1>2, <1>3 DEF Sound
<1>12. \A s \in g.strings : (\E q \in g.paths : q[2] = s) \/ \E e \in Faulty : s = StashCopy(e)
  <2> SUFFICES ASSUME NEW s \in g.strings, ~ \E e \in Faulty : s = StashCopy(e)
               PROVE  \E q \in g.paths : q[2] = s
    OBVIOUS
  <2>1. PICK q \in h.paths : q[2] = s
    BY <1>1 DEF Sound
  <2>2. CASE q[1] = StashCopy(f)
    BY <2>1, <2>2, <1>2, <1>9
  <2>3. CASE q[1] # StashCopy(f)
    BY <2>1, <2>3, <1>8
  <2> QED BY <2>2, <2>3
<1> HIDE DEF g
<1>13. \A p1, q \in g.paths : p1[1] = q[1] <=> p1[2] = q[2]
  BY <1>7 DEF Sound
<1>14. \A q \in g.paths : q[2] \in g.strings
  BY <1>1, <1>7, <1>11 DEF Sound
<1>15. \A q \in g.paths :
          q[2] = q[1] \/ \E e \in Entries : q[1] = Node(e) /\ q[2] = StashCopy(e)
  BY <1>7 DEF Sound
<1>16. Sound(g)
  BY <1>6, <1>12, <1>13, <1>14, <1>15 DEF Sound
<1> QED BY <1>10, <1>16 DEF g
-----------------------------------------------------------------------------
(* A visit *)

\* What an insertion makes of the tree and of the heap go together: the heap
\* has a stashed copy and a node for what the tree points to, and the copy of
\* a match for what the call returns (visited_tree_insert).
LEMMA InsertHeapSound ==
  ASSUME OwnershipInv, phase = "scan", NEW e \in todo,
         NEW old \in Entries \cup {NULL}, NEW bad \in Entries \cup {NULL},
         NEW h, Sound(h), StructuresIn(h) = Structures \cup {Fm(e)},
         InsertHeap(e, old, bad, h)
  PROVE  /\ Sound(heap')
         /\ \A f \in Entries :
              /\ FileEntry(f) \in Structures' <=> FileEntry(f) \in Structures
              /\ Fm(f) \in Structures' <=> Fm(f) \in Structures \/ f = e
              /\ Old(f) \in Structures' <=> Old(f) \in Structures \/ (f = e /\ old # NULL)
              /\ StashCopy(f) \in Structures' <=> tree'[Bucket(f)].fm = f
              /\ Node(f) \in Structures' <=> f \in tree'[Bucket(f)].children
              /\ FirstCopy(f) \in Structures' <=> FirstCopy(f) \in Structures
<1> DEFINE b == Bucket(e)
<1>1. e \in Entries /\ b \in Buckets /\ \A f \in Entries : Bucket(f) \in Buckets
  BY BucketInBuckets DEF OwnershipInv, Inv, TypeOK
<1>2. tree \in [Buckets -> CharNode] /\ tree[b].children \subseteq Entries
      /\ tree[b].fm \in Entries \cup {NULL}
  BY <1>1 DEF OwnershipInv, Inv, TreeInv, TreeTypeOK, CharNode
<1>3. tree[b].fm # e /\ e \notin tree[b].children
  BY <1>1 DEF OwnershipInv, Inv, OnlyVisited, InTree
<1>4. \A f \in Entries :
         /\ StashCopy(f) \in Structures <=> tree[Bucket(f)].fm = f
         /\ Node(f) \in Structures <=> f \in tree[Bucket(f)].children
  BY DEF OwnershipInv, Exact
<1>5. StashCopy(e) \notin StructuresIn(h) /\ Node(e) \notin StructuresIn(h)
      /\ Old(e) \notin StructuresIn(h)
  <2>1. Old(e) \notin Structures
    BY <1>1 DEF OwnershipInv, Exact, Stages
  <2> QED BY <1>1, <1>3, <1>4, <2>1, Tags
<1>6. Structures' = StructuresIn(heap')
  BY DEF Structures, StructuresIn
<1>7. tree[b].fm # NULL =>
         /\ tree[b].fm \in Entries
         /\ Bucket(tree[b].fm) = b
         /\ StashCopy(tree[b].fm) \in StructuresIn(h)
  <2>1. tree[b].fm # NULL => tree[b].fm \in Entries /\ Bucket(tree[b].fm) = b
    BY <1>1, <1>2 DEF OwnershipInv, Inv, TreeInv, WellPlaced
  <2> QED BY <2>1, <1>4
<1>8. StashCopy(e) \in All /\ Node(e) \in All /\ Old(e) \in All
  BY <1>1, Tags
<1>9. NULL \notin Entries
  BY MetadataAssumption
<1> HIDE DEF b
<1>10. CASE Stash(e, old, bad) /\ heap' = Dup(h, {StashCopy(e)})
  <2>1. Sound(heap') /\ StructuresIn(heap') = StructuresIn(h) \cup {StashCopy(e)}
    <3>1. \A f \in Entries : StashCopy(f) = StashCopy(e) => Node(f) \notin StructuresIn(h)
      BY <1>1, <1>5, Tags
    <3> QED BY <1>5, <1>8, <1>10, <3>1, DupSound
  <2>2. old = NULL /\ tree[b].fm = NULL /\ tree' = [tree EXCEPT ![b].fm = e]
    BY <1>10 DEF Stash, Stashed, b
  <2>3. \A f \in Entries :
           /\ tree'[Bucket(f)].fm = f <=> tree[Bucket(f)].fm = f \/ f = e
           /\ tree'[Bucket(f)].children = tree[Bucket(f)].children
    BY <1>1, <1>2, <1>9, <2>2 DEF CharNode, b
  <2> QED BY <1>1, <1>4, <1>6, <2>1, <2>2, <2>3, Tags
<1>11. CASE /\ ReplaceStash(e, old, bad)
            /\ heap' = Dup(Free(h, {StashCopy(Stashed(e))}), {StashCopy(e)})
  <2> DEFINE g == Stashed(e)
  <2>1. old = NULL /\ g \in Faulty /\ g = tree[b].fm /\ tree' = [tree EXCEPT ![b].fm = e]
        /\ heap' = Dup(Free(h, {StashCopy(g)}), {StashCopy(e)})
    BY <1>11 DEF ReplaceStash, Stashed, b
  <2> HIDE DEF g
  <2>2. g \in Entries /\ Bucket(g) = b /\ g # e
    BY <1>3, <1>7, <1>9, <2>1, MetadataAssumption
  <2>3. /\ Sound(Free(h, {StashCopy(g)}))
        /\ StructuresIn(Free(h, {StashCopy(g)})) = StructuresIn(h) \ {StashCopy(g)}
    BY <2>1, FreeSound
  <2>4. \A f \in Entries : StashCopy(f) = StashCopy(e) => Node(f) \notin StructuresIn(h)
    BY <1>1, <1>5, Tags
  <2>5. /\ Sound(heap')
        /\ StructuresIn(heap') = (StructuresIn(h) \ {StashCopy(g)}) \cup {StashCopy(e)}
    BY <1>5, <1>8, <2>1, <2>3, <2>4, DupSound
  <2>6. \A f \in Entries :
           /\ tree'[Bucket(f)].fm = f <=> (tree[Bucket(f)].fm = f /\ f # g) \/ f = e
           /\ tree'[Bucket(f)].children = tree[Bucket(f)].children
    BY <1>1, <1>2, <2>1, <2>2 DEF CharNode, b
  <2>7. \A f \in Entries :
           /\ StashCopy(f) \in Structures' <=>
                (StashCopy(f) \in Structures /\ f # g) \/ f = e
           /\ Node(f) \in Structures' <=> Node(f) \in Structures
    BY <1>1, <1>6, <2>2, <2>5, Tags
  <2>8. \A f \in Entries :
           /\ FileEntry(f) \in Structures' <=> FileEntry(f) \in Structures
           /\ Fm(f) \in Structures' <=> Fm(f) \in Structures \/ f = e
           /\ Old(f) \in Structures' <=> Old(f) \in Structures
           /\ FirstCopy(f) \in Structures' <=> FirstCopy(f) \in Structures
    BY <1>1, <1>6, <2>2, <2>5, Tags
  <2> QED BY <1>4, <2>1, <2>5, <2>6, <2>7, <2>8
<1>12. CASE /\ SplitStash(e, old, bad)
            /\ heap' = Dup(HandOn(h, StashCopy(Stashed(e)), Node(Stashed(e))), {Node(e)})
  <2> DEFINE g == Stashed(e)
             k == HandOn(h, StashCopy(g), Node(g))
  <2>1. /\ old = NULL /\ g # NULL /\ g = tree[b].fm /\ tree[b].children = {}
        /\ tree' = [tree EXCEPT ![b] = [NewCharNode EXCEPT !.children = {g, e}]]
        /\ heap' = Dup(k, {Node(e)})
    BY <1>12 DEF SplitStash, Stashed, NoChildren, b
  <2>2. g \in Entries /\ Bucket(g) = b /\ g # e /\ StashCopy(g) \in StructuresIn(h)
    BY <1>3, <1>7, <2>1
  <2>3. Node(g) \notin StructuresIn(h)
    BY <1>1, <1>4, <2>1, <2>2, Tags
  <2>4. /\ Sound(k)
        /\ StructuresIn(k) = (StructuresIn(h) \ {StashCopy(g)}) \cup {Node(g)}
    BY <2>2, <2>3, HandOnSound
  <2> HIDE DEF g, k
  <2>5. Node(e) \notin StructuresIn(k) /\ \A f \in Entries : StashCopy(f) # Node(e)
    BY <1>1, <1>5, <2>2, <2>4, Tags
  <2>6. /\ Sound(heap')
        /\ StructuresIn(heap')
             = ((StructuresIn(h) \ {StashCopy(g)}) \cup {Node(g)}) \cup {Node(e)}
    BY <1>8, <2>1, <2>4, <2>5, DupSound
  <2>7. \A f \in Entries :
           /\ tree'[Bucket(f)].fm = f <=> tree[Bucket(f)].fm = f /\ f # g
           /\ f \in tree'[Bucket(f)].children <=>
                 f \in tree[Bucket(f)].children \/ f = g \/ f = e
    <3>1. tree'[b].fm = NULL /\ tree'[b].children = {g, e}
      BY <1>1, <1>2, <2>1 DEF NewCharNode
    <3>2. \A c \in Buckets : c # b => tree'[c] = tree[c]
      BY <1>2, <2>1
    <3>3. Bucket(e) = b
      BY DEF b
    <3> QED BY <1>1, <1>9, <2>1, <2>2, <3>1, <3>2, <3>3
  <2>8. \A f \in Entries :
           /\ StashCopy(f) \in Structures' <=> StashCopy(f) \in Structures /\ f # g
           /\ Node(f) \in Structures' <=> Node(f) \in Structures \/ f = g \/ f = e
    BY <1>1, <1>6, <2>2, <2>6, Tags
  <2>9. \A f \in Entries :
           /\ FileEntry(f) \in Structures' <=> FileEntry(f) \in Structures
           /\ Fm(f) \in Structures' <=> Fm(f) \in Structures \/ f = e
           /\ Old(f) \in Structures' <=> Old(f) \in Structures
           /\ FirstCopy(f) \in Structures' <=> FirstCopy(f) \in Structures
    BY <1>1, <1>6, <2>2, <2>6, Tags
  <2> QED BY <1>4, <2>1, <2>6, <2>7, <2>8, <2>9
<1>13. CASE AddChild(e, old, bad) /\ heap' = Dup(h, {Node(e)})
  <2>1. \A f \in Entries : StashCopy(f) # Node(e)
    BY <1>1, StashApart
  <2>2. Sound(heap') /\ StructuresIn(heap') = StructuresIn(h) \cup {Node(e)}
    BY <1>5, <1>8, <1>13, <2>1, DupSound
  <2>3. old = NULL /\ tree' = [tree EXCEPT ![b].children = @ \cup {e}]
    BY <1>13 DEF AddChild, b
  <2>4. \A f \in Entries :
           /\ tree'[Bucket(f)].fm = tree[Bucket(f)].fm
           /\ f \in tree'[Bucket(f)].children <=> f \in tree[Bucket(f)].children \/ f = e
    BY <1>1, <1>2, <2>3 DEF CharNode, b
  <2> QED BY <1>1, <1>4, <1>6, <2>2, <2>3, <2>4, Tags
<1>14. CASE (RejectAtStash(e, old, bad) \/ RejectAtTree(e, old, bad)) /\ heap' = h
  <2>1. old = NULL /\ (tree' = [tree EXCEPT ![b].hashed = TRUE] \/ tree' = tree)
    BY <1>14 DEF RejectAtStash, RejectAtTree, b
  <2>2. \A f \in Entries : /\ tree'[Bucket(f)].fm = tree[Bucket(f)].fm
                           /\ tree'[Bucket(f)].children = tree[Bucket(f)].children
    BY <1>1, <1>2, <2>1 DEF CharNode
  <2> QED BY <1>1, <1>4, <1>6, <1>14, <2>1, <2>2, Tags
<1>15. CASE /\ MatchStash(e, old, bad) \/ MatchChild(e, old, bad)
            /\ heap' = Dup(h, {Old(e)})
  <2>1. old # NULL /\ (tree' = [tree EXCEPT ![b].hashed = TRUE] \/ tree' = tree)
    BY <1>2, <1>9, <1>15 DEF MatchStash, MatchChild, Stashed, b
  <2>2. \A f \in Entries : /\ tree'[Bucket(f)].fm = tree[Bucket(f)].fm
                           /\ tree'[Bucket(f)].children = tree[Bucket(f)].children
    BY <1>1, <1>2, <2>1 DEF CharNode
  <2>3. \A f \in Entries : StashCopy(f) # Old(e)
    BY <1>1, StashApart
  <2>4. Sound(heap') /\ StructuresIn(heap') = StructuresIn(h) \cup {Old(e)}
    BY <1>5, <1>8, <1>15, <2>3, DupSound
  <2> QED BY <1>1, <1>4, <1>6, <2>1, <2>2, <2>4, Tags
<1> QED
  BY <1>10, <1>11, <1>12, <1>13, <1>14, <1>15 DEF InsertHeap
\* metadata_from_entry and the insertion keep OwnershipInv.
LEMMA VisitKeeps ==
  ASSUME OwnershipInv, NEW e \in Queued, Visit(e)
  PROVE  OwnershipInv'
<1>1. Inv'
  BY NextInv DEF OwnershipInv, Visit, Queued, Next
<1>2. PICK old \in Entries \cup {NULL}, bad \in Entries \cup {NULL} :
         /\ todo' = todo \ {e}
         /\ answer' = [fm |-> e, old |-> old, bad |-> bad]
  BY DEF Visit, Insert
<1>3. phase = "scan" /\ UNCHANGED <<unread, lists, phase>>
      /\ InsertHeap(e, old, bad, Dup(heap, {Fm(e)}))
      /\ IF old # NULL
         THEN listing' = listing \cup {e} /\ UNCHANGED leaving
         ELSE leaving' = leaving \cup {e} /\ UNCHANGED listing
  BY <1>2 DEF Visit
<1>4. e \in Entries /\ e \in todo /\ e \notin unread /\ e \notin listing /\ e \notin leaving
      /\ Fm(e) \notin ListStructures /\ FirstCopy(e) \notin ListStructures
      /\ ListStructures' = ListStructures
  BY <1>3 DEF OwnershipInv, Stages, Inv, TypeOK, ListStructures, Queued
<1>5. Sound(Dup(heap, {Fm(e)})) /\ StructuresIn(Dup(heap, {Fm(e)})) = Structures \cup {Fm(e)}
  <2>1. Fm(e) \in All /\ \A f \in Entries : StashCopy(f) # Fm(e)
    BY <1>4, Tags
  <2>2. Fm(e) \notin Structures
    BY <1>4 DEF OwnershipInv, Exact
  <2>3. Sound(heap) /\ StructuresIn(heap) = Structures
    BY DEF OwnershipInv, Structures, StructuresIn
  <2> QED BY <2>1, <2>2, <2>3, DupSound
<1> DEFINE Now(f) ==
              /\ FileEntry(f) \in Structures' <=> FileEntry(f) \in Structures
              /\ Fm(f) \in Structures' <=> Fm(f) \in Structures \/ f = e
              /\ Old(f) \in Structures' <=> Old(f) \in Structures \/ (f = e /\ old # NULL)
              /\ StashCopy(f) \in Structures' <=> tree'[Bucket(f)].fm = f
              /\ Node(f) \in Structures' <=> f \in tree'[Bucket(f)].children
              /\ FirstCopy(f) \in Structures' <=> FirstCopy(f) \in Structures
<1>6. Sound(heap') /\ \A f \in Entries : Now(f)
  BY <1>3, <1>4, <1>5, InsertHeapSound
<1>7. Structures' \subseteq All
  BY <1>6 DEF Sound, Structures
<1>8. Exact'
  <2> SUFFICES ASSUME NEW f \in Entries
               PROVE
          /\ FileEntry(f) \in Structures' <=> f \in Queued' \cup listing' \cup leaving'
          /\ Fm(f) \in Structures' <=>
                f \in listing' \cup leaving' \/ Fm(f) \in ListStructures'
          /\ Old(f) \in Structures' <=>
                f \in listing' \/ (f \in leaving' /\ Fm(f) \in ListStructures')
          /\ StashCopy(f) \in Structures' <=> phase' = "scan" /\ tree'[Bucket(f)].fm = f
          /\ Node(f) \in Structures' <=>
                phase' = "scan" /\ f \in tree'[Bucket(f)].children
          /\ FirstCopy(f) \in Structures' <=> FirstCopy(f) \in ListStructures'
    BY <1>7 DEF Exact
  <2>1. Now(f)
    BY <1>6
  <2>5. f \in Queued' <=> f \in Queued /\ f # e
    BY <1>2, <1>3 DEF Queued
  <2>2. /\ FileEntry(f) \in Structures <=> f \in Queued \cup listing \cup leaving
        /\ Fm(f) \in Structures <=> f \in listing \cup leaving \/ Fm(f) \in ListStructures
        /\ Old(f) \in Structures <=>
              f \in listing \/ (f \in leaving /\ Fm(f) \in ListStructures)
        /\ FirstCopy(f) \in Structures <=> FirstCopy(f) \in ListStructures
    BY DEF OwnershipInv, Exact
  <2>3. CASE f = e
    BY <1>2, <1>3, <1>4, <2>1, <2>2, <2>3, <2>5 DEF Queued
  <2>4. CASE f # e
    BY <1>2, <1>3, <1>4, <2>1, <2>2, <2>4, <2>5
  <2> QED BY <2>3, <2>4
<1>9. Stages'
  BY <1>2, <1>3, <1>4 DEF OwnershipInv, Stages
<1> QED BY <1>1, <1>6, <1>8, <1>9 DEF OwnershipInv

-----------------------------------------------------------------------------
(* The other steps *)

\* An entry that is passed over is freed and nothing is made of it.
LEMMA VisitFailsKeeps ==
  ASSUME OwnershipInv, NEW e \in Queued, VisitFails(e)
  PROVE  OwnershipInv'
<1>1. /\ heap' = FreeMetadata(heap, {FileEntry(e)})
      /\ unread' = unread \cup {e}
      /\ UNCHANGED <<vars, listing, leaving, lists, phase>>
  BY DEF VisitFails
<1>2. e \in Entries /\ e \in todo /\ e \notin listing /\ e \notin leaving
  BY DEF OwnershipInv, Stages, Inv, TypeOK, Queued
<1>3. /\ Inv'
      /\ tree' = tree /\ todo' = todo /\ phase' = phase
      /\ ListStructures' = ListStructures
      /\ Queued' = Queued \ {e}
  BY <1>1 DEF OwnershipInv, vars, Inv, TypeOK, TreeInv, TreeTypeOK, WellPlaced,
     StashOrChildren, DistinctDigests, OnlyVisited, InTree, ListStructures, Queued
<1>4. Sound(heap') /\ Structures' = Structures \ {FileEntry(e)}
  <2>1. Sound(heap) /\ StructuresIn(heap) = Structures /\ StructuresIn(heap') = Structures'
    BY DEF OwnershipInv, Structures, StructuresIn
  <2> QED BY <1>1, <2>1, FreeMetadataSound
<1>5. Exact'
  <2>1. Structures' \subseteq All
    BY <1>4 DEF OwnershipInv, Exact
  <2>2. \A f \in Entries :
           /\ FileEntry(f) \in Structures' <=> FileEntry(f) \in Structures /\ f # e
           /\ Fm(f) \in Structures' <=> Fm(f) \in Structures
           /\ Old(f) \in Structures' <=> Old(f) \in Structures
           /\ StashCopy(f) \in Structures' <=> StashCopy(f) \in Structures
           /\ Node(f) \in Structures' <=> Node(f) \in Structures
           /\ FirstCopy(f) \in Structures' <=> FirstCopy(f) \in Structures
    BY <1>2, <1>4, Tags
  <2> QED BY <1>1, <1>2, <1>3, <2>1, <2>2 DEF OwnershipInv, Exact
<1>6. Stages'
  BY <1>1, <1>2, <1>3 DEF OwnershipInv, Stages
<1> QED BY <1>3, <1>4, <1>5, <1>6 DEF OwnershipInv

\* Listing a match keeps OwnershipInv: fm is the list's from then on.
LEMMA ListKeeps ==
  ASSUME OwnershipInv, NEW e \in listing, List(e)
  PROVE  OwnershipInv'
<1> DEFINE first == IF lists[Digest[e]] = {} THEN {FirstCopy(e)} ELSE {}
<1>1. /\ lists' = [lists EXCEPT ![Digest[e]] = @ \cup first \cup {Fm(e)}]
      /\ heap' = Dup(heap, first)
      /\ listing' = listing \ {e} /\ leaving' = leaving \cup {e}
      /\ UNCHANGED <<vars, unread, phase>>
  BY DEF List
<1>2. e \in Entries /\ e \notin todo /\ e \notin leaving
      /\ Fm(e) \notin ListStructures /\ FirstCopy(e) \notin ListStructures
  BY DEF OwnershipInv, Stages
<1>3. first \subseteq {FirstCopy(e)}
  OBVIOUS
<1> HIDE DEF first
<1>4. /\ Inv'
      /\ tree' = tree /\ todo' = todo /\ phase' = phase /\ Queued' = Queued
  BY <1>1 DEF OwnershipInv, vars, Inv, TypeOK, TreeInv, TreeTypeOK, WellPlaced,
     StashOrChildren, DistinctDigests, OnlyVisited, InTree, Queued
<1>5. ListStructures' = ListStructures \cup first \cup {Fm(e)}
  <2>1. lists \in [{Digest[f] : f \in Entries} ->
                      SUBSET UNION {{Fm(f), FirstCopy(f)} : f \in Entries}]
        /\ Digest[e] \in {Digest[f] : f \in Entries}
    BY <1>2 DEF OwnershipInv, Stages
  <2>2. /\ DOMAIN lists' = DOMAIN lists /\ Digest[e] \in DOMAIN lists
        /\ lists'[Digest[e]] = lists[Digest[e]] \cup first \cup {Fm(e)}
        /\ \A d \in DOMAIN lists : d # Digest[e] => lists'[d] = lists[d]
    BY <1>1, <2>1
  <2> QED BY <2>2 DEF ListStructures
<1>6. /\ Sound(heap')
      /\ Structures' = Structures \cup first
  <2>1. first \subseteq All /\ \A f \in Entries : StashCopy(f) \notin first
    BY <1>2, <1>3, Tags
  <2>2. first \cap Structures = {}
    BY <1>2, <1>3 DEF OwnershipInv, Exact
  <2>3. Sound(heap) /\ StructuresIn(heap) = Structures /\ StructuresIn(heap') = Structures'
    BY DEF OwnershipInv, Structures, StructuresIn
  <2> QED BY <1>1, <2>1, <2>2, <2>3, DupSound
<1>7. Exact'
  <2>1. Structures' \subseteq All
    BY <1>2, <1>3, <1>6, Tags DEF OwnershipInv, Exact
  <2>2. \A f \in Entries :
           /\ first \cap {FileEntry(f), Fm(f), Old(f), StashCopy(f), Node(f)} = {}
           /\ Fm(f) \in ListStructures' <=> Fm(f) \in ListStructures \/ f = e
           /\ FirstCopy(f) \in ListStructures' <=>
                 FirstCopy(f) \in ListStructures \/ FirstCopy(f) \in first
    BY <1>2, <1>3, <1>5, Tags
  <2> QED BY <1>1, <1>2, <1>4, <1>6, <2>1, <2>2 DEF OwnershipInv, Exact
<1>8. Stages'
  <2>1. first \cup {Fm(e)} \subseteq UNION {{Fm(f), FirstCopy(f)} : f \in Entries}
    BY <1>2, <1>3
  <2>2. lists' \in [{Digest[f] : f \in Entries} ->
                       SUBSET UNION {{Fm(f), FirstCopy(f)} : f \in Entries}]
    BY <1>1, <2>1 DEF OwnershipInv, Stages
  <2>3. \A f \in todo' \cup listing' :
          Fm(f) \notin ListStructures' /\ FirstCopy(f) \notin ListStructures'
    <3>1. \A f \in todo' \cup listing' :
             /\ f \in Entries /\ f # e
             /\ Fm(f) \notin ListStructures /\ FirstCopy(f) \notin ListStructures
      BY <1>1, <1>2, <1>4 DEF OwnershipInv, Stages, Inv, TypeOK
    <3> QED BY <1>2, <1>3, <1>5, <3>1, Tags
  <2> QED BY <1>1, <1>2, <1>4, <2>2, <2>3 DEF OwnershipInv, Stages
<1> QED BY <1>4, <1>6, <1>7, <1>8 DEF OwnershipInv

\* The end of a visit keeps OwnershipInv: fm is freed unless it was listed,
\* when the copy of its match is.
LEMMA LeaveKeeps ==
  ASSUME OwnershipInv, NEW e \in leaving, Leave(e)
  PROVE  OwnershipInv'
<1>1. /\ heap' = FreeMetadata(heap, {Owned(e), FileEntry(e)})
      /\ leaving' = leaving \ {e}
      /\ UNCHANGED <<vars, unread, listing, lists, phase>>
  BY DEF Leave
<1>2. e \in Entries /\ e \notin todo /\ e \notin listing
  BY DEF OwnershipInv, Stages
<1>3. /\ Inv'
      /\ tree' = tree /\ todo' = todo /\ phase' = phase /\ Queued' = Queued
      /\ ListStructures' = ListStructures
  BY <1>1 DEF OwnershipInv, vars, Inv, TypeOK, TreeInv, TreeTypeOK, WellPlaced,
     StashOrChildren, DistinctDigests, OnlyVisited, InTree, ListStructures, Queued
<1>4. Owned(e) = IF Fm(e) \in ListStructures THEN Old(e) ELSE Fm(e)
  BY <1>2 DEF OwnershipInv, Exact, Owned
<1>5. Sound(heap') /\ Structures' = Structures \ {Owned(e), FileEntry(e)}
  <2>1. Sound(heap) /\ StructuresIn(heap) = Structures /\ StructuresIn(heap') = Structures'
    BY DEF OwnershipInv, Structures, StructuresIn
  <2> QED BY <1>1, <2>1, FreeMetadataSound
<1>6. Exact'
  <2>1. Structures' \subseteq All
    BY <1>5 DEF OwnershipInv, Exact
  <2>2. \A f \in Entries :
           /\ FileEntry(f) \in Structures' <=> FileEntry(f) \in Structures /\ f # e
           /\ Fm(f) \in Structures' <=>
                Fm(f) \in Structures /\ ~(f = e /\ Fm(e) \notin ListStructures)
           /\ Old(f) \in Structures' <=>
                Old(f) \in Structures /\ ~(f = e /\ Fm(e) \in ListStructures)
           /\ StashCopy(f) \in Structures' <=> StashCopy(f) \in Structures
           /\ Node(f) \in Structures' <=> Node(f) \in Structures
           /\ FirstCopy(f) \in Structures' <=> FirstCopy(f) \in Structures
    BY <1>2, <1>4, <1>5, Tags
  <2>3. e \notin Queued
    BY <1>2 DEF Queued
  <2> QED BY <1>1, <1>2, <1>3, <2>1, <2>2, <2>3 DEF OwnershipInv, Exact
<1>7. Stages'
  BY <1>1, <1>3 DEF OwnershipInv, Stages
<1> QED BY <1>3, <1>5, <1>6, <1>7 DEF OwnershipInv

\* Freeing the tree after the join frees its own copies and nothing that a
\* list points to.
LEMMA FreeVisitedTreeKeeps ==
  ASSUME OwnershipInv, FreeVisitedTree
  PROVE  OwnershipInv'
<1>1. /\ phase = "scan" /\ listing = {} /\ leaving = {}
      /\ heap' = FreeMetadata(heap, TreeStructures)
      /\ phase' = "deduplicate"
      /\ UNCHANGED <<vars, unread, listing, leaving, lists>>
  BY DEF FreeVisitedTree
<1>2. Inv' /\ tree' = tree /\ todo' = todo /\ Queued' = Queued
      /\ ListStructures' = ListStructures
  BY <1>1 DEF OwnershipInv, vars, Inv, TypeOK, TreeInv, TreeTypeOK, WellPlaced,
     StashOrChildren, DistinctDigests, OnlyVisited, InTree, ListStructures, Queued
<1>3. Sound(heap') /\ Structures' = Structures \ TreeStructures
  <2>1. Sound(heap) /\ StructuresIn(heap) = Structures /\ StructuresIn(heap') = Structures'
    BY DEF OwnershipInv, Structures, StructuresIn
  <2> QED BY <1>1, <2>1, FreeMetadataSound
<1>4. \A f \in Entries :
         /\ {FileEntry(f), Fm(f), Old(f), FirstCopy(f)} \cap TreeStructures = {}
         /\ StashCopy(f) \in TreeStructures <=> tree[Bucket(f)].fm = f
         /\ Node(f) \in TreeStructures <=> f \in tree[Bucket(f)].children
  BY Tags DEF TreeStructures
<1>5. Exact'
  BY <1>1, <1>2, <1>3, <1>4 DEF OwnershipInv, Exact
<1>6. Stages'
  BY <1>1, <1>2 DEF OwnershipInv, Stages
<1> QED BY <1>2, <1>3, <1>5, <1>6 DEF OwnershipInv

\* Freeing the duplicate tree keeps OwnershipInv.
LEMMA FreeDuplicateTreeKeeps ==
  ASSUME OwnershipInv, FreeDuplicateTree
  PROVE  OwnershipInv'
<1>1. /\ phase = "deduplicate"
      /\ heap' = FreeMetadata(heap, ListStructures)
      /\ lists' = [d \in DOMAIN lists |-> {}]
      /\ phase' = "freed"
      /\ UNCHANGED <<vars, unread, listing, leaving>>
  BY DEF FreeDuplicateTree
<1>2. Inv' /\ tree' = tree /\ todo' = todo /\ Queued' = Queued
  BY <1>1 DEF OwnershipInv, vars, Inv, TypeOK, TreeInv, TreeTypeOK, WellPlaced,
     StashOrChildren, DistinctDigests, OnlyVisited, InTree, Queued
<1>3. Sound(heap') /\ Structures' = Structures \ ListStructures
  <2>1. Sound(heap) /\ StructuresIn(heap) = Structures /\ StructuresIn(heap') = Structures'
    BY DEF OwnershipInv, Structures, StructuresIn
  <2> QED BY <1>1, <2>1, FreeMetadataSound
<1>4. ListStructures' = {}
  BY <1>1 DEF ListStructures
<1>5. listing = {} /\ leaving = {}
      /\ ListStructures \subseteq UNION {{Fm(e), FirstCopy(e)} : e \in Entries}
  BY <1>1 DEF OwnershipInv, Stages, ListStructures
<1>6. Exact'
  <2>1. \A f \in Entries :
           {FileEntry(f), Old(f), StashCopy(f), Node(f)} \cap ListStructures = {}
    BY <1>5, Tags
  <2> QED BY <1>1, <1>2, <1>3, <1>4, <1>5, <2>1 DEF OwnershipInv, Exact
<1>7. Stages'
  BY <1>1, <1>2, <1>4, <1>5 DEF OwnershipInv, Stages
<1> QED BY <1>2, <1>3, <1>6, <1>7 DEF OwnershipInv

\* The heap of the queued entries satisfies OwnershipInv.
LEMMA HeapInitInv == HeapInit => OwnershipInv
<1> SUFFICES ASSUME HeapInit PROVE OwnershipInv
  OBVIOUS
<1> DEFINE none == [paths |-> {}, strings |-> {}]
<1>1. Inv
  BY InitInv DEF HeapInit
<1>2. Sound(none) /\ StructuresIn(none) = {}
  BY DEF Sound, StructuresIn
<1> HIDE DEF none
<1>3. /\ {FileEntry(e) : e \in Entries} \subseteq All
      /\ \A e \in Entries : StashCopy(e) \notin {FileEntry(f) : f \in Entries}
  BY Tags
<1>4. Sound(heap) /\ StructuresIn(heap) = {FileEntry(e) : e \in Entries}
  <2>1. heap = Dup(none, {FileEntry(e) : e \in Entries})
    BY DEF HeapInit, none
  <2>2. \A e \in Entries : StashCopy(e) \in {FileEntry(f) : f \in Entries}
                             => Node(e) \notin StructuresIn(none)
    BY <1>3
  <2>3. {FileEntry(e) : e \in Entries} \cap StructuresIn(none) = {}
    BY <1>2
  <2>4. /\ Sound(Dup(none, {FileEntry(e) : e \in Entries}))
        /\ StructuresIn(Dup(none, {FileEntry(e) : e \in Entries}))
             = StructuresIn(none) \cup {FileEntry(e) : e \in Entries}
    BY <1>2, <1>3, <2>2, <2>3, DupSound
  <2> QED BY <1>2, <2>1, <2>4
<1>5. Structures = {FileEntry(e) : e \in Entries}
  BY <1>4 DEF Structures, StructuresIn
<1>6. todo = Entries /\ unread = {} /\ Queued = Entries /\ listing = {} /\ leaving = {} /\ phase = "scan"
      /\ \A e \in Entries : tree[Bucket(e)].fm # e /\ e \notin tree[Bucket(e)].children
  BY BucketInBuckets, MetadataAssumption DEF HeapInit, Init, TreeInit, NewCharNode, Queued
<1>7. lists \in [{Digest[e] : e \in Entries} ->
                    SUBSET UNION {{Fm(e), FirstCopy(e)} : e \in Entries}]
      /\ ListStructures = {}
  BY DEF HeapInit, ListStructures
<1>8. \A e, f \in Entries :
         /\ FileEntry(e) \in Structures
         /\ Structures \cap {Fm(e), Old(e), StashCopy(e), Node(e), FirstCopy(e)} = {}
  BY <1>5, Tags
<1>9. Exact
  BY <1>3, <1>5, <1>6, <1>7, <1>8 DEF Exact
<1>10. Stages
  BY <1>6, <1>7 DEF Stages
<1> QED BY <1>1, <1>4, <1>9, <1>10 DEF OwnershipInv

\* Every step keeps OwnershipInv.
LEMMA HeapNextInv == OwnershipInv /\ [HeapNext]_heapVars => OwnershipInv'
<1> SUFFICES ASSUME OwnershipInv, [HeapNext]_heapVars PROVE OwnershipInv'
  OBVIOUS
<1>1. CASE HeapFinished \/ UNCHANGED heapVars
  BY <1>1 DEF HeapFinished, heapVars, vars, OwnershipInv, Inv, TypeOK, TreeInv, TreeTypeOK,
     WellPlaced, StashOrChildren, DistinctDigests, OnlyVisited, InTree, Exact, Stages,
     Structures, ListStructures, Queued
<1> QED
  BY <1>1, VisitKeeps, VisitFailsKeeps, ListKeeps, LeaveKeeps, FreeVisitedTreeKeeps, FreeDuplicateTreeKeeps
  DEF HeapNext

\* For any files, any number of visits at once and any hash failures, the
\* heap is what the visits, the tree and the lists point to.
THEOREM HeapOwnershipInv == HeapSpec => []OwnershipInv
<1> QED BY HeapInitInv, HeapNextInv, PTL DEF HeapSpec

\* What the queue still held when its head was freed.
QueuedAtEnd == IF phase = "scan" THEN {} ELSE {FileEntry(e) : e \in Queued}

\* What is reachable, with what the queue still held, is what is allocated.
LEMMA ReachableExact ==
  OwnershipInv => Reachable \subseteq Structures /\ Structures \subseteq Reachable \cup QueuedAtEnd
<1> SUFFICES ASSUME OwnershipInv
             PROVE  Reachable \subseteq Structures /\ Structures \subseteq Reachable \cup QueuedAtEnd
  OBVIOUS
<1>1. \A e \in leaving : Owned(e) = IF Fm(e) \in ListStructures THEN Old(e) ELSE Fm(e)
  BY DEF OwnershipInv, Exact, Stages, Owned
<1>2. Queued \subseteq Entries /\ listing \subseteq Entries /\ leaving \subseteq Entries
      /\ listing \cap leaving = {}
  BY DEF OwnershipInv, Inv, TypeOK, Stages, Queued
<1>3. ListStructures \subseteq UNION {{Fm(e), FirstCopy(e)} : e \in Entries}
  BY DEF OwnershipInv, Stages, ListStructures
<1>4. Reachable \subseteq Structures
  <2> SUFFICES ASSUME NEW s \in Reachable PROVE s \in Structures
    OBVIOUS
  <2>1. CASE s \in {FileEntry(e) : e \in (IF phase = "scan" THEN Queued ELSE {})
                                          \cup listing \cup leaving}
    BY <2>1, <1>2 DEF OwnershipInv, Exact
  <2>2. CASE s \in UNION {{Fm(e), Old(e)} : e \in listing}
    BY <2>2, <1>2 DEF OwnershipInv, Exact
  <2>3. CASE s \in UNION {{Fm(e), Owned(e)} : e \in leaving}
    BY <2>3, <1>1, <1>2 DEF OwnershipInv, Exact
  <2>4. CASE phase = "scan" /\ s \in TreeStructures
    BY <2>4 DEF OwnershipInv, Exact, TreeStructures
  <2>5. CASE s \in ListStructures
    BY <2>5, <1>3 DEF OwnershipInv, Exact
  <2> QED BY <2>1, <2>2, <2>3, <2>4, <2>5 DEF Reachable
<1>5. Structures \subseteq Reachable \cup QueuedAtEnd
  <2> SUFFICES ASSUME NEW s \in Structures PROVE s \in Reachable \cup QueuedAtEnd
    OBVIOUS
  <2>1. PICK e \in Entries :
           s \in {FileEntry(e), Fm(e), StashCopy(e), Node(e), Old(e), FirstCopy(e)}
    BY AllKinds DEF OwnershipInv, Exact
  <2>2. CASE s = FileEntry(e)
    BY <2>2 DEF OwnershipInv, Exact, Reachable, QueuedAtEnd
  <2>3. CASE s = Fm(e)
    BY <2>3 DEF OwnershipInv, Exact, Reachable
  <2>4. CASE s = Old(e)
    <3>1. e \in listing \/ (e \in leaving /\ Fm(e) \in ListStructures)
      BY <2>4 DEF OwnershipInv, Exact
    <3>2. CASE e \in listing
      BY <2>4, <3>2 DEF Reachable
    <3>3. CASE e \in leaving /\ Fm(e) \in ListStructures
      BY <2>4, <3>3, <1>1 DEF Reachable
    <3> QED BY <3>1, <3>2, <3>3
  <2>5. CASE s = StashCopy(e)
    BY <2>5 DEF OwnershipInv, Exact, Reachable, TreeStructures
  <2>6. CASE s = Node(e)
    BY <2>6 DEF OwnershipInv, Exact, Reachable, TreeStructures
  <2>7. CASE s = FirstCopy(e)
    BY <2>7 DEF OwnershipInv, Exact, Reachable
  <2> QED BY <2>1, <2>2, <2>3, <2>4, <2>5, <2>6, <2>7
<1> QED BY <1>4, <1>5

\* No visit, no freeing and no listing leaves a pointer to freed memory or
\* frees anything twice (map.c 322-343, dedup.c 118-165, 769-780).
THEOREM HeapPointersLive == HeapSpec => []PointersLive
<1>1. OwnershipInv => PointersLive
  <2> SUFFICES ASSUME OwnershipInv PROVE PointersLive
    OBVIOUS
  <2>1. StringsOf(Structures) \subseteq heap.strings
    BY DEF OwnershipInv, Sound, StringsOf
  <2>2. \A p, q \in heap.paths : p[1] = q[1] <=> p[2] = q[2]
    BY DEF OwnershipInv, Sound
  <2> QED BY <2>1, <2>2, ReachableExact DEF PointersLive
<1> QED BY <1>1, HeapOwnershipInv, PTL

\* All memory is freed by the end and before that has an owner, but for the
\* entries still queued at the join (dedup.c 769 with queue.c 39-41) and the
\* path of a stashed file that could not be hashed (map.c 308).
THEOREM HeapNothingLeaks == HeapSpec => []NothingLeaks
<1>1. OwnershipInv => NothingLeaks
  <2> SUFFICES ASSUME OwnershipInv PROVE NothingLeaks
    OBVIOUS
  <2>1. heap.strings \subseteq StringsOf(Structures) \cup {StashCopy(e) : e \in Faulty}
    <3>1. \A p \in heap.paths : p[1] \in Structures
      BY DEF Structures
    <3> QED BY <3>1 DEF OwnershipInv, Sound, StringsOf
  <2> QED BY <2>1, ReachableExact DEF NothingLeaks, QueuedAtEnd
<1> QED BY <1>1, HeapOwnershipInv, PTL
=============================================================================
