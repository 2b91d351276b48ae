------------------------------ MODULE Ownership ------------------------------
(***************************************************************************)
(* The memory of the visited tree, of visit_entry and of the duplicate     *)
(* lists: which FileMetadata (and FileEntry) structures are allocated,     *)
(* which path string each of them points to, and who frees what.  Several  *)
(* visits are under way at once; the two mutexes make the insertion and    *)
(* the listing one step each, and what a thread allocates or frees for     *)
(* itself is in the step before or after.                                  *)
(*                                                                         *)
(* An allocation is named for what it was made for, and a string for the   *)
(* structure that strdup made it for; each is made at most once.           *)
(***************************************************************************)
EXTENDS Visited, Naturals, FiniteSets

CONSTANTS
    Threads,        \* bound: so many visits are under way at once
    Unreadable      \* the entries whose metadata may be out of reach

ASSUME ThreadsAssumption == Threads \in Nat \ {0} /\ Unreadable \subseteq Entries

VARIABLES
    heap,       \* paths: the structures, each with its string; strings: those
                \* that are allocated
    unread,     \* the entries freed without an insertion
    listing,    \* the visits that found a match and have not listed it
    leaving,    \* the visits that have nothing left to do but free
    lists,      \* the duplicate tree: for each hash the structures on its list
    phase       \* of main: "scan", "deduplicate" or "freed"

heapVars == <<vars, heap, unread, listing, leaving, lists, phase>>

FileEntry(e) == <<"entry", e>>
Fm(e) == <<"fm", e>>            \* what metadata_from_entry returns
StashCopy(e) == <<"stash", e>>  \* the copy in CharNode.fm
Node(e) == <<"node", e>>        \* the one in a FileMetadataNode
Old(e) == <<"old", e>>          \* the copy of its match a visit holds
FirstCopy(e) == <<"first", e>>  \* the copy of that at the head of a list

Structures == {p[1] : p \in heap.paths}
StringsOf(S) == {p[2] : p \in {q \in heap.paths : q[1] \in S}}

\* metadata_dup, and malloc with strdup: a structure with a string of its own.
Dup(h, S) == [paths |-> h.paths \cup {<<s, s>> : s \in S}, strings |-> h.strings \cup S]

\* free of the structures alone.
Free(h, S) == [h EXCEPT !.paths = {p \in @ : p[1] \notin S}]

\* free_metadata, free_metadata_node, file_entry_free: each and its string.
FreeMetadata(h, S) ==
    [Free(h, S) EXCEPT !.strings = @ \ {p[2] : p \in {q \in h.paths : q[1] \in S}}]

\* Slip: the structure is freed with the string that was handed on.
HandOnFreeing(h, s, t) ==
    LET taken == {<<t, p[2]>> : p \in {q \in h.paths : q[1] = s}}
    IN [FreeMetadata(h, {s}) EXCEPT !.paths = @ \cup taken]

\* t gets what s has, its string included, and s is freed.
HandOn(h, s, t) ==
    LET taken == {<<t, p[2]>> : p \in {q \in h.paths : q[1] = s}}
    IN [Free(h, {s}) EXCEPT !.paths = @ \cup taken]

-----------------------------------------------------------------------------
\* The entries are all on the queue.
HeapInit ==
    /\ Init
    /\ heap = Dup([paths |-> {}, strings |-> {}], {FileEntry(e) : e \in Entries})
    /\ unread = {} /\ listing = {} /\ leaving = {}
    /\ lists = [d \in {Digest[e] : e \in Entries} |-> {}]
    /\ phase = "scan"

\* What visited_tree_insert and the copy of its result make of heap h.
InsertHeap(e, old, bad, h) ==
    \/ Stash(e, old, bad) /\ heap' = Dup(h, {StashCopy(e)})
    \/ /\ ReplaceStash(e, old, bad)
       /\ heap' = Dup(Free(h, {StashCopy(Stashed(e))}), {StashCopy(e)})
    \/ /\ SplitStash(e, old, bad)
       /\ heap' = Dup(HandOn(h, StashCopy(Stashed(e)), Node(Stashed(e))), {Node(e)})
    \/ AddChild(e, old, bad) /\ heap' = Dup(h, {Node(e)})
    \/ (RejectAtStash(e, old, bad) \/ RejectAtTree(e, old, bad)) /\ heap' = h
    \/ (MatchStash(e, old, bad) \/ MatchChild(e, old, bad)) /\ heap' = Dup(h, {Old(e)})

\* The entries no worker has taken: neither inserted nor passed over.
Queued == todo \ unread

\* metadata_from_entry returns NULL: visit_entry inserts nothing and dedup_work
\* frees the entry.
VisitFails(e) ==
    /\ phase = "scan" /\ e \in Queued \cap Unreadable
    /\ heap' = FreeMetadata(heap, {FileEntry(e)})
    /\ unread' = unread \cup {e}
    /\ UNCHANGED <<vars, listing, leaving, lists, phase>>

\* metadata_from_entry and the section under visited_mutex.
Visit(e) ==
    /\ phase = "scan" /\ e \in Queued /\ Cardinality(listing \cup leaving) < Threads
    /\ Insert(e)
    /\ InsertHeap(e, answer'.old, answer'.bad, Dup(heap, {Fm(e)}))
    /\ IF answer'.old # NULL
       THEN listing' = listing \cup {e} /\ UNCHANGED leaving
       ELSE leaving' = leaving \cup {e} /\ UNCHANGED listing
    /\ UNCHANGED <<unread, lists, phase>>

\* The section under duplicates_mutex; fm is the list's from here on.
List(e) ==
    LET first == IF lists[Digest[e]] = {} THEN {FirstCopy(e)} ELSE {} IN
    /\ e \in listing
    /\ lists' = [lists EXCEPT ![Digest[e]] = @ \cup first \cup {Fm(e)}]
    /\ heap' = Dup(heap, first)
    /\ listing' = listing \ {e} /\ leaving' = leaving \cup {e}
    /\ UNCHANGED <<vars, unread, phase>>

\* What visit_entry still owns.
Owned(e) == IF Old(e) \in Structures THEN Old(e) ELSE Fm(e)

\* Slip: the copy of the match is left.
LeaveOld(e) ==
    /\ e \in leaving
    /\ heap' = FreeMetadata(heap, {Owned(e), FileEntry(e)} \ {Old(e)})
    /\ leaving' = leaving \ {e}
    /\ UNCHANGED <<vars, unread, listing, lists, phase>>

\* The end of visit_entry, and file_entry_free.
Leave(e) ==
    /\ e \in leaving
    /\ heap' = FreeMetadata(heap, {Owned(e), FileEntry(e)})
    /\ leaving' = leaving \ {e}
    /\ UNCHANGED <<vars, unread, listing, lists, phase>>

\* The structures the tree points to.
TreeStructures ==
    {StashCopy(e) : e \in {f \in Entries : tree[Bucket(f)].fm = f}}
    \cup {Node(e) : e \in {f \in Entries : f \in tree[Bucket(f)].children}}

ListStructures == UNION {lists[d] : d \in DOMAIN lists}

\* After the join, when no visit is under way but entries may still be queued
\* (a worker may leave without a look at the queue): free_file_entry_queue
\* frees the head of the queue alone, free_visited_tree the whole tree, and
\* main goes on to deduplicate.
FreeVisitedTree ==
    /\ phase = "scan" /\ listing = {} /\ leaving = {}
    /\ heap' = FreeMetadata(heap, TreeStructures)
    /\ phase' = "deduplicate"
    /\ UNCHANGED <<vars, unread, listing, leaving, lists>>

FreeDuplicateTree ==
    /\ phase = "deduplicate"
    /\ heap' = FreeMetadata(heap, ListStructures)
    /\ lists' = [d \in DOMAIN lists |-> {}]
    /\ phase' = "freed"
    /\ UNCHANGED <<vars, unread, listing, leaving>>

HeapFinished == phase = "freed" /\ UNCHANGED heapVars

HeapNext ==
    \/ \E e \in Queued : Visit(e) \/ VisitFails(e)
    \/ \E e \in listing : List(e)
    \/ \E e \in leaving : Leave(e)
    \/ FreeVisitedTree \/ FreeDuplicateTree \/ HeapFinished

HeapSpec == HeapInit /\ [][HeapNext]_heapVars

-----------------------------------------------------------------------------
\* What is pointed to: by the queue until its head is freed, by the visits
\* (which read fm after its listing too), by the tree until it is freed, and by
\* the lists.
Reachable ==
    {FileEntry(e) : e \in (IF phase = "scan" THEN Queued ELSE {})
                            \cup listing \cup leaving}
    \cup (UNION {{Fm(e), Old(e)} : e \in listing})
    \cup (UNION {{Fm(e), Owned(e)} : e \in leaving})
    \cup (IF phase = "scan" THEN TreeStructures ELSE {})
    \cup ListStructures

\* Whatever is pointed to is allocated and its path too, and no path has two
\* owners, so that none is freed twice or read after it was freed: not by
\* splitting a stash (which hands its path on), not by freeing the tree
\* before deduplicate reads the lists, and in no interleaving of the visits
\* (map.c 322-343, dedup.c 118-165, 769-780).
PointersLive ==
    /\ Reachable \subseteq Structures
    /\ StringsOf(Structures) \subseteq heap.strings
    /\ \A p, q \in heap.paths : p[1] = q[1] <=> p[2] = q[2]

\* All memory has its one owner that frees it: nothing is out of reach and
\* nothing is left at the end, with two exceptions, both with their paths: the
\* entries still queued at the join (dedup.c 769 with queue.c 39-41), and of a
\* stashed file that could not be hashed the path alone (map.c 308).
NothingLeaks ==
    /\ Structures \subseteq
          Reachable \cup (IF phase = "scan" THEN {} ELSE {FileEntry(e) : e \in Queued})
    /\ heap.strings \subseteq StringsOf(Structures) \cup {StashCopy(e) : e \in Faulty}
=============================================================================
