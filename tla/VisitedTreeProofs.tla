-------------------------- MODULE VisitedTreeProofs --------------------------
(***************************************************************************)
(* What one visited_tree_insert does to the tree, for any set of files:    *)
(* the lemmas the proofs about Visited and Scan rest on.                   *)
(***************************************************************************)
EXTENDS VisitedTree, TLAPS

\* Every file has a bucket.
LEMMA BucketInBuckets == \A e \in Entries : Bucket(e) \in Buckets
  BY DEF Buckets

\* The empty tree satisfies the invariant.
LEMMA TreeInitInv == TreeInit => TreeInv
  BY MetadataAssumption
  DEF TreeInit, TreeInv, TreeTypeOK, WellPlaced, StashOrChildren, DistinctDigests,
      CharNode, NewCharNode

\* A node as TreeInv wants it at b.
NodeOK(b, node) ==
    /\ node \in CharNode
    /\ node.fm # NULL => Bucket(node.fm) = b
    /\ \A c \in node.children : Bucket(c) = b
    /\ node.children # {} => node.fm = NULL
    /\ \A c, d \in node.children : Digest[c] = Digest[d] => c = d

\* The tree is well formed node by node.
LEMMA TreeByNodes ==
  TreeInv <=> tree \in [Buckets -> CharNode] /\ \A b \in Buckets : NodeOK(b, tree[b])
  BY DEF TreeInv, TreeTypeOK, WellPlaced, StashOrChildren, DistinctDigests, NodeOK

\* And stays so when a well-formed node takes another's place.
LEMMA NodeReplaced ==
  ASSUME TreeInv, NEW b \in Buckets, NEW node, NodeOK(b, node), tree' = [tree EXCEPT ![b] = node]
  PROVE  TreeInv'
<1>1. tree \in [Buckets -> CharNode] /\ \A c \in Buckets : NodeOK(c, tree[c])
  BY TreeByNodes
<1>2. tree' \in [Buckets -> CharNode] /\ \A c \in Buckets : NodeOK(c, tree'[c])
  BY <1>1 DEF NodeOK
<1> QED BY <1>2
        DEF TreeInv, TreeTypeOK, WellPlaced, StashOrChildren, DistinctDigests, NodeOK

\* Every way out of visited_tree_insert keeps the tree well formed.
LEMMA InsertKeepsTreeInv ==
  ASSUME TreeInv, NEW e \in Entries, NEW old, NEW bad, VisitedTreeInsert(e, old, bad)
  PROVE  TreeInv'
<1> DEFINE b == Bucket(e)
           node == tree[b]
<1>1. b \in Buckets /\ NodeOK(b, node) /\ tree \in [Buckets -> CharNode]
  BY BucketInBuckets, TreeByNodes
<1>2. tree' = tree => TreeInv'
  BY DEF TreeInv, TreeTypeOK, WellPlaced, StashOrChildren, DistinctDigests
<1>3. CASE Stash(e, old, bad) \/ ReplaceStash(e, old, bad)
  <2>1. node.children = {} /\ tree' = [tree EXCEPT ![b] = [node EXCEPT !.fm = e]]
    BY <1>3 DEF Stash, ReplaceStash, NoChildren
  <2>2. NodeOK(b, [node EXCEPT !.fm = e])
    BY <1>1, <2>1 DEF NodeOK, CharNode
  <2> QED BY <1>1, <2>1, <2>2, NodeReplaced
<1>4. CASE RejectAtStash(e, old, bad) \/ MatchStash(e, old, bad)
  <2>1. tree' = [tree EXCEPT ![b] = [node EXCEPT !.hashed = TRUE]]
    BY <1>4 DEF RejectAtStash, MatchStash
  <2>2. NodeOK(b, [node EXCEPT !.hashed = TRUE])
    BY <1>1 DEF NodeOK, CharNode
  <2> QED BY <1>1, <2>1, <2>2, NodeReplaced
<1>5. CASE SplitStash(e, old, bad)
  <2> DEFINE split == [NewCharNode EXCEPT !.children = {node.fm, e}]
  <2>1. node.fm # NULL /\ Digest[e] # Digest[node.fm] /\ tree' = [tree EXCEPT ![b] = split]
    BY <1>5 DEF SplitStash, Stashed
  <2>2. node.fm \in Entries /\ Bucket(node.fm) = b
    BY <1>1, <2>1 DEF NodeOK, CharNode
  <2>3. split.fm = NULL /\ split.children = {node.fm, e} /\ split \in CharNode
    BY <2>2 DEF NewCharNode, CharNode
  <2>4. NodeOK(b, split)
    BY <2>1, <2>2, <2>3 DEF NodeOK
  <2> HIDE DEF split
  <2> QED BY <1>1, <2>1, <2>4, NodeReplaced
<1>6. CASE RejectAtTree(e, old, bad) \/ MatchChild(e, old, bad)
  BY <1>2, <1>6 DEF RejectAtTree, MatchChild
<1>7. CASE AddChild(e, old, bad)
  <2> DEFINE more == [node EXCEPT !.children = @ \cup {e}]
  <2>1. /\ node.children # {} /\ \A c \in node.children : Digest[c] # Digest[e]
        /\ tree' = [tree EXCEPT ![b] = more]
    BY <1>7 DEF AddChild, NoChildren
  <2>2. more \in CharNode /\ more.children = node.children \cup {e} /\ more.fm = node.fm
    BY <1>1 DEF NodeOK, CharNode
  <2>3. NodeOK(b, more)
    BY <1>1, <2>1, <2>2 DEF NodeOK
  <2> HIDE DEF more
  <2> QED BY <1>1, <2>1, <2>3, NodeReplaced
<1> QED
  BY <1>3, <1>4, <1>5, <1>6, <1>7 DEF VisitedTreeInsert

\* One call remembers its file, matches it, rejects it, or forgets an
\* unreadable file and remembers it instead; nothing else happens to the set
\* of files the tree stands for.
Remembered(e, old, bad) ==
    /\ old = NULL /\ bad = NULL
    /\ InTree' = InTree \cup {e}
    /\ \A f \in InTree : ~SameFile(f, e)

Matched(e, old, bad) ==
    /\ old \in InTree /\ SameFile(old, e) /\ bad = NULL
    /\ InTree' = InTree

Rejected(e, old, bad) ==
    /\ old = NULL /\ bad = e /\ e \in Faulty
    /\ InTree' = InTree

Forgotten(e, old, bad) ==
    /\ old = NULL /\ bad \in InTree \cap Faulty
    /\ InTree' = (InTree \ {bad}) \cup {e}
    /\ \A f \in InTree : SameFile(f, e) => f = bad

Effect(e, old, bad) ==
    \/ Remembered(e, old, bad) \/ Matched(e, old, bad)
    \/ Rejected(e, old, bad) \/ Forgotten(e, old, bad)

\* Every way out of an insertion has one of the four effects.
LEMMA InsertEffect ==
  ASSUME TreeInv, NEW e \in Entries, NEW old, NEW bad, VisitedTreeInsert(e, old, bad)
  PROVE  Effect(e, old, bad)
<1> USE MetadataAssumption, BucketInBuckets
    DEF TreeInv, TreeTypeOK, CharNode, WellPlaced, StashOrChildren, InTree
<1>1. Bucket(e) \in Buckets /\ tree[Bucket(e)] \in CharNode
  OBVIOUS
<1>0. \A f \in Entries : SameFile(f, e) => Bucket(f) = Bucket(e)
  BY DEF Bucket, SameFile
<1>d. \A f \in Entries : Bucket(f) = Bucket(e) => Device[f] = Device[e]
  BY DEF Bucket
<1>2. CASE Stash(e, old, bad)
  <2>1. Remembered(e, old, bad)
    BY <1>0, <1>1, <1>2 DEF Stash, NoChildren, Stashed, Remembered
  <2> QED BY <2>1 DEF Effect
<1>3. CASE ReplaceStash(e, old, bad)
  <2>1. Forgotten(e, old, bad)
    BY <1>0, <1>1, <1>3 DEF ReplaceStash, NoChildren, Stashed, Forgotten
  <2> QED BY <2>1 DEF Effect
<1>4. CASE RejectAtStash(e, old, bad)
  <2>1. Rejected(e, old, bad)
    BY <1>1, <1>4 DEF RejectAtStash, NoChildren, Stashed, Rejected
  <2> QED BY <2>1 DEF Effect
<1>5. CASE MatchStash(e, old, bad)
  <2>1. Matched(e, old, bad)
    BY <1>d, <1>1, <1>5 DEF MatchStash, NoChildren, Stashed, Matched, SameFile
  <2> QED BY <2>1 DEF Effect
<1>6. CASE SplitStash(e, old, bad)
  <2>1. InTree' = InTree \cup {e}
    BY <1>1, <1>6 DEF SplitStash, NoChildren, Stashed, NewCharNode
  <2>2. \A f \in InTree : ~SameFile(f, e)
    BY <1>0, <1>1, <1>6 DEF SplitStash, NoChildren, Stashed, SameFile
  <2> QED BY <1>6, <2>1, <2>2 DEF Effect, Remembered, SplitStash
<1>7. CASE RejectAtTree(e, old, bad)
  BY <1>7 DEF RejectAtTree, Effect, Rejected
<1>8. CASE MatchChild(e, old, bad)
  <2>1. Matched(e, old, bad)
    BY <1>d, <1>1, <1>8 DEF MatchChild, Matched, SameFile
  <2> QED BY <2>1 DEF Effect
<1>9. CASE AddChild(e, old, bad)
  <2>1. InTree' = InTree \cup {e}
    BY <1>1, <1>9 DEF AddChild, NoChildren
  <2>2. \A f \in InTree : ~SameFile(f, e)
    BY <1>0, <1>1, <1>9 DEF AddChild, NoChildren, SameFile
  <2> QED BY <1>9, <2>1, <2>2 DEF Effect, Remembered, AddChild
<1> QED
  BY <1>2, <1>3, <1>4, <1>5, <1>6, <1>7, <1>8, <1>9,
     VisitedTreeInsert(e, old, bad) DEF VisitedTreeInsert

\* A file that has been matched: it is in the hash level, or stashed with its
\* hash computed, and can no longer be replaced.
Fixed(f) ==
    \/ f \in tree[Bucket(f)].children
    \/ tree[Bucket(f)].fm = f /\ tree[Bucket(f)].hashed

\* A matched file stays where later files find it.
LEMMA InsertKeepsFixed ==
  ASSUME TreeInv, NEW e \in Entries, NEW old, NEW bad, VisitedTreeInsert(e, old, bad)
  PROVE  /\ \A f \in Entries : Fixed(f) => Fixed(f)'
         /\ old # NULL => Fixed(old)'
<1> USE MetadataAssumption, BucketInBuckets
    DEF TreeInv, TreeTypeOK, CharNode, WellPlaced, StashOrChildren, Fixed
<1>1. Bucket(e) \in Buckets /\ tree[Bucket(e)] \in CharNode
  OBVIOUS
<1>2. CASE Stash(e, old, bad)
  BY <1>1, <1>2 DEF Stash, NoChildren, Stashed
<1>3. CASE ReplaceStash(e, old, bad)
  BY <1>1, <1>3 DEF ReplaceStash, NoChildren, Stashed
<1>4. CASE RejectAtStash(e, old, bad)
  BY <1>1, <1>4 DEF RejectAtStash, NoChildren, Stashed
<1>5. CASE MatchStash(e, old, bad)
  BY <1>1, <1>5 DEF MatchStash, NoChildren, Stashed
<1>6. CASE SplitStash(e, old, bad)
  BY <1>1, <1>6 DEF SplitStash, NoChildren, Stashed, NewCharNode
<1>7. CASE RejectAtTree(e, old, bad)
  BY <1>7 DEF RejectAtTree
<1>8. CASE MatchChild(e, old, bad)
  BY <1>1, <1>8 DEF MatchChild
<1>9. CASE AddChild(e, old, bad)
  BY <1>1, <1>9 DEF AddChild, NoChildren
<1> QED
  BY <1>2, <1>3, <1>4, <1>5, <1>6, <1>7, <1>8, <1>9,
     VisitedTreeInsert(e, old, bad) DEF VisitedTreeInsert

\* A matched file is in the tree.
LEMMA FixedInTree == \A f \in Entries : Fixed(f) => f \in InTree
  BY DEF Fixed, InTree

\* Of one content on one device a well-formed tree holds a single file.
LEMMA OneRepresentative ==
  ASSUME TreeInv
  PROVE  \A e, f \in InTree : SameFile(e, f) => e = f
<1> SUFFICES ASSUME NEW e \in InTree, NEW f \in InTree, SameFile(e, f)
             PROVE  e = f
  OBVIOUS
<1>1. Bucket(e) = Bucket(f)
  BY MetadataAssumption DEF InTree, SameFile, Bucket
<1> QED
  BY <1>1, MetadataAssumption, BucketInBuckets
  DEF InTree, SameFile, TreeInv, TreeTypeOK, StashOrChildren, DistinctDigests
=============================================================================
