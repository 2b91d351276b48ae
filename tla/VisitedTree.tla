----------------------------- MODULE VisitedTree -----------------------------
(***************************************************************************)
(* The visited tree of map.c: device -> size -> first byte -> last byte -> *)
(* SHA-256 -> file metadata.  The four outer levels are found or created   *)
(* on demand, so they are one map here, from the four keys to the CharNode *)
(* of the last level; an absent path of the tree is a node that holds      *)
(* nothing.  The last level holds either one stashed file whose hash may   *)
(* not have been computed yet (fm) or a tree of files of distinct hashes   *)
(* (children).                                                             *)
(*                                                                         *)
(* Entries are the file entries of one run, one for each time the          *)
(* traversal meets a file.  Device, Size, First, Last and Digest are the   *)
(* fields of their FileMetadata; Digest stands for the SHA-256, taken as   *)
(* collision free and never all zero.                                      *)
(***************************************************************************)
CONSTANTS
    Entries,    \* the file entries
    NULL,       \* the null pointer
    Device, Size, First, Last, Digest,   \* functions on Entries
    Faulty      \* the entries whose open, mmap or read may fail

ASSUME MetadataAssumption ==
    /\ NULL \notin Entries
    /\ Faulty \subseteq Entries
    /\ \A e, f \in Entries : Digest[e] = Digest[f] =>
          Size[e] = Size[f] /\ First[e] = First[f] /\ Last[e] = Last[f]

VARIABLE tree

Bucket(e) == <<Device[e], Size[e], First[e], Last[e]>>
Buckets == {Bucket(e) : e \in Entries}

\* hashed: the SHA-256 of fm has been populated.
CharNode == [fm : Entries \cup {NULL}, hashed : BOOLEAN, children : SUBSET Entries]
NewCharNode == [fm |-> NULL, hashed |-> FALSE, children |-> {}]

TreeInit == tree = [b \in Buckets |-> NewCharNode]

SameFile(e, f) == Device[e] = Device[f] /\ Digest[e] = Digest[f]

\* The files the tree keeps as the representatives of their content.
InTree == {e \in Entries : tree[Bucket(e)].fm = e \/ e \in tree[Bucket(e)].children}

-----------------------------------------------------------------------------
(***************************************************************************)
(* visited_tree_insert(tree, fm), one operator per way out of it.  e is    *)
(* the file inserted, old what the call returns (the file that e           *)
(* duplicates, or NULL) and bad the file reported as "Could not compute    *)
(* SHA-256" (or NULL).  The call runs under visited_mutex, so it is one    *)
(* step.                                                                   *)
(***************************************************************************)
NoChildren(e) == tree[Bucket(e)].children = {}
Stashed(e) == tree[Bucket(e)].fm

\* Nothing there yet: the file is stashed without being hashed.
Stash(e, old, bad) ==
    /\ NoChildren(e) /\ Stashed(e) = NULL
    /\ tree' = [tree EXCEPT ![Bucket(e)].fm = e]
    /\ old = NULL /\ bad = NULL

\* The stashed file cannot be hashed: the new one takes its place.
ReplaceStash(e, old, bad) ==
    /\ NoChildren(e) /\ Stashed(e) # NULL
    /\ Stashed(e) \in Faulty /\ ~tree[Bucket(e)].hashed
    /\ tree' = [tree EXCEPT ![Bucket(e)].fm = e]
    /\ old = NULL /\ bad = Stashed(e)

\* The stashed file is hashed, the new one cannot be.
RejectAtStash(e, old, bad) ==
    /\ NoChildren(e) /\ Stashed(e) # NULL
    /\ e \in Faulty
    /\ tree' = [tree EXCEPT ![Bucket(e)].hashed = TRUE]
    /\ old = NULL /\ bad = e

\* Slip: the hashes are not compared before the match is returned.
MatchStashUnchecked(e, old, bad) ==
    /\ NoChildren(e) /\ Stashed(e) # NULL
    /\ tree' = [tree EXCEPT ![Bucket(e)].hashed = TRUE]
    /\ old = Stashed(e) /\ bad = NULL

\* Both are hashed and the hashes agree.
MatchStash(e, old, bad) ==
    /\ NoChildren(e) /\ Stashed(e) # NULL
    /\ Digest[e] = Digest[Stashed(e)]
    /\ tree' = [tree EXCEPT ![Bucket(e)].hashed = TRUE]
    /\ old = Stashed(e) /\ bad = NULL

\* Slip: the stashed file is dropped when the hash level is created.
SplitStashForgetting(e, old, bad) ==
    /\ NoChildren(e) /\ Stashed(e) # NULL
    /\ Digest[e] # Digest[Stashed(e)]
    /\ tree' = [tree EXCEPT ![Bucket(e)] = [NewCharNode EXCEPT !.children = {e}]]
    /\ old = NULL /\ bad = NULL

\* Slip: the stashed file stays in the node as well.
SplitStashKeeping(e, old, bad) ==
    /\ NoChildren(e) /\ Stashed(e) # NULL
    /\ Digest[e] # Digest[Stashed(e)]
    /\ tree' = [tree EXCEPT ![Bucket(e)].children = {Stashed(e), e}]
    /\ old = NULL /\ bad = NULL

\* Both are hashed and differ: they become the first two of the hash level.
SplitStash(e, old, bad) ==
    /\ NoChildren(e) /\ Stashed(e) # NULL
    /\ Digest[e] # Digest[Stashed(e)]
    /\ tree' = [tree EXCEPT ![Bucket(e)] =
                  [NewCharNode EXCEPT !.children = {Stashed(e), e}]]
    /\ old = NULL /\ bad = NULL

\* The hash level exists and the new file cannot be hashed.
RejectAtTree(e, old, bad) ==
    /\ ~NoChildren(e)
    /\ e \in Faulty
    /\ old = NULL /\ bad = e
    /\ UNCHANGED tree

\* The hash level has a file of this hash.
MatchChild(e, old, bad) ==
    /\ old \in tree[Bucket(e)].children
    /\ Digest[old] = Digest[e]
    /\ bad = NULL
    /\ UNCHANGED tree

\* Slip: the hash level is not searched first.
AddChildUnchecked(e, old, bad) ==
    /\ ~NoChildren(e)
    /\ tree' = [tree EXCEPT ![Bucket(e)].children = @ \cup {e}]
    /\ old = NULL /\ bad = NULL

\* The hash level has no file of this hash.
AddChild(e, old, bad) ==
    /\ ~NoChildren(e)
    /\ \A c \in tree[Bucket(e)].children : Digest[c] # Digest[e]
    /\ tree' = [tree EXCEPT ![Bucket(e)].children = @ \cup {e}]
    /\ old = NULL /\ bad = NULL

VisitedTreeInsert(e, old, bad) ==
    \/ Stash(e, old, bad)
    \/ ReplaceStash(e, old, bad)
    \/ RejectAtStash(e, old, bad)
    \/ MatchStash(e, old, bad)
    \/ SplitStash(e, old, bad)
    \/ RejectAtTree(e, old, bad)
    \/ MatchChild(e, old, bad)
    \/ AddChild(e, old, bad)

-----------------------------------------------------------------------------
TreeTypeOK == tree \in [Buckets -> CharNode]

\* A file sits under its own device, size, first and last byte.
WellPlaced ==
    \A b \in Buckets :
        /\ tree[b].fm # NULL => Bucket(tree[b].fm) = b
        /\ \A c \in tree[b].children : Bucket(c) = b

\* A node has a stashed file or a hash level, never both: the condition on
\* which visited_tree_insert may skip the stash once there are children.
StashOrChildren == \A b \in Buckets : tree[b].children # {} => tree[b].fm = NULL

\* The hash level has one file per hash.
DistinctDigests ==
    \A b \in Buckets : \A c, d \in tree[b].children : Digest[c] = Digest[d] => c = d

TreeInv == TreeTypeOK /\ WellPlaced /\ StashOrChildren /\ DistinctDigests
=============================================================================
