------------------------------- MODULE Visited -------------------------------
(***************************************************************************)
(* The visited tree as a state machine of its own: each entry is inserted  *)
(* once, in any order, and every hash computation that may fail may.       *)
(***************************************************************************)
EXTENDS VisitedTree

VARIABLES
    todo,      \* the entries not inserted yet
    answer     \* the last call: its argument, its result, the file reported

vars == <<tree, todo, answer>>

Init ==
    /\ TreeInit
    /\ todo = Entries
    /\ answer = [fm |-> NULL, old |-> NULL, bad |-> NULL]

Insert(e) == \E old, bad \in Entries \cup {NULL} :
    /\ VisitedTreeInsert(e, old, bad)
    /\ todo' = todo \ {e}
    /\ answer' = [fm |-> e, old |-> old, bad |-> bad]

Finished == todo = {} /\ UNCHANGED vars

Next == Finished \/ \E e \in todo : Insert(e)

Spec == Init /\ [][Next]_vars

-----------------------------------------------------------------------------
TypeOK ==
    /\ TreeTypeOK
    /\ todo \subseteq Entries
    /\ answer \in [fm : Entries \cup {NULL}, old : Entries \cup {NULL},
                   bad : Entries \cup {NULL}]

\* A file that is in the tree has been inserted, so that no later insertion
\* finds itself.
OnlyVisited == InTree \cap todo = {}

\* Of one content on one device the tree holds a single file, whatever the
\* order of insertion and whichever hashes failed, through the stash and the
\* hash level (the uniqueness visited_tree_insert maintains, map.h 54-80).
OneFilePerContent == \A e, f \in InTree : SameFile(e, f) => e = f

Inv == TypeOK /\ TreeInv /\ OnlyVisited

\* Bucketing by size and bytes and hashing on the second visit only is an
\* optimisation: the tree answers as a map from device and content to the
\* first readable file would (visited_tree_insert against map.h 54-80).
RepOf(S, k) ==
    IF \E e \in S : <<Device[e], Digest[e]>> = k
    THEN CHOOSE e \in S : <<Device[e], Digest[e]>> = k
    ELSE NULL

Abstract == INSTANCE FirstSeen WITH
    rep <- [k \in {<<Device[e], Digest[e]>> : e \in Entries} |-> RepOf(InTree, k)]

ImplementsFirstSeen == Abstract!Spec
=============================================================================
