------------------------------ MODULE FirstSeen ------------------------------
(***************************************************************************)
(* What the visited tree promises (map.h, "Visited Tree"): of the files    *)
(* with one content on one device it remembers the first, and tells every  *)
(* later one that it is a duplicate of that file.  A file that cannot be   *)
(* hashed is reported and forgotten.  Buckets, stashes and lazy hashing    *)
(* are not visible here.                                                   *)
(***************************************************************************)
CONSTANTS Entries, NULL, Device, Digest, Faulty

VARIABLES
    rep,      \* the first file seen of each content on each device
    todo,     \* the entries not visited yet
    answer    \* what the last visit returned and reported

vars == <<rep, todo, answer>>

Class(e) == <<Device[e], Digest[e]>>
Classes == {Class(e) : e \in Entries}

Init ==
    /\ rep = [k \in Classes |-> NULL]
    /\ todo = Entries
    /\ answer = [fm |-> NULL, old |-> NULL, bad |-> NULL]

Answer(e, old, bad) ==
    /\ todo' = todo \ {e}
    /\ answer' = [fm |-> e, old |-> old, bad |-> bad]

Remember(e) ==
    /\ rep[Class(e)] = NULL
    /\ rep' = [rep EXCEPT ![Class(e)] = e]
    /\ Answer(e, NULL, NULL)

Match(e) ==
    /\ rep[Class(e)] # NULL
    /\ Answer(e, rep[Class(e)], NULL)
    /\ UNCHANGED rep

Reject(e) ==
    /\ e \in Faulty
    /\ Answer(e, NULL, e)
    /\ UNCHANGED rep

\* An unreadable file f is forgotten and e remembered in its place.
Forget(e, f) ==
    /\ f \in Faulty /\ rep[Class(f)] = f
    /\ rep[Class(e)] \in {NULL, f}
    /\ rep' = [k \in Classes |-> IF k = Class(e) THEN e
                                 ELSE IF k = Class(f) THEN NULL ELSE rep[k]]
    /\ Answer(e, NULL, f)

Next == \E e \in todo :
    \/ Remember(e)
    \/ Match(e)
    \/ Reject(e)
    \/ \E f \in Entries : Forget(e, f)

Spec == Init /\ [][Next]_vars
=============================================================================
