---------------------------- MODULE VisitedProofs ----------------------------
(***************************************************************************)
(* The visited tree keeps one file per content and implements FirstSeen,   *)
(* for any set of files, any order and any hash failures.                  *)
(***************************************************************************)
EXTENDS Visited, VisitedTreeProofs

\* The empty tree satisfies Inv.
LEMMA InitInv == Init => Inv
<1> SUFFICES ASSUME Init PROVE Inv
  OBVIOUS
<1>1. TreeInv
  BY TreeInitInv DEF Init
<1>2. InTree = {}
  BY MetadataAssumption, BucketInBuckets DEF Init, TreeInit, NewCharNode, InTree
<1> QED
  BY <1>1, <1>2, MetadataAssumption DEF Init, Inv, TypeOK, TreeInv, OnlyVisited

\* Every insertion keeps Inv.
LEMMA NextInv == Inv /\ [Next]_vars => Inv'
<1> SUFFICES ASSUME Inv, [Next]_vars PROVE Inv'
  OBVIOUS
<1>1. CASE UNCHANGED vars
  BY <1>1 DEF vars, Inv, TypeOK, TreeInv, TreeTypeOK, WellPlaced, StashOrChildren,
     DistinctDigests, OnlyVisited, InTree
<1>2. ASSUME NEW e \in todo, Insert(e) PROVE Inv'
  <2>1. PICK old \in Entries \cup {NULL}, bad \in Entries \cup {NULL} :
           /\ VisitedTreeInsert(e, old, bad)
           /\ todo' = todo \ {e}
           /\ answer' = [fm |-> e, old |-> old, bad |-> bad]
    BY <1>2 DEF Insert
  <2>2. e \in Entries
    BY <1>2 DEF Inv, TypeOK
  <2>3. TreeInv'
    BY <2>1, <2>2, InsertKeepsTreeInv DEF Inv
  <2>4. InTree' \subseteq InTree \cup {e}
    BY <2>1, <2>2, InsertEffect
    DEF Inv, Effect, Remembered, Matched, Rejected, Forgotten
  <2>5. OnlyVisited'
    BY <2>1, <2>4 DEF Inv, OnlyVisited
  <2>6. TypeOK'
    BY <2>1, <2>2, <2>3 DEF Inv, TypeOK, TreeInv
  <2> QED BY <2>3, <2>5, <2>6 DEF Inv
<1> QED
  BY <1>1, <1>2 DEF Next, Finished

\* Types, the shape of the tree, and no file in the tree before its turn.
THEOREM VisitedInv == Spec => []Inv
<1> QED BY InitInv, NextInv, PTL DEF Spec

\* Whatever the order and the failures, one file per content and device.
THEOREM VisitedOneFilePerContent == Spec => []OneFilePerContent
<1>1. Inv => OneFilePerContent
  BY OneRepresentative DEF Inv, OneFilePerContent
<1> QED BY <1>1, VisitedInv, PTL

-----------------------------------------------------------------------------
(* Visited implements FirstSeen *)

Class(e) == <<Device[e], Digest[e]>>
Classes == {Class(e) : e \in Entries}
Unique(S) == S \subseteq Entries /\ \A e, f \in S : SameFile(e, f) => e = f

\* What the representative of a class in a set of files is.
LEMMA RepOfMember ==
  ASSUME NEW S, Unique(S), NEW e \in S
  PROVE  RepOf(S, Class(e)) = e
<1>1. \A f \in S : Class(f) = Class(e) => f = e
  BY DEF Class, SameFile, Unique
<1> QED BY <1>1 DEF RepOf, Class

\* A class with no file in the set has no representative.
LEMMA RepOfNone ==
  ASSUME NEW S, NEW k, \A f \in S : Class(f) # k
  PROVE  RepOf(S, k) = NULL
BY DEF RepOf, Class

\* Files of other classes do not matter to the representative of a class.
LEMMA RepOfSame ==
  ASSUME NEW S, NEW T, Unique(S), Unique(T), NEW k \in Classes,
         {f \in S : Class(f) = k} = {f \in T : Class(f) = k}
  PROVE  RepOf(S, k) = RepOf(T, k)
<1>1. CASE \E f \in S : Class(f) = k
  <2>1. PICK f \in S : Class(f) = k
    BY <1>1
  <2> QED BY <2>1, RepOfMember
<1>2. CASE ~\E f \in S : Class(f) = k
  BY <1>2, RepOfNone
<1> QED BY <1>1, <1>2

\* A set that gained e, lost f and had no other file of e's class.
LEMMA RepOfMoved ==
  ASSUME NEW S, NEW e \in Entries, NEW G, Unique(S),
         \A f \in S : SameFile(f, e) => f \in G
  PROVE  /\ Unique((S \ G) \cup {e})
         /\ \A k \in Classes : RepOf((S \ G) \cup {e}, k) =
               IF k = Class(e) THEN e
               ELSE IF \E f \in S \cap G : Class(f) = k THEN NULL ELSE RepOf(S, k)
<1> DEFINE T == (S \ G) \cup {e}
<1>1. Unique(T)
  BY DEF Unique, SameFile
<1>2. ASSUME NEW k \in Classes
      PROVE  RepOf(T, k) =
               IF k = Class(e) THEN e
               ELSE IF \E f \in S \cap G : Class(f) = k THEN NULL ELSE RepOf(S, k)
  <2>1. CASE k = Class(e)
    BY <1>1, <2>1, RepOfMember
  <2>2. CASE k # Class(e) /\ \E f \in S \cap G : Class(f) = k
    <3>1. PICK f \in S \cap G : Class(f) = k
      BY <2>2
    <3>2. \A g \in S : Class(g) = k => g = f
      BY <3>1 DEF Unique, Class, SameFile
    <3>3. \A g \in T : Class(g) # k
      BY <3>1, <3>2, <2>2
    <3> QED BY <2>2, <3>3, RepOfNone
  <2>3. CASE k # Class(e) /\ ~\E f \in S \cap G : Class(f) = k
    <3>1. {f \in S : Class(f) = k} = {f \in T : Class(f) = k}
      BY <2>3
    <3> QED BY <1>1, <2>3, <3>1, RepOfSame
  <2> QED BY <2>1, <2>2, <2>3
<1> QED BY <1>1, <1>2

rep == [k \in Classes |-> RepOf(InTree, k)]

\* The initial states of FirstSeen under the mapping.
LEMMA RepIsMapping == Abstract!Init <=>
         /\ rep = [k \in Classes |-> NULL]
         /\ todo = Entries
         /\ answer = [fm |-> NULL, old |-> NULL, bad |-> NULL]
BY DEF Abstract!Init, Abstract!Classes, Abstract!Class, rep, Classes, Class

\* Initial states map to initial states.
LEMMA InitImplements == Init => Abstract!Init
<1> SUFFICES ASSUME Init PROVE Abstract!Init
  OBVIOUS
<1>1. InTree = {}
  BY MetadataAssumption, BucketInBuckets DEF Init, TreeInit, NewCharNode, InTree
<1>2. \A k \in Classes : RepOf(InTree, k) = NULL
  BY <1>1, RepOfNone
<1> QED BY <1>2, RepIsMapping DEF Init, rep

\* One insertion is one visit of the abstract tree.
LEMMA InsertImplements ==
  ASSUME Inv, NEW e \in todo, Insert(e)
  PROVE  Abstract!Next
<1>1. PICK old \in Entries \cup {NULL}, bad \in Entries \cup {NULL} :
         /\ VisitedTreeInsert(e, old, bad)
         /\ todo' = todo \ {e}
         /\ answer' = [fm |-> e, old |-> old, bad |-> bad]
  BY DEF Insert
<1>2. e \in Entries /\ TreeInv
  BY DEF Inv, TypeOK
<1>3. Effect(e, old, bad)
  BY <1>1, <1>2, InsertEffect
<1>4. Unique(InTree)
  BY <1>2, OneRepresentative DEF Unique, InTree
<1>5. Class(e) \in Classes /\ rep[Class(e)] = RepOf(InTree, Class(e))
  BY <1>2 DEF Classes, rep
<1>6. rep' = [k \in Classes |-> RepOf(InTree', k)]
  BY DEF rep, RepOf, Classes, Class
<1>7. Abstract!Answer(e, old, bad)
  BY <1>1 DEF Abstract!Answer
<1>8. CASE Remembered(e, old, bad)
  <2>1. InTree' = (InTree \ {}) \cup {e} /\ \A f \in InTree : ~SameFile(f, e)
    BY <1>8 DEF Remembered
  <2>2. \A k \in Classes : RepOf(InTree', k) =
           IF k = Class(e) THEN e ELSE RepOf(InTree, k)
    <3> DEFINE G == {}
    <3>1. InTree' = (InTree \ G) \cup {e} /\ \A f \in InTree : SameFile(f, e) => f \in G
      BY <2>1
    <3>2. \A k \in Classes : RepOf((InTree \ G) \cup {e}, k) =
            IF k = Class(e) THEN e
            ELSE IF \E f \in InTree \cap G : Class(f) = k THEN NULL ELSE RepOf(InTree, k)
      <4> HIDE DEF G
      <4>1. \A f \in InTree : SameFile(f, e) => f \in G
        BY <3>1
      <4> QED BY <1>2, <1>4, <4>1, RepOfMoved
    <3> QED BY <3>1, <3>2
  <2>3. rep[Class(e)] = NULL
    BY <1>5, <2>1, RepOfNone DEF Class, SameFile
  <2>4. rep' = [rep EXCEPT ![Class(e)] = e]
    BY <1>5, <1>6, <2>2 DEF rep
  <2>5. Abstract!Remember(e)
    BY <1>7, <1>8, <2>3, <2>4
    DEF Abstract!Remember, Remembered, rep, Class, Classes, Abstract!Class
  <2> QED BY <2>5 DEF Abstract!Next
<1>9. CASE Matched(e, old, bad)
  <2>1. rep' = rep
    BY <1>6, <1>9 DEF Matched, rep
  <2>2. rep[Class(e)] = old
    BY <1>4, <1>5, <1>9, RepOfMember DEF Matched, Class, SameFile
  <2>3. old # NULL
    BY <1>9, MetadataAssumption DEF Matched, InTree
  <2>4. Abstract!Match(e)
    BY <1>7, <1>9, <2>1, <2>2, <2>3
    DEF Abstract!Match, Matched, rep, Class, Classes, Abstract!Class
  <2> QED BY <2>4 DEF Abstract!Next
<1>10. CASE Rejected(e, old, bad)
  <2>1. rep' = rep
    BY <1>6, <1>10 DEF Rejected, rep
  <2>2. Abstract!Reject(e)
    BY <1>7, <1>10, <2>1
    DEF Abstract!Reject, Rejected, rep, Class, Classes, Abstract!Class
  <2> QED BY <2>2 DEF Abstract!Next
<1>11. CASE Forgotten(e, old, bad)
  <2>1. /\ InTree' = (InTree \ {bad}) \cup {e} /\ bad \in InTree \cap Faulty
        /\ \A f \in InTree : SameFile(f, e) => f \in {bad}
    BY <1>11 DEF Forgotten
  <2>2. \A k \in Classes : RepOf(InTree', k) =
           IF k = Class(e) THEN e
           ELSE IF k = Class(bad) THEN NULL ELSE RepOf(InTree, k)
    <3> DEFINE G == {bad}
    <3>1. InTree' = (InTree \ G) \cup {e} /\ \A f \in InTree : SameFile(f, e) => f \in G
      BY <2>1
    <3>2. \A k \in Classes : RepOf((InTree \ G) \cup {e}, k) =
            IF k = Class(e) THEN e
            ELSE IF \E f \in InTree \cap G : Class(f) = k THEN NULL ELSE RepOf(InTree, k)
      <4> HIDE DEF G
      <4>1. \A f \in InTree : SameFile(f, e) => f \in G
        BY <3>1
      <4> QED BY <1>2, <1>4, <4>1, RepOfMoved
    <3> QED BY <2>1, <3>1, <3>2
  <2>3. Class(bad) \in Classes /\ rep[Class(bad)] = bad
    BY <1>4, <2>1, RepOfMember DEF Classes, rep, InTree
  <2>4. rep[Class(e)] \in {NULL, bad}
    <3>1. CASE \E f \in InTree : Class(f) = Class(e)
      BY <1>4, <1>5, <2>1, <3>1, RepOfMember DEF Class, SameFile
    <3>2. CASE ~\E f \in InTree : Class(f) = Class(e)
      BY <1>5, <3>2, RepOfNone
    <3> QED BY <3>1, <3>2
  <2>5. rep' = [k \in Classes |-> IF k = Class(e) THEN e
                                  ELSE IF k = Class(bad) THEN NULL ELSE rep[k]]
    BY <1>6, <2>2 DEF rep
  <2>6. Abstract!Forget(e, bad)
    BY <1>7, <1>11, <2>1, <2>3, <2>4, <2>5
    DEF Abstract!Forget, Forgotten, rep, Class, Classes, Abstract!Class, Abstract!Classes
  <2>7. bad \in Entries
    BY <2>1 DEF InTree
  <2> QED BY <2>6, <2>7 DEF Abstract!Next
<1> QED BY <1>3, <1>8, <1>9, <1>10, <1>11 DEF Effect

\* Buckets, the stash and the late hashing cannot be told from a map from
\* device and content to the first readable file.
THEOREM VisitedImplementsFirstSeen == Spec => ImplementsFirstSeen
<1>1. Inv /\ [Next]_vars => [Abstract!Next]_Abstract!vars
  <2> SUFFICES ASSUME Inv, [Next]_vars PROVE [Abstract!Next]_Abstract!vars
    OBVIOUS
  <2>1. CASE UNCHANGED vars
    BY <2>1 DEF vars, Abstract!vars, InTree, RepOf
  <2>2. CASE \E e \in todo : Insert(e)
    BY <2>2, InsertImplements
  <2> QED BY <2>1, <2>2 DEF Next, Finished
<1> QED
  BY <1>1, InitImplements, VisitedInv, PTL DEF Spec, ImplementsFirstSeen, Abstract!Spec
=============================================================================
