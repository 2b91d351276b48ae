-------------------------------- MODULE AList --------------------------------
(***************************************************************************)
(* The array list of alist.c, one step per iteration of its two loops, and *)
(* a caller that calls its operations in any order.  A call is under way   *)
(* with its arguments until its operation returns.                         *)
(*                                                                         *)
(* elements is the allocated array: a slot that malloc or realloc gave and *)
(* nothing has written holds JUNK.                                         *)
(***************************************************************************)
EXTENDS Integers

CONSTANTS
    Values,         \* what a list may hold, the null pointer among it
    NULL, JUNK,
    Initial,        \* the capacities a list is made with
    MaxSize         \* bound: the caller adds to no list longer than this

ASSUME AListAssumption ==
    /\ NULL \in Values /\ JUNK \notin Values
    /\ Initial \subseteq Nat \ {0} /\ MaxSize \in Nat

VARIABLES
    size, capacity, elements,    \* the fields of AList
    call,                        \* the call under way and its arguments
    e, at,                       \* alist_remove: e, and i once it is set
    answer                       \* what the last call returned

fields == <<size, capacity, elements>>
vars == <<fields, call, e, at, answer>>

Array(n) == [0 .. n - 1 -> Values \cup {JUNK}]

CallType ==
    [op : {"none", "add", "get", "set", "remove"}, index : Nat, item : Values]
NoCall == [op |-> "none", index |-> 0, item |-> NULL]

\* new_alist_with_capacity; new_alist is the same with 8.
Init ==
    /\ capacity \in Initial
    /\ size = 0
    /\ elements = [k \in 0 .. capacity - 1 |-> JUNK]
    /\ call = NoCall /\ e = NULL /\ at = 0
    /\ answer = NULL

\* The calls a caller tries: one past the end is as wrong as any other index.
Calls ==
    [op : {"add"}, index : {0}, item : IF size < MaxSize THEN Values ELSE {}]
    \cup [op : {"get", "remove"}, index : 0 .. size, item : {NULL}]
    \cup [op : {"set"}, index : 0 .. size, item : Values]

Begin ==
    /\ call = NoCall /\ call' \in Calls
    /\ UNCHANGED <<fields, e, at, answer>>

-----------------------------------------------------------------------------
(* alist_add, with the loop of alist_ensure *)

\* Slip: the element to come is not counted.
TooSmallByOne == capacity < size

TooSmall == capacity < size + 1

\* Slip: the array grows by half, which from 1 is not at all.
GrowByHalf ==
    /\ call.op = "add" /\ TooSmall
    /\ capacity' = capacity + capacity \div 2
    /\ elements' = [k \in 0 .. capacity' - 1 |-> IF k < capacity THEN elements[k] ELSE JUNK]
    /\ UNCHANGED <<size, call, e, at, answer>>

\* One iteration: realloc keeps what there is.
Grow ==
    /\ call.op = "add" /\ TooSmall
    /\ capacity' = 2 * capacity
    /\ elements' = [k \in 0 .. 2 * capacity - 1 |-> IF k < capacity THEN elements[k] ELSE JUNK]
    /\ UNCHANGED <<size, call, e, at, answer>>

Put ==
    /\ call.op = "add" /\ ~TooSmall
    /\ elements' = [elements EXCEPT ![size] = call.item]
    /\ size' = size + 1
    /\ call' = NoCall
    /\ UNCHANGED <<capacity, e, at, answer>>

-----------------------------------------------------------------------------
(* alist_get and alist_set *)

Get ==
    /\ call.op = "get"
    /\ answer' = IF call.index >= size THEN NULL ELSE elements[call.index]
    /\ call' = NoCall
    /\ UNCHANGED <<fields, e, at>>

SetNothing ==
    /\ call.op = "set" /\ call.index >= size
    /\ call' = NoCall
    /\ UNCHANGED <<fields, e, at, answer>>

Set ==
    /\ call.op = "set" /\ call.index < size
    /\ elements' = [elements EXCEPT ![call.index] = call.item]
    /\ call' = NoCall
    /\ UNCHANGED <<size, capacity, e, at, answer>>

-----------------------------------------------------------------------------
(* alist_remove *)

RemoveNothing ==
    /\ call.op = "remove" /\ call.index >= size
    /\ answer' = NULL
    /\ call' = NoCall
    /\ UNCHANGED <<fields, e, at>>

Remove ==
    /\ call.op = "remove" /\ at = 0 /\ call.index < size
    /\ e' = elements[call.index] /\ at' = call.index + 1
    /\ UNCHANGED <<fields, call, answer>>

\* Slip: the loop copies the wrong way.
ShiftUp ==
    /\ at > 0 /\ at < size
    /\ elements' = [elements EXCEPT ![at] = elements[at - 1]]
    /\ at' = at + 1
    /\ UNCHANGED <<size, capacity, call, e, answer>>

Shift ==
    /\ at > 0 /\ at < size
    /\ elements' = [elements EXCEPT ![at - 1] = elements[at]]
    /\ at' = at + 1
    /\ UNCHANGED <<size, capacity, call, e, answer>>

RemoveEnd ==
    /\ at > 0 /\ at >= size
    /\ size' = size - 1
    /\ answer' = e
    /\ call' = NoCall /\ e' = NULL /\ at' = 0
    /\ UNCHANGED <<capacity, elements>>

-----------------------------------------------------------------------------
Inside ==
    \/ Grow \/ Put \/ Get \/ SetNothing \/ Set
    \/ RemoveNothing \/ Remove \/ Shift \/ RemoveEnd

Next == Begin \/ Inside

Spec == Init /\ [][Next]_vars

\* A call that began goes on: nothing in it waits.
FairSpec == Spec /\ WF_vars(Inside)

-----------------------------------------------------------------------------
TypeOK ==
    /\ capacity \in Nat \ {0} /\ size \in 0 .. capacity
    /\ elements \in Array(capacity)
    /\ call \in CallType
    /\ e \in Values /\ answer \in Values
    /\ at \in Nat
    /\ at > 0 => call.op = "remove" /\ call.index < at /\ at <= size

\* The list as it was before a removal that is under way: what was at index is
\* still held by e, and what follows it up to at has moved down by one.
Items == [k \in 0 .. size - 1 |->
            IF at > 0 /\ k = call.index THEN e
            ELSE IF at > 0 /\ call.index < k /\ k < at THEN elements[k - 1]
            ELSE elements[k]]

\* Growth keeps every element in its place, removal closes the gap and keeps
\* the order, every call works on the item and the index its caller gave, and
\* none returns what was never written: the array behaves as the list alist.h
\* promises (alist_ensure, alist_get, alist_set, alist_remove).
AsItemList == INSTANCE ItemList WITH items <- Items
ImplementsItemList == AsItemList!Spec

\* Every call ends: the loop of alist_ensure reaches the size it needs, from
\* any capacity a list is made with (which is never 0, map.c 434).
CallsEnd == call # NoCall ~> call = NoCall
=============================================================================
