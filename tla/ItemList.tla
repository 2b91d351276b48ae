------------------------------ MODULE ItemList ------------------------------
(***************************************************************************)
(* What alist.h promises: "a dynamic list with similar semantics to Java's *)
(* ArrayList".  The list is a function from 0 .. size - 1; answer is what  *)
(* the last call that returns something returned.  A call may take several *)
(* steps, of which the last is the one that shows, and it works on the     *)
(* arguments it was made with.                                             *)
(***************************************************************************)
EXTENDS Integers

CONSTANTS Values, NULL
VARIABLES size, items, answer,
          call          \* the call under way and its arguments

list == <<size, items>>
vars == <<list, answer, call>>

CallType ==
    [op : {"none", "add", "get", "set", "remove"}, index : Nat, item : Values]
NoCall == [op |-> "none", index |-> 0, item |-> NULL]

Init == size = 0 /\ items = [k \in 0 .. -1 |-> NULL] /\ answer = NULL /\ call = NoCall

Begin == call = NoCall /\ call' \in CallType /\ UNCHANGED <<list, answer>>

\* The call of this name ends.
Ends(op) == call.op = op /\ call' = NoCall

Add ==
    /\ Ends("add")
    /\ size' = size + 1
    /\ items' = [k \in 0 .. size |-> IF k = size THEN call.item ELSE items[k]]
    /\ UNCHANGED answer

Get ==
    /\ Ends("get")
    /\ answer' = IF call.index < size THEN items[call.index] ELSE NULL
    /\ UNCHANGED list

Set ==
    /\ Ends("set") /\ call.index < size
    /\ items' = [items EXCEPT ![call.index] = call.item]
    /\ UNCHANGED <<size, answer>>

Remove ==
    /\ Ends("remove") /\ call.index < size
    /\ size' = size - 1
    /\ items' = [k \in 0 .. size - 2 |-> IF k < call.index THEN items[k] ELSE items[k + 1]]
    /\ answer' = items[call.index]

\* There is no such index.
SetNothing == Ends("set") /\ call.index >= size /\ UNCHANGED <<list, answer>>

RemoveNothing == Ends("remove") /\ call.index >= size /\ answer' = NULL /\ UNCHANGED list

Next == Begin \/ Add \/ Get \/ Set \/ Remove \/ SetNothing \/ RemoveNothing

Spec == Init /\ [][Next]_vars
=============================================================================
