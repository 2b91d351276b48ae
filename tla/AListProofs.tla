----------------------------- MODULE AListProofs -----------------------------
(***************************************************************************)
(* The array list behaves as the list alist.h promises, for any values,    *)
(* any capacity it is made with and any number of elements.                *)
(***************************************************************************)
EXTENDS AList, TLAPS

\* No slot below size is one that malloc or realloc gave and nothing wrote.
Written == \A k \in 0 .. size - 1 : elements[k] \in Values

Inv == TypeOK /\ Written

\* A new list satisfies Inv.
LEMMA InitInv == Init => Inv
  BY AListAssumption DEF Init, Inv, TypeOK, Written, Array, CallType, NoCall

\* One iteration of alist_ensure keeps what is in the array, in place.
LEMMA GrowInv == Inv /\ Grow => Inv' /\ \A k \in 0 .. size - 1 : elements'[k] = elements[k]
<1> SUFFICES ASSUME Inv, Grow
             PROVE  Inv' /\ \A k \in 0 .. size - 1 : elements'[k] = elements[k]
  OBVIOUS
<1>1. capacity' \in Nat \ {0} /\ capacity < capacity' /\ size' \in 0 .. capacity'
  BY DEF Inv, TypeOK, Grow
<1>2. elements' \in Array(capacity')
  BY DEF Inv, TypeOK, Grow, Array
<1>3. \A k \in 0 .. size - 1 : elements'[k] = elements[k]
  BY DEF Inv, TypeOK, Grow
<1> QED BY <1>1, <1>2, <1>3 DEF Inv, TypeOK, Written, Grow

\* The write of alist_add is within the array and is the element added.
LEMMA PutInv ==
  Inv /\ Put =>
    /\ Inv'
    /\ elements'[size] = call.item
    /\ \A k \in 0 .. size - 1 : elements'[k] = elements[k]
<1> SUFFICES ASSUME Inv, Put
             PROVE  /\ Inv'
                    /\ elements'[size] = call.item
                    /\ \A k \in 0 .. size - 1 : elements'[k] = elements[k]
  OBVIOUS
<1>1. size \in 0 .. capacity - 1 /\ size' \in 0 .. capacity
  BY DEF Inv, TypeOK, Put, TooSmall
<1>5. call.item \in Values /\ call'.op # "remove" /\ call' \in CallType /\ at = 0
  BY AListAssumption DEF Inv, TypeOK, Put, CallType, NoCall
<1>2. elements' \in Array(capacity)
  BY <1>1, <1>5 DEF Inv, TypeOK, Put, Array
<1>3. elements'[size] = call.item /\ \A k \in 0 .. size - 1 : elements'[k] = elements[k]
  BY <1>1 DEF Inv, TypeOK, Put, Array
<1>4. Written'
  BY <1>1, <1>3, <1>5 DEF Inv, TypeOK, Written, Put
<1> QED BY <1>1, <1>2, <1>3, <1>4, <1>5 DEF Inv, TypeOK, Put

\* One iteration of alist_remove reads and writes within the list, and only
\* the slot before at changes.
LEMMA ShiftInv ==
  Inv /\ Shift =>
    /\ Inv'
    /\ elements'[at - 1] = elements[at]
    /\ \A k \in 0 .. size - 1 : k # at - 1 => elements'[k] = elements[k]
<1> SUFFICES ASSUME Inv, Shift
             PROVE  /\ Inv'
                    /\ elements'[at - 1] = elements[at]
                    /\ \A k \in 0 .. size - 1 : k # at - 1 => elements'[k] = elements[k]
  OBVIOUS
<1>1. at \in 0 .. size - 1 /\ at - 1 \in 0 .. size - 1 /\ size \in 0 .. capacity
      /\ capacity \in Nat
  BY DEF Inv, TypeOK, CallType, Shift
<1>2. elements'[at - 1] = elements[at] /\ elements[at] \in Values
      /\ \A k \in 0 .. size - 1 : k # at - 1 => elements'[k] = elements[k]
  BY <1>1 DEF Inv, TypeOK, Shift, Array, Written
<1>3. elements' \in Array(capacity)
  BY <1>1, <1>2 DEF Inv, TypeOK, Shift, Array
<1>4. Written'
  BY <1>1, <1>2 DEF Inv, Written, Shift
<1>5. at' \in Nat /\ call'.op = "remove" /\ call'.index < at' /\ at' <= size'
  BY <1>1 DEF Inv, TypeOK, CallType, Shift
<1> QED BY <1>2, <1>3, <1>4, <1>5 DEF Inv, TypeOK, Shift

\* Every step keeps Inv.
LEMMA NextInv == Inv /\ [Next]_vars => Inv'
<1> SUFFICES ASSUME Inv, [Next]_vars PROVE Inv'
  OBVIOUS
<1>1. CASE Begin
  <2>1. call' \in CallType /\ at = 0
    BY <1>1, AListAssumption DEF Begin, Calls, CallType, NoCall, Inv, TypeOK
  <2> QED BY <1>1, <2>1 DEF Begin, Inv, TypeOK, Written, fields
<1>2. ASSUME call' = NoCall, call.op # "remove", UNCHANGED <<fields, e, at>>, answer' \in Values
      PROVE  Inv'
  <2>1. NoCall \in CallType /\ at = 0
    BY <1>2, AListAssumption DEF CallType, NoCall, Inv, TypeOK
  <2> QED BY <1>2, <2>1 DEF Inv, TypeOK, Written, fields
<1>3. CASE Get
  <2>1. answer' \in Values
    BY <1>3, AListAssumption DEF Get, Inv, TypeOK, Written, CallType
  <2> QED BY <1>2, <1>3, <2>1 DEF Get
<1>4. CASE SetNothing
  BY <1>2, <1>4 DEF SetNothing, Inv, TypeOK
<1>5. CASE Set
  <2>1. call.index \in 0 .. capacity - 1 /\ call.item \in Values
    BY <1>5 DEF Set, Inv, TypeOK, CallType
  <2>2. NoCall \in CallType /\ at = 0
    BY <1>5, AListAssumption DEF Set, CallType, NoCall, Inv, TypeOK
  <2>3. elements' \in Array(capacity) /\ Written'
    BY <1>5, <2>1 DEF Set, Inv, TypeOK, Written, Array
  <2> QED BY <1>5, <2>2, <2>3 DEF Set, Inv, TypeOK
<1>6. CASE RemoveNothing
  <2>1. NoCall \in CallType /\ at = 0
    <3>1. at > 0 => call.index < size
      BY DEF Inv, TypeOK, CallType
    <3> QED BY <1>6, <3>1, AListAssumption DEF RemoveNothing, CallType, NoCall, Inv, TypeOK
  <2> QED BY <1>6, <2>1, AListAssumption DEF RemoveNothing, Inv, TypeOK, Written, fields
<1>7. CASE Remove
  <2>1. call.index \in 0 .. size - 1
    BY <1>7 DEF Remove, Inv, TypeOK, CallType
  <2> QED BY <1>7, <2>1 DEF Remove, Inv, TypeOK, Written, fields
<1>8. CASE RemoveEnd
  <2>1. NoCall \in CallType
    BY AListAssumption DEF CallType, NoCall
  <2>2. size' \in 0 .. capacity /\ \A k \in 0 .. size' - 1 : k \in 0 .. size - 1
    BY <1>8 DEF RemoveEnd, Inv, TypeOK
  <2> QED BY <1>8, <2>1, <2>2, AListAssumption DEF RemoveEnd, Inv, TypeOK, Written
<1>9. CASE UNCHANGED vars
  BY <1>9 DEF vars, fields, Inv, TypeOK, Written
<1> QED
  BY <1>1, <1>3, <1>4, <1>5, <1>6, <1>7, <1>8, <1>9, GrowInv, PutInv, ShiftInv
  DEF Next, Inside

\* Indices stay within the array, and no slot that was never written is
\* returned or shifted (alist_get, alist_remove).
THEOREM AListInv == Spec => []Inv
<1> QED BY InitInv, NextInv, PTL DEF Spec

\* The state of a list is always of its types: above all the array is as
\* long as capacity says and size never exceeds it (alist_ensure).
THEOREM AListTypes == Spec => []TypeOK
<1>1. Inv => TypeOK
  BY DEF Inv
<1> QED BY <1>1, AListInv, PTL

-----------------------------------------------------------------------------
(* AList implements ItemList *)

\* A new list is the empty list.
LEMMA InitImplements == Init => AsItemList!Init
  BY DEF Init, NoCall, AsItemList!Init, AsItemList!NoCall, Items

\* Growing shows nothing.
LEMMA GrowImplements == Inv /\ Grow => UNCHANGED AsItemList!vars
<1> SUFFICES ASSUME Inv, Grow PROVE UNCHANGED AsItemList!vars
  OBVIOUS
<1>1. Items' = Items
  BY GrowInv DEF Inv, TypeOK, Grow, Items
<1> QED BY <1>1 DEF Grow, AsItemList!vars, AsItemList!list

\* The write at the end of alist_add shows as the addition.
LEMMA PutImplements == Inv /\ Put => AsItemList!Add
<1> SUFFICES ASSUME Inv, Put PROVE AsItemList!Add
  OBVIOUS
<1>1. Items' = [k \in 0 .. size |-> IF k = size THEN call.item ELSE Items[k]]
  <2>1. size \in Nat /\ at = 0 /\ at' = 0
    BY DEF Inv, TypeOK, Put
  <2>2. Items' = [k \in 0 .. size |-> elements'[k]]
    BY <2>1 DEF Put, Items
  <2>3. \A k \in 0 .. size - 1 : Items[k] = elements[k]
    BY <2>1 DEF Put, Items
  <2> QED BY <2>1, <2>2, <2>3, PutInv
<1> QED BY <1>1 DEF Put, NoCall, AsItemList!Add, AsItemList!Ends, AsItemList!NoCall

\* Moving one element down shows nothing: the gap moves up by one.
LEMMA ShiftImplements == Inv /\ Shift => UNCHANGED AsItemList!vars
<1> SUFFICES ASSUME Inv, Shift PROVE UNCHANGED AsItemList!vars
  OBVIOUS
<1> DEFINE index == call.index
<1>1. size \in Nat /\ index \in Nat /\ at \in Nat \ {0} /\ index < at /\ at < size
      /\ size' = size /\ call' = call /\ at' = at + 1 /\ e' = e
  BY DEF Inv, TypeOK, CallType, Shift
<1>2. ASSUME NEW k \in 0 .. size - 1
      PROVE  (IF k = index THEN e ELSE IF index < k /\ k < at + 1 THEN elements'[k - 1]
              ELSE elements'[k])
             = (IF k = index THEN e ELSE IF index < k /\ k < at THEN elements[k - 1]
                ELSE elements[k])
  <2>1. elements'[at - 1] = elements[at]
        /\ \A j \in 0 .. size - 1 : j # at - 1 => elements'[j] = elements[j]
    BY ShiftInv
  <2>2. CASE k = index
    BY <2>2
  <2>3. CASE k # index /\ index < k /\ k < at
    BY <1>1, <2>1, <2>3
  <2>4. CASE k = at
    BY <1>1, <2>1, <2>4
  <2>5. CASE k < index \/ at < k
    BY <1>1, <2>1, <2>5
  <2> QED BY <1>1, <2>2, <2>3, <2>4, <2>5
<1>3. Items' = Items
  BY <1>1, <1>2 DEF Items
<1> QED BY <1>3 DEF Shift, AsItemList!vars, AsItemList!list

\* The end of alist_remove shows as the removal.
LEMMA RemoveEndImplements == Inv /\ RemoveEnd => AsItemList!Remove
<1> SUFFICES ASSUME Inv, RemoveEnd PROVE AsItemList!Remove
  OBVIOUS
<1> DEFINE index == call.index
<1>1. size \in Nat /\ index \in Nat /\ at = size /\ at > 0 /\ index < size /\ size' = size - 1
      /\ at' = 0 /\ elements' = elements /\ call.op = "remove"
  BY DEF Inv, TypeOK, CallType, RemoveEnd
<1>2. ASSUME NEW k \in 0 .. size - 2
      PROVE  elements[k] = IF k < index THEN Items[k] ELSE Items[k + 1]
  <2>1. k \in 0 .. size - 1 /\ k + 1 \in 0 .. size - 1
    BY <1>1
  <2>2. CASE k < index
    BY <1>1, <2>1, <2>2 DEF Items
  <2>3. CASE ~(k < index)
    <3>1. Items[k + 1] = elements[(k + 1) - 1]
      BY <1>1, <2>1, <2>3 DEF Items
    <3> QED BY <2>1, <2>3, <3>1
  <2> QED BY <2>2, <2>3
<1>3. Items' = [k \in 0 .. size - 2 |-> IF k < index THEN Items[k] ELSE Items[k + 1]]
  <2>1. Items' = [k \in 0 .. size - 2 |-> elements[k]]
    BY <1>1 DEF Items
  <2> QED BY <1>2, <2>1
<1>4. Items[index] = e
  BY <1>1 DEF Items
<1> QED BY <1>1, <1>3, <1>4
     DEF RemoveEnd, NoCall, AsItemList!Remove, AsItemList!Ends, AsItemList!NoCall

\* Every step of the array list is one of the list, or shows nothing.
LEMMA NextImplements == Inv /\ [Next]_vars => [AsItemList!Next]_(AsItemList!vars)
<1> SUFFICES ASSUME Inv, [Next]_vars PROVE [AsItemList!Next]_(AsItemList!vars)
  OBVIOUS
<1>1. NoCall = AsItemList!NoCall /\ CallType = AsItemList!CallType
  BY DEF NoCall, CallType, AsItemList!NoCall, AsItemList!CallType
<1>2. ASSUME UNCHANGED <<fields, e, at>>, at = 0 PROVE Items' = Items
  BY <1>2 DEF Items, fields
<1>3. call.op # "remove" => at = 0
  BY DEF Inv, TypeOK
<1>4. CASE Begin
  <2>1. Items' = Items
    BY <1>2, <1>3, <1>4 DEF Begin, NoCall
  <2>2. call' \in CallType
    BY <1>4, NextInv DEF Next, Inv, TypeOK
  <2> QED BY <1>1, <1>4, <2>1, <2>2
       DEF Begin, fields, AsItemList!Next, AsItemList!Begin, AsItemList!list
<1>5. CASE Get
  <2>1. Items' = Items
    BY <1>2, <1>3, <1>5 DEF Get
  <2>2. call.index < size => Items[call.index] = elements[call.index]
    BY <1>3, <1>5 DEF Inv, TypeOK, CallType, Get, Items
  <2>3. call.index >= size <=> ~(call.index < size)
    BY DEF Inv, TypeOK, CallType
  <2> QED BY <1>1, <1>5, <2>1, <2>2, <2>3
       DEF Get, fields, AsItemList!Next, AsItemList!Get, AsItemList!Ends, AsItemList!list
<1>6. CASE SetNothing
  <2>1. Items' = Items
    BY <1>2, <1>3, <1>6 DEF SetNothing
  <2> QED BY <1>1, <1>6, <2>1 DEF SetNothing, fields, AsItemList!Next, AsItemList!SetNothing,
          AsItemList!Ends, AsItemList!list
<1>7. CASE Set
  <2>1. elements' = [elements EXCEPT ![call.index] = call.item] /\ size' = size
        /\ at = 0 /\ at' = 0
    BY <1>3, <1>7 DEF Set
  <2>2. Items' = [Items EXCEPT ![call.index] = call.item]
    <3>1. \A k \in 0 .. size - 1 : k \in DOMAIN elements
      BY DEF Inv, TypeOK, Array
    <3>2. Items = [k \in 0 .. size - 1 |-> elements[k]]
      BY <2>1 DEF Items
    <3>3. Items' = [k \in 0 .. size - 1 |-> elements'[k]]
      BY <2>1 DEF Items
    <3> QED BY <2>1, <3>1, <3>2, <3>3
  <2> QED BY <1>1, <1>7, <2>2 DEF Set, AsItemList!Next, AsItemList!Set, AsItemList!Ends
<1>8. CASE RemoveNothing
  <2>1. at = 0
    BY <1>8 DEF Inv, TypeOK, CallType, RemoveNothing
  <2>2. Items' = Items
    BY <1>2, <1>8, <2>1 DEF RemoveNothing
  <2> QED BY <1>1, <1>8, <2>2 DEF RemoveNothing, fields, AsItemList!Next,
          AsItemList!RemoveNothing, AsItemList!Ends, AsItemList!list
<1>9. CASE Remove
  <2>1. call.index \in Nat /\ size \in Nat
    BY DEF Inv, TypeOK, CallType
  <2>2. \A k \in 0 .. size - 1 :
           (IF k = call.index THEN elements[call.index]
            ELSE IF call.index < k /\ k < call.index + 1 THEN elements[k - 1]
            ELSE elements[k]) = elements[k]
    BY <2>1
  <2>3. Items = [k \in 0 .. size - 1 |-> elements[k]]
    BY <1>9 DEF Remove, Items
  <2>4. Items' = [k \in 0 .. size - 1 |->
                    IF k = call.index THEN elements[call.index]
                    ELSE IF call.index < k /\ k < call.index + 1 THEN elements[k - 1]
                    ELSE elements[k]]
    BY <1>9, <2>1 DEF Remove, Items, fields
  <2>5. Items' = Items
    BY <2>2, <2>3, <2>4
  <2> QED BY <1>9, <2>5 DEF Remove, AsItemList!vars, AsItemList!list, fields
<1>10. CASE Grow
  BY <1>10, GrowImplements
<1>11. CASE Put
  BY <1>11, PutImplements DEF AsItemList!Next
<1>12. CASE Shift
  BY <1>12, ShiftImplements
<1>13. CASE RemoveEnd
  BY <1>13, RemoveEndImplements DEF AsItemList!Next
<1>14. CASE UNCHANGED vars
  <2>1. Items' = Items
    BY <1>14 DEF vars, fields, Items
  <2> QED BY <1>14, <2>1 DEF vars, fields, AsItemList!vars, AsItemList!list
<1> QED
  BY <1>4, <1>5, <1>6, <1>7, <1>8, <1>9, <1>10, <1>11, <1>12, <1>13, <1>14 DEF Next, Inside

\* For any values, capacities and lengths the array list adds, returns, sets
\* and removes the item its caller gave, or what is at the index its caller
\* gave, as the list of alist.h does (alist_add, alist_get, alist_set,
\* alist_remove).
THEOREM AListImplementsItemList == Spec => ImplementsItemList
<1>1. AsItemList!Init /\ [][AsItemList!Next]_(AsItemList!vars) => ImplementsItemList
  BY DEF ImplementsItemList, AsItemList!Spec
<1> QED BY <1>1, InitImplements, NextImplements, AListInv, PTL DEF Spec
=============================================================================
