------------------------------- MODULE Source -------------------------------
(***************************************************************************)
(* What the scan expects of the traversal: the files there are to          *)
(* evaluate, each returned once, in any order, nothing but them, and an    *)
(* end that comes only after the last.  These are the steps of FtsRead and *)
(* SetDone of Scan on its variable remaining.                              *)
(***************************************************************************)
EXTENDS Sequences

CONSTANT Universe
VARIABLES remaining, returned, ended

Init == remaining \in SUBSET Universe /\ returned = <<>> /\ ended = FALSE

Return ==
    /\ ~ended
    /\ \E e \in remaining :
          remaining' = remaining \ {e} /\ returned' = Append(returned, e)
    /\ UNCHANGED ended

End ==
    /\ remaining = {}
    /\ ended' = TRUE
    /\ UNCHANGED <<remaining, returned>>

Next == Return \/ End

Spec == Init /\ [][Next]_<<remaining, returned, ended>>
=============================================================================
