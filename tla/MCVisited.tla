------------------------------ MODULE MCVisited ------------------------------
(***************************************************************************)
(* Seven files.  e1 and e2, e3 and e6, and e7 are three contents in one    *)
(* bucket, so that a stash is matched, split and refused and the hash      *)
(* level searched and added to; e4 repeats e1's content on another device; *)
(* e5 differs from e1 in its last byte only.                               *)
(***************************************************************************)
EXTENDS Ownership, TLC

CONSTANTS e1, e2, e3, e4, e5, e6, e7

MCEntries == {e1, e2, e3, e4, e5, e6, e7}
MCDevice == [e \in MCEntries |-> IF e = e4 THEN 2 ELSE 1]
MCSize == [e \in MCEntries |-> 10]
MCFirst == [e \in MCEntries |-> "a"]
MCLast == [e \in MCEntries |-> IF e = e5 THEN "y" ELSE "z"]
MCDigest == [e \in MCEntries |-> CASE e \in {e1, e2, e4} -> "A"
                                   [] e \in {e3, e6} -> "B"
                                   [] e = e5 -> "C" [] e = e7 -> "D"]
=============================================================================
