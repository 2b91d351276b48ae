------------------------------- MODULE MCScan -------------------------------
(***************************************************************************)
(* Up to five files.  a1, a2 and a3 have one content, b1 and b2 two others *)
(* of the same size, first and last byte, so that a bucket is stashed,     *)
(* matched, split, searched and added to; a2 is a clone of a1.  With       *)
(* TwoDevices and OneDigest two of the files are on a second device and    *)
(* all have the same content.                                              *)
(***************************************************************************)
EXTENDS Scan, TLC

CONSTANTS a1, a2, a3, b1, b2

All == {a1, a2, a3, b1, b2}
OneDevice == [e \in All |-> 1]
TwoDevices == [e \in All |-> IF e \in {b1, b2} THEN 2 ELSE 1]
MCSize == [e \in All |-> 10]
MCFirst == [e \in All |-> "x"]
MCLast == [e \in All |-> "y"]
MCDigest == [e \in All |-> CASE e = b1 -> "B" [] e = b2 -> "C" [] OTHER -> "A"]
OneDigest == [e \in All |-> "A"]
MCCloneId == [e \in All |-> CASE e \in {a1, a2} -> 1 [] e = a3 -> 2
                              [] e = b1 -> 3 [] e = b2 -> 4]
=============================================================================
