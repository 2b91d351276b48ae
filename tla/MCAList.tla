------------------------------- MODULE MCAList -------------------------------
(***************************************************************************)
(* Lists made with capacity 1, 2 (as duplicate_tree_find makes them) or 3, *)
(* which grow up to twice; two items beside the null pointer.              *)
(***************************************************************************)
EXTENDS AList, TLC

CONSTANTS x, y

MCValues == {x, y, NULL}
MCInitial == {1, 2, 3}
=============================================================================
