------------------------------- MODULE MCDedup -------------------------------
(***************************************************************************)
(* Up to five files of one content.  a, b and c have inodes and clone ids  *)
(* of their own, d is a clone of c, h and k are two links to one inode.    *)
(* The inodes n1 and n2 are free for clones and reused once free again.    *)
(***************************************************************************)
EXTENDS Dedup, TLC

CONSTANTS a, b, c, d, h, k, ia, ib, ic, id, ih, n1, n2, n3, p1, p2

MCInodes == {ia, ib, ic, id, ih, n1, n2, n3}
MCInode0 == [f \in Files |-> CASE f = a -> ia [] f = b -> ib [] f = c -> ic
                               [] f = d -> id [] OTHER -> ih]
MCClone0 == [i \in MCInodes |-> IF i = id THEN ic ELSE i]

\* dedup, dedup -m, dedup -n, dedup -l and dedup -s
Plain == [mode |-> "clone", dry |-> FALSE, mtime |-> FALSE]
PlainOnly == {Plain}
LinkOnly == {[Plain EXCEPT !.mode = "link"]}
SymlinkOnly == {[Plain EXCEPT !.mode = "symlink"]}
AnyMode == {[Plain EXCEPT !.mtime = TRUE], [Plain EXCEPT !.dry = TRUE]}
              \cup LinkOnly \cup SymlinkOnly
=============================================================================
