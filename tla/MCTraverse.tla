----------------------------- MODULE MCTraverse -----------------------------
(***************************************************************************)
(* top, the working directory, has the files a and .~.a, a link, the mount *)
(* point mnt of a volume that cannot clone, on which another volume that   *)
(* can is mounted at back, and sub with an empty file, a directory that    *)
(* cannot be opened, and one more level.  dangling leads nowhere.          *)
(***************************************************************************)
EXTENDS Traverse, TLC

CONSTANTS top, fa, staged, link, mnt, mfile, back, bfile, sub, sfile, zero,
          locked, lfile, deep, dfile, gone, dangling

MCNodes == {top, fa, staged, link, mnt, mfile, back, bfile, sub, sfile, zero,
            locked, lfile, deep, dfile, gone, dangling}

\* fa, sfile and dfile have one name in three directories.
In(n) == <<n, 0>>
MCPath == [n \in MCNodes |->
    CASE n = fa -> <<In(top), In(fa)>>
      [] n = staged -> <<In(top), <<fa, 1>>>>
      [] n \in {link, mnt, sub} -> <<In(top), In(n)>>
      [] n \in {mfile, back} -> <<In(top), In(mnt), In(n)>>
      [] n = bfile -> <<In(top), In(mnt), In(back), In(bfile)>>
      [] n = sfile -> <<In(top), In(sub), In(fa)>>
      [] n \in {zero, locked, deep} -> <<In(top), In(sub), In(n)>>
      [] n = lfile -> <<In(top), In(sub), In(locked), In(lfile)>>
      [] n = dfile -> <<In(top), In(sub), In(deep), In(fa)>>
      [] n = gone -> <<In(top), In(sub), In(deep), In(gone)>>
      [] OTHER -> <<In(n)>>]

MCKind == [n \in MCNodes |->
    CASE n \in {top, mnt, back, sub, locked, deep} -> "dir"
      [] n \in {link, dangling} -> "symlink"
      [] n = gone -> "other"
      [] OTHER -> "file"]

MCDev == [n \in MCNodes |->
    CASE n \in {mnt, mfile, dangling} -> 2 [] n \in {back, bfile} -> 3 [] OTHER -> 1]

LinksStay == [n \in MCNodes |-> IF n = dangling THEN NONE ELSE 1]
LinksLeave == [n \in MCNodes |-> IF n = dangling THEN NONE ELSE 2]

Line(opts, args) == [opts |-> opts, args |-> args]
D(v) == <<"d", v>>
T(v) == <<"t", v>>
O(letter) == <<letter, 0>>

\* With ShortHalf 8 and ByteValues 4, 7 is the greatest depth and 3 the greatest count.
MCLines == {
    Line(<<>>, <<>>),
    Line(<<O("x")>>, <<top>>),
    Line(<<O("l"), T(1)>>, <<top>>),
    Line(<<O("s"), O("x"), T(4)>>, <<mnt, sub>>),
    Line(<<O("x"), O("P")>>, <<mnt, sub, back>>),
    Line(<<D(0)>>, <<top>>),
    Line(<<D(0), D(1)>>, <<top>>),
    Line(<<D(7), T(-1)>>, <<top>>),
    Line(<<D(9)>>, <<top>>),
    Line(<<D(17), O("s"), O("l")>>, <<sub>>),
    Line(<<D(16)>>, <<sub>>),
    Line(<<D(-15)>>, <<sub>>),
    Line(<<O("v")>>, <<staged, sub, deep, fa>>),
    Line(<<>>, <<fa, dangling>>),
    Line(<<O("V")>>, <<top>>)}

PlainLine == {Line(<<>>, <<>>)}
=============================================================================
