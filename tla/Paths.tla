------------------------------- MODULE Paths -------------------------------
(***************************************************************************)
(* The names clone.c builds: the staging file of tmp_name and the target   *)
(* of a symbolic link of path_relative_to.                                 *)
(*                                                                         *)
(* A path is the sequence of its components from the root down, the last   *)
(* one the file's own name; it is canonical, as realpath returns it.  A    *)
(* name is a pair of a stem and how many times ".~." is in front of it.    *)
(***************************************************************************)
EXTENDS Naturals, Sequences

CONSTANT Stems      \* the names that do not begin with ".~."

Names == Stems \X Nat
PathNames == Seq(Names) \ {<<>>}

DirName(path) == SubSeq(path, 1, Len(path) - 1)
BaseName(path) == path[Len(path)]

StagingName(name) == <<name[1], name[2] + 1>>

\* Slip: the staging file goes to the working directory.
TmpNameInCwd(path) == <<StagingName(BaseName(path))>>

\* The directory, "/.~." and the name; the result may exist already.
TmpName(path) == Append(DirName(path), StagingName(BaseName(path)))

\* Whether the first n components of both are directories of the same name.
SharedDirs(src, dst, n) ==
    /\ n < Len(src) /\ n < Len(dst)
    /\ \A i \in 1 .. n : src[i] = dst[i]

\* How far the loop goes that consumes the common directories: it ends where
\* either path is down to its last name or the next two directories differ.
CommonDirs(src, dst) ==
    CHOOSE n \in 0 .. Len(src) :
        SharedDirs(src, dst, n) /\ ~SharedDirs(src, dst, n + 1)

\* Slip: the last name is counted as a directory.
PathRelativeToOneUp(src, dst) ==
    LET n == CommonDirs(src, dst)
    IN [up |-> Len(src) - n, down |-> SubSeq(dst, n + 1, Len(dst))]

\* The path to dst from the directory of src: a "../" for each directory that
\* is left of src, and then what is left of dst.
PathRelativeTo(src, dst) ==
    LET n == CommonDirs(src, dst)
    IN [up |-> Len(src) - n - 1, down |-> SubSeq(dst, n + 1, Len(dst))]

\* What the kernel makes of a relative target in a link in directory dir.
Follow(dir, target) == SubSeq(dir, 1, Len(dir) - target.up) \o target.down

-----------------------------------------------------------------------------
\* A link made at dst by replace_with_symlink leads to src, wherever the two
\* are (path_relative_to(dst, src), clone.c 290-364).
LeadsBack(src, dst) == Follow(DirName(dst), PathRelativeTo(dst, src)) = src

\* Two files are never staged under one name, and each is staged where the
\* rename can replace it: beside it, under another name (tmp_name).
StagedApart(p, q) ==
    /\ TmpName(p) = TmpName(q) => p = q
    /\ DirName(TmpName(p)) = DirName(p) /\ TmpName(p) # p
=============================================================================
