------------------------------- MODULE Dedup -------------------------------
(***************************************************************************)
(* The replacement phase: deduplicate of dedup.c on one matched set, and   *)
(* replace_with_clone, replace_with_link and replace_with_symlink of       *)
(* clone.c, one step per system call, run by one or more instances of the  *)
(* program on one directory, with failing calls, crashes and later runs.   *)
(*                                                                         *)
(* All files have one content, as the files of a matched set do.  The scan *)
(* that makes the set (module Scan) is reduced to its result: the regular  *)
(* files of the traversal in some order, each with the metadata it had     *)
(* when it was met, which is what deduplicate decides on.                  *)
(*                                                                         *)
(* The path <<f, 0>> is file f, <<f, k + 1>> the staging name ".~." of     *)
(* <<f, k>>.  An inode stands for a file's identity; its own name is the   *)
(* name of the metadata it was created with (mode, owner, flags, ACL).     *)
(***************************************************************************)
EXTENDS Naturals, Sequences, FiniteSets

CONSTANTS
    Files, Inodes, NONE,
    Inode0,          \* the inode of each file at the start
    Clone0,          \* the clone id of each inode at the start
    Roots,           \* the files the traversal reaches
    Twice,           \* those it reaches by two of the arguments
    Compressed, Immutable, ReadOnly,    \* inodes whose metadata says so
    Options,         \* the options a run may be given
    Failing,         \* the calls that may fail for reasons of their own
    Instances,       \* the concurrent runs of the program
    MaxRuns,         \* bound: how often an instance is started
    MaxStage,        \* bound: staging names of staging names
    MayCrash

\* What the traversal may return, and every name a file can get.
Targets == Files \X (0 .. MaxStage - 1)
Paths == Files \X (0 .. MaxStage)
Staging(path) == <<path[1], path[2] + 1>>

ASSUME DedupAssumption ==
    /\ IsFiniteSet(Files)
    /\ NONE \notin Inodes /\ \A path \in Paths : path \notin Inodes \cup {NONE}
    /\ Inode0 \in [Files -> Inodes] /\ Clone0 \in [Inodes -> Inodes]
    /\ Roots \subseteq Files /\ Twice \subseteq Roots
    /\ Compressed \cup Immutable \cup ReadOnly \subseteq Inodes
    /\ Options \subseteq [mode : {"clone", "link", "symlink"}, dry : BOOLEAN, mtime : BOOLEAN]
    /\ NONE \notin Options
    /\ MayCrash \in BOOLEAN
    /\ MaxRuns \in Nat /\ MaxStage \in Nat \ {0}

VARIABLES
    dirent,     \* what each path is: an inode, the target of a link, or NONE
    ino,        \* what each inode holds
    touched,    \* the mtime of the directory differs from the initial one
    job,        \* the local state of each instance
    runs        \* how often each instance was started

fs == <<dirent, ino, touched>>
vars == <<fs, job, runs>>

-----------------------------------------------------------------------------
(* The file system *)

\* Where n steps along symbolic links lead.
Hop[n \in 0 .. Cardinality(Files)] ==
    [path \in Paths |->
        IF n = 0 THEN path
        ELSE LET q == Hop[n - 1][path] IN IF dirent[q] \in Paths THEN dirent[q] ELSE q]

RealPath(path) == IF dirent[path] \in Paths THEN Hop[Cardinality(Files)][path] ELSE path
Resolved(path) == RealPath(path) \in Paths /\ dirent[RealPath(path)] \in Inodes
InodeAt(path) == IF Resolved(path) THEN dirent[RealPath(path)] ELSE NONE
CloneIdAt(path) == IF InodeAt(path) = NONE THEN NONE ELSE ino[InodeAt(path)].clone
Used == {dirent[path] : path \in Paths}
LinkCount(i) == Cardinality({path \in Paths : dirent[path] = i})

\* Slip: the flags are not carried over from the stat.
MetadataWithoutFlags(path) ==
    LET i == dirent[path]
    IN [path |-> path, inode |-> i, nlink |-> LinkCount(i), clone |-> ino[i].clone,
        compressed |-> FALSE, immutable |-> FALSE]

\* What the traversal and metadata_from_entry record of a regular file.
Metadata(path) ==
    LET i == dirent[path]
    IN [path |-> path, inode |-> i, nlink |-> LinkCount(i), clone |-> ino[i].clone,
        compressed |-> ino[i].meta \in Compressed,
        immutable |-> ino[i].meta \in Immutable]

NewJob == [pc |-> "idle", opt |-> NONE, todo |-> {}, set |-> <<>>, origin |-> 1, idx |-> 1,
           clone |-> NONE, target |-> NONE, mtime |-> FALSE, ok |-> FALSE,
           saved |-> 0, already |-> 0]

Init ==
    /\ dirent = [path \in Paths |-> IF path[2] = 0 THEN Inode0[path[1]] ELSE NONE]
    /\ ino = [i \in Inodes |-> [full |-> TRUE, meta |-> i, clone |-> Clone0[i]]]
    /\ touched = FALSE
    /\ job = [p \in Instances |-> NewJob]
    /\ runs = [p \in Instances |-> 0]

-----------------------------------------------------------------------------
(* A run up to its matched set *)

At(p, label) == job[p].pc = label
Become(p, j) == job' = [job EXCEPT ![p] = j]
Goto(p, label) == Become(p, [job[p] EXCEPT !.pc = label])
MayFail(call) == call \in Failing

Mode(p) == job[p].opt.mode
DryRun(p) == job[p].opt.dry
PreserveMtime(p) == job[p].opt.mtime

\* Regular and not empty; the argument that reaches it is the second number.
Visits == {v \in Targets \X {1, 2} :
             /\ v[1][1] \in Roots
             /\ dirent[v[1]] \in Inodes /\ ino[dirent[v[1]]].full
             /\ v[2] = 2 => v[1][1] \in Twice}

Start(p) == \E opt \in Options :
    /\ At(p, "idle") /\ runs[p] < MaxRuns
    /\ runs' = [runs EXCEPT ![p] = @ + 1]
    /\ Become(p, [NewJob EXCEPT !.pc = "scan", !.opt = opt, !.todo = Visits])
    /\ UNCHANGED fs

\* One file evaluated: what lstat tells of it and its clone id, read a little
\* later, in one step.  By now another instance may have taken it away.
Meet(p) == \E v \in job[p].todo :
    /\ At(p, "scan")
    /\ Become(p, [job[p] EXCEPT !.todo = @ \ {v},
                                !.set = IF dirent[v[1]] \in Inodes
                                        THEN Append(@, Metadata(v[1])) ELSE @])
    /\ UNCHANGED <<fs, runs>>

-----------------------------------------------------------------------------
(* The choice of the origin *)

CloneIds(set) == {set[n].clone : n \in DOMAIN set}
WithClone(set, c) == {n \in DOMAIN set : set[n].clone = c}
First(S) == {n \in S : \A m \in S : n <= m}

Scanned(p) == At(p, "scan") /\ job[p].todo = {}

\* The run is over; its two sums are printed, the rest is forgotten.
Leave(p, already) ==
    /\ Become(p, [NewJob EXCEPT !.opt = job[p].opt, !.saved = job[p].saved,
                                !.already = job[p].already + already])
    /\ UNCHANGED <<fs, runs>>

\* A file without a duplicate is in no set.
NoSet(p) ==
    /\ Scanned(p) /\ Len(job[p].set) < 2
    /\ Leave(p, 0)

Choose(p, n) ==
    /\ Become(p, [job[p] EXCEPT !.origin = n, !.pc = "each",
                                !.clone = CloneIdAt(job[p].set[n].path)])
    /\ UNCHANGED <<fs, runs>>

MostLinked(set) == {n \in DOMAIN set : \A m \in DOMAIN set : set[m].nlink <= set[n].nlink}

SomeLinked(set) == \E n \in DOMAIN set : set[n].nlink > 1

ChooseByLinks(p) ==
    LET set == job[p].set IN
    /\ Scanned(p) /\ Len(set) >= 2 /\ SomeLinked(set)
    /\ \E n \in First(MostLinked(set)) : Choose(p, n)

AlreadyCloned(p) ==
    LET set == job[p].set IN
    /\ Scanned(p) /\ Len(set) >= 2 /\ ~SomeLinked(set)
    /\ Cardinality(CloneIds(set)) = 1
    /\ Leave(p, Len(set) - 1)

\* No two are clones: the first that is not compressed, if there is one.
ChooseFirstSeen(p) ==
    LET set == job[p].set
        plain == {n \in DOMAIN set : ~set[n].compressed}
    IN
    /\ Scanned(p) /\ Len(set) >= 2 /\ ~SomeLinked(set)
    /\ Cardinality(CloneIds(set)) = Len(set)
    /\ \/ \E n \in First(plain) : Choose(p, n)
       \/ plain = {} /\ Leave(p, 0)

\* The ids of the largest count; of several the smallest is taken, and ids are
\* arbitrary numbers.
MostCloned(set) ==
    LET Count(c) == Cardinality(WithClone(set, c))
    IN {c \in CloneIds(set) : \A d \in CloneIds(set) : Count(d) <= Count(c)}

ChooseByClones(p) ==
    LET set == job[p].set IN
    /\ Scanned(p) /\ Len(set) >= 2 /\ ~SomeLinked(set)
    /\ Cardinality(CloneIds(set)) \notin {1, Len(set)}
    /\ \E c \in MostCloned(set) : \E n \in First(WithClone(set, c)) : Choose(p, n)

-----------------------------------------------------------------------------
(* The loop over the set *)

Fm(p) == job[p].set[job[p].idx]
Dst(p) == Fm(p).path
Origin(p) == job[p].set[job[p].origin]
Src(p) == Origin(p).path
Tmp(p) == Staging(Dst(p))
More(p) == At(p, "each") /\ job[p].idx <= Len(job[p].set)

\* Slip: nothing tells a file that shares its blocks or inode already.
AlwaysDistinct(p) == FALSE

Shared(p) ==
    \/ Mode(p) = "clone" /\ Fm(p).clone = Origin(p).clone
    \/ Mode(p) = "link" /\ Fm(p).inode = Origin(p).inode

\* Slip: the origin is not told from the others.
VerdictNoOrigin(p) ==
    IF Fm(p).nlink > 1 THEN "hardlinked"
    ELSE IF Shared(p) THEN "cloned"
    ELSE IF Fm(p).immutable THEN "immutable"
    ELSE IF DryRun(p) THEN "dry run"
    ELSE "replace"

\* Slip: the dry run is forgotten.
VerdictNeverDry(p) ==
    IF job[p].idx = job[p].origin THEN "origin"
    ELSE IF Fm(p).nlink > 1 THEN "hardlinked"
    ELSE IF Shared(p) THEN "cloned"
    ELSE IF Fm(p).immutable THEN "immutable"
    ELSE "replace"

\* Why the file is not replaced, the tests in their order.
Verdict(p) ==
    IF job[p].idx = job[p].origin THEN "origin"
    ELSE IF Fm(p).nlink > 1 THEN "hardlinked"
    ELSE IF Shared(p) THEN "cloned"
    ELSE IF Fm(p).immutable THEN "immutable"
    ELSE IF DryRun(p) THEN "dry run"
    ELSE "replace"

Pass(p) ==
    LET why == Verdict(p) IN
    /\ More(p) /\ why # "replace"
    /\ Become(p, [job[p] EXCEPT !.idx = @ + 1,
                    !.already = IF why \in {"hardlinked", "cloned"} THEN @ + 1 ELSE @,
                    !.saved = IF why = "dry run" THEN @ + 1 ELSE @])
    /\ UNCHANGED <<fs, runs>>

Replace(p) ==
    /\ More(p) /\ Verdict(p) = "replace"
    /\ Goto(p, CASE Mode(p) = "clone" -> IF PreserveMtime(p) THEN "save" ELSE "tmp"
                 [] Mode(p) = "link" -> "unlink"
                 [] Mode(p) = "symlink" -> "relative")
    /\ UNCHANGED <<fs, runs>>

EndOfSet(p) ==
    /\ At(p, "each") /\ job[p].idx > Len(job[p].set)
    /\ Leave(p, 0)

\* Slip: the index is raised before a continue and by the loop again.
NextFileTwice(p, saved, already) ==
    Become(p, [job[p] EXCEPT !.pc = "each", !.idx = @ + 2,
                             !.saved = @ + saved, !.already = @ + already])

\* On to the next file, with this one counted as saved, already saved or not.
NextFile(p, saved, already) ==
    Become(p, [job[p] EXCEPT !.pc = "each", !.idx = @ + 1,
                             !.saved = @ + saved, !.already = @ + already])

-----------------------------------------------------------------------------
(* replace_with_clone *)

SaveMtime(p) ==
    /\ At(p, "save")
    /\ Become(p, [job[p] EXCEPT !.pc = "tmp", !.mtime = touched])
    /\ UNCHANGED <<fs, runs>>

SaveMtimeFails(p) ==
    /\ At(p, "save") /\ MayFail("open")
    /\ NextFile(p, 0, 0)
    /\ UNCHANGED <<fs, runs>>

\* tmp_name refuses a staging file that exists and a name that is too long:
\* only the mtime is put back.
TmpName(p) ==
    /\ At(p, "tmp")
    /\ \/ /\ dirent[Tmp(p)] = NONE
          /\ Become(p, [job[p] EXCEPT !.ok = FALSE, !.pc = "clone"])
       \/ /\ dirent[Tmp(p)] # NONE \/ MayFail("tmp_name")
          /\ Become(p, [job[p] EXCEPT !.ok = FALSE, !.pc = "restore"])
    /\ UNCHANGED <<fs, runs>>

\* clonefile: a new inode with the data and, for now, the metadata of src.
Clonefile(p) ==
    LET i == CHOOSE n \in Inodes \ Used : TRUE
        src == InodeAt(Src(p))
    IN
    /\ At(p, "clone") /\ dirent[Tmp(p)] = NONE /\ src # NONE /\ Inodes \ Used # {}
    /\ \E full \in IF MayFail("short") THEN BOOLEAN ELSE {TRUE},
          id \in {ino[src].clone} \cup IF MayFail("cloneid") THEN {i} ELSE {} :
          ino' = [ino EXCEPT ![i] = [full |-> full, meta |-> ino[src].meta, clone |-> id]]
    /\ dirent' = [dirent EXCEPT ![Tmp(p)] = i]
    /\ touched' = TRUE
    /\ Goto(p, "check")
    /\ UNCHANGED runs

ClonefileFails(p) ==
    /\ At(p, "clone")
    /\ \/ MayFail("clonefile")
       \/ dirent[Tmp(p)] # NONE \/ InodeAt(Src(p)) = NONE \/ Inodes \ Used = {}
    /\ Goto(p, "undo")
    /\ UNCHANGED <<fs, runs>>

\* find_zero_file accepts a writable file that is not empty.
Acceptable(path) ==
    /\ dirent[path] # NONE
    /\ ino[dirent[path]].full /\ ino[dirent[path]].meta \notin ReadOnly

Check(p) ==
    /\ At(p, "check")
    /\ Goto(p, IF Acceptable(Tmp(p)) THEN "copy" ELSE "undo")
    /\ UNCHANGED <<fs, runs>>

\* Slip: the metadata is copied from src, which clonefile did already.
CopyMetadataFromSrc(p) ==
    /\ At(p, "copy") /\ dirent[Tmp(p)] # NONE /\ InodeAt(Src(p)) # NONE
    /\ ino' = [ino EXCEPT ![dirent[Tmp(p)]].meta = ino[InodeAt(Src(p))].meta]
    /\ Goto(p, "recheck")
    /\ UNCHANGED <<dirent, touched, runs>>

\* copyfile from dst to the staging file, metadata only.
CopyMetadata(p) ==
    /\ At(p, "copy") /\ dirent[Tmp(p)] # NONE /\ InodeAt(Dst(p)) # NONE
    /\ ino' = [ino EXCEPT ![dirent[Tmp(p)]].meta = ino[InodeAt(Dst(p))].meta]
    /\ Goto(p, "recheck")
    /\ UNCHANGED <<dirent, touched, runs>>

CopyMetadataFails(p) ==
    /\ At(p, "copy")
    /\ MayFail("copyfile") \/ dirent[Tmp(p)] = NONE \/ InodeAt(Dst(p)) = NONE
    /\ Goto(p, "undo")
    /\ UNCHANGED <<fs, runs>>

\* Slip: the staged file is not looked at again after the copy.
RecheckNothing(p) ==
    /\ At(p, "recheck")
    /\ Goto(p, "rename")
    /\ UNCHANGED <<fs, runs>>

\* A file whose metadata makes it read-only is refused here.
Recheck(p) ==
    /\ At(p, "recheck")
    /\ Goto(p, IF Acceptable(Tmp(p)) THEN "rename" ELSE "undo")
    /\ UNCHANGED <<fs, runs>>

Rename(p) ==
    /\ At(p, "rename") /\ dirent[Tmp(p)] # NONE
    /\ dirent' = [dirent EXCEPT ![Dst(p)] = dirent[Tmp(p)], ![Tmp(p)] = NONE]
    /\ touched' = TRUE
    /\ Become(p, [job[p] EXCEPT !.pc = "restore", !.ok = TRUE])
    /\ UNCHANGED <<ino, runs>>

RenameFails(p) ==
    /\ At(p, "rename")
    /\ MayFail("rename") \/ dirent[Tmp(p)] = NONE
    /\ Goto(p, "undo")
    /\ UNCHANGED <<fs, runs>>

\* Slip: a failure leaves without the unlink.
UndoNothing(p) ==
    /\ At(p, "undo")
    /\ Goto(p, "restore")
    /\ UNCHANGED <<fs, runs>>

\* Slip: the unlink names the wrong path.
UndoDst(p) ==
    /\ At(p, "undo")
    /\ touched' = TRUE
    /\ dirent' = [dirent EXCEPT ![Dst(p)] = NONE]
    /\ Goto(p, "restore")
    /\ UNCHANGED <<ino, runs>>

\* unlink(path) after any failure past tmp_name (clone.c 214, 221, 235, 246, 253
\* and 267), whoever made that file.
Undo(p) ==
    /\ At(p, "undo")
    /\ touched' = (touched \/ dirent[Tmp(p)] # NONE)
    /\ dirent' = [dirent EXCEPT ![Tmp(p)] = NONE]
    /\ Goto(p, "restore")
    /\ UNCHANGED <<ino, runs>>

\* The result of that unlink is not looked at.
UndoFails(p) ==
    /\ At(p, "undo") /\ MayFail("unlink staging")
    /\ Goto(p, "restore")
    /\ UNCHANGED <<fs, runs>>

\* Slip: the mtime is put back on success only.
RestoreOnSuccess(p) ==
    /\ At(p, "restore")
    /\ touched' = IF PreserveMtime(p) /\ job[p].ok THEN job[p].mtime ELSE touched
    /\ IF job[p].ok THEN Goto(p, "verify") ELSE NextFile(p, 0, 0)
    /\ UNCHANGED <<dirent, ino, runs>>

\* The cleanup label; futimens may fail with a warning.
Restore(p) ==
    /\ At(p, "restore")
    /\ touched' \in {IF PreserveMtime(p) THEN job[p].mtime ELSE touched}
                       \cup (IF MayFail("futimens") THEN {touched} ELSE {})
    /\ IF job[p].ok THEN Goto(p, "verify") ELSE NextFile(p, 0, 0)
    /\ UNCHANGED <<dirent, ino, runs>>

\* A clone of another id counts as already saved if it has no private blocks.
Verify(p) ==
    /\ At(p, "verify")
    /\ IF CloneIdAt(Dst(p)) = job[p].clone THEN NextFile(p, 1, 0)
       ELSE \E shared \in {0, 1} : NextFile(p, 0, shared)
    /\ UNCHANGED <<fs, runs>>

-----------------------------------------------------------------------------
(* replace_with_link and replace_with_symlink *)

\* path_relative_to resolves both paths; NONE is its NULL.  The way from a dst
\* that is a symbolic link by now is counted from the directory it leads to,
\* and followed from dst's own it may end anywhere.
LinkTargets(p) ==
    IF ~Resolved(Src(p)) \/ ~Resolved(Dst(p)) THEN {NONE}
    ELSE (IF dirent[Dst(p)] \in Paths THEN Paths ELSE {RealPath(Src(p))})
         \cup (IF MayFail("realpath") THEN {NONE} ELSE {})

Relative(p) ==
    /\ At(p, "relative")
    /\ \E target \in LinkTargets(p) :
          Become(p, [job[p] EXCEPT !.pc = "unlink", !.target = target])
    /\ UNCHANGED <<fs, runs>>

Unlink(p) ==
    /\ At(p, "unlink") /\ dirent[Dst(p)] # NONE
    /\ dirent' = [dirent EXCEPT ![Dst(p)] = NONE]
    /\ touched' = TRUE
    /\ Goto(p, "make")
    /\ UNCHANGED <<ino, runs>>

UnlinkFails(p) ==
    /\ At(p, "unlink") /\ (MayFail("unlink") \/ dirent[Dst(p)] = NONE)
    /\ NextFile(p, 0, 0)
    /\ UNCHANGED <<fs, runs>>

\* link(src, dst) or symlink(path, dst) to the name that is free now.
NewEntry(p) == IF Mode(p) = "link" THEN InodeAt(Src(p)) ELSE job[p].target

Make(p) ==
    /\ At(p, "make") /\ NewEntry(p) # NONE /\ dirent[Dst(p)] = NONE
    /\ dirent' = [dirent EXCEPT ![Dst(p)] = NewEntry(p)]
    /\ touched' = TRUE
    /\ NextFile(p, 1, 0)
    /\ UNCHANGED <<ino, runs>>

\* Slip: the result of link or symlink is not looked at.
MakeFailsUnseen(p) ==
    /\ At(p, "make")
    /\ MayFail(Mode(p)) \/ NewEntry(p) = NONE \/ dirent[Dst(p)] # NONE
    /\ NextFile(p, 1, 0)
    /\ UNCHANGED <<fs, runs>>

MakeFails(p) ==
    /\ At(p, "make")
    /\ MayFail(Mode(p)) \/ NewEntry(p) = NONE \/ dirent[Dst(p)] # NONE
    /\ NextFile(p, 0, 0)
    /\ UNCHANGED <<fs, runs>>

-----------------------------------------------------------------------------
\* The instance dies; the files stay as they are.
Crash(p) ==
    /\ MayCrash /\ ~At(p, "idle")
    /\ Become(p, NewJob)
    /\ UNCHANGED <<fs, runs>>

Evaluate(p) ==
    \/ Start(p) \/ Meet(p) \/ NoSet(p) \/ ChooseByLinks(p)
    \/ AlreadyCloned(p) \/ ChooseFirstSeen(p) \/ ChooseByClones(p)

Deduplicate(p) ==
    \/ Pass(p) \/ Replace(p) \/ EndOfSet(p)
    \/ SaveMtime(p) \/ SaveMtimeFails(p) \/ TmpName(p)
    \/ Clonefile(p) \/ ClonefileFails(p) \/ Check(p)
    \/ CopyMetadata(p) \/ CopyMetadataFails(p) \/ Recheck(p)
    \/ Rename(p) \/ RenameFails(p) \/ Undo(p) \/ UndoFails(p) \/ Restore(p) \/ Verify(p)
    \/ Relative(p) \/ Unlink(p) \/ UnlinkFails(p) \/ Make(p) \/ MakeFails(p)

Step(p) == Evaluate(p) \/ Deduplicate(p)

Terminated ==
    /\ \A p \in Instances : At(p, "idle") /\ runs[p] = MaxRuns
    /\ UNCHANGED vars

Next == (\E p \in Instances : Step(p) \/ Crash(p)) \/ Terminated

Spec == Init /\ [][Next]_vars

-----------------------------------------------------------------------------
Labels == {"idle", "scan", "each", "save", "tmp", "clone", "check", "copy",
           "recheck", "rename", "undo", "restore", "verify", "relative",
           "unlink", "make"}

FileMetadata == [path : Targets, inode : Inodes, nlink : Nat, clone : Inodes,
                 compressed : BOOLEAN, immutable : BOOLEAN]

Job == [pc : Labels, opt : Options \cup {NONE}, todo : SUBSET (Targets \X {1, 2}),
        set : Seq(FileMetadata), origin : Nat, idx : Nat,
        clone : Inodes \cup {NONE}, target : Paths \cup {NONE},
        mtime : BOOLEAN, ok : BOOLEAN, saved : Nat, already : Nat]

JobTypeOK(j) ==
    /\ j.pc # "idle" => j.opt \in Options
    /\ j.idx \in 1 .. Len(j.set) + 1
    /\ j.pc \notin {"idle", "scan"} => j.origin \in DOMAIN j.set
    /\ j.pc \notin {"idle", "scan", "each"} => j.idx \in DOMAIN j.set \ {j.origin}

TypeOK ==
    /\ dirent \in [Paths -> Inodes \cup Paths \cup {NONE}]
    /\ ino \in [Inodes -> [full : BOOLEAN, meta : Inodes, clone : Inodes]]
    /\ touched \in BOOLEAN
    /\ job \in [Instances -> Job] /\ \A p \in Instances : JobTypeOK(job[p])
    /\ runs \in [Instances -> 0 .. MaxRuns]

AllIdle == \A p \in Instances : At(p, "idle")
Whole(f) == InodeAt(<<f, 0>>) # NONE /\ ino[InodeAt(<<f, 0>>)].full
Replaced == {f \in Files : dirent[<<f, 0>>] # Inode0[f] /\ Whole(f)}

\* At every moment, a crash included, every file can be read and has its
\* content: replace_with_clone stages and renames (clone.c 192-276).
ContentIntact == \A f \in Files : Whole(f)

\* The modes that unlink first may lose a path to a failing link, but never
\* the content: as long as the set is being worked on its origin can be read,
\* the file every other is to become or to lead to, in any sequence of runs
\* with any options (replace_with_link 279-288, replace_with_symlink 366-383,
\* the origin test of deduplicate).
OriginSurvives ==
    \A p \in Instances : job[p].pc \notin {"idle", "scan"} =>
        InodeAt(Src(p)) # NONE /\ ino[InodeAt(Src(p))].full

\* At every moment some file of the set can be read (clone.h 71-72).
ContentSurvives == \E f \in Roots : Whole(f)

\* A replaced file has its own metadata again from the moment it is replaced
\* (clone.h 37: "All metadata (mode, flags, & ACLs) are retained on dst").
OwnMetadata ==
    \A f \in Files : dirent[<<f, 0>>] \in Inodes => ino[dirent[<<f, 0>>]].meta = Inode0[f]

\* Never replaced: files with other links, immutable files, files outside the
\* arguments and, by clones, read-only files (the limits of README.md 26-30).
Linked(f) == \E g \in Files \ {f} : Inode0[g] = Inode0[f]
Protected(f) ==
    \/ f \notin Roots
    \/ Linked(f)
    \/ Inode0[f] \in Immutable
    \/ Inode0[f] \in ReadOnly /\ \A opt \in Options : opt.mode = "clone"

ProtectedUntouched ==
    \A f \in Files : Protected(f) => dirent[<<f, 0>>] = Inode0[f]

\* Without a crash and with an unlink that works, no staging file outlives
\* the call that made it, whichever of its system calls fails.
NoStagingLeft ==
    AllIdle => \A path \in Paths : path[2] > 0 => dirent[path] = NONE

\* With -m the directory's mtime is the initial one whenever the loop of
\* deduplicate comes round, on the failing ways out of replace_with_clone too
\* (in a first run, before other modes touch the directory).
MtimeKept ==
    \A p \in Instances :
        runs[p] = 1 /\ job[p].pc \in {"scan", "each", "idle"}
            /\ Mode(p) = "clone" /\ PreserveMtime(p) => ~touched

\* "bytes saved" counts the files replaced, no more and no less, each time
\* the loop of deduplicate comes round (in a first run, not a dry one).
SavedExact ==
    \A p \in Instances :
        runs[p] = 1 /\ job[p].pc \in {"each", "idle"} /\ ~DryRun(p) =>
            job[p].saved = Cardinality(Replaced)

\* What an earlier run has done stands: a later one puts no clone over a file
\* that is, or has its blocks in common with, a file replaced before, even if
\* that run was of another mode or failed half way (README.md 35-37). It may where
\* two inodes of the set tie for the most links, since the first of them that is met
\* is taken (dedup.c 211), and where -l or -s lost a clone between the unlink and
\* the link (clone.c 282, 373), since the clones are counted anew.
Converges ==
    \A p \in Instances : runs[p] > 1 /\ At(p, "rename") =>
        \A f \in Files :
            dirent[<<f, 0>>] \in Inodes \ {Inode0[f]} =>
                CloneIdAt(<<f, 0>>) # CloneIdAt(Dst(p))

\* A dry run changes no file, whatever ran before it.
DryRunInert ==
    [][(\A p \in Instances : At(p, "idle") \/ DryRun(p)) => UNCHANGED fs]_vars
=============================================================================
