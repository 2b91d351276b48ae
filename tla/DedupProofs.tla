----------------------------- MODULE DedupProofs -----------------------------
(***************************************************************************)
(* Theorems about the replacement phase (module Dedup), for any files,     *)
(* inodes, links, failing calls and crashes:                               *)
(*                                                                         *)
(*   DedupTypeOK            the types, of which the others make use        *)
(*   ContentAlwaysIntact    ContentIntact, for runs that only clone        *)
(*   MetadataAlwaysOwn      OwnMetadata, for clones by one instance        *)
(*   DryRunChangesNothing   DryRunInert, for all options                   *)
(*   MtimeAlwaysKept        MtimeKept, for one instance without crashes    *)
(*   StagingNeverLeft       NoStagingLeft, likewise                        *)
(*   OriginAlwaysSurvives   OriginSurvives, for one instance               *)
(*   ProtectedKept          what every mode leaves alone                   *)
(*   ProtectedNeverTouched  ProtectedUntouched, read-only files included   *)
(*   SavedCountExact        SavedExact, for one instance without -s        *)
(*                                                                         *)
(* Each states its own hypotheses. The run DedupTwice shows why one of     *)
(* them is about files met twice with -s, DedupStaging why metadata are    *)
(* kept by one instance only.                                              *)
(***************************************************************************)
EXTENDS Dedup, FiniteSetTheorems, TLAPS

USE DEF fs, vars

-----------------------------------------------------------------------------
(* Types *)

\* The state of an instance that is not running has its type.
LEMMA NewJobType == NewJob \in Job /\ JobTypeOK(NewJob)
BY DEF NewJob, Job, JobTypeOK, Labels

\* The initial state is well typed.
LEMMA TypesInit == Init => TypeOK
<1> SUFFICES ASSUME Init PROVE TypeOK
    OBVIOUS
<1>1. NewJob \in Job /\ JobTypeOK(NewJob)
    BY NewJobType
<1>2. \A path \in Paths : path[1] \in Files
    BY DEF Paths
<1>3. dirent \in [Paths -> Inodes \cup Paths \cup {NONE}]
    BY <1>2, DedupAssumption DEF Init
<1>4. ino \in [Inodes -> [full : BOOLEAN, meta : Inodes, clone : Inodes]]
    BY DedupAssumption DEF Init
<1>5. runs \in [Instances -> 0 .. MaxRuns]
    BY DedupAssumption DEF Init
<1>6. job \in [Instances -> Job] /\ \A p \in Instances : JobTypeOK(job[p])
    BY <1>1 DEF Init
<1> QED
    BY <1>3, <1>4, <1>5, <1>6 DEF Init, TypeOK

\* Writing one well-typed job keeps all jobs well typed.
LEMMA OneJob ==
    ASSUME TypeOK, NEW p \in Instances, NEW j \in Job, JobTypeOK(j),
           Become(p, j)
    PROVE  job' \in [Instances -> Job] /\ \A q \in Instances : JobTypeOK(job'[q])
BY DEF TypeOK, Become

\* A change of label inside the loop over the set keeps the jobs typed.
LEMMA GotoTypes ==
    ASSUME TypeOK, NEW p \in Instances, NEW l \in Labels \ {"idle", "scan"},
           job[p].pc \notin {"idle", "scan", "each"}, Goto(p, l)
    PROVE  job' \in [Instances -> Job] /\ \A q \in Instances : JobTypeOK(job'[q])
<1> DEFINE j == [job[p] EXCEPT !.pc = l]
<1>1. job[p] \in Job /\ JobTypeOK(job[p])
    BY DEF TypeOK
<1>2. j \in Job
    BY <1>1 DEF Job
<1>3. JobTypeOK(j)
    BY <1>1 DEF Job, JobTypeOK
<1>4. Become(p, j)
    BY DEF Goto
<1> QED
    BY <1>2, <1>3, <1>4, OneJob

\* The same record with other numbers, arithmetic kept out of it.
LEMMA JobCounts ==
    ASSUME NEW j \in Job, NEW l \in Labels, NEW i \in Nat, NEW s \in Nat, NEW a \in Nat
    PROVE  [j EXCEPT !.pc = l, !.idx = i, !.saved = s, !.already = a] \in Job
BY DEF Job

\* Going on to the next file leaves the index at most one past the set.
LEMMA NextFileTypes ==
    ASSUME TypeOK, NEW p \in Instances, NEW s \in Nat, NEW a \in Nat,
           job[p].pc \notin {"idle", "scan", "each"}, NextFile(p, s, a)
    PROVE  job' \in [Instances -> Job] /\ \A q \in Instances : JobTypeOK(job'[q])
<1> DEFINE j == [job[p] EXCEPT !.pc = "each", !.idx = @ + 1, !.saved = @ + s, !.already = @ + a]
<1>1. job[p] \in Job /\ JobTypeOK(job[p])
    BY DEF TypeOK
<1>2. job[p].idx + 1 \in Nat /\ job[p].saved + s \in Nat /\ job[p].already + a \in Nat
    BY <1>1 DEF Job
<1>3. "each" \in Labels
    BY DEF Labels
<1>4. j \in Job
    BY <1>1, <1>2, <1>3, JobCounts
<1>5. JobTypeOK(j)
    BY <1>1 DEF Job, JobTypeOK
<1>6. Become(p, j)
    BY DEF NextFile
<1> QED
    BY <1>4, <1>5, <1>6, OneJob

\* The end of a run keeps its options and its two sums.
LEMMA LeaveTypes ==
    ASSUME TypeOK, NEW p \in Instances, NEW a \in Nat, Leave(p, a)
    PROVE  job' \in [Instances -> Job] /\ \A q \in Instances : JobTypeOK(job'[q])
<1> DEFINE j == [NewJob EXCEPT !.opt = job[p].opt, !.saved = job[p].saved,
                               !.already = job[p].already + a]
<1>1. job[p] \in Job /\ JobTypeOK(job[p])
    BY DEF TypeOK
<1>2. job[p].opt \in Options \cup {NONE} /\ job[p].saved \in Nat /\ job[p].already \in Nat
    BY <1>1 DEF Job
<1>3. job[p].already + a \in Nat
    BY <1>2
<1>4. NewJob \in Job
    BY NewJobType
<1>5. j \in Job
    BY <1>2, <1>3, <1>4 DEF Job
<1>6. JobTypeOK(j)
    BY DEF JobTypeOK, NewJob
<1>7. Become(p, j)
    BY DEF Leave
<1> QED
    BY <1>5, <1>6, <1>7, OneJob

\* A file being replaced has a staging name, and it is another path.
LEMMA Names ==
    ASSUME TypeOK, NEW p \in Instances, job[p].pc \notin {"idle", "scan", "each"}
    PROVE  /\ Dst(p) \in Targets /\ Dst(p) \in Paths
           /\ Tmp(p) \in Paths /\ Tmp(p)[2] > 0 /\ Tmp(p) # Dst(p)
<1>1. job[p] \in Job /\ JobTypeOK(job[p])
    BY DEF TypeOK
<1>2. job[p].set \in Seq(FileMetadata) /\ job[p].idx \in DOMAIN job[p].set
    BY <1>1 DEF Job, JobTypeOK
<1>3. Fm(p) \in FileMetadata
    BY <1>2 DEF Fm
<1>4. Dst(p) \in Targets
    BY <1>3 DEF Dst, FileMetadata
<1>5. MaxStage \in Nat \ {0}
    BY DedupAssumption
<1> QED
    BY <1>4, <1>5 DEF Targets, Paths, Tmp, Staging

\* Opening a path gives an inode or nothing.
LEMMA FoundInode == \A path : InodeAt(path) \in Inodes \cup {NONE}
BY DEF InodeAt, Resolved

\* So does asking a path for its clone id.
LEMMA FoundCloneId == TypeOK => \A path : CloneIdAt(path) \in Inodes \cup {NONE}
BY FoundInode DEF CloneIdAt, TypeOK

\* What the traversal records of a regular file is well typed.
LEMMA MetadataType ==
    ASSUME TypeOK, NEW path \in Targets, dirent[path] \in Inodes
    PROVE  Metadata(path) \in FileMetadata
<1>1. IsFiniteSet(Files) /\ MaxStage \in Nat
    BY DedupAssumption
<1>2. IsFiniteSet(0 .. MaxStage)
    BY <1>1, FS_Interval
<1>3. IsFiniteSet(Paths)
    BY <1>1, <1>2, FS_Product DEF Paths
<1>4. IsFiniteSet({q \in Paths : dirent[q] = dirent[path]})
    BY <1>3, FS_Subset
<1>5. LinkCount(dirent[path]) \in Nat
    BY <1>4, FS_CardinalityType DEF LinkCount
<1>6. ino[dirent[path]].clone \in Inodes
    BY DEF TypeOK
<1> QED
    BY <1>5, <1>6 DEF Metadata, FileMetadata

\* A step that writes a well-typed job only keeps the types.
LEMMA SameFiles ==
    ASSUME TypeOK, UNCHANGED <<fs, runs>>, job' \in [Instances -> Job],
           \A q \in Instances : JobTypeOK(job'[q])
    PROVE  TypeOK'
<1>1. \A q \in Instances : JobTypeOK(job[q])'
    BY DEF JobTypeOK
<1> QED
    BY <1>1 DEF TypeOK

\* Start keeps the types.
LEMMA StartTypes ==
    ASSUME TypeOK, NEW p \in Instances, Start(p)
    PROVE  TypeOK'
<1>1. PICK opt \in Options :
        Become(p, [NewJob EXCEPT !.pc = "scan", !.opt = opt, !.todo = Visits])
    BY DEF Start
<1> DEFINE j == [NewJob EXCEPT !.pc = "scan", !.opt = opt, !.todo = Visits]
<1>2. Visits \in SUBSET (Targets \X {1, 2})
    BY DEF Visits
<1>3. j \in Job
    BY <1>2, NewJobType DEF Job, Labels
<1>4. JobTypeOK(j)
    BY DEF JobTypeOK, NewJob
<1>5. job' \in [Instances -> Job] /\ \A q \in Instances : JobTypeOK(job'[q])
    BY <1>1, <1>3, <1>4, OneJob
<1>6. \A q \in Instances : JobTypeOK(job[q])'
    BY <1>5 DEF JobTypeOK
<1>7. runs[p] \in 0 .. MaxRuns /\ runs[p] < MaxRuns /\ MaxRuns \in Nat
    BY DedupAssumption DEF Start, TypeOK
<1>8. runs[p] + 1 \in 0 .. MaxRuns
    BY <1>7
<1>9. runs' \in [Instances -> 0 .. MaxRuns]
    BY <1>8 DEF Start, TypeOK
<1> QED
    BY <1>5, <1>6, <1>9 DEF TypeOK, Start

\* Meet keeps the types: the set grows, the index stays inside it.
LEMMA MeetTypes ==
    ASSUME TypeOK, NEW p \in Instances, Meet(p)
    PROVE  TypeOK'
<1>1. PICK v \in job[p].todo :
        Become(p, [job[p] EXCEPT !.todo = @ \ {v},
                                 !.set = IF dirent[v[1]] \in Inodes
                                         THEN Append(@, Metadata(v[1])) ELSE @])
    BY DEF Meet
<1> DEFINE s == IF dirent[v[1]] \in Inodes THEN Append(job[p].set, Metadata(v[1]))
                ELSE job[p].set
           j == [job[p] EXCEPT !.todo = @ \ {v}, !.set = s]
<1>2. job[p] \in Job /\ JobTypeOK(job[p])
    BY DEF TypeOK
<1>3. job[p].set \in Seq(FileMetadata) /\ job[p].todo \in SUBSET (Targets \X {1, 2})
    BY <1>2 DEF Job
<1>4. v[1] \in Targets
    BY <1>3
<1>5. s \in Seq(FileMetadata) /\ Len(s) \in {Len(job[p].set), Len(job[p].set) + 1}
    BY <1>3, <1>4, MetadataType
<1>6. j \in Job
  <2> HIDE DEF s
  <2> QED BY <1>2, <1>3, <1>5 DEF Job
<1>7. JobTypeOK(j)
  <2> HIDE DEF s
  <2>1. job[p].pc = "scan" /\ job[p].opt \in Options /\ job[p].idx \in 1 .. Len(job[p].set) + 1
      BY <1>2 DEF Meet, At, JobTypeOK
  <2>2. Len(job[p].set) \in Nat
      BY <1>3
  <2>3. job[p].idx \in 1 .. Len(s) + 1
      BY <1>5, <2>1, <2>2
  <2> QED
      BY <1>2, <2>1, <2>3 DEF JobTypeOK, Job
<1>8. job' \in [Instances -> Job] /\ \A q \in Instances : JobTypeOK(job'[q])
    BY <1>1, <1>6, <1>7, OneJob
<1> QED
    BY <1>8, SameFiles DEF Meet

\* The origin that is chosen is a member of the set.
LEMMA ChooseTypes ==
    ASSUME TypeOK, NEW p \in Instances, NEW n \in DOMAIN job[p].set,
           At(p, "scan"), Choose(p, n)
    PROVE  TypeOK'
<1> DEFINE c == CloneIdAt(job[p].set[n].path)
           j == [job[p] EXCEPT !.origin = n, !.pc = "each", !.clone = c]
<1>1. job[p] \in Job /\ JobTypeOK(job[p])
    BY DEF TypeOK
<1>2. c \in Inodes \cup {NONE} /\ n \in Nat /\ "each" \in Labels
    BY <1>1, FoundCloneId DEF Job, Labels
<1>3. j \in Job
    BY <1>1, <1>2 DEF Job
<1>4. JobTypeOK(j)
    BY <1>1 DEF Job, JobTypeOK, At
<1>5. Become(p, j)
    BY DEF Choose
<1>6. job' \in [Instances -> Job] /\ \A q \in Instances : JobTypeOK(job'[q])
    BY <1>3, <1>4, <1>5, OneJob
<1> QED
    BY <1>6, SameFiles DEF Choose

\* Every step up to the choice of the origin keeps the types.
LEMMA EvaluateTypes ==
    ASSUME TypeOK, NEW p \in Instances, Evaluate(p)
    PROVE  TypeOK'
<1> DEFINE set == job[p].set
<1>1. job[p].set \in Seq(FileMetadata)
    BY DEF TypeOK, Job
<1>2. \A a \in Nat : Leave(p, a) => TypeOK'
    BY LeaveTypes, SameFiles DEF Leave
<1>3. \A n \in DOMAIN set : At(p, "scan") /\ Choose(p, n) => TypeOK'
    BY ChooseTypes
<1>4. CASE Start(p)
    BY <1>4, StartTypes
<1>5. CASE Meet(p)
    BY <1>5, MeetTypes
<1>6. CASE NoSet(p)
    BY <1>6, <1>2 DEF NoSet
<1>7. CASE ChooseByLinks(p)
    BY <1>7, <1>3 DEF ChooseByLinks, First, MostLinked, Scanned
<1>8. CASE AlreadyCloned(p)
  <2>1. Len(set) - 1 \in Nat
      BY <1>1, <1>8 DEF AlreadyCloned
  <2> QED
      BY <1>2, <1>8, <2>1 DEF AlreadyCloned
<1>9. CASE ChooseFirstSeen(p)
    BY <1>9, <1>2, <1>3 DEF ChooseFirstSeen, First, Scanned
<1>10. CASE ChooseByClones(p)
    BY <1>10, <1>3 DEF ChooseByClones, First, WithClone, Scanned
<1> QED
    BY <1>4, <1>5, <1>6, <1>7, <1>8, <1>9, <1>10 DEF Evaluate

\* A file passed over keeps the types.
LEMMA PassTypes ==
    ASSUME TypeOK, NEW p \in Instances, Pass(p)
    PROVE  TypeOK'
<1> DEFINE why == Verdict(p)
           a == IF why \in {"hardlinked", "cloned"} THEN job[p].already + 1 ELSE job[p].already
           s == IF why = "dry run" THEN job[p].saved + 1 ELSE job[p].saved
           i == job[p].idx + 1
           j == [job[p] EXCEPT !.idx = i, !.already = a, !.saved = s]
<1>1. job[p] \in Job /\ JobTypeOK(job[p]) /\ job[p].set \in Seq(FileMetadata)
    BY DEF TypeOK, Job
<1>2. i \in Nat /\ s \in Nat /\ a \in Nat
  <2>1. job[p].idx \in Nat /\ job[p].saved \in Nat /\ job[p].already \in Nat
      BY <1>1 DEF Job
  <2>2. i \in Nat /\ job[p].saved + 1 \in Nat /\ job[p].already + 1 \in Nat
      BY <2>1
  <2>3. s \in {job[p].saved, job[p].saved + 1}
      OBVIOUS
  <2>4. a \in {job[p].already, job[p].already + 1}
      OBVIOUS
  <2> HIDE DEF i, s, a
  <2> QED
      BY <2>1, <2>2, <2>3, <2>4
<1>3. j \in Job
  <2> HIDE DEF i, s, a
  <2> QED BY <1>1, <1>2 DEF Job
<1>4. job[p].pc = "each" /\ i \in 1 .. Len(job[p].set) + 1
    BY <1>1 DEF Pass, More, At, Job
<1>5. JobTypeOK(j)
  <2> HIDE DEF i, s, a
  <2> QED BY <1>1, <1>4 DEF JobTypeOK, Job
<1>6. Become(p, j)
    BY DEF Pass
<1>7. job' \in [Instances -> Job] /\ \A q \in Instances : JobTypeOK(job'[q])
    BY <1>3, <1>5, <1>6, OneJob
<1> QED
    BY <1>7, SameFiles DEF Pass

\* An instance that runs was given one of the three modes.
LEMMA GivenMode ==
    TypeOK => \A p \in Instances :
        job[p].pc # "idle" => Mode(p) \in {"clone", "link", "symlink"}
BY DedupAssumption DEF TypeOK, JobTypeOK, Mode

\* Only a file other than the origin goes on to be replaced.
LEMMA ReplaceTypes ==
    ASSUME TypeOK, NEW p \in Instances, Replace(p)
    PROVE  TypeOK'
<1>1. PICK l \in {"save", "tmp", "unlink", "relative"} : Goto(p, l)
    BY GivenMode DEF Replace, More, At
<1> DEFINE j == [job[p] EXCEPT !.pc = l]
<1>2. job[p] \in Job /\ JobTypeOK(job[p]) /\ job[p].set \in Seq(FileMetadata)
    BY DEF TypeOK, Job
<1>3. j \in Job
    BY <1>2 DEF Job, Labels
<1>4. job[p].pc = "each" /\ job[p].idx \in DOMAIN job[p].set \ {job[p].origin}
    BY <1>2 DEF Replace, More, At, Verdict, Job, JobTypeOK
<1>5. JobTypeOK(j)
    BY <1>2, <1>4 DEF JobTypeOK, Job
<1>6. Become(p, j)
    BY <1>1 DEF Goto
<1>7. job' \in [Instances -> Job] /\ \A q \in Instances : JobTypeOK(job'[q])
    BY <1>3, <1>5, <1>6, OneJob
<1> QED
    BY <1>7, SameFiles DEF Replace

\* A change of label, saved mtime, result or target keeps the jobs typed.
LEMMA JobFields ==
    ASSUME TypeOK, NEW p \in Instances, NEW l \in Labels \ {"idle", "scan"},
           job[p].pc \notin {"idle", "scan", "each"},
           NEW m \in BOOLEAN, NEW ok \in BOOLEAN, NEW t \in Paths \cup {NONE},
           Become(p, [job[p] EXCEPT !.pc = l, !.mtime = m, !.ok = ok, !.target = t])
    PROVE  job' \in [Instances -> Job] /\ \A q \in Instances : JobTypeOK(job'[q])
<1> DEFINE j == [job[p] EXCEPT !.pc = l, !.mtime = m, !.ok = ok, !.target = t]
<1>1. job[p] \in Job /\ JobTypeOK(job[p])
    BY DEF TypeOK
<1>2. j \in Job
    BY <1>1 DEF Job
<1>3. JobTypeOK(j)
    BY <1>1 DEF Job, JobTypeOK
<1> QED
    BY <1>2, <1>3, OneJob

\* A step with well-typed files and jobs keeps the types.
LEMMA FilesTypes ==
    ASSUME TypeOK, runs' = runs, touched' \in BOOLEAN,
           dirent' \in [Paths -> Inodes \cup Paths \cup {NONE}],
           ino' \in [Inodes -> [full : BOOLEAN, meta : Inodes, clone : Inodes]],
           job' \in [Instances -> Job], \A q \in Instances : JobTypeOK(job'[q])
    PROVE  TypeOK'
<1>1. \A q \in Instances : JobTypeOK(job[q])'
    BY DEF JobTypeOK
<1> QED
    BY <1>1 DEF TypeOK

\* The steps of the loop that change no file keep the types.
LEMMA JobOnlyTypes ==
    ASSUME TypeOK, NEW p \in Instances,
           \/ SaveMtime(p) \/ SaveMtimeFails(p) \/ TmpName(p) \/ ClonefileFails(p) \/ Check(p)
           \/ CopyMetadataFails(p) \/ Recheck(p) \/ RenameFails(p) \/ UndoFails(p) \/ Verify(p)
           \/ Relative(p) \/ UnlinkFails(p) \/ MakeFails(p)
    PROVE  TypeOK'
<1>1. /\ job[p].mtime \in BOOLEAN /\ job[p].ok \in BOOLEAN /\ touched \in BOOLEAN
      /\ job[p].target \in Paths \cup {NONE} /\ job[p] \in Job
    BY DEF TypeOK, Job
<1>2. UNCHANGED <<fs, runs>>
    BY DEF SaveMtime, SaveMtimeFails, TmpName, ClonefileFails, Check, CopyMetadataFails,
           Recheck, RenameFails, UndoFails, Verify, Relative, UnlinkFails, MakeFails
<1>3. job[p].pc \notin {"idle", "scan", "each"}
    BY DEF At, SaveMtime, SaveMtimeFails, TmpName, ClonefileFails, Check, CopyMetadataFails,
           Recheck, RenameFails, UndoFails, Verify, Relative, UnlinkFails, MakeFails
<1>4. \A l \in Labels \ {"idle", "scan"} : Goto(p, l) => TypeOK'
    BY <1>2, <1>3, GotoTypes, SameFiles
<1>5. \A s, a \in Nat : NextFile(p, s, a) => TypeOK'
    BY <1>2, <1>3, NextFileTypes, SameFiles
<1>6. CASE SaveMtime(p)
  <2>1. Become(p, [job[p] EXCEPT !.pc = "tmp", !.mtime = touched, !.ok = job[p].ok,
                                 !.target = job[p].target])
      BY <1>1, <1>6 DEF SaveMtime, Job, Become
  <2> QED
      BY <1>1, <1>2, <1>3, <2>1, JobFields, SameFiles DEF Labels
<1>7. CASE TmpName(p)
  <2>1. PICK l \in {"clone", "restore"} : Become(p, [job[p] EXCEPT !.ok = FALSE, !.pc = l])
      BY <1>7 DEF TmpName
  <2>2. Become(p, [job[p] EXCEPT !.pc = l, !.mtime = job[p].mtime, !.ok = FALSE,
                                 !.target = job[p].target])
      BY <1>1, <2>1 DEF Job, Become
  <2> QED
      BY <1>1, <1>2, <1>3, <2>2, JobFields, SameFiles DEF Labels
<1>8. CASE Relative(p)
  <2>1. PICK t \in Paths \cup {NONE} : Become(p, [job[p] EXCEPT !.pc = "unlink", !.target = t])
    <3>1. LinkTargets(p) \subseteq Paths \cup {NONE}
        BY DEF LinkTargets, Resolved
    <3> QED
        BY <1>8, <3>1 DEF Relative
  <2>2. Become(p, [job[p] EXCEPT !.pc = "unlink", !.mtime = job[p].mtime,
                                 !.ok = job[p].ok, !.target = t])
      BY <1>1, <2>1 DEF Job, Become
  <2> QED
      BY <1>1, <1>2, <1>3, <2>2, JobFields, SameFiles DEF Labels
<1>9. CASE SaveMtimeFails(p) \/ Verify(p) \/ UnlinkFails(p) \/ MakeFails(p)
    BY <1>5, <1>9 DEF SaveMtimeFails, Verify, UnlinkFails, MakeFails
<1>10. CASE ClonefileFails(p) \/ Check(p) \/ CopyMetadataFails(p) \/ Recheck(p)
              \/ RenameFails(p) \/ UndoFails(p)
    BY <1>4, <1>10 DEF ClonefileFails, Check, CopyMetadataFails, Recheck, RenameFails,
                       UndoFails, Labels
<1> QED
    BY <1>6, <1>7, <1>8, <1>9, <1>10

\* Writing one directory entry keeps the directory typed.
LEMMA EntryTypes ==
    ASSUME TypeOK, NEW path \in Paths, NEW e \in Inodes \cup Paths \cup {NONE}
    PROVE  [dirent EXCEPT ![path] = e] \in [Paths -> Inodes \cup Paths \cup {NONE}]
BY DEF TypeOK

\* Writing one inode keeps the inodes typed.
LEMMA InodeTypes ==
    ASSUME TypeOK, NEW i \in Inodes, NEW full \in BOOLEAN, NEW m \in Inodes, NEW c \in Inodes
    PROVE  /\ [ino EXCEPT ![i] = [full |-> full, meta |-> m, clone |-> c]]
                \in [Inodes -> [full : BOOLEAN, meta : Inodes, clone : Inodes]]
           /\ [ino EXCEPT ![i].meta = m]
                \in [Inodes -> [full : BOOLEAN, meta : Inodes, clone : Inodes]]
BY DEF TypeOK

\* The steps of the loop that change files keep the types.
LEMMA FilesChangedTypes ==
    ASSUME TypeOK, NEW p \in Instances,
           \/ Clonefile(p) \/ CopyMetadata(p) \/ Rename(p) \/ Undo(p) \/ Restore(p)
           \/ Unlink(p) \/ Make(p)
    PROVE  TypeOK'
<1>1. /\ job[p].mtime \in BOOLEAN /\ job[p].ok \in BOOLEAN /\ touched \in BOOLEAN
      /\ job[p].target \in Paths \cup {NONE} /\ job[p] \in Job
    BY DEF TypeOK, Job
<1>2. runs' = runs
    BY DEF Clonefile, CopyMetadata, Rename, Undo, Restore, Unlink, Make
<1>3. job[p].pc \notin {"idle", "scan", "each"}
    BY DEF At, Clonefile, CopyMetadata, Rename, Undo, Restore, Unlink, Make
<1> DEFINE JobTypesOK == job' \in [Instances -> Job] /\ \A q \in Instances : JobTypeOK(job'[q])
<1>4. \A l \in Labels \ {"idle", "scan"} : Goto(p, l) => JobTypesOK
    BY <1>3, GotoTypes
<1>5. \A s, a \in Nat : NextFile(p, s, a) => JobTypesOK
    BY <1>3, NextFileTypes
<1>6. Dst(p) \in Paths /\ Tmp(p) \in Paths
    BY <1>3, Names
<1>7. /\ dirent \in [Paths -> Inodes \cup Paths \cup {NONE}]
      /\ ino \in [Inodes -> [full : BOOLEAN, meta : Inodes, clone : Inodes]]
    BY DEF TypeOK
<1> HIDE DEF JobTypesOK
<1>8. CASE Clonefile(p)
  <2> DEFINE i == CHOOSE n \in Inodes \ Used : TRUE
  <2>1. i \in Inodes
      BY <1>8 DEF Clonefile
  <2>2. InodeAt(Src(p)) \in Inodes
      BY <1>8, FoundInode DEF Clonefile
  <2> HIDE DEF i
  <2>3. PICK full \in BOOLEAN, id \in Inodes :
          ino' = [ino EXCEPT ![i] = [full |-> full, meta |-> ino[InodeAt(Src(p))].meta,
                                     clone |-> id]]
    <3>1. ino[InodeAt(Src(p))].clone \in Inodes
        BY <1>7, <2>2
    <3> QED
        BY <1>8, <2>1, <3>1 DEF Clonefile, i
  <2>4. ino' \in [Inodes -> [full : BOOLEAN, meta : Inodes, clone : Inodes]]
      BY <1>7, <2>1, <2>2, <2>3, InodeTypes
  <2>5. dirent' \in [Paths -> Inodes \cup Paths \cup {NONE}]
      BY <1>6, <1>8, <2>1, EntryTypes DEF Clonefile, i
  <2>6. JobTypesOK
      BY <1>4, <1>8 DEF Clonefile, Labels
  <2> QED
      BY <1>2, <1>8, <2>4, <2>5, <2>6, FilesTypes DEF Clonefile, JobTypesOK
<1>9. CASE CopyMetadata(p)
  <2>1. InodeAt(Dst(p)) \in Inodes
      BY <1>9, FoundInode DEF CopyMetadata
  <2>2. ino' \in [Inodes -> [full : BOOLEAN, meta : Inodes, clone : Inodes]]
    <3>1. ino[InodeAt(Dst(p))].meta \in Inodes
        BY <1>7, <2>1
    <3>2. ino' = [ino EXCEPT ![dirent[Tmp(p)]].meta = ino[InodeAt(Dst(p))].meta]
        BY <1>9 DEF CopyMetadata
    <3>3. CASE dirent[Tmp(p)] \in Inodes
        BY <3>1, <3>2, <3>3, InodeTypes
    <3>4. CASE dirent[Tmp(p)] \notin Inodes
        BY <1>7, <3>2, <3>4
    <3> QED
        BY <3>3, <3>4
  <2>3. JobTypesOK
      BY <1>4, <1>9 DEF CopyMetadata, Labels
  <2> QED
      BY <1>1, <1>2, <1>7, <1>9, <2>2, <2>3, FilesTypes DEF CopyMetadata, JobTypesOK
<1>10. CASE Rename(p)
  <2>1. dirent' = [dirent EXCEPT ![Dst(p)] = dirent[Tmp(p)], ![Tmp(p)] = NONE]
      BY <1>10 DEF Rename
  <2>2. dirent' \in [Paths -> Inodes \cup Paths \cup {NONE}]
      BY <1>6, <1>7, <2>1
  <2>3. Become(p, [job[p] EXCEPT !.pc = "restore", !.mtime = job[p].mtime, !.ok = TRUE,
                                 !.target = job[p].target])
      BY <1>1, <1>10 DEF Rename, Job, Become
  <2>4. JobTypesOK
      BY <1>1, <1>3, <2>3, JobFields DEF Labels, JobTypesOK
  <2> QED
      BY <1>2, <1>7, <1>10, <2>2, <2>4, FilesTypes DEF Rename, JobTypesOK
<1>11. CASE Undo(p)
    BY <1>1, <1>2, <1>4, <1>6, <1>7, <1>11, EntryTypes, FilesTypes DEF Undo, Labels, JobTypesOK
<1>12. CASE Restore(p)
  <2>1. JobTypesOK
      BY <1>4, <1>5, <1>12 DEF Restore, Labels
  <2>2. touched' \in BOOLEAN
      BY <1>1, <1>12 DEF Restore
  <2> QED
      BY <1>2, <1>7, <1>12, <2>1, <2>2, FilesTypes DEF Restore, JobTypesOK
<1>13. CASE Unlink(p)
    BY <1>2, <1>4, <1>6, <1>7, <1>13, EntryTypes, FilesTypes DEF Unlink, Labels, JobTypesOK
<1>14. CASE Make(p)
  <2>1. NewEntry(p) \in Inodes \cup Paths \cup {NONE}
      BY <1>1, FoundInode DEF NewEntry
  <2>2. JobTypesOK
      BY <1>5, <1>14 DEF Make
  <2> QED
      BY <1>2, <1>6, <1>7, <1>14, <2>1, <2>2, EntryTypes, FilesTypes DEF Make, JobTypesOK
<1> QED
    BY <1>8, <1>9, <1>10, <1>11, <1>12, <1>13, <1>14

\* Every step keeps the types.
LEMMA TypesStep == TypeOK /\ [Next]_vars => TypeOK'
<1> SUFFICES ASSUME TypeOK, [Next]_vars
             PROVE  TypeOK'
    OBVIOUS
<1>1. CASE UNCHANGED vars
    BY <1>1, SameFiles DEF TypeOK
<1>2. ASSUME NEW p \in Instances, Evaluate(p)
      PROVE  TypeOK'
    BY <1>2, EvaluateTypes
<1>3. ASSUME NEW p \in Instances, Deduplicate(p)
      PROVE  TypeOK'
  <2>1. \A a \in Nat : Leave(p, a) => TypeOK'
      BY LeaveTypes, SameFiles DEF Leave
  <2>2. CASE EndOfSet(p)
      BY <2>1, <2>2 DEF EndOfSet
  <2> QED
      BY <1>3, <2>2, PassTypes, ReplaceTypes, JobOnlyTypes, FilesChangedTypes DEF Deduplicate
<1>4. ASSUME NEW p \in Instances, Crash(p)
      PROVE  TypeOK'
    BY <1>4, OneJob, NewJobType, SameFiles DEF Crash
<1> QED
    BY <1>1, <1>2, <1>3, <1>4 DEF Next, Step, Terminated

\* Every variable keeps its type, for any files, inodes, options and number of
\* instances, with failing calls and crashes.
THEOREM DedupTypeOK == Spec => []TypeOK
BY TypesInit, TypesStep, PTL DEF Spec

-----------------------------------------------------------------------------
(* The content, with clones only *)

\* The runs are all without -l and -s, and either clonefile never stages a
\* file short of its content or no two instances run at a time: a staged file
\* may be replaced by another instance after it was looked at.
CloneOnly == \A opt \in Options : opt.mode = "clone"
StagedAsSeen == "short" \notin Failing \/ \A p, q \in Instances : p = q

\* What holds all along: no path is a symbolic link, none is being unlinked
\* but staging names, every file has an inode with the content, and what is
\* about to be renamed has it too.
NoSymlink == \A path \in Paths : dirent[path] \notin Paths
NoUnlink == \A p \in Instances : job[p].pc \notin {"relative", "unlink", "make"}
FilesFull == \A f \in Files : dirent[<<f, 0>>] \in Inodes /\ ino[dirent[<<f, 0>>]].full
AllFull == "short" \notin Failing => \A i \in Inodes : ino[i].full
StagedFull ==
    \A p \in Instances :
        job[p].pc = "rename" /\ dirent[Tmp(p)] \in Inodes => ino[dirent[Tmp(p)]].full

ContentInv == TypeOK /\ NoSymlink /\ NoUnlink /\ FilesFull /\ AllFull /\ StagedFull

\* The name of a file is a path.
LEMMA FileNames == \A f \in Files : <<f, 0>> \in Paths
BY DedupAssumption DEF Paths

\* Without symbolic links a path is what its entry says.
LEMMA Direct ==
    ASSUME NoSymlink, NEW path \in Paths
    PROVE  InodeAt(path) = IF dirent[path] \in Inodes THEN dirent[path] ELSE NONE
BY DEF NoSymlink, InodeAt, Resolved, RealPath

\* The content invariant holds at the start.
LEMMA ContentInit == Init => ContentInv
<1> SUFFICES ASSUME Init PROVE ContentInv
    OBVIOUS
<1>1. NoSymlink
    BY DedupAssumption DEF Init, NoSymlink, Paths
<1>2. NoUnlink /\ StagedFull
    BY DEF Init, NoUnlink, StagedFull, NewJob
<1>3. FilesFull
    BY FileNames, DedupAssumption DEF Init, FilesFull
<1>4. AllFull
    BY DEF Init, AllFull
<1> QED
    BY <1>1, <1>2, <1>3, <1>4, TypesInit DEF ContentInv

\* The content invariant says that every file can be read.
LEMMA ContentImplies == ContentInv => ContentIntact
<1> SUFFICES ASSUME ContentInv, NEW f \in Files
             PROVE  Whole(f)
    BY DEF ContentIntact
<1>1. InodeAt(<<f, 0>>) = dirent[<<f, 0>>]
    BY FileNames, Direct DEF ContentInv, FilesFull
<1> QED
    BY <1>1, DedupAssumption DEF ContentInv, FilesFull, Whole

Others(p) == \A q \in Instances : q # p => job'[q] = job[q]

\* A step writes one job, and leaves it at the label it goes to.
LEMMA Moves ==
    ASSUME TypeOK, NEW p \in Instances
    PROVE  /\ \A l \in Labels : Goto(p, l) => Others(p) /\ job'[p].pc = l
           /\ \A s, a \in Nat : NextFile(p, s, a) => Others(p) /\ job'[p].pc = "each"
           /\ \A a \in Nat : Leave(p, a) => Others(p) /\ job'[p].pc = "idle"
           /\ \A n \in DOMAIN job[p].set : Choose(p, n) => Others(p) /\ job'[p].pc = "each"
<1>1. job \in [Instances -> Job] /\ job[p] \in Job
    BY DEF TypeOK
<1>2. ASSUME NEW l \in Labels, Goto(p, l)
      PROVE  Others(p) /\ job'[p].pc = l
    BY <1>1, <1>2 DEF Goto, Become, Others, Job
<1>3. ASSUME NEW s \in Nat, NEW a \in Nat, NextFile(p, s, a)
      PROVE  Others(p) /\ job'[p].pc = "each"
    BY <1>1, <1>3 DEF NextFile, Become, Others, Job
<1>4. ASSUME NEW a \in Nat, Leave(p, a)
      PROVE  Others(p) /\ job'[p].pc = "idle"
    BY <1>1, <1>4 DEF Leave, NewJob, Become, Others
<1>5. ASSUME NEW n \in DOMAIN job[p].set, Choose(p, n)
      PROVE  Others(p) /\ job'[p].pc = "each"
    BY <1>1, <1>5 DEF Choose, Become, Others, Job
<1> QED
    BY <1>2, <1>3, <1>4, <1>5

\* The steps that touch no file, and the labels they lead to.
LEMMA QuietSteps ==
    ASSUME TypeOK, CloneOnly, NoUnlink, NEW p \in Instances,
           Step(p) \/ Crash(p),
           ~Clonefile(p), ~CopyMetadata(p), ~Recheck(p), ~Rename(p), ~Undo(p)
    PROVE  /\ UNCHANGED <<dirent, ino>> /\ Others(p)
           /\ job'[p].pc \notin {"relative", "unlink", "make", "recheck", "rename"}
<1>1. job \in [Instances -> Job] /\ job[p] \in Job /\ job[p].set \in Seq(FileMetadata)
    BY DEF TypeOK, Job
<1>2. CASE Start(p)
    BY <1>1, <1>2 DEF Start, NewJob, Become, Others
<1>3. CASE Meet(p)
    BY <1>1, <1>3 DEF Meet, At, Become, Others, Job
<1>4. CASE NoSet(p) \/ AlreadyCloned(p) \/ EndOfSet(p)
  <2>1. UNCHANGED <<dirent, ino>>
      BY <1>4 DEF NoSet, AlreadyCloned, EndOfSet, Leave
  <2>2. \E a \in Nat : Leave(p, a)
      BY <1>1, <1>4 DEF NoSet, AlreadyCloned, EndOfSet
  <2> QED
      BY <2>1, <2>2, Moves
<1>5. CASE ChooseByLinks(p) \/ ChooseFirstSeen(p) \/ ChooseByClones(p)
  <2>1. UNCHANGED <<dirent, ino>>
      BY <1>5 DEF ChooseByLinks, ChooseFirstSeen, ChooseByClones, Leave, Choose
  <2>2. Leave(p, 0) \/ \E n \in DOMAIN job[p].set : Choose(p, n)
      BY <1>5 DEF ChooseByLinks, ChooseFirstSeen, ChooseByClones, First, MostLinked, WithClone
  <2> QED
      BY <2>1, <2>2, Moves
<1>6. CASE Pass(p)
    BY <1>1, <1>6 DEF Pass, More, At, Become, Others, Job
<1>7. CASE Replace(p)
  <2>1. Mode(p) = "clone"
      BY <1>7 DEF CloneOnly, Replace, More, At, TypeOK, JobTypeOK, Mode
  <2>2. \E l \in {"save", "tmp"} : Goto(p, l)
      BY <1>7, <2>1 DEF Replace
  <2> QED
      BY <1>7, <2>2, Moves DEF Replace, Labels
<1>8. CASE SaveMtime(p) \/ TmpName(p)
  <2>1. CASE SaveMtime(p)
      BY <1>1, <2>1 DEF SaveMtime, Become, Others, Job
  <2>2. CASE TmpName(p)
    <3>1. PICK l \in {"clone", "restore"} : Become(p, [job[p] EXCEPT !.ok = FALSE, !.pc = l])
        BY <2>2 DEF TmpName
    <3> QED
        BY <1>1, <2>2, <3>1 DEF TmpName, Become, Others, Job
  <2> QED
      BY <1>8, <2>1, <2>2
<1>9. CASE SaveMtimeFails(p) \/ Verify(p) \/ Restore(p)
  <2>1. UNCHANGED <<dirent, ino>>
      BY <1>9 DEF SaveMtimeFails, Verify, Restore
  <2>2. Goto(p, "verify") \/ \E s, a \in Nat : NextFile(p, s, a)
      BY <1>9 DEF SaveMtimeFails, Verify, Restore
  <2> QED
      BY <2>1, <2>2, Moves DEF Labels
<1>10. CASE ClonefileFails(p) \/ Check(p) \/ CopyMetadataFails(p) \/ RenameFails(p) \/ UndoFails(p)
  <2>1. UNCHANGED <<dirent, ino>>
      BY <1>10 DEF ClonefileFails, Check, CopyMetadataFails, RenameFails, UndoFails
  <2>2. \E l \in {"undo", "copy", "restore"} : Goto(p, l)
      BY <1>10 DEF ClonefileFails, Check, CopyMetadataFails, RenameFails, UndoFails
  <2> QED
      BY <2>1, <2>2, Moves DEF Labels
<1>11. CASE Crash(p)
    BY <1>1, <1>11 DEF Crash, NewJob, Become, Others
<1>12. ~(Relative(p) \/ Unlink(p) \/ UnlinkFails(p) \/ Make(p) \/ MakeFails(p))
    BY DEF NoUnlink, At, Relative, Unlink, UnlinkFails, Make, MakeFails
<1> QED
    BY <1>2, <1>3, <1>4, <1>5, <1>6, <1>7, <1>8, <1>9, <1>10, <1>11, <1>12
    DEF Step, Evaluate, Deduplicate

\* No step of a clone run comes to the unlink of the other modes.
LEMMA NoUnlinkStep ==
    ASSUME NoUnlink, NEW p \in Instances, Others(p),
           job'[p].pc \notin {"relative", "unlink", "make"}
    PROVE  NoUnlink'
BY DEF NoUnlink, Others

\* What an instance renames it has looked at itself, or every inode is full.
LEMMA StagedStep ==
    ASSUME StagedAsSeen, AllFull', NEW p \in Instances,
           job'[p].pc = "rename" /\ dirent'[Tmp(p)'] \in Inodes => ino'[dirent'[Tmp(p)']].full
    PROVE  StagedFull'
<1>1. CASE "short" \notin Failing
    BY <1>1 DEF AllFull, StagedFull
<1>2. CASE \A q \in Instances : q = p
    BY <1>2 DEF StagedFull
<1> QED
    BY <1>1, <1>2 DEF StagedAsSeen

\* Recheck is the only way to the rename, and lets full files pass only.
LEMMA RecheckFull ==
    ASSUME TypeOK, NEW p \in Instances, Recheck(p)
    PROVE  /\ UNCHANGED <<dirent, ino>> /\ Others(p)
           /\ Dst(p)' = Dst(p) /\ Tmp(p)' = Tmp(p)
           /\ job'[p].pc \in {"rename", "undo"}
           /\ job'[p].pc = "rename" => dirent[Tmp(p)] # NONE /\ ino[dirent[Tmp(p)]].full
<1>1. job \in [Instances -> Job] /\ job[p] \in Job
    BY DEF TypeOK
<1>2. job'[p].set = job[p].set /\ job'[p].idx = job[p].idx
    BY <1>1 DEF Recheck, Goto, Become, Job
<1>3. Dst(p)' = Dst(p) /\ Tmp(p)' = Tmp(p)
    BY <1>2 DEF Dst, Tmp, Fm
<1>4. Goto(p, IF Acceptable(Tmp(p)) THEN "rename" ELSE "undo") /\ UNCHANGED <<dirent, ino>>
    BY DEF Recheck
<1> QED
    BY <1>3, <1>4, Moves DEF Labels, Acceptable

\* Every step keeps the content invariant.
LEMMA ContentStep ==
    ASSUME ContentInv, CloneOnly, StagedAsSeen, [Next]_vars
    PROVE  ContentInv'
<1>1. TypeOK /\ TypeOK' /\ NoSymlink /\ NoUnlink /\ FilesFull /\ AllFull /\ StagedFull
    BY TypesStep DEF ContentInv
<1>2. CASE UNCHANGED vars
    BY <1>1, <1>2 DEF ContentInv, NoSymlink, NoUnlink, FilesFull, AllFull, StagedFull, Tmp, Dst, Fm
<1> SUFFICES ASSUME NEW p \in Instances, Step(p) \/ Crash(p)
             PROVE  ContentInv'
    BY <1>2 DEF Next, Terminated
<1>3. CASE ~Clonefile(p) /\ ~CopyMetadata(p) /\ ~Recheck(p) /\ ~Rename(p) /\ ~Undo(p)
  <2>1. /\ UNCHANGED <<dirent, ino>> /\ Others(p)
        /\ job'[p].pc \notin {"relative", "unlink", "make", "recheck", "rename"}
      BY <1>1, <1>3, QuietSteps
  <2>2. NoUnlink' /\ NoSymlink' /\ FilesFull' /\ AllFull'
      BY <1>1, <2>1, NoUnlinkStep DEF NoSymlink, FilesFull, AllFull
  <2>3. StagedFull'
      BY <2>1, <2>2, StagedStep
  <2> QED
      BY <1>1, <2>2, <2>3 DEF ContentInv
<1>4. CASE Recheck(p)
  <2>1. NoSymlink' /\ FilesFull' /\ AllFull'
      BY <1>1, <1>4, RecheckFull DEF NoSymlink, FilesFull, AllFull
  <2>2. NoUnlink'
      BY <1>1, <1>4, RecheckFull, NoUnlinkStep
  <2>3. StagedFull'
      BY <1>1, <1>4, <2>1, RecheckFull, StagedStep
  <2> QED
      BY <1>1, <2>1, <2>2, <2>3 DEF ContentInv
<1> SUFFICES ASSUME Clonefile(p) \/ CopyMetadata(p) \/ Rename(p) \/ Undo(p)
             PROVE  ContentInv'
    BY <1>3, <1>4
<1>5. job[p].pc \notin {"idle", "scan", "each"}
    BY DEF At, Clonefile, CopyMetadata, Rename, Undo
<1>6. /\ Dst(p) \in Paths /\ Tmp(p) \in Paths /\ Tmp(p) # Dst(p)
      /\ \A f \in Files : <<f, 0>> \in Paths /\ <<f, 0>> # Tmp(p)
    BY <1>1, <1>5, Names, FileNames
<1>7. Others(p) /\ job'[p].pc \in {"check", "recheck", "restore"}
  <2>1. CASE Rename(p)
      BY <1>1, <2>1 DEF Rename, Become, Others, TypeOK, Job
  <2>2. CASE Clonefile(p) \/ CopyMetadata(p) \/ Undo(p)
    <3>1. \E l \in {"check", "recheck", "restore"} : Goto(p, l)
        BY <2>2 DEF Clonefile, CopyMetadata, Undo
    <3> QED
        BY <1>1, <3>1, Moves DEF Labels
  <2> QED
      BY <2>1, <2>2
<1>8. NoUnlink'
    BY <1>1, <1>7, NoUnlinkStep
<1>9. /\ dirent \in [Paths -> Inodes \cup Paths \cup {NONE}]
      /\ ino \in [Inodes -> [full : BOOLEAN, meta : Inodes, clone : Inodes]]
      /\ \A path \in Paths : path \notin Inodes \cup {NONE}
      /\ NONE \notin Paths
    BY <1>1, DedupAssumption DEF TypeOK
<1>10. NoSymlink' /\ FilesFull' /\ AllFull'
  <2>1. CASE Clonefile(p)
    <3> DEFINE i == CHOOSE n \in Inodes \ Used : TRUE
    <3>1. i \in Inodes /\ i \notin Used
        BY <2>1 DEF Clonefile
    <3>2. dirent' = [dirent EXCEPT ![Tmp(p)] = i]
        BY <2>1 DEF Clonefile
    <3>3. PICK full \in IF MayFail("short") THEN BOOLEAN ELSE {TRUE} : \E id :
            ino' = [ino EXCEPT ![i] = [full |-> full, meta |-> ino[InodeAt(Src(p))].meta,
                                       clone |-> id]]
        BY <2>1 DEF Clonefile
    <3>4. \A f \in Files : dirent[<<f, 0>>] # i
        BY <1>6, <3>1 DEF Used
    <3> HIDE DEF i
    <3>5. NoSymlink'
        BY <1>1, <1>6, <1>9, <3>1, <3>2 DEF NoSymlink
    <3>6. FilesFull'
        BY <1>1, <1>6, <1>9, <3>2, <3>3, <3>4 DEF FilesFull
    <3>7. AllFull'
        BY <1>1, <1>9, <3>1, <3>3 DEF AllFull, MayFail
    <3> QED
        BY <3>5, <3>6, <3>7
  <2>2. CASE CopyMetadata(p)
    <3>1. dirent' = dirent
        BY <2>2 DEF CopyMetadata
    <3>2. \A n \in Inodes : ino'[n].full = ino[n].full
        BY <1>9, <2>2 DEF CopyMetadata
    <3> QED
        BY <1>1, <3>1, <3>2 DEF NoSymlink, FilesFull, AllFull
  <2>3. CASE Rename(p)
    <3>1. /\ dirent' = [dirent EXCEPT ![Dst(p)] = dirent[Tmp(p)], ![Tmp(p)] = NONE]
          /\ ino' = ino /\ job[p].pc = "rename" /\ dirent[Tmp(p)] # NONE
        BY <2>3 DEF Rename, At
    <3>2. dirent[Tmp(p)] \in Inodes /\ ino[dirent[Tmp(p)]].full
        BY <1>1, <1>6, <1>9, <3>1 DEF NoSymlink, StagedFull
    <3> QED
        BY <1>1, <1>6, <1>9, <3>1, <3>2 DEF NoSymlink, FilesFull, AllFull
  <2>4. CASE Undo(p)
      BY <1>1, <1>6, <1>9, <2>4 DEF Undo, NoSymlink, FilesFull, AllFull
  <2> QED
      BY <2>1, <2>2, <2>3, <2>4
<1>11. StagedFull'
    BY <1>7, <1>10, StagedStep
<1> QED
    BY <1>1, <1>8, <1>10, <1>11 DEF ContentInv

\* With clones only, every file can be read and has its content at every
\* moment, whichever calls fail, wherever an instance dies and, if clonefile
\* stages no short file, however many instances run on the directory.
THEOREM ContentAlwaysIntact ==
    ASSUME CloneOnly, StagedAsSeen
    PROVE  Spec => []ContentIntact
<1>1. Init => ContentInv
    BY ContentInit
<1>2. ContentInv /\ [Next]_vars => ContentInv'
    BY ContentStep
<1>3. ContentInv => ContentIntact
    BY ContentImplies
<1> QED
    BY <1>1, <1>2, <1>3, PTL DEF Spec

-----------------------------------------------------------------------------
(* The metadata, with clones only and one instance at a time *)

OneInstance == \A p, q \in Instances : p = q

\* What a staging name holds is nobody else's, or copying metadata to it would
\* change another file; once copied the metadata are those of the destination.
StagedAlone ==
    \A s, q \in Paths :
        s[2] > 0 /\ dirent[s] \in Inodes /\ dirent[q] = dirent[s] => q = s
CopiedMeta ==
    \A p \in Instances :
        job[p].pc \in {"recheck", "rename"} =>
            /\ dirent[Tmp(p)] \in Inodes /\ dirent[Dst(p)] \in Inodes
            /\ ino[dirent[Tmp(p)]].meta = ino[dirent[Dst(p)]].meta

MetaInv == TypeOK /\ NoSymlink /\ NoUnlink /\ StagedAlone /\ OwnMetadata /\ CopiedMeta

\* The metadata invariant holds at the start.
LEMMA MetaInit == Init => MetaInv
<1> SUFFICES ASSUME Init PROVE MetaInv
    OBVIOUS
<1>1. NoSymlink /\ NoUnlink
    BY ContentInit DEF ContentInv
<1>2. StagedAlone
    BY DedupAssumption DEF Init, StagedAlone, Paths
<1>3. OwnMetadata
    BY FileNames, DedupAssumption DEF Init, OwnMetadata
<1>4. CopiedMeta
    BY DEF Init, CopiedMeta, NewJob
<1> QED
    BY <1>1, <1>2, <1>3, <1>4, TypesInit DEF MetaInv

\* Every step keeps the metadata invariant.
LEMMA MetaStep ==
    ASSUME MetaInv, CloneOnly, OneInstance, [Next]_vars
    PROVE  MetaInv'
<1>1. TypeOK /\ TypeOK' /\ NoSymlink /\ NoUnlink /\ StagedAlone /\ OwnMetadata /\ CopiedMeta
    BY TypesStep DEF MetaInv
<1>2. CASE UNCHANGED vars
    BY <1>1, <1>2 DEF MetaInv, NoSymlink, NoUnlink, StagedAlone, OwnMetadata,
                        CopiedMeta, Tmp, Dst, Fm
<1> SUFFICES ASSUME NEW p \in Instances, Step(p) \/ Crash(p)
             PROVE  MetaInv'
    BY <1>2 DEF Next, Terminated
<1>3. \A q \in Instances : q = p
    BY DEF OneInstance
<1>4. CASE ~Clonefile(p) /\ ~CopyMetadata(p) /\ ~Recheck(p) /\ ~Rename(p) /\ ~Undo(p)
  <2>1. /\ UNCHANGED <<dirent, ino>> /\ Others(p)
        /\ job'[p].pc \notin {"relative", "unlink", "make", "recheck", "rename"}
      BY <1>1, <1>4, QuietSteps
  <2>2. NoUnlink' /\ NoSymlink' /\ StagedAlone' /\ OwnMetadata'
      BY <1>1, <2>1, NoUnlinkStep DEF NoSymlink, StagedAlone, OwnMetadata
  <2>3. CopiedMeta'
      BY <1>3, <2>1 DEF CopiedMeta
  <2> QED
      BY <1>1, <2>2, <2>3 DEF MetaInv
<1>5. CASE Recheck(p)
  <2>1. NoSymlink' /\ StagedAlone' /\ OwnMetadata'
      BY <1>1, <1>5, RecheckFull DEF NoSymlink, StagedAlone, OwnMetadata
  <2>2. NoUnlink'
      BY <1>1, <1>5, RecheckFull, NoUnlinkStep
  <2>3. job[p].pc = "recheck"
      BY <1>5 DEF Recheck, At
  <2>4. CopiedMeta'
      BY <1>1, <1>3, <1>5, <2>3, RecheckFull DEF CopiedMeta
  <2> QED
      BY <1>1, <2>1, <2>2, <2>4 DEF MetaInv
<1> SUFFICES ASSUME Clonefile(p) \/ CopyMetadata(p) \/ Rename(p) \/ Undo(p)
             PROVE  MetaInv'
    BY <1>4, <1>5
<1>6. job[p].pc \notin {"idle", "scan", "each"} /\ job \in [Instances -> Job] /\ job[p] \in Job
    BY <1>1 DEF At, Clonefile, CopyMetadata, Rename, Undo, TypeOK
<1>7. /\ Dst(p) \in Paths /\ Tmp(p) \in Paths /\ Tmp(p) # Dst(p) /\ Tmp(p)[2] > 0
      /\ \A f \in Files : <<f, 0>> \in Paths /\ <<f, 0>> # Tmp(p)
    BY <1>1, <1>6, Names, FileNames
<1>8. /\ dirent \in [Paths -> Inodes \cup Paths \cup {NONE}]
      /\ ino \in [Inodes -> [full : BOOLEAN, meta : Inodes, clone : Inodes]]
      /\ \A path \in Paths : path \notin Inodes \cup {NONE}
      /\ NONE \notin Paths /\ NONE \notin Inodes
    BY <1>1, DedupAssumption DEF TypeOK
<1>9. CASE Clonefile(p)
  <2> DEFINE i == CHOOSE n \in Inodes \ Used : TRUE
  <2>1. i \in Inodes /\ i \notin Used
      BY <1>9 DEF Clonefile
  <2>2. dirent' = [dirent EXCEPT ![Tmp(p)] = i] /\ Goto(p, "check")
      BY <1>9 DEF Clonefile
  <2>3. PICK full : \E id :
          ino' = [ino EXCEPT ![i] = [full |-> full, meta |-> ino[InodeAt(Src(p))].meta,
                                     clone |-> id]]
      BY <1>9 DEF Clonefile
  <2>4. \A path \in Paths : dirent[path] # i
      BY <2>1 DEF Used
  <2> HIDE DEF i
  <2>5. NoSymlink' /\ StagedAlone'
      BY <1>1, <1>7, <1>8, <2>1, <2>2, <2>4 DEF NoSymlink, StagedAlone
  <2>6. OwnMetadata'
      BY <1>1, <1>7, <1>8, <2>2, <2>3, <2>4 DEF OwnMetadata
  <2>7. Others(p) /\ job'[p].pc = "check"
      BY <1>1, <2>2, Moves DEF Labels
  <2> QED
      BY <1>1, <1>3, <2>5, <2>6, <2>7, NoUnlinkStep DEF MetaInv, CopiedMeta
<1>10. CASE CopyMetadata(p)
  <2>1. dirent[Tmp(p)] # NONE /\ InodeAt(Dst(p)) # NONE /\ dirent' = dirent
      BY <1>10 DEF CopyMetadata
  <2>2. dirent[Tmp(p)] \in Inodes /\ dirent[Dst(p)] \in Inodes /\ InodeAt(Dst(p)) = dirent[Dst(p)]
      BY <1>1, <1>7, <1>8, <2>1, Direct DEF NoSymlink
  <2>3. ino' = [ino EXCEPT ![dirent[Tmp(p)]].meta = ino[dirent[Dst(p)]].meta]
      BY <1>10, <2>2 DEF CopyMetadata
  <2>4. \A path \in Paths \ {Tmp(p)} : dirent[path] # dirent[Tmp(p)]
      BY <1>1, <1>7, <2>2 DEF StagedAlone
  <2>5. ino'[dirent[Tmp(p)]].meta = ino[dirent[Dst(p)]].meta
      BY <1>8, <2>2, <2>3
  <2>6. \A n \in Inodes \ {dirent[Tmp(p)]} : ino'[n] = ino[n]
      BY <1>8, <2>3
  <2>7. NoSymlink' /\ StagedAlone'
      BY <1>1, <2>1 DEF NoSymlink, StagedAlone
  <2>8. OwnMetadata'
      BY <1>1, <1>7, <2>1, <2>4, <2>6 DEF OwnMetadata
  <2>9. Others(p) /\ job'[p].pc = "recheck"
      BY <1>1, <1>10, Moves DEF CopyMetadata, Labels
  <2>10. job'[p].set = job[p].set /\ job'[p].idx = job[p].idx
      BY <1>6, <1>10 DEF CopyMetadata, Goto, Become, Job
  <2>11. Dst(p)' = Dst(p) /\ Tmp(p)' = Tmp(p)
      BY <2>10 DEF Dst, Tmp, Fm
  <2>12. CopiedMeta'
      BY <1>3, <1>7, <2>1, <2>2, <2>4, <2>5, <2>6, <2>11 DEF CopiedMeta
  <2> QED
      BY <1>1, <2>7, <2>8, <2>9, <2>12, NoUnlinkStep DEF MetaInv
<1>11. CASE Rename(p)
  <2>1. /\ dirent' = [dirent EXCEPT ![Dst(p)] = dirent[Tmp(p)], ![Tmp(p)] = NONE]
        /\ ino' = ino /\ job[p].pc = "rename"
      BY <1>11 DEF Rename, At
  <2>2. /\ dirent[Tmp(p)] \in Inodes /\ dirent[Dst(p)] \in Inodes
        /\ ino[dirent[Tmp(p)]].meta = ino[dirent[Dst(p)]].meta
      BY <1>1, <2>1 DEF CopiedMeta
  <2>3. NoSymlink' /\ StagedAlone'
      BY <1>1, <1>7, <1>8, <2>1, <2>2 DEF NoSymlink, StagedAlone
  <2>4. OwnMetadata'
      BY <1>1, <1>7, <1>8, <2>1, <2>2 DEF OwnMetadata
  <2>5. Others(p) /\ job'[p].pc = "restore"
      BY <1>6, <1>11 DEF Rename, Become, Others, Job
  <2> QED
      BY <1>1, <1>3, <2>3, <2>4, <2>5, NoUnlinkStep DEF MetaInv, CopiedMeta
<1>12. CASE Undo(p)
  <2>1. dirent' = [dirent EXCEPT ![Tmp(p)] = NONE] /\ ino' = ino /\ Goto(p, "restore")
      BY <1>12 DEF Undo
  <2>2. NoSymlink' /\ StagedAlone' /\ OwnMetadata'
      BY <1>1, <1>7, <1>8, <2>1 DEF NoSymlink, StagedAlone, OwnMetadata
  <2>3. Others(p) /\ job'[p].pc = "restore"
      BY <1>1, <2>1, Moves DEF Labels
  <2> QED
      BY <1>1, <1>3, <2>2, <2>3, NoUnlinkStep DEF MetaInv, CopiedMeta
<1> QED
    BY <1>9, <1>10, <1>11, <1>12

\* With clones only and one instance at a time, a file at its own name has its
\* own mode, owner, flags and ACL at every moment: the clone gets them before
\* it is renamed, and no other file's are written on the way.
THEOREM MetadataAlwaysOwn ==
    ASSUME CloneOnly, OneInstance
    PROVE  Spec => []OwnMetadata
<1>1. Init => MetaInv
    BY MetaInit
<1>2. MetaInv /\ [Next]_vars => MetaInv'
    BY MetaStep
<1>3. MetaInv => OwnMetadata
    BY DEF MetaInv
<1> QED
    BY <1>1, <1>2, <1>3, PTL DEF Spec

-----------------------------------------------------------------------------
(* The dry run *)

Early == {"idle", "scan", "each"}

\* No dry run gets past the choice of a file to replace.
DryInv == TypeOK /\ \A p \in Instances : job[p].pc \notin Early => ~DryRun(p)

\* Until then no file is touched, and only Replace goes on from there.
LEMMA EarlySteps ==
    ASSUME TypeOK, NEW p \in Instances, Step(p) \/ Crash(p), job[p].pc \in Early
    PROVE  /\ UNCHANGED fs /\ Others(p)
           /\ job'[p].pc \in Early \/ (~DryRun(p) /\ job'[p].opt = job[p].opt)
<1>1. job \in [Instances -> Job] /\ job[p] \in Job /\ job[p].set \in Seq(FileMetadata)
    BY DEF TypeOK, Job
<1>2. CASE Start(p)
    BY <1>1, <1>2 DEF Start, NewJob, Become, Others, Early
<1>3. CASE Meet(p)
    BY <1>1, <1>3 DEF Meet, At, Become, Others, Job, Early
<1>4. CASE NoSet(p) \/ AlreadyCloned(p) \/ EndOfSet(p)
  <2>1. UNCHANGED fs
      BY <1>4 DEF NoSet, AlreadyCloned, EndOfSet, Leave
  <2>2. \E a \in Nat : Leave(p, a)
      BY <1>1, <1>4 DEF NoSet, AlreadyCloned, EndOfSet
  <2> QED
      BY <2>1, <2>2, Moves DEF Early
<1>5. CASE ChooseByLinks(p) \/ ChooseFirstSeen(p) \/ ChooseByClones(p)
  <2>1. UNCHANGED fs
      BY <1>5 DEF ChooseByLinks, ChooseFirstSeen, ChooseByClones, Leave, Choose
  <2>2. Leave(p, 0) \/ \E n \in DOMAIN job[p].set : Choose(p, n)
      BY <1>5 DEF ChooseByLinks, ChooseFirstSeen, ChooseByClones, First, MostLinked, WithClone
  <2> QED
      BY <2>1, <2>2, Moves DEF Early
<1>6. CASE Pass(p)
    BY <1>1, <1>6 DEF Pass, More, At, Become, Others, Job, Early
<1>7. CASE Replace(p)
  <2>1. ~DryRun(p) /\ \E l : Goto(p, l)
      BY <1>7 DEF Replace, Verdict
  <2> QED
      BY <1>1, <1>7, <2>1 DEF Replace, Goto, Become, Others, Job
<1>8. CASE Crash(p)
    BY <1>1, <1>8 DEF Crash, NewJob, Become, Others, Early
<1> QED
    BY <1>2, <1>3, <1>4, <1>5, <1>6, <1>7, <1>8
    DEF Step, Evaluate, Deduplicate, Early, At, SaveMtime, SaveMtimeFails, TmpName, Clonefile,
        ClonefileFails, Check, CopyMetadata, CopyMetadataFails, Recheck, Rename, RenameFails,
        Undo, UndoFails, Restore, Verify, Relative, Unlink, UnlinkFails, Make, MakeFails

\* From there on an instance keeps its options until it is back.
LEMMA LateSteps ==
    ASSUME TypeOK, NEW p \in Instances, Step(p) \/ Crash(p), job[p].pc \notin Early
    PROVE  Others(p) /\ (job'[p].pc \in Early \/ job'[p].opt = job[p].opt)
<1>1. job \in [Instances -> Job] /\ job[p] \in Job
    BY DEF TypeOK
<1>2. ASSUME NEW s \in Nat, NEW a \in Nat, NextFile(p, s, a)
      PROVE  Others(p) /\ job'[p].pc \in Early
    BY <1>2, Moves DEF Early
<1>3. ASSUME NEW l, Goto(p, l)
      PROVE  Others(p) /\ job'[p].opt = job[p].opt
    BY <1>1, <1>3 DEF Goto, Become, Others, Job
<1>4. CASE Crash(p)
    BY <1>1, <1>4 DEF Crash, NewJob, Become, Others, Early
<1>5. CASE SaveMtime(p) \/ TmpName(p) \/ Rename(p) \/ Relative(p)
  <2>1. CASE SaveMtime(p)
      BY <1>1, <2>1 DEF SaveMtime, Become, Others, Job
  <2>2. CASE TmpName(p)
      BY <1>1, <2>2 DEF TmpName, Become, Others, Job
  <2>3. CASE Rename(p)
      BY <1>1, <2>3 DEF Rename, Become, Others, Job
  <2>4. CASE Relative(p)
      BY <1>1, <2>4 DEF Relative, Become, Others, Job
  <2> QED
      BY <1>5, <2>1, <2>2, <2>3, <2>4
<1>6. CASE \/ SaveMtimeFails(p) \/ Restore(p) \/ Verify(p)
           \/ UnlinkFails(p) \/ Make(p) \/ MakeFails(p)
  <2>1. Goto(p, "verify") \/ \E s, a \in Nat : NextFile(p, s, a)
      BY <1>6 DEF SaveMtimeFails, Restore, Verify, UnlinkFails, Make, MakeFails
  <2> QED
      BY <1>2, <1>3, <2>1
<1>7. CASE \/ Clonefile(p) \/ ClonefileFails(p) \/ Check(p) \/ CopyMetadata(p)
           \/ CopyMetadataFails(p) \/ Recheck(p) \/ RenameFails(p) \/ Undo(p) \/ UndoFails(p)
           \/ Unlink(p)
  <2>1. \E l : Goto(p, l)
      BY <1>7 DEF Clonefile, ClonefileFails, Check, CopyMetadata, CopyMetadataFails, Recheck,
                  RenameFails, Undo, UndoFails, Unlink
  <2> QED
      BY <1>3, <2>1
<1>8. ~(Evaluate(p) \/ Pass(p) \/ Replace(p) \/ EndOfSet(p))
    BY DEF Evaluate, Start, Meet, NoSet, ChooseByLinks, AlreadyCloned, ChooseFirstSeen,
           ChooseByClones, Scanned, Pass, Replace, EndOfSet, More, At, Early
<1> QED
    BY <1>4, <1>5, <1>6, <1>7, <1>8 DEF Step, Deduplicate

\* The dry-run invariant holds at the start.
LEMMA DryInit == Init => DryInv
BY TypesInit DEF Init, DryInv, NewJob, Early

\* Every step keeps the dry-run invariant.
LEMMA DryStep == DryInv /\ [Next]_vars => DryInv'
<1> SUFFICES ASSUME DryInv, [Next]_vars
             PROVE  DryInv'
    OBVIOUS
<1>1. TypeOK /\ TypeOK'
    BY TypesStep DEF DryInv
<1>2. CASE UNCHANGED vars
    BY <1>1, <1>2 DEF DryInv, DryRun
<1>3. ASSUME NEW p \in Instances, Step(p) \/ Crash(p)
      PROVE  DryInv'
  <2>1. CASE job[p].pc \in Early
      BY <1>1, <1>3, <2>1, EarlySteps DEF DryInv, DryRun, Others
  <2>2. CASE job[p].pc \notin Early
      BY <1>1, <1>3, <2>2, LateSteps DEF DryInv, DryRun, Others
  <2> QED
      BY <2>1, <2>2
<1> QED
    BY <1>2, <1>3 DEF Next, Terminated

\* While every instance that runs was started with -n, no step changes a path,
\* an inode or the mtime of the directory, whatever ran before.
THEOREM DryRunChangesNothing == Spec => DryRunInert
<1> DEFINE Inert == (\A p \in Instances : At(p, "idle") \/ DryRun(p)) => UNCHANGED fs
<1>1. DryInv /\ [Next]_vars => [Inert]_vars
  <2> SUFFICES ASSUME DryInv, Next, \A p \in Instances : At(p, "idle") \/ DryRun(p)
               PROVE  UNCHANGED fs
      OBVIOUS
  <2>1. CASE Terminated
      BY <2>1 DEF Terminated
  <2>2. ASSUME NEW p \in Instances, Step(p) \/ Crash(p)
        PROVE  UNCHANGED fs
    <3>1. job[p].pc \in Early
        BY DEF DryInv, At, Early
    <3> QED
        BY <2>2, <3>1, EarlySteps DEF DryInv
  <2> QED
      BY <2>1, <2>2 DEF Next
<1> HIDE DEF Inert
<1>2. Spec => [][Inert]_vars
    BY <1>1, DryInit, DryStep, PTL DEF Spec
<1> QED
    BY <1>2 DEF DryRunInert, Inert
-----------------------------------------------------------------------------
(* What one step may change, whichever it is *)

\* The labels under which the staging name of the file at hand is in use.
Staging1 == {"clone", "check", "copy", "recheck", "rename", "undo"}

\* Under replace_with_clone and the two others the set, the origin and the
\* options of an instance stay, and the file at hand until it is done with.
LEMMA LateFrame ==
    ASSUME TypeOK, NEW p \in Instances, Step(p) \/ Crash(p), job[p].pc \notin Early
    PROVE  /\ Others(p) /\ runs' = runs
           /\ \/ MayCrash /\ job'[p] = NewJob /\ UNCHANGED fs
              \/ /\ job'[p].pc \notin {"idle", "scan"}
                 /\ job'[p].set = job[p].set /\ job'[p].origin = job[p].origin
                 /\ job'[p].opt = job[p].opt /\ job'[p].clone = job[p].clone
                 /\ job'[p].pc = "each" \/ job'[p].idx = job[p].idx
<1>1. job \in [Instances -> Job] /\ job[p] \in Job
    BY DEF TypeOK
<1> DEFINE Same == /\ Others(p)
                   /\ job'[p].pc \notin {"idle", "scan"}
                   /\ job'[p].set = job[p].set /\ job'[p].origin = job[p].origin
                   /\ job'[p].opt = job[p].opt /\ job'[p].clone = job[p].clone
                   /\ job'[p].pc = "each" \/ job'[p].idx = job[p].idx
<1>2. ASSUME NEW s \in Nat, NEW a \in Nat, NextFile(p, s, a)
      PROVE  Same
    BY <1>1, <1>2 DEF NextFile, Become, Others, Job
<1>3. ASSUME NEW l \in Labels \ {"idle", "scan"}, Goto(p, l)
      PROVE  Same
    BY <1>1, <1>3 DEF Goto, Become, Others, Job
<1>4. CASE Crash(p)
    BY <1>1, <1>4 DEF Crash, Become, Others
<1>5. CASE SaveMtime(p) \/ TmpName(p) \/ Rename(p) \/ Relative(p)
  <2>1. CASE SaveMtime(p)
      BY <1>1, <2>1 DEF SaveMtime, Become, Others, Job
  <2>2. CASE TmpName(p)
    <3>1. PICK l \in {"clone", "restore"} : Become(p, [job[p] EXCEPT !.ok = FALSE, !.pc = l])
        BY <2>2 DEF TmpName
    <3> QED
        BY <1>1, <2>2, <3>1 DEF TmpName, Become, Others, Job
  <2>3. CASE Rename(p)
      BY <1>1, <2>3 DEF Rename, Become, Others, Job
  <2>4. CASE Relative(p)
      BY <1>1, <2>4 DEF Relative, Become, Others, Job
  <2> QED
      BY <1>5, <2>1, <2>2, <2>3, <2>4
<1> HIDE DEF Same
<1>6. CASE \/ SaveMtimeFails(p) \/ Restore(p) \/ Verify(p)
           \/ UnlinkFails(p) \/ Make(p) \/ MakeFails(p)
  <2>1. Goto(p, "verify") \/ \E s, a \in Nat : NextFile(p, s, a)
      BY <1>6 DEF SaveMtimeFails, Restore, Verify, UnlinkFails, Make, MakeFails
  <2>2. runs' = runs
      BY <1>6 DEF SaveMtimeFails, Restore, Verify, UnlinkFails, Make, MakeFails
  <2> QED
      BY <1>2, <1>3, <2>1, <2>2 DEF Same, Labels
<1>7. CASE \/ Clonefile(p) \/ ClonefileFails(p) \/ Check(p) \/ CopyMetadata(p)
           \/ CopyMetadataFails(p) \/ Recheck(p) \/ RenameFails(p) \/ Undo(p) \/ UndoFails(p)
           \/ Unlink(p)
  <2>1. \E l \in {"check", "undo", "copy", "recheck", "rename", "restore", "make"} : Goto(p, l)
      BY <1>7 DEF Clonefile, ClonefileFails, Check, CopyMetadata, CopyMetadataFails, Recheck,
                  RenameFails, Undo, UndoFails, Unlink
  <2>2. runs' = runs
      BY <1>7 DEF Clonefile, ClonefileFails, Check, CopyMetadata, CopyMetadataFails, Recheck,
                  RenameFails, Undo, UndoFails, Unlink
  <2> QED
      BY <1>3, <2>1, <2>2 DEF Same, Labels
<1>8. ~(Evaluate(p) \/ Pass(p) \/ Replace(p) \/ EndOfSet(p))
    BY DEF Evaluate, Start, Meet, NoSet, ChooseByLinks, AlreadyCloned, ChooseFirstSeen,
           ChooseByClones, Scanned, Pass, Replace, EndOfSet, More, At, Early
<1> QED
    BY <1>4, <1>5, <1>6, <1>7, <1>8 DEF Step, Deduplicate

\* The steps that change paths or inodes.
LEMMA Writers ==
    ASSUME TypeOK, NEW p \in Instances, Step(p) \/ Crash(p),
           ~Clonefile(p), ~CopyMetadata(p), ~Rename(p), ~Undo(p), ~Unlink(p), ~Make(p)
    PROVE  UNCHANGED <<dirent, ino>> /\ (Restore(p) \/ UNCHANGED touched)
<1>1. CASE job[p].pc \in Early
    BY <1>1, EarlySteps
<1>2. CASE job[p].pc \notin Early
  <2>1. ~(Evaluate(p) \/ Pass(p) \/ Replace(p) \/ EndOfSet(p))
      BY <1>2 DEF Evaluate, Start, Meet, NoSet, ChooseByLinks, AlreadyCloned, ChooseFirstSeen,
             ChooseByClones, Scanned, Pass, Replace, EndOfSet, More, At, Early
  <2> QED
      BY <2>1 DEF Step, Deduplicate, Crash, SaveMtime, SaveMtimeFails, TmpName, ClonefileFails,
           Check, CopyMetadataFails, Recheck, RenameFails, UndoFails, Restore, Verify, Relative,
           UnlinkFails, MakeFails
<1> QED
    BY <1>1, <1>2

\* Which step leads to a label inside the replacement of a file.
LEMMA Flow ==
    ASSUME TypeOK, NEW p \in Instances, Step(p) \/ Crash(p), job[p].pc \notin Early
    PROVE  /\ job'[p].pc \notin {"save", "relative"}
           /\ job'[p].pc = "tmp" => SaveMtime(p)
           /\ job'[p].pc = "clone" => TmpName(p) /\ dirent[Tmp(p)] = NONE
           /\ job'[p].pc = "check" => Clonefile(p)
           /\ job'[p].pc = "copy" => Check(p)
           /\ job'[p].pc = "recheck" => CopyMetadata(p)
           /\ job'[p].pc = "rename" => Recheck(p) /\ Acceptable(Tmp(p))
           /\ job'[p].pc = "undo" =>
                /\ job[p].pc \in Staging1 \ {"undo"}
                /\ UNCHANGED fs
           /\ job'[p].pc = "restore" => TmpName(p) \/ Rename(p) \/ Undo(p) \/ UndoFails(p)
           /\ job'[p].pc = "verify" => Restore(p)
           /\ job'[p].pc = "unlink" => Relative(p)
           /\ job'[p].pc = "make" => Unlink(p)
<1>1. job \in [Instances -> Job] /\ job[p] \in Job
    BY DEF TypeOK
<1>2. ASSUME NEW s \in Nat, NEW a \in Nat, NextFile(p, s, a)
      PROVE  job'[p].pc = "each"
    BY <1>2, Moves
<1>3. ASSUME NEW l \in Labels, Goto(p, l)
      PROVE  job'[p].pc = l
    BY <1>3, Moves
<1>4. CASE Crash(p)
    BY <1>1, <1>4 DEF Crash, Become, NewJob
<1>5. CASE SaveMtime(p)
    BY <1>1, <1>5 DEF SaveMtime, Become, Job
<1>6. CASE TmpName(p)
  <2>1. CASE /\ dirent[Tmp(p)] = NONE
             /\ Become(p, [job[p] EXCEPT !.ok = FALSE, !.pc = "clone"])
    <3>1. job'[p].pc = "clone"
        BY <1>1, <2>1 DEF Become, Job
    <3> QED
        BY <1>6, <2>1, <3>1
  <2>2. CASE Become(p, [job[p] EXCEPT !.ok = FALSE, !.pc = "restore"])
    <3>1. job'[p].pc = "restore"
        BY <1>1, <2>2 DEF Become, Job
    <3> QED
        BY <1>6, <3>1
  <2> QED
      BY <1>6, <2>1, <2>2 DEF TmpName
<1>7. CASE Rename(p)
    BY <1>1, <1>7 DEF Rename, Become, Job
<1>8. CASE Relative(p)
  <2>1. PICK t : Become(p, [job[p] EXCEPT !.pc = "unlink", !.target = t])
      BY <1>8 DEF Relative
  <2> QED
      BY <1>1, <1>8, <2>1 DEF Become, Job
<1>9. CASE SaveMtimeFails(p) \/ Verify(p) \/ UnlinkFails(p) \/ Make(p) \/ MakeFails(p)
    BY <1>2, <1>9 DEF SaveMtimeFails, Verify, UnlinkFails, Make, MakeFails
<1>10. CASE Restore(p)
    BY <1>2, <1>3, <1>10 DEF Restore, Labels
<1>11. CASE Clonefile(p) \/ CopyMetadata(p) \/ Undo(p) \/ UndoFails(p) \/ Unlink(p)
    BY <1>3, <1>11 DEF Clonefile, CopyMetadata, Undo, UndoFails, Unlink, Labels
<1>12. CASE ClonefileFails(p) \/ CopyMetadataFails(p) \/ RenameFails(p)
    BY <1>3, <1>12 DEF ClonefileFails, CopyMetadataFails, RenameFails, Labels, At, Staging1
<1>13. CASE Check(p)
    BY <1>3, <1>13 DEF Check, Labels, At, Staging1
<1>14. CASE Recheck(p)
    BY <1>3, <1>14 DEF Recheck, Labels, At, Staging1
<1>15. ~(Evaluate(p) \/ Pass(p) \/ Replace(p) \/ EndOfSet(p))
    BY DEF Evaluate, Start, Meet, NoSet, ChooseByLinks, AlreadyCloned, ChooseFirstSeen,
           ChooseByClones, Scanned, Pass, Replace, EndOfSet, More, At, Early
<1> QED
    BY <1>4, <1>5, <1>6, <1>7, <1>8, <1>9, <1>10, <1>11, <1>12, <1>13, <1>14, <1>15
    DEF Step, Deduplicate

\* In the loop over the set a file is passed, or replaced if nothing speaks
\* against it, or the run is over.
LEMMA EachFrame ==
    ASSUME TypeOK, NEW p \in Instances, Step(p) \/ Crash(p), job[p].pc = "each"
    PROVE  /\ Others(p) /\ runs' = runs /\ UNCHANGED fs
           /\ \/ Crash(p) /\ job'[p] = NewJob
              \/ /\ job'[p].pc = "idle" /\ job'[p].set = <<>> /\ job'[p].opt = job[p].opt
                 /\ EndOfSet(p)
              \/ /\ job'[p].pc = "each" /\ Pass(p)
                 /\ job'[p].set = job[p].set /\ job'[p].origin = job[p].origin
                 /\ job'[p].opt = job[p].opt /\ job'[p].clone = job[p].clone
              \/ /\ job'[p].pc \in {"save", "tmp", "unlink", "relative"}
                 /\ Verdict(p) = "replace" /\ Replace(p)
                 /\ job'[p] = [job[p] EXCEPT !.pc = job'[p].pc]
                 /\ job'[p].set = job[p].set /\ job'[p].origin = job[p].origin
                 /\ job'[p].opt = job[p].opt /\ job'[p].clone = job[p].clone
                 /\ job'[p].idx = job[p].idx
                 /\ job'[p].pc \in {"save", "tmp"} => Mode(p) = "clone"
                 /\ job'[p].pc = "tmp" => ~PreserveMtime(p)
                 /\ job'[p].pc = "unlink" => Mode(p) = "link"
                 /\ job'[p].pc = "relative" => Mode(p) = "symlink"
<1>1. job \in [Instances -> Job] /\ job[p] \in Job
    BY DEF TypeOK
<1>2. CASE Crash(p)
    BY <1>1, <1>2 DEF Crash, Become, Others
<1>3. CASE EndOfSet(p)
    BY <1>1, <1>3 DEF EndOfSet, Leave, NewJob, Become, Others
<1>4. CASE Pass(p)
    BY <1>1, <1>4 DEF Pass, Become, Others, Job
<1>5. CASE Replace(p)
  <2>1. PICK l \in {"save", "tmp", "unlink", "relative"} :
          /\ Goto(p, l)
          /\ l \in {"save", "tmp"} => Mode(p) = "clone"
          /\ l = "tmp" => ~PreserveMtime(p)
          /\ l = "unlink" => Mode(p) = "link"
          /\ l = "relative" => Mode(p) = "symlink"
      BY <1>5, GivenMode DEF Replace
  <2>2. job'[p] = [job[p] EXCEPT !.pc = l] /\ Others(p)
      BY <1>1, <2>1 DEF Goto, Become, Others
  <2>3. Verdict(p) = "replace" /\ UNCHANGED <<fs, runs>>
      BY <1>5 DEF Replace
  <2> HIDE DEF Verdict
  <2> QED
      BY <1>1, <1>5, <2>1, <2>2, <2>3 DEF Job
<1>6. Crash(p) \/ EndOfSet(p) \/ Pass(p) \/ Replace(p)
    BY DEF Step, Evaluate, Deduplicate, At, Start, Meet, NoSet, ChooseByLinks, AlreadyCloned,
        ChooseFirstSeen, ChooseByClones, Scanned, SaveMtime, SaveMtimeFails, TmpName, Clonefile,
        ClonefileFails, Check, CopyMetadata, CopyMetadataFails, Recheck, Rename, RenameFails,
        Undo, UndoFails, Restore, Verify, Relative, Unlink, UnlinkFails, Make, MakeFails
<1> QED
    BY <1>2, <1>3, <1>4, <1>5, <1>6

\* While the set is made a file is met, an origin chosen, or the run is over.
LEMMA ScanFrame ==
    ASSUME TypeOK, NEW p \in Instances, Step(p) \/ Crash(p), job[p].pc = "scan"
    PROVE  /\ Others(p) /\ runs' = runs /\ UNCHANGED fs
           /\ \/ Crash(p) /\ job'[p] = NewJob
              \/ /\ job'[p].pc = "idle" /\ job'[p].set = <<>> /\ job'[p].opt = job[p].opt
                 /\ job'[p].saved = job[p].saved
              \/ /\ job'[p].pc = "scan" /\ Meet(p) /\ job'[p].opt = job[p].opt
              \/ \E n \in DOMAIN job[p].set :
                    /\ job'[p].pc = "each" /\ Choose(p, n)
                    /\ job'[p].set = job[p].set /\ job'[p].origin = n
                    /\ job'[p].opt = job[p].opt /\ job'[p].saved = job[p].saved
                    /\ job'[p].idx = job[p].idx
                    /\ job'[p].clone = CloneIdAt(job[p].set[n].path)
<1>1. job \in [Instances -> Job] /\ job[p] \in Job /\ job[p].set \in Seq(FileMetadata)
    BY DEF TypeOK, Job
<1>2. CASE Crash(p)
    BY <1>1, <1>2 DEF Crash, Become, Others
<1>3. ASSUME NEW a, Leave(p, a)
      PROVE  /\ Others(p) /\ runs' = runs /\ UNCHANGED fs /\ job'[p].pc = "idle"
             /\ job'[p].set = <<>> /\ job'[p].opt = job[p].opt /\ job'[p].saved = job[p].saved
    BY <1>1, <1>3 DEF Leave, NewJob, Become, Others
<1>4. ASSUME NEW n \in DOMAIN job[p].set, Choose(p, n)
      PROVE  /\ Others(p) /\ runs' = runs /\ UNCHANGED fs
             /\ job'[p].pc = "each" /\ job'[p].set = job[p].set /\ job'[p].origin = n
             /\ job'[p].opt = job[p].opt /\ job'[p].saved = job[p].saved
             /\ job'[p].idx = job[p].idx
             /\ job'[p].clone = CloneIdAt(job[p].set[n].path)
    BY <1>1, <1>4 DEF Choose, Become, Others, Job
<1>5. CASE Meet(p)
  <2>1. PICK v \in job[p].todo :
          /\ Become(p, [job[p] EXCEPT !.todo = @ \ {v},
                          !.set = IF dirent[v[1]] \in Inodes
                                    THEN Append(@, Metadata(v[1])) ELSE @])
          /\ job[p].pc = "scan" /\ UNCHANGED <<fs, runs>>
      BY <1>5 DEF Meet, At
  <2> DEFINE s == IF dirent[v[1]] \in Inodes THEN Append(job[p].set, Metadata(v[1]))
                                             ELSE job[p].set
  <2>2. job' = [job EXCEPT ![p] = [job[p] EXCEPT !.todo = @ \ {v}, !.set = s]]
      BY <2>1 DEF Become
  <2> HIDE DEF s
  <2>3. job'[p] = [job[p] EXCEPT !.todo = @ \ {v}, !.set = s]
      BY <1>1, <2>2
  <2>4. job'[p].pc = job[p].pc /\ job'[p].opt = job[p].opt
      BY <1>1, <2>3 DEF Job
  <2>5. Others(p)
      BY <1>1, <2>2 DEF Others
  <2> QED
      BY <1>5, <2>1, <2>4, <2>5
<1>6. CASE NoSet(p) \/ AlreadyCloned(p)
  <2>1. \E a : Leave(p, a)
      BY <1>6 DEF NoSet, AlreadyCloned
  <2> QED
      BY <1>3, <2>1
<1>7. CASE ChooseByLinks(p) \/ ChooseFirstSeen(p) \/ ChooseByClones(p)
  <2>1. Leave(p, 0) \/ \E n \in DOMAIN job[p].set : Choose(p, n)
      BY <1>7 DEF ChooseByLinks, ChooseFirstSeen, ChooseByClones, First, MostLinked, WithClone
  <2> QED
      BY <1>3, <1>4, <2>1
<1>8. \/ Crash(p) \/ Meet(p) \/ NoSet(p) \/ AlreadyCloned(p)
      \/ ChooseByLinks(p) \/ ChooseFirstSeen(p) \/ ChooseByClones(p)
    BY DEF Step, Evaluate, Deduplicate, At, Start, Pass, Replace, EndOfSet, More,
        SaveMtime, SaveMtimeFails, TmpName, Clonefile,
        ClonefileFails, Check, CopyMetadata, CopyMetadataFails, Recheck, Rename, RenameFails,
        Undo, UndoFails, Restore, Verify, Relative, Unlink, UnlinkFails, Make, MakeFails
<1> QED
    BY <1>2, <1>5, <1>6, <1>7, <1>8, <1>3, <1>4

\* An instance that is not running can only start.
LEMMA IdleFrame ==
    ASSUME TypeOK, NEW p \in Instances, Step(p) \/ Crash(p), job[p].pc = "idle"
    PROVE  /\ Others(p) /\ UNCHANGED fs /\ Start(p)
           /\ runs' = [runs EXCEPT ![p] = @ + 1]
           /\ \E opt \in Options :
                job'[p] = [NewJob EXCEPT !.pc = "scan", !.opt = opt, !.todo = Visits]
<1>1. Start(p)
    BY DEF Step, Crash, Evaluate, Deduplicate, At, Meet, NoSet, ChooseByLinks, AlreadyCloned,
        ChooseFirstSeen, ChooseByClones, Scanned, Pass, Replace, EndOfSet, More,
        SaveMtime, SaveMtimeFails, TmpName, Clonefile,
        ClonefileFails, Check, CopyMetadata, CopyMetadataFails, Recheck, Rename, RenameFails,
        Undo, UndoFails, Restore, Verify, Relative, Unlink, UnlinkFails, Make, MakeFails
<1> QED
    BY <1>1 DEF Start, Become, Others, TypeOK

\* It starts with an empty set and all files to be met.
LEMMA Started ==
    ASSUME TypeOK, NEW p \in Instances, Step(p) \/ Crash(p), job[p].pc = "idle"
    PROVE  /\ job'[p].pc = "scan" /\ job'[p].set = <<>> /\ job'[p].todo = Visits
           /\ job'[p].saved = 0 /\ job'[p].opt \in Options
<1>1. PICK opt \in Options :
        job'[p] = [NewJob EXCEPT !.pc = "scan", !.opt = opt, !.todo = Visits]
    BY IdleFrame
<1>2. job'[p].pc = "scan" /\ job'[p].todo = Visits /\ job'[p].opt = opt
    BY <1>1 DEF NewJob
<1>3. job'[p].set = <<>> /\ job'[p].saved = 0
    BY <1>1 DEF NewJob
<1> QED
    BY <1>2, <1>3

\* The set grows by what is recorded of the file met, if it is still there.
LEMMA MeetFrame ==
    ASSUME TypeOK, NEW p \in Instances, Meet(p)
    PROVE  \E v \in job[p].todo :
             /\ v[1] \in Targets
             /\ job'[p].todo = job[p].todo \ {v}
             /\ job'[p].pc = "scan" /\ job'[p].opt = job[p].opt
             /\ job'[p].saved = job[p].saved /\ job'[p].idx = job[p].idx
             /\ \/ dirent[v[1]] \notin Inodes /\ job'[p].set = job[p].set
                \/ /\ dirent[v[1]] \in Inodes
                   /\ job'[p].set = Append(job[p].set, Metadata(v[1]))
                   /\ DOMAIN job'[p].set = DOMAIN job[p].set \cup {Len(job[p].set) + 1}
                   /\ Len(job[p].set) + 1 \notin DOMAIN job[p].set
                   /\ job'[p].set[Len(job[p].set) + 1] = Metadata(v[1])
                   /\ \A n \in DOMAIN job[p].set : job'[p].set[n] = job[p].set[n]
<1>1. job \in [Instances -> Job] /\ job[p] \in Job /\ job[p].set \in Seq(FileMetadata)
      /\ job[p].todo \in SUBSET (Targets \X {1, 2})
    BY DEF TypeOK, Job
<1>2. PICK v \in job[p].todo :
        Become(p, [job[p] EXCEPT !.todo = @ \ {v},
                                 !.set = IF dirent[v[1]] \in Inodes
                                         THEN Append(@, Metadata(v[1])) ELSE @])
    BY DEF Meet
<1>3. v[1] \in Targets
    BY <1>1
<1>4. /\ job'[p].todo = job[p].todo \ {v}
      /\ job'[p].pc = "scan" /\ job'[p].opt = job[p].opt
      /\ job'[p].saved = job[p].saved /\ job'[p].idx = job[p].idx
      /\ job'[p].set = IF dirent[v[1]] \in Inodes THEN Append(job[p].set, Metadata(v[1]))
                       ELSE job[p].set
    BY <1>1, <1>2 DEF Meet, At, Become, Job
<1>5. CASE dirent[v[1]] \notin Inodes
    BY <1>3, <1>4, <1>5
<1>6. CASE dirent[v[1]] \in Inodes
  <2>1. Metadata(v[1]) \in FileMetadata
      BY <1>3, <1>6, MetadataType
  <2> DEFINE m == Metadata(v[1])
             s == job[p].set
  <2>2. m \in FileMetadata /\ s \in Seq(FileMetadata)
      BY <1>1, <2>1
  <2> HIDE DEF m, s
  <2>3. /\ DOMAIN Append(s, m) = DOMAIN s \cup {Len(s) + 1}
        /\ Len(s) + 1 \notin DOMAIN s
        /\ Append(s, m)[Len(s) + 1] = m
        /\ \A n \in DOMAIN s : Append(s, m)[n] = s[n]
      BY <2>2
  <2> QED
      BY <1>3, <1>4, <1>6, <2>3 DEF m, s
<1> QED
    BY <1>5, <1>6

\* What becomes of the saved mtime, the result and the counts under the
\* replacement of a file.
LEMMA LateFields ==
    ASSUME TypeOK, NEW p \in Instances, Step(p), job[p].pc \notin Early
    PROVE  /\ SaveMtime(p) => job'[p].mtime = touched
           /\ SaveMtime(p) \/ job'[p].mtime = job[p].mtime
           /\ \/ job'[p].ok = job[p].ok
              \/ TmpName(p) /\ ~job'[p].ok
              \/ Rename(p) /\ job'[p].ok
           /\ job'[p].pc # "each" => job'[p].saved = job[p].saved
           /\ job'[p].pc = "each" =>
                /\ job'[p].idx = job[p].idx + 1
                /\ \/ SaveMtimeFails(p) /\ job'[p].saved = job[p].saved
                   \/ Restore(p) /\ ~job[p].ok /\ job'[p].saved = job[p].saved
                   \/ Verify(p) /\ job'[p].saved =
                        job[p].saved + IF CloneIdAt(Dst(p)) = job[p].clone THEN 1 ELSE 0
                   \/ UnlinkFails(p) /\ job'[p].saved = job[p].saved
                   \/ Make(p) /\ job'[p].saved = job[p].saved + 1
                   \/ MakeFails(p) /\ job'[p].saved = job[p].saved
<1>1. job \in [Instances -> Job] /\ job[p] \in Job
    BY DEF TypeOK
<1>5. SaveMtime(p) => job'[p].mtime = touched
    BY <1>1 DEF SaveMtime, Become, Job
<1> SUFFICES
           /\ SaveMtime(p) \/ job'[p].mtime = job[p].mtime
           /\ \/ job'[p].ok = job[p].ok
              \/ TmpName(p) /\ ~job'[p].ok
              \/ Rename(p) /\ job'[p].ok
           /\ job'[p].pc # "each" => job'[p].saved = job[p].saved
           /\ job'[p].pc = "each" =>
                /\ job'[p].idx = job[p].idx + 1
                /\ \/ SaveMtimeFails(p) /\ job'[p].saved = job[p].saved
                   \/ Restore(p) /\ ~job[p].ok /\ job'[p].saved = job[p].saved
                   \/ Verify(p) /\ job'[p].saved =
                        job[p].saved + IF CloneIdAt(Dst(p)) = job[p].clone THEN 1 ELSE 0
                   \/ UnlinkFails(p) /\ job'[p].saved = job[p].saved
                   \/ Make(p) /\ job'[p].saved = job[p].saved + 1
                   \/ MakeFails(p) /\ job'[p].saved = job[p].saved
    BY <1>5
<1>2. ASSUME NEW s \in Nat, NEW a \in Nat, NextFile(p, s, a)
      PROVE  /\ job'[p].mtime = job[p].mtime /\ job'[p].ok = job[p].ok
             /\ job'[p].idx = job[p].idx + 1 /\ job'[p].saved = job[p].saved + s
             /\ job'[p].pc = "each"
    BY <1>1, <1>2 DEF NextFile, Become, Job
<1>3. ASSUME NEW l \in Labels, Goto(p, l)
      PROVE  /\ job'[p].mtime = job[p].mtime /\ job'[p].ok = job[p].ok
             /\ job'[p].idx = job[p].idx /\ job'[p].saved = job[p].saved
             /\ job'[p].pc = l
    BY <1>1, <1>3 DEF Goto, Become, Job
<1>4. job[p].saved \in Nat /\ job[p].saved + 0 = job[p].saved
    BY <1>1 DEF Job
<1>15. CASE SaveMtime(p)
    BY <1>1, <1>15 DEF SaveMtime, Become, Job
<1>6. CASE TmpName(p)
  <2>1. PICK l \in {"clone", "restore"} : Become(p, [job[p] EXCEPT !.ok = FALSE, !.pc = l])
      BY <1>6 DEF TmpName
  <2> QED
      BY <1>1, <1>6, <2>1 DEF Become, Job
<1>7. CASE Rename(p)
    BY <1>1, <1>7 DEF Rename, Become, Job
<1>8. CASE Relative(p)
    BY <1>1, <1>8 DEF Relative, Become, Job
<1>9. CASE SaveMtimeFails(p) \/ UnlinkFails(p) \/ MakeFails(p)
  <2>1. NextFile(p, 0, 0)
      BY <1>9 DEF SaveMtimeFails, UnlinkFails, MakeFails
  <2> QED
      BY <1>2, <1>4, <1>9, <2>1
<1>10. CASE Make(p)
  <2>1. NextFile(p, 1, 0)
      BY <1>10 DEF Make
  <2> QED
      BY <1>2, <1>10, <2>1
<1>11. CASE Verify(p)
  <2>1. CASE CloneIdAt(Dst(p)) = job[p].clone
      BY <1>2, <1>11, <2>1 DEF Verify
  <2>2. CASE CloneIdAt(Dst(p)) # job[p].clone
    <3>1. PICK a \in {0, 1} : NextFile(p, 0, a)
        BY <1>11, <2>2 DEF Verify
    <3> QED
        BY <1>2, <1>4, <1>11, <2>2, <3>1
  <2> QED
      BY <2>1, <2>2
<1>12. CASE Restore(p)
  <2>1. CASE job[p].ok
      BY <1>3, <1>12, <2>1 DEF Restore, Labels
  <2>2. CASE ~job[p].ok
      BY <1>2, <1>4, <1>12, <2>2 DEF Restore
  <2> QED
      BY <2>1, <2>2
<1>13. CASE \/ Clonefile(p) \/ ClonefileFails(p) \/ Check(p) \/ CopyMetadata(p)
            \/ CopyMetadataFails(p) \/ Recheck(p) \/ RenameFails(p) \/ Undo(p) \/ UndoFails(p)
            \/ Unlink(p)
  <2>1. \E l \in {"check", "undo", "copy", "recheck", "rename", "restore", "make"} : Goto(p, l)
      BY <1>13 DEF Clonefile, ClonefileFails, Check, CopyMetadata, CopyMetadataFails, Recheck,
                   RenameFails, Undo, UndoFails, Unlink
  <2> QED
      BY <1>3, <2>1 DEF Labels
<1>14. ~(Evaluate(p) \/ Pass(p) \/ Replace(p) \/ EndOfSet(p))
    BY DEF Evaluate, Start, Meet, NoSet, ChooseByLinks, AlreadyCloned, ChooseFirstSeen,
           ChooseByClones, Scanned, Pass, Replace, EndOfSet, More, At, Early
<1> QED
    BY <1>15, <1>6, <1>7, <1>8, <1>9, <1>10, <1>11, <1>12, <1>13, <1>14 DEF Step, Deduplicate

-----------------------------------------------------------------------------
(* The mtime of the directory, one instance at a time *)

\* In a first run with -m the mtime is the initial one outside of the
\* replacement of a file, and inside it the saved one is.
MtimeInv ==
    /\ TypeOK
    /\ \A p \in Instances : runs[p] = 0 => job[p].pc = "idle" /\ ~touched
    /\ \A p \in Instances :
         runs[p] = 1 /\ Mode(p) = "clone" /\ PreserveMtime(p) =>
            /\ job[p].pc \notin {"relative", "unlink", "make"}
            /\ job[p].pc \in {"idle", "scan", "each", "save", "verify"} => ~touched
            /\ job[p].pc \in Staging1 \cup {"tmp", "restore"} => ~job[p].mtime

\* The mtime invariant holds at the start.
LEMMA MtimeInit == Init => MtimeInv
<1> SUFFICES ASSUME Init PROVE MtimeInv
    OBVIOUS
<1>1. \A p \in Instances : runs[p] = 0 /\ job[p].pc = "idle" /\ ~touched
    BY DEF Init, NewJob
<1> QED
    BY <1>1, TypesInit DEF MtimeInv

\* Every step keeps the mtime invariant.
LEMMA MtimeStep ==
    ASSUME MtimeInv, OneInstance, ~MayCrash, "futimens" \notin Failing, [Next]_vars
    PROVE  MtimeInv'
<1>1. TypeOK /\ TypeOK'
    BY TypesStep DEF MtimeInv
<1>2. CASE UNCHANGED vars
    BY <1>1, <1>2 DEF MtimeInv, Mode, PreserveMtime
<1> SUFFICES ASSUME NEW p \in Instances, Step(p) \/ Crash(p)
             PROVE  MtimeInv'
    BY <1>2 DEF Next, Terminated
<1>3. Step(p) /\ \A q \in Instances : q = p
    BY DEF OneInstance, Crash
<1>4. runs[p] \in Nat /\ runs[p] \in 0 .. MaxRuns
    BY <1>1, DedupAssumption DEF TypeOK
<1> SUFFICES /\ runs'[p] = 0 => job'[p].pc = "idle" /\ ~touched'
             /\ runs'[p] = 1 /\ Mode(p)' = "clone" /\ PreserveMtime(p)' =>
                  /\ job'[p].pc \notin {"relative", "unlink", "make"}
                  /\ job'[p].pc \in {"idle", "scan", "each", "save", "verify"} => ~touched'
                  /\ job'[p].pc \in Staging1 \cup {"tmp", "restore"} => ~job'[p].mtime
    BY <1>1, <1>3 DEF MtimeInv
<1>5. CASE job[p].pc = "idle"
  <2>1. touched' = touched /\ job'[p].pc = "scan" /\ runs'[p] = runs[p] + 1
    <3>1. UNCHANGED fs /\ runs' = [runs EXCEPT ![p] = @ + 1]
        BY <1>1, <1>5, IdleFrame
    <3>2. PICK opt \in Options :
            job'[p] = [NewJob EXCEPT !.pc = "scan", !.opt = opt, !.todo = Visits]
        BY <1>1, <1>5, IdleFrame
    <3> QED
        BY <1>1, <3>1, <3>2 DEF NewJob, TypeOK
  <2>2. runs'[p] # 0 /\ (runs'[p] = 1 => runs[p] = 0)
      BY <1>4, <2>1
  <2> QED
      BY <2>1, <2>2 DEF MtimeInv, Staging1
<1>6. CASE job[p].pc = "scan"
  <2>1. /\ touched' = touched /\ runs' = runs /\ job'[p].opt = job[p].opt
        /\ job'[p].pc \in {"idle", "scan", "each"}
      BY <1>1, <1>3, <1>6, ScanFrame DEF Crash
  <2> QED
      BY <1>6, <2>1 DEF MtimeInv, Staging1, Mode, PreserveMtime
<1>7. CASE job[p].pc = "each"
  <2>1. /\ touched' = touched /\ runs' = runs /\ job'[p].opt = job[p].opt
        /\ \/ job'[p].pc \in {"idle", "each"}
           \/ job'[p].pc = "save"
           \/ job'[p].pc = "tmp" /\ ~PreserveMtime(p)
           \/ job'[p].pc \in {"unlink", "relative"} /\ Mode(p) # "clone"
      BY <1>1, <1>3, <1>7, EachFrame DEF Crash
  <2> QED
      BY <1>7, <2>1 DEF MtimeInv, Staging1, Mode, PreserveMtime
<1>8. CASE job[p].pc \notin Early
  <2>1. /\ runs' = runs /\ job'[p].opt = job[p].opt
        /\ job'[p].pc \notin {"idle", "scan", "save", "relative"}
      BY <1>1, <1>3, <1>8, LateFrame, Flow DEF Crash
  <2> SUFFICES ASSUME runs[p] = 1, Mode(p) = "clone", PreserveMtime(p)
               PROVE  /\ job'[p].pc \notin {"unlink", "make"}
                      /\ job'[p].pc \in {"each", "verify"} => ~touched'
                      /\ job'[p].pc \in Staging1 \cup {"tmp", "restore"} => ~job'[p].mtime
      BY <1>8, <2>1 DEF MtimeInv, Mode, PreserveMtime, Early
  <2>2. /\ job[p].pc \notin {"relative", "unlink", "make"}
        /\ job[p].pc \in {"save", "verify"} => ~touched
        /\ job[p].pc \in Staging1 \cup {"tmp", "restore"} => ~job[p].mtime
      BY DEF MtimeInv
  <2>3. job'[p].pc \notin {"unlink", "make"}
      BY <1>1, <1>8, <2>2, Flow DEF Relative, Unlink, At
  <2>4. job'[p].pc \in {"each", "verify"} => ~touched'
    <3>1. CASE Restore(p)
        BY <2>2, <3>1 DEF Restore, MayFail, At
    <3>2. CASE SaveMtimeFails(p) \/ Verify(p)
        BY <2>2, <3>2 DEF SaveMtimeFails, Verify, At
    <3>3. ~(UnlinkFails(p) \/ Make(p) \/ MakeFails(p))
        BY <2>2 DEF UnlinkFails, Make, MakeFails, At
    <3> QED
        BY <1>1, <1>3, <1>8, <3>1, <3>2, <3>3, Flow, LateFields
  <2>5. job'[p].pc \in Staging1 \cup {"tmp", "restore"} => ~job'[p].mtime
    <3>1. CASE SaveMtime(p)
        BY <1>1, <1>3, <1>8, <2>2, <3>1, LateFields DEF SaveMtime, At
    <3>2. CASE job[p].pc \in Staging1 \cup {"tmp", "restore"}
        BY <1>1, <1>3, <1>8, <2>2, <3>2, LateFields DEF SaveMtime, At, Staging1
    <3>3. CASE ~SaveMtime(p) /\ job[p].pc \in {"save", "verify"}
        BY <1>1, <1>8, <3>3, Flow DEF Staging1, TmpName, Clonefile, Check, CopyMetadata, Recheck, Rename, Undo, UndoFails, At
    <3> QED
        BY <1>1, <1>8, <2>2, <3>1, <3>2, <3>3 DEF TypeOK, Job, Labels, Early, Staging1
  <2> QED
      BY <2>3, <2>4, <2>5
<1> QED
    BY <1>5, <1>6, <1>7, <1>8 DEF Early

\* With -m the mtime of the directory is the initial one each time the loop of
\* the first run comes round, on the failing ways out of replace_with_clone
\* too, if futimens itself does not fail and no other instance runs.
THEOREM MtimeAlwaysKept ==
    ASSUME OneInstance, ~MayCrash, "futimens" \notin Failing
    PROVE  Spec => []MtimeKept
<1>1. Init => MtimeInv
    BY MtimeInit
<1>2. MtimeInv /\ [Next]_vars => MtimeInv'
    BY MtimeStep
<1>3. MtimeInv => MtimeKept
    BY DEF MtimeInv, MtimeKept
<1> QED
    BY <1>1, <1>2, <1>3, PTL DEF Spec

-----------------------------------------------------------------------------
(* The staging file, one instance at a time *)

\* The labels under which the staging file exists, or may.
Held == {"check", "copy", "recheck", "rename", "undo"}

\* A run meets no staging file, and there is none but that of the file being
\* replaced.
NamesOnly ==
    \A p \in Instances :
        /\ job[p].pc = "scan" => \A v \in job[p].todo : v[1][2] = 0
        /\ \A n \in DOMAIN job[p].set : job[p].set[n].path[2] = 0
StagedHeld ==
    \A path \in Paths : path[2] > 0 /\ dirent[path] # NONE =>
        \E p \in Instances : job[p].pc \in Held /\ path = Tmp(p)

\* The unlink that clears the staging file away does not fail.
StagingUnlinks == "unlink staging" \notin Failing

StagingInv == TypeOK /\ NamesOnly /\ StagedHeld

\* A path has a file and a number.
LEMMA PathParts == \A path \in Paths : path[1] \in Files /\ path[2] \in Nat
BY DedupAssumption DEF Paths

\* Only the rename and the unlink take an instance past its staging file.
LEMMA HeldFlow ==
    ASSUME TypeOK, ~MayCrash, NEW p \in Instances, Step(p), job[p].pc \in Held,
           ~Rename(p), ~Undo(p), ~UndoFails(p)
    PROVE  job'[p].pc \in Held /\ Tmp(p)' = Tmp(p)
<1>1. job[p].pc \notin Early
    BY DEF Held, Early
<1>2. TypeOK'
    BY TypesStep DEF Next
<1>3. job'[p].pc \in Labels
    BY <1>2 DEF TypeOK, Job
<1>4. /\ ~SaveMtime(p) /\ ~TmpName(p) /\ ~Restore(p) /\ ~Relative(p) /\ ~Unlink(p)
      /\ ~SaveMtimeFails(p) /\ ~Verify(p) /\ ~UnlinkFails(p) /\ ~Make(p) /\ ~MakeFails(p)
    BY DEF Held, At, SaveMtime, TmpName, Restore, Relative, Unlink, SaveMtimeFails, Verify,
           UnlinkFails, Make, MakeFails
<1>5. job'[p].pc # "each"
    BY <1>1, <1>4, LateFields
<1>6. job'[p].pc \notin {"save", "relative", "tmp", "clone", "restore", "verify", "unlink", "make"}
    BY <1>1, <1>4, Flow
<1>7. job'[p].pc \notin {"idle", "scan"} /\ job'[p].set = job[p].set /\ job'[p].idx = job[p].idx
    BY <1>1, <1>5, LateFrame
<1> QED
    BY <1>3, <1>5, <1>6, <1>7 DEF Labels, Held, Tmp, Dst, Fm

\* The file at hand is one that was met.
LEMMA AtHand ==
    ASSUME TypeOK, NEW p \in Instances, job[p].pc \notin Early
    PROVE  job[p].idx \in DOMAIN job[p].set /\ job[p].origin \in DOMAIN job[p].set
           /\ job[p].idx # job[p].origin /\ Fm(p) = job[p].set[job[p].idx]
BY DEF TypeOK, JobTypeOK, Early, Fm

\* A run started while no staging file exists meets none.
LEMMA NamesStep ==
    ASSUME StagingInv, OneInstance, ~MayCrash, NEW p \in Instances, Step(p)
    PROVE  NamesOnly'
<1>1. TypeOK /\ TypeOK' /\ job[p].set \in Seq(FileMetadata)
    BY TypesStep DEF StagingInv, Next, TypeOK, Job
<1>2. \A q \in Instances : q = p
    BY DEF OneInstance
<1> SUFFICES /\ job'[p].pc = "scan" => \A v \in job'[p].todo : v[1][2] = 0
             /\ \A n \in DOMAIN job'[p].set : job'[p].set[n].path[2] = 0
    BY <1>2 DEF NamesOnly
<1>3. CASE job[p].pc = "idle"
  <2>1. PICK opt \in Options :
          job'[p] = [NewJob EXCEPT !.pc = "scan", !.opt = opt, !.todo = Visits]
      BY <1>1, <1>3, IdleFrame
  <2>2. job'[p].set = <<>> /\ job'[p].todo = Visits
      BY <2>1 DEF NewJob
  <2>3. ASSUME NEW v \in Visits
        PROVE  v[1][2] = 0
    <3>1. v[1] \in Targets /\ dirent[v[1]] \in Inodes
        BY DEF Visits
    <3>2. v[1] \in Paths /\ v[1][2] \in Nat /\ dirent[v[1]] # NONE
        BY <3>1, DedupAssumption DEF Targets, Paths
    <3>3. ~(v[1][2] > 0)
        BY <1>2, <1>3, <3>2 DEF StagingInv, StagedHeld, Held
    <3> QED
        BY <3>2, <3>3
  <2> QED
      BY <2>2, <2>3
<1>4. CASE job[p].pc = "scan"
  <2>1. CASE Meet(p)
    <3>1. PICK v \in job[p].todo :
             /\ v[1] \in Targets
             /\ job'[p].todo = job[p].todo \ {v}
             /\ \/ job'[p].set = job[p].set
                \/ /\ DOMAIN job'[p].set = DOMAIN job[p].set \cup {Len(job[p].set) + 1}
                   /\ job'[p].set[Len(job[p].set) + 1] = Metadata(v[1])
                   /\ \A n \in DOMAIN job[p].set : job'[p].set[n] = job[p].set[n]
        BY <1>1, <2>1, MeetFrame
    <3>2. Metadata(v[1]).path = v[1] /\ v[1][2] = 0
        BY <1>4 DEF Metadata, StagingInv, NamesOnly
    <3> HIDE DEF Metadata
    <3> QED
        BY <1>4, <3>1, <3>2 DEF StagingInv, NamesOnly
  <2>2. CASE ~Meet(p)
    <3>1. job'[p].pc # "scan" /\ job'[p].set \in {<<>>, job[p].set}
        BY <1>1, <1>4, <2>2, ScanFrame DEF Crash
    <3> QED
        BY <3>1 DEF StagingInv, NamesOnly
  <2> QED
      BY <2>1, <2>2
<1>5. CASE job[p].pc = "each"
  <2>1. job'[p].pc # "scan" /\ job'[p].set \in {<<>>, job[p].set}
      BY <1>1, <1>5, EachFrame DEF Crash
  <2> QED
      BY <2>1 DEF StagingInv, NamesOnly
<1>6. CASE job[p].pc \notin Early
  <2>1. job'[p].pc # "scan" /\ job'[p].set = job[p].set
      BY <1>1, <1>6, LateFrame
  <2> QED
      BY <2>1 DEF StagingInv, NamesOnly
<1> QED
    BY <1>3, <1>4, <1>5, <1>6 DEF Early

\* The staging file is made by clonefile and gone with the rename or unlink.
LEMMA HeldStep ==
    ASSUME StagingInv, OneInstance, ~MayCrash, StagingUnlinks,
           NEW p \in Instances, Step(p)
    PROVE  StagedHeld'
<1>1. TypeOK /\ TypeOK' /\ NamesOnly /\ StagedHeld
    BY TypesStep DEF StagingInv, Next
<1>2. \A q \in Instances : q = p
    BY DEF OneInstance
<1>3. ~UndoFails(p) /\ ~Crash(p)
  <2>1. ~UndoFails(p)
      BY Zenon DEF StagingUnlinks, UndoFails, MayFail
  <2> QED
      BY <2>1 DEF Crash
<1>4. \A path \in Paths : path[2] > 0 /\ dirent[path] # NONE =>
        job[p].pc \in Held /\ path = Tmp(p)
    BY <1>1, <1>2 DEF StagedHeld
<1> SUFFICES ASSUME NEW path \in Paths, path[2] > 0, dirent'[path] # NONE
             PROVE  job'[p].pc \in Held /\ path = Tmp(p)'
    BY DEF StagedHeld
<1>5. dirent \in [Paths -> Inodes \cup Paths \cup {NONE}]
    BY <1>1 DEF TypeOK
<1>6. CASE job[p].pc \in Early
  <2>1. dirent' = dirent
      BY <1>1, <1>6, EarlySteps
  <2> QED
      BY <1>4, <1>6, <2>1 DEF Held, Early
<1>7. CASE job[p].pc \notin Early
  <2>1. /\ Dst(p) \in Paths /\ Tmp(p) \in Paths /\ Dst(p) # path
    <3>1. Dst(p) \in Paths /\ Tmp(p) \in Paths
        BY <1>1, <1>7, Names DEF Early
    <3>2. Dst(p)[2] = 0
        BY <1>1, <1>7, AtHand DEF NamesOnly, Dst
    <3> QED
        BY <3>1, <3>2
  <2>2. CASE Clonefile(p)
    <3>1. job[p].pc \notin Held /\ Goto(p, "check")
        BY <2>2 DEF Clonefile, At, Held
    <3>2. PICK i : dirent' = [dirent EXCEPT ![Tmp(p)] = i]
        BY <2>2 DEF Clonefile
    <3>3. path = Tmp(p)
        BY <1>4, <1>5, <3>1, <3>2
    <3>4. job'[p].pc = "check" /\ job'[p].set = job[p].set /\ job'[p].idx = job[p].idx
        BY <1>1, <3>1 DEF Goto, Become, TypeOK, Job
    <3> QED
        BY <3>3, <3>4 DEF Held, Tmp, Dst, Fm
  <2>3. CASE Rename(p) \/ Undo(p)
    <3>1. \/ dirent' = [dirent EXCEPT ![Dst(p)] = dirent[Tmp(p)], ![Tmp(p)] = NONE]
          \/ dirent' = [dirent EXCEPT ![Tmp(p)] = NONE]
        BY <2>3 DEF Rename, Undo
    <3>2. dirent'[Tmp(p)] = NONE
      <4>1. CASE dirent' = [dirent EXCEPT ![Dst(p)] = dirent[Tmp(p)], ![Tmp(p)] = NONE]
          BY <1>5, <2>1, <4>1
      <4>2. CASE dirent' = [dirent EXCEPT ![Tmp(p)] = NONE]
          BY <1>5, <2>1, <4>2
      <4> QED
          BY <3>1, <4>1, <4>2
    <3>3. path # Tmp(p)
        BY <3>2
    <3>4. dirent'[path] = dirent[path]
        BY <1>5, <2>1, <3>1, <3>3
    <3> QED
        BY <1>4, <3>3, <3>4
  <2>4. CASE Unlink(p) \/ Make(p)
    <3>1. PICK i : dirent' = [dirent EXCEPT ![Dst(p)] = i]
        BY <2>4 DEF Unlink, Make
    <3>2. dirent[path] # NONE
        BY <1>5, <2>1, <3>1
    <3>3. job[p].pc \notin Held
        BY <2>4 DEF Unlink, Make, At, Held
    <3> QED
        BY <1>4, <3>2, <3>3
  <2>5. CASE ~Clonefile(p) /\ ~Rename(p) /\ ~Undo(p) /\ ~Unlink(p) /\ ~Make(p)
    <3>1. dirent' = dirent
        BY <1>1, <2>5, Writers DEF CopyMetadata
    <3>2. job[p].pc \in Held /\ path = Tmp(p)
        BY <1>4, <3>1
    <3> QED
        BY <1>1, <1>3, <2>5, <3>2, HeldFlow
  <2> QED
      BY <2>2, <2>3, <2>4, <2>5
<1> QED
    BY <1>6, <1>7

\* Without a crash and with an unlink that works, no staging file is left when
\* no instance runs, whichever other calls fail and in whatever mode earlier
\* runs were; two instances at a time may leave one, for they may meet it.
THEOREM StagingNeverLeft ==
    ASSUME OneInstance, ~MayCrash, StagingUnlinks
    PROVE  Spec => []NoStagingLeft
<1>1. Init => StagingInv
  <2> SUFFICES ASSUME Init PROVE StagingInv
      OBVIOUS
  <2>1. NamesOnly
    <3>1. \A p \in Instances : job[p].pc = "idle" /\ job[p].set = <<>>
        BY DEF Init, NewJob
    <3> QED
        BY <3>1 DEF NamesOnly
  <2>2. StagedHeld
    <3>1. \A path \in Paths : path[2] # 0 => dirent[path] = NONE
        BY DEF Init
    <3>2. ASSUME NEW path \in Paths, path[2] > 0
          PROVE  dirent[path] = NONE
      <4>1. path[2] \in Nat
          BY <3>2, PathParts
      <4> QED
          BY <3>1, <3>2, <4>1
    <3> QED
        BY <3>2 DEF StagedHeld
  <2> QED
      BY <2>1, <2>2, TypesInit DEF StagingInv
<1>2. StagingInv /\ [Next]_vars => StagingInv'
  <2> SUFFICES ASSUME StagingInv, [Next]_vars PROVE StagingInv'
      OBVIOUS
  <2>1. TypeOK'
      BY TypesStep DEF StagingInv
  <2>2. CASE UNCHANGED vars
      BY <2>1, <2>2 DEF StagingInv, NamesOnly, StagedHeld, Tmp, Dst, Fm
  <2>3. ASSUME NEW p \in Instances, Step(p)
        PROVE  StagingInv'
      BY <2>1, <2>3, NamesStep, HeldStep DEF StagingInv
  <2> QED
      BY <2>2, <2>3 DEF Next, Terminated, Crash
<1>3. StagingInv => NoStagingLeft
    BY DEF StagingInv, StagedHeld, NoStagingLeft, AllIdle, At, Held
<1> QED
    BY <1>1, <1>2, <1>3, PTL DEF Spec

-----------------------------------------------------------------------------
(* The origin, one instance at a time *)

\* What the origin is throughout: an inode with the content, under its name.
Readable(path) == dirent[path] \in Inodes /\ ino[dirent[path]].full

\* While the set is made nothing changes, so that all that was recorded is
\* still true; a path met twice is recorded twice, and the same each time.
MetAsIs ==
    \A p \in Instances : job[p].pc = "scan" =>
        /\ \A v \in job[p].todo : Readable(v[1])
        /\ \A n \in DOMAIN job[p].set :
             /\ Readable(job[p].set[n].path)
             /\ job[p].set[n].inode = dirent[job[p].set[n].path]
             /\ job[p].set[n].clone = ino[dirent[job[p].set[n].path]].clone
MetOnce ==
    Twice = {} => \A p \in Instances :
        /\ job[p].pc = "scan" =>
             \A v \in job[p].todo :
                /\ v[2] = 1
                /\ \A n \in DOMAIN job[p].set : job[p].set[n].path # v[1]
        /\ \A n, m \in DOMAIN job[p].set : job[p].set[n].path = job[p].set[m].path => n = m
MetAlike ==
    \A p \in Instances : \A n, m \in DOMAIN job[p].set :
        job[p].set[n].path = job[p].set[m].path =>
            job[p].set[n].clone = job[p].set[m].clone /\ job[p].set[n].inode = job[p].set[m].inode

\* The file at hand, and the staging file it gets, are not the origin.
OriginApart ==
    \A p \in Instances :
        /\ job[p].pc \notin Early => Dst(p) # Src(p)
        /\ job[p].pc \in Staging1 => Tmp(p) # Src(p)
OriginReadable ==
    \A p \in Instances : job[p].pc \notin {"idle", "scan"} => Readable(Src(p))

Met == MetAsIs /\ MetOnce /\ MetAlike
OriginInv == TypeOK /\ Met /\ OriginApart /\ OriginReadable

\* At the start nothing was met and no set is worked on.
LEMMA OriginInit ==
    ASSUME Init
    PROVE  /\ \A p \in Instances : job[p].pc = "idle" /\ job[p].set = <<>>
           /\ OriginInv
<1>1. \A p \in Instances : job[p].pc = "idle" /\ job[p].set = <<>>
    BY DEF Init, NewJob
<1>2. MetAsIs
    BY <1>1 DEF MetAsIs
<1>3. MetOnce
    BY <1>1 DEF MetOnce
<1>4. MetAlike
    BY <1>1 DEF MetAlike
<1>5. OriginApart /\ OriginReadable
    BY <1>1 DEF OriginApart, OriginReadable, Early, Staging1
<1> QED
    BY <1>1, <1>2, <1>3, <1>4, <1>5, TypesInit DEF OriginInv, Met

\* No run is given -s.
NeverSymlinks == \A opt \in Options : opt.mode # "symlink"

\* What is met is recorded as it is.
LEMMA MetStep ==
    ASSUME TypeOK, Met, OneInstance, NEW p \in Instances, Step(p) \/ Crash(p)
    PROVE  Met'
<1>1. job[p] \in Job /\ job[p].set \in Seq(FileMetadata)
      /\ job[p].todo \in SUBSET (Targets \X {1, 2})
    BY DEF TypeOK, Job
<1>2. \A q \in Instances : q = p
    BY DEF OneInstance
<1>3. CASE job'[p].pc # "scan" /\ job'[p].set \in {<<>>, job[p].set}
  <2>1. MetAsIs'
      BY <1>2, <1>3 DEF MetAsIs
  <2>2. MetOnce'
      BY <1>2, <1>3 DEF Met, MetOnce
  <2>3. MetAlike'
      BY <1>2, <1>3 DEF Met, MetAlike
  <2> QED
      BY <2>1, <2>2, <2>3 DEF Met
<1>4. CASE job[p].pc = "idle"
  <2>1. job'[p].set = <<>> /\ job'[p].todo = Visits /\ UNCHANGED fs
      BY <1>4, IdleFrame, Started
  <2>2. \A v \in Visits : Readable(v[1]) /\ (Twice = {} => v[2] = 1)
    <3>1. \A v \in Visits : Readable(v[1])
        BY DEF Visits, Readable
    <3>2. Twice = {} => \A v \in Visits : v[2] = 1
        BY DEF Visits
    <3> QED
        BY <3>1, <3>2
  <2>3. \A q \in Instances : job'[q].set = <<>> /\ job'[q].todo = Visits
      BY <1>2, <2>1
  <2>4. MetAsIs'
    <3>1. \A v \in Visits : Readable(v[1])'
        BY <2>1, <2>2 DEF Readable, fs
    <3> QED
        BY <2>3, <3>1 DEF MetAsIs
  <2>5. MetOnce'
      BY <2>2, <2>3 DEF MetOnce
  <2>6. MetAlike'
      BY <2>3 DEF MetAlike
  <2> QED
      BY <2>4, <2>5, <2>6 DEF Met
<1>5. CASE Meet(p)
  <2>1. PICK v \in job[p].todo :
           /\ v[1] \in Targets
           /\ job'[p].todo = job[p].todo \ {v}
           /\ \/ job'[p].set = job[p].set
              \/ /\ dirent[v[1]] \in Inodes
                 /\ DOMAIN job'[p].set = DOMAIN job[p].set \cup {Len(job[p].set) + 1}
                 /\ Len(job[p].set) + 1 \notin DOMAIN job[p].set
                 /\ job'[p].set[Len(job[p].set) + 1] = Metadata(v[1])
                 /\ \A n \in DOMAIN job[p].set : job'[p].set[n] = job[p].set[n]
      BY <1>5, MeetFrame
  <2>2. job[p].pc = "scan" /\ UNCHANGED fs
      BY <1>5 DEF Meet, At
  <2> DEFINE d == Metadata(v[1])
  <2>4. d.path = v[1] /\ d.inode = dirent[v[1]] /\ d.clone = ino[dirent[v[1]]].clone
      BY DEF Metadata
  <2> DEFINE k == Len(job[p].set) + 1
             s == job[p].set
             t == job'[p].set
  <2>5. /\ \A w \in job[p].todo : Readable(w[1])
        /\ \A n \in DOMAIN s : /\ Readable(s[n].path) /\ s[n].inode = dirent[s[n].path]
                               /\ s[n].clone = ino[dirent[s[n].path]].clone
      BY <2>2 DEF Met, MetAsIs
  <2>6. job'[p].todo \subseteq job[p].todo /\ v \in job[p].todo /\ v \notin job'[p].todo
      BY <2>1
  <2> HIDE DEF k, s, t, d
  <2>7. \/ t = s
        \/ /\ DOMAIN t = DOMAIN s \cup {k} /\ k \notin DOMAIN s
           /\ t[k] = d /\ \A n \in DOMAIN s : t[n] = s[n]
      BY <2>1 DEF k, s, t, d
  <2>8. \A n \in DOMAIN t : /\ Readable(t[n].path) /\ t[n].inode = dirent[t[n].path]
                             /\ t[n].clone = ino[dirent[t[n].path]].clone
      BY <2>4, <2>5, <2>6, <2>7
  <2>9. MetAsIs'
      BY <1>2, <2>2, <2>5, <2>6, <2>8 DEF MetAsIs, Readable, t
  <2>10. MetAlike'
    <3>1. \A n, m \in DOMAIN t : t[n].path = t[m].path =>
             t[n].clone = t[m].clone /\ t[n].inode = t[m].inode
        BY <2>8
    <3> QED
        BY <1>2, <3>1 DEF MetAlike, t
  <2>11. MetOnce'
    <3> SUFFICES ASSUME Twice = {}
                 PROVE  /\ \A w \in job'[p].todo :
                            w[2] = 1 /\ \A n \in DOMAIN t : t[n].path # w[1]
                        /\ \A n, m \in DOMAIN t : t[n].path = t[m].path => n = m
        BY <1>2 DEF MetOnce, t
    <3>1. /\ \A w \in job[p].todo : w[2] = 1 /\ \A n \in DOMAIN s : s[n].path # w[1]
          /\ \A n, m \in DOMAIN s : s[n].path = s[m].path => n = m
        BY <2>2 DEF Met, MetOnce, s
    <3>2. \A w \in job'[p].todo : w[1] # v[1]
      <4>1. \A w \in job[p].todo : w = <<w[1], w[2]>>
          BY <1>1
      <4> QED
          BY <2>6, <3>1, <4>1
    <3>3. ASSUME NEW w \in job'[p].todo, NEW n \in DOMAIN t
          PROVE  t[n].path # w[1]
        BY <2>4, <2>6, <2>7, <3>1, <3>2, <3>3
    <3>4. ASSUME NEW n \in DOMAIN t, NEW m \in DOMAIN t, t[n].path = t[m].path
          PROVE  n = m
        BY <2>4, <2>6, <2>7, <3>1, <3>4
    <3> QED
        BY <2>6, <3>1, <3>3, <3>4
  <2> QED
      BY <2>9, <2>10, <2>11 DEF Met
<1>6. CASE job[p].pc = "scan" /\ ~Meet(p)
  <2>1. job'[p].pc # "scan" /\ job'[p].set \in {<<>>, job[p].set}
      BY <1>6, ScanFrame DEF NewJob
  <2> QED
      BY <1>3, <2>1
<1>7. CASE job[p].pc = "each"
  <2>1. NewJob.pc = "idle" /\ NewJob.set = <<>>
      BY DEF NewJob
  <2>2. job'[p].pc # "scan" /\ job'[p].set \in {<<>>, job[p].set}
      BY <1>7, <2>1, EachFrame
  <2> QED
      BY <1>3, <2>2
<1>8. CASE job[p].pc \notin Early
  <2>1. job'[p].pc # "scan" /\ job'[p].set \in {<<>>, job[p].set}
      BY <1>8, LateFrame DEF NewJob
  <2> QED
      BY <1>3, <2>1
<1> QED
    BY <1>4, <1>5, <1>6, <1>7, <1>8 DEF Early

\* The names of two members of the set are paths that may be traversed.
LEMMA SetPaths ==
    ASSUME TypeOK, NEW p \in Instances, NEW n \in DOMAIN job[p].set
    PROVE  job[p].set[n] \in FileMetadata
           /\ job[p].set[n].path \in Targets /\ job[p].set[n].path \in Paths
<1>1. job[p].set[n] \in FileMetadata
    BY DEF TypeOK, Job
<1>2. job[p].set[n].path \in Targets
    BY <1>1 DEF FileMetadata
<1> QED
    BY <1>1, <1>2, DedupAssumption DEF Targets, Paths

\* A step on the file at hand changes paths other than the origin, and no
\* step takes its content from an inode in use.
LEMMA OriginStays ==
    ASSUME OriginInv, NEW p \in Instances, Step(p) \/ Crash(p), job[p].pc \notin Early
    PROVE  dirent'[Src(p)] = dirent[Src(p)]
           /\ ino'[dirent[Src(p)]].full = ino[dirent[Src(p)]].full
<1>1. TypeOK /\ Readable(Src(p)) /\ Dst(p) # Src(p)
      /\ (job[p].pc \in Staging1 => Tmp(p) # Src(p))
    BY DEF OriginInv, OriginApart, OriginReadable, Early
<1>2. Src(p) \in Paths /\ Dst(p) \in Paths /\ Tmp(p) \in Paths
    BY <1>1, AtHand, SetPaths, Names DEF Src, Origin, Early
<1>3. /\ dirent \in [Paths -> Inodes \cup Paths \cup {NONE}]
      /\ ino \in [Inodes -> [full : BOOLEAN, meta : Inodes, clone : Inodes]]
      /\ dirent[Src(p)] \in Inodes
    BY <1>1 DEF TypeOK, Readable
<1>4. CASE Clonefile(p)
  <2> DEFINE i == CHOOSE n \in Inodes \ Used : TRUE
  <2>1. i \in Inodes /\ i \notin Used /\ dirent' = [dirent EXCEPT ![Tmp(p)] = i]
        /\ job[p].pc = "clone"
      BY <1>4 DEF Clonefile, At
  <2>2. \E r : ino' = [ino EXCEPT ![i] = r]
      BY <1>4 DEF Clonefile
  <2>3. i # dirent[Src(p)]
      BY <1>2, <2>1 DEF Used
  <2> HIDE DEF i
  <2> QED
      BY <1>1, <1>2, <1>3, <2>1, <2>2, <2>3 DEF Staging1
<1>5. CASE CopyMetadata(p)
  <2>1. dirent' = dirent
      BY <1>5 DEF CopyMetadata
  <2>2. ino'[dirent[Src(p)]].full = ino[dirent[Src(p)]].full
      BY <1>3, <1>5 DEF CopyMetadata
  <2> QED
      BY <2>1, <2>2
<1>6. CASE Rename(p)
  <2>1. /\ dirent' = [dirent EXCEPT ![Dst(p)] = dirent[Tmp(p)], ![Tmp(p)] = NONE]
        /\ ino' = ino /\ job[p].pc = "rename"
      BY <1>6 DEF Rename, At
  <2> QED
      BY <1>1, <1>2, <1>3, <2>1 DEF Staging1
<1>7. CASE Undo(p)
  <2>1. /\ dirent' = [dirent EXCEPT ![Tmp(p)] = NONE]
        /\ ino' = ino /\ job[p].pc = "undo"
      BY <1>7 DEF Undo, At
  <2> QED
      BY <1>1, <1>2, <1>3, <2>1 DEF Staging1
<1>8. CASE Unlink(p) \/ Make(p)
  <2>1. ino' = ino /\ \E x : dirent' = [dirent EXCEPT ![Dst(p)] = x]
      BY <1>8 DEF Unlink, Make
  <2> QED
      BY <1>1, <1>2, <1>3, <2>1
<1> QED
    BY <1>1, <1>4, <1>5, <1>6, <1>7, <1>8, Writers

\* A file that is replaced is another path than the origin: the same path was
\* recorded alike, and so counts as cloned or linked already.
LEMMA ReplacedApart ==
    ASSUME TypeOK, Met, Twice = {} \/ NeverSymlinks, NEW p \in Instances,
           job[p].pc = "each", Verdict(p) = "replace", job[p].idx \in DOMAIN job[p].set
    PROVE  Dst(p) # Src(p)
<1>1. job[p].idx # job[p].origin /\ ~Shared(p)
    BY DEF Verdict
<1>2. job[p].origin \in DOMAIN job[p].set
    BY DEF TypeOK, JobTypeOK
<1>3. CASE Twice = {}
    BY <1>1, <1>2, <1>3 DEF Met, MetOnce, Dst, Src, Fm, Origin
<1>4. CASE NeverSymlinks
  <2>1. Mode(p) \in {"clone", "link"}
      BY <1>4, GivenMode DEF NeverSymlinks, Mode, TypeOK, JobTypeOK
  <2> QED
      BY <1>1, <1>2, <2>1 DEF Met, MetAlike, Shared, Dst, Src, Fm, Origin
<1> QED
    BY <1>3, <1>4

\* Every step keeps the origin invariant.
LEMMA OriginStep ==
    ASSUME OriginInv, OneInstance, Twice = {} \/ NeverSymlinks, [Next]_vars
    PROVE  OriginInv'
<1>1. TypeOK /\ TypeOK' /\ Met /\ OriginApart /\ OriginReadable
    BY TypesStep DEF OriginInv
<1>2. CASE UNCHANGED vars
  <2>1. Met'
    <3>1. MetAsIs'
        BY <1>1, <1>2 DEF Met, MetAsIs, Readable
    <3>2. MetOnce' /\ MetAlike'
        BY <1>1, <1>2 DEF Met, MetOnce, MetAlike
    <3> QED
        BY <3>1, <3>2 DEF Met
  <2>2. OriginApart'
      BY <1>1, <1>2 DEF OriginApart, Tmp, Dst, Fm, Src, Origin
  <2>3. OriginReadable'
      BY <1>1, <1>2 DEF OriginReadable, Readable, Src, Origin
  <2> QED
      BY <1>1, <2>1, <2>2, <2>3 DEF OriginInv
<1> SUFFICES ASSUME NEW p \in Instances, Step(p) \/ Crash(p)
             PROVE  OriginInv'
    BY <1>2 DEF Next, Terminated
<1>3. Met' /\ \A q \in Instances : q = p
    BY <1>1, MetStep DEF OneInstance
<1> SUFFICES /\ job'[p].pc \notin Early => Dst(p)' # Src(p)'
             /\ job'[p].pc \in Staging1 => Tmp(p)' # Src(p)'
             /\ job'[p].pc \notin {"idle", "scan"} => Readable(Src(p))'
    BY <1>1, <1>3 DEF OriginInv, OriginApart, OriginReadable
<1>4. CASE job'[p].pc \in {"idle", "scan"}
    BY <1>4 DEF Early, Staging1
<1>5. ASSUME UNCHANGED fs, job'[p].set = job[p].set, job'[p].origin = job[p].origin
      PROVE  Readable(Src(p))' = Readable(Src(p)) /\ Src(p)' = Src(p)
    BY <1>5 DEF Readable, Src, Origin
<1>6. CASE job[p].pc = "idle"
  <2>1. job'[p].pc = "scan"
      BY <1>1, <1>6, Started
  <2> QED
      BY <1>4, <2>1
<1>7. CASE job[p].pc = "scan" /\ job'[p].pc \notin {"idle", "scan"}
  <2>1. PICK n \in DOMAIN job[p].set :
          /\ UNCHANGED fs /\ job'[p].pc = "each"
          /\ job'[p].set = job[p].set /\ job'[p].origin = n
      BY <1>1, <1>7, ScanFrame DEF NewJob
  <2>2. Readable(job[p].set[n].path)
      BY <1>7 DEF Met, MetAsIs, OriginInv
  <2>3. Readable(Src(p))'
      BY <2>1, <2>2 DEF Readable, Src, Origin
  <2> QED
      BY <2>1, <2>3 DEF Early, Staging1
<1>8. CASE job[p].pc = "each" /\ job'[p].pc # "idle"
  <2>1. NewJob.pc = "idle"
      BY DEF NewJob
  <2>2. /\ UNCHANGED fs /\ job'[p].set = job[p].set /\ job'[p].origin = job[p].origin
        /\ job'[p].pc \notin Staging1
        /\ \/ job'[p].pc = "each"
           \/ Verdict(p) = "replace" /\ job'[p].idx = job[p].idx
      BY <1>1, <1>8, <2>1, EachFrame DEF Staging1
  <2>3. Readable(Src(p))' /\ Src(p)' = Src(p)
      BY <1>1, <1>5, <1>8, <2>2 DEF OriginReadable
  <2>4. CASE job'[p].pc # "each"
    <3>1. job'[p].pc \notin Early
        BY <1>1, <1>8, <2>1, <2>4, EachFrame DEF Early
    <3>2. job'[p].idx \in DOMAIN job'[p].set
        BY <1>1, <3>1 DEF TypeOK, JobTypeOK, Early
    <3>3. Dst(p) # Src(p) /\ Dst(p)' = Dst(p)
        BY <1>1, <1>8, <2>2, <2>4, <3>2, ReplacedApart DEF Dst, Fm
    <3> QED
        BY <2>2, <2>3, <3>3
  <2> QED
      BY <2>2, <2>3, <2>4 DEF Early
<1>9. CASE job[p].pc \notin Early /\ job'[p].pc \notin {"idle", "scan"}
  <2>1. NewJob.pc = "idle"
      BY DEF NewJob
  <2>2. /\ job'[p].set = job[p].set /\ job'[p].origin = job[p].origin
        /\ job'[p].pc = "each" \/ job'[p].idx = job[p].idx
      BY <1>1, <1>9, <2>1, LateFrame
  <2>3. Src(p)' = Src(p)
      BY <2>2 DEF Src, Origin
  <2>4. Readable(Src(p)) /\ Readable(Src(p))'
    <3>1. Readable(Src(p))
        BY <1>1, <1>9 DEF OriginReadable, Early
    <3> QED
        BY <1>9, <2>3, <3>1, OriginStays DEF Readable
  <2>5. job'[p].pc # "each" => Dst(p)' = Dst(p) /\ Tmp(p)' = Tmp(p)
      BY <2>2 DEF Dst, Tmp, Fm
  <2>6. job'[p].pc \notin Early => Dst(p)' # Src(p)'
      BY <1>1, <1>9, <2>3, <2>5 DEF OriginApart, Early
  <2>7. job'[p].pc \in Staging1 => Tmp(p)' # Src(p)'
    <3>1. CASE job'[p].pc = "clone"
      <4>1. dirent[Tmp(p)] = NONE
          BY <1>1, <1>9, <3>1, Flow
      <4>2. Tmp(p) # Src(p)
          BY <2>4, <4>1, DedupAssumption DEF Readable
      <4> QED
          BY <2>3, <2>5, <3>1, <4>2
    <3>2. CASE job'[p].pc \in Staging1 \ {"clone"}
      <4>1. job[p].pc \in Staging1
          BY <1>1, <1>9, <3>2, Flow
          DEF Clonefile, Check, CopyMetadata, Recheck, At, Staging1
      <4> QED
          BY <1>1, <2>3, <2>5, <3>2, <4>1 DEF OriginApart, Staging1
    <3> QED
        BY <3>1, <3>2
  <2> QED
      BY <2>4, <2>6, <2>7
<1> QED
    BY <1>4, <1>6, <1>7, <1>8, <1>9 DEF Early

\* As long as a set is being worked on its origin can be read and has its
\* content, with any failing calls and crashes and after any runs in any modes,
\* if no other instance runs and -s is not given a file by two arguments.
THEOREM OriginAlwaysSurvives ==
    ASSUME OneInstance, Twice = {} \/ NeverSymlinks
    PROVE  Spec => []OriginSurvives
<1>1. Init => OriginInv
    BY OriginInit
<1>2. OriginInv /\ [Next]_vars => OriginInv'
    BY OriginStep
<1>3. OriginInv => OriginSurvives
  <2> SUFFICES ASSUME OriginInv, NEW p \in Instances, job[p].pc \notin {"idle", "scan"}
               PROVE  InodeAt(Src(p)) # NONE /\ ino[InodeAt(Src(p))].full
      BY DEF OriginSurvives
  <2>1. dirent[Src(p)] \in Inodes /\ ino[dirent[Src(p)]].full
      BY DEF OriginInv, OriginReadable, Readable
  <2>2. Src(p) \in Paths
      BY SetPaths DEF OriginInv, TypeOK, JobTypeOK, Src, Origin
  <2>3. InodeAt(Src(p)) = dirent[Src(p)]
      BY <2>1, <2>2, DedupAssumption DEF InodeAt, Resolved, RealPath
  <2> QED
      BY <2>1, <2>3, DedupAssumption
<1> QED
    BY <1>1, <1>2, <1>3, PTL DEF Spec

-----------------------------------------------------------------------------
(* The files that are never replaced *)

\* What protects a file in every mode.
Kept(f) == f \notin Roots \/ Linked(f) \/ Inode0[f] \in Immutable
KeptUntouched == \A f \in Files : Kept(f) => dirent[<<f, 0>>] = Inode0[f]

\* What was recorded of a protected file shows it is.
KeptRecord(m) ==
    /\ m.path[1] \in Roots
    /\ \A f \in Files : m.path = <<f, 0>> =>
         (Linked(f) => m.nlink > 1) /\ (Inode0[f] \in Immutable => m.immutable)

\* The inode of a protected file keeps its metadata, for no staging name that
\* metadata are copied to is a name of it.
KeptInode(i) == \E f \in Files : Kept(f) /\ i = Inode0[f]
KeptMetadata == \A f \in Files : Kept(f) => ino[Inode0[f]].meta = Inode0[f]
KeptMet ==
    \A p \in Instances :
        /\ job[p].pc = "scan" => \A v \in job[p].todo : v[1][1] \in Roots
        /\ \A n \in DOMAIN job[p].set : KeptRecord(job[p].set[n])
        /\ job[p].pc \notin Early => ~(Fm(p).nlink > 1) /\ ~Fm(p).immutable
KeptApart ==
    \/ /\ CloneOnly /\ NoUnlink
       /\ \A path \in Paths : path[2] > 0 => ~KeptInode(dirent[path])
    \/ /\ OneInstance
       /\ \A p \in Instances :
            job[p].pc \in {"check", "copy"} => ~KeptInode(dirent[Tmp(p)])

KeptInv == TypeOK /\ KeptUntouched /\ KeptMetadata /\ KeptMet /\ KeptApart

\* The invariant holds at the start.
LEMMA KeptInit == ASSUME OneInstance \/ CloneOnly PROVE Init => KeptInv
<1> SUFFICES ASSUME Init PROVE KeptInv
    OBVIOUS
<1>1. \A p \in Instances : job[p].pc = "idle" /\ job[p].set = <<>>
    BY DEF Init, NewJob
<1>2. KeptUntouched /\ KeptMetadata
    BY FileNames, DedupAssumption DEF Init, KeptUntouched, KeptMetadata
<1>3. KeptMet
    BY <1>1 DEF KeptMet, Early
<1>4. NoUnlink /\ \A p \in Instances : job[p].pc \notin {"check", "copy"}
    BY <1>1 DEF NoUnlink
<1>5. \A path \in Paths : path[2] > 0 => ~KeptInode(dirent[path])
  <2> SUFFICES ASSUME NEW path \in Paths, path[2] > 0
               PROVE  ~KeptInode(dirent[path])
      OBVIOUS
  <2>1. path[2] # 0
      BY PathParts
  <2>2. dirent[path] = NONE
      BY <2>1 DEF Init
  <2> QED
      BY <2>2, DedupAssumption DEF KeptInode
<1> QED
    BY <1>2, <1>3, <1>4, <1>5, TypesInit DEF KeptInv, KeptApart

\* Of two names of an inode stat counts both.
LEMMA TwoNames ==
    ASSUME NEW i, NEW path \in Paths, NEW q \in Paths, path # q,
           dirent[path] = i, dirent[q] = i
    PROVE  LinkCount(i) > 1
<1> DEFINE S == {r \in Paths : dirent[r] = i}
<1>1. IsFiniteSet(Files) /\ MaxStage \in Nat
    BY DedupAssumption
<1>2. IsFiniteSet(0 .. MaxStage)
    BY <1>1, FS_Interval
<1>3. IsFiniteSet(Paths)
    BY <1>1, <1>2, FS_Product DEF Paths
<1>4. IsFiniteSet(S)
    BY <1>3, FS_Subset
<1>5. path \in S /\ q \in S
    OBVIOUS
<1> HIDE DEF S
<1>6. Cardinality(S) \in Nat
    BY <1>4, FS_CardinalityType
<1>7. Cardinality(S) # 0
    BY <1>4, <1>5, FS_EmptySet
<1>8. Cardinality(S) # 1
    BY <1>4, <1>5, FS_Singleton
<1>9. Cardinality(S) > 1
    BY <1>6, <1>7, <1>8
<1> QED
    BY <1>9 DEF S, LinkCount

\* What is recorded of a file the traversal reaches shows whether it is
\* protected.
LEMMA KeptRecorded ==
    ASSUME KeptInv, NEW path \in Targets, path[1] \in Roots, dirent[path] \in Inodes
    PROVE  KeptRecord(Metadata(path))
<1>1. TypeOK /\ KeptUntouched /\ KeptMetadata
    BY DEF KeptInv
<1> DEFINE m == Metadata(path)
<1>2. /\ m.path = path /\ m.nlink = LinkCount(dirent[path])
      /\ m.immutable = (ino[dirent[path]].meta \in Immutable)
    BY DEF Metadata
<1> HIDE DEF m
<1> SUFFICES ASSUME NEW f \in Files, path = <<f, 0>>
             PROVE  (Linked(f) => m.nlink > 1) /\ (Inode0[f] \in Immutable => m.immutable)
    BY <1>2 DEF KeptRecord, m
<1>3. ASSUME Linked(f)
      PROVE  m.nlink > 1
  <2>1. PICK g \in Files \ {f} : Inode0[g] = Inode0[f]
      BY <1>3 DEF Linked
  <2>2. Kept(f) /\ Kept(g)
      BY <1>3, <2>1 DEF Kept, Linked
  <2>3. dirent[<<f, 0>>] = Inode0[f] /\ dirent[<<g, 0>>] = Inode0[f]
      BY <1>1, <2>1, <2>2 DEF KeptUntouched
  <2>4. <<f, 0>> \in Paths /\ <<g, 0>> \in Paths /\ <<f, 0>> # <<g, 0>>
      BY <2>1, FileNames
  <2>5. LinkCount(Inode0[f]) > 1
      BY <2>3, <2>4, TwoNames
  <2> QED
      BY <1>2, <2>3, <2>5
<1>4. ASSUME Inode0[f] \in Immutable
      PROVE  m.immutable
    BY <1>1, <1>2, <1>4 DEF Kept, KeptUntouched, KeptMetadata
<1> QED
    BY <1>3, <1>4

\* The file at hand is not protected.
LEMMA HandNotKept ==
    ASSUME KeptInv, NEW p \in Instances, job[p].pc \notin Early,
           NEW f \in Files, Kept(f)
    PROVE  Dst(p) # <<f, 0>>
<1>1. /\ KeptRecord(Fm(p))
      /\ ~(Fm(p).nlink > 1) /\ ~Fm(p).immutable
    BY AtHand DEF KeptInv, KeptMet
<1> QED
    BY <1>1 DEF KeptRecord, Kept, Dst

\* The records stay true, and only an unprotected file is replaced.
LEMMA KeptMetStep ==
    ASSUME KeptInv, NEW p \in Instances, Step(p) \/ Crash(p)
    PROVE  KeptMet'
<1>1. TypeOK /\ TypeOK' /\ KeptMet
    BY TypesStep DEF KeptInv, Next
<1>2. Others(p)
    BY <1>1, IdleFrame, ScanFrame, EachFrame, LateFrame DEF Early
<1> SUFFICES /\ job'[p].pc = "scan" => \A v \in job'[p].todo : v[1][1] \in Roots
             /\ \A n \in DOMAIN job'[p].set : KeptRecord(job'[p].set[n])
             /\ job'[p].pc \notin Early => ~(Fm(p)'.nlink > 1) /\ ~Fm(p)'.immutable
    BY <1>1, <1>2 DEF KeptMet, Others, Fm
<1>3. NewJob.pc = "idle" /\ NewJob.set = <<>>
    BY DEF NewJob
<1>4. CASE job[p].pc = "idle"
  <2>1. job'[p].pc = "scan" /\ job'[p].set = <<>> /\ job'[p].todo = Visits
      BY <1>1, <1>4, Started
  <2>2. \A v \in Visits : v[1][1] \in Roots
      BY DEF Visits
  <2> QED
      BY <2>1, <2>2 DEF Early
<1>5. CASE Meet(p)
  <2>1. PICK v \in job[p].todo :
           /\ v[1] \in Targets
           /\ job'[p].todo = job[p].todo \ {v} /\ job'[p].pc = "scan"
           /\ \/ job'[p].set = job[p].set
              \/ /\ dirent[v[1]] \in Inodes
                 /\ DOMAIN job'[p].set = DOMAIN job[p].set \cup {Len(job[p].set) + 1}
                 /\ job'[p].set[Len(job[p].set) + 1] = Metadata(v[1])
                 /\ \A n \in DOMAIN job[p].set : job'[p].set[n] = job[p].set[n]
      BY <1>1, <1>5, MeetFrame
  <2>2. v[1][1] \in Roots /\ job'[p].todo \subseteq job[p].todo /\ job[p].pc = "scan"
      BY <1>1, <1>5, <2>1 DEF KeptMet, Meet, At
  <2>3. dirent[v[1]] \in Inodes => KeptRecord(Metadata(v[1]))
      BY <2>1, <2>2, KeptRecorded
  <2> QED
      BY <1>1, <2>1, <2>2, <2>3 DEF KeptMet, Early
<1>6. CASE job[p].pc = "scan" /\ ~Meet(p)
  <2>1. job'[p].pc \in {"idle", "each"} /\ job'[p].set \in {<<>>, job[p].set}
      BY <1>1, <1>3, <1>6, ScanFrame
  <2> QED
      BY <1>1, <2>1 DEF KeptMet, Early
<1>7. CASE job[p].pc = "each"
  <2>1. /\ job'[p].pc # "scan" /\ job'[p].set \in {<<>>, job[p].set}
        /\ \/ job'[p].pc \in {"idle", "each"}
           \/ /\ Verdict(p) = "replace" /\ job'[p].idx = job[p].idx
              /\ job'[p].set = job[p].set
      BY <1>1, <1>3, <1>7, EachFrame
  <2>2. Verdict(p) = "replace" => ~(Fm(p).nlink > 1) /\ ~Fm(p).immutable
      BY DEF Verdict
  <2> QED
      BY <1>1, <2>1, <2>2 DEF KeptMet, Early, Fm
<1>8. CASE job[p].pc \notin Early
  <2>1. /\ job'[p].pc # "scan" /\ job'[p].set \in {<<>>, job[p].set}
        /\ \/ job'[p].pc \in {"idle", "each"}
           \/ job'[p].idx = job[p].idx /\ job'[p].set = job[p].set
      BY <1>1, <1>3, <1>8, LateFrame
  <2> QED
      BY <1>1, <1>8, <2>1 DEF KeptMet, Early, Fm
<1> QED
    BY <1>4, <1>5, <1>6, <1>7, <1>8 DEF Early

\* No step changes the entry of a protected file.
LEMMA KeptUntouchedStep ==
    ASSUME KeptInv, NEW p \in Instances, Step(p) \/ Crash(p), NEW f \in Files, Kept(f)
    PROVE  dirent'[<<f, 0>>] = dirent[<<f, 0>>]
<1>1. TypeOK /\ <<f, 0>> \in Paths
    BY FileNames DEF KeptInv
<1>2. CASE job[p].pc \in Early
    BY <1>1, <1>2, EarlySteps
<1>3. CASE job[p].pc \notin Early
  <2>1. /\ Dst(p) # <<f, 0>> /\ Dst(p) \in Paths
        /\ Tmp(p) # <<f, 0>> /\ Tmp(p) \in Paths
    <3>1. Tmp(p)[2] > 0 /\ Dst(p) \in Paths /\ Tmp(p) \in Paths
        BY <1>1, <1>3, Names DEF Early
    <3>2. Tmp(p) # <<f, 0>>
        BY <3>1
    <3> QED
        BY <1>3, <3>1, <3>2, HandNotKept
  <2>2. dirent \in [Paths -> Inodes \cup Paths \cup {NONE}]
      BY <1>1 DEF TypeOK
  <2>3. CASE Clonefile(p) \/ Undo(p)
    <3>1. \E x : dirent' = [dirent EXCEPT ![Tmp(p)] = x]
        BY <2>3 DEF Clonefile, Undo
    <3> QED
        BY <1>1, <2>1, <2>2, <3>1
  <2>4. CASE Rename(p)
    <3>1. dirent' = [dirent EXCEPT ![Dst(p)] = dirent[Tmp(p)], ![Tmp(p)] = NONE]
        BY <2>4 DEF Rename
    <3> QED
        BY <1>1, <2>1, <2>2, <3>1
  <2>5. CASE Unlink(p) \/ Make(p)
    <3>1. \E x : dirent' = [dirent EXCEPT ![Dst(p)] = x]
        BY <2>5 DEF Unlink, Make
    <3> QED
        BY <1>1, <2>1, <2>2, <3>1
  <2>6. CASE CopyMetadata(p)
      BY <2>6 DEF CopyMetadata
  <2> QED
      BY <1>1, <2>3, <2>4, <2>5, <2>6, Writers
<1> QED
    BY <1>2, <1>3

\* No step changes the metadata of its inode.
LEMMA KeptMetadataStep ==
    ASSUME KeptInv, NEW p \in Instances, Step(p) \/ Crash(p), NEW f \in Files, Kept(f)
    PROVE  ino'[Inode0[f]].meta = ino[Inode0[f]].meta
<1>1. TypeOK /\ KeptUntouched /\ KeptApart
    BY DEF KeptInv
<1>2. /\ ino \in [Inodes -> [full : BOOLEAN, meta : Inodes, clone : Inodes]]
      /\ Inode0[f] \in Inodes
    BY <1>1, DedupAssumption DEF TypeOK
<1>3. CASE Clonefile(p)
  <2> DEFINE i == CHOOSE n \in Inodes \ Used : TRUE
  <2>1. i \in Inodes /\ i \notin Used
      BY <1>3 DEF Clonefile
  <2>2. \E r : ino' = [ino EXCEPT ![i] = r]
      BY <1>3 DEF Clonefile
  <2>3. i # Inode0[f]
      BY <1>1, <2>1, FileNames DEF Used, KeptUntouched
  <2> HIDE DEF i
  <2> QED
      BY <1>2, <2>1, <2>2, <2>3
<1>4. CASE CopyMetadata(p)
  <2>1. job[p].pc = "copy" /\ \E x : ino' = [ino EXCEPT ![dirent[Tmp(p)]].meta = x]
      BY <1>4 DEF CopyMetadata, At
  <2>2. Tmp(p) \in Paths /\ Tmp(p)[2] > 0
      BY <1>1, <2>1, Names
  <2>3. ~KeptInode(dirent[Tmp(p)])
      BY <1>1, <2>1, <2>2 DEF KeptApart
  <2>4. dirent[Tmp(p)] # Inode0[f]
      BY <2>3 DEF KeptInode
  <2> QED
      BY <1>2, <2>1, <2>4
<1>5. CASE ~Clonefile(p) /\ ~CopyMetadata(p)
  <2>1. ino' = ino
      BY <1>1, <1>5, Writers DEF Rename, Undo, Unlink, Make
  <2> QED
      BY <2>1
<1> QED
    BY <1>3, <1>4, <1>5

\* Runs that only clone never come to the unlink of the other modes.
LEMMA CloneFlow ==
    ASSUME TypeOK, CloneOnly, NoUnlink, NEW p \in Instances, Step(p) \/ Crash(p)
    PROVE  NoUnlink'
<1>1. NewJob.pc = "idle"
    BY DEF NewJob
<1>2. CASE job[p].pc \in Early
  <2>1. job[p].pc = "each" => Mode(p) = "clone"
      BY DEF CloneOnly, TypeOK, JobTypeOK, Mode
  <2>2. job'[p].pc \notin {"relative", "unlink", "make"} /\ Others(p)
    <3>1. CASE job[p].pc = "idle"
        BY <3>1, IdleFrame, Started
    <3>2. CASE job[p].pc = "scan"
        BY <1>1, <3>2, ScanFrame
    <3>3. CASE job[p].pc = "each"
        BY <1>1, <2>1, <3>3, EachFrame
    <3> QED
        BY <1>2, <3>1, <3>2, <3>3 DEF Early
  <2> QED
      BY <2>2, NoUnlinkStep
<1>3. CASE job[p].pc \notin Early
  <2>1. job'[p].pc \notin {"relative", "unlink", "make"}
      BY <1>3, Flow DEF NoUnlink, Relative, Unlink, At
  <2> QED
      BY <1>3, <2>1, LateFrame, NoUnlinkStep
<1> QED
    BY <1>2, <1>3

\* No step gives a staging name the inode of a protected file.
LEMMA KeptApartStep ==
    ASSUME KeptInv, NEW p \in Instances, Step(p) \/ Crash(p)
    PROVE  KeptApart'
<1>1. TypeOK /\ KeptUntouched /\ KeptApart
    BY DEF KeptInv
<1>2. dirent \in [Paths -> Inodes \cup Paths \cup {NONE}]
    BY <1>1 DEF TypeOK
<1>3. \A i \in Inodes \ Used : ~KeptInode(i)
    BY <1>1, FileNames DEF KeptInode, KeptUntouched, Used
<1>4. ~KeptInode(NONE)
    BY DedupAssumption DEF KeptInode
<1>5. CASE CloneOnly /\ NoUnlink /\ \A path \in Paths : path[2] > 0 => ~KeptInode(dirent[path])
  <2>1. NoUnlink'
      BY <1>1, <1>5, CloneFlow
  <2> SUFFICES ASSUME NEW path \in Paths, path[2] > 0
               PROVE  ~KeptInode(dirent'[path])
      BY <1>5, <2>1 DEF KeptApart, KeptInode
  <2>2. ~Unlink(p) /\ ~Make(p)
      BY <1>5 DEF NoUnlink, Unlink, Make, At
  <2>3. CASE Clonefile(p)
    <3> DEFINE i == CHOOSE n \in Inodes \ Used : TRUE
    <3>1. i \in Inodes \ Used /\ dirent' = [dirent EXCEPT ![Tmp(p)] = i]
        BY <2>3 DEF Clonefile
    <3> HIDE DEF i
    <3>2. dirent'[path] \in {dirent[path], i}
        BY <1>2, <3>1
    <3> QED
        BY <1>3, <1>5, <3>1, <3>2
  <2>4. CASE Rename(p)
    <3>1. dirent' = [dirent EXCEPT ![Dst(p)] = dirent[Tmp(p)], ![Tmp(p)] = NONE]
          /\ job[p].pc = "rename"
        BY <2>4 DEF Rename, At
    <3>2. Tmp(p) \in Paths /\ Tmp(p)[2] > 0
        BY <1>1, <3>1, Names
    <3>3. dirent'[path] \in {dirent[path], dirent[Tmp(p)], NONE}
        BY <1>2, <3>1
    <3> QED
        BY <1>4, <1>5, <3>2, <3>3
  <2>5. CASE Undo(p)
    <3>1. dirent' = [dirent EXCEPT ![Tmp(p)] = NONE]
        BY <2>5 DEF Undo
    <3>2. dirent'[path] \in {dirent[path], NONE}
        BY <1>2, <3>1
    <3> QED
        BY <1>4, <1>5, <3>2
  <2>6. CASE ~Clonefile(p) /\ ~Rename(p) /\ ~Undo(p)
    <3>1. dirent' = dirent
        BY <1>1, <2>2, <2>6, Writers DEF CopyMetadata
    <3> QED
        BY <1>5, <3>1
  <2> QED
      BY <2>3, <2>4, <2>5, <2>6
<1>6. CASE OneInstance /\ \A q \in Instances :
             job[q].pc \in {"check", "copy"} => ~KeptInode(dirent[Tmp(q)])
  <2>1. \A q \in Instances : q = p
      BY <1>6 DEF OneInstance
  <2> SUFFICES ASSUME job'[p].pc \in {"check", "copy"}
               PROVE  ~KeptInode(dirent'[Tmp(p)'])
      BY <1>6, <2>1 DEF KeptApart, KeptInode
  <2>2. job[p].pc \notin Early
    <3>1. NewJob.pc = "idle"
        BY DEF NewJob
    <3>2. job[p].pc # "idle"
        BY <1>1, Started
    <3> QED
        BY <1>1, <3>1, <3>2, ScanFrame, EachFrame DEF Early
  <2>3. Tmp(p)' = Tmp(p) /\ Tmp(p) \in Paths
    <3>1. NewJob.pc = "idle"
        BY DEF NewJob
    <3>2. job'[p].set = job[p].set /\ job'[p].idx = job[p].idx
        BY <1>1, <2>2, <3>1, LateFrame
    <3> QED
        BY <1>1, <2>2, <3>2, Names DEF Tmp, Dst, Fm, Early
  <2>4. CASE job'[p].pc = "check"
    <3> DEFINE i == CHOOSE n \in Inodes \ Used : TRUE
    <3>1. Clonefile(p)
        BY <1>1, <2>2, <2>4, Flow
    <3>2. i \in Inodes \ Used /\ dirent' = [dirent EXCEPT ![Tmp(p)] = i]
        BY <3>1 DEF Clonefile
    <3> HIDE DEF i
    <3>3. dirent'[Tmp(p)] = i
        BY <1>2, <2>3, <3>2
    <3> QED
        BY <1>3, <2>3, <3>2, <3>3
  <2>5. CASE job'[p].pc = "copy"
    <3>1. Check(p)
        BY <1>1, <2>2, <2>5, Flow
    <3>2. dirent' = dirent /\ job[p].pc = "check"
        BY <3>1 DEF Check, At
    <3> QED
        BY <1>6, <2>3, <3>2
  <2> QED
      BY <2>4, <2>5
<1> QED
    BY <1>1, <1>5, <1>6 DEF KeptApart

\* Every step keeps the invariant of the protected files.
LEMMA KeptStep == ASSUME KeptInv, [Next]_vars PROVE KeptInv'
<1>1. TypeOK'
    BY TypesStep DEF KeptInv
<1>2. CASE UNCHANGED vars
    BY <1>1, <1>2 DEF KeptInv, KeptUntouched, KeptMetadata, KeptMet, KeptApart, NoUnlink,
                      Tmp, Dst, Fm
<1>3. ASSUME NEW p \in Instances, Step(p) \/ Crash(p)
      PROVE  KeptInv'
  <2>1. KeptUntouched'
      BY <1>3, KeptUntouchedStep DEF KeptInv, KeptUntouched
  <2>2. KeptMetadata'
      BY <1>3, KeptMetadataStep DEF KeptInv, KeptMetadata
  <2> QED
      BY <1>1, <1>3, <2>1, <2>2, KeptMetStep, KeptApartStep DEF KeptInv
<1> QED
    BY <1>2, <1>3 DEF Next, Terminated

\* Files outside the arguments, files with other links and immutable files stay
\* the inodes they were: for one instance in any sequence of runs with any
\* options, and for any number of instances that only clone, with any failing
\* calls and crashes.
THEOREM ProtectedKept ==
    ASSUME OneInstance \/ CloneOnly
    PROVE  Spec => []KeptUntouched
<1>1. Init => KeptInv
    BY KeptInit
<1>2. KeptInv /\ [Next]_vars => KeptInv'
    BY KeptStep
<1>3. KeptInv => KeptUntouched
    BY DEF KeptInv
<1> QED
    BY <1>1, <1>2, <1>3, PTL DEF Spec

\* With clones only a read-only file is refused before the rename, for by then
\* the staged file has its metadata.
ReadOnlyInv ==
    /\ MetaInv
    /\ \A f \in Files : Inode0[f] \in ReadOnly => dirent[<<f, 0>>] = Inode0[f]
    /\ \A p \in Instances :
         job[p].pc = "rename" => ino[dirent[Tmp(p)]].meta \notin ReadOnly

\* Every step keeps the invariant of the read-only files.
LEMMA ReadOnlyStep ==
    ASSUME ReadOnlyInv, CloneOnly, OneInstance, [Next]_vars
    PROVE  ReadOnlyInv'
<1>1. MetaInv /\ MetaInv' /\ TypeOK
    BY MetaStep DEF ReadOnlyInv, MetaInv
<1>2. CASE UNCHANGED vars
    BY <1>1, <1>2 DEF ReadOnlyInv, Tmp, Dst, Fm
<1> SUFFICES ASSUME NEW p \in Instances, Step(p) \/ Crash(p)
             PROVE  ReadOnlyInv'
    BY <1>2 DEF Next, Terminated
<1>3. \A q \in Instances : q = p
    BY DEF OneInstance
<1>4. ASSUME job'[p].pc = "rename"
      PROVE  ino'[dirent'[Tmp(p)']].meta \notin ReadOnly
  <2>1. job[p].pc \notin Early
    <3>1. NewJob.pc = "idle"
        BY DEF NewJob
    <3>2. job[p].pc # "idle"
        BY <1>1, <1>4, Started
    <3> QED
        BY <1>1, <1>4, <3>1, <3>2, ScanFrame, EachFrame DEF Early
  <2>2. Recheck(p) /\ Acceptable(Tmp(p))
      BY <1>1, <1>4, <2>1, Flow
  <2>3. Tmp(p)' = Tmp(p) /\ UNCHANGED <<dirent, ino>>
      BY <1>1, <2>2, RecheckFull
  <2> QED
      BY <2>2, <2>3 DEF Acceptable
<1>5. ASSUME NEW f \in Files, Inode0[f] \in ReadOnly
      PROVE  dirent'[<<f, 0>>] = Inode0[f]
  <2>1. dirent[<<f, 0>>] = Inode0[f] /\ <<f, 0>> \in Paths /\ Inode0[f] \in Inodes
      BY <1>5, FileNames, DedupAssumption DEF ReadOnlyInv
  <2>2. dirent \in [Paths -> Inodes \cup Paths \cup {NONE}]
      BY <1>1 DEF TypeOK
  <2>3. ~Unlink(p) /\ ~Make(p)
      BY <1>1 DEF MetaInv, NoUnlink, Unlink, Make, At
  <2>4. CASE Clonefile(p) \/ Undo(p)
    <3>1. \E x : dirent' = [dirent EXCEPT ![Tmp(p)] = x]
        BY <2>4 DEF Clonefile, Undo
    <3>2. Tmp(p)[2] > 0
        BY <1>1, <2>4, Names DEF Clonefile, Undo, At
    <3>3. Tmp(p) # <<f, 0>>
        BY <3>2
    <3> QED
        BY <2>1, <2>2, <3>1, <3>3
  <2>5. CASE Rename(p)
    <3>1. /\ dirent' = [dirent EXCEPT ![Dst(p)] = dirent[Tmp(p)], ![Tmp(p)] = NONE]
          /\ job[p].pc = "rename"
        BY <2>5 DEF Rename, At
    <3>2. Tmp(p)[2] > 0
        BY <1>1, <3>1, Names
    <3>3. Tmp(p) # <<f, 0>>
        BY <3>2
    <3>4. /\ ino[dirent[Tmp(p)]].meta = ino[dirent[Dst(p)]].meta
          /\ ino[dirent[Tmp(p)]].meta \notin ReadOnly
        BY <1>1, <3>1 DEF MetaInv, CopiedMeta, ReadOnlyInv
    <3>5. ino[dirent[<<f, 0>>]].meta \in ReadOnly
        BY <1>1, <1>5, <2>1 DEF MetaInv, OwnMetadata
    <3>6. Dst(p) # <<f, 0>>
        BY <3>4, <3>5
    <3> QED
        BY <2>1, <2>2, <3>1, <3>3, <3>6
  <2>6. CASE ~Clonefile(p) /\ ~Rename(p) /\ ~Undo(p)
    <3>1. dirent' = dirent
        BY <1>1, <2>3, <2>6, Writers DEF CopyMetadata
    <3> QED
        BY <2>1, <3>1
  <2> QED
      BY <2>4, <2>5, <2>6
<1> QED
    BY <1>1, <1>3, <1>4, <1>5 DEF ReadOnlyInv

\* Nothing the arguments reach is read-only.
NoReadOnly == \A f \in Files : Inode0[f] \notin ReadOnly

\* The files the README exempts, read-only ones too if clones are made, are
\* never replaced: for one instance in any sequence of runs with any options,
\* and, but for read-only ones, for any number of instances that only clone.
\* Two of those may unlink each other's staging file after the metadata were
\* copied to it and rename another's, whose metadata are not yet copied.
THEOREM ProtectedNeverTouched ==
    ASSUME OneInstance \/ (CloneOnly /\ NoReadOnly)
    PROVE  Spec => []ProtectedUntouched
<1>1. Spec => []KeptUntouched
    BY ProtectedKept
<1>2. CASE ~CloneOnly \/ NoReadOnly
  <2>1. KeptUntouched => ProtectedUntouched
      BY <1>2 DEF KeptUntouched, ProtectedUntouched, Protected, Kept, CloneOnly, NoReadOnly
  <2> QED
      BY <1>1, <2>1, PTL
<1>3. CASE CloneOnly /\ OneInstance
  <2>1. Init => ReadOnlyInv
    <3> SUFFICES ASSUME Init PROVE ReadOnlyInv
        OBVIOUS
    <3>1. \A p \in Instances : job[p].pc = "idle"
        BY DEF Init, NewJob
    <3>2. \A f \in Files : dirent[<<f, 0>>] = Inode0[f]
        BY FileNames DEF Init
    <3> QED
        BY <3>1, <3>2, MetaInit DEF ReadOnlyInv
  <2>2. ReadOnlyInv /\ [Next]_vars => ReadOnlyInv'
      BY <1>3, ReadOnlyStep
  <2>3. KeptUntouched /\ ReadOnlyInv => ProtectedUntouched
      BY DEF KeptUntouched, ReadOnlyInv, ProtectedUntouched, Protected, Kept
  <2> QED
      BY <1>1, <2>1, <2>2, <2>3, PTL DEF Spec
<1> QED
    BY <1>2, <1>3

-----------------------------------------------------------------------------
(* The bytes saved, in a first run of one instance *)

\* The hypotheses: no crash, no file met twice, no -s, and clonefile gives the
\* clone the id of its source; what deduplicate counts otherwise is less.
CloneIdKept == "cloneid" \notin Failing
CountedRuns == /\ OneInstance /\ ~MayCrash /\ Twice = {}
               /\ NeverSymlinks /\ CloneIdKept

\* The files with another inode than at the start.
Moved == {f \in Files : dirent[<<f, 0>>] \in Inodes \ {Inode0[f]}}

\* The directory of the start, and what is recorded of its files.
AsGiven ==
    \A path \in Paths : dirent[path] = IF path[2] = 0 THEN Inode0[path[1]] ELSE NONE
FullNames == \A f \in Files : dirent[<<f, 0>>] \in Inodes => ino[dirent[<<f, 0>>]].full
GivenRecord(m) == m.path[2] = 0 /\ m.inode = Inode0[m.path[1]]

\* The origin is as it was, and so are the files that are still to come.
OriginAsMet(p) ==
    dirent[Src(p)] = Origin(p).inode /\ job[p].clone = ino[dirent[Src(p)]].clone
RestAsMet(p) ==
    \A m \in DOMAIN job[p].set :
        m > job[p].idx \/ (m = job[p].idx /\ job[p].pc = "each") =>
            dirent[job[p].set[m].path] = job[p].set[m].inode

\* The file at hand is as it was met up to the rename or the unlink, and from
\* the rename on it is a clone of the origin.
Staged == {"check", "copy", "recheck", "rename"}
Renamed(p) == job[p].pc \in {"restore", "verify"} /\ job[p].ok
AtHandKnown(p) ==
    /\ job[p].pc \in {"save", "tmp", "unlink"} \cup Staging1 => dirent[Dst(p)] = Fm(p).inode
    /\ job[p].pc = "make" => dirent[Dst(p)] = NONE
    /\ job[p].pc \in {"unlink", "make"} =>
         Mode(p) = "link" /\ Fm(p).inode # Origin(p).inode
    /\ Renamed(p) => dirent[Dst(p)] \in Inodes /\ ino[dirent[Dst(p)]].clone = job[p].clone
StagedKnown(p) ==
    /\ job[p].pc \in Staged =>
         /\ dirent[Tmp(p)] \in Inodes /\ dirent[Tmp(p)] # dirent[Dst(p)]
         /\ ino[dirent[Tmp(p)]].clone = job[p].clone
    /\ job[p].pc = "rename" => ino[dirent[Tmp(p)]].full
    /\ job[p].pc \in Staging1 => ~job[p].ok
    /\ job[p].pc = "verify" => job[p].ok

\* The rename comes before the count.
Counted(p) ==
    ~DryRun(p) => Cardinality(Moved) = job[p].saved + (IF Renamed(p) THEN 1 ELSE 0)

FirstRun(p) ==
    /\ NoSymlink /\ FullNames
    /\ job[p].pc \notin {"relative"}
    /\ job[p].pc = "scan" =>
         AsGiven /\ job[p].saved = 0 /\ \A v \in job[p].todo : v[1][2] = 0
    /\ \A n \in DOMAIN job[p].set : GivenRecord(job[p].set[n])
    /\ job[p].pc \notin {"idle", "scan"} => OriginAsMet(p) /\ RestAsMet(p)
    /\ AtHandKnown(p) /\ StagedKnown(p) /\ Counted(p)

SavedInv ==
    /\ OriginInv
    /\ \A p \in Instances : runs[p] = 0 => job[p].pc = "idle" /\ AsGiven /\ FullNames
    /\ \A p \in Instances : runs[p] = 1 => FirstRun(p)

\* What a step on the file at hand may change: that file, its staging name, and
\* of the inodes in use no content and no clone id.
LEMMA OneFile ==
    ASSUME TypeOK, NEW p \in Instances, Step(p), job[p].pc \notin Early
    PROVE  /\ \A path \in Paths \ {Dst(p), Tmp(p)} : dirent'[path] = dirent[path]
           /\ Rename(p) \/ Unlink(p) \/ Make(p) \/ dirent'[Dst(p)] = dirent[Dst(p)]
           /\ Clonefile(p) \/ Rename(p) \/ Undo(p) \/ dirent'[Tmp(p)] = dirent[Tmp(p)]
           /\ \A path \in Paths : dirent[path] \in Inodes =>
                /\ ino'[dirent[path]].full = ino[dirent[path]].full
                /\ ino'[dirent[path]].clone = ino[dirent[path]].clone
<1>1. /\ Dst(p) \in Paths /\ Tmp(p) \in Paths /\ Tmp(p) # Dst(p)
      /\ dirent \in [Paths -> Inodes \cup Paths \cup {NONE}]
      /\ ino \in [Inodes -> [full : BOOLEAN, meta : Inodes, clone : Inodes]]
    BY Names DEF Early, TypeOK
<1>2. CASE Clonefile(p)
  <2> DEFINE i == CHOOSE n \in Inodes \ Used : TRUE
  <2>1. i \in Inodes /\ i \notin Used /\ dirent' = [dirent EXCEPT ![Tmp(p)] = i]
      BY <1>2 DEF Clonefile
  <2>2. \E r : ino' = [ino EXCEPT ![i] = r]
      BY <1>2 DEF Clonefile
  <2>3. \A path \in Paths : dirent[path] # i
      BY <2>1 DEF Used
  <2> HIDE DEF i
  <2> QED
      BY <1>1, <1>2, <2>1, <2>2, <2>3
<1>3. CASE CopyMetadata(p)
  <2>1. dirent' = dirent /\ \E x : ino' = [ino EXCEPT ![dirent[Tmp(p)]].meta = x]
      BY <1>3 DEF CopyMetadata
  <2> QED
      BY <1>1, <2>1
<1>4. CASE Rename(p)
    BY <1>1, <1>4 DEF Rename
<1>5. CASE Undo(p)
    BY <1>1, <1>5 DEF Undo
<1>6. CASE Unlink(p) \/ Make(p)
  <2>1. ino' = ino /\ \E x : dirent' = [dirent EXCEPT ![Dst(p)] = x]
      BY <1>6 DEF Unlink, Make
  <2> QED
      BY <1>1, <1>6, <2>1
<1>7. CASE UNCHANGED <<dirent, ino>>
    BY <1>7
<1> QED
    BY <1>2, <1>3, <1>4, <1>5, <1>6, <1>7, Writers

\* TmpName clears the result, which Restore looks at.
LEMMA ResultCleared ==
    ASSUME TypeOK, NEW p \in Instances
    PROVE  /\ TmpName(p) => ~job'[p].ok
           /\ Rename(p) => job'[p].ok /\ job'[p].pc = "restore"
           /\ Restore(p) => (job'[p].pc = IF job[p].ok THEN "verify" ELSE "each")
<1>1. job \in [Instances -> Job] /\ job[p] \in Job
    BY DEF TypeOK
<1>2. ASSUME TmpName(p) PROVE ~job'[p].ok
  <2>1. PICK l \in {"clone", "restore"} : Become(p, [job[p] EXCEPT !.ok = FALSE, !.pc = l])
      BY <1>2 DEF TmpName
  <2> QED
      BY <1>1, <2>1 DEF Become, Job
<1>3. ASSUME Rename(p) PROVE job'[p].ok /\ job'[p].pc = "restore"
    BY <1>1, <1>3 DEF Rename, Become, Job
<1>4. ASSUME Restore(p) PROVE job'[p].pc = IF job[p].ok THEN "verify" ELSE "each"
    BY <1>4, Moves DEF Restore, Labels
<1> QED
    BY <1>2, <1>3, <1>4

\* At the start nothing has moved.
LEMMA NothingMoved == AsGiven => Moved = {} /\ NoSymlink /\ Cardinality(Moved) = 0
<1> SUFFICES ASSUME AsGiven PROVE Moved = {} /\ NoSymlink
    BY FS_EmptySet
<1>1. Moved = {}
    BY FileNames DEF AsGiven, Moved
<1>2. NoSymlink
    BY DedupAssumption, PathParts DEF AsGiven, NoSymlink
<1> QED
    BY <1>1, <1>2

\* The first run up to the choice of the origin.
LEMMA FirstScan ==
    ASSUME SavedInv, CountedRuns, NEW p \in Instances, Step(p), runs[p] = 1,
           job[p].pc = "scan"
    PROVE  FirstRun(p)'
<1>1. TypeOK /\ TypeOK' /\ Met /\ FirstRun(p) /\ OriginInv
    BY TypesStep DEF SavedInv, OriginInv, Next
<1>2. /\ AsGiven /\ FullNames /\ job[p].saved = 0
      /\ \A v \in job[p].todo : v[1][2] = 0
      /\ \A n \in DOMAIN job[p].set : GivenRecord(job[p].set[n])
    BY <1>1 DEF FirstRun
<1>3. UNCHANGED fs
    BY <1>1, ScanFrame
<1>4. AsGiven' /\ FullNames' /\ NoSymlink' /\ Moved' = {}
  <2>1. Moved = {} /\ NoSymlink
      BY <1>2, NothingMoved
  <2> QED
      BY <1>2, <1>3, <2>1 DEF AsGiven, FullNames, NoSymlink, Moved
<1>5. Cardinality(Moved') = 0
    BY <1>4, FS_EmptySet
<1>6. CASE job'[p].pc = "scan"
  <2>1. Meet(p)
      BY <1>1, <1>6, ScanFrame DEF CountedRuns, Crash
  <2>2. PICK v \in job[p].todo :
           /\ v[1] \in Targets
           /\ job'[p].todo = job[p].todo \ {v} /\ job'[p].saved = job[p].saved
           /\ \/ job'[p].set = job[p].set
              \/ /\ DOMAIN job'[p].set = DOMAIN job[p].set \cup {Len(job[p].set) + 1}
                 /\ job'[p].set[Len(job[p].set) + 1] = Metadata(v[1])
                 /\ \A n \in DOMAIN job[p].set : job'[p].set[n] = job[p].set[n]
      BY <1>1, <2>1, MeetFrame
  <2>3. GivenRecord(Metadata(v[1]))
    <3>1. Metadata(v[1]).path = v[1] /\ Metadata(v[1]).inode = dirent[v[1]]
        BY DEF Metadata
    <3>2. v[1][2] = 0 /\ v[1] \in Paths
        BY <1>2, <2>2, DedupAssumption DEF Targets, Paths
    <3> QED
        BY <1>2, <3>1, <3>2 DEF AsGiven, GivenRecord
  <2>4. \A n \in DOMAIN job'[p].set : GivenRecord(job'[p].set[n])
      BY <1>2, <2>2, <2>3
  <2>5. job'[p].saved = 0 /\ \A v1 \in job'[p].todo : v1[1][2] = 0
      BY <1>2, <2>2
  <2> QED
      BY <1>4, <1>5, <1>6, <2>4, <2>5
      DEF FirstRun, AtHandKnown, StagedKnown, Counted, Renamed, Staged, Staging1
<1>7. CASE job'[p].pc = "idle"
  <2>1. job'[p].set = <<>> /\ job'[p].saved = 0
      BY <1>1, <1>2, <1>7, ScanFrame DEF CountedRuns, Crash
  <2>2. ~Renamed(p)'
      BY <1>7 DEF Renamed
  <2>3. Counted(p)'
      BY <1>5, <2>1, <2>2 DEF Counted
  <2> QED
      BY <1>4, <1>7, <2>1, <2>2, <2>3
      DEF FirstRun, AtHandKnown, StagedKnown, Staged, Staging1
<1>8. CASE job'[p].pc \notin {"scan", "idle"}
  <2>1. PICK n \in DOMAIN job[p].set :
          /\ job'[p].pc = "each" /\ job'[p].set = job[p].set /\ job'[p].origin = n
          /\ job'[p].saved = job[p].saved
          /\ job'[p].clone = CloneIdAt(job[p].set[n].path)
      BY <1>1, <1>8, ScanFrame DEF CountedRuns, Crash
  <2>2. \A m \in DOMAIN job[p].set :
          /\ dirent[job[p].set[m].path] \in Inodes
          /\ job[p].set[m].inode = dirent[job[p].set[m].path]
      BY <1>1 DEF Met, MetAsIs, Readable
  <2>3. CloneIdAt(job[p].set[n].path) = ino[dirent[job[p].set[n].path]].clone
    <3>1. InodeAt(job[p].set[n].path) = dirent[job[p].set[n].path]
        BY <1>1, <2>2, SetPaths, Direct DEF FirstRun
    <3> QED
        BY <2>2, <3>1, DedupAssumption DEF CloneIdAt
  <2>4. OriginAsMet(p)'
      BY <1>3, <2>1, <2>2, <2>3 DEF OriginAsMet, Src, Origin
  <2>5. RestAsMet(p)'
      BY <1>3, <2>1, <2>2 DEF RestAsMet
  <2>6. ~Renamed(p)'
      BY <2>1 DEF Renamed
  <2>7. Counted(p)'
      BY <1>2, <1>5, <2>1, <2>6 DEF Counted
  <2> QED
      BY <1>2, <1>4, <2>1, <2>4, <2>5, <2>6, <2>7
      DEF FirstRun, AtHandKnown, StagedKnown, Staged, Staging1
<1> QED
    BY <1>6, <1>7, <1>8

\* The first run in the loop over the set.
LEMMA FirstEach ==
    ASSUME SavedInv, CountedRuns, NEW p \in Instances, Step(p), runs[p] = 1,
           job[p].pc = "each"
    PROVE  FirstRun(p)'
<1>1. TypeOK /\ TypeOK' /\ FirstRun(p)
    BY TypesStep DEF SavedInv, OriginInv, Next
<1>2. UNCHANGED fs
    BY <1>1, EachFrame
<1>3. /\ NoSymlink' /\ FullNames' /\ Moved' = Moved
      /\ \A n \in DOMAIN job[p].set : GivenRecord(job[p].set[n])
      /\ OriginAsMet(p) /\ RestAsMet(p)
    BY <1>1, <1>2 DEF FirstRun, NoSymlink, FullNames, Moved
<1>4. ~DryRun(p) => Cardinality(Moved) = job[p].saved /\ job[p].saved \in Nat
  <2>1. ~Renamed(p) /\ job[p].saved \in Nat
      BY <1>1 DEF Renamed, TypeOK, Job
  <2> QED
      BY <1>1, <2>1 DEF FirstRun, Counted
<1>5. job'[p].opt = job[p].opt /\ DryRun(p)' = DryRun(p)
    BY <1>1, EachFrame DEF CountedRuns, Crash, DryRun
<1>6. CASE job'[p].pc = "idle"
  <2>1. job'[p].set = <<>> /\ EndOfSet(p)
      BY <1>1, <1>6, EachFrame DEF CountedRuns, Crash
  <2>2. job'[p].saved = job[p].saved
      BY <1>1, <2>1 DEF EndOfSet, Leave, Become, NewJob, TypeOK
  <2>3. ~Renamed(p)'
      BY <1>6 DEF Renamed
  <2>4. Counted(p)'
      BY <1>3, <1>4, <1>5, <2>2, <2>3 DEF Counted
  <2> QED
      BY <1>3, <1>6, <2>1, <2>3, <2>4
      DEF FirstRun, AtHandKnown, StagedKnown, Staged, Staging1
<1>7. CASE job'[p].pc = "each"
  <2>1. /\ Pass(p) /\ job'[p].set = job[p].set /\ job'[p].origin = job[p].origin
        /\ job'[p].clone = job[p].clone
      BY <1>1, <1>7, EachFrame DEF CountedRuns, Crash
  <2>2. job'[p].idx = job[p].idx + 1 /\ (~DryRun(p) => job'[p].saved = job[p].saved)
    <3>1. job[p].idx \in Nat /\ job[p] \in Job /\ job \in [Instances -> Job]
        BY <1>1 DEF TypeOK, Job
    <3>2. job'[p].idx = job[p].idx + 1
        BY <3>1, <2>1 DEF Pass, Become, Job
    <3> DEFINE why == Verdict(p)
    <3>3. job'[p].saved = IF why = "dry run" THEN job[p].saved + 1 ELSE job[p].saved
        BY <3>1, <2>1 DEF Pass, Become, Job
    <3>4. ~DryRun(p) => why # "dry run"
        BY Zenon DEF Verdict
    <3> QED
        BY <3>2, <3>3, <3>4
  <2>3. ~Renamed(p)'
      BY <1>7 DEF Renamed
  <2>4. Counted(p)'
      BY <1>3, <1>4, <1>5, <2>2, <2>3 DEF Counted
  <2>5. OriginAsMet(p)'
      BY <1>2, <1>3, <2>1 DEF OriginAsMet, Src, Origin
  <2>6. RestAsMet(p)'
    <3>1. job[p].idx \in Nat /\ \A m \in DOMAIN job[p].set : m \in Nat
        BY <1>1 DEF TypeOK, Job
    <3>2. \A m \in DOMAIN job[p].set :
            m > job[p].idx + 1 \/ m = job[p].idx + 1 => m > job[p].idx
        BY <3>1
    <3> QED
        BY <1>2, <1>3, <2>1, <2>2, <3>2 DEF RestAsMet
  <2> QED
      BY <1>3, <1>7, <2>1, <2>3, <2>4, <2>5, <2>6
      DEF FirstRun, AtHandKnown, StagedKnown, Staged, Staging1
<1>8. CASE job'[p].pc \notin {"idle", "each"}
  <2>1. /\ job'[p].pc \in {"save", "tmp", "unlink", "relative"} /\ Verdict(p) = "replace"
        /\ Replace(p) /\ job'[p] = [job[p] EXCEPT !.pc = job'[p].pc]
        /\ job'[p].set = job[p].set /\ job'[p].origin = job[p].origin
        /\ job'[p].clone = job[p].clone /\ job'[p].idx = job[p].idx
        /\ job'[p].pc = "unlink" => Mode(p) = "link"
        /\ job'[p].pc = "relative" => Mode(p) = "symlink"
      BY <1>1, <1>8, EachFrame DEF CountedRuns, Crash
  <2>2. job'[p].pc # "relative"
      BY <1>1, <2>1 DEF CountedRuns, NeverSymlinks, Mode, TypeOK, JobTypeOK
  <2>3. job[p].idx \in DOMAIN job[p].set
      BY <1>1, <2>1 DEF Replace, More, TypeOK, JobTypeOK, Job
  <2>4. dirent[Dst(p)] = Fm(p).inode
      BY <1>3, <2>3 DEF RestAsMet, Dst, Fm
  <2>5. ~Shared(p)
      BY <2>1, Zenon DEF Verdict
  <2>6. Mode(p) = "link" => Fm(p).inode # Origin(p).inode
      BY <2>5 DEF Shared
  <2>7. /\ Fm(p)' = Fm(p) /\ Dst(p)' = Dst(p) /\ Origin(p)' = Origin(p)
        /\ Mode(p)' = Mode(p) /\ job'[p].saved = job[p].saved
    <3>1. job[p] \in Job
        BY <1>1 DEF TypeOK
    <3>2. job'[p].saved = job[p].saved
        BY <2>1, <3>1 DEF Job
    <3> QED
        BY <1>5, <2>1, <3>2 DEF Fm, Dst, Origin, Mode
  <2>8. ~Renamed(p)'
      BY <2>1 DEF Renamed
  <2>9. Counted(p)'
      BY <1>3, <1>4, <1>5, <2>7, <2>8 DEF Counted
  <2>10. OriginAsMet(p)'
      BY <1>2, <1>3, <2>1 DEF OriginAsMet, Src, Origin
  <2>11. RestAsMet(p)'
      BY <1>2, <1>3, <2>1, <1>8 DEF RestAsMet
  <2>12. AtHandKnown(p)' /\ StagedKnown(p)'
      BY <1>2, <2>1, <2>4, <2>6, <2>7, <2>8 DEF AtHandKnown, StagedKnown, Staged, Staging1
  <2> QED
      BY <1>3, <2>1, <2>2, <2>9, <2>10, <2>11, <2>12 DEF FirstRun
<1> QED
    BY <1>6, <1>7, <1>8

\* What holds of the paths and inodes in a first run, one file at a time.
LEMMA LateKnown ==
    ASSUME SavedInv, CountedRuns, NEW p \in Instances, Step(p), runs[p] = 1,
           job[p].pc \notin Early
    PROVE  /\ Dst(p) = <<Dst(p)[1], 0>> /\ Dst(p)[1] \in Files /\ Fm(p).inode = Inode0[Dst(p)[1]]
           /\ Dst(p) \in Paths /\ Tmp(p) \in Paths /\ Tmp(p)[2] > 0 /\ Dst(p) # Tmp(p)
           /\ \A f \in Files : <<f, 0>> \in Paths /\ <<f, 0>> # Tmp(p)
           /\ Src(p) \in Paths /\ Src(p) # Dst(p) /\ Readable(Src(p))
           /\ \A m \in DOMAIN job[p].set : m # job[p].idx =>
                job[p].set[m].path \in Paths \ {Dst(p), Tmp(p)}
<1>1. TypeOK /\ FirstRun(p) /\ Met /\ OriginApart /\ OriginReadable
    BY DEF SavedInv, OriginInv
<1>2. /\ job[p].idx \in DOMAIN job[p].set /\ job[p].origin \in DOMAIN job[p].set
      /\ Fm(p) = job[p].set[job[p].idx]
    BY <1>1, AtHand
<1>3. \A n \in DOMAIN job[p].set : GivenRecord(job[p].set[n])
    BY <1>1 DEF FirstRun
<1>4. \A n \in DOMAIN job[p].set : job[p].set[n].path \in Paths
    BY <1>1, SetPaths
<1>5. Dst(p) = <<Dst(p)[1], 0>> /\ Dst(p)[1] \in Files /\ Fm(p).inode = Inode0[Dst(p)[1]]
  <2>1. Dst(p) \in Paths /\ Dst(p)[2] = 0 /\ Fm(p).inode = Inode0[Dst(p)[1]]
      BY <1>2, <1>3, <1>4 DEF GivenRecord, Dst
  <2> QED
      BY <2>1 DEF Paths
<1>6. Dst(p) \in Paths /\ Tmp(p) \in Paths /\ Tmp(p)[2] > 0 /\ Dst(p) # Tmp(p)
    BY <1>1, Names DEF Early
<1>7. ASSUME NEW f \in Files
      PROVE  <<f, 0>> \in Paths /\ <<f, 0>> # Tmp(p)
    BY <1>6, <1>7, FileNames
<1>8. Src(p) \in Paths /\ Src(p) # Dst(p) /\ Readable(Src(p))
    BY <1>1, <1>2, <1>4 DEF OriginApart, OriginReadable, Src, Origin, Early
<1>9. ASSUME NEW m \in DOMAIN job[p].set, m # job[p].idx
      PROVE  job[p].set[m].path \in Paths \ {Dst(p), Tmp(p)}
  <2>1. job[p].set[m].path # Dst(p)
      BY <1>1, <1>2, <1>9 DEF Met, MetOnce, Dst, CountedRuns
  <2>2. job[p].set[m].path[2] = 0
      BY <1>3, <1>9 DEF GivenRecord
  <2>3. job[p].set[m].path # Tmp(p)
      BY <1>6, <2>2
  <2> QED
      BY <1>4, <1>9, <2>1, <2>3
<1> QED
    BY <1>5, <1>6, <1>7, <1>8, <1>9

\* The entries stay inodes with the content.
LEMMA LateEntries ==
    ASSUME SavedInv, CountedRuns, NEW p \in Instances, Step(p), runs[p] = 1,
           job[p].pc \notin Early
    PROVE  NoSymlink' /\ FullNames'
<1>1. TypeOK /\ FirstRun(p) /\ NoSymlink /\ FullNames /\ AtHandKnown(p) /\ StagedKnown(p)
    BY DEF SavedInv, OriginInv, FirstRun
<1>2. \A path \in Paths : path \notin Inodes \cup {NONE}
    BY DedupAssumption
<1>3. /\ Dst(p) \in Paths /\ Tmp(p) \in Paths /\ Dst(p) # Tmp(p)
      /\ \A f \in Files : <<f, 0>> \in Paths /\ <<f, 0>> # Tmp(p)
      /\ Src(p) \in Paths /\ Readable(Src(p))
    BY LateKnown
<1>4. dirent \in [Paths -> Inodes \cup Paths \cup {NONE}]
    BY <1>1 DEF TypeOK
<1>5. \/ dirent'[Dst(p)] = dirent[Dst(p)]
      \/ dirent'[Dst(p)] = NONE
      \/ Rename(p) /\ dirent'[Dst(p)] = dirent[Tmp(p)]
      \/ Make(p) /\ dirent'[Dst(p)] = dirent[Src(p)]
  <2>1. CASE Unlink(p)
      BY <1>3, <1>4, <2>1 DEF Unlink
  <2>2. CASE Rename(p)
      BY <1>3, <1>4, <2>2 DEF Rename
  <2>3. CASE Make(p)
    <3>1. dirent' = [dirent EXCEPT ![Dst(p)] = NewEntry(p)] /\ job[p].pc = "make"
        BY <2>3 DEF Make, At
    <3>2. NewEntry(p) = InodeAt(Src(p))
        BY <1>1, <3>1 DEF AtHandKnown, NewEntry
    <3>3. InodeAt(Src(p)) = dirent[Src(p)]
        BY <1>1, <1>3, Direct DEF Readable
    <3> QED
        BY <1>3, <1>4, <2>3, <3>1, <3>2, <3>3
  <2> QED
      BY <1>1, <2>1, <2>2, <2>3, OneFile
<1>6. dirent'[Tmp(p)] \in Inodes \cup {NONE, dirent[Tmp(p)]}
  <2>1. CASE Clonefile(p)
    <3> DEFINE i == CHOOSE n \in Inodes \ Used : TRUE
    <3>1. i \in Inodes /\ dirent' = [dirent EXCEPT ![Tmp(p)] = i]
        BY <2>1 DEF Clonefile
    <3> HIDE DEF i
    <3> QED
        BY <1>3, <1>4, <3>1
  <2>2. CASE Rename(p)
      BY <1>3, <1>4, <2>2 DEF Rename
  <2>3. CASE Undo(p)
      BY <1>3, <1>4, <2>3 DEF Undo
  <2> QED
      BY <1>1, <2>1, <2>2, <2>3, OneFile
<1>7. NoSymlink'
  <2> SUFFICES ASSUME NEW path \in Paths
               PROVE  dirent'[path] \notin Paths
      BY DEF NoSymlink
  <2>1. \A q \in Paths : dirent[q] \notin Paths
      BY <1>1 DEF NoSymlink
  <2>2. CASE path = Dst(p)
      BY <1>2, <1>3, <1>5, <2>1, <2>2
  <2>3. CASE path = Tmp(p)
      BY <1>2, <1>3, <1>6, <2>1, <2>3
  <2> QED
      BY <1>1, <2>1, <2>2, <2>3, OneFile
<1>8. FullNames'
  <2> SUFFICES ASSUME NEW f \in Files, dirent'[<<f, 0>>] \in Inodes
               PROVE  ino'[dirent'[<<f, 0>>]].full
      BY DEF FullNames
  <2>1. ASSUME NEW path \in Paths, dirent[path] \in Inodes, ino[dirent[path]].full,
               dirent'[<<f, 0>>] = dirent[path]
        PROVE  ino'[dirent'[<<f, 0>>]].full
      BY <1>1, <2>1, OneFile
  <2>2. CASE <<f, 0>> # Dst(p) \/ dirent'[Dst(p)] = dirent[Dst(p)]
    <3>1. dirent'[<<f, 0>>] = dirent[<<f, 0>>]
        BY <1>1, <1>3, <2>2, OneFile
    <3> QED
        BY <1>1, <1>3, <2>1, <3>1 DEF FullNames
  <2>3. CASE <<f, 0>> = Dst(p) /\ Rename(p) /\ dirent'[Dst(p)] = dirent[Tmp(p)]
    <3>1. dirent[Tmp(p)] \in Inodes /\ ino[dirent[Tmp(p)]].full
        BY <1>1, <2>3 DEF Rename, At, StagedKnown, Staged
    <3> QED
        BY <1>3, <2>1, <2>3, <3>1
  <2>4. CASE <<f, 0>> = Dst(p) /\ Make(p) /\ dirent'[Dst(p)] = dirent[Src(p)]
      BY <1>3, <2>1, <2>4 DEF Readable
  <2> QED
      BY <1>5, <2>2, <2>3, <2>4, DedupAssumption
<1> QED
    BY <1>7, <1>8

\* The origin and the rest of the set stay as they were met.
LEMMA LateAsMet ==
    ASSUME SavedInv, CountedRuns, NEW p \in Instances, Step(p), runs[p] = 1,
           job[p].pc \notin Early
    PROVE  OriginAsMet(p)' /\ RestAsMet(p)'
<1>1. /\ TypeOK /\ FirstRun(p) /\ OriginInv /\ OriginAsMet(p) /\ RestAsMet(p)
    BY DEF SavedInv, OriginInv, FirstRun, Early
<1>2. /\ job'[p].set = job[p].set /\ job'[p].origin = job[p].origin
      /\ job'[p].clone = job[p].clone
      /\ job'[p].pc = "each" \/ job'[p].idx = job[p].idx
    BY <1>1, LateFrame DEF CountedRuns
<1>3. OriginAsMet(p)'
  <2>1. Src(p)' = Src(p) /\ Origin(p)' = Origin(p)
      BY <1>2 DEF Src, Origin
  <2>2. dirent'[Src(p)] = dirent[Src(p)] /\ ino'[dirent[Src(p)]].clone = ino[dirent[Src(p)]].clone
      BY <1>1, OriginStays, OneFile, LateKnown DEF Readable
  <2> QED
      BY <1>1, <1>2, <2>1, <2>2 DEF OriginAsMet
<1>4. RestAsMet(p)'
  <2>1. job[p].idx \in Nat /\ \A m \in DOMAIN job[p].set : m \in Nat
      BY <1>1 DEF TypeOK, Job
  <2>2. job'[p].pc = "each" => job'[p].idx = job[p].idx + 1
      BY <1>1, LateFields
  <2> SUFFICES ASSUME NEW m \in DOMAIN job[p].set,
                      m > job'[p].idx \/ (m = job'[p].idx /\ job'[p].pc = "each")
               PROVE  dirent'[job[p].set[m].path] = job[p].set[m].inode
      BY <1>2 DEF RestAsMet
  <2>3. m > job[p].idx /\ m # job[p].idx
    <3>1. CASE job'[p].pc = "each"
        BY <2>1, <2>2, <3>1
    <3>2. CASE job'[p].pc # "each"
        BY <1>2, <2>1, <3>2
    <3> QED
        BY <3>1, <3>2
  <2>4. dirent[job[p].set[m].path] = job[p].set[m].inode
      BY <1>1, <2>3 DEF RestAsMet
  <2> QED
      BY <1>1, <2>3, <2>4, LateKnown, OneFile
<1> QED
    BY <1>3, <1>4

\* What is known of the file at hand and its staging file.
LEMMA LateHand ==
    ASSUME SavedInv, CountedRuns, NEW p \in Instances, Step(p), runs[p] = 1,
           job[p].pc \notin Early
    PROVE  AtHandKnown(p)' /\ StagedKnown(p)'
<1>1. /\ TypeOK /\ FirstRun(p) /\ AtHandKnown(p) /\ StagedKnown(p) /\ OriginAsMet(p)
      /\ NoSymlink
    BY DEF SavedInv, OriginInv, FirstRun, Early
<1>2. /\ job'[p].set = job[p].set /\ job'[p].origin = job[p].origin
      /\ job'[p].opt = job[p].opt /\ job'[p].clone = job[p].clone
      /\ job'[p].pc = "each" \/ job'[p].idx = job[p].idx
    BY <1>1, LateFrame DEF CountedRuns
<1>3. CASE job'[p].pc = "each"
    BY <1>3 DEF AtHandKnown, StagedKnown, Renamed, Staged, Staging1
<1>4. CASE job'[p].pc # "each"
  <2>1. /\ Dst(p)' = Dst(p) /\ Tmp(p)' = Tmp(p) /\ Fm(p)' = Fm(p) /\ Origin(p)' = Origin(p)
        /\ Mode(p)' = Mode(p)
      BY <1>2, <1>4 DEF Dst, Tmp, Fm, Origin, Mode
  <2>2. /\ Dst(p) \in Paths /\ Tmp(p) \in Paths /\ Dst(p) # Tmp(p)
        /\ Src(p) \in Paths /\ Readable(Src(p))
        /\ dirent \in [Paths -> Inodes \cup Paths \cup {NONE}]
        /\ ino \in [Inodes -> [full : BOOLEAN, meta : Inodes, clone : Inodes]]
      BY <1>1, LateKnown DEF TypeOK
  <2>3. job'[p].pc \in {"save", "tmp", "unlink"} \cup Staging1 => dirent'[Dst(p)] = Fm(p).inode
    <3> SUFFICES ASSUME job'[p].pc \in {"save", "tmp", "unlink"} \cup Staging1
                 PROVE  dirent'[Dst(p)] = Fm(p).inode
        OBVIOUS
    <3>1. /\ job[p].pc \in {"save", "tmp", "unlink"} \cup Staging1
          /\ ~Rename(p) /\ ~Unlink(p) /\ ~Make(p)
      <4>1. job'[p].pc \notin {"restore", "make", "each"}
          BY DEF Staging1
      <4>2. job[p].pc \in {"save", "tmp", "unlink"} \cup Staging1
          BY <1>1, Flow DEF Staging1, FirstRun, At, SaveMtime, TmpName, Clonefile, Check,
                            CopyMetadata, Recheck, Relative
      <4>3. ~Rename(p)
          BY <1>1, <4>1, ResultCleared
      <4>4. ~Unlink(p)
          BY <1>1, <4>1, Moves DEF Unlink, Labels
      <4>5. ~Make(p)
          BY <1>1, <4>1, Moves DEF Make
      <4> QED
          BY <4>2, <4>3, <4>4, <4>5
    <3>2. dirent[Dst(p)] = Fm(p).inode
        BY <1>1, <3>1 DEF AtHandKnown
    <3> QED
        BY <1>1, <3>1, <3>2, OneFile
  <2>4. job'[p].pc = "make" => Unlink(p) /\ dirent'[Dst(p)] = NONE
    <3> SUFFICES ASSUME job'[p].pc = "make"
                 PROVE  Unlink(p) /\ dirent'[Dst(p)] = NONE
        OBVIOUS
    <3>1. Unlink(p)
        BY <1>1, Flow
    <3> QED
        BY <2>2, <3>1 DEF Unlink
  <2>5. job'[p].pc \in {"unlink", "make"} => Mode(p) = "link" /\ Fm(p).inode # Origin(p).inode
    <3>1. job'[p].pc # "unlink"
        BY <1>1, Flow DEF Relative, At, FirstRun
    <3>2. job'[p].pc = "make" => job[p].pc = "unlink"
        BY <2>4 DEF Unlink, At
    <3> QED
        BY <1>1, <3>1, <3>2 DEF AtHandKnown
  <2>6. Renamed(p)' => dirent'[Dst(p)] \in Inodes /\ ino'[dirent'[Dst(p)]].clone = job[p].clone
    <3> SUFFICES ASSUME job'[p].pc \in {"restore", "verify"}, job'[p].ok
                 PROVE  dirent'[Dst(p)] \in Inodes /\ ino'[dirent'[Dst(p)]].clone = job[p].clone
        BY DEF Renamed
    <3>1. CASE Rename(p)
      <4>1. dirent'[Dst(p)] = dirent[Tmp(p)] /\ ino' = ino /\ job[p].pc = "rename"
          BY <2>2, <3>1 DEF Rename, At
      <4> QED
          BY <1>1, <4>1 DEF StagedKnown, Staged
    <3>2. CASE Restore(p)
      <4>1. job[p].pc = "restore" /\ job[p].ok /\ UNCHANGED <<dirent, ino>>
          BY <1>1, <1>4, <3>2, ResultCleared DEF Restore, At
      <4> QED
          BY <1>1, <4>1 DEF AtHandKnown, Renamed
    <3>3. CASE TmpName(p)
        BY <1>1, <3>3, ResultCleared
    <3>4. CASE ~Rename(p) /\ ~TmpName(p) /\ (Undo(p) \/ UndoFails(p))
      <4>1. job[p].pc = "undo"
          BY <3>4 DEF Undo, UndoFails, At
      <4>2. ~job[p].ok
          BY <1>1, <4>1 DEF StagedKnown, Staging1
      <4> QED
          BY <1>1, <3>4, <4>2, LateFields
    <3> QED
        BY <1>1, <3>1, <3>2, <3>3, <3>4, Flow
  <2>7. AtHandKnown(p)'
      BY <1>2, <2>1, <2>3, <2>4, <2>5, <2>6 DEF AtHandKnown, Renamed
  <2>8. ASSUME job'[p].pc \in Staged
        PROVE  /\ dirent'[Tmp(p)] \in Inodes /\ dirent'[Tmp(p)] # dirent'[Dst(p)]
               /\ ino'[dirent'[Tmp(p)]].clone = job[p].clone
    <3>1. CASE Clonefile(p)
      <4> DEFINE i == CHOOSE n \in Inodes \ Used : TRUE
      <4>1. i \in Inodes /\ i \notin Used /\ dirent' = [dirent EXCEPT ![Tmp(p)] = i]
          BY <3>1 DEF Clonefile
      <4>2. InodeAt(Src(p)) = dirent[Src(p)]
          BY <1>1, <2>2, Direct DEF Readable
      <4>3. ~MayFail("cloneid")
          BY DEF CountedRuns, CloneIdKept, MayFail
      <4>4. \E full : ino' = [ino EXCEPT ![i] =
              [full |-> full, meta |-> ino[InodeAt(Src(p))].meta,
               clone |-> ino[InodeAt(Src(p))].clone]]
          BY <3>1, <4>3 DEF Clonefile
      <4>5. i # dirent[Dst(p)]
          BY <2>2, <4>1 DEF Used
      <4> HIDE DEF i
      <4>6. dirent'[Tmp(p)] = i /\ dirent'[Dst(p)] = dirent[Dst(p)]
          BY <2>2, <4>1
      <4>7. ino'[i].clone = ino[dirent[Src(p)]].clone
          BY <2>2, <4>1, <4>2, <4>4
      <4> QED
          BY <1>1, <4>1, <4>5, <4>6, <4>7 DEF OriginAsMet
    <3>2. CASE ~Clonefile(p)
      <4>1. job[p].pc \in Staged /\ ~Rename(p) /\ ~Unlink(p) /\ ~Make(p) /\ ~Undo(p)
        <5>1. Check(p) \/ CopyMetadata(p) \/ Recheck(p)
            BY <1>1, <2>8, <3>2, Flow DEF Staged
        <5> QED
            BY <5>1 DEF Check, CopyMetadata, Recheck, Rename, Unlink, Make, Undo, At, Staged
      <4>2. dirent'[Tmp(p)] = dirent[Tmp(p)] /\ dirent'[Dst(p)] = dirent[Dst(p)]
          BY <1>1, <3>2, <4>1, OneFile
      <4>3. /\ dirent[Tmp(p)] \in Inodes /\ dirent[Tmp(p)] # dirent[Dst(p)]
            /\ ino[dirent[Tmp(p)]].clone = job[p].clone
          BY <1>1, <4>1 DEF StagedKnown
      <4> QED
          BY <1>1, <2>2, <4>2, <4>3, OneFile
    <3> QED
        BY <3>1, <3>2
  <2>9. job'[p].pc = "rename" => ino'[dirent'[Tmp(p)]].full
      BY <1>1, Flow DEF Recheck, Acceptable
  <2>10. job'[p].pc \in Staging1 => ~job'[p].ok
    <3> SUFFICES ASSUME job'[p].pc \in Staging1
                 PROVE  ~job'[p].ok
        OBVIOUS
    <3>1. CASE TmpName(p)
        BY <1>1, <3>1, ResultCleared
    <3>2. CASE ~TmpName(p)
      <4>1. job[p].pc \in Staging1
          BY <1>1, <3>2, Flow DEF Staging1, Clonefile, Check, CopyMetadata, Recheck, At
      <4>2. ~Rename(p)
          BY <1>1, ResultCleared DEF Staging1
      <4> QED
          BY <1>1, <3>2, <4>1, <4>2, LateFields DEF StagedKnown
    <3> QED
        BY <3>1, <3>2
  <2>11. job'[p].pc = "verify" => job'[p].ok
    <3> SUFFICES ASSUME job'[p].pc = "verify"
                 PROVE  job'[p].ok
        OBVIOUS
    <3>1. Restore(p) /\ ~TmpName(p)
        BY <1>1, Flow DEF Restore, TmpName, At
    <3>2. job[p].ok
        BY <1>1, <3>1, ResultCleared
    <3> QED
        BY <1>1, <3>1, <3>2, LateFields
  <2>12. StagedKnown(p)'
      BY <1>2, <2>1, <2>8, <2>9, <2>10, <2>11 DEF StagedKnown
  <2> QED
      BY <2>7, <2>12
<1> QED
    BY <1>3, <1>4

\* The files moved are finitely many.
LEMMA MovedFinite == IsFiniteSet(Moved) /\ Cardinality(Moved) \in Nat
<1>1. IsFiniteSet(Files)
    BY DedupAssumption
<1>2. IsFiniteSet(Moved)
    BY <1>1, FS_Subset DEF Moved
<1> QED
    BY <1>2, FS_CardinalityType

\* The rename and the link move one file each, and nothing else does.
LEMMA LateMoves ==
    ASSUME SavedInv, CountedRuns, NEW p \in Instances, Step(p), runs[p] = 1,
           job[p].pc \notin Early
    PROVE  Cardinality(Moved') =
             Cardinality(Moved) + (IF Rename(p) \/ Make(p) THEN 1 ELSE 0)
<1>1. /\ TypeOK /\ FirstRun(p) /\ AtHandKnown(p) /\ StagedKnown(p) /\ OriginAsMet(p)
      /\ NoSymlink
    BY DEF SavedInv, OriginInv, FirstRun, Early
<1> DEFINE d == Dst(p)[1]
<1>2. /\ Dst(p) = <<d, 0>> /\ d \in Files /\ Fm(p).inode = Inode0[d]
      /\ Dst(p) \in Paths /\ Tmp(p) \in Paths /\ Dst(p) # Tmp(p)
      /\ \A f \in Files : <<f, 0>> \in Paths /\ <<f, 0>> # Tmp(p)
      /\ Src(p) \in Paths /\ Src(p) # Dst(p) /\ Readable(Src(p))
      /\ dirent \in [Paths -> Inodes \cup Paths \cup {NONE}]
    BY <1>1, LateKnown DEF TypeOK
<1> HIDE DEF d
<1>3. \A f \in Files \ {d} : dirent'[<<f, 0>>] = dirent[<<f, 0>>]
  <2> SUFFICES ASSUME NEW f \in Files \ {d}
               PROVE  dirent'[<<f, 0>>] = dirent[<<f, 0>>]
      OBVIOUS
  <2>1. <<f, 0>> # <<d, 0>>
      OBVIOUS
  <2> QED
      BY <1>1, <1>2, <2>1, OneFile
<1>4. CASE Rename(p) \/ Make(p)
  <2>1. d \notin Moved
    <3>1. CASE Rename(p)
        BY <1>1, <1>2, <3>1 DEF Rename, At, AtHandKnown, Staging1, Moved
    <3>2. CASE Make(p)
        BY <1>1, <1>2, <3>2, DedupAssumption DEF Make, At, AtHandKnown, Moved
    <3> QED
        BY <1>4, <3>1, <3>2
  <2>2. d \in Moved'
    <3>1. CASE Rename(p)
      <4>1. dirent'[Dst(p)] = dirent[Tmp(p)] /\ job[p].pc = "rename"
          BY <1>2, <3>1 DEF Rename, At
      <4>2. dirent[Tmp(p)] \in Inodes /\ dirent[Tmp(p)] # Inode0[d]
          BY <1>1, <1>2, <4>1 DEF StagedKnown, AtHandKnown, Staged, Staging1
      <4> QED
          BY <1>2, <4>1, <4>2 DEF Moved
    <3>2. CASE Make(p)
      <4>1. dirent' = [dirent EXCEPT ![Dst(p)] = NewEntry(p)] /\ job[p].pc = "make"
          BY <3>2 DEF Make, At
      <4>2. Mode(p) = "link" /\ Fm(p).inode # Origin(p).inode
          BY <1>1, <4>1 DEF AtHandKnown
      <4>3. NewEntry(p) = dirent[Src(p)]
          BY <1>1, <1>2, <4>2, Direct DEF Readable, NewEntry
      <4>4. dirent'[Dst(p)] = dirent[Src(p)]
          BY <1>2, <4>1, <4>3
      <4>5. dirent[Src(p)] \in Inodes /\ dirent[Src(p)] # Inode0[d]
          BY <1>1, <1>2, <4>2 DEF OriginAsMet, Readable
      <4> QED
          BY <1>2, <4>4, <4>5 DEF Moved
    <3> QED
        BY <1>4, <3>1, <3>2
  <2>3. Moved' = Moved \cup {d}
    <3>1. \A f \in Files \ {d} : f \in Moved' <=> f \in Moved
        BY <1>3 DEF Moved
    <3>2. Moved \subseteq Files /\ Moved' \subseteq Files
        BY DEF Moved
    <3> QED
        BY <1>2, <2>1, <2>2, <3>1, <3>2
  <2>4. Cardinality(Moved \cup {d}) = Cardinality(Moved) + 1
      BY <2>1, MovedFinite, FS_AddElement
  <2> QED
      BY <1>4, <2>3, <2>4
<1>5. CASE ~(Rename(p) \/ Make(p))
  <2>1. d \in Moved' <=> d \in Moved
    <3>1. CASE Unlink(p)
      <4>1. dirent'[Dst(p)] = NONE /\ dirent[Dst(p)] = Inode0[d]
          BY <1>1, <1>2, <3>1 DEF Unlink, At, AtHandKnown
      <4> QED
          BY <1>2, <4>1, DedupAssumption DEF Moved
    <3>2. CASE ~Unlink(p)
      <4>1. dirent'[Dst(p)] = dirent[Dst(p)]
          BY <1>1, <1>5, <3>2, OneFile
      <4> QED
          BY <1>2, <4>1 DEF Moved
    <3> QED
        BY <3>1, <3>2
  <2>2. Moved' = Moved
    <3>1. \A f \in Files \ {d} : f \in Moved' <=> f \in Moved
        BY <1>3 DEF Moved
    <3>2. Moved \subseteq Files /\ Moved' \subseteq Files
        BY DEF Moved
    <3> QED
        BY <1>2, <2>1, <3>1, <3>2
  <2> QED
      BY <1>5, <2>2, MovedFinite
<1> QED
    BY <1>4, <1>5

\* The sum follows the files moved, one step behind a rename.
LEMMA LateCounted ==
    ASSUME SavedInv, CountedRuns, NEW p \in Instances, Step(p), runs[p] = 1,
           job[p].pc \notin Early
    PROVE  Counted(p)'
<1>1. /\ TypeOK /\ FirstRun(p) /\ AtHandKnown(p) /\ StagedKnown(p) /\ OriginAsMet(p)
      /\ NoSymlink /\ Counted(p) /\ job[p].saved \in Nat /\ Cardinality(Moved) \in Nat
    BY MovedFinite DEF SavedInv, OriginInv, FirstRun, Early, TypeOK, Job
<1>2. DryRun(p)' = DryRun(p)
    BY <1>1, LateFrame DEF CountedRuns, DryRun
<1> SUFFICES ASSUME ~DryRun(p)
             PROVE  Cardinality(Moved') = job'[p].saved + (IF Renamed(p)' THEN 1 ELSE 0)
    BY <1>2 DEF Counted
<1>3. Cardinality(Moved) = job[p].saved + (IF Renamed(p) THEN 1 ELSE 0)
    BY <1>1 DEF Counted
<1>4. Cardinality(Moved') = Cardinality(Moved) + (IF Rename(p) \/ Make(p) THEN 1 ELSE 0)
    BY LateMoves
<1>5. CASE Rename(p)
  <2>1. ~Renamed(p) /\ Renamed(p)'
      BY <1>1, <1>5, ResultCleared DEF Rename, At, Renamed
  <2>2. job'[p].saved = job[p].saved
      BY <1>1, <1>5, ResultCleared, LateFields
  <2> QED
      BY <1>1, <1>3, <1>4, <1>5, <2>1, <2>2
<1>6. CASE Make(p)
  <2>1. job[p].pc = "make" /\ job'[p].pc = "each"
      BY <1>1, <1>6, Moves DEF Make, At
  <2>2. ~Renamed(p) /\ ~Renamed(p)'
      BY <2>1 DEF Renamed
  <2>3. job'[p].saved = job[p].saved + 1
    <3>1. job \in [Instances -> Job] /\ NextFile(p, 1, 0)
        BY <1>1, <1>6 DEF TypeOK, Make
    <3> QED
        BY <3>1 DEF NextFile, Become, Job
  <2> QED
      BY <1>1, <1>3, <1>4, <1>6, <2>2, <2>3
<1>7. CASE Verify(p)
  <2>1. job[p].pc = "verify" /\ ~Rename(p) /\ ~Make(p)
      BY <1>7 DEF Verify, At, Rename, Make
  <2>2. Renamed(p) /\ job'[p].pc = "each"
      BY <1>1, <1>7, <2>1, Moves DEF Verify, StagedKnown, Renamed
  <2>3. ~Renamed(p)'
      BY <2>2 DEF Renamed
  <2>4. CloneIdAt(Dst(p)) = job[p].clone
    <3>1. dirent[Dst(p)] \in Inodes /\ ino[dirent[Dst(p)]].clone = job[p].clone
        BY <1>1, <2>2 DEF AtHandKnown
    <3>2. InodeAt(Dst(p)) = dirent[Dst(p)]
        BY <1>1, <3>1, LateKnown, Direct
    <3> QED
        BY <3>1, <3>2, DedupAssumption DEF CloneIdAt
  <2>5. job'[p].saved = job[p].saved + 1
      BY <1>1, <2>1, <2>2, <2>4, LateFields
      DEF SaveMtimeFails, Restore, UnlinkFails, Make, MakeFails, At
  <2> QED
      BY <1>1, <1>3, <1>4, <2>1, <2>2, <2>3, <2>5
<1>8. CASE ~Rename(p) /\ ~Make(p) /\ ~Verify(p)
  <2>1. CASE job'[p].pc = "each"
    <3>1. job'[p].saved = job[p].saved /\ ~Renamed(p)
      <4>1. \/ SaveMtimeFails(p) \/ UnlinkFails(p) \/ MakeFails(p)
            \/ Restore(p) /\ ~job[p].ok
          BY <1>1, <1>8, <2>1, LateFields
      <4>2. job'[p].saved = job[p].saved
          BY <1>1, <1>8, <2>1, LateFields
      <4> QED
          BY <4>1, <4>2 DEF SaveMtimeFails, UnlinkFails, MakeFails, At, Renamed
    <3>2. ~Renamed(p)'
        BY <2>1 DEF Renamed
    <3> QED
        BY <1>1, <1>3, <1>4, <1>8, <3>1, <3>2
  <2>2. CASE job'[p].pc # "each"
    <3>1. job'[p].saved = job[p].saved
        BY <1>1, <2>2, LateFields
    <3>2. Renamed(p)' <=> Renamed(p)
      <4>1. ASSUME Renamed(p)' PROVE Renamed(p)
        <5>1. CASE Restore(p)
            BY <1>1, <2>2, <5>1, ResultCleared DEF Restore, At, Renamed
        <5>2. CASE TmpName(p)
            BY <1>1, <4>1, <5>2, ResultCleared DEF Renamed
        <5>3. CASE ~TmpName(p) /\ (Undo(p) \/ UndoFails(p))
          <6>1. ~job[p].ok
              BY <1>1, <5>3 DEF Undo, UndoFails, At, StagedKnown, Staging1
          <6> QED
              BY <1>1, <1>8, <4>1, <5>3, <6>1, LateFields DEF Renamed
        <5> QED
            BY <1>1, <1>8, <4>1, <5>1, <5>2, <5>3, Flow DEF Renamed
      <4>2. ASSUME Renamed(p) PROVE Renamed(p)'
        <5>1. job[p].pc \in {"restore", "verify"} /\ job[p].ok
            BY <4>2 DEF Renamed
        <5>2. Restore(p)
            BY <1>8, <5>1 DEF Step, Evaluate, Deduplicate, At, Start, Meet, NoSet, AlreadyCloned,
              ChooseByLinks, ChooseFirstSeen, ChooseByClones, Scanned, Pass, Replace, EndOfSet,
              More, SaveMtime, SaveMtimeFails, TmpName, Clonefile, ClonefileFails, Check,
              CopyMetadata, CopyMetadataFails, Recheck, RenameFails, Undo, UndoFails,
              Relative, Unlink, UnlinkFails, MakeFails
        <5>3. ~TmpName(p)
            BY <5>2 DEF Restore, TmpName, At
        <5> QED
            BY <1>1, <1>8, <5>1, <5>2, <5>3, ResultCleared, LateFields DEF Renamed
      <4> QED
          BY <4>1, <4>2
    <3> QED
        BY <1>1, <1>3, <1>4, <1>8, <3>1, <3>2
  <2> QED
      BY <2>1, <2>2
<1> QED
    BY <1>5, <1>6, <1>7, <1>8

\* The first run while a file is replaced.
LEMMA FirstLate ==
    ASSUME SavedInv, CountedRuns, NEW p \in Instances, Step(p), runs[p] = 1,
           job[p].pc \notin Early
    PROVE  FirstRun(p)'
<1>1. TypeOK /\ FirstRun(p)
    BY DEF SavedInv, OriginInv
<1>2. job'[p].set = job[p].set /\ job'[p].pc \notin {"relative", "scan"}
    BY <1>1, LateFrame, Flow DEF CountedRuns
<1>3. \A n \in DOMAIN job[p].set : GivenRecord(job[p].set[n])
    BY <1>1 DEF FirstRun
<1>4. NoSymlink' /\ FullNames'
    BY LateEntries
<1>5. OriginAsMet(p)' /\ RestAsMet(p)'
    BY LateAsMet
<1>6. AtHandKnown(p)' /\ StagedKnown(p)'
    BY LateHand
<1>7. Counted(p)'
    BY LateCounted
<1> QED
    BY <1>2, <1>3, <1>4, <1>5, <1>6, <1>7 DEF FirstRun

\* The first run starts in the directory as it was given.
LEMMA FirstStart ==
    ASSUME SavedInv, CountedRuns, NEW p \in Instances, Step(p), runs[p] = 0
    PROVE  FirstRun(p)' /\ runs'[p] = 1
<1>1. /\ TypeOK /\ job[p].pc = "idle" /\ AsGiven /\ FullNames
      /\ Moved = {} /\ NoSymlink
    BY NothingMoved DEF SavedInv, OriginInv
<1>2. PICK opt \in Options :
        job'[p] = [NewJob EXCEPT !.pc = "scan", !.opt = opt, !.todo = Visits]
    BY <1>1, IdleFrame
<1>3. UNCHANGED fs /\ runs'[p] = 1
  <2>1. UNCHANGED fs /\ runs' = [runs EXCEPT ![p] = @ + 1]
      BY <1>1, IdleFrame
  <2>2. DOMAIN runs = Instances
      BY <1>1 DEF TypeOK
  <2> QED
      BY <2>1, <2>2
<1>4. /\ job'[p].pc = "scan" /\ job'[p].set = <<>> /\ job'[p].saved = 0
      /\ job'[p].todo = Visits
    BY <1>2 DEF NewJob
<1>5. \A v \in Visits : v[1][2] = 0
  <2> SUFFICES ASSUME NEW v \in Visits PROVE v[1][2] = 0
      OBVIOUS
  <2>1. v[1] \in Targets /\ dirent[v[1]] \in Inodes
      BY DEF Visits
  <2>2. v[1] \in Paths
      BY <2>1, DedupAssumption DEF Targets, Paths
  <2> QED
      BY <1>1, <2>1, <2>2, DedupAssumption DEF AsGiven
<1>6. AsGiven' /\ FullNames' /\ NoSymlink' /\ Moved' = {}
    BY <1>1, <1>3 DEF AsGiven, FullNames, NoSymlink, Moved
<1>7. Cardinality(Moved') = 0
    BY <1>6, FS_EmptySet
<1>8. Counted(p)'
    BY <1>4, <1>7 DEF Counted, Renamed
<1> QED
    BY <1>3, <1>4, <1>5, <1>6, <1>8
    DEF FirstRun, AtHandKnown, StagedKnown, Renamed, Staged, Staging1

\* Every step keeps the invariant.
LEMMA SavedStep ==
    ASSUME SavedInv, CountedRuns, [Next]_vars
    PROVE  SavedInv'
<1>1. TypeOK /\ OriginInv /\ OriginInv'
    BY OriginStep DEF SavedInv, OriginInv, CountedRuns
<1>2. CASE UNCHANGED vars
  <2>1. /\ NoSymlink' = NoSymlink /\ FullNames' = FullNames /\ AsGiven' = AsGiven
        /\ Moved' = Moved
      BY <1>2 DEF FullNames, NoSymlink, Moved, AsGiven
  <2>2. ASSUME NEW p \in Instances
        PROVE  FirstRun(p) => FirstRun(p)'
    <3>1. /\ Renamed(p)' = Renamed(p) /\ Dst(p)' = Dst(p) /\ Tmp(p)' = Tmp(p)
          /\ Fm(p)' = Fm(p) /\ Src(p)' = Src(p) /\ Origin(p)' = Origin(p)
          /\ Mode(p)' = Mode(p) /\ DryRun(p)' = DryRun(p)
        BY <1>2 DEF Renamed, DryRun, Mode, Dst, Tmp, Fm, Src, Origin
    <3>2. OriginAsMet(p) => OriginAsMet(p)'
        BY <1>2, <3>1 DEF OriginAsMet
    <3>3. RestAsMet(p) => RestAsMet(p)'
        BY <1>2 DEF RestAsMet
    <3>4. AtHandKnown(p) => AtHandKnown(p)'
        BY <1>2, <3>1 DEF AtHandKnown
    <3>5. StagedKnown(p) => StagedKnown(p)'
        BY <1>2, <3>1 DEF StagedKnown
    <3>6. Counted(p) => Counted(p)'
        BY <1>2, <2>1, <3>1 DEF Counted
    <3> QED
        BY <1>2, <2>1, <3>2, <3>3, <3>4, <3>5, <3>6 DEF FirstRun
  <2> QED
      BY <1>1, <1>2, <2>1, <2>2 DEF SavedInv
<1> SUFFICES ASSUME NEW p \in Instances, Step(p)
             PROVE  SavedInv'
    BY <1>2 DEF Next, Terminated, Crash, CountedRuns
<1>3. \A q \in Instances : q = p
    BY DEF CountedRuns, OneInstance
<1>4. runs[p] \in Nat /\ runs \in [Instances -> 0 .. MaxRuns]
    BY <1>1, DedupAssumption DEF TypeOK
<1>5. CASE runs[p] = 0
  <2>1. FirstRun(p)' /\ runs'[p] = 1
      BY <1>5, FirstStart
  <2> QED
      BY <1>1, <1>3, <2>1 DEF SavedInv
<1>6. CASE job[p].pc = "idle" /\ runs[p] # 0
  <2>1. runs'[p] = runs[p] + 1
      BY <1>1, <1>4, <1>6, IdleFrame
  <2>2. runs'[p] # 0 /\ runs'[p] # 1
      BY <1>4, <1>6, <2>1
  <2> QED
      BY <1>1, <1>3, <2>2 DEF SavedInv
<1>7. CASE job[p].pc # "idle"
  <2>1. runs' = runs
      BY <1>1, <1>7, ScanFrame, EachFrame, LateFrame DEF Early
  <2>2. runs[p] # 0
      BY <1>7 DEF SavedInv
  <2>3. runs[p] = 1 => FirstRun(p)'
      BY <1>7, FirstScan, FirstEach, FirstLate DEF Early
  <2> QED
      BY <1>1, <1>3, <2>1, <2>2, <2>3 DEF SavedInv
<1> QED
    BY <1>5, <1>6, <1>7

\* In a first run that is not a dry one the number of files counted as saved is
\* the number of files replaced whenever the loop of deduplicate comes round,
\* whichever calls failed in it, for -l and for clones, if no other instance
\* runs and clonefile hands the id of its source on.
THEOREM SavedCountExact ==
    ASSUME CountedRuns
    PROVE  Spec => []SavedExact
<1>1. Init => SavedInv
  <2> SUFFICES ASSUME Init PROVE SavedInv
      OBVIOUS
  <2>1. \A p \in Instances : runs[p] = 0
      BY DEF Init
  <2>2. OriginInv
      BY OriginInit
  <2>3. AsGiven /\ \A i \in Inodes : ino[i].full
      BY DEF Init, AsGiven
  <2>4. FullNames
      BY <2>3 DEF FullNames
  <2> QED
      BY <2>1, <2>2, <2>3, <2>4, OriginInit DEF SavedInv
<1>2. SavedInv /\ [Next]_vars => SavedInv'
    BY SavedStep
<1>3. SavedInv => SavedExact
  <2> SUFFICES ASSUME SavedInv, NEW p \in Instances, runs[p] = 1,
                      job[p].pc \in {"each", "idle"}, ~DryRun(p)
               PROVE  job[p].saved = Cardinality(Replaced)
      BY DEF SavedExact
  <2>1. TypeOK /\ FirstRun(p) /\ NoSymlink /\ FullNames /\ ~Renamed(p)
      BY DEF SavedInv, OriginInv, FirstRun, Renamed
  <2>2. Replaced = Moved
    <3> SUFFICES ASSUME NEW f \in Files
                 PROVE  Whole(f) <=> dirent[<<f, 0>>] \in Inodes
        BY DEF Replaced, Moved
    <3>1. InodeAt(<<f, 0>>) = IF dirent[<<f, 0>>] \in Inodes THEN dirent[<<f, 0>>] ELSE NONE
        BY <2>1, FileNames, Direct
    <3> QED
        BY <2>1, <3>1, DedupAssumption DEF Whole, FullNames
  <2>3. Cardinality(Moved) = job[p].saved + 0 /\ job[p].saved \in Nat
      BY <2>1 DEF FirstRun, Counted, TypeOK, Job
  <2> QED
      BY <2>2, <2>3
<1> QED
    BY <1>1, <1>2, <1>3, PTL DEF Spec
=============================================================================
