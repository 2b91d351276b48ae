--------------------------- MODULE ConvergeProofs ---------------------------
(***************************************************************************)
(* What an earlier run has done stands (Converges of module Dedup): for    *)
(* any files and links, any number of runs one after the other, dry or     *)
(* not, any failing calls and crashes between them, a later run puts its   *)
(* clones over no file that is a clone of what an earlier one moved.       *)
(*                                                                         *)
(* A run takes its origin's clone id from counts it makes of the set, the  *)
(* next one counts anew: the id must be the same again, with half of the   *)
(* files replaced, and with staging files that a crash left in the set. So *)
(* the invariant is about those counts:                                    *)
(*                                                                         *)
(*   LeadByClones   without hard links among the files, the id that        *)
(*                  replaced files have is ahead of every other; as long   *)
(*                  as none is replaced, a running instance's origin has   *)
(*                  one that no other exceeds;                             *)
(*   LeadByLinks    with hard links, it is that of the inode with the most *)
(*                  links, which none of the steps takes from it.          *)
(*                                                                         *)
(* A rename takes a file from the count of one id and adds it to that of   *)
(* the origin's, whatever happened in between, if neither the origin nor   *)
(* the file at hand changed its id since it was met (SameClones).          *)
(***************************************************************************)
EXTENDS DedupProofs

USE DEF fs, vars

\* The runs are by one instance and only clone, each file is met once, and
\* clonefile hands the id of its source on.
ClonesOnly == OneInstance /\ CloneOnly /\ Twice = {} /\ CloneIdKept

\* The names an inode has at the start, and the files of a run with the most.
Links(i) == {path \in Paths : path[2] = 0 /\ Inode0[path[1]] = i}
LinkedMost(f) ==
    /\ f \in Roots /\ Linked(f)
    /\ \A g \in Roots : Linked(g) =>
         Cardinality(Links(Inode0[g])) <= Cardinality(Links(Inode0[f]))
NoTie ==
    \A f, g \in Files :
        LinkedMost(f) /\ LinkedMost(g) => Clone0[Inode0[f]] = Clone0[Inode0[g]]
AnyLinked == \E f \in Roots : Linked(f)
Leads(c) == \E f \in Files : LinkedMost(f) /\ Clone0[Inode0[f]] = c

\* What a run meets, and the files of one clone id among it.
CloneOf(path) == ino[dirent[path]].clone
Visible(path) == path[1] \in Roots /\ Readable(path)
Having(c, X) == {path \in Targets : path \notin X /\ Visible(path) /\ CloneOf(path) = c}
Copies(c, X) == Cardinality(Having(c, X))

\* No id is more frequent than c, each other is less frequent, and what was
\* replaced has c. The staging file at hand is not counted.
Even(c, X) == \A d \in Inodes : Copies(d, X) <= Copies(c, X)
Most(c, X) == \A d \in Inodes \ {c} : Copies(d, X) < Copies(c, X)
MovedTo(c) == \A f \in Moved : CloneOf(<<f, 0>>) = c
Lead(c, X) == (Moved = {} /\ Even(c, X)) \/ (MovedTo(c) /\ Most(c, X))
InHand(p) == IF job[p].pc \in Staging1 THEN {Tmp(p)} ELSE {}
LeadByClones ==
    AnyLinked \/ \A p \in Instances :
        /\ job[p].pc \in {"idle", "scan"} => Moved = {} \/ \E c \in Inodes : Lead(c, {})
        /\ job[p].pc \notin {"idle", "scan"} =>
             \A c \in {job[p].clone}, X \in {InHand(p)} : Lead(c, X)
LeadByLinks ==
    AnyLinked =>
        /\ \A f \in Moved : Leads(CloneOf(<<f, 0>>))
        /\ \A p \in Instances : job[p].pc \notin {"idle", "scan"} => Leads(job[p].clone)

\* Two names of one inode are two of its names at the start, whose clone id
\* stays.
LinksAlone ==
    \A q, r \in Paths : q # r /\ dirent[q] \in Inodes /\ dirent[q] = dirent[r] =>
        q[2] = 0 /\ dirent[q] = Inode0[q[1]]
LinksClone == \A f \in Files : Linked(f) => ino[Inode0[f]].clone = Clone0[Inode0[f]]

\* Nothing a run can meet escapes its set, and its links are counted.
MetAll ==
    \A p \in Instances : job[p].pc = "scan" =>
        \A path \in Targets : Visible(path) =>
            \/ \E v \in job[p].todo : v[1] = path
            \/ \E n \in DOMAIN job[p].set : job[p].set[n].path = path
LinksMet ==
    \A p \in Instances : job[p].pc = "scan" =>
        \A n \in DOMAIN job[p].set, i \in Inodes :
            job[p].set[n].inode = i => job[p].set[n].nlink = LinkCount(i)

\* The origin keeps the clone id it was met with, and so do the file at hand up
\* to the rename and those that are still to come, none of which is staged.
Rest(p) ==
    {n \in DOMAIN job[p].set :
        n > job[p].idx \/ (n = job[p].idx /\ job[p].pc \notin {"restore", "verify"})}
OriginClone ==
    \A p \in Instances : job[p].pc \notin {"idle", "scan"} =>
        CloneOf(Src(p)) = job[p].clone /\ Origin(p).clone = job[p].clone
RestClone ==
    \A p \in Instances : job[p].pc \notin {"idle", "scan"} =>
        \A n \in Rest(p) :
            /\ dirent[job[p].set[n].path] \in Inodes
            /\ CloneOf(job[p].set[n].path) = job[p].set[n].clone
            /\ job[p].pc \in Staging1 => job[p].set[n].path # Tmp(p)
HandClone == \A p \in Instances : job[p].pc \notin Early => Fm(p).clone # job[p].clone
StagedClone ==
    \A p \in Instances :
        /\ job[p].pc = "clone" => dirent[Tmp(p)] = NONE
        /\ job[p].pc \in Staging1 /\ dirent[Tmp(p)] \in Inodes => CloneOf(Tmp(p)) = job[p].clone

Apart == OriginInv /\ ContentInv /\ KeptInv
SameClones ==
    /\ LinksAlone /\ LinksClone /\ MetAll /\ LinksMet
    /\ OriginClone /\ RestClone /\ HandClone /\ StagedClone
ConvergeInv == Apart /\ SameClones /\ LeadByLinks /\ LeadByClones

\* The three invariants it builds on.
LEMMA ApartStep == ASSUME Apart, ClonesOnly, [Next]_vars PROVE Apart'
<1>1. StagedAsSeen
    BY DEF ClonesOnly, OneInstance, StagedAsSeen
<1> QED
    BY <1>1, OriginStep, ContentStep, KeptStep DEF Apart, ClonesOnly

-----------------------------------------------------------------------------
(* The clone ids of the single files *)

\* What they say of an instance past the choice of its origin.
LEMMA Hand ==
    ASSUME Apart, NEW p \in Instances, job[p].pc \notin Early
    PROVE  /\ Dst(p) \in Targets /\ Dst(p) \in Paths /\ Dst(p)[1] \in Roots
           /\ Tmp(p) \in Paths /\ Tmp(p) # Dst(p) /\ Tmp(p)[2] # 0
           /\ Src(p) \in Paths /\ Readable(Src(p))
           /\ job[p].pc \notin {"relative", "unlink", "make"}
<1>1. TypeOK /\ OriginReadable /\ KeptMet /\ NoUnlink
    BY DEF Apart, OriginInv, KeptInv, ContentInv
<1>2. Dst(p) \in Targets /\ Dst(p) \in Paths /\ Tmp(p) \in Paths /\ Tmp(p) # Dst(p)
      /\ Tmp(p)[2] > 0
    BY <1>1, Names DEF Early
<1>3. Tmp(p)[2] # 0
    BY <1>2
<1>4. Dst(p)[1] \in Roots
    BY <1>1, AtHand DEF KeptMet, KeptRecord, Dst
<1>5. Src(p) \in Paths
    BY <1>1, AtHand, SetPaths DEF Src, Origin
<1>6. Readable(Src(p)) /\ job[p].pc \notin {"relative", "unlink", "make"}
    BY <1>1 DEF OriginReadable, Early, NoUnlink
<1> QED
    BY <1>2, <1>3, <1>4, <1>5, <1>6

\* A step changes the entries of the file at hand and its staging name at most,
\* the latter in three ways, and no inode that has a name in its content or its
\* clone id.
LEMMA HandFrame ==
    ASSUME Apart, NEW p \in Instances, Step(p) \/ Crash(p)
    PROVE  /\ job[p].pc \in Early => dirent' = dirent
           /\ Clonefile(p) \/ Rename(p) \/ Undo(p) \/ dirent' = dirent
           /\ job[p].pc \in Early \/ Rename(p) \/ dirent'[Dst(p)] = dirent[Dst(p)]
           /\ \A path \in Paths :
                job[p].pc \in Early \/ path \notin {Dst(p), Tmp(p)} => dirent'[path] = dirent[path]
           /\ \A path \in Paths : dirent[path] \in Inodes =>
                /\ ino'[dirent[path]].full = ino[dirent[path]].full
                /\ ino'[dirent[path]].clone = ino[dirent[path]].clone
<1>1. TypeOK /\ NoUnlink
    BY DEF Apart, OriginInv, ContentInv
<1>2. CASE job[p].pc \in Early
    BY <1>1, <1>2, EarlySteps
<1>3. CASE Crash(p)
    BY <1>3 DEF Crash
<1>4. CASE Step(p) /\ job[p].pc \notin Early
  <2>1. /\ \A path \in Paths \ {Dst(p), Tmp(p)} : dirent'[path] = dirent[path]
        /\ Rename(p) \/ Unlink(p) \/ Make(p) \/ dirent'[Dst(p)] = dirent[Dst(p)]
        /\ \A path \in Paths : dirent[path] \in Inodes =>
                /\ ino'[dirent[path]].full = ino[dirent[path]].full
                /\ ino'[dirent[path]].clone = ino[dirent[path]].clone
      BY <1>1, <1>4, OneFile
  <2>2. ~Unlink(p) /\ ~Make(p)
      BY <1>1 DEF NoUnlink, Unlink, Make, At
  <2>3. Clonefile(p) \/ Rename(p) \/ Undo(p) \/ dirent' = dirent
    <3>1. CASE CopyMetadata(p)
        BY <3>1 DEF CopyMetadata
    <3> QED
        BY <1>1, <1>4, <2>2, <3>1, Writers
  <2> QED
      BY <1>4, <2>1, <2>2, <2>3
<1> QED
    BY <1>2, <1>3, <1>4

\* A clone is a new inode, and a rename leaves the staging name.
LEMMA LinksAloneStep ==
    ASSUME Apart, SameClones, NEW p \in Instances, Step(p) \/ Crash(p)
    PROVE  LinksAlone'
<1>1. TypeOK /\ LinksAlone
    BY DEF Apart, OriginInv, SameClones
<1>2. dirent \in [Paths -> Inodes \cup Paths \cup {NONE}]
    BY <1>1 DEF TypeOK
<1> SUFFICES ASSUME NEW q \in Paths, NEW r \in Paths, q # r,
                    dirent'[q] \in Inodes, dirent'[q] = dirent'[r]
             PROVE  q[2] = 0 /\ dirent'[q] = Inode0[q[1]]
    BY DEF LinksAlone
<1>3. CASE dirent'[q] = dirent[q] /\ dirent'[r] = dirent[r]
    BY <1>1, <1>3 DEF LinksAlone
<1>4. CASE Clonefile(p)
  <2> DEFINE i == CHOOSE n \in Inodes \ Used : TRUE
  <2>1. i \in Inodes /\ i \notin Used /\ dirent' = [dirent EXCEPT ![Tmp(p)] = i]
      BY <1>4 DEF Clonefile
  <2>2. \A path \in Paths : dirent[path] # i
      BY <2>1 DEF Used
  <2> HIDE DEF i
  <2>3. q # Tmp(p) /\ r # Tmp(p)
      BY <1>2, <2>1, <2>2
  <2> QED
      BY <1>2, <1>3, <2>1, <2>3
<1>5. CASE Rename(p)
  <2>1. job[p].pc \notin Early
      BY <1>5 DEF Rename, At, Early
  <2>2. dirent' = [dirent EXCEPT ![Dst(p)] = dirent[Tmp(p)], ![Tmp(p)] = NONE]
      BY <1>5 DEF Rename
  <2>3. q # Tmp(p) /\ r # Tmp(p)
      BY <1>2, <2>2, DedupAssumption
  <2>4. ASSUME NEW s \in Paths, s # Dst(p), s # Tmp(p), dirent[s] = dirent[Tmp(p)],
               dirent[s] \in Inodes
        PROVE  FALSE
      BY <1>1, <2>1, <2>4, Hand DEF LinksAlone
  <2>5. q # Dst(p) /\ r # Dst(p)
      BY <1>2, <2>1, <2>2, <2>3, <2>4, Hand
  <2> QED
      BY <1>2, <1>3, <2>2, <2>3, <2>5
<1>6. CASE Undo(p)
  <2>1. dirent' = [dirent EXCEPT ![Tmp(p)] = NONE]
      BY <1>6 DEF Undo
  <2>2. q # Tmp(p) /\ r # Tmp(p)
      BY <1>2, <2>1, DedupAssumption
  <2> QED
      BY <1>2, <1>3, <2>1, <2>2
<1>7. CASE dirent' = dirent
    BY <1>3, <1>7
<1> QED
    BY <1>4, <1>5, <1>6, <1>7, HandFrame

\* An inode with links keeps its names, and so its clone id.
LEMMA LinksCloneStep ==
    ASSUME Apart, SameClones, NEW p \in Instances, Step(p) \/ Crash(p)
    PROVE  LinksClone'
<1> SUFFICES ASSUME NEW f \in Files, Linked(f)
             PROVE  ino'[Inode0[f]].clone = Clone0[Inode0[f]]
    BY DEF LinksClone
<1>1. dirent[<<f, 0>>] = Inode0[f] /\ <<f, 0>> \in Paths /\ Inode0[f] \in Inodes
    BY FileNames, DedupAssumption DEF Apart, KeptInv, KeptUntouched, Kept
<1>2. ino'[Inode0[f]].clone = ino[Inode0[f]].clone
    BY <1>1, HandFrame
<1> QED
    BY <1>2 DEF SameClones, LinksClone

\* What is to be met is met, and its links are counted.
LEMMA MetAllStep ==
    ASSUME Apart, SameClones, ClonesOnly, NEW p \in Instances, Step(p) \/ Crash(p)
    PROVE  MetAll' /\ LinksMet'
<1>1. TypeOK /\ Met /\ MetAll /\ LinksMet /\ \A q \in Instances : q = p
    BY DEF Apart, OriginInv, SameClones, ClonesOnly, OneInstance
<1>2. NewJob.pc = "idle"
    BY DEF NewJob
<1>3. CASE job'[p].pc # "scan"
    BY <1>1, <1>3 DEF MetAll, LinksMet
<1>4. CASE job[p].pc = "idle"
  <2>1. job'[p].set = <<>> /\ job'[p].todo = Visits /\ UNCHANGED fs
      BY <1>1, <1>4, IdleFrame, Started
  <2>2. ASSUME NEW path \in Targets, Visible(path)
        PROVE  \E v \in Visits : v[1] = path
    <3>1. <<path, 1>> \in Visits
        BY <2>2 DEF Visits, Visible, Readable
    <3> QED
        BY <3>1
  <2>3. MetAll'
      BY <1>1, <2>1, <2>2 DEF MetAll, Visible, Readable
  <2> QED
      BY <1>1, <2>1, <2>3 DEF LinksMet
<1>5. CASE Meet(p)
  <2> DEFINE s == job[p].set
             t == job'[p].set
             k == Len(job[p].set) + 1
  <2>1. PICK v \in job[p].todo :
           /\ v[1] \in Targets /\ job'[p].todo = job[p].todo \ {v}
           /\ \/ dirent[v[1]] \notin Inodes /\ t = s
              \/ /\ DOMAIN t = DOMAIN s \cup {k} /\ t[k] = Metadata(v[1])
                 /\ \A n \in DOMAIN s : t[n] = s[n]
      BY <1>1, <1>5, MeetFrame
  <2>2. job[p].pc = "scan" /\ UNCHANGED fs
      BY <1>5 DEF Meet, At
  <2>3. Readable(v[1])
      BY <1>1, <2>2 DEF Met, MetAsIs
  <2>4. /\ Metadata(v[1]).path = v[1]
        /\ Metadata(v[1]).nlink = LinkCount(Metadata(v[1]).inode)
      BY DEF Metadata
  <2> HIDE DEF s, t, k
  <2>5. /\ DOMAIN t = DOMAIN s \cup {k} /\ t[k] = Metadata(v[1])
        /\ \A n \in DOMAIN s : t[n] = s[n]
      BY <2>1, <2>3 DEF Readable
  <2>6. MetAll'
    <3>1. ASSUME NEW path \in Targets, Visible(path)
          PROVE  \/ \E w \in job'[p].todo : w[1] = path
                 \/ \E n \in DOMAIN t : t[n].path = path
      <4>1. CASE \E n \in DOMAIN s : s[n].path = path
          BY <2>5, <4>1
      <4>2. CASE \E w \in job[p].todo : w[1] = path
          BY <2>1, <2>4, <2>5, <4>2
      <4> QED
          BY <1>1, <2>2, <3>1, <4>1, <4>2 DEF MetAll, s
    <3> QED
        BY <1>1, <2>2, <3>1 DEF MetAll, Visible, Readable, t
  <2>7. LinksMet'
    <3>1. \A n \in DOMAIN s, i \in Inodes : s[n].inode = i => s[n].nlink = LinkCount(i)
        BY <1>1, <2>2 DEF LinksMet, s
    <3>2. \A n \in DOMAIN t, i \in Inodes : t[n].inode = i => t[n].nlink = LinkCount(i)
        BY <2>4, <2>5, <3>1
    <3>3. \A i : LinkCount(i)' = LinkCount(i)
        BY <2>2 DEF LinkCount
    <3> QED
        BY <1>1, <3>2, <3>3 DEF LinksMet, t
  <2> QED
      BY <2>6, <2>7
<1> QED
  <2>1. CASE job[p].pc = "scan" /\ ~Meet(p)
      BY <1>1, <1>2, <1>3, <2>1, ScanFrame
  <2>2. CASE job[p].pc = "each"
      BY <1>1, <1>2, <1>3, <2>2, EachFrame
  <2>3. CASE job[p].pc \notin Early
      BY <1>1, <1>2, <1>3, <2>3, LateFrame
  <2> QED
      BY <1>4, <1>5, <2>1, <2>2, <2>3 DEF Early

\* An entry says what its file is a clone of.
LEMMA CloneFound ==
    ASSUME NoSymlink, NEW path \in Paths, dirent[path] \in Inodes
    PROVE  InodeAt(path) = dirent[path] /\ CloneIdAt(path) = CloneOf(path)
<1>1. InodeAt(path) = dirent[path]
    BY Direct
<1> QED
    BY <1>1, DedupAssumption DEF CloneIdAt, CloneOf

\* The origin keeps its clone id.
LEMMA OriginCloneStep ==
    ASSUME Apart, SameClones, ClonesOnly, NEW p \in Instances, Step(p) \/ Crash(p)
    PROVE  OriginClone'
<1>1. TypeOK /\ OriginInv /\ Met /\ OriginClone /\ NoSymlink /\ \A q \in Instances : q = p
    BY DEF Apart, OriginInv, ContentInv, SameClones, ClonesOnly, OneInstance
<1>2. NewJob.pc = "idle"
    BY DEF NewJob
<1> SUFFICES ASSUME job'[p].pc \notin {"idle", "scan"}
             PROVE  /\ ino'[dirent'[job'[p].set[job'[p].origin].path]].clone = job'[p].clone
                    /\ job'[p].set[job'[p].origin].clone = job'[p].clone
    BY <1>1 DEF OriginClone, CloneOf, Src, Origin
<1>3. CASE job[p].pc = "scan"
  <2>1. PICK n \in DOMAIN job[p].set :
          /\ UNCHANGED fs /\ job'[p].set = job[p].set /\ job'[p].origin = n
          /\ job'[p].clone = CloneIdAt(job[p].set[n].path)
      BY <1>1, <1>2, <1>3, ScanFrame
  <2>2. /\ dirent[job[p].set[n].path] \in Inodes /\ job[p].set[n].path \in Paths
        /\ job[p].set[n].clone = CloneOf(job[p].set[n].path)
      BY <1>1, <1>3, SetPaths DEF Met, MetAsIs, Readable, CloneOf
  <2> QED
      BY <1>1, <2>1, <2>2, CloneFound DEF CloneOf
<1>4. CASE job[p].pc = "each"
  <2>1. /\ UNCHANGED fs /\ job'[p].set = job[p].set /\ job'[p].origin = job[p].origin
        /\ job'[p].clone = job[p].clone
      BY <1>1, <1>2, <1>4, EachFrame
  <2> QED
      BY <1>1, <1>4, <2>1 DEF OriginClone, CloneOf, Src, Origin
<1>5. CASE job[p].pc \notin Early
  <2>1. /\ job'[p].set = job[p].set /\ job'[p].origin = job[p].origin
        /\ job'[p].clone = job[p].clone
      BY <1>1, <1>2, <1>5, LateFrame
  <2>2. dirent'[Src(p)] = dirent[Src(p)]
      BY <1>1, <1>5, OriginStays
  <2>3. ino'[dirent[Src(p)]].clone = ino[dirent[Src(p)]].clone
      BY <1>5, Hand, HandFrame DEF Readable
  <2> QED
      BY <1>1, <1>5, <2>1, <2>2, <2>3 DEF OriginClone, CloneOf, Src, Origin, Early
<1> QED
    BY <1>1, <1>3, <1>4, <1>5, Started DEF Early

\* A file is replaced only if it is no clone of the origin yet.
LEMMA HandCloneStep ==
    ASSUME Apart, SameClones, ClonesOnly, NEW p \in Instances, Step(p) \/ Crash(p)
    PROVE  HandClone'
<1>1. TypeOK /\ HandClone /\ OriginClone /\ \A q \in Instances : q = p
    BY DEF Apart, OriginInv, SameClones, ClonesOnly, OneInstance
<1>2. NewJob.pc = "idle"
    BY DEF NewJob
<1> SUFFICES ASSUME job'[p].pc \notin Early
             PROVE  job'[p].set[job'[p].idx].clone # job'[p].clone
    BY <1>1 DEF HandClone, Fm
<1>3. CASE job[p].pc = "each"
  <2>1. /\ Verdict(p) = "replace" /\ job'[p].set = job[p].set
        /\ job'[p].idx = job[p].idx /\ job'[p].clone = job[p].clone
      BY <1>1, <1>2, <1>3, EachFrame DEF Early
  <2>2. Mode(p) = "clone"
    <3>1. job[p].opt \in Options
        BY <1>1, <1>3 DEF TypeOK, JobTypeOK
    <3> QED
        BY <3>1 DEF ClonesOnly, CloneOnly, Mode
  <2>3. Fm(p).clone # Origin(p).clone
      BY <2>1, <2>2 DEF Verdict, Shared
  <2> QED
      BY <1>1, <1>3, <2>1, <2>3 DEF OriginClone, Fm
<1>4. CASE job[p].pc \notin Early
  <2>1. /\ job'[p].set = job[p].set /\ job'[p].idx = job[p].idx
        /\ job'[p].clone = job[p].clone
      BY <1>1, <1>2, <1>4, LateFrame DEF Early
  <2> QED
      BY <1>1, <1>4, <2>1 DEF HandClone, Fm
<1> QED
    BY <1>1, <1>2, <1>3, <1>4, ScanFrame, Started DEF Early

\* What is staged is a clone of the origin.
LEMMA StagedCloneStep ==
    ASSUME Apart, SameClones, ClonesOnly, NEW p \in Instances, Step(p) \/ Crash(p)
    PROVE  StagedClone'
<1>1. TypeOK /\ StagedClone /\ OriginClone /\ NoSymlink /\ \A q \in Instances : q = p
    BY DEF Apart, OriginInv, ContentInv, SameClones, ClonesOnly, OneInstance
<1>2. NewJob.pc = "idle"
    BY DEF NewJob
<1> DEFINE tmp == Staging(job'[p].set[job'[p].idx].path)
<1> SUFFICES ASSUME job'[p].pc \in Staging1
             PROVE  /\ job'[p].pc = "clone" => dirent'[tmp] = NONE
                    /\ dirent'[tmp] \in Inodes => ino'[dirent'[tmp]].clone = job'[p].clone
    BY <1>1 DEF StagedClone, Tmp, Dst, Fm, CloneOf, Staging1
<1>3. job[p].pc \notin Early
    BY <1>1, <1>2, ScanFrame, EachFrame, Started DEF Early, Staging1
<1>4. tmp = Tmp(p) /\ job'[p].clone = job[p].clone
    BY <1>1, <1>2, <1>3, LateFrame DEF Tmp, Dst, Fm, Staging1
<1> HIDE DEF tmp
<1>5. CASE job'[p].pc = "clone"
  <2>1. dirent[Tmp(p)] = NONE /\ dirent' = dirent
      BY <1>1, <1>3, <1>5, Flow DEF TmpName
  <2> QED
      BY <1>4, <2>1, DedupAssumption
<1>6. CASE Clonefile(p)
  <2> DEFINE i == CHOOSE n \in Inodes \ Used : TRUE
  <2>1. InodeAt(Src(p)) = dirent[Src(p)] /\ ino[dirent[Src(p)]].clone = job[p].clone
    <3>1. Src(p) \in Paths /\ dirent[Src(p)] \in Inodes
        BY <1>3, Hand DEF Readable
    <3> QED
        BY <1>1, <1>3, <3>1, CloneFound DEF OriginClone, CloneOf, Early
  <2>2. i \in Inodes /\ dirent' = [dirent EXCEPT ![Tmp(p)] = i] /\ job'[p].pc # "clone"
      BY <1>1, <1>3, <1>6, Flow DEF Clonefile, TmpName, At
  <2>3. \E full, m : ino' = [ino EXCEPT ![i] = [full |-> full, meta |-> m, clone |-> job[p].clone]]
      BY <1>6, <2>1 DEF Clonefile, ClonesOnly, CloneIdKept, MayFail
  <2> HIDE DEF i
  <2>4. dirent'[Tmp(p)] = i
      BY <1>1, <1>3, <2>2, Hand DEF TypeOK
  <2>5. ino'[i].clone = job[p].clone
      BY <1>1, <2>2, <2>3 DEF TypeOK
  <2> QED
      BY <1>4, <2>2, <2>4, <2>5
<1>7. CASE job'[p].pc # "clone" /\ ~Clonefile(p)
  <2>1. job[p].pc \in Staging1 /\ ~Rename(p) /\ ~Undo(p)
      BY <1>1, <1>3, <1>7, Flow, ResultCleared, Moves
      DEF Check, CopyMetadata, Recheck, At, Staging1, Rename, Undo, Labels
  <2>2. dirent' = dirent
      BY <1>7, <2>1, HandFrame
  <2>3. dirent[Tmp(p)] \in Inodes => ino'[dirent[Tmp(p)]].clone = job[p].clone
      BY <1>1, <1>3, <2>1, Hand, HandFrame DEF StagedClone, CloneOf
  <2> QED
      BY <1>4, <1>7, <2>2, <2>3
<1> QED
    BY <1>5, <1>6, <1>7

\* A step on the file at hand leaves the files still to come as they are, and
\* the file at hand up to the rename.
LEMMA RestStays ==
    ASSUME Apart, SameClones, ClonesOnly, NEW p \in Instances, Step(p) \/ Crash(p),
           job[p].pc \notin Early, job'[p].pc \notin {"idle", "scan"},
           NEW n \in Rest(p)'
    PROVE  /\ n \in Rest(p)
           /\ dirent'[job[p].set[n].path] = dirent[job[p].set[n].path]
           /\ job'[p].pc \in Staging1 => job[p].set[n].path # Tmp(p)
<1>1. TypeOK /\ Met /\ RestClone
    BY DEF Apart, OriginInv, SameClones
<1>2. /\ job'[p].set = job[p].set
      /\ job'[p].pc = "each" \/ job'[p].idx = job[p].idx
      /\ job'[p].pc = "each" => job'[p].idx = job[p].idx + 1
  <2>1. Step(p) /\ job'[p].pc # "idle"
      BY <1>1, LateFrame DEF Crash, Become, NewJob, TypeOK
  <2> QED
      BY <1>1, <2>1, LateFrame, LateFields DEF NewJob
<1>3. job[p].idx \in Nat /\ job[p].idx \in DOMAIN job[p].set /\ n \in DOMAIN job[p].set
      /\ DOMAIN job[p].set \subseteq Nat
  <2>1. job[p].set \in Seq(FileMetadata) /\ job[p].idx \in Nat
      BY <1>1 DEF TypeOK, Job
  <2>2. job[p].idx \in DOMAIN job[p].set
      BY <1>1, AtHand
  <2>3. n \in DOMAIN job[p].set
      BY <1>2 DEF Rest
  <2> QED
      BY <2>1, <2>2, <2>3
<1>4. job'[p].pc \notin {"each", "restore", "verify"} => job[p].pc \notin {"restore", "verify"}
  <2>1. job'[p].pc \in Labels
      BY <1>1, TypesStep DEF Next, TypeOK, Job
  <2>2. ASSUME job[p].pc \in {"restore", "verify"}
        PROVE  /\ ~SaveMtime(p) /\ ~TmpName(p) /\ ~Clonefile(p) /\ ~Check(p)
               /\ ~CopyMetadata(p) /\ ~Recheck(p) /\ ~Relative(p) /\ ~Unlink(p)
      BY <2>2 DEF SaveMtime, TmpName, Clonefile, Check, CopyMetadata, Recheck, Relative,
                  Unlink, At
  <2> QED
      BY <1>1, <2>1, <2>2, Flow DEF Staging1, Labels
<1>5. n > job[p].idx
        \/ (n = job[p].idx /\ job'[p].pc \notin {"each", "restore", "verify"})
    BY <1>2, <1>3 DEF Rest
<1>6. n \in Rest(p)
    BY <1>3, <1>4, <1>5 DEF Rest
<1> DEFINE path == job[p].set[n].path
<1>7. path \in Paths /\ dirent[path] \in Inodes
      /\ (job[p].pc \in Staging1 => path # Tmp(p))
    BY <1>1, <1>3, <1>6, SetPaths DEF RestClone, Early
<1> HIDE DEF path
<1>8. dirent'[path] = dirent[path]
  <2>1. CASE n = job[p].idx
    <3>1. path = Dst(p) /\ ~Rename(p)
        BY <1>1, <1>5, <2>1, <1>3, ResultCleared DEF path, Dst, Fm
    <3> QED
        BY <3>1, HandFrame
  <2>2. CASE n # job[p].idx
    <3>1. path # Dst(p)
        BY <1>1, <1>3, <2>2 DEF Met, MetOnce, ClonesOnly, path, Dst, Fm
    <3>2. job[p].pc \notin Staging1 => dirent' = dirent
        BY HandFrame DEF Clonefile, Rename, Undo, At, Staging1
    <3> QED
        BY <1>7, <3>1, <3>2, HandFrame
  <2> QED
      BY <2>1, <2>2
<1>9. job'[p].pc \in Staging1 => path # Tmp(p)
  <2>1. CASE job[p].pc \in Staging1
      BY <1>7, <2>1
  <2>2. CASE job'[p].pc = "clone"
    <3>1. dirent[Tmp(p)] = NONE
        BY <1>1, <2>2, Flow
    <3> QED
        BY <1>7, <3>1, DedupAssumption
  <2>3. CASE job[p].pc \notin Staging1 /\ job'[p].pc \in Staging1 \ {"clone"}
      BY <1>1, <2>3, Flow DEF Clonefile, Check, CopyMetadata, Recheck, At, Staging1
  <2> QED
      BY <2>1, <2>2, <2>3
<1> QED
    BY <1>6, <1>8, <1>9 DEF path

\* The files still to come keep the clone ids they were met with.
LEMMA RestCloneStep ==
    ASSUME Apart, SameClones, ClonesOnly, NEW p \in Instances, Step(p) \/ Crash(p)
    PROVE  RestClone'
<1>1. TypeOK /\ Met /\ RestClone /\ \A q \in Instances : q = p
    BY DEF Apart, OriginInv, SameClones, ClonesOnly, OneInstance
<1>2. NewJob.pc = "idle"
    BY DEF NewJob
<1> SUFFICES ASSUME job'[p].pc \notin {"idle", "scan"}, NEW n \in Rest(p)'
             PROVE  /\ dirent'[job'[p].set[n].path] \in Inodes
                    /\ ino'[dirent'[job'[p].set[n].path]].clone = job'[p].set[n].clone
                    /\ job'[p].pc \in Staging1 => job'[p].set[n].path # Tmp(p)'
    BY <1>1 DEF RestClone, CloneOf
<1>3. CASE job[p].pc = "scan"
  <2>1. job'[p].pc = "each" /\ job'[p].set = job[p].set /\ UNCHANGED fs
      BY <1>1, <1>2, <1>3, ScanFrame
  <2>2. n \in DOMAIN job[p].set
      BY <2>1 DEF Rest
  <2>3. dirent' = dirent /\ ino' = ino /\ job'[p].pc \notin Staging1
      BY <2>1 DEF Staging1
  <2>4. /\ dirent[job[p].set[n].path] \in Inodes
        /\ ino[dirent[job[p].set[n].path]].clone = job[p].set[n].clone
    <3>1. MetAsIs
        BY <1>1 DEF Met
    <3> QED
        BY <1>3, <2>2, <3>1 DEF MetAsIs, Readable
  <2> QED
      BY <2>1, <2>3, <2>4
<1>4. CASE job[p].pc = "each"
  <2>1. job'[p].set = job[p].set /\ UNCHANGED fs /\ job'[p].pc \notin Staging1
      BY <1>1, <1>2, <1>4, EachFrame DEF Staging1
  <2>2. job'[p].idx = job[p].idx \/ job'[p].idx = job[p].idx + 1
    <3>1. CASE Pass(p)
        BY <1>1, <3>1 DEF Pass, Become, TypeOK, Job
    <3> QED
        BY <1>1, <1>2, <1>4, <3>1, EachFrame
  <2>3. n \in Rest(p)
    <3>1. job[p].set \in Seq(FileMetadata) /\ job[p].idx \in Nat
        BY <1>1 DEF TypeOK, Job
    <3> QED
        BY <1>4, <2>1, <2>2, <3>1 DEF Rest
  <2> QED
      BY <1>1, <1>4, <2>1, <2>3 DEF RestClone, CloneOf
<1>5. CASE job[p].pc \notin Early
  <2>1. /\ n \in Rest(p)
        /\ dirent'[job[p].set[n].path] = dirent[job[p].set[n].path]
        /\ job'[p].pc \in Staging1 => job[p].set[n].path # Tmp(p)
      BY <1>5, RestStays
  <2>2. job'[p].set = job[p].set /\ (job'[p].pc = "each" \/ job'[p].idx = job[p].idx)
      BY <1>1, <1>2, <1>5, LateFrame
  <2>3. /\ dirent[job[p].set[n].path] \in Inodes /\ job[p].set[n].path \in Paths
        /\ ino[dirent[job[p].set[n].path]].clone = job[p].set[n].clone
    <3>1. n \in DOMAIN job[p].set
        BY <2>1 DEF Rest
    <3> QED
        BY <1>1, <1>5, <2>1, <3>1, SetPaths DEF RestClone, CloneOf, Early
  <2>4. ino'[dirent[job[p].set[n].path]].clone = ino[dirent[job[p].set[n].path]].clone
      BY <2>3, HandFrame
  <2>5. job'[p].pc \in Staging1 => Tmp(p)' = Tmp(p)
      BY <2>2 DEF Tmp, Dst, Fm, Staging1
  <2> QED
      BY <2>1, <2>2, <2>3, <2>4, <2>5
<1> QED
    BY <1>1, <1>3, <1>4, <1>5, Started DEF Early

\* Every step keeps what is said of the single clone ids.
LEMMA SameClonesStep ==
    ASSUME Apart, SameClones, ClonesOnly, NEW p \in Instances, Step(p) \/ Crash(p)
    PROVE  SameClones'
BY LinksAloneStep, LinksCloneStep, MetAllStep, OriginCloneStep, RestCloneStep,
   HandCloneStep, StagedCloneStep DEF SameClones

-----------------------------------------------------------------------------
(* The counts *)

\* What a run may meet is finite.
LEMMA TargetsFinite ==
    /\ Targets \subseteq Paths /\ IsFiniteSet(Targets)
    /\ \A S \in SUBSET Targets : IsFiniteSet(S) /\ Cardinality(S) \in Nat
<1>1. IsFiniteSet(Files) /\ MaxStage \in Nat /\ MaxStage - 1 \in Int
    BY DedupAssumption
<1>2. IsFiniteSet(0 .. MaxStage - 1)
    BY <1>1, FS_Interval
<1>3. IsFiniteSet(Targets)
    BY <1>1, <1>2, FS_Product DEF Targets
<1>4. Targets \subseteq Paths
    BY <1>1 DEF Targets, Paths
<1> QED
    BY <1>3, <1>4, FS_Subset, FS_CardinalityType

\* If the files with the id c become no fewer, and those with any other no more,
\* c stays in the lead, and takes it if they do become more.
LEMMA CountsKept ==
    ASSUME NEW c \in Inodes, NEW X, NEW Y,
           Having(c, X) \subseteq Having(c, Y)',
           \A d \in Inodes \ {c} : Having(d, Y)' \subseteq Having(d, X)
    PROVE  /\ Even(c, X) => Even(c, Y)'
           /\ Most(c, X) => Most(c, Y)'
           /\ Even(c, X) /\ Having(c, X) # Having(c, Y)' => Most(c, Y)'
<1>1. \A d : Having(d, X) \in SUBSET Targets /\ Having(d, Y)' \in SUBSET Targets
    BY DEF Having
<1>2. \A d : Copies(d, X) \in Nat /\ Copies(d, Y)' \in Nat
    BY <1>1, TargetsFinite DEF Copies
<1>3. \A d \in Inodes \ {c} : Copies(d, Y)' <= Copies(d, X)
    BY <1>1, TargetsFinite, FS_Subset DEF Copies
<1>4. Copies(c, X) <= Copies(c, Y)'
      /\ (Having(c, X) # Having(c, Y)' => Copies(c, X) # Copies(c, Y)')
    BY <1>1, TargetsFinite, FS_Subset DEF Copies
<1>5. Even(c, X) => Even(c, Y)'
    BY <1>2, <1>3, <1>4 DEF Even
<1>6. Most(c, X) => Most(c, Y)'
    BY <1>2, <1>3, <1>4 DEF Most
<1>7. Even(c, X) /\ Having(c, X) # Having(c, Y)' => Most(c, Y)'
    BY <1>2, <1>3, <1>4 DEF Even, Most
<1> QED
    BY <1>5, <1>6, <1>7

\* An id that no other exceeds is the one that is in the lead.
LEMMA EvenLeads ==
    ASSUME NEW c \in Inodes, Even(c, {}), Moved = {} \/ \E d \in Inodes : Lead(d, {})
    PROVE  Lead(c, {})
<1>1. \A d : Copies(d, {}) \in Nat
    BY TargetsFinite DEF Copies, Having
<1>2. CASE Moved = {}
    BY <1>2 DEF Lead
<1>3. ASSUME NEW d \in Inodes, MovedTo(d), Most(d, {})
      PROVE  Lead(c, {})
  <2>1. d = c
      BY <1>1, <1>3 DEF Even, Most
  <2> QED
      BY <1>3, <2>1 DEF Lead
<1> QED
    BY <1>2, <1>3 DEF Lead

\* What neither the replaced files nor those met have to do with stays.
LEMMA SameLead ==
    ASSUME UNCHANGED <<dirent, ino>>
    PROVE  Moved' = Moved /\ \A c, X : Lead(c, X)' = Lead(c, X)
<1>1. Moved' = Moved
    BY DEF Moved
<1>2. \A c : MovedTo(c)' = MovedTo(c)
    BY <1>1 DEF MovedTo, CloneOf
<1>3. \A c, X : Having(c, X)' = Having(c, X)
    BY DEF Having, Visible, Readable, CloneOf
<1>4. \A c, X : Even(c, X)' = Even(c, X) /\ Most(c, X)' = Most(c, X)
    BY <1>3 DEF Even, Most, Copies
<1> QED
    BY <1>1, <1>2, <1>4 DEF Lead

\* What is about to be renamed is a clone of the origin with the content, and
\* the file it replaces is neither a clone of the origin nor counted as one.
LEMMA Renaming ==
    ASSUME Apart, SameClones, NEW p \in Instances, job[p].pc = "rename"
    PROVE  /\ dirent[Dst(p)] \in Inodes /\ CloneOf(Dst(p)) # job[p].clone
           /\ dirent[Tmp(p)] \in Inodes =>
                CloneOf(Tmp(p)) = job[p].clone /\ ino[dirent[Tmp(p)]].full
           /\ Rename(p) => /\ dirent[Tmp(p)] \in Inodes /\ ino' = ino
                           /\ dirent'[Dst(p)] = dirent[Tmp(p)]
                           /\ dirent'[Tmp(p)] = NONE
<1>1. TypeOK /\ RestClone /\ HandClone /\ StagedClone /\ NoSymlink /\ StagedFull
    BY DEF Apart, OriginInv, ContentInv, SameClones
<1>2. job[p].idx \in Rest(p) /\ Fm(p) = job[p].set[job[p].idx]
    BY <1>1, AtHand DEF Rest, Early
<1>3. dirent[Dst(p)] \in Inodes /\ CloneOf(Dst(p)) = Fm(p).clone
    BY <1>1, <1>2 DEF RestClone, Dst
<1>4. Fm(p).clone # job[p].clone
    BY <1>1 DEF HandClone, Early
<1>5. dirent[Tmp(p)] \in Inodes => CloneOf(Tmp(p)) = job[p].clone /\ ino[dirent[Tmp(p)]].full
    BY <1>1 DEF StagedClone, StagedFull, Staging1
<1>6. ASSUME Rename(p)
      PROVE  /\ dirent[Tmp(p)] \in Inodes /\ ino' = ino
             /\ dirent'[Dst(p)] = dirent[Tmp(p)] /\ dirent'[Tmp(p)] = NONE
  <2>1. Tmp(p) \in Paths /\ Dst(p) \in Paths /\ Tmp(p) # Dst(p)
      BY Hand DEF Early
  <2>2. /\ dirent[Tmp(p)] # NONE /\ ino' = ino
        /\ dirent' = [dirent EXCEPT ![Dst(p)] = dirent[Tmp(p)], ![Tmp(p)] = NONE]
      BY <1>6 DEF Rename
  <2> QED
      BY <1>1, <2>1, <2>2 DEF TypeOK, NoSymlink
<1> QED
    BY <1>3, <1>4, <1>5, <1>6

\* Where a step on the file at hand leaves its staging name.
LEMMA StagingFrame ==
    ASSUME Apart, SameClones, NEW p \in Instances, Step(p) \/ Crash(p),
           job[p].pc \notin Early
    PROVE  /\ job'[p].pc \in Staging1 => Tmp(p)' = Tmp(p)
           /\ job[p].pc \notin Staging1 =>
                dirent' = dirent /\ (job'[p].pc \in Staging1 => dirent[Tmp(p)] = NONE)
           /\ job'[p].pc \notin Staging1 /\ dirent'[Tmp(p)] \in Inodes =>
                dirent'[Tmp(p)] = dirent[Tmp(p)]
<1>1. TypeOK /\ NewJob.pc = "idle"
    BY DEF Apart, OriginInv, NewJob
<1>2. job'[p].pc \in Staging1 => Tmp(p)' = Tmp(p)
    BY <1>1, LateFrame DEF Tmp, Dst, Fm, Staging1
<1>3. ASSUME job[p].pc \notin Staging1
      PROVE  dirent' = dirent /\ (job'[p].pc \in Staging1 => dirent[Tmp(p)] = NONE)
  <2>1. /\ ~Clonefile(p) /\ ~Check(p) /\ ~CopyMetadata(p) /\ ~Recheck(p)
        /\ ~Rename(p) /\ ~Undo(p)
      BY <1>3 DEF Clonefile, Check, CopyMetadata, Recheck, Rename, Undo, At, Staging1
  <2>2. dirent' = dirent
      BY <2>1, HandFrame
  <2>3. job'[p].pc \in Staging1 => dirent[Tmp(p)] = NONE
      BY <1>1, <1>3, <2>1, Flow DEF Staging1
  <2> QED
      BY <2>2, <2>3
<1>4. ASSUME job'[p].pc \notin Staging1, dirent'[Tmp(p)] \in Inodes
      PROVE  dirent'[Tmp(p)] = dirent[Tmp(p)]
  <2>1. ~Clonefile(p)
      BY <1>1, <1>4, Moves DEF Clonefile, Labels, Staging1
  <2>2. ~Rename(p)
      BY <1>4, Renaming, DedupAssumption DEF Rename, At
  <2>3. ~Undo(p)
      BY <1>1, <1>4, Hand, DedupAssumption DEF Undo, TypeOK
  <2> QED
      BY <2>1, <2>2, <2>3, HandFrame
<1> QED
    BY <1>2, <1>3, <1>4

\* A path that a step leaves alone is met as before.
LEMMA SameVisible ==
    ASSUME Apart, NEW p \in Instances, Step(p) \/ Crash(p), NEW path \in Paths,
           dirent'[path] = dirent[path]
    PROVE  /\ Visible(path)' = Visible(path)
           /\ Visible(path) => CloneOf(path)' = CloneOf(path)
<1>1. CASE dirent[path] \in Inodes
  <2>1. /\ ino'[dirent[path]].full = ino[dirent[path]].full
        /\ ino'[dirent[path]].clone = ino[dirent[path]].clone
      BY <1>1, HandFrame
  <2> QED
      BY <2>1 DEF Visible, Readable, CloneOf
<1>2. CASE dirent[path] \notin Inodes
    BY <1>2 DEF Visible, Readable
<1> QED
    BY <1>1, <1>2

\* The clones of the origin become no fewer and the others no more, and a rename
\* adds one.
LEMMA ClonesGained ==
    ASSUME Apart, SameClones, NEW p \in Instances, Step(p) \/ Crash(p),
           job[p].pc \notin Early, NEW c, c = job[p].clone,
           NEW X, X = InHand(p), NEW Y, Y = InHand(p)'
    PROVE  /\ Having(c, X) \subseteq Having(c, Y)'
           /\ \A d \in Inodes \ {c} : Having(d, Y)' \subseteq Having(d, X)
           /\ Rename(p) => Having(c, X) # Having(c, Y)'
<1>1. /\ Dst(p) \in Targets /\ Dst(p) \in Paths /\ Dst(p)[1] \in Roots
      /\ Tmp(p) \in Paths /\ Tmp(p) # Dst(p) /\ Targets \subseteq Paths
    BY Hand, TargetsFinite
<1>2. /\ job[p].pc \in Staging1 => X = {Tmp(p)}
      /\ job[p].pc \notin Staging1 => X = {}
      /\ job'[p].pc \in Staging1 => Y = {Tmp(p)}
      /\ job'[p].pc \notin Staging1 => Y = {}
    BY StagingFrame DEF InHand
<1>3. ASSUME NEW path \in Targets, path # Tmp(p), path # Dst(p) \/ ~Rename(p)
      PROVE  dirent'[path] = dirent[path]
    BY <1>1, <1>3, HandFrame
<1>4. ASSUME Rename(p)
      PROVE  Dst(p) \in Having(c, Y)' /\ Dst(p) \notin Having(c, X)
  <2>1. job[p].pc = "rename"
      BY <1>4 DEF Rename, At
  <2>2. /\ dirent'[Dst(p)] \in Inodes /\ ino'[dirent'[Dst(p)]].full
        /\ ino'[dirent'[Dst(p)]].clone = c /\ CloneOf(Dst(p)) # c
      BY <1>4, <2>1, Renaming DEF CloneOf
  <2> SUFFICES ASSUME NEW path, path = Dst(p)
               PROVE  path \in Having(c, Y)' /\ path \notin Having(c, X)
      OBVIOUS
  <2>3. Visible(path)' /\ CloneOf(path)' = c
      BY <1>1, <2>2 DEF Visible, Readable, CloneOf
  <2>4. path \in Targets /\ path \notin Y
      BY <1>1, <1>2
  <2> QED
      BY <2>2, <2>3, <2>4 DEF Having
<1>5. ASSUME NEW path \in Having(c, X)
      PROVE  path \in Having(c, Y)'
  <2>1. path \in Targets /\ path \in Paths /\ path \notin X /\ Visible(path) /\ CloneOf(path) = c
        /\ dirent[path] \in Inodes
      BY <1>1, <1>5 DEF Having, Visible, Readable
  <2>2. CASE path = Dst(p) /\ Rename(p)
      BY <1>4, <1>5, <2>2
  <2>3. CASE path = Tmp(p)
    <3>1. job[p].pc \notin Staging1
        BY <1>2, <2>1, <2>3
    <3>2. dirent'[path] = dirent[path] /\ path \notin Y
        BY <1>2, <2>1, <2>3, <3>1, StagingFrame, DedupAssumption
    <3> QED
        BY <2>1, <3>2, SameVisible DEF Having
  <2>4. CASE path # Tmp(p) /\ (path # Dst(p) \/ ~Rename(p))
    <3>1. dirent'[path] = dirent[path] /\ path \notin Y
        BY <1>2, <1>3, <2>1, <2>4
    <3> QED
        BY <2>1, <3>1, SameVisible DEF Having
  <2> QED
      BY <2>2, <2>3, <2>4
<1>6. ASSUME NEW d \in Inodes \ {c}, NEW path \in Having(d, Y)'
      PROVE  path \in Having(d, X)
  <2>1. path \in Targets /\ path \in Paths /\ path \notin Y /\ Visible(path)' /\ CloneOf(path)' = d
      BY <1>1, <1>6 DEF Having
  <2>2. CASE path = Dst(p) /\ Rename(p)
    <3>1. job[p].pc = "rename"
        BY <2>2 DEF Rename, At
    <3>2. ino'[dirent'[path]].clone = c
        BY <2>2, <3>1, Renaming DEF CloneOf
    <3> QED
        BY <1>6, <2>1, <3>2 DEF CloneOf
  <2>3. CASE path = Tmp(p)
    <3>1. dirent'[path] = dirent[path] /\ dirent[path] \in Inodes
        BY <1>2, <2>1, <2>3, StagingFrame DEF Visible, Readable
    <3>2. Visible(path) /\ CloneOf(path) = d
        BY <2>1, <3>1, SameVisible
    <3>3. job[p].pc \notin Staging1
        BY <1>6, <2>3, <3>1, <3>2 DEF SameClones, StagedClone
    <3> QED
        BY <1>2, <2>1, <3>2, <3>3 DEF Having
  <2>4. CASE path # Tmp(p) /\ (path # Dst(p) \/ ~Rename(p))
    <3>1. dirent'[path] = dirent[path] /\ path \notin X
        BY <1>2, <1>3, <2>1, <2>4
    <3> QED
        BY <2>1, <3>1, SameVisible DEF Having
  <2> QED
      BY <2>2, <2>3, <2>4
<1> QED
    BY <1>4, <1>5, <1>6

\* Only a rename gives a file another inode, that of a clone of the origin.
LEMMA MovedStep ==
    ASSUME Apart, SameClones, NEW p \in Instances, Step(p) \/ Crash(p),
           job[p].pc \notin Early, NEW f \in Moved'
    PROVE  \/ f \in Moved /\ CloneOf(<<f, 0>>)' = CloneOf(<<f, 0>>)
           \/ Rename(p) /\ CloneOf(<<f, 0>>)' = job[p].clone
<1> DEFINE path == <<f, 0>>
<1>1. /\ f \in Files /\ path \in Paths /\ dirent'[path] \in Inodes \ {Inode0[f]}
      /\ path # Tmp(p)
    BY FileNames, Hand DEF Moved
<1>2. CASE dirent'[path] = dirent[path]
  <2>1. ino'[dirent[path]].clone = ino[dirent[path]].clone
      BY <1>1, <1>2, HandFrame
  <2> QED
      BY <1>1, <1>2, <2>1 DEF Moved, CloneOf
<1>3. CASE path = Dst(p) /\ Rename(p)
  <2>1. job[p].pc = "rename"
      BY <1>3 DEF Rename, At
  <2>2. ino'[dirent'[path]].clone = job[p].clone
      BY <1>3, <2>1, Renaming DEF CloneOf
  <2> QED
      BY <1>3, <2>2 DEF CloneOf
<1> QED
    BY <1>1, <1>2, <1>3, HandFrame

\* A step on the file at hand leaves the origin's id in the lead.
LEMMA LeadKept ==
    ASSUME Apart, SameClones, NEW p \in Instances, Step(p) \/ Crash(p),
           job[p].pc \notin Early, NEW c \in Inodes, c = job[p].clone,
           NEW X, X = InHand(p), NEW Y, Y = InHand(p)', Lead(c, X)
    PROVE  Lead(c, Y)'
<1>1. /\ Even(c, X) => Even(c, Y)'
      /\ Most(c, X) => Most(c, Y)'
      /\ Even(c, X) /\ Rename(p) => Most(c, Y)'
    BY ClonesGained, CountsKept
<1>2. MovedTo(c) => MovedTo(c)'
    BY MovedStep DEF MovedTo
<1>3. Moved = {} => MovedTo(c)
    BY DEF MovedTo
<1>4. ~Rename(p) /\ Moved = {} => Moved' = {}
    BY MovedStep
<1> QED
    BY <1>1, <1>2, <1>3, <1>4 DEF Lead

\* The origin has an id.
LEMMA OriginId ==
    ASSUME Apart, SameClones, NEW p \in Instances, job[p].pc \notin {"idle", "scan"}
    PROVE  job[p].clone \in Inodes
<1>1. ino \in [Inodes -> [full : BOOLEAN, meta : Inodes, clone : Inodes]]
      /\ dirent[Src(p)] \in Inodes
    BY DEF Apart, OriginInv, TypeOK, OriginReadable, Readable
<1>2. CloneOf(Src(p)) = job[p].clone
    BY DEF SameClones, OriginClone
<1> QED
    BY <1>1, <1>2 DEF CloneOf

\* Without links among the files the most frequent clone id stays it.
LEMMA LeadByClonesStep ==
    ASSUME Apart, SameClones, LeadByClones, ClonesOnly, ~AnyLinked,
           NEW p \in Instances, Step(p) \/ Crash(p),
           job[p].pc = "scan" /\ job'[p].pc = "each" => Even(job'[p].clone, {})
    PROVE  LeadByClones'
<1>1. TypeOK /\ \A q \in Instances : q = p
    BY DEF Apart, OriginInv, ClonesOnly, OneInstance
<1>2. /\ job[p].pc \in {"idle", "scan"} => Moved = {} \/ \E c \in Inodes : Lead(c, {})
      /\ job[p].pc \notin {"idle", "scan"} =>
           \A c \in {job[p].clone}, X \in {InHand(p)} : Lead(c, X)
    BY DEF LeadByClones
<1>3. NewJob.pc = "idle"
    BY DEF NewJob
<1> SUFFICES /\ job'[p].pc \in {"idle", "scan"} => Moved' = {} \/ \E c \in Inodes : Lead(c, {})'
             /\ job'[p].pc \notin {"idle", "scan"} =>
                  \A c \in {job'[p].clone}, X \in {InHand(p)'} : Lead(c, X)'
    BY <1>1 DEF LeadByClones
<1>4. CASE job[p].pc \in {"idle", "scan"}
  <2>1. UNCHANGED fs
      BY <1>1, <1>4, IdleFrame, ScanFrame
  <2>2. Moved' = Moved /\ \A c, X : Lead(c, X)' = Lead(c, X)
      BY <2>1, SameLead
  <2>3. CASE job'[p].pc \in {"idle", "scan"}
      BY <1>2, <1>4, <2>2, <2>3
  <2>4. CASE job'[p].pc \notin {"idle", "scan"}
    <3>1. job[p].pc = "scan" /\ job'[p].pc = "each"
        BY <1>1, <1>3, <1>4, <2>4, ScanFrame, Started
    <3>2. job'[p].clone \in Inodes
      <4>1. SameClones' /\ Apart'
          BY SameClonesStep, ApartStep DEF Next
      <4>2. /\ ino' \in [Inodes -> [full : BOOLEAN, meta : Inodes, clone : Inodes]]
            /\ dirent'[Src(p)'] \in Inodes
          BY <2>4, <4>1 DEF Apart, OriginInv, TypeOK, OriginReadable, Readable
      <4>3. CloneOf(Src(p))' = job'[p].clone
          BY <2>4, <4>1 DEF SameClones, OriginClone
      <4> QED
          BY <4>2, <4>3 DEF CloneOf
    <3>3. Lead(job'[p].clone, {})
        BY <1>2, <1>4, <3>1, <3>2, EvenLeads
    <3>4. InHand(p)' = {}
        BY <3>1 DEF InHand, Staging1
    <3>5. ASSUME NEW c, c = job'[p].clone
          PROVE  Lead(c, {})'
        BY <2>2, <3>3, <3>5
    <3> QED
        BY <2>4, <3>4, <3>5
  <2> QED
      BY <2>3, <2>4
<1>5. CASE job[p].pc \notin {"idle", "scan"}
  <2> SUFFICES ASSUME NEW c \in Inodes, c = job[p].clone, NEW X, X = InHand(p),
                      NEW Y, Y = InHand(p)', Lead(c, X)
               PROVE  /\ job'[p].pc \in {"idle", "scan"} => Moved' = {} \/ Lead(c, {})'
                      /\ job'[p].pc \notin {"idle", "scan"} => c = job'[p].clone /\ Lead(c, Y)'
      BY <1>2, <1>5, OriginId
  <2>1. Lead(c, Y)'
    <3>1. CASE job[p].pc = "each"
      <4>1. X = {} /\ Y = {} /\ UNCHANGED fs
          BY <1>1, <1>3, <3>1, EachFrame DEF InHand, Staging1
      <4> QED
          BY <4>1, SameLead
    <3>2. CASE job[p].pc \notin Early
        BY <3>2, LeadKept
    <3> QED
        BY <1>5, <3>1, <3>2 DEF Early
  <2>2. job'[p].pc \in {"idle", "scan"} => Y = {}
      BY DEF InHand, Staging1
  <2>3. job'[p].pc \notin {"idle", "scan"} => c = job'[p].clone
      BY <1>1, <1>3, <1>5, EachFrame, LateFrame DEF Early
  <2> QED
      BY <2>1, <2>2, <2>3
<1> QED
    BY <1>4, <1>5

-----------------------------------------------------------------------------
(* The choice of the origin *)

\* When all is met, the set has each file a run can meet once.
LEMMA SetCounts ==
    ASSUME Apart, SameClones, ClonesOnly, NEW p \in Instances, Scanned(p), NEW c
    PROVE  /\ IsFiniteSet(WithClone(job[p].set, c))
           /\ Cardinality(WithClone(job[p].set, c)) = Copies(c, {})
<1> DEFINE set == job[p].set
           W == WithClone(set, c)
           H == Having(c, {})
           path == [n \in W |-> set[n].path]
<1>1. TypeOK /\ Met /\ MetAll /\ KeptMet /\ job[p].pc = "scan" /\ job[p].todo = {}
    BY DEF Apart, OriginInv, KeptInv, SameClones, Scanned, At
<1>2. set \in Seq(FileMetadata)
    BY <1>1 DEF TypeOK, Job
<1>3. IsFiniteSet(W)
  <2>1. DOMAIN set = 1 .. Len(set) /\ Len(set) \in Int
      BY <1>2
  <2>2. IsFiniteSet(DOMAIN set)
      BY <2>1, FS_Interval
  <2>3. W \in SUBSET DOMAIN set
      BY DEF WithClone
  <2> QED
      BY <2>2, <2>3, FS_Subset
<1>4. ASSUME NEW n \in W
      PROVE  set[n].path \in H
  <2>1. n \in DOMAIN set /\ set[n].clone = c
      BY <1>4 DEF WithClone
  <2>2. /\ set[n].path \in Targets /\ Readable(set[n].path)
        /\ set[n].clone = CloneOf(set[n].path)
      BY <1>1, <2>1, SetPaths DEF Met, MetAsIs, CloneOf
  <2>3. set[n].path[1] \in Roots
      BY <1>1, <2>1 DEF KeptMet, KeptRecord
  <2> QED
      BY <2>1, <2>2, <2>3 DEF Having, Visible
<1>5. ASSUME NEW q \in H
      PROVE  \E n \in W : set[n].path = q
  <2>1. q \in Targets /\ Visible(q) /\ CloneOf(q) = c
      BY <1>5 DEF Having
  <2>2. PICK n \in DOMAIN set : set[n].path = q
      BY <1>1, <2>1 DEF MetAll
  <2>3. set[n].clone = c
      BY <1>1, <2>1, <2>2 DEF Met, MetAsIs, CloneOf
  <2> QED
      BY <2>2, <2>3 DEF WithClone
<1>6. ASSUME NEW n \in W, NEW m \in W, set[n].path = set[m].path
      PROVE  n = m
    BY <1>1, <1>6 DEF Met, MetOnce, ClonesOnly, WithClone
<1> HIDE DEF W, H, set
<1>7. path \in Bijection(W, H)
  <2>1. path \in [W -> H]
      BY <1>4
  <2>2. path \in Injection(W, H)
      BY <1>6, <2>1 DEF Injection, IsInjective
  <2>3. path \in Surjection(W, H)
      BY <1>5, <2>1 DEF Surjection
  <2> QED
      BY <2>2, <2>3 DEF Bijection
<1>8. Cardinality(H) = Cardinality(W)
    BY <1>3, <1>7, FS_Bijection DEF ExistsBijection
<1> QED
    BY <1>3, <1>8 DEF W, H, set, Copies

\* Without links among the files nothing that is met has more than one.
LEMMA NoneLinked ==
    ASSUME Apart, SameClones, ClonesOnly, NEW p \in Instances, Scanned(p),
           NEW n \in DOMAIN job[p].set, job[p].set[n].nlink > 1
    PROVE  /\ job[p].set[n].path[2] = 0 /\ Linked(job[p].set[n].path[1])
           /\ job[p].set[n].path[1] \in Roots
           /\ job[p].set[n].inode = Inode0[job[p].set[n].path[1]]
<1> DEFINE i == job[p].set[n].inode
           path == job[p].set[n].path
           S == {q \in Paths : dirent[q] = i}
<1>1. /\ TypeOK /\ Met /\ LinksMet /\ KeptMet /\ LinksAlone /\ job[p].pc = "scan"
      /\ job[p].set[n] \in FileMetadata
    BY SetPaths DEF Apart, OriginInv, KeptInv, SameClones, Scanned, At
<1>2. i \in Inodes /\ path \in Paths /\ dirent[path] = i
    BY <1>1, SetPaths DEF Met, MetAsIs, FileMetadata
<1>3. Cardinality(S) > 1
    BY <1>1, <1>2 DEF LinksMet, LinkCount
<1>4. path \in S
    BY <1>2
<1>5. PICK q \in S : q # path
  <2>1. S # {path}
    <3>1. Cardinality({path}) = 1
        BY FS_Singleton
    <3> HIDE DEF S
    <3> QED
        BY <1>3, <3>1
  <2> QED
      BY <1>4, <2>1
<1>6. /\ path[2] = 0 /\ i = Inode0[path[1]]
      /\ q[2] = 0 /\ i = Inode0[q[1]]
    BY <1>1, <1>2, <1>5 DEF LinksAlone
<1>7. path = <<path[1], path[2]>> /\ q = <<q[1], q[2]>> /\ path[1] \in Files /\ q[1] \in Files
    BY <1>2, <1>5 DEF Paths
<1>8. Linked(path[1])
    BY <1>5, <1>6, <1>7 DEF Linked
<1>9. path[1] \in Roots
    BY <1>1 DEF KeptMet, KeptRecord
<1> QED
    BY <1>6, <1>8, <1>9

\* An origin is chosen when all is met, and its clone id is as it was met.
LEMMA Chosen ==
    ASSUME Apart, NEW p \in Instances, Step(p) \/ Crash(p),
           job[p].pc = "scan", job'[p].pc = "each"
    PROVE  /\ Scanned(p) /\ Len(job[p].set) >= 2
           /\ ChooseByLinks(p) \/ ChooseFirstSeen(p) \/ ChooseByClones(p)
           /\ ~Leave(p, 0)
           /\ \A n \in DOMAIN job[p].set : Choose(p, n) => job'[p].clone = job[p].set[n].clone
<1>1. TypeOK /\ Met /\ NoSymlink /\ NewJob.pc = "idle"
    BY DEF Apart, OriginInv, ContentInv, NewJob
<1>2. job \in [Instances -> Job] /\ job[p] \in Job /\ job[p].set \in Seq(FileMetadata)
    BY <1>1 DEF TypeOK, Job
<1>3. \A a : ~Leave(p, a)
    BY <1>2 DEF Leave, Become, NewJob
<1>4. ~Meet(p) /\ ~NoSet(p) /\ ~AlreadyCloned(p) /\ ~Crash(p)
  <2>1. ~Meet(p)
      BY <1>1, MeetFrame
  <2>2. ~NoSet(p) /\ ~AlreadyCloned(p)
      BY <1>3 DEF NoSet, AlreadyCloned
  <2>3. ~Crash(p)
      BY <1>1, <1>2 DEF Crash, Become
  <2> QED
      BY <2>1, <2>2, <2>3
<1>5. ChooseByLinks(p) \/ ChooseFirstSeen(p) \/ ChooseByClones(p)
    BY <1>4 DEF Step, Evaluate, Deduplicate, At, Start, Pass, Replace, EndOfSet, More,
        SaveMtime, SaveMtimeFails, TmpName, Clonefile,
        ClonefileFails, Check, CopyMetadata, CopyMetadataFails, Recheck, Rename, RenameFails,
        Undo, UndoFails, Restore, Verify, Relative, Unlink, UnlinkFails, Make, MakeFails
<1>6. Scanned(p) /\ Len(job[p].set) >= 2
    BY <1>5 DEF ChooseByLinks, ChooseFirstSeen, ChooseByClones
<1>7. ASSUME NEW n \in DOMAIN job[p].set, Choose(p, n)
      PROVE  job'[p].clone = job[p].set[n].clone
  <2>1. job'[p].clone = CloneIdAt(job[p].set[n].path)
      BY <1>2, <1>7 DEF Choose, Become, Job
  <2>2. /\ dirent[job[p].set[n].path] \in Inodes /\ job[p].set[n].path \in Paths
        /\ job[p].set[n].clone = CloneOf(job[p].set[n].path)
      BY <1>1, SetPaths DEF Met, MetAsIs, Readable, CloneOf
  <2> QED
      BY <1>1, <2>1, <2>2, CloneFound
<1> QED
    BY <1>3, <1>5, <1>6, <1>7

\* If all clone ids of a set differ, no two of its files have one.
LEMMA AllDistinct ==
    ASSUME NEW set \in Seq(FileMetadata), Cardinality(CloneIds(set)) = Len(set),
           NEW n \in DOMAIN set, NEW m \in DOMAIN set, set[n].clone = set[m].clone
    PROVE  n = m
<1> DEFINE S == DOMAIN set
           T == CloneIds(set)
           f == [k \in S |-> set[k].clone]
<1>1. S = 1 .. Len(set) /\ Len(set) \in Nat
    OBVIOUS
<1>2. IsFiniteSet(S) /\ Cardinality(S) = Len(set)
  <2> DEFINE k == Len(set)
  <2>1. k \in Nat /\ S = 1 .. k
      BY <1>1
  <2> HIDE DEF k, S
  <2>2. IsFiniteSet(1 .. k) /\ Cardinality(1 .. k) = IF 1 > k THEN 0 ELSE k - 1 + 1
      BY <2>1, FS_Interval
  <2>3. Cardinality(S) = k /\ IsFiniteSet(S)
      BY <2>1, <2>2
  <2> QED
      BY <2>3 DEF k
<1>3. f \in Surjection(S, T)
  <2>1. f \in [S -> T]
      BY DEF CloneIds
  <2>2. \A t \in T : \E s \in S : f[s] = t
      BY DEF CloneIds
  <2> QED
      BY <2>1, <2>2 DEF Surjection
<1> HIDE DEF S, T
<1>4. f \in Injection(S, T)
    BY <1>2, <1>3, FS_Surjection DEF T
<1> QED
    BY <1>4 DEF Injection, IsInjective, S

\* Without links among them the origin has an id that no other exceeds.
LEMMA ChoiceByClones ==
    ASSUME Apart, SameClones, ClonesOnly, ~AnyLinked, NEW p \in Instances,
           Step(p) \/ Crash(p), job[p].pc = "scan", job'[p].pc = "each"
    PROVE  Even(job'[p].clone, {})
<1> DEFINE set == job[p].set
<1>1. Scanned(p) /\ set \in Seq(FileMetadata)
    BY Chosen DEF Apart, OriginInv, TypeOK, Job
<1>2. ~SomeLinked(set)
    BY <1>1, NoneLinked DEF SomeLinked, AnyLinked
<1>3. ASSUME NEW c
      PROVE  /\ IsFiniteSet(WithClone(set, c)) /\ Cardinality(WithClone(set, c)) \in Nat
             /\ Cardinality(WithClone(set, c)) = Copies(c, {})
    BY <1>1, SetCounts, FS_CardinalityType
<1>4. CASE ChooseFirstSeen(p)
  <2>1. PICK n \in DOMAIN set : Choose(p, n)
      BY <1>4, Chosen DEF ChooseFirstSeen, First
  <2>2. \A k, m \in DOMAIN set : set[k].clone = set[m].clone => k = m
      BY <1>1, <1>4, AllDistinct DEF ChooseFirstSeen
  <2>3. ASSUME NEW m \in DOMAIN set
        PROVE  Copies(set[m].clone, {}) = 1
    <3>1. WithClone(set, set[m].clone) = {m}
        BY <2>2 DEF WithClone
    <3> QED
        BY <1>3, <3>1, FS_Singleton
  <2>4. ASSUME NEW d
        PROVE  Copies(d, {}) <= 1
    <3>1. CASE \E m \in DOMAIN set : set[m].clone = d
        BY <2>3, <3>1
    <3>2. CASE ~\E m \in DOMAIN set : set[m].clone = d
      <4>1. WithClone(set, d) = {}
          BY <3>2 DEF WithClone
      <4> QED
          BY <1>3, <4>1, FS_EmptySet
    <3> QED
        BY <3>1, <3>2
  <2> QED
      BY <2>1, <2>3, <2>4, Chosen DEF Even
<1>5. CASE ChooseByClones(p)
  <2>1. PICK c \in MostCloned(set) : \E n \in First(WithClone(set, c)) : Choose(p, n)
      BY <1>5 DEF ChooseByClones
  <2>2. job'[p].clone = c
      BY <2>1, Chosen DEF First, WithClone
  <2>3. ASSUME NEW d
        PROVE  Copies(d, {}) <= Copies(c, {})
    <3>1. CASE d \in CloneIds(set)
        BY <1>3, <2>1, <3>1 DEF MostCloned
    <3>2. CASE d \notin CloneIds(set)
      <4>1. WithClone(set, d) = {}
          BY <3>2 DEF WithClone, CloneIds
      <4>2. Copies(d, {}) = 0 /\ Copies(c, {}) \in Nat
          BY <1>3, <4>1, FS_EmptySet
      <4> QED
          BY <4>2
    <3> QED
        BY <3>1, <3>2
  <2> QED
      BY <2>2, <2>3 DEF Even
<1> QED
    BY <1>2, <1>4, <1>5, Chosen DEF ChooseByLinks

\* An inode with links has the names it had at the start.
LEMMA LinksNames ==
    ASSUME Apart, SameClones, NEW f \in Files, Linked(f)
    PROVE  /\ <<f, 0>> \in Paths /\ dirent[<<f, 0>>] = Inode0[f]
           /\ LinkCount(Inode0[f]) = Cardinality(Links(Inode0[f]))
           /\ LinkCount(Inode0[f]) > 1
<1>1. \A g \in Files : Inode0[g] = Inode0[f] =>
         dirent[<<g, 0>>] = Inode0[f] /\ <<g, 0>> \in Paths
  <2> SUFFICES ASSUME NEW g \in Files, Inode0[g] = Inode0[f]
               PROVE  dirent[<<g, 0>>] = Inode0[f] /\ <<g, 0>> \in Paths
      OBVIOUS
  <2>1. Linked(g)
    <3>1. CASE g = f
        BY <3>1
    <3>2. CASE g # f
        BY <3>2 DEF Linked
    <3> QED
        BY <3>1, <3>2
  <2> QED
      BY <2>1, FileNames DEF Apart, KeptInv, KeptUntouched, Kept
<1>2. Inode0[f] \in Inodes
    BY DedupAssumption
<1>3. ASSUME NEW path \in Paths
      PROVE  dirent[path] = Inode0[f] <=> (path[2] = 0 /\ Inode0[path[1]] = Inode0[f])
  <2>1. path = <<path[1], path[2]>> /\ path[1] \in Files
      BY DEF Paths
  <2>2. ASSUME path[2] = 0, Inode0[path[1]] = Inode0[f]
        PROVE  dirent[path] = Inode0[f]
      BY <1>1, <2>1, <2>2
  <2>3. ASSUME dirent[path] = Inode0[f], path # <<f, 0>>
        PROVE  path[2] = 0 /\ Inode0[path[1]] = Inode0[f]
    <3>1. <<f, 0>> \in Paths /\ dirent[<<f, 0>>] = Inode0[f]
        BY <1>1
    <3>2. LinksAlone
        BY DEF SameClones
    <3>3. path[2] = 0 /\ dirent[path] = Inode0[path[1]]
        BY <1>2, <2>3, <3>1, <3>2 DEF LinksAlone
    <3> QED
        BY <2>3, <3>3
  <2> QED
      BY <2>2, <2>3
<1>4. {path \in Paths : dirent[path] = Inode0[f]} = Links(Inode0[f])
    BY <1>3 DEF Links
<1>5. LinkCount(Inode0[f]) > 1
  <2>1. PICK g \in Files \ {f} : Inode0[g] = Inode0[f]
      BY DEF Linked
  <2> QED
      BY <1>1, <2>1, TwoNames
<1> QED
    BY <1>1, <1>4, <1>5 DEF LinkCount

\* A file with links is met with their number.
LEMMA LinkedMet ==
    ASSUME Apart, SameClones, NEW p \in Instances, Scanned(p),
           NEW f \in Roots, Linked(f)
    PROVE  \E n \in DOMAIN job[p].set :
             job[p].set[n].nlink = Cardinality(Links(Inode0[f])) /\ job[p].set[n].nlink > 1
<1>1. /\ TypeOK /\ Met /\ MetAll /\ LinksMet /\ FilesFull
      /\ job[p].pc = "scan" /\ job[p].todo = {}
    BY DEF Apart, OriginInv, ContentInv, SameClones, Scanned, At
<1>2. f \in Files /\ Inode0[f] \in Inodes /\ <<f, 0>> \in Targets
    BY DedupAssumption DEF Targets
<1>3. /\ dirent[<<f, 0>>] = Inode0[f] /\ LinkCount(Inode0[f]) > 1
      /\ LinkCount(Inode0[f]) = Cardinality(Links(Inode0[f]))
    BY <1>2, LinksNames
<1>4. Visible(<<f, 0>>)
    BY <1>1, <1>2 DEF Visible, Readable, FilesFull
<1>5. PICK n \in DOMAIN job[p].set : job[p].set[n].path = <<f, 0>>
    BY <1>1, <1>2, <1>4 DEF MetAll
<1>6. job[p].set[n].inode = Inode0[f]
    BY <1>1, <1>3, <1>5 DEF Met, MetAsIs
<1>7. job[p].set[n].nlink = LinkCount(Inode0[f])
    BY <1>1, <1>2, <1>6 DEF LinksMet
<1> QED
    BY <1>3, <1>7

\* With links among them the origin is one with the most.
LEMMA ChoiceByLinks ==
    ASSUME Apart, SameClones, ClonesOnly, AnyLinked, NEW p \in Instances,
           Step(p) \/ Crash(p), job[p].pc = "scan", job'[p].pc = "each"
    PROVE  Leads(job'[p].clone)
<1> DEFINE set == job[p].set
<1>1. Scanned(p) /\ TypeOK /\ Met /\ LinksMet /\ LinksClone /\ job[p].pc = "scan"
    BY Chosen DEF Apart, OriginInv, SameClones
<1>2. PICK f \in Roots : Linked(f)
    BY DEF AnyLinked
<1>3. PICK m \in DOMAIN set : set[m].nlink > 1
    BY <1>1, <1>2, LinkedMet
<1>4. ChooseByLinks(p)
    BY <1>3, Chosen DEF ChooseFirstSeen, ChooseByClones, SomeLinked
<1>5. PICK n \in MostLinked(set) : Choose(p, n)
    BY <1>4 DEF ChooseByLinks, First
<1>6. /\ n \in DOMAIN set /\ \A k \in DOMAIN set : set[k].nlink <= set[n].nlink
      /\ \A k \in DOMAIN set : set[k].nlink \in Nat
    BY <1>1, <1>5, SetPaths DEF MostLinked, FileMetadata
<1>7. set[n].nlink > 1
    BY <1>3, <1>6
<1> DEFINE g == set[n].path[1]
<1>8. /\ set[n].path[2] = 0 /\ Linked(g) /\ g \in Roots /\ g \in Files
      /\ set[n].inode = Inode0[g] /\ Inode0[g] \in Inodes
    BY <1>1, <1>6, <1>7, NoneLinked, DedupAssumption
<1>9. set[n].nlink = Cardinality(Links(Inode0[g]))
    BY <1>1, <1>6, <1>8, LinksNames DEF LinksMet
<1>10. LinkedMost(g)
  <2> SUFFICES ASSUME NEW h \in Roots, Linked(h)
               PROVE  Cardinality(Links(Inode0[h])) <= Cardinality(Links(Inode0[g]))
      BY <1>8 DEF LinkedMost
  <2>1. PICK k \in DOMAIN set : set[k].nlink = Cardinality(Links(Inode0[h]))
      BY <1>1, LinkedMet
  <2> QED
      BY <1>6, <1>9, <2>1
<1>11. set[n].clone = Clone0[Inode0[g]]
  <2>1. /\ set[n].inode = dirent[set[n].path]
        /\ set[n].clone = ino[dirent[set[n].path]].clone
      BY <1>1, <1>6 DEF Met, MetAsIs
  <2>2. ino[Inode0[g]].clone = Clone0[Inode0[g]]
      BY <1>1, <1>8 DEF LinksClone
  <2> QED
      BY <1>8, <2>1, <2>2
<1>12. job'[p].clone = set[n].clone
    BY <1>5, <1>6, Chosen
<1> QED
    BY <1>8, <1>10, <1>11, <1>12 DEF Leads

\* With links among the files what is replaced becomes a clone of one with the
\* most.
LEMMA LeadByLinksStep ==
    ASSUME Apart, SameClones, LeadByLinks, ClonesOnly, AnyLinked,
           NEW p \in Instances, Step(p) \/ Crash(p)
    PROVE  LeadByLinks'
<1>1. /\ TypeOK /\ NewJob.pc = "idle" /\ \A q \in Instances : q = p
      /\ \A f \in Moved : Leads(CloneOf(<<f, 0>>))
      /\ job[p].pc \notin {"idle", "scan"} => Leads(job[p].clone)
    BY DEF Apart, OriginInv, ClonesOnly, OneInstance, LeadByLinks, NewJob
<1>2. job'[p].pc \notin {"idle", "scan"} => Leads(job'[p].clone)
  <2>1. CASE job[p].pc = "scan"
      BY <1>1, <2>1, ScanFrame, ChoiceByLinks
  <2>2. CASE job[p].pc \notin {"idle", "scan"}
      BY <1>1, <2>2, EachFrame, LateFrame DEF Early
  <2> QED
      BY <1>1, <2>1, <2>2, Started
<1>3. \A f \in Moved' : Leads(ino'[dirent'[<<f, 0>>]].clone)
  <2>1. CASE job[p].pc \in Early
      BY <1>1, <2>1, EarlySteps DEF Moved, CloneOf
  <2>2. CASE job[p].pc \notin Early
      BY <1>1, <2>2, MovedStep DEF CloneOf, Early
  <2> QED
      BY <2>1, <2>2
<1> QED
    BY <1>1, <1>2, <1>3 DEF LeadByLinks, CloneOf, Leads

\* Every step keeps the invariant.
LEMMA ConvergeStep == ASSUME ConvergeInv, ClonesOnly, [Next]_vars PROVE ConvergeInv'
<1>1. Apart /\ Apart' /\ SameClones /\ LeadByLinks /\ LeadByClones
    BY ApartStep DEF ConvergeInv
<1>2. CASE UNCHANGED vars
  <2>1. SameClones'
    <3>1. LinksAlone' /\ LinksClone'
        BY <1>1, <1>2 DEF SameClones, LinksAlone, LinksClone
    <3>2. MetAll'
        BY <1>1, <1>2 DEF SameClones, MetAll, Visible, Readable
    <3>3. LinksMet'
      <4>1. \A i : LinkCount(i)' = LinkCount(i)
          BY <1>2 DEF LinkCount
      <4> QED
          BY <1>1, <1>2, <4>1 DEF SameClones, LinksMet
    <3>4. OriginClone' /\ HandClone'
        BY <1>1, <1>2 DEF SameClones, OriginClone, HandClone, CloneOf, Src, Origin, Fm
    <3>5. RestClone'
        BY <1>1, <1>2 DEF SameClones, RestClone, Rest, CloneOf, Tmp, Dst, Fm
    <3>6. StagedClone'
        BY <1>1, <1>2 DEF SameClones, StagedClone, CloneOf, Tmp, Dst, Fm
    <3> QED
        BY <3>1, <3>2, <3>3, <3>4, <3>5, <3>6 DEF SameClones
  <2>2. LeadByLinks'
      BY <1>1, <1>2 DEF LeadByLinks, Moved, CloneOf, Leads
  <2>3. LeadByClones'
    <3>1. Moved' = Moved /\ \A c, X : Lead(c, X)' = Lead(c, X)
        BY <1>2, SameLead
    <3>2. \A p \in Instances : InHand(p)' = InHand(p)
        BY <1>2 DEF InHand, Tmp, Dst, Fm
    <3> QED
        BY <1>1, <1>2, <3>1, <3>2 DEF LeadByClones, AnyLinked
  <2> QED
      BY <1>1, <2>1, <2>2, <2>3 DEF ConvergeInv
<1>3. ASSUME NEW p \in Instances, Step(p) \/ Crash(p)
      PROVE  ConvergeInv'
  <2>1. SameClones'
      BY <1>1, <1>3, SameClonesStep
  <2>2. CASE AnyLinked
    <3>1. LeadByLinks'
        BY <1>1, <1>3, <2>2, LeadByLinksStep
    <3> QED
        BY <1>1, <2>1, <2>2, <3>1 DEF ConvergeInv, LeadByClones
  <2>3. CASE ~AnyLinked
    <3>1. LeadByClones'
        BY <1>1, <1>3, <2>3, LeadByClonesStep, ChoiceByClones
    <3> QED
        BY <1>1, <2>1, <2>3, <3>1 DEF ConvergeInv, LeadByLinks
  <2> QED
      BY <2>2, <2>3
<1> QED
    BY <1>2, <1>3 DEF Next, Terminated

-----------------------------------------------------------------------------
(* The theorem *)

\* What an earlier run has done stands: a later one (deduplicate, dedup.c 204-372)
\* renames no clone over a file that was replaced before or is a clone of one that
\* was. For any number of runs that only clone, by one instance, with dry runs,
\* failing calls and crashes anywhere, if each file is met once, clonefile hands
\* the id on, and the inodes that tie for the most links, of which the first one
\* met is taken (dedup.c 211), have one id.
THEOREM ConvergesAlways ==
    ASSUME ClonesOnly, NoTie
    PROVE  Spec => []Converges
<1>1. Init => ConvergeInv
  <2> SUFFICES ASSUME Init PROVE ConvergeInv
      OBVIOUS
  <2>1. /\ Apart /\ \A p \in Instances : job[p].pc = "idle"
        /\ \A p \in Instances : job[p].set = <<>>
      BY OriginInit, ContentInit, KeptInit DEF Apart, ClonesOnly
  <2>2. LinksAlone
    <3> SUFFICES ASSUME NEW q \in Paths, dirent[q] \in Inodes
                 PROVE  q[2] = 0 /\ dirent[q] = Inode0[q[1]]
        BY DEF LinksAlone
    <3> QED
        BY DedupAssumption DEF Init
  <2>3. LinksClone
      BY DedupAssumption DEF Init, LinksClone
  <2>4. SameClones
      BY <2>1, <2>2, <2>3 DEF SameClones, MetAll, LinksMet, OriginClone, RestClone, HandClone,
                              StagedClone, Early, Staging1
  <2>5. Moved = {}
      BY FileNames DEF Init, Moved
  <2> QED
      BY <2>1, <2>4, <2>5 DEF ConvergeInv, LeadByLinks, LeadByClones
<1>2. ConvergeInv /\ [Next]_vars => ConvergeInv'
    BY ConvergeStep
<1>3. ConvergeInv => Converges
  <2> SUFFICES ASSUME ConvergeInv, NEW p \in Instances, job[p].pc = "rename",
                      NEW f \in Files, dirent[<<f, 0>>] \in Inodes \ {Inode0[f]}
               PROVE  CloneIdAt(<<f, 0>>) # CloneIdAt(Dst(p))
      BY DEF Converges, At
  <2>1. Apart /\ SameClones /\ LeadByLinks /\ LeadByClones /\ NoSymlink
      BY DEF ConvergeInv, Apart, ContentInv
  <2>2. CloneIdAt(<<f, 0>>) = CloneOf(<<f, 0>>) /\ f \in Moved
      BY <2>1, FileNames, CloneFound DEF Moved
  <2>3. CloneIdAt(Dst(p)) = CloneOf(Dst(p)) /\ CloneOf(Dst(p)) # job[p].clone
      BY <2>1, Renaming, Hand, CloneFound DEF Early
  <2>4. CloneOf(<<f, 0>>) = job[p].clone
    <3>1. CASE AnyLinked
        BY <2>1, <2>2, <3>1 DEF LeadByLinks, Leads, NoTie
    <3>2. CASE ~AnyLinked
        BY <2>1, <2>2, <3>2 DEF LeadByClones, Lead, MovedTo
    <3> QED
        BY <3>1, <3>2
  <2> QED
      BY <2>2, <2>3, <2>4
<1> QED
    BY <1>1, <1>2, <1>3, PTL DEF Spec
=============================================================================
