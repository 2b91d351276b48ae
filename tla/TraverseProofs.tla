--------------------------- MODULE TraverseProofs ---------------------------
(***************************************************************************)
(* The walk stays what fts promises, for any forest, devices and command   *)
(* lines, it finds what was asked for and nothing else, and the names that *)
(* clone.c makes of that are right.                                        *)
(***************************************************************************)
EXTENDS Traverse, Integers, SequenceTheorems, WellFoundedInduction, TLAPS

\* A set of natural numbers has a least one.
LEMMA LeastOf ==
    ASSUME NEW T, T \subseteq Nat, T # {}
    PROVE  \E x \in T : \A y \in T : x <= y
<1>1. PICK x \in T : \A y \in T : ~ (<<y, x>> \in OpToRel(<, Nat))
  BY WFMin, NatLessThanWellFounded
<1>2. ASSUME NEW y \in T PROVE x <= y
  <2>1. ~ (<<y, x>> \in OpToRel(<, Nat))
    BY <1>1
  <2>2. <<y, x>> \in Nat \X Nat
    OBVIOUS
  <2>3. ~ (y < x)
    BY <2>1, <2>2 DEF OpToRel
  <2> QED BY <2>3
<1> QED BY <1>2

-----------------------------------------------------------------------------
(* Parts of a sequence *)

LEMMA PrefixProperties ==
    ASSUME NEW S, NEW s, NEW n \in Nat, \A i \in 1 .. n : s[i] \in S
    PROVE  /\ SubSeq(s, 1, n) \in Seq(S)
           /\ Len(SubSeq(s, 1, n)) = n
           /\ \A i \in 1 .. n : SubSeq(s, 1, n)[i] = s[i]
<1>1. /\ SubSeq(s, 1, n) \in Seq(S)
      /\ Len(SubSeq(s, 1, n)) = IF 1 <= n THEN n - 1 + 1 ELSE 0
      /\ \A i \in 1 .. n - 1 + 1 : SubSeq(s, 1, n)[i] = s[1 + i - 1]
  BY SubSeqProperties
<1>2. (IF 1 <= n THEN n - 1 + 1 ELSE 0) = n /\ n - 1 + 1 = n
  OBVIOUS
<1>3. \A i \in 1 .. n : 1 + i - 1 = i
  OBVIOUS
<1> QED BY <1>1, <1>2, <1>3

LEMMA SuffixProperties ==
    ASSUME NEW S, NEW s \in Seq(S), NEW n \in Nat, n <= Len(s)
    PROVE  /\ SubSeq(s, n + 1, Len(s)) \in Seq(S)
           /\ Len(SubSeq(s, n + 1, Len(s))) = Len(s) - n
           /\ \A i \in 1 .. Len(s) - n : SubSeq(s, n + 1, Len(s))[i] = s[n + i]
<1> DEFINE l == Len(s)
<1>1. l \in Nat /\ \A i \in n + 1 .. l : s[i] \in S
  BY ElementOfSeq
<1> HIDE DEF l
<1>2. /\ SubSeq(s, n + 1, l) \in Seq(S)
      /\ Len(SubSeq(s, n + 1, l)) = IF n + 1 <= l THEN l - (n + 1) + 1 ELSE 0
      /\ \A i \in 1 .. l - (n + 1) + 1 : SubSeq(s, n + 1, l)[i] = s[n + 1 + i - 1]
  BY <1>1, SubSeqProperties
<1>3. n <= l
  BY DEF l
<1>4. (IF n + 1 <= l THEN l - (n + 1) + 1 ELSE 0) = l - n /\ l - (n + 1) + 1 = l - n
  BY <1>1, <1>3
<1>5. \A i \in 1 .. l - n : n + 1 + i - 1 = n + i
  BY <1>1
<1>6. /\ SubSeq(s, n + 1, l) \in Seq(S)
      /\ Len(SubSeq(s, n + 1, l)) = l - n
      /\ \A i \in 1 .. l - n : SubSeq(s, n + 1, l)[i] = s[n + i]
  BY <1>2, <1>4, <1>5
<1> QED BY <1>6 DEF l

LEMMA DirNameProperties ==
    ASSUME NEW path \in PathNames
    PROVE  /\ Len(path) \in Nat \ {0}
           /\ DirName(path) \in Seq(Names)
           /\ Len(DirName(path)) = Len(path) - 1
           /\ \A i \in 1 .. Len(path) - 1 : DirName(path)[i] = path[i]
<1>1. Len(path) \in Nat \ {0} /\ \A i \in 1 .. Len(path) : path[i] \in Names
  BY EmptySeq, ElementOfSeq DEF PathNames
<1>2. Len(path) - 1 \in Nat /\ \A i \in 1 .. Len(path) - 1 : path[i] \in Names
  BY <1>1
<1> DEFINE l == Len(path) - 1
<1>3. l \in Nat /\ \A i \in 1 .. l : path[i] \in Names
  BY <1>2
<1> HIDE DEF l
<1>4. /\ SubSeq(path, 1, l) \in Seq(Names)
      /\ Len(SubSeq(path, 1, l)) = l
      /\ \A i \in 1 .. l : SubSeq(path, 1, l)[i] = path[i]
  BY <1>3, PrefixProperties
<1> QED BY <1>1, <1>4 DEF DirName, l

\* The loop over the common directories stops: there is a place up to which
\* the two paths share their directories and no further.
LEMMA CommonDirsStops ==
    ASSUME NEW src \in PathNames, NEW dst \in PathNames
    PROVE  /\ CommonDirs(src, dst) \in 0 .. Len(src)
           /\ SharedDirs(src, dst, CommonDirs(src, dst))
<1> DEFINE T == {n \in Nat : ~SharedDirs(src, dst, n + 1)}
<1>1. Len(src) \in Nat \ {0} /\ Len(dst) \in Nat \ {0}
  BY EmptySeq DEF PathNames
<1>2. Len(src) \in T
  BY <1>1 DEF SharedDirs
<1>3. PICK m \in T : \A y \in T : m <= y
  BY <1>2, LeastOf
<1>4. SharedDirs(src, dst, m)
  <2>1. CASE m = 0
    BY <1>1, <2>1 DEF SharedDirs
  <2>2. CASE m # 0
    <3>1. m - 1 \in Nat /\ m - 1 \notin T
      BY <1>3, <2>2
    <3>2. SharedDirs(src, dst, (m - 1) + 1)
      BY <3>1
    <3>3. (m - 1) + 1 = m
      OBVIOUS
    <3> QED BY <3>2, <3>3
  <2> QED BY <2>1, <2>2
<1>5. m \in 0 .. Len(src)
  BY <1>1, <1>4 DEF SharedDirs
<1>6. ~SharedDirs(src, dst, m + 1)
  OBVIOUS
<1> QED BY <1>4, <1>5, <1>6 DEF CommonDirs

-----------------------------------------------------------------------------
\* Wherever two files are, the symbolic link that replace_with_symlink makes
\* at one leads to the other.
THEOREM LinkLeadsBack ==
    ASSUME NEW src \in PathNames, NEW dst \in PathNames
    PROVE  LeadsBack(src, dst)
<1> DEFINE n == CommonDirs(dst, src)
           up == SubSeq(DirName(dst), 1, Len(DirName(dst)) - (Len(dst) - n - 1))
           down == SubSeq(src, n + 1, Len(src))
<1>1. n \in Nat /\ n < Len(dst) /\ n < Len(src) /\ \A i \in 1 .. n : dst[i] = src[i]
  BY CommonDirsStops DEF SharedDirs
<1>2. /\ src \in Seq(Names) /\ Len(src) \in Nat
      /\ dst \in Seq(Names) /\ Len(dst) \in Nat
      /\ \A i \in 1 .. Len(src) : src[i] \in Names
      /\ \A i \in 1 .. Len(dst) : dst[i] \in Names
  BY ElementOfSeq DEF PathNames
<1> HIDE DEF n
<1>3. /\ DirName(dst) \in Seq(Names)
      /\ Len(DirName(dst)) = Len(dst) - 1
      /\ \A i \in 1 .. Len(dst) - 1 : DirName(dst)[i] = dst[i]
  BY <1>1, <1>2, DirNameProperties
<1>4. /\ up \in Seq(Names) /\ Len(up) = n
      /\ \A i \in 1 .. n : up[i] = dst[i]
  <2>1. Len(DirName(dst)) - (Len(dst) - n - 1) = n
    BY <1>1, <1>2, <1>3
  <2>2. \A i \in 1 .. n : DirName(dst)[i] \in Names /\ DirName(dst)[i] = dst[i]
    BY <1>1, <1>2, <1>3
  <2>3. n \in Nat /\ \A i \in 1 .. n : DirName(dst)[i] \in Names
    BY <1>1, <2>2
  <2> DEFINE shared == SubSeq(DirName(dst), 1, n)
  <2>4. /\ shared \in Seq(Names) /\ Len(shared) = n
        /\ \A i \in 1 .. n : shared[i] = DirName(dst)[i]
    BY <2>3, PrefixProperties
  <2>5. up = shared
    BY <2>1
  <2> HIDE DEF shared, up
  <2> QED BY <2>2, <2>4, <2>5
<1>5. /\ down \in Seq(Names) /\ Len(down) = Len(src) - n
      /\ \A i \in 1 .. Len(src) - n : down[i] = src[n + i]
  BY <1>1, <1>2, SuffixProperties
<1> HIDE DEF up, down
<1>6. /\ up \o down \in Seq(Names)
      /\ Len(up \o down) = Len(src)
      /\ \A i \in 1 .. Len(src) :
            (up \o down)[i] = IF i <= n THEN up[i] ELSE down[i - n]
  <2>1. Len(up) + Len(down) = Len(src)
    BY <1>1, <1>2, <1>4, <1>5
  <2>2. /\ up \o down \in Seq(Names)
        /\ Len(up \o down) = Len(up) + Len(down)
        /\ \A i \in 1 .. Len(up) + Len(down) :
              (up \o down)[i] = IF i <= Len(up) THEN up[i] ELSE down[i - Len(up)]
    BY <1>4, <1>5, ConcatProperties
  <2>3. Len(up) = n
    BY <1>4
  <2> QED BY <2>1, <2>2, <2>3
<1>7. \A i \in 1 .. Len(src) : (up \o down)[i] = src[i]
  <2> SUFFICES ASSUME NEW i \in 1 .. Len(src) PROVE (up \o down)[i] = src[i]
    OBVIOUS
  <2>1. CASE i <= n
    BY <1>1, <1>4, <1>6, <2>1
  <2>2. CASE ~(i <= n)
    <3>1. i - n \in 1 .. Len(src) - n /\ n + (i - n) = i
      BY <1>1, <1>2, <2>2
    <3> QED BY <1>5, <1>6, <2>2, <3>1
  <2> QED BY <2>1, <2>2
<1>8. up \o down = src
  BY <1>2, <1>6, <1>7, SeqEqual
<1> QED BY <1>8 DEF LeadsBack, Follow, PathRelativeTo, up, down, n

\* Two files are staged under one name only if they are one file, and each is
\* staged in its own directory under another name than its own.
THEOREM StagingIsApart ==
    ASSUME NEW p \in PathNames, NEW q \in PathNames
    PROVE  StagedApart(p, q)
<1>1. ASSUME NEW path \in PathNames
      PROVE  /\ TmpName(path) \in Seq(Names)
             /\ Len(TmpName(path)) = Len(path)
             /\ Len(path) \in Nat \ {0}
             /\ \A i \in 1 .. Len(path) - 1 : TmpName(path)[i] = path[i]
             /\ TmpName(path)[Len(path)] = <<path[Len(path)][1], path[Len(path)][2] + 1>>
             /\ path[Len(path)] \in Names
  <2>1. Len(path) \in Nat \ {0} /\ path[Len(path)] \in Names
    BY DirNameProperties, ElementOfSeq DEF PathNames
  <2>2. StagingName(BaseName(path)) = <<path[Len(path)][1], path[Len(path)][2] + 1>>
    BY DEF StagingName, BaseName
  <2>3. StagingName(BaseName(path)) \in Names
    BY <2>1, <2>2 DEF Names
  <2>4. DirName(path) \in Seq(Names)
    BY DirNameProperties
  <2>5. /\ TmpName(path) \in Seq(Names)
        /\ Len(TmpName(path)) = Len(DirName(path)) + 1
        /\ \A i \in 1 .. Len(DirName(path)) : TmpName(path)[i] = DirName(path)[i]
        /\ TmpName(path)[Len(DirName(path)) + 1] = StagingName(BaseName(path))
    BY <2>3, <2>4, AppendProperties DEF TmpName
  <2>6. Len(DirName(path)) = Len(path) - 1
        /\ \A i \in 1 .. Len(path) - 1 : DirName(path)[i] = path[i]
    BY DirNameProperties
  <2> QED BY <2>1, <2>2, <2>5, <2>6
<1>2. ASSUME TmpName(p) = TmpName(q) PROVE p = q
  <2>1. Len(p) = Len(q)
    BY <1>1, <1>2
  <2>2. ASSUME NEW i \in 1 .. Len(p) PROVE p[i] = q[i]
    <3>1. CASE i \in 1 .. Len(p) - 1
      BY <1>1, <1>2, <2>1, <3>1
    <3>2. CASE i = Len(p)
      <4>1. <<p[i][1], p[i][2] + 1>> = <<q[i][1], q[i][2] + 1>>
        BY <1>1, <1>2, <2>1, <3>2
      <4>2. p[i] \in Names /\ q[i] \in Names
        BY <1>1, <2>1, <3>2
      <4>3. p[i][2] \in Nat /\ q[i][2] \in Nat
        BY <4>2 DEF Names
      <4>4. p[i][1] = q[i][1] /\ p[i][2] = q[i][2]
        BY <4>1, <4>3
      <4> QED BY <4>2, <4>4 DEF Names
    <3>3. Len(p) \in Nat
      BY <1>1
    <3> QED BY <3>1, <3>2, <3>3
  <2> QED BY <2>1, <2>2, SeqEqual DEF PathNames
<1>3. DirName(TmpName(p)) = DirName(p)
  <2>1. TmpName(p) \in PathNames
    BY <1>1, EmptySeq DEF PathNames
  <2>2. /\ DirName(p) \in Seq(Names) /\ DirName(TmpName(p)) \in Seq(Names)
        /\ Len(DirName(p)) = Len(DirName(TmpName(p)))
        /\ Len(DirName(p)) = Len(p) - 1
    BY <1>1, <2>1, DirNameProperties
  <2>3. \A i \in 1 .. Len(p) - 1 : DirName(TmpName(p))[i] = DirName(p)[i]
    BY <1>1, <2>1, DirNameProperties
  <2> QED BY <2>2, <2>3, SeqEqual
<1>4. TmpName(p) # p
  <2>1. p[Len(p)][2] \in Nat
    BY <1>1 DEF Names
  <2>2. TmpName(p)[Len(p)][2] = p[Len(p)][2] + 1
    BY <1>1
  <2> QED BY <2>1, <2>2
<1> QED BY <1>2, <1>3, <1>4 DEF StagedApart

-----------------------------------------------------------------------------
(* The walk *)

Frame == [dir : Nodes, left : SUBSET Nodes]

\* A way down from the argument, each directory one level below the last.
FramesOK(frames) ==
    /\ frames \in Seq(Frame)
    /\ frames # <<>> => root \in DOMAIN Args /\ frames[1].dir = Args[root]
    /\ \A i \in 2 .. Len(frames) : frames[i].dir \in Children(frames[i - 1].dir)
    /\ \A i \in 1 .. Len(frames) :
          /\ frames[i].left \subseteq Children(frames[i].dir)
          /\ Len(Path[frames[i].dir]) = Len(Path[Args[root]]) + i - 1

\* A directory that fts has returned hangs below the last one that is open.
Placed ==
    IF stack = <<>> THEN cur.node = Args[root]
    ELSE cur.node \in Children(stack[Len(stack)].dir)

CurOK ==
    /\ cur \in Entry
    /\ root \in DOMAIN Args
    /\ cur.level = Level(Args[root], cur.node)
    /\ cur.info = "D" => Placed

WalkInv ==
    /\ line \in Lines
    /\ mpc \in {"options", "read", "entry", "done", "exited"}
    /\ root \in 0 .. Len(Args)
    /\ FramesOK(stack)
    /\ cur = NONE \/ CurOK
    /\ mpc = "entry" => CurOK
    /\ skip \in BOOLEAN /\ supported \in BOOLEAN
    /\ currentDev \in {Dev[n] : n \in Nodes} \cup {NONE}
    /\ queue \in Seq((DOMAIN Args) \X Nodes)

OptInv ==
    /\ line \in Lines /\ goal \subseteq (DOMAIN Args) \X Nodes
    /\ parsed \in 0 .. Len(line.opts)
    /\ opt \in [depth : 0 .. NoLimit, threads : 0 .. ByteValues - 1,
                xdev : BOOLEAN, mode : {"clone", "link", "symlink"}]

-----------------------------------------------------------------------------
(* The command line *)

LEMMA LineTypes ==
    ASSUME line \in Lines
    PROVE  /\ line.opts \in Seq(STRING \X Int) /\ line.args \in Seq(Nodes)
           /\ Args \in Seq(Nodes) /\ Len(Args) \in Nat \ {0}
           /\ \A i \in DOMAIN Args : Args[i] \in Nodes
           /\ DOMAIN Args = 1 .. Len(Args)
<1>1. line.opts \in Seq(STRING \X Int) /\ line.args \in Seq(Nodes)
  BY TraverseAssumption
<1>2. Args \in Seq(Nodes) /\ Args # <<>>
  <2>1. CASE line.args = <<>>
    <3>1. Args = <<Cwd>>
      BY <2>1 DEF Args
    <3> QED BY <3>1, TraverseAssumption
  <2>2. CASE line.args # <<>>
    BY <1>1, <2>2 DEF Args
  <2> QED BY <2>1, <2>2
<1>3. Len(Args) \in Nat \ {0}
  BY <1>2, EmptySeq
<1>4. DOMAIN Args = 1 .. Len(Args) /\ \A i \in DOMAIN Args : Args[i] \in Nodes
  BY <1>2, LenProperties, ElementOfSeq
<1> QED BY <1>1, <1>2, <1>3, <1>4

LEMMA ByteRange ==
    ASSUME NEW v \in Int
    PROVE  ToByte(v) \in 0 .. ByteValues - 1
  BY TraverseAssumption DEF ToByte

LEMMA ShortRange ==
    ASSUME NEW v \in Int
    PROVE  ToShort(v) \in Int /\ ToShort(v) <= NoLimit
<1> DEFINE w == 2 * ShortHalf
<1>1. ShortHalf \in Nat \ {0} /\ w \in Nat \ {0}
  BY TraverseAssumption
<1> HIDE DEF w
<1>2. (v + ShortHalf) % w \in 0 .. w - 1
  BY <1>1
<1>3. ((v + ShortHalf) % w) - ShortHalf \in Int /\ ((v + ShortHalf) % w) - ShortHalf <= w - 1
  BY <1>1, <1>2
<1> QED BY <1>3 DEF ToShort, NoLimit, w

-----------------------------------------------------------------------------
(* The options *)

LEMMA OptInit == Init => OptInv
<1> SUFFICES ASSUME Init PROVE OptInv
  OBVIOUS
<1>1. line \in Lines /\ goal = AllWanted /\ parsed = 0
  BY DEF Init
<1>2. goal \subseteq (DOMAIN Args) \X Nodes
  BY <1>1 DEF AllWanted
<1>3. Len(line.opts) \in Nat
  BY <1>1, LineTypes
<1>4. ToByte(CpuCount) \in 0 .. ByteValues - 1
  <2>1. CpuCount \in Int
    BY TraverseAssumption
  <2> QED BY <2>1, ByteRange
<1>5. NoLimit \in 0 .. NoLimit
  <2>1. ShortHalf \in Nat \ {0}
    BY TraverseAssumption
  <2> QED BY <2>1 DEF NoLimit
<1> QED BY <1>1, <1>2, <1>3, <1>4, <1>5 DEF Init, OptInv

LEMMA OptionTypes ==
    ASSUME OptInv, More
    PROVE  Value \in Int /\ parsed + 1 \in 0 .. Len(line.opts)
<1>1. line.opts \in Seq(STRING \X Int) /\ Len(line.opts) \in Nat
  BY LineTypes DEF OptInv
<1>2. parsed + 1 \in 1 .. Len(line.opts)
  BY <1>1 DEF OptInv, More
<1>3. line.opts[parsed + 1] \in STRING \X Int
  BY <1>1, <1>2, ElementOfSeq
<1> QED BY <1>2, <1>3 DEF Value

\* An option changes the options, to what they may be, or main exits.
LEMMA SetKeepsOptInv ==
    ASSUME OptInv, More, NEW o, Set(o),
           o \in [depth : 0 .. NoLimit, threads : 0 .. ByteValues - 1,
                  xdev : BOOLEAN, mode : {"clone", "link", "symlink"}]
    PROVE  OptInv'
<1>1. parsed' \in 0 .. Len(line.opts) /\ opt' = o /\ UNCHANGED input
  BY OptionTypes DEF Set
<1> QED BY <1>1 DEF OptInv, Args, input

LEMMA SameOptInv ==
    ASSUME OptInv, UNCHANGED <<input, parsed, opt>>
    PROVE  OptInv'
  BY DEF OptInv, Args, input

LEMMA ParseKeepsOptInv == OptInv /\ Parse => OptInv'
<1> SUFFICES ASSUME OptInv, Parse PROVE OptInv'
  OBVIOUS
<1>1. CASE ParseDepth
  <2> DEFINE d == ToShort(Value)
  <2>1. More /\ d \in Int /\ d <= NoLimit
    BY <1>1, OptionTypes, ShortRange DEF ParseDepth
  <2>2. CASE d < 0
    BY <1>1, <2>2, SameOptInv DEF ParseDepth, Exit
  <2>3. CASE ~(d < 0)
    <3>1. d \in 0 .. NoLimit
      BY <2>1, <2>3 DEF NoLimit
    <3>2. Set([opt EXCEPT !.depth = d])
      BY <1>1, <2>3 DEF ParseDepth
    <3> QED BY <2>1, <3>1, <3>2, SetKeepsOptInv DEF OptInv
  <2> QED BY <2>2, <2>3
<1>2. CASE ParseThreads
  <2>1. More /\ ToByte(Value) \in 0 .. ByteValues - 1
    BY <1>2, OptionTypes, ByteRange DEF ParseThreads
  <2>2. CASE Value < 0
    BY <1>2, <2>2, SameOptInv DEF ParseThreads, Exit
  <2>3. CASE ~(Value < 0)
    <3>1. Set([opt EXCEPT !.threads = ToByte(Value)])
      BY <1>2, <2>3 DEF ParseThreads
    <3> QED BY <2>1, <3>1, SetKeepsOptInv DEF OptInv
  <2> QED BY <2>2, <2>3
<1>3. CASE ParseXdev
  BY <1>3, SetKeepsOptInv DEF ParseXdev, OptInv
<1>4. CASE ParseLink
  BY <1>4, SetKeepsOptInv DEF ParseLink, OptInv
<1>5. CASE ParseSymlink
  BY <1>5, SetKeepsOptInv DEF ParseSymlink, OptInv
<1>6. CASE ParseOther
  BY <1>6, SetKeepsOptInv DEF ParseOther, OptInv
<1>7. CASE ParseUsage \/ CheckArgs \/ CheckArgsFails
  BY <1>7, SameOptInv DEF ParseUsage, CheckArgs, CheckArgsFails, Exit
<1> QED BY <1>1, <1>2, <1>3, <1>4, <1>5, <1>6, <1>7 DEF Parse

LEMMA OptStep == OptInv /\ [Next]_vars => OptInv'
<1> SUFFICES ASSUME OptInv, [Next]_vars PROVE OptInv'
  OBVIOUS
<1>1. CASE Parse
  BY <1>1, ParseKeepsOptInv
<1>2. CASE FtsRead
  BY <1>2, SameOptInv DEF FtsRead, FtsNextRoot, FtsChild, FtsLeaveDir, FtsPassDir,
     FtsUnreadable, FtsEnd, Returns
<1>3. CASE Visit
  BY <1>3, SameOptInv DEF Visit, ReportError, SkipTooDeep, SkipDevice,
     PassUnsupported, PassOther, Enqueue, Continue
<1>4. CASE UNCHANGED vars
  BY <1>4, SameOptInv DEF vars
<1> QED BY <1>1, <1>2, <1>3, <1>4 DEF Next, Terminated

-----------------------------------------------------------------------------
(* The walk *)

LEMMA ChildDepth ==
    ASSUME NEW m \in Nodes, NEW n \in Children(m)
    PROVE  /\ n \in Nodes
           /\ Len(Path[m]) \in Nat \ {0} /\ Len(Path[n]) \in Nat \ {0}
           /\ Len(Path[n]) = Len(Path[m]) + 1
<1>1. n \in Nodes /\ DirName(Path[n]) = Path[m]
  BY DEF Children
<1>2. Path[m] \in PathNames /\ Path[n] \in PathNames
  BY <1>1, TraverseAssumption
<1> QED BY <1>1, <1>2, DirNameProperties

LEMMA DepthIsNat ==
    ASSUME NEW n \in Nodes
    PROVE  Len(Path[n]) \in Nat
  BY DirNameProperties, TraverseAssumption

\* Opening the directory returned last gives a way down again.
LEMMA FramesStayOK ==
    ASSUME WalkInv
    PROVE  FramesOK(Frames)
<1>1. CASE ~Opened
  BY <1>1 DEF WalkInv, Frames
<1>2. CASE Opened
  <2> DEFINE new == [dir |-> cur.node, left |-> Children(cur.node)]
             n == Len(stack)
  <2>1. CurOK /\ cur.info = "D" /\ Placed /\ cur.node \in Nodes
    BY <1>2 DEF Opened, Descends, AtDir, WalkInv, CurOK, Entry
  <2>2. stack \in Seq(Frame) /\ n \in Nat /\ FramesOK(stack)
    <3>1. FramesOK(stack)
      BY DEF WalkInv
    <3>2. stack \in Seq(Frame)
      BY <3>1 DEF FramesOK
    <3> QED BY <3>1, <3>2, LenProperties
  <2>3. new \in Frame
    BY <2>1 DEF Frame, Children
  <2>4. /\ Frames \in Seq(Frame) /\ Frames # <<>> /\ Len(Frames) = n + 1
        /\ \A i \in 1 .. n : Frames[i] = stack[i]
        /\ Frames[n + 1] = new
    BY <1>2, <2>2, <2>3, AppendProperties DEF Frames
  <2>5. Args[root] \in Nodes /\ root \in DOMAIN Args
    BY <2>1, LineTypes DEF WalkInv, CurOK
  <2>6. CASE stack = <<>>
    <3>1. n = 0 /\ cur.node = Args[root]
      BY <2>1, <2>6 DEF Placed
    <3>2. Frames[1] = new /\ Len(Frames) = 1
      BY <2>4, <3>1
    <3>3. Len(Path[Args[root]]) \in Nat
      BY <2>5, DepthIsNat
    <3> QED BY <2>4, <2>5, <3>1, <3>2, <3>3 DEF FramesOK
  <2>7. CASE stack # <<>>
    <3>1. n \in 1 .. n /\ n \in Nat \ {0}
      BY <2>2, <2>7, EmptySeq
    <3>2. cur.node \in Children(stack[n].dir) /\ stack[n].dir \in Nodes
      <4>1. cur.node \in Children(stack[n].dir)
        BY <2>1, <2>7 DEF Placed
      <4>2. stack[n] \in Frame
        BY <2>2, <3>1, ElementOfSeq
      <4> QED BY <4>1, <4>2 DEF Frame
    <3>3. Len(Path[cur.node]) = Len(Path[Args[root]]) + n
      <4>1. Len(Path[cur.node]) = Len(Path[stack[n].dir]) + 1
        BY <3>2, ChildDepth
      <4>2. Len(Path[stack[n].dir]) = Len(Path[Args[root]]) + n - 1
        BY <2>2, <3>1 DEF FramesOK
      <4>3. Len(Path[Args[root]]) \in Nat
        BY <2>5, DepthIsNat
      <4> QED BY <3>1, <4>1, <4>2, <4>3
    <3>4. Frames[1].dir = Args[root]
      BY <2>2, <2>4, <2>7, <3>1 DEF FramesOK
    <3>5. ASSUME NEW i \in 2 .. Len(Frames)
          PROVE  Frames[i].dir \in Children(Frames[i - 1].dir)
      <4>1. CASE i = n + 1
        BY <2>4, <3>1, <3>2, <4>1
      <4>2. CASE i # n + 1
        <5>1. i \in 2 .. n /\ i \in 1 .. n /\ i - 1 \in 1 .. n
          BY <2>2, <2>4, <4>2
        <5> QED BY <2>2, <2>4, <5>1 DEF FramesOK
      <4> QED BY <4>1, <4>2
    <3>6. ASSUME NEW i \in 1 .. Len(Frames)
          PROVE  /\ Frames[i].left \subseteq Children(Frames[i].dir)
                 /\ Len(Path[Frames[i].dir]) = Len(Path[Args[root]]) + i - 1
      <4>1. CASE i = n + 1
        <5>1. Len(Path[Args[root]]) \in Nat
          BY <2>5, DepthIsNat
        <5> QED BY <2>4, <3>1, <3>3, <4>1, <5>1
      <4>2. CASE i # n + 1
        <5>1. i \in 1 .. n
          BY <2>2, <2>4, <4>2
        <5> QED BY <2>2, <2>4, <5>1 DEF FramesOK
      <4> QED BY <4>1, <4>2
    <3> QED BY <2>4, <2>5, <3>4, <3>5, <3>6 DEF FramesOK
  <2> QED BY <2>6, <2>7
<1> QED BY <1>1, <1>2

\* The directory fts reads next.
LEMMA TopOfFrames ==
    ASSUME WalkInv, Frames # <<>>
    PROVE  /\ Frames \in Seq(Frame) /\ Len(Frames) \in Nat \ {0}
           /\ Len(Frames) \in 1 .. Len(Frames)
           /\ root \in DOMAIN Args /\ Args[root] \in Nodes
           /\ Top(Frames) \in Frame
           /\ Top(Frames).left \subseteq Children(Top(Frames).dir)
           /\ Len(Path[Args[root]]) \in Nat
           /\ Len(Path[Top(Frames).dir]) = Len(Path[Args[root]]) + Len(Frames) - 1
<1>1. FramesOK(Frames)
  BY FramesStayOK
<1>2. Frames \in Seq(Frame) /\ root \in DOMAIN Args
  BY <1>1 DEF FramesOK
<1>3. Len(Frames) \in Nat \ {0} /\ Len(Frames) \in 1 .. Len(Frames)
  BY <1>2, EmptySeq, LenProperties
<1>4. Args[root] \in Nodes
  BY <1>2, LineTypes DEF WalkInv
<1>5. Top(Frames) \in Frame
  BY <1>2, <1>3, ElementOfSeq DEF Top
<1>6. /\ Top(Frames).left \subseteq Children(Top(Frames).dir)
      /\ Len(Path[Top(Frames).dir]) = Len(Path[Args[root]]) + Len(Frames) - 1
  BY <1>1, <1>3 DEF FramesOK, Top
<1> QED BY <1>2, <1>3, <1>4, <1>5, <1>6, DepthIsNat

\* What every entry that is returned has to satisfy.
LEMMA ReturnedOK ==
    ASSUME WalkInv,
           NEW node \in Nodes, NEW info \in Infos, NEW level \in Nat,
           Returns(node, info, level),
           root' \in DOMAIN Args, FramesOK(stack)',
           level = Level(Args[root'], node),
           info = "D" => IF stack' = <<>> THEN node = Args[root']
                         ELSE node \in Children(stack'[Len(stack')].dir)
    PROVE  WalkInv'
<1>1. /\ cur' = [node |-> node, info |-> info, level |-> level]
      /\ skip' = FALSE /\ mpc' = "entry"
      /\ UNCHANGED <<line, currentDev, supported, queue>>
  BY DEF Returns, input, cache
<1>2. Args' = Args /\ root' \in 0 .. Len(Args)
  <2>1. Args' = Args
    BY <1>1 DEF Args
  <2>2. root' \in 1 .. Len(Args) /\ Len(Args) \in Nat
    BY LineTypes DEF WalkInv
  <2> QED BY <2>1, <2>2
<1>3. CurOK'
  <2>1. cur' \in Entry
    BY <1>1 DEF Entry
  <2>2. (cur.level = Level(Args[root], cur.node))'
    BY <1>1, <1>2 DEF Level
  <2>3. (cur.info = "D" => Placed)'
    BY <1>1, <1>2 DEF Placed
  <2> QED BY <1>2, <2>1, <2>2, <2>3 DEF CurOK
<1> QED BY <1>1, <1>2, <1>3 DEF WalkInv

LEMMA InfoTypes ==
    ASSUME NEW n \in Nodes
    PROVE  Info(n) \in Infos
  BY DEF Info, Infos

LEMMA NextRootKeeps == WalkInv /\ FtsNextRoot => WalkInv'
<1> SUFFICES ASSUME WalkInv, FtsNextRoot PROVE WalkInv'
  OBVIOUS
<1>1. /\ Frames = <<>> /\ root < Len(Args) /\ root' = root + 1 /\ stack' = stack
      /\ Returns(Args[root + 1], Info(Args[root + 1]), 0)
  BY DEF FtsNextRoot
<1>2. root' \in DOMAIN Args /\ Args[root'] \in Nodes
  BY <1>1, LineTypes DEF WalkInv
<1>3. stack = <<>>
  <2>1. stack \in Seq(Frame)
    BY DEF WalkInv, FramesOK
  <2>2. ~Opened
    <3>1. Opened => Frames = Append(stack, [dir |-> cur.node, left |-> Children(cur.node)])
      BY DEF Frames
    <3>2. Opened => cur.node \in Nodes
      BY DEF Opened, Descends, AtDir, WalkInv, CurOK, Entry
    <3>3. cur.node \in Nodes => [dir |-> cur.node, left |-> Children(cur.node)] \in Frame
      BY DEF Frame, Children
    <3> QED BY <1>1, <2>1, <3>1, <3>2, <3>3, AppendProperties
  <2> QED BY <1>1, <2>2 DEF Frames
<1>4. FramesOK(stack)'
  <2>1. Len(<<>>) = 0 /\ <<>> \in Seq(Frame)
    BY EmptySeq
  <2> QED BY <1>1, <1>3, <2>1 DEF FramesOK
<1>5. Level(Args[root'], Args[root']) = 0
  BY <1>2, DepthIsNat DEF Level
<1> QED BY <1>1, <1>2, <1>3, <1>4, <1>5, InfoTypes, ReturnedOK

LEMMA ChildKeeps == WalkInv /\ FtsChild => WalkInv'
<1> SUFFICES ASSUME WalkInv, FtsChild PROVE WalkInv'
  OBVIOUS
<1> DEFINE k == Len(Frames)
<1>1. PICK n \in Top(Frames).left :
        /\ stack' = [Frames EXCEPT ![k].left = @ \ {n}]
        /\ Returns(n, Info(n), k)
  BY DEF FtsChild
<1>2. Frames # <<>> /\ root' = root
  BY DEF FtsChild
<1>3. FramesOK(Frames)
  BY FramesStayOK
<1>4. n \in Nodes /\ n \in Children(Top(Frames).dir) /\ Top(Frames).dir \in Nodes
  BY <1>2, TopOfFrames DEF Frame, Children
<1>5. k = Level(Args[root], n)
  <2>1. Len(Path[n]) = Len(Path[Top(Frames).dir]) + 1
    BY <1>4, ChildDepth
  <2>2. /\ Len(Path[Top(Frames).dir]) = Len(Path[Args[root]]) + k - 1
        /\ Len(Path[Args[root]]) \in Nat /\ k \in Nat
    BY <1>2, TopOfFrames
  <2> QED BY <2>1, <2>2 DEF Level
<1>6. /\ k \in Nat \ {0} /\ k \in 1 .. k /\ Frames \in Seq(Frame)
      /\ Top(Frames) \in Frame
  BY <1>2, TopOfFrames
<1> DEFINE taken == [Top(Frames) EXCEPT !.left = @ \ {n}]
<1>7. taken \in Frame /\ taken.dir = Top(Frames).dir /\ taken.left \subseteq Top(Frames).left
  BY <1>6 DEF Frame
<1>8. stack' = [Frames EXCEPT ![k] = taken]
  BY <1>1 DEF Top
<1> HIDE DEF taken
<1>9. /\ stack' \in Seq(Frame) /\ Len(stack') = k
      /\ stack'[k] = taken
      /\ \A i \in 1 .. k : i # k => stack'[i] = Frames[i]
  BY <1>6, <1>7, <1>8, ExceptSeq
<1>10. /\ \A i \in 1 .. k : stack'[i].dir = Frames[i].dir
       /\ \A i \in 1 .. k : stack'[i].left \subseteq Frames[i].left
  BY <1>6, <1>7, <1>9 DEF Top
<1>11. stack' # <<>>
  BY <1>6, <1>9, EmptySeq
<1>12. FramesOK(stack)'
  <2>1. line' = line
    BY <1>1 DEF Returns, input
  <2>2. Args' = Args
    BY <2>1 DEF Args
  <2>3. (root \in DOMAIN Args /\ stack[1].dir = Args[root])'
    BY <1>2, <1>3, <1>6, <1>10, <2>2 DEF FramesOK
  <2>4. \A i \in 2 .. k : stack'[i].dir \in Children(stack'[i - 1].dir)
    BY <1>3, <1>6, <1>10 DEF FramesOK
  <2>5. \A i \in 1 .. k : stack'[i].left \subseteq Children(stack'[i].dir)
    BY <1>3, <1>10 DEF FramesOK
  <2>6. \A i \in 1 .. k : Len(Path[stack'[i].dir]) = Len(Path[Args[root]]) + i - 1
    BY <1>3, <1>10 DEF FramesOK
  <2> QED BY <1>2, <1>9, <2>2, <2>3, <2>4, <2>5, <2>6 DEF FramesOK
<1>13. n \in Children(stack'[Len(stack')].dir)
  BY <1>4, <1>7, <1>9
<1>14. root' \in DOMAIN Args
  BY <1>2, TopOfFrames
<1>15. Info(n) \in Infos
  BY <1>4, InfoTypes
<1>16. k = Level(Args[root'], n)
  BY <1>2, <1>5
<1>17. k \in Nat
  BY <1>6
<1> HIDE DEF k
<1> QED BY <1>1, <1>4, <1>11, <1>12, <1>13, <1>14, <1>15, <1>16, <1>17, ReturnedOK

LEMMA LeaveDirKeeps == WalkInv /\ FtsLeaveDir => WalkInv'
<1> SUFFICES ASSUME WalkInv, FtsLeaveDir PROVE WalkInv'
  OBVIOUS
<1> DEFINE k == Len(Frames)
<1>1. /\ Frames # <<>> /\ stack' = Below(Frames) /\ root' = root
      /\ Returns(Top(Frames).dir, "DP", k - 1)
  BY DEF FtsLeaveDir
<1>2. FramesOK(Frames)
  BY FramesStayOK
<1>3. /\ k \in Nat \ {0} /\ Frames \in Seq(Frame) /\ Top(Frames) \in Frame
      /\ root \in DOMAIN Args
      /\ Len(Path[Args[root]]) \in Nat
      /\ Len(Path[Top(Frames).dir]) = Len(Path[Args[root]]) + k - 1
  BY <1>1, TopOfFrames
<1>4. Top(Frames).dir \in Nodes
  BY <1>3 DEF Frame
<1>5. \A i \in 1 .. k - 1 : Frames[i] \in Frame
  BY <1>3, ElementOfSeq
<1>6. /\ stack' \in Seq(Frame) /\ Len(stack') = k - 1
      /\ \A i \in 1 .. k - 1 : stack'[i] = Frames[i]
  <2>1. k - 1 \in Int /\ 1 \in Int
    BY <1>3
  <2>2. /\ SubSeq(Frames, 1, k - 1) \in Seq(Frame)
        /\ Len(SubSeq(Frames, 1, k - 1)) = IF 1 <= k - 1 THEN k - 1 - 1 + 1 ELSE 0
        /\ \A i \in 1 .. k - 1 - 1 + 1 : SubSeq(Frames, 1, k - 1)[i] = Frames[1 + i - 1]
    BY <1>5, <2>1, SubSeqProperties
  <2>3. Len(SubSeq(Frames, 1, k - 1)) = k - 1
    <3> HIDE DEF k
    <3> QED BY <1>3, <2>2
  <2>4. \A i \in 1 .. k - 1 : SubSeq(Frames, 1, k - 1)[i] = Frames[i]
    <3> HIDE DEF k
    <3> QED BY <1>3, <2>2
  <2> QED BY <1>1, <2>2, <2>3, <2>4 DEF Below
<1>7. FramesOK(stack)'
  <2>1. line' = line
    BY <1>1 DEF Returns, input
  <2>2. Args' = Args
    BY <2>1 DEF Args
  <2>3. stack' # <<>> => 1 \in 1 .. k - 1
    BY <1>3, <1>6, EmptySeq
  <2>4. stack' # <<>> => stack'[1].dir = Args[root]
    BY <1>1, <1>2, <1>6, <2>3 DEF FramesOK
  <2>5. \A i \in 2 .. k - 1 : stack'[i].dir \in Children(stack'[i - 1].dir)
    <3>1. ASSUME NEW i \in 2 .. k - 1
          PROVE  stack'[i].dir \in Children(stack'[i - 1].dir)
      <4>1. i \in 1 .. k - 1 /\ i - 1 \in 1 .. k - 1 /\ i \in 2 .. k
        BY <1>3
      <4> QED BY <1>2, <1>6, <4>1 DEF FramesOK
    <3> QED BY <3>1
  <2>6. \A i \in 1 .. k - 1 :
          /\ stack'[i].left \subseteq Children(stack'[i].dir)
          /\ Len(Path[stack'[i].dir]) = Len(Path[Args[root]]) + i - 1
    <3>1. ASSUME NEW i \in 1 .. k - 1
          PROVE  /\ stack'[i].left \subseteq Children(stack'[i].dir)
                 /\ Len(Path[stack'[i].dir]) = Len(Path[Args[root]]) + i - 1
      <4>1. i \in 1 .. k
        BY <1>3
      <4> QED BY <1>2, <1>6, <4>1 DEF FramesOK
    <3> QED BY <3>1
  <2> QED BY <1>1, <1>3, <1>6, <2>2, <2>4, <2>5, <2>6 DEF FramesOK
<1>8. k - 1 \in Nat /\ k - 1 = Level(Args[root'], Top(Frames).dir)
  <2> HIDE DEF k
  <2> QED BY <1>1, <1>3 DEF Level
<1>9. root' \in DOMAIN Args /\ "DP" \in Infos
  BY <1>1, <1>3 DEF Infos
<1> HIDE DEF k
<1> QED BY <1>1, <1>4, <1>7, <1>8, <1>9, ReturnedOK

\* Returned a second time, a directory is where it was.
LEMMA AgainKeeps ==
    ASSUME WalkInv, AtDir, NEW info \in {"DP", "DNR"},
           Returns(cur.node, info, cur.level), UNCHANGED <<root, stack>>
    PROVE  WalkInv'
<1>1. CurOK /\ cur \in Entry
  BY DEF WalkInv, AtDir, CurOK
<1>2. /\ cur.node \in Nodes /\ cur.level \in Nat /\ root' \in DOMAIN Args
      /\ cur.level = Level(Args[root'], cur.node)
  BY <1>1 DEF CurOK, Entry
<1>3. FramesOK(stack)'
  <2>1. UNCHANGED <<line, root, stack>>
    BY DEF Returns, input
  <2>2. Args' = Args
    BY <2>1 DEF Args
  <2> QED BY <2>1, <2>2 DEF WalkInv, FramesOK
<1>4. info \in Infos /\ info # "D"
  BY DEF Infos
<1> QED BY <1>2, <1>3, <1>4, ReturnedOK

\* What leaves the walk alone and does not claim an entry.
LEMMA SameWalk ==
    ASSUME WalkInv, UNCHANGED <<input, root, stack, cur>>,
           mpc' \in {"options", "read", "entry", "done", "exited"},
           mpc' = "entry" => mpc = "entry",
           skip' \in BOOLEAN, supported' \in BOOLEAN,
           currentDev' \in {Dev[n] : n \in Nodes} \cup {NONE},
           queue' \in Seq((DOMAIN Args) \X Nodes)
    PROVE  WalkInv'
<1>1. UNCHANGED <<line, root, stack, cur>>
  BY DEF input
<1>2. Args' = Args
  BY <1>1 DEF Args
<1>3. FramesOK(stack)'
  BY <1>1, <1>2 DEF WalkInv, FramesOK
<1>4. CurOK => CurOK'
  BY <1>1, <1>2 DEF CurOK, Placed, Level
<1>5. cur' = NONE \/ CurOK'
  BY <1>1, <1>4 DEF WalkInv
<1> QED BY <1>1, <1>2, <1>3, <1>4, <1>5 DEF WalkInv

LEMMA FtsReadKeeps == WalkInv /\ FtsRead => WalkInv'
<1> SUFFICES ASSUME WalkInv, FtsRead PROVE WalkInv'
  OBVIOUS
<1>1. CASE FtsNextRoot
  BY <1>1, NextRootKeeps
<1>2. CASE FtsChild
  BY <1>2, ChildKeeps
<1>3. CASE FtsLeaveDir
  BY <1>3, LeaveDirKeeps
<1>4. CASE FtsPassDir
  BY <1>4, AgainKeeps DEF FtsPassDir
<1>5. CASE FtsUnreadable
  BY <1>5, AgainKeeps DEF FtsUnreadable, Descends
<1>6. CASE FtsEnd
  <2>1. /\ mpc' = "done"
        /\ UNCHANGED <<input, root, stack, cur, skip, supported, currentDev, queue>>
    BY <1>6 DEF FtsEnd, walk, cache
  <2>2. /\ skip' \in BOOLEAN /\ supported' \in BOOLEAN
        /\ currentDev' \in {Dev[n] : n \in Nodes} \cup {NONE}
        /\ queue' \in Seq((DOMAIN Args) \X Nodes)
    BY <2>1 DEF WalkInv
  <2> QED BY <2>1, <2>2, SameWalk
<1> QED BY <1>1, <1>2, <1>3, <1>4, <1>5, <1>6 DEF FtsRead

LEMMA RememberTypes ==
    ASSUME WalkInv, mpc = "entry", Remember
    PROVE  /\ supported' \in BOOLEAN
           /\ currentDev' \in {Dev[n] : n \in Nodes} \cup {NONE}
<1>1. cur.node \in Nodes
  BY DEF WalkInv, CurOK, Entry
<1>2. supported \in BOOLEAN /\ currentDev \in {Dev[n] : n \in Nodes} \cup {NONE}
  BY DEF WalkInv
<1>3. Supports \in BOOLEAN
  <2>1. CASE DeviceChanged
    <3>1. Supports = IsCloneSupported(cur.node)
      BY <2>1 DEF Supports
    <3>2. IsCloneSupported(cur.node) \in BOOLEAN
      BY DEF IsCloneSupported
    <3> QED BY <3>1, <3>2
  <2>2. CASE ~DeviceChanged
    BY <1>2, <2>2 DEF Supports
  <2> QED BY <2>1, <2>2
<1> QED BY <1>1, <1>2, <1>3 DEF Remember

LEMMA VisitKeeps == WalkInv /\ Visit => WalkInv'
<1> SUFFICES ASSUME WalkInv, Visit PROVE WalkInv'
  OBVIOUS
<1>1. mpc = "entry" /\ CurOK
  BY DEF WalkInv, Visit, ReportError, SkipTooDeep, InReach, SkipDevice,
     PassUnsupported, PassOther, Enqueue, AtEntry
<1>2. queue \in Seq((DOMAIN Args) \X Nodes)
  BY DEF WalkInv
<1>3. \A b \in BOOLEAN : Continue(b) =>
         /\ UNCHANGED <<input, root, stack, cur>>
         /\ mpc' = "read" /\ skip' \in BOOLEAN
  BY DEF Continue
<1>4. CASE ReportError \/ SkipTooDeep
  <2>1. /\ UNCHANGED <<input, root, stack, cur, currentDev, supported, queue>>
        /\ mpc' = "read" /\ skip' \in BOOLEAN
    BY <1>3, <1>4 DEF ReportError, SkipTooDeep, cache
  <2>2. /\ supported' \in BOOLEAN /\ queue' \in Seq((DOMAIN Args) \X Nodes)
        /\ currentDev' \in {Dev[n] : n \in Nodes} \cup {NONE}
    BY <2>1 DEF WalkInv
  <2> QED BY <2>1, <2>2, SameWalk
<1>5. CASE SkipDevice \/ PassUnsupported \/ PassOther
  <2>1. Remember /\ UNCHANGED queue
    BY <1>5 DEF SkipDevice, PassUnsupported, PassOther
  <2>2. /\ UNCHANGED <<input, root, stack, cur>>
        /\ mpc' = "read" /\ skip' \in BOOLEAN
    BY <1>3, <1>5 DEF SkipDevice, PassUnsupported, PassOther
  <2> QED BY <1>1, <1>2, <2>1, <2>2, RememberTypes, SameWalk
<1>6. CASE Enqueue
  <2>1. Remember /\ queue' = Append(queue, <<root, cur.node>>)
    BY <1>6 DEF Enqueue
  <2>2. /\ UNCHANGED <<input, root, stack, cur>>
        /\ mpc' = "read" /\ skip' \in BOOLEAN
    BY <1>3, <1>6 DEF Enqueue
  <2>3. <<root, cur.node>> \in (DOMAIN Args) \X Nodes
    BY <1>1 DEF CurOK, Entry
  <2>4. queue' \in Seq((DOMAIN Args) \X Nodes)
    BY <1>2, <2>1, <2>3, AppendProperties
  <2> QED BY <1>1, <2>1, <2>2, <2>4, RememberTypes, SameWalk
<1> QED BY <1>4, <1>5, <1>6 DEF Visit

LEMMA ParseKeeps == WalkInv /\ Parse => WalkInv'
<1> SUFFICES ASSUME WalkInv, Parse PROVE WalkInv'
  OBVIOUS
<1>1. /\ UNCHANGED <<input, walk, cache, queue>>
      /\ mpc' \in {mpc, "read", "exited"}
  BY DEF Parse, ParseDepth, ParseThreads, ParseXdev, ParseLink, ParseSymlink,
     ParseOther, ParseUsage, CheckArgs, CheckArgsFails, Set, Exit
<1>2. /\ mpc' \in {"options", "read", "entry", "done", "exited"}
      /\ mpc' = "entry" => mpc = "entry"
      /\ UNCHANGED <<input, root, stack, cur, skip, currentDev, supported, queue>>
  BY <1>1 DEF WalkInv, walk, cache
<1>3. /\ skip' \in BOOLEAN /\ supported' \in BOOLEAN
      /\ queue' \in Seq((DOMAIN Args) \X Nodes)
      /\ currentDev' \in {Dev[n] : n \in Nodes} \cup {NONE}
  BY <1>2 DEF WalkInv
<1> QED BY <1>2, <1>3, SameWalk

LEMMA WalkInit == Init => WalkInv
<1> SUFFICES ASSUME Init PROVE WalkInv
  OBVIOUS
<1>1. /\ line \in Lines /\ mpc = "options" /\ root = 0 /\ stack = <<>> /\ cur = NONE
      /\ skip = FALSE /\ supported = FALSE /\ currentDev = NONE /\ queue = <<>>
  BY DEF Init
<1>2. Len(Args) \in Nat
  BY <1>1, LineTypes
<1>3. FramesOK(stack)
  BY <1>1, EmptySeq DEF FramesOK
<1>4. queue \in Seq((DOMAIN Args) \X Nodes)
  BY <1>1, EmptySeq
<1>5. root \in 0 .. Len(Args)
  BY <1>1, <1>2
<1> QED BY <1>1, <1>3, <1>4, <1>5 DEF WalkInv

LEMMA WalkStep == WalkInv /\ [Next]_vars => WalkInv'
<1> SUFFICES ASSUME WalkInv, [Next]_vars PROVE WalkInv'
  OBVIOUS
<1>1. CASE Parse
  BY <1>1, ParseKeeps
<1>2. CASE FtsRead
  BY <1>2, FtsReadKeeps
<1>3. CASE Visit
  BY <1>3, VisitKeeps
<1>4. CASE UNCHANGED vars
  <2>1. UNCHANGED <<input, root, stack, cur, skip, currentDev, supported, queue, mpc>>
    BY <1>4 DEF vars, walk, cache
  <2>2. /\ skip' \in BOOLEAN /\ supported' \in BOOLEAN
        /\ mpc' \in {"options", "read", "entry", "done", "exited"}
        /\ queue' \in Seq((DOMAIN Args) \X Nodes)
        /\ currentDev' \in {Dev[n] : n \in Nodes} \cup {NONE}
    BY <2>1 DEF WalkInv
  <2> QED BY <2>1, <2>2, SameWalk
<1> QED BY <1>1, <1>2, <1>3, <1>4 DEF Next, Terminated

LEMMA WalkAlways == Spec => [](OptInv /\ WalkInv)
<1>1. Init => OptInv /\ WalkInv
  BY OptInit, WalkInit
<1>2. OptInv /\ WalkInv /\ [Next]_vars => (OptInv /\ WalkInv)'
  BY OptStep, WalkStep
<1> QED BY <1>1, <1>2, PTL DEF Spec

-----------------------------------------------------------------------------
LEMMA WalkTypes == OptInv /\ WalkInv => TypeOK
<1> SUFFICES ASSUME OptInv, WalkInv PROVE TypeOK
  OBVIOUS
<1>1. FramesOK(stack)
  BY DEF WalkInv
<1>2. stack \in Seq([dir : Nodes, left : SUBSET Nodes])
  BY <1>1 DEF FramesOK, Frame
<1>3. StackTypeOK
  <2>1. stack # <<>> => stack[1].dir = Args[root]
    BY <1>1 DEF FramesOK
  <2>2. \A i \in 2 .. Len(stack) : stack[i].dir \in Children(stack[i - 1].dir)
    BY <1>1 DEF FramesOK
  <2>3. \A i \in DOMAIN stack : stack[i].left \subseteq Children(stack[i].dir)
    <3>1. DOMAIN stack = 1 .. Len(stack)
      BY <1>2, LenProperties
    <3> QED BY <1>1, <3>1 DEF FramesOK
  <2>4. cur # NONE => cur.level = Level(Args[root], cur.node)
    BY DEF WalkInv, CurOK
  <2> QED BY <2>1, <2>2, <2>3, <2>4 DEF StackTypeOK
<1>4. cur \in Entry \cup {NONE}
  BY DEF WalkInv, CurOK, Entry
<1> QED BY <1>2, <1>3, <1>4 DEF TypeOK, OptInv, WalkInv

\* Every variable has its type, and the open directories are a way down from
\* the argument with the entry in the last of them, whatever the forest, the
\* devices and the command line.
THEOREM TypeCorrect == Spec => []TypeOK
<1>1. OptInv /\ WalkInv => TypeOK
  BY WalkTypes
<1> QED BY <1>1, WalkAlways, PTL

LEMMA FoundPaths ==
    ASSUME WalkInv, NEW f \in Found
    PROVE  Path[f[2]] \in PathNames
<1>1. queue \in Seq((DOMAIN Args) \X Nodes)
  BY DEF WalkInv
<1>2. f \in (DOMAIN Args) \X Nodes
  BY <1>1, LenProperties, ElementOfSeq DEF Found
<1>3. f[2] \in Nodes
  BY <1>2
<1> QED BY <1>3, TraverseAssumption

\* The symbolic link made at any file that was evaluated leads to any other
\* (replace_with_symlink on what the queue held).
THEOREM EveryLinkLeadsBack == Spec => []LinksLeadBack
<1>1. WalkInv => LinksLeadBack
  BY FoundPaths, LinkLeadsBack DEF LinksLeadBack
<1> QED BY <1>1, WalkAlways, PTL

\* Any two files that were evaluated are staged apart (tmp_name on what the
\* queue held).
THEOREM EveryStagingApart == Spec => []StagingApart
<1>1. WalkInv => StagingApart
  BY FoundPaths, StagingIsApart DEF StagingApart
<1> QED BY <1>1, WalkAlways, PTL

-----------------------------------------------------------------------------
\* A link that leaves its volume leads to one that can clone just as well.
LinksOnDevice ==
    \A n \in Nodes : Kind[n] = "symlink" =>
        (Target[n] \in CloneDevs <=> Dev[n] \in CloneDevs)

LEMMA CapabilityStep ==
    ASSUME LinksOnDevice, WalkInv, CapabilityFresh, [Next]_vars
    PROVE  CapabilityFresh'
<1>1. CASE UNCHANGED cache
  BY <1>1 DEF CapabilityFresh, cache
<1>2. CASE AtEntry /\ Remember
  <2>1. cur.node \in Nodes
    BY <1>2 DEF AtEntry, WalkInv, CurOK, Entry
  <2>2. CASE DeviceChanged
    <3>1. currentDev' = Dev[cur.node] /\ supported' = IsCloneSupported(cur.node)
      BY <1>2, <2>2 DEF Remember, Supports
    <3>2. IsCloneSupported(cur.node) <=> Dev[cur.node] \in CloneDevs
      BY <2>1 DEF IsCloneSupported, LinksOnDevice
    <3> QED BY <3>1, <3>2 DEF CapabilityFresh
  <2>3. CASE ~DeviceChanged
    BY <1>2, <2>3 DEF Remember, Supports, CapabilityFresh
  <2> QED BY <2>2, <2>3
<1>3. Parse \/ FtsRead \/ UNCHANGED vars => UNCHANGED cache
  BY DEF Parse, ParseDepth, ParseThreads, ParseXdev, ParseLink, ParseSymlink,
     ParseOther, ParseUsage, CheckArgs, CheckArgsFails, Set, Exit,
     FtsRead, FtsNextRoot, FtsChild, FtsLeaveDir, FtsPassDir, FtsUnreadable,
     FtsEnd, Returns, vars
<1>4. Visit => (AtEntry /\ Remember) \/ UNCHANGED cache
  BY DEF Visit, ReportError, SkipTooDeep, SkipDevice, PassUnsupported, PassOther,
     Enqueue, InReach
<1> QED BY <1>1, <1>2, <1>3, <1>4 DEF Next, Terminated

\* Where no symbolic link leads from a device that can clone to one that
\* cannot or back, the remembered capability is the remembered device's, on
\* every order of devices (current_dev, clonefile_supported).
THEOREM CapabilityIsFresh ==
    ASSUME LinksOnDevice
    PROVE  Spec => []CapabilityFresh
<1>1. Init => CapabilityFresh
  BY DEF Init, CapabilityFresh
<1>2. WalkInv /\ CapabilityFresh /\ [Next]_vars => CapabilityFresh'
  BY CapabilityStep
<1> QED BY <1>1, <1>2, WalkAlways, PTL DEF Spec

-----------------------------------------------------------------------------
(* The depth *)

\* The option -d was given at i and not again since.
LastDepth(i) ==
    /\ line.opts[i][1] = "d"
    /\ \A j \in 1 .. parsed : line.opts[j][1] = "d" => j <= i

DepthInv ==
    /\ \A i \in 1 .. parsed : LastDepth(i) => opt.depth = ToShort(line.opts[i][2])
    /\ mpc \notin {"options", "exited"} => parsed = Len(line.opts)
    /\ mpc \in {"options", "exited"} => queue = <<>>
    /\ \A i \in DOMAIN queue : Level(Args[queue[i][1]], queue[i][2]) <= opt.depth + 1

LEMMA DepthInit == Init => DepthInv
<1> SUFFICES ASSUME Init PROVE DepthInv
  OBVIOUS
<1>1. parsed = 0 /\ mpc = "options" /\ queue = <<>>
  BY DEF Init
<1>2. DOMAIN queue = {} /\ 1 .. parsed = {}
  BY <1>1
<1> QED BY <1>1, <1>2 DEF DepthInv

\* An option is either the new depth or leaves the depth alone.
LEMMA SetKeepsDepth ==
    ASSUME OptInv, DepthInv, More, NEW o, Set(o),
           Letter = "d" => o.depth = ToShort(Value),
           Letter # "d" => o.depth = opt.depth
    PROVE  DepthInv'
<1>1. /\ opt' = o /\ parsed' = parsed + 1 /\ mpc' = mpc /\ mpc = "options"
      /\ queue' = queue /\ queue = <<>> /\ line' = line
  BY DEF Set, More, DepthInv, input
<1>2. parsed \in Nat
  BY LineTypes DEF OptInv
<1>3. ASSUME NEW i \in 1 .. parsed + 1, LastDepth(i)'
      PROVE  opt'.depth = ToShort(line.opts[i][2])
  <2>1. /\ line.opts[i][1] = "d"
        /\ \A j \in 1 .. parsed + 1 : line.opts[j][1] = "d" => j <= i
    BY <1>1, <1>3 DEF LastDepth
  <2>2. CASE i = parsed + 1
    BY <1>1, <2>1, <2>2 DEF Letter, Value
  <2>3. CASE i # parsed + 1
    <3>1. i \in 1 .. parsed /\ parsed + 1 \in 1 .. parsed + 1 /\ ~(parsed + 1 <= i)
      BY <1>2, <2>3
    <3>2. Letter # "d"
      BY <2>1, <3>1 DEF Letter
    <3>3. \A j \in 1 .. parsed : j \in 1 .. parsed + 1
      BY <1>2
    <3>4. LastDepth(i)
      BY <2>1, <3>3 DEF LastDepth
    <3>5. opt.depth = ToShort(line.opts[i][2])
      BY <3>1, <3>4 DEF DepthInv
    <3> QED BY <1>1, <3>2, <3>5
  <2> QED BY <2>2, <2>3
<1>4. DOMAIN queue' = {}
  BY <1>1
<1>5. \A i \in 1 .. parsed' : LastDepth(i)' => opt'.depth = ToShort(line'.opts[i][2])
  BY <1>1, <1>3
<1> QED BY <1>1, <1>4, <1>5 DEF DepthInv

LEMMA SameDepth ==
    ASSUME DepthInv, UNCHANGED <<input, parsed, opt, queue>>,
           mpc' \notin {"options", "exited"} => parsed = Len(line.opts),
           mpc' \in {"options", "exited"} => queue = <<>>
    PROVE  DepthInv'
<1>1. line' = line
  BY DEF input
<1>2. \A i : LastDepth(i)' <=> LastDepth(i)
  BY <1>1 DEF LastDepth
<1>3. \A i \in DOMAIN queue :
         Level(Args[queue[i][1]], queue[i][2])' = Level(Args[queue[i][1]], queue[i][2])
  BY <1>1 DEF Level, Args
<1> QED BY <1>1, <1>2, <1>3 DEF DepthInv

LEMMA DepthStep ==
    ASSUME OptInv, WalkInv, DepthInv, [Next]_vars
    PROVE  DepthInv'
<1>1. ASSUME More, Exit PROVE DepthInv'
  BY <1>1, SameDepth DEF More, Exit, DepthInv
<1>2. CASE ParseDepth
  <2>1. CASE ToShort(Value) < 0
    BY <1>1, <1>2, <2>1 DEF ParseDepth
  <2>2. CASE ~(ToShort(Value) < 0)
    <3>1. More /\ Letter = "d" /\ Set([opt EXCEPT !.depth = ToShort(Value)])
      BY <1>2, <2>2 DEF ParseDepth
    <3> QED BY <3>1, SetKeepsDepth DEF OptInv
  <2> QED BY <2>1, <2>2
<1>3. CASE ParseThreads
  <2>1. CASE Value < 0
    BY <1>1, <1>3, <2>1 DEF ParseThreads
  <2>2. CASE ~(Value < 0)
    <3>1. More /\ Letter # "d" /\ Set([opt EXCEPT !.threads = ToByte(Value)])
      BY <1>3, <2>2 DEF ParseThreads
    <3> QED BY <3>1, SetKeepsDepth DEF OptInv
  <2> QED BY <2>1, <2>2
<1>4. CASE ParseXdev
  BY <1>4, SetKeepsDepth DEF ParseXdev, OptInv
<1>5. CASE ParseLink \/ ParseSymlink
  BY <1>5, SetKeepsDepth DEF ParseLink, ParseSymlink, OptInv
<1>6. CASE ParseOther
  BY <1>6, SetKeepsDepth DEF ParseOther
<1>7. CASE ParseUsage
  BY <1>1, <1>7 DEF ParseUsage
<1>8. CASE CheckArgs
  <2>1. UNCHANGED <<input, parsed, opt, queue>> /\ mpc' = "read" /\ parsed = Len(line.opts)
    BY <1>8 DEF CheckArgs
  <2> QED BY <2>1, SameDepth
<1>9. CASE CheckArgsFails
  <2>1. /\ UNCHANGED <<input, parsed, opt, queue>> /\ mpc' = "exited" /\ queue = <<>>
    BY <1>9 DEF CheckArgsFails, Exit, DepthInv
  <2> QED BY <2>1, SameDepth
<1>10. CASE FtsRead
  <2>1. /\ UNCHANGED <<input, parsed, opt, queue>>
        /\ mpc = "read" /\ mpc' \in {"entry", "done"}
    BY <1>10 DEF FtsRead, FtsNextRoot, FtsChild, FtsLeaveDir, FtsPassDir,
       FtsUnreadable, FtsEnd, Returns, Advances
  <2> QED BY <2>1, SameDepth DEF DepthInv
<1>11. CASE Visit /\ ~Enqueue
  <2>1. /\ UNCHANGED <<input, parsed, opt, queue>>
        /\ mpc = "entry" /\ mpc' = "read"
    BY <1>11 DEF Visit, ReportError, SkipTooDeep, SkipDevice, PassUnsupported,
       PassOther, Continue, AtEntry, InReach
  <2> QED BY <2>1, SameDepth DEF DepthInv
<1>12. CASE Enqueue
  <2>1. /\ UNCHANGED <<input, parsed, opt>> /\ mpc = "entry" /\ mpc' = "read"
        /\ queue' = Append(queue, <<root, cur.node>>) /\ ~TooDeep /\ line' = line
    BY <1>12 DEF Enqueue, Continue, AtEntry, InReach, input
  <2>2. CurOK /\ queue \in Seq((DOMAIN Args) \X Nodes) /\ Args' = Args
    BY <2>1 DEF WalkInv, Args
  <2>3. /\ cur.level = Level(Args[root], cur.node) /\ cur.level \in Nat
        /\ root \in DOMAIN Args /\ cur.node \in Nodes
    BY <2>2 DEF CurOK, Entry
  <2>4. opt.depth \in 0 .. NoLimit /\ NoLimit \in Int
    <3>1. ShortHalf \in Nat \ {0}
      BY TraverseAssumption
    <3> QED BY <3>1 DEF OptInv, NoLimit
  <2>5. Level(Args[root], cur.node) <= opt.depth + 1
    BY <2>1, <2>3, <2>4 DEF TooDeep
  <2>6. /\ DOMAIN queue = 1 .. Len(queue) /\ Len(queue) \in Nat
        /\ DOMAIN queue' = 1 .. Len(queue) + 1
        /\ queue'[Len(queue) + 1] = <<root, cur.node>>
        /\ \A i \in 1 .. Len(queue) : queue'[i] = queue[i]
    <3>1. <<root, cur.node>> \in (DOMAIN Args) \X Nodes
      BY <2>3
    <3>2. /\ queue' \in Seq((DOMAIN Args) \X Nodes)
          /\ Len(queue') = Len(queue) + 1
          /\ queue'[Len(queue) + 1] = <<root, cur.node>>
          /\ \A i \in 1 .. Len(queue) : queue'[i] = queue[i]
      BY <2>1, <2>2, <3>1, AppendProperties
    <3> QED BY <2>2, <3>2, LenProperties
  <2>7. ASSUME NEW i \in DOMAIN queue'
        PROVE  Level(Args[queue'[i][1]], queue'[i][2]) <= opt.depth + 1
    <3>1. CASE i = Len(queue) + 1
      BY <2>5, <2>6, <3>1
    <3>2. CASE i # Len(queue) + 1
      <4>1. i \in DOMAIN queue /\ queue'[i] = queue[i]
        BY <2>6, <3>2
      <4> QED BY <4>1 DEF DepthInv
    <3> QED BY <3>1, <3>2
  <2>8. \A i : LastDepth(i)' <=> LastDepth(i)
    BY <2>1 DEF LastDepth
  <2>9. (\A i \in DOMAIN queue : Level(Args[queue[i][1]], queue[i][2]) <= opt.depth + 1)'
    BY <2>1, <2>2, <2>7 DEF Level
  <2>10. (mpc \notin {"options", "exited"} => parsed = Len(line.opts))'
    BY <2>1 DEF DepthInv
  <2>11. (mpc \in {"options", "exited"} => queue = <<>>)'
    BY <2>1
  <2>12. (\A i \in 1 .. parsed : LastDepth(i) => opt.depth = ToShort(line.opts[i][2]))'
    BY <2>1, <2>8 DEF DepthInv
  <2> QED BY <2>9, <2>10, <2>11, <2>12 DEF DepthInv
<1>13. CASE UNCHANGED vars
  BY <1>13, SameDepth DEF vars, DepthInv
<1> QED BY <1>2, <1>3, <1>4, <1>5, <1>6, <1>7, <1>8, <1>9, <1>10, <1>11, <1>12, <1>13
    DEF Next, Terminated, Parse

\* A number that does not fit a short only ever becomes smaller.
LEMMA ToShortShrinks ==
    ASSUME NEW v \in Nat
    PROVE  ToShort(v) <= v /\ ToShort(v) \in Int
<1> DEFINE w == 2 * ShortHalf
           u == v + ShortHalf
<1>1. w \in Nat \ {0} /\ u \in Nat /\ ShortHalf \in Nat
  BY TraverseAssumption
<1>2. ToShort(v) = (u % w) - ShortHalf
  BY DEF ToShort
<1>3. u % w <= u /\ u % w \in Nat
  <2> HIDE DEF w, u
  <2>1. u % w \in 0 .. w - 1
    BY <1>1
  <2>2. u = w * (u \div w) + (u % w) /\ u \div w \in Nat
    BY <1>1
  <2>3. w * (u \div w) \in Nat
    BY <1>1, <2>2
  <2> QED BY <1>1, <2>1, <2>2, <2>3
<1>4. u = v + ShortHalf
  OBVIOUS
<1> HIDE DEF w, u
<1> QED BY <1>1, <1>2, <1>3, <1>4

\* No file deeper than the last -d asks is evaluated, whatever numbers the
\* options are given and however often (option parsing, fts_level).
THEOREM DepthKept == Spec => []NeverTooDeep
<1>1. OptInv /\ WalkInv /\ DepthInv => NeverTooDeep
  <2> SUFFICES ASSUME OptInv, WalkInv, DepthInv,
                      NEW d \in AskedDepth, d >= 0, NEW f \in Found
               PROVE  Level(Args[f[1]], f[2]) <= d + 1
    BY DEF NeverTooDeep
  <2>1. PICK i \in LastOf({"d"}) : d = line.opts[i][2]
    BY DEF AskedDepth
  <2>2. line.opts \in Seq(STRING \X Int) /\ DOMAIN line.opts = 1 .. Len(line.opts)
    BY LineTypes, LenProperties DEF OptInv
  <2>3. /\ i \in 1 .. Len(line.opts) /\ line.opts[i][1] = "d"
        /\ \A j \in 1 .. Len(line.opts) : line.opts[j][1] = "d" => j <= i
    BY <2>1, <2>2 DEF LastOf
  <2>4. d \in Int
    <3>1. line.opts[i] \in STRING \X Int
      BY <2>2, <2>3, ElementOfSeq
    <3> QED BY <2>1, <3>1
  <2>5. PICK k \in DOMAIN queue : f = queue[k]
    BY DEF Found
  <2>6. queue # <<>>
    BY <2>5
  <2>7. parsed = Len(line.opts)
    BY <2>6 DEF DepthInv
  <2>8. opt.depth = ToShort(d)
    BY <2>1, <2>3, <2>7 DEF DepthInv, LastDepth
  <2>9. Level(Args[f[1]], f[2]) <= opt.depth + 1
    BY <2>5 DEF DepthInv
  <2>10. d \in Nat
    BY <2>4
  <2>11. ToShort(d) <= d /\ ToShort(d) \in Int
    BY <2>10, ToShortShrinks
  <2>12. Level(Args[f[1]], f[2]) \in Int
    <3>1. f \in (DOMAIN Args) \X Nodes
      BY <2>5, LenProperties, ElementOfSeq DEF WalkInv
    <3>2. f[2] \in Nodes /\ Args[f[1]] \in Nodes
      BY <3>1, LineTypes DEF OptInv
    <3>3. Len(Path[f[2]]) \in Nat /\ Len(Path[Args[f[1]]]) \in Nat
      BY <3>2, DepthIsNat
    <3> QED BY <3>3 DEF Level
  <2> QED BY <2>8, <2>9, <2>10, <2>11, <2>12
<1>2. OptInv /\ WalkInv /\ DepthInv /\ [Next]_vars => DepthInv'
  BY DepthStep
<1> QED BY <1>1, <1>2, DepthInit, WalkAlways, PTL DEF Spec

-----------------------------------------------------------------------------
(* The forest *)

\* The one is above the other when its path is the beginning of the other's.
LEMMA AboveMeans ==
    ASSUME NEW m \in Nodes, NEW n \in Nodes
    PROVE  /\ Len(Path[m]) \in Nat \ {0} /\ Len(Path[n]) \in Nat \ {0}
           /\ Above(m, n) <=>
                /\ Len(Path[m]) < Len(Path[n])
                /\ \A i \in 1 .. Len(Path[m]) : Path[n][i] = Path[m][i]
<1> DEFINE p == Path[m]
           q == Path[n]
           a == Len(Path[m])
           b == Len(Path[n])
<1>1. p \in PathNames /\ q \in PathNames
  BY TraverseAssumption
<1>2. p \in Seq(Names) /\ q \in Seq(Names) /\ a \in Nat \ {0} /\ b \in Nat \ {0}
  BY <1>1, DirNameProperties DEF PathNames
<1>3. ASSUME a < b
      PROVE  SubSeq(q, 1, a) = p <=> \A i \in 1 .. a : q[i] = p[i]
  <2>1. \A i \in 1 .. a : q[i] \in Names
    BY <1>2, <1>3, ElementOfSeq
  <2>2. /\ SubSeq(q, 1, a) \in Seq(Names) /\ Len(SubSeq(q, 1, a)) = a
        /\ \A i \in 1 .. a : SubSeq(q, 1, a)[i] = q[i]
    BY <1>2, <2>1, PrefixProperties
  <2>3. SubSeq(q, 1, a) = p <=> \A i \in 1 .. a : SubSeq(q, 1, a)[i] = p[i]
    BY <1>2, <2>2, SeqEqual
  <2> QED BY <2>2, <2>3
<1> QED BY <1>2, <1>3 DEF Above

\* What is above something above n is above n, and has a shorter path.
LEMMA AboveOrder ==
    ASSUME NEW l \in Nodes, NEW m \in Nodes, NEW n \in Nodes
    PROVE  /\ Above(m, n) => Len(Path[m]) < Len(Path[n]) /\ m # n
           /\ Within(l, m) /\ Above(m, n) => Above(l, n)
           /\ Above(l, m) /\ Within(m, n) => Above(l, n)
           /\ Within(l, m) /\ Within(m, n) => Within(l, n)
<1> DEFINE a == Len(Path[l])
           b == Len(Path[m])
           c == Len(Path[n])
<1>1. a \in Nat \ {0} /\ b \in Nat \ {0} /\ c \in Nat \ {0}
  BY AboveMeans
<1>2. Above(m, n) => b < c
  BY AboveMeans
<1>3. ASSUME Above(l, m), Above(m, n) PROVE Above(l, n)
  <2>1. a < b /\ \A i \in 1 .. a : Path[m][i] = Path[l][i]
    BY <1>3, AboveMeans
  <2>2. b < c /\ \A i \in 1 .. b : Path[n][i] = Path[m][i]
    BY <1>3, AboveMeans
  <2>3. a < c /\ \A i \in 1 .. a : i \in 1 .. b
    BY <1>1, <2>1, <2>2
  <2>4. \A i \in 1 .. a : Path[n][i] = Path[l][i]
    BY <2>1, <2>2, <2>3
  <2> QED BY <2>3, <2>4, AboveMeans
<1>4. Above(m, n) => m # n
  BY <1>1, <1>2
<1> QED BY <1>2, <1>3, <1>4 DEF Within

\* A directory is above its entries, and what is above an entry is the
\* directory or above that.
LEMMA AboveChild ==
    ASSUME NEW d \in Nodes, NEW n \in Children(d), NEW m \in Nodes
    PROVE  /\ n \in Nodes /\ Above(d, n) /\ Len(Path[n]) = Len(Path[d]) + 1
           /\ Above(m, n) => Within(m, d)
<1> DEFINE a == Len(Path[m])
           b == Len(Path[d])
           c == Len(Path[n])
<1>1. /\ n \in Nodes /\ DirName(Path[n]) = Path[d]
      /\ Path[n] \in PathNames /\ Path[m] \in PathNames /\ Path[d] \in PathNames
  BY TraverseAssumption DEF Children
<1>2. /\ a \in Nat \ {0} /\ b \in Nat \ {0} /\ c = b + 1
      /\ \A i \in 1 .. b : Path[n][i] = Path[d][i]
  <2>1. /\ Len(Path[n]) \in Nat \ {0} /\ Len(Path[d]) = Len(Path[n]) - 1
        /\ \A i \in 1 .. Len(Path[n]) - 1 : Path[d][i] = Path[n][i]
    BY <1>1, DirNameProperties
  <2>2. a \in Nat \ {0} /\ b \in Nat \ {0}
    BY <1>1, DirNameProperties
  <2> QED BY <2>1, <2>2
<1>3. Above(d, n)
  BY <1>1, <1>2, AboveMeans
<1>4. ASSUME Above(m, n) PROVE Within(m, d)
  <2>1. a < c /\ \A i \in 1 .. a : Path[n][i] = Path[m][i]
    BY <1>1, <1>4, AboveMeans
  <2>2. a <= b /\ \A i \in 1 .. a : i \in 1 .. b
    BY <1>2, <2>1
  <2>3. \A i \in 1 .. a : Path[d][i] = Path[m][i]
    BY <1>2, <2>1, <2>2
  <2>4. CASE a = b
    <3>1. Path[d] \in Seq(Names) /\ Path[m] \in Seq(Names)
      BY <1>1 DEF PathNames
    <3>2. Path[d] = Path[m]
      BY <2>3, <2>4, <3>1, SeqEqual
    <3> QED BY <3>2, TraverseAssumption DEF Within
  <2>5. CASE a < b
    BY <2>3, <2>5, AboveMeans DEF Within
  <2> QED BY <1>2, <2>2, <2>4, <2>5
<1> QED BY <1>1, <1>2, <1>3, <1>4

-----------------------------------------------------------------------------
(* What the options ask for *)

Early == mpc \in {"options", "exited"}

\* Among the options parsed so far is one of these letters.
GivenIn(letters) == \E i \in 1 .. parsed : line.opts[i][1] \in letters

\* The options are set as the parsed part of the command line says.
AskInv ==
    /\ opt.xdev <=> GivenIn({"x"})
    /\ Cloning <=> ~GivenIn({"l", "s"})
    /\ GivenIn({"d"}) \/ opt.depth = NoLimit

LEMMA AskInit == Init => AskInv
<1> SUFFICES ASSUME Init PROVE AskInv
  OBVIOUS
<1>1. /\ parsed = 0 /\ opt.depth = NoLimit /\ opt.xdev = FALSE /\ opt.mode = "clone"
  BY DEF Init
<1>2. 1 .. parsed = {}
  BY <1>1
<1> QED BY <1>1, <1>2 DEF AskInv, GivenIn, Cloning

LEMMA SameAsk ==
    ASSUME AskInv, UNCHANGED <<input, parsed, opt>>
    PROVE  AskInv'
  BY DEF AskInv, GivenIn, Cloning, input

\* The option that is parsed is the one more that was given.
LEMMA OneMoreGiven ==
    ASSUME OptInv, More, NEW o, Set(o), NEW letters
    PROVE  GivenIn(letters)' <=> GivenIn(letters) \/ Letter \in letters
<1>1. parsed \in Nat /\ parsed' = parsed + 1 /\ line' = line
  BY LineTypes DEF OptInv, Set, input
<1>2. \A i : i \in 1 .. parsed + 1 <=> i \in 1 .. parsed \/ i = parsed + 1
  BY <1>1
<1> QED BY <1>1, <1>2 DEF GivenIn, Letter

LEMMA SetKeepsAsk ==
    ASSUME OptInv, AskInv, More, NEW o, Set(o),
           o.xdev <=> opt.xdev \/ Letter = "x",
           o.mode = "clone" <=> opt.mode = "clone" /\ Letter \notin {"l", "s"},
           Letter = "d" \/ o.depth = opt.depth
    PROVE  AskInv'
<1>1. opt' = o
  BY DEF Set
<1>2. /\ GivenIn({"x"})' <=> GivenIn({"x"}) \/ Letter \in {"x"}
      /\ GivenIn({"l", "s"})' <=> GivenIn({"l", "s"}) \/ Letter \in {"l", "s"}
      /\ GivenIn({"d"})' <=> GivenIn({"d"}) \/ Letter \in {"d"}
  BY OneMoreGiven
<1>3. NoLimit' = NoLimit
  BY DEF NoLimit
<1> QED BY <1>1, <1>2, <1>3 DEF AskInv, Cloning

LEMMA AskStep ==
    ASSUME OptInv, AskInv, [Next]_vars
    PROVE  AskInv'
<1>t. opt \in [depth : 0 .. NoLimit, threads : 0 .. ByteValues - 1,
               xdev : BOOLEAN, mode : {"clone", "link", "symlink"}]
  BY DEF OptInv
<1>1. ASSUME Exit PROVE AskInv'
  BY <1>1, SameAsk DEF Exit
<1>2. CASE ParseDepth
  <2>1. CASE ToShort(Value) < 0
    BY <1>1, <1>2, <2>1 DEF ParseDepth
  <2>2. CASE ~(ToShort(Value) < 0)
    <3>1. More /\ Letter = "d" /\ Set([opt EXCEPT !.depth = ToShort(Value)])
      BY <1>2, <2>2 DEF ParseDepth
    <3> QED BY <1>t, <3>1, SetKeepsAsk
  <2> QED BY <2>1, <2>2
<1>3. CASE ParseThreads
  <2>1. CASE Value < 0
    BY <1>1, <1>3, <2>1 DEF ParseThreads
  <2>2. CASE ~(Value < 0)
    <3>1. More /\ Letter = "t" /\ Set([opt EXCEPT !.threads = ToByte(Value)])
      BY <1>3, <2>2 DEF ParseThreads
    <3> QED BY <1>t, <3>1, SetKeepsAsk
  <2> QED BY <2>1, <2>2
<1>4. CASE ParseXdev
  BY <1>t, <1>4, SetKeepsAsk DEF ParseXdev
<1>5. CASE ParseLink
  BY <1>t, <1>5, SetKeepsAsk DEF ParseLink
<1>6. CASE ParseSymlink
  BY <1>t, <1>6, SetKeepsAsk DEF ParseSymlink
<1>7. CASE ParseOther
  BY <1>t, <1>7, SetKeepsAsk DEF ParseOther
<1>8. CASE ParseUsage \/ CheckArgs \/ CheckArgsFails
  BY <1>1, <1>8, SameAsk DEF ParseUsage, CheckArgs, CheckArgsFails
<1>9. CASE FtsRead
  BY <1>9, SameAsk DEF FtsRead, FtsNextRoot, FtsChild, FtsLeaveDir, FtsPassDir,
     FtsUnreadable, FtsEnd, Returns
<1>10. CASE Visit
  BY <1>10, SameAsk DEF Visit, ReportError, SkipTooDeep, SkipDevice,
     PassUnsupported, PassOther, Enqueue, Continue
<1>11. CASE UNCHANGED vars
  BY <1>11, SameAsk DEF vars
<1> QED BY <1>2, <1>3, <1>4, <1>5, <1>6, <1>7, <1>8, <1>9, <1>10, <1>11
    DEF Next, Terminated, Parse

\* Of the options of some letters there is a last one, if there is any.
LEMMA LastExists ==
    ASSUME line \in Lines, NEW letters
    PROVE  LastOf(letters) # {} <=> \E i \in DOMAIN line.opts : line.opts[i][1] \in letters
<1> DEFINE n == Len(line.opts)
           Of(i) == line.opts[i][1] \in letters
           T == {n - i : i \in {k \in 1 .. n : Of(k)}}
<1>1. n \in Nat /\ DOMAIN line.opts = 1 .. n
  BY LineTypes, LenProperties
<1>2. LastOf(letters) = {i \in 1 .. n : Of(i) /\ \A j \in 1 .. n : Of(j) => j <= i}
  BY <1>1 DEF LastOf
<1>3. ASSUME NEW k \in 1 .. n, Of(k) PROVE LastOf(letters) # {}
  <2>1. T \subseteq Nat /\ n - k \in T
    BY <1>1, <1>3
  <2>2. PICK x \in T : \A y \in T : x <= y
    BY <2>1, LeastOf
  <2>3. PICK i \in {j \in 1 .. n : Of(j)} : x = n - i
    BY <2>2
  <2>4. ASSUME NEW j \in 1 .. n, Of(j) PROVE j <= i
    <3>1. n - j \in T
      BY <2>4
    <3>2. n - i <= n - j
      BY <2>2, <2>3, <3>1
    <3> HIDE DEF n
    <3> QED BY <1>1, <2>3, <3>2
  <2>5. i \in LastOf(letters)
    BY <1>2, <2>3, <2>4
  <2> QED BY <2>5
<1>4. LastOf(letters) # {} => \E i \in 1 .. n : Of(i)
  BY <1>2
<1> QED BY <1>1, <1>3, <1>4

\* During the walk the options are those of the whole command line.
LEMMA Asked ==
    ASSUME OptInv, DepthInv, AskInv, ~Early
    PROVE  /\ opt.xdev <=> Given("x")
           /\ Cloning <=> ~AsksLinks
           /\ AskedDepth # {} \/ opt.depth = NoLimit
           /\ \A d \in AskedDepth : opt.depth = ToShort(d)
<1>1. parsed = Len(line.opts) /\ line \in Lines
  BY DEF DepthInv, OptInv, Early
<1>2. DOMAIN line.opts = 1 .. parsed
  BY <1>1, LineTypes, LenProperties
<1>3. \A letters : GivenIn(letters) <=> LastOf(letters) # {}
  BY <1>1, <1>2, LastExists DEF GivenIn
<1>4. GivenIn({"l", "s"}) <=> GivenIn({"l"}) \/ GivenIn({"s"})
  BY DEF GivenIn
<1>5. opt.xdev <=> Given("x")
  BY <1>3 DEF AskInv, Given
<1>6. Cloning <=> ~AsksLinks
  BY <1>3, <1>4 DEF AskInv, Given, AsksLinks
<1>7. AskedDepth # {} \/ opt.depth = NoLimit
  BY <1>3 DEF AskInv, AskedDepth
<1>8. ASSUME NEW d \in AskedDepth PROVE opt.depth = ToShort(d)
  <2>1. PICK i \in LastOf({"d"}) : d = line.opts[i][2]
    BY DEF AskedDepth
  <2>2. i \in 1 .. parsed /\ LastDepth(i)
    BY <1>2, <2>1 DEF LastOf, LastDepth
  <2> QED BY <2>1, <2>2 DEF DepthInv
<1> QED BY <1>5, <1>6, <1>7, <1>8

-----------------------------------------------------------------------------
(* What is still to come *)

\* The entry returned last is not there a second time.
Fresh == cur # NONE /\ cur.info \notin {"DP", "DNR"}

\* n is that entry or below it, and may still be returned because of it.
InHand(n) ==
    \/ mpc = "entry" /\ Fresh /\ Within(cur.node, n)
    \/ mpc = "read" /\ AtDir /\ ~skip /\ Above(cur.node, n)

\* n is in or below what is left of the open directories.
Held(frames, n) == \E k \in DOMAIN frames : \E m \in frames[k].left : Within(m, n)

\* n has not been reached yet below the argument i.
Ahead(i, n) == i > root \/ (i = root /\ (Held(stack, n) \/ InHand(n)))

\* Nothing on the way to n stops the walk.
ClearTo(n) ==
    /\ Within(Args[root], n)
    /\ \A m \in Nodes : Through(m, Args[root], n) =>
          m \notin Unreadable /\ (opt.xdev => Dev[m] = Dev[Args[root]])

\* Nor does the directory d.
ClearDir(d) ==
    ClearTo(d) /\ d \notin Unreadable /\ (opt.xdev => Dev[d] = Dev[Args[root]])

\* What is left of a directory is beside the way and not on it.
Apart(frames) ==
    \A k \in DOMAIN frames : \A m \in frames[k].left :
        \A j \in DOMAIN frames : ~Within(m, frames[j].dir)

FreshOK ==
    /\ cur.info = Info(cur.node)
    /\ ClearTo(cur.node)
    /\ \A k \in DOMAIN stack : \A m \in stack[k].left : ~Within(m, cur.node)

WayInv ==
    /\ Early => root = 0
    /\ \A k \in DOMAIN stack : ClearDir(stack[k].dir)
    /\ Apart(stack)
    /\ Fresh => FreshOK

\* What is found is what was asked for without what is still to come.
ExactInv ==
    /\ goal = AllWanted /\ Found \subseteq goal
    /\ \A v \in goal : v \in Found <=> ~Ahead(v[1], v[2])

\* An entry of a directory that the walk may open can be reached.
LEMMA ClearChild ==
    ASSUME Args[root] \in Nodes, NEW d \in Nodes, ClearDir(d), NEW n \in Children(d)
    PROVE  ClearTo(n)
<1>1. n \in Nodes /\ Above(d, n) /\ \A m \in Nodes : Above(m, n) => Within(m, d)
  BY AboveChild
<1>2. Within(Args[root], n)
  BY <1>1, AboveOrder DEF ClearDir, ClearTo, Within
<1>3. ASSUME NEW m \in Nodes, Through(m, Args[root], n)
      PROVE  m \notin Unreadable /\ (opt.xdev => Dev[m] = Dev[Args[root]])
  <2>1. Within(Args[root], m) /\ Within(m, d)
    BY <1>1, <1>3 DEF Through
  <2>2. CASE m = d
    BY <2>2 DEF ClearDir
  <2>3. CASE Above(m, d)
    BY <2>1, <2>3 DEF ClearDir, ClearTo, Through
  <2> QED BY <2>1, <2>2, <2>3 DEF Within
<1> QED BY <1>2, <1>3 DEF ClearTo

\* Nothing stands between the argument and itself.
LEMMA ClearRoot ==
    ASSUME Args[root] \in Nodes
    PROVE  ClearTo(Args[root])
<1>1. \A m \in Nodes : Within(Args[root], m) => ~Above(m, Args[root])
  BY AboveOrder, AboveMeans DEF Within
<1> QED BY <1>1 DEF ClearTo, Through, Within

\* What is below a directory is in or below its entries.
LEMMA BelowIsInEntries ==
    ASSUME NEW d \in Nodes, NEW n \in Nodes
    PROVE  Above(d, n) <=> \E c \in Children(d) : Within(c, n)
<1>1. Above(d, n) => \E c \in Children(d) : Within(c, n)
  BY ForestAssumption
<1>2. ASSUME NEW c \in Children(d), Within(c, n) PROVE Above(d, n)
  <2>1. c \in Nodes /\ Above(d, c)
    BY AboveChild
  <2> QED BY <1>2, <2>1, AboveOrder
<1> QED BY <1>1, <1>2

\* The open directories with the one that is opened now.
LEMMA FramesAre ==
    ASSUME WalkInv
    PROVE  /\ Len(stack) \in Nat /\ DOMAIN stack = 1 .. Len(stack)
           /\ \A k \in DOMAIN stack : stack[k].dir \in Nodes /\ stack[k].left \subseteq Nodes
           /\ Opened =>
                /\ cur.node \in Nodes /\ Fresh /\ AtDir /\ ~skip
                /\ DOMAIN Frames = 1 .. Len(stack) + 1
                /\ \A k \in 1 .. Len(stack) : Frames[k] = stack[k]
                /\ Frames[Len(stack) + 1] = [dir |-> cur.node, left |-> Children(cur.node)]
<1> DEFINE new == [dir |-> cur.node, left |-> Children(cur.node)]
<1>1. stack \in Seq(Frame)
  BY DEF WalkInv, FramesOK
<1>2. /\ Len(stack) \in Nat /\ DOMAIN stack = 1 .. Len(stack)
      /\ \A k \in DOMAIN stack : stack[k] \in Frame
  BY <1>1, LenProperties, ElementOfSeq
<1>3. \A k \in DOMAIN stack : stack[k].dir \in Nodes /\ stack[k].left \subseteq Nodes
  BY <1>2 DEF Frame
<1>4. ASSUME Opened
      PROVE  /\ cur.node \in Nodes /\ Fresh /\ AtDir /\ ~skip
             /\ DOMAIN Frames = 1 .. Len(stack) + 1
             /\ \A k \in 1 .. Len(stack) : Frames[k] = stack[k]
             /\ Frames[Len(stack) + 1] = new
  <2>1. AtDir /\ ~skip /\ cur # NONE /\ cur.info = "D"
    BY <1>4 DEF Opened, Descends, AtDir
  <2>2. cur.node \in Nodes
    BY <2>1 DEF WalkInv, CurOK, Entry
  <2>3. new \in Frame
    BY <2>2 DEF Frame, Children
  <2>4. Frames = Append(stack, new)
    BY <1>4 DEF Frames
  <2>5. /\ Frames \in Seq(Frame) /\ Len(Frames) = Len(stack) + 1
        /\ \A k \in 1 .. Len(stack) : Frames[k] = stack[k]
        /\ Frames[Len(stack) + 1] = new
    BY <1>1, <2>3, <2>4, AppendProperties
  <2>6. DOMAIN Frames = 1 .. Len(stack) + 1
    BY <2>5, LenProperties
  <2> QED BY <2>1, <2>2, <2>5, <2>6 DEF Fresh
<1> QED BY <1>2, <1>3, <1>4

\* Opening a directory keeps the way clear, and what was below the directory
\* is below its entries then.
LEMMA FramesWay ==
    ASSUME WalkInv, WayInv, Advances
    PROVE  /\ \A k \in DOMAIN Frames : ClearDir(Frames[k].dir)
           /\ Apart(Frames)
           /\ \A x \in Nodes : Held(Frames, x) <=> Held(stack, x) \/ InHand(x)
<1>1. CASE ~Opened
  <2>1. Frames = stack /\ mpc = "read" /\ ~AtDir
    BY <1>1 DEF Frames, Advances
  <2>2. \A x \in Nodes : ~InHand(x)
    BY <2>1 DEF InHand
  <2> QED BY <2>1, <2>2 DEF WayInv
<1>2. CASE Opened
  <2> DEFINE n == Len(stack)
             d == cur.node
  <2>1. /\ n \in Nat /\ DOMAIN stack = 1 .. n
        /\ d \in Nodes /\ Fresh /\ AtDir /\ ~skip /\ mpc = "read"
        /\ DOMAIN Frames = 1 .. n + 1
        /\ \A k \in 1 .. n : Frames[k] = stack[k]
        /\ Frames[n + 1].dir = d /\ Frames[n + 1].left = Children(d)
    BY <1>2, FramesAre DEF Advances
  <2>2. FramesOK(Frames) /\ Frames # <<>>
    BY <2>1, FramesStayOK
  <2>3. FreshOK
    BY <2>1 DEF WayInv
  <2>4. ClearDir(d)
    BY <1>2, <2>3 DEF FreshOK, ClearDir, Opened, Descends
  <2>5. \A k \in DOMAIN Frames : ClearDir(Frames[k].dir)
    BY <2>1, <2>4 DEF WayInv
  <2>6. ASSUME NEW k \in DOMAIN Frames, NEW m \in Frames[k].left, NEW j \in DOMAIN Frames,
               Within(m, Frames[j].dir)
        PROVE  FALSE
    <3>1. Frames \in Seq(Frame) /\ k \in 1 .. Len(Frames) /\ j \in 1 .. Len(Frames)
      BY <2>2, LenProperties DEF FramesOK
    <3>2. Frames[k] \in Frame /\ Frames[j] \in Frame
      BY <3>1, ElementOfSeq
    <3>3. Frames[k].dir \in Nodes /\ Frames[j].dir \in Nodes /\ m \in Children(Frames[k].dir)
      BY <2>2, <3>1, <3>2 DEF FramesOK, Frame
    <3>4. /\ Len(Path[m]) = Len(Path[Frames[k].dir]) + 1 /\ m \in Nodes
      BY <3>3, AboveChild
    <3>5. Len(Path[m]) <= Len(Path[Frames[j].dir])
      BY <2>6, <3>3, <3>4, AboveOrder, AboveMeans DEF Within
    <3>6. /\ Len(Path[Frames[k].dir]) = Len(Path[Args[root]]) + k - 1
          /\ Len(Path[Frames[j].dir]) = Len(Path[Args[root]]) + j - 1
      BY <2>2, <3>1 DEF FramesOK
    <3>7. Len(Path[Args[root]]) \in Nat /\ k \in Nat /\ j \in Nat
      BY <2>1, <2>2, TopOfFrames
    <3>8. k < j
      BY <3>4, <3>5, <3>6, <3>7
    <3>9. k \in 1 .. n /\ Frames[k] = stack[k]
      BY <2>1, <3>8
    <3>10. CASE j \in 1 .. n
      BY <2>1, <2>6, <3>9, <3>10 DEF WayInv, Apart
    <3>11. CASE j = n + 1
      BY <2>1, <2>3, <2>6, <3>9, <3>11 DEF FreshOK
    <3> QED BY <2>1, <3>10, <3>11
  <2>7. Apart(Frames)
    BY <2>6 DEF Apart
  <2>8. ASSUME NEW x \in Nodes
        PROVE  Held(Frames, x) <=> Held(stack, x) \/ InHand(x)
    <3>1. InHand(x) <=> \E c \in Children(d) : Within(c, x)
      BY <2>1, BelowIsInEntries DEF InHand
    <3>2. \A k : k \in 1 .. n + 1 <=> k \in 1 .. n \/ k = n + 1
      BY <2>1
    <3>3. Held(Frames, x) <=> (\E k \in 1 .. n : \E m \in stack[k].left : Within(m, x))
                              \/ \E c \in Children(d) : Within(c, x)
      BY <2>1, <3>2 DEF Held
    <3>4. Held(stack, x) <=> \E k \in 1 .. n : \E m \in stack[k].left : Within(m, x)
      BY <2>1 DEF Held
    <3> QED BY <3>1, <3>3, <3>4
  <2> QED BY <2>5, <2>7, <2>8
<1> QED BY <1>1, <1>2

\* What was asked for hangs on the command line alone.
LEMMA SameWanted ==
    ASSUME line' = line
    PROVE  AllWanted' = AllWanted /\ Args' = Args
  BY DEF AllWanted, Wanted, Args, AskedDepth, Given, AsksLinks, LastOf

LEMMA GoalIs ==
    ASSUME WalkInv, ExactInv, NEW v \in goal
    PROVE  /\ v[1] \in 1 .. Len(Args) /\ v[1] \in Nat /\ Args[v[1]] \in Nodes
           /\ v[2] \in Nodes /\ v[2] \in Wanted(Args[v[1]])
           /\ v = <<v[1], v[2]>>
<1>1. v \in (DOMAIN Args) \X Nodes /\ v[2] \in Wanted(Args[v[1]])
  BY DEF ExactInv, AllWanted
<1>2. DOMAIN Args = 1 .. Len(Args) /\ \A i \in DOMAIN Args : Args[i] \in Nodes
  BY LineTypes DEF WalkInv
<1> QED BY <1>1, <1>2

\* A step that finds nothing and passes nothing that is wanted.
LEMMA SameAhead ==
    ASSUME ExactInv, UNCHANGED <<line, goal, queue>>,
           \A v \in goal : Ahead(v[1], v[2])' <=> Ahead(v[1], v[2])
    PROVE  ExactInv'
  BY SameWanted DEF ExactInv, Found

\* The way to a node hangs on the argument and -x.
LEMMA SameClear ==
    ASSUME UNCHANGED <<line, root, opt>>, NEW n
    PROVE  /\ ClearTo(n)' <=> ClearTo(n)
           /\ ClearDir(n)' <=> ClearDir(n)
  BY SameWanted DEF ClearTo, ClearDir

\* An entry that is returned as what it is is not a repetition.
LEMMA ReturnedIsFresh ==
    ASSUME NEW node \in Nodes, NEW level \in Nat,
           cur' = [node |-> node, info |-> Info(node), level |-> level]
    PROVE  Fresh'
<1>1. Info(node) \in Infos /\ Info(node) \notin {"DP", "DNR"}
  BY DEF Info, Infos
<1>2. cur' \in Entry
  BY <1>1 DEF Entry
<1>3. cur' # NONE
  BY <1>2, TraverseAssumption
<1> QED BY <1>1, <1>3 DEF Fresh

\* The next argument: nothing is left of the one before.
LEMMA NextRootExact ==
    ASSUME WalkInv, WayInv, ExactInv, FtsNextRoot
    PROVE  WayInv' /\ ExactInv'
<1>0. root < Len(Args) /\ root \in Nat /\ root + 1 \in DOMAIN Args
  BY LineTypes DEF WalkInv, FtsNextRoot
<1>p. PICK top \in Nodes : top = Args[root + 1]
  BY <1>0, LineTypes DEF WalkInv
<1>1. /\ Advances /\ Frames = <<>> /\ root' = root + 1 /\ stack' = stack
      /\ cur' = [node |-> top, info |-> Info(top), level |-> 0]
      /\ mpc' = "entry" /\ UNCHANGED <<line, goal, opt, queue>>
  BY <1>p DEF FtsNextRoot, Returns, input
<1>2. root \in Nat /\ Args' = Args /\ top = Args'[root']
  BY <1>0, <1>p, <1>1, SameWanted
<1>3. stack = <<>>
  <2>1. ~Opened
    <3>1. Opened => DOMAIN Frames = 1 .. Len(stack) + 1 /\ Len(stack) \in Nat
      BY FramesAre
    <3>2. DOMAIN Frames = {}
      BY <1>1
    <3>3. Opened => 1 \in DOMAIN Frames
      BY <3>1
    <3> QED BY <3>2, <3>3
  <2> QED BY <1>1, <2>1 DEF Frames
<1>4. \A x \in Nodes : ~Held(stack, x) /\ ~InHand(x)
  <2>1. \A x \in Nodes : Held(stack, x) \/ InHand(x) => Held(Frames, x)
    BY <1>1, FramesWay
  <2>2. \A x : ~Held(Frames, x)
    BY <1>1 DEF Held
  <2> QED BY <2>1, <2>2
<1>5. Fresh'
  BY <1>1, ReturnedIsFresh
<1>6. Within(top, top) /\ \A x \in Nodes : InHand(x)' <=> Within(top, x)
  BY <1>1, <1>5 DEF InHand, Within
<1>7. \A x \in Nodes : ~Held(stack', x)
  BY <1>1, <1>3 DEF Held
<1>8. ASSUME NEW v \in goal
      PROVE  Ahead(v[1], v[2])' <=> Ahead(v[1], v[2])
  <2>1. v[1] \in Nat /\ v[2] \in Nodes /\ v[2] \in Wanted(Args[v[1]])
    BY <1>8, GoalIs
  <2>2. v[1] = root + 1 => Within(top, v[2])
    BY <1>p, <2>1 DEF Wanted
  <2>3. Ahead(v[1], v[2]) <=> v[1] > root
    BY <1>4, <2>1 DEF Ahead
  <2>4. Ahead(v[1], v[2])' <=> v[1] > root + 1 \/ v[1] = root + 1
    <3>1. Ahead(v[1], v[2])' <=>
             v[1] > root' \/ (v[1] = root' /\ (Held(stack', v[2]) \/ InHand(v[2])'))
      BY DEF Ahead, Held
    <3> QED BY <1>1, <1>6, <1>7, <2>1, <2>2, <3>1
  <2> QED BY <1>2, <2>1, <2>3, <2>4
<1>9. ExactInv'
  BY <1>1, <1>8, SameAhead
<1>10. FreshOK'
  <2>1. cur'.node = top /\ cur'.info = Info(top)
    BY <1>1
  <2>2. ClearTo(top)'
    <3>1. Args[root]' = top
      BY <1>2
    <3>2. \A m \in Nodes : ~Through(m, top, top)
      BY AboveOrder, AboveMeans DEF Through, Within
    <3> QED BY <1>6, <3>1, <3>2 DEF ClearTo
  <2>3. DOMAIN stack' = {}
    BY <1>1, <1>3
  <2> QED BY <1>1, <2>1, <2>2, <2>3 DEF FreshOK
<1>11. DOMAIN stack' = {} /\ ~Early'
  BY <1>1, <1>3 DEF Early
<1> QED BY <1>9, <1>10, <1>11 DEF WayInv, Apart

\* The open directories after a step are on a clear way if they were before.
LEMMA ClearNext ==
    ASSUME UNCHANGED <<line, root, opt>>, \A i \in DOMAIN stack' : ClearDir(stack'[i].dir)
    PROVE  (\A i \in DOMAIN stack : ClearDir(stack[i].dir))'
  BY SameWanted DEF ClearDir, ClearTo

\* An entry of the directory that was opened last.
LEMMA ChildExact ==
    ASSUME WalkInv, WayInv, ExactInv, FtsChild
    PROVE  WayInv' /\ ExactInv'
<1>0. PICK k \in Nat : k = Len(Frames)
  BY TopOfFrames DEF FtsChild
<1>1. PICK n \in Frames[k].left :
        /\ stack' = [Frames EXCEPT ![k].left = @ \ {n}]
        /\ Returns(n, Info(n), k)
  BY <1>0 DEF FtsChild, Top
<1>2. /\ Advances /\ Frames # <<>> /\ root' = root
      /\ cur' = [node |-> n, info |-> Info(n), level |-> k]
      /\ mpc' = "entry" /\ UNCHANGED <<line, goal, opt, queue>>
  BY <1>1 DEF FtsChild, Returns, input
<1>3. /\ FramesOK(Frames) /\ k \in 1 .. k /\ DOMAIN Frames = 1 .. k
      /\ Args[root] \in Nodes /\ Len(Path[Args[root]]) \in Nat
      /\ \A i \in 1 .. k : Frames[i] \in Frame
  <2>1. Frames \in Seq(Frame) /\ k \in 1 .. k /\ Args[root] \in Nodes
        /\ Len(Path[Args[root]]) \in Nat
    BY <1>0, <1>2, TopOfFrames
  <2> QED BY <1>0, <2>1, FramesStayOK, LenProperties, ElementOfSeq
<1>4. PICK d \in Nodes : d = Frames[k].dir
  BY <1>3 DEF Frame
<1>5. n \in Children(d) /\ n \in Nodes /\ Len(Path[n]) = Len(Path[Args[root]]) + k
  <2>1. n \in Children(d) /\ Len(Path[d]) = Len(Path[Args[root]]) + k - 1
    BY <1>0, <1>1, <1>3, <1>4 DEF FramesOK
  <2>2. n \in Nodes /\ Len(Path[n]) = Len(Path[d]) + 1
    BY <2>1, AboveChild
  <2> QED BY <1>3, <2>1, <2>2
<1>6. /\ DOMAIN stack' = 1 .. k
      /\ \A i \in 1 .. k : i # k => stack'[i] = Frames[i]
      /\ stack'[k].dir = d /\ stack'[k].left = Frames[k].left \ {n}
  BY <1>1, <1>3, <1>4 DEF Frame
<1>7. /\ \A i \in 1 .. k : stack'[i].dir = Frames[i].dir
      /\ \A i \in 1 .. k : stack'[i].left \subseteq Frames[i].left
  BY <1>4, <1>6
<1>8. /\ \A i \in 1 .. k : ClearDir(Frames[i].dir)
      /\ Apart(Frames)
      /\ \A x \in Nodes : Held(Frames, x) <=> Held(stack, x) \/ InHand(x)
  BY <1>2, <1>3, FramesWay
<1>9. Fresh' /\ \A x \in Nodes : InHand(x)' <=> Within(n, x)
  <2>1. Fresh'
    BY <1>2, <1>5, ReturnedIsFresh
  <2> QED BY <1>2, <2>1 DEF InHand, Within
<1>10. \A x \in Nodes : Held(Frames, x) <=> Held(stack', x) \/ Within(n, x)
  <2>1. ASSUME NEW x \in Nodes, Held(Frames, x) PROVE Held(stack', x) \/ Within(n, x)
    <3>1. PICK i \in 1 .. k : \E m \in Frames[i].left : Within(m, x)
      BY <1>3, <2>1 DEF Held
    <3>2. PICK m \in Frames[i].left : Within(m, x)
      BY <3>1
    <3>3. m = n \/ m \in stack'[i].left
      BY <1>6, <3>2
    <3> QED BY <1>6, <3>2, <3>3 DEF Held
  <2>2. ASSUME NEW x \in Nodes, Held(stack', x) PROVE Held(Frames, x)
    BY <1>3, <1>6, <1>7, <2>2 DEF Held
  <2>3. ASSUME NEW x \in Nodes, Within(n, x) PROVE Held(Frames, x)
    BY <1>1, <1>3, <2>3 DEF Held
  <2> QED BY <2>1, <2>2, <2>3
<1>11. ExactInv'
  <2>1. ASSUME NEW v \in goal
        PROVE  Ahead(v[1], v[2])' <=> Ahead(v[1], v[2])
    <3>1. v[2] \in Nodes
      BY <2>1, GoalIs
    <3>2. Held(stack, v[2]) \/ InHand(v[2]) <=> Held(stack', v[2]) \/ InHand(v[2])'
      BY <1>8, <1>9, <1>10, <3>1
    <3>3. Ahead(v[1], v[2])' <=>
             v[1] > root' \/ (v[1] = root' /\ (Held(stack', v[2]) \/ InHand(v[2])'))
      BY DEF Ahead, Held
    <3> QED BY <1>2, <3>2, <3>3 DEF Ahead
  <2> QED BY <1>2, <2>1, SameAhead
<1>12. ASSUME NEW i \in 1 .. k, NEW m \in stack'[i].left, Within(m, n)
       PROVE  FALSE
  <2>1. m \in Frames[i].left /\ m \in Nodes /\ m \in Children(Frames[i].dir)
        /\ Frames[i].dir \in Nodes
    BY <1>0, <1>3, <1>7, <1>12 DEF Frame, FramesOK
  <2>2. m # n
    <3>1. CASE i = k
      BY <1>6, <1>12, <3>1
    <3>2. CASE i # k
      <4>1. Len(Path[m]) = Len(Path[Frames[i].dir]) + 1
        BY <2>1, AboveChild
      <4>2. Len(Path[Frames[i].dir]) = Len(Path[Args[root]]) + i - 1
        BY <1>0, <1>3 DEF FramesOK
      <4> QED BY <1>3, <1>5, <3>2, <4>1, <4>2
    <3> QED BY <3>1, <3>2
  <2>3. Within(m, d)
    BY <1>5, <1>12, <2>1, <2>2, AboveChild DEF Within
  <2> QED BY <1>3, <1>4, <1>8, <2>1, <2>3 DEF Apart
<1>13. Apart(stack')
  BY <1>3, <1>6, <1>7, <1>8 DEF Apart
<1>14. (\A i \in DOMAIN stack : ClearDir(stack[i].dir))'
  BY <1>2, <1>6, <1>7, <1>8, ClearNext
<1>15. FreshOK'
  <2>1. cur'.node = n /\ cur'.info = Info(n)
    BY <1>2
  <2>2. ClearTo(n)
    BY <1>3, <1>4, <1>5, <1>8, ClearChild
  <2>3. ClearTo(n)'
    BY <1>2, <2>2, SameClear
  <2> QED BY <1>6, <1>12, <2>1, <2>3 DEF FreshOK
<1>16. ~Early'
  BY <1>2 DEF Early
<1> QED BY <1>6, <1>11, <1>13, <1>14, <1>15, <1>16 DEF WayInv, Apart

\* A directory that is returned a second time brings nothing.
LEMMA RepeatedIsOld ==
    ASSUME NEW info \in {"DP", "DNR"}, cur'.info = info, mpc' = "entry"
    PROVE  ~Fresh' /\ \A x : ~InHand(x)'
<1>1. ~Fresh'
  BY DEF Fresh
<1> QED BY <1>1 DEF InHand

\* A directory is left when nothing of it is left.
LEMMA LeaveDirExact ==
    ASSUME WalkInv, WayInv, ExactInv, FtsLeaveDir
    PROVE  WayInv' /\ ExactInv'
<1>0. PICK k \in Nat \ {0} : k = Len(Frames)
  BY TopOfFrames DEF FtsLeaveDir
<1>1. /\ Advances /\ Frames # <<>> /\ root' = root
      /\ Frames[k].left = {} /\ stack' = SubSeq(Frames, 1, k - 1)
      /\ cur'.info = "DP"
      /\ mpc' = "entry" /\ UNCHANGED <<line, goal, opt, queue>>
  BY <1>0 DEF FtsLeaveDir, Returns, input, Top, Below
<1>2. DOMAIN Frames = 1 .. k /\ \A i \in 1 .. k : Frames[i] \in Frame
  BY <1>0, <1>1, TopOfFrames, LenProperties, ElementOfSeq
<1>3. DOMAIN stack' = 1 .. k - 1 /\ \A i \in 1 .. k - 1 : stack'[i] = Frames[i]
  <2>1. k - 1 \in Nat /\ \A i \in 1 .. k - 1 : Frames[i] \in Frame
    BY <1>2
  <2>2. /\ SubSeq(Frames, 1, k - 1) \in Seq(Frame)
        /\ Len(SubSeq(Frames, 1, k - 1)) = k - 1
        /\ \A i \in 1 .. k - 1 : SubSeq(Frames, 1, k - 1)[i] = Frames[i]
    BY <2>1, PrefixProperties
  <2> QED BY <1>1, <2>2, LenProperties
<1>4. /\ \A i \in 1 .. k : ClearDir(Frames[i].dir)
      /\ Apart(Frames)
      /\ \A x \in Nodes : Held(Frames, x) <=> Held(stack, x) \/ InHand(x)
  BY <1>1, <1>2, FramesWay
<1>5. ~Fresh' /\ \A x : ~InHand(x)'
  BY <1>1, RepeatedIsOld
<1>6. \A i : i \in 1 .. k <=> i \in 1 .. k - 1 \/ i = k
  OBVIOUS
<1>7. \A x \in Nodes : Held(Frames, x) <=> Held(stack', x)
  BY <1>1, <1>2, <1>3, <1>6 DEF Held
<1>8. ExactInv'
  <2>1. ASSUME NEW v \in goal
        PROVE  Ahead(v[1], v[2])' <=> Ahead(v[1], v[2])
    <3>1. v[2] \in Nodes
      BY <2>1, GoalIs
    <3>2. Held(stack, v[2]) \/ InHand(v[2]) <=> Held(stack', v[2]) \/ InHand(v[2])'
      BY <1>4, <1>5, <1>7, <3>1
    <3>3. Ahead(v[1], v[2])' <=>
             v[1] > root' \/ (v[1] = root' /\ (Held(stack', v[2]) \/ InHand(v[2])'))
      BY DEF Ahead, Held
    <3> QED BY <1>1, <3>2, <3>3 DEF Ahead
  <2> QED BY <1>1, <2>1, SameAhead
<1>9. Apart(stack')
  BY <1>2, <1>3, <1>4, <1>6 DEF Apart
<1>10. (\A i \in DOMAIN stack : ClearDir(stack[i].dir))'
  BY <1>1, <1>3, <1>4, <1>6, ClearNext
<1>11. ~Early'
  BY <1>1 DEF Early
<1> QED BY <1>3, <1>5, <1>8, <1>9, <1>10, <1>11 DEF WayInv, Apart

\* main alone is where it was on the way.
LEMMA SameWay ==
    ASSUME WayInv, UNCHANGED <<line, opt, root, stack, cur>>, Early' => root = 0
    PROVE  WayInv'
<1>1. (\A k \in DOMAIN stack : ClearDir(stack[k].dir))'
  BY ClearNext DEF WayInv
<1>2. Fresh' <=> Fresh
  BY DEF Fresh
<1>3. FreshOK => FreshOK'
  BY SameWanted DEF FreshOK, ClearTo, Info
<1>4. Apart(stack)'
  BY DEF WayInv, Apart
<1> QED BY <1>1, <1>2, <1>3, <1>4 DEF WayInv

\* A directory is returned again, with nothing wanted below it.
LEMMA AgainExact ==
    ASSUME WalkInv, WayInv, ExactInv, AtDir, NEW info \in {"DP", "DNR"},
           Returns(cur.node, info, cur.level), UNCHANGED <<root, stack>>,
           root \in DOMAIN Args => \A n \in Wanted(Args[root]) : ~InHand(n)
    PROVE  WayInv' /\ ExactInv'
<1>1. /\ cur'.info = info /\ mpc' = "entry" /\ UNCHANGED <<line, goal, opt, queue, root, stack>>
  BY DEF Returns, input
<1>2. ~Fresh' /\ \A x : ~InHand(x)'
  BY <1>1, RepeatedIsOld
<1>3. ASSUME NEW v \in goal
      PROVE  Ahead(v[1], v[2])' <=> Ahead(v[1], v[2])
  <2>1. v[1] \in DOMAIN Args /\ v[2] \in Wanted(Args[v[1]])
    BY <1>3, GoalIs, LineTypes DEF WalkInv
  <2>2. v[1] = root => ~InHand(v[2])
    BY <2>1
  <2>3. Ahead(v[1], v[2])' <=>
           v[1] > root' \/ (v[1] = root' /\ (Held(stack', v[2]) \/ InHand(v[2])'))
    BY DEF Ahead, Held
  <2> QED BY <1>1, <1>2, <2>2, <2>3 DEF Ahead
<1>4. ExactInv'
  BY <1>1, <1>3, SameAhead
<1>5. (\A k \in DOMAIN stack : ClearDir(stack[k].dir))'
  BY <1>1, ClearNext DEF WayInv
<1>6. Apart(stack)' /\ ~Early'
  BY <1>1 DEF WayInv, Apart, Early
<1> QED BY <1>2, <1>4, <1>5, <1>6 DEF WayInv

\* What the walk has in hand of the wanted files.
LEMMA HandFacts ==
    ASSUME WalkInv, WayInv, NEW n \in Wanted(Args[root]), InHand(n)
    PROVE  /\ n \in Nodes /\ cur.node \in Nodes /\ Args[root] \in Nodes
           /\ Kind[n] = "file" /\ n \notin Empty \cup Gone
           /\ Fresh /\ FreshOK /\ Within(Args[root], cur.node) /\ Within(cur.node, n)
           /\ cur.level = Level(Args[root], cur.node) /\ cur.level \in Nat
           /\ Above(cur.node, n) => AtDir
<1>1. Fresh /\ Within(cur.node, n) /\ n \in Nodes /\ Kind[n] = "file" /\ n \notin Empty \cup Gone
  BY DEF InHand, AtDir, Fresh, Within, Wanted
<1>2. FreshOK /\ CurOK
  BY <1>1 DEF WayInv, Fresh, WalkInv
<1>3. cur.node \in Nodes /\ Args[root] \in Nodes /\ cur.level \in Nat
  BY <1>2, LineTypes DEF CurOK, Entry, WalkInv
<1>4. Within(Args[root], cur.node) /\ cur.level = Level(Args[root], cur.node)
  BY <1>2 DEF FreshOK, ClearTo, CurOK
<1>5. ASSUME Above(cur.node, n) PROVE AtDir
  <2>1. Kind[cur.node] = "dir" /\ cur.node \notin Gone
    BY <1>1, <1>3, <1>5, ForestAssumption
  <2> QED BY <1>1, <1>2, <2>1 DEF AtDir, Fresh, FreshOK, Info
<1> QED BY <1>1, <1>2, <1>3, <1>4, <1>5

LEMMA PassDirExact ==
    ASSUME OptInv, DepthInv, AskInv, WalkInv, WayInv, ExactInv, FtsPassDir
    PROVE  WayInv' /\ ExactInv'
<1>1. mpc = "read" /\ AtDir /\ ~Descends /\ UNCHANGED <<root, stack>>
      /\ Returns(cur.node, "DP", cur.level)
  BY DEF FtsPassDir
<1>2. ASSUME NEW n \in Wanted(Args[root]), InHand(n) PROVE FALSE
  <2>1. Within(Args[root], cur.node) /\ Above(cur.node, n) /\ ~skip /\ cur.node \in Nodes
    BY <1>1, <1>2, HandFacts DEF InHand
  <2>2. opt.xdev /\ Dev[cur.node] # Dev[Args[root]]
    BY <1>1, <2>1 DEF Descends
  <2>3. Given("x")
    BY <1>1, <2>2, Asked DEF Early
  <2> QED BY <2>1, <2>2, <2>3 DEF Wanted, Through
<1> QED BY <1>1, <1>2, AgainExact

LEMMA UnreadableExact ==
    ASSUME WalkInv, WayInv, ExactInv, FtsUnreadable
    PROVE  WayInv' /\ ExactInv'
<1>1. mpc = "read" /\ Descends /\ ~Opened /\ UNCHANGED <<root, stack>>
      /\ Returns(cur.node, "DNR", cur.level)
  BY DEF FtsUnreadable
<1>2. AtDir /\ cur.node \in Unreadable
  BY <1>1 DEF Opened, Descends
<1>3. ASSUME NEW n \in Wanted(Args[root]), InHand(n) PROVE FALSE
  <2>1. Within(Args[root], cur.node) /\ Above(cur.node, n)
    BY <1>1, <1>3, HandFacts DEF InHand
  <2> QED BY <1>2, <2>1 DEF Wanted, Through
<1> QED BY <1>1, <1>2, <1>3, AgainExact

\* main passes over an entry, or has fts skip it, with nothing wanted lost.
LEMMA PassExact ==
    ASSUME WalkInv, WayInv, ExactInv, AtEntry, NEW b \in BOOLEAN, Continue(b), UNCHANGED queue,
           \A n \in Wanted(Args[root]) : InHand(n) => AtDir /\ ~b /\ Above(cur.node, n)
    PROVE  WayInv' /\ ExactInv'
<1>1. /\ mpc = "entry" /\ mpc' = "read" /\ skip' = b
      /\ UNCHANGED <<line, goal, opt, queue, root, stack, cur>>
  BY DEF Continue, input, AtEntry
<1>2. AtDir' <=> AtDir
  BY <1>1 DEF AtDir
<1>3. \A n : InHand(n)' <=> AtDir /\ ~b /\ Above(cur.node, n)
  BY <1>1, <1>2 DEF InHand
<1>4. \A n : AtDir /\ Above(cur.node, n) => InHand(n)
  BY <1>1 DEF InHand, AtDir, Fresh, Within
<1>5. ASSUME NEW v \in goal
      PROVE  Ahead(v[1], v[2])' <=> Ahead(v[1], v[2])
  <2>1. v[1] = root => v[2] \in Wanted(Args[root])
    BY <1>5, GoalIs
  <2>2. v[1] = root => (InHand(v[2])' <=> InHand(v[2]))
    BY <1>3, <1>4, <2>1
  <2>3. Ahead(v[1], v[2])' <=>
           v[1] > root' \/ (v[1] = root' /\ (Held(stack', v[2]) \/ InHand(v[2])'))
    BY DEF Ahead, Held
  <2> QED BY <1>1, <2>2, <2>3 DEF Ahead
<1>6. ExactInv'
  BY <1>1, <1>5, SameAhead
<1>7. ~Early'
  BY <1>1 DEF Early
<1> QED BY <1>1, <1>6, <1>7, SameWay

\* The capability that counts for the entry is its device's.
LEMMA SupportsIs ==
    ASSUME LinksOnDevice, CapabilityFresh, WalkInv, AtEntry, Cloning
    PROVE  Supports <=> Dev[cur.node] \in CloneDevs
<1>1. cur.node \in Nodes
  BY DEF AtEntry, WalkInv, CurOK, Entry
<1>2. CASE DeviceChanged
  BY <1>1, <1>2 DEF Supports, IsCloneSupported, LinksOnDevice
<1>3. CASE ~DeviceChanged
  <2>1. currentDev = Dev[cur.node] /\ currentDev # NONE
    BY <1>1, <1>3, TraverseAssumption DEF DeviceChanged
  <2> QED BY <1>3, <2>1 DEF Supports, CapabilityFresh
<1> QED BY <1>2, <1>3

\* What is refused for its depth is deeper than asked, with all below it.
LEMMA TooDeepUnwanted ==
    ASSUME OptInv, DepthInv, AskInv, WalkInv, WayInv, AtEntry, TooDeep,
           NEW n \in Wanted(Args[root]), InHand(n)
    PROVE  FALSE
<1> DEFINE a == Len(Path[Args[root]])
           b == Len(Path[cur.node])
           c == Len(Path[n])
<1>1. /\ a \in Nat \ {0} /\ b \in Nat \ {0} /\ c \in Nat \ {0} /\ b <= c
      /\ cur.level = b - a /\ n \in Nodes
  <2>1. /\ cur.node \in Nodes /\ n \in Nodes /\ Args[root] \in Nodes
        /\ Within(cur.node, n) /\ cur.level = Level(Args[root], cur.node)
    BY HandFacts
  <2>2. Len(Path[cur.node]) <= Len(Path[n])
    BY <2>1, AboveOrder, AboveMeans DEF Within
  <2> QED BY <2>1, <2>2, AboveMeans DEF Level
<1>2. Level(Args[root], n) = c - a /\ c <= NoLimit
  BY <1>1, ForestAssumption DEF Level
<1>3. opt.depth \in Nat /\ NoLimit \in Nat
  <2>1. ShortHalf \in Nat \ {0}
    BY TraverseAssumption
  <2> QED BY <2>1 DEF OptInv, NoLimit
<1>4. cur.level > opt.depth + 1
  BY DEF TooDeep
<1>5. ~Early
  BY DEF AtEntry, Early
<1>l. PICK l \in Int : l = Level(Args[root], n)
  <2>1. c - a \in Int
    BY <1>1
  <2> QED BY <1>2, <2>1
<1> HIDE DEF a, b, c
<1>6. opt.depth # NoLimit
  BY <1>1, <1>2, <1>3, <1>4
<1>7. PICK d \in AskedDepth : opt.depth = ToShort(d)
  BY <1>5, <1>6, Asked
<1>8. l <= opt.depth + 1
  BY <1>7, <1>l DEF Wanted
<1> QED BY <1>1, <1>2, <1>3, <1>4, <1>8, <1>l

\* What is skipped with a device that cannot clone is not to be cloned.
LEMMA SkippedUnwanted ==
    ASSUME OptInv, DepthInv, AskInv, WalkInv, WayInv, LinksOnDevice, CapabilityFresh,
           AtEntry, Cloning, ~Supports, NEW n \in Wanted(Args[root]), InHand(n),
           opt.xdev \/ n = cur.node
    PROVE  FALSE
<1>1. /\ n \in Nodes /\ cur.node \in Nodes /\ Kind[n] = "file"
      /\ Within(Args[root], cur.node) /\ Within(cur.node, n)
  BY HandFacts
<1>2. ~AsksLinks /\ (opt.xdev <=> Given("x")) /\ Dev[cur.node] \notin CloneDevs
  BY Asked, SupportsIs DEF AtEntry, Early
<1>3. Dev[n] \in CloneDevs
  BY <1>2 DEF Wanted
<1>4. opt.xdev /\ Above(cur.node, n)
  BY <1>1, <1>2, <1>3 DEF Within
<1>5. PICK d \in Nodes : n \in Children(d) /\ Within(cur.node, d)
  BY <1>1, <1>4, ForestAssumption
<1>6. Dev[n] = Dev[d]
  BY <1>1, <1>5, ForestAssumption
<1>7. Within(Args[root], d) /\ Above(d, n) /\ Args[root] \in Nodes
  BY <1>1, <1>5, AboveChild, AboveOrder, HandFacts
<1>8. Dev[d] = Dev[Args[root]] /\ Dev[cur.node] = Dev[Args[root]]
  BY <1>1, <1>2, <1>4, <1>5, <1>7 DEF Wanted, Through
<1> QED BY <1>2, <1>3, <1>6, <1>8

\* An error is reported where nothing wanted is.
LEMMA ErrorUnwanted ==
    ASSUME WalkInv, WayInv, Failed, NEW n \in Wanted(Args[root]), InHand(n)
    PROVE  FALSE
<1>1. /\ n \in Nodes /\ cur.node \in Nodes /\ n \notin Gone /\ Within(cur.node, n)
      /\ Fresh /\ cur.info = Info(cur.node)
  BY HandFacts DEF FreshOK
<1>2. Info(cur.node) = "NS"
  BY <1>1 DEF Failed, Fresh
<1>3. cur.node \in Gone
  BY <1>1, <1>2, TraverseAssumption DEF Info
<1>4. Above(cur.node, n)
  BY <1>1, <1>3 DEF Within
<1> QED BY <1>1, <1>3, <1>4, ForestAssumption

\* What is not regular is no wanted file.
LEMMA OtherUnwanted ==
    ASSUME WalkInv, WayInv, ~Regular, NEW n \in Wanted(Args[root]), InHand(n), n = cur.node
    PROVE  FALSE
<1>1. /\ n \in Nodes /\ Kind[n] = "file" /\ n \notin Empty \cup Gone
      /\ cur.info = Info(cur.node)
  BY HandFacts DEF FreshOK
<1>2. cur.info = "F"
  BY <1>1 DEF Info
<1>3. Args[root] \notin StagedArgs
  BY DEF Wanted
<1> QED BY <1>1, <1>2, <1>3 DEF Regular, LooksStaged

\* What is evaluated is wanted.
LEMMA EnqueuedWanted ==
    ASSUME OptInv, DepthInv, AskInv, WalkInv, WayInv, LinksOnDevice, CapabilityFresh, Enqueue
    PROVE  /\ root \in DOMAIN Args /\ cur.node \in Wanted(Args[root])
           /\ Fresh /\ cur.node \in Nodes /\ Kind[cur.node] = "file"
<1>1. /\ AtEntry /\ ~TooDeep /\ (Cloning => Supports) /\ Regular /\ ~Early
  BY DEF Enqueue, InReach, AtEntry, Early
<1>2. Fresh /\ cur.info = "F" /\ cur.node \notin Empty /\ Args[root] \notin StagedArgs
  <2>1. cur.info = "F" /\ cur.node \notin Empty /\ Args[root] \notin StagedArgs
    BY <1>1 DEF Regular, LooksStaged
  <2>2. cur \in Entry
    BY <1>1 DEF AtEntry, WalkInv, CurOK
  <2> QED BY <2>1, <2>2, TraverseAssumption DEF Fresh
<1>3. FreshOK /\ CurOK
  BY <1>1, <1>2 DEF WayInv, WalkInv, AtEntry
<1>4. /\ root \in DOMAIN Args /\ cur.node \in Nodes /\ cur.level \in Nat
      /\ cur.level = Level(Args[root], cur.node)
  BY <1>3 DEF CurOK, Entry
<1>5. Kind[cur.node] = "file" /\ cur.node \notin Gone
  BY <1>2, <1>3, <1>4, TraverseAssumption DEF FreshOK, Info
<1>6. Within(Args[root], cur.node)
  BY <1>3 DEF FreshOK, ClearTo
<1>7. opt.depth \in Nat
  <2>1. ShortHalf \in Nat \ {0}
    BY TraverseAssumption
  <2> QED BY <2>1 DEF OptInv, NoLimit
<1>8. cur.level <= opt.depth + 1
  BY <1>1, <1>4, <1>7 DEF TooDeep
<1>9. \A d \in AskedDepth : Level(Args[root], cur.node) <= ToShort(d) + 1
  BY <1>1, <1>4, <1>8, Asked
<1>10. \A m \in Unreadable : ~Through(m, Args[root], cur.node)
  BY <1>3, TraverseAssumption DEF FreshOK, ClearTo
<1>11. Given("x") => \A m \in Nodes : Through(m, Args[root], cur.node) => Dev[m] = Dev[Args[root]]
  BY <1>1, <1>3, Asked DEF FreshOK, ClearTo
<1>12. Dev[cur.node] \in CloneDevs \/ AsksLinks
  BY <1>1, Asked, SupportsIs
<1> QED BY <1>2, <1>4, <1>5, <1>6, <1>9, <1>10, <1>11, <1>12 DEF Wanted

LEMMA VisitExact ==
    ASSUME OptInv, DepthInv, AskInv, WalkInv, WayInv, ExactInv, LinksOnDevice,
           CapabilityFresh, Visit, ~Enqueue
    PROVE  WayInv' /\ ExactInv'
<1>1. CASE ReportError
  <2>1. AtEntry /\ Failed /\ Continue(FALSE) /\ UNCHANGED queue
    BY <1>1 DEF ReportError
  <2>2. \A n \in Wanted(Args[root]) : ~InHand(n)
    BY <2>1, ErrorUnwanted
  <2> QED BY <2>1, <2>2, PassExact
<1>2. CASE SkipTooDeep
  <2>1. AtEntry /\ TooDeep /\ Continue(TRUE) /\ UNCHANGED queue
    BY <1>2 DEF SkipTooDeep
  <2>2. \A n \in Wanted(Args[root]) : ~InHand(n)
    BY <2>1, TooDeepUnwanted
  <2> QED BY <2>1, <2>2, PassExact
<1>3. CASE SkipDevice
  <2>1. AtEntry /\ Cloning /\ ~Supports /\ opt.xdev /\ Continue(TRUE) /\ UNCHANGED queue
    BY <1>3 DEF SkipDevice, InReach, DeviceChanged
  <2>2. \A n \in Wanted(Args[root]) : ~InHand(n)
    BY <2>1, SkippedUnwanted
  <2> QED BY <2>1, <2>2, PassExact
<1>4. CASE PassUnsupported
  <2>1. AtEntry /\ Cloning /\ ~Supports /\ Continue(FALSE) /\ UNCHANGED queue
    BY <1>4 DEF PassUnsupported, InReach
  <2>2. \A n \in Wanted(Args[root]) : InHand(n) => n # cur.node
    BY <2>1, SkippedUnwanted
  <2>3. \A n \in Wanted(Args[root]) : InHand(n) => Above(cur.node, n) /\ AtDir
    BY <2>2, HandFacts DEF Within
  <2> QED BY <2>1, <2>3, PassExact
<1>5. CASE PassOther
  <2>1. AtEntry /\ ~Regular /\ Continue(FALSE) /\ UNCHANGED queue
    BY <1>5 DEF PassOther, InReach
  <2>2. \A n \in Wanted(Args[root]) : InHand(n) => n # cur.node
    BY <2>1, OtherUnwanted
  <2>3. \A n \in Wanted(Args[root]) : InHand(n) => Above(cur.node, n) /\ AtDir
    BY <2>2, HandFacts DEF Within
  <2> QED BY <2>1, <2>3, PassExact
<1> QED BY <1>1, <1>2, <1>3, <1>4, <1>5 DEF Visit

\* A file that is evaluated is one that was still to come.
LEMMA EnqueueReturns ==
    ASSUME OptInv, DepthInv, AskInv, WalkInv, WayInv, ExactInv, LinksOnDevice,
           CapabilityFresh, Enqueue
    PROVE  /\ <<root, cur.node>> \in goal \ Found
           /\ queue' = Append(queue, <<root, cur.node>>)
           /\ Found' = Found \cup {<<root, cur.node>>}
<1> DEFINE e == <<root, cur.node>>
<1>1. /\ root \in DOMAIN Args /\ cur.node \in Wanted(Args[root])
      /\ Fresh /\ cur.node \in Nodes
  BY EnqueuedWanted
<1>2. e \in AllWanted
  BY <1>1 DEF AllWanted, Wanted
<1>3. e \in goal
  BY <1>2 DEF ExactInv
<1>4. mpc = "entry"
  BY DEF Enqueue, InReach, AtEntry
<1>5. Ahead(root, cur.node)
  BY <1>1, <1>4 DEF Ahead, InHand, Within
<1>6. e \notin Found
  BY <1>3, <1>5 DEF ExactInv
<1>7. queue' = Append(queue, e) /\ queue \in Seq((DOMAIN Args) \X Nodes) /\ e \in (DOMAIN Args) \X Nodes
  BY <1>1 DEF Enqueue, WalkInv
<1>8. /\ DOMAIN queue = 1 .. Len(queue) /\ Len(queue) \in Nat
      /\ DOMAIN queue' = 1 .. Len(queue) + 1
      /\ queue'[Len(queue) + 1] = e
      /\ \A i \in 1 .. Len(queue) : queue'[i] = queue[i]
  <2> HIDE DEF e
  <2>1. /\ queue' \in Seq((DOMAIN Args) \X Nodes) /\ Len(queue') = Len(queue) + 1
        /\ queue'[Len(queue) + 1] = e
        /\ \A i \in 1 .. Len(queue) : queue'[i] = queue[i]
    BY <1>7, AppendProperties
  <2> QED BY <1>7, <2>1, LenProperties
<1>9. Found' = Found \cup {e}
  <2>1. Found' = {queue'[i] : i \in DOMAIN queue'}
    BY DEF Found
  <2>2. \A i : i \in DOMAIN queue' <=> i \in DOMAIN queue \/ i = Len(queue) + 1
    BY <1>8
  <2> HIDE DEF e
  <2> QED BY <1>8, <2>1, <2>2 DEF Found
<1> QED BY <1>3, <1>6, <1>7, <1>9

LEMMA EnqueueExact ==
    ASSUME OptInv, DepthInv, AskInv, WalkInv, WayInv, ExactInv, LinksOnDevice,
           CapabilityFresh, Enqueue
    PROVE  WayInv' /\ ExactInv'
<1>1. /\ mpc = "entry" /\ mpc' = "read" /\ skip' = FALSE
      /\ UNCHANGED <<line, goal, opt, root, stack, cur>>
  BY DEF Enqueue, InReach, AtEntry, Continue, input
<1>2. /\ cur.node \in Wanted(Args[root]) /\ Fresh /\ cur.node \in Nodes
      /\ Kind[cur.node] = "file" /\ cur.info = "F"
  BY EnqueuedWanted DEF Enqueue, Regular
<1>3. \A n : ~InHand(n)'
  BY <1>1, <1>2 DEF InHand, AtDir
<1>4. \A n \in Nodes : InHand(n) <=> n = cur.node
  <2>1. \A n \in Nodes : ~Above(cur.node, n)
    BY <1>2, ForestAssumption
  <2> QED BY <1>1, <1>2, <2>1 DEF InHand, Within
<1>5. ~Held(stack, cur.node)
  BY <1>2 DEF WayInv, FreshOK, Held
<1>6. ASSUME NEW v \in goal
      PROVE  v \in Found' <=> ~Ahead(v[1], v[2])'
  <2>1. v[1] \in Nat /\ v[2] \in Nodes /\ v = <<v[1], v[2]>>
    BY <1>6, GoalIs
  <2>2. v \in Found' <=> v \in Found \/ (v[1] = root /\ v[2] = cur.node)
    BY <2>1, EnqueueReturns
  <2>3. Ahead(v[1], v[2])' <=> v[1] > root \/ (v[1] = root /\ Held(stack, v[2]))
    <3>1. Ahead(v[1], v[2])' <=>
             v[1] > root' \/ (v[1] = root' /\ (Held(stack', v[2]) \/ InHand(v[2])'))
      BY DEF Ahead, Held
    <3> QED BY <1>1, <1>3, <3>1
  <2>4. Ahead(v[1], v[2]) <=>
           v[1] > root \/ (v[1] = root /\ (Held(stack, v[2]) \/ v[2] = cur.node))
    BY <1>4, <2>1 DEF Ahead
  <2>5. v \in Found <=> ~Ahead(v[1], v[2])
    BY <1>6 DEF ExactInv
  <2>6. ~(root > root)
    BY DEF WalkInv
  <2> QED BY <1>5, <2>2, <2>3, <2>4, <2>5, <2>6
<1>7. goal' = AllWanted' /\ Found' \subseteq goal'
  BY <1>1, SameWanted, EnqueueReturns DEF ExactInv
<1>8. ExactInv'
  BY <1>1, <1>6, <1>7 DEF ExactInv
<1>9. ~Early'
  BY <1>1 DEF Early
<1> QED BY <1>1, <1>8, <1>9, SameWay

\* Nothing is open and nothing in hand before the first argument.
LEMMA BeforeFirst ==
    ASSUME WalkInv, root = 0
    PROVE  stack = <<>> /\ cur = NONE
<1>1. 0 \notin DOMAIN Args
  BY LineTypes DEF WalkInv
<1> QED BY <1>1 DEF WalkInv, FramesOK, CurOK

LEMMA NothingFound ==
    ASSUME WalkInv, goal = AllWanted, root = 0, queue = <<>>
    PROVE  WayInv /\ ExactInv
<1>1. DOMAIN stack = {} /\ ~Fresh /\ DOMAIN queue = {}
  BY BeforeFirst DEF Fresh
<1>2. \A v \in goal : v[1] > root
  <2>1. \A v \in goal : v[1] \in DOMAIN Args
    BY DEF AllWanted
  <2> QED BY <2>1, LineTypes DEF WalkInv
<1> QED BY <1>1, <1>2 DEF WayInv, ExactInv, Apart, Ahead, Found

LEMMA ParseExact ==
    ASSUME WalkInv, WalkInv', DepthInv, WayInv, ExactInv, Parse
    PROVE  WayInv' /\ ExactInv'
<1>1. /\ UNCHANGED <<line, goal, root, queue>> /\ mpc = "options"
  BY DEF Parse, ParseDepth, ParseThreads, ParseXdev, ParseLink, ParseSymlink, ParseOther,
     ParseUsage, CheckArgs, CheckArgsFails, More, Set, Exit, input, walk
<1>2. root' = 0 /\ queue' = <<>> /\ goal' = AllWanted'
  BY <1>1, SameWanted DEF WayInv, Early, DepthInv, ExactInv
<1>3. stack' = <<>> /\ cur' = NONE
  <2>1. 0 \notin DOMAIN Args'
    BY <1>1, SameWanted, LineTypes DEF WalkInv
  <2> QED BY <1>2, <2>1 DEF WalkInv, FramesOK, CurOK
<1>4. DOMAIN stack' = {} /\ ~Fresh' /\ DOMAIN queue' = {}
  BY <1>2, <1>3 DEF Fresh
<1>5. \A v \in goal : v[1] > 0
  BY GoalIs
<1>6. \A v \in goal : Ahead(v[1], v[2])'
  BY <1>2, <1>5 DEF Ahead
<1>7. Found' = {}
  BY <1>4 DEF Found
<1> QED BY <1>1, <1>2, <1>4, <1>6, <1>7 DEF WayInv, ExactInv, Apart

\* The walk is over when every wanted file was found.
LEMMA EndComplete ==
    ASSUME WalkInv, WayInv, ExactInv, FtsEnd
    PROVE  /\ goal \ Found = {}
           /\ WayInv' /\ ExactInv'
<1>1. /\ Advances /\ Frames = <<>> /\ root = Len(Args) /\ mpc' = "done"
      /\ UNCHANGED <<line, goal, opt, root, stack, cur, queue>>
  BY DEF FtsEnd, input, walk
<1>2. \A x \in Nodes : ~Held(stack, x) /\ ~InHand(x)
  <2>1. \A x : ~Held(Frames, x)
    BY <1>1 DEF Held
  <2> QED BY <1>1, <2>1, FramesWay
<1>3. \A x : ~InHand(x)'
  BY <1>1 DEF InHand
<1>4. ASSUME NEW v \in goal
      PROVE  ~Ahead(v[1], v[2]) /\ ~Ahead(v[1], v[2])'
  <2>1. v[1] \in 1 .. Len(Args) /\ v[2] \in Nodes /\ Len(Args) \in Nat
    BY <1>4, GoalIs, LineTypes DEF WalkInv
  <2>2. ~(v[1] > root)
    BY <1>1, <2>1
  <2>3. Ahead(v[1], v[2])' <=>
           v[1] > root' \/ (v[1] = root' /\ (Held(stack', v[2]) \/ InHand(v[2])'))
    BY DEF Ahead, Held
  <2> QED BY <1>1, <1>2, <1>3, <2>1, <2>2, <2>3 DEF Ahead
<1>5. goal \ Found = {}
  BY <1>4 DEF ExactInv
<1>6. ExactInv'
  BY <1>1, <1>4, SameAhead
<1>7. ~Early'
  BY <1>1 DEF Early
<1> QED BY <1>1, <1>5, <1>6, <1>7, SameWay

Walked ==
    OptInv /\ WalkInv /\ DepthInv /\ AskInv /\ CapabilityFresh /\ WayInv /\ ExactInv

LEMMA WalkedInit == Init => Walked
<1> SUFFICES ASSUME Init PROVE Walked
  OBVIOUS
<1>1. OptInv /\ WalkInv /\ DepthInv /\ AskInv
  BY OptInit, WalkInit, DepthInit, AskInit
<1>2. goal = AllWanted /\ root = 0 /\ queue = <<>> /\ CapabilityFresh
  BY DEF Init, CapabilityFresh
<1> QED BY <1>1, <1>2, NothingFound DEF Walked

LEMMA WalkedStep ==
    ASSUME LinksOnDevice, Walked, [Next]_vars
    PROVE  Walked'
<1>1. OptInv /\ WalkInv /\ DepthInv /\ AskInv /\ CapabilityFresh /\ WayInv /\ ExactInv
  BY DEF Walked
<1>2. OptInv' /\ WalkInv' /\ DepthInv' /\ AskInv' /\ CapabilityFresh'
  BY <1>1, OptStep, WalkStep, DepthStep, AskStep, CapabilityStep
<1>3. CASE Parse
  BY <1>1, <1>2, <1>3, ParseExact DEF Walked
<1>4. CASE FtsRead
  <2>1. WayInv' /\ ExactInv'
    BY <1>1, <1>4, NextRootExact, ChildExact, LeaveDirExact, PassDirExact, UnreadableExact,
       EndComplete DEF FtsRead
  <2> QED BY <1>2, <2>1 DEF Walked
<1>5. CASE Visit
  <2>1. WayInv' /\ ExactInv'
    BY <1>1, <1>5, VisitExact, EnqueueExact
  <2> QED BY <1>2, <2>1 DEF Walked
<1>6. CASE UNCHANGED vars
  <2>1. UNCHANGED <<line, goal, opt, root, stack, cur, skip, mpc, queue>>
    BY <1>6 DEF vars, input, walk
  <2>2. \A n : InHand(n)' <=> InHand(n)
    BY <2>1 DEF InHand, Fresh, AtDir
  <2>3. \A v \in goal : Ahead(v[1], v[2])' <=> Ahead(v[1], v[2])
    BY <2>1, <2>2 DEF Ahead, Held
  <2>4. WayInv' /\ ExactInv'
    BY <1>1, <2>1, <2>3, SameAhead, SameWay DEF WayInv, Early
  <2> QED BY <1>2, <2>4 DEF Walked
<1> QED BY <1>3, <1>4, <1>5, <1>6 DEF Next, Terminated

LEMMA WalkedAlways ==
    ASSUME LinksOnDevice
    PROVE  Spec => []Walked
<1>1. Walked /\ [Next]_vars => Walked'
  BY WalkedStep
<1> QED BY <1>1, WalkedInit, PTL DEF Spec

\* A step of the walk returns a file that is still wanted, ends it after the
\* last, or changes nothing of that.
LEMMA StepIsSource ==
    ASSUME LinksOnDevice, Walked, [Next]_vars
    PROVE  [AsSource!Next]_<<goal \ Found, queue, mpc = "done">>
<1>1. OptInv /\ WalkInv /\ DepthInv /\ AskInv /\ CapabilityFresh /\ WayInv /\ ExactInv
  BY DEF Walked
<1>2. CASE Enqueue
  <2>1. /\ <<root, cur.node>> \in goal \ Found
        /\ queue' = Append(queue, <<root, cur.node>>)
        /\ Found' = Found \cup {<<root, cur.node>>}
    BY <1>1, <1>2, EnqueueReturns
  <2>2. goal' = goal /\ mpc = "entry" /\ mpc' = "read"
    BY <1>2 DEF Enqueue, InReach, AtEntry, Continue, input
  <2>3. (goal \ Found)' = (goal \ Found) \ {<<root, cur.node>>}
    BY <2>1, <2>2
  <2>4. AsSource!Return
    BY <2>1, <2>2, <2>3 DEF AsSource!Return
  <2> QED BY <2>4 DEF AsSource!Next
<1>3. CASE FtsEnd
  <2>1. goal \ Found = {} /\ UNCHANGED <<goal, queue>> /\ mpc' = "done"
    BY <1>1, <1>3, EndComplete DEF FtsEnd, input
  <2>2. Found' = Found
    BY <2>1 DEF Found
  <2>3. AsSource!End
    BY <2>1, <2>2 DEF AsSource!End
  <2> QED BY <2>3 DEF AsSource!Next
<1>4. ASSUME UNCHANGED <<goal, queue>>, mpc' = "done" <=> mpc = "done"
      PROVE  UNCHANGED <<goal \ Found, queue, mpc = "done">>
  BY <1>4 DEF Found
<1>5. CASE Parse
  BY <1>4, <1>5 DEF Parse, ParseDepth, ParseThreads, ParseXdev, ParseLink, ParseSymlink,
     ParseOther, ParseUsage, CheckArgs, CheckArgsFails, More, Set, Exit, input
<1>6. CASE FtsRead /\ ~FtsEnd
  BY <1>4, <1>6 DEF FtsRead, FtsNextRoot, FtsChild, FtsLeaveDir, FtsPassDir, FtsUnreadable,
     Advances, Returns, input
<1>7. CASE Visit /\ ~Enqueue
  BY <1>4, <1>7 DEF Visit, ReportError, SkipTooDeep, SkipDevice, PassUnsupported, PassOther,
     InReach, AtEntry, Continue, input
<1>8. CASE UNCHANGED vars
  BY <1>4, <1>8 DEF vars, input
<1> QED BY <1>2, <1>3, <1>5, <1>6, <1>7, <1>8 DEF Next, Terminated

\* The walk returns exactly the wanted files, each once for each argument that
\* leads to it, and ends after the last of them, whatever the forest, the
\* mount points, what cannot be read, and the command line (dedup.c 658-748).
THEOREM WalkImplementsSource ==
    ASSUME LinksOnDevice
    PROVE  Spec => ImplementsSource
<1>1. Init => AsSource!Init
  <2> SUFFICES ASSUME Init PROVE AsSource!Init
    OBVIOUS
  <2>1. goal = AllWanted /\ queue = <<>> /\ mpc = "options" /\ WalkInv
    BY WalkInit DEF Init
  <2>2. goal \subseteq Nat \X Nodes
    <3>1. goal \subseteq (DOMAIN Args) \X Nodes /\ DOMAIN Args \subseteq Nat
      BY <2>1, LineTypes DEF AllWanted, WalkInv
    <3> QED BY <3>1
  <2> QED BY <2>1, <2>2 DEF AsSource!Init
<1>2. Walked /\ [Next]_vars => [AsSource!Next]_<<goal \ Found, queue, mpc = "done">>
  BY StepIsSource
<1> QED BY <1>1, <1>2, WalkedAlways, PTL DEF Spec, ImplementsSource, AsSource!Spec
=============================================================================
