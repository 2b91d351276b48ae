------------------------------ MODULE Traverse ------------------------------
(***************************************************************************)
(* main of dedup.c up to the queue: the options, the arguments, and the    *)
(* loop over fts_read that decides which files are appended.  What becomes *)
(* of the queue is in Scan.                                                *)
(*                                                                         *)
(* The files are a forest that does not change meanwhile.  fts_read is the *)
(* library's: depth first, a directory before (D) and after (DP) what is   *)
(* in it, the arguments in their order and the entries of a directory in   *)
(* any order.                                                              *)
(***************************************************************************)
EXTENDS Paths, Integers, FiniteSets

CONSTANTS
    Nodes, NONE,
    Path,            \* of each node; no two have the same
    Kind,            \* "dir", "file", "symlink" or "other"
    Dev,             \* the device lstat gives for it
    Target,          \* of a link: the device it leads to, NONE if nowhere
    CloneDevs,       \* the devices that can clone
    Empty,           \* files of size 0
    Unreadable,      \* directories that cannot be opened
    Gone,            \* nodes that fts finds in a directory and cannot stat
    Cwd,             \* the working directory
    StagedArgs,      \* nodes that, as arguments, are typed as ".~." and more
    Lines,           \* the command lines: options, then arguments
    CpuCount,
    ShortHalf,       \* 2 ^ 15: a short is -ShortHalf .. ShortHalf - 1
    ByteValues       \* 2 ^ 8: the values of a uint8_t

\* The entries of fts, with the fts_info that main tells apart.
Infos == {"D", "DP", "DNR", "F", "SL", "DEFAULT", "NS"}
Entry == [node : Nodes, info : Infos, level : Nat]

ASSUME TraverseAssumption ==
    /\ NONE \notin Nodes \cup Entry /\ Cwd \in Nodes /\ Unreadable \subseteq Nodes
    /\ Path \in [Nodes -> PathNames]
    /\ \A n, m \in Nodes : Path[n] = Path[m] => n = m
    /\ Kind \in [Nodes -> {"dir", "file", "symlink", "other"}]
    /\ DOMAIN Dev = Nodes /\ DOMAIN Target = Nodes
    /\ \A n \in Nodes : Dev[n] # NONE
    /\ Lines \subseteq [opts : Seq(STRING \X Int), args : Seq(Nodes)]
    /\ CpuCount \in Nat /\ {ShortHalf, ByteValues} \subseteq Nat \ {0}

VARIABLES
    line,           \* the command line
    goal,           \* history: what that asks for, the files to be found
    parsed,         \* how many of its options getopt has returned
    opt,            \* what they set
    mpc,            \* where main is
    root,           \* which argument fts is below; 0 before the first
    stack,          \* fts: the open directories and what is left of each
    cur, skip,      \* the entry returned last, and FTS_SKIP set on it
    currentDev, supported,   \* current_dev and clonefile_supported
    queue           \* the files appended, each with its argument

input == <<line, goal>>
walk == <<root, stack, cur, skip>>
cache == <<currentDev, supported>>
vars == <<input, parsed, opt, mpc, walk, cache, queue>>

\* A value stored in a short, and in a uint8_t.
ToShort(v) == ((v + ShortHalf) % (2 * ShortHalf)) - ShortHalf
ToByte(v) == v % ByteValues

\* UINT16_MAX
NoLimit == 2 * ShortHalf - 1

-----------------------------------------------------------------------------
(* The forest *)

Children(n) == {m \in Nodes : DirName(Path[m]) = Path[n]}

Above(top, n) ==
    /\ Len(Path[top]) < Len(Path[n])
    /\ SubSeq(Path[n], 1, Len(Path[top])) = Path[top]

Within(top, n) == n = top \/ Above(top, n)

\* Only a directory has anything below it, and all of that in its entries; a
\* volume is mounted on a directory; no path is as long as -d counts.
ASSUME ForestAssumption ==
    /\ \A m, n \in Nodes : Above(m, n) =>
          /\ Kind[m] = "dir" /\ m \notin Gone
          /\ \E c \in Children(m) : Within(c, n)
          /\ \E d \in Nodes : n \in Children(d) /\ Within(m, d)
    /\ \A d, n \in Nodes : n \in Children(d) /\ Kind[n] # "dir" => Dev[n] = Dev[d]
    /\ \A n \in Nodes : Len(Path[n]) <= NoLimit

-----------------------------------------------------------------------------
(* What there is to be found *)

Args == IF line.args = <<>> THEN <<Cwd>> ELSE line.args

Level(top, n) == Len(Path[n]) - Len(Path[top])

\* Whether the argument's way to n is through m.
Through(m, top, n) == Within(top, m) /\ Above(m, n)

\* What the options ask for, the last of each kind.
LastOf(letters) ==
    LET Of(i) == line.opts[i][1] \in letters
    IN {i \in DOMAIN line.opts : Of(i) /\ \A j \in DOMAIN line.opts : Of(j) => j <= i}
Given(letter) == LastOf({letter}) # {}
AsksLinks == Given("l") \/ Given("s")
AskedDepth == {line.opts[i][2] : i \in LastOf({"d"})}

\* The files an argument leads to: regular, not empty, not too deep, on a way
\* of directories that can be opened and, with -x, on its device; for clones
\* on a device that can clone.
Wanted(top) == {n \in Nodes :
    /\ Kind[n] = "file" /\ n \notin Empty \cup Gone
    /\ Within(top, n)
    /\ top \notin StagedArgs
    /\ \A d \in AskedDepth : Level(top, n) <= ToShort(d) + 1
    /\ \A m \in Unreadable : ~Through(m, top, n)
    /\ Given("x") => \A m \in Nodes : Through(m, top, n) => Dev[m] = Dev[top]
    /\ Dev[n] \in CloneDevs \/ AsksLinks}

AllWanted == {v \in (DOMAIN Args) \X Nodes : v[2] \in Wanted(Args[v[1]])}

-----------------------------------------------------------------------------
Init ==
    /\ line \in Lines /\ goal = AllWanted
    /\ parsed = 0
    /\ opt = [depth |-> NoLimit, threads |-> ToByte(CpuCount),
              xdev |-> FALSE, mode |-> "clone"]
    /\ mpc = "options"
    /\ root = 0 /\ stack = <<>> /\ cur = NONE /\ skip = FALSE
    /\ currentDev = NONE /\ supported = FALSE
    /\ queue = <<>>

-----------------------------------------------------------------------------
(* The options *)

More == mpc = "options" /\ parsed < Len(line.opts)
Letter == line.opts[parsed + 1][1]
Value == line.opts[parsed + 1][2]

Set(o) ==
    /\ opt' = o /\ parsed' = parsed + 1
    /\ UNCHANGED <<input, mpc, walk, cache, queue>>

Exit ==
    /\ mpc' = "exited"
    /\ UNCHANGED <<input, parsed, opt, walk, cache, queue>>

\* The value goes through a short on its way to a uint16_t.
ParseDepth ==
    LET d == ToShort(Value) IN
    /\ More /\ Letter = "d"
    /\ IF d < 0 THEN Exit ELSE Set([opt EXCEPT !.depth = d])

\* Slip: the count is kept as atoi returns it.
ParseThreadsWide ==
    /\ More /\ Letter = "t"
    /\ IF Value < 0 THEN Exit ELSE Set([opt EXCEPT !.threads = Value])

ParseThreads ==
    /\ More /\ Letter = "t"
    /\ IF Value < 0 THEN Exit ELSE Set([opt EXCEPT !.threads = ToByte(Value)])

ParseXdev == More /\ Letter = "x" /\ Set([opt EXCEPT !.xdev = TRUE])
ParseLink == More /\ Letter = "l" /\ Set([opt EXCEPT !.mode = "link"])
ParseSymlink == More /\ Letter = "s" /\ Set([opt EXCEPT !.mode = "symlink"])

\* Options that the traversal does not look at.
ParseOther == More /\ Letter \in {"I", "P", "c", "h", "m", "n", "v"} /\ Set(opt)

\* -V, -? and what getopt does not know.
ParseUsage ==
    /\ More /\ Letter \notin {"d", "t", "x", "l", "s", "I", "P", "c", "h", "m", "n", "v"}
    /\ Exit

\* access follows links.
Accessible(n) == n \notin Gone /\ (Kind[n] = "symlink" => Target[n] # NONE)

CheckArgs ==
    /\ mpc = "options" /\ parsed = Len(line.opts)
    /\ \A i \in DOMAIN line.args : Accessible(line.args[i])
    /\ mpc' = "read"
    /\ UNCHANGED <<input, parsed, opt, walk, cache, queue>>

CheckArgsFails ==
    /\ mpc = "options" /\ parsed = Len(line.opts)
    /\ \E i \in DOMAIN line.args : ~Accessible(line.args[i])
    /\ Exit

-----------------------------------------------------------------------------
(* fts_read *)

Top(frames) == frames[Len(frames)]
Below(frames) == SubSeq(frames, 1, Len(frames) - 1)

AtDir == cur # NONE /\ cur.info = "D"
\* Slip: -x does not keep fts on the device of the argument.
DescendsAnywhere == AtDir /\ ~skip

Descends ==
    /\ AtDir /\ ~skip
    /\ opt.xdev => Dev[cur.node] = Dev[Args[root]]
Opened == Descends /\ cur.node \notin Unreadable

\* The open directories once the one returned last is opened, if it is.
Frames ==
    IF Opened THEN Append(stack, [dir |-> cur.node, left |-> Children(cur.node)])
    ELSE stack

\* fts goes on after the entry returned last, or with what is in it.
Advances == mpc = "read" /\ (AtDir => Opened)

Returns(node, info, level) ==
    /\ cur' = [node |-> node, info |-> info, level |-> level]
    /\ skip' = FALSE
    /\ mpc' = "entry"
    /\ UNCHANGED <<input, parsed, opt, cache, queue>>

\* NS: stat failed.
Info(n) ==
    IF n \in Gone THEN "NS"
    ELSE CASE Kind[n] = "dir" -> "D" [] Kind[n] = "file" -> "F"
           [] Kind[n] = "symlink" -> "SL" [] OTHER -> "DEFAULT"

FtsNextRoot ==
    /\ Advances /\ Frames = <<>> /\ root < Len(Args)
    /\ root' = root + 1
    /\ Returns(Args[root + 1], Info(Args[root + 1]), 0)
    /\ UNCHANGED stack

FtsChild ==
    /\ Advances /\ Frames # <<>>
    /\ \E n \in Top(Frames).left :
          /\ stack' = [Frames EXCEPT ![Len(Frames)].left = @ \ {n}]
          /\ Returns(n, Info(n), Len(Frames))
    /\ UNCHANGED root

FtsLeaveDir ==
    /\ Advances /\ Frames # <<>> /\ Top(Frames).left = {}
    /\ stack' = Below(Frames)
    /\ Returns(Top(Frames).dir, "DP", Len(Frames) - 1)
    /\ UNCHANGED root

\* Skipped, or on another device under FTS_XDEV: left without being opened.
FtsPassDir ==
    /\ mpc = "read" /\ AtDir /\ ~Descends
    /\ Returns(cur.node, "DP", cur.level)
    /\ UNCHANGED <<root, stack>>

\* DNR: the directory cannot be opened; it is returned once more.
FtsUnreadable ==
    /\ mpc = "read" /\ Descends /\ ~Opened
    /\ Returns(cur.node, "DNR", cur.level)
    /\ UNCHANGED <<root, stack>>

FtsEnd ==
    /\ Advances /\ Frames = <<>> /\ root = Len(Args)
    /\ mpc' = "done"
    /\ UNCHANGED <<input, parsed, opt, walk, cache, queue>>

FtsRead ==
    \/ FtsNextRoot \/ FtsChild \/ FtsLeaveDir \/ FtsPassDir \/ FtsUnreadable \/ FtsEnd

-----------------------------------------------------------------------------
(* The body of the loop, one action per way out *)

AtEntry == mpc = "entry"
Failed == cur.info \in {"NS", "DNR"}

\* Slip: the arguments are level 1.
TooDeepByOne == cur.level > opt.depth + 2

TooDeep == cur.level > opt.depth + 1
Cloning == opt.mode = "clone"

\* statfs follows a link.
IsCloneSupported(n) == (IF Kind[n] = "symlink" THEN Target[n] ELSE Dev[n]) \in CloneDevs

DeviceChanged == Cloning /\ currentDev # Dev[cur.node]
Supports == IF DeviceChanged THEN IsCloneSupported(cur.node) ELSE supported

\* Slip: the device is remembered only once it can clone.
RememberSupported ==
    /\ currentDev' = IF DeviceChanged /\ Supports THEN Dev[cur.node] ELSE currentDev
    /\ supported' = Supports

\* The device of the entry and its capability become the current ones.
Remember ==
    /\ currentDev' = IF DeviceChanged THEN Dev[cur.node] ELSE currentDev
    /\ supported' = Supports

Continue(set) ==
    /\ mpc' = "read"
    /\ skip' = set
    /\ UNCHANGED <<input, parsed, opt, root, stack, cur>>

ReportError ==
    /\ AtEntry /\ Failed
    /\ Continue(FALSE)
    /\ UNCHANGED <<cache, queue>>

SkipTooDeep ==
    /\ AtEntry /\ ~Failed /\ TooDeep
    /\ Continue(TRUE)
    /\ UNCHANGED <<cache, queue>>

InReach == AtEntry /\ ~Failed /\ ~TooDeep

SkipDevice ==
    /\ InReach /\ DeviceChanged /\ ~Supports /\ opt.xdev
    /\ Remember
    /\ Continue(TRUE)
    /\ UNCHANGED queue

PassUnsupported ==
    /\ InReach /\ Cloning /\ ~Supports /\ ~(DeviceChanged /\ opt.xdev)
    /\ Remember
    /\ Continue(FALSE)
    /\ UNCHANGED queue

\* The test looks at the start of the path, which is the argument's.
LooksStaged == Args[root] \in StagedArgs

Regular == cur.info = "F" /\ cur.node \notin Empty /\ ~LooksStaged

PassOther ==
    /\ InReach /\ (Cloning => Supports) /\ ~Regular
    /\ Remember
    /\ Continue(FALSE)
    /\ UNCHANGED queue

Enqueue ==
    /\ InReach /\ (Cloning => Supports) /\ Regular
    /\ Remember
    /\ queue' = Append(queue, <<root, cur.node>>)
    /\ Continue(FALSE)

Visit ==
    \/ ReportError \/ SkipTooDeep \/ SkipDevice \/ PassUnsupported
    \/ PassOther \/ Enqueue

Parse ==
    \/ ParseDepth \/ ParseThreads \/ ParseXdev \/ ParseLink \/ ParseSymlink
    \/ ParseOther \/ ParseUsage \/ CheckArgs \/ CheckArgsFails

Terminated == mpc \in {"done", "exited"} /\ UNCHANGED vars

Next == Parse \/ FtsRead \/ Visit \/ Terminated

Spec == Init /\ [][Next]_vars

-----------------------------------------------------------------------------
Found == {queue[i] : i \in DOMAIN queue}

\* The open directories are a way down from the argument, and the entry is
\* below the last of them.
StackTypeOK ==
    /\ stack # <<>> => stack[1].dir = Args[root]
    /\ \A i \in 2 .. Len(stack) : stack[i].dir \in Children(stack[i - 1].dir)
    /\ \A i \in DOMAIN stack : stack[i].left \subseteq Children(stack[i].dir)
    /\ cur # NONE => cur.level = Level(Args[root], cur.node)

TypeOK ==
    /\ line \in Lines /\ goal \subseteq (DOMAIN Args) \X Nodes
    /\ parsed \in 0 .. Len(line.opts)
    /\ opt \in [depth : 0 .. NoLimit, threads : 0 .. ByteValues - 1,
                xdev : BOOLEAN, mode : {"clone", "link", "symlink"}]
    /\ mpc \in {"options", "read", "entry", "done", "exited"}
    /\ root \in 0 .. Len(Args)
    /\ stack \in Seq([dir : Nodes, left : SUBSET Nodes])
    /\ cur \in Entry \cup {NONE}
    /\ skip \in BOOLEAN /\ supported \in BOOLEAN
    /\ currentDev \in {Dev[n] : n \in Nodes} \cup {NONE}
    /\ queue \in Seq((DOMAIN Args) \X Nodes)
    /\ StackTypeOK

\* The remembered capability is the one of the remembered device, in whatever
\* order fts crosses mount points, comes back from them and goes on to the
\* next argument (current_dev and clonefile_supported, dedup.c 677-697; where
\* links lead to the device they are on).
CapabilityFresh == currentDev # NONE => (supported <=> currentDev \in CloneDevs)

\* No file is evaluated that is deeper than the last -d asks, also when the
\* value does not fit the integers it goes through (dedup.c 560-568, 672).
NeverTooDeep ==
    \A d \in AskedDepth : d >= 0 =>
        \A f \in Found : Level(Args[f[1]], f[2]) <= d + 1

\* For the scan the walk is a source of exactly the wanted files, each once
\* for each argument that leads to it, and it ends after the last of them,
\* whatever is skipped, refused or passed over on the way (dedup.c 658-748).
AsSource == INSTANCE Source WITH
    Universe <- Nat \X Nodes,
    remaining <- goal \ Found, returned <- queue, ended <- mpc = "done"
ImplementsSource == AsSource!Spec

\* Any two files that are evaluated may be matched, and then the link made at
\* one leads to the other (replace_with_symlink, path_relative_to).
LinksLeadBack ==
    \A f, g \in Found : LeadsBack(Path[f[2]], Path[g[2]])

\* The staging files of two different files are different, whichever two are
\* evaluated, and beside them (tmp_name).
StagingApart ==
    \A f, g \in Found : StagedApart(Path[f[2]], Path[g[2]])

\* "evaluates all of the paths provided recursively" (README.md 21-22): each
\* wanted file is evaluated.
AllEvaluated == mpc = "done" => goal \subseteq Found

\* What "looks like a previously failed clone" is passed over (dedup.c 719).
NoStagingFile == \A f \in Found : BaseName(Path[f[2]])[2] = 0
=============================================================================
