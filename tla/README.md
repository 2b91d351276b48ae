# A verification of dedup

`dedup` finds files of equal content below its arguments and replaces them by
APFS clones (or hard or symbolic links). This directory holds TLA+ models of
the parts of it that are hard to test, model checked with TLC, and theorems
about them proved with TLAPS.

## The system

| Part | Source | State | Operations |
|---|---|---|---|
| traversal | `dedup.c` main | the FTS walk, `current_dev` | filter an entry, append it to the queue |
| file entry queue | `queue.c` | a tail queue | append, take the first |
| evaluation | `dedup.c` `dedup_work`, `visit_entry` | per thread: the entry, its metadata, a copy of its match; shared: `done`, `found` | take an entry, evaluate it, poll `done` |
| metadata | `utils.c` | none | first and last byte, clone id, private size |
| visited tree | `map.c` `visited_tree_insert` | device → size → first → last → stash or SHA-256 level | insert, returning the earlier file of that content |
| duplicate tree | `map.c` `duplicate_tree_find` | SHA-256 → list of files | find or create a list |
| array list | `alist.c` | elements, size, capacity | add, get, set, remove, grow |
| choice of the origin | `dedup.c` `deduplicate`, `map.c` clone id counts | counts of clone ids | most links, all cloned, first seen, most clones |
| replacement loop | `dedup.c` `deduplicate` | `saved`, `already_saved` | skip, dry run, replace, verify |
| replacement | `clone.c` | the file system; the staging file `.~.name` | clone, link, symlink |
| paths | `clone.c` `tmp_name`, `path_relative_to` | none | staging name, relative target |
| memory | `dedup.c`, `map.c`, `utils.c`, `queue.c` | who owns each metadata structure and its path | duplicate, hand on, free |
| progress bar | `progress.c` | total and completed counts | display, clear |
| options | `dedup.c` main | thread count, depth, modes | parse |

The program has two phases. In the first, main walks the arguments and appends
an entry for each regular file to the queue; the worker threads take entries,
build their metadata and insert them in the visited tree, which returns the
first file of the same content; that file and the new one go to a list of the
duplicate tree. The threads share five structures, each under a mutex of its
own (queue, visited tree, duplicate tree, counters, `done`). When the walk is
over main sets `done` and joins the threads. In the second phase main alone
goes through the lists: it chooses an origin for each and replaces the other
files. No file is locked, so another instance of the program, or a crash,
meets whatever state the files are in between two system calls.

### What is hard, and what makes each part correct

* **Evaluation.** The mutexes do not nest, so what holds under one may have
  changed under the next: a match used after the tree is unlocked, `done` read
  after the queue was seen empty, a count raised after the list was filled.
  Correct: no file is lost without a word or worked on twice, the copy of a
  match stays right, lists have their origin and no file twice, counts agree.
* **Visited tree.** A file is stashed unhashed and hashed only when the second
  one comes; either hash may fail. Correct: it behaves as a map from content to
  the first readable file.
* **Replacement.** Each replacement is five system calls, each of which may fail
  and between any two of which the process may die or another instance may act.
  Correct: the path can be read at every moment with its content and its own
  metadata; no staging file remains after a failure; the directory's mtime and
  the two sums are right; protected files are left alone.
* **Choice of the origin.** Correct: a later run chooses a clone of the same
  file and so replaces nothing.
* **Traversal.** The capability to clone is remembered across devices that the
  walk enters, leaves, skips and comes back to; options are stored in integers
  narrower than what is typed. Correct: exactly the files asked for are found,
  once per argument, to the depth asked for.
* **Paths.** Counting `../`: at the root, in one directory, where one path is
  above the other. Correct: the link leads to the file; two files never share a
  staging name.
* **Memory.** The metadata of a stash hands its path on when it is split; visits
  hold copies of matches across an unlock; the visited tree is freed before the
  lists are read. Correct: nothing is freed twice, read after it was freed, or lost.
* **Array list.** Correct: it is a list, also while it grows or closes a gap.

## The modules

How they hang together (`→` for "is checked to implement", `-` for "is used by"):

    Paths - Traverse → Source      = the steps FtsRead, SetDone of Scan
    VisitedTree - Visited → FirstSeen
                  Visited - Ownership
    VisitedTree - Scan
                  Dedup            assumes LeadsBack and StagedApart of Paths
    AList → ItemList               = the lists of Scan and Ownership

The parts are joined by what one guarantees and the next assumes rather than in
one large state machine, which TLC could not exhaust:

* `Traverse` implements `Source`: each file asked for comes once per argument, in
  any order, nothing else comes, and the end comes after the last. This is all
  `Scan` takes of the walk: its `FtsRead` takes any member of `remaining`, its
  `SetDone` needs `remaining` empty. It holds for links that lead to volumes which
  can clone just as the link's own (`LinksStay`, `LinksOnDevice`); for these it is
  proved too.
* `Dedup` resolves a link made by `replace_with_symlink` to the file itself
  (`Relative`, `Make`), which is `LeadsBack`, and gives each path its own staging
  path (`Staging`), which is `StagedApart`. `Traverse` checks both for all files
  the walk finds.
* `Ownership` runs the insertions of `Visited` from overlapping visits; that it
  implements `Visited` is proved.
* The lists of `Scan` and of `Ownership` are grown by appending; that `alist_add`
  does just that while the array grows is `ImplementsItemList`, proved for
  `AList`, with the item the caller gave.
* `Dedup.Meet` takes any order of the set, as the lists of `Scan` may have.

### The visited tree: `VisitedTree`, `Visited`, `FirstSeen`

`VisitedTree` is the data structure, used by both `Visited` and `Scan`. The
four outer levels are found or created on demand and nothing ever removes a
node, so they are one function from the four keys (`Bucket`) to the `CharNode`
of the last level: `fm` is the stash, `children` the SHA-256 level, `hashed`
says that the stashed file's hash has been computed. `VisitedTreeInsert(e, old,
bad)` has a disjunct for each way out of `visited_tree_insert`: `old` is what it
returns, `bad` the file it reports. SHA-256 is taken as collision free and never
all zero (the value the code uses for "not computed"). `Faulty` files may fail
to be hashed, or not, at each attempt.

`Visited` inserts each entry once, in any order. `FirstSeen` is what the comment
in `map.h` promises, without buckets, stashes or lazy hashing: a map from device
and content to the first file. `ImplementsFirstSeen` is the refinement, with the
map read off the tree. One step of it shows a behaviour a reader may not expect:
an unreadable stashed file is replaced by whatever comes next (`Forget`).

### The memory: `Ownership`

`Ownership` extends `Visited` with the structures that the tree, the visits and
the lists point to. `heap.paths` has each allocated structure with the string it
points to, `heap.strings` the allocated strings; a structure is named for what it
was allocated for, so that a stash's string keeps its name when the structure of
a node takes it over.

| Action | Code |
|---|---|
| `Visit` | `metadata_from_entry`, the section under `visited_mutex` and the copy of the match (dedup.c 103-121); `InsertHeap` has one disjunct for each way out of `visited_tree_insert` |
| `VisitFails` | `metadata_from_entry` returns NULL (dedup.c 107-116): nothing is inserted, `dedup_work` frees the entry |
| `List` | the section under `duplicates_mutex`: the copy at the head of an empty list, and the new file |
| `Leave` | the frees at the end of `visit_entry`, and `file_entry_free` |
| `FreeVisitedTree` | after the join: the head of the queue and the visited tree are freed (dedup.c 769-770), whatever is still queued |
| `FreeDuplicateTree` | the free after `deduplicate` |

Up to `Threads` visits are between `Visit` and `Leave` at once. `PointersLive` says
that what can be reached is allocated and no string has two owners; `NothingLeaks`
that what is allocated can be reached. The latter has two exceptions, which the
code has: `map.c:308` frees a stash that could not be hashed without its path; and
`free_file_entry_queue` (queue.c 39-41, called at dedup.c 769) frees the head of the
queue alone, so that entries which the workers left there (as in `ScanLateStart`) are
lost with their paths. `Queued` are the entries that no worker has taken; the model
goes on from any of them being left. `Unreadable` entries may fail to give metadata.

### The traversal: `Traverse`, `Source`, `Paths`

`Traverse` is `main` up to the queue: the options in the order given, the check of
the arguments, and the loop over `fts_read`. The files are a forest of `Nodes` with
a path, a kind and a device each; `Gone` ones cannot be stat'ed, `Unreadable`
directories cannot be opened.

| Action | Code |
|---|---|
| `ParseDepth`, `ParseThreads`, ... | one case of the `getopt` loop each, with the type it is stored in (`ToShort`, `ToByte`) |
| `CheckArgs`, `CheckArgsFails` | the `access` loop |
| `FtsNextRoot`, `FtsChild`, `FtsLeaveDir`, `FtsPassDir`, `FtsUnreadable`, `FtsEnd` | `fts_read`, external: preorder and postorder, `FTS_SKIP`, `FTS_XDEV`, error entries |
| `ReportError`, `SkipTooDeep`, `SkipDevice`, `PassUnsupported`, `PassOther`, `Enqueue` | the ways through the body of the loop |

`goal` is what the command line asks for, said of paths, devices and sizes without
the walk (`Wanted`). `ImplementsSource` compares the two.

The forest is one that a file system can hold (`ForestAssumption`): only directories
that can be stat'ed have anything below them, each path below a directory goes through
one of its entries, a volume is mounted on a directory, and no path is longer than
the largest depth (`NoLimit`, 65535 in the code).

`Paths` has `tmp_name` and `path_relative_to` on sequences of names, a name being a
stem and the number of `.~.` in front of it. `LeadsBack` follows the relative target
as the kernel does.

### The array list: `AList`, `ItemList`

`AList` has the array with its capacity, slots that were never written (`JUNK`), and
one step for each iteration of the loops of `alist_ensure` and `alist_remove`. The
caller calls what it likes (`Begin`); `call` holds the operation and the arguments it
gave until the operation returns. `ItemList` is the list that `alist.h` promises, with
the same `call`: each operation shows in one step, its last, and must do so to the item
and at the index of the call. `Items` reads the list off an array in which a removal is
under way. `MaxSize` bounds the caller, not the list.

### The evaluation phase: `Scan`

The composition of traversal, queue, threads, visited tree and duplicate tree.
`mpc` is where main is and `pc` where each process is that may run `dedup_work`
(0 is main itself, for `-t 0`).

| Action | Code |
|---|---|
| `Spawn`, `SpawnFails`, `AllSpawned` | creation of the threads; a failure writes the number that exist to `thread_count` |
| `FtsRead`, `AppendEntry`, `SerialReturn` | one file of the walk: total, append, and `dedup_work` in line when there are no threads |
| `SetDone`, `Join` | end of the walk |
| `Start` | the read of `done` without its mutex before the loop; it may miss a write |
| `Pop`, `PopNothing`, `PollDone` | the head of the loop of `dedup_work` |
| `Populate`, `PopulateFails` | `metadata_from_entry` |
| `InsertVisited` | the section under `visited_mutex` |
| `AddToList` | the section under `duplicates_mutex` |
| `CountFound`, `CountCompleted` | the sections under `metrics_mutex` and `progress_mutex` |

A section between a lock and its unlock is one step: the data it touches are
under that mutex alone (printing takes the progress mutex inside, and changes
nothing here). The filters of the walk are applied before: `Entries` is what
passes them.

### The replacement phase: `Dedup`

One matched set, one or more instances of the program, each started up to
`MaxRuns` times, with options (`-l`, `-s`, `-n`, `-m`) chosen from `Options` at
each start. `Meet` reduces the first phase to its result: the set in some order
with the metadata of each file when it was met. What the code reads of a file in
two moments, `lstat` in `fts` and the clone id in `metadata_from_entry`, is one
step of `Meet`: the properties ask nothing that depends on the two being of one
moment. Then the choice of the origin (`ChooseByLinks`, `AlreadyCloned`,
`ChooseFirstSeen`, `ChooseByClones`), the loop (`Verdict`, `Pass`, `Replace`,
`EndOfSet`), and the replacements, one action per system call with an action for
its failure: `SaveMtime`, `TmpName`, `Clonefile`, `Check`, `CopyMetadata`,
`Recheck`, `Rename`, `Undo`, `Restore`, `Verify` for clones, `Relative`,
`Unlink`, `Make` for links. `Crash` ends an instance anywhere.

The file system is `dirent` (what each path is) and `ino` (whether the content
is whole, whose metadata it has, its clone id). A path is a file and how many
times `.~.` is in front of it, because a staging file that was left behind is
itself found by the next run; `Targets` are the paths a run may meet. Sizes are
all 1, so the sums count files. A call fails when its arguments are wrong in the
state it meets (a name that exists, a source that is gone, no inode left) and
otherwise only when `Failing` names it: `short` is a clone without its data,
`cloneid` a clone with an id of its own, `tmp_name` a staging name that is too long,
`realpath` a path that cannot be resolved, after which `symlink` is called with NULL.

`LinkTargets` is where the text that `path_relative_to` makes leads. If `dst` is a
symbolic link by then, which takes a file met twice, the way is counted from the
directory that link leads to and not from `dst`'s own; the model lets it end at any
path, there or not.

## Runs

| Run | Instance | Shows |
|---|---|---|
| `Traverse` | 15 command lines on a tree of 17 nodes and 3 devices | exactly the wanted files are found, once per argument; depth, remembered capability; links lead back, staging names are apart |
| `Visited` | 7 files on 2 devices, 3 of them not to be hashed and 1 not to be opened at times, 2 visits at once | the invariant of the tree, one file per content, no dangling pointer, no leak but the two known ones, refinement of `FirstSeen` |
| `AList` | capacities 1 to 3, up to 4 elements of 3 values | refinement of `ItemList`, each call with its caller's arguments; every call ends |
| `ScanThreads` | 2 workers or as many as could be created, 4 files, one unreadable | no silent loss, each file once, list shape, a held match stays right, exact counts, what is left at the join, termination |
| `DedupPair` | 2 instances, 1 run each, 3 files, one a link and one read-only, failures and crashes | every path can be read, with its own metadata; protected files are untouched |
| `DedupOptions` | 1 instance, 2 runs of `-m`, `-n`, `-l` or `-s` each, 5 files, one compressed, two clones, one of them immutable, failures | the origin survives, no staging file is left, mtime kept, sums exact, a later run undoes nothing, protected files are untouched, a dry run writes nothing |

What the less obvious properties say:

* `CompleteAtJoin` is what the code keeps of "every file is evaluated", which
  itself is false (`ScanLateStart`): a file that was not evaluated by the join
  was never taken off the queue, and without workers there is none.
* `ListedWithRep` is right on one device only (`ScanDevices`); `ScanThreads` has
  one.
* `OriginSurvives` is for the modes that unlink before they link: a path may be
  gone after a failure, but the file all others are to become is there at every
  moment. Where one file is in its set twice even the weaker `ContentSurvives` is
  false (`DedupTwice`).
* `ImplementsSource` is against `goal`, which takes the options as they are stored
  (the last of several counts, `-d 0` is the argument's own entries) and the devices
  as they are: with links that leave their volume it is false (`TraverseLinks`).
* `NeverTooDeep` is against the number as typed; `goal` takes it as stored. So a
  depth that does not fit makes the walk shallower than asked and never deeper.
* `MtimeKept` and `SavedExact` are about a first run: what a later one finds was
  changed before it started.
* `Converges`: no later run renames a clone over a file that shares its blocks
  with one replaced before, though each run chooses its origin anew. In
  `DedupOptions` no two inodes tie for the most links and no third run meets a name
  that `-l` or `-s` lost; with either it is false (see below).
* `ProtectedUntouched` has read-only files in it where all runs clone. `DedupPair`,
  with two instances of one run each, finds it true; with two runs each TLC finds
  it broken for the reason `DedupStaging` gives, and the theorem leaves that
  case out.

**Bounds.** Seven files make a bucket go through all its shapes (stash, match,
split, match in the hash level, add) with a file left over for each. Four files
in the scan give a stash, two matches and a split in one bucket; two workers and
main are enough for every pair of sections to interleave. `SpawnFails` makes the
same run cover one worker and the serial evaluation. In `Ownership` two visits
(`Threads`) are enough for one to hold a match while the other changes its node,
and one `Unreadable` entry for a visit that ends early.
The tree of `Traverse` has each kind of entry (`MCTraverse` draws it), a device
inside a device, and a directory two levels down; its integers are 4 and 2 bits
(`ShortHalf` 8, `ByteValues` 4 for 2^15 and 2^8), so that the command lines reach
the last value that fits, the first that does not, and one that wraps to a small
positive number. In `AList` capacity 1 grows twice on the way to 4 elements and 3
once; a removal is at the start, in the middle and at the end.

`DedupPair` has a set of three and a link of one of them outside the arguments.
It leaves out two failures that need one instance: a clone staged without its
data (`short`) can be swapped in by the other instance after the staged file was
looked at, and one with a clone id of its own (`cloneid`) looks to the other
instance, when that meets the staging file, like a file to replace. With either
two instances can break `ContentIntact` or `OwnMetadata`; for one instance both are
covered by the theorems. In `DedupOptions` the origin
is chosen first by what is not compressed or by the clones there are. `MaxRuns`
is 2 there since a second run is the first to meet what a run left; `MaxStage` is
2 so that a staging file of a staging file exists. There are as many free inodes
as clones can be alive at once; when there are none `clonefile` fails, as on a
full disk.

**Fairness.** `Scan`: weak fairness of main and of each process. The threads are
scheduled by the system, each mutex is held for a bounded time, and a worker that
finds the queue empty sleeps before it takes the mutexes again. `AList`: weak
fairness of the steps inside a call, which wait for nothing; that the caller
calls at all is not assumed. `Traverse` states no termination: what ends the walk
is that `fts` goes over a finite tree, and `main` only ever skips parts of it.
`Dedup` has no loop that waits: its loop goes over a finite list, one bounded
sequence of system calls each, and termination is not stated.

## Where the code and its documentation part

Each is a run that TLC must find violated.

| Run | What happens | Against |
|---|---|---|
| `ScanLateStart` | a worker scheduled after `done` is set leaves with the queue full (`dedup.c:170`); likewise a file appended between the empty poll and the read of `done` (`dedup.c:177`) | README.md 21-22 |
| `ScanDevices` | files of one content on two devices share a list (`map.c:430`) | map.h 63-65, 128-129 |
| `TraverseLinks` | a symbolic link to a volume that cannot clone is the first entry of its device: the capability of where it leads is remembered for where it is (`dedup.c:680`) | README.md 21-22 |
| `TraverseStaged` | a staging file below a directory argument is evaluated: the filter compares the start of the path (`dedup.c:720`) | the comment at dedup.c 719 |
| `DedupTwice` | `-s` with overlapping arguments links the origin to itself (`dedup.c:293`) | clone.h 71-72 |
| `DedupStaging` | three runs meet on one staging name and a file gets the origin's metadata (`clone.c:214`) | clone.h 34-35 |

Five more are plain from one or two lines, so that a run would add nothing to reading them:

* with `-P` unreadable files go unreported, as the message is inside the bar's lock
  macro (`dedup.c:108`; README.md 97). `NoSilentLoss` and its theorem say "with a bar";
* a compressed set with a hard link in it is deduplicated, since the hard-link rule
  comes first (`dedup.c:211`; README.md 50-51);
* `-l` leaves a set of clones alone (`dedup.c:225`; README.md 89);
* of two inodes that tie for the most links the first one met is the origin
  (`dedup.c:211`), and the order of a list depends on the threads: a second run may take
  the other and replace again what the first one replaced (README.md 35-37). TLC breaks
  `Converges` so in a set with two pairs of hard links;
* a `-l` or `-s` run that dies between the unlink and the link (`clone.c:282`, `373`) loses
  one of the clones that are counted, and a later run may take another id for the most
  frequent. TLC breaks `Converges` so in three runs: a clone over one of three files, a
  `-l` run that dies on the origin's clone, and a run that replaces the first file again.

At the edges of the options: `-d 40000` is refused as not positive, `-d 65536` is
depth 0, `-d -65535` is depth 1, and `-t 256` is serial (`dedup.c:561`, `592`); the
`Traverse` run has one command line for each.

`ScanLateStart` and `TraverseLinks` miss duplicates and lose no content. `DedupTwice`
loses content. For the window of `DedupStaging` two instances must overlap
twice on one file; with two instances run once each, `DedupPair` shows it does
not open.

## What is proved

Every safety property that a passing run checks is a theorem for all values of the
constants; some need a hypothesis that the code does not give them, which is then stated
in the theorem and named below.

The theorems hold for any set of files and keys, any subset of unreadable
ones, in `Scan` and `Ownership` any number of threads, in `Traverse` any forest,
devices and command lines, in `AList` any first capacity and number of elements, and
in `Dedup` any finite set of files, any inodes, links, flags, failing calls, options
and number of instances and runs, with crashes or without. They assume what the
modules assume of their constants: `NULL` is not a file, equal digests mean equal
size, first and last byte, `ThreadCount` is a natural number, a list is made with a
capacity above 0; paths, inodes and `NONE` are distinct; no two nodes of the forest
have one path, options are pairs of a letter and an integer, arguments are nodes, and
the forest is a forest (`ForestAssumption`).

### The visited tree

`VisitedTreeProofs` has the lemmas about one insertion. The inductive invariant
of the tree is `TreeInv`: types, each file under its own keys (`WellPlaced`), a
stash or a hash level but never both (`StashOrChildren`), distinct hashes
(`DistinctDigests`). `StashOrChildren` is what makes it sound for the code to
look at the stash only when there are no children. `InsertKeepsTreeInv` shows
that each way out keeps it and `InsertEffect` says what an insertion does to the
set of files in the tree, which is all that `VisitedProofs` and `ScanProofs` need.

`VisitedProofs`: `VisitedInv`, then `VisitedOneFilePerContent` from it, since two
files of one content are in one bucket and there either both the stash or both
children; `VisitedImplementsFirstSeen` maps each way out to a step of
`FirstSeen`, with the representative of a class being the one file of it in the
tree.

### The memory

`OwnershipProofs`: `VisitsImplementVisited`, that the visits of `Ownership` are
steps of `Visited`, and with it the three theorems of `VisitedProofs` for them.
Then `HeapPointersLive` and `HeapNothingLeaks`. Neither is inductive: whether a
`free` is right depends on who else has the structure. `OwnershipInv` says for
each kind of structure exactly when it is allocated (`Exact`): a visit's copy of
its match between `Visit` and `List`, a stash while its node has it, and so on.
With it go `Sound`, that structures and strings are one to one and that a string
without a structure is that of a stash that could not be hashed, and `Stages`,
that a visit is in one stage at a time and only a later one is on a list. The
entries still queued at the join stay allocated (`QueuedAtEnd` in
`ReachableExact`), which is why `HeapNothingLeaks` has to name them. The largest
step is `InsertHeap`, with a case for each way out of `visited_tree_insert`.

### Paths and the traversal

`TraverseProofs` begins with `LinkLeadsBack` and `StagingIsApart`. The loop of
`path_relative_to` stops at the least length at which the paths part, which
exists since the natural numbers are well founded (`LeastOf`); the rest is
arithmetic on prefixes.

For the walk, `WalkInv` has the open directories as a chain from the argument, the
*i*-th of them *i* - 1 levels below it, a directory that was returned hangs below the
last of them, and so the level of each entry is its distance from the argument.
`TypeCorrect` follows with the ranges of the options (`OptInv`); `EveryLinkLeadsBack`
and `EveryStagingApart` with the theorems on paths. `DepthKept` adds that the
stored depth is the last one parsed (`DepthInv`) and that storing a number in a short
never makes it larger. `CapabilityIsFresh` needs `LinksOnDevice`, which is what
`TraverseLinks` breaks.

`WalkImplementsSource` is the refinement of `Source`, under `LinksOnDevice` as well.
An append has to be of a file that was asked for and is not there yet, and the end of
the walk has to leave none out. The first is a matter of each filter and option
(`AskInv`: the options are what the parsed part of the line says). The others need to
know what the walk has still to come to. A node is `Ahead` if its argument is, if it is
within an entry that is left in an open directory, or if it is within the entry in
hand. `WayInv` says that these do not overlap, since what is left of a directory is
beside the way down and not on it (`Apart`), and that nothing on the way stops the walk
(`ClearTo`). `ExactInv` then is that a wanted file has been found if and only if it is
not ahead. Every step either passes a subtree with nothing wanted in it (one too deep,
unreadable, on another device) or turns one wanted file that was ahead into one that is
found.

### The array list

`AListProofs`: `AListTypes`, and `AListImplementsItemList` with one case per
action. The case of each operation shows that it used the arguments in `call`.
What `TypeOK` lacks is that a slot below `size` is never `JUNK` (`Written`):
growing copies what is there, and during a removal the gap is closed from the
left, so that each iteration but the last maps to a stutter.

### The evaluation phase

`ScanProofs`: `ScanTypeOK`, `ScanNoSilentLoss` (with a progress bar), `ScanEachOnce` and
`ScanMatchHeld`. The inductive invariants join `TypeOK`, `TreeInv` and facts on where
`cur`, `old` and `hand` may be non-null given the program counters. For `NoSilentLoss`
every step moves a file from one of its sets to another. For `MatchHeld` the crux is
that a file that was hashed once, as any file an insertion has returned was, is never
dropped from the tree again (`Fixed`), whatever other threads insert between the two
mutexes. The others rest on these:

* `ScanListShape`: a file that is about to be appended is on no list, since it is in the
  hands of a thread (`Once`), and the match is in the tree; a list that exists begins
  with the two of them.
* `ScanListedWithRep` needs `HashOnOneDevice`, which is what `ScanDevices` breaks.
  `Grouped` adds that the file of the tree which a listed file was compared with is fixed.
* `ScanFoundExact`: the representative of a listed file never changes (`RepFixed`), or
  the number of files to count would change under the count. `FoundInv` counts in
  finite sets.
* `ScanProgressExact` counts likewise, step by step; `CurDistinct` makes the number of
  files in hands that of the threads that have one.
* `ScanCompleteAtJoin`: from `NoSilentLoss`, and with `Joining`: who has been joined has
  left the loop, and has no file in hand; a serial run has at most the file it just
  appended on the queue.

### The replacement phase

`DedupProofs`. Besides `DedupTypeOK` (the types, with the fact that the index of the
loop stays in the set and is never the origin's while a file is being replaced):

| Theorem | Hypotheses |
|---|---|
| `ContentAlwaysIntact` | clones only; `clonefile` stages no short file, or one instance |
| `MetadataAlwaysOwn` | clones only; one instance |
| `DryRunChangesNothing` | none |
| `MtimeAlwaysKept` | one instance, no crash; `futimens` does not fail |
| `StagingNeverLeft` | one instance, no crash; the unlink of a staging file does not fail |
| `OriginAlwaysSurvives` | one instance; no file met twice, or no `-s` |
| `ProtectedKept` | one instance, or clones only |
| `ProtectedNeverTouched` | one instance; or clones only and no read-only file |
| `SavedCountExact` | one instance, no crash; no file met twice, no `-s`; a clone has the clone id of its source |
| `ConvergesAlways` | one instance, clones only; no file met twice; a clone has the clone id of its source; the inodes that tie for the most links have one clone id |

All failing calls, crashes, modes and earlier runs that a row does not exclude are
covered. Most of the hypotheses are needed: `DedupTwice` shows the ones on files met twice,
`DedupStaging` those on one instance, a crash leaves a staging file and a changed mtime
behind, and so do the calls named. Restricting the set of `Options` to one mode
restricts the earlier runs as well.

* `ContentAlwaysIntact`: alone the property is not inductive: `Rename`
  needs to know that the staged file is whole. `ContentInv` adds that
  (`StagedFull`, which `Recheck` establishes), that nobody is on the way to an
  `unlink` of a file's own name (`NoUnlink`), and that no path is a symbolic link.
  With several instances a staged file can be replaced after it was looked at,
  hence the hypothesis: then all inodes are full (`AllFull`).
* `MetadataAlwaysOwn`: `MetaInv` adds that a staged inode is at no other path
  (`StagedAlone`), so that `CopyMetadata` writes no other file's metadata, and that from
  there to `Rename` it has those of the destination (`CopiedMeta`).
* `DryRunChangesNothing`: the invariant is that no dry run gets past `Replace`; before
  it no step touches the files.
* `MtimeAlwaysKept`: `MtimeInv` follows `touched` and the saved mtime from `SaveMtime` to
  `Restore`, through each of the failing ways out between them.
* `StagingNeverLeft`: a staging file that exists is that of the file at hand, of which the
  instance is at a call that renames it away or at the way to `Undo` (`StagedHeld`); and
  a run meets none (`NamesOnly`).
* `OriginAlwaysSurvives`: the origin is the file another entry is only if a file was met
  twice. With clones that is harmless, since the entries are alike (`MetAlike`) and the loop
  takes the second for a clone of the first; with hard links it finds them the same inode;
  with `-s` nothing stops it. `OriginApart` says that the name at hand is another,
  `OriginReadable` that the origin is never reached through a link.
* `ProtectedKept`: what was recorded of a protected file shows that it is protected
  (`KeptRecord`), so `Verdict` passes it; that no *other* step changes it needs that its
  inode is at no staging name which metadata are copied to (`KeptApart`), or an immutable
  flag could be overwritten and the file met without it by the next run.
* `ProtectedNeverTouched`: a read-only file gets as far as `CopyMetadata`, which makes the
  staged file read-only, and `Recheck` refuses it. This is `MetaInv` again, and so for one
  instance.
* `SavedCountExact`: `FirstRun` says of each point of the loop what is still as it was met,
  and that names with another inode than at the start are as many as were counted, plus
  one between the rename and the count. A name that is replaced was not replaced before,
  since the files still to come are as they were met.

`ConvergeProofs` (`ConvergesAlways`) is about what a run makes of the work of the ones
before it. The program keeps nothing between runs: a later one counts links and clone ids
anew, in a set where some files are replaced, staging files that a crash left are met as
files, and the order of the list is another. `ConvergeInv` is about these counts.

* With a file of several links among the arguments (`AnyLinked`), the origin is an inode
  with the most of them (`ChooseByLinks`). `LeadByLinks` says that every replaced file has
  the clone id of such an inode, and `LinksClone` that none of these is ever changed, since
  a file with links is passed over. That is where ties have to be excluded (`NoTie`).
* Otherwise `LeadByClones`: as soon as a file has been replaced, the id it has is that of
  more files than any other (`Most`), and before that a running instance's origin has one that
  no other exceeds (`Even`). A rename takes a file from one count and adds it to the
  other (`ClonesGained`), and so a tie at the start becomes a lead at the first rename.
* The staging file at hand is not counted: it is gone after the rename, but counts in the
  next run if the instance dies before. It is a clone of the origin (`StagedClone`), so
  that it can only add to the lead.
* The counts are of the directory, the choice is from the records of a set. `MetAll` says
  that the set has everything a run can meet, and `SetCounts` makes of that, with a
  bijection between entries and paths, that the records of one id are as many as the
  files; then `AllDistinct` and `ChoiceByClones` treat the ways to choose, of which
  `ChooseFirstSeen` is for a set where no two files have one id, in which no file can have
  been replaced.
* Between the choice and a rename the records must still hold: `OriginClone`,
  `HandClone` and `RestClone`, for the origin, the file at hand and those to come. A file
  that is met twice, or an instance beside this one, would change them.

`ConvergeInv` was checked by TLC, conjunct by conjunct, on sets of three and four
files with and without links, over two or three runs, before it was proved; there
are states in which a later run is about to rename with files replaced before, so
that it says something.

## Only model-checked

* `Converges` where runs with `-l` and `-s` are among the earlier ones. `DedupOptions` has
  them; its second run is after one of any mode.
* `SavedExact` with `-s`. A link is resolved by a recursive function (`Hop`), and what that
  yields along a chain of links of any length is an induction over data, out of the
  prover's reach. `DedupOptions` has `-s` among its options.
* What is live, `Termination` of `Scan` and `CallsEnd` of `AList`: liveness
  under fairness is out of the prover's reach.
* What the runs find violated.

## Not modelled

* The characters of paths and their length: `Paths` has no `PATH_MAX`. That `tmp_name`
  refuses a name beyond it is a failing call of `Dedup`; `path_relative_to` does not check.
* `getopt`'s own syntax, `fts`, `statfs` and the attribute buffers of `getattrlist` are
  external: they are what the code relies on them to be.
* The bar's width, percentage and output, the messages, `print_human_bytes`, and file
  sizes: a file counts 1 in the sums, also where its blocks were partly shared.
* Descriptors that `metadata_from_entry` and `populate_sha256_if_empty` leave open, and
  the nodes of the two trees, which have one owner by their shape.
* Immutable flags on a staged file, which make the unlinking of it fail: the call may
  fail in the model, but not because of the flag. What `restore_dir_mtime` hides when
  others change the directory meanwhile.
* `alist_dup` and `alist_trim`, which the code leaves empty; the FreeBSD branch, which does
  not compile.
* Changes to files by programs other than `dedup`, which the README of the program
  excludes.

## Plan

What is left, in the order of what it protects:

1. `Dedup`: `Converges` with `-l` and `-s` runs, under a hypothesis that excludes the two
   ways in which it is false and no more.
2. `Dedup`: `SavedExact` with `-s` in a first run. There is no symbolic link at the start and
   `Replaced` follows those the run has made, so that one step of `Hop` is all that counts; but
   already its first value is that of a recursive function.
3. `Dedup`: `ContentSurvives` for several instances and all modes, without files met twice:
   first with TLC, on the two-instance directory of `DedupPair`.
4. The hazards without a property: descriptors left open (`utils.c:146`) as one more kind of
   structure of `Ownership`; immutable flags on a staged file (`clone.c:221`), by tying
   `UndoFails` to the metadata of what is staged.
