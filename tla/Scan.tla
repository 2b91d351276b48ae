-------------------------------- MODULE Scan --------------------------------
(***************************************************************************)
(* The evaluation phase of dedup.c: main traverses the arguments and       *)
(* appends an entry for each regular file to the queue; the worker threads *)
(* take entries off it, build their metadata, look for an earlier file of  *)
(* the same content in the visited tree and collect duplicates in the      *)
(* duplicate tree.  When the traversal ends main sets done and joins the   *)
(* threads.  With a thread count of 0 main runs dedup_work itself after    *)
(* each append.                                                            *)
(*                                                                         *)
(* Every section between a lock and its unlock is one step: the sections   *)
(* do not nest (printing aside) and touch their data under one mutex each. *)
(* The read of done that a starting worker makes without the mutex is a    *)
(* step of its own and may miss a write.  thread_count is read without a   *)
(* lock too, but only compared with 0, and it is never 0 while a worker    *)
(* exists.                                                                 *)
(***************************************************************************)
EXTENDS VisitedTree, Naturals, Sequences, FiniteSets

CONSTANTS
    ThreadCount,     \* thread_count when the threads are created
    CloneId,         \* the clone_id field, a function on Entries
    ShowProgress     \* dc.progress is not NULL

ASSUME ThreadAssumption == ThreadCount \in Nat /\ ShowProgress \in BOOLEAN

VARIABLES
    \* main
    mpc,             \* where main is
    remaining,       \* the entries the traversal has not returned yet
    hand,            \* the entry main is about to append, or NULL
    threadCount,     \* dc.thread_count
    spawned,         \* how many threads exist
    \* shared, each under a mutex of its own
    queue, done, lists, found, total, completed, diagnosed,
    \* dedup_work and visit_entry, one per process
    pc, cur, old

mainVars == <<mpc, remaining, hand, threadCount, spawned>>
workVars == <<pc, cur, old>>
vars == <<tree, mainVars, queue, done, lists, found, total, completed,
          diagnosed, workVars>>

Main == 0
Workers == 1 .. ThreadCount
Procs == {Main} \cup Workers     \* the processes that may run dedup_work
Digests == {Digest[e] : e \in Entries}

Init ==
    /\ TreeInit
    /\ mpc = "spawn" /\ remaining = Entries /\ hand = NULL
    /\ threadCount = ThreadCount /\ spawned = 0
    /\ queue = <<>> /\ done = FALSE
    /\ lists = [d \in Digests |-> <<>>]
    /\ found = 0 /\ total = 0 /\ completed = 0 /\ diagnosed = {}
    /\ pc = [p \in Procs |-> "idle"]
    /\ cur = [p \in Procs |-> NULL]
    /\ old = [p \in Procs |-> NULL]

-----------------------------------------------------------------------------
(* main, from the creation of the threads to the join *)

Spawn ==
    /\ mpc = "spawn" /\ spawned < threadCount
    /\ spawned' = spawned + 1
    /\ pc' = [pc EXCEPT ![spawned + 1] = "start"]
    /\ UNCHANGED <<tree, mpc, remaining, hand, threadCount, queue, done, lists,
                   found, total, completed, diagnosed, cur, old>>

\* Slip: the count of threads that exist is one short.
SpawnFailsOneLess ==
    /\ mpc = "spawn" /\ spawned < threadCount
    /\ threadCount' = spawned - 1
    /\ mpc' = "traverse"
    /\ UNCHANGED <<tree, remaining, hand, spawned, queue, done, lists, found,
                   total, completed, diagnosed, workVars>>

\* pthread_create fails: go on with the threads there are, or serially.
SpawnFails ==
    /\ mpc = "spawn" /\ spawned < threadCount
    /\ threadCount' = spawned
    /\ mpc' = "traverse"
    /\ UNCHANGED <<tree, remaining, hand, spawned, queue, done, lists, found,
                   total, completed, diagnosed, workVars>>

AllSpawned ==
    /\ mpc = "spawn" /\ spawned = threadCount
    /\ mpc' = "traverse"
    /\ UNCHANGED <<tree, remaining, hand, threadCount, spawned, queue, done,
                   lists, found, total, completed, diagnosed, workVars>>

\* Slip: the total is left for later.
FtsReadUncounted ==
    /\ mpc = "traverse"
    /\ \E e \in remaining : hand' = e /\ remaining' = remaining \ {e}
    /\ mpc' = "append"
    /\ UNCHANGED <<tree, threadCount, spawned, queue, done, lists, found, total,
                   completed, diagnosed, workVars>>

\* fts_read returns a file that passes the filters; the order of the
\* traversal is the file system's.  The total is raised before the append.
FtsRead ==
    /\ mpc = "traverse"
    /\ \E e \in remaining : hand' = e /\ remaining' = remaining \ {e}
    /\ total' = IF ShowProgress THEN total + 1 ELSE total
    /\ mpc' = "append"
    /\ UNCHANGED <<tree, threadCount, spawned, queue, done, lists, found,
                   completed, diagnosed, workVars>>

AppendEntry ==
    /\ mpc = "append"
    /\ queue' = Append(queue, hand)
    /\ hand' = NULL
    /\ IF threadCount = 0
       THEN mpc' = "serial" /\ pc' = [pc EXCEPT ![Main] = "start"]
       ELSE mpc' = "traverse" /\ UNCHANGED pc
    /\ UNCHANGED <<tree, remaining, threadCount, spawned, done, lists, found,
                   total, completed, diagnosed, cur, old>>

\* dedup_work has returned to main.
SerialReturn ==
    /\ mpc = "serial" /\ pc[Main] = "exited"
    /\ mpc' = "traverse"
    /\ pc' = [pc EXCEPT ![Main] = "idle"]
    /\ UNCHANGED <<tree, remaining, hand, threadCount, spawned, queue, done,
                   lists, found, total, completed, diagnosed, cur, old>>

\* Slip: the flag is never raised.
ForgetDone ==
    /\ mpc = "traverse" /\ remaining = {}
    /\ mpc' = "join"
    /\ UNCHANGED <<tree, remaining, hand, threadCount, spawned, queue, done,
                   lists, found, total, completed, diagnosed, workVars>>

SetDone ==
    /\ mpc = "traverse" /\ remaining = {}
    /\ done' = TRUE
    /\ mpc' = "join"
    /\ UNCHANGED <<tree, remaining, hand, threadCount, spawned, queue, lists,
                   found, total, completed, diagnosed, workVars>>

Join ==
    /\ mpc = "join"
    /\ \A w \in 1 .. threadCount : pc[w] = "exited"
    /\ mpc' = "joined"
    /\ UNCHANGED <<tree, remaining, hand, threadCount, spawned, queue, done,
                   lists, found, total, completed, diagnosed, workVars>>

MainStep ==
    \/ Spawn \/ SpawnFails \/ AllSpawned \/ FtsRead \/ AppendEntry
    \/ SerialReturn \/ SetDone \/ Join

-----------------------------------------------------------------------------
(* dedup_work and the visit_entry it calls, run by process p *)

\* uint8_t done = c->done, without the mutex, and the loop condition.  The
\* read may miss a write made under the mutex meanwhile.
Start(p) == \E seen \in {FALSE, done} :
    /\ pc[p] = "start"
    /\ pc' = [pc EXCEPT ![p] = IF seen THEN "exited" ELSE "pop"]
    /\ UNCHANGED <<tree, mainVars, queue, done, lists, found, total, completed,
                   diagnosed, cur, old>>

\* Slip: the entry is read but left on the queue while others wait behind it.
Peek(p) ==
    /\ pc[p] = "pop" /\ queue # <<>>
    /\ queue' = IF Len(queue) = 1 THEN <<>> ELSE queue
    /\ cur' = [cur EXCEPT ![p] = Head(queue)]
    /\ pc' = [pc EXCEPT ![p] = "metadata"]
    /\ UNCHANGED <<tree, mainVars, done, lists, found, total, completed,
                   diagnosed, old>>

Pop(p) ==
    /\ pc[p] = "pop" /\ queue # <<>>
    /\ queue' = Tail(queue)
    /\ cur' = [cur EXCEPT ![p] = Head(queue)]
    /\ pc' = [pc EXCEPT ![p] = "metadata"]
    /\ UNCHANGED <<tree, mainVars, done, lists, found, total, completed,
                   diagnosed, old>>

PopNothing(p) ==
    /\ pc[p] = "pop" /\ queue = <<>>
    /\ pc' = [pc EXCEPT ![p] = "poll"]
    /\ UNCHANGED <<tree, mainVars, queue, done, lists, found, total, completed,
                   diagnosed, cur, old>>

\* done is read under its mutex, after the queue was seen empty under another.
PollDone(p) ==
    /\ pc[p] = "poll"
    /\ pc' = [pc EXCEPT ![p] = IF done THEN "exited" ELSE "pop"]
    /\ UNCHANGED <<tree, mainVars, queue, done, lists, found, total, completed,
                   diagnosed, cur, old>>

Populate(p) ==
    /\ pc[p] = "metadata"
    /\ pc' = [pc EXCEPT ![p] = "insert"]
    /\ UNCHANGED <<tree, mainVars, queue, done, lists, found, total, completed,
                   diagnosed, cur, old>>

\* Slip: a file that cannot be read is passed over without a word.
PopulateFailsSilently(p) ==
    /\ pc[p] = "metadata" /\ cur[p] \in Faulty
    /\ pc' = [pc EXCEPT ![p] = "count"]
    /\ UNCHANGED <<tree, mainVars, queue, done, lists, found, total, completed,
                   diagnosed, cur, old>>

\* metadata_from_entry returns NULL; the message is inside PROGRESS_LOCK.
PopulateFails(p) ==
    /\ pc[p] = "metadata" /\ cur[p] \in Faulty
    /\ diagnosed' = IF ShowProgress THEN diagnosed \cup {cur[p]} ELSE diagnosed
    /\ pc' = [pc EXCEPT ![p] = "count"]
    /\ UNCHANGED <<tree, mainVars, queue, done, lists, found, total, completed,
                   cur, old>>

\* The section under visited_mutex; old is a private copy of what it returns.
InsertVisited(p) == \E was, bad \in Entries \cup {NULL} :
    /\ pc[p] = "insert"
    /\ VisitedTreeInsert(cur[p], was, bad)
    /\ old' = [old EXCEPT ![p] = was]
    /\ diagnosed' = diagnosed \cup ({bad} \ {NULL})
    /\ pc' = [pc EXCEPT ![p] = IF was = NULL THEN "count" ELSE "list"]
    /\ UNCHANGED <<mainVars, queue, done, lists, found, total, completed, cur>>

\* Slip: the first file of a content is not put on its list.
AddToListAlone(p) ==
    /\ pc[p] = "list"
    /\ lists' = [lists EXCEPT ![Digest[cur[p]]] = Append(@, cur[p])]
    /\ pc' = [pc EXCEPT ![p] =
                IF CloneId[cur[p]] # CloneId[old[p]] THEN "found" ELSE "count"]
    /\ UNCHANGED <<tree, mainVars, queue, done, found, total, completed,
                   diagnosed, cur, old>>

\* The section under duplicates_mutex: the list is found by hash alone.
AddToList(p) ==
    /\ pc[p] = "list"
    /\ lists' = [lists EXCEPT ![Digest[cur[p]]] =
                   Append(IF @ = <<>> THEN <<old[p]>> ELSE @, cur[p])]
    /\ pc' = [pc EXCEPT ![p] =
                IF CloneId[cur[p]] # CloneId[old[p]] THEN "found" ELSE "count"]
    /\ UNCHANGED <<tree, mainVars, queue, done, found, total, completed,
                   diagnosed, cur, old>>

\* Slip: found++ on a value read before the mutex was taken.
CountFoundStale(p) ==
    /\ pc[p] = "found"
    /\ \E n \in {found, IF found > 0 THEN found - 1 ELSE 0} : found' = n + 1
    /\ pc' = [pc EXCEPT ![p] = "count"]
    /\ UNCHANGED <<tree, mainVars, queue, done, lists, total, completed,
                   diagnosed, cur, old>>

CountFound(p) ==
    /\ pc[p] = "found"
    /\ found' = found + 1
    /\ pc' = [pc EXCEPT ![p] = "count"]
    /\ UNCHANGED <<tree, mainVars, queue, done, lists, total, completed,
                   diagnosed, cur, old>>

\* The entry is freed and completed raised; a serial call ends here.
CountCompleted(p) ==
    /\ pc[p] = "count"
    /\ completed' = IF ShowProgress THEN completed + 1 ELSE completed
    /\ cur' = [cur EXCEPT ![p] = NULL]
    /\ old' = [old EXCEPT ![p] = NULL]
    /\ pc' = [pc EXCEPT ![p] = IF threadCount = 0 THEN "exited" ELSE "pop"]
    /\ UNCHANGED <<tree, mainVars, queue, done, lists, found, total, diagnosed>>

DedupWork(p) ==
    \/ Start(p) \/ Pop(p) \/ PopNothing(p) \/ PollDone(p)
    \/ Populate(p) \/ PopulateFails(p) \/ InsertVisited(p)
    \/ AddToList(p) \/ CountFound(p) \/ CountCompleted(p)

Terminated == mpc = "joined" /\ UNCHANGED vars

Next == MainStep \/ (\E p \in Procs : DedupWork(p)) \/ Terminated

Spec == Init /\ [][Next]_vars

\* Every thread is scheduled, every system call returns and no thread waits
\* for a mutex for ever: each is held for a bounded time and a thread that
\* finds the queue empty sleeps before it takes the two mutexes again.
Fairness == WF_vars(MainStep) /\ \A p \in Procs : WF_vars(DedupWork(p))

FairSpec == Spec /\ Fairness

-----------------------------------------------------------------------------
(* Where an entry can be *)

InHand == {hand} \ {NULL}
Queued == {queue[i] : i \in 1 .. Len(queue)}
OnList(d) == {lists[d][i] : i \in 1 .. Len(lists[d])}
Listed == UNION {OnList(d) : d \in Digests}
Holding == {"metadata", "insert", "list"}   \* cur[p] is not settled yet
Pending == {cur[p] : p \in {q \in Procs : pc[q] \in Holding}}

\* The first file of the same content on the same device.
Rep(e) == CHOOSE r \in InTree : SameFile(r, e)

TypeOK ==
    /\ TreeTypeOK
    /\ mpc \in {"spawn", "traverse", "append", "serial", "join", "joined"}
    /\ remaining \subseteq Entries
    /\ hand \in Entries \cup {NULL}
    /\ threadCount \in 0 .. ThreadCount /\ spawned \in 0 .. threadCount
    /\ queue \in Seq(Entries)
    /\ done \in BOOLEAN
    /\ lists \in [Digests -> Seq(Entries)]
    /\ found \in Nat /\ total \in Nat /\ completed \in Nat
    /\ diagnosed \subseteq Entries
    /\ pc \in [Procs -> {"idle", "start", "pop", "poll", "metadata", "insert",
                         "list", "found", "count", "exited"}]
    /\ cur \in [Procs -> Entries \cup {NULL}]
    /\ old \in [Procs -> Entries \cup {NULL}]

\* Every file of the traversal is accounted for: it is waiting, held by one
\* thread, the first of its content, on the list of its content, or the user
\* was told that it could not be read (visit_entry and visited_tree_insert,
\* with dropped, replaced and rejected files).
NoSilentLoss ==
    Entries = remaining \cup InHand \cup Queued \cup Pending
                 \cup InTree \cup Listed \cup diagnosed

\* No file is worked on twice, whatever the interleaving of the workers and
\* main: no two threads hold one entry, it is queued once, and once held it
\* has left the queue for good (file_entry_next under queue_mutex).
EachOnce ==
    /\ \A i, j \in 1 .. Len(queue) : queue[i] = queue[j] => i = j
    /\ \A p, q \in Procs : cur[p] # NULL /\ cur[p] = cur[q] => p = q
    /\ (remaining \cup InHand) \cap (Queued \cup Pending) = {}
    /\ remaining \cap InHand = {}
    /\ Queued \cap Pending = {}
    /\ (remaining \cup InHand \cup Queued \cup Pending) \cap InTree = {}
    /\ (remaining \cup InHand \cup Queued \cup Pending) \cap Listed = {}
    /\ (InTree \cup Listed) \cap diagnosed = {}

\* A list of the duplicate tree holds files of one hash, each once, and a
\* list that exists has at least two: the origin is never its own duplicate
\* (the list handed to deduplicate).
ListShape ==
    \A d \in Digests :
        /\ Len(lists[d]) # 1
        /\ \A i, j \in 1 .. Len(lists[d]) :
              /\ Digest[lists[d][i]] = d
              /\ lists[d][i] = lists[d][j] => i = j

\* Between the unlock of visited_mutex and the lock of duplicates_mutex the
\* copy of the match stays right: the file is still in the tree, is not the
\* file itself, and has its device and hash (visit_entry's metadata_dup).
MatchHeld ==
    \A p \in Procs : old[p] # NULL =>
        /\ cur[p] # NULL /\ cur[p] # old[p]
        /\ old[p] \in InTree
        /\ SameFile(old[p], cur[p])

\* "duplicates found" counts each listed file that does not share the clone
\* id of the first file of its content, once, up to the threads that have
\* listed theirs and not counted it yet (visit_entry's two mutexes).
FoundExact ==
    found + Cardinality({p \in Procs : pc[p] = "found"}) =
        Cardinality({e \in Listed \ InTree : CloneId[e] # CloneId[Rep(e)]})

\* The bar never lags or runs ahead of the work: the total exceeds the
\* completed count by the files in hand, queued and held.
ProgressExact ==
    ShowProgress =>
        total = completed + Cardinality(InHand) + Len(queue)
                   + Cardinality({p \in Procs : cur[p] # NULL})

\* A duplicate is on a list with the first file of its content on its device,
\* the one visit_entry compared it with.
ListedWithRep ==
    \A d \in Digests : \A e \in OnList(d) :
        \E r \in OnList(d) \cap InTree : SameFile(r, e)

\* When the scan is over every file has been evaluated: it is first of its
\* content, a listed duplicate or reported (README.md 21-22).
EverythingEvaluated == mpc = "joined" => Entries = InTree \cup Listed \cup diagnosed

\* The part of it that the code keeps: main never leaves the join while a
\* worker is between two steps of a file, so what is not evaluated by then was
\* never taken off the queue, and a serial run leaves nothing at all (the
\* loop of dedup_work, main's join).
CompleteAtJoin ==
    mpc = "joined" =>
        /\ Entries = InTree \cup Listed \cup diagnosed \cup Queued
        /\ threadCount = 0 => queue = <<>>

\* The scan ends: the workers see done once the queue is empty (main's join).
Termination == <>(mpc = "joined")
=============================================================================
