--------------------------- MODULE TransferEngine ---------------------------
(***************************************************************************)
(* The copy queue of E-iClean: TransferEngine.run() and everything it      *)
(* shares with the IPC handlers that start, pause, cancel and resume it,   *)
(* for one device and one destination folder.                              *)
(*                                                                         *)
(* All Python code runs on one asyncio event loop and the only await that  *)
(* ever suspends a run is the to_thread call around AfcClient.read_chunk   *)
(* (and the run lock), so between two reads a run holds the loop: that is  *)
(* the variable busy.  Its segment is still several actions, one per       *)
(* commit or file operation, because the process may die between any two.  *)
(***************************************************************************)
EXTENDS Naturals, Sequences, FiniteSets

CONSTANTS
    NItems,      \* number of rows of transfer_items, whose ids are 1..NItems
    Size,        \* remote_size_bytes of each item, in chunks
    RemoteLen,   \* length of the file the device serves now, in chunks
    Unreadable,  \* items whose fopen the device answers with an AfcException
    CanSeek,     \* the adapters: TRUE reads at any offset, FALSE is AFC
    FlushEvery,  \* settings.DB_PROGRESS_FLUSH_EVERY_N_CHUNKS
    Engines,     \* TransferEngine objects that may be alive at once
    Tasks,       \* asyncio tasks that may be inside run() at once
    NoEngine, NoTask,
    MaxClients,  \* bound: AfcClient objects made by device.connect
    MaxFaults,   \* bound: failed reads on a live link, connects and file
                 \* operations
    MaxCrashes,  \* bound: deaths of the backend process
    MaxDepth     \* bound: nested _transfer_item calls before RecursionError

Items == 1..NItems

ASSUME ItemsAssumption ==
    /\ NItems \in Nat
    /\ Size \in [Items -> Nat]
    /\ RemoteLen \in [Items -> Nat]
    /\ Unreadable \subseteq Items
    /\ CanSeek \subseteq BOOLEAN
ASSUME BoundsAssumption ==
    /\ FlushEvery \in Nat \ {0}
    /\ MaxClients \in Nat /\ MaxFaults \in Nat
    /\ MaxCrashes \in Nat /\ MaxDepth \in Nat
ASSUME NamesAssumption == NoEngine \notin Engines /\ NoTask \notin Tasks

VARIABLES
    db,       \* row of each item: status and bytes_transferred, as committed
    partial,  \* content of each item's .partial file, <<>> if there is none
    final,    \* content of each item's finished file, <<>> if there is none
    link,     \* the AFC session of the device and its one open remote handle
    cur,      \* state.engines[session_id]
    engine,   \* the fields of each TransferEngine object
    task,     \* program counter and locals of each task inside run()
    busy,     \* the task that holds the event loop, or NoTask
    spent     \* how much of the bounds above is used

vars == <<db, partial, final, link, cur, engine, task, busy, spent>>

-----------------------------------------------------------------------------
(* Files are sequences of blocks: block <<i, k>> is the k-th chunk of the   *)
(* remote file of item i, Hole the zeros a write past the end leaves.       *)

Hole == <<0, 0>>
Block == (Items \X (Nat \ {0})) \union {Hole}

\* What a copy of item i must hold: the bytes the manifest knows of.
Source(i) == [k \in 1..Size[i] |-> <<i, k>>]

\* fh.seek(p); fh.write(b) on a file with content f.
WriteAt(f, p, b) ==
    [k \in 1..(IF p < Len(f) THEN Len(f) ELSE p + 1) |->
        IF k = p + 1 THEN b ELSE IF k <= Len(f) THEN f[k] ELSE Hole]

Statuses == {"pending", "in_progress", "partial", "copied", "failed"}
Outcomes == {"new", "running", "drained", "paused", "cancelled",
             "disconnected", "raised"}

\* Program counters: in the loop's hands, with the .partial file open, inside
\* the worker thread of read_chunk.
OpenPcs == {"copy", "read", "fread"}
ThreadPcs == {"read", "fread"}
LoopPcs == {"loop", "item", "open", "copy", "requeue", "discard",
            "replace", "commit"}
ResultPcs == {"seek", "lost", "failed"}
Pcs == {"idle", "lock"} \union LoopPcs \union ThreadPcs \union ResultPcs

IdleTask == [pc |-> "idle", eng |-> NoEngine, item |-> 0, off |-> 0,
             since |-> 0, depth |-> 0, afc |-> 0]
NewTask(e) == [IdleTask EXCEPT !.pc = "lock", !.eng = e]
NewEngine(c) == [paused |-> FALSE, cancelled |-> FALSE, afc |-> c,
                 lock |-> NoTask, outcome |-> "new"]

\* t has its .partial open: an exception out of the worker thread closes it
\* only when t is resumed.
Opened(t) == \/ task[t].pc \in OpenPcs
             \/ task[t].pc \in ResultPcs /\ busy # t

\* The .partial of t's item is also open in another task: Windows then
\* refuses to unlink or rename it.
Shared(t) == \E u \in Tasks \ {t} : Opened(u) /\ task[u].item = task[t].item

\* The session t reads through is the current one and still answers.
Live(t) == task[t].afc = link.client /\ link.up

\* Mutant of HandleAt: the position of the cursor is not compared.
HandleOfFile(t) == link.path = task[t].item

HandleAt(t) == link.path = task[t].item /\ link.pos = task[t].off
Closed(l) == [l EXCEPT !.path = 0, !.pos = 0]

\* Mutant of Queue: partial rows are forgotten.
PendingOnly == {i \in Items : db[i].status = "pending"}

\* _next_item_id: the lowest id that is pending or partial.
Queue == {i \in Items : db[i].status \in {"pending", "partial"}}
IsNext(i) == i \in Queue /\ \A j \in Queue : i <= j

Goto(t, p) == task' = [task EXCEPT ![t].pc = p]
SetRow(i, s, b) == db' = [db EXCEPT ![i] = [status |-> s, bytes |-> b]]
SetStatus(i, s) == db' = [db EXCEPT ![i].status = s]

Init ==
    /\ db = [i \in Items |-> [status |-> "pending", bytes |-> 0]]
    /\ partial = [i \in Items |-> <<>>]
    /\ final = [i \in Items |-> <<>>]
    /\ \E s \in CanSeek :
        link = [client |-> 0, up |-> FALSE, connecting |-> FALSE,
                path |-> 0, pos |-> 0, seeks |-> s]
    /\ cur = NoEngine
    /\ engine = [e \in Engines |-> NewEngine(0)]
    /\ task = [t \in Tasks |-> IdleTask]
    /\ busy = NoTask
    /\ spent = [clients |-> 0, faults |-> 0, crashes |-> 0]

-----------------------------------------------------------------------------
(* run() and _transfer_item(), on the event loop.                           *)

OnLoop(t, p) == busy = t /\ task[t].pc = p
\* A worker thread's future is done and the loop is free to resume t, or t
\* already holds the loop.
Resumes(t, p) == busy \in {NoTask, t} /\ task[t].pc = p

\* Mutant of Release: the exception path leaves the lock taken.
ReleaseLocked(t, o) ==
    /\ engine' = [engine EXCEPT ![task[t].eng].outcome = o]
    /\ task' = [task EXCEPT ![t] = IdleTask]
    /\ busy' = NoTask

Release(t, o) ==
    /\ engine' = [engine EXCEPT ![task[t].eng] =
                    [@ EXCEPT !.lock = NoTask, !.outcome = o]]
    /\ task' = [task EXCEPT ![t] = IdleTask]
    /\ busy' = NoTask

\* Mutant of Acquire: no run lock.
AcquireUnlocked(t) ==
    /\ Resumes(t, "lock")
    /\ engine' = [engine EXCEPT ![task[t].eng] =
                    [@ EXCEPT !.lock = t, !.paused = FALSE,
                              !.cancelled = FALSE, !.outcome = "running"]]
    /\ Goto(t, "loop")
    /\ busy' = t
    /\ UNCHANGED <<db, partial, final, link, cur, spent>>

\* async with self._run_lock, then the two flags are cleared.
Acquire(t) ==
    /\ Resumes(t, "lock")
    /\ engine[task[t].eng].lock = NoTask
    /\ engine' = [engine EXCEPT ![task[t].eng] =
                    [@ EXCEPT !.lock = t, !.paused = FALSE,
                              !.cancelled = FALSE, !.outcome = "running"]]
    /\ Goto(t, "loop")
    /\ busy' = t
    /\ UNCHANGED <<db, partial, final, link, cur, spent>>

\* The three returns at the head of the loop, in the order they are tested.
Leave(t) ==
    LET e == engine[task[t].eng] IN
    /\ OnLoop(t, "loop")
    /\ \/ e.cancelled /\ Release(t, "cancelled")
       \/ ~e.cancelled /\ e.paused /\ Release(t, "paused")
       \/ ~e.cancelled /\ ~e.paused /\ Queue = {} /\ Release(t, "drained")
    /\ UNCHANGED <<db, partial, final, link, cur, spent>>

Select(t) ==
    /\ OnLoop(t, "loop")
    /\ ~engine[task[t].eng].cancelled
    /\ ~engine[task[t].eng].paused
    /\ \E i \in Items :
        /\ IsNext(i)
        /\ task' = [task EXCEPT ![t] = [@ EXCEPT !.pc = "item", !.item = i,
                                                 !.depth = 0]]
    /\ UNCHANGED <<db, partial, final, link, cur, engine, busy, spent>>

\* Mutant of Claim: the size of the .partial file is not compared.
ClaimTrusting(t) ==
    LET i == task[t].item IN
    /\ OnLoop(t, "item")
    /\ SetStatus(i, "in_progress")
    /\ task' = [task EXCEPT ![t] = [@ EXCEPT !.pc = "open",
                                             !.off = db[i].bytes]]
    /\ UNCHANGED <<partial, final, link, cur, engine, busy, spent>>

\* The head of _transfer_item: commit in_progress, then _resume_offset.
Claim(t) ==
    LET i == task[t].item IN
    /\ OnLoop(t, "item")
    /\ SetStatus(i, "in_progress")
    /\ task' = [task EXCEPT ![t] = [@ EXCEPT !.pc = "open", !.off =
                    IF Len(partial[i]) = db[i].bytes THEN db[i].bytes ELSE 0]]
    /\ UNCHANGED <<partial, final, link, cur, engine, busy, spent>>

\* open(partial_path, "r+b" if offset > 0 else "wb")
Open(t) ==
    /\ OnLoop(t, "open")
    /\ partial' = IF task[t].off > 0 THEN partial
                  ELSE [partial EXCEPT ![task[t].item] = <<>>]
    /\ task' = [task EXCEPT ![t] = [@ EXCEPT !.pc = "copy", !.since = 0]]
    /\ UNCHANGED <<db, final, link, cur, engine, busy, spent>>

\* await to_thread(self._afc.read_chunk, ...): the loop is free meanwhile.
Request(t) ==
    /\ OnLoop(t, "copy")
    /\ task[t].off < Size[task[t].item]
    /\ task' = [task EXCEPT ![t] = [@ EXCEPT !.pc = "read",
                                             !.afc = engine[task[t].eng].afc]]
    /\ busy' = NoTask
    /\ UNCHANGED <<db, partial, final, link, cur, engine, spent>>

\* The while loop is over: last _flush_progress, and the file is closed.
Flush(t) ==
    /\ OnLoop(t, "copy")
    /\ task[t].off >= Size[task[t].item]
    /\ SetRow(task[t].item, "partial", task[t].off)
    /\ Goto(t, "replace")
    /\ UNCHANGED <<partial, final, link, cur, engine, busy, spent>>

\* Another engine's run removed the .partial, or left it empty.
Missing(i) == partial[i] = <<>> /\ Size[i] > 0

\* partial_path.replace(local_path); a PermissionError or FileNotFoundError
\* fails the item.
Replace(t) ==
    LET i == task[t].item IN
    /\ OnLoop(t, "replace")
    /\ \/ /\ Shared(t) \/ Missing(i)
          /\ Goto(t, "failed")
          /\ UNCHANGED <<partial, final>>
       \/ /\ ~Shared(t)
          /\ final' = [final EXCEPT ![i] = partial[i]]
          /\ partial' = [partial EXCEPT ![i] = <<>>]
          /\ Goto(t, "commit")
    /\ UNCHANGED <<db, link, cur, engine, busy, spent>>

Commit(t) ==
    /\ OnLoop(t, "commit")
    /\ SetRow(task[t].item, "copied", Size[task[t].item])
    /\ Goto(t, "loop")
    /\ UNCHANGED <<partial, final, link, cur, engine, busy, spent>>

\* except SeekNotSupportedError: unlink the .partial, then requeue the item
\* and call _transfer_item again.
SeekUnlink(t) ==
    /\ Resumes(t, "seek")
    /\ IF Shared(t)
       THEN Goto(t, "failed") /\ UNCHANGED partial
       ELSE /\ partial' = [partial EXCEPT ![task[t].item] = <<>>]
            /\ Goto(t, "requeue")
    /\ busy' = t
    /\ UNCHANGED <<db, final, link, cur, engine, spent>>

SeekRestart(t) ==
    /\ OnLoop(t, "requeue")
    /\ SetRow(task[t].item, "pending", 0)
    /\ IF task[t].depth < MaxDepth
       THEN task' = [task EXCEPT ![t] = [@ EXCEPT !.pc = "item",
                                            !.depth = task[t].depth + 1]]
       ELSE Goto(t, "failed")
    /\ UNCHANGED <<partial, final, link, cur, engine, busy, spent>>

\* Mutant of Lost: the row takes the name of the event.
LostByName(t) ==
    /\ Resumes(t, "lost")
    /\ SetStatus(task[t].item, "disconnected")
    /\ Release(t, "disconnected")
    /\ UNCHANGED <<partial, final, link, cur, spent>>

\* DEVICE_DISCONNECTED: _mark_partial (the offset is not written), emit
\* connection_lost and return.
Lost(t) ==
    /\ Resumes(t, "lost")
    /\ SetStatus(task[t].item, "partial")
    /\ Release(t, "disconnected")
    /\ UNCHANGED <<partial, final, link, cur, spent>>

\* Any other exception: _mark_failed commits the status, then unlinks the
\* .partial; if Windows refuses, the exception leaves run().
Fail(t) ==
    /\ Resumes(t, "failed")
    /\ SetStatus(task[t].item, "failed")
    /\ Goto(t, "discard")
    /\ busy' = t
    /\ UNCHANGED <<partial, final, link, cur, engine, spent>>

Discard(t) ==
    /\ OnLoop(t, "discard")
    /\ IF Shared(t)
       THEN Release(t, "raised") /\ UNCHANGED partial
       ELSE /\ partial' = [partial EXCEPT ![task[t].item] = <<>>]
            /\ Goto(t, "loop")
            /\ UNCHANGED <<engine, busy>>
    /\ UNCHANGED <<db, final, link, cur, spent>>

Fault ==
    /\ spent.faults < MaxFaults
    /\ spent' = [spent EXCEPT !.faults = @ + 1]

\* The destination's mkdir raises (its drive was removed): that is outside the
\* try of run(), which ends in silence with the flags cleared.
MkdirFails(t) ==
    /\ Resumes(t, "lock")
    /\ engine[task[t].eng].lock = NoTask
    /\ engine' = [engine EXCEPT ![task[t].eng] =
                    [@ EXCEPT !.paused = FALSE, !.cancelled = FALSE,
                              !.outcome = "raised"]]
    /\ task' = [task EXCEPT ![t] = IdleTask]
    /\ busy' = NoTask
    /\ Fault
    /\ UNCHANGED <<db, partial, final, link, cur>>

\* So do the mkdir and the open before a copy, the unlink before a restart or
\* the rename after it, which fail the item.
FileFails(t) ==
    /\ OnLoop(t, "open") \/ OnLoop(t, "replace") \/ Resumes(t, "seek")
    /\ Goto(t, "failed")
    /\ busy' = t
    /\ Fault
    /\ UNCHANGED <<db, partial, final, link, cur, engine>>

\* _mark_failed's own unlink raises, out of the except branch and of run().
UnlinkFails(t) ==
    /\ OnLoop(t, "discard")
    /\ Release(t, "raised")
    /\ Fault
    /\ UNCHANGED <<db, partial, final, link, cur>>

-----------------------------------------------------------------------------
(* AfcClient.read_chunk, in a worker thread.  AFC has one sequential cursor *)
(* per session: link.path and link.pos.                                     *)

\* Reading failed while the session is gone.  AFC's second attempt refuses
\* any offset but 0, so only a read at 0 is reported as a lost connection.
Broken(t) == IF task[t].off = 0 \/ link.seeks THEN "lost" ELSE "seek"

\* The guard of the attempt: keep the handle, open a new one, or refuse.
Position(t) ==
    LET i == task[t].item  reopens == task[t].off = 0 \/ link.seeks IN
    /\ task[t].pc = "read"
    /\ \/ /\ Live(t) /\ HandleAt(t)
          /\ Goto(t, "fread")
          /\ UNCHANGED link
       \/ /\ Live(t) /\ ~HandleAt(t) /\ reopens /\ i \notin Unreadable
          /\ link' = [link EXCEPT !.path = i, !.pos = task[t].off]
          /\ Goto(t, "fread")
       \/ /\ Live(t) /\ ~HandleAt(t) /\ reopens /\ i \in Unreadable
          /\ link' = Closed(link)
          /\ Goto(t, "failed")
       \/ /\ Live(t) /\ ~HandleAt(t) /\ ~reopens
          /\ Goto(t, "seek")
          /\ UNCHANGED link
       \/ /\ ~Live(t)
          /\ Goto(t, Broken(t))
          /\ UNCHANGED link
    /\ UNCHANGED <<db, partial, final, cur, engine, busy, spent>>

\* fread of one chunk, then, back on the loop, fh.write(chunk), and
\* _flush_progress when FlushEvery chunks were written since the last one.
Fread(t) ==
    LET i == task[t].item
        off == task[t].off + 1
        flushes == task[t].since + 1 >= FlushEvery
    IN
    /\ Resumes(t, "fread")
    /\ Live(t)
    /\ link.path # 0
    /\ link.pos < RemoteLen[link.path]
    /\ link' = [link EXCEPT !.pos = @ + 1]
    /\ partial' = [partial EXCEPT ![i] =
                    WriteAt(@, task[t].off, <<link.path, link.pos + 1>>)]
    /\ IF flushes THEN SetRow(i, "partial", off) ELSE UNCHANGED db
    /\ task' = [task EXCEPT ![t] = [@ EXCEPT !.pc = "copy", !.off = off,
                            !.since = IF flushes THEN 0 ELSE task[t].since + 1]]
    /\ busy' = t
    /\ UNCHANGED <<final, cur, engine, spent>>

\* fread at the end of a remote file shorter than the manifest says: the
\* empty chunk closes the handle and is written all the same.
FreadEmpty(t) ==
    LET i == task[t].item  flushes == task[t].since + 1 >= FlushEvery IN
    /\ Resumes(t, "fread")
    /\ Live(t)
    /\ link.path # 0
    /\ link.pos >= RemoteLen[link.path]
    /\ link' = Closed(link)
    /\ IF flushes THEN SetRow(i, "partial", task[t].off) ELSE UNCHANGED db
    /\ task' = [task EXCEPT ![t] = [@ EXCEPT !.pc = "copy",
                            !.since = IF flushes THEN 0 ELSE task[t].since + 1]]
    /\ busy' = t
    /\ UNCHANGED <<partial, final, cur, engine, spent>>

\* fread raised: the session is gone, or another task's read closed the
\* handle, and the next attempt starts over.
FreadRaises(t) ==
    /\ task[t].pc = "fread"
    /\ \/ ~Live(t) /\ Goto(t, Broken(t))
       \/ Live(t) /\ link.path = 0 /\ Goto(t,
            IF task[t].off = 0 \/ link.seeks THEN "read" ELSE "seek")
    /\ UNCHANGED <<db, partial, final, link, cur, engine, busy, spent>>

\* A read fails on a session that is still alive: AFC_READ_RETRY_ATTEMPTS
\* failures in a row at offset 0, one at any other offset.
Glitch(t) ==
    /\ task[t].pc \in ThreadPcs
    /\ Live(t)
    /\ spent.faults < MaxFaults
    /\ link' = Closed(link)
    /\ Goto(t, Broken(t))
    /\ spent' = [spent EXCEPT !.faults = @ + 1]
    /\ UNCHANGED <<db, partial, final, cur, engine, busy>>

\* fh.write raises (disk full): OSError, which fails the item.
WriteFails(t) ==
    /\ Resumes(t, "fread")
    /\ Live(t)
    /\ spent.faults < MaxFaults
    /\ link' = [link EXCEPT !.pos = @ + 1]
    /\ Goto(t, "failed")
    /\ busy' = t
    /\ spent' = [spent EXCEPT !.faults = @ + 1]
    /\ UNCHANGED <<db, partial, final, cur, engine>>

-----------------------------------------------------------------------------
(* The IPC handlers, each on the event loop between two segments of a run.  *)

\* No task is inside a run of e: a fresh TransferEngine object.
Unused(e) == \A t \in Tasks : task[t].pc # "idle" => task[t].eng # e

Spawn(t, e) == task[t].pc = "idle" /\ task' = [task EXCEPT ![t] = NewTask(e)]

\* Mutant of Retried: rows a crash left in_progress are not requeued.
RetriedFailed(row) == IF row.status = "failed"
                      THEN [status |-> "pending", bytes |-> 0] ELSE row

\* _retry_failed_items
Retried(row) == IF row.status \in {"failed", "in_progress"}
                THEN [status |-> "pending", bytes |-> 0] ELSE row

\* transfer.start: a new engine replaces the session's, whatever that one is
\* doing, and a task is created to run it.
Start(t, e) ==
    /\ busy = NoTask
    /\ link.client # 0
    /\ Unused(e)
    /\ db' = [i \in Items |-> Retried(db[i])]
    /\ engine' = [engine EXCEPT ![e] = NewEngine(link.client)]
    /\ cur' = e
    /\ Spawn(t, e)
    /\ UNCHANGED <<partial, final, link, busy, spent>>

Pause ==
    /\ busy = NoTask
    /\ cur # NoEngine
    /\ engine' = [engine EXCEPT ![cur].paused = TRUE]
    /\ UNCHANGED <<db, partial, final, link, cur, task, busy, spent>>

Cancel ==
    /\ busy = NoTask
    /\ cur # NoEngine
    /\ engine' = [engine EXCEPT ![cur].cancelled = TRUE]
    /\ UNCHANGED <<db, partial, final, link, cur, task, busy, spent>>

\* device.connect, called by the UI on device_connected: trust is granted and
\* the old client is closed in a thread ...
ConnectClose ==
    /\ busy = NoTask
    /\ ~link.up /\ ~link.connecting
    /\ spent.clients < MaxClients
    /\ link' = [Closed(link) EXCEPT !.connecting = TRUE]
    /\ UNCHANGED <<db, partial, final, cur, engine, task, busy, spent>>

NewClient ==
    /\ busy = NoTask
    /\ link.connecting
    /\ link' = [Closed(link) EXCEPT !.client = spent.clients + 1,
                                    !.up = TRUE, !.connecting = FALSE]
    /\ spent' = [spent EXCEPT !.clients = @ + 1]

\* Mutant of ConnectDone: the engine keeps its closed client.
ConnectDoneStale(t) ==
    /\ NewClient
    /\ cur # NoEngine
    /\ Spawn(t, cur)
    /\ UNCHANGED <<db, partial, final, cur, engine, busy>>

\* ... then a new one replaces it and resume_session_if_paused hands it to
\* the session's engine and queues one more run.
ConnectDone(t) ==
    /\ NewClient
    /\ cur # NoEngine
    /\ engine' = [engine EXCEPT ![cur].afc = spent.clients + 1]
    /\ Spawn(t, cur)
    /\ UNCHANGED <<db, partial, final, cur, busy>>

ConnectFirst ==
    /\ NewClient
    /\ cur = NoEngine
    /\ UNCHANGED <<db, partial, final, cur, engine, task, busy>>

\* The AFC handshake raises: the closed client stays in state.afc_clients.
ConnectFails ==
    /\ busy = NoTask
    /\ link.connecting
    /\ spent.faults < MaxFaults
    /\ link' = [link EXCEPT !.connecting = FALSE]
    /\ spent' = [spent EXCEPT !.faults = @ + 1]
    /\ UNCHANGED <<db, partial, final, cur, engine, task, busy>>

\* The cable is pulled.
Unplug ==
    /\ link.up
    /\ link' = [link EXCEPT !.up = FALSE]
    /\ UNCHANGED <<db, partial, final, cur, engine, task, busy, spent>>

Lengths == UNION {0..Size[i] : i \in Items}
IsOpen(i) == \E t \in Tasks : Opened(t) /\ task[t].item = i

\* The backend process dies: what it kept in memory is gone, and so may be
\* the buffered tail of a .partial file it had open.
Crash ==
    /\ spent.crashes < MaxCrashes
    /\ \E keep \in [{i \in Items : IsOpen(i)} -> Lengths] :
        partial' = [i \in Items |-> IF IsOpen(i) /\ keep[i] < Len(partial[i])
                                    THEN SubSeq(partial[i], 1, keep[i])
                                    ELSE partial[i]]
    /\ link' = [Closed(link) EXCEPT !.client = 0, !.up = FALSE,
                                    !.connecting = FALSE]
    /\ cur' = NoEngine
    /\ engine' = [e \in Engines |-> NewEngine(0)]
    /\ task' = [t \in Tasks |-> IdleTask]
    /\ busy' = NoTask
    /\ spent' = [spent EXCEPT !.crashes = @ + 1]
    /\ UNCHANGED <<db, final>>

-----------------------------------------------------------------------------
Run(t) ==
    \/ Acquire(t) \/ Leave(t) \/ Select(t) \/ Claim(t) \/ Open(t)
    \/ Request(t) \/ Flush(t) \/ Replace(t) \/ Commit(t)
    \/ SeekUnlink(t) \/ SeekRestart(t) \/ Lost(t) \/ Fail(t) \/ Discard(t)

Read(t) == Position(t) \/ Fread(t) \/ FreadEmpty(t) \/ FreadRaises(t)

Handlers ==
    \/ \E t \in Tasks, e \in Engines : Start(t, e)
    \/ Pause \/ Cancel
    \/ ConnectClose \/ ConnectFirst
    \/ \E t \in Tasks : ConnectDone(t)

Environment ==
    \/ \E t \in Tasks : \/ Glitch(t) \/ WriteFails(t)
                        \/ MkdirFails(t) \/ FileFails(t) \/ UnlinkFails(t)
    \/ ConnectFails \/ Unplug \/ Crash

Next ==
    \/ \E t \in Tasks : Run(t) \/ Read(t)
    \/ Handlers
    \/ Environment

Spec == Init /\ [][Next]_vars

\* The loop and the worker threads make progress, and so does a handshake
\* once device.connect was called; users and devices promise nothing.
Fairness ==
    /\ \A t \in Tasks : WF_vars(Run(t)) /\ WF_vars(Read(t))
    /\ WF_vars(ConnectFirst \/ \E t \in Tasks : ConnectDone(t))

FairSpec == Spec /\ Fairness

-----------------------------------------------------------------------------
(* Properties.                                                              *)

Inside == {t \in Tasks : task[t].pc \notin {"idle", "lock"}}
WorksOn(t, i) == t \in Inside /\ task[t].pc # "loop" /\ task[t].item = i
Settled == \A i \in Items : db[i].status \in {"copied", "failed"}

DbType == db \in [Items -> [status : Statuses, bytes : Nat]]
FileType == /\ partial \in [Items -> Seq(Block)]
            /\ final \in [Items -> Seq(Block)]
LinkType == link \in [client : Nat, up : BOOLEAN, connecting : BOOLEAN,
                      path : Items \union {0}, pos : Nat, seeks : BOOLEAN]
EngineRecord == [paused : BOOLEAN, cancelled : BOOLEAN, afc : Nat,
                 lock : Tasks \union {NoTask}, outcome : Outcomes]
EngineType ==
    /\ cur \in Engines \union {NoEngine}
    /\ engine \in [Engines -> EngineRecord]
TaskRecord == [pc : Pcs, eng : Engines \union {NoEngine},
               item : Items \union {0}, off : Nat, since : Nat,
               depth : Nat, afc : Nat]
TaskType ==
    /\ busy \in Tasks \union {NoTask}
    /\ task \in [Tasks -> TaskRecord]
    /\ \A t \in Tasks :
        /\ task[t].pc # "idle" => task[t].eng \in Engines
        /\ task[t].pc \notin {"idle", "lock", "loop"} => task[t].item \in Items
SpentType == spent \in [clients : Nat, faults : Nat, crashes : Nat]

\* Every variable has its type.
TypeOK ==
    /\ DbType /\ FileType /\ LinkType /\ EngineType /\ TaskType /\ SpentType

\* A row only says copied when the finished file under the destination holds
\* every byte of the manifest's size, each from the right place of the right
\* remote file, whatever was restarted, resumed or cut short on the way.
CopiedIsComplete ==
    \A i \in Items : db[i].status = "copied" => final[i] = Source(i)

\* Whatever a .partial file holds is the beginning of its own remote file, so
\* an offset taken from its size may be trusted (_resume_offset).
PartialIsPrefix ==
    \A i \in Items : /\ Len(partial[i]) <= Size[i]
                     /\ \A k \in 1..Len(partial[i]) : partial[i][k] = <<i, k>>

\* Two calls of run() on the same engine never overlap (the run lock).
OneRunPerEngine ==
    \A t, u \in Inside : task[t].eng = task[u].eng => t = u

\* While the backend has an engine, a row that says in_progress is being
\* copied by a live run: rows orphaned by a crash were requeued by the start.
NoOrphan ==
    cur # NoEngine =>
        \A i \in Items : db[i].status = "in_progress" =>
            \E t \in Tasks : WorksOn(t, i)

\* run() answers DRAINED, which starts the verification of the whole device,
\* only when no row is left that could still be copied.
DrainedMeansSettled ==
    [][(\E t \in Tasks : /\ task[t].pc = "loop"
                         /\ task'[t].pc = "idle"
                         /\ engine'[task[t].eng].outcome = "drained")
        => Settled]_vars

\* How far each copy is, and whether its file is there, for the abstract
\* specification.
Stage == [i \in Items |-> IF db[i].status \in {"copied", "failed"}
                          THEN db[i].status ELSE "due"]
Whole == [i \in Items |-> final[i] = Source(i)]

Promise == INSTANCE Copying WITH stage <- Stage, whole <- Whole
\* The queue keeps what module Copying says of a copy, which is what
\* VerifyDelete and Manifest take it for: a row says copied only over a whole
\* file, and whatever runs, resumes, fails or dies after that leaves the row
\* and the file alone.
KeepsCopying == Promise!Spec

\* Every run ends: no task waits for the lock or a read for ever.
RunsEnd == \A t \in Tasks :
    (task[t].pc = "lock" /\ ~link.seeks) ~> task[t].pc = "idle"

\* A connection that comes back and stays finishes the copy by itself, unless
\* the user stopped it, the backend is started anew, or a run gave up: as
\* disconnected, when reads failed on a live link, or by an exception, when the
\* destination or a .partial could not be touched.  No event follows those.
StoppedByUser ==
    cur # NoEngine /\ engine[cur].outcome \in {"paused", "cancelled"}
GaveUp ==
    /\ spent.faults > 0 /\ cur # NoEngine
    /\ engine[cur].outcome \in {"disconnected", "raised"}
ReconnectDrains ==
    <>[](link.up /\ ~link.seeks /\ cur # NoEngine) =>
        <>(Settled \/ StoppedByUser \/ GaveUp)

=============================================================================
