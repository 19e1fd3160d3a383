----------------------- MODULE TransferEngine_copies ------------------------
(***************************************************************************)
(* What a single engine copies is right, for any number of items of any    *)
(* size, served in any length, any number of tasks, reconnections, failed  *)
(* reads and crashes.  With two engines on one session it is not: see the  *)
(* run TransferEngine_two_content.                                         *)
(***************************************************************************)
EXTENDS TransferEngine_proofs

OneEngine == \A e, f \in Engines : e = f
Alone(t) == \A u \in Tasks \ {t} : task[u].pc \in {"idle", "lock"}
OthersRest(t) == \A u \in Tasks \ {t} : task'[u] = task[u]

-----------------------------------------------------------------------------
(* With one engine, its lock lets one task inside; that task is the only     *)
(* one that a step of a run may change.                                      *)

\* A file operation of the run raises.
FileTrouble(t) == MkdirFails(t) \/ FileFails(t) \/ UnlinkFails(t)
Moves(t) == Run(t) \/ Read(t) \/ Glitch(t) \/ WriteFails(t) \/ FileTrouble(t)

LEMMA MovesAlone ==
    ASSUME TypeOK, LockInv, OneEngine, NEW t \in Tasks, Moves(t)
    PROVE  Alone(t)
<1>1. \A u \in Inside : /\ u \in Tasks /\ task[u].eng \in Engines
                        /\ engine[task[u].eng].lock = u
  BY DEF LockInv, Inside, TypeOK, TaskType
<1>2. CASE Acquire(t) \/ MkdirFails(t)
  <2>1. /\ task[t].eng \in Engines /\ engine[task[t].eng].lock = NoTask
    BY <1>2 DEF Acquire, MkdirFails, Resumes, TypeOK, TaskType
  <2>2. Inside = {}
    BY <1>1, <2>1, NamesAssumption DEF OneEngine
  <2> QED
    BY <2>2 DEF Alone, Inside
<1>3. CASE ~(Acquire(t) \/ MkdirFails(t))
  <2>1. t \in Inside
    BY <1>3 DEF Moves, FileTrouble, FileFails, UnlinkFails, Run, Read, Leave, Select,
        Claim, Open, Request, Flush, Replace,
        Commit, SeekUnlink, SeekRestart, Lost, Fail, Discard, Position, Fread,
        FreadEmpty, FreadRaises, Glitch, WriteFails, OnLoop, Resumes, ThreadPcs, Inside
  <2>2. \A u \in Inside : u = t
    BY <1>1, <2>1 DEF OneEngine
  <2> QED
    BY <2>2 DEF Alone, Inside
<1> QED
  BY <1>2, <1>3

LEMMA MovesOnly ==
    ASSUME TypeOK, NEW t \in Tasks, Moves(t)
    PROVE  OthersRest(t)
<1>1. task \in [Tasks -> TaskRecord]
  BY DEF TypeOK, TaskType
<1>2. ASSUME NEW p, Goto(t, p) PROVE OthersRest(t)
  BY <1>1, <1>2 DEF Goto, OthersRest
<1>3. ASSUME NEW o, Release(t, o) PROVE OthersRest(t)
  BY <1>1, <1>3 DEF Release, OthersRest
<1>4. CASE Select(t) \/ Claim(t) \/ Open(t) \/ Request(t) \/ SeekRestart(t)
             \/ Fread(t) \/ FreadEmpty(t)
  BY <1>1, <1>2, <1>4 DEF Select, Claim, Open, Request, SeekRestart, Fread,
                          FreadEmpty, OthersRest
<1>5. CASE Acquire(t) \/ Leave(t) \/ Flush(t) \/ Replace(t) \/ Commit(t)
             \/ SeekUnlink(t) \/ Lost(t) \/ Fail(t) \/ Discard(t)
  BY <1>2, <1>3, <1>5 DEF Acquire, Leave, Flush, Replace, Commit, SeekUnlink, Lost,
                          Fail, Discard
<1>6. CASE Position(t) \/ FreadRaises(t) \/ Glitch(t) \/ WriteFails(t)
  BY <1>2, <1>6 DEF Position, FreadRaises, Glitch, WriteFails
<1>7. CASE FileTrouble(t)
  BY <1>1, <1>2, <1>3, <1>7 DEF FileTrouble, MkdirFails, FileFails, UnlinkFails,
                                OthersRest
<1> QED
  BY <1>4, <1>5, <1>6, <1>7 DEF Moves, Run, Read

-----------------------------------------------------------------------------
(* The copy under way: the offset is the size of the .partial file, and an   *)
(* AFC handle that is open stands where the next chunk is.                   *)

InStep(t) ==
    LET i == task[t].item  off == task[t].off IN
    /\ task[t].pc \in OpenPcs => off = Len(partial[i])
    /\ task[t].pc \in ThreadPcs => off < Size[i]
    /\ task[t].pc = "fread" /\ link.path # 0 => link.path = i /\ link.pos = off
    /\ task[t].pc = "open" => off \in {0, Len(partial[i])}
    /\ task[t].pc = "replace" => Len(partial[i]) = Size[i]
    /\ task[t].pc = "commit" => final[i] = Source(i)
    /\ task[t].pc = "discard" => db[i].status = "failed"
CopyInv == PartialIsPrefix /\ CopiedIsComplete /\ \A t \in Tasks : InStep(t)

\* Between these a task keeps no promise about the file.
FreePcs == {"idle", "lock", "loop", "item", "requeue", "seek", "lost", "failed"}

LEMMA FreeInStep ==
    ASSUME NEW t \in Tasks, task'[t].pc \in FreePcs
    PROVE  InStep(t)'
BY DEF FreePcs, InStep, OpenPcs, ThreadPcs

LEMMA StepCopy ==
    ASSUME NEW t \in Tasks, Alone(t), OthersRest(t),
           PartialIsPrefix', CopiedIsComplete', InStep(t)'
    PROVE  CopyInv'
<1>1. \A u \in Tasks \ {t} : InStep(u)'
  BY FreeInStep DEF Alone, OthersRest, FreePcs
<1> QED
  BY <1>1 DEF CopyInv

\* Emptying a .partial keeps the prefixes, a row that is not set to copied
\* keeps what the copied ones promise.
LEMMA PrefixStands ==
    ASSUME TypeOK, PartialIsPrefix,
           \/ partial' = partial
           \/ \E i \in Items : partial' = [partial EXCEPT ![i] = <<>>]
    PROVE  PartialIsPrefix'
<1>1. partial \in [Items -> Seq(Block)] /\ Size \in [Items -> Nat]
  BY ItemsAssumption DEF TypeOK, FileType
<1>2. Len(<<>>) = 0 /\ \A k \in 1..0 : FALSE
  OBVIOUS
<1> QED
  BY <1>1, <1>2 DEF PartialIsPrefix

LEMMA CopiedStands ==
    ASSUME CopiedIsComplete, final' = final,
           \A i \in Items : db'[i].status = "copied" => db[i].status = "copied"
    PROVE  CopiedIsComplete'
BY DEF CopiedIsComplete, Source

LEMMA RowSet ==
    ASSUME TypeOK, NEW i \in Items, NEW s, NEW b,
           SetRow(i, s, b) \/ SetStatus(i, s)
    PROVE  /\ db'[i].status = s
           /\ \A j \in Items \ {i} : db'[j] = db[j]
BY DEF TypeOK, DbType, SetRow, SetStatus

LEMMA WriteNext ==
    ASSUME NEW i \in Items, NEW f \in Seq(Block), Len(f) < Size[i],
           \A k \in 1..Len(f) : f[k] = <<i, k>>
    PROVE  LET g == WriteAt(f, Len(f), <<i, Len(f) + 1>>) IN
           /\ Len(g) = Len(f) + 1
           /\ Len(g) <= Size[i]
           /\ \A k \in 1..Len(g) : g[k] = <<i, k>>
<1> DEFINE n == Len(f)
           g == WriteAt(f, n, <<i, n + 1>>)
<1>1. n \in Nat /\ Size[i] \in Nat /\ n < Size[i]
  BY ItemsAssumption
<1>2. g = [k \in 1..(n + 1) |-> IF k = n + 1 THEN <<i, n + 1>>
                                ELSE IF k <= n THEN f[k] ELSE Hole]
  BY <1>1 DEF WriteAt
<1>3. i \in Nat /\ <<i, n + 1>> \in Block
  BY <1>1 DEF Block, Items
<1>4. g \in Seq(Block)
  BY <1>1, <1>3, WriteAtType
<1>5. DOMAIN g = 1..(n + 1) /\ DOMAIN g = 1..Len(g) /\ Len(g) \in Nat
  BY <1>2, <1>4
<1>6. Len(g) = n + 1
  <2> DEFINE m == Len(g)
  <2>1. m \in Nat /\ \A k \in Nat : k \in 1..m <=> k \in 1..(n + 1)
    BY <1>5
  <2> HIDE DEF m
  <2>2. n + 1 \in 1..m
    BY <1>1, <2>1
  <2>3. m \in 1..(n + 1)
    BY <1>1, <2>1, <2>2
  <2> QED
    BY <1>1, <2>1, <2>2, <2>3 DEF m
<1>7. \A k \in 1..(n + 1) : g[k] = <<i, k>>
  <2> SUFFICES ASSUME NEW k \in 1..(n + 1) PROVE g[k] = <<i, k>>
    OBVIOUS
  <2>1. CASE k = n + 1
    BY <1>2, <2>1
  <2>2. CASE k # n + 1
    <3>1. k \in 1..n
      BY <1>1, <2>2
    <3>2. g[k] = f[k]
      BY <1>1, <1>2, <2>2, <3>1
    <3> QED
      BY <3>1, <3>2
  <2> QED
    BY <2>1, <2>2
<1> HIDE DEF g
<1>8. Len(g) <= Size[i]
  BY <1>1, <1>6
<1> QED
  BY <1>6, <1>7, <1>8 DEF g

-----------------------------------------------------------------------------
(* One lemma per part of a run.                                             *)

\* The head of a run and of an item, up to the open file.
LEMMA HeadCopy ==
    ASSUME TypeOK, CopyInv, NEW t \in Tasks, Alone(t), OthersRest(t),
           Acquire(t) \/ Leave(t) \/ Select(t) \/ Claim(t) \/ Open(t) \/ Request(t)
    PROVE  CopyInv'
<1>0. /\ task \in [Tasks -> TaskRecord] /\ task[t] \in TaskRecord
      /\ task[t].pc \in {"item", "open", "copy"} => task[t].item \in Items
      /\ partial \in [Items -> Seq(Block)]
      /\ InStep(t) /\ PartialIsPrefix /\ CopiedIsComplete
  BY DEF TypeOK, TaskType, FileType, CopyInv
<1>1. CASE Acquire(t) \/ Leave(t) \/ Select(t)
  <2>1. UNCHANGED <<partial, db, final>>
    BY <1>1 DEF Acquire, Leave, Select
  <2>2. ASSUME Acquire(t) PROVE task'[t].pc \in FreePcs
    BY <1>0, <2>2 DEF Acquire, Goto, TaskRecord, FreePcs
  <2>3. ASSUME Leave(t) PROVE task'[t].pc \in FreePcs
    BY <1>0, <2>3 DEF Leave, Release, IdleTask, FreePcs
  <2>4. ASSUME Select(t) PROVE task'[t].pc \in FreePcs
    BY <1>0, <2>4 DEF Select, TaskRecord, FreePcs
  <2>5. task'[t].pc \in FreePcs
    BY <1>1, <2>2, <2>3, <2>4
  <2> QED
    BY <1>0, <2>1, <2>5, FreeInStep, PrefixStands, CopiedStands, StepCopy
<1>2. CASE Claim(t)
  <2> DEFINE i == task[t].item
  <2>1. /\ task'[t].pc = "open" /\ task'[t].item = i
        /\ task'[t].off = IF Len(partial[i]) = db[i].bytes THEN db[i].bytes ELSE 0
        /\ SetStatus(i, "in_progress") /\ UNCHANGED <<partial, final>>
        /\ i \in Items
    BY <1>0, <1>2 DEF Claim, OnLoop, TaskRecord
  <2>2. \A j \in Items : db'[j].status = "copied" => db[j].status = "copied"
    BY <2>1, RowSet
  <2>3. InStep(t)'
    BY <2>1 DEF InStep, OpenPcs, ThreadPcs
  <2> QED
    BY <1>0, <2>1, <2>2, <2>3, PrefixStands, CopiedStands, StepCopy
<1>3. CASE Open(t)
  <2> DEFINE i == task[t].item
  <2>1. /\ task[t].pc = "open" /\ i \in Items
        /\ task'[t].pc = "copy" /\ task'[t].item = i /\ task'[t].off = task[t].off
        /\ UNCHANGED <<db, final, link>>
    BY <1>0, <1>3 DEF Open, OnLoop, TaskRecord
  <2>2. task[t].off \in Nat /\ task[t].off \in {0, Len(partial[i])}
    BY <1>0, <2>1 DEF InStep, TaskRecord
  <2>3. \/ task[t].off > 0 /\ partial' = partial
        \/ task[t].off = 0 /\ partial' = [partial EXCEPT ![i] = <<>>]
    BY <1>3, <2>2 DEF Open
  <2>4. task[t].off = Len(partial'[i])
    <3>1. Len(<<>>) = 0
      OBVIOUS
    <3> QED
      BY <1>0, <2>1, <2>2, <2>3, <3>1
  <2>5. InStep(t)'
    BY <2>1, <2>4 DEF InStep, OpenPcs, ThreadPcs
  <2>6. PartialIsPrefix'
    BY <1>0, <2>1, <2>3, PrefixStands
  <2> QED
    BY <1>0, <2>1, <2>5, <2>6, CopiedStands, StepCopy
<1>4. CASE Request(t)
  <2>1. /\ task[t].pc = "copy" /\ task'[t].pc = "read"
        /\ task'[t].item = task[t].item /\ task'[t].off = task[t].off
        /\ task[t].off < Size[task[t].item]
        /\ UNCHANGED <<partial, db, final>>
    BY <1>0, <1>4 DEF Request, OnLoop, TaskRecord
  <2>2. InStep(t)'
    BY <1>0, <2>1 DEF InStep, OpenPcs, ThreadPcs
  <2> QED
    BY <1>0, <2>1, <2>2, PrefixStands, CopiedStands, StepCopy
<1> QED
  BY <1>1, <1>2, <1>3, <1>4

\* The end of a copy, and the ways an item fails or is put back.
LEMMA EndCopy ==
    ASSUME TypeOK, CopyInv, NEW t \in Tasks, Alone(t), OthersRest(t),
           Flush(t) \/ Replace(t) \/ Commit(t) \/ SeekUnlink(t) \/ SeekRestart(t)
              \/ Lost(t) \/ Fail(t) \/ Discard(t)
    PROVE  CopyInv'
<1>0. /\ task \in [Tasks -> TaskRecord] /\ task[t] \in TaskRecord
      /\ task[t].pc \notin {"idle", "lock", "loop"} => task[t].item \in Items
      /\ partial \in [Items -> Seq(Block)] /\ final \in [Items -> Seq(Block)]
      /\ Size \in [Items -> Nat]
      /\ InStep(t) /\ PartialIsPrefix /\ CopiedIsComplete
  BY ItemsAssumption DEF TypeOK, TaskType, FileType, CopyInv
<1> DEFINE i == task[t].item
<1>1. ASSUME NEW p, Goto(t, p)
      PROVE  task'[t].pc = p /\ task'[t].item = i /\ task'[t].off = task[t].off
  BY <1>0, <1>1 DEF Goto, TaskRecord
<1>2. CASE Flush(t)
  <2>1. /\ task[t].pc = "copy" /\ i \in Items /\ task[t].off >= Size[i]
        /\ SetRow(i, "partial", task[t].off) /\ Goto(t, "replace")
        /\ UNCHANGED <<partial, final>>
    BY <1>0, <1>2 DEF Flush, OnLoop
  <2>2. Len(partial[i]) = Size[i]
    BY <1>0, <2>1 DEF InStep, OpenPcs, PartialIsPrefix
  <2>3. InStep(t)'
    BY <1>1, <2>1, <2>2 DEF InStep, OpenPcs, ThreadPcs
  <2>4. \A j \in Items : db'[j].status = "copied" => db[j].status = "copied"
    BY <2>1, RowSet
  <2> QED
    BY <1>0, <2>1, <2>3, <2>4, PrefixStands, CopiedStands, StepCopy
<1>3. CASE Replace(t)
  <2>1. /\ task[t].pc = "replace" /\ i \in Items /\ db' = db
        /\ \/ Goto(t, "failed") /\ UNCHANGED <<partial, final>>
           \/ /\ final' = [final EXCEPT ![i] = partial[i]]
              /\ partial' = [partial EXCEPT ![i] = <<>>]
              /\ Goto(t, "commit")
    BY <1>0, <1>3 DEF Replace, OnLoop
  <2>2. partial[i] = Source(i)
    <3>1. /\ partial[i] \in Seq(Block) /\ Len(partial[i]) = Size[i]
          /\ \A k \in 1..Len(partial[i]) : partial[i][k] = <<i, k>>
      BY <1>0, <2>1 DEF InStep, PartialIsPrefix
    <3>2. partial[i] = [k \in 1..Len(partial[i]) |-> partial[i][k]]
      BY <3>1
    <3> QED
      BY <3>1, <3>2 DEF Source
  <2>3. PartialIsPrefix'
    BY <1>0, <2>1, PrefixStands
  <2>4. CASE Goto(t, "failed") /\ UNCHANGED <<partial, final>>
    BY <1>0, <1>1, <2>1, <2>3, <2>4, FreeInStep, CopiedStands, StepCopy DEF FreePcs
  <2>5. CASE final' = [final EXCEPT ![i] = partial[i]] /\ Goto(t, "commit")
    <3>1. final'[i] = Source(i) /\ \A j \in Items \ {i} : final'[j] = final[j]
      BY <1>0, <2>1, <2>2, <2>5
    <3>2. CopiedIsComplete'
      BY <1>0, <2>1, <3>1 DEF CopiedIsComplete, Source
    <3>3. InStep(t)'
      <4>1. task'[t].pc = "commit" /\ task'[t].item = i
        BY <1>1, <2>5
      <4>2. final'[i] = Source(i)
        BY <3>1
      <4> HIDE DEF i
      <4> QED
        BY <4>1, <4>2 DEF InStep, OpenPcs, ThreadPcs, Source
    <3> QED
      BY <2>3, <3>2, <3>3, StepCopy
  <2> QED
    BY <2>1, <2>4, <2>5
<1>4. CASE Commit(t)
  <2>1. /\ task[t].pc = "commit" /\ i \in Items /\ UNCHANGED <<partial, final>>
        /\ SetRow(i, "copied", Size[i]) /\ Goto(t, "loop")
    BY <1>0, <1>4 DEF Commit, OnLoop
  <2>2. final[i] = Source(i)
    BY <1>0, <2>1 DEF InStep
  <2>3. CopiedIsComplete'
    <3>1. /\ \A j \in Items \ {i} : db'[j] = db[j]
          /\ final' = final
      BY <2>1, RowSet
    <3>2. \A j \in Items : db[j].status = "copied" => final[j] = Source(j)
      BY <1>0 DEF CopiedIsComplete
    <3> HIDE DEF i
    <3>3. \A j \in Items : db'[j].status = "copied" => final'[j] = Source(j)
      BY <2>2, <3>1, <3>2
    <3> QED
      BY <3>3 DEF CopiedIsComplete, Source
  <2> QED
    BY <1>0, <1>1, <2>1, <2>3, FreeInStep, PrefixStands, StepCopy DEF FreePcs
<1>5. CASE SeekUnlink(t)
  <2>1. /\ i \in Items /\ UNCHANGED <<db, final>>
        /\ Goto(t, "failed") \/ Goto(t, "requeue")
        /\ partial' = partial \/ partial' = [partial EXCEPT ![i] = <<>>]
    BY <1>0, <1>5 DEF SeekUnlink, Resumes
  <2>2. task'[t].pc \in FreePcs
    BY <1>1, <2>1 DEF FreePcs
  <2> QED
    BY <1>0, <2>1, <2>2, FreeInStep, PrefixStands, CopiedStands, StepCopy
<1>6. CASE SeekRestart(t) \/ Lost(t)
  <2>1. /\ i \in Items /\ UNCHANGED <<partial, final>>
        /\ SetRow(i, "pending", 0) \/ SetStatus(i, "partial")
    BY <1>0, <1>6 DEF SeekRestart, Lost, OnLoop, Resumes
  <2>2. task'[t].pc \in FreePcs
    <3>1. CASE SeekRestart(t) /\ task[t].depth < MaxDepth
      BY <1>0, <3>1 DEF SeekRestart, TaskRecord, FreePcs
    <3>2. CASE SeekRestart(t) /\ ~(task[t].depth < MaxDepth)
      BY <1>1, <3>2 DEF SeekRestart, FreePcs
    <3>3. CASE Lost(t)
      BY <1>0, <3>3 DEF Lost, Release, IdleTask, FreePcs
    <3> QED
      BY <1>6, <3>1, <3>2, <3>3
  <2>3. \A j \in Items : db'[j].status = "copied" => db[j].status = "copied"
    BY <2>1, RowSet
  <2> QED
    BY <1>0, <2>1, <2>2, <2>3, FreeInStep, PrefixStands, CopiedStands, StepCopy
<1>7. CASE Fail(t)
  <2>1. /\ i \in Items /\ UNCHANGED <<partial, final>>
        /\ SetStatus(i, "failed") /\ Goto(t, "discard")
    BY <1>0, <1>7 DEF Fail, Resumes
  <2>2. db'[i].status = "failed"
    BY <2>1, RowSet
  <2>3. \A j \in Items : db'[j].status = "copied" => db[j].status = "copied"
    BY <2>1, RowSet
  <2>4. InStep(t)'
    BY <1>1, <2>1, <2>2 DEF InStep, OpenPcs, ThreadPcs
  <2> QED
    BY <1>0, <2>1, <2>3, <2>4, PrefixStands, CopiedStands, StepCopy
<1>8. CASE Discard(t)
  <2>1. /\ i \in Items /\ UNCHANGED <<db, final>>
        /\ partial' = partial \/ partial' = [partial EXCEPT ![i] = <<>>]
    BY <1>0, <1>8 DEF Discard, OnLoop
  <2>2. task'[t].pc \in FreePcs
    BY <1>0, <1>1, <1>8 DEF Discard, Release, IdleTask, FreePcs
  <2> QED
    BY <1>0, <2>1, <2>2, FreeInStep, PrefixStands, CopiedStands, StepCopy
<1> QED
  BY <1>2, <1>3, <1>4, <1>5, <1>6, <1>7, <1>8

\* The worker thread: a chunk that is read is the next one of its own file.
LEMMA ReadCopy ==
    ASSUME TypeOK, CopyInv, NEW t \in Tasks, Alone(t), OthersRest(t),
           Read(t) \/ Glitch(t) \/ WriteFails(t)
    PROVE  CopyInv'
<1>0. /\ task \in [Tasks -> TaskRecord] /\ task[t] \in TaskRecord
      /\ task[t].pc \notin {"idle", "lock", "loop"} => task[t].item \in Items
      /\ partial \in [Items -> Seq(Block)]
      /\ InStep(t) /\ PartialIsPrefix /\ CopiedIsComplete
  BY DEF TypeOK, TaskType, FileType, CopyInv
<1> DEFINE i == task[t].item
           off == task[t].off
<1>1. ASSUME NEW p, Goto(t, p)
      PROVE  task'[t].pc = p /\ task'[t].item = i /\ task'[t].off = off
  BY <1>0, <1>1 DEF Goto, TaskRecord
<1>2. link \in [client : Nat, up : BOOLEAN, connecting : BOOLEAN,
                path : Items \union {0}, pos : Nat, seeks : BOOLEAN]
  BY DEF TypeOK, LinkType
<1>3. Broken(t) \in FreePcs
  BY DEF Broken, FreePcs
\* A read that leads to the worker's next attempt or to none.
<1>4. ASSUME NEW p \in FreePcs, Goto(t, p), UNCHANGED <<partial, db, final>>
      PROVE  CopyInv'
  BY <1>0, <1>1, <1>4, FreeInStep, PrefixStands, CopiedStands, StepCopy
<1>5. CASE Position(t)
  <2>1. task[t].pc = "read" /\ UNCHANGED <<partial, db, final>>
    BY <1>5 DEF Position
  <2>2. CASE Goto(t, "fread") /\ link'.path = i /\ link'.pos = off
    <3>1. off = Len(partial[i]) /\ off < Size[i]
      BY <1>0, <2>1 DEF InStep, OpenPcs, ThreadPcs
    <3>2. /\ task'[t].pc = "fread" /\ task'[t].item = i /\ task'[t].off = off
      BY <1>1, <2>2
    <3>3. InStep(t)'
      BY <2>1, <2>2, <3>1, <3>2 DEF InStep, OpenPcs, ThreadPcs
    <3> QED
      BY <1>0, <2>1, <3>3, PrefixStands, CopiedStands, StepCopy
  <2>3. CASE \E p \in FreePcs : Goto(t, p)
    BY <1>4, <2>1, <2>3
  <2>4. \/ Goto(t, "fread") /\ link'.path = i /\ link'.pos = off
        \/ \E p \in FreePcs : Goto(t, p)
    <3>1. CASE Goto(t, "failed") \/ Goto(t, "seek") \/ Goto(t, Broken(t))
      BY <1>3, <3>1 DEF FreePcs
    <3>2. CASE HandleAt(t) /\ Goto(t, "fread") /\ UNCHANGED link
      BY <3>2 DEF HandleAt
    <3>3. CASE Goto(t, "fread") /\ link' = [link EXCEPT !.path = i, !.pos = off]
      BY <1>2, <3>3
    <3> QED
      BY <1>5, <3>1, <3>2, <3>3 DEF Position
  <2> QED
    BY <2>2, <2>3, <2>4
<1>6. CASE Fread(t)
  <2>1. /\ task[t].pc = "fread" /\ link.path # 0 /\ i \in Items
        /\ task'[t].pc = "copy" /\ task'[t].item = i /\ task'[t].off = off + 1
        /\ partial' = [partial EXCEPT ![i] =
                        WriteAt(partial[i], off, <<link.path, link.pos + 1>>)]
        /\ SetRow(i, "partial", off + 1) \/ UNCHANGED db
        /\ UNCHANGED final
    <3>1. PICK since : task' = [task EXCEPT ![t] =
             [task[t] EXCEPT !.pc = "copy", !.off = off + 1, !.since = since]]
      BY <1>6 DEF Fread
    <3>2. task'[t].pc = "copy" /\ task'[t].item = i /\ task'[t].off = off + 1
      BY <1>0, <3>1 DEF TaskRecord
    <3>3. task[t].pc = "fread" /\ link.path # 0 /\ i \in Items /\ UNCHANGED final
      BY <1>0, <1>6 DEF Fread, Resumes
    <3>4. /\ partial' = [partial EXCEPT ![i] =
                           WriteAt(partial[i], off, <<link.path, link.pos + 1>>)]
          /\ SetRow(i, "partial", off + 1) \/ UNCHANGED db
      BY <1>6 DEF Fread
    <3> QED
      BY <3>2, <3>3, <3>4
  <2>2. /\ off = Len(partial[i]) /\ off < Size[i]
        /\ link.path = i /\ link.pos = off
    BY <1>0, <2>1 DEF InStep, OpenPcs, ThreadPcs
  <2>3. /\ partial[i] \in Seq(Block)
        /\ \A k \in 1..Len(partial[i]) : partial[i][k] = <<i, k>>
    BY <1>0, <2>1 DEF PartialIsPrefix
  <2>4. partial'[i] = WriteAt(partial[i], Len(partial[i]), <<i, Len(partial[i]) + 1>>)
    BY <1>0, <2>1, <2>2
  <2>5. \A j \in Items \ {i} : partial'[j] = partial[j]
    BY <1>0, <2>1
  <2> HIDE DEF i, off
  <2>6. /\ Len(partial'[i]) = off + 1 /\ Len(partial'[i]) <= Size[i]
        /\ \A k \in 1..Len(partial'[i]) : partial'[i][k] = <<i, k>>
    <3> DEFINE f == partial[i]
               g == WriteAt(f, Len(f), <<i, Len(f) + 1>>)
    <3>1. /\ i \in Items /\ f \in Seq(Block) /\ Len(f) < Size[i]
          /\ \A k \in 1..Len(f) : f[k] = <<i, k>>
      BY <2>1, <2>2, <2>3
    <3> HIDE DEF f
    <3>2. /\ Len(g) = Len(f) + 1 /\ Len(g) <= Size[i]
          /\ \A k \in 1..Len(g) : g[k] = <<i, k>>
      BY <3>1, WriteNext
    <3>3. off = Len(f) /\ partial'[i] = g
      BY <2>2, <2>4 DEF f
    <3> HIDE DEF g
    <3> QED
      BY <3>2, <3>3
  <2>7. PartialIsPrefix'
    BY <1>0, <2>5, <2>6 DEF PartialIsPrefix
  <2>8. InStep(t)'
    BY <2>1, <2>6 DEF InStep, OpenPcs, ThreadPcs
  <2>9. \A j \in Items : db'[j].status = "copied" => db[j].status = "copied"
    BY <2>1, RowSet
  <2> QED
    BY <1>0, <2>1, <2>7, <2>8, <2>9, CopiedStands, StepCopy
<1>7. CASE FreadEmpty(t)
  <2>1. /\ task[t].pc = "fread" /\ i \in Items
        /\ task'[t].pc = "copy" /\ task'[t].item = i /\ task'[t].off = off
        /\ SetRow(i, "partial", off) \/ UNCHANGED db
        /\ UNCHANGED <<partial, final>>
    BY <1>0, <1>7 DEF FreadEmpty, Resumes, TaskRecord
  <2>2. off = Len(partial[i])
    BY <1>0, <2>1 DEF InStep, OpenPcs
  <2>3. InStep(t)'
    BY <2>1, <2>2 DEF InStep, OpenPcs, ThreadPcs
  <2>4. \A j \in Items : db'[j].status = "copied" => db[j].status = "copied"
    BY <2>1, RowSet
  <2> QED
    BY <1>0, <2>1, <2>3, <2>4, PrefixStands, CopiedStands, StepCopy
<1>8. CASE FreadRaises(t)
  <2>1. /\ task[t].pc = "fread" /\ UNCHANGED <<partial, db, final>>
        /\ \/ Goto(t, Broken(t)) \/ Goto(t, "seek")
           \/ Goto(t, "read")
    BY <1>8 DEF FreadRaises
  <2>2. CASE Goto(t, "read")
    <3>1. off = Len(partial[i]) /\ off < Size[i]
      BY <1>0, <2>1 DEF InStep, OpenPcs, ThreadPcs
    <3>2. /\ task'[t].pc = "read" /\ task'[t].item = i /\ task'[t].off = off
      BY <1>1, <2>2
    <3>3. InStep(t)'
      BY <2>1, <3>1, <3>2 DEF InStep, OpenPcs, ThreadPcs
    <3> QED
      BY <1>0, <2>1, <3>3, PrefixStands, CopiedStands, StepCopy
  <2>3. "seek" \in FreePcs
    BY DEF FreePcs
  <2> QED
    BY <1>3, <1>4, <2>1, <2>2, <2>3
<1>9. CASE Glitch(t) \/ WriteFails(t)
  <2>1. "failed" \in FreePcs
    BY DEF FreePcs
  <2> QED
    BY <1>3, <1>4, <1>9, <2>1 DEF Glitch, WriteFails
<1> QED
  BY <1>5, <1>6, <1>7, <1>8, <1>9 DEF Read

\* A file operation that raises leaves the files and the rows as they are.
LEMMA TroubleCopy ==
    ASSUME TypeOK, CopyInv, NEW t \in Tasks, Alone(t), OthersRest(t), FileTrouble(t)
    PROVE  CopyInv'
<1>1. task \in [Tasks -> TaskRecord] /\ PartialIsPrefix /\ CopiedIsComplete
  BY DEF TypeOK, TaskType, CopyInv
<1>2. UNCHANGED <<partial, db, final>>
  BY DEF FileTrouble, MkdirFails, FileFails, UnlinkFails
<1>3. task'[t].pc \in {"idle", "failed"}
  BY <1>1 DEF FileTrouble, MkdirFails, FileFails, UnlinkFails, Release, Goto,
              IdleTask, TaskRecord
<1> QED
  BY <1>1, <1>2, <1>3, FreeInStep, PrefixStands, CopiedStands, StepCopy DEF FreePcs

\* The handlers and the world leave files and rows alone, but for what a crash
\* cuts off and a start requeues; a new session has no open handle.
LEMMA OthersCopy ==
    ASSUME TypeOK, CopyInv, OneEngine, Handlers \/ ConnectFails \/ Unplug \/ Crash
    PROVE  CopyInv'
<1>0. /\ task \in [Tasks -> TaskRecord] /\ partial \in [Items -> Seq(Block)]
      /\ Size \in [Items -> Nat] /\ db \in [Items -> [status : Statuses, bytes : Nat]]
      /\ link \in [client : Nat, up : BOOLEAN, connecting : BOOLEAN,
                   path : Items \union {0}, pos : Nat, seeks : BOOLEAN]
      /\ PartialIsPrefix /\ CopiedIsComplete /\ \A t \in Tasks : InStep(t)
  BY ItemsAssumption DEF TypeOK, TaskType, FileType, DbType, LinkType, CopyInv
<1>1. ASSUME NEW t \in Tasks, task'[t] = task[t], UNCHANGED <<partial, db, final>>,
             link'.path = 0 \/ (link'.path = link.path /\ link'.pos = link.pos)
      PROVE  InStep(t)'
  BY <1>0, <1>1 DEF InStep, Source
<1>2. ASSUME NEW t \in Tasks, NEW e, Spawn(t, e)
      PROVE  task'[t].pc \in FreePcs /\ OthersRest(t)
  BY <1>0, <1>2 DEF Spawn, NewTask, IdleTask, FreePcs, OthersRest
<1>3. ASSUME NEW t \in Tasks, NEW e \in Engines, Start(t, e)
      PROVE  CopyInv'
  <2>1. \A u \in Tasks : task[u].pc = "idle"
    BY <1>3 DEF Start, Unused, OneEngine, TypeOK, TaskType
  <2>2. \A j \in Items : db'[j].status = "copied" => db[j].status = "copied"
    BY <1>0, <1>3 DEF Start, Retried
  <2>3. Alone(t) /\ OthersRest(t) /\ InStep(t)'
    BY <1>2, <1>3, <2>1, FreeInStep DEF Start, Alone
  <2> QED
    BY <1>0, <1>3, <2>2, <2>3, PrefixStands, CopiedStands, StepCopy DEF Start
<1>4. CASE Pause \/ Cancel \/ ConnectClose \/ ConnectFirst \/ ConnectFails \/ Unplug
  <2>1. UNCHANGED <<task, partial, db, final>>
    BY <1>4 DEF Pause, Cancel, ConnectClose, ConnectFirst, ConnectFails, Unplug
  <2>2. link'.path = 0 \/ (link'.path = link.path /\ link'.pos = link.pos)
    BY <1>0, <1>4 DEF Pause, Cancel, ConnectClose, ConnectFirst, NewClient, Closed,
                      ConnectFails, Unplug
  <2> QED
    BY <1>0, <1>1, <2>1, <2>2, PrefixStands, CopiedStands DEF CopyInv
<1>5. ASSUME NEW t \in Tasks, ConnectDone(t)
      PROVE  CopyInv'
  <2>1. UNCHANGED <<partial, db, final>> /\ link'.path = 0
    BY <1>0, <1>5 DEF ConnectDone, NewClient, Closed
  <2>2. InStep(t)' /\ \A u \in Tasks \ {t} : InStep(u)'
    BY <1>1, <1>2, <1>5, <2>1, FreeInStep DEF ConnectDone, OthersRest
  <2> QED
    BY <1>0, <2>1, <2>2, PrefixStands, CopiedStands DEF CopyInv
<1>6. CASE Crash
  <2>1. UNCHANGED <<db, final>> /\ \A t \in Tasks : InStep(t)'
    BY <1>6, FreeInStep DEF Crash, IdleTask, FreePcs
  <2>2. PICK keep \in [{i \in Items : IsOpen(i)} -> Lengths] :
          partial' = [i \in Items |-> IF IsOpen(i) /\ keep[i] < Len(partial[i])
                                      THEN SubSeq(partial[i], 1, keep[i])
                                      ELSE partial[i]]
    BY <1>6 DEF Crash
  <2>3. \A k \in Lengths : k \in Nat
    BY <1>0 DEF Lengths
  <2>4. ASSUME NEW i \in Items
        PROVE  /\ Len(partial'[i]) <= Size[i]
               /\ \A k \in 1..Len(partial'[i]) : partial'[i][k] = <<i, k>>
    <3>0. /\ partial[i] \in Seq(Block) /\ Len(partial[i]) <= Size[i]
          /\ \A k \in 1..Len(partial[i]) : partial[i][k] = <<i, k>>
      BY <1>0 DEF PartialIsPrefix
    <3>1. CASE IsOpen(i) /\ keep[i] < Len(partial[i])
      <4>1. keep[i] \in Nat /\ partial'[i] = SubSeq(partial[i], 1, keep[i])
        BY <2>2, <2>3, <3>1
      <4>2. /\ Len(partial'[i]) = keep[i]
            /\ \A k \in 1..keep[i] : partial'[i][k] = partial[i][k]
        BY <3>0, <3>1, <4>1
      <4>3. Size[i] \in Nat /\ Len(partial[i]) \in Nat
        BY <1>0, <3>0
      <4> QED
        BY <3>0, <3>1, <4>1, <4>2, <4>3
    <3>2. CASE ~(IsOpen(i) /\ keep[i] < Len(partial[i]))
      BY <2>2, <3>0, <3>2
    <3> QED
      BY <3>1, <3>2
  <2>5. PartialIsPrefix'
    BY <2>4 DEF PartialIsPrefix
  <2> QED
    BY <1>0, <2>1, <2>5, CopiedStands DEF CopyInv
<1> QED
  BY <1>3, <1>4, <1>5, <1>6 DEF Handlers

LEMMA CopyInductive ==
    ASSUME OneEngine
    PROVE  /\ Init => CopyInv
           /\ TypeOK /\ LockInv /\ CopyInv /\ [Next]_vars => CopyInv'
<1>1. ASSUME Init PROVE CopyInv
  <2>1. \A t \in Tasks : InStep(t)
    BY <1>1 DEF Init, IdleTask, InStep, OpenPcs, ThreadPcs
  <2>2. Len(<<>>) = 0 /\ \A k \in 1..0 : FALSE
    OBVIOUS
  <2>3. PartialIsPrefix
    BY <1>1, <2>2, ItemsAssumption DEF Init, PartialIsPrefix
  <2>4. CopiedIsComplete
    BY <1>1 DEF Init, CopiedIsComplete
  <2> QED
    BY <2>1, <2>3, <2>4 DEF CopyInv
<1>2. ASSUME TypeOK, LockInv, CopyInv, [Next]_vars PROVE CopyInv'
  <2>1. CASE UNCHANGED vars
    BY <1>2, <2>1 DEF vars, CopyInv, PartialIsPrefix, CopiedIsComplete, InStep, Source
  <2>2. ASSUME NEW t \in Tasks, Moves(t) PROVE CopyInv'
    BY <1>2, <2>2, MovesAlone, MovesOnly, HeadCopy, EndCopy, ReadCopy, TroubleCopy
    DEF Moves, Run
  <2>3. CASE Handlers \/ ConnectFails \/ Unplug \/ Crash
    BY <1>2, <2>3, OthersCopy
  <2> QED
    BY <1>2, <2>1, <2>2, <2>3 DEF Next, Moves, FileTrouble, Environment
<1> QED
  BY <1>1, <1>2

\* A copied row's file is the remote file, block by block, for any number and
\* size of items, flush interval, number of tasks, clients, faults and crashes,
\* as long as one engine copies at a time.
THEOREM CopiesComplete ==
    ASSUME OneEngine
    PROVE  Spec => []CopiedIsComplete
<1>1. /\ Init => LockInv /\ CopyInv
      /\ TypeOK /\ LockInv /\ CopyInv /\ [Next]_vars => LockInv' /\ CopyInv'
  BY LocksInductive, CopyInductive
<1>2. CopyInv => CopiedIsComplete
  BY DEF CopyInv
<1> QED
  BY <1>1, <1>2, TypeCorrect, PTL DEF Spec

\* Whatever interrupted a copy, its .partial file is the beginning of its own
\* remote file, so the resume offset may be read off its size.
THEOREM PartialsArePrefixes ==
    ASSUME OneEngine
    PROVE  Spec => []PartialIsPrefix
<1>1. /\ Init => LockInv /\ CopyInv
      /\ TypeOK /\ LockInv /\ CopyInv /\ [Next]_vars => LockInv' /\ CopyInv'
  BY LocksInductive, CopyInductive
<1>2. CopyInv => PartialIsPrefix
  BY DEF CopyInv
<1> QED
  BY <1>1, <1>2, TypeCorrect, PTL DEF Spec

-----------------------------------------------------------------------------
(* Rows in progress.  NoOrphan needs to know that whoever is inside a run    *)
(* belongs to a session's engine, and CopyInv that an item that is given up  *)
(* was marked failed first.                                                  *)

OrphanInv ==
    /\ NoOrphan
    /\ \A t \in Tasks : task[t].pc # "idle" => cur # NoEngine

\* What is in progress is what t works on, and t keeps to it or changes its row.
Keeps(t) ==
    \A i \in Items : db'[i].status = "in_progress" =>
        \/ WorksOn(t, i)'
        \/ db[i].status = "in_progress" /\ ~WorksOn(t, i)

LEMMA KeepsOrphans ==
    ASSUME TypeOK, OrphanInv, NEW t \in Tasks, Alone(t), OthersRest(t), Keeps(t),
           task[t].pc # "idle", cur' = cur
    PROVE  OrphanInv'
<1>1. cur # NoEngine
  BY DEF OrphanInv
<1>2. \A i \in Items : db[i].status = "in_progress" => WorksOn(t, i)
  BY <1>1 DEF OrphanInv, NoOrphan, Alone, WorksOn, Inside
<1>3. \A i \in Items : db'[i].status = "in_progress" => WorksOn(t, i)'
  BY <1>2 DEF Keeps
<1> QED
  BY <1>1, <1>3 DEF OrphanInv, NoOrphan

\* While t stays with its item, only that row may change.
LEMMA StaysKeeps ==
    ASSUME TypeOK, NEW t \in Tasks, task[t].item \in Items,
           task[t].pc \notin {"idle", "lock", "loop"},
           task'[t].pc \notin {"idle", "lock", "loop"},
           task'[t].item = task[t].item,
           \A j \in Items \ {task[t].item} : db'[j] = db[j]
    PROVE  Keeps(t)
BY DEF Keeps, WorksOn, Inside

LEMMA MovesOrphans ==
    ASSUME TypeOK, CopyInv, OrphanInv, NEW t \in Tasks, Moves(t), Alone(t), OthersRest(t)
    PROVE  OrphanInv'
<1>0. /\ task \in [Tasks -> TaskRecord] /\ task[t] \in TaskRecord
      /\ task[t].pc \notin {"idle", "lock", "loop"} => task[t].item \in Items
  BY DEF TypeOK, TaskType
<1> DEFINE i == task[t].item
<1>1. task[t].pc # "idle" /\ cur' = cur
  BY DEF Moves, Run, Read, Acquire, Leave, Select, Claim, Open, Request, Flush, Replace,
     Commit, SeekUnlink, SeekRestart, Lost, Fail, Discard, Position, Fread, FreadEmpty,
     FreadRaises, Glitch, WriteFails, FileTrouble, MkdirFails, FileFails, UnlinkFails,
     OnLoop, Resumes, ThreadPcs
<1>2. ASSUME NEW p, Goto(t, p)
      PROVE  task'[t].pc = p /\ task'[t].item = i
  BY <1>0, <1>2 DEF Goto, TaskRecord
<1>3. ASSUME task[t].pc \in {"lock", "loop"}, db' = db PROVE Keeps(t)
  BY <1>3 DEF Keeps, WorksOn, Inside
<1>4. ASSUME i \in Items, db'[i].status # "in_progress",
             \A j \in Items \ {i} : db'[j] = db[j]
      PROVE  Keeps(t)
  BY <1>4 DEF Keeps, WorksOn
<1>5. ASSUME Acquire(t) \/ Leave(t) \/ Select(t) \/ MkdirFails(t)
      PROVE  Keeps(t)
  BY <1>3, <1>5 DEF Acquire, Leave, Select, MkdirFails, OnLoop, Resumes
<1>6. ASSUME Claim(t) \/ Open(t) \/ Request(t)
      PROVE  Keeps(t)
  <2>1. /\ task[t].pc \notin {"idle", "lock", "loop"}
        /\ task'[t].pc \notin {"idle", "lock", "loop"} /\ task'[t].item = i
    <3>1. ASSUME Claim(t) PROVE task'[t].pc = "open" /\ task'[t].item = i
      BY <1>0, <3>1 DEF Claim, TaskRecord
    <3>2. ASSUME Open(t) PROVE task'[t].pc = "copy" /\ task'[t].item = i
      BY <1>0, <3>2 DEF Open, TaskRecord
    <3>3. ASSUME Request(t) PROVE task'[t].pc = "read" /\ task'[t].item = i
      BY <1>0, <3>3 DEF Request, TaskRecord
    <3>4. task[t].pc \in {"item", "open", "copy"}
      BY <1>6 DEF Claim, Open, Request, OnLoop
    <3> QED
      BY <1>6, <3>1, <3>2, <3>3, <3>4
  <2>2. db' = db \/ SetStatus(i, "in_progress")
    BY <1>6 DEF Claim, Open, Request
  <2> QED
    BY <1>0, <2>1, <2>2, RowSet, StaysKeeps
<1>7. ASSUME Flush(t) \/ Commit(t) \/ SeekRestart(t) \/ Lost(t) \/ Fail(t)
      PROVE  Keeps(t)
  <2>1. i \in Items
    BY <1>0, <1>7 DEF Flush, Commit, SeekRestart, Lost, Fail, OnLoop, Resumes
  <2>2. \/ \E s \in {"partial", "copied", "pending"}, b \in {task[t].off, Size[i], 0} :
             SetRow(i, s, b)
        \/ \E s \in {"partial", "failed"} : SetStatus(i, s)
    BY <1>7 DEF Flush, Commit, SeekRestart, Lost, Fail
  <2>3. db'[i].status # "in_progress" /\ \A j \in Items \ {i} : db'[j] = db[j]
    BY <2>1, <2>2, RowSet
  <2> QED
    BY <1>4, <2>1, <2>3
<1>8. ASSUME Replace(t) \/ SeekUnlink(t) \/ Position(t) \/ FreadRaises(t)
                \/ Glitch(t) \/ WriteFails(t) \/ FileFails(t)
      PROVE  Keeps(t)
  <2>1. task[t].pc \notin {"idle", "lock", "loop"} /\ db' = db
    BY <1>8 DEF Replace, SeekUnlink, Position, FreadRaises, Glitch, WriteFails,
                FileFails, OnLoop, Resumes, ThreadPcs
  <2>2. \E p \in {"failed", "commit", "requeue", "fread", "seek", "read", "lost"} :
            Goto(t, p)
    BY <1>8 DEF Replace, SeekUnlink, Position, FreadRaises, Glitch, WriteFails,
                FileFails, Broken
  <2> QED
    BY <1>0, <1>2, <2>1, <2>2, StaysKeeps
<1>9. ASSUME Fread(t) \/ FreadEmpty(t)
      PROVE  Keeps(t)
  <2>1. task[t].pc = "fread"
    BY <1>9 DEF Fread, FreadEmpty, Resumes
  <2>2. \E off, since : task' = [task EXCEPT ![t] =
             [task[t] EXCEPT !.pc = "copy", !.off = off, !.since = since]]
    <3>1. CASE Fread(t)
      BY <3>1 DEF Fread
    <3>2. CASE FreadEmpty(t)
      <4>1. PICK since : task' = [task EXCEPT ![t] =
                [task[t] EXCEPT !.pc = "copy", !.since = since]]
        BY <3>2 DEF FreadEmpty
      <4>2. [task[t] EXCEPT !.pc = "copy", !.since = since]
              = [task[t] EXCEPT !.pc = "copy", !.off = task[t].off, !.since = since]
        BY <1>0 DEF TaskRecord
      <4> QED
        BY <4>1, <4>2
    <3> QED
      BY <1>9, <3>1, <3>2
  <2>3. task'[t].pc = "copy" /\ task'[t].item = i
    BY <1>0, <2>2 DEF TaskRecord
  <2>4. db' = db \/ \E b : SetRow(i, "partial", b)
    BY <1>9 DEF Fread, FreadEmpty
  <2> QED
    BY <1>0, <2>1, <2>3, <2>4, RowSet, StaysKeeps
<1>10. ASSUME Discard(t) \/ UnlinkFails(t)
      PROVE  Keeps(t)
  <2>1. task[t].pc = "discard" /\ db' = db /\ i \in Items
    BY <1>0, <1>10 DEF Discard, UnlinkFails, OnLoop
  <2>2. db[i].status = "failed"
    BY <2>1 DEF CopyInv, InStep
  <2> QED
    BY <1>4, <2>1, <2>2
<1>11. Keeps(t)
  BY <1>5, <1>6, <1>7, <1>8, <1>9, <1>10 DEF Moves, FileTrouble, Run, Read
<1> QED
  BY <1>1, <1>11, KeepsOrphans

LEMMA OthersOrphans ==
    ASSUME TypeOK, OrphanInv, OneEngine, Handlers \/ ConnectFails \/ Unplug \/ Crash
    PROVE  OrphanInv'
<1>0. /\ task \in [Tasks -> TaskRecord] /\ cur \in Engines \union {NoEngine}
      /\ db \in [Items -> [status : Statuses, bytes : Nat]]
  BY DEF TypeOK, TaskType, EngineType, DbType
<1>1. ASSUME NEW t \in Tasks, NEW e \in Engines, Start(t, e)
      PROVE  OrphanInv'
  <2>1. \A i \in Items : db'[i].status # "in_progress"
    BY <1>0, <1>1 DEF Start, Retried
  <2>2. cur' = e /\ e # NoEngine
    BY <1>1, NamesAssumption DEF Start
  <2> QED
    BY <2>1, <2>2 DEF OrphanInv, NoOrphan
<1>2. CASE Pause \/ Cancel \/ ConnectClose \/ ConnectFirst \/ ConnectFails \/ Unplug
  <2>1. UNCHANGED <<db, task, cur>>
    BY <1>2 DEF Pause, Cancel, ConnectClose, ConnectFirst, ConnectFails, Unplug
  <2> QED
    BY <2>1 DEF OrphanInv, NoOrphan, WorksOn, Inside
<1>3. ASSUME NEW t \in Tasks, ConnectDone(t)
      PROVE  OrphanInv'
  <2>1. UNCHANGED <<db, cur>> /\ cur # NoEngine /\ task[t].pc = "idle"
        /\ OthersRest(t)
    BY <1>0, <1>3 DEF ConnectDone, Spawn, OthersRest
  <2>2. \A u \in Tasks, i \in Items : WorksOn(u, i) => WorksOn(u, i)'
    BY <2>1 DEF WorksOn, Inside, OthersRest
  <2> QED
    BY <2>1, <2>2 DEF OrphanInv, NoOrphan
<1>4. CASE Crash
  BY <1>4 DEF Crash, OrphanInv, NoOrphan, IdleTask
<1> QED
  BY <1>1, <1>2, <1>3, <1>4 DEF Handlers

LEMMA OrphanInductive ==
    ASSUME OneEngine
    PROVE  /\ Init => OrphanInv
           /\ TypeOK /\ LockInv /\ CopyInv /\ OrphanInv /\ [Next]_vars => OrphanInv'
<1>1. Init => OrphanInv
  BY DEF Init, OrphanInv, NoOrphan, IdleTask
<1>2. ASSUME TypeOK, LockInv, CopyInv, OrphanInv, [Next]_vars PROVE OrphanInv'
  <2>1. CASE UNCHANGED vars
    BY <1>2, <2>1 DEF vars, OrphanInv, NoOrphan, WorksOn, Inside
  <2>2. ASSUME NEW t \in Tasks, Moves(t) PROVE OrphanInv'
    BY <1>2, <2>2, MovesAlone, MovesOnly, MovesOrphans
  <2>3. CASE Handlers \/ ConnectFails \/ Unplug \/ Crash
    BY <1>2, <2>3, OthersOrphans
  <2> QED
    BY <1>2, <2>1, <2>2, <2>3 DEF Next, Moves, FileTrouble, Environment
<1> QED
  BY <1>1, <1>2

\* As long as the backend has an engine for the session, a row in progress is
\* being copied: what a crash left behind is requeued before a run begins.
THEOREM NothingOrphaned ==
    ASSUME OneEngine
    PROVE  Spec => []NoOrphan
<1>1. /\ Init => LockInv /\ CopyInv /\ OrphanInv
      /\ TypeOK /\ LockInv /\ CopyInv /\ OrphanInv /\ [Next]_vars
            => LockInv' /\ CopyInv' /\ OrphanInv'
  BY LocksInductive, CopyInductive, OrphanInductive
<1>2. OrphanInv => NoOrphan
  BY DEF OrphanInv
<1> QED
  BY <1>1, <1>2, TypeCorrect, PTL DEF Spec

\* DRAINED, which starts the verification of the whole device, is answered
\* only when no row is left that could still be copied.
THEOREM DrainedSettles ==
    ASSUME OneEngine
    PROVE  Spec => DrainedMeansSettled
<1>1. ASSUME TypeOK, LockInv, OrphanInv, Next, NEW t \in Tasks,
             task[t].pc = "loop", task'[t].pc = "idle",
             engine'[task[t].eng].outcome = "drained"
      PROVE  Settled
  <2>0. /\ task \in [Tasks -> TaskRecord] /\ engine \in [Engines -> EngineRecord]
        /\ task[t].eng \in Engines
    BY <1>1 DEF TypeOK, TaskType, EngineType
  <2>1. ASSUME NEW u \in Tasks, Moves(u) PROVE u = t
    BY <1>1, <2>1, MovesOnly DEF OthersRest
  <2>2. ASSUME Handlers \/ ConnectFails \/ Unplug PROVE FALSE
    BY <1>1, <2>0, <2>2 DEF Handlers, Start, Pause, Cancel, ConnectClose, ConnectFirst,
       ConnectDone, Spawn, NewTask, IdleTask, ConnectFails, Unplug
  <2>3. ~Crash
    BY <1>1, <2>0 DEF Crash, NewEngine
  <2>4. Moves(t)
    BY <1>1, <2>1, <2>2, <2>3 DEF Next, Moves, FileTrouble, Environment
  <2>5. Leave(t)
    <3>1. ~Acquire(t) /\ ~Select(t) /\ ~MkdirFails(t)
      BY <1>1, <2>0 DEF Acquire, Select, MkdirFails, Resumes, TaskRecord
    <3> QED
      BY <1>1, <2>4, <3>1 DEF Moves, FileTrouble, FileFails, UnlinkFails, Run, Read,
        Claim, Open, Request, Flush, Replace,
        Commit, SeekUnlink, SeekRestart, Lost, Fail, Discard, Position, Fread,
        FreadEmpty, FreadRaises, Glitch, WriteFails, OnLoop, Resumes, ThreadPcs
  <2>6. Queue = {}
    <3>1. ASSUME NEW o, Release(t, o) PROVE o = "drained"
      BY <1>1, <2>0, <3>1 DEF Release, EngineRecord
    <3> QED
      BY <2>5, <3>1 DEF Leave
  <2>7. \A i \in Items : db[i].status # "in_progress"
    <3>1. Alone(t) /\ cur # NoEngine
      BY <1>1, <2>4, MovesAlone DEF OrphanInv
    <3>2. \A u \in Tasks, i \in Items : ~WorksOn(u, i)
      BY <1>1, <3>1 DEF WorksOn, Inside, Alone
    <3> QED
      BY <1>1, <3>1, <3>2 DEF OrphanInv, NoOrphan
  <2>8. \A i \in Items : db[i].status \in Statuses
    BY <1>1 DEF TypeOK, DbType
  <2> QED
    BY <2>6, <2>7, <2>8 DEF Queue, Settled, Statuses
<1>2. TypeOK /\ LockInv /\ OrphanInv /\ [Next]_vars =>
        [(\E t \in Tasks : /\ task[t].pc = "loop"
                           /\ task'[t].pc = "idle"
                           /\ engine'[task[t].eng].outcome = "drained")
          => Settled]_vars
  BY <1>1
<1>3. /\ Init => LockInv /\ CopyInv /\ OrphanInv
      /\ TypeOK /\ LockInv /\ CopyInv /\ OrphanInv /\ [Next]_vars
            => LockInv' /\ CopyInv' /\ OrphanInv'
  BY LocksInductive, CopyInductive, OrphanInductive
<1> QED
  BY <1>2, <1>3, TypeCorrect, PTL DEF Spec, DrainedMeansSettled

-----------------------------------------------------------------------------
(* The queue implements module Copying.  What a run works on is due: only    *)
(* that is written over, marked copied or marked failed.                     *)

Due(i) == db[i].status \notin {"copied", "failed"}
HeldDue(t) == task[t].pc \notin {"idle", "lock", "loop", "discard"}
                => Due(task[t].item)
DueInv == \A t \in Tasks : HeldDue(t)

\* Nothing that Copying sees has changed: the files, and which rows are due.
SameStages ==
    /\ final' = final
    /\ \A i \in Items : db'[i].status = db[i].status \/ (Due(i) /\ Due(i)')

LEMMA SameStutters ==
    ASSUME SameStages
    PROVE  UNCHANGED Promise!vars
<1>1. Stage' = Stage
  BY DEF SameStages, Due, Stage
<1>2. Whole' = Whole
  BY DEF SameStages, Whole, Source
<1> QED
  BY <1>1, <1>2 DEF Promise!vars

LEMMA StepDue ==
    ASSUME NEW t \in Tasks, Alone(t), OthersRest(t), HeldDue(t)'
    PROVE  DueInv'
BY DEF DueInv, HeldDue, Alone, OthersRest

\* A step that leaves t on its item, or out of the run, and that row due.
LEMMA StaysDue ==
    ASSUME TypeOK, DueInv, NEW t \in Tasks, Alone(t), OthersRest(t), final' = final,
           task[t].pc \notin {"idle", "lock", "loop", "discard"},
           task'[t].pc = "idle" \/ task'[t].item = task[t].item,
           \/ db' = db
           \/ \E s \in {"in_progress", "partial", "pending"} :
                SetStatus(task[t].item, s) \/ \E b : SetRow(task[t].item, s, b)
    PROVE  DueInv' /\ UNCHANGED Promise!vars
<1>1. PICK i \in Items : i = task[t].item
  BY DEF TypeOK, TaskType
<1>2. Due(i)
  BY <1>1 DEF DueInv, HeldDue
<1>3. db' = db \/ (Due(i)' /\ \A j \in Items \ {i} : db'[j] = db[j])
  <2>1. CASE db' # db
    <3>1. PICK s \in {"in_progress", "partial", "pending"} :
            SetStatus(i, s) \/ \E b : SetRow(i, s, b)
      BY <1>1, <2>1
    <3>2. db'[i].status = s /\ \A j \in Items \ {i} : db'[j] = db[j]
      BY <3>1, RowSet
    <3> QED
      BY <3>2 DEF Due
  <2> QED
    BY <2>1
<1>4. SameStages
  BY <1>2, <1>3 DEF SameStages
<1>5. Due(i)'
  BY <1>2, <1>3 DEF Due
<1>6. HeldDue(t)'
  BY <1>1, <1>5 DEF HeldDue, Due
<1> QED
  BY <1>4, <1>6, SameStutters, StepDue

\* The steps that say nothing of any copy.
LEMMA QuietMoves ==
    ASSUME TypeOK, DueInv, NEW t \in Tasks, Alone(t), OthersRest(t),
           \/ Acquire(t) \/ Leave(t) \/ Select(t) \/ Discard(t)
           \/ Claim(t) \/ Open(t) \/ Request(t) \/ Flush(t) \/ SeekUnlink(t)
           \/ SeekRestart(t) \/ Lost(t) \/ Position(t) \/ Fread(t) \/ FreadEmpty(t)
           \/ FreadRaises(t) \/ Glitch(t) \/ WriteFails(t) \/ FileTrouble(t)
    PROVE  DueInv' /\ UNCHANGED Promise!vars
<1>0. task \in [Tasks -> TaskRecord] /\ task[t] \in TaskRecord
  BY DEF TypeOK, TaskType
<1> DEFINE i == task[t].item
<1>1. ASSUME NEW p, Goto(t, p)
      PROVE  task'[t].pc = p /\ task'[t].item = i
  BY <1>0, <1>1 DEF Goto, TaskRecord
<1>2. ASSUME NEW o, Release(t, o)
      PROVE  task'[t].pc = "idle"
  BY <1>0, <1>2 DEF Release, IdleTask
<1>3. CASE Acquire(t) \/ Leave(t) \/ Discard(t) \/ MkdirFails(t) \/ UnlinkFails(t)
  <2>1. UNCHANGED <<db, final>>
    BY <1>3 DEF Acquire, Leave, Discard, MkdirFails, UnlinkFails
  <2>2. task'[t].pc \in {"idle", "loop"}
    BY <1>0, <1>1, <1>2, <1>3 DEF Acquire, Leave, Discard, MkdirFails, UnlinkFails,
                                  IdleTask
  <2>3. HeldDue(t)'
    BY <2>2 DEF HeldDue
  <2>4. SameStages
    BY <2>1 DEF SameStages
  <2> QED
    BY <2>3, <2>4, SameStutters, StepDue
<1>4. CASE Select(t)
  <2>1. UNCHANGED <<db, final>>
    BY <1>4 DEF Select
  <2>2. PICK j \in Items : IsNext(j) /\ task'[t].item = j
    BY <1>0, <1>4 DEF Select, TaskRecord
  <2>3. HeldDue(t)'
    BY <2>1, <2>2 DEF IsNext, Queue, HeldDue, Due
  <2>4. SameStages
    BY <2>1 DEF SameStages
  <2> QED
    BY <2>3, <2>4, SameStutters, StepDue
<1>5. CASE \/ Claim(t) \/ Open(t) \/ Request(t) \/ Flush(t) \/ SeekUnlink(t)
           \/ SeekRestart(t) \/ Lost(t) \/ Position(t) \/ Fread(t) \/ FreadEmpty(t)
           \/ FreadRaises(t) \/ Glitch(t) \/ WriteFails(t) \/ FileFails(t)
  <2>1. task[t].pc \notin {"idle", "lock", "loop", "discard"} /\ final' = final
    BY <1>5 DEF Claim, Open, Request, Flush, SeekUnlink, SeekRestart, Lost, Position,
       Fread, FreadEmpty, FreadRaises, Glitch, WriteFails, FileFails, OnLoop, Resumes,
       ThreadPcs
  <2>2. task'[t].pc = "idle" \/ task'[t].item = i
    <3>1. CASE Claim(t) \/ Open(t) \/ Request(t)
      BY <1>0, <3>1 DEF Claim, Open, Request, TaskRecord
    <3>2. CASE Fread(t) \/ FreadEmpty(t)
      BY <1>0, <3>2 DEF Fread, FreadEmpty, TaskRecord
    <3>3. CASE SeekRestart(t)
      <4>1. CASE task[t].depth < MaxDepth
        BY <1>0, <3>3, <4>1 DEF SeekRestart, TaskRecord
      <4>2. CASE ~(task[t].depth < MaxDepth)
        BY <1>1, <3>3, <4>2 DEF SeekRestart
      <4> QED
        BY <4>1, <4>2
    <3>4. CASE Flush(t) \/ SeekUnlink(t) \/ Lost(t)
      BY <1>1, <1>2, <3>4 DEF Flush, SeekUnlink, Lost
    <3>5. CASE Position(t) \/ FreadRaises(t) \/ Glitch(t) \/ WriteFails(t)
                 \/ FileFails(t)
      BY <1>1, <3>5 DEF Position, FreadRaises, Glitch, WriteFails, FileFails
    <3> QED
      BY <1>5, <3>1, <3>2, <3>3, <3>4, <3>5
  <2>3. \/ db' = db
        \/ \E s \in {"in_progress", "partial", "pending"} :
             SetStatus(i, s) \/ \E b : SetRow(i, s, b)
    <3>1. CASE Claim(t)
      BY <3>1 DEF Claim
    <3>2. CASE Lost(t)
      BY <3>2 DEF Lost
    <3>3. CASE Flush(t) \/ Fread(t) \/ FreadEmpty(t)
      <4>1. db' = db \/ \E b : SetRow(i, "partial", b)
        BY <3>3 DEF Flush, Fread, FreadEmpty
      <4> HIDE DEF i
      <4> QED
        BY <4>1
    <3>4. CASE SeekRestart(t)
      <4>1. SetRow(i, "pending", 0)
        BY <3>4 DEF SeekRestart
      <4> HIDE DEF i
      <4> QED
        BY <4>1
    <3>5. CASE Open(t) \/ Request(t) \/ SeekUnlink(t) \/ Position(t)
                 \/ FreadRaises(t) \/ Glitch(t) \/ WriteFails(t) \/ FileFails(t)
      BY <3>5 DEF Open, Request, SeekUnlink, Position, FreadRaises, Glitch, WriteFails,
                  FileFails
    <3> QED
      BY <1>5, <3>1, <3>2, <3>3, <3>4, <3>5
  <2> QED
    BY <2>1, <2>2, <2>3, StaysDue
<1> QED
  BY <1>3, <1>4, <1>5 DEF FileTrouble

\* Every step of a run is a step of Copying: the rename of a .partial writes
\* the file of a row that is due, and the row says copied over a whole file.
LEMMA MovesKeepCopying ==
    ASSUME TypeOK, CopyInv, DueInv, NEW t \in Tasks, Moves(t), Alone(t), OthersRest(t)
    PROVE  DueInv' /\ [Promise!Next]_(Promise!vars)
<1>0. /\ task \in [Tasks -> TaskRecord] /\ task[t] \in TaskRecord
      /\ final \in [Items -> Seq(Block)] /\ InStep(t)
      /\ db \in [Items -> [status : Statuses, bytes : Nat]]
  BY DEF TypeOK, TaskType, FileType, DbType, CopyInv
<1>1. ASSUME NEW p, Goto(t, p)
      PROVE  task'[t].pc = p /\ task'[t].item = task[t].item
  BY <1>0, <1>1 DEF Goto, TaskRecord
<1>2. CASE Replace(t) \/ Commit(t) \/ Fail(t)
  <2>1. task[t].pc \in {"replace", "commit", "failed"}
    BY <1>2 DEF Replace, Commit, Fail, OnLoop, Resumes
  <2>2. PICK i \in Items : i = task[t].item
    BY <2>1 DEF TypeOK, TaskType
  <2>3. Due(i)
    BY <2>1, <2>2 DEF DueInv, HeldDue
  <2>4. Stage[i] = "due"
    BY <2>3 DEF Due, Stage
  <2>5. CASE Replace(t)
    <3>1. db' = db /\ \E p \in {"failed", "commit"} : Goto(t, p)
      BY <2>5 DEF Replace
    <3>2. task'[t].item = i
      BY <1>1, <2>2, <3>1
    <3>3. HeldDue(t)'
      BY <2>3, <3>1, <3>2 DEF HeldDue, Due
    <3>4. final' = final \/ final' = [final EXCEPT ![i] = partial[i]]
      BY <2>2, <2>5 DEF Replace
    <3>5. UNCHANGED Stage
      BY <3>1 DEF Stage
    <3>6. PICK b \in BOOLEAN : b = (final'[i] = Source(i))
      OBVIOUS
    <3>7. Whole' = [Whole EXCEPT ![i] = b]
      <4>1. \A j \in Items \ {i} : final'[j] = final[j]
        BY <1>0, <3>4
      <4>2. \A j \in Items \ {i} : Whole'[j] = Whole[j]
        BY <4>1, Zenon DEF Whole, Source
      <4>3. Whole'[i] = b
        BY <3>6, Zenon DEF Whole, Source
      <4>4. /\ Whole = [j \in Items |-> Whole[j]]
            /\ Whole' = [j \in Items |-> Whole'[j]]
        BY Zenon DEF Whole
      <4> QED
        BY <4>2, <4>3, <4>4, Zenon
    <3>8. Promise!Write(i)
      BY <2>4, <3>5, <3>7 DEF Promise!Write
    <3> QED
      BY <3>3, <3>8, StepDue DEF Promise!Next
  <2>6. CASE Commit(t)
    <3>1. SetRow(i, "copied", Size[i]) /\ Goto(t, "loop") /\ final' = final
      BY <2>2, <2>6 DEF Commit
    <3>2. HeldDue(t)'
      BY <1>1, <3>1 DEF HeldDue
    <3>3. final[i] = Source(i)
      BY <1>0, <2>2, <2>6 DEF Commit, OnLoop, InStep
    <3>4. Whole[i] /\ UNCHANGED Whole
      BY <3>1, <3>3 DEF Whole, Source
    <3>5. db'[i].status = "copied" /\ \A j \in Items \ {i} : db'[j] = db[j]
      BY <3>1, RowSet
    <3>6. Stage' = [Stage EXCEPT ![i] = "copied"]
      BY <3>5 DEF Stage
    <3>7. Promise!Make(i)
      BY <2>4, <3>4, <3>6 DEF Promise!Make
    <3> QED
      BY <3>2, <3>7, StepDue DEF Promise!Next
  <2>7. CASE Fail(t)
    <3>1. SetStatus(i, "failed") /\ Goto(t, "discard") /\ final' = final
      BY <2>2, <2>7 DEF Fail
    <3>2. HeldDue(t)'
      BY <1>1, <3>1 DEF HeldDue
    <3>3. UNCHANGED Whole
      BY <3>1 DEF Whole, Source
    <3>4. db'[i].status = "failed" /\ \A j \in Items \ {i} : db'[j] = db[j]
      BY <3>1, RowSet
    <3>5. Stage' = [Stage EXCEPT ![i] = "failed"]
      BY <3>4 DEF Stage
    <3>6. Promise!Fail(i)
      BY <2>4, <3>3, <3>5 DEF Promise!Fail
    <3> QED
      BY <3>2, <3>6, StepDue DEF Promise!Next
  <2> QED
    BY <1>2, <2>5, <2>6, <2>7
<1>3. CASE ~(Replace(t) \/ Commit(t) \/ Fail(t))
  BY <1>3, QuietMoves DEF Moves, Run, Read
<1> QED
  BY <1>2, <1>3

LEMMA OthersKeepCopying ==
    ASSUME TypeOK, DueInv, Handlers \/ ConnectFails \/ Unplug \/ Crash
    PROVE  DueInv' /\ [Promise!Next]_(Promise!vars)
<1>0. /\ task \in [Tasks -> TaskRecord]
      /\ db \in [Items -> [status : Statuses, bytes : Nat]]
  BY DEF TypeOK, TaskType, DbType
<1>1. ASSUME NEW t \in Tasks, NEW e \in Engines, Start(t, e)
      PROVE  DueInv' /\ Promise!Retry
  <2>1. final' = final /\ db' = [i \in Items |-> Retried(db[i])]
        /\ task[t].pc = "idle" /\ Spawn(t, e)
    BY <1>1 DEF Start, Spawn
  <2>2. task'[t].pc = "lock" /\ OthersRest(t)
    BY <1>0, <2>1 DEF Spawn, NewTask, IdleTask, OthersRest
  <2>3. \A i \in Items : Due(i) => Due(i)'
    BY <2>1 DEF Due, Retried
  <2>4. ASSUME NEW u \in Tasks PROVE HeldDue(u)'
    <3>1. CASE u = t
      BY <2>2, <3>1 DEF HeldDue
    <3>2. CASE u # t
      <4>1. task'[u] = task[u]
        BY <2>2, <3>2 DEF OthersRest
      <4>2. task[u].pc \notin {"idle", "lock", "loop"} => task[u].item \in Items
        BY DEF TypeOK, TaskType
      <4> QED
        BY <2>3, <4>1, <4>2 DEF DueInv, HeldDue, Due
    <3> QED
      BY <3>1, <3>2
  <2>5. Stage' = [i \in Items |-> IF Stage[i] = "failed" THEN "due" ELSE Stage[i]]
    BY <1>0, <2>1 DEF Stage, Retried, Statuses
  <2>6. UNCHANGED Whole
    BY <2>1 DEF Whole, Source
  <2> QED
    BY <2>4, <2>5, <2>6 DEF DueInv, Promise!Retry
<1>2. CASE Pause \/ Cancel \/ ConnectClose \/ ConnectFirst \/ ConnectFails \/ Unplug
  <2>1. UNCHANGED <<db, task, final>>
    BY <1>2 DEF Pause, Cancel, ConnectClose, ConnectFirst, ConnectFails, Unplug
  <2>2. SameStages
    BY <2>1 DEF SameStages
  <2> QED
    BY <2>1, <2>2, SameStutters DEF DueInv, HeldDue, Due
<1>3. ASSUME NEW t \in Tasks, ConnectDone(t)
      PROVE  DueInv' /\ UNCHANGED Promise!vars
  <2>1. UNCHANGED <<db, final>> /\ \E e : Spawn(t, e)
    BY <1>3 DEF ConnectDone
  <2>2. task'[t].pc = "lock" /\ OthersRest(t)
    BY <1>0, <2>1 DEF Spawn, NewTask, IdleTask, OthersRest
  <2>3. SameStages
    BY <2>1 DEF SameStages
  <2> QED
    BY <2>1, <2>2, <2>3, SameStutters DEF DueInv, HeldDue, Due, OthersRest
<1>4. CASE Crash
  <2>1. UNCHANGED <<db, final>> /\ \A t \in Tasks : task'[t].pc = "idle"
    BY <1>4 DEF Crash, IdleTask
  <2>2. SameStages
    BY <2>1 DEF SameStages
  <2> QED
    BY <2>1, <2>2, SameStutters DEF DueInv, HeldDue
<1> QED
  BY <1>1, <1>2, <1>3, <1>4 DEF Handlers, Promise!Next

\* Where one engine copies at a time, the queue implements Copying, whatever
\* it is interrupted by: no run, resumption, failure or death makes a row say
\* copied over less than the whole file, and none touches the row or the file
\* of a copy once it is made.
THEOREM QueueKeepsCopying ==
    ASSUME OneEngine
    PROVE  Spec => KeepsCopying
<1>1. Init => DueInv /\ Promise!Init
  <2>1. ASSUME Init PROVE DueInv
    BY <2>1 DEF Init, DueInv, HeldDue, IdleTask
  <2>2. ASSUME Init PROVE Promise!Init
    BY <2>2 DEF Init, Promise!Init, Stage, Whole
  <2> QED
    BY <2>1, <2>2
<1>2. TypeOK /\ LockInv /\ CopyInv /\ DueInv /\ [Next]_vars
        => DueInv' /\ [Promise!Next]_(Promise!vars)
  <2> SUFFICES ASSUME TypeOK, LockInv, CopyInv, DueInv, [Next]_vars
               PROVE  DueInv' /\ [Promise!Next]_(Promise!vars)
    OBVIOUS
  <2>1. CASE UNCHANGED vars
    <3>1. SameStages
      BY <2>1 DEF vars, SameStages
    <3> QED
      BY <2>1, <3>1, SameStutters DEF vars, DueInv, HeldDue, Due
  <2>2. ASSUME NEW t \in Tasks, Moves(t)
        PROVE  DueInv' /\ [Promise!Next]_(Promise!vars)
    BY <2>2, MovesAlone, MovesOnly, MovesKeepCopying
  <2>3. CASE Handlers \/ ConnectFails \/ Unplug \/ Crash
    BY <2>3, OthersKeepCopying
  <2> QED
    BY <2>1, <2>2, <2>3 DEF Next, Moves, FileTrouble, Environment
<1>3. /\ Init => LockInv /\ CopyInv
      /\ TypeOK /\ LockInv /\ CopyInv /\ [Next]_vars => LockInv' /\ CopyInv'
  BY LocksInductive, CopyInductive
<1> QED
  BY <1>1, <1>2, <1>3, TypeCorrect, PTL DEF Spec, KeepsCopying, Promise!Spec

=============================================================================
