----------------------- MODULE TransferEngine_proofs ------------------------
(***************************************************************************)
(* Theorems about TransferEngine, for every number of items, engines and   *)
(* tasks and every bound.                                                  *)
(***************************************************************************)
EXTENDS TransferEngine, TLAPS

USE DEF Items

\* Writing a block into a sequence of blocks gives a sequence of blocks, as
\* long as the write reaches.
LEMMA WriteAtType ==
    ASSUME NEW f \in Seq(Block), NEW p \in Nat, NEW b \in Block
    PROVE  WriteAt(f, p, b) \in Seq(Block)
<1> DEFINE n == IF p < Len(f) THEN Len(f) ELSE p + 1
<1>1. n \in Nat
  OBVIOUS
<1>2. Hole \in Block
  BY DEF Block
<1>3. WriteAt(f, p, b) \in [1..n -> Block]
  <2>1. ASSUME NEW k \in 1..n
        PROVE  (IF k = p + 1 THEN b ELSE IF k <= Len(f) THEN f[k] ELSE Hole)
                    \in Block
    <3>1. CASE k <= Len(f)
      BY <3>1, f[k] \in Block
    <3>2. CASE ~(k <= Len(f))
      BY <3>2, <1>2
    <3> QED BY <3>1, <3>2
  <2> QED BY <2>1 DEF WriteAt
<1> QED BY <1>1, <1>3

-----------------------------------------------------------------------------
(* Type correctness.                                                        *)

LEMMA InitType == Init => TypeOK
<1> SUFFICES ASSUME Init PROVE TypeOK
  OBVIOUS
<1>1. <<>> \in Seq(Block)
  OBVIOUS
<1>2. LinkType
  BY ItemsAssumption DEF Init, LinkType
<1>3. EngineType
  BY NamesAssumption
  DEF Init, EngineType, EngineRecord, NewEngine, Outcomes
<1>4. TaskType
  BY NamesAssumption DEF Init, TaskType, TaskRecord, IdleTask, Pcs
<1>5. DbType /\ FileType /\ SpentType
  BY <1>1 DEF Init, DbType, FileType, SpentType, Statuses
<1> QED
  BY <1>2, <1>3, <1>4, <1>5 DEF TypeOK

\* A new record for one task is all a step changes of task.
LEMMA TaskUpdate ==
    ASSUME TaskType, NEW t \in Tasks, NEW r \in TaskRecord,
           r.pc # "idle" => r.eng \in Engines,
           r.pc \notin {"idle", "lock", "loop"} => r.item \in Items,
           task' = [task EXCEPT ![t] = r],
           busy' \in Tasks \union {NoTask}
    PROVE  TaskType'
<1>1. task' \in [Tasks -> TaskRecord]
  BY DEF TaskType
<1>2. ASSUME NEW u \in Tasks
      PROVE  /\ task'[u].pc # "idle" => task'[u].eng \in Engines
             /\ task'[u].pc \notin {"idle", "lock", "loop"} =>
                    task'[u].item \in Items
  <2>1. CASE u = t
    <3>1. task'[u] = r
      BY <2>1 DEF TaskType
    <3> QED BY <3>1
  <2>2. CASE u # t
    <3>1. task'[u] = task[u]
      BY <2>2 DEF TaskType
    <3> QED BY <3>1 DEF TaskType
  <2> QED BY <2>1, <2>2
<1> QED
  BY <1>1, <1>2 DEF TaskType

\* What the helpers assign has the right type.
LEMMA GotoType ==
    ASSUME TaskType, NEW t \in Tasks, NEW p \in Pcs, Goto(t, p),
           task[t].eng \in Engines, task[t].item \in Items \/ p = "loop",
           busy' \in Tasks \union {NoTask}
    PROVE  TaskType'
<1> DEFINE r == [task[t] EXCEPT !.pc = p]
<1>1. task[t] \in TaskRecord
  BY DEF TaskType
<1>2. r \in TaskRecord /\ r.pc = p /\ r.eng = task[t].eng /\ r.item = task[t].item
  BY <1>1 DEF TaskRecord
<1>3. task' = [task EXCEPT ![t] = r]
  BY DEF Goto
<1> HIDE DEF r
<1> QED
  BY <1>2, <1>3, TaskUpdate

LEMMA SetRowType ==
    ASSUME DbType, NEW i \in Items, NEW s \in Statuses, NEW b \in Nat,
           SetRow(i, s, b)
    PROVE  DbType'
<1> QED
  BY DEF DbType, SetRow

LEMMA SetStatusType ==
    ASSUME DbType, NEW i \in Items, NEW s \in Statuses, SetStatus(i, s)
    PROVE  DbType'
<1> QED
  BY DEF DbType, SetStatus

LEMMA ReleaseType ==
    ASSUME TaskType, EngineType, NEW t \in Tasks, NEW o \in Outcomes,
           Release(t, o), task[t].eng \in Engines, cur' = cur
    PROVE  TaskType' /\ EngineType'
<1>1. EngineType'
  <2> DEFINE e == task[t].eng
             r == [engine[e] EXCEPT !.lock = NoTask, !.outcome = o]
  <2>1. engine[e] \in EngineRecord
    BY DEF EngineType
  <2>2. r \in EngineRecord
    BY <2>1 DEF EngineRecord
  <2>3. engine' = [engine EXCEPT ![e] = r]
    BY DEF Release
  <2> HIDE DEF r, e
  <2> QED
    BY <2>2, <2>3 DEF EngineType
<1>2. IdleTask \in TaskRecord /\ IdleTask.pc = "idle"
  BY DEF IdleTask, TaskRecord, Pcs
<1>3. TaskType'
  BY <1>2, TaskUpdate DEF Release
<1> QED
  BY <1>1, <1>3

\* The steps of a run on the event loop keep the types.
LEMMA RunType ==
    ASSUME TypeOK, NEW t \in Tasks, Run(t)
    PROVE  TypeOK'
<1> DEFINE i == task[t].item
<1> USE ItemsAssumption DEF TypeOK
<1>1. /\ task[t].pc \notin {"idle", "lock", "loop"} => i \in Items
      /\ task[t].pc # "idle" => task[t].eng \in Engines
  BY DEF TaskType
<1>2. /\ \A e \in Engines : engine[e].lock \in Tasks \union {NoTask}
      /\ task[t].off \in Nat /\ task[t].depth \in Nat
      /\ \A j \in Items : db[j].bytes \in Nat /\ partial[j] \in Seq(Block)
  BY DEF EngineType, EngineRecord, TaskType, TaskRecord, DbType, FileType
<1>3. <<>> \in Seq(Block) /\ task[t] \in TaskRecord
  BY DEF TaskType
<1> HIDE DEF i
<1>4. CASE Acquire(t)
  <2>1. TaskType'
    BY <1>4, <1>1, GotoType DEF Acquire, Resumes, Pcs, LoopPcs
  <2>2. EngineType'
    <3> DEFINE e == task[t].eng
               r == [engine[e] EXCEPT !.lock = t, !.paused = FALSE,
                        !.cancelled = FALSE, !.outcome = "running"]
    <3>1. e \in Engines
      BY <1>4, <1>1 DEF Acquire, Resumes
    <3>2. engine[e] \in EngineRecord
      BY <3>1 DEF EngineType
    <3>3. r \in EngineRecord
      BY <3>2 DEF EngineRecord, Outcomes
    <3>4. engine' = [engine EXCEPT ![e] = r] /\ cur' = cur
      BY <1>4 DEF Acquire
    <3> HIDE DEF r, e
    <3> QED
      BY <3>1, <3>3, <3>4 DEF EngineType
  <2> QED
    BY <1>4, <2>1, <2>2 DEF Acquire, DbType, FileType, LinkType, SpentType
<1>5. CASE Leave(t)
  <2>1. TaskType' /\ EngineType'
    BY <1>5, <1>1, ReleaseType DEF Leave, OnLoop, Outcomes
  <2> QED
    BY <1>5, <2>1 DEF Leave, DbType, FileType, LinkType, SpentType
<1>6. CASE Select(t)
  <2>1. PICK j \in Items : task' = [task EXCEPT ![t] =
                    [@ EXCEPT !.pc = "item", !.item = j, !.depth = 0]]
    BY <1>6 DEF Select
  <2> DEFINE r == [task[t] EXCEPT !.pc = "item", !.item = j, !.depth = 0]
  <2>2. r \in TaskRecord /\ r.pc = "item" /\ r.item = j /\ r.eng = task[t].eng
    BY <1>3 DEF TaskRecord, Pcs, LoopPcs
  <2>3. task' = [task EXCEPT ![t] = r]
    BY <2>1
  <2> HIDE DEF r
  <2>4. TaskType'
    BY <1>6, <1>1, <2>2, <2>3, TaskUpdate DEF Select, OnLoop, TaskType
  <2> QED
    BY <1>6, <2>4 DEF Select, DbType, FileType, LinkType, SpentType, EngineType
<1>7. CASE Claim(t)
  <2>1. i \in Items
    BY <1>7, <1>1 DEF Claim, OnLoop
  <2>2. TaskType'
    <3> DEFINE o == IF Len(partial[i]) = db[i].bytes THEN db[i].bytes ELSE 0
               r == [task[t] EXCEPT !.pc = "open", !.off = o]
    <3>1. o \in Nat
      BY <1>2, <2>1
    <3>2. task' = [task EXCEPT ![t] = r]
      BY <1>7 DEF Claim, i
    <3> HIDE DEF o
    <3>3. r \in TaskRecord /\ r.pc = "open" /\ r.item = i /\ r.eng = task[t].eng
      BY <1>3, <3>1 DEF TaskRecord, Pcs, LoopPcs, i
    <3> HIDE DEF r
    <3> QED
      BY <1>7, <1>1, <2>1, <3>2, <3>3, TaskUpdate DEF Claim, OnLoop, TaskType
  <2>3. DbType'
    BY <1>7, <2>1, SetStatusType DEF Claim, Statuses, i
  <2> QED
    BY <1>7, <2>2, <2>3 DEF Claim, FileType, LinkType, SpentType, EngineType
<1>8. CASE Open(t)
  <2>1. i \in Items
    BY <1>8, <1>1 DEF Open, OnLoop
  <2>2. TaskType'
    <3> DEFINE r == [task[t] EXCEPT !.pc = "copy", !.since = 0]
    <3>1. task' = [task EXCEPT ![t] = r]
      BY <1>8 DEF Open
    <3>2. r \in TaskRecord /\ r.pc = "copy" /\ r.item = i /\ r.eng = task[t].eng
      BY <1>3 DEF TaskRecord, Pcs, LoopPcs, i
    <3> HIDE DEF r
    <3> QED
      BY <1>8, <1>1, <2>1, <3>1, <3>2, TaskUpdate DEF Open, OnLoop, TaskType
  <2>3. FileType'
    BY <1>8, <1>3, <2>1 DEF Open, FileType, i
  <2> QED
    BY <1>8, <2>2, <2>3 DEF Open, DbType, LinkType, SpentType, EngineType
<1>9. CASE Request(t)
  <2>1. i \in Items /\ task[t].eng \in Engines
    BY <1>9, <1>1 DEF Request, OnLoop
  <2>2. engine[task[t].eng].afc \in Nat
    BY <2>1 DEF EngineType, EngineRecord
  <2>3. TaskType'
    <3> DEFINE r == [task[t] EXCEPT !.pc = "read",
                                    !.afc = engine[task[t].eng].afc]
    <3>1. task' = [task EXCEPT ![t] = r]
      BY <1>9 DEF Request
    <3>2. r \in TaskRecord /\ r.pc = "read" /\ r.item = i /\ r.eng = task[t].eng
      BY <1>3, <2>2 DEF TaskRecord, Pcs, ThreadPcs, i
    <3> HIDE DEF r
    <3> QED
      BY <1>9, <2>1, <3>1, <3>2, TaskUpdate DEF Request
  <2> QED
    BY <1>9, <2>3 DEF Request, DbType, FileType, LinkType, SpentType, EngineType
<1>10. CASE Flush(t)
  <2>1. i \in Items
    BY <1>10, <1>1 DEF Flush, OnLoop
  <2>2. TaskType'
    BY <1>10, <1>1, <2>1, GotoType DEF Flush, OnLoop, Pcs, LoopPcs, TaskType, i
  <2>3. DbType'
    <3>1. SetRow(i, "partial", task[t].off)
      BY <1>10 DEF Flush, i
    <3> QED
      BY <2>1, <3>1, <1>2, SetRowType DEF Statuses
  <2> QED
    BY <1>10, <2>2, <2>3 DEF Flush, FileType, LinkType, SpentType, EngineType
<1>11. CASE Replace(t)
  <2>1. i \in Items
    BY <1>11, <1>1 DEF Replace, OnLoop
  <2>2. TaskType'
    BY <1>11, <1>1, <2>1, GotoType
    DEF Replace, OnLoop, Pcs, LoopPcs, ResultPcs, TaskType, i
  <2>3. FileType'
    BY <1>11, <1>2, <1>3, <2>1 DEF Replace, FileType, i
  <2> QED
    BY <1>11, <2>2, <2>3 DEF Replace, DbType, LinkType, SpentType, EngineType
<1>12. CASE Commit(t)
  <2>1. i \in Items
    BY <1>12, <1>1 DEF Commit, OnLoop
  <2>2. TaskType'
    BY <1>12, <1>1, <2>1, GotoType DEF Commit, OnLoop, Pcs, LoopPcs, TaskType, i
  <2>3. DbType'
    BY <1>12, <2>1, SetRowType DEF Commit, Statuses, i
  <2> QED
    BY <1>12, <2>2, <2>3 DEF Commit, FileType, LinkType, SpentType, EngineType
<1>13. CASE SeekUnlink(t)
  <2>1. i \in Items
    BY <1>13, <1>1 DEF SeekUnlink, Resumes
  <2>2. TaskType'
    BY <1>13, <1>1, <2>1, GotoType
    DEF SeekUnlink, Resumes, Pcs, LoopPcs, ResultPcs, TaskType, i
  <2>3. FileType'
    BY <1>13, <1>3, <2>1 DEF SeekUnlink, FileType, i
  <2> QED
    BY <1>13, <2>2, <2>3 DEF SeekUnlink, DbType, LinkType, SpentType, EngineType
<1>14. CASE SeekRestart(t)
  <2>1. i \in Items
    BY <1>14, <1>1 DEF SeekRestart, OnLoop
  <2>2. TaskType'
    <3>1. CASE task[t].depth < MaxDepth
      <4> DEFINE d == task[t].depth + 1
                 r == [task[t] EXCEPT !.pc = "item", !.depth = d]
      <4>1. d \in Nat
        BY <1>2
      <4>2. task' = [task EXCEPT ![t] = r]
        BY <1>14, <3>1 DEF SeekRestart
      <4> HIDE DEF d
      <4>3. r \in TaskRecord /\ r.pc = "item" /\ r.item = i /\ r.eng = task[t].eng
        BY <1>3, <4>1 DEF TaskRecord, Pcs, LoopPcs, i
      <4> HIDE DEF r
      <4> QED
        BY <1>14, <1>1, <2>1, <4>2, <4>3, TaskUpdate
        DEF SeekRestart, OnLoop, TaskType
    <3>2. CASE ~(task[t].depth < MaxDepth)
      BY <1>14, <1>1, <2>1, <3>2, GotoType
      DEF SeekRestart, OnLoop, Pcs, ResultPcs, TaskType, i
    <3> QED BY <3>1, <3>2
  <2>3. DbType'
    BY <1>14, <2>1, SetRowType DEF SeekRestart, Statuses, i
  <2> QED
    BY <1>14, <2>2, <2>3 DEF SeekRestart, FileType, LinkType, SpentType, EngineType
<1>15. CASE Lost(t)
  <2>1. i \in Items
    BY <1>15, <1>1 DEF Lost, Resumes
  <2>2. TaskType' /\ EngineType'
    BY <1>15, <1>1, ReleaseType DEF Lost, Resumes, Outcomes
  <2>3. DbType'
    BY <1>15, <2>1, SetStatusType DEF Lost, Statuses, i
  <2> QED
    BY <1>15, <2>2, <2>3 DEF Lost, FileType, LinkType, SpentType
<1>16. CASE Fail(t)
  <2>1. i \in Items
    BY <1>16, <1>1 DEF Fail, Resumes
  <2>2. TaskType'
    BY <1>16, <1>1, <2>1, GotoType DEF Fail, Resumes, Pcs, LoopPcs, i
  <2>3. DbType'
    BY <1>16, <2>1, SetStatusType DEF Fail, Statuses, i
  <2> QED
    BY <1>16, <2>2, <2>3 DEF Fail, FileType, LinkType, SpentType, EngineType
<1>17. CASE Discard(t)
  <2>1. i \in Items
    BY <1>17, <1>1 DEF Discard, OnLoop
  <2>2. TaskType' /\ EngineType' /\ FileType'
    <3>1. CASE Shared(t)
      BY <1>17, <1>1, <3>1, ReleaseType DEF Discard, OnLoop, Outcomes, FileType
    <3>2. CASE ~Shared(t)
      <4>1. TaskType'
        BY <1>17, <1>1, <2>1, <3>2, GotoType
        DEF Discard, OnLoop, Pcs, LoopPcs, TaskType, i
      <4>2. FileType'
        BY <1>17, <1>3, <2>1, <3>2 DEF Discard, FileType, i
      <4> QED
        BY <1>17, <3>2, <4>1, <4>2 DEF Discard, EngineType
    <3> QED BY <3>1, <3>2
  <2> QED
    BY <1>17, <2>2 DEF Discard, DbType, LinkType, SpentType
<1> QED
  BY <1>4, <1>5, <1>6, <1>7, <1>8, <1>9, <1>10, <1>11, <1>12, <1>13, <1>14,
     <1>15, <1>16, <1>17 DEF Run
\* The steps of a read keep the types.
LEMMA ReadType ==
    ASSUME TypeOK, NEW t \in Tasks, Read(t)
    PROVE  TypeOK'
<1> DEFINE i == task[t].item
<1> USE ItemsAssumption DEF TypeOK
<1>1. /\ task[t] \in TaskRecord
      /\ task[t].off \in Nat /\ task[t].off + 1 \in Nat
      /\ task[t].since \in Nat /\ task[t].since + 1 \in Nat
      /\ link.path \in Items \union {0} /\ link.pos \in Nat
      /\ \A j \in Items : partial[j] \in Seq(Block)
  BY DEF TaskType, TaskRecord, LinkType, FileType
<1>2. task[t].pc \in ThreadPcs => task[t].eng \in Engines /\ i \in Items
  BY DEF TaskType, ThreadPcs
<1>3. Broken(t) \in Pcs /\ Broken(t) # "loop"
  BY DEF Broken, Pcs, ResultPcs
<1>4. CASE Position(t)
  <2>1. i \in Items /\ task[t].eng \in Engines
    BY <1>2, <1>4 DEF Position, ThreadPcs
  <2>2. PICK p \in Pcs : Goto(t, p)
    BY <1>3, <1>4 DEF Position, Pcs, ThreadPcs, ResultPcs
  <2>3. TaskType'
    BY <1>4, <2>1, <2>2, GotoType DEF Position, TaskType, i
  <2>4. LinkType'
    <3>1. CASE UNCHANGED link
      BY <3>1 DEF LinkType
    <3>2. CASE link' = [link EXCEPT !.path = i, !.pos = task[t].off]
      BY <1>1, <2>1, <3>2 DEF LinkType
    <3>3. CASE link' = Closed(link)
      BY <3>3 DEF LinkType, Closed
    <3> QED
      BY <1>4, <3>1, <3>2, <3>3 DEF Position, i
  <2> QED
    BY <1>4, <2>3, <2>4 DEF Position, DbType, FileType, SpentType, EngineType
<1>5. CASE Fread(t)
  <2> DEFINE off == task[t].off + 1
             flushes == task[t].since + 1 >= FlushEvery
             n == IF flushes THEN 0 ELSE task[t].since + 1
             r == [task[t] EXCEPT !.pc = "copy", !.off = off, !.since = n]
             b == <<link.path, link.pos + 1>>
  <2>1. i \in Items /\ task[t].eng \in Engines
    BY <1>2, <1>5 DEF Fread, Resumes, ThreadPcs
  <2>2. n \in Nat /\ off \in Nat
    BY <1>1
  <2>3. b \in Block
    BY <1>1, <1>5 DEF Fread, Block
  <2>4. TaskType'
    <3>1. task' = [task EXCEPT ![t] = r]
      BY <1>5 DEF Fread
    <3> HIDE DEF n, off
    <3>2. r \in TaskRecord /\ r.pc = "copy" /\ r.item = i /\ r.eng = task[t].eng
      BY <1>1, <2>2 DEF TaskRecord, Pcs, LoopPcs
    <3> HIDE DEF r, i
    <3> QED
      BY <1>5, <2>1, <3>1, <3>2, TaskUpdate DEF Fread
  <2>5. FileType'
    <3>1. WriteAt(partial[i], task[t].off, b) \in Seq(Block)
      <4> HIDE DEF b, i
      <4> QED BY <1>1, <2>1, <2>3, WriteAtType
    <3>2. partial' = [partial EXCEPT ![i] = WriteAt(@, task[t].off, b)]
      BY <1>5 DEF Fread
    <3> HIDE DEF b, i
    <3> QED
      BY <1>5, <2>1, <3>1, <3>2 DEF Fread, FileType
  <2>6. DbType'
    <3>1. SetRow(i, "partial", off) \/ UNCHANGED db
      BY <1>5 DEF Fread
    <3> HIDE DEF off, i
    <3>2. CASE SetRow(i, "partial", off)
      BY <2>1, <2>2, <3>2, SetRowType DEF Statuses
    <3> QED
      BY <3>1, <3>2 DEF DbType
  <2>7. LinkType'
    <3>1. link' = [link EXCEPT !.pos = link.pos + 1]
      BY <1>5 DEF Fread
    <3>2. link.pos + 1 \in Nat
      BY <1>1
    <3> QED
      BY <3>1, <3>2 DEF LinkType
  <2> QED
    BY <1>5, <2>4, <2>5, <2>6, <2>7 DEF Fread, SpentType, EngineType
<1>6. CASE FreadEmpty(t)
  <2> DEFINE flushes == task[t].since + 1 >= FlushEvery
             n == IF flushes THEN 0 ELSE task[t].since + 1
             r == [task[t] EXCEPT !.pc = "copy", !.since = n]
  <2>1. i \in Items /\ task[t].eng \in Engines
    BY <1>2, <1>6 DEF FreadEmpty, Resumes, ThreadPcs
  <2>2. n \in Nat
    BY <1>1
  <2>3. TaskType'
    <3>1. task' = [task EXCEPT ![t] = r]
      BY <1>6 DEF FreadEmpty
    <3> HIDE DEF n
    <3>2. r \in TaskRecord /\ r.pc = "copy" /\ r.item = i /\ r.eng = task[t].eng
      BY <1>1, <2>2 DEF TaskRecord, Pcs, LoopPcs
    <3> HIDE DEF r, i
    <3> QED
      BY <1>6, <2>1, <3>1, <3>2, TaskUpdate DEF FreadEmpty
  <2>4. DbType'
    <3>1. SetRow(i, "partial", task[t].off) \/ UNCHANGED db
      BY <1>6 DEF FreadEmpty
    <3> HIDE DEF i
    <3>2. CASE SetRow(i, "partial", task[t].off)
      BY <1>1, <2>1, <3>2, SetRowType DEF Statuses
    <3> QED
      BY <3>1, <3>2 DEF DbType
  <2>5. LinkType'
    BY <1>6 DEF FreadEmpty, LinkType, Closed
  <2> QED
    BY <1>6, <2>3, <2>4, <2>5 DEF FreadEmpty, FileType, SpentType, EngineType
<1>7. CASE FreadRaises(t)
  <2>1. i \in Items /\ task[t].eng \in Engines
    BY <1>2, <1>7 DEF FreadRaises, ThreadPcs
  <2>2. PICK p \in Pcs : Goto(t, p)
    BY <1>3, <1>7 DEF FreadRaises, Pcs, ThreadPcs, ResultPcs
  <2>3. TaskType'
    BY <1>7, <2>1, <2>2, GotoType DEF FreadRaises, TaskType, i
  <2> QED
    BY <1>7, <2>3
    DEF FreadRaises, DbType, FileType, LinkType, SpentType, EngineType
<1> QED
  BY <1>4, <1>5, <1>6, <1>7 DEF Read

\* A task spawned for an engine of this backend is a well-formed one.
LEMMA SpawnType ==
    ASSUME TaskType, NEW t \in Tasks, NEW e \in Engines, Spawn(t, e), busy' = busy
    PROVE  TaskType'
<1>1. /\ NewTask(e) \in TaskRecord
      /\ NewTask(e).pc = "lock" /\ NewTask(e).eng = e
  BY DEF NewTask, IdleTask, TaskRecord, Pcs
<1>2. busy' \in Tasks \union {NoTask}
  BY DEF TaskType
<1> QED
  BY <1>1, <1>2, TaskUpdate DEF Spawn

\* The steps of the IPC handlers keep the types.
LEMMA HandlersType ==
    ASSUME TypeOK, Handlers
    PROVE  TypeOK'
<1> USE DEF TypeOK
<1>1. link.client \in Nat /\ spent.clients + 1 \in Nat
  BY DEF LinkType, SpentType
<1>2. ASSUME NEW t \in Tasks, NEW e \in Engines, Start(t, e)
      PROVE  TypeOK'
  <2>1. DbType'
    BY <1>2 DEF Start, Retried, DbType, Statuses
  <2>2. EngineType'
    <3>1. NewEngine(link.client) \in EngineRecord
      BY <1>1 DEF NewEngine, EngineRecord, Outcomes
    <3> QED
      BY <1>2, <3>1 DEF Start, EngineType
  <2>3. TaskType'
    BY <1>2, SpawnType DEF Start
  <2> QED
    BY <1>2, <2>1, <2>2, <2>3 DEF Start, FileType, LinkType, SpentType
<1>3. CASE Pause \/ Cancel
  <2>1. PICK r \in EngineRecord : engine' = [engine EXCEPT ![cur] = r]
    <3>1. cur \in Engines /\ engine[cur] \in EngineRecord
      BY <1>3 DEF Pause, Cancel, EngineType
    <3>2. /\ [engine[cur] EXCEPT !.paused = TRUE] \in EngineRecord
          /\ [engine[cur] EXCEPT !.cancelled = TRUE] \in EngineRecord
      BY <3>1 DEF EngineRecord
    <3> QED
      BY <1>3, <3>2 DEF Pause, Cancel
  <2>2. EngineType'
    BY <1>3, <2>1 DEF Pause, Cancel, EngineType
  <2> QED
    BY <1>3, <2>2
    DEF Pause, Cancel, DbType, FileType, LinkType, TaskType, SpentType
<1>4. CASE ConnectClose
  <2>1. LinkType'
    BY <1>4 DEF ConnectClose, Closed, LinkType
  <2> QED
    BY <1>4, <2>1
    DEF ConnectClose, DbType, FileType, EngineType, TaskType, SpentType
<1>5. ASSUME NewClient
      PROVE  LinkType' /\ SpentType'
  <2>1. /\ Closed(link).path = 0 /\ Closed(link).pos = 0
        /\ Closed(link) \in [client : Nat, up : BOOLEAN, connecting : BOOLEAN,
                             path : Items \union {0}, pos : Nat,
                             seeks : BOOLEAN]
    BY DEF Closed, LinkType
  <2>2. LinkType'
    BY <1>1, <1>5, <2>1 DEF NewClient, LinkType
  <2>3. SpentType'
    BY <1>1, <1>5 DEF NewClient, SpentType
  <2> QED
    BY <2>2, <2>3
<1>6. CASE ConnectFirst
  BY <1>5, <1>6 DEF ConnectFirst, DbType, FileType, EngineType, TaskType
<1>7. ASSUME NEW t \in Tasks, ConnectDone(t)
      PROVE  TypeOK'
  <2>1. cur \in Engines
    BY <1>7 DEF ConnectDone, EngineType
  <2>2. EngineType'
    <3> DEFINE r == [engine[cur] EXCEPT !.afc = spent.clients + 1]
    <3>1. r \in EngineRecord
      BY <1>1, <2>1 DEF EngineType, EngineRecord
    <3>2. engine' = [engine EXCEPT ![cur] = r]
      BY <1>7 DEF ConnectDone
    <3> HIDE DEF r
    <3> QED
      BY <1>7, <3>1, <3>2 DEF ConnectDone, EngineType
  <2>3. TaskType'
    BY <1>7, <2>1, SpawnType DEF ConnectDone
  <2> QED
    BY <1>5, <1>7, <2>2, <2>3 DEF ConnectDone, DbType, FileType
<1> QED
  BY <1>2, <1>3, <1>4, <1>6, <1>7 DEF Handlers

\* So do the steps of the device, the disk and the machine.
LEMMA EnvironmentType ==
    ASSUME TypeOK, Environment
    PROVE  TypeOK'
<1> USE DEF TypeOK
<1>1. ASSUME NEW t \in Tasks, Glitch(t) \/ WriteFails(t)
      PROVE  TypeOK'
  <2>1. task[t].eng \in Engines /\ task[t].item \in Items
    BY <1>1 DEF Glitch, WriteFails, Resumes, ThreadPcs, TaskType
  <2>2. PICK p \in Pcs : Goto(t, p)
    BY <1>1 DEF Glitch, WriteFails, Broken, Pcs, ResultPcs
  <2>3. TaskType'
    BY <1>1, <2>1, <2>2, GotoType DEF Glitch, WriteFails, TaskType
  <2>4. LinkType'
    <3>1. PICK f, n : /\ link' = [link EXCEPT !.path = f, !.pos = n]
                      /\ f \in Items \union {0} /\ n \in Nat
      <4>1. CASE Glitch(t)
        BY <4>1 DEF Glitch, Closed
      <4>2. CASE WriteFails(t)
        <5>1. link' = [link EXCEPT !.path = link.path, !.pos = link.pos + 1]
          BY <4>2 DEF WriteFails, LinkType
        <5>2. link.path \in Items \union {0} /\ link.pos + 1 \in Nat
          BY DEF LinkType
        <5> QED
          BY <5>1, <5>2
      <4> QED
        BY <1>1, <4>1, <4>2
    <3> QED
      BY <3>1 DEF LinkType
  <2>5. SpentType'
    BY <1>1 DEF Glitch, WriteFails, SpentType
  <2> QED
    BY <1>1, <2>3, <2>4, <2>5 DEF Glitch, WriteFails, DbType, FileType, EngineType
<1>2. CASE ConnectFails
  <2>1. LinkType'
    BY <1>2 DEF ConnectFails, LinkType
  <2>2. SpentType'
    BY <1>2 DEF ConnectFails, SpentType
  <2> QED
    BY <1>2, <2>1, <2>2 DEF ConnectFails, DbType, FileType, EngineType, TaskType
<1>3. CASE Unplug
  <2>1. LinkType'
    BY <1>3, FALSE \in BOOLEAN, Zenon DEF Unplug, LinkType
  <2> QED
    BY <1>3, <2>1 DEF Unplug, DbType, FileType, EngineType, TaskType, SpentType
<1>4. CASE Crash
  <2>1. FileType'
    <3>1. PICK keep \in [{i \in Items : IsOpen(i)} -> Lengths] :
            partial' = [i \in Items |-> IF IsOpen(i) /\ keep[i] < Len(partial[i])
                                        THEN SubSeq(partial[i], 1, keep[i])
                                        ELSE partial[i]]
      BY <1>4 DEF Crash
    <3>2. ASSUME NEW i \in Items
          PROVE  partial'[i] \in Seq(Block)
      <4>1. IsOpen(i) => keep[i] \in Nat
        BY ItemsAssumption DEF Lengths
      <4>2. partial[i] \in Seq(Block)
        BY DEF FileType
      <4>3. IsOpen(i) /\ keep[i] < Len(partial[i]) =>
                SubSeq(partial[i], 1, keep[i]) \in Seq(Block)
        BY <4>1, <4>2
      <4> QED
        BY <3>1, <4>2, <4>3
    <3>3. partial' \in [Items -> Seq(Block)]
      BY <3>1, <3>2
    <3> QED
      BY <1>4, <3>3 DEF Crash, FileType
  <2>2. EngineType'
    BY <1>4 DEF Crash, EngineType, NewEngine, EngineRecord, Outcomes
  <2>3. TaskType'
    BY <1>4 DEF Crash, TaskType, IdleTask, TaskRecord, Pcs
  <2>4. LinkType' /\ SpentType'
    <3>1. Closed(link) \in [client : Nat, up : BOOLEAN, connecting : BOOLEAN,
                             path : Items \union {0}, pos : Nat,
                             seeks : BOOLEAN]
      BY DEF Closed, LinkType
    <3>2. LinkType'
      BY <1>4, <3>1 DEF Crash, LinkType
    <3>3. SpentType'
      BY <1>4 DEF Crash, SpentType
    <3> QED
      BY <3>2, <3>3
  <2> QED
    BY <1>4, <2>1, <2>2, <2>3, <2>4 DEF Crash, DbType
<1>5. ASSUME Fault PROVE SpentType'
  BY <1>5 DEF Fault, SpentType
<1>6. ASSUME NEW t \in Tasks, MkdirFails(t)
      PROVE  TypeOK'
  <2> DEFINE e == task[t].eng
             r == [engine[e] EXCEPT !.paused = FALSE, !.cancelled = FALSE,
                                    !.outcome = "raised"]
  <2>1. e \in Engines
    BY <1>6 DEF MkdirFails, Resumes, TaskType
  <2>2. r \in EngineRecord
    <3>1. engine[e] \in EngineRecord
      BY <2>1 DEF EngineType
    <3> QED
      BY <3>1 DEF EngineRecord, Outcomes
  <2>3. engine' = [engine EXCEPT ![e] = r] /\ cur' = cur
    BY <1>6 DEF MkdirFails
  <2> HIDE DEF r, e
  <2>4. EngineType'
    BY <2>1, <2>2, <2>3 DEF EngineType
  <2>5. IdleTask \in TaskRecord /\ IdleTask.pc = "idle"
    BY DEF IdleTask, TaskRecord, Pcs
  <2>6. TaskType'
    BY <1>6, <2>5, TaskUpdate DEF MkdirFails
  <2> QED
    BY <1>5, <1>6, <2>4, <2>6 DEF MkdirFails, DbType, FileType, LinkType
<1>7. ASSUME NEW t \in Tasks, FileFails(t)
      PROVE  TypeOK'
  <2>1. task[t].eng \in Engines /\ task[t].item \in Items
    BY <1>7 DEF FileFails, OnLoop, Resumes, TaskType
  <2>2. TaskType'
    BY <1>7, <2>1, GotoType DEF FileFails, Pcs, ResultPcs
  <2> QED
    BY <1>5, <1>7, <2>2 DEF FileFails, DbType, FileType, LinkType, EngineType
<1>8. ASSUME NEW t \in Tasks, UnlinkFails(t)
      PROVE  TypeOK'
  <2>1. task[t].eng \in Engines
    BY <1>8 DEF UnlinkFails, OnLoop, TaskType
  <2>2. TaskType' /\ EngineType'
    BY <1>8, <2>1, ReleaseType DEF UnlinkFails, Outcomes
  <2> QED
    BY <1>5, <1>8, <2>2 DEF UnlinkFails, DbType, FileType, LinkType
<1> QED
  BY <1>1, <1>2, <1>3, <1>4, <1>6, <1>7, <1>8 DEF Environment

LEMMA NextType == TypeOK /\ [Next]_vars => TypeOK'
<1> SUFFICES ASSUME TypeOK, [Next]_vars PROVE TypeOK'
  OBVIOUS
<1>1. CASE UNCHANGED vars
  BY <1>1 DEF vars, TypeOK, DbType, FileType, LinkType, EngineType, TaskType,
              SpentType
<1>2. CASE Next
  BY <1>2, RunType, ReadType, HandlersType, EnvironmentType DEF Next
<1> QED
  BY <1>1, <1>2

\* Every variable keeps its type, for any number of items, engines and tasks.
THEOREM TypeCorrect == Spec => []TypeOK
<1> QED
  BY InitType, NextType, PTL DEF Spec

-----------------------------------------------------------------------------
(* The run lock: the task inside a run of an engine is the one its lock      *)
(* names.  OneRunPerEngine alone is not inductive, for it does not say what  *)
(* the test of Acquire relies on.                                            *)

LockInv == \A t \in Inside : engine[task[t].eng].lock = t

\* A step of a task inside a run that leaves the engines alone.
LEMMA SameLocks ==
    ASSUME LockInv, engine' = engine, NEW t \in Inside,
           task'[t].eng = task[t].eng,
           \A u \in Tasks \ {t} : task'[u] = task[u]
    PROVE  LockInv'
BY DEF LockInv, Inside

\* The same for Goto.
LEMMA GotoLocks ==
    ASSUME TypeOK, LockInv, engine' = engine,
           NEW t \in Inside, NEW p \in Pcs, Goto(t, p)
    PROVE  LockInv'
<1>1. t \in Tasks /\ task[t] \in TaskRecord /\ task \in [Tasks -> TaskRecord]
  BY DEF TypeOK, TaskType, Inside
<1>2. /\ task'[t].eng = task[t].eng
      /\ \A u \in Tasks \ {t} : task'[u] = task[u]
  BY <1>1 DEF Goto, TaskRecord
<1> QED
  BY <1>2, SameLocks

\* A run that ends frees its own lock only.
LEMMA ReleaseLocks ==
    ASSUME TypeOK, LockInv, NEW t \in Inside, NEW o, Release(t, o)
    PROVE  LockInv'
<1> SUFFICES ASSUME NEW u \in Tasks, task'[u].pc \notin {"idle", "lock"}
             PROVE  engine'[task'[u].eng].lock = u
  BY DEF LockInv, Inside
<1>1. task \in [Tasks -> TaskRecord] /\ t \in Tasks
  BY DEF TypeOK, TaskType, Inside
<1>2. u # t /\ task'[u] = task[u]
  BY <1>1 DEF Release, IdleTask
<1>3. u \in Inside
  BY <1>2 DEF Inside
<1>4. engine[task[u].eng].lock = u /\ engine[task[t].eng].lock = t
  BY <1>3 DEF LockInv
<1>5. task[u].eng # task[t].eng
  BY <1>2, <1>4
<1>6. engine'[task[u].eng] = engine[task[u].eng]
  BY <1>3, <1>5 DEF Release, TypeOK, EngineType, TaskType, Inside
<1> QED
  BY <1>2, <1>4, <1>6

LEMMA RunLocks ==
    ASSUME TypeOK, LockInv, NEW t \in Tasks, Run(t) \/ Read(t)
    PROVE  LockInv'
<1>1. task[t] \in TaskRecord /\ task \in [Tasks -> TaskRecord]
  BY DEF TypeOK, TaskType
<1>2. CASE Acquire(t)
  <2> DEFINE e == task[t].eng
  <2>1. e \in Engines /\ engine \in [Engines -> EngineRecord]
    BY <1>2 DEF Acquire, Resumes, TypeOK, TaskType, EngineType
  <2>2. engine'[e].lock = t /\ \A f \in Engines \ {e} : engine'[f] = engine[f]
    BY <1>2, <2>1 DEF Acquire, EngineRecord
  <2>3. ASSUME NEW u \in Tasks, task'[u].pc \notin {"idle", "lock"}
        PROVE  engine'[task'[u].eng].lock = u
    <3>1. task'[u].eng = task[u].eng
      BY <1>1, <1>2 DEF Acquire, Goto, TaskRecord
    <3>2. CASE u = t
      BY <2>2, <3>1, <3>2
    <3>3. CASE u # t
      <4>1. u \in Inside
        BY <1>1, <1>2, <2>3, <3>3 DEF Acquire, Goto, Inside
      <4>2. engine[task[u].eng].lock = u /\ task[u].eng \in Engines
        BY <4>1 DEF LockInv, Inside, TypeOK, TaskType
      <4>3. engine[e].lock # u
        BY <1>2, NamesAssumption DEF Acquire
      <4> QED
        BY <2>2, <3>1, <4>2, <4>3
    <3> QED
      BY <3>2, <3>3
  <2> QED
    BY <2>3 DEF LockInv, Inside
<1>3. CASE Leave(t) \/ Lost(t)
  <2>1. t \in Inside
    BY <1>3 DEF Leave, Lost, OnLoop, Resumes, Inside
  <2> QED
    BY <1>3, <2>1, ReleaseLocks DEF Leave, Lost
<1>4. CASE Select(t) \/ Claim(t) \/ Open(t) \/ Request(t)
  <2>1. t \in Inside /\ engine' = engine
    BY <1>4 DEF Select, Claim, Open, Request, OnLoop, Inside
  <2>2. /\ task'[t].eng = task[t].eng
        /\ \A u \in Tasks \ {t} : task'[u] = task[u]
    BY <1>1, <1>4 DEF Select, Claim, Open, Request, TaskRecord
  <2> QED
    BY <2>1, <2>2, SameLocks
<1>5. CASE Flush(t) \/ Replace(t) \/ Commit(t) \/ SeekUnlink(t) \/ Fail(t)
  <2>1. t \in Inside /\ engine' = engine
    BY <1>5 DEF Flush, Replace, Commit, SeekUnlink, Fail, OnLoop, Resumes, Inside
  <2>2. PICK p \in Pcs : Goto(t, p)
    BY <1>5 DEF Flush, Replace, Commit, SeekUnlink, Fail, Pcs, LoopPcs, ResultPcs
  <2> QED
    BY <2>1, <2>2, GotoLocks
<1>6. CASE SeekRestart(t)
  <2>1. t \in Inside /\ engine' = engine
    BY <1>6 DEF SeekRestart, OnLoop, Inside
  <2>2. CASE task[t].depth < MaxDepth
    <3>1. /\ task'[t].eng = task[t].eng
          /\ \A u \in Tasks \ {t} : task'[u] = task[u]
      BY <1>1, <1>6, <2>2 DEF SeekRestart, TaskRecord
    <3> QED
      BY <2>1, <3>1, SameLocks
  <2>3. CASE ~(task[t].depth < MaxDepth)
    BY <1>6, <2>1, <2>3, GotoLocks DEF SeekRestart, Pcs, ResultPcs
  <2> QED
    BY <2>2, <2>3
<1>7. CASE Discard(t)
  <2>1. t \in Inside
    BY <1>7 DEF Discard, OnLoop, Inside
  <2> QED
    BY <1>7, <2>1, ReleaseLocks, GotoLocks DEF Discard, Pcs, LoopPcs
<1>8. CASE Fread(t) \/ FreadEmpty(t)
  <2>1. t \in Inside /\ engine' = engine
    BY <1>8 DEF Fread, FreadEmpty, Resumes, Inside
  <2>2. /\ task'[t].eng = task[t].eng
        /\ \A u \in Tasks \ {t} : task'[u] = task[u]
    BY <1>1, <1>8 DEF Fread, FreadEmpty, TaskRecord
  <2> QED
    BY <2>1, <2>2, SameLocks
<1>9. CASE Position(t) \/ FreadRaises(t)
  <2>1. t \in Inside /\ engine' = engine
    BY <1>9 DEF Position, FreadRaises, Inside
  <2>2. PICK p \in Pcs : Goto(t, p)
    BY <1>9 DEF Position, FreadRaises, Broken, Pcs, ThreadPcs, ResultPcs
  <2> QED
    BY <2>1, <2>2, GotoLocks
<1> QED
  BY <1>2, <1>3, <1>4, <1>5, <1>6, <1>7, <1>8, <1>9 DEF Run, Read

LEMMA HandlersLocks ==
    ASSUME TypeOK, LockInv, Handlers
    PROVE  LockInv'
<1>1. task \in [Tasks -> TaskRecord] /\ engine \in [Engines -> EngineRecord]
  BY DEF TypeOK, TaskType, EngineType
<1>2. \A u \in Inside : task[u].eng \in Engines
  BY DEF TypeOK, TaskType, Inside
<1>3. ASSUME NEW t \in Tasks, NEW e \in Engines, Spawn(t, e)
      PROVE  Inside' = Inside /\ \A u \in Inside : task'[u] = task[u]
  BY <1>1, <1>3 DEF Spawn, NewTask, IdleTask, Inside
<1>4. ASSUME NEW t \in Tasks, NEW e \in Engines, Start(t, e)
      PROVE  LockInv'
  <2>1. \A u \in Inside : task[u].eng # e
    BY <1>4 DEF Start, Unused, Inside
  <2> QED
    BY <1>1, <1>2, <1>3, <1>4, <2>1 DEF Start, LockInv
<1>5. CASE Pause \/ Cancel
  <2>1. \A e \in Engines : engine'[e].lock = engine[e].lock
    BY <1>1, <1>5 DEF Pause, Cancel, EngineRecord
  <2> QED
    BY <1>2, <1>5, <2>1 DEF Pause, Cancel, LockInv, Inside
<1>6. CASE ConnectClose \/ ConnectFirst
  BY <1>6 DEF ConnectClose, ConnectFirst, LockInv, Inside
<1>7. ASSUME NEW t \in Tasks, ConnectDone(t)
      PROVE  LockInv'
  <2>1. \A e \in Engines : engine'[e].lock = engine[e].lock
    BY <1>1, <1>7 DEF ConnectDone, EngineRecord
  <2>2. cur \in Engines
    BY <1>7 DEF ConnectDone, TypeOK, EngineType
  <2> QED
    BY <1>2, <1>3, <1>7, <2>1, <2>2 DEF ConnectDone, LockInv
<1> QED
  BY <1>4, <1>5, <1>6, <1>7 DEF Handlers

LEMMA EnvironmentLocks ==
    ASSUME TypeOK, LockInv, Environment
    PROVE  LockInv'
<1>1. ASSUME NEW t \in Tasks, Glitch(t) \/ WriteFails(t)
      PROVE  LockInv'
  <2>1. t \in Inside /\ engine' = engine
    BY <1>1 DEF Glitch, WriteFails, Resumes, ThreadPcs, Inside
  <2>2. PICK p \in Pcs : Goto(t, p)
    BY <1>1 DEF Glitch, WriteFails, Broken, Pcs, ResultPcs
  <2> QED
    BY <2>1, <2>2, GotoLocks
<1>2. CASE ConnectFails \/ Unplug
  BY <1>2 DEF ConnectFails, Unplug, LockInv, Inside
<1>3. CASE Crash
  BY <1>3 DEF Crash, LockInv, Inside, IdleTask
<1>4. ASSUME NEW t \in Tasks, MkdirFails(t)
      PROVE  LockInv'
  <2>1. /\ task \in [Tasks -> TaskRecord] /\ engine \in [Engines -> EngineRecord]
        /\ \A u \in Inside : task[u].eng \in Engines
    BY DEF TypeOK, TaskType, EngineType, Inside
  <2>2. \A u \in Tasks : task'[u].pc \notin {"idle", "lock"}
                            => u \in Inside /\ task'[u] = task[u]
    BY <1>4, <2>1 DEF MkdirFails, IdleTask, Inside
  <2>3. \A f \in Engines : engine'[f].lock = engine[f].lock
    BY <1>4, <2>1 DEF MkdirFails, EngineRecord
  <2> QED
    BY <2>1, <2>2, <2>3 DEF LockInv, Inside
<1>5. ASSUME NEW t \in Tasks, FileFails(t)
      PROVE  LockInv'
  <2>1. t \in Inside /\ engine' = engine /\ Goto(t, "failed")
    BY <1>5 DEF FileFails, OnLoop, Resumes, Inside
  <2> QED
    BY <2>1, GotoLocks DEF Pcs, ResultPcs
<1>6. ASSUME NEW t \in Tasks, UnlinkFails(t)
      PROVE  LockInv'
  <2>1. t \in Inside
    BY <1>6 DEF UnlinkFails, OnLoop, Inside
  <2> QED
    BY <1>6, <2>1, ReleaseLocks DEF UnlinkFails
<1> QED
  BY <1>1, <1>2, <1>3, <1>4, <1>5, <1>6 DEF Environment

LEMMA LocksInductive ==
    /\ Init => LockInv
    /\ TypeOK /\ LockInv /\ [Next]_vars => LockInv'
<1>1. Init => LockInv
  BY DEF Init, LockInv, Inside, IdleTask
<1>2. ASSUME TypeOK, LockInv, [Next]_vars PROVE LockInv'
  <2>1. CASE UNCHANGED vars
    BY <1>2, <2>1 DEF vars, LockInv, Inside
  <2>2. CASE Next
    BY <1>2, <2>2, RunLocks, HandlersLocks, EnvironmentLocks DEF Next
  <2> QED
    BY <1>2, <2>1, <2>2
<1> QED
  BY <1>1, <1>2

\* Two calls of run() on one engine never overlap, for any number of engines,
\* tasks and items and whatever pauses, reconnections and crashes intervene.
THEOREM RunLockExcludes == Spec => []OneRunPerEngine
<1>1. LockInv => OneRunPerEngine
  BY DEF LockInv, OneRunPerEngine
<1>2. TypeOK /\ LockInv /\ [Next]_vars => LockInv'
  BY LocksInductive
<1>3. Init => LockInv
  BY LocksInductive
<1> QED
  BY <1>1, <1>2, <1>3, TypeCorrect, PTL DEF Spec


=============================================================================
