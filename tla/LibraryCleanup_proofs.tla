----------------------- MODULE LibraryCleanup_proofs ------------------------
(***************************************************************************)
(* What library_delete.batch leaves on the disk, for any folder, pictures  *)
(* and number of calls that overlap with each other and with scans.  How   *)
(* files are grouped plays no part: a call is trusted with any row.        *)
(***************************************************************************)
EXTENDS LibraryCleanup, FiniteSetTheorems, TLAPS

Caps == {"scans", "batches", "overlaps", "doubles", "removals", "faults", "copies",
         "crashes"}
MaybePicture == Pictures \union {NoPicture}
RowRecord == [at : Places, status : {"active", "moved", "deleted"},
              seen : MaybePicture, hash : MaybePicture]
WorkRecord == [pc : {"done", "hash", "write", "raised"}, needs : BOOLEAN,
               seen : MaybePicture, hash : MaybePicture]
OnRow == {"act", "commit", "prune", "count", "drop"}

\* The types this needs: what the groups hold, and so what is asked for, may
\* be anything.
ScanShape ==
    /\ DOMAIN scan = {"pc", "todo", "work", "files"}
    /\ scan.work \in [Files -> WorkRecord]
IsCall(r) == r \in [pc : {r.pc}, todo : {r.todo}, permanent : {r.permanent},
                    id : {r.id}, to : {r.to}, gid : {r.gid}]
CallShape(r) == IsCall(r) /\ r.to \in Slots /\ (r.pc \in OnRow => r.id \in Ids)
DelShape ==
    /\ del = [b \in Batches |-> del[b]]
    /\ \A b \in Batches : CallShape(del[b])
Shape ==
    /\ disk \in [Places -> MaybePicture]
    /\ row \in Seq(RowRecord)
    /\ ScanShape
    /\ scan = [k \in DOMAIN scan |-> scan[k]]
    /\ DelShape
    /\ spent \in [Caps -> Nat]

LEMMA InitShape == Init => Shape
<1> SUFFICES ASSUME Init PROVE Shape
  OBVIOUS
<1>1. disk \in [Places -> MaybePicture]
  <2>1. ASSUME NEW a \in Places
        PROVE  (IF \E p \in Stored : a = At(Home[p])
                THEN CHOOSE p \in Stored : a = At(Home[p]) ELSE NoPicture) \in MaybePicture
    <3>1. CASE \E p \in Stored : a = At(Home[p])
      <4>1. (CHOOSE p \in Stored : a = At(Home[p])) \in Stored
        BY <3>1
      <4> QED
        BY <3>1, <4>1, PicturesAssumption DEF MaybePicture
    <3>2. CASE ~ \E p \in Stored : a = At(Home[p])
      BY <3>2 DEF MaybePicture
    <3> QED
      BY <3>1, <3>2
  <2> QED
    BY <2>1 DEF Init
<1>2. row \in Seq(RowRecord)
  BY DEF Init
<1>3. ScanShape /\ scan = [k \in DOMAIN scan |-> scan[k]]
  BY DEF Init, ScanShape, IdleScan, IdleWork, WorkRecord, MaybePicture
<1>4. DelShape
  BY DEF Init, DelShape, CallShape, IsCall, IdleBatch, Slots, OnRow
<1>5. spent \in [Caps -> Nat]
  BY DEF Init, Caps
<1> QED
  BY <1>1, <1>2, <1>3, <1>4, <1>5 DEF Shape

-----------------------------------------------------------------------------
(* Steps keep their shapes.                                                 *)

LEMMA TroubleGrows ==
    ASSUME spent \in [Caps -> Nat], NEW what \in Caps, Trouble(what)
    PROVE  /\ spent' \in [Caps -> Nat]
           /\ \A k \in Caps : spent[k] <= spent'[k]
           /\ spent'[what] # 0
BY DEF Trouble

LEMMA BeginGrows ==
    ASSUME spent \in [Caps -> Nat], NEW what \in Caps, NEW cap, NEW beside,
           Begin(what, cap, beside)
    PROVE  /\ spent' \in [Caps -> Nat]
           /\ \A k \in Caps : spent[k] <= spent'[k]
           /\ beside \in Caps => spent'[beside] # 0
BY DEF Begin

\* No step takes a bound back.
LEMMA SpentGrows ==
    ASSUME spent \in [Caps -> Nat], [Next]_vars
    PROVE  /\ spent' \in [Caps -> Nat]
           /\ \A k \in Caps : spent[k] <= spent'[k]
<1>1. CASE \E what \in Caps : Trouble(what)
  BY <1>1, TroubleGrows
<1>2. CASE \E what \in Caps : \E cap, beside : Begin(what, cap, beside)
  BY <1>2, BeginGrows
<1>3. CASE UNCHANGED spent
  BY <1>3
<1>4. CASE Next
  <2>1. CASE ScanStart
    BY <1>2, <2>1 DEF ScanStart, Caps
  <2>2. CASE Scan
    <3>1. ASSUME NEW f \in Files, ScanHash(f) \/ ScanHashRaises(f)
          PROVE  Trouble("faults") \/ UNCHANGED spent
      BY <3>1 DEF ScanHash, ScanHashRaises
    <3> QED
      BY <1>1, <1>3, <2>2, <3>1 DEF Scan, ScanStat, ScanWrite, ScanClear, ScanSelect,
                                    ScanInsert, Caps
  <2>3. ASSUME NEW b \in Batches, NEW ids, NEW permanent,
               DeleteBegin(b, ids, permanent)
        PROVE  spent' \in [Caps -> Nat] /\ \A k \in Caps : spent[k] <= spent'[k]
    BY <1>2, <2>3 DEF DeleteBegin, Caps
  <2>4. ASSUME NEW b \in Batches, Delete(b)
        PROVE  spent' \in [Caps -> Nat] /\ \A k \in Caps : spent[k] <= spent'[k]
    <3>1. /\ DeleteRaises(b) => Trouble("faults") \/ UNCHANGED spent
          /\ DeleteCopies(b) => Trouble("copies")
      BY DEF DeleteRaises, DeleteCopies
    <3> QED
      BY <1>1, <1>3, <2>4, <3>1 DEF Delete, DeleteLoad, DeleteMove, DeleteUnlink,
              DeleteCommit, PruneMember, PruneCount, PruneDrop, DeleteDone, Caps
  <2>5. CASE \/ \E p \in Pictures : Save(p)
             \/ \E f \in Files : Vanish(f)
             \/ Crash
    BY <1>1, <1>3, <2>5 DEF Save, Vanish, Crash, Caps
  <2> QED
    BY <1>4, <2>1, <2>2, <2>3, <2>4, <2>5 DEF Next
<1> QED
  BY <1>3, <1>4 DEF vars

LEMMA ScanShapeKept ==
    ASSUME Shape, ScanStart \/ Scan
    PROVE  Shape'
<1>0. /\ DOMAIN scan = {"pc", "todo", "work", "files"}
      /\ scan = [k \in DOMAIN scan |-> scan[k]]
      /\ scan.work \in [Files -> WorkRecord]
      /\ disk \in [Places -> MaybePicture]
      /\ \A f \in Files : disk[At(f)] \in MaybePicture
  BY DEF Shape, ScanShape, Places, At, Slots
<1>1. spent' \in [Caps -> Nat]
  BY SpentGrows DEF Shape, Next
<1>2. ScanShape' /\ scan' = [k \in DOMAIN scan' |-> scan'[k]]
  <2>1. CASE ScanStart
    BY <1>0, <2>1 DEF ScanStart, ScanShape, IdleScan, IdleWork, WorkRecord, MaybePicture
  <2>2. ASSUME NEW f \in Files, ScanStat(f)
        PROVE  ScanShape' /\ scan' = [k \in DOMAIN scan' |-> scan'[k]]
    <3>1. NeedsHashing(f, disk[At(f)]) \in BOOLEAN
      BY DEF NeedsHashing
    <3> QED
      BY <1>0, <2>2, <3>1 DEF ScanStat, ScanShape, IdleWork, WorkRecord, MaybePicture
  <2>3. ASSUME NEW f \in Files, ScanHash(f)
        PROVE  ScanShape' /\ scan' = [k \in DOMAIN scan' |-> scan'[k]]
    <3> DEFINE w == scan.work[f]
               Hashed(r) == scan' = [scan EXCEPT !.work = [scan.work EXCEPT ![f] = r]]
    <3>1. w \in WorkRecord /\ disk[At(f)] \in MaybePicture
      BY <1>0
    <3>2. \/ Hashed([w EXCEPT !.pc = "write", !.hash = disk[At(f)]])
          \/ Hashed([w EXCEPT !.pc = "write"])
      BY <1>0, <2>3 DEF ScanHash
    <3>3. /\ [w EXCEPT !.pc = "write", !.hash = disk[At(f)]] \in WorkRecord
          /\ [w EXCEPT !.pc = "write"] \in WorkRecord
      BY <3>1 DEF WorkRecord
    <3>4. \E r \in WorkRecord : Hashed(r)
      BY <3>2, <3>3
    <3> QED
      BY <1>0, <3>4 DEF ScanShape
  <2>4. ASSUME NEW f \in Files, ScanWrite(f)
        PROVE  ScanShape' /\ scan' = [k \in DOMAIN scan' |-> scan'[k]]
    BY <1>0, <2>4 DEF ScanWrite, ScanShape, IdleWork, WorkRecord, MaybePicture
  <2>5. CASE ScanClear \/ ScanSelect
    BY <1>0, <2>5 DEF ScanClear, ScanSelect, ScanShape
  <2>6. CASE ScanInsert
    BY <1>0, <2>6 DEF ScanInsert, ScanShape, IdleScan, IdleWork, WorkRecord, MaybePicture
  <2>7. ASSUME NEW f \in Files, ScanHashRaises(f)
        PROVE  ScanShape' /\ scan' = [k \in DOMAIN scan' |-> scan'[k]]
    <3> DEFINE r == [scan.work[f] EXCEPT !.pc = "raised"]
    <3>1. r \in WorkRecord
      BY <1>0 DEF WorkRecord
    <3>2. scan' = [scan EXCEPT !.work = [scan.work EXCEPT ![f] = r]]
      BY <1>0, <2>7 DEF ScanHashRaises
    <3> HIDE DEF r
    <3> QED
      BY <1>0, <3>1, <3>2 DEF ScanShape
  <2> QED
    BY <2>1, <2>2, <2>3, <2>4, <2>5, <2>6, <2>7 DEF Scan
<1>3. ASSUME NEW f \in Files, ScanWrite(f)
      PROVE  row' \in Seq(RowRecord) /\ Len(row) <= Len(row')
  <2>1. scan.work[f] \in WorkRecord
    BY <1>0
  <2> DEFINE Fresh(old) == [at |-> At(f), status |-> "active", seen |-> scan.work[f].seen,
                            hash |-> IF scan.work[f].needs THEN scan.work[f].hash ELSE old]
  <2>2. \A old \in MaybePicture : Fresh(old) \in RowRecord
    BY <2>1 DEF RowRecord, WorkRecord, At, Places, Slots
  <2>3. NoPicture \in MaybePicture /\ row \in Seq(RowRecord)
    BY DEF MaybePicture, Shape
  <2>4. \A i \in Ids : row[i].hash \in MaybePicture /\ row[i] \in RowRecord
    <3>1. \A i \in Ids : row[i] \in RowRecord
      BY <2>3 DEF Ids
    <3> QED
      BY <3>1 DEF RowRecord
  <2> HIDE DEF Fresh
  <2>5. CASE RowsAt(At(f)) = {}
    <3>1. row' = Append(row, Fresh(NoPicture))
      BY <1>3, <2>5 DEF ScanWrite, Fresh
    <3> QED
      BY <2>2, <2>3, <3>1
  <2>6. CASE RowsAt(At(f)) # {}
    <3>1. row' = [i \in 1..Len(row) |-> IF row[i].at = At(f) THEN Fresh(row[i].hash)
                                        ELSE row[i]]
      BY <1>3, <2>6 DEF ScanWrite, Fresh, Ids
    <3>2. \A i \in 1..Len(row) : row'[i] \in RowRecord
      BY <2>2, <2>4, <3>1 DEF Ids
    <3> QED
      BY <2>3, <3>1, <3>2
  <2> QED
    BY <2>5, <2>6
<1>4. row' \in Seq(RowRecord) /\ Len(row) <= Len(row') /\ UNCHANGED <<disk, del>>
  <2>1. CASE UNCHANGED row
    <3>1. row \in Seq(RowRecord)
      BY DEF Shape
    <3>2. Len(row) \in Nat
      BY <3>1
    <3>3. UNCHANGED <<disk, del>>
      <4>1. ASSUME NEW f \in Files,
                   ScanStat(f) \/ ScanHash(f) \/ ScanHashRaises(f) \/ ScanWrite(f)
            PROVE  UNCHANGED <<disk, del>>
        BY <4>1 DEF ScanStat, ScanHash, ScanHashRaises, ScanWrite
      <4> QED
        BY <4>1 DEF ScanStart, Scan, ScanClear, ScanSelect, ScanInsert
    <3> QED
      BY <2>1, <3>1, <3>2, <3>3
  <2>2. CASE \E f \in Files : ScanWrite(f)
    BY <1>3, <2>2 DEF ScanWrite
  <2> QED
    BY <2>1, <2>2 DEF ScanStart, Scan, ScanStat, ScanHash, ScanHashRaises, ScanClear,
                         ScanSelect, ScanInsert
<1>5. DelShape'
  BY <1>4 DEF Shape, DelShape, CallShape, IsCall, Ids
<1> QED
  BY <1>0, <1>1, <1>2, <1>4, <1>5 DEF Shape

LEMMA IdleShape == IsCall(IdleBatch) /\ CallShape(IdleBatch) /\ IdleBatch.to = "here"
BY DEF IdleBatch, IsCall, CallShape, Slots, OnRow

Becomes(b, r) == del' = [del EXCEPT ![b] = r]

LEMMA CallKept ==
    ASSUME DelShape, NEW b \in Batches, NEW r, Becomes(b, r), IsCall(r),
           r.to \in Slots, r.pc \in OnRow => r.id \in Ids, Len(row') = Len(row)
    PROVE  DelShape'
BY DEF DelShape, CallShape, Becomes, Ids, IsCall

\* What is done to a row, and where it lies.
LEMMA RowTypes ==
    ASSUME Shape
    PROVE  /\ \A i \in Ids : row[i] \in RowRecord /\ row[i].at \in Places
                             /\ row[i].at[1] \in Files /\ row[i].at[2] \in Slots
                             /\ row[i].at = <<row[i].at[1], row[i].at[2]>>
           /\ \A f \in Files, s \in Slots : <<f, s>> \in Places
           /\ \A f \in Files : At(f) \in Places
           /\ Len(row) \in Nat
<1>1. row \in Seq(RowRecord)
  BY DEF Shape
<1>2. \A i \in Ids : row[i] \in RowRecord
  BY <1>1 DEF Ids
<1>3. \A i \in Ids : row[i].at \in Places
  BY <1>2 DEF RowRecord
<1> QED
  BY <1>1, <1>2, <1>3 DEF At, Places, Slots

Begun(b) == \E ids, permanent : DeleteBegin(b, ids, permanent)
Pruned(b) == PruneMember(b) \/ PruneCount(b) \/ PruneDrop(b) \/ DeleteDone(b)

\* Every step of a call leaves it with a record of its kind.
LEMMA CallSteps ==
    ASSUME Shape, NEW b \in Batches
    PROVE  /\ Begun(b) => \E r : Becomes(b, r) /\ CallShape(r) /\ r.pc = "next"
           /\ \A i \in Ids : DeleteLoad(b, i) =>
                \E r : /\ Becomes(b, r) /\ CallShape(r) /\ r.id = i
                       /\ r.pc = IF row[i].status = "active" THEN "act" ELSE "next"
           /\ DeleteMove(b) => \E r :
                /\ Becomes(b, r) /\ CallShape(r) /\ r.pc = "commit"
                /\ r.id = del[b].id /\ r.to = Target(File(b))
           /\ DeleteUnlink(b) => \E r :
                /\ Becomes(b, r) /\ CallShape(r) /\ r.pc = "commit"
                /\ r.id = del[b].id /\ r.to = "here"
           /\ DeleteRaises(b) \/ DeleteCopies(b) =>
                \E r : Becomes(b, r) /\ CallShape(r) /\ r.pc = "next"
           /\ DeleteCommit(b) => \E r :
                Becomes(b, r) /\ CallShape(r) /\ r.pc \in {"idle", "prune"}
           /\ Pruned(b) => \E r :
                /\ Becomes(b, r) /\ CallShape(r)
                /\ r.pc \in {"idle", "next", "count", "drop"}
<1>1. IsCall(del[b]) /\ del[b].to \in Slots /\ (del[b].pc \in OnRow => del[b].id \in Ids)
  BY DEF Shape, DelShape, CallShape
<1>2. Begun(b) => \E r : Becomes(b, r) /\ CallShape(r) /\ r.pc = "next"
  <2>1. ASSUME NEW ids, NEW permanent, DeleteBegin(b, ids, permanent)
        PROVE  \E r : Becomes(b, r) /\ CallShape(r) /\ r.pc = "next"
    <3> DEFINE r == [IdleBatch EXCEPT !.pc = "next", !.todo = ids, !.permanent = permanent]
    <3>1. IsCall(r) /\ r.pc = "next" /\ r.to \in Slots
      <4>1. IsCall(r) /\ r.pc = "next" /\ r.to = IdleBatch.to
        BY IdleShape DEF IsCall
      <4> QED
        BY <4>1, IdleShape DEF Slots
    <3>2. Becomes(b, r)
      BY <2>1 DEF DeleteBegin, Becomes
    <3> HIDE DEF r
    <3>3. CallShape(r)
      BY <3>1 DEF CallShape, OnRow
    <3> QED
      BY <3>1, <3>2, <3>3
  <2> QED
    BY <2>1 DEF Begun
<1>3. ASSUME NEW i \in Ids, DeleteLoad(b, i)
      PROVE  \E r : /\ Becomes(b, r) /\ CallShape(r) /\ r.id = i
                    /\ r.pc = IF row[i].status = "active" THEN "act" ELSE "next"
  <2> DEFINE p == IF row[i].status = "active" THEN "act" ELSE "next"
             T == del[b].todo \ {i}
             r == [del[b] EXCEPT !.pc = p, !.todo = T, !.id = i]
  <2>1. Becomes(b, r)
    BY <1>3 DEF DeleteLoad, Becomes
  <2> HIDE DEF p, T
  <2>2. IsCall(r) /\ r.pc = p /\ r.to = del[b].to /\ r.id = i
    BY <1>1 DEF IsCall
  <2> HIDE DEF r
  <2>3. CallShape(r)
    BY <1>1, <2>2 DEF CallShape
  <2> QED
    BY <2>1, <2>2, <2>3 DEF p
<1>4. ASSUME NEW t \in Slots, Becomes(b, [del[b] EXCEPT !.pc = "commit", !.to = t]),
             del[b].pc \in OnRow
      PROVE  \E r : /\ Becomes(b, r) /\ CallShape(r) /\ r.pc = "commit"
                    /\ r.id = del[b].id /\ r.to = t
  <2> DEFINE r == [del[b] EXCEPT !.pc = "commit", !.to = t]
  <2>1. IsCall(r) /\ r.pc = "commit" /\ r.to = t /\ r.id = del[b].id
    BY <1>1 DEF IsCall
  <2>2. Becomes(b, r)
    BY <1>4
  <2> HIDE DEF r
  <2> QED
    BY <1>1, <1>4, <2>1, <2>2 DEF CallShape
<1>5. DeleteMove(b) => \E r :
        /\ Becomes(b, r) /\ CallShape(r) /\ r.pc = "commit"
        /\ r.id = del[b].id /\ r.to = Target(File(b))
  <2>1. Target(File(b)) \in Slots
    BY DEF Target, Slots
  <2> QED
    BY <1>4, <2>1 DEF DeleteMove, Becomes, OnRow
<1>6. DeleteUnlink(b) => \E r :
        /\ Becomes(b, r) /\ CallShape(r) /\ r.pc = "commit"
        /\ r.id = del[b].id /\ r.to = "here"
  <2>1. "here" \in Slots
    BY DEF Slots
  <2> QED
    BY <1>4, <2>1 DEF DeleteUnlink, Becomes, OnRow
<1>7. ASSUME NEW p, p \in OnRow => del[b].pc \in OnRow,
             \/ Becomes(b, [del[b] EXCEPT !.pc = p])
             \/ \E g : Becomes(b, [del[b] EXCEPT !.pc = p, !.gid = g])
      PROVE  \E r : Becomes(b, r) /\ CallShape(r) /\ r.pc = p
  <2>1. CASE Becomes(b, [del[b] EXCEPT !.pc = p])
    <3> DEFINE r == [del[b] EXCEPT !.pc = p]
    <3>1. IsCall(r) /\ r.pc = p /\ r.to = del[b].to /\ r.id = del[b].id
      BY <1>1 DEF IsCall
    <3>2. Becomes(b, r)
      BY <2>1
    <3> HIDE DEF r
    <3> QED
      BY <1>1, <1>7, <3>1, <3>2 DEF CallShape
  <2>2. ASSUME NEW g, Becomes(b, [del[b] EXCEPT !.pc = p, !.gid = g])
        PROVE  \E r : Becomes(b, r) /\ CallShape(r) /\ r.pc = p
    <3> DEFINE r == [del[b] EXCEPT !.pc = p, !.gid = g]
    <3>1. IsCall(r) /\ r.pc = p /\ r.to = del[b].to /\ r.id = del[b].id
      BY <1>1 DEF IsCall
    <3>2. Becomes(b, r)
      BY <2>2
    <3> HIDE DEF r
    <3> QED
      BY <1>1, <1>7, <3>1, <3>2 DEF CallShape
  <2> QED
    BY <1>7, <2>1, <2>2
<1>8. Becomes(b, IdleBatch) => \E r : Becomes(b, r) /\ CallShape(r) /\ r.pc = "idle"
  <2>1. IdleBatch.pc = "idle"
    BY DEF IdleBatch
  <2> QED
    BY <2>1, IdleShape
<1>9. DeleteRaises(b) \/ DeleteCopies(b) =>
        \E r : Becomes(b, r) /\ CallShape(r) /\ r.pc = "next"
  <2>1. DeleteRaises(b) \/ DeleteCopies(b) => Becomes(b, [del[b] EXCEPT !.pc = "next"])
    BY DEF DeleteRaises, DeleteCopies, Becomes
  <2> QED
    BY <1>7, <2>1 DEF OnRow
<1>10. DeleteCommit(b) => \E r : Becomes(b, r) /\ CallShape(r) /\ r.pc \in {"idle", "prune"}
  <2>1. DeleteCommit(b) =>
          /\ del[b].pc \in OnRow
          /\ Becomes(b, [del[b] EXCEPT !.pc = "prune"]) \/ Becomes(b, IdleBatch)
    BY DEF DeleteCommit, Becomes, OnRow
  <2> QED
    BY <1>7, <1>8, <2>1
<1>11. Pruned(b) => \E r : /\ Becomes(b, r) /\ CallShape(r)
                           /\ r.pc \in {"idle", "next", "count", "drop"}
  <2>1. DeleteDone(b) => Becomes(b, IdleBatch)
    BY DEF DeleteDone, Becomes
  <2>2. PruneDrop(b) => Becomes(b, [del[b] EXCEPT !.pc = "next"])
    BY DEF PruneDrop, Becomes
  <2>3. PruneCount(b) => /\ del[b].pc \in OnRow
                         /\ \E p \in {"next", "drop"} : Becomes(b, [del[b] EXCEPT !.pc = p])
    BY DEF PruneCount, Becomes, OnRow
  <2>4. PruneMember(b) =>
          /\ del[b].pc \in OnRow
          /\ \/ Becomes(b, [del[b] EXCEPT !.pc = "next"])
             \/ \E g : Becomes(b, [del[b] EXCEPT !.pc = "count", !.gid = g])
    BY DEF PruneMember, Becomes, OnRow
  <2>5. DeleteDone(b) => \E r : Becomes(b, r) /\ CallShape(r) /\ r.pc = "idle"
    BY <1>8, <2>1
  <2>6. PruneDrop(b) => \E r : Becomes(b, r) /\ CallShape(r) /\ r.pc = "next"
    BY <1>7, <2>2 DEF OnRow
  <2>7. PruneCount(b) => \E r : Becomes(b, r) /\ CallShape(r) /\ r.pc \in {"next", "drop"}
    BY <1>7, <2>3
  <2>8. PruneMember(b) => \E r : Becomes(b, r) /\ CallShape(r) /\ r.pc \in {"next", "count"}
    BY <1>7, <2>4
  <2> QED
    BY <2>5, <2>6, <2>7, <2>8 DEF Pruned
<1> QED
  BY <1>2, <1>3, <1>5, <1>6, <1>9, <1>10, <1>11

\* Only the second names of files may meet other paths, and no two of them meet.
LEMMA PathTypes ==
    /\ \A a \in Places : /\ Path(a) \in Places
                         /\ Path(a)[2] = "here" <=> a[2] = "here"
                         /\ a[2] # "renamed" => Path(a) = a
    /\ \A f \in Files : /\ RenamedTo[f] \in Places /\ RenamedTo[f] # At(f)
                        /\ RenamedTo[f] # <<f, "staged">>
                        /\ RenamedTo[f][2] \in {"staged", "renamed"}
                        /\ Path(<<f, "renamed">>) = RenamedTo[f]
                        /\ Path(<<f, "staged">>) = <<f, "staged">> /\ Path(At(f)) = At(f)
<1>1. ASSUME NEW f \in Files
      PROVE  \/ RenamedTo[f] = <<f, "renamed">>
             \/ \E other \in Files \ {f} : RenamedTo[f] = <<other, "staged">>
  BY NamesAssumption
<1>2. ASSUME NEW f \in Files
      PROVE  /\ RenamedTo[f] \in Places /\ RenamedTo[f] # At(f)
             /\ RenamedTo[f] # <<f, "staged">>
             /\ RenamedTo[f][2] \in {"staged", "renamed"}
  BY <1>1 DEF Places, Slots, At
<1>3. \A f \in Files : /\ Path(<<f, "renamed">>) = RenamedTo[f]
                      /\ Path(<<f, "staged">>) = <<f, "staged">> /\ Path(At(f)) = At(f)
  BY DEF Path, At
<1>4. ASSUME NEW a \in Places
      PROVE  /\ Path(a) \in Places /\ (Path(a)[2] = "here" <=> a[2] = "here")
             /\ a[2] # "renamed" => Path(a) = a
  <2>1. a[1] \in Files
    BY DEF Places
  <2>2. CASE a[2] = "renamed"
    BY <1>2, <2>1, <2>2 DEF Path
  <2>3. CASE a[2] # "renamed"
    BY <2>3 DEF Path
  <2> QED
    BY <2>2, <2>3
<1> QED
  BY <1>2, <1>3, <1>4

\* A commit touches the one row it was for, and its path stays what it was.
LEMMA CommitRow ==
    ASSUME Shape, NEW b \in Batches, DeleteCommit(b)
    PROVE  /\ row' \in Seq(RowRecord) /\ Len(row') = Len(row) /\ del[b].id \in Ids
           /\ \/ /\ ~(RowsOn(<<File(b), del[b].to>>) \subseteq {del[b].id})
                 /\ UNCHANGED row
              \/ /\ RowsOn(<<File(b), del[b].to>>) \subseteq {del[b].id}
                 /\ row'[del[b].id].at = <<File(b), del[b].to>>
                 /\ row'[del[b].id].status # "active"
           /\ \A j \in Ids \ {del[b].id} : row'[j] = row[j]
<1> DEFINE i == del[b].id
           place == <<File(b), del[b].to>>
           moved == [row[i] EXCEPT !.at = place, !.status =
                        IF del[b].permanent THEN "deleted" ELSE "moved"]
<1>1. i \in Ids /\ del[b].to \in Slots
  BY DEF Shape, DelShape, CallShape, DeleteCommit, OnRow
<1>2. place \in Places
  BY <1>1, RowTypes DEF File
<1>3. row[i] \in RowRecord /\ row \in Seq(RowRecord)
  BY <1>1, RowTypes DEF Shape
<1>4. \/ ~(RowsOn(place) \subseteq {i}) /\ UNCHANGED row
      \/ RowsOn(place) \subseteq {i} /\ row' = [row EXCEPT ![i] = moved]
  BY DEF DeleteCommit
<1> HIDE DEF place
<1>5. moved \in RowRecord /\ moved.at = place /\ moved.status # "active"
  BY <1>2, <1>3 DEF RowRecord
<1> HIDE DEF moved, i
<1>6. CASE ~(RowsOn(place) \subseteq {i}) /\ UNCHANGED row
  BY <1>1, <1>3, <1>6 DEF i, place
<1>7. CASE RowsOn(place) \subseteq {i} /\ row' = [row EXCEPT ![i] = moved]
  <2>1. /\ row' \in Seq(RowRecord) /\ Len(row') = Len(row) /\ row'[i] = moved
        /\ \A j \in Ids \ {i} : row'[j] = row[j]
    BY <1>1, <1>3, <1>5, <1>7 DEF Ids
  <2> QED
    BY <1>1, <1>5, <1>7, <2>1 DEF i, place
<1> QED
  BY <1>4, <1>6, <1>7

\* Where a call may strike next.
LEMMA ActingTypes ==
    ASSUME Shape, NEW b \in Batches, del[b].pc \in {"act", "commit"}
    PROVE  /\ del[b].id \in Ids /\ File(b) \in Files /\ File(b) = row[del[b].id].at[1]
           /\ At(File(b)) \in Places /\ <<File(b), del[b].to>> \in Places
           /\ <<File(b), Target(File(b))>> \in Places
           /\ Target(File(b)) \in {"staged", "renamed"}
           /\ Path(<<File(b), Target(File(b))>>) \in Places
<1>1. del[b].id \in Ids /\ del[b].to \in Slots
  BY DEF Shape, DelShape, CallShape, OnRow
<1>2. Target(File(b)) \in {"staged", "renamed"}
  BY DEF Target
<1> QED
  BY <1>1, <1>2, RowTypes, PathTypes DEF File, Slots

LEMMA DelShapeKept ==
    ASSUME Shape, NEW b \in Batches, Begun(b) \/ Delete(b)
    PROVE  Shape'
<1>1. UNCHANGED scan
  BY DEF Begun, Delete, DeleteBegin, DeleteLoad, DeleteMove, DeleteUnlink, DeleteRaises,
         DeleteCopies, DeleteCommit, PruneMember, PruneCount, PruneDrop, DeleteDone
<1>2. row' \in Seq(RowRecord) /\ Len(row') = Len(row)
  <2>1. CASE UNCHANGED row
    BY <2>1 DEF Shape
  <2> QED
    BY <2>1, CommitRow DEF Begun, Delete, DeleteBegin, DeleteLoad, DeleteMove, DeleteUnlink,
                DeleteRaises, DeleteCopies, PruneMember, PruneCount, PruneDrop, DeleteDone
<1>3. disk' \in [Places -> MaybePicture]
  <2>0. disk \in [Places -> MaybePicture]
    BY DEF Shape
  <2>1. CASE DeleteMove(b)
    BY <2>0, <2>1, ActingTypes DEF DeleteMove, MaybePicture
  <2>2. CASE DeleteUnlink(b)
    BY <2>0, <2>2 DEF DeleteUnlink, MaybePicture
  <2>3. CASE DeleteCopies(b)
    BY <2>0, <2>3, ActingTypes DEF DeleteCopies
  <2> QED
    BY <2>0, <2>1, <2>2, <2>3 DEF Begun, Delete, DeleteBegin, DeleteLoad, DeleteRaises, DeleteCommit,
                       PruneMember, PruneCount, PruneDrop, DeleteDone
<1>4. \E r : Becomes(b, r) /\ CallShape(r)
  BY CallSteps DEF Delete, Pruned
<1>5. DelShape'
  <2>1. DelShape
    BY DEF Shape
  <2> QED
    BY <1>2, <1>4, <2>1, CallKept DEF CallShape
<1>6. spent' \in [Caps -> Nat]
  <2>1. spent \in [Caps -> Nat]
    BY DEF Shape
  <2>2. Begun(b) => spent' \in [Caps -> Nat]
    BY <2>1, BeginGrows DEF Begun, DeleteBegin, Caps
  <2>3. DeleteRaises(b) \/ DeleteCopies(b) => spent' \in [Caps -> Nat]
    BY <2>1, TroubleGrows DEF DeleteRaises, DeleteCopies, Caps
  <2> QED
    BY <2>1, <2>2, <2>3 DEF Delete, DeleteLoad, DeleteMove, DeleteUnlink,
                DeleteCommit, PruneMember, PruneCount, PruneDrop, DeleteDone
<1> QED
  BY <1>1, <1>2, <1>3, <1>5, <1>6 DEF Shape, ScanShape

LEMMA ShapeKept ==
    ASSUME Shape, [Next]_vars
    PROVE  Shape'
<1>1. spent' \in [Caps -> Nat]
  BY SpentGrows DEF Shape
<1>2. ASSUME NEW p \in Pictures, Save(p) PROVE Shape'
  <2>1. UNCHANGED <<row, scan, del>> /\ disk' = [disk EXCEPT ![At(Home[p])] = p]
    BY <1>2 DEF Save
  <2>2. disk' \in [Places -> MaybePicture]
    BY <2>1 DEF Shape, MaybePicture
  <2>3. DelShape'
    BY <2>1 DEF Shape, DelShape, CallShape, IsCall, Ids
  <2> QED
    BY <1>1, <2>1, <2>2, <2>3 DEF Shape, ScanShape
<1>3. ASSUME NEW f \in Files, Vanish(f) PROVE Shape'
  BY <1>1, <1>3 DEF Vanish, Shape, ScanShape, DelShape, CallShape, IsCall, Ids, MaybePicture
<1>4. CASE Crash
  BY <1>1, <1>4 DEF Crash, Shape, ScanShape, DelShape, CallShape, IsCall, Ids, IdleScan,
                    IdleBatch, IdleWork, WorkRecord, MaybePicture, OnRow, Slots
<1>5. CASE UNCHANGED vars
  BY <1>5 DEF vars, Shape, ScanShape, DelShape, CallShape, IsCall, Ids
<1> QED
  BY <1>2, <1>3, <1>4, <1>5, ScanShapeKept, DelShapeKept DEF Next, Begun

-----------------------------------------------------------------------------
(* No picture is lost among two of a path.                                  *)

Real(p) == p # NoPicture

\* Where a file of the path f may get.
Reach(f) == {At(f), <<f, "staged">>, RenamedTo[f]}

\* What is at a place is a saved picture that may get there; it is there only,
\* unless half a move left a copy.
Whereabouts == \A a \in Places : Real(disk[a]) =>
    disk[a] \in saved /\ a \in Reach(Home[disk[a]])
Apart == spent.copies = 0 =>
    \A a, b \in Places : Real(disk[a]) /\ disk[a] = disk[b] => a = b
\* The second name of a path is used once the first is taken, and while a copy
\* of what is there stands at the path itself, by nothing else.
SecondName == \A f \in Files :
    Real(disk[RenamedTo[f]]) /\ Home[disk[RenamedTo[f]]] = f =>
        /\ Real(disk[<<f, "staged">>])
        /\ Real(disk[At(f)]) /\ disk[At(f)] = disk[<<f, "staged">>] =>
              disk[RenamedTo[f]] = disk[At(f)]
Sorted ==
    /\ purged \subseteq saved /\ saved \subseteq Pictures
    /\ Whereabouts /\ Apart /\ SecondName
PictureInv == Sorted /\ KeepsTwoOfAName

LEMMA SlotsApart ==
    ASSUME NEW f \in Files
    PROVE  /\ \A s \in Slots : <<f, s>> \in Places /\ <<f, s>>[1] = f
           /\ At(f) = <<f, "here">>
           /\ <<f, "here">> # <<f, "staged">> /\ <<f, "here">> # <<f, "renamed">>
           /\ <<f, "staged">> # <<f, "renamed">>
           /\ At(f) \in Places /\ <<f, "staged">> \in Places /\ <<f, "renamed">> \in Places
BY DEF At, Places, Slots

LEMMA SlotIs == \A f : At(f)[2] = "here" /\ <<f, "staged">>[2] = "staged"
BY DEF At

\* What is at the path itself was saved there; what is elsewhere is there under
\* its own name or as the second of its path.
LEMMA HomeOf ==
    ASSUME Whereabouts, saved \subseteq Pictures, NEW f \in Files
    PROVE  /\ Real(disk[At(f)]) => Home[disk[At(f)]] = f
           /\ Real(disk[<<f, "staged">>]) =>
                \/ Home[disk[<<f, "staged">>]] = f
                \/ RenamedTo[Home[disk[<<f, "staged">>]]] = <<f, "staged">>
           /\ Real(disk[RenamedTo[f]]) =>
                \/ Home[disk[RenamedTo[f]]] = f
                \/ RenamedTo[f] = <<Home[disk[RenamedTo[f]]], "staged">>
<1>1. \A p \in Pictures : Home[p] \in Files
  BY PicturesAssumption
<1>2. \A a \in Places : Real(disk[a]) =>
         /\ Home[disk[a]] \in Files
         /\ \/ a = At(Home[disk[a]])
            \/ a = <<Home[disk[a]], "staged">>
            \/ a = RenamedTo[Home[disk[a]]]
  BY <1>1 DEF Whereabouts, Reach
<1>3. ASSUME Real(disk[At(f)]) PROVE Home[disk[At(f)]] = f
  <2> DEFINE e == Home[disk[At(f)]]
  <2>1. e \in Files /\ (At(f) = At(e) \/ At(f) = <<e, "staged">> \/ At(f) = RenamedTo[e])
    BY <1>2, <1>3, SlotsApart
  <2>2. At(f)[2] = "here" /\ <<e, "staged">>[2] = "staged"
    BY DEF At
  <2>3. RenamedTo[e][2] \in {"staged", "renamed"}
    BY <2>1, PathTypes
  <2> QED
    BY <2>1, <2>2, <2>3 DEF At
<1>4. ASSUME Real(disk[<<f, "staged">>])
      PROVE  \/ Home[disk[<<f, "staged">>]] = f
             \/ RenamedTo[Home[disk[<<f, "staged">>]]] = <<f, "staged">>
  <2> DEFINE e == Home[disk[<<f, "staged">>]]
  <2>1. \/ <<f, "staged">> = At(e) \/ <<f, "staged">> = <<e, "staged">>
        \/ <<f, "staged">> = RenamedTo[e]
    BY <1>2, <1>4, SlotsApart
  <2> QED
    BY <2>1 DEF At
<1>5. ASSUME Real(disk[RenamedTo[f]])
      PROVE  \/ Home[disk[RenamedTo[f]]] = f
             \/ RenamedTo[f] = <<Home[disk[RenamedTo[f]]], "staged">>
  <2> DEFINE e == Home[disk[RenamedTo[f]]]
  <2>1. /\ e \in Files /\ RenamedTo[f][2] \in {"staged", "renamed"}
        /\ \/ RenamedTo[f] = At(e) \/ RenamedTo[f] = <<e, "staged">>
           \/ RenamedTo[f] = RenamedTo[e]
    BY <1>2, <1>5, PathTypes
  <2>2. At(e)[2] = "here"
    BY DEF At
  <2>3. RenamedTo[f] = RenamedTo[e] => f = e
    BY <2>1, NamesAssumption
  <2> QED
    BY <2>1, <2>2, <2>3
<1> QED
  BY <1>3, <1>4, <1>5

LEMMA ThreeAreMany ==
    ASSUME NEW S, IsFiniteSet(S), NEW p \in S, NEW q \in S, NEW r \in S,
           p # q, q # r, p # r
    PROVE  ~(Cardinality(S) <= 2)
<1>1. /\ IsFiniteSet({p}) /\ Cardinality({p}) = 1
  BY FS_Singleton
<1>2. /\ IsFiniteSet({p} \union {q}) /\ Cardinality({p} \union {q}) = 2
  <2> DEFINE T == {p}
  <2>1. q \notin T /\ IsFiniteSet(T) /\ Cardinality(T) = 1
    BY <1>1
  <2> HIDE DEF T
  <2>2. IsFiniteSet(T \union {q}) /\ Cardinality(T \union {q}) = 2
    BY <2>1, FS_AddElement
  <2> QED
    BY <2>2 DEF T
<1>3. /\ IsFiniteSet({p} \union {q} \union {r})
      /\ Cardinality({p} \union {q} \union {r}) = 3
  <2> DEFINE T == {p} \union {q}
  <2>1. r \notin T /\ IsFiniteSet(T) /\ Cardinality(T) = 2
    BY <1>2
  <2> HIDE DEF T
  <2>2. IsFiniteSet(T \union {r}) /\ Cardinality(T \union {r}) = 3
    BY <2>1, FS_AddElement
  <2> QED
    BY <2>2 DEF T
<1>4. Cardinality({p} \union {q} \union {r}) <= Cardinality(S)
  <2>1. {p} \union {q} \union {r} \in SUBSET S
    OBVIOUS
  <2> QED
    BY <2>1, FS_Subset
<1>5. Cardinality(S) \in Nat
  BY FS_CardinalityType
<1> QED
  BY <1>3, <1>4, <1>5

\* Three pictures of one path are more than the rule provides for.
LEMMA ThreeOfAPath ==
    ASSUME saved \subseteq Pictures, IsFiniteSet(Pictures), NEW f,
           NEW x \in saved, NEW y \in saved, NEW z \in saved,
           x # y, y # z, x # z, Home[x] = f, Home[y] = f, Home[z] = f
    PROVE  /\ ~(Cardinality(NamedLike(x)) <= 2)
           /\ ~(Cardinality(NamedLike(x) \cap saved) <= 2)
<1>1. x \in NamedLike(x) /\ y \in NamedLike(x) /\ z \in NamedLike(x)
  BY DEF NamedLike
<1>2. IsFiniteSet(NamedLike(x)) /\ IsFiniteSet(NamedLike(x) \cap saved)
  BY FS_Subset DEF NamedLike
<1> QED
  BY <1>1, <1>2, ThreeAreMany

LEMMA InitPictures == Init => PictureInv
<1> SUFFICES ASSUME Init PROVE PictureInv
  OBVIOUS
<1>1. ASSUME NEW a \in Places, Real(disk[a])
      PROVE  disk[a] \in Stored /\ a = At(Home[disk[a]])
  <2>1. \E p \in Stored : a = At(Home[p])
    BY <1>1 DEF Init, Real
  <2> DEFINE q == CHOOSE p \in Stored : a = At(Home[p])
  <2>2. q \in Stored /\ a = At(Home[q])
    BY <2>1
  <2>3. disk[a] = q
    BY <2>1 DEF Init
  <2> QED
    BY <2>2, <2>3
<1>2. \A p \in Stored : p \in Pictures /\ Home[p] \in Files /\ At(Home[p]) \in Places
  BY PicturesAssumption, SlotsApart
<1>3. ASSUME NEW p \in Stored PROVE disk[At(Home[p])] = p
  <2> DEFINE a == At(Home[p])
             q == CHOOSE r \in Stored : a = At(Home[r])
  <2>1. q \in Stored /\ a = At(Home[q])
    OBVIOUS
  <2>2. disk[a] = q
    BY <1>2 DEF Init
  <2>3. q = p
    BY <2>1, PicturesAssumption DEF At
  <2> QED
    BY <2>2, <2>3
<1>4. Sorted
  <2>1. saved = Stored /\ purged = {}
    BY DEF Init
  <2>2. Whereabouts
    BY <1>1, <2>1 DEF Whereabouts, Reach
  <2>3. Apart
    BY <1>1 DEF Apart
  <2>4. \A f \in Files : RenamedTo[f] \in Places /\ RenamedTo[f][2] # "here"
    BY PathTypes
  <2>5. SecondName
    BY <1>1, <2>4 DEF SecondName, At
  <2> QED
    BY <1>2, <2>1, <2>2, <2>3, <2>5 DEF Sorted
<1>5. KeepsTwoOfAName
  BY <1>2, <1>3 DEF Init, KeepsTwoOfAName, Somewhere
<1> QED
  BY <1>4, <1>5 DEF PictureInv

\* A file is moved or copied to the -delete folder.
Taken(b) == DeleteMove(b) \/ DeleteCopies(b)
Goes(b) == Path(<<File(b), Target(File(b))>>)

LEMMA TakenFile ==
    ASSUME Shape, Sorted, NEW b \in Batches, Taken(b)
    PROVE  /\ File(b) \in Files /\ At(File(b)) \in Places /\ Goes(b) \in Places
           /\ Goes(b) # At(File(b)) /\ Goes(b) \in Reach(File(b))
           /\ Real(disk[At(File(b))]) /\ Home[disk[At(File(b))]] = File(b)
           /\ Goes(b)[2] # "here"
           /\ \/ Goes(b) = <<File(b), "staged">> /\ ~Real(disk[<<File(b), "staged">>])
              \/ Goes(b) = RenamedTo[File(b)] /\ Real(disk[<<File(b), "staged">>])
           /\ UNCHANGED <<purged, saved>>
           /\ disk'[Goes(b)] = disk[At(File(b))]
           /\ disk'[At(File(b))] \in {disk[At(File(b))], NoPicture}
           /\ disk'[At(File(b))] # NoPicture => spent'.copies # 0
           /\ \A a \in Places \ {Goes(b), At(File(b))} : disk'[a] = disk[a]
<1> DEFINE f == File(b)  to == Goes(b)
<1>1. del[b].pc = "act" /\ Real(disk[At(f)]) /\ UNCHANGED <<purged, saved>>
  BY DEF Taken, DeleteMove, DeleteCopies, Real
<1>2. f \in Files /\ At(f) \in Places
  BY <1>1, ActingTypes
<1>3. \/ to = <<f, "staged">> /\ ~Real(disk[<<f, "staged">>])
      \/ to = RenamedTo[f] /\ Real(disk[<<f, "staged">>])
  <2>1. CASE disk[<<f, "staged">>] = NoPicture
    <3>1. Target(f) = "staged"
      BY <2>1 DEF Target
    <3> QED
      BY <1>2, <2>1, <3>1, PathTypes DEF Real, Goes
  <2>2. CASE disk[<<f, "staged">>] # NoPicture
    <3>1. Target(f) = "renamed"
      BY <2>2 DEF Target
    <3> QED
      BY <1>2, <2>2, <3>1, PathTypes DEF Real, Goes
  <2> QED
    BY <2>1, <2>2
<1>4. to \in Places /\ to[2] # "here" /\ to # At(f) /\ to \in Reach(f)
  <2>1. /\ RenamedTo[f] \in Places /\ RenamedTo[f][2] # "here"
        /\ <<f, "staged">> \in Places
    BY <1>2, PathTypes, SlotsApart
  <2>2. to \in Places /\ to[2] # "here" /\ to \in Reach(f)
    BY <1>3, <2>1, SlotIs DEF Reach
  <2> QED
    BY <2>2, SlotIs
<1>5. Home[disk[At(f)]] = f
  BY <1>1, <1>2, HomeOf DEF Sorted
<1>6. /\ disk \in [Places -> MaybePicture]
      /\ spent \in [Caps -> Nat] /\ "copies" \in Caps
  BY DEF Shape, Caps
<1>7. \/ disk' = [disk EXCEPT ![to] = disk[At(f)], ![At(f)] = NoPicture]
      \/ disk' = [disk EXCEPT ![to] = disk[At(f)]] /\ spent'["copies"] # 0
  <2>1. CASE DeleteMove(b)
    BY <2>1 DEF DeleteMove, Goes
  <2>2. CASE DeleteCopies(b)
    BY <1>6, <2>2, TroubleGrows DEF DeleteCopies, Goes
  <2> QED
    BY <2>1, <2>2 DEF Taken
<1> HIDE DEF f, to
<1>8. /\ disk'[to] = disk[At(f)]
      /\ disk'[At(f)] \in {disk[At(f)], NoPicture}
      /\ disk'[At(f)] # NoPicture => spent'.copies # 0
      /\ \A a \in Places \ {to, At(f)} : disk'[a] = disk[a]
  BY <1>2, <1>4, <1>6, <1>7
<1> QED
  BY <1>1, <1>2, <1>3, <1>4, <1>5, <1>8 DEF f, to

\* What a move or a copy replaces, where no other file has the name, is one of
\* three pictures of its path, or stays elsewhere.
LEMMA ReplacedIsThird ==
    ASSUME Shape, Sorted, IsFiniteSet(Pictures), NEW b \in Batches, Taken(b),
           Real(disk[Goes(b)]), OwnName(Home[disk[Goes(b)]]),
           Cardinality(NamedLike(disk[Goes(b)])) <= 2
    PROVE  \E place \in Places : disk'[place] = disk[Goes(b)]
<1> DEFINE f == File(b)  to == Goes(b)  p == disk[to]
           x == disk[At(f)]  y == disk[<<f, "staged">>]
<1>1. /\ f \in Files /\ to \in Places /\ Real(x) /\ Home[x] = f
      /\ to = RenamedTo[f] /\ Real(y) /\ to # At(f) /\ At(f) \in Places
      /\ disk'[to] = x /\ \A a \in Places \ {to, At(f)} : disk'[a] = disk[a]
  BY TakenFile
<1>2. <<f, "staged">> \in Places \ {to, At(f)}
  <2>1. <<f, "staged">> \in Places /\ RenamedTo[f] # <<f, "staged">>
    BY <1>1, SlotsApart, PathTypes
  <2>2. <<f, "staged">> # At(f)
    BY SlotIs
  <2> QED
    BY <1>1, <2>1, <2>2
<1>3. p \in saved /\ x \in saved /\ y \in saved /\ saved \subseteq Pictures
  BY <1>1, <1>2 DEF Sorted, Whereabouts
<1>4. Home[p] = f
  <2>1. Home[p] = f \/ RenamedTo[f] = <<Home[p], "staged">>
    BY <1>1, HomeOf DEF Sorted
  <2> QED
    BY <1>1, <2>1 DEF OwnName
<1>5. Home[y] = f
  <2>1. Home[y] \in Files
    BY <1>3, PicturesAssumption
  <2>2. Home[y] = f \/ RenamedTo[Home[y]] = <<f, "staged">>
    BY <1>1, HomeOf DEF Sorted
  <2> QED
    BY <1>4, <2>1, <2>2 DEF OwnName
<1>6. CASE p = x \/ p = y
  <2>1. disk'[to] = x /\ disk'[<<f, "staged">>] = y
    BY <1>1, <1>2
  <2> HIDE DEF p, x, y, to, f
  <2>2. \E a \in Places : disk'[a] = p
    BY <1>1, <1>2, <1>6, <2>1
  <2>3. \E place \in Places : disk'[place] = disk[Goes(b)]
    BY <2>2 DEF p, to
  <2> QED
    BY <2>3
<1>7. CASE p # x /\ p # y
  <2>1. x # y
    BY <1>1, <1>4, <1>7 DEF Sorted, SecondName
  <2> HIDE DEF p, x, y, to, f
  <2>2. Home[x] = f /\ x # p /\ y # p
    BY <1>1, <1>7
  <2>3. ~(Cardinality(NamedLike(p)) <= 2)
    BY <1>3, <1>4, <1>5, <2>1, <2>2, ThreeOfAPath
  <2> QED
    BY <2>3 DEF p, to
<1> QED
  BY <1>6, <1>7

LEMMA TakenKeepsPictures ==
    ASSUME Shape, PictureInv, IsFiniteSet(Pictures), NEW b \in Batches, Taken(b),
           spent'.copies = 0 => spent.copies = 0
    PROVE  PictureInv'
<1> DEFINE f == File(b)  to == Goes(b)  x == disk[At(f)]
<1>1. /\ f \in Files /\ At(f) \in Places /\ to \in Places /\ to # At(f)
      /\ to \in Reach(f) /\ Real(x) /\ Home[x] = f /\ to[2] # "here"
      /\ \/ to = <<f, "staged">> /\ ~Real(disk[<<f, "staged">>])
         \/ to = RenamedTo[f] /\ Real(disk[<<f, "staged">>])
  BY TakenFile DEF PictureInv
<1>2. /\ UNCHANGED <<purged, saved>> /\ disk'[to] = x /\ disk'[At(f)] \in {x, NoPicture}
      /\ disk'[At(f)] # NoPicture => spent'.copies # 0
      /\ \A a \in Places \ {to, At(f)} : disk'[a] = disk[a]
  BY TakenFile DEF PictureInv
<1>3. \A a \in Places : Real(disk'[a]) =>
        \/ a \in {to, At(f)} /\ disk'[a] = x
        \/ a \notin {to, At(f)} /\ disk'[a] = disk[a]
  BY <1>1, <1>2 DEF Real
<1>4. \A a \in Places : Real(disk[a]) => disk[a] \in saved /\ a \in Reach(Home[disk[a]])
  BY DEF PictureInv, Sorted, Whereabouts
<1>5. Whereabouts'
  <2>1. ASSUME NEW a \in Places, Real(disk'[a])
        PROVE  disk'[a] \in saved /\ a \in Reach(Home[disk'[a]])
    <3>1. CASE a \in {to, At(f)} /\ disk'[a] = x
      BY <1>1, <1>4, <3>1 DEF Reach
    <3>2. CASE a \notin {to, At(f)} /\ disk'[a] = disk[a]
      BY <1>4, <2>1, <3>2
    <3> QED
      BY <1>3, <2>1, <3>1, <3>2
  <2> QED
    BY <1>2, <2>1 DEF Whereabouts, Reach
<1>6. Apart'
  <2> SUFFICES ASSUME spent'.copies = 0, NEW a \in Places, NEW c \in Places,
                      Real(disk'[a]), disk'[a] = disk'[c]
               PROVE  a = c
    BY DEF Apart
  <2>1. \A u, v \in Places : Real(disk[u]) /\ disk[u] = disk[v] => u = v
    BY DEF PictureInv, Sorted, Apart
  <2>2. disk'[At(f)] = NoPicture
    BY <1>2
  <2>3. a # At(f) /\ c # At(f)
    BY <2>2 DEF Real
  <2> QED
    BY <1>1, <1>2, <1>3, <2>1, <2>3
<1>7. SecondName'
  <2> SUFFICES ASSUME NEW g \in Files, Real(disk'[RenamedTo[g]]),
                      Home[disk'[RenamedTo[g]]] = g
               PROVE  /\ Real(disk'[<<g, "staged">>])
                      /\ Real(disk'[At(g)]) /\ disk'[At(g)] = disk'[<<g, "staged">>] =>
                            disk'[RenamedTo[g]] = disk'[At(g)]
    BY DEF SecondName, At
  <2>1. /\ RenamedTo[g] \in Places /\ At(g) \in Places /\ <<g, "staged">> \in Places
        /\ RenamedTo[g] # <<g, "staged">> /\ RenamedTo[g][2] # "here" /\ At(g)[2] = "here"
        /\ At(g) # <<g, "staged">> /\ <<g, "staged">>[2] = "staged" /\ At(f)[2] = "here"
    BY PathTypes, SlotsApart DEF At
  <2>2. Real(disk[RenamedTo[g]]) /\ Home[disk[RenamedTo[g]]] = g =>
           /\ Real(disk[<<g, "staged">>])
           /\ Real(disk[At(g)]) /\ disk[At(g)] = disk[<<g, "staged">>] =>
                 disk[RenamedTo[g]] = disk[At(g)]
    BY DEF PictureInv, Sorted, SecondName
  <2>3. Real(disk[<<g, "staged">>]) => Real(disk'[<<g, "staged">>])
    BY <1>1, <1>2, <2>1
  <2>4. CASE g = f
    <3>1. CASE to = RenamedTo[f]
      <4>1. Real(disk'[<<f, "staged">>])
        BY <1>1, <2>1, <2>3, <2>4, <3>1
      <4>2. disk'[RenamedTo[f]] = x
        BY <1>2, <3>1
      <4> QED
        BY <1>2, <2>4, <4>1, <4>2 DEF Real
    <3>2. CASE to # RenamedTo[f]
      <4>1. disk'[RenamedTo[f]] = disk[RenamedTo[f]]
        BY <1>2, <2>1, <2>4, <3>2
      <4>2. ~Real(disk[<<f, "staged">>])
        BY <1>1, <3>2
      <4> QED
        BY <2>2, <2>4, <4>1, <4>2
    <3> QED
      BY <3>1, <3>2
  <2>5. CASE g # f
    <3>1. disk'[RenamedTo[g]] = disk[RenamedTo[g]]
      <4>1. RenamedTo[g] # At(f)
        BY <2>1
      <4>2. RenamedTo[g] # to
        BY <1>1, <1>2, <2>5
      <4> QED
        BY <1>2, <2>1, <4>1, <4>2
    <3>2. At(g) # At(f) /\ At(g) # to /\ <<g, "staged">> # At(f)
      BY <1>1, <2>1, <2>5 DEF At
    <3>3. disk'[At(g)] = disk[At(g)]
      BY <1>2, <2>1, <3>2
    <3>4. Real(disk[At(g)]) => Home[disk[At(g)]] = g
      BY HomeOf DEF PictureInv, Sorted
    <3>5. CASE to = <<g, "staged">>
      <4>1. disk'[<<g, "staged">>] = x
        BY <1>2, <3>5
      <4> QED
        BY <1>1, <2>5, <3>3, <3>4, <4>1
    <3>6. CASE to # <<g, "staged">>
      <4>1. disk'[<<g, "staged">>] = disk[<<g, "staged">>]
        BY <1>2, <2>1, <3>2, <3>6
      <4> QED
        BY <2>2, <3>1, <3>3, <4>1
    <3> QED
      BY <3>5, <3>6
  <2> QED
    BY <2>4, <2>5
<1>8. KeepsTwoOfAName'
  <2> SUFFICES ASSUME NEW p \in saved \ purged, Cardinality(NamedLike(p)) <= 2,
                      OwnName(Home[p])
               PROVE  Somewhere(p)'
    BY <1>2 DEF KeepsTwoOfAName, NamedLike, OwnName
  <2>1. PICK a \in Places : disk[a] = p
    BY DEF PictureInv, KeepsTwoOfAName, Somewhere
  <2>2. Real(p)
    BY PicturesAssumption DEF PictureInv, Sorted, Real
  <2>3. CASE a = to
    <3>1. Real(disk[Goes(b)]) /\ OwnName(Home[disk[Goes(b)]])
          /\ Cardinality(NamedLike(disk[Goes(b)])) <= 2
      BY <2>1, <2>2, <2>3
    <3>2. \E place \in Places : disk'[place] = disk[Goes(b)]
      BY <3>1, ReplacedIsThird DEF PictureInv
    <3> QED
      BY <2>1, <2>3, <3>2 DEF Somewhere
  <2>4. CASE a = At(f)
    BY <1>1, <1>2, <2>1, <2>4 DEF Somewhere
  <2>5. CASE a # to /\ a # At(f)
    BY <1>2, <2>1, <2>5 DEF Somewhere
  <2> QED
    BY <2>3, <2>4, <2>5
<1> QED
  BY <1>2, <1>5, <1>6, <1>7, <1>8 DEF PictureInv, Sorted

LEMMA EmptyKeepsPictures ==
    ASSUME Shape, PictureInv, NEW f \in Files, Real(disk[At(f)]),
           disk' = [disk EXCEPT ![At(f)] = NoPicture],
           purged' = purged \union {disk[At(f)]}, UNCHANGED saved,
           spent'.copies = 0 => spent.copies = 0
    PROVE  PictureInv'
<1>1. /\ At(f) \in Places /\ disk'[At(f)] = NoPicture
      /\ \A a \in Places \ {At(f)} : disk'[a] = disk[a]
  BY SlotsApart DEF Shape
<1>2. Whereabouts' /\ Apart' /\ purged' \subseteq saved /\ saved' = saved
  BY <1>1 DEF PictureInv, Sorted, Whereabouts, Apart, Reach, Real
<1>3. SecondName'
  <2>1. \A g \in Files :
          /\ RenamedTo[g] \in Places \ {At(f)} /\ <<g, "staged">> \in Places \ {At(f)}
          /\ At(g) \in Places
    BY PathTypes, SlotsApart DEF At
  <2> QED
    BY <1>1, <2>1 DEF PictureInv, Sorted, SecondName, Real, At
<1>4. KeepsTwoOfAName'
  BY <1>1 DEF PictureInv, KeepsTwoOfAName, Somewhere, NamedLike, OwnName
<1> QED
  BY <1>2, <1>3, <1>4 DEF PictureInv, Sorted

LEMMA SaveKeepsPictures ==
    ASSUME Shape, PictureInv, NEW p \in Pictures, Save(p)
    PROVE  PictureInv'
<1> DEFINE h == At(Home[p])
<1>1. Home[p] \in Files /\ h \in Places /\ h[1] = Home[p] /\ Real(p)
  BY PicturesAssumption, SlotsApart DEF At, Real
<1>2. /\ ~Real(disk[h]) /\ disk'[h] = p
      /\ \A a \in Places \ {h} : disk'[a] = disk[a]
  BY <1>1 DEF Save, Shape, Real
<1>3. p \notin saved /\ saved' = saved \union {p} /\ purged' = purged
  BY DEF Save
<1> HIDE DEF h
<1>4. Sorted'
  <2>1. h \in Reach(Home[p]) /\ UNCHANGED spent
    BY DEF Reach, h, Save
  <2>2. Whereabouts'
    BY <1>1, <1>2, <1>3, <2>1 DEF PictureInv, Sorted, Whereabouts, Reach, Real
  <2>3. Apart'
    BY <1>1, <1>2, <1>3, <2>1 DEF PictureInv, Sorted, Whereabouts, Apart, Real
  <2>4. SecondName'
    <3>1. \A g \in Files :
            /\ RenamedTo[g] \in Places \ {h} /\ <<g, "staged">> \in Places \ {h}
            /\ At(g) \in Places
      <4>1. ASSUME NEW g \in Files
            PROVE  /\ RenamedTo[g] \in Places /\ RenamedTo[g][2] # "here"
                   /\ <<g, "staged">> \in Places /\ At(g) \in Places
        BY PathTypes, SlotsApart
      <4>2. h[2] = "here"
        BY SlotIs DEF h
      <4> QED
        BY <4>1, <4>2, SlotIs
    <3>2. \A g \in Files : Real(disk[<<g, "staged">>]) => disk[<<g, "staged">>] # p
      BY <1>3, <3>1 DEF PictureInv, Sorted, Whereabouts
    <3> QED
      BY <1>1, <1>2, <3>1, <3>2 DEF PictureInv, Sorted, SecondName, Real, At
  <2> QED
    BY <1>3, <2>2, <2>3, <2>4 DEF PictureInv, Sorted
<1>5. KeepsTwoOfAName'
  <2> SUFFICES ASSUME NEW q \in saved' \ purged', Cardinality(NamedLike(q)) <= 2,
                      OwnName(Home[q])
               PROVE  Somewhere(q)'
    BY DEF KeepsTwoOfAName, NamedLike, OwnName
  <2>1. CASE q = p
    BY <1>1, <1>2, <2>1 DEF Somewhere
  <2>2. CASE q # p
    <3>1. q \in saved /\ q # NoPicture
      BY <1>3, <2>2, PicturesAssumption DEF PictureInv, Sorted
    <3>2. PICK a \in Places : disk[a] = q
      BY <1>3, <3>1 DEF PictureInv, KeepsTwoOfAName, Somewhere
    <3> QED
      BY <1>2, <3>1, <3>2 DEF Somewhere, Real
  <2> QED
    BY <2>1, <2>2
<1> QED
  BY <1>4, <1>5 DEF PictureInv

LEMMA StepKeepsPictures ==
    ASSUME Shape, PictureInv, IsFiniteSet(Pictures), [Next]_vars
    PROVE  PictureInv'
<1>0. spent'.copies = 0 => spent.copies = 0
  BY SpentGrows DEF Shape, Caps
<1>1. CASE UNCHANGED <<disk, purged, saved>>
  BY <1>0, <1>1 DEF PictureInv, Sorted, Whereabouts, Apart, SecondName, Reach, At,
                    KeepsTwoOfAName, Somewhere, NamedLike, OwnName
<1>2. ASSUME NEW b \in Batches, DeleteUnlink(b) PROVE PictureInv'
  BY <1>0, <1>2, ActingTypes, EmptyKeepsPictures DEF DeleteUnlink, Real
<1>3. ASSUME NEW f \in Files, Vanish(f) PROVE PictureInv'
  BY <1>0, <1>3, EmptyKeepsPictures DEF Vanish, Real
<1>4. ASSUME NEW b \in Batches, Begun(b) \/ Delete(b) PROVE PictureInv'
  BY <1>0, <1>1, <1>2, <1>4, TakenKeepsPictures DEF Begun, Delete, Taken, DeleteBegin,
       DeleteLoad, DeleteRaises, DeleteCommit, PruneMember, PruneCount, PruneDrop, DeleteDone
<1>5. CASE ScanStart \/ Scan
  <2>1. ASSUME NEW f \in Files,
               ScanStat(f) \/ ScanHash(f) \/ ScanHashRaises(f) \/ ScanWrite(f)
        PROVE  UNCHANGED <<disk, purged, saved>>
    BY <2>1 DEF ScanStat, ScanHash, ScanHashRaises, ScanWrite
  <2> QED
    BY <1>1, <1>5, <2>1 DEF ScanStart, Scan, ScanClear, ScanSelect, ScanInsert
<1>6. Crash \/ UNCHANGED vars => PictureInv'
  BY <1>1 DEF Crash, vars
<1> QED
  BY <1>3, <1>4, <1>5, <1>6, SaveKeepsPictures DEF Next, Begun

\* However files are grouped, chosen, moved, copied and unlinked, whatever fails,
\* dies or overlaps: of up to two pictures ever saved at a path, none is
\* overwritten in the -delete folder, unless the folder holds another file whose
\* second name is the name of that path.
THEOREM PicturesKept ==
    ASSUME IsFiniteSet(Pictures)
    PROVE  Spec => []KeepsTwoOfAName
<1>1. Init => Shape /\ PictureInv
  BY InitShape, InitPictures
<1>2. Shape /\ PictureInv /\ [Next]_vars => Shape' /\ PictureInv'
  BY ShapeKept, StepKeepsPictures
<1>3. PictureInv => KeepsTwoOfAName
  BY DEF PictureInv
<1> QED
  BY <1>1, <1>2, <1>3, PTL DEF Spec

-----------------------------------------------------------------------------
(* An active row names a file that is there.                                *)

Acting == {b \in Batches : del[b].pc = "act"}
Landing == {b \in Batches : del[b].pc = "commit"}
Landed(b) == <<File(b), del[b].to>>

\* Rows have paths of their own, an active one its first place, and the
\* -delete folder is never emptied.
RowsInPlace ==
    /\ \A i, j \in Ids : Path(row[i].at) = Path(row[j].at) => i = j
    /\ \A i \in Ids : row[i].status = "active" => row[i].at[2] = "here"
    /\ \A i \in Ids : row[i].at[2] # "here" => Real(disk[Path(row[i].at)])

\* A call works on the row at the first place, unless another has emptied it;
\* between the file operation and the commit it is empty, and no other call
\* can be there for the same path.
CallsInPlace ==
    /\ \A b \in Acting : row[del[b].id].at = At(File(b)) \/ ~Real(disk[At(File(b))])
    /\ \A b \in Landing : /\ ~Real(disk[At(File(b))])
                          /\ del[b].to # "here" => Real(disk[Path(Landed(b))])
    /\ \A b, c \in Landing : File(b) = File(c) => b = c

\* Files in work belong to a scan that still lists.
WorkListed ==
    /\ scan.todo # {} => scan.pc = "files"
    /\ \A f \in Files : scan.work[f].pc # "done" => scan.pc = "files"

\* In calm a file in work is there, and a commit meets no other row.
Orderly ==
    Calm => /\ ~(Scanning /\ Deleting)
            /\ \A f \in Files : scan.work[f].pc # "done" => Real(disk[At(f)])
            /\ \A b \in Landing, j \in Ids :
                    Path(row[j].at) = Path(Landed(b)) => j = del[b].id
PlaceInv == RowsInPlace /\ CallsInPlace /\ WorkListed /\ Orderly /\ ActiveIsThere

\* Where in calm all three places of a path are taken it has three pictures.
LEMMA FullIsMany ==
    ASSUME Sorted, Calm, IsFiniteSet(Pictures), NEW f \in Files,
           Real(disk[At(f)]), Real(disk[<<f, "staged">>]), Real(disk[RenamedTo[f]])
    PROVE  ~(Cardinality(NamedLike(disk[At(f)]) \cap saved) <= 2)
<1> DEFINE x == disk[At(f)]  y == disk[<<f, "staged">>]  z == disk[RenamedTo[f]]
<1>1. /\ At(f) \in Places /\ <<f, "staged">> \in Places /\ RenamedTo[f] \in Places
      /\ At(f) # <<f, "staged">> /\ At(f) # RenamedTo[f]
      /\ RenamedTo[f] # <<f, "staged">>
  BY SlotsApart, PathTypes
<1>2. x # y /\ y # z /\ x # z
  BY <1>1 DEF Sorted, Apart, Calm
<1>3. x \in saved /\ y \in saved /\ z \in saved /\ saved \subseteq Pictures
  BY <1>1 DEF Sorted, Whereabouts
<1>4. Home[x] = f
  BY HomeOf DEF Sorted
<1>5. \A p \in saved : /\ RenamedTo[Home[p]] # <<Home[x], "staged">>
                       /\ RenamedTo[Home[x]] # <<Home[p], "staged">>
  BY <1>3 DEF Calm
<1>6. Home[y] = f /\ Home[z] = f
  <2>1. Home[y] = f \/ RenamedTo[Home[y]] = <<f, "staged">>
    BY HomeOf DEF Sorted
  <2>2. Home[z] = f \/ RenamedTo[f] = <<Home[z], "staged">>
    BY HomeOf DEF Sorted
  <2> QED
    BY <1>3, <1>4, <1>5, <2>1, <2>2
<1> HIDE DEF x, y, z
<1>7. ~(Cardinality(NamedLike(x) \cap saved) <= 2)
  BY <1>2, <1>3, <1>4, <1>6, ThreeOfAPath
<1> QED
  BY <1>7 DEF x

\* A path that is being moved away or unlinked has had a picture.
Known == \A b \in Landing : \E p \in saved : Home[p] = File(b)

\* Two files of which neither has the other's second name share no path.
LEMMA PathsPart ==
    ASSUME NEW f \in Files, NEW g \in Files, f # g, NEW s \in Slots, NEW t \in Slots,
           RenamedTo[f] # <<g, "staged">>, RenamedTo[g] # <<f, "staged">>
    PROVE  Path(<<f, s>>) # Path(<<g, t>>)
<1>1. RenamedTo[f] # RenamedTo[g] /\ RenamedTo[f] # At(g) /\ RenamedTo[g] # At(f)
  <2>1. RenamedTo[f][2] # "here" /\ RenamedTo[g][2] # "here"
    BY PathTypes
  <2> QED
    BY <2>1, NamesAssumption DEF At
<1> QED
  BY <1>1 DEF Path, Slots, At

\* In calm no two files land on one path.
LEMMA LandApart ==
    ASSUME Shape, Known, Calm, NEW b \in Landing, NEW c \in Landing, File(b) # File(c)
    PROVE  Path(Landed(b)) # Path(Landed(c))
<1> DEFINE f == File(b)  g == File(c)
<1>1. /\ b \in Batches /\ c \in Batches /\ del[b].pc = "commit" /\ del[c].pc = "commit"
      /\ del[b].to \in Slots /\ del[c].to \in Slots
  BY DEF Landing, Shape, DelShape, CallShape
<1>2. f \in Files /\ g \in Files
  BY <1>1, ActingTypes
<1>3. RenamedTo[f] # <<g, "staged">> /\ RenamedTo[g] # <<f, "staged">>
  BY DEF Known, Calm
<1> HIDE DEF f, g
<1>4. \A s, t \in Slots : Path(<<f, s>>) # Path(<<g, t>>)
  BY <1>2, <1>3, PathsPart DEF f, g
<1> QED
  BY <1>1, <1>4 DEF Landed, f, g

LEMMA SavedGrows ==
    ASSUME [Next]_vars
    PROVE  saved \subseteq saved'
<1>1. CASE \E p \in Pictures : Save(p)
  BY <1>1 DEF Save
<1>2. CASE UNCHANGED saved
  BY <1>2
<1>3. CASE \E f \in Files :
              ScanStat(f) \/ ScanHash(f) \/ ScanHashRaises(f) \/ ScanWrite(f)
  BY <1>3 DEF ScanStat, ScanHash, ScanHashRaises, ScanWrite
<1>4. CASE ScanStart \/ ScanClear \/ ScanSelect \/ ScanInsert
  BY <1>4 DEF ScanStart, ScanClear, ScanSelect, ScanInsert
<1>5. ASSUME NEW b \in Batches, Begun(b) \/ Delete(b) PROVE UNCHANGED saved
  BY <1>5 DEF Begun, Delete, DeleteBegin, DeleteLoad, DeleteMove, DeleteUnlink, DeleteRaises,
     DeleteCopies, DeleteCommit, PruneMember, PruneCount, PruneDrop, DeleteDone
<1> QED
  BY <1>1, <1>2, <1>3, <1>4, <1>5 DEF Next, Scan, Begun, Vanish, Crash, vars

LEMMA AppendIs ==
    ASSUME NEW S, NEW s \in Seq(S), NEW x
    PROVE  /\ Len(Append(s, x)) = Len(s) + 1 /\ Append(s, x)[Len(s) + 1] = x
           /\ \A k \in 1..Len(s) : Append(s, x)[k] = s[k]
OBVIOUS

\* _process_file writes one row, at the path of its file.
LEMMA WriteRow ==
    ASSUME Shape, Shape', NEW f \in Files, ScanWrite(f)
    PROVE  /\ Ids \subseteq Ids'
           /\ \A i \in Ids : /\ row'[i].at = row[i].at
                             /\ (row'[i] = row[i] \/ row[i].at = At(f))
           /\ \A i \in Ids' : i \in Ids \/ (row'[i].at = At(f) /\ RowsAt(At(f)) = {})
           /\ \A i, j \in Ids' \ Ids : i = j
<1> DEFINE w == scan.work[f]
           Fresh(old) == [at |-> At(f), status |-> "active", seen |-> w.seen,
                          hash |-> IF w.needs THEN w.hash ELSE old]
<1>1. \A old : Fresh(old).at = At(f)
  OBVIOUS
<1>2. row \in Seq(RowRecord) /\ Len(row) \in Nat /\ row' \in Seq(RowRecord)
  BY RowTypes DEF Shape
<1>3. row' = IF RowsAt(At(f)) = {} THEN Append(row, Fresh(NoPicture))
             ELSE [i \in Ids |-> IF row[i].at = At(f) THEN Fresh(row[i].hash) ELSE row[i]]
  BY DEF ScanWrite
<1> HIDE DEF Fresh
<1>4. CASE RowsAt(At(f)) = {}
  <2>1. /\ row' = Append(row, Fresh(NoPicture))
    BY <1>3, <1>4
  <2>2. /\ Len(row') = Len(row) + 1 /\ row'[Len(row) + 1] = Fresh(NoPicture)
        /\ \A i \in 1..Len(row) : row'[i] = row[i]
    BY <1>2, <2>1, AppendIs
  <2> QED
    BY <1>1, <1>2, <1>4, <2>2 DEF Ids
<1>5. CASE RowsAt(At(f)) # {}
  <2>1. row' = [i \in 1..Len(row) |-> IF row[i].at = At(f) THEN Fresh(row[i].hash)
                                      ELSE row[i]]
    BY <1>3, <1>5 DEF Ids
  <2>2. Len(row') = Len(row) /\ Ids' = Ids
    BY <1>2, <2>1 DEF Ids
  <2>3. ASSUME NEW i \in Ids
        PROVE  row'[i].at = row[i].at /\ (row'[i] = row[i] \/ row[i].at = At(f))
    <3>1. i \in 1..Len(row)
      BY DEF Ids
    <3>2. CASE row[i].at = At(f)
      <4>1. row'[i] = Fresh(row[i].hash)
        BY <2>1, <3>1, <3>2
      <4> QED
        BY <1>1, <3>2, <4>1
    <3>3. CASE row[i].at # At(f)
      <4>1. row'[i] = row[i]
        BY <2>1, <3>1, <3>3
      <4> QED
        BY <4>1
    <3> QED
      BY <3>2, <3>3
  <2>4. Ids \subseteq Ids' /\ Ids' \subseteq Ids
    BY <2>2
  <2> QED
    BY <2>3, <2>4
<1> QED
  BY <1>4, <1>5

\* A row keeps the path its file came from.
LEMMA FilesStay ==
    ASSUME Shape, Shape', [Next]_vars
    PROVE  \A i \in Ids : i \in Ids' /\ row'[i].at[1] = row[i].at[1]
<1>1. CASE UNCHANGED row
  BY <1>1 DEF Ids
<1>2. ASSUME NEW f \in Files, ScanWrite(f)
      PROVE  \A i \in Ids : i \in Ids' /\ row'[i].at[1] = row[i].at[1]
  BY <1>2, WriteRow
<1>3. ASSUME NEW b \in Batches, DeleteCommit(b)
      PROVE  \A i \in Ids : i \in Ids' /\ row'[i].at[1] = row[i].at[1]
  <2>1. /\ Len(row') = Len(row) /\ del[b].id \in Ids
        /\ \A j \in Ids \ {del[b].id} : row'[j] = row[j]
        /\ UNCHANGED row \/ row'[del[b].id].at = <<File(b), del[b].to>>
    BY <1>3, CommitRow
  <2>2. row'[del[b].id].at[1] = row[del[b].id].at[1]
    BY <2>1 DEF File
  <2> QED
    BY <2>1, <2>2 DEF Ids
<1>4. ASSUME NEW b \in Batches, Begun(b) \/ Delete(b) PROVE UNCHANGED row \/ DeleteCommit(b)
  BY <1>4 DEF Begun, Delete, DeleteBegin, DeleteLoad, DeleteMove, DeleteUnlink, DeleteRaises,
              DeleteCopies, PruneMember, PruneCount, PruneDrop, DeleteDone
<1>5. CASE ScanStart \/ Scan
  <2>1. ASSUME NEW f \in Files, ScanStat(f) \/ ScanHash(f) \/ ScanHashRaises(f)
        PROVE  UNCHANGED row
    BY <2>1 DEF ScanStat, ScanHash, ScanHashRaises
  <2> QED
    BY <1>1, <1>2, <1>5, <2>1 DEF ScanStart, Scan, ScanClear, ScanSelect, ScanInsert
<1>6. CASE (\E p \in Pictures : Save(p)) \/ (\E f \in Files : Vanish(f)) \/ Crash
           \/ UNCHANGED vars
  BY <1>1, <1>6 DEF Save, Vanish, Crash, vars
<1> QED
  BY <1>1, <1>3, <1>4, <1>5, <1>6 DEF Next, Begun

LEMMA StepKnown ==
    ASSUME Shape, Shape', Sorted, Known, [Next]_vars
    PROVE  Known'
<1> SUFFICES ASSUME NEW c \in Landing' PROVE \E p \in saved' : Home[p] = File(c)'
  BY DEF Known
<1>1. saved \subseteq saved' /\ c \in Batches /\ del'[c].pc = "commit"
  BY SavedGrows DEF Landing
<1>2. ASSUME del'[c] = del[c] PROVE \E p \in saved' : Home[p] = File(c)'
  <2>1. c \in Landing /\ del[c].id \in Ids
    BY <1>1, <1>2, ActingTypes DEF Landing
  <2>2. File(c)' = File(c)
    BY <1>2, <2>1, FilesStay DEF File
  <2> QED
    BY <1>1, <2>1, <2>2 DEF Known
<1>3. ASSUME DeleteMove(c) \/ DeleteUnlink(c) PROVE \E p \in saved' : Home[p] = File(c)'
  <2>1. del[c].pc = "act" /\ Real(disk[At(File(c))]) /\ UNCHANGED row
    BY <1>3 DEF DeleteMove, DeleteUnlink, Real
  <2>2. PICK r : Becomes(c, r) /\ r.id = del[c].id
    <3>1. \/ \E r : Becomes(c, r) /\ r.id = del[c].id /\ r.to = Target(File(c))
          \/ \E r : Becomes(c, r) /\ r.id = del[c].id /\ r.to = "here"
      BY <1>1, <1>3, CallSteps
    <3> QED
      BY <3>1
  <2>3. File(c) \in Files /\ At(File(c)) \in Places
    BY <1>1, <2>1, ActingTypes
  <2>4. del'[c].id = del[c].id
    BY <2>2 DEF Becomes, Shape, DelShape
  <2>5. File(c)' = File(c)
    BY <2>1, <2>4 DEF File
  <2>6. Home[disk[At(File(c))]] = File(c) /\ disk[At(File(c))] \in saved
    BY <2>1, <2>3, HomeOf DEF Sorted, Whereabouts
  <2> QED
    BY <1>1, <2>5, <2>6
<1>4. ASSUME NEW b \in Batches, Begun(b) \/ Delete(b)
      PROVE  del'[c] = del[c] \/ DeleteMove(c) \/ DeleteUnlink(c)
  <2>1. CASE b = c
    <3>1. CASE DeleteMove(b) \/ DeleteUnlink(b)
      BY <2>1, <3>1
    <3>2. CASE ~(DeleteMove(b) \/ DeleteUnlink(b))
      <4>1. \E r : Becomes(b, r) /\ r.pc # "commit"
        BY <1>4, <3>2, CallSteps DEF Delete, Pruned
      <4> QED
        BY <1>1, <2>1, <4>1 DEF Becomes, Shape, DelShape
    <3> QED
      BY <3>1, <3>2
  <2>2. CASE b # c
    <3>1. \E r : Becomes(b, r)
      BY <1>4, CallSteps DEF Delete, Pruned
    <3> QED
      BY <1>1, <2>2, <3>1 DEF Becomes, Shape, DelShape
  <2> QED
    BY <2>1, <2>2
<1>5. CASE ScanStart \/ Scan
  <2>1. ASSUME NEW f \in Files,
               ScanStat(f) \/ ScanHash(f) \/ ScanHashRaises(f) \/ ScanWrite(f)
        PROVE  UNCHANGED del
    BY <2>1 DEF ScanStat, ScanHash, ScanHashRaises, ScanWrite
  <2>2. UNCHANGED del
    BY <1>5, <2>1 DEF ScanStart, Scan, ScanClear, ScanSelect, ScanInsert
  <2> QED
    BY <1>2, <2>2
<1>6. CASE (\E p \in Pictures : Save(p)) \/ (\E f \in Files : Vanish(f)) \/ UNCHANGED vars
  BY <1>2, <1>6 DEF Save, Vanish, vars
<1>7. CASE Crash
  BY <1>1, <1>7 DEF Crash, IdleBatch
<1> QED
  BY <1>2, <1>3, <1>4, <1>5, <1>6, <1>7 DEF Next, Begun

\* Calm does not return.
LEMMA CalmEnds ==
    ASSUME Shape, Sorted, IsFiniteSet(Pictures), [Next]_vars, Calm'
    PROVE  Calm
<1>1. \A k \in Caps : spent[k] <= spent'[k] /\ spent[k] \in Nat /\ spent'[k] \in Nat
  BY SpentGrows DEF Shape
<1>2. /\ spent.removals = 0 /\ spent.crashes = 0 /\ spent.overlaps = 0
      /\ spent.copies = 0
  BY <1>1 DEF Calm, Caps
<1>3. saved \subseteq saved'
  BY SavedGrows
<1>4. ASSUME NEW p \in saved PROVE Cardinality(NamedLike(p) \cap saved) <= 2
  <2> DEFINE S == NamedLike(p) \cap saved  T == NamedLike(p) \cap saved'
  <2>1. IsFiniteSet(NamedLike(p))
    BY FS_Subset DEF NamedLike
  <2>2. IsFiniteSet(T)
    BY <2>1, FS_Intersection
  <2>3. S \in SUBSET T
    BY <1>3
  <2>4. Cardinality(T) <= 2
    BY <1>3 DEF Calm, NamedLike
  <2> HIDE DEF S, T
  <2>5. /\ IsFiniteSet(S) /\ Cardinality(S) <= Cardinality(T)
    BY <2>2, <2>3, FS_Subset
  <2>6. Cardinality(S) \in Nat /\ Cardinality(T) \in Nat
    BY <2>2, <2>5, FS_CardinalityType
  <2>7. Cardinality(S) <= 2
    BY <2>4, <2>5, <2>6
  <2> QED
    BY <2>7 DEF S
<1>5. \A p, q \in saved : RenamedTo[Home[p]] # <<Home[q], "staged">>
  BY <1>3 DEF Calm
<1> QED
  BY <1>2, <1>4, <1>5 DEF Calm

LEMMA InitPlaces == Init => PlaceInv /\ Known
<1> SUFFICES ASSUME Init PROVE PlaceInv /\ Known
  OBVIOUS
<1>1. Ids = {} /\ Acting = {} /\ Landing = {}
  BY DEF Init, Ids, Acting, Landing, IdleBatch
<1>2. /\ scan.todo = {} /\ scan.pc = "idle"
      /\ \A f \in Files : scan.work[f].pc = "done"
  BY DEF Init, IdleScan, IdleWork
<1> QED
  BY <1>1, <1>2 DEF PlaceInv, RowsInPlace, CallsInPlace, WorkListed, Orderly,
                    ActiveIsThere, Scanning, Known

\* A step of a call that touches neither files nor rows.
LEMMA QuietCall ==
    ASSUME Shape, Shape', PlaceInv, NEW b \in Batches, NEW r, Becomes(b, r),
           r.pc # "commit", del[b].pc # "commit",
           r.pc = "act" => r.id \in Ids /\ row[r.id].status = "active",
           UNCHANGED <<disk, row, scan>>, Calm' => Calm /\ ~Scanning
    PROVE  PlaceInv'
<1>1. del'[b] = r /\ \A c \in Batches \ {b} : del'[c] = del[c]
  BY DEF Becomes, Shape, DelShape
<1>2. /\ \A c \in Acting' : (c # b /\ c \in Acting) \/ (c = b /\ r.pc = "act")
      /\ Landing' = Landing /\ b \notin Landing
  <2>1. \A c : /\ c \in Acting' <=> c \in Batches /\ del'[c].pc = "act"
               /\ c \in Landing' <=> c \in Batches /\ del'[c].pc = "commit"
               /\ c \in Acting <=> c \in Batches /\ del[c].pc = "act"
               /\ c \in Landing <=> c \in Batches /\ del[c].pc = "commit"
    BY DEF Acting, Landing
  <2>2. \A c : c \in Landing' <=> c \in Landing
    BY <1>1, <2>1
  <2> QED
    BY <1>1, <2>1, <2>2
<1>3. \A c \in Batches \ {b} : File(c)' = File(c) /\ Landed(c)' = Landed(c)
  BY <1>1 DEF File, Landed
<1>4. RowsInPlace' /\ WorkListed'
  BY DEF PlaceInv, RowsInPlace, WorkListed, Ids
<1>5. CallsInPlace'
  <2>1. r.pc = "act" => row[r.id].at = At(row[r.id].at[1])
    BY RowTypes DEF PlaceInv, RowsInPlace, At
  <2>2. \A c \in Acting' : row'[del'[c].id].at = At(File(c)') \/ ~Real(disk'[At(File(c)')])
    <3> SUFFICES ASSUME NEW c \in Acting'
                 PROVE  row[del'[c].id].at = At(File(c)') \/ ~Real(disk[At(File(c)')])
      OBVIOUS
    <3>1. CASE c = b
      BY <1>1, <1>2, <2>1, <3>1 DEF File
    <3>2. CASE c # b
      <4>1. c \in Acting /\ c \in Batches
        BY <1>2, <3>2 DEF Acting
      <4>2. del'[c] = del[c] /\ File(c)' = File(c)
        BY <1>1, <1>3, <3>2, <4>1
      <4> QED
        BY <4>1, <4>2 DEF PlaceInv, CallsInPlace
    <3> QED
      BY <3>1, <3>2
  <2>3. /\ \A c \in Landing' : /\ ~Real(disk'[At(File(c)')])
                               /\ del'[c].to # "here" => Real(disk'[Path(Landed(c)')])
        /\ \A c, d \in Landing' : File(c)' = File(d)' => c = d
    BY <1>1, <1>2, <1>3 DEF PlaceInv, CallsInPlace, Landing
  <2> QED
    BY <2>2, <2>3 DEF CallsInPlace, At, Path
<1>6. Orderly'
  <2> SUFFICES ASSUME Calm'
               PROVE  /\ ~Scanning'
                      /\ \A f \in Files : scan'.work[f].pc # "done" => Real(disk'[At(f)])
                      /\ \A c \in Landing', j \in Ids :
                            Path(row[j].at) = Path(Landed(c)') => j = del'[c].id
    BY DEF Orderly, Ids, At, Path
  <2>1. Calm /\ ~Scanning
    OBVIOUS
  <2> QED
    BY <1>1, <1>2, <1>3, <2>1 DEF PlaceInv, Orderly, Scanning, Landing
<1>7. ActiveIsThere'
  <2> SUFFICES ASSUME Calm', NEW i \in Ids, row[i].status = "active", ~Real(disk[row[i].at])
               PROVE  InHand(i, {"commit"})'
    BY DEF ActiveIsThere, Ids, Real
  <2>1. InHand(i, {"commit"})
    BY DEF PlaceInv, ActiveIsThere, Real
  <2> QED
    BY <1>1, <2>1 DEF InHand
<1> QED
  BY <1>4, <1>5, <1>6, <1>7 DEF PlaceInv

\* A step of the scan that writes no row.
LEMMA QuietScan ==
    ASSUME Shape, Shape', PlaceInv, UNCHANGED <<disk, row, del>>, WorkListed',
           Calm' => Calm /\ ~Deleting,
           \A f \in Files : scan'.work[f].pc # "done" =>
                scan.work[f].pc # "done" \/ Real(disk[At(f)])
    PROVE  PlaceInv'
<1>1. Acting' = Acting /\ Landing' = Landing /\ Deleting' = Deleting
  BY DEF Acting, Landing, Deleting
<1>2. \A c \in Batches : File(c)' = File(c) /\ Landed(c)' = Landed(c)
  BY DEF File, Landed
<1>3. RowsInPlace' /\ CallsInPlace' /\ ActiveIsThere'
  BY <1>1, <1>2 DEF PlaceInv, RowsInPlace, CallsInPlace, ActiveIsThere, InHand, Ids, At,
                    Path, Landing, Acting
<1>4. Orderly'
  BY <1>1, <1>2 DEF PlaceInv, Orderly, Ids, At, Path, Landing
<1> QED
  BY <1>3, <1>4 DEF PlaceInv

\* _process_file writes a row for a file that is there.
LEMMA WritePlaces ==
    ASSUME Shape, Shape', PlaceInv, NEW f \in Files, ScanWrite(f), Calm' => Calm
    PROVE  PlaceInv'
<1>1. /\ Ids \subseteq Ids'
      /\ \A i \in Ids : /\ row'[i].at = row[i].at
                        /\ (row'[i] = row[i] \/ row[i].at = At(f))
      /\ \A i \in Ids' : i \in Ids \/ (row'[i].at = At(f) /\ RowsAt(At(f)) = {})
      /\ \A i, j \in Ids' \ Ids : i = j
  BY WriteRow
<1>2. /\ UNCHANGED <<disk, del>> /\ scan.work[f].pc = "write"
      /\ scan' = [scan EXCEPT !.work[f] = IdleWork]
  BY DEF ScanWrite
<1>3. /\ scan'.pc = scan.pc /\ scan'.todo = scan.todo
      /\ \A g \in Files : scan'.work[g].pc # "done" => scan.work[g].pc # "done"
  BY <1>2 DEF Shape, ScanShape, IdleWork
<1>4. scan.pc = "files"
  BY <1>2 DEF PlaceInv, WorkListed
<1>5. Calm' => /\ Calm /\ Scanning /\ ~Deleting /\ Landing = {} /\ Landing' = {}
               /\ Real(disk[At(f)])
  BY <1>2, <1>4 DEF PlaceInv, Orderly, Scanning, Deleting, Landing
<1>6. \A b \in Batches : del[b].pc \in OnRow =>
        /\ del[b].id \in Ids /\ File(b)' = File(b) /\ Landed(b)' = Landed(b)
        /\ row'[del[b].id].at = row[del[b].id].at
  BY <1>1, <1>2 DEF Shape, DelShape, CallShape, File, Landed
<1>7. RowsInPlace'
  <2>1. \A i \in Ids : row[i].at \in Places /\ (Path(row[i].at) = At(f) => i \in RowsAt(At(f)))
    BY RowTypes, PathTypes DEF RowsAt, At
  <2>2. Path(At(f)) = At(f)
    BY PathTypes
  <2>3. \A i, j \in Ids' : Path(row'[i].at) = Path(row'[j].at) => i = j
    BY <1>1, <2>1, <2>2 DEF PlaceInv, RowsInPlace
  <2>4. At(f)[2] = "here"
    BY DEF At
  <2> QED
    BY <1>1, <1>2, <2>3, <2>4 DEF PlaceInv, RowsInPlace, Path
<1>8. CallsInPlace'
  <2>1. \A c \in Batches : del[c].pc = "commit" => Path(Landed(c))' = Path(Landed(c))
    BY <1>6 DEF OnRow, Path
  <2> QED
    BY <1>2, <1>6, <2>1 DEF PlaceInv, CallsInPlace, Acting, Landing, OnRow, At
<1>9. WorkListed'
  BY <1>3 DEF PlaceInv, WorkListed
<1>10. Orderly'
  BY <1>2, <1>3, <1>5 DEF PlaceInv, Orderly, At, Deleting
<1>11. ActiveIsThere'
  <2> SUFFICES ASSUME Calm', NEW i \in Ids', row'[i].status = "active"
               PROVE  Real(disk[row'[i].at]) \/ InHand(i, {"commit"})'
    BY <1>2 DEF ActiveIsThere, Real
  <2>1. CASE row'[i].at = At(f)
    BY <1>5, <2>1
  <2>2. CASE row'[i].at # At(f)
    <3>1. i \in Ids /\ row'[i] = row[i]
      BY <1>1, <2>2
    <3> QED
      BY <1>2, <1>5, <3>1 DEF PlaceInv, ActiveIsThere, InHand, Real
  <2> QED
    BY <2>1, <2>2
<1> QED
  BY <1>7, <1>8, <1>9, <1>10, <1>11 DEF PlaceInv

LEMMA RowPaths == UNCHANGED row => \A i : Path(row[i].at)' = Path(row[i].at)
BY DEF Path

LEMMA RowsStay ==
    ASSUME UNCHANGED row, RowsInPlace,
           \A i \in Ids : row[i].at[2] # "here" /\ Real(disk[Path(row[i].at)]) =>
                             Real(disk'[Path(row[i].at)])
    PROVE  RowsInPlace'
BY RowPaths DEF RowsInPlace, Ids

\* A file operation empties the first place and may fill another of the path.
LEMMA TakePlaces ==
    ASSUME Shape, Shape', Sorted, PlaceInv, IsFiniteSet(Pictures), Calm' => Calm,
           NEW b \in Batches, DeleteMove(b) \/ DeleteUnlink(b)
    PROVE  PlaceInv'
<1> DEFINE f == File(b)  here == At(f)
<1>1. /\ del[b].pc = "act" /\ b \in Acting /\ b \notin Landing /\ Real(disk[here])
      /\ UNCHANGED <<row, scan>> /\ saved' = saved
  BY DEF DeleteMove, DeleteUnlink, Acting, Landing, Real
<1>2. f \in Files /\ here \in Places /\ del[b].id \in Ids /\ f = row[del[b].id].at[1]
  BY <1>1, ActingTypes
<1>3. PICK r : /\ Becomes(b, r) /\ r.pc = "commit" /\ r.id = del[b].id
               /\ \/ DeleteMove(b) /\ r.to = Target(f)
                  \/ DeleteUnlink(b) /\ r.to = "here"
  <2>1. CASE DeleteMove(b)
    <3>1. PICK q : /\ Becomes(b, q) /\ CallShape(q) /\ q.pc = "commit"
                   /\ q.id = del[b].id /\ q.to = Target(File(b))
      BY <2>1, CallSteps
    <3> QED
      BY <2>1, <3>1
  <2>2. CASE DeleteUnlink(b)
    <3>1. PICK q : /\ Becomes(b, q) /\ CallShape(q) /\ q.pc = "commit"
                   /\ q.id = del[b].id /\ q.to = "here"
      BY <2>2, CallSteps
    <3> QED
      BY <2>2, <3>1
  <2> QED
    BY <2>1, <2>2
<1>4. del'[b] = r /\ \A c \in Batches \ {b} : del'[c] = del[c]
  BY <1>3 DEF Becomes, Shape, DelShape
<1>5. /\ \A c \in Acting' : c \in Acting \ {b}
      /\ \A c \in Landing' : c = b \/ c \in Landing \ {b}
      /\ Deleting /\ b \in Landing'
  BY <1>1, <1>3, <1>4 DEF Acting, Landing, Deleting
<1>6. /\ \A c \in Batches : File(c)' = File(c)
      /\ \A c \in Batches \ {b} : Landed(c)' = Landed(c)
      /\ Landed(b)' = <<f, r.to>>
  BY <1>1, <1>3, <1>4 DEF File, Landed
<1>7. /\ ~Real(disk'[here])
      /\ \A a \in Places \ {here} : Real(disk[a]) => Real(disk'[a])
      /\ \A g \in Files : Real(disk'[At(g)]) => Real(disk[At(g)])
      /\ r.to # "here" => Real(disk'[Path(<<f, r.to>>)])
  <2>1. CASE DeleteMove(b)
    <3> DEFINE to == Path(<<f, Target(f)>>)
    <3>1. to \in Places /\ to # here /\ \A g \in Files : At(g) # to /\ At(g) \in Places
      <4>1. to \in Places /\ Target(f) \in {"staged", "renamed"}
            /\ <<f, Target(f)>> \in Places
        BY <2>1, ActingTypes DEF DeleteMove
      <4>2. to[2] # "here"
        BY <4>1, PathTypes
      <4> QED
        BY <1>2, <4>1, <4>2, SlotsApart, SlotIs
    <3>2. disk' = [disk EXCEPT ![to] = disk[here], ![here] = NoPicture]
      BY <2>1 DEF DeleteMove
    <3>3. /\ disk'[to] = disk[here] /\ disk'[here] = NoPicture
          /\ \A a \in Places \ {to, here} : disk'[a] = disk[a]
      BY <1>2, <3>1, <3>2 DEF Shape
    <3>4. r.to = Target(f)
      BY <1>3, <2>1 DEF DeleteMove, DeleteUnlink
    <3> HIDE DEF f, here, to
    <3>5. /\ ~Real(disk'[here])
          /\ \A a \in Places \ {here} : Real(disk[a]) => Real(disk'[a])
          /\ \A g \in Files : Real(disk'[At(g)]) => Real(disk[At(g)])
          /\ Real(disk'[to])
      BY <1>1, <3>1, <3>3 DEF Real
    <3> QED
      BY <3>4, <3>5 DEF to
  <2>2. CASE DeleteUnlink(b)
    <3>1. disk' = [disk EXCEPT ![here] = NoPicture] /\ r.to = "here"
      BY <1>3, <2>2 DEF DeleteMove, DeleteUnlink
    <3>2. disk'[here] = NoPicture /\ \A a \in Places \ {here} : disk'[a] = disk[a]
      BY <1>2, <3>1 DEF Shape
    <3>3. \A g \in Files : At(g) \in Places
      BY SlotsApart
    <3> HIDE DEF f, here
    <3> QED
      BY <3>1, <3>2, <3>3 DEF Real
  <2> QED
    BY <2>1, <2>2
<1>8. row[del[b].id].at = here
  BY <1>1 DEF PlaceInv, CallsInPlace
<1> HIDE DEF f, here
<1>9. RowsInPlace'
  <2>1. \A i \in Ids : /\ Path(row[i].at) \in Places
                       /\ row[i].at[2] # "here" => Path(row[i].at)[2] # "here"
    BY RowTypes, PathTypes
  <2>2. here[2] = "here"
    BY DEF here, At
  <2>3. \A i \in Ids : row[i].at[2] # "here" /\ Real(disk[Path(row[i].at)]) =>
                           Real(disk'[Path(row[i].at)])
    <3> SUFFICES ASSUME NEW i \in Ids, row[i].at[2] # "here", Real(disk[Path(row[i].at)])
                 PROVE  Real(disk'[Path(row[i].at)])
      OBVIOUS
    <3>1. PICK a : a = Path(row[i].at)
      OBVIOUS
    <3>2. a \in Places /\ a # here /\ Real(disk[a])
      BY <2>1, <2>2, <3>1
    <3>3. Real(disk'[a])
      BY <1>7, <3>2
    <3> QED
      BY <3>1, <3>3
  <2> QED
    BY <1>1, <2>3, RowsStay DEF PlaceInv
<1>10. CallsInPlace'
  <2>1. ASSUME NEW c \in Acting'
        PROVE  row[del'[c].id].at = At(File(c)) \/ ~Real(disk'[At(File(c))])
    <3>1. c \in Acting \ {b} /\ c \in Batches /\ del[c].pc = "act"
      BY <1>5, <2>1 DEF Acting
    <3>2. File(c) \in Files
      BY <3>1, ActingTypes
    <3> QED
      BY <1>4, <1>7, <3>1, <3>2 DEF PlaceInv, CallsInPlace
  <2>2. ASSUME NEW c \in Landing \ {b}
        PROVE  /\ ~Real(disk'[At(File(c))]) /\ File(c) # f
               /\ del[c].to # "here" => Real(disk'[Path(Landed(c))])
    <3>1. c \in Batches /\ del[c].pc = "commit"
      BY DEF Landing
    <3>2. File(c) \in Files /\ Landed(c) \in Places /\ Landed(c)[2] = del[c].to
      BY <3>1, ActingTypes DEF Landed
    <3>3. ~Real(disk[At(File(c))]) /\ (del[c].to # "here" => Real(disk[Path(Landed(c))]))
      BY DEF PlaceInv, CallsInPlace
    <3>4. File(c) # f
      BY <1>1, <3>3 DEF here
    <3>5. here[2] = "here"
      BY DEF here, At
    <3>6. Path(Landed(c)) \in Places /\ (del[c].to # "here" => Path(Landed(c))[2] # "here")
      BY <3>2, PathTypes
    <3> QED
      BY <1>7, <3>2, <3>3, <3>4, <3>5, <3>6
  <2>3. \A c \in Landing' : /\ ~Real(disk'[At(File(c))])
                            /\ del'[c].to # "here" => Real(disk'[Path(Landed(c)')])
    <3>1. ~Real(disk'[At(File(b))]) /\ (r.to # "here" => Real(disk'[Path(Landed(b)')]))
      BY <1>6, <1>7 DEF here, f
    <3>2. \A c \in Landing \ {b} : c \in Batches
      BY DEF Landing
    <3> QED
      BY <1>4, <1>5, <1>6, <2>2, <3>1, <3>2
  <2>4. \A c, d \in Landing' : File(c) = File(d) => c = d
    <3>1. \A c, d \in Landing : File(c) = File(d) => c = d
      BY DEF PlaceInv, CallsInPlace
    <3> QED
      BY <1>5, <2>2, <3>1 DEF f
  <2>5. \A c \in Acting' \union Landing' : File(c)' = File(c) /\ At(File(c)') = At(File(c))
    BY <1>6 DEF Acting, Landing
  <2> QED
    BY <1>1, <2>1, <2>3, <2>4, <2>5 DEF CallsInPlace, At, Path
<1>11. WorkListed'
  BY <1>1 DEF PlaceInv, WorkListed
<1>12. Orderly'
  <2> SUFFICES ASSUME Calm'
               PROVE  /\ ~Scanning
                      /\ \A g \in Files : scan.work[g].pc # "done" => Real(disk'[At(g)])
                      /\ \A c \in Landing', j \in Ids :
                            Path(row[j].at) = Path(Landed(c)') => j = del'[c].id
    BY <1>1 DEF Orderly, Ids, At, Path, Scanning
  <2>1. Calm /\ ~Scanning
    BY <1>5 DEF PlaceInv, Orderly
  <2>2. \A g \in Files : scan.work[g].pc = "done"
    BY <2>1 DEF PlaceInv, WorkListed, Scanning
  <2>3. ASSUME NEW c \in Landing \ {b}, NEW j \in Ids,
               Path(row[j].at) = Path(Landed(c)')
        PROVE  j = del'[c].id
    <3>1. c \in Batches
      BY DEF Landing
    <3> QED
      BY <1>4, <1>6, <2>1, <2>3, <3>1 DEF PlaceInv, Orderly
  <2>4. ASSUME NEW j \in Ids, Path(row[j].at) = Path(<<f, r.to>>)
        PROVE  j = del[b].id
    <3>1. CASE r.to = "here"
      <4>1. <<f, r.to>> = here
        BY <3>1 DEF here, At
      <4> QED
        BY <1>2, <1>8, <2>4, <4>1 DEF PlaceInv, RowsInPlace
    <3>2. CASE r.to # "here"
      <4>1. Taken(b) /\ r.to = Target(f) /\ Goes(b) = Path(<<f, r.to>>)
        BY <1>3, <3>2 DEF Taken, Goes, f
      <4>2. /\ Real(disk[here]) /\ Home[disk[here]] = f /\ Goes(b)[2] # "here"
            /\ \/ Goes(b) = <<f, "staged">> /\ ~Real(disk[<<f, "staged">>])
               \/ Goes(b) = RenamedTo[f] /\ Real(disk[<<f, "staged">>])
        BY <4>1, TakenFile DEF here, f
      <4>3. row[j].at \in Places /\ row[j].at[2] # "here"
        BY <2>4, <4>1, <4>2, RowTypes, PathTypes
      <4>4. Real(disk[Goes(b)])
        BY <2>4, <4>1, <4>3 DEF PlaceInv, RowsInPlace
      <4>5. Goes(b) = RenamedTo[f] /\ Real(disk[<<f, "staged">>])
        BY <4>2, <4>4
      <4>6. ~(Cardinality(NamedLike(disk[here]) \cap saved) <= 2)
        BY <1>2, <2>1, <4>2, <4>4, <4>5, FullIsMany DEF here
      <4>7. disk[here] \in saved
        BY <1>2, <4>2 DEF Sorted, Whereabouts
      <4> QED
        BY <2>1, <4>6, <4>7 DEF Calm
    <3> QED
      BY <3>1, <3>2
  <2> QED
    BY <1>3, <1>4, <1>5, <1>6, <2>1, <2>2, <2>3, <2>4
<1>13. ActiveIsThere'
  <2> SUFFICES ASSUME Calm', NEW i \in Ids, row[i].status = "active"
               PROVE  Real(disk'[row[i].at]) \/ InHand(i, {"commit"})'
    BY <1>1 DEF ActiveIsThere, Real, Ids
  <2>1. row[i].at \in Places
    BY RowTypes
  <2>2. CASE row[i].at = here
    <3>1. i = del[b].id
      BY <1>2, <1>8, <2>2 DEF PlaceInv, RowsInPlace
    <3> QED
      BY <1>3, <1>4, <3>1 DEF InHand
  <2>3. CASE row[i].at # here
    <3>1. Real(disk[row[i].at]) \/ InHand(i, {"commit"})
      BY DEF PlaceInv, ActiveIsThere, Real
    <3>2. InHand(i, {"commit"}) => InHand(i, {"commit"})'
      BY <1>1, <1>4 DEF InHand
    <3> QED
      BY <1>7, <2>1, <2>3, <3>1, <3>2
  <2> QED
    BY <2>2, <2>3
<1> QED
  BY <1>9, <1>10, <1>11, <1>12, <1>13 DEF PlaceInv

\* Half a move fills a place of the -delete folder, and ends the calm.
LEMMA CopyPlaces ==
    ASSUME Shape, Shape', Sorted, PlaceInv, NEW b \in Batches, DeleteCopies(b)
    PROVE  PlaceInv'
<1>1. /\ del[b].pc = "act" /\ b \notin Landing /\ Taken(b)
      /\ UNCHANGED <<row, scan>> /\ Trouble("copies")
      /\ disk' = [disk EXCEPT ![Goes(b)] = disk[At(File(b))]]
  BY DEF DeleteCopies, Landing, Taken, Goes
<1>2. ~Calm'
  <2>1. spent \in [Caps -> Nat] /\ "copies" \in Caps
    BY DEF Shape, Caps
  <2>2. spent'["copies"] # 0
    BY <1>1, <2>1, TroubleGrows
  <2> QED
    BY <2>2 DEF Calm
<1>3. Goes(b) \in Places /\ Goes(b)[2] # "here" /\ Real(disk[At(File(b))])
  BY <1>1, TakenFile
<1>4. /\ \A a \in Places : Real(disk[a]) => Real(disk'[a])
      /\ \A f \in Files : disk'[At(f)] = disk[At(f)]
  <2>1. disk'[Goes(b)] = disk[At(File(b))]
        /\ \A a \in Places \ {Goes(b)} : disk'[a] = disk[a]
    BY <1>1, <1>3 DEF Shape
  <2>2. \A f \in Files : At(f) \in Places \ {Goes(b)}
    BY <1>3, SlotsApart, SlotIs
  <2> QED
    BY <1>3, <2>1, <2>2
<1>5. PICK r : Becomes(b, r) /\ r.pc = "next"
  BY CallSteps
<1>6. del'[b] = r /\ \A c \in Batches \ {b} : del'[c] = del[c]
  BY <1>5 DEF Becomes, Shape, DelShape
<1>7. /\ \A c \in Acting' : c \in Acting \ {b}
      /\ \A c \in Landing' : c \in Landing \ {b}
  BY <1>1, <1>5, <1>6 DEF Acting, Landing
<1>8. \A c \in Batches \ {b} : File(c)' = File(c) /\ Landed(c)' = Landed(c)
  BY <1>1, <1>6 DEF File, Landed
<1>9. RowsInPlace' /\ WorkListed'
  <2>1. \A i \in Ids : Path(row[i].at) \in Places
    BY RowTypes, PathTypes
  <2> QED
    BY <1>1, <1>4, <2>1 DEF PlaceInv, RowsInPlace, WorkListed, Ids, Path
<1>10. CallsInPlace'
  <2>1. ASSUME NEW c \in Acting'
        PROVE  row'[del'[c].id].at = At(File(c)') \/ ~Real(disk'[At(File(c)')])
    <3>1. c \in Acting \ {b} /\ c \in Batches /\ del[c].pc = "act"
      BY <1>7 DEF Acting
    <3>2. File(c) \in Files
      BY <3>1, ActingTypes
    <3> QED
      BY <1>1, <1>4, <1>6, <1>8, <3>1, <3>2 DEF PlaceInv, CallsInPlace
  <2>2. ASSUME NEW c \in Landing'
        PROVE  /\ ~Real(disk'[At(File(c)')])
               /\ del'[c].to # "here" => Real(disk'[Path(Landed(c)')])
    <3>1. c \in Landing \ {b} /\ c \in Batches /\ del[c].pc = "commit"
      BY <1>7 DEF Landing
    <3>2. File(c) \in Files /\ Landed(c) \in Places
      BY <3>1, ActingTypes DEF Landed
    <3>3. Path(Landed(c)) \in Places
      BY <3>2, PathTypes
    <3> QED
      BY <1>4, <1>6, <1>8, <3>1, <3>2, <3>3 DEF PlaceInv, CallsInPlace
  <2>3. \A c, d \in Landing' : File(c)' = File(d)' => c = d
    <3>1. \A c \in Landing' : c \in Landing /\ c \in Batches \ {b}
      BY <1>7 DEF Landing
    <3> QED
      BY <1>8, <3>1 DEF PlaceInv, CallsInPlace
  <2> QED
    BY <2>1, <2>2, <2>3 DEF CallsInPlace, At, Path
<1> QED
  BY <1>2, <1>9, <1>10 DEF PlaceInv, Orderly, ActiveIsThere

\* A commit says where the file now is.
LEMMA CommitPlaces ==
    ASSUME Shape, Shape', PlaceInv, Known, Calm' => Calm, NEW b \in Batches, DeleteCommit(b)
    PROVE  PlaceInv'
<1> DEFINE i == del[b].id  f == File(b)  place == Landed(b)
<1>1. /\ del[b].pc = "commit" /\ b \in Landing /\ b \notin Acting /\ Deleting
      /\ UNCHANGED <<disk, scan>>
  BY DEF DeleteCommit, Landing, Acting, Deleting
<1>2. PICK r : Becomes(b, r) /\ CallShape(r) /\ r.pc \in {"idle", "prune"}
  BY CallSteps
<1>3. del'[b] = r /\ \A c \in Batches \ {b} : del'[c] = del[c]
  BY <1>2 DEF Becomes, Shape, DelShape
<1>4. /\ \A c \in Acting' : c \in Acting \ {b}
      /\ \A c \in Landing' : c \in Landing \ {b}
  BY <1>2, <1>3 DEF Acting, Landing
<1>5. /\ f \in Files /\ i \in Ids /\ f = row[i].at[1]
      /\ place \in Places /\ place[1] = f /\ place[2] = del[b].to
  BY <1>1, ActingTypes DEF Landed
<1>6. /\ Len(row') = Len(row) /\ Ids' = Ids
      /\ \A j \in Ids \ {i} : row'[j] = row[j]
      /\ \/ ~(RowsOn(place) \subseteq {i}) /\ UNCHANGED row
         \/ /\ RowsOn(place) \subseteq {i} /\ row'[i].at = place
            /\ row'[i].status # "active"
  BY CommitRow DEF Ids, Landed
<1>7. /\ ~Real(disk[At(f)]) /\ (del[b].to # "here" => Real(disk[Path(place)]))
      /\ \A c \in Landing \ {b} : File(c) # f
  BY <1>1 DEF PlaceInv, CallsInPlace
<1>8. Calm' => Calm /\ ~Scanning /\ RowsOn(place) \subseteq {i}
  BY <1>1 DEF PlaceInv, Orderly, RowsOn
<1> HIDE DEF i, f, place
<1>9. \A c \in Batches \ {b} : del[c].pc \in {"act", "commit"} =>
        /\ File(c)' = File(c) /\ Landed(c)' = Landed(c) /\ del[c].id \in Ids
  <2>1. \A j \in Ids : row'[j].at[1] = row[j].at[1]
    BY <1>5, <1>6
  <2> QED
    BY <1>3, <2>1, ActingTypes DEF File, Landed
<1>10. RowsInPlace'
  <2>1. CASE UNCHANGED row
    BY <1>1, <2>1 DEF PlaceInv, RowsInPlace, Ids, Path
  <2>2. CASE RowsOn(place) \subseteq {i} /\ row'[i].at = place /\ row'[i].status # "active"
    <3>1. \A j \in Ids : Path(row[j].at) = Path(place) => j = i
      BY <2>2 DEF RowsOn
    <3>2. \A j, k \in Ids : Path(row'[j].at) = Path(row'[k].at) => j = k
      BY <1>6, <2>2, <3>1 DEF PlaceInv, RowsInPlace
    <3>3. \A j \in Ids : row'[j].status = "active" => row'[j].at[2] = "here"
      BY <1>6, <2>2 DEF PlaceInv, RowsInPlace
    <3>4. \A j \in Ids : row'[j].at[2] # "here" => Real(disk[Path(row'[j].at)])
      BY <1>5, <1>6, <1>7, <2>2 DEF PlaceInv, RowsInPlace
    <3> QED
      BY <1>1, <1>6, <3>2, <3>3, <3>4 DEF RowsInPlace, Path
  <2> QED
    BY <1>6, <2>1, <2>2
<1>11. CallsInPlace'
  <2>1. ASSUME NEW c \in Acting'
        PROVE  row'[del'[c].id].at = At(File(c)') \/ ~Real(disk[At(File(c)')])
    <3>1. c \in Acting \ {b} /\ c \in Batches /\ del[c].pc = "act"
      BY <1>4, <2>1 DEF Acting
    <3>2. del'[c] = del[c] /\ File(c)' = File(c) /\ del[c].id \in Ids
      BY <1>3, <1>9, <3>1
    <3>3. CASE del[c].id = i
      BY <1>5, <1>7, <3>2, <3>3 DEF File, f, i
    <3>4. CASE del[c].id # i
      BY <1>6, <3>1, <3>2, <3>4 DEF PlaceInv, CallsInPlace
    <3> QED
      BY <3>3, <3>4
  <2>2. ASSUME NEW c \in Landing'
        PROVE  c \in Landing /\ del'[c] = del[c] /\ File(c)' = File(c) /\ Landed(c)' = Landed(c)
    BY <1>3, <1>4, <1>9, <2>2 DEF Landing
  <2>3. \A c \in Landing' : /\ ~Real(disk[At(File(c)')])
                            /\ del'[c].to # "here" => Real(disk[Path(Landed(c)')])
    BY <2>2 DEF PlaceInv, CallsInPlace
  <2>4. \A c, d \in Landing' : File(c)' = File(d)' => c = d
    BY <2>2 DEF PlaceInv, CallsInPlace
  <2> QED
    BY <1>1, <2>1, <2>3, <2>4 DEF CallsInPlace, At, Path
<1>12. WorkListed'
  BY <1>1 DEF PlaceInv, WorkListed
<1>13. Orderly'
  <2> SUFFICES ASSUME Calm'
               PROVE  /\ ~Scanning
                      /\ \A g \in Files : scan.work[g].pc # "done" => Real(disk[At(g)])
                      /\ \A c \in Landing', j \in Ids :
                            Path(row'[j].at) = Path(Landed(c)') => j = del'[c].id
    BY <1>1, <1>6 DEF Orderly, At, Path, Scanning
  <2>1. ASSUME NEW c \in Landing', NEW j \in Ids,
               Path(row'[j].at) = Path(Landed(c)')
        PROVE  j = del'[c].id
    <3>1. c \in Landing \ {b} /\ c \in Batches /\ del'[c] = del[c]
      BY <1>3, <1>4, <2>1 DEF Landing
    <3>2. Landed(c)' = Landed(c) /\ Landed(c)[1] = File(c) /\ File(c) # f
      BY <1>7, <1>9, <3>1 DEF Landed, Landing
    <3>3. CASE row'[j] = row[j]
      BY <1>8, <2>1, <3>1, <3>2, <3>3 DEF PlaceInv, Orderly
    <3>4. CASE row'[j] # row[j]
      <4>1. j = i /\ row'[j].at = place /\ RowsOn(place) \subseteq {i}
        BY <1>6, <3>4
      <4>2. Path(Landed(c)) = Path(place)
        BY <2>1, <3>2, <4>1
      <4> QED
        BY <1>1, <3>1, <3>2, <4>2, LandApart DEF place, f
    <3> QED
      BY <3>3, <3>4
  <2> QED
    BY <1>8, <2>1 DEF PlaceInv, Orderly
<1>14. ActiveIsThere'
  <2> SUFFICES ASSUME Calm', NEW j \in Ids, row'[j].status = "active"
               PROVE  Real(disk[row'[j].at]) \/ InHand(j, {"commit"})'
    BY <1>1, <1>6 DEF ActiveIsThere, Real
  <2>1. j # i /\ row'[j] = row[j]
    BY <1>6, <1>8
  <2>2. Real(disk[row[j].at]) \/ InHand(j, {"commit"})
    BY <1>8, <2>1 DEF PlaceInv, ActiveIsThere, Real
  <2>3. InHand(j, {"commit"}) => InHand(j, {"commit"})'
    BY <1>3, <2>1 DEF InHand, i
  <2> QED
    BY <2>1, <2>2, <2>3
<1> QED
  BY <1>10, <1>11, <1>12, <1>13, <1>14 DEF PlaceInv

\* The user and the machine.
LEMMA OutsidePlaces ==
    ASSUME Shape, Shape', PlaceInv, Calm' => Calm,
           (\E p \in Pictures : Save(p)) \/ (\E f \in Files : Vanish(f)) \/ Crash
    PROVE  PlaceInv'
<1>1. ASSUME NEW p \in Pictures, Save(p) PROVE PlaceInv'
  <2> DEFINE h == At(Home[p])
  <2>1. /\ UNCHANGED <<row, scan, del>> /\ ~Deleting /\ h \in Places /\ Real(p)
        /\ disk' = [disk EXCEPT ![h] = p]
    BY <1>1, PicturesAssumption, SlotsApart DEF Save, Real
  <2>2. \A a \in Places : Real(disk[a]) => Real(disk'[a])
    BY <2>1 DEF Shape
  <2>3. /\ Acting' = {} /\ Landing' = {} /\ Landing = {} /\ ~Deleting'
    BY <2>1 DEF Acting, Landing, Deleting
  <2>4. (\A i \in Ids : row[i].at \in Places) /\ (\A f \in Files : At(f) \in Places)
    BY RowTypes
  <2>5. RowsInPlace' /\ WorkListed' /\ CallsInPlace'
    <3>1. \A i \in Ids : Path(row[i].at) \in Places
      BY <2>4, PathTypes
    <3> QED
      BY <2>1, <2>2, <2>3, <3>1 DEF PlaceInv, RowsInPlace, CallsInPlace, WorkListed, Ids, Path
  <2>6. Orderly'
    BY <2>1, <2>2, <2>3, <2>4 DEF PlaceInv, Orderly, At, Path, Scanning
  <2>7. ActiveIsThere'
    <3>1. \A i : ~InHand(i, {"commit"})
      BY <2>3 DEF InHand, Landing
    <3> QED
      BY <2>1, <2>2, <2>4, <3>1 DEF PlaceInv, ActiveIsThere, Ids, Real
  <2> QED
    BY <2>5, <2>6, <2>7 DEF PlaceInv
<1>2. ASSUME NEW f \in Files, Vanish(f) PROVE PlaceInv'
  <2>1. /\ UNCHANGED <<row, scan, del>> /\ disk' = [disk EXCEPT ![At(f)] = NoPicture]
        /\ Trouble("removals")
    BY <1>2 DEF Vanish
  <2>2. ~Calm'
    <3>1. spent \in [Caps -> Nat] /\ "removals" \in Caps
      BY DEF Shape, Caps
    <3>2. spent'["removals"] # 0
      BY <2>1, <3>1, TroubleGrows
    <3> QED
      BY <3>2 DEF Calm
  <2>3. At(f) \in Places /\ disk'[At(f)] = NoPicture
        /\ \A a \in Places \ {At(f)} : disk'[a] = disk[a]
    BY <2>1, SlotsApart DEF Shape
  <2>4. \A a \in Places : Real(disk'[a]) => Real(disk[a])
    BY <2>3 DEF Real
  <2>5. \A a \in Places : a[2] # "here" => disk'[a] = disk[a]
    BY <2>3 DEF At
  <2>6. RowsInPlace' /\ WorkListed'
    <3>1. \A i \in Ids : /\ Path(row[i].at) \in Places
                         /\ row[i].at[2] # "here" => Path(row[i].at)[2] # "here"
      BY RowTypes, PathTypes
    <3>2. \A i \in Ids : row[i].at[2] # "here" =>
                             disk'[Path(row[i].at)] = disk[Path(row[i].at)]
      <4> SUFFICES ASSUME NEW i \in Ids, row[i].at[2] # "here"
                   PROVE  disk'[Path(row[i].at)] = disk[Path(row[i].at)]
        OBVIOUS
      <4>1. PICK a : a = Path(row[i].at)
        OBVIOUS
      <4>2. a \in Places /\ a[2] # "here"
        BY <3>1, <4>1
      <4>3. disk'[a] = disk[a]
        BY <2>5, <4>2
      <4> QED
        BY <4>1, <4>3
    <3> QED
      BY <2>1, <3>2, RowsStay DEF PlaceInv, WorkListed
  <2>7. CallsInPlace'
    <3>1. \A c \in Acting \union Landing : /\ File(c)' = File(c) /\ Landed(c)' = Landed(c)
                                           /\ At(File(c)) \in Places
                                           /\ Path(Landed(c)) \in Places
                                           /\ del[c].to # "here" => Path(Landed(c))[2] # "here"
      <4>1. \A c \in Batches : File(c)' = File(c) /\ Landed(c)' = Landed(c)
        BY <2>1 DEF File, Landed
      <4>2. ASSUME NEW c \in Acting \union Landing
            PROVE  /\ At(File(c)) \in Places /\ Path(Landed(c)) \in Places
                   /\ del[c].to # "here" => Path(Landed(c))[2] # "here"
                   /\ c \in Batches
        <5>1. c \in Batches /\ del[c].pc \in {"act", "commit"}
          BY DEF Acting, Landing
        <5>2. Landed(c) \in Places /\ Landed(c)[2] = del[c].to /\ At(File(c)) \in Places
          BY <5>1, ActingTypes DEF Landed
        <5> QED
          BY <5>1, <5>2, PathTypes
      <4> QED
        BY <4>1, <4>2
    <3>2. Acting' = Acting /\ Landing' = Landing
      BY <2>1 DEF Acting, Landing
    <3>3. \A c \in Acting \union Landing : At(File(c))' = At(File(c))
      BY <3>1 DEF At
    <3>4. \A c \in Acting : row[del[c].id].at = At(File(c)) \/ ~Real(disk'[At(File(c))])
      BY <2>4, <3>1 DEF PlaceInv, CallsInPlace
    <3>5. \A c \in Landing : /\ ~Real(disk'[At(File(c))])
                             /\ del[c].to # "here" => Real(disk'[Path(Landed(c))])
      BY <2>4, <2>5, <3>1 DEF PlaceInv, CallsInPlace
    <3> QED
      BY <2>1, <3>1, <3>2, <3>3, <3>4, <3>5 DEF PlaceInv, CallsInPlace, Path
  <2> QED
    BY <2>2, <2>6, <2>7 DEF PlaceInv, Orderly, ActiveIsThere
<1>3. CASE Crash
  <2>1. UNCHANGED <<disk, row>> /\ scan' = IdleScan /\ del' = [b \in Batches |-> IdleBatch]
        /\ Trouble("crashes")
    BY <1>3 DEF Crash
  <2>2. ~Calm'
    <3>1. spent \in [Caps -> Nat] /\ "crashes" \in Caps
      BY DEF Shape, Caps
    <3>2. spent'["crashes"] # 0
      BY <2>1, <3>1, TroubleGrows
    <3> QED
      BY <3>2 DEF Calm
  <2>3. Acting' = {} /\ Landing' = {}
    BY <2>1 DEF Acting, Landing, IdleBatch
  <2>4. RowsInPlace' /\ CallsInPlace'
    BY <2>1, <2>3 DEF PlaceInv, RowsInPlace, CallsInPlace, Ids, Path
  <2>5. WorkListed'
    BY <2>1 DEF WorkListed, IdleScan, IdleWork
  <2> QED
    BY <2>2, <2>4, <2>5 DEF PlaceInv, Orderly, ActiveIsThere
<1> QED
  BY <1>1, <1>2, <1>3

\* The scan's other steps.
LEMMA ScanPlaces ==
    ASSUME Shape, Shape', PlaceInv, Calm' => Calm, ScanStart \/ Scan
    PROVE  PlaceInv'
<1>1. Calm /\ Scanning => ~Deleting
  BY DEF PlaceInv, Orderly
<1>2. CASE ScanStart
  <2>1. /\ UNCHANGED <<disk, row, del>> /\ scan'.pc = "files"
        /\ \A f \in Files : scan'.work[f].pc = "done"
    BY <1>2 DEF ScanStart, IdleScan, IdleWork
  <2>2. Calm' => ~Deleting
    <3>1. ASSUME Deleting PROVE spent'["overlaps"] # 0
      <4>1. Begin("scans", MaxScans, "overlaps")
        BY <1>2, <3>1 DEF ScanStart
      <4>2. spent \in [Caps -> Nat] /\ "scans" \in Caps /\ "overlaps" \in Caps
        BY DEF Shape, Caps
      <4> QED
        BY <4>1, <4>2, BeginGrows
    <3> QED
      BY <3>1 DEF Calm
  <2> QED
    BY <2>1, <2>2, QuietScan DEF WorkListed
<1>3. ASSUME NEW f \in Files, ScanStat(f) PROVE PlaceInv'
  <2>1. scan.pc = "files"
    BY <1>3 DEF ScanStat, Admitted, PlaceInv, WorkListed
  <2>2. /\ UNCHANGED <<disk, row, del>> /\ scan'.pc = "files"
        /\ \A g \in Files : scan'.work[g].pc # "done" =>
              scan.work[g].pc # "done" \/ Real(disk[At(g)])
    BY <1>3, <2>1 DEF ScanStat, Shape, ScanShape, IdleWork, Real
  <2> QED
    BY <1>1, <2>1, <2>2, QuietScan DEF WorkListed, Scanning
<1>4. ASSUME NEW f \in Files, ScanHash(f) \/ ScanHashRaises(f) PROVE PlaceInv'
  <2>1. scan.pc = "files"
    BY <1>4 DEF ScanHash, ScanHashRaises, PlaceInv, WorkListed
  <2>2. /\ UNCHANGED <<disk, row, del>> /\ scan'.pc = "files"
        /\ \A g \in Files : scan'.work[g].pc # "done" => scan.work[g].pc # "done"
    <3>1. CASE ScanHash(f)
      BY <2>1, <3>1 DEF ScanHash, Shape, ScanShape
    <3>2. CASE ScanHashRaises(f)
      BY <2>1, <3>2 DEF ScanHashRaises, Shape, ScanShape
    <3> QED
      BY <1>4, <3>1, <3>2
  <2> QED
    BY <1>1, <2>1, <2>2, QuietScan DEF WorkListed, Scanning
<1>5. CASE ScanClear \/ ScanSelect \/ ScanInsert
  <2>1. /\ UNCHANGED <<disk, row, del>> /\ Scanning /\ scan'.todo = {}
        /\ \A g \in Files : scan'.work[g].pc = "done"
    <3>1. CASE ScanClear
      BY <3>1 DEF ScanClear, Shape, ScanShape, Scanning
    <3>2. CASE ScanSelect
      BY <3>2 DEF ScanSelect, Shape, ScanShape, Scanning, PlaceInv, WorkListed
    <3>3. CASE ScanInsert
      BY <3>3 DEF ScanInsert, IdleScan, IdleWork, Scanning
    <3> QED
      BY <1>5, <3>1, <3>2, <3>3
  <2> QED
    BY <1>1, <2>1, QuietScan DEF WorkListed
<1> QED
  BY <1>2, <1>3, <1>4, <1>5, WritePlaces DEF Scan

\* The steps of a call.
LEMMA CallPlaces ==
    ASSUME Shape, Shape', Sorted, PlaceInv, Known, IsFiniteSet(Pictures), Calm' => Calm,
           NEW b \in Batches, Begun(b) \/ Delete(b)
    PROVE  PlaceInv'
<1>1. ASSUME Begun(b) PROVE PlaceInv'
  <2>1. UNCHANGED <<disk, row, scan>> /\ del[b].pc = "idle"
    BY <1>1 DEF Begun, DeleteBegin
  <2>2. Calm' => ~Scanning
    <3>1. ASSUME Scanning PROVE spent'["overlaps"] # 0
      <4>1. Begin("batches", MaxBatches, "overlaps")
        BY <1>1, <3>1 DEF Begun, DeleteBegin
      <4>2. spent \in [Caps -> Nat] /\ "batches" \in Caps /\ "overlaps" \in Caps
        BY DEF Shape, Caps
      <4> QED
        BY <4>1, <4>2, BeginGrows
    <3> QED
      BY <3>1 DEF Calm
  <2>3. PICK r : Becomes(b, r) /\ CallShape(r) /\ r.pc = "next"
    BY <1>1, CallSteps
  <2> QED
    BY <2>1, <2>2, <2>3, QuietCall
<1>2. ASSUME Delete(b) PROVE Calm' => Calm /\ ~Scanning
  <2>1. del[b].pc # "idle"
    BY <1>2 DEF Delete, DeleteLoad, DeleteMove, DeleteUnlink, DeleteRaises, DeleteCopies,
                DeleteCommit, PruneMember, PruneCount, PruneDrop, DeleteDone
  <2> QED
    BY <2>1 DEF PlaceInv, Orderly, Deleting
<1>3. ASSUME NEW i \in Ids, DeleteLoad(b, i) PROVE PlaceInv'
  <2>1. UNCHANGED <<disk, row, scan>> /\ del[b].pc = "next" /\ Delete(b)
    BY <1>3 DEF DeleteLoad, Delete
  <2>2. PICK r : /\ Becomes(b, r) /\ CallShape(r) /\ r.id = i
                 /\ r.pc = IF row[i].status = "active" THEN "act" ELSE "next"
    BY <1>3, CallSteps
  <2> QED
    BY <1>2, <2>1, <2>2, QuietCall
<1>4. CASE DeleteRaises(b)
  <2>1. UNCHANGED <<disk, row, scan>> /\ del[b].pc = "act" /\ Delete(b)
    BY <1>4 DEF DeleteRaises, Delete
  <2>2. PICK r : Becomes(b, r) /\ CallShape(r) /\ r.pc = "next"
    BY <1>4, CallSteps
  <2> QED
    BY <1>2, <2>1, <2>2, QuietCall
<1>5. CASE Pruned(b)
  <2>1. UNCHANGED <<disk, row, scan>> /\ del[b].pc # "commit" /\ Delete(b)
    BY <1>5 DEF Pruned, PruneMember, PruneCount, PruneDrop, DeleteDone, Delete
  <2>2. PICK r : /\ Becomes(b, r) /\ CallShape(r)
                 /\ r.pc \in {"idle", "next", "count", "drop"}
    BY <1>5, CallSteps
  <2> QED
    BY <1>2, <2>1, <2>2, QuietCall
<1> QED
  BY <1>1, <1>3, <1>4, <1>5, TakePlaces, CopyPlaces, CommitPlaces DEF Delete, Pruned

LEMMA StepPlaces ==
    ASSUME Shape, Shape', Sorted, PlaceInv, Known, IsFiniteSet(Pictures), [Next]_vars
    PROVE  PlaceInv'
<1>1. Calm' => Calm
  BY CalmEnds
<1>2. CASE UNCHANGED vars
  <2>1. UNCHANGED <<disk, row, scan, del, saved, spent>>
    BY <1>2 DEF vars
  <2>2. Acting' = Acting /\ Landing' = Landing /\ Calm' = Calm
        /\ \A c \in Batches : File(c)' = File(c) /\ Path(Landed(c))' = Path(Landed(c))
    BY <2>1 DEF Acting, Landing, Calm, File, Landed, Path, NamedLike
  <2>3. RowsInPlace' /\ WorkListed' /\ ActiveIsThere'
    BY <2>1, <2>2, RowPaths DEF PlaceInv, RowsInPlace, WorkListed, ActiveIsThere, Ids, InHand
  <2>4. CallsInPlace' /\ Orderly'
    BY <2>1, <2>2, RowPaths DEF PlaceInv, CallsInPlace, Orderly, Ids, At, Scanning, Deleting,
                                Landing, Acting
  <2> QED
    BY <2>3, <2>4 DEF PlaceInv
<1> QED
  BY <1>1, <1>2, ScanPlaces, CallPlaces, OutsidePlaces DEF Next, Begun

\* As long as nobody else takes files away, the backend lives and no scan runs
\* beside a deletion, an active row names a file that is there: no two calls,
\* and no row that a call or a scan writes, get in each other's way.
THEOREM ActiveThere ==
    ASSUME IsFiniteSet(Pictures)
    PROVE  Spec => []ActiveIsThere
<1>1. Init => Shape /\ PictureInv /\ PlaceInv /\ Known
  BY InitShape, InitPictures, InitPlaces
<1>2. Shape /\ PictureInv /\ PlaceInv /\ Known /\ [Next]_vars =>
         Shape' /\ PictureInv' /\ PlaceInv' /\ Known'
  BY ShapeKept, StepKeepsPictures, StepPlaces, StepKnown DEF PictureInv
<1>3. PlaceInv => ActiveIsThere
  BY DEF PlaceInv
<1> QED
  BY <1>1, <1>2, <1>3, PTL DEF Spec
=============================================================================
