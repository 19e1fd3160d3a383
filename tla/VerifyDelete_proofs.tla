------------------------ MODULE VerifyDelete_proofs -------------------------
(***************************************************************************)
(* Theorems about VerifyDelete, for every set of items, pairing, runs and  *)
(* delete_batch calls, and every bound.                                    *)
(***************************************************************************)
EXTENDS VerifyDelete, TLAPS

-----------------------------------------------------------------------------
(* Type correctness, kept as conjuncts of TypeOK that a step may disturb.   *)

LEMMA SpendType ==
    ASSUME TypeOK, NEW what \in {"faults", "damage", "edits", "crashes", "rechecks"},
           Spend(what)
    PROVE  spent' \in [faults : Nat, damage : Nat, edits : Nat,
                       crashes : Nat, rechecks : Nat]
BY DEF TypeOK, Spend

\* A new record for one task of _run_transfer_then_verify.
LEMMA RunUpdate ==
    ASSUME TypeOK, NEW r \in Runs, NEW v \in RunRecord,
           v.pc \in {"check", "commit"} => v.item \in Items,
           v.pc = "commit" => v.verdict # "none",
           run' = [run EXCEPT ![r] = v]
    PROVE  /\ run' \in [Runs -> RunRecord]
           /\ \A q \in Runs : run'[q].pc \in {"check", "commit"} =>
                run'[q].item \in Items
           /\ \A q \in Runs : run'[q].pc = "commit" => run'[q].verdict # "none"
BY DEF TypeOK

\* A new record for one call of delete_batch.
LEMMA DelUpdate ==
    ASSUME TypeOK, NEW d \in Deleters, NEW v \in DeleteRecord,
           v.pc \in {"remove", "commit"} => v.item \in Items,
           del' = [del EXCEPT ![d] = v]
    PROVE  /\ del' \in [Deleters -> DeleteRecord]
           /\ \A q \in Deleters : del'[q].pc \in {"remove", "commit"} =>
                del'[q].item \in Items
BY DEF TypeOK

LEMMA InitType == Init => TypeOK
<1> SUFFICES ASSUME Init PROVE TypeOK
  OBVIOUS
<1>1. /\ IdleRun \in RunRecord /\ IdleRun.pc = "idle"
      /\ IdleDelete \in DeleteRecord /\ IdleDelete.pc = "idle"
  BY DEF IdleRun, IdleDelete, RunRecord, DeleteRecord
<1>2. mixed \in BOOLEAN
  BY Zenon DEF Init
<1> QED
  BY <1>1, <1>2 DEF Init, TypeOK, IdleRecheck, Statuses

LEMMA TransferType ==
    ASSUME TypeOK, NEW r \in Runs, Transfer(r)
    PROVE  TypeOK'
<1>1. run[r] \in RunRecord
  BY DEF TypeOK
<1>2. ASSUME NEW v \in RunRecord, run' = [run EXCEPT ![r] = v],
             v.pc \notin {"check", "commit"},
             status' \in [Items -> Statuses],
             mixed' \in BOOLEAN, UNCHANGED <<phone, disk, del, recheck, spent>>
      PROVE  TypeOK'
  BY <1>2, RunUpdate DEF TypeOK
<1>3. CASE Start(r)
  <2> DEFINE v == [run[r] EXCEPT !.pc = "run"]
  <2>1. v \in RunRecord /\ v.pc = "run" /\ run' = [run EXCEPT ![r] = v]
    BY <1>1, <1>3 DEF Start, RunRecord
  <2>2. status' \in [Items -> Statuses] /\ mixed' \in BOOLEAN
    BY <1>3 DEF Start, TypeOK, Statuses
  <2> HIDE DEF v
  <2> QED
    BY <1>2, <1>3, <2>1, <2>2 DEF Start
<1>4. CASE Resume(r)
  <2> DEFINE v == [run[r] EXCEPT !.pc = "run"]
  <2>1. v \in RunRecord /\ v.pc = "run" /\ run' = [run EXCEPT ![r] = v]
    BY <1>1, <1>4 DEF Resume, RunRecord
  <2> HIDE DEF v
  <2> QED
    BY <1>2, <1>4, <2>1 DEF Resume, TypeOK
<1>5. CASE Drained(r)
  <2> DEFINE v == [run[r] EXCEPT !.pc = "verify",
                                 !.todo = {i \in Items : status[i] = "copied"}]
  <2>1. v \in RunRecord /\ v.pc = "verify" /\ run' = [run EXCEPT ![r] = v]
    BY <1>1, <1>5 DEF Drained, RunRecord
  <2> HIDE DEF v
  <2> QED
    BY <1>2, <1>5, <2>1 DEF Drained, TypeOK
<1>6. CASE Interrupted(r)
  <2>1. IdleRun \in RunRecord /\ IdleRun.pc = "idle"
    BY DEF IdleRun, RunRecord
  <2> QED
    BY <1>2, <1>6, <2>1 DEF Interrupted, TypeOK
<1>7. ASSUME NEW i \in Items, Copy(r, i)
      PROVE  TypeOK'
  BY <1>7 DEF Copy, TypeOK, Statuses
<1>8. ASSUME NEW i \in Items, CopyFails(r, i)
      PROVE  TypeOK'
  <2>1. spent' \in [faults : Nat, damage : Nat, edits : Nat,
                    crashes : Nat, rechecks : Nat]
    BY <1>8, SpendType DEF CopyFails, TypeOK
  <2> QED
    BY <1>8, <2>1 DEF CopyFails, TypeOK, Statuses
<1>9. ASSUME NEW i \in Items, Unsettle(r, i)
      PROVE  TypeOK'
  <2>1. spent' \in [faults : Nat, damage : Nat, edits : Nat,
                    crashes : Nat, rechecks : Nat]
    BY <1>9, SpendType DEF Unsettle, TypeOK
  <2> QED
    BY <1>9, <2>1 DEF Unsettle, TypeOK, Statuses
<1> QED
  BY <1>3, <1>4, <1>5, <1>6, <1>7, <1>8, <1>9 DEF Transfer

LEMMA VerifyType ==
    ASSUME TypeOK, NEW r \in Runs, Verify(r) \/ VerifyUnreadable(r)
    PROVE  TypeOK'
<1>1. run[r] \in RunRecord
  BY DEF TypeOK
<1>2. ASSUME NEW v \in RunRecord, run' = [run EXCEPT ![r] = v],
             v.pc \in {"check", "commit"} => v.item \in Items,
             v.pc = "commit" => v.verdict # "none",
             status' \in [Items -> Statuses],
             spent' \in [faults : Nat, damage : Nat, edits : Nat,
                         crashes : Nat, rechecks : Nat],
             UNCHANGED <<phone, disk, mixed, del, recheck>>
      PROVE  TypeOK'
  BY <1>2, RunUpdate DEF TypeOK
<1>3. ASSUME NEW i \in Items, VerifyLoad(r, i)
      PROVE  TypeOK'
  <2> DEFINE v == [pc |-> "check", item |-> i, row |-> status[i],
                   todo |-> run[r].todo \ {i}, verdict |-> "none"]
  <2>1. v \in RunRecord /\ v.item = i /\ v.pc = "check" /\ run' = [run EXCEPT ![r] = v]
    BY <1>1, <1>3 DEF VerifyLoad, RunRecord, TypeOK
  <2> HIDE DEF v
  <2> QED
    BY <1>2, <1>3, <2>1 DEF VerifyLoad, TypeOK
<1>4. CASE VerifyCheck(r)
  <2> DEFINE w == IF SizeMatches(run[r].item) THEN "verified" ELSE "failed"
             v == [run[r] EXCEPT !.pc = "commit", !.verdict = w]
  <2>1. w \in {"verified", "failed"}
    OBVIOUS
  <2>2. run' = [run EXCEPT ![r] = v] /\ run[r].item \in Items
    BY <1>4 DEF VerifyCheck, TypeOK
  <2> HIDE DEF w
  <2>3. v \in RunRecord /\ v.item = run[r].item /\ v.verdict # "none"
    BY <1>1, <2>1 DEF RunRecord
  <2> HIDE DEF v
  <2> QED
    BY <1>2, <1>4, <2>2, <2>3 DEF VerifyCheck, TypeOK
<1>5. CASE VerifyUnreadable(r)
  <2> DEFINE v == [run[r] EXCEPT !.pc = "commit", !.verdict = "failed"]
  <2>1. run' = [run EXCEPT ![r] = v] /\ run[r].item \in Items
    BY <1>5 DEF VerifyUnreadable, TypeOK
  <2>2. v \in RunRecord /\ v.item = run[r].item /\ v.verdict # "none"
    BY <1>1 DEF RunRecord
  <2>3. spent' \in [faults : Nat, damage : Nat, edits : Nat,
                    crashes : Nat, rechecks : Nat]
    BY <1>5, SpendType DEF VerifyUnreadable
  <2> HIDE DEF v
  <2> QED
    BY <1>2, <1>5, <2>1, <2>2, <2>3 DEF VerifyUnreadable, TypeOK
<1>6. CASE VerifyCommit(r)
  <2> DEFINE v == [IdleRun EXCEPT !.pc = "verify", !.todo = run[r].todo]
  <2>1. /\ v \in RunRecord /\ v.pc = "verify"
        /\ run' = [run EXCEPT ![r] = v] /\ spent' = spent
    BY <1>1, <1>6 DEF VerifyCommit, RunRecord, IdleRun
  <2>2. status' \in [Items -> Statuses]
    <3>1. CASE run[r].row = run[r].verdict
      BY <1>6, <3>1 DEF VerifyCommit, TypeOK
    <3>2. CASE run[r].row # run[r].verdict
      <4>1. run[r].item \in Items
        BY <1>6 DEF VerifyCommit, TypeOK
      <4>2. ASSUME run[r].verdict \in Statuses
            PROVE  status' \in [Items -> Statuses]
        BY <1>6, <3>2, <4>1, <4>2 DEF VerifyCommit, TypeOK
      <4>3. run[r].verdict # "none"
        BY <1>6 DEF VerifyCommit, TypeOK
      <4> QED
        BY <1>1, <4>2, <4>3 DEF RunRecord, Statuses
    <3> QED
      BY <3>1, <3>2
  <2> HIDE DEF v
  <2> QED
    BY <1>2, <1>6, <2>1, <2>2 DEF VerifyCommit, TypeOK
<1>7. CASE VerifyDone(r)
  <2>1. IdleRun \in RunRecord /\ IdleRun.pc = "idle"
    BY DEF IdleRun, RunRecord
  <2> QED
    BY <1>2, <1>7, <2>1 DEF VerifyDone, TypeOK
<1> QED
  BY <1>3, <1>4, <1>5, <1>6, <1>7 DEF Verify

LEMMA DeleteType ==
    ASSUME TypeOK, NEW d \in Deleters, Delete(d)
    PROVE  TypeOK'
<1>1. del[d] \in DeleteRecord /\ \A i \in Items : Group(i) \subseteq Items
  BY PairAssumption DEF TypeOK, Group
<1>2. ASSUME NEW v \in DeleteRecord, del' = [del EXCEPT ![d] = v],
             v.pc \in {"remove", "commit"} => v.item \in Items,
             status' \in [Items -> Statuses],
             phone' \in [Items -> {"listed", "edited", "gone"}],
             spent' \in [faults : Nat, damage : Nat, edits : Nat,
                         crashes : Nat, rechecks : Nat],
             UNCHANGED <<disk, run, mixed, recheck>>
      PROVE  TypeOK'
  BY <1>2, DelUpdate DEF TypeOK
<1>3. ASSUME NEW requested \in SUBSET Items, DeleteBegin(d, requested)
      PROVE  TypeOK'
  <2> DEFINE s == UNION {Group(i) : i \in {j \in requested : Eligible(j)}}
             v == [pc |-> "next", item |-> NoItem, todo |-> s]
  <2>1. s \subseteq Items
    BY <1>1
  <2>2. del' = [del EXCEPT ![d] = v]
    BY <1>3 DEF DeleteBegin
  <2> HIDE DEF s
  <2>3. v \in DeleteRecord /\ v.pc = "next"
    BY <2>1 DEF DeleteRecord
  <2> HIDE DEF v
  <2> QED
    BY <1>2, <1>3, <2>2, <2>3 DEF DeleteBegin, TypeOK
<1>4. CASE DeleteLoad(d)
  <2>1. PICK m \in NextMember(d) : del' = [del EXCEPT ![d] =
             [pc |-> IF status[m] = "verified" THEN "remove" ELSE "next",
              item |-> m, todo |-> del[d].todo \ {m}]]
    BY <1>4 DEF DeleteLoad
  <2>2. m \in Items /\ del[d].todo \in SUBSET Items
    BY <1>1 DEF NextMember, DeleteRecord
  <2> DEFINE v == [pc |-> IF status[m] = "verified" THEN "remove" ELSE "next",
                   item |-> m, todo |-> del[d].todo \ {m}]
  <2>3. v \in DeleteRecord /\ v.item = m
    BY <2>2 DEF DeleteRecord
  <2>4. del' = [del EXCEPT ![d] = v]
    BY <2>1
  <2> HIDE DEF v
  <2> QED
    BY <1>2, <1>4, <2>2, <2>3, <2>4 DEF DeleteLoad, TypeOK
<1>5. ASSUME NEW p \in {"next", "commit"}, del' = [del EXCEPT ![d].pc = p],
             del[d].pc \in {"remove", "commit"}
      PROVE  \E v \in DeleteRecord : /\ del' = [del EXCEPT ![d] = v]
                                     /\ v.item \in Items
  <2> DEFINE v == [del[d] EXCEPT !.pc = p]
  <2>1. v \in DeleteRecord /\ v.item \in Items
    BY <1>1, <1>5 DEF DeleteRecord, TypeOK
  <2> QED
    BY <1>5, <2>1
<1>6. CASE DeleteRemove(d) \/ DeleteRaises(d) \/ DeleteCommit(d)
  <2>1. PICK v \in DeleteRecord : del' = [del EXCEPT ![d] = v] /\ v.item \in Items
    BY <1>5, <1>6 DEF DeleteRemove, DeleteRaises, DeleteCommit
  <2>2. status' \in [Items -> Statuses]
    BY <1>6 DEF DeleteRemove, DeleteRaises, DeleteCommit, TypeOK, Statuses
  <2>3. phone' \in [Items -> {"listed", "edited", "gone"}]
    BY <1>6 DEF DeleteRemove, DeleteRaises, DeleteCommit, TypeOK
  <2>4. spent' \in [faults : Nat, damage : Nat, edits : Nat,
                    crashes : Nat, rechecks : Nat]
    BY <1>6, SpendType DEF DeleteRemove, DeleteRaises, DeleteCommit, TypeOK
  <2> QED
    BY <1>2, <1>6, <2>1, <2>2, <2>3, <2>4
    DEF DeleteRemove, DeleteRaises, DeleteCommit
<1>7. CASE DeleteDone(d)
  <2>1. IdleDelete \in DeleteRecord /\ IdleDelete.pc = "idle"
    BY DEF IdleDelete, DeleteRecord
  <2> QED
    BY <1>2, <1>7, <2>1 DEF DeleteDone, TypeOK
<1> QED
  BY <1>3, <1>4, <1>6, <1>7 DEF Delete

LEMMA RecheckType ==
    ASSUME TypeOK, Recheck
    PROVE  TypeOK'
<1>1. CASE RecheckLoad
  <2>1. spent' \in [faults : Nat, damage : Nat, edits : Nat,
                    crashes : Nat, rechecks : Nat]
    BY <1>1, SpendType DEF RecheckLoad
  <2> QED
    BY <1>1, <2>1 DEF RecheckLoad, TypeOK
<1>2. ASSUME NEW i \in Items, RecheckStat(i)
      PROVE  TypeOK'
  BY <1>2 DEF RecheckStat, TypeOK
<1>3. CASE RecheckCommit
  BY <1>3 DEF RecheckCommit, IdleRecheck, TypeOK, Statuses
<1> QED
  BY <1>1, <1>2, <1>3 DEF Recheck

LEMMA EnvironmentType ==
    ASSUME TypeOK, Environment
    PROVE  TypeOK'
<1>1. ASSUME NEW i \in Items, Damage(i) \/ Edit(i)
      PROVE  TypeOK'
  <2>1. spent' \in [faults : Nat, damage : Nat, edits : Nat,
                    crashes : Nat, rechecks : Nat]
    BY <1>1, SpendType DEF Damage, Edit
  <2> QED
    BY <1>1, <2>1 DEF Damage, Edit, TypeOK
<1>2. ASSUME NEW r \in Runs, VerifyUnreadable(r)
      PROVE  TypeOK'
  BY <1>2, VerifyType
<1>3. CASE Crash
  <2>1. spent' \in [faults : Nat, damage : Nat, edits : Nat,
                    crashes : Nat, rechecks : Nat]
    BY <1>3, SpendType DEF Crash
  <2> QED
    BY <1>3, <2>1 DEF Crash, TypeOK, IdleRun, IdleDelete, IdleRecheck,
                      RunRecord, DeleteRecord
<1> QED
  BY <1>1, <1>2, <1>3 DEF Environment

LEMMA NextType == TypeOK /\ [Next]_vars => TypeOK'
<1> SUFFICES ASSUME TypeOK, [Next]_vars PROVE TypeOK'
  OBVIOUS
<1>1. CASE UNCHANGED vars
  BY <1>1 DEF vars, TypeOK
<1>2. CASE Next
  BY <1>2, TransferType, VerifyType, DeleteType, RecheckType, EnvironmentType
  DEF Next
<1> QED
  BY <1>1, <1>2

\* Every variable keeps its type, for any items, runs and deletions.
THEOREM TypeCorrect == Spec => []TypeOK
<1> QED
  BY InitType, NextType, PTL DEF Spec

-----------------------------------------------------------------------------
(* No photo is lost.  NoPhotoLost alone is not inductive: what makes a       *)
(* removal safe was established by a verification, in another task, several  *)
(* steps before.  The invariant follows the copy from the check of its size  *)
(* to the removal, and says that nothing edits the remote file meanwhile.    *)
(* All of it is void once two engines have copied at the same time, which no *)
(* step undoes.                                                              *)

KeptInv ==
    /\ \A i \in Items : phone[i] # "edited" /\ disk[i] # "cut"
    /\ \A i \in Items : status[i] \in {"verified", "deleted"} \/ Gone(i) =>
                            disk[i] = "whole"
    /\ \A r \in Runs : run[r].pc = "commit" /\ run[r].verdict = "verified" =>
                            disk[run[r].item] = "whole"
    /\ \A d \in Deleters : /\ del[d].pc = "remove" => disk[del[d].item] = "whole"
                           /\ del[d].pc = "commit" => Gone(del[d].item)

LEMMA TransferKeeps ==
    ASSUME TypeOK, KeptInv, NEW r \in Runs, Transfer(r), ~mixed'
    PROVE  KeptInv'
<1> USE DEF TypeOK, KeptInv, Gone
<1>1. CASE Start(r)
  BY <1>1 DEF Start, RunRecord
<1>2. CASE Resume(r) \/ Drained(r) \/ Interrupted(r)
  <2>1. \A q \in Runs \ {r} : run'[q] = run[q]
    BY <1>2 DEF Resume, Drained, Interrupted
  <2>2. run'[r].pc # "commit"
    <3>1. CASE Resume(r)
      BY <3>1 DEF Resume, RunRecord
    <3>2. CASE Drained(r)
      BY <3>2 DEF Drained, RunRecord
    <3>3. CASE Interrupted(r)
      BY <3>3 DEF Interrupted, IdleRun
    <3> QED
      BY <1>2, <3>1, <3>2, <3>3
  <2> QED
    BY <1>2, <2>1, <2>2 DEF Resume, Drained, Interrupted
<1>3. ASSUME NEW i \in Items, Copy(r, i)
      PROVE  KeptInv'
  BY <1>3 DEF Copy
<1>4. ASSUME NEW i \in Items, CopyFails(r, i)
      PROVE  KeptInv'
  BY <1>4 DEF CopyFails
<1>5. ASSUME NEW i \in Items, Unsettle(r, i)
      PROVE  FALSE
  BY <1>5 DEF Unsettle
<1> QED
  BY <1>1, <1>2, <1>3, <1>4, <1>5 DEF Transfer

LEMMA VerifyKeeps ==
    ASSUME TypeOK, KeptInv, NEW r \in Runs, Verify(r) \/ VerifyUnreadable(r)
    PROVE  KeptInv'
<1> USE DEF TypeOK, KeptInv, Gone
<1>1. ASSUME NEW i \in Items, VerifyLoad(r, i)
      PROVE  KeptInv'
  BY <1>1 DEF VerifyLoad
<1>2. CASE VerifyCheck(r)
  BY <1>2 DEF VerifyCheck, SizeMatches, RunRecord
<1>3. CASE VerifyUnreadable(r)
  BY <1>3 DEF VerifyUnreadable, RunRecord
<1>4. CASE VerifyCommit(r)
  <2>1. ASSUME NEW i \in Items, status'[i] \in {"verified", "deleted"}
        PROVE  disk'[i] = "whole"
    BY <1>4, <2>1 DEF VerifyCommit, RunRecord
  <2> QED
    BY <1>4, <2>1 DEF VerifyCommit, IdleRun, RunRecord
<1>5. CASE VerifyDone(r)
  BY <1>5 DEF VerifyDone, IdleRun
<1> QED
  BY <1>1, <1>2, <1>3, <1>4, <1>5 DEF Verify

LEMMA DeleteKeeps ==
    ASSUME TypeOK, KeptInv, NEW d \in Deleters, Delete(d)
    PROVE  KeptInv'
<1> USE DEF TypeOK, KeptInv, Gone
<1>1. ASSUME NEW requested \in SUBSET Items, DeleteBegin(d, requested)
      PROVE  KeptInv'
  BY <1>1 DEF DeleteBegin
<1>2. CASE DeleteLoad(d)
  <2>1. PICK m \in NextMember(d) : del' = [del EXCEPT ![d] =
             [pc |-> IF status[m] = "verified" THEN "remove" ELSE "next",
              item |-> m, todo |-> del[d].todo \ {m}]]
    BY <1>2 DEF DeleteLoad
  <2>2. m \in Items
    BY DEF NextMember, DeleteRecord
  <2>3. /\ del'[d].pc = "remove" => disk[del'[d].item] = "whole"
        /\ del'[d].pc # "commit"
    BY <2>1, <2>2
  <2>4. \A q \in Deleters \ {d} : del'[q] = del[q]
    BY <2>1
  <2> QED
    BY <1>2, <2>3, <2>4 DEF DeleteLoad
<1>3. CASE DeleteRemove(d)
  BY <1>3 DEF DeleteRemove, DeleteRecord
<1>4. CASE DeleteRaises(d)
  BY <1>4 DEF DeleteRaises, DeleteRecord
<1>5. CASE DeleteCommit(d)
  BY <1>5 DEF DeleteCommit, DeleteRecord
<1>6. CASE DeleteDone(d)
  BY <1>6 DEF DeleteDone, IdleDelete
<1> QED
  BY <1>1, <1>2, <1>3, <1>4, <1>5, <1>6 DEF Delete

LEMMA OthersKeep ==
    ASSUME Careful, MaxEdits = 0, TypeOK, KeptInv, Recheck \/ Environment
    PROVE  KeptInv'
<1> USE DEF TypeOK, KeptInv, Gone
<1>1. CASE RecheckLoad \/ RecheckCommit
  BY <1>1 DEF RecheckLoad, RecheckCommit
<1>2. ASSUME NEW i \in Items, RecheckStat(i)
      PROVE  KeptInv'
  BY <1>2 DEF RecheckStat
<1>3. ASSUME NEW i \in Items, Damage(i)
      PROVE  KeptInv'
  <2>1. ~VouchedFor(i)
    BY <1>3 DEF Damage
  <2>2. disk' = [disk EXCEPT ![i] = "none"] \/ disk' = [disk EXCEPT ![i] = "short"]
    BY <1>3 DEF Damage
  <2> QED
    BY <1>3, <2>1, <2>2 DEF Damage, VouchedFor
<1>4. ASSUME NEW i \in Items, Edit(i)
      PROVE  FALSE
  BY <1>4 DEF Edit
<1>5. ASSUME NEW r \in Runs, VerifyUnreadable(r)
      PROVE  KeptInv'
  BY <1>5, VerifyKeeps
<1>6. CASE Crash
  BY <1>6 DEF Crash, IdleRun, IdleDelete
<1> QED
  BY <1>1, <1>2, <1>3, <1>4, <1>5, <1>6 DEF Recheck, Environment

LEMMA MixedStays == [Next]_vars /\ mixed => mixed'
BY DEF Next, vars, Transfer, Start, Resume, Drained, Interrupted, Copy, CopyFails,
       Unsettle, Verify, VerifyLoad, VerifyCheck, VerifyCommit, VerifyDone,
       VerifyUnreadable, Delete, DeleteBegin, DeleteLoad, DeleteRemove,
       DeleteRaises, DeleteCommit, DeleteDone, Recheck, RecheckLoad, RecheckStat,
       RecheckCommit, Environment, Damage, Edit, Crash

LEMMA KeptInductive ==
    ASSUME Careful, MaxEdits = 0
    PROVE  /\ Init => KeptInv
           /\ TypeOK /\ (mixed \/ KeptInv) /\ [Next]_vars => (mixed \/ KeptInv)'
<1>1. Init => KeptInv
  BY DEF Init, KeptInv, Gone, IdleRun, IdleDelete
<1>2. ASSUME TypeOK, mixed \/ KeptInv, [Next]_vars, ~mixed' PROVE KeptInv'
  <2>0. KeptInv
    BY <1>2, MixedStays
  <2>1. CASE UNCHANGED vars
    BY <2>0, <2>1 DEF vars, KeptInv, Gone
  <2>2. CASE Next
    BY <1>2, <2>0, <2>2, TransferKeeps, VerifyKeeps, DeleteKeeps, OthersKeep DEF Next
  <2> QED
    BY <1>2, <2>1, <2>2
<1> QED
  BY <1>1, <1>2

\* A photo that left the phone is whole on the PC, for any items, pairs, runs,
\* deletions, faults, crashes and rechecks, as long as nobody touches a copy
\* that was read back, edits a photo that was already listed, or has two
\* engines copy at once (then wrong bytes may have the right size).
THEOREM NothingLost ==
    ASSUME Careful, MaxEdits = 0
    PROVE  Spec => []NoPhotoLost
<1>1. mixed \/ KeptInv => NoPhotoLost
  BY DEF KeptInv, NoPhotoLost
<1>2. /\ Init => mixed \/ KeptInv
      /\ TypeOK /\ (mixed \/ KeptInv) /\ [Next]_vars => (mixed \/ KeptInv)'
  BY KeptInductive
<1> QED
  BY <1>1, <1>2, TypeCorrect, PTL DEF Spec

\* Only verify_one's commit makes a row verified, and it commits what it read.
LEMMA VerdictsAreTrue ==
    ASSUME TypeOK, KeptInv, [Next]_vars, NEW i \in Items,
           status[i] # "verified", status'[i] = "verified", ~mixed
    PROVE  disk[i] = "whole"
<1> USE DEF TypeOK
<1>1. ASSUME NEW r \in Runs, Transfer(r) PROVE FALSE
  BY <1>1 DEF Transfer, Start, Resume, Copy, CopyFails, Unsettle, Drained,
              Interrupted
<1>2. ASSUME NEW r \in Runs, Verify(r) PROVE disk[i] = "whole"
  <2>1. VerifyCommit(r)
    BY <1>2 DEF Verify, VerifyLoad, VerifyCheck, VerifyDone
  <2>2. run[r].item = i /\ run[r].verdict = "verified"
    BY <2>1 DEF VerifyCommit
  <2> QED
    BY <2>1, <2>2 DEF VerifyCommit, KeptInv
<1>3. ASSUME NEW d \in Deleters, Delete(d) PROVE FALSE
  BY <1>3 DEF Delete, DeleteBegin, DeleteLoad, DeleteRemove, DeleteRaises,
              DeleteCommit, DeleteDone
<1>4. CASE Recheck
  <2>1. CASE RecheckCommit
    <3>1. status'[i] \in {"pending", status[i]}
      BY <2>1 DEF RecheckCommit
    <3> QED
      BY <3>1
  <2>2. CASE ~RecheckCommit
    <3>1. status' = status
      BY <1>4, <2>2, Zenon DEF Recheck, RecheckLoad, RecheckStat
    <3> QED
      BY <3>1
  <2> QED
    BY <2>1, <2>2
<1>5. CASE Environment
  <2>1. status' = status
    BY <1>5, Zenon DEF Environment, Damage, Edit, VerifyUnreadable, Crash
  <2> QED
    BY <2>1
<1>6. CASE UNCHANGED vars
  BY <1>6 DEF vars
<1> QED
  BY <1>1, <1>2, <1>3, <1>4, <1>5, <1>6 DEF Next

\* A row becomes verified only over a copy that is the whole photo, although
\* verify_one reads the file before it commits and rechecks, deletions, crashes
\* and other verifications run between the two (unless two engines copied).
THEOREM VerdictsHold ==
    ASSUME Careful, MaxEdits = 0
    PROVE  Spec => VerifiedIsWhole
<1>1. TypeOK /\ (mixed \/ KeptInv) /\ [Next]_vars =>
        [~mixed => \A i \in Items :
            status[i] # "verified" /\ status'[i] = "verified" =>
                disk[i] = "whole"]_vars
  BY VerdictsAreTrue
<1>2. /\ Init => mixed \/ KeptInv
      /\ TypeOK /\ (mixed \/ KeptInv) /\ [Next]_vars => (mixed \/ KeptInv)'
  BY KeptInductive
<1> QED
  BY <1>1, <1>2, TypeCorrect, PTL DEF Spec, VerifiedIsWhole

-----------------------------------------------------------------------------
(* VerifyDelete implements Custody, and keeps Live Photos together, as long  *)
(* as one run is under way and nothing is rechecked beside it.  With a       *)
(* recheck or a second run a row may be verified that is copied no more.     *)

OneRun == \A q, r \in Runs : q = r
Kept == {"verified", "deleted"}

\* What is to be judged is copied and nothing else; what is to be removed was
\* verified; a row says deleted only once the photo is gone.
ToBeJudged == \A r \in Runs :
    /\ \A i \in run[r].todo : status[i] = "copied"
    /\ run[r].pc \in {"check", "commit"} =>
        /\ status[run[r].item] = "copied" /\ run[r].row = "copied"
        /\ run[r].item \notin run[r].todo
ToBeRemoved == \A d \in Deleters :
    /\ \A i \in del[d].todo : status[i] \in Kept
    /\ del[d].pc \in {"remove", "commit"} => status[del[d].item] \in Kept
    /\ del[d].pc = "commit" => Gone(del[d].item)
GoneIsKept == \A i \in Items : /\ Gone(i) => status[i] \in Kept
                               /\ status[i] = "deleted" => Gone(i)
\* One engine at a time, and no recheck.
NoOther == ~mixed /\ recheck.pc = "idle"
CustodyInv == ToBeJudged /\ ToBeRemoved /\ GoneIsKept /\ NoOther

\* Deletions do not look at rows that are neither verified nor deleted.
LEMMA RemovalsStand ==
    ASSUME TypeOK, ToBeRemoved, GoneIsKept,
           \A i \in Items : /\ status[i] \in Kept => status'[i] = status[i]
                            /\ status'[i] = "deleted" => status[i] = "deleted",
           \A i \in Items : Gone(i)' <=> Gone(i),
           UNCHANGED del
    PROVE  ToBeRemoved' /\ GoneIsKept'
<1>1. \A d \in Deleters : del[d] \in DeleteRecord
  BY DEF TypeOK
<1>2. GoneIsKept'
  BY DEF GoneIsKept, Kept
<1>3. \A d \in Deleters : del[d].pc \in {"remove", "commit"} => del[d].item \in Items
  BY DEF TypeOK
<1>4. ToBeRemoved'
  BY <1>1, <1>3 DEF ToBeRemoved, DeleteRecord
<1> QED
  BY <1>2, <1>4

LEMMA TransferCustody ==
    ASSUME TypeOK, CustodyInv, OneRun, NEW r \in Runs, Transfer(r)
    PROVE  CustodyInv'
<1> USE DEF CustodyInv, NoOther
<1>0. /\ run[r] \in RunRecord /\ run \in [Runs -> RunRecord]
      /\ \A q \in Runs : q = r
      /\ status \in [Items -> Statuses]
  BY DEF TypeOK, OneRun
<1>1. CASE Start(r)
  <2>1. \A i \in Items : /\ status[i] # "failed" => status'[i] = status[i]
                         /\ status'[i] = "deleted" => status[i] = "deleted"
    BY <1>0, <1>1 DEF Start
  <2>2. ToBeJudged'
    BY <1>0, <1>1, <2>1 DEF Start, ToBeJudged, RunRecord
  <2>3. ~mixed'
    BY <1>0, <1>1 DEF Start
  <2> QED
    BY <1>1, <2>1, <2>2, <2>3, RemovalsStand DEF Start, Gone, Kept
<1>2. CASE Resume(r) \/ Interrupted(r)
  <2>1. ToBeJudged'
    BY <1>0, <1>2 DEF Resume, Interrupted, IdleRun, ToBeJudged, RunRecord
  <2> QED
    BY <1>2, <2>1, RemovalsStand DEF Resume, Interrupted, Gone
<1>3. CASE Drained(r)
  <2>1. ToBeJudged'
    BY <1>0, <1>3 DEF Drained, ToBeJudged, RunRecord
  <2> QED
    BY <1>3, <2>1, RemovalsStand DEF Drained, Gone
<1>4. ASSUME NEW i \in Items, Copy(r, i) \/ CopyFails(r, i)
      PROVE  CustodyInv'
  <2>1. /\ status[i] = "pending" /\ run' = run /\ UNCHANGED <<phone, mixed, del, recheck>>
        /\ \/ status' = [status EXCEPT ![i] = "copied"]
           \/ status' = [status EXCEPT ![i] = "failed"]
    BY <1>4 DEF Copy, CopyFails
  <2>2. \A j \in Items : /\ status[j] # "pending" => status'[j] = status[j]
                         /\ status'[j] = "deleted" => status[j] = "deleted"
    BY <1>0, <2>1
  <2>3. run[r].pc \in {"check", "commit"} => run[r].item \in Items
    BY DEF TypeOK
  <2>4. ToBeJudged'
    BY <1>0, <2>1, <2>2, <2>3 DEF ToBeJudged, RunRecord
  <2> QED
    BY <2>1, <2>2, <2>4, RemovalsStand DEF Gone, Kept
<1>5. ASSUME NEW i \in Items, Unsettle(r, i)
      PROVE  FALSE
  BY <1>5 DEF Unsettle
<1> QED
  BY <1>1, <1>2, <1>3, <1>4, <1>5 DEF Transfer

LEMMA VerifyCustody ==
    ASSUME TypeOK, CustodyInv, OneRun, NEW r \in Runs,
           Verify(r) \/ VerifyUnreadable(r)
    PROVE  CustodyInv'
<1> USE DEF CustodyInv, NoOther
<1>0. /\ run[r] \in RunRecord /\ run \in [Runs -> RunRecord]
      /\ \A q \in Runs : q = r
      /\ status \in [Items -> Statuses]
      /\ run[r].pc \in {"check", "commit"} => run[r].item \in Items
      /\ run[r].pc = "commit" => run[r].verdict # "none"
  BY DEF TypeOK, OneRun
<1>1. ASSUME NEW i \in Items, VerifyLoad(r, i)
      PROVE  CustodyInv'
  <2>1. ToBeJudged'
    BY <1>0, <1>1 DEF VerifyLoad, ToBeJudged, RunRecord
  <2> QED
    BY <1>1, <2>1, RemovalsStand DEF VerifyLoad, Gone
<1>2. CASE VerifyCheck(r) \/ VerifyUnreadable(r)
  <2>1. /\ run[r].pc = "check"
        /\ \E v \in {"verified", "failed"} :
            run' = [run EXCEPT ![r] = [run[r] EXCEPT !.pc = "commit", !.verdict = v]]
        /\ UNCHANGED <<status, phone, mixed, del, recheck>>
    BY <1>2 DEF VerifyCheck, VerifyUnreadable
  <2>2. ToBeJudged'
    BY <1>0, <2>1 DEF ToBeJudged, RunRecord
  <2> QED
    BY <2>1, <2>2, RemovalsStand DEF Gone
<1>3. CASE VerifyCommit(r)
  <2> DEFINE i == run[r].item
  <2>1. i \in Items /\ status[i] = "copied" /\ i \notin run[r].todo
    BY <1>0, <1>3 DEF VerifyCommit, ToBeJudged
  <2>2. /\ run[r].verdict \in {"verified", "failed"}
        /\ status' = [status EXCEPT ![i] = run[r].verdict]
    BY <1>0, <1>3 DEF VerifyCommit, ToBeJudged, RunRecord
  <2>3. \A j \in Items : j # i => status'[j] = status[j]
    BY <1>0, <2>2
  <2>4. /\ \A j \in Items : status[j] \in Kept => status'[j] = status[j]
        /\ \A j \in Items : status'[j] = "deleted" => status[j] = "deleted"
    BY <1>0, <2>1, <2>2, <2>3 DEF Kept
  <2>5. ToBeJudged'
    BY <1>0, <1>3, <2>1, <2>3 DEF VerifyCommit, ToBeJudged, IdleRun, RunRecord
  <2> QED
    BY <1>3, <2>4, <2>5, RemovalsStand DEF VerifyCommit, Gone
<1>4. CASE VerifyDone(r)
  <2>1. ToBeJudged'
    BY <1>0, <1>4 DEF VerifyDone, ToBeJudged, IdleRun, RunRecord
  <2> QED
    BY <1>4, <2>1, RemovalsStand DEF VerifyDone, Gone
<1> QED
  BY <1>1, <1>2, <1>3, <1>4 DEF Verify

\* What is judged is not what is deleted.
LEMMA JudgedStand ==
    ASSUME TypeOK, ToBeJudged, UNCHANGED run,
           \A i \in Items : status[i] = "copied" => status'[i] = "copied"
    PROVE  ToBeJudged'
BY DEF TypeOK, ToBeJudged, RunRecord

LEMMA DeleteCustody ==
    ASSUME TypeOK, CustodyInv, NEW d \in Deleters, Delete(d)
    PROVE  CustodyInv'
<1> USE DEF CustodyInv, NoOther
<1>0. /\ del \in [Deleters -> DeleteRecord] /\ del[d] \in DeleteRecord
      /\ status \in [Items -> Statuses]
      /\ phone \in [Items -> {"listed", "edited", "gone"}]
      /\ \A e \in Deleters : /\ del[e] \in DeleteRecord
                             /\ del[e].pc \in {"remove", "commit"} =>
                                    del[e].item \in Items
  BY DEF TypeOK
<1>1. ASSUME NEW requested \in SUBSET Items, DeleteBegin(d, requested)
      PROVE  CustodyInv'
  <2> DEFINE all == UNION {Group(i) : i \in {j \in requested : Eligible(j)}}
  <2>1. \A i \in all : status[i] \in Kept
    BY DEF Eligible, Kept
  <2>2. del' = [del EXCEPT ![d] = [pc |-> "next", item |-> NoItem, todo |-> all]]
    BY <1>1 DEF DeleteBegin
  <2>3. ToBeRemoved'
    <3> HIDE DEF all
    <3> QED
      BY <1>0, <1>1, <2>1, <2>2 DEF DeleteBegin, ToBeRemoved, Gone
  <2> QED
    BY <1>1, <2>3, JudgedStand DEF DeleteBegin, GoneIsKept, Gone
<1>2. CASE DeleteLoad(d)
  <2>1. PICK m \in NextMember(d) : del' = [del EXCEPT ![d] =
             [pc |-> IF status[m] = "verified" THEN "remove" ELSE "next",
              item |-> m, todo |-> del[d].todo \ {m}]]
    BY <1>2 DEF DeleteLoad
  <2>2. ToBeRemoved'
    BY <1>0, <1>2, <2>1 DEF DeleteLoad, ToBeRemoved, Gone, Kept
  <2> QED
    BY <1>2, <2>2, JudgedStand DEF DeleteLoad, GoneIsKept, Gone
<1>3. CASE DeleteRemove(d)
  <2>1. del[d].item \in Items /\ status[del[d].item] \in Kept
    BY <1>0, <1>3 DEF DeleteRemove, ToBeRemoved
  <2>2. \A i \in Items : Gone(i)' <=> Gone(i) \/ i = del[d].item
    BY <1>0, <1>3 DEF DeleteRemove, Gone
  <2>3. GoneIsKept'
    BY <1>3, <2>1, <2>2 DEF DeleteRemove, GoneIsKept
  <2>4. ToBeRemoved'
    BY <1>0, <1>3, <2>1, <2>2 DEF DeleteRemove, ToBeRemoved, DeleteRecord
  <2> QED
    BY <1>3, <2>3, <2>4, JudgedStand DEF DeleteRemove
<1>4. CASE DeleteRaises(d)
  <2>1. ToBeRemoved'
    BY <1>0, <1>4 DEF DeleteRaises, ToBeRemoved, Gone, DeleteRecord
  <2> QED
    BY <1>4, <2>1, JudgedStand DEF DeleteRaises, GoneIsKept, Gone
<1>5. CASE DeleteCommit(d)
  <2>1. del[d].item \in Items /\ status[del[d].item] \in Kept /\ Gone(del[d].item)
    BY <1>0, <1>5 DEF DeleteCommit, ToBeRemoved
  <2>2. \A i \in Items : status'[i] = IF i = del[d].item THEN "deleted" ELSE status[i]
    BY <1>0, <1>5 DEF DeleteCommit
  <2>3. GoneIsKept'
    BY <1>5, <2>1, <2>2 DEF DeleteCommit, GoneIsKept, Gone, Kept
  <2>4. ToBeRemoved'
    BY <1>0, <1>5, <2>2 DEF DeleteCommit, ToBeRemoved, Gone, Kept, DeleteRecord
  <2>5. \A i \in Items : status[i] = "copied" => status'[i] = "copied"
    BY <2>1, <2>2 DEF Kept
  <2> QED
    BY <1>5, <2>3, <2>4, <2>5, JudgedStand DEF DeleteCommit
<1>6. CASE DeleteDone(d)
  <2>1. ToBeRemoved'
    BY <1>0, <1>6 DEF DeleteDone, IdleDelete, ToBeRemoved, Gone
  <2> QED
    BY <1>6, <2>1, JudgedStand DEF DeleteDone, GoneIsKept, Gone
<1> QED
  BY <1>1, <1>2, <1>3, <1>4, <1>5, <1>6 DEF Delete

\* With no rechecks, the rest of Next leaves the rows alone.
LEMMA OthersCustody ==
    ASSUME TypeOK, CustodyInv, OneRun, MaxRechecks = 0, Recheck \/ Environment
    PROVE  CustodyInv' /\ ~Recheck
<1> USE DEF CustodyInv, NoOther
<1>1. ~Recheck
  BY DEF Recheck, RecheckLoad, RecheckCommit, RecheckStat, TypeOK
<1>2. ASSUME NEW i \in Items, Damage(i) \/ Edit(i)
      PROVE  CustodyInv'
  <2>1. UNCHANGED <<status, run, mixed, del, recheck>>
    BY <1>2 DEF Damage, Edit
  <2>2. \A j \in Items : Gone(j)' <=> Gone(j)
    BY <1>2 DEF Damage, Edit, Gone, TypeOK
  <2> QED
    BY <2>1, <2>2, JudgedStand, RemovalsStand
<1>3. ASSUME NEW r \in Runs, VerifyUnreadable(r)
      PROVE  CustodyInv'
  BY <1>3, VerifyCustody
<1>4. ASSUME Crash
      PROVE  CustodyInv'
  BY <1>4 DEF Crash, IdleRun, IdleDelete, IdleRecheck, ToBeJudged, ToBeRemoved,
              GoneIsKept, Gone
<1> QED
  BY <1>1, <1>2, <1>3, <1>4 DEF Environment

LEMMA CustodyInductive ==
    ASSUME OneRun, MaxRechecks = 0
    PROVE  /\ Init => CustodyInv
           /\ TypeOK /\ CustodyInv /\ [Next]_vars => CustodyInv'
<1>1. Init => CustodyInv
  BY DEF Init, CustodyInv, ToBeJudged, ToBeRemoved, GoneIsKept, NoOther, Gone,
         IdleRun, IdleDelete, IdleRecheck, Kept
<1>2. ASSUME TypeOK, CustodyInv, [Next]_vars PROVE CustodyInv'
  <2>1. CASE UNCHANGED vars
    BY <1>2, <2>1 DEF vars, CustodyInv, ToBeJudged, ToBeRemoved, GoneIsKept,
                      NoOther, Gone
  <2>2. CASE Next
    BY <1>2, <2>2, TransferCustody, VerifyCustody, DeleteCustody, OthersCustody
       DEF Next
  <2> QED
    BY <1>2, <2>1, <2>2
<1> QED
  BY <1>1, <1>2

-----------------------------------------------------------------------------
(* What a step does to the rows and the phone, for the refinement.          *)

\* Nothing that Where tells apart changes.
Stands ==
    \A i \in Items : /\ Gone(i)' <=> Gone(i)
                     /\ \A s \in {"verified", "copied"} :
                            ~Gone(i) => (status'[i] = s <=> status[i] = s)
CopyLands(i) == /\ status[i] = "pending" /\ ~Gone(i) /\ phone' = phone
                /\ status' = [status EXCEPT ![i] = "copied"]
CopyJudged(i, v) == /\ status[i] = "copied" /\ phone' = phone
                    /\ status' = [status EXCEPT ![i] = v]
PhotoLeaves(i) == /\ status[i] = "verified" /\ ~Gone(i) /\ status' = status
                  /\ phone' = [phone EXCEPT ![i] = "gone"]
Outcome ==
    \/ Stands
    \/ \E i \in Items : CopyLands(i) \/ PhotoLeaves(i)
    \/ \E i \in Items, v \in {"verified", "failed"} : CopyJudged(i, v)
DeletedStay == \A i \in Items : status[i] = "deleted" => status'[i] = "deleted"

LEMMA TransferOutcome ==
    ASSUME TypeOK, CustodyInv, NEW r \in Runs, Transfer(r)
    PROVE  Outcome /\ DeletedStay
<1>0. /\ status \in [Items -> Statuses]
      /\ \A i \in Items : Gone(i) => status[i] \in Kept
  BY DEF TypeOK, CustodyInv, GoneIsKept
<1>1. CASE Start(r)
  BY <1>0, <1>1 DEF Start, Outcome, Stands, DeletedStay, Gone
<1>2. CASE Resume(r) \/ Drained(r) \/ Interrupted(r)
  BY <1>2 DEF Resume, Drained, Interrupted, Outcome, Stands, DeletedStay, Gone
<1>3. ASSUME NEW i \in Items, Copy(r, i)
      PROVE  Outcome /\ DeletedStay
  <2>1. CopyLands(i)
    BY <1>3 DEF Copy, CopyLands, Gone
  <2> QED
    BY <1>0, <2>1 DEF Outcome, DeletedStay, CopyLands
<1>4. ASSUME NEW i \in Items, CopyFails(r, i)
      PROVE  Outcome /\ DeletedStay
  BY <1>0, <1>4 DEF CopyFails, Outcome, Stands, DeletedStay, Gone
<1>5. ASSUME NEW i \in Items, Unsettle(r, i)
      PROVE  FALSE
  BY <1>5 DEF Unsettle, CustodyInv, NoOther
<1> QED
  BY <1>1, <1>2, <1>3, <1>4, <1>5 DEF Transfer

LEMMA VerifyOutcome ==
    ASSUME TypeOK, CustodyInv, NEW r \in Runs, Verify(r) \/ VerifyUnreadable(r)
    PROVE  Outcome /\ DeletedStay
<1>1. CASE VerifyCommit(r)
  <2> DEFINE i == run[r].item
             v == run[r].verdict
  <2>1. /\ i \in Items /\ status[i] = "copied" /\ run[r].row = "copied"
        /\ v \in {"verified", "failed"}
        /\ status \in [Items -> Statuses]
    BY <1>1 DEF VerifyCommit, TypeOK, RunRecord, CustodyInv, ToBeJudged
  <2>2. CopyJudged(i, v)
    BY <1>1, <2>1 DEF VerifyCommit, CopyJudged
  <2> HIDE DEF i, v
  <2> QED
    BY <2>1, <2>2 DEF Outcome, DeletedStay, CopyJudged
<1>2. CASE ~VerifyCommit(r)
  <2>1. UNCHANGED <<status, phone>>
    BY <1>2 DEF Verify, VerifyLoad, VerifyCheck, VerifyDone, VerifyUnreadable
  <2> QED
    BY <2>1 DEF Outcome, Stands, DeletedStay, Gone
<1> QED
  BY <1>1, <1>2

LEMMA DeleteOutcome ==
    ASSUME TypeOK, CustodyInv, NEW d \in Deleters, Delete(d)
    PROVE  Outcome /\ DeletedStay
<1>0. /\ status \in [Items -> Statuses]
      /\ del[d].pc \in {"remove", "commit"} =>
            del[d].item \in Items /\ status[del[d].item] \in Kept
      /\ del[d].pc = "commit" => Gone(del[d].item)
      /\ \A i \in Items : status[i] = "deleted" => Gone(i)
  BY DEF TypeOK, CustodyInv, ToBeRemoved, GoneIsKept
<1>1. CASE DeleteRemove(d)
  <2>1. PhotoLeaves(del[d].item) /\ del[d].item \in Items
    BY <1>0, <1>1 DEF DeleteRemove, PhotoLeaves, Gone, Kept
  <2> QED
    BY <2>1 DEF Outcome, DeletedStay, PhotoLeaves
<1>2. CASE DeleteCommit(d)
  <2>1. /\ \A i \in Items : status'[i] = IF i = del[d].item THEN "deleted" ELSE status[i]
        /\ \A i \in Items : Gone(i)' <=> Gone(i)
    BY <1>0, <1>2 DEF DeleteCommit, Gone
  <2>2. del[d].pc = "commit"
    BY <1>2 DEF DeleteCommit
  <2> QED
    BY <1>0, <2>1, <2>2 DEF Outcome, Stands, DeletedStay
<1>3. CASE ~DeleteRemove(d) /\ ~DeleteCommit(d)
  <2>1. UNCHANGED <<status, phone>>
    BY <1>3 DEF Delete, DeleteBegin, DeleteLoad, DeleteRaises, DeleteDone
  <2> QED
    BY <2>1 DEF Outcome, Stands, DeletedStay, Gone
<1> QED
  BY <1>1, <1>2, <1>3

LEMMA StepOutcome ==
    ASSUME TypeOK, CustodyInv, MaxRechecks = 0, [Next]_vars
    PROVE  Outcome /\ DeletedStay
<1>1. ~Recheck
  BY DEF Recheck, RecheckLoad, RecheckCommit, RecheckStat, TypeOK, CustodyInv,
         NoOther
<1>2. ASSUME UNCHANGED status, \A i \in Items : Gone(i)' <=> Gone(i)
      PROVE  Outcome /\ DeletedStay
  BY <1>2 DEF Outcome, Stands, DeletedStay
<1>3. CASE UNCHANGED vars
  BY <1>2, <1>3 DEF vars, Gone
<1>4. ASSUME NEW i \in Items, Damage(i) \/ Edit(i)
      PROVE  Outcome /\ DeletedStay
  BY <1>2, <1>4 DEF Damage, Edit, Gone, TypeOK
<1>5. CASE Crash
  BY <1>2, <1>5 DEF Crash, Gone
<1>6. CASE Next
  BY <1>1, <1>4, <1>5, <1>6, TransferOutcome, VerifyOutcome, DeleteOutcome
     DEF Next, Environment
<1> QED
  BY <1>3, <1>6

\* Each outcome is a step of Custody, or none.
LEMMA OutcomeKeepsPromise ==
    ASSUME TypeOK, CustodyInv, Outcome
    PROVE  [Promise!Next]_Where
<1>0. /\ status \in [Items -> Statuses]
      /\ phone \in [Items -> {"listed", "edited", "gone"}]
      /\ \A i \in Items : Gone(i) => status[i] \in Kept
  BY DEF TypeOK, CustodyInv, GoneIsKept
<1>1. CASE Stands
  <2>1. Where' = Where
    BY <1>1 DEF Stands, Where
  <2> QED
    BY <2>1
<1>2. ASSUME NEW i \in Items, CopyLands(i)
      PROVE  Promise!Next
  <2>1. Where[i] = "phone" /\ Where' = [Where EXCEPT ![i] = "both"]
    BY <1>0, <1>2 DEF CopyLands, Where, Gone
  <2> QED
    BY <2>1 DEF Promise!Next, Promise!CopyMade
<1>3. ASSUME NEW i \in Items, CopyJudged(i, "verified")
      PROVE  Promise!Next
  <2>1. Where[i] = "both" /\ Where' = [Where EXCEPT ![i] = "vouched"]
    BY <1>0, <1>3 DEF CopyJudged, Where, Gone, Kept
  <2> QED
    BY <2>1 DEF Promise!Next, Promise!Vouch
<1>4. ASSUME NEW i \in Items, CopyJudged(i, "failed")
      PROVE  Promise!Next
  <2>1. /\ Where[i] = "both"
        /\ Where' = [j \in Items |-> IF j \in {i} THEN "phone" ELSE Where[j]]
    BY <1>0, <1>4 DEF CopyJudged, Where, Gone, Kept
  <2>2. {i} \in (SUBSET Items) \ {{}} /\ Promise!Doubt({i})
    BY <2>1 DEF Promise!Doubt
  <2> QED
    BY <2>2 DEF Promise!Next
<1>5. ASSUME NEW i \in Items, PhotoLeaves(i)
      PROVE  Promise!Next
  <2>1. Where[i] = "vouched" /\ Where' = [Where EXCEPT ![i] = "pc"]
    BY <1>0, <1>5 DEF PhotoLeaves, Where, Gone
  <2> QED
    BY <2>1 DEF Promise!Next, Promise!Release
<1> QED
  BY <1>1, <1>2, <1>3, <1>4, <1>5 DEF Outcome

\* VerifyDelete implements Custody: a photo leaves the phone only while its
\* row says verified, and only a copied row gets to say so.
THEOREM CustodyKept ==
    ASSUME OneRun, MaxRechecks = 0
    PROVE  Spec => KeepsCustody
<1>1. Init => Promise!Init
  BY DEF Init, Promise!Init, Where, Gone
<1>2. TypeOK /\ CustodyInv /\ [Next]_vars => [Promise!Next]_Where
  BY StepOutcome, OutcomeKeepsPromise
<1>3. /\ Init => CustodyInv
      /\ TypeOK /\ CustodyInv /\ [Next]_vars => CustodyInv'
  BY CustodyInductive
<1> QED
  BY <1>1, <1>2, <1>3, TypeCorrect, PTL DEF Spec, KeepsCustody, Promise!Spec

\* No run, deletion or crash takes a row out of status deleted.
THEOREM DeletionsFinal ==
    ASSUME OneRun, MaxRechecks = 0
    PROVE  Spec => DeletedIsFinal
<1>1. TypeOK /\ CustodyInv /\ [Next]_vars =>
        [\A i \in Items : status[i] = "deleted" => status'[i] = "deleted"]_vars
  BY StepOutcome DEF DeletedStay
<1>2. /\ Init => CustodyInv
      /\ TypeOK /\ CustodyInv /\ [Next]_vars => CustodyInv'
  BY CustodyInductive
<1> QED
  BY <1>1, <1>2, TypeCorrect, PTL DEF Spec, DeletedIsFinal

-----------------------------------------------------------------------------
(* Deletions in progress.  A verified row whose photo is gone is one that a  *)
(* call removed and has yet to commit; half a Live Photo is in the hands of  *)
(* a call only with its other half, or after it.                             *)

CommitDue ==
    spent.crashes = 0 => \A i \in Items : status[i] = "verified" /\ Gone(i) =>
        \E d \in Deleters : del[d].pc = "commit" /\ del[d].item = i
HandsInPairs ==
    Calm => \A d \in Deleters, i \in Items :
        InHand(d, i) => InHand(d, Pair[i]) \/ Gone(Pair[i])
PairInv == HandsInPairs /\ PairsTogether

\* Counters only grow, so a state without faults or crashes follows such a one.
LEMMA SpentGrows ==
    ASSUME TypeOK, [Next]_vars
    PROVE  /\ spent.crashes <= spent'.crashes /\ spent.faults <= spent'.faults
           /\ Crash => spent'.crashes # 0
<1>0. spent \in [faults : Nat, damage : Nat, edits : Nat, crashes : Nat,
                 rechecks : Nat]
  BY DEF TypeOK
<1>1. ASSUME NEW what \in {"faults", "damage", "edits", "crashes", "rechecks"},
             Spend(what)
      PROVE  /\ spent.crashes <= spent'.crashes /\ spent.faults <= spent'.faults
             /\ what = "crashes" => spent'.crashes # 0
  BY <1>0, <1>1 DEF Spend
<1>2. ASSUME UNCHANGED spent
      PROVE  spent.crashes <= spent'.crashes /\ spent.faults <= spent'.faults
  BY <1>0, <1>2
<1>3. ASSUME Crash
      PROVE  Spend("crashes")
  BY <1>3 DEF Crash
<1>4. UNCHANGED spent \/ \E what \in {"faults", "damage", "edits", "crashes", "rechecks"} :
                            Spend(what)
  BY DEF Next, vars, Transfer, Start, Resume, Drained, Interrupted, Copy, CopyFails,
         Unsettle,
         Verify, VerifyLoad, VerifyCheck, VerifyCommit, VerifyDone, VerifyUnreadable,
         Delete, DeleteBegin, DeleteLoad, DeleteRemove, DeleteRaises, DeleteCommit,
         DeleteDone, Recheck, RecheckLoad, RecheckStat, RecheckCommit,
         Environment, Damage, Edit, Crash
<1> QED
  BY <1>1, <1>2, <1>3, <1>4

\* Only a deletion, or the end of the process, takes work out of a call's hands.
LEMMA HandsStand ==
    ASSUME TypeOK, CustodyInv, MaxRechecks = 0, [Next]_vars
    PROVE  \/ \E d \in Deleters : Delete(d)
           \/ Crash
           \/ UNCHANGED del /\ \A i \in Items : Gone(i)' <=> Gone(i)
<1>1. ASSUME NEW i \in Items, Damage(i) \/ Edit(i)
      PROVE  UNCHANGED del /\ \A j \in Items : Gone(j)' <=> Gone(j)
  BY <1>1 DEF Damage, Edit, Gone, TypeOK
<1>2. ASSUME NEW r \in Runs, Transfer(r) \/ Verify(r) \/ VerifyUnreadable(r)
      PROVE  UNCHANGED <<del, phone>>
  BY <1>2 DEF Transfer, Start, Resume, Drained, Interrupted, Copy, CopyFails,
         Unsettle,
         Verify, VerifyLoad, VerifyCheck, VerifyCommit, VerifyDone, VerifyUnreadable
<1>3. ASSUME Recheck \/ UNCHANGED vars
      PROVE  UNCHANGED <<del, phone>>
  BY <1>3 DEF Recheck, RecheckLoad, RecheckStat, RecheckCommit, vars
<1> QED
  BY <1>1, <1>2, <1>3 DEF Next, Environment, Gone

\* What a step of a deletion does to what is in hand and on the phone.
Handed(d) ==
    /\ \A e \in Deleters \ {d} : del'[e] = del[e]
    /\ \A i \in Items : Gone(i) => Gone(i)'
    /\ \A i \in Items : Gone(i)' /\ ~Gone(i) =>
        del[d].pc = "remove" /\ del'[d].pc = "commit" /\ del[d].item = i /\ del'[d].item = i
    /\ Calm' => \A i \in Items : InHand(d, i) => InHand(d, i)' \/ Gone(i)'
    /\ Calm' => \A i \in Items : InHand(d, i)' => InHand(d, i) \/ InHand(d, Pair[i])'

LEMMA DeleteHands ==
    ASSUME TypeOK, CustodyInv, NEW d \in Deleters, Delete(d)
    PROVE  Handed(d)
<1>0. /\ del \in [Deleters -> DeleteRecord] /\ del[d] \in DeleteRecord
      /\ del[d].pc \in {"remove", "commit"} => del[d].item \in Items
      /\ \A i \in del[d].todo : status[i] \in Kept
      /\ del[d].pc = "commit" => Gone(del[d].item)
      /\ \A i \in Items : status[i] = "deleted" => Gone(i)
      /\ phone \in [Items -> {"listed", "edited", "gone"}]
  BY DEF TypeOK, CustodyInv, ToBeRemoved, GoneIsKept
<1>1. ASSUME NEW requested \in SUBSET Items, DeleteBegin(d, requested)
      PROVE  Handed(d)
  <2> DEFINE all == UNION {Group(i) : i \in {j \in requested : Eligible(j)}}
  <2>1. \A i \in all : Pair[i] \in all
    BY PairAssumption DEF Group
  <2>2. del' = [del EXCEPT ![d] = [pc |-> "next", item |-> NoItem, todo |-> all]]
    BY <1>1 DEF DeleteBegin
  <2> HIDE DEF all
  <2>3. \A i \in Items : ~InHand(d, i)
    BY <1>1 DEF DeleteBegin, InHand
  <2>4. \A i \in Items : InHand(d, i)' => InHand(d, Pair[i])'
    BY <1>0, <2>1, <2>2 DEF InHand
  <2> QED
    BY <1>0, <1>1, <2>2, <2>3, <2>4 DEF DeleteBegin, Handed, Gone
<1>2. CASE DeleteLoad(d)
  <2>1. PICK m \in NextMember(d) : del' = [del EXCEPT ![d] =
             [pc |-> IF status[m] = "verified" THEN "remove" ELSE "next",
              item |-> m, todo |-> del[d].todo \ {m}]]
    BY <1>2 DEF DeleteLoad
  <2>2. m \in del[d].todo /\ m \in Items /\ del[d].pc = "next"
    BY <1>0, <1>2 DEF NextMember, DeleteRecord, DeleteLoad
  <2>3. status[m] # "verified" => Gone(m)
    BY <1>0, <2>2 DEF Kept
  <2>4. \A i \in Items : InHand(d, i) => InHand(d, i)' \/ Gone(i)
    BY <1>0, <2>1, <2>2, <2>3 DEF InHand
  <2>5. \A i \in Items : InHand(d, i)' => InHand(d, i)
    BY <1>0, <2>1, <2>2 DEF InHand
  <2> QED
    BY <1>0, <1>2, <2>1, <2>4, <2>5 DEF DeleteLoad, Handed, Gone
<1>3. CASE DeleteRemove(d)
  <2>1. /\ del[d].pc = "remove" /\ del'[d].pc = "commit"
        /\ del'[d].item = del[d].item /\ del'[d].todo = del[d].todo
        /\ \A e \in Deleters \ {d} : del'[e] = del[e]
    BY <1>0, <1>3 DEF DeleteRemove, DeleteRecord
  <2>2. \A i \in Items : InHand(d, i)' <=> InHand(d, i)
    BY <2>1 DEF InHand
  <2>3. \A i \in Items : Gone(i)' <=> Gone(i) \/ i = del[d].item
    BY <1>0, <1>3 DEF DeleteRemove, Gone
  <2> QED
    BY <2>1, <2>2, <2>3 DEF Handed
<1>4. CASE DeleteRaises(d) \/ DeleteCommit(d)
  <2>1. /\ del[d].pc \in {"remove", "commit"} /\ del'[d].pc = "next"
        /\ del'[d].item = del[d].item /\ del'[d].todo = del[d].todo
        /\ \A e \in Deleters \ {d} : del'[e] = del[e]
        /\ phone' = phone
    BY <1>0, <1>4 DEF DeleteRaises, DeleteCommit, DeleteRecord
  <2>2. Calm' => Gone(del[d].item)
    <3>1. CASE DeleteCommit(d)
      BY <1>0, <3>1 DEF DeleteCommit
    <3>2. CASE DeleteRaises(d) /\ ~Gone(del[d].item)
      <4>1. Spend("faults") /\ spent \in [faults : Nat, damage : Nat, edits : Nat,
                                          crashes : Nat, rechecks : Nat]
        BY <3>2 DEF DeleteRaises, Gone, TypeOK
      <4> QED
        BY <4>1 DEF Spend, Calm
    <3> QED
      BY <1>4, <3>1, <3>2
  <2>3. \A i \in Items : InHand(d, i)' => InHand(d, i)
    BY <2>1 DEF InHand
  <2>4. \A i \in Items : InHand(d, i) => InHand(d, i)' \/ i = del[d].item
    BY <2>1 DEF InHand
  <2> QED
    BY <1>0, <2>1, <2>2, <2>3, <2>4 DEF Handed, Gone
<1>5. CASE DeleteDone(d)
  <2>1. \A i \in Items : ~InHand(d, i) /\ ~InHand(d, i)'
    BY <1>0, <1>5 DEF DeleteDone, IdleDelete, InHand
  <2> QED
    BY <1>0, <1>5, <2>1 DEF DeleteDone, Handed, Gone
<1> QED
  BY <1>1, <1>2, <1>3, <1>4, <1>5 DEF Delete

LEMMA PairInductive ==
    ASSUME OneRun, MaxRechecks = 0
    PROVE  /\ Init => PairInv
           /\ TypeOK /\ CustodyInv /\ PairInv /\ [Next]_vars => PairInv'
<1>1. Init => PairInv
  BY DEF Init, PairInv, HandsInPairs, PairsTogether, InHand, IdleDelete, Gone
<1>2. ASSUME TypeOK, CustodyInv, PairInv, [Next]_vars, TypeOK', Calm'
      PROVE  HandsInPairs' /\ PairsTogether'
  <2>1. Calm /\ ~Crash
    BY <1>2, SpentGrows DEF Calm, TypeOK
  <2>2. Pair \in [Items -> Items] /\ \A i \in Items : Pair[Pair[i]] = i
    BY PairAssumption
  <2>3. \A e \in Deleters, i \in Items :
            /\ InHand(e, i) => InHand(e, i)' \/ Gone(i)'
            /\ InHand(e, i)' => InHand(e, i) \/ InHand(e, Pair[i])'
    <3>1. ASSUME NEW d \in Deleters, Delete(d), NEW e \in Deleters \ {d}, NEW i \in Items
          PROVE  InHand(e, i)' <=> InHand(e, i)
      BY <1>2, <3>1, DeleteHands DEF Handed, InHand
    <3>2. ASSUME NEW d \in Deleters, Delete(d), NEW i \in Items
          PROVE  /\ InHand(d, i) => InHand(d, i)' \/ Gone(i)'
                 /\ InHand(d, i)' => InHand(d, i) \/ InHand(d, Pair[i])'
      BY <1>2, <3>2, DeleteHands DEF Handed
    <3>3. ASSUME UNCHANGED del, NEW e \in Deleters, NEW i \in Items
          PROVE  InHand(e, i)' <=> InHand(e, i)
      BY <3>3 DEF InHand
    <3> QED
      BY <1>2, <2>1, <3>1, <3>2, <3>3, HandsStand
  <2>4. \A i \in Items :
            /\ Gone(i) => Gone(i)'
            /\ Gone(i)' => Gone(i) \/ \E d \in Deleters : InHand(d, i)
    <3>1. ASSUME NEW d \in Deleters, Delete(d), NEW i \in Items
          PROVE  /\ Gone(i) => Gone(i)'
                 /\ Gone(i)' => Gone(i) \/ InHand(d, i)
      BY <1>2, <3>1, DeleteHands DEF Handed, InHand
    <3> QED
      BY <1>2, <2>1, <3>1, HandsStand
  <2>5. \A e \in Deleters, i \in Items :
            InHand(e, i) => InHand(e, Pair[i]) \/ Gone(Pair[i])
    BY <1>2, <2>1 DEF PairInv, HandsInPairs
  <2>6. \A i \in Items : Gone(i) /\ ~Gone(Pair[i]) =>
            \E d \in Deleters : InHand(d, Pair[i])
    BY <1>2, <2>1 DEF PairInv, PairsTogether
  <2>7. ASSUME NEW e \in Deleters, NEW i \in Items, InHand(e, i)'
        PROVE  InHand(e, Pair[i])' \/ Gone(Pair[i])'
    BY <2>2, <2>3, <2>4, <2>5, <2>7
  <2>8. ASSUME NEW i \in Items, Gone(i)', ~Gone(Pair[i])'
        PROVE  \E d \in Deleters : InHand(d, Pair[i])'
    BY <2>2, <2>3, <2>4, <2>5, <2>6, <2>8
  <2> QED
    BY <2>7, <2>8 DEF HandsInPairs, PairsTogether
<1>3. ~Calm' => HandsInPairs' /\ PairsTogether'
  BY DEF HandsInPairs, PairsTogether
<1> QED
  BY <1>1, <1>2, <1>3, NextType DEF PairInv

\* The halves of a Live Photo leave the phone together, whatever number of
\* deletions overlap, as long as no removal fails and the backend lives.
THEOREM PairsLeaveTogether ==
    ASSUME OneRun, MaxRechecks = 0
    PROVE  Spec => []PairsTogether
<1>1. /\ Init => CustodyInv /\ PairInv
      /\ TypeOK /\ CustodyInv /\ PairInv /\ [Next]_vars => CustodyInv' /\ PairInv'
  BY CustodyInductive, PairInductive
<1>2. PairInv => PairsTogether
  BY DEF PairInv
<1> QED
  BY <1>1, <1>2, TypeCorrect, PTL DEF Spec

LEMMA CommitInductive ==
    ASSUME OneRun, MaxRechecks = 0
    PROVE  /\ Init => CommitDue
           /\ TypeOK /\ CustodyInv /\ CommitDue /\ [Next]_vars => CommitDue'
<1>1. Init => CommitDue
  BY DEF Init, CommitDue, Gone
<1>2. ASSUME TypeOK, CustodyInv, CommitDue, [Next]_vars, TypeOK',
             spent'.crashes = 0, NEW i \in Items, status'[i] = "verified", Gone(i)'
      PROVE  \E d \in Deleters : del'[d].pc = "commit" /\ del'[d].item = i
  <2>1. spent.crashes = 0 /\ ~Crash
    BY <1>2, SpentGrows DEF TypeOK
  <2>2. Gone(i) => status[i] = "verified"
    BY <1>2, StepOutcome DEF CustodyInv, GoneIsKept, Kept, DeletedStay
  <2>3. Gone(i) => \E d \in Deleters : del[d].pc = "commit" /\ del[d].item = i
    BY <1>2, <2>1, <2>2 DEF CommitDue
  <2>4. ASSUME NEW d \in Deleters, Delete(d)
        PROVE  \E e \in Deleters : del'[e].pc = "commit" /\ del'[e].item = i
    <3>1. CASE ~Gone(i)
      BY <1>2, <2>4, <3>1, DeleteHands DEF Handed
    <3>2. CASE Gone(i)
      <4>1. PICK e \in Deleters : del[e].pc = "commit" /\ del[e].item = i
        BY <2>3, <3>2
      <4>2. CASE e # d
        BY <1>2, <2>4, <4>1, <4>2, DeleteHands DEF Handed
      <4>3. CASE e = d
        <5>1. DeleteCommit(d)
          BY <2>4, <4>1, <4>3 DEF Delete, DeleteBegin, DeleteLoad, DeleteRemove,
                                  DeleteRaises, DeleteDone
        <5> QED
          BY <1>2, <4>1, <4>3, <5>1 DEF DeleteCommit, TypeOK
      <4> QED
        BY <4>2, <4>3
    <3> QED
      BY <3>1, <3>2
  <2>5. ASSUME UNCHANGED del, Gone(i)' <=> Gone(i)
        PROVE  \E e \in Deleters : del'[e].pc = "commit" /\ del'[e].item = i
    BY <1>2, <2>3, <2>5
  <2> QED
    BY <1>2, <2>1, <2>4, <2>5, HandsStand
<1> QED
  BY <1>1, <1>2, NextType DEF CommitDue

\* A verified row whose photo is gone is one that a deletion removed and is
\* about to commit, unless the backend died in between.
THEOREM VerifiedOnPhone ==
    ASSUME OneRun, MaxRechecks = 0
    PROVE  Spec => []VerifiedIsOnPhone
<1>1. /\ Init => CustodyInv /\ CommitDue
      /\ TypeOK /\ CustodyInv /\ CommitDue /\ [Next]_vars => CustodyInv' /\ CommitDue'
  BY CustodyInductive, CommitInductive
<1>2. CommitDue => VerifiedIsOnPhone
  BY DEF CommitDue, VerifiedIsOnPhone, InHand
<1> QED
  BY <1>1, <1>2, TypeCorrect, PTL DEF Spec
=============================================================================
