---------------------------- MODULE VerifyDelete ----------------------------
(***************************************************************************)
(* From a finished copy to a freed phone: verify_session, delete_batch and *)
(* requeue_missing_local_files, for one device.                            *)
(*                                                                         *)
(* All three work item by item in worker threads (asyncio.to_thread), and  *)
(* each works on a row it read before: the SQLAlchemy session loads it,    *)
(* the thread looks at the disk or calls the phone, and commit writes the  *)
(* columns that changed since the load.  SQLite holds no read lock between *)
(* the two, so these are separate steps here.  The copy itself is one step *)
(* per item (module TransferEngine opens it up), and right as long as one  *)
(* engine copies at a time: variable mixed.                                *)
(***************************************************************************)
EXTENDS Naturals, FiniteSets

CONSTANTS
    Items,      \* rows of transfer_items
    Pair,       \* live_photo_pair_id: the other half, or the item itself
    Runs,       \* tasks of _run_transfer_then_verify that may coexist
    Deleters,   \* delete.batch calls that may coexist
    NoItem,
    Careful,    \* TRUE: nobody touches a local copy once it was read back
    MaxFaults,  \* bound: failed AFC removes, unreadable local files, stale flushes
    MaxDamage,  \* bound: local copies lost or cut short
    MaxEdits,   \* bound: files edited on the phone after they were listed
    MaxCrashes, \* bound: deaths of the backend process
    MaxRechecks \* bound: library.enumerate calls

ASSUME PairAssumption ==
    /\ Pair \in [Items -> Items]
    /\ \A i \in Items : Pair[Pair[i]] = i
ASSUME NoItemAssumption == NoItem \notin Items
ASSUME LimitsAssumption ==
    /\ Careful \in BOOLEAN
    /\ MaxFaults \in Nat /\ MaxDamage \in Nat /\ MaxEdits \in Nat
    /\ MaxCrashes \in Nat /\ MaxRechecks \in Nat

VARIABLES
    status,   \* transfer_items.status of each item, as committed
    phone,    \* the remote file: as listed, edited since, or gone
    disk,     \* the local file: none, of a wrong size, or of the listed size
              \* and either the whole remote file or not ("cut")
    run,      \* each _run_transfer_then_verify task
    del,      \* each delete_batch call
    mixed,    \* TRUE once two engines copied at the same time
    recheck,  \* the requeue_missing_local_files thread
    spent     \* how much of the bounds above is used

vars == <<status, phone, disk, run, mixed, del, recheck, spent>>

Statuses == {"pending", "copied", "verified", "deleted", "failed"}

IdleRun == [pc |-> "idle", todo |-> {}, item |-> NoItem, row |-> "none",
            verdict |-> "none"]
IdleDelete == [pc |-> "idle", todo |-> {}, item |-> NoItem]
IdleRecheck == [pc |-> "idle", todo |-> {}, reset |-> {}]

Init ==
    /\ status = [i \in Items |-> "pending"]
    /\ phone = [i \in Items |-> "listed"]
    /\ disk = [i \in Items |-> "none"]
    /\ run = [r \in Runs |-> IdleRun]
    /\ mixed = FALSE
    /\ del = [d \in Deleters |-> IdleDelete]
    /\ recheck = IdleRecheck
    /\ spent = [faults |-> 0, damage |-> 0, edits |-> 0, crashes |-> 0,
                rechecks |-> 0]

Spend(what) == spent' = [spent EXCEPT ![what] = @ + 1]
\* Mutant of SizeMatches: any local file will do.
FileExists(i) == disk[i] # "none"
SizeMatches(i) == disk[i] \in {"whole", "cut"}

-----------------------------------------------------------------------------
(* _run_transfer_then_verify: the queue, then verify_session.               *)

\* Mutant of Start: everything that is not verified is requeued.
StartOver(r) ==
    /\ run[r].pc = "idle"
    /\ status' = [i \in Items |->
                    IF status[i] = "verified" THEN status[i] ELSE "pending"]
    /\ run' = [run EXCEPT ![r].pc = "run"]
    /\ UNCHANGED <<phone, disk, mixed, del, recheck, spent>>

\* transfer.start: _retry_failed_items, then a task runs the queue, with an
\* engine of its own beside the one that may be copying.
Start(r) ==
    /\ run[r].pc = "idle"
    /\ status' = [i \in Items |->
                    IF status[i] = "failed" THEN "pending" ELSE status[i]]
    /\ run' = [run EXCEPT ![r].pc = "run"]
    /\ mixed' = (mixed \/ \E q \in Runs : run[q].pc = "run")
    /\ UNCHANGED <<phone, disk, del, recheck, spent>>

\* device.connect: resume_session_if_paused queues one more task, on the same
\* engine, whose lock keeps the two apart.
Resume(r) ==
    /\ run[r].pc = "idle"
    /\ run' = [run EXCEPT ![r].pc = "run"]
    /\ UNCHANGED <<status, phone, disk, mixed, del, recheck, spent>>

\* The run copies one item.  Two engines share one .partial and one AFC
\* cursor: the file then has its size, but maybe the wrong bytes, and a
\* .partial they wrote may be resumed long after (TransferEngine_two_content).
Copy(r, i) ==
    /\ run[r].pc = "run"
    /\ status[i] = "pending"
    /\ phone[i] # "gone"
    /\ status' = [status EXCEPT ![i] = "copied"]
    /\ \/ phone[i] = "listed" /\ disk' = [disk EXCEPT ![i] = "whole"]
       \/ /\ phone[i] = "edited" \/ mixed
          /\ disk' = [disk EXCEPT ![i] = "cut"]
    /\ UNCHANGED <<phone, run, mixed, del, recheck, spent>>

\* One of two engines flushes its progress into a row the other has settled
\* (counted as a fault).
Unsettle(r, i) ==
    /\ run[r].pc = "run"
    /\ mixed
    /\ spent.faults < MaxFaults
    /\ status' = [status EXCEPT ![i] = "pending"]
    /\ Spend("faults")
    /\ UNCHANGED <<phone, disk, run, mixed, del, recheck>>

\* It fails on an item that is gone from the phone, and may on any other.
CopyFails(r, i) ==
    /\ run[r].pc = "run"
    /\ status[i] = "pending"
    /\ IF phone[i] = "gone" THEN UNCHANGED spent
       ELSE spent.faults < MaxFaults /\ Spend("faults")
    /\ status' = [status EXCEPT ![i] = "failed"]
    /\ UNCHANGED <<phone, disk, run, mixed, del, recheck>>

\* Mutant of Drained: every row that has been copied once is verified.
DrainedAll(r) ==
    /\ run[r].pc = "run"
    /\ \A i \in Items : status[i] # "pending"
    /\ run' = [run EXCEPT ![r] = [@ EXCEPT !.pc = "verify", !.todo = Items]]
    /\ UNCHANGED <<status, phone, disk, mixed, del, recheck, spent>>

\* DRAINED: verify_session collects the copied rows, once.
Drained(r) ==
    /\ run[r].pc = "run"
    /\ \A i \in Items : status[i] # "pending"
    /\ run' = [run EXCEPT ![r] = [@ EXCEPT !.pc = "verify", !.todo =
                {i \in Items : status[i] = "copied"}]]
    /\ UNCHANGED <<status, phone, disk, mixed, del, recheck, spent>>

\* PAUSED, CANCELLED or DISCONNECTED: nothing is verified.
Interrupted(r) ==
    /\ run[r].pc = "run"
    /\ run' = [run EXCEPT ![r] = IdleRun]
    /\ UNCHANGED <<status, phone, disk, mixed, del, recheck, spent>>

\* verify_one: session.get; whatever the row says, its file is checked.
VerifyLoad(r, i) ==
    /\ run[r].pc = "verify"
    /\ i \in run[r].todo
    /\ run' = [run EXCEPT ![r] =
                [pc |-> "check", item |-> i, row |-> status[i],
                 todo |-> run[r].todo \ {i}, verdict |-> "none"]]
    /\ UNCHANGED <<status, phone, disk, mixed, del, recheck, spent>>

\* stat, then the local SHA-256.
VerifyCheck(r) ==
    /\ run[r].pc = "check"
    /\ run' = [run EXCEPT ![r] = [@ EXCEPT !.pc = "commit", !.verdict =
                 IF SizeMatches(run[r].item) THEN "verified" ELSE "failed"]]
    /\ UNCHANGED <<status, phone, disk, mixed, del, recheck, spent>>

\* Mutant of VerifyUnreadable: the error path sets no verdict.
VerifyUnjudged(r) ==
    /\ run[r].pc = "check"
    /\ spent.faults < MaxFaults
    /\ run' = [run EXCEPT ![r].pc = "commit"]
    /\ Spend("faults")
    /\ UNCHANGED <<status, phone, disk, mixed, del, recheck>>

\* OSError while reading a file that is there.
VerifyUnreadable(r) ==
    /\ run[r].pc = "check"
    /\ spent.faults < MaxFaults
    /\ run' = [run EXCEPT ![r] = [@ EXCEPT !.pc = "commit",
                                           !.verdict = "failed"]]
    /\ Spend("faults")
    /\ UNCHANGED <<status, phone, disk, mixed, del, recheck>>

\* Mutant of VerifyCommit: only a good verdict is written.
VerifyCommitGood(r) ==
    /\ run[r].pc = "commit"
    /\ status' = IF run[r].verdict = "failed" THEN status
                 ELSE [status EXCEPT ![run[r].item] = run[r].verdict]
    /\ run' = [run EXCEPT ![r] = [IdleRun EXCEPT !.pc = "verify",
                                                 !.todo = run[r].todo]]
    /\ UNCHANGED <<phone, disk, mixed, del, recheck, spent>>

\* commit: the UPDATE names status only if it differs from the loaded row.
VerifyCommit(r) ==
    /\ run[r].pc = "commit"
    /\ status' = IF run[r].row = run[r].verdict THEN status
                 ELSE [status EXCEPT ![run[r].item] = run[r].verdict]
    /\ run' = [run EXCEPT ![r] = [IdleRun EXCEPT !.pc = "verify",
                                                 !.todo = run[r].todo]]
    /\ UNCHANGED <<phone, disk, mixed, del, recheck, spent>>

\* verification_complete is emitted and the task ends.
VerifyDone(r) ==
    /\ run[r].pc = "verify"
    /\ run[r].todo = {}
    /\ run' = [run EXCEPT ![r] = IdleRun]
    /\ UNCHANGED <<status, phone, disk, mixed, del, recheck, spent>>

-----------------------------------------------------------------------------
(* delete_batch.                                                            *)

\* Mutant of Group: the other half is left out.
GroupAlone(i) == {i}
Group(i) == {i, Pair[i]}
Eligible(i) == \A m \in Group(i) : status[m] = "verified"

\* Phase 1, in one session: the groups of the requested ids that are wholly
\* verified are taken, the others refused.
DeleteBegin(d, requested) ==
    /\ del[d].pc = "idle"
    /\ del' = [del EXCEPT ![d] = [pc |-> "next", item |-> NoItem, todo |->
                UNION {Group(i) : i \in {j \in requested : Eligible(j)}}]]
    /\ UNCHANGED <<status, phone, disk, run, mixed, recheck, spent>>

\* Phase 2 takes the members one by one, those of a group together; the
\* order of the groups is the caller's.
NextMember(d) ==
    IF del[d].item # NoItem /\ Pair[del[d].item] \in del[d].todo
    THEN {Pair[del[d].item]} ELSE del[d].todo

\* _delete_one: load the row and test its own status again.
DeleteLoad(d) ==
    /\ del[d].pc = "next"
    /\ \E m \in NextMember(d) :
        del' = [del EXCEPT ![d] =
                 [pc |-> IF status[m] = "verified" THEN "remove" ELSE "next",
                  item |-> m, todo |-> del[d].todo \ {m}]]
    /\ UNCHANGED <<status, phone, disk, run, mixed, recheck, spent>>

\* afc.remove
DeleteRemove(d) ==
    /\ del[d].pc = "remove"
    /\ phone[del[d].item] # "gone"
    /\ phone' = [phone EXCEPT ![del[d].item] = "gone"]
    /\ del' = [del EXCEPT ![d].pc = "commit"]
    /\ UNCHANGED <<status, disk, run, mixed, recheck, spent>>

\* Mutant of DeleteRaises: the removal is tried again until it succeeds.
DeleteRetries(d) ==
    /\ del[d].pc = "remove"
    /\ IF phone[del[d].item] = "gone" THEN UNCHANGED spent
       ELSE spent.faults < MaxFaults /\ Spend("faults")
    /\ UNCHANGED <<status, phone, disk, run, mixed, del, recheck>>

\* It raises: the file is not there any more, or AFC refuses.
DeleteRaises(d) ==
    /\ del[d].pc = "remove"
    /\ IF phone[del[d].item] = "gone" THEN UNCHANGED spent
       ELSE spent.faults < MaxFaults /\ Spend("faults")
    /\ del' = [del EXCEPT ![d].pc = "next"]
    /\ UNCHANGED <<status, phone, disk, run, mixed, recheck>>

\* Mutant of DeleteCommit: the new status is never committed.
DeleteUncommitted(d) ==
    /\ del[d].pc = "commit"
    /\ del' = [del EXCEPT ![d].pc = "next"]
    /\ UNCHANGED <<status, phone, disk, run, mixed, recheck, spent>>

DeleteCommit(d) ==
    /\ del[d].pc = "commit"
    /\ status' = [status EXCEPT ![del[d].item] = "deleted"]
    /\ del' = [del EXCEPT ![d].pc = "next"]
    /\ UNCHANGED <<phone, disk, run, mixed, recheck, spent>>

DeleteDone(d) ==
    /\ del[d].pc = "next"
    /\ del[d].todo = {}
    /\ del' = [del EXCEPT ![d] = IdleDelete]
    /\ UNCHANGED <<status, phone, disk, run, mixed, recheck, spent>>

-----------------------------------------------------------------------------
(* requeue_missing_local_files, run by every library.enumerate.             *)

RecheckLoad ==
    /\ recheck.pc = "idle"
    /\ spent.rechecks < MaxRechecks
    /\ recheck' = [pc |-> "stat", reset |-> {}, todo |->
                    {i \in Items : status[i] \in {"copied", "verified"}}]
    /\ Spend("rechecks")
    /\ UNCHANGED <<status, phone, disk, run, mixed, del>>

RecheckStat(i) ==
    /\ recheck.pc = "stat"
    /\ i \in recheck.todo
    /\ recheck' = [recheck EXCEPT !.todo = @ \ {i}, !.reset =
                    IF SizeMatches(i) THEN @ ELSE @ \union {i}]
    /\ UNCHANGED <<status, phone, disk, run, mixed, del, spent>>

\* One commit at the end for all the rows found wanting.
RecheckCommit ==
    /\ recheck.pc = "stat"
    /\ recheck.todo = {}
    /\ status' = [i \in Items |->
                    IF i \in recheck.reset THEN "pending" ELSE status[i]]
    /\ recheck' = IdleRecheck
    /\ UNCHANGED <<phone, disk, run, mixed, del, spent>>

-----------------------------------------------------------------------------
(* What the user, the phone and the machine do.                             *)

\* A local copy was read back: the row says verified, is about to, or did so
\* when a deletion loaded it.
VouchedFor(i) ==
    \/ status[i] \in {"verified", "deleted"}
    \/ phone[i] = "gone"
    \/ \E r \in Runs : run[r].pc = "commit" /\ run[r].item = i
    \/ \E d \in Deleters : del[d].pc = "remove" /\ del[d].item = i

\* The local copy is removed or cut short.
Damage(i) ==
    /\ SizeMatches(i)
    /\ Careful => ~VouchedFor(i)
    /\ spent.damage < MaxDamage
    /\ disk' \in {[disk EXCEPT ![i] = "none"], [disk EXCEPT ![i] = "short"]}
    /\ Spend("damage")
    /\ UNCHANGED <<status, phone, run, mixed, del, recheck>>

\* The file is edited on the phone: the manifest keeps its old size.
Edit(i) ==
    /\ phone[i] = "listed"
    /\ spent.edits < MaxEdits
    /\ phone' = [phone EXCEPT ![i] = "edited"]
    /\ disk' = [disk EXCEPT ![i] = IF @ = "whole" THEN "cut" ELSE @]
    /\ Spend("edits")
    /\ UNCHANGED <<status, run, mixed, del, recheck>>

\* The backend dies with its tasks and threads.
Crash ==
    /\ spent.crashes < MaxCrashes
    /\ run' = [r \in Runs |-> IdleRun]
    /\ del' = [d \in Deleters |-> IdleDelete]
    /\ recheck' = IdleRecheck
    /\ Spend("crashes")
    /\ UNCHANGED <<status, phone, disk, mixed>>

Verify(r) ==
    \/ \E i \in Items : VerifyLoad(r, i)
    \/ VerifyCheck(r) \/ VerifyCommit(r) \/ VerifyDone(r)

Transfer(r) ==
    \/ Start(r) \/ Resume(r) \/ Drained(r) \/ Interrupted(r)
    \/ \E i \in Items : Copy(r, i) \/ CopyFails(r, i) \/ Unsettle(r, i)

Delete(d) ==
    \/ \E requested \in (SUBSET Items) \ {{}} : DeleteBegin(d, requested)
    \/ DeleteLoad(d) \/ DeleteRemove(d) \/ DeleteRaises(d)
    \/ DeleteCommit(d) \/ DeleteDone(d)

Recheck == RecheckLoad \/ RecheckCommit \/ \E i \in Items : RecheckStat(i)

Environment ==
    \/ \E i \in Items : Damage(i) \/ Edit(i)
    \/ \E r \in Runs : VerifyUnreadable(r)
    \/ Crash

Next ==
    \/ \E r \in Runs : Transfer(r) \/ Verify(r)
    \/ \E d \in Deleters : Delete(d)
    \/ Recheck
    \/ Environment

Spec == Init /\ [][Next]_vars

\* Tasks and threads that were started go on; nobody has to start any.
Fairness ==
    /\ \A r \in Runs : WF_vars(Verify(r))
    /\ \A d \in Deleters :
        WF_vars(DeleteLoad(d) \/ DeleteRemove(d) \/ DeleteRaises(d)
                    \/ DeleteCommit(d) \/ DeleteDone(d))

FairSpec == Spec /\ Fairness

-----------------------------------------------------------------------------
(* Properties.                                                              *)

Gone(i) == phone[i] = "gone"

\* A delete_batch call still has to deal with i.
InHand(d, i) ==
    \/ del[d].pc # "idle" /\ i \in del[d].todo
    \/ del[d].pc \in {"remove", "commit"} /\ del[d].item = i

RunRecord == [pc : {"idle", "run", "verify", "check", "commit"},
              todo : SUBSET Items, item : Items \union {NoItem},
              row : Statuses \union {"none"},
              verdict : {"none", "verified", "failed"}]
DeleteRecord == [pc : {"idle", "next", "remove", "commit"},
                 todo : SUBSET Items, item : Items \union {NoItem}]

\* Every variable has its type.
TypeOK ==
    /\ status \in [Items -> Statuses]
    /\ phone \in [Items -> {"listed", "edited", "gone"}]
    /\ disk \in [Items -> {"none", "short", "cut", "whole"}]
    /\ run \in [Runs -> RunRecord]
    /\ \A r \in Runs :
        /\ run[r].pc \in {"check", "commit"} => run[r].item \in Items
        /\ run[r].pc = "commit" => run[r].verdict # "none"
    /\ mixed \in BOOLEAN
    /\ del \in [Deleters -> DeleteRecord]
    /\ \A d \in Deleters :
        del[d].pc \in {"remove", "commit"} => del[d].item \in Items
    /\ recheck \in [pc : {"idle", "stat"}, todo : SUBSET Items,
                    reset : SUBSET Items]
    /\ spent \in [faults : Nat, damage : Nat, edits : Nat, crashes : Nat,
                  rechecks : Nat]

\* A photo that was removed from the phone is whole on the PC, whatever
\* verifications, deletions, rechecks and crashes overlapped on the way, as
\* long as no two engines copied at once: verify_one looks at sizes only, and
\* would take what those leave for sound.
NoPhotoLost == ~mixed => \A i \in Items : Gone(i) => disk[i] = "whole"

\* No removal failed and the backend did not die.
Calm == spent.faults = 0 /\ spent.crashes = 0

\* The halves of a Live Photo leave the phone together: if one is gone, a
\* delete_batch call is about to remove the other (as long as none failed).
PairsTogether ==
    Calm => \A i \in Items : Gone(i) /\ ~Gone(Pair[i]) =>
                \E d \in Deleters : InHand(d, Pair[i])

\* A verified row whose deletion failed can be requested again: its group is
\* not refused for ever because the other half was deleted.
FailureIsRetryable ==
    \A i \in Items : status[i] = "verified" /\ status[Pair[i]] = "deleted" =>
        \E d \in Deleters : InHand(d, i)

\* A verified row is still on the phone, except between remove and commit, or
\* when the backend died there.
VerifiedIsOnPhone ==
    spent.crashes = 0 =>
        \A i \in Items : status[i] = "verified" /\ Gone(i) =>
            \E d \in Deleters : InHand(d, i)

\* A deleted row stays deleted.
DeletedIsFinal ==
    [][\A i \in Items : status[i] = "deleted" => status'[i] = "deleted"]_vars

\* A row becomes verified only when its copy is all there is on the phone
\* (with the same exception).
VerifiedIsWhole ==
    [][~mixed => \A i \in Items :
            status[i] # "verified" /\ status'[i] = "verified" =>
                disk[i] = "whole"]_vars

\* Where each photo is kept, for the abstract specification.
Where == [i \in Items |->
            IF Gone(i) THEN "pc"
            ELSE IF status[i] = "verified" THEN "vouched"
            ELSE IF status[i] = "copied" THEN "both" ELSE "phone"]

Promise == INSTANCE Custody WITH where <- Where
\* Verification and deletion keep the promise of module Custody: a photo is
\* removed only while its row says verified (delete_service: "refuses to touch
\* anything that isn't verified"), and only a copied row gets to say so.
KeepsCustody == Promise!Spec

\* Every copy that a verification took on is judged, unless the backend dies.
CopiedIsJudged ==
    \A i \in Items, r \in Runs :
        i \in run[r].todo ~> status[i] # "copied" \/ spent.crashes > 0

\* Every delete_batch call ends.
DeletionsEnd == \A d \in Deleters : del[d].pc # "idle" ~> del[d].pc = "idle"

=============================================================================
