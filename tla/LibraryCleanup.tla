--------------------------- MODULE LibraryCleanup ---------------------------
(***************************************************************************)
(* Library Cleanup: a scan of one folder, the duplicate groups it forms,   *)
(* and the library_delete.batch calls that move files to the sibling       *)
(* -delete folder or unlink them.                                          *)
(*                                                                         *)
(* Scanning runs on the event loop, with its hashing and its grouping in   *)
(* worker threads; every deletion call is a worker thread of its own.  A   *)
(* step is what one of them does between two commits or file operations.   *)
(***************************************************************************)
EXTENDS DuplicateGroups

CONSTANTS
    Listing,     \* paths under the scanned root, in the order of the walk
    Pictures,    \* what the user may ever save there
    Home,        \* the path each picture is saved at
    Stored,      \* those already there when the app is started
    RenamedTo,   \* where disambiguated_name sends the second file of a path
    NoPicture,
    Batches,     \* library_delete.batch calls that may overlap
    Workers,     \* settings.LIBRARY_SCAN_WORKER_CONCURRENCY
    MaxScans,    \* bound: library_scan.start calls
    MaxBatches,  \* bound: library_delete.batch calls
    MaxTroubles  \* bound: files the user removes outside the app, files that
                 \* cannot be read, moved or unlinked, deaths of the backend,
                 \* and scans or deletions started beside another call

Files == ToSet(Listing)

\* Where a file may be: at its path, in the -delete folder under its own name,
\* or there with its folder's name added.
Slots == {"here", "staged", "renamed"}
Places == Files \X Slots
At(f) == <<f, "here">>

ASSUME ListingAssumption == Listing \in Seq(Files)
ASSUME PicturesAssumption ==
    /\ Home \in [Pictures -> Files]
    /\ NoPicture \notin Pictures
    /\ Stored \subseteq Pictures
    /\ \A p, q \in Stored : Home[p] = Home[q] => p = q
    /\ DOMAIN Hash = Pictures /\ DOMAIN Look = Pictures
    /\ \A p, q \in Pictures : Hash[p] = Hash[q] => Look[p] = Look[q]
    /\ Threshold \in Nat
\* The second name is a file's own, or the name "x (A).jpg" that a file of the
\* same folder A has by nature.
ASSUME NamesAssumption == \A f, g \in Files :
    /\ \/ RenamedTo[f] = <<f, "renamed">>
       \/ \E other \in Files \ {f} : RenamedTo[f] = <<other, "staged">>
    /\ RenamedTo[f] = RenamedTo[g] => f = g
ASSUME CapsAssumption ==
    /\ Workers \in Nat \ {0}
    /\ MaxScans \in Nat /\ MaxBatches \in Nat /\ MaxTroubles \in Nat

VARIABLES
    disk,    \* the picture at each place, or NoPicture
    row,     \* library_files, in the order of their ids
    group,   \* duplicate_groups with their members
    scan,    \* the scan_library call
    del,     \* each delete_batch call
    purged,  \* pictures the user chose to lose
    saved,   \* pictures the user saved so far
    spent    \* how much of the bounds above is used

vars == <<disk, row, group, scan, del, purged, saved, spent>>

\* The path of the file that came from place[1]: its second name may be the
\* one another file is staged under.
Path(place) == IF place[2] = "renamed" THEN RenamedTo[place[1]] ELSE place

Ids == 1..Len(row)
RowsAt(place) == {i \in Ids : row[i].at = place}

IdleWork == [pc |-> "done", seen |-> NoPicture, needs |-> FALSE,
             hash |-> NoPicture]
IdleScan == [pc |-> "idle", todo |-> {}, work |-> [f \in Files |-> IdleWork],
             files |-> [i \in {} |-> NoPicture]]
IdleBatch == [pc |-> "idle", todo |-> {}, permanent |-> FALSE, id |-> 0,
              to |-> "here", gid |-> 0]

Init ==
    /\ disk = [place \in Places |->
                IF \E p \in Stored : place = At(Home[p])
                THEN CHOOSE p \in Stored : place = At(Home[p]) ELSE NoPicture]
    /\ row = <<>>
    /\ group = {}
    /\ scan = IdleScan
    /\ del = [b \in Batches |-> IdleBatch]
    /\ purged = {}
    /\ saved = Stored
    /\ spent = [scans |-> 0, batches |-> 0, overlaps |-> 0, doubles |-> 0,
                removals |-> 0, faults |-> 0, copies |-> 0, crashes |-> 0]

Deleting == \E b \in Batches : del[b].pc # "idle"
Scanning == scan.pc # "idle"
Troubles == spent.removals + spent.faults + spent.copies + spent.crashes
                + spent.overlaps + spent.doubles
Trouble(what) ==
    /\ Troubles < MaxTroubles
    /\ spent' = [spent EXCEPT ![what] = @ + 1]

\* A call begins. The page shows no button that starts a second call while it
\* waits for one, so that is a trouble too.
Begin(what, cap, beside) ==
    /\ spent[what] < cap
    /\ beside = "none" \/ Troubles < MaxTroubles
    /\ spent' = [k \in DOMAIN spent |->
                    IF k \in {what, beside} THEN spent[k] + 1 ELSE spent[k]]

-----------------------------------------------------------------------------
(* scan_library                                                             *)

\* _walk_image_files: the -delete folder is not entered.
ScanStart ==
    /\ ~Scanning
    /\ Begin("scans", MaxScans, IF Deleting THEN "overlaps" ELSE "none")
    /\ scan' = [IdleScan EXCEPT !.pc = "files", !.todo =
                 {n \in DOMAIN Listing : disk[At(Listing[n])] # NoPicture}]
    /\ UNCHANGED <<disk, row, group, del, purged, saved>>

\* Mutant of NeedsHashing: a known file is never hashed again.
NeedsHashingOnce(f, seen) == RowsAt(At(f)) = {}

\* _needs_hashing: size and date differ from the row's, or it has no hash.
NeedsHashing(f, seen) ==
    \A i \in RowsAt(At(f)) : row[i].seen # seen \/ row[i].hash = NoPicture

\* The semaphore admits the files in the order of the walk.
Admitted(f) ==
    /\ scan.todo # {} /\ f = Listing[Min(scan.todo)]
    /\ Cardinality({g \in Files : scan.work[g].pc \in {"hash", "write"}})
           < Workers

\* _process_file: stat and the look at the row; a file that is gone is left.
ScanStat(f) ==
    LET seen == disk[At(f)]  needs == NeedsHashing(f, seen) IN
    /\ Admitted(f)
    /\ scan' = [scan EXCEPT !.todo = @ \ {Min(@)}, !.work[f] =
         IF seen = NoPicture THEN IdleWork
         ELSE [pc |-> IF needs THEN "hash" ELSE "write", seen |-> seen,
               needs |-> needs, hash |-> NoPicture]]
    /\ UNCHANGED <<disk, row, group, del, purged, saved, spent>>

\* _hash_file in a worker thread; an unreadable file has no hash.
ScanHash(f) ==
    /\ scan.work[f].pc = "hash"
    /\ \/ /\ scan' = [scan EXCEPT !.work[f] =
                       [@ EXCEPT !.pc = "write", !.hash = disk[At(f)]]]
          /\ UNCHANGED spent
       \/ /\ scan' = [scan EXCEPT !.work[f].pc = "write"]
          /\ Trouble("faults")
    /\ UNCHANGED <<disk, row, group, del, purged, saved>>

\* The decoder raises what _hash_file does not catch.  gather raises it on, so
\* scan_library ends with no groups and no library_scan_complete, while the
\* tasks of the other files go on.
ScanHashRaises(f) ==
    /\ scan.work[f].pc = "hash"
    /\ scan' = [scan EXCEPT !.work[f].pc = "raised"]
    /\ Trouble("faults")
    /\ UNCHANGED <<disk, row, group, del, purged, saved>>

\* Mutant of ScanWrite: the row is not fetched again.
ScanWriteUnfetched(f) ==
    LET w == scan.work[f] IN
    /\ w.pc = "write"
    /\ row' = Append(row, [at |-> At(f), status |-> "active", seen |-> w.seen,
                           hash |-> w.hash])
    /\ scan' = [scan EXCEPT !.work[f] = IdleWork]
    /\ UNCHANGED <<disk, group, del, purged, saved, spent>>

\* The row is fetched again and written; one that is not there is inserted.
ScanWrite(f) ==
    LET w == scan.work[f]
        Fresh(old) == [at |-> At(f), status |-> "active", seen |-> w.seen,
                       hash |-> IF w.needs THEN w.hash ELSE old]
    IN
    /\ w.pc = "write"
    /\ row' = IF RowsAt(At(f)) = {} THEN Append(row, Fresh(NoPicture))
              ELSE [i \in Ids |-> IF row[i].at = At(f) THEN Fresh(row[i].hash)
                                  ELSE row[i]]
    /\ scan' = [scan EXCEPT !.work[f] = IdleWork]
    /\ UNCHANGED <<disk, group, del, purged, saved, spent>>

\* _form_duplicate_groups: clear and commit, select, insert and commit.
ScanClear ==
    /\ scan.pc = "files" /\ scan.todo = {}
    /\ \A f \in Files : scan.work[f].pc = "done"
    /\ group' = {}
    /\ scan' = [scan EXCEPT !.pc = "select"]
    /\ UNCHANGED <<disk, row, del, purged, saved, spent>>

\* Mutant of Groupable: the status is not looked at.
GroupableAll == {i \in Ids : row[i].hash # NoPicture}

Groupable == {i \in Ids : row[i].status = "active" /\ row[i].hash # NoPicture}

ScanSelect ==
    /\ scan.pc = "select"
    /\ scan' = [scan EXCEPT !.pc = "insert",
                            !.files = [i \in Groupable |-> row[i].hash]]
    /\ UNCHANGED <<disk, row, group, del, purged, saved, spent>>

\* ... and library_scan_complete is emitted.
ScanInsert ==
    /\ scan.pc = "insert"
    /\ group' = Groups(scan.files)
    /\ scan' = IdleScan
    /\ UNCHANGED <<disk, row, del, purged, saved, spent>>

-----------------------------------------------------------------------------
(* delete_batch                                                             *)

\* The page asks for files it shows in a group.
DeleteBegin(b, ids, permanent) ==
    /\ del[b].pc = "idle"
    /\ Begin("batches", MaxBatches, IF Scanning THEN "overlaps"
                                    ELSE IF Deleting THEN "doubles" ELSE "none")
    /\ del' = [del EXCEPT ![b] = [IdleBatch EXCEPT
                !.pc = "next", !.todo = ids, !.permanent = permanent]]
    /\ UNCHANGED <<disk, row, group, scan, purged, saved>>

\* session.get, and the test that the row is still active.
DeleteLoad(b, i) ==
    /\ del[b].pc = "next"
    /\ i \in del[b].todo
    /\ del' = [del EXCEPT ![b] = [@ EXCEPT
                !.pc = IF row[i].status = "active" THEN "act" ELSE "next",
                !.todo = del[b].todo \ {i}, !.id = i]]
    /\ UNCHANGED <<disk, row, group, scan, purged, saved, spent>>

File(b) == row[del[b].id].at[1]

\* Mutant of Target: a file of that name in the -delete folder is replaced.
TargetFirst(f) == "staged"

\* Where _move_to_delete_folder puts f; what has the second name is replaced.
Target(f) == IF disk[<<f, "staged">>] = NoPicture THEN "staged" ELSE "renamed"

\* shutil.move
DeleteMove(b) ==
    LET f == File(b)  to == Target(f) IN
    /\ del[b].pc = "act" /\ ~del[b].permanent
    /\ disk[At(f)] # NoPicture
    /\ disk' = [disk EXCEPT ![Path(<<f, to>>)] = disk[At(f)],
                            ![At(f)] = NoPicture]
    /\ del' = [del EXCEPT ![b] = [@ EXCEPT !.pc = "commit", !.to = to]]
    /\ UNCHANGED <<row, group, scan, purged, saved, spent>>

\* unlink
DeleteUnlink(b) ==
    LET f == File(b) IN
    /\ del[b].pc = "act" /\ del[b].permanent
    /\ disk[At(f)] # NoPicture
    /\ disk' = [disk EXCEPT ![At(f)] = NoPicture]
    /\ purged' = purged \union {disk[At(f)]}
    /\ del' = [del EXCEPT ![b] = [@ EXCEPT !.pc = "commit", !.to = "here"]]
    /\ UNCHANGED <<row, group, scan, saved, spent>>

\* Mutant of DeleteRaises: a failed file is tried again.
DeleteRaisesAgain(b) ==
    /\ del[b].pc = "act"
    /\ IF disk[At(File(b))] = NoPicture THEN UNCHANGED spent ELSE Trouble("faults")
    /\ del' = [del EXCEPT ![b] = [@ EXCEPT !.pc = "next",
                                           !.todo = @ \union {del[b].id}]]
    /\ UNCHANGED <<disk, row, group, scan, purged, saved>>

\* OSError: the file is not there any more, or Windows refuses.
DeleteRaises(b) ==
    /\ del[b].pc = "act"
    /\ IF disk[At(File(b))] = NoPicture THEN UNCHANGED spent ELSE Trouble("faults")
    /\ del' = [del EXCEPT ![b].pc = "next"]
    /\ UNCHANGED <<disk, row, group, scan, purged, saved>>

\* The rename is refused, the file is copied, and its unlink raises.
DeleteCopies(b) ==
    LET f == File(b) IN
    /\ del[b].pc = "act" /\ ~del[b].permanent
    /\ disk[At(f)] # NoPicture
    /\ disk' = [disk EXCEPT ![Path(<<f, Target(f)>>)] = disk[At(f)]]
    /\ del' = [del EXCEPT ![b].pc = "next"]
    /\ Trouble("copies")
    /\ UNCHANGED <<row, group, scan, purged, saved>>

\* Mutant of DeleteCommit: only a move changes the row.
DeleteCommitMoves(b) ==
    LET i == del[b].id  place == <<File(b), del[b].to>> IN
    /\ del[b].pc = "commit"
    /\ row' = [row EXCEPT ![i] = [@ EXCEPT !.at = place, !.status =
                IF del[b].permanent THEN @ ELSE "moved"]]
    /\ del' = [del EXCEPT ![b] = [@ EXCEPT !.pc = "prune"]]
    /\ UNCHANGED <<disk, group, scan, purged, saved, spent>>

RowsOn(place) == {i \in Ids : Path(row[i].at) = Path(place)}

\* commit; two rows of one local_path are an IntegrityError, which ends the
\* whole call.
DeleteCommit(b) ==
    LET i == del[b].id  place == <<File(b), del[b].to>> IN
    /\ del[b].pc = "commit"
    /\ IF RowsOn(place) \subseteq {i}
       THEN /\ row' = [row EXCEPT ![i] = [@ EXCEPT !.at = place, !.status =
                        IF del[b].permanent THEN "deleted" ELSE "moved"]]
            /\ del' = [del EXCEPT ![b].pc = "prune"]
       ELSE del' = [del EXCEPT ![b] = IdleBatch] /\ UNCHANGED row
    /\ UNCHANGED <<disk, group, scan, purged, saved, spent>>

Memberships(b) == {g \in group : del[b].id \in g.members}
Without(g, ids) == [g EXCEPT !.members = @ \ ids]

\* _prune_resolved_groups: the membership of the file is deleted ...
PruneMember(b) ==
    /\ del[b].pc = "prune"
    /\ \/ /\ Memberships(b) = {}
          /\ del' = [del EXCEPT ![b].pc = "next"]
          /\ UNCHANGED group
       \/ \E g \in Memberships(b) :
          /\ group' = (group \ {g}) \union {Without(g, {del[b].id})}
          /\ del' = [del EXCEPT ![b] = [@ EXCEPT !.pc = "count",
                                                 !.gid = g.id]]
    /\ UNCHANGED <<disk, row, scan, purged, saved, spent>>

\* Mutant of PruneCount: a group of one is kept.
PruneCountEmpty(b) ==
    LET left == UNION {g.members : g \in {h \in group : h.id = del[b].gid}} IN
    /\ del[b].pc = "count"
    /\ del' = [del EXCEPT ![b] = [@ EXCEPT
                !.pc = IF left # {} THEN "next" ELSE "drop"]]
    /\ UNCHANGED <<disk, row, group, scan, purged, saved, spent>>

\* ... the remaining members of its group are counted ...
PruneCount(b) ==
    LET left == UNION {g.members : g \in {h \in group : h.id = del[b].gid}} IN
    /\ del[b].pc = "count"
    /\ del' = [del EXCEPT ![b] = [@ EXCEPT
                !.pc = IF Large(left) THEN "next" ELSE "drop"]]
    /\ UNCHANGED <<disk, row, group, scan, purged, saved, spent>>

\* ... and a group of one is dropped.
PruneDrop(b) ==
    /\ del[b].pc = "drop"
    /\ group' = {g \in group : g.id # del[b].gid}
    /\ del' = [del EXCEPT ![b] = [@ EXCEPT !.pc = "next"]]
    /\ UNCHANGED <<disk, row, scan, purged, saved, spent>>

DeleteDone(b) ==
    /\ del[b].pc = "next"
    /\ del[b].todo = {}
    /\ del' = [del EXCEPT ![b] = IdleBatch]
    /\ UNCHANGED <<disk, row, group, scan, purged, saved, spent>>

-----------------------------------------------------------------------------
(* The user, outside the app, and the machine.                              *)

\* A new picture is saved where none is; not while a deletion is waited for.
Save(p) ==
    /\ p \notin saved
    /\ ~Deleting
    /\ disk[At(Home[p])] = NoPicture
    /\ disk' = [disk EXCEPT ![At(Home[p])] = p]
    /\ saved' = saved \union {p}
    /\ UNCHANGED <<row, group, scan, del, purged, spent>>

\* A picture is removed in the Explorer.
Vanish(f) ==
    /\ disk[At(f)] # NoPicture
    /\ disk' = [disk EXCEPT ![At(f)] = NoPicture]
    /\ purged' = purged \union {disk[At(f)]}
    /\ Trouble("removals")
    /\ UNCHANGED <<row, group, scan, del, saved>>

Crash ==
    /\ scan' = IdleScan
    /\ del' = [b \in Batches |-> IdleBatch]
    /\ Trouble("crashes")
    /\ UNCHANGED <<disk, row, group, purged, saved>>

Scan ==
    \/ \E f \in Files :
        ScanStat(f) \/ ScanHash(f) \/ ScanHashRaises(f) \/ ScanWrite(f)
    \/ ScanClear \/ ScanSelect \/ ScanInsert

Shown == UNION {g.members : g \in group}

Delete(b) ==
    \/ \E i \in Ids : DeleteLoad(b, i)
    \/ DeleteMove(b) \/ DeleteUnlink(b) \/ DeleteRaises(b) \/ DeleteCopies(b)
    \/ DeleteCommit(b)
    \/ PruneMember(b) \/ PruneCount(b) \/ PruneDrop(b) \/ DeleteDone(b)

Next ==
    \/ ScanStart \/ Scan
    \/ \E b \in Batches :
        \/ \E ids \in (SUBSET Shown) \ {{}}, permanent \in BOOLEAN :
            DeleteBegin(b, ids, permanent)
        \/ Delete(b)
    \/ \E p \in Pictures : Save(p)
    \/ \E f \in Files : Vanish(f)
    \/ Crash

Spec == Init /\ [][Next]_vars

\* A scan and a deletion that were started go on.
Fairness == WF_vars(Scan) /\ \A b \in Batches : WF_vars(Delete(b))

FairSpec == Spec /\ Fairness

-----------------------------------------------------------------------------
(* Properties                                                               *)

TypeOK ==
    /\ disk \in [Places -> Pictures \union {NoPicture}]
    /\ \A i \in Ids : row[i] \in
        [at : Places, status : {"active", "moved", "deleted"},
         seen : Pictures, hash : Pictures \union {NoPicture}]
    /\ \A i, j \in Ids : Path(row[i].at) = Path(row[j].at) => i = j
    /\ \A g \in group : /\ g.members \subseteq Ids
                        /\ g.kind \in {"exact", "near"}
                        /\ \A h \in group : g.id = h.id => g = h
    /\ scan.pc \in {"idle", "files", "select", "insert"}
    /\ scan.todo \subseteq DOMAIN Listing
    /\ scan.work \in [Files ->
        [pc : {"done", "hash", "write", "raised"}, needs : BOOLEAN,
         seen : Pictures \union {NoPicture},
         hash : Pictures \union {NoPicture}]]
    /\ \A b \in Batches : del[b] \in
        [pc : {"idle", "next", "act", "commit", "prune", "count", "drop"},
         todo : SUBSET Ids, permanent : BOOLEAN, id : Ids \union {0},
         to : Slots, gid : 0..Cardinality(Files)]
    /\ purged \subseteq saved /\ saved \subseteq Pictures

NamedLike(p) == {q \in Pictures : Home[q] = Home[p]}
Somewhere(p) == \E place \in Places : disk[place] = p

\* A picture the user never chose to lose is still on the disk, in its folder
\* or in the -delete folder: _move_to_delete_folder never overwrites one.
KeepsEveryPicture == \A p \in saved \ purged : Somewhere(p)

\* No other file gets the name of f when it is renamed.
OwnName(f) == \A e \in Files : RenamedTo[e] # <<f, "staged">>

\* ... which holds for up to two pictures of one path, whatever crashed, failed
\* or overlapped: the collision rule adds the folder's name once.  It does not
\* hold for a picture that is called "x (A).jpg" itself, beside A/x.jpg.
KeepsTwoOfAName ==
    \A p \in saved \ purged :
        Cardinality(NamedLike(p)) <= 2 /\ OwnName(Home[p]) => Somewhere(p)

\* No file was taken away or left behind by half a move, no death of the
\* process and no scan beside a deletion came between; no path saw three
\* pictures, and no picture the second name of another.
Calm ==
    /\ spent.removals = 0 /\ spent.copies = 0 /\ spent.crashes = 0
    /\ spent.overlaps = 0
    /\ \A p \in saved : Cardinality(NamedLike(p) \cap saved) <= 2
    /\ \A p, q \in saved : RenamedTo[Home[p]] # <<Home[q], "staged">>

InHand(i, pcs) == \E b \in Batches : del[b].id = i /\ del[b].pc \in pcs

\* An active row names a file that is there, except while delete_batch stands
\* between the file operation and its commit.
ActiveIsThere ==
    Calm => \A i \in Ids : row[i].status = "active" =>
        disk[row[i].at] # NoPicture \/ InHand(i, {"commit"})

\* The page offers only active files for deletion: nothing stays a member of
\* a group once it is moved or deleted, except until it is pruned.
GroupsAreActive ==
    Calm => \A g \in group : \A i \in g.members :
        row[i].status = "active" \/ InHand(i, {"prune"})

\* The groups are what a user can review: a file is in one group at most, as
\* an exact duplicate is never offered again as a near one, and
\* _prune_resolved_groups leaves no group of one, also when two calls prune the
\* same group or a scan forms the groups anew meanwhile.
GroupsAreReviewable ==
    /\ \A g, h \in group : g # h => g.members \cap h.members = {}
    /\ spent.crashes = 0 => \A g \in group :
        \/ Large(g.members)
        \/ \E b \in Batches : del[b].gid = g.id /\ del[b].pc \in {"count", "drop"}

\* What the page shows as exact duplicates has the same content on the disk,
\* also when a path holds another picture than the row was made for.
ExactIsExact ==
    Calm /\ ~Scanning => \A g \in group : g.kind = "exact" =>
        \A p, q \in {disk[Path(row[i].at)] : i \in g.members} \ {NoPicture} :
            Hash[p] = Hash[q]

\* The hashing of a file raised, and with it scan_library.
ScanDied == \E f \in Files : scan.work[f].pc = "raised"

\* A scan ends, also when files it listed are gone or cannot be read, unless
\* the hashing of one raises; a batch gets past files that are gone or refuse
\* to move.
WorkEnds ==
    /\ Scanning ~> ~Scanning \/ ScanDied
    /\ \A b \in Batches : del[b].pc # "idle" ~> del[b].pc = "idle"

=============================================================================
