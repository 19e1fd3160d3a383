------------------------------ MODULE Manifest ------------------------------
(***************************************************************************)
(* The manifest of E-iClean: which rows a listing of /DCIM makes, how the  *)
(* halves of Live Photos are linked, which file on the PC each row is      *)
(* copied to, and what happens to these choices as photos, dates and       *)
(* phones come along later.                                                *)
(*                                                                         *)
(* A copy is one step here (TransferEngine looks inside it), and so are a  *)
(* verification and the deletion of a group (VerifyDelete).  Phones are    *)
(* connected one at a time and all copy to the same destination folder,    *)
(* the setting destination_default.                                        *)
(***************************************************************************)
EXTENDS Naturals, FiniteSets

CONSTANTS
    Items,      \* the files that may turn up below /DCIM of some phone
    NoItem,
    Devices, NoDevice,
    Device,     \* the phone an item is on,
    Folder,     \* the name of its parent folder there (100APPLE),
    Stem, Ext,  \* its name,
    Month,      \* the month of its st_mtime,
    Size,       \* and its size
    Images, Motions, \* the extensions of the two halves of a Live Photo
    Unknown,    \* the folder unknown-date
    Plain,      \* the mark of a path that keeps the file's own name
    NoPath,
    FirstReads, \* whether the version first installed reads st_mtime at all
    MaxListings,\* bound: library.enumerate calls
    MaxTroubles \* bound: restarts, lost links, failures, files the user removes

ASSUME FilesAssumption ==
    /\ NoItem \notin Items
    /\ Device \in [Items -> Devices] /\ NoDevice \notin Devices
    /\ DOMAIN Folder = Items /\ DOMAIN Stem = Items /\ DOMAIN Ext = Items
    /\ DOMAIN Month = Items /\ Size \in [Items -> Nat]
    /\ FirstReads \subseteq BOOLEAN
    /\ MaxListings \in Nat /\ MaxTroubles \in Nat
\* One file per path of a phone.
ASSUME PathsAssumption == \A i, j \in Items :
    /\ Device[i] = Device[j] /\ Folder[i] = Folder[j]
    /\ Stem[i] = Stem[j] /\ Ext[i] = Ext[j]
    => i = j
VARIABLES
    phone,    \* the items that are on their phones now
    row,      \* transfer_items: one row per item that was ever listed
    disk,     \* the item whose bytes a path of the destination folder holds
    here,     \* the phone that is connected
    engines,  \* phones whose session has an engine in this process
    active,   \* the engine of the phone here is in its loop
    job,      \* the row whose .partial file that engine is writing
    listing,  \* where the library.enumerate call under way stands
    listed,   \* phones the page shows as ready: listed since they connected
    offered,  \* what the Free Up Space button on the screen would delete
    reads,    \* the installed version reads st_mtime
    spent     \* how much of the bounds is used, and the phones of which a
              \* listing raised between its rows and their links

vars == <<phone, row, disk, here, engines, active, job, listing, listed,
          offered, reads, spent>>

-----------------------------------------------------------------------------
Statuses == {"none", "pending", "in_progress", "partial", "copied",
             "verified", "failed", "deleted"}
Buckets == {Month[i] : i \in Items} \union {Unknown}
Marks == {Folder[i] : i \in Items} \union {Plain}
Paths == [bucket : Buckets, stem : {Stem[i] : i \in Items},
          ext : {Ext[i] : i \in Items}, mark : Marks]

ASSUME NamesAssumption ==
    /\ Images \intersect Motions = {} /\ NoPath \notin Paths
    /\ \A i \in Items : Month[i] # Unknown /\ Folder[i] # Plain

NoRow == [status |-> "none", date |-> Unknown, pair |-> NoItem,
          local |-> NoPath]
NoListing == [step |-> "none", dev |-> NoDevice, seen |-> {}, dated |-> FALSE]

Known(i) == row[i].status # "none"
On(d, S) == {i \in Items : Device[i] = d /\ row[i].status \in S}
SetStatus(S, s) == row' = [i \in Items |->
    IF i \in S THEN [row[i] EXCEPT !.status = s] ELSE row[i]]

SameName(i, j) == Stem[i] = Stem[j] /\ Ext[i] = Ext[j]

\* Mutant of Collides: rows that are done with no longer count.
CollidesUnfinished(i) == \E j \in Items \ {i} :
    /\ row[j].status \in {"pending", "in_progress", "partial"}
    /\ Device[j] = Device[i] /\ SameName(i, j) /\ row[j].date = row[i].date

\* Another row of the phone has the same name and falls into the same month.
Collides(i) == \E j \in Items \ {i} :
    /\ Known(j) /\ Device[j] = Device[i] /\ SameName(i, j)
    /\ row[j].date = row[i].date

LocalPath(i) == [bucket |-> row[i].date, stem |-> Stem[i], ext |-> Ext[i],
                 mark |-> IF Collides(i) THEN Folder[i] ELSE Plain]

\* The size of the file a row names is the size of the item (a missing file
\* has none).
Matches(i) ==
    row[i].local # NoPath /\ disk[row[i].local] # NoItem
        /\ Size[disk[row[i].local]] = Size[i]

Init ==
    /\ phone = {}
    /\ row = [i \in Items |-> NoRow]
    /\ disk = [p \in Paths |-> NoItem]
    /\ here = NoDevice
    /\ engines = {} /\ active = FALSE /\ job = NoItem
    /\ listing = NoListing /\ listed = {} /\ offered = {}
    /\ reads \in FirstReads
    /\ spent = [listings |-> 0, troubles |-> 0, torn |-> {}]

Trouble ==
    /\ spent.troubles < MaxTroubles
    /\ spent' = [spent EXCEPT !.troubles = @ + 1]

-----------------------------------------------------------------------------
(* library.enumerate, in a worker thread.                                   *)

\* The walk of /DCIM; st_mtime is read or not, depending on the version.
ListWalk ==
    /\ here # NoDevice /\ listing.step = "none"
    /\ spent.listings < MaxListings
    /\ spent' = [spent EXCEPT !.listings = @ + 1]
    /\ listing' = [step |-> "upsert", dev |-> here, dated |-> reads,
                   seen |-> {i \in phone : Device[i] = here}]
    /\ listed' = listed \ {here}
    /\ offered' = {}
    /\ UNCHANGED <<phone, row, disk, here, engines, active, job, reads>>

\* Mutant of Listed: new rows get a status the queue does not know.
ListedNew(i) ==
    [row[i] EXCEPT !.status = IF @ = "none" THEN "new" ELSE @,
                   !.date = IF listing.dated THEN Month[i] ELSE @]

\* New rows are pending; a row without a date gets the one reported now.
Listed(i) ==
    [row[i] EXCEPT !.status = IF @ = "none" THEN "pending" ELSE @,
                   !.date = IF @ = Unknown /\ listing.dated
                            THEN Month[i] ELSE @]
ListUpsert ==
    /\ listing.step = "upsert"
    /\ row' = [i \in Items |-> IF i \in listing.seen THEN Listed(i) ELSE row[i]]
    /\ listing' = [listing EXCEPT !.step = "pair"]
    /\ UNCHANGED <<phone, disk, here, engines, active, job, listed, offered,
                   reads, spent>>

\* pair_live_photos: rows of the phone that are not linked yet, by stem alone.
Loose(S) == {i \in Items : /\ Known(i) /\ Device[i] = listing.dev
                           /\ row[i].pair = NoItem /\ Ext[i] \in S}
Only(i, S) == i \in Loose(S) /\ \A j \in Loose(S) : Stem[j] = Stem[i] => j = i

\* Mutant of Linked: the link is written at the image only.
LinkedOneSide(i, j) == Stem[i] = Stem[j] /\ Only(i, Images) /\ Only(j, Motions)

Linked(i, j) ==
    /\ Stem[i] = Stem[j]
    /\ \/ Only(i, Images) /\ Only(j, Motions)
       \/ Only(i, Motions) /\ Only(j, Images)
Partner(i) == IF \E j \in Items : Linked(i, j)
              THEN CHOOSE j \in Items : Linked(i, j) ELSE row[i].pair

\* Mutant of ListPair: no pair is ever linked.
ListPairNone ==
    /\ listing.step = "pair"
    /\ listing' = [listing EXCEPT !.step = "requeue"]
    /\ UNCHANGED <<phone, row, disk, here, engines, active, job, listed,
                   offered, reads, spent>>

ListPair ==
    /\ listing.step = "pair"
    /\ row' = [i \in Items |-> [row[i] EXCEPT !.pair = Partner(i)]]
    /\ listing' = [listing EXCEPT !.step = "requeue"]
    /\ UNCHANGED <<phone, disk, here, engines, active, job, listed, offered,
                   reads, spent>>

\* requeue_missing_local_files, and the answer the page waits for.
ListRequeue ==
    /\ listing.step = "requeue"
    /\ SetStatus({i \in On(listing.dev, {"copied", "verified"}) : ~Matches(i)},
                 "pending")
    /\ listed' = listed \union {listing.dev}
    /\ listing' = NoListing
    /\ offered' = {}
    /\ UNCHANGED <<phone, disk, here, engines, active, job, reads, spent>>

\* Any part raises: what earlier ones committed stays, and the page, which
\* gets an error, does not show the phone as ready.
ListRaises ==
    /\ listing.step # "none" /\ spent.troubles < MaxTroubles
    /\ spent' = [spent EXCEPT !.troubles = @ + 1,
                              !.torn = IF listing.step = "pair"
                                       THEN @ \union {listing.dev} ELSE @]
    /\ listing' = NoListing
    /\ UNCHANGED <<phone, row, disk, here, engines, active, job, listed,
                   offered, reads>>

-----------------------------------------------------------------------------
(* The engine of the phone here.                                            *)

\* transfer.start from the ready screen: everything unfinished is retried.
Start ==
    /\ here \in listed /\ listing.step = "none" /\ ~active
    /\ SetStatus(On(here, {"failed", "in_progress"}), "pending")
    /\ engines' = engines \union {here} /\ active' = TRUE
    /\ offered' = {}
    /\ UNCHANGED <<phone, disk, here, job, listing, listed, reads, spent>>

\* _transfer_item takes a row and decides where it goes.  (Rows are taken by
\* id, and ids follow the order of a walk, which may be any.)
Claim(i) ==
    /\ active /\ job = NoItem
    /\ i \in On(here, {"pending", "partial"})
    /\ job' = i
    /\ row' = [row EXCEPT ![i] = [@ EXCEPT !.status = "in_progress",
                                           !.local = LocalPath(i)]]
    /\ UNCHANGED <<phone, disk, here, engines, active, listing, listed,
                   offered, reads, spent>>

\* The finished file replaces whatever is at its path.
Finish ==
    /\ job \in phone
    /\ disk' = [disk EXCEPT ![row[job].local] = job]
    /\ SetStatus({job}, "copied")
    /\ job' = NoItem
    /\ UNCHANGED <<phone, here, engines, active, listing, listed, offered,
                   reads, spent>>

Fail ==
    /\ job # NoItem /\ (job \in phone => spent.troubles < MaxTroubles)
    /\ spent' = [spent EXCEPT !.troubles = IF job \in phone THEN @ + 1 ELSE @]
    /\ SetStatus({job}, "failed")
    /\ job' = NoItem
    /\ UNCHANGED <<phone, disk, here, engines, active, listing, listed,
                   offered, reads>>

\* The queue is empty and verify_session judges what was copied.
Drain ==
    /\ active /\ job = NoItem
    /\ On(here, {"pending", "partial"}) = {}
    /\ active' = FALSE
    /\ row' = [i \in Items |->
        IF i \in On(here, {"copied"})
        THEN [row[i] EXCEPT !.status = IF Matches(i) THEN "verified"
                                                     ELSE "failed"]
        ELSE row[i]]
    /\ offered' = {i \in On(here, {"copied", "verified"}) :
                    row'[i].status = "verified"}
    /\ UNCHANGED <<phone, disk, here, engines, job, listing, listed, reads, spent>>

\* delete.batch: a Live Photo goes when both its halves are verified.
Group(i) == {i} \union ({row[i].pair} \ {NoItem})
Delete(i) ==
    /\ i \in offered /\ row[i].status = "verified" /\ here = Device[i]
    /\ \A j \in Group(i) : row[j].status = "verified"
    /\ phone' = phone \ Group(i)
    /\ SetStatus(Group(i), "deleted")
    /\ UNCHANGED <<disk, here, engines, active, job, listing, listed,
                   offered, reads, spent>>

-----------------------------------------------------------------------------
(* The user, the phones and the process.                                    *)

\* device.connect: a session that has an engine is resumed.
Connect(d) ==
    /\ here = NoDevice
    /\ here' = d
    /\ active' = (d \in engines)
    /\ listed' = listed \ {d}
    /\ offered' = {}
    /\ UNCHANGED <<phone, row, disk, engines, job, listing, reads, spent>>

\* The cable is pulled; a copy under way stays partial.
Unplug ==
    /\ here # NoDevice
    /\ job # NoItem => spent.troubles < MaxTroubles
    /\ spent' = [spent EXCEPT !.troubles = IF job # NoItem THEN @ + 1 ELSE @]
    /\ SetStatus({job}, "partial")
    /\ here' = NoDevice /\ active' = FALSE /\ job' = NoItem
    /\ offered' = {}
    /\ UNCHANGED <<phone, disk, engines, listing, listed, reads>>

\* The process ends at any point, and perhaps a newer version starts.
Restart ==
    /\ Trouble
    /\ here' = NoDevice /\ engines' = {} /\ active' = FALSE /\ job' = NoItem
    /\ listing' = NoListing /\ listed' = {}
    /\ reads' \in {reads, TRUE}
    /\ offered' = {}
    /\ UNCHANGED <<phone, row, disk>>

Shoot(i) ==
    /\ i \notin phone /\ ~Known(i)
    /\ phone' = phone \union {i}
    /\ UNCHANGED <<row, disk, here, engines, active, job, listing, listed,
                   offered, reads, spent>>

\* The user deletes a photo on the phone, or a copy on the PC.
Trash(i) ==
    /\ i \in phone /\ Known(i) /\ Trouble
    /\ phone' = phone \ {i}
    /\ UNCHANGED <<row, disk, here, engines, active, job, listing, listed,
                   offered, reads>>
Remove(p) ==
    /\ disk[p] # NoItem /\ Trouble
    /\ disk' = [disk EXCEPT ![p] = NoItem]
    /\ UNCHANGED <<phone, row, here, engines, active, job, listing, listed,
                   offered, reads>>

Listing == ListWalk \/ ListUpsert \/ ListPair \/ ListRequeue \/ ListRaises
Run == Start \/ (\E i \in Items : Claim(i)) \/ Finish \/ Fail \/ Drain
Environment ==
    \/ \E d \in Devices : Connect(d)
    \/ Unplug \/ Restart
    \/ \E i \in Items : Shoot(i) \/ Trash(i)
    \/ \E p \in Paths : Remove(p)

Next == Listing \/ Run \/ (\E i \in Items : Delete(i)) \/ Environment

Spec == Init /\ [][Next]_vars

-----------------------------------------------------------------------------
(* Properties.                                                              *)

RowType == row \in [Items -> [status : Statuses, date : Buckets,
                              pair : Items \union {NoItem},
                              local : Paths \union {NoPath}]]
TypeOK ==
    /\ phone \subseteq Items
    /\ RowType
    /\ disk \in [Paths -> Items \union {NoItem}]
    /\ here \in Devices \union {NoDevice}
    /\ engines \subseteq Devices /\ active \in BOOLEAN
    /\ job \in Items \union {NoItem}
    /\ listing \in [step : {"none", "upsert", "pair", "requeue"},
                    dev : Devices \union {NoDevice}, seen : SUBSET Items,
                    dated : BOOLEAN]
    /\ listing.step # "none" => listing.dev \in Devices
    /\ listed \subseteq Devices /\ offered \subseteq Items /\ reads \in BOOLEAN
    /\ spent \in [listings : Nat, troubles : Nat, torn : SUBSET Devices]

\* A file the manifest says is a photo's copy never holds another photo, also
\* when the path was chosen before its namesakes or its date were known
\* (_local_relative_path).
CopiesAreTheirOwn == \A i \in Items :
    row[i].status \in {"copied", "verified", "deleted"} =>
        disk[row[i].local] \in {i, NoItem}

\* A photo that was deleted from its phone is still on the PC.
KeepsDeletedPhotos == \A i \in Items :
    row[i].status = "deleted" => disk[row[i].local] = i

\* Links of Live Photos are mutual, and join an image and a motion of one
\* phone and one stem, however many listings added to them (pair_live_photos).
PairsAreMutual == \A i, j \in Items :
    row[i].pair = j =>
        /\ row[j].pair = i /\ Device[i] = Device[j] /\ Stem[i] = Stem[j]
        /\ {i, j} \intersect {k \in Items : Ext[k] \in Images} # {}
        /\ {i, j} \intersect {k \in Items : Ext[k] \in Motions} # {}

\* The halves of one Live Photo, which no third file of the phone is named
\* after, and which both were listed, leave the phone together: no deletion
\* can come between their rows and their link but in the moment between the
\* two commits of a listing, or after one that raised there (FR-8).
Halves(i, j) ==
    /\ Device[i] = Device[j] /\ Folder[i] = Folder[j] /\ Stem[i] = Stem[j]
    /\ Ext[i] \in Images /\ Ext[j] \in Motions
Alone(i, j) == \A k \in Items \ {i, j} :
    ~(Known(k) /\ Device[k] = Device[i] /\ Stem[k] = Stem[i])
HalvesLeaveTogether ==
    [][\A i, j \in Items :
        (/\ Halves(i, j) /\ Alone(i, j) /\ Known(i) /\ Known(j)
         /\ listing.step # "pair" /\ Device[i] \notin spent.torn)
        => (row'[i].status = "deleted" /\ row[i].status # "deleted"
            <=> row'[j].status = "deleted" /\ row[j].status # "deleted")]_vars

=============================================================================
