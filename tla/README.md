# E-iClean in TLA+

E-iClean copies the photos of an iPhone to a Windows PC, verifies the copies, deletes verified photos from the phone, and cleans up duplicates in a local picture folder. A page in a Tauri window (`src/src/`) calls a Rust shell (`src/src-tauri/src/`), which talks JSON lines over stdin/stdout to a Python backend (`src/backend/app/`). The backend keeps its state in SQLite, in files, and in a few in-memory objects.

These modules model the part of that program where order, failure and restarts decide whether a photo survives. Each definition is a translation of the code; `PROJECT.json` maps it to its lines.

## Inventory

| Component | State | Operations | Hard behaviour | What makes it correct | Module |
|---|---|---|---|---|---|
| Transfer engine `services/transfer_engine.py` | rows of `transfer_items`, `.partial` and finished files, run lock, pause and cancel flags, the client it reads through | `run`, `_transfer_item`, `pause`, `cancel`, `_mark_partial`, `_mark_failed` | runs of one or two engines interleave at every read; the process dies between a file operation and a commit; resume after a lost connection | a copied row names a whole file; a partial file is a prefix; no orphaned rows; one run per engine; drained means settled | `TransferEngine` |
| AFC client `device/afc_client.py` | one open handle with a sequential position | `read_chunk`, `close`, listing, `stat`, `remove` | shared by all callers; cannot seek; retries once | a read returns the bytes of its own offset | `TransferEngine` (reads), `Manifest` (listing) |
| IPC handlers `ipc/handlers.py`, `state.py` | `afc_clients`, `engines` | `device.connect`, `transfer.*`, `library.enumerate`, `delete.batch`, `library_*` | fire-and-forget tasks that share rows and clients | a drained run is verified, an interrupted one is not | spread over the modules |
| Verification `services/verification.py` | row status | `verify_session`, `verify_one` | works through a stale list of ids; reads the file in a thread | verified means whole and present | `VerifyDelete` |
| Delete service `services/delete_service.py` | row status, files on the phone | `delete_batch` | remove and commit are two steps; Live Photo pairs; one removal of a pair fails | nothing leaves the phone without a whole copy; pairs stay together | `VerifyDelete`, `Custody` |
| Enumeration `services/enumeration.py` | rows | `enumerate_library`, `requeue_missing_local_files` | long loop before one commit; dates that come later; rows committed before they are linked | a missing copy is copied again; a listing changes nothing that was decided | `Manifest`; `VerifyDelete` (recheck) |
| Live Photo pairing, naming `services/live_photo.py`, `utils/naming.py` | none | functions of the rows known at the time | namesakes that turn up later, on this phone or another | mutual pairs; each copy has a file of its own | `Manifest` |
| Library scan `services/library_scan.py` | `library_files`, `duplicate_groups`, members | `scan_library`, `_process_file`, `_form_duplicate_groups` | hashing between two looks at a row; groups rebuilt under reused ids | what is shown as exact duplicates is | `LibraryCleanup`, `DuplicateGroups` |
| Library delete `services/library_delete.py` | rows, files, the `-delete` folder | `delete_batch`, `_prune_resolved_groups` | move, commit and prune are separate; name collisions | no picture is lost by a safe delete | `LibraryCleanup` |
| Rust shell `ipc.rs`, `sidecar.rs`, `lib.rs` | pending table, writer and reader tasks, the child | `call`, `route_incoming_line`, spawn, kill | answers out of order; the child dies between any two steps | a call gets its own answer, once, or an error | `IpcBridge` |
| Stdio loop `main.py`, `dispatcher.py`, `protocol.py` | one task per request | read, dispatch, answer, emit | tasks finish in any order; cancelled at the end | one answer per request; answers before events | `IpcBridge` |
| USB power `services/usb_power.py` | power scheme value, remembered value | disable, restore | the loop may not get to its `finally` | the user's value comes back | `IpcBridge` |
| Device watcher, pairing `device/discovery.py`, `pairing.py` | devices last seen | poll, `wait_for_trust` | polls that fail; a missing driver; a replug between two polls | what was seen is reported, and nothing else | `Page` |
| Frontend `main.js` | screen of each mode, phone, counters | event handlers, buttons, the coroutines behind them | counters that never reset; screens left only by an event; answers that come after the phone is gone | every waiting screen is left; done means freed | `Page` (its calls are inputs of the others) |
| Settings, schemas, errors, logging, packaging | key/value table, text | - | - | - | `settings.get` is a step of `Page`; else not modelled |

How they interact. The page calls the backend through the shell. `transfer.start` creates an engine and a task; `device.connect` replaces the client and resumes the engine; a drained run is followed by `verify_session` in the same task; `delete.batch` and `library.enumerate` work on the same rows in threads. Events go back the way answers do. The Library Cleanup tables share nothing with the rest but the database file.

## Modules

| Module | What it is |
|---|---|
| `TransferEngine` | the queue, `read_chunk`, connects and reconnects, crashes |
| `Copying` | what a copy is from outside: due, copied or failed; nothing touches it once it is made |
| `TransferEngine_proofs` | `TypeCorrect`, `RunLockExcludes` |
| `TransferEngine_copies` | `CopiesComplete`, `PartialsArePrefixes`, `NothingOrphaned`, `DrainedSettles`, `QueueKeepsCopying` |
| `VerifyDelete` | verification, deletion and recheck of the same rows; a copy is one step |
| `Custody` | what a photo's owner is promised: four places a photo can be vouched for, and no way back once it left the phone |
| `VerifyDelete_proofs` | `TypeCorrect`, `NothingLost`, `VerdictsHold`, `CustodyKept`, `DeletionsFinal`, `PairsLeaveTogether`, `VerifiedOnPhone` |
| `DuplicateGroups` | how a list of files is grouped, as operators |
| `LibraryCleanup` | scan, delete and prune over disk, rows and groups |
| `LibraryCleanup_proofs` | `PicturesKept`, `ActiveThere` |
| `LibraryCleanup_groups` | `GroupsFormed`, `TypeCorrect`, `GroupsReviewable`, `GroupsActive`, `ExactExact` |
| `IpcBridge` | calls, pipes, both event loops, USB setting |
| `IpcBridge_proofs` | `TypeCorrect`, `TableExact`, `OwnAnswers`, `SettingRestored`, `EventsFollow`, `AnsweredOnce` |
| `Manifest` | listings, dates, Live Photo links, the path of each copy, one or several phones |
| `Manifest_proofs` | `TypeCorrect`, `PairsMutual`, `OwnCopies`, `HalvesTogether` |
| `Page` | the watcher, the handlers' answers and the screens of both modes |
| `Page_proofs` | `TypeCorrect`, `PhoneIsHeard`, `DoneIsFreed` |
| `MC...` | constants for TLC |

### TransferEngine and Copying

A run is a task whose `pc` is where `run()` or `_transfer_item` stands. All Python code runs on one event loop, so between two awaits a task holds it: `busy`. The segment is still split at each commit and each file operation, because `Crash` may strike between any two. `Request` gives up the loop (the `to_thread` of `read_chunk`); `Position`, `Fread`, `FreadEmpty`, `FreadRaises` and `Glitch` are the thread, which moves the client's single handle (`link.path`, `link.pos`). Files are sequences of blocks that remember which remote chunk they are, so that mixing two copies or two offsets is visible. `SeekUnlink` and `SeekRestart` are the `SeekNotSupportedError` path with its recursion, `Lost` and `Fail`/`Discard` the two exception paths. What the disk may refuse is in `MkdirFails` (the destination's `mkdir`, outside the `try` of `run()`), `FileFails` (the `mkdir`, `open`, `unlink` or rename of one item, which fails it) and `UnlinkFails` (the unlink in `_mark_failed`): the first and the last raise out of `run()`, which frees the lock and emits nothing. `Start`, `Pause`, `Cancel`, `ConnectClose`, `NewClient`, `ConnectDone` and `ConnectFirst` are the handlers, cut at their awaits. On Windows a file that another task holds open can be neither replaced nor unlinked: `Shared`, where an exception out of the worker thread closes the file only when its task is resumed (`Opened`). A `.partial` that another engine's run took away cannot be replaced either (`Missing`). After a crash the open `.partial` file holds what was flushed to it, any length up to what was written. `KeepsCopying` is the refinement of `Copying`, which knows of each item only whether it is due, copied or failed and whether its finished file is whole: `Replace` is a `Write`, `Commit` a `Make`, `Fail` a `Fail`, `Start` a `Retry`, everything else a stutter. `VerifyDelete`, `Manifest` and `Page` take a copy for one step; `Copying` is what allows that for one engine: nothing half-written says copied, and what does is left alone by the queue. `CopiedIsComplete` follows from it and is kept for the run with two engines, where it fails.

### VerifyDelete and Custody

`status` is the committed row; `run`, `del` and `recheck` hold what each task or thread loaded and not yet wrote. `VerifyLoad`, `VerifyCheck`, `VerifyCommit` are the three parts of `verify_one`; `DeleteLoad`, `DeleteRemove`, `DeleteCommit` those of `_delete_one`; `Group` and `Eligible` the pair rule. `phone` is external: a file may be edited there after it was listed. `disk` tells a whole copy from one of the right size with missing bytes, so "size matches" and "is the photo" differ. Each `Start` brings an engine of its own, while `Resume` queues behind the lock of the one there is; once two engines copied at the same time (`mixed`), a copy may have the right size and the wrong bytes, as `TransferEngine_two_content` shows, and a flush may unsettle a row that the other engine finished (`Unsettle`). `verify_one` compares sizes and accepts such a copy, so `NoPhotoLost` and `VerifiedIsWhole` promise nothing after that. `KeepsCustody` is the refinement: with `where` computed from the three, every step is a step of `Custody` or a stutter.

### LibraryCleanup and DuplicateGroups

`disk` maps a place (a path; its name in the `-delete` folder; the name with the folder's name added) to the picture there. `RenamedTo` says where `disambiguated_name` leads: `x (A).jpg` is a name of its own, or the one under which a file of the same folder that is called so by nature is staged (`Path` identifies the two). A picture stands for its bytes, size and date together: two pictures never share a size and date. `ScanStat`, `ScanHash` and `ScanWrite` are `_process_file` cut at its two sessions and its thread; the semaphore admits files in the order of the walk, whose positions not yet begun are `scan.todo`. `ScanClear`, `ScanSelect`, `ScanInsert` are `_form_duplicate_groups`; group ids start at 1 after each clear, as SQLite's do. `ScanHashRaises` is a decoder's exception that `_hash_file` does not catch: `gather` passes it on and the scan ends with no groups and no event, which shows as a scan that stands at `files`; that the user may start another one then is left out. A batch goes through `DeleteLoad`, then `DeleteMove`, `DeleteUnlink`, `DeleteRaises` or `DeleteCopies` (a move that copied and could not unlink, after which the picture is there twice and the row still active), `DeleteCommit`, `PruneMember`, `PruneCount`, `PruneDrop`. The second look at the row and the write after it are one step: a deletion's commit between them would need to fall between two statements of one session.

### IpcBridge

`call` is what the page sees, `pending` the shell's table, `queue`, `stdin`, `stdout` the three channels. `Handle` is one task of `_handle_line`: whatever the handler does, one answer is written without an await after `create_task`, which is why events of a job follow the answer. A write to a pipe nobody reads raises and is lost. `Route` ends the reader task at a line that is not UTF-8; the only writer of such lines is `powercfg`, which inherits stdout. `Exit` kills the child; the packaged one-file sidecar runs the loop in a child of the killed process, which may survive with closed pipes, so both outcomes are possible. A handler that never returns is not modelled: the other modules speak of what handlers do. Two instances of the app at once, and a start while an orphaned backend still ends, are left out.

### Manifest

`row` holds what a listing decided about an item: its status, its date, its Live Photo link and the path it was last sent to. `ListWalk`, `ListUpsert`, `ListPair` and `ListRequeue` are `library.enumerate` cut at its commits, and `ListRaises` may end it before any of them; `spent.torn` keeps the phones for which that was between the upsert and the pairing. `Collides` and `LocalPath` are `_local_relative_path`: the name is marked with the DCIM folder when another row of the phone, known at that moment, has the same name and month; months are what tells dates apart. `reads` is whether the installed version reads `st_mtime`: rows made by an older one get their date from a later listing (the upsert's backfill), which moves their path. A copy, a verification and the deletion of a group are one step each. `listed` and `offered` are what the page shows: only a listed phone can start a copy, and only verified photos on the screen are deleted. The walk's order, and with it the order of ids, may be any.

### Page

`pipe` is what the backend wrote and the page has not handled: answers and events share stdout, so they arrive in order (`IpcBridge` looks inside). `Poll` is `poll_once`; the handlers are cut where they answer; `asked` counts calls under way, which is where the page's coroutines wait. Each `Receive` action is one event handler or the part of a coroutine after an `await`. `To` is `setScreen` with its two places to come back to. A copy and a removal are one step; a failed one, a failed poll, a stopped Apple service and a call that raises each cost one of `MaxFaults`. A scan of a `-delete` folder is refused by an `error` event nobody listens to. A run that raises (`RunRaises`) and a scan whose hashing does (`ScanRaises`) end without an event; `spent.died` remembers them. The screens `library-deleting` and `library-done` are left out: `LibraryCleanup` has the batch they wait for, and that it ends. There is one phone, and the backend does not die (`IpcBridge` has that).

## Runs

Bounds limit how often the environment interferes; every bound is a constant whose name starts with `Max`, listed in its module. Deadlock is not checked: with bounds spent and the user idle, each system really stops.

| Run | Checks | Instance |
|---|---|---|
| `TransferEngine_queue` | type, prefixes, one run per engine, no orphan, the `Copying` refinement (whole copies, left alone once made), drained means settled; every run ends, a lasting reconnection drains the queue | 3 items: one sound, one served shorter than listed, one refused; flush every 2, 1 engine, 2 tasks, 3 clients, a fault, a crash; AFC or a seeking adapter; fair |
| `VerifyDelete_safe` | nothing lost, verified is whole | a Live Photo, 2 runs (symmetric) of one engine or two, 1 deletion, 1 recheck, 1 fault, 1 damaged copy; no crash: `NothingLost` and `VerdictsHold` prove the two with crashes, and the next run has one |
| `VerifyDelete_promise` | custody refinement, pairs, verdicts, final deletion, ends | a Live Photo, 1 run, 2 deletions, 1 fault, 1 damage, 1 edit on the phone, 1 crash; fair |
| `LibraryCleanup` | up to two pictures of a path kept, groups real and reviewable, work ends | 3 paths, the third the second name of the first, 4 pictures (two of the first path, one of them near), of which 2 are saved before the first scan, 2 scans, 2 batches, one trouble of any kind; fair |
| `IpcBridge` | own answer, once, before events; table exact; setting restored; death told | 2 calls, 3 starts, a crash, a refusal of powercfg; fair |
| `Manifest_one_phone` | copies have files of their own, links are mutual, halves leave together | a Live Photo and a namesake of the same month in another DCIM folder, of the same size, 3 listings, one trouble; a first version that does or does not read dates |
| `Page` | the phone as the watcher saw it, done means freed, screens are left | 2 photos, 1 unplugging, 1 fault, 3 clicks; fair |

Why these bounds are enough to mean something. A copy of 3 chunks with a flush every 2 has a flush inside and a tail after it, so the confirmed offset and the file size differ; three items let a handle stand on the wrong file and put a failing one between others; a third client is a reconnection during a reconnection. A Live Photo is the smallest group in which one half can fail. Three paths are the smallest library in which a prune must leave a group of two and then drop it, and a second picture at a known path makes rows stale. Two calls are the fewest that can be answered out of order; three starts let a remembered setting go wrong once and show in the next session. A namesake that turns up between two listings is the smallest case in which a path depends on when it is chosen; three listings let a photo be listed without a date, dated, and joined by another. Two photos let a clean-up be half done; three clicks are a start, a clean-up and one more at the wrong moment. The safety part of `Page` was also explored with two unpluggings. Each property has a mutant, a plausible bug in one mapped definition, that TLC finds to violate it in the same instance: the instances reach the cases the properties are about.

Some properties are stated under a condition, always explicit in the formula. `PairsTogether` and `VerifiedIsOnPhone` make exceptions for a failed removal or a crash; `ActiveIsThere`, `GroupsAreActive` and `ExactIsExact` hold while nobody removes files behind the app's back, no move stops half-way, the process does not die, no scan runs beside a deletion (the page's waiting screens see to that), no path saw a third picture and no picture was saved at what is another's second name (`Calm`); `GroupsAreReviewable` until the backend dies; `KeepsTwoOfAName` holds whatever fails or overlaps, for up to two pictures of a path that is no other path's second name (`OwnName`); `RestoresSetting` for backends that were not killed; `NoPhotoLost` for users who leave a copy alone once it was read back (`Careful`), and with `VerifiedIsWhole` until two engines copied at once; `ReconnectDrains` unless a run gave up after reads or file operations failed; `WorkEnds` for scans of which no hash raises; `HalvesLeaveTogether` outside the moment between a listing's two commits and for phones of which no listing raised there, and while no third file of the phone has the stem; `HearsOfPhone` for a phone that was not both taken and put back behind a banner; `DoneMeansFreed` for the first clean-up after the first verification; `ScreensAreLeft` unless the user paused, the start was refused, the lost banner is shown, a photo could not be removed, the folder scanned is a `-delete` folder, or the run or the scan raised.

### Disagreements between the code and what it says

| Run | What TLC shows |
|---|---|
| `TransferEngine_two_content` | a second `transfer.start` requeues the row the first engine is copying and runs a second engine beside it, on the same `.partial` and the same cursor; the row ends `copied` while the finished file is not the remote file |
| `VerifyDelete_stranded` | when one half of a Live Photo could not be removed, it is "retryable" in name only: the group has a deleted member and is refused for ever |
| `LibraryCleanup_overwrites` | the third picture of one path moved to the `-delete` folder overwrites the second |
| `IpcBridge_hang` | calls under way when the backend dies never return |
| `Manifest_two_phones` | all phones copy to one folder, but only rows of the same phone count as a collision: a photo of a second phone replaces the copy of a photo already deleted from the first |

More were seen while modelling; they are exceptions in the formulas or hazards in `PROJECT.json`, and have no run of their own:

- `resume_session_if_paused` resumes any engine of the phone, one the user paused or cancelled too, and `run()` clears both flags after it waited for the lock.
- `child.kill()` at exit keeps the backend from restoring the USB setting, and the next start takes "disabled" for the user's own value.
- `verify_one` promotes a row that a recheck requeued after `verify_session` listed it; the custody promise therefore holds in `VerifyDelete_promise`, which has no rechecks, and not with them.
- `run()` can raise after `transfer.start` was answered: `destination.mkdir` is outside its `try`, and so is the unlink in `_mark_failed`. No event follows, and the transferring screen stays.
- `_hash_file` catches `UnidentifiedImageError` and `OSError` only. Anything else a decoder raises ends the whole scan without `library_scan_complete`, against its docstring, and the scanning screen stays.
- A listing that raises between its two commits leaves halves of a Live Photo unlinked; a reconnection resumes the engine all the same, which copies one of them, and the page then offers it alone.
- A picture called `x (A).jpg` by nature is overwritten in the `-delete` folder by the second picture of `A/x.jpg`.
- `deletedCount` is never reset: a second clean-up shows its done screen early. When one photo cannot be removed the deleting screen is never left, and so is the scanning screen after a `-delete` folder was chosen, as the page has no listener for the `error` event that reports it.
- `handleDeviceDisconnected` looks at the screen shown: in library mode a copy under way does not count, and the phone is forgotten without a banner. An event handled in one mode replaces the visible screen of the other.
- The answer to `settings.get` may come after `device_disconnected` and shows the ready screen without a phone.

## Fairness

asyncio and tokio keep polling tasks that can go on and threads run to their end, so each task or thread that was started is weakly fair: `Run`, `Read` and a connect under way in `TransferEngine`; `Verify` and the steps of a deletion in `VerifyDelete`; `Scan` and `Delete` in `LibraryCleanup`; the two pipe tasks, the loop and each request in `IpcBridge`; the watcher's polls, the handlers, the background jobs and the page's event loop in `Page`. `Manifest` has no liveness property. Weak fairness suffices since nothing but the task itself disables its step. Where a step may succeed or raise, fairness is on the disjunction: no call is assumed to succeed. Polls that fail are not fair, and `Page` bounds them. Nothing the user, the cable, the disk or a crash does is fair. `ReconnectDrains` assumes the connection stays from some point on and says so in its formula.

## Proofs

TLAPS checks these for every value of the constants that satisfies the named assumptions of the module.

- `TransferEngine_proofs!TypeCorrect`: `Spec => []TypeOK`. `TypeOK` is inductive by itself because a task past `lock` has an engine and one past `loop` has an item. The lemmas follow the actions: lock steps, file steps, the thread, the handlers, the environment.
- `TransferEngine_proofs!RunLockExcludes`: `Spec => []OneRunPerEngine`. The property alone is not inductive: it does not say that whoever is inside holds the lock. `LockInv` does (`\A t \in Inside : engine[task[t].eng].lock = t`); two tasks inside one engine would both be its one holder. `Acquire` needs the lock free, `Release` frees only the lock of its own engine, and no handler writes a lock of an engine that has a run, except that `Start` makes a fresh one.
- `TransferEngine_copies`, all under `OneEngine` (`Engines` has one member; `TransferEngine_two_content` is the counterexample with two): `LockInv` then says that whoever moves is the only task inside, and no handler touches a file.
  - `PartialsArePrefixes` and `CopiesComplete` come from `CopyInv`. Both properties are about files, and what makes them inductive is what a task remembers about its file across its awaits (`InStep`): with the file open its offset is the size of the `.partial`; a read that is about to return stands at that offset of that path, or has no handle; the task replaces only what is complete and commits only what it replaced. A crash cuts the `.partial` to a beginning of itself, which the next `open` resumes or overwrites.
  - `NothingOrphaned` and `DrainedSettles` come from `OrphanInv`: while any task is under way the backend has an engine, and only a crash leaves an item in progress, and the first connect after it requeues the item before there is an engine.
  - `QueueKeepsCopying`: `Spec => KeepsCopying`. `DueInv` says that the row of whatever a task works on is neither copied nor failed, until the task itself marks it so: `Select` takes only pending and partial rows, and with one engine nobody else writes the row of an item in hand. So `Replace` writes over the file of a due row only, and by `CopyInv` `Commit` finds the whole file.
- `VerifyDelete_proofs!TypeCorrect`: `Spec => []TypeOK`.
- `VerifyDelete_proofs!NothingLost`: `Spec => []NoPhotoLost` from `Careful` and `MaxEdits = 0`; the property itself speaks of executions in which no two engines have copied at once, a state that, once entered, is never left (`MixedStays`). A photo that is gone was verified when it was loaded, and what was verified was whole; but the load, the removal and the commit are apart, and a stale verdict can be committed in between. `KeptInv` carries wholeness along while `mixed` is false: with the status, with a verification that is about to commit `verified`, and with a deletion that is about to remove. Without either assumption TLC has counterexamples.
- `VerifyDelete_proofs!VerdictsHold`: `Spec => VerifiedIsWhole`, under the same two assumptions and from the same invariant: of all steps only `VerifyCommit` makes a row verified, and `KeptInv` says of the verdict it holds that the copy is still what was read.
- `VerifyDelete_proofs` again, under `OneRun` and `MaxRechecks = 0`. Both are needed: a second run or a recheck lets a row be judged by what it no longer is.
  - `CustodyKept`: `Spec => KeepsCustody`, the refinement of `Custody`. One run means one engine at a time, so `mixed` stays false (`NoOther`). `CustodyInv` says what survives the awaits: what a run has yet to judge, and the row it holds, is copied; what a deletion has yet to remove is verified or deleted already; a photo that is gone has one of these statuses. Each action of `VerifyDelete` then is one step of `Custody` or a stutter. `DeletionsFinal` follows from the same invariant.
  - `PairsLeaveTogether`: without faults and crashes a deletion that has one half of a pair in hand has the other in hand too, unless that one is gone (`HandsInPairs`).
  - `VerifiedOnPhone`: without a crash, a verified row whose photo is gone has a deletion at its commit (`CommitDue`).
- `LibraryCleanup_proofs`, for any finite set of pictures. How files are grouped plays no part: a deletion call may be given any rows, so these hold of any grouping.
  - `PicturesKept`: `Spec => []KeepsTwoOfAName`, whatever fails, dies or overlaps. `Whereabouts` says that what lies at a place is a saved picture of that path, or of the path whose second name the place is; `Apart` that a picture lies at one place, as long as no move was half made; `SecondName` that a path uses its second name only once the first is taken, and, while a half-made move leaves the picture both at its path and under the first name, for nothing but that picture. So a move that overwrites a picture with a name of its own finds three pictures of one path, one more than the property allows; and what a half-made move left twice is not lost when one of the two is overwritten.
  - `ActiveThere`: `Spec => []ActiveIsThere`. Between the file operation and its commit the row is wrong, and the commit may fail because another row has its place. `PlaceInv` rules that out in calm: the paths of rows are unique, which second names respect by `NamesAssumption` as long as `Calm` keeps pictures off each other's (`PathsPart`, `Known`), and the `-delete` folder is never emptied (`RowsInPlace`); while one call stands at its commit the first place of the path is empty, so no second call can be there (`CallsInPlace`); files a scan works on are there, and no scan runs beside a deletion (`WorkListed`, `Orderly`).
- `LibraryCleanup_groups`, for any finite set of pictures and any walk.
  - `GroupsFormed` is about `Groups` alone: whatever list of files it is given, groups have two members at least and no file in common; an exact group is one hash and holds every file with it; a near group is the files that resemble its first; ids are distinct and no more than the files. `Clusters` is a recursive function of the ids: that it is defined (`GrownExists`) and what holds of its values (`GrownClusters`) is proved of the least id for which it could fail (`LeastNumber`), which takes the place of induction. What holds is that clusters are disjoint, consist of candidates, and resemble their first member (`Clustered`), and `PlacedClusters` says that placing one more file keeps it so.
  - `TypeCorrect`, `GroupsReviewable`, `GroupsActive` and `ExactExact` come from one invariant, `CleanupInv`, next to what `LibraryCleanup_proofs` has. `GroupInv` types the scan, the calls and the groups; its part `Reviewed` says that until the backend dies a group of fewer than two has a call that is about to count or drop it. That a group's id, which a call keeps in `gid`, is at most the number of paths needs `PlaceInv`: no two rows have one path, and the active ones are at paths of the walk. `MembersHeld`: in calm, a member of a group is an active row or in the hands of the call that has yet to prune it, and rows selected for grouping stay active until they are inserted. `Truthful`: in calm, a file in work is what it was seen as (`WorkTrue`), the file of a row that may be in a group is gone or the picture the row was made for (`RowsTrue`), a call moves what its row says (`CallsTrue`), and the rows of an exact group were made for pictures of one content (`GroupsTrue`). TLC checked `CleanupInv` on the instance of the run, and on a larger one.
- `IpcBridge_proofs!TypeCorrect`: `Spec => []TypeOK`, one lemma per part of `TypeOK`, since a step disturbs few of them.
- `IpcBridge_proofs!TableExact` and `OwnAnswers`: `PendingIsInFlight` and `GetsItsOwnAnswer` are inductive with the types: every step that ends a call takes its entry out in the same step, and `Route` settles only the entry whose id the line carries.
- `IpcBridge_proofs!SettingRestored`: `Spec => []RestoresSetting`. The property speaks of a backend that is gone; `UsbInv` adds what a running one remembers: as long as there was no crash, kill or refusal of powercfg, the setting is the user's own before the loop and `previous` is the user's own in it. A kill, crash or refusal is counted in the step that breaks this.
- `IpcBridge_proofs!EventsFollow`: `Spec => []EventFollowsAnswer`. `JobAnswered` is what it needs: a job that can still write belongs to a call whose answer is on the pipe. A job started while nobody reads has no answer there, but neither can it write, and the reader comes back only with a new backend.
- `IpcBridge_proofs!AnsweredOnce`: `Spec => []AnswersOnce`. `AnswerInv` adds that a call is in one place at a time (`OnePlace`): in the shell's queue, on stdin, with its handler, or answered, and in the first two once.

- `Manifest_proofs!TypeCorrect`: `Spec => []TypeOK`.
- `Manifest_proofs!PairsMutual`: `Spec => []PairsAreMutual`. Only `ListPair` writes links; it links rows that have none, and `Linked` is symmetric and joins each row to one other at most.
- `Manifest_proofs!OwnCopies`: `OwnNames /\ Spec => []CopiesAreTheirOwn`, where `OwnNames` says that no two phones have a file of the same name (without it `Manifest_two_phones` is the counterexample). Two rows of one phone that share a name and a month might have been given paths at different times, one before the other was known or dated. The inductive invariant `IInv` rules the clash out: a row's date is unknown or its own month (`OwnDates`); all dates a version reads it reads for every file it lists, so namesakes are dated together (`DatesAreRead`, `DatedTogether`, `ListingReads`, `SeesThePhone`, `UnknownRows`); a path that was given bears the item's own name, a month it had, and its own folder or the plain mark (`OwnPaths`); the job under way and the finished rows are where their paths say (`JobPlaced`, `DonePlaced`); and two namesakes never have the same path (`OnePathEach`). TLC checks `IInv` on the one-phone instance too.
- `Manifest_proofs!HalvesTogether`: `Spec => HalvesLeaveTogether`, for any number of phones, also those with files of one name. A listing commits rows before it links them, and may die in between; so halves may be known and not linked. `HalvesLinked` says when: while the listing is about to link them (`Due`), or after the backend died there, as long as no listing of that phone came to its end since the backend was started (`Unlisted`). In the second case there is no engine for the phone, so nothing of it is offered for deletion (`OfferedByEngine`). A listing that ends links the two: neither is linked to a third, because a link joins rows that exist and share a stem (`LinksKnown`, `PairsAreMutual`).

- `Page_proofs`, for any finite set of photos (`PhotosAssumption`: a phone stores finitely many).
  - `TypeCorrect`: `Spec => []TypeOK`, one lemma per part of the state.
  - `PhoneIsHeard`: `Spec => []HearsOfPhone`. The driver's half is inductive. The phone's half is not: a `connected` or `listed` still to come would clear the banner of a page that kept the phone. `History` says what may still come, by how often the cable was pulled. Never, and the watcher knows no phone: the page is as it was at the start (`NeverSeen`). A phone there for the first time: one connection is under way at most, and until the page has seen it, nothing of a connected phone was asked for or begun (`FirstTime`). Pulled once and the watcher saw it: the page forgot the phone; or no connection or listing comes without `device_disconnected` after it (`Severed`); or the page hears that the phone is gone before it hears that it was connected (`Unmet`). The lemmas on `Carries`, `Latest`, `Followed` and `Led` say what writing to the pipe and reading from it do to these.
  - `DoneIsFreed`: `Spec => []DoneMeansFreed`. `CleanInv` counts: the deletions the page counted and those still on the pipe (`Told`) are at most the photos that left the phone, what it offered is at most what it takes for verified, and of one verification and one clean-up nothing is deleted that was not offered. So a page that counted as many as are verified has counted all.

Every safety property a passing run checks is a theorem, some under the assumptions named. Only model-checked is every liveness property: `RunsEnd`, `ReconnectDrains`, `CopiedIsJudged`, `DeletionsEnd`, `WorkEnds`, `LiveCallsReturn`, `DeathIsTold` and `ScreensAreLeft`, since liveness under fairness and `ENABLED` are beyond the prover. No module declares a RECURSIVE operator, so any of them can be proved about; the prover has no induction over data, and where a recursive function is reasoned about (`Clusters`) a least counterexample stands in for it. Where a theorem assumes one engine, one run or no recheck, what happens without the assumption is in the runs only: those that pass with larger constants, and those that expect a violation.

## Plan

Done in this order, the most important first: `TransferEngine`, `VerifyDelete` with `Custody`, their first proofs, `LibraryCleanup` with `DuplicateGroups`, `IpcBridge`, `Manifest` with its proofs, `Page`, then the custody proofs of `VerifyDelete_proofs`, `AnsweredOnce`, `TransferEngine_copies`, `LibraryCleanup_proofs`, `Page_proofs`, `LibraryCleanup_groups`, `VerdictsHold`, `HalvesTogether`, `Copying` and `QueueKeepsCopying`.

What would add most next: `Manifest` shown to implement `Custody` too, which would need `Custody` to release several photos in one step; a refinement from `Manifest`'s links to the constant `Pair` of `VerifyDelete`.

## Not modelled

`settings.set`, `verify.status`, `device.list`, logging, error texts, rendering, the compare window and packaging keep no state that anything above depends on. Byte counts and progress events carry numbers only. Malformed request lines are never written by the shell. The thread and event loop inside the AFC client only make each call wait. Two instances of the app, a phone that reuses a DCIM path for another photo, and a handler that never returns are outside the models.
