-------------------------------- MODULE Page --------------------------------
(***************************************************************************)
(* What the user of E-iClean is shown: the watcher that polls usbmux for   *)
(* the phone, the screens of the page and the coroutines behind them, and  *)
(* as much of the backend as decides what they are told.                   *)
(*                                                                         *)
(* Answers and events share the backend's stdout, so they reach the page   *)
(* in the order they were written (IpcBridge looks inside).  There is one  *)
(* phone, and a copy or a removal is one step (TransferEngine and          *)
(* VerifyDelete look inside those).                                        *)
(***************************************************************************)
EXTENDS Naturals, Sequences, FiniteSets

CONSTANTS
    Photos,     \* what is on the phone
    MaxUnplugs, \* bound: times the cable is pulled
    MaxFaults,  \* bound: failures of any kind
    MaxClicks   \* bound: clicks of the user

ASSUME PhotosAssumption == IsFiniteSet(Photos)
ASSUME BoundsAssumption ==
    MaxUnplugs \in Nat /\ MaxFaults \in Nat /\ MaxClicks \in Nat

VARIABLES
    phone,    \* plugged in; trusting this computer
    usbmux,   \* the usbmux service answers
    watcher,  \* DeviceWatcher: _known holds the phone, _driver_missing
    pipe,     \* what the backend has written and the page not yet handled
    asked,    \* how many calls of each kind wait for an answer
    client,   \* the AFC client of the phone
    row,      \* transfer_items: the status of each photo
    engine,   \* the session has an engine
    runs,     \* coroutines in _run_transfer_then_verify
    pausing,  \* the engine's _paused
    batches,  \* delete.batch calls: what each has left, over which client
    scans,    \* library scans under way, of pictures and of a -delete folder
    page,     \* the page's state object and its banners
    spent     \* how much of the bounds is used, and which jobs died of a fault

backend == <<client, row, engine, runs, pausing, batches, scans>>
vars == <<phone, usbmux, watcher, pipe, asked, backend, page, spent>>

-----------------------------------------------------------------------------
TransferScreens == {"disconnected", "awaiting_trust", "enumerating", "ready",
                    "transferring", "ready_to_clean", "deleting", "done"}
LibraryScreens == {"library-idle", "library-scanning", "library-review"}
Screens == TransferScreens \union LibraryScreens
Roots == {"pictures", "staging"}
Calls == {"connect", "list", "settings", "start", "groups"}

Msg(t) == [tag |-> t, items |-> {}]
Has(s) == {i \in Photos : row[i] = s}

Init ==
    /\ \E t \in BOOLEAN : phone = [plugged |-> FALSE, trusts |-> t]
    /\ usbmux \in BOOLEAN
    /\ watcher = [known |-> FALSE, missing |-> FALSE]
    /\ pipe = <<>>
    /\ asked = [c \in Calls |-> 0]
    /\ client = "none"
    /\ row = [i \in Photos |-> "new"]
    /\ engine = FALSE /\ runs = 0 /\ pausing = FALSE
    /\ batches = <<>> /\ scans = [r \in Roots |-> 0]
    /\ page = [screen |-> "disconnected", mode |-> "transfer",
               transferScreen |-> "disconnected",
               libraryScreen |-> "library-idle", root |-> "pictures",
               udid |-> FALSE, session |-> FALSE, offered |-> {},
               verified |-> 0, deleted |-> 0,
               lost |-> FALSE, driverless |-> FALSE, refused |-> FALSE,
               cleanups |-> 0, verdicts |-> 0]
    /\ spent = [unplugs |-> 0, faults |-> 0, clicks |-> 0, died |-> {}]

Fault ==
    /\ spent.faults < MaxFaults
    /\ spent' = [spent EXCEPT !.faults = @ + 1]
FaultIf(b) == IF b THEN Fault ELSE UNCHANGED spent
Dies(job) ==
    /\ spent.faults < MaxFaults
    /\ spent' = [spent EXCEPT !.faults = @ + 1, !.died = @ \union {job}]

Ask(c) == asked' = [asked EXCEPT ![c] = @ + 1]
Taken(c) == asked[c] > 0 /\ asked' = [asked EXCEPT ![c] = @ - 1]
Write(m) == pipe' = Append(pipe, m)

-----------------------------------------------------------------------------
(* The phone, its cable and the user who holds it.                          *)

Plug ==
    /\ ~phone.plugged
    /\ phone' = [phone EXCEPT !.plugged = TRUE]
    /\ UNCHANGED <<usbmux, watcher, pipe, asked, backend, page, spent>>

\* Whatever reads over the cable breaks.
Broken(b) == [n \in DOMAIN b |-> [b[n] EXCEPT !.live = FALSE]]
Unplug ==
    /\ phone.plugged /\ spent.unplugs < MaxUnplugs
    /\ spent' = [spent EXCEPT !.unplugs = @ + 1]
    /\ phone' = [phone EXCEPT !.plugged = FALSE]
    /\ client' = IF client = "none" THEN "none" ELSE "dead"
    /\ batches' = Broken(batches)
    /\ UNCHANGED <<usbmux, watcher, pipe, asked, row, engine, runs, pausing,
                   scans, page>>

Trust ==
    /\ phone.plugged /\ ~phone.trusts
    /\ phone' = [phone EXCEPT !.trusts = TRUE]
    /\ UNCHANGED <<usbmux, watcher, pipe, asked, backend, page, spent>>

\* The Apple service is installed, started or stopped.
Service ==
    /\ Fault
    /\ usbmux' = ~usbmux
    /\ UNCHANGED <<phone, watcher, pipe, asked, backend, page>>

-----------------------------------------------------------------------------
(* DeviceWatcher.poll_once: the events are written before _known is set, but *)
(* nothing else looks at it.                                                *)

\* Mutant of PollFails: the list that could not be read is taken as empty.
PollFailsEmpty ==
    /\ Fault
    /\ watcher' = [watcher EXCEPT !.known = FALSE]
    /\ UNCHANGED <<phone, usbmux, pipe, asked, backend, page>>

PollFails ==
    /\ Fault
    /\ UNCHANGED <<phone, usbmux, watcher, pipe, asked, backend, page>>

PollMissing ==
    /\ ~usbmux /\ ~watcher.missing
    /\ watcher' = [watcher EXCEPT !.missing = TRUE]
    /\ Write(Msg("driver_missing"))
    /\ UNCHANGED <<phone, usbmux, asked, backend, page, spent>>

News ==
    (IF watcher.missing THEN <<Msg("driver_available")>> ELSE <<>>) \o
    (IF phone.plugged = watcher.known THEN <<>>
     ELSE IF phone.plugged THEN <<Msg("device_connected")>>
                           ELSE <<Msg("device_disconnected")>>)
PollLists ==
    /\ usbmux /\ News # <<>>
    /\ watcher' = [known |-> phone.plugged, missing |-> FALSE]
    /\ pipe' = pipe \o News
    /\ UNCHANGED <<phone, usbmux, asked, backend, page, spent>>

Poll == PollFails \/ PollMissing \/ PollLists

-----------------------------------------------------------------------------
(* The handlers.                                                            *)

\* wait_for_trust gives up after TRUST_PROMPT_TIMEOUT_SECONDS.
ConnectTimesOut ==
    /\ Taken("connect")
    /\ ~(phone.plugged /\ phone.trusts)
    /\ Write(Msg("connect_timeout"))
    /\ UNCHANGED <<phone, usbmux, watcher, backend, page, spent>>

\* The old client is closed first, then the new one cannot be made.
ConnectFails ==
    /\ Taken("connect")
    /\ phone.trusts /\ FaultIf(phone.plugged)
    /\ client' = IF client = "none" THEN "none" ELSE "dead"
    /\ batches' = Broken(batches)
    /\ Write(Msg("error"))
    /\ UNCHANGED <<phone, usbmux, watcher, row, engine, runs, pausing, scans,
                   page>>

\* A session that has an engine is resumed over the new client.
ConnectWorks ==
    /\ Taken("connect")
    /\ phone.plugged /\ phone.trusts
    /\ client' = "live" /\ batches' = Broken(batches)
    /\ runs' = IF engine THEN runs + 1 ELSE runs
    /\ pausing' = (pausing /\ runs > 0)
    /\ Write(Msg("connected"))
    /\ UNCHANGED <<phone, usbmux, watcher, row, engine, scans, page, spent>>

\* Rows whose file is gone from the PC are pending again.
ListWorks(gone) ==
    /\ Taken("list")
    /\ client = "live"
    /\ gone \subseteq Has("copied") \union Has("verified")
    /\ FaultIf(gone # {})
    /\ row' = [i \in Photos |->
        IF i \in gone \union Has("new") THEN "todo" ELSE row[i]]
    /\ Write(Msg("listed"))
    /\ UNCHANGED <<phone, usbmux, watcher, client, engine, runs, pausing,
                   batches, scans, page>>

ListFails ==
    /\ Taken("list")
    /\ FaultIf(client = "live")
    /\ Write(Msg("error"))
    /\ UNCHANGED <<phone, usbmux, watcher, backend, page>>

Settings ==
    /\ Taken("settings")
    /\ Write(Msg("settings"))
    /\ UNCHANGED <<phone, usbmux, watcher, backend, page, spent>>

Groups ==
    /\ Taken("groups")
    /\ Write(Msg("groups"))
    /\ UNCHANGED <<phone, usbmux, watcher, backend, page, spent>>

\* transfer.start: what failed is retried by an engine of its own.
StartWorks ==
    /\ Taken("start")
    /\ client # "none"
    /\ row' = [i \in Photos |-> IF row[i] = "failed" THEN "todo" ELSE row[i]]
    /\ engine' = TRUE /\ runs' = runs + 1 /\ pausing' = FALSE
    /\ Write(Msg("started"))
    /\ UNCHANGED <<phone, usbmux, watcher, client, batches, scans, page, spent>>

\* It raises, and nobody catches what it answers.
StartFails ==
    /\ Taken("start")
    /\ FaultIf(client # "none")
    /\ Write(Msg("rejected"))
    /\ UNCHANGED <<phone, usbmux, watcher, backend, page>>

Handlers ==
    \/ ConnectTimesOut \/ ConnectFails \/ ConnectWorks
    \/ \E gone \in SUBSET Photos : ListWorks(gone)
    \/ ListFails \/ Settings \/ Groups \/ StartWorks \/ StartFails

-----------------------------------------------------------------------------
(* Runs, deletions and scans.                                               *)

\* A run that waits for the lock starts with a clear flag.
RunEnds ==
    /\ runs > 0
    /\ runs' = runs - 1
    /\ pausing' = (pausing /\ runs = 1)

RunCopies(i) ==
    /\ runs > 0 /\ client = "live" /\ row[i] = "todo"
    /\ \E s \in {"copied", "failed"} :
        row' = [row EXCEPT ![i] = s] /\ FaultIf(s = "failed")
    /\ UNCHANGED <<phone, usbmux, watcher, pipe, asked, client, engine, runs,
                   pausing, batches, scans, page>>

\* The cable is pulled, another run's client was closed under it, or three
\* reads in a row failed.
RunLost ==
    /\ RunEnds
    /\ Has("todo") # {} /\ FaultIf(client = "live" /\ runs = 1)
    /\ Write(Msg("connection_lost"))
    /\ UNCHANGED <<phone, usbmux, watcher, asked, client, row, engine,
                   batches, scans, page>>

RunPaused ==
    /\ RunEnds /\ pausing
    /\ UNCHANGED <<phone, usbmux, watcher, pipe, asked, client, row, engine,
                   batches, scans, page, spent>>

\* verify_session and verification_complete, at a stretch.
RunDrains(bad) ==
    /\ RunEnds /\ ~pausing
    /\ Has("todo") = {}
    /\ bad \subseteq Has("copied") /\ FaultIf(bad # {})
    /\ row' = [i \in Photos |-> IF row[i] # "copied" THEN row[i]
                                ELSE IF i \in bad THEN "failed" ELSE "verified"]
    /\ pipe' = pipe
        \o [n \in 1..Cardinality(Has("copied") \ bad) |-> Msg("verified")]
        \o <<[tag |-> "verification_complete",
              items |-> {i \in Photos : row'[i] = "verified"}]>>
    /\ UNCHANGED <<phone, usbmux, watcher, asked, client, engine, batches,
                   scans, page>>

\* run raises where nobody catches: the folder cannot be made, or what is left
\* of an item that failed cannot be removed.
RunRaises ==
    /\ RunEnds /\ Dies("run")
    /\ \/ UNCHANGED row
       \/ \E i \in Has("todo") : /\ client = "live"
                                 /\ row' = [row EXCEPT ![i] = "failed"]
    /\ UNCHANGED <<phone, usbmux, watcher, pipe, asked, client, engine, batches,
                   scans, page>>

Removed(n, i) ==
    /\ i \in batches[n].left
    /\ batches' = [batches EXCEPT ![n].left = @ \ {i}]
    /\ UNCHANGED <<phone, usbmux, watcher, asked, client, engine, runs, pausing,
                   scans, page>>
DeleteWorks(n, i) ==
    /\ Removed(n, i)
    /\ row[i] = "verified" /\ batches[n].live
    /\ row' = [row EXCEPT ![i] = "deleted"]
    /\ Write(Msg("deleted"))
    /\ UNCHANGED spent
DeleteFails(n, i) ==
    /\ Removed(n, i)
    /\ FaultIf(row[i] = "verified" /\ batches[n].live)
    /\ Write(Msg("kept"))
    /\ UNCHANGED row
DeleteOne == \E n \in DOMAIN batches, i \in Photos :
    DeleteWorks(n, i) \/ DeleteFails(n, i)

\* scan_library refuses a -delete folder; the page does not listen to the
\* error event that says so.
ScanEnds ==
    /\ \E r \in Roots :
        /\ scans[r] > 0
        /\ scans' = [scans EXCEPT ![r] = @ - 1]
        /\ IF r = "staging" THEN UNCHANGED pipe
                            ELSE Write(Msg("library_scan_complete"))
    /\ UNCHANGED <<phone, usbmux, watcher, asked, client, row, engine, runs,
                   pausing, batches, page, spent>>

\* What the image library raises is no OSError: it ends the scan's task.
ScanRaises ==
    /\ scans["pictures"] > 0 /\ Dies("scan")
    /\ scans' = [scans EXCEPT !["pictures"] = @ - 1]
    /\ UNCHANGED <<phone, usbmux, watcher, pipe, asked, client, row, engine,
                   runs, pausing, batches, page>>

Jobs ==
    \/ \E i \in Photos : RunCopies(i)
    \/ RunLost \/ RunPaused \/ RunRaises
    \/ \E bad \in SUBSET Photos : RunDrains(bad)
    \/ DeleteOne \/ ScanEnds \/ ScanRaises

-----------------------------------------------------------------------------
(* The page: what it does with an event or an answer.                       *)

\* Mutant of To: one place to come back to for both modes.
ToUnsplit(p, s) == [p EXCEPT !.screen = s, !.transferScreen = s]

\* setScreen: the screen shown, and the place to come back to in its mode.
To(p, s) == [p EXCEPT
    !.screen = s,
    !.transferScreen = IF s \in TransferScreens THEN s ELSE @,
    !.libraryScreen = IF s \in LibraryScreens THEN s ELSE @]

Got(t) == pipe # <<>> /\ Head(pipe).tag = t /\ pipe' = Tail(pipe)
Elsewhere == UNCHANGED <<phone, usbmux, watcher, backend, spent>>

DeviceConnected ==
    /\ Got("device_connected") /\ Elsewhere
    /\ page' = To([page EXCEPT !.udid = TRUE, !.lost = FALSE], "awaiting_trust")
    /\ Ask("connect")

\* refreshLibrary, in three parts.
Connected ==
    /\ Got("connected") /\ Elsewhere
    /\ page' = To(page, "enumerating")
    /\ Ask("list")
Listed ==
    /\ Got("listed") /\ Elsewhere
    /\ page' = [page EXCEPT !.lost = FALSE]
    /\ Ask("settings")
Ready ==
    /\ Got("settings") /\ Elsewhere
    /\ page' = To(page, "ready")
    /\ UNCHANGED asked

\* Mutant of Refused: an error leaves the screen as it is.
RefusedUnseen ==
    /\ Got("connect_timeout") \/ Got("error")
    /\ Elsewhere /\ UNCHANGED <<page, asked>>

Refused ==
    /\ Got("connect_timeout") \/ Got("error")
    /\ Elsewhere /\ UNCHANGED asked
    /\ page' = To(page, "disconnected")

DeviceDisconnected ==
    /\ Got("device_disconnected") /\ Elsewhere /\ UNCHANGED asked
    /\ page' = IF page.screen = "transferring"
               THEN [page EXCEPT !.lost = TRUE]
               ELSE To([page EXCEPT !.udid = FALSE], "disconnected")

ConnectionLost ==
    /\ Got("connection_lost") /\ Elsewhere /\ UNCHANGED asked
    /\ page' = [page EXCEPT !.lost = TRUE]

Driver ==
    /\ \/ Got("driver_missing") /\ page' = [page EXCEPT !.driverless = TRUE]
       \/ Got("driver_available") /\ page' = [page EXCEPT !.driverless = FALSE]
    /\ Elsewhere /\ UNCHANGED asked

\* The promise of transfer.start settles, or is rejected unhandled.
Started ==
    /\ \/ Got("started") /\ page' = [page EXCEPT !.session = TRUE]
       \/ Got("rejected") /\ page' = [page EXCEPT !.refused = TRUE]
    /\ Elsewhere /\ UNCHANGED asked

VerificationProgress ==
    /\ Got("verified") /\ Elsewhere /\ UNCHANGED asked
    /\ page' = [page EXCEPT !.verified = @ + 1]

VerificationComplete ==
    /\ Got("verification_complete") /\ Elsewhere /\ UNCHANGED asked
    /\ page' = To([page EXCEPT !.offered = Head(pipe).items,
                               !.verified = Cardinality(Head(pipe).items),
                               !.verdicts = @ + 1], "ready_to_clean")

\* Mutant of DeleteProgress: every event counts.
DeleteProgressAny ==
    /\ Got("deleted") \/ Got("kept")
    /\ Elsewhere /\ UNCHANGED asked
    /\ LET p == [page EXCEPT !.deleted = @ + 1]
       IN page' = IF p.deleted >= p.verified /\ p.verified > 0
                  THEN To(p, "done") ELSE p

DeleteProgress ==
    /\ Got("deleted") \/ Got("kept")
    /\ Elsewhere /\ UNCHANGED asked
    /\ LET p == IF Head(pipe).tag = "deleted"
                THEN [page EXCEPT !.deleted = @ + 1] ELSE page
       IN page' = IF p.deleted >= p.verified /\ p.verified > 0
                  THEN To(p, "done") ELSE p

ScanComplete ==
    /\ Got("library_scan_complete") /\ Elsewhere /\ Ask("groups")
    /\ UNCHANGED page
Reviewed ==
    /\ Got("groups") /\ Elsewhere /\ UNCHANGED asked
    /\ page' = To(page, "library-review")

Receive ==
    \/ DeviceConnected \/ Connected \/ Listed \/ Ready \/ Refused
    \/ DeviceDisconnected \/ ConnectionLost \/ Driver \/ Started
    \/ VerificationProgress \/ VerificationComplete \/ DeleteProgress
    \/ ScanComplete \/ Reviewed

-----------------------------------------------------------------------------
(* The user at the page, who sees the panes of one mode.                    *)

Click(s) ==
    /\ page.screen = s
    /\ page.mode = IF s \in LibraryScreens THEN "library" ELSE "transfer"
    /\ spent.clicks < MaxClicks
    /\ spent' = [spent EXCEPT !.clicks = @ + 1]
    /\ UNCHANGED <<phone, usbmux, watcher, pipe, client, row, engine, runs>>

StartTransfer ==
    /\ Click("ready")
    /\ page.udid
    /\ page' = To(page, "transferring")
    /\ Ask("start")
    /\ UNCHANGED <<pausing, batches, scans>>

PauseTransfer ==
    /\ Click("transferring")
    /\ page.session
    /\ pausing' = TRUE
    /\ UNCHANGED <<asked, batches, scans, page>>

\* delete.batch takes what is still verified.
FreeUpSpace ==
    /\ Click("ready_to_clean")
    /\ page' = To([page EXCEPT !.cleanups = @ + 1], "deleting")
    /\ batches' = Append(batches, [left |-> page.offered \intersect Has("verified"),
                                   live |-> client = "live"])
    /\ UNCHANGED <<asked, pausing, scans>>

RecheckLibrary ==
    /\ Click("ready_to_clean") \/ Click("done")
    /\ IF page.udid
       THEN page' = To(page, "enumerating") /\ Ask("list")
       ELSE page' = To(page, "disconnected") /\ UNCHANGED asked
    /\ UNCHANGED <<pausing, batches, scans>>

ChooseFolder ==
    /\ Click("library-idle") \/ Click("library-review")
    /\ \E r \in Roots :
        /\ page' = To([page EXCEPT !.root = r], "library-scanning")
        /\ scans' = [scans EXCEPT ![r] = @ + 1]
    /\ UNCHANGED <<asked, pausing, batches>>

SwitchMode ==
    /\ spent.clicks < MaxClicks
    /\ spent' = [spent EXCEPT !.clicks = @ + 1]
    /\ \E m \in {"transfer", "library"} \ {page.mode} :
        page' = To([page EXCEPT !.mode = m],
                   IF m = "library" THEN page.libraryScreen
                                    ELSE page.transferScreen)
    /\ UNCHANGED <<phone, usbmux, watcher, pipe, asked, backend>>

User ==
    \/ StartTransfer \/ PauseTransfer \/ FreeUpSpace \/ RecheckLibrary
    \/ ChooseFolder \/ SwitchMode

Next ==
    \/ Plug \/ Unplug \/ Trust \/ Service
    \/ Poll \/ Handlers \/ Jobs \/ Receive \/ User

Spec == Init /\ [][Next]_vars

\* The watcher polls for ever, awaited work gets done, and the browser runs
\* its handlers.  Users, cables and phones owe nothing.
FairSpec ==
    /\ Spec
    /\ WF_vars(PollMissing \/ PollLists) /\ WF_vars(Receive)
    /\ WF_vars(Handlers) /\ WF_vars(Jobs)

-----------------------------------------------------------------------------
(* Properties.                                                              *)

TypeOK ==
    /\ phone \in [plugged : BOOLEAN, trusts : BOOLEAN] /\ usbmux \in BOOLEAN
    /\ watcher \in [known : BOOLEAN, missing : BOOLEAN]
    /\ \A n \in DOMAIN pipe : pipe[n].items \subseteq Photos
    /\ asked \in [Calls -> Nat]
    /\ client \in {"none", "live", "dead"}
    /\ row \in [Photos -> {"new", "todo", "copied", "verified", "failed",
                           "deleted"}]
    /\ engine \in BOOLEAN /\ runs \in Nat /\ pausing \in BOOLEAN
    /\ \A n \in DOMAIN batches : /\ batches[n].left \subseteq Photos
                                 /\ batches[n].live \in BOOLEAN
    /\ scans \in [Roots -> Nat] /\ page.root \in Roots
    /\ page.screen \in Screens /\ page.mode \in {"transfer", "library"}
    /\ page.transferScreen \in TransferScreens
    /\ page.libraryScreen \in LibraryScreens
    /\ page.offered \subseteq Photos
    /\ page.screen \in {page.transferScreen, page.libraryScreen}

\* What the page heard last, or is about to hear, of the phone and of the
\* driver is what the watcher saw last, whatever came between; only a page
\* that was copying keeps a phone that is gone, and says so, unless a listing
\* of an earlier connection clears that banner (FR-1,
\* handleDeviceDisconnected).
Coming(T) == {n \in DOMAIN pipe : pipe[n].tag \in T}
Final(T, t) == \E n \in Coming(T) : /\ pipe[n].tag = t
                                    /\ \A k \in Coming(T) : k <= n
PhoneNews == {"device_connected", "device_disconnected"}
DriverNews == {"driver_missing", "driver_available"}
HearsOfPhone ==
    /\ IF Coming(PhoneNews) = {}
       THEN IF watcher.known THEN page.udid
            ELSE page.udid => page.lost \/ spent.unplugs > 1
       ELSE Final(PhoneNews, "device_connected") <=> watcher.known
    /\ IF Coming(DriverNews) = {}
       THEN page.driverless <=> watcher.missing
       ELSE Final(DriverNews, "driver_missing") <=> watcher.missing

\* No screen is for ever: one that waits for the backend is left whatever the
\* phone does meanwhile; the copying one, unless the user paused, the start
\* was refused, the page says that the connection is lost or a run raised; the
\* deleting one, unless a photo it was to delete was not; the scanning one,
\* unless the folder was a -delete folder or a scan raised (spec 5.5, 11).
Waiting == page.transferScreen \in {"awaiting_trust", "enumerating"}
Copying == page.transferScreen = "transferring"
Deleting == page.transferScreen = "deleting"
Scanning == page.libraryScreen = "library-scanning"
NotAllGone == \/ page.offered = {}
              \/ \E i \in page.offered : /\ row[i] # "deleted"
                                         /\ \A n \in DOMAIN batches :
                                                i \notin batches[n].left
ScreensAreLeft ==
    /\ Waiting ~> ~Waiting
    /\ Copying ~> (~Copying \/ pausing \/ page.refused \/ page.lost
                             \/ "run" \in spent.died)
    /\ Deleting ~> (~Deleting \/ NotAllGone)
    /\ Scanning ~> (~Scanning \/ page.root = "staging" \/ "scan" \in spent.died)

\* The done screen of the first clean-up after one verification is true:
\* everything that was offered has left the phone.
DoneMeansFreed ==
    (/\ page.transferScreen = "done"
     /\ page.cleanups = 1 /\ page.verdicts = 1)
    => \A i \in page.offered : row[i] = "deleted"

=============================================================================
