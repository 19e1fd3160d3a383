---------------------------- MODULE Page_proofs -----------------------------
(***************************************************************************)
(* What holds of Page for any number of photos and any bounds.             *)
(***************************************************************************)
EXTENDS Page, FiniteSetTheorems, SequenceTheorems, TLAPS

-----------------------------------------------------------------------------
(* The types: TypeOK, and what it leaves open.                              *)

Tags == {"driver_missing", "driver_available", "device_connected",
         "device_disconnected", "connect_timeout", "error", "connected",
         "listed", "settings", "groups", "started", "rejected",
         "connection_lost", "verified", "verification_complete", "deleted",
         "kept", "library_scan_complete"}
Messages == [tag : Tags, items : SUBSET Photos]
Statuses == {"new", "todo", "copied", "verified", "failed", "deleted"}
Modes == {"transfer", "library"}
Pages == [screen : Screens, mode : Modes, transferScreen : TransferScreens,
          libraryScreen : LibraryScreens, root : Roots, udid : BOOLEAN,
          session : BOOLEAN, offered : SUBSET Photos, verified : Nat,
          deleted : Nat, lost : BOOLEAN, driverless : BOOLEAN,
          refused : BOOLEAN, cleanups : Nat, verdicts : Nat]

Expenses == [unplugs : Nat, faults : Nat, clicks : Nat,
             died : SUBSET {"run", "scan"}]

WorldType ==
    /\ phone \in [plugged : BOOLEAN, trusts : BOOLEAN]
    /\ usbmux \in BOOLEAN
    /\ watcher \in [known : BOOLEAN, missing : BOOLEAN]
    /\ spent \in Expenses
PipeType == pipe \in Seq(Messages)
AskedType == asked \in [Calls -> Nat]
BackendType ==
    /\ client \in {"none", "live", "dead"}
    /\ row \in [Photos -> Statuses]
    /\ engine \in BOOLEAN /\ runs \in Nat /\ pausing \in BOOLEAN
    /\ scans \in [Roots -> Nat]
Batches == [left : SUBSET Photos, live : BOOLEAN]
BatchType == batches \in Seq(Batches)
PageType ==
    /\ page \in Pages
    /\ page.screen \in {page.transferScreen, page.libraryScreen}
TypeInv == WorldType /\ PipeType /\ AskedType /\ BackendType /\ BatchType
             /\ PageType

LEMMA TypeInvIsTypeOK == TypeInv => TypeOK
<1> SUFFICES ASSUME TypeInv PROVE TypeOK
  OBVIOUS
<1> USE DEF TypeInv
<1>1. \A n \in DOMAIN pipe : pipe[n].items \subseteq Photos
  <2>1. \A n \in DOMAIN pipe : pipe[n] \in Messages
    BY DEF PipeType
  <2> QED
    BY <2>1 DEF Messages
<1>2. \A n \in DOMAIN batches : /\ batches[n].left \subseteq Photos
                                /\ batches[n].live \in BOOLEAN
  <2>1. \A n \in DOMAIN batches : batches[n] \in Batches
    BY DEF BatchType
  <2> QED
    BY <2>1 DEF Batches
<1> QED
  BY <1>1, <1>2 DEF TypeOK, WorldType, AskedType, BackendType, PageType,
     Pages, Modes, Statuses

LEMMA TypeInit == Init => TypeInv
<1> SUFFICES ASSUME Init PROVE TypeInv
  OBVIOUS
<1> USE DEF Init
<1>1. WorldType
  BY DEF WorldType, Expenses
<1>2. PipeType /\ AskedType /\ BatchType
  BY DEF PipeType, AskedType, BatchType
<1>3. BackendType
  BY DEF BackendType, Statuses
<1>4. PageType
  BY DEF PageType, Pages, Modes, Screens, TransferScreens, LibraryScreens, Roots
<1> QED
  BY <1>1, <1>2, <1>3, <1>4 DEF TypeInv

\* A fault is counted, and nothing else of what is spent changes.
LEMMA FaultType ==
    ASSUME WorldType, NEW b, FaultIf(b) \/ Fault
    PROVE  /\ spent' \in Expenses
           /\ spent'.unplugs = spent.unplugs
BY DEF WorldType, FaultIf, Fault, Expenses

LEMMA ClickType ==
    ASSUME WorldType, NEW s, Click(s)
    PROVE  /\ spent' \in Expenses
           /\ spent'.unplugs = spent.unplugs
BY DEF WorldType, Click, Expenses

\* A job that dies is a fault too.
LEMMA DiesType ==
    ASSUME WorldType, NEW j \in {"run", "scan"}, Dies(j)
    PROVE  spent' \in Expenses /\ spent'.unplugs = spent.unplugs
<1> DEFINE e == [spent EXCEPT !.faults = @ + 1, !.died = @ \union {j}]
<1>1. spent \in Expenses /\ spent' = e
  BY DEF WorldType, Dies
<1>2. /\ spent.faults + 1 \in Nat
      /\ spent.died \union {j} \in SUBSET {"run", "scan"}
  BY <1>1 DEF Expenses
<1>3. e \in Expenses /\ e.unplugs = spent.unplugs
  BY <1>1, <1>2, Zenon DEF Expenses
<1> QED
  BY <1>1, <1>3

LEMMA WorldNext == ASSUME TypeInv, Next PROVE WorldType'
<1> USE DEF TypeInv
<1>1. CASE Plug \/ Unplug \/ Trust
  <2>1. CASE Plug
    BY <2>1 DEF Plug, WorldType
  <2>2. CASE Unplug
    <3>1. phone' \in [plugged : BOOLEAN, trusts : BOOLEAN]
      BY <2>2 DEF Unplug, WorldType, Expenses
    <3>2. spent' \in Expenses
      BY <2>2 DEF Unplug, WorldType, Expenses
    <3> QED
      BY <2>2, <3>1, <3>2 DEF Unplug, WorldType
  <2>3. CASE Trust
    BY <2>3 DEF Trust, WorldType
  <2> QED
    BY <1>1, <2>1, <2>2, <2>3
<1>2. CASE Service
  BY <1>2, FaultType DEF Service, WorldType
<1>3. CASE Poll
  <2>1. CASE PollFails
    BY <2>1, FaultType DEF PollFails, WorldType
  <2>2. CASE PollMissing
    BY <2>2 DEF PollMissing, WorldType
  <2>3. CASE PollLists
    BY <2>3 DEF PollLists, WorldType
  <2> QED
    BY <1>3, <2>1, <2>2, <2>3 DEF Poll
<1>4. CASE Handlers
  <2>1. UNCHANGED <<phone, usbmux, watcher>>
    BY <1>4 DEF Handlers, ConnectTimesOut, ConnectFails, ConnectWorks,
       ListWorks, ListFails, Settings, Groups, StartWorks, StartFails
  <2>2. UNCHANGED spent \/ \E b \in BOOLEAN : FaultIf(b)
    BY <1>4 DEF Handlers, ConnectTimesOut, ConnectFails, ConnectWorks,
       ListWorks, ListFails, Settings, Groups, StartWorks, StartFails, FaultIf
  <2> QED
    BY <2>1, <2>2, FaultType DEF WorldType
<1>5. CASE Jobs
  <2>1. UNCHANGED <<phone, usbmux, watcher>>
    BY <1>5 DEF Jobs, RunCopies, RunLost, RunPaused, RunDrains, DeleteOne,
       DeleteWorks, DeleteFails, Removed, RunRaises, ScanEnds, ScanRaises
  <2>2. \/ UNCHANGED spent \/ \E b \in BOOLEAN : FaultIf(b)
        \/ \E j \in {"run", "scan"} : Dies(j)
    BY <1>5 DEF Jobs, RunCopies, RunLost, RunPaused, RunDrains, DeleteOne,
       DeleteWorks, DeleteFails, Removed, RunRaises, ScanEnds, ScanRaises,
       FaultIf
  <2> QED
    BY <2>1, <2>2, FaultType, DiesType DEF WorldType
<1>6. CASE Receive
  BY <1>6 DEF Receive, DeviceConnected, Connected, Listed, Ready, Refused,
     DeviceDisconnected, ConnectionLost, Driver, Started,
     VerificationProgress, VerificationComplete, DeleteProgress,
     ScanComplete, Reviewed, Elsewhere, WorldType
<1>7. CASE User
  <2>1. UNCHANGED <<phone, usbmux, watcher>>
    BY <1>7 DEF User, StartTransfer, PauseTransfer, FreeUpSpace,
       RecheckLibrary, ChooseFolder, SwitchMode, Click
  <2>2. CASE SwitchMode
    BY <2>1, <2>2 DEF SwitchMode, WorldType, Expenses
  <2>3. CASE ~SwitchMode
    <3>1. \E s \in Screens : Click(s)
      BY <1>7, <2>3 DEF User, StartTransfer, PauseTransfer, FreeUpSpace,
         RecheckLibrary, ChooseFolder, Screens, TransferScreens,
         LibraryScreens
    <3> QED
      BY <2>1, <3>1, ClickType DEF WorldType
  <2> QED
    BY <2>2, <2>3
<1> QED
  BY <1>1, <1>2, <1>3, <1>4, <1>5, <1>6, <1>7 DEF Next

LEMMA MsgType == \A t \in Tags : Msg(t) \in Messages /\ Msg(t).tag = t
BY DEF Msg, Messages

LEMMA WriteType ==
    ASSUME PipeType, NEW t \in Tags, Write(Msg(t))
    PROVE  PipeType'
BY MsgType DEF PipeType, Write

LEMMA GotType ==
    ASSUME PipeType, NEW t, Got(t)
    PROVE  PipeType' /\ Head(pipe) \in Messages
BY DEF PipeType, Got

LEMMA SeqJoin ==
    ASSUME NEW S, NEW s \in Seq(S), NEW t \in Seq(S)
    PROVE  s \o t \in Seq(S)
OBVIOUS

LEMMA SameSeq ==
    ASSUME NEW S, NEW x \in S, NEW k \in Nat
    PROVE  [n \in 1..k |-> x] \in Seq(S)
BY SeqDef

LEMMA NewsType == News \in Seq(Messages)
<1>1. /\ Msg("driver_available") \in Messages
      /\ Msg("device_connected") \in Messages
      /\ Msg("device_disconnected") \in Messages
  BY MsgType DEF Tags
<1> QED
  BY <1>1 DEF News

LEMMA PipeNext == ASSUME TypeInv, Next PROVE PipeType'
<1> USE DEF TypeInv
<1>1. CASE Plug \/ Unplug \/ Trust \/ Service \/ User
  BY <1>1 DEF Plug, Unplug, Trust, Service, User, StartTransfer,
     PauseTransfer, FreeUpSpace, RecheckLibrary, ChooseFolder, SwitchMode,
     Click, PipeType
<1>2. CASE Poll
  <2>1. CASE PollFails
    BY <2>1 DEF PollFails, PipeType
  <2>2. CASE PollMissing
    BY <2>2, WriteType DEF PollMissing, Tags
  <2>3. CASE PollLists
    BY <2>3, NewsType, SeqJoin DEF PollLists, PipeType
  <2> QED
    BY <1>2, <2>1, <2>2, <2>3 DEF Poll
<1>3. CASE Handlers
  <2>1. \E t \in Tags : Write(Msg(t))
    BY <1>3 DEF Handlers, ConnectTimesOut, ConnectFails, ConnectWorks,
       ListWorks, ListFails, Settings, Groups, StartWorks, StartFails, Tags
  <2> QED
    BY <2>1, WriteType
<1>4. CASE Jobs
  <2>1. ASSUME NEW bad \in SUBSET Photos, RunDrains(bad)
        PROVE  PipeType'
    <3> DEFINE some == [n \in 1..Cardinality(Has("copied") \ bad) |-> Msg("verified")]
               last == [tag |-> "verification_complete",
                        items |-> {i \in Photos : row'[i] = "verified"}]
    <3>1. pipe' = pipe \o some \o <<last>>
      BY <2>1 DEF RunDrains
    <3>2. last \in Messages
      BY DEF Messages, Tags
    <3>3. Cardinality(Has("copied") \ bad) \in Nat
      BY PhotosAssumption, FS_Subset, FS_CardinalityType DEF Has
    <3>4. Msg("verified") \in Messages
      BY MsgType DEF Tags
    <3>5. some \in Seq(Messages)
      BY <3>3, <3>4, SameSeq
    <3> QED
      BY <3>1, <3>2, <3>5, SeqJoin DEF PipeType
  <2>2. CASE \E i \in Photos : RunCopies(i)
    BY <2>2 DEF RunCopies, PipeType
  <2>3. CASE ~(\E i \in Photos : RunCopies(i)) /\ ~(\E bad \in SUBSET Photos : RunDrains(bad))
    <3>1. UNCHANGED pipe \/ \E t \in Tags : Write(Msg(t))
      BY <1>4, <2>3 DEF Jobs, RunLost, RunPaused, DeleteOne, DeleteWorks,
         DeleteFails, RunRaises, ScanEnds, ScanRaises, Tags
    <3> QED
      BY <3>1, WriteType DEF PipeType
  <2> QED
    BY <2>1, <2>2, <2>3
<1>5. CASE Receive
  <2>1. \E t \in Tags : Got(t)
    BY <1>5 DEF Receive, DeviceConnected, Connected, Listed, Ready, Refused,
       DeviceDisconnected, ConnectionLost, Driver, Started,
       VerificationProgress, VerificationComplete, DeleteProgress,
       ScanComplete, Reviewed, Tags
  <2> QED
    BY <2>1, GotType
<1> QED
  BY <1>1, <1>2, <1>3, <1>4, <1>5 DEF Next

LEMMA AskType ==
    ASSUME AskedType, NEW c \in Calls, Ask(c) \/ Taken(c)
    PROVE  AskedType'
BY DEF AskedType, Ask, Taken

LEMMA AskedNext == ASSUME TypeInv, Next PROVE AskedType'
<1> USE DEF TypeInv
<1>1. CASE Plug \/ Unplug \/ Trust \/ Service \/ Poll
  BY <1>1 DEF Plug, Unplug, Trust, Service, Poll, PollFails, PollMissing,
     PollLists, AskedType
<1>2. CASE Handlers
  <2>1. \E c \in Calls : Taken(c)
    BY <1>2 DEF Handlers, ConnectTimesOut, ConnectFails, ConnectWorks,
       ListWorks, ListFails, Settings, Groups, StartWorks, StartFails, Calls
  <2> QED
    BY <2>1, AskType
<1>3. CASE Jobs
  BY <1>3 DEF Jobs, RunCopies, RunLost, RunPaused, RunDrains, DeleteOne,
     DeleteWorks, DeleteFails, Removed, RunRaises, ScanEnds, ScanRaises,
     AskedType
<1>4. CASE Receive \/ User
  <2>1. UNCHANGED asked \/ \E c \in Calls : Ask(c)
    BY <1>4 DEF Receive, DeviceConnected, Connected, Listed, Ready, Refused,
       DeviceDisconnected, ConnectionLost, Driver, Started,
       VerificationProgress, VerificationComplete, DeleteProgress,
       ScanComplete, Reviewed, User, StartTransfer, PauseTransfer,
       FreeUpSpace, RecheckLibrary, ChooseFolder, SwitchMode, Calls
  <2> QED
    BY <2>1, AskType DEF AskedType
<1> QED
  BY <1>1, <1>2, <1>3, <1>4 DEF Next

LEMMA BackendNext == ASSUME TypeInv, Next PROVE BackendType'
<1> USE DEF TypeInv, BackendType
<1>1. CASE Plug \/ Unplug \/ Trust \/ Service \/ Poll
  BY <1>1 DEF Plug, Unplug, Trust, Service, Poll, PollFails, PollMissing,
     PollLists, backend
<1>2. CASE Handlers
  <2>1. CASE \E gone \in SUBSET Photos : ListWorks(gone)
    BY <2>1 DEF ListWorks, Statuses
  <2>2. CASE StartWorks
    <3>1. row' \in [Photos -> Statuses]
      BY <2>2 DEF StartWorks, Statuses
    <3>2. engine' \in BOOLEAN /\ pausing' \in BOOLEAN
      BY <2>2 DEF StartWorks
    <3> QED
      BY <2>2, <3>1, <3>2 DEF StartWorks
  <2>3. CASE ConnectWorks \/ ConnectFails
    <3>1. pausing' \in BOOLEAN
      BY <2>3, Zenon DEF ConnectWorks, ConnectFails
    <3> QED
      BY <2>3, <3>1 DEF ConnectWorks, ConnectFails
  <2>4. CASE ConnectTimesOut \/ ListFails \/ Settings \/ Groups \/ StartFails
    BY <2>4 DEF ConnectTimesOut, ListFails, Settings, Groups, StartFails,
       backend
  <2> QED
    BY <1>2, <2>1, <2>2, <2>3, <2>4 DEF Handlers
<1>3. CASE Jobs
  <2>1. CASE \E i \in Photos : RunCopies(i)
    <3>1. PICK i \in Photos : RunCopies(i)
      BY <2>1
    <3>2. PICK s \in {"copied", "failed"} : row' = [row EXCEPT ![i] = s]
      BY <3>1 DEF RunCopies
    <3> QED
      BY <3>1, <3>2 DEF RunCopies, Statuses
  <2>2. CASE RunLost \/ RunPaused
    <3>1. pausing' \in BOOLEAN
      BY <2>2, Zenon DEF RunLost, RunPaused, RunEnds
    <3> QED
      BY <2>2, <3>1 DEF RunLost, RunPaused, RunEnds
  <2>3. CASE \E bad \in SUBSET Photos : RunDrains(bad)
    BY <2>3 DEF RunDrains, RunEnds, Statuses
  <2>4. CASE DeleteOne
    <3>1. PICK n \in DOMAIN batches, i \in Photos :
              DeleteWorks(n, i) \/ DeleteFails(n, i)
      BY <2>4 DEF DeleteOne
    <3>2. row' = row \/ row' = [row EXCEPT ![i] = "deleted"]
      BY <3>1 DEF DeleteWorks, DeleteFails
    <3> QED
      BY <3>1, <3>2 DEF DeleteWorks, DeleteFails, Removed, Statuses
  <2>5. CASE ScanEnds \/ ScanRaises
    BY <2>5 DEF ScanEnds, ScanRaises
  <2>6. CASE RunRaises
    <3>1. row' \in [Photos -> Statuses]
      BY <2>6 DEF RunRaises, Statuses
    <3>2. pausing' \in BOOLEAN
      BY <2>6, Zenon DEF RunRaises, RunEnds
    <3> QED
      BY <2>6, <3>1, <3>2 DEF RunRaises, RunEnds
  <2> QED
    BY <1>3, <2>1, <2>2, <2>3, <2>4, <2>5, <2>6 DEF Jobs
<1>4. CASE Receive
  BY <1>4 DEF Receive, DeviceConnected, Connected, Listed, Ready, Refused,
     DeviceDisconnected, ConnectionLost, Driver, Started,
     VerificationProgress, VerificationComplete, DeleteProgress,
     ScanComplete, Reviewed, Elsewhere, backend
<1>5. CASE User
  <2>1. CASE SwitchMode
    BY <2>1 DEF SwitchMode, backend
  <2>2. CASE PauseTransfer
    BY <2>2 DEF PauseTransfer, Click
  <2>3. CASE StartTransfer \/ FreeUpSpace \/ RecheckLibrary
    BY <2>3 DEF StartTransfer, FreeUpSpace, RecheckLibrary, Click
  <2>4. CASE ChooseFolder
    BY <2>4 DEF ChooseFolder, Click
  <2> QED
    BY <1>5, <2>1, <2>2, <2>3, <2>4 DEF User
<1> QED
  BY <1>1, <1>2, <1>3, <1>4, <1>5 DEF Next

\* What becomes of the batches: nothing, all of them lose the cable, one has a
\* photo less to do, or there is one more.
LEMMA BrokenType ==
    ASSUME BatchType
    PROVE  /\ Broken(batches) \in Seq(Batches)
           /\ DOMAIN Broken(batches) = DOMAIN batches
           /\ \A n \in DOMAIN batches :
                  Broken(batches)[n].left = batches[n].left
<1> DEFINE b == Broken(batches)
<1>1. \A n \in DOMAIN batches : batches[n] \in Batches
  BY DEF BatchType
<1>2. \A n \in DOMAIN batches : /\ [batches[n] EXCEPT !.live = FALSE] \in Batches
                                /\ [batches[n] EXCEPT !.live = FALSE].left = batches[n].left
  BY <1>1 DEF Batches
<1>3. b = [n \in DOMAIN batches |-> [batches[n] EXCEPT !.live = FALSE]]
  BY DEF Broken
<1>4. DOMAIN batches = 1..Len(batches) /\ Len(batches) \in Nat
  BY DEF BatchType
<1>5. b \in [1..Len(batches) -> Batches]
  BY <1>2, <1>3, <1>4
<1>6. b \in Seq(Batches)
  BY <1>4, <1>5, SeqDef
<1> QED
  BY <1>2, <1>3, <1>6

LEMMA RemovedType ==
    ASSUME BatchType, NEW n \in DOMAIN batches, NEW i, Removed(n, i)
    PROVE  /\ BatchType'
           /\ DOMAIN batches' = DOMAIN batches
           /\ \A k \in DOMAIN batches : batches'[k].left \subseteq batches[k].left
<1>1. \A k \in DOMAIN batches : batches[k] \in Batches
  BY DEF BatchType
<1>2. DOMAIN batches = 1..Len(batches) /\ Len(batches) \in Nat
  BY DEF BatchType
<1>3. /\ [batches[n] EXCEPT !.left = @ \ {i}] \in Batches
      /\ [batches[n] EXCEPT !.left = @ \ {i}].left = batches[n].left \ {i}
  BY <1>1 DEF Batches
<1>4. batches' = [batches EXCEPT ![n] = [batches[n] EXCEPT !.left = @ \ {i}]]
  BY DEF Removed
<1>5. batches' \in [1..Len(batches) -> Batches]
  BY <1>1, <1>2, <1>3, <1>4
<1>6. batches' \in Seq(Batches)
  BY <1>2, <1>5, SeqDef
<1> QED
  BY <1>2, <1>3, <1>4, <1>6 DEF BatchType

LEMMA BatchNext == ASSUME TypeInv, Next PROVE BatchType'
<1> USE DEF TypeInv
<1>1. CASE Unplug \/ ConnectFails \/ ConnectWorks
  BY <1>1, BrokenType DEF Unplug, ConnectFails, ConnectWorks, BatchType
<1>2. CASE DeleteOne
  BY <1>2, RemovedType DEF DeleteOne, DeleteWorks, DeleteFails
<1>3. CASE FreeUpSpace
  <2>1. page.offered \in SUBSET Photos /\ (client = "live") \in BOOLEAN
    BY DEF PageType, Pages
  <2>2. [left |-> page.offered \intersect Has("verified"),
         live |-> client = "live"] \in Batches
    BY <2>1 DEF Batches
  <2> QED
    BY <1>3, <2>2, AppendProperties DEF FreeUpSpace, BatchType
<1>4. CASE /\ ~Unplug /\ ~ConnectFails /\ ~ConnectWorks /\ ~DeleteOne
           /\ ~FreeUpSpace
  <2>1. UNCHANGED batches
    BY <1>4 DEF Next, Plug, Trust, Service, Poll, PollFails, PollMissing,
       PollLists, Handlers, ConnectTimesOut, ListWorks, ListFails, Settings,
       Groups, StartWorks, StartFails, Jobs, RunCopies, RunLost, RunPaused,
       RunDrains, RunRaises, ScanEnds, ScanRaises, Receive, DeviceConnected,
       Connected, Listed,
       Ready, Refused, DeviceDisconnected, ConnectionLost, Driver, Started,
       VerificationProgress, VerificationComplete, DeleteProgress,
       ScanComplete, Reviewed, Elsewhere, User, StartTransfer, PauseTransfer,
       RecheckLibrary, ChooseFolder, SwitchMode, backend
  <2> QED
    BY <2>1 DEF BatchType
<1> QED
  BY <1>1, <1>2, <1>3, <1>4

\* setScreen, as what the fields are afterwards.
LEMMA ToType ==
    ASSUME NEW p \in Pages, NEW s \in Screens
    PROVE  /\ To(p, s) \in Pages
           /\ To(p, s).screen = s
           /\ s \in {To(p, s).transferScreen, To(p, s).libraryScreen}
           /\ To(p, s).transferScreen =
                IF s \in TransferScreens THEN s ELSE p.transferScreen
           /\ To(p, s).udid = p.udid /\ To(p, s).lost = p.lost
           /\ To(p, s).driverless = p.driverless
           /\ To(p, s).offered = p.offered /\ To(p, s).verified = p.verified
           /\ To(p, s).deleted = p.deleted
           /\ To(p, s).cleanups = p.cleanups /\ To(p, s).verdicts = p.verdicts
BY DEF To, Pages, Screens

\* The page once verification_complete was handled.
Judged(p, S) == [p EXCEPT !.offered = S, !.verified = Cardinality(S),
                          !.verdicts = p.verdicts + 1]

LEMMA JudgedType ==
    ASSUME NEW p \in Pages, NEW S \in SUBSET Photos
    PROVE  LET q == Judged(p, S) IN
           /\ q \in Pages /\ q.offered = S /\ q.verified = Cardinality(S)
           /\ q.verdicts = p.verdicts + 1 /\ q.cleanups = p.cleanups
           /\ q.deleted = p.deleted
           /\ q.udid = p.udid /\ q.lost = p.lost
           /\ q.driverless = p.driverless
<1> USE DEF Judged
<1>1. p.verdicts + 1 \in Nat
  BY DEF Pages
<1>2. Cardinality(S) \in Nat
  BY PhotosAssumption, FS_Subset, FS_CardinalityType
<1>3. Judged(p, S) \in Pages
  BY <1>1, <1>2 DEF Pages
<1>4. /\ Judged(p, S).offered = S /\ Judged(p, S).verified = Cardinality(S)
      /\ Judged(p, S).verdicts = p.verdicts + 1
  BY DEF Pages
<1>5. /\ Judged(p, S).cleanups = p.cleanups /\ Judged(p, S).deleted = p.deleted
      /\ Judged(p, S).udid = p.udid /\ Judged(p, S).lost = p.lost
      /\ Judged(p, S).driverless = p.driverless
  BY DEF Pages
<1> QED
  BY <1>3, <1>4, <1>5

LEMMA Verdict ==
    ASSUME PipeType, VerificationComplete
    PROVE  /\ Head(pipe).items \in SUBSET Photos
           /\ page' = To(Judged(page, Head(pipe).items), "ready_to_clean")
<1>1. Head(pipe) \in Messages
  BY GotType DEF VerificationComplete
<1>2. Head(pipe).items \in SUBSET Photos
  BY <1>1 DEF Messages
<1> QED
  BY <1>2 DEF VerificationComplete, Judged

LEMMA PageNext == ASSUME TypeInv, Next PROVE PageType'
<1> USE DEF TypeInv
<1>0. page \in Pages /\ page.screen \in {page.transferScreen, page.libraryScreen}
  BY DEF PageType
<1>a. \A s \in {"disconnected", "awaiting_trust", "enumerating", "ready",
                "transferring", "ready_to_clean", "deleting", "done",
                "library-scanning", "library-review"} : s \in Screens
  BY DEF Screens, TransferScreens, LibraryScreens
<1>b. page.transferScreen \in Screens /\ page.libraryScreen \in Screens
  BY <1>0 DEF Pages, Screens
<1>1. \A p \in Pages, s \in Screens : page' = To(p, s) => PageType'
  BY ToType DEF PageType
<1>2. UNCHANGED page => PageType'
  BY DEF PageType
<1>3. CASE Receive
  <2>1. CASE DeviceConnected
    <3>1. [page EXCEPT !.udid = TRUE, !.lost = FALSE] \in Pages
      BY <1>0 DEF Pages
    <3> QED
      BY <1>a, <1>1, <2>1, <3>1 DEF DeviceConnected
  <2>2. CASE Connected \/ Ready \/ Refused \/ Reviewed
    BY <1>0, <1>a, <1>1, <2>2 DEF Connected, Ready, Refused, Reviewed
  <2>3. CASE Listed \/ ConnectionLost \/ Started
    BY <1>0, <2>3 DEF Listed, ConnectionLost, Started, Pages, PageType
  <2>4. CASE DeviceDisconnected
    <3>1. [page EXCEPT !.udid = FALSE] \in Pages
      BY <1>0 DEF Pages
    <3>2. CASE page' = [page EXCEPT !.lost = TRUE]
      BY <1>0, <3>2 DEF Pages, PageType
    <3> QED
      BY <1>a, <1>1, <2>4, <3>1, <3>2 DEF DeviceDisconnected
  <2>5. CASE Driver
    BY <1>0, <2>5 DEF Driver, Pages, PageType
  <2>6. CASE VerificationProgress
    BY <1>0, <2>6 DEF VerificationProgress, Pages, PageType
  <2>7. CASE VerificationComplete
    <3>1. /\ Judged(page, Head(pipe).items) \in Pages
          /\ page' = To(Judged(page, Head(pipe).items), "ready_to_clean")
      BY <1>0, <2>7, Verdict, JudgedType
    <3> QED
      BY <1>a, <1>1, <3>1
  <2>8. CASE DeleteProgress
    <3> DEFINE p == IF Head(pipe).tag = "deleted"
                    THEN [page EXCEPT !.deleted = @ + 1] ELSE page
    <3>1. p \in Pages /\ p.screen \in {p.transferScreen, p.libraryScreen}
      BY <1>0 DEF Pages
    <3>2. page' = To(p, "done") \/ page' = p
      BY <2>8 DEF DeleteProgress
    <3> QED
      BY <1>a, <1>1, <3>1, <3>2 DEF PageType
  <2>9. CASE ScanComplete
    BY <1>2, <2>9 DEF ScanComplete
  <2> QED
    BY <1>3, <2>1, <2>2, <2>3, <2>4, <2>5, <2>6, <2>7, <2>8, <2>9 DEF Receive
<1>4. CASE User
  <2>1. CASE StartTransfer \/ RecheckLibrary \/ PauseTransfer
    BY <1>0, <1>a, <1>1, <1>2, <2>1
       DEF StartTransfer, RecheckLibrary, PauseTransfer
  <2>2. CASE FreeUpSpace
    <3>1. [page EXCEPT !.cleanups = @ + 1] \in Pages
      BY <1>0 DEF Pages
    <3> QED
      BY <1>a, <1>1, <2>2, <3>1 DEF FreeUpSpace
  <2>3. CASE ChooseFolder
    <3>1. \A r \in Roots : [page EXCEPT !.root = r] \in Pages
      BY <1>0 DEF Pages
    <3> QED
      BY <1>a, <1>1, <2>3, <3>1 DEF ChooseFolder
  <2>4. CASE SwitchMode
    <3>1. \A m \in Modes : [page EXCEPT !.mode = m] \in Pages
      BY <1>0 DEF Pages
    <3> QED
      BY <1>b, <1>1, <2>4, <3>1 DEF SwitchMode, Modes
  <2> QED
    BY <1>4, <2>1, <2>2, <2>3, <2>4 DEF User
<1>5. CASE ~Receive /\ ~User
  BY <1>2, <1>5 DEF Next, Plug, Unplug, Trust, Service, Poll, PollFails,
     PollMissing, PollLists, Handlers, ConnectTimesOut, ConnectFails,
     ConnectWorks, ListWorks, ListFails, Settings, Groups, StartWorks,
     StartFails, Jobs, RunCopies, RunLost, RunPaused, RunDrains, DeleteOne,
     DeleteWorks, DeleteFails, Removed, RunRaises, ScanEnds, ScanRaises
<1> QED
  BY <1>3, <1>4, <1>5

LEMMA TypeNext == TypeInv /\ [Next]_vars => TypeInv'
<1> SUFFICES ASSUME TypeInv, [Next]_vars PROVE TypeInv'
  OBVIOUS
<1>1. CASE Next
  BY <1>1, WorldNext, PipeNext, AskedNext, BackendNext, BatchNext, PageNext
     DEF TypeInv
<1>2. CASE UNCHANGED vars
  BY <1>2 DEF vars, backend, TypeInv, WorldType, PipeType, AskedType,
     BackendType, BatchType, PageType
<1> QED
  BY <1>1, <1>2

LEMMA Typed == Spec => []TypeInv
BY TypeInit, TypeNext, PTL DEF Spec

\* The page, the watcher and the backend keep their types, and the screen
\* shown is one of the two places the page would come back to (setScreen).
THEOREM TypeCorrect == Spec => []TypeOK
BY Typed, TypeInvIsTypeOK, PTL

-----------------------------------------------------------------------------
(* What is on the pipe, and what writing and reading do to it.              *)

Carries(s, T) == \E n \in DOMAIN s : s[n].tag \in T
Latest(s, T, t) == \E n \in DOMAIN s : /\ s[n].tag \in T /\ s[n].tag = t
                                       /\ \A k \in DOMAIN s :
                                            s[k].tag \in T => k <= n
\* Each A has a B after it; each A has a B before it; one T at most.
Followed(s, A, B) == \A n \in DOMAIN s : s[n].tag \in A =>
                        \E k \in DOMAIN s : n < k /\ s[k].tag \in B
Led(s, A, B) == \A n \in DOMAIN s : s[n].tag \in A =>
                    \E k \in DOMAIN s : k < n /\ s[k].tag \in B
Single(s, T) == \A m, n \in DOMAIN s :
                    s[m].tag \in T /\ s[n].tag \in T => m = n

LEMMA Places ==
    ASSUME NEW s \in Seq(Messages)
    PROVE  DOMAIN s = 1..Len(s) /\ Len(s) \in Nat
OBVIOUS

LEMMA Longer ==
    ASSUME NEW s \in Seq(Messages), NEW m \in Messages
    PROVE  LET u == Append(s, m) IN
           /\ DOMAIN u = 1..(Len(s) + 1)
           /\ \A n \in DOMAIN s : n \in DOMAIN u /\ n < Len(s) + 1 /\ u[n] = s[n]
           /\ Len(s) + 1 \in DOMAIN u /\ u[Len(s) + 1] = m
           /\ \A n \in DOMAIN u : n \in Nat /\ (n \in DOMAIN s \/ n = Len(s) + 1)
OBVIOUS

LEMMA Shorter ==
    ASSUME NEW s \in Seq(Messages), s # <<>>
    PROVE  LET u == Tail(s) IN
           /\ \A n \in DOMAIN u : n \in Nat /\ n > 0 /\ n + 1 \in DOMAIN s /\ u[n] = s[n + 1]
           /\ \A n \in DOMAIN s : n \in Nat /\ n > 0
           /\ \A n \in DOMAIN s : n = 1 \/ (n - 1 \in DOMAIN u /\ u[n - 1] = s[n])
           /\ 1 \in DOMAIN s /\ s[1] = Head(s)
<1>1. Len(s) \in Nat /\ Len(s) > 0 /\ DOMAIN s = 1..Len(s)
  OBVIOUS
<1>2. DOMAIN Tail(s) = 1..(Len(s) - 1)
  BY <1>1
<1>3. \A n \in DOMAIN Tail(s) : Tail(s)[n] = s[n + 1]
  BY <1>1, <1>2
<1>4. Head(s) = s[1]
  BY <1>1
<1> DEFINE u == Tail(s)
<1> HIDE DEF u
<1>5. DOMAIN u = 1..(Len(s) - 1) /\ \A n \in DOMAIN u : u[n] = s[n + 1]
  BY <1>2, <1>3 DEF u
<1>6. \A n \in DOMAIN s : n = 1 \/ (n - 1 \in DOMAIN u /\ u[n - 1] = s[n])
  BY <1>1, <1>5
<1> QED
  BY <1>1, <1>4, <1>5, <1>6 DEF u

LEMMA AppendNews ==
    ASSUME NEW s \in Seq(Messages), NEW m \in Messages, NEW T, NEW t
    PROVE  LET u == Append(s, m) IN
           /\ Carries(u, T) <=> Carries(s, T) \/ m.tag \in T
           /\ Latest(u, T, t) <=> IF m.tag \in T THEN m.tag = t
                                                 ELSE Latest(s, T, t)
           /\ Single(s, T) /\ ~(m.tag \in T /\ Carries(s, T)) => Single(u, T)
<1> DEFINE u == Append(s, m)
<1> DEFINE e == Len(s) + 1
<1>1. /\ \A n \in DOMAIN s : n \in DOMAIN u /\ n < e /\ u[n] = s[n]
      /\ e \in DOMAIN u /\ u[e] = m
      /\ \A n \in DOMAIN u : n \in Nat /\ (n \in DOMAIN s \/ n = e)
  BY Longer
<1> HIDE DEF u, e
<1>2. Carries(u, T) <=> Carries(s, T) \/ m.tag \in T
  BY <1>1 DEF Carries
<1>3. ASSUME m.tag \in T
      PROVE  Latest(u, T, t) <=> m.tag = t
  <2>1. \A n \in DOMAIN u : n <= e
    BY <1>1
  <2>2. \A n \in DOMAIN u : e <= n => n = e
    BY <1>1
  <2> QED
    BY <1>1, <1>3, <2>1, <2>2 DEF Latest
<1>4. ASSUME m.tag \notin T
      PROVE  Latest(u, T, t) <=> Latest(s, T, t)
  <2>1. \A n \in DOMAIN u : u[n].tag \in T => n \in DOMAIN s /\ u[n] = s[n]
    BY <1>1, <1>4
  <2> QED
    BY <1>1, <2>1 DEF Latest
<1>5. ASSUME Single(s, T), ~(m.tag \in T /\ Carries(s, T))
      PROVE  Single(u, T)
  BY <1>1, <1>5 DEF Single, Carries
<1> QED
  BY <1>2, <1>3, <1>4, <1>5 DEF u

LEMMA AppendOrder ==
    ASSUME NEW s \in Seq(Messages), NEW m \in Messages, NEW A, NEW B
    PROVE  LET u == Append(s, m) IN
           /\ m.tag \notin A /\ (m.tag \in B \/ Followed(s, A, B))
                => Followed(u, A, B)
           /\ Led(s, A, B) /\ (m.tag \notin A \/ Carries(s, B)) => Led(u, A, B)
<1> DEFINE u == Append(s, m)
<1> DEFINE e == Len(s) + 1
<1>1. /\ \A n \in DOMAIN s : n \in DOMAIN u /\ n < e /\ u[n] = s[n]
      /\ e \in DOMAIN u /\ u[e] = m
      /\ \A n \in DOMAIN u : n \in Nat /\ (n \in DOMAIN s \/ n = e)
  BY Longer
<1> HIDE DEF u, e
<1>2. ASSUME m.tag \notin A, m.tag \in B \/ Followed(s, A, B)
      PROVE  Followed(u, A, B)
  BY <1>1, <1>2 DEF Followed
<1>3. ASSUME Led(s, A, B), m.tag \notin A \/ Carries(s, B)
      PROVE  Led(u, A, B)
  <2> SUFFICES ASSUME NEW n \in DOMAIN u, u[n].tag \in A
               PROVE  \E k \in DOMAIN u : k < n /\ u[k].tag \in B
    BY DEF Led
  <2>1. CASE n \in DOMAIN s
    BY <1>1, <1>3, <2>1 DEF Led
  <2>2. CASE n = e
    BY <1>1, <1>3, <2>2 DEF Carries
  <2> QED
    BY <1>1, <2>1, <2>2
<1> QED
  BY <1>2, <1>3 DEF u

LEMMA TailNews ==
    ASSUME NEW s \in Seq(Messages), s # <<>>, NEW T, NEW t
    PROVE  LET u == Tail(s) IN
           /\ Carries(s, T) <=> Head(s).tag \in T \/ Carries(u, T)
           /\ Carries(u, T) => (Latest(u, T, t) <=> Latest(s, T, t))
           /\ ~Carries(u, T) /\ Head(s).tag \in T
                => (Latest(s, T, t) <=> Head(s).tag = t)
           /\ Single(s, T) => Single(u, T)
           /\ Single(s, T) /\ Head(s).tag \in T => ~Carries(u, T)
<1> DEFINE u == Tail(s)
<1>1. /\ \A n \in DOMAIN u : n \in Nat /\ n > 0 /\ n + 1 \in DOMAIN s /\ u[n] = s[n + 1]
      /\ \A n \in DOMAIN s : n \in Nat /\ n > 0
      /\ \A n \in DOMAIN s : n = 1 \/ (n - 1 \in DOMAIN u /\ u[n - 1] = s[n])
      /\ 1 \in DOMAIN s /\ s[1] = Head(s)
  BY Shorter
<1> HIDE DEF u
<1>2. Carries(s, T) <=> Head(s).tag \in T \/ Carries(u, T)
  BY <1>1 DEF Carries
<1>3. ASSUME Carries(u, T), Latest(u, T, t)
      PROVE  Latest(s, T, t)
  <2>1. PICK n \in DOMAIN u : /\ u[n].tag \in T /\ u[n].tag = t
                              /\ \A k \in DOMAIN u : u[k].tag \in T => k <= n
    BY <1>3 DEF Latest
  <2>2. ASSUME NEW k \in DOMAIN s, s[k].tag \in T
        PROVE  k <= n + 1
    <3>1. k \in Nat /\ n \in Nat
      BY <1>1
    <3>2. CASE k # 1
      <4>1. k - 1 \in DOMAIN u /\ u[k - 1].tag \in T
        BY <1>1, <2>2, <3>2
      <4>2. k - 1 <= n
        BY <2>1, <4>1
      <4> QED
        BY <3>1, <4>2
    <3> QED
      BY <3>1, <3>2
  <2> QED
    BY <1>1, <2>1, <2>2 DEF Latest
<1>4. ASSUME Carries(u, T), Latest(s, T, t)
      PROVE  Latest(u, T, t)
  <2>1. PICK n \in DOMAIN s : /\ s[n].tag \in T /\ s[n].tag = t
                              /\ \A k \in DOMAIN s : s[k].tag \in T => k <= n
    BY <1>4 DEF Latest
  <2>2. PICK j \in DOMAIN u : u[j].tag \in T
    BY <1>4 DEF Carries
  <2>3. j + 1 <= n
    BY <1>1, <2>1, <2>2
  <2>4. n # 1 /\ n \in Nat
    BY <1>1, <2>2, <2>3
  <2>5. ASSUME NEW k \in DOMAIN u, u[k].tag \in T
        PROVE  k <= n - 1
    <3>1. k \in Nat /\ k + 1 \in DOMAIN s /\ s[k + 1].tag \in T
      BY <1>1, <2>5
    <3>2. k + 1 <= n
      BY <2>1, <3>1
    <3> QED
      BY <2>4, <3>1, <3>2
  <2> QED
    BY <1>1, <2>1, <2>4, <2>5 DEF Latest
<1>5. ASSUME ~Carries(u, T), Head(s).tag \in T
      PROVE  Latest(s, T, t) <=> Head(s).tag = t
  <2>1. \A n \in DOMAIN s : s[n].tag \in T => n = 1
    BY <1>1, <1>5 DEF Carries
  <2> QED
    BY <1>1, <1>5, <2>1 DEF Latest
<1>6. ASSUME Single(s, T)
      PROVE  Single(u, T)
  <2> SUFFICES ASSUME NEW m \in DOMAIN u, NEW n \in DOMAIN u,
                      u[m].tag \in T, u[n].tag \in T
               PROVE  m = n
    BY DEF Single
  <2>1. m + 1 = n + 1
    BY <1>1, <1>6 DEF Single
  <2> QED
    BY <1>1, <2>1
<1>7. ASSUME Single(s, T), Head(s).tag \in T
      PROVE  ~Carries(u, T)
  <2> SUFFICES ASSUME NEW n \in DOMAIN u, u[n].tag \in T
               PROVE  FALSE
    BY DEF Carries
  <2>1. n + 1 = 1
    BY <1>1, <1>7 DEF Single
  <2> QED
    BY <1>1, <2>1
<1> QED
  BY <1>2, <1>3, <1>4, <1>5, <1>6, <1>7 DEF u

LEMMA TailOrder ==
    ASSUME NEW s \in Seq(Messages), s # <<>>, NEW A, NEW B
    PROVE  LET u == Tail(s) IN
           /\ Followed(s, A, B) => Followed(u, A, B)
           /\ Followed(s, A, B) /\ Head(s).tag \in A => Carries(u, B)
           /\ Led(s, A, B) /\ Head(s).tag \notin B => Led(u, A, B)
           /\ Led(s, A, B) => Head(s).tag \notin A
<1> DEFINE u == Tail(s)
<1>1. /\ \A n \in DOMAIN u : n \in Nat /\ n > 0 /\ n + 1 \in DOMAIN s /\ u[n] = s[n + 1]
      /\ \A n \in DOMAIN s : n \in Nat /\ n > 0
      /\ \A n \in DOMAIN s : n = 1 \/ (n - 1 \in DOMAIN u /\ u[n - 1] = s[n])
      /\ 1 \in DOMAIN s /\ s[1] = Head(s)
  BY Shorter
<1> HIDE DEF u
<1>2. ASSUME Followed(s, A, B)
      PROVE  Followed(u, A, B)
  <2> SUFFICES ASSUME NEW n \in DOMAIN u, u[n].tag \in A
               PROVE  \E k \in DOMAIN u : n < k /\ u[k].tag \in B
    BY DEF Followed
  <2>1. PICK k \in DOMAIN s : n + 1 < k /\ s[k].tag \in B
    BY <1>1, <1>2 DEF Followed
  <2>2. k # 1 /\ k \in Nat
    BY <1>1, <2>1
  <2>3. k - 1 \in DOMAIN u /\ u[k - 1] = s[k] /\ n < k - 1
    BY <1>1, <2>1, <2>2
  <2> QED
    BY <2>1, <2>3
<1>3. ASSUME Followed(s, A, B), Head(s).tag \in A
      PROVE  Carries(u, B)
  <2>1. PICK k \in DOMAIN s : 1 < k /\ s[k].tag \in B
    BY <1>1, <1>3 DEF Followed
  <2>2. k # 1
    BY <1>1, <2>1
  <2>3. k - 1 \in DOMAIN u /\ u[k - 1] = s[k]
    BY <1>1, <2>2
  <2> QED
    BY <2>1, <2>3 DEF Carries
<1>4. ASSUME Led(s, A, B), Head(s).tag \notin B
      PROVE  Led(u, A, B)
  <2> SUFFICES ASSUME NEW n \in DOMAIN u, u[n].tag \in A
               PROVE  \E k \in DOMAIN u : k < n /\ u[k].tag \in B
    BY DEF Led
  <2>1. PICK k \in DOMAIN s : k < n + 1 /\ s[k].tag \in B
    BY <1>1, <1>4 DEF Led
  <2>2. k # 1 /\ k \in Nat
    BY <1>1, <1>4, <2>1
  <2>3. k - 1 \in DOMAIN u /\ u[k - 1] = s[k] /\ k - 1 < n
    BY <1>1, <2>1, <2>2
  <2> QED
    BY <2>1, <2>3
<1>5. ASSUME Led(s, A, B)
      PROVE  Head(s).tag \notin A
  BY <1>1, <1>5 DEF Led
<1> QED
  BY <1>2, <1>3, <1>4, <1>5 DEF u

-----------------------------------------------------------------------------
(* A step of the pipe that says nothing of what is in H.                    *)

Says(s, u, H) ==
    /\ \A T \in SUBSET H :
        /\ Carries(u, T) <=> Carries(s, T)
        /\ Single(s, T) => Single(u, T)
        /\ \A t : Latest(u, T, t) <=> Latest(s, T, t)
    /\ \A A, B \in SUBSET H : /\ Followed(s, A, B) => Followed(u, A, B)
                              /\ Led(s, A, B) => Led(u, A, B)

LEMMA SaysSame == \A s, H : Says(s, s, H)
BY DEF Says

LEMMA SaysAppend ==
    ASSUME NEW s \in Seq(Messages), NEW m \in Messages, NEW H, m.tag \notin H
    PROVE  Says(s, Append(s, m), H)
<1>1. ASSUME NEW T \in SUBSET H
      PROVE  /\ Carries(Append(s, m), T) <=> Carries(s, T)
             /\ Single(s, T) => Single(Append(s, m), T)
             /\ \A t : Latest(Append(s, m), T, t) <=> Latest(s, T, t)
  <2>1. m.tag \notin T
    OBVIOUS
  <2> QED
    BY <2>1, AppendNews
<1>2. ASSUME NEW A \in SUBSET H, NEW B \in SUBSET H
      PROVE  /\ Followed(s, A, B) => Followed(Append(s, m), A, B)
             /\ Led(s, A, B) => Led(Append(s, m), A, B)
  <2>1. m.tag \notin A
    OBVIOUS
  <2> QED
    BY <2>1, AppendOrder
<1> QED
  BY <1>1, <1>2 DEF Says

LEMMA SaysTail ==
    ASSUME NEW s \in Seq(Messages), s # <<>>, NEW H, Head(s).tag \notin H
    PROVE  Says(s, Tail(s), H)
<1>1. ASSUME NEW T \in SUBSET H
      PROVE  /\ Carries(Tail(s), T) <=> Carries(s, T)
             /\ Single(s, T) => Single(Tail(s), T)
             /\ \A t : Latest(Tail(s), T, t) <=> Latest(s, T, t)
  <2>1. Head(s).tag \notin T
    OBVIOUS
  <2>2. ASSUME ~Carries(Tail(s), T), NEW t
        PROVE  ~Latest(Tail(s), T, t) /\ ~Latest(s, T, t)
    <3>1. ~Carries(s, T)
      BY <2>1, <2>2, TailNews
    <3> QED
      BY <2>2, <3>1 DEF Carries, Latest
  <2> QED
    BY <2>1, <2>2, TailNews
<1>2. ASSUME NEW A \in SUBSET H, NEW B \in SUBSET H
      PROVE  /\ Followed(s, A, B) => Followed(Tail(s), A, B)
             /\ Led(s, A, B) => Led(Tail(s), A, B)
  <2>1. Head(s).tag \notin B
    OBVIOUS
  <2> QED
    BY <2>1, TailOrder
<1> QED
  BY <1>1, <1>2 DEF Says

LEMMA SaysJoin ==
    ASSUME NEW s \in Seq(Messages), NEW u \in Seq(Messages), NEW H,
           \A n \in DOMAIN u : u[n].tag \notin H
    PROVE  Says(s, s \o u, H)
<1> DEFINE w == s \o u
<1>1. /\ \A n \in DOMAIN s : n \in DOMAIN w /\ w[n] = s[n]
      /\ \A n \in DOMAIN w : w[n].tag \in H => n \in DOMAIN s
  <2>1. /\ DOMAIN w = 1..(Len(s) + Len(u)) /\ DOMAIN s = 1..Len(s)
        /\ DOMAIN u = 1..Len(u) /\ Len(s) \in Nat /\ Len(u) \in Nat
        /\ \A n \in DOMAIN w : w[n] = IF n <= Len(s) THEN s[n] ELSE u[n - Len(s)]
    BY ConcatProperties
  <2> HIDE DEF w
  <2>2. \A n \in DOMAIN s : n \in DOMAIN w /\ w[n] = s[n]
    BY <2>1
  <2>3. ASSUME NEW n \in DOMAIN w, n \notin DOMAIN s
        PROVE  w[n].tag \notin H
    <3>1. n - Len(s) \in DOMAIN u /\ w[n] = u[n - Len(s)]
      BY <2>1, <2>3
    <3> QED
      BY <3>1
  <2> QED
    BY <2>2, <2>3
<1> HIDE DEF w
<1>2. ASSUME NEW T \in SUBSET H
      PROVE  /\ Carries(w, T) <=> Carries(s, T)
             /\ Single(s, T) => Single(w, T)
             /\ \A t : Latest(w, T, t) <=> Latest(s, T, t)
  <2>1. \A n \in DOMAIN w : w[n].tag \in T => n \in DOMAIN s /\ w[n] = s[n]
    BY <1>1
  <2>2. Carries(w, T) <=> Carries(s, T)
    BY <1>1, <2>1 DEF Carries
  <2>3. Single(s, T) => Single(w, T)
    BY <2>1 DEF Single
  <2>4. \A t : Latest(w, T, t) <=> Latest(s, T, t)
    BY <1>1, <2>1 DEF Latest
  <2> QED
    BY <2>2, <2>3, <2>4
<1>3. ASSUME NEW A \in SUBSET H, NEW B \in SUBSET H
      PROVE  /\ Followed(s, A, B) => Followed(w, A, B)
             /\ Led(s, A, B) => Led(w, A, B)
  <2>1. \A n \in DOMAIN w : w[n].tag \in A => n \in DOMAIN s /\ w[n] = s[n]
    BY <1>1
  <2>2. Followed(s, A, B) => Followed(w, A, B)
    BY <1>1, <2>1 DEF Followed
  <2>3. Led(s, A, B) => Led(w, A, B)
    BY <1>1, <2>1 DEF Led
  <2> QED
    BY <2>2, <2>3
<1> QED
  BY <1>2, <1>3 DEF Says, w

LEMMA SaysWrite ==
    ASSUME PipeType, NEW t \in Tags, NEW H, t \notin H, Write(Msg(t))
    PROVE  Says(pipe, pipe', H)
BY MsgType, SaysAppend DEF PipeType, Write

LEMMA SaysGot ==
    ASSUME PipeType, NEW t, NEW H, t \notin H, Got(t)
    PROVE  Says(pipe, pipe', H)
BY SaysTail DEF PipeType, Got

\* A run that drains reports verdicts only.
LEMMA SaysDrains ==
    ASSUME PipeType, NEW bad \in SUBSET Photos, RunDrains(bad),
           NEW H, {"verified", "verification_complete"} \cap H = {}
    PROVE  Says(pipe, pipe', H)
<1> DEFINE some == [n \in 1..Cardinality(Has("copied") \ bad) |-> Msg("verified")]
           last == [tag |-> "verification_complete",
                    items |-> {i \in Photos : row'[i] = "verified"}]
<1>1. pipe' = pipe \o some \o <<last>>
  BY DEF RunDrains
<1>2. last \in Messages /\ last.tag \notin H
  BY DEF Messages, Tags
<1>3. Cardinality(Has("copied") \ bad) \in Nat
  BY PhotosAssumption, FS_Subset, FS_CardinalityType DEF Has
<1>4. Msg("verified") \in Messages /\ Msg("verified").tag \notin H
  BY MsgType DEF Tags
<1>5. some \in Seq(Messages)
  BY <1>3, <1>4, SameSeq
<1>6. \A n \in DOMAIN some : some[n].tag \notin H
  BY <1>4
<1> HIDE DEF some, last
<1>7. pipe \o some \in Seq(Messages)
  BY <1>5, SeqJoin DEF PipeType
<1>8. pipe' = Append(pipe \o some, last)
  BY <1>1, <1>2, <1>7, AppendIsConcat
<1>9. Says(pipe, pipe \o some, H) /\ Says(pipe \o some, pipe', H)
  BY <1>2, <1>5, <1>6, <1>7, <1>8, SaysAppend, SaysJoin DEF PipeType
<1> QED
  BY <1>9 DEF Says

-----------------------------------------------------------------------------
(* HearsOfPhone: the driver's half needs nothing more.                      *)

DriverHeard ==
    IF Carries(pipe, DriverNews)
    THEN Latest(pipe, DriverNews, "driver_missing") <=> watcher.missing
    ELSE page.driverless <=> watcher.missing
PhoneHeard ==
    IF Carries(pipe, PhoneNews)
    THEN Latest(pipe, PhoneNews, "device_connected") <=> watcher.known
    ELSE IF watcher.known THEN page.udid
         ELSE page.udid => page.lost \/ spent.unplugs > 1

LEMMA BothHeard == DriverHeard /\ PhoneHeard => HearsOfPhone
<1>1. \A T : Coming(T) = {} <=> ~Carries(pipe, T)
  BY DEF Coming, Carries
<1>2. \A T, t : Final(T, t) <=> Latest(pipe, T, t)
  BY DEF Final, Coming, Latest
<1> QED
  BY <1>1, <1>2 DEF DriverHeard, PhoneHeard, HearsOfPhone

-----------------------------------------------------------------------------
(* The phone's half needs the history of a cable that was pulled once at    *)
(* most.  Underway: a connection the page was told of, or asked for, and    *)
(* has not seen.  NotBegun: the page is as it was before any connection.    *)

Arrives == {"device_connected", "connected"}
Departs == {"device_disconnected"}
FirstHand == {"listed", "settings", "verification_complete", "deleted", "kept"}
News4 == PhoneNews \union {"connected", "listed"}

NotBegun ==
    /\ page.transferScreen \in {"disconnected", "awaiting_trust"}
    /\ asked["list"] = 0 /\ asked["settings"] = 0 /\ asked["start"] = 0
    /\ ~Carries(pipe, FirstHand)
    /\ runs = 0 /\ engine = FALSE /\ batches = <<>>
Underway == asked["connect"] > 0 \/ Carries(pipe, Arrives)
OneConnect ==
    /\ asked["connect"] <= 1
    /\ asked["connect"] = 1 => ~Carries(pipe, Arrives)
    /\ Single(pipe, Arrives)

\* While the phone is there for the first time, as far as the watcher knows.
FirstTime == OneConnect /\ (Underway => NotBegun) /\ ~Carries(pipe, Departs)

\* Once the watcher saw it go: the page forgot it, ...
Forgotten == ~Carries(pipe, PhoneNews) /\ ~page.udid
\* ... or it had been connected, and nothing more will come of that, ...
Severed ==
    /\ client # "live" /\ asked["connect"] = 0
    /\ ~Carries(pipe, {"device_connected"})
    /\ Followed(pipe, {"connected", "listed"}, Departs)
\* ... or it had not, and the page will hear that it is gone first.
Unmet ==
    /\ NotBegun /\ OneConnect
    /\ Carries(pipe, Departs) /\ Single(pipe, Departs)
    /\ Followed(pipe, {"device_connected"}, Departs)
    /\ Led(pipe, {"connected"}, Departs)

NeverSeen == NotBegun /\ ~Underway /\ Forgotten

History ==
    /\ client = "live" => phone.plugged
    /\ spent.unplugs = 0 =>
        IF watcher.known THEN phone.plugged /\ FirstTime ELSE NeverSeen
    /\ spent.unplugs = 1 =>
        IF watcher.known THEN ~phone.plugged => FirstTime
                         ELSE Forgotten \/ Severed \/ Unmet

HearInv == DriverHeard /\ PhoneHeard /\ History

LEMMA Screenshot ==
    ASSUME PageType
    PROVE  /\ page \in Pages
           /\ \A s \in TransferScreens : page.screen = s => page.transferScreen = s
BY DEF PageType, Pages, TransferScreens, LibraryScreens

LEMMA SayNothing ==
    ASSUME NEW u, NEW H, Says(pipe, u, H)
    PROVE  \A T \in SUBSET H : ~Carries(pipe, T) => ~Carries(u, T)
BY DEF Says

\* Before any connection was seen the page cannot ask for a listing, the user
\* cannot start a copy, and the backend has nothing to do.
LEMMA NotBegunStays ==
    ASSUME TypeInv, NotBegun, Next, ~Connected
    PROVE  NotBegun'
<1> USE DEF TypeInv
<1>1. /\ page \in Pages
      /\ \A s \in TransferScreens : page.screen = s => page.transferScreen = s
  BY Screenshot
<1>2. /\ page.transferScreen \in {"disconnected", "awaiting_trust"}
      /\ asked["list"] = 0 /\ asked["settings"] = 0 /\ asked["start"] = 0
      /\ runs = 0 /\ engine = FALSE /\ batches = <<>>
      /\ ~Carries(pipe, FirstHand)
  BY DEF NotBegun
<1>3. asked \in [Calls -> Nat] /\ Broken(<<>>) = <<>> /\ DOMAIN batches = {}
  BY <1>2 DEF AskedType, Broken
<1> DEFINE Idle == /\ asked'["list"] = 0 /\ asked'["settings"] = 0
                   /\ asked'["start"] = 0
                   /\ runs' = 0 /\ engine' = FALSE /\ batches' = <<>>
           Quiet == ~Carries(pipe', FirstHand)
           Same == page'.transferScreen \in {"disconnected", "awaiting_trust"}
<1>4. \A t \in Tags \ FirstHand : Write(Msg(t)) => Quiet
  BY <1>2, SaysWrite, SayNothing
<1>5. \A t : Got(t) => t \notin FirstHand /\ Quiet
  <2> SUFFICES ASSUME NEW t, Got(t) PROVE t \notin FirstHand /\ Quiet
    OBVIOUS
  <2>1. t \notin FirstHand
    BY <1>2, TailNews DEF Got, PipeType
  <2> QED
    BY <1>2, <2>1, SaysGot, SayNothing
<1>6. CASE Plug \/ Unplug \/ Trust \/ Service
  BY <1>2, <1>3, <1>6 DEF Plug, Unplug, Trust, Service, backend, NotBegun
<1>7. CASE Poll
  <2>1. UNCHANGED <<asked, backend, page>>
    BY <1>7 DEF Poll, PollFails, PollMissing, PollLists
  <2>2. Quiet
    <3>1. CASE PollFails
      BY <1>2, <3>1 DEF PollFails
    <3>2. CASE PollMissing
      BY <1>4, <3>2 DEF PollMissing, Tags, FirstHand
    <3>3. CASE PollLists
      <4>1. \A n \in DOMAIN News : News[n].tag \notin FirstHand
        BY DEF News, Msg, FirstHand
      <4>2. Says(pipe, pipe', FirstHand)
        BY <3>3, <4>1, NewsType, SaysJoin DEF PollLists, PipeType
      <4> QED
        BY <1>2, <4>2, SayNothing
    <3> QED
      BY <1>7, <3>1, <3>2, <3>3 DEF Poll
  <2> QED
    BY <1>2, <2>1, <2>2 DEF NotBegun, backend
<1>8. CASE Handlers
  <2>1. CASE ConnectTimesOut \/ ConnectFails \/ ConnectWorks
    <3>1. Taken("connect") /\ UNCHANGED page
      BY <2>1 DEF ConnectTimesOut, ConnectFails, ConnectWorks
    <3>2. Quiet
      BY <1>4, <2>1 DEF ConnectTimesOut, ConnectFails, ConnectWorks, Tags,
         FirstHand
    <3>3. runs' = 0 /\ engine' = FALSE /\ batches' = <<>>
      BY <1>2, <1>3, <2>1 DEF ConnectTimesOut, ConnectFails, ConnectWorks,
         backend
    <3> QED
      BY <1>2, <1>3, <3>1, <3>2, <3>3 DEF NotBegun, Taken, Calls
  <2>2. CASE Groups
    <3>1. Quiet
      BY <1>4, <2>2 DEF Groups, Tags, FirstHand
    <3> QED
      BY <1>2, <1>3, <2>2, <3>1 DEF Groups, NotBegun, Taken, Calls, backend
  <2>3. ~(\E gone \in SUBSET Photos : ListWorks(gone)) /\ ~ListFails
        /\ ~Settings /\ ~StartWorks /\ ~StartFails
    BY <1>2 DEF ListWorks, ListFails, Settings, StartWorks, StartFails, Taken
  <2> QED
    BY <1>8, <2>1, <2>2, <2>3 DEF Handlers
<1>9. CASE Jobs
  <2>1. ScanEnds \/ ScanRaises
    BY <1>2, <1>3, <1>9 DEF Jobs, RunCopies, RunLost, RunPaused, RunDrains,
       RunRaises, RunEnds, DeleteOne
  <2>2. Quiet
    <3>1. UNCHANGED pipe \/ Write(Msg("library_scan_complete"))
      BY <2>1 DEF ScanEnds, ScanRaises
    <3> QED
      BY <1>2, <1>4, <3>1 DEF Tags, FirstHand
  <2> QED
    BY <1>2, <2>1, <2>2 DEF ScanEnds, ScanRaises, NotBegun
<1>10. CASE Receive
  <2>1. UNCHANGED <<runs, engine, batches>>
    BY <1>10 DEF Receive, DeviceConnected, Connected, Listed, Ready, Refused,
       DeviceDisconnected, ConnectionLost, Driver, Started,
       VerificationProgress, VerificationComplete, DeleteProgress,
       ScanComplete, Reviewed, Elsewhere, backend
  <2>2. Quiet
    BY <1>5, <1>10 DEF Receive, DeviceConnected, Connected, Listed, Ready,
       Refused, DeviceDisconnected, ConnectionLost, Driver, Started,
       VerificationProgress, VerificationComplete, DeleteProgress,
       ScanComplete, Reviewed
  <2>3. ~Listed /\ ~Ready /\ ~VerificationComplete /\ ~DeleteProgress
    BY <1>5 DEF Listed, Ready, VerificationComplete, DeleteProgress, FirstHand
  <2>4. UNCHANGED asked \/ Ask("connect") \/ Ask("groups")
    BY <1>10, <2>3 DEF Receive, DeviceConnected, Connected, Refused,
       DeviceDisconnected, ConnectionLost, Driver, Started,
       VerificationProgress, ScanComplete, Reviewed
  <2>5. Same
    <3> DEFINE arrived == [page EXCEPT !.udid = TRUE, !.lost = FALSE]
               left == [page EXCEPT !.udid = FALSE]
    <3>1. arrived \in Pages /\ left \in Pages
      BY <1>1 DEF Pages
    <3>2. left.transferScreen = page.transferScreen
      BY <1>1 DEF Pages
    <3>3. \A p \in Pages, s \in {"disconnected", "awaiting_trust"} :
              page' = To(p, s) => Same
      BY ToType DEF Screens, TransferScreens
    <3>4. page' = To(page, "library-review") => Same
      BY <1>1, <1>2, ToType DEF Screens, TransferScreens, LibraryScreens
    <3> HIDE DEF arrived, left
    <3>5. CASE DeviceConnected
      BY <3>1, <3>3, <3>5 DEF DeviceConnected, arrived
    <3>6. CASE Refused
      BY <1>1, <3>3, <3>6 DEF Refused
    <3>7. CASE DeviceDisconnected
      <4>1. CASE page' = [page EXCEPT !.lost = TRUE]
        BY <1>1, <1>2, <4>1 DEF Pages
      <4> QED
        BY <3>1, <3>3, <3>7, <4>1 DEF DeviceDisconnected, left
    <3>8. CASE Reviewed
      BY <3>4, <3>8 DEF Reviewed
    <3>9. CASE ConnectionLost \/ Driver \/ Started \/ VerificationProgress
               \/ ScanComplete
      BY <1>1, <1>2, <3>9 DEF ConnectionLost, Driver, Started,
         VerificationProgress, ScanComplete, Pages
    <3> QED
      BY <1>10, <2>3, <3>5, <3>6, <3>7, <3>8, <3>9 DEF Receive
  <2>6. asked'["list"] = 0 /\ asked'["settings"] = 0 /\ asked'["start"] = 0
    BY <1>2, <1>3, <2>4 DEF Ask, Calls
  <2> QED
    BY <1>2, <2>1, <2>2, <2>5, <2>6 DEF NotBegun
<1>11. CASE User
  <2>1. \A s \in {"ready", "transferring", "ready_to_clean", "done"} : ~Click(s)
    BY <1>1, <1>2 DEF Click, TransferScreens
  <2>2. ChooseFolder \/ SwitchMode
    BY <1>11, <2>1 DEF User, StartTransfer, PauseTransfer, FreeUpSpace,
       RecheckLibrary
  <2>3. UNCHANGED <<pipe, asked, runs, engine, batches>>
    BY <2>2 DEF ChooseFolder, SwitchMode, Click, backend
  <2>4. Same
    <3>0. \A p \in Pages, s \in LibraryScreens \union {page.transferScreen} :
              /\ p.transferScreen = page.transferScreen
              /\ page' = To(p, s)
              => Same
      BY <1>2, ToType DEF Screens, TransferScreens, LibraryScreens
    <3>1. CASE ChooseFolder
      <4>1. PICK r \in Roots :
                page' = To([page EXCEPT !.root = r], "library-scanning")
        BY <3>1 DEF ChooseFolder
      <4>2. /\ [page EXCEPT !.root = r] \in Pages
            /\ [page EXCEPT !.root = r].transferScreen = page.transferScreen
        BY <1>1 DEF Pages
      <4> DEFINE q == [page EXCEPT !.root = r]
      <4> HIDE DEF q
      <4>3. q \in Pages /\ q.transferScreen = page.transferScreen
        BY <4>2 DEF q
      <4>4. page' = To(q, "library-scanning")
        BY <4>1 DEF q
      <4> QED
        BY <3>0, <4>3, <4>4 DEF LibraryScreens
    <3>2. CASE SwitchMode
      <4>1. PICK m \in Modes :
                page' = To([page EXCEPT !.mode = m],
                           IF m = "library" THEN page.libraryScreen
                                            ELSE page.transferScreen)
        BY <3>2 DEF SwitchMode, Modes
      <4>2. /\ [page EXCEPT !.mode = m] \in Pages
            /\ [page EXCEPT !.mode = m].transferScreen = page.transferScreen
        BY <1>1 DEF Pages
      <4>3. page.libraryScreen \in LibraryScreens
        BY <1>1 DEF Pages
      <4> DEFINE q == [page EXCEPT !.mode = m]
                 s == IF m = "library" THEN page.libraryScreen
                                       ELSE page.transferScreen
      <4> HIDE DEF q
      <4>4. q \in Pages /\ q.transferScreen = page.transferScreen
        BY <4>2 DEF q
      <4>5. page' = To(q, s) /\ s \in LibraryScreens \union {page.transferScreen}
        BY <4>1, <4>3 DEF q
      <4> HIDE DEF s
      <4> QED
        BY <3>0, <4>4, <4>5
    <3> QED
      BY <2>2, <3>1, <3>2
  <2> QED
    BY <1>2, <2>3, <2>4 DEF NotBegun
<1> QED
  BY <1>6, <1>7, <1>8, <1>9, <1>10, <1>11 DEF Next

\* How the kinds of news go together.
LEMMA Kinds ==
    ASSUME NEW s
    PROVE  /\ Carries(s, PhoneNews) <=> Carries(s, {"device_connected"}) \/ Carries(s, Departs)
           /\ Carries(s, Arrives) <=> Carries(s, {"device_connected"}) \/ Carries(s, {"connected"})
           /\ Single(s, Arrives) /\ Carries(s, {"device_connected"})
                => ~Carries(s, {"connected"})
           /\ \A T : ~Carries(s, T) => Single(s, T)
           /\ \A A, B : ~Carries(s, A) => Followed(s, A, B) /\ Led(s, A, B)
           /\ \A A, B : Followed(s, A, B) /\ ~Carries(s, B) => ~Carries(s, A)
<1>1. /\ Carries(s, PhoneNews) <=> Carries(s, {"device_connected"}) \/ Carries(s, Departs)
      /\ Carries(s, Arrives) <=> Carries(s, {"device_connected"}) \/ Carries(s, {"connected"})
  BY DEF Carries, PhoneNews, Arrives, Departs
<1>2. Single(s, Arrives) /\ Carries(s, {"device_connected"})
        => ~Carries(s, {"connected"})
  BY DEF Carries, Single, Arrives
<1>3. \A T : ~Carries(s, T) => Single(s, T)
  BY DEF Carries, Single
<1>4. \A A, B : ~Carries(s, A) => Followed(s, A, B) /\ Led(s, A, B)
  BY DEF Carries, Followed, Led
<1>5. \A A, B : Followed(s, A, B) /\ ~Carries(s, B) => ~Carries(s, A)
  BY DEF Carries, Followed
<1> QED
  BY <1>1, <1>2, <1>3, <1>4, <1>5

\* What a step may do without disturbing what is known of the phone.
Calmly ==
    /\ Says(pipe, pipe', News4)
    /\ watcher'.known = watcher.known /\ spent'.unplugs = spent.unplugs
    /\ phone'.plugged = phone.plugged
    /\ asked'["connect"] = asked["connect"]
    /\ page'.udid = page.udid
    /\ page.lost => page'.lost
    /\ client' = "live" => client = "live"

LEMMA CalmStays ==
    ASSUME Calmly, NotBegun => NotBegun', PhoneHeard, History
    PROVE  PhoneHeard' /\ History'
<1>1. \A T \in {PhoneNews, Arrives, Departs, {"device_connected"}} :
        /\ Carries(pipe', T) <=> Carries(pipe, T)
        /\ Single(pipe, T) => Single(pipe', T)
        /\ \A t : Latest(pipe', T, t) <=> Latest(pipe, T, t)
  BY DEF Calmly, Says, News4, PhoneNews, Arrives, Departs
<1>2. /\ Followed(pipe, {"connected", "listed"}, Departs)
            => Followed(pipe', {"connected", "listed"}, Departs)
      /\ Followed(pipe, {"device_connected"}, Departs)
            => Followed(pipe', {"device_connected"}, Departs)
      /\ Led(pipe, {"connected"}, Departs) => Led(pipe', {"connected"}, Departs)
  <2>1. {{"connected", "listed"}, Departs, {"device_connected"}, {"connected"}}
            \subseteq SUBSET News4
    BY DEF News4, PhoneNews, Departs
  <2> QED
    BY <2>1 DEF Calmly, Says
<1>3. PhoneHeard'
  BY <1>1 DEF PhoneHeard, Calmly
<1>4. Underway' <=> Underway
  BY <1>1 DEF Underway, Calmly
<1>5. OneConnect => OneConnect'
  BY <1>1 DEF OneConnect, Calmly
<1>6. FirstTime => FirstTime'
  BY <1>1, <1>4, <1>5 DEF FirstTime
<1>7. (Forgotten => Forgotten') /\ (NeverSeen => NeverSeen')
  BY <1>1, <1>4 DEF Forgotten, NeverSeen, Calmly
<1>8. (Severed => Severed') /\ (Unmet => Unmet')
  BY <1>1, <1>2, <1>5 DEF Severed, Unmet, Calmly
<1> QED
  BY <1>3, <1>6, <1>7, <1>8 DEF History, Calmly

Loud == \/ Plug \/ Unplug \/ PollLists
        \/ ConnectTimesOut \/ ConnectFails \/ ConnectWorks
        \/ \E gone \in SUBSET Photos : ListWorks(gone)
        \/ DeviceConnected \/ Connected \/ Listed \/ DeviceDisconnected

\* What the page remembers of phone and driver changes where it hears of them.
LEMMA PageCalm ==
    ASSUME TypeInv, Next,
           ~DeviceConnected, ~Connected, ~Listed, ~DeviceDisconnected
    PROVE  /\ page'.udid = page.udid /\ (page.lost => page'.lost)
           /\ ~Driver => page'.driverless = page.driverless
<1> DEFINE Same == /\ page'.udid = page.udid /\ (page.lost => page'.lost)
                   /\ ~Driver => page'.driverless = page.driverless
<1> USE DEF TypeInv
<1>1. page \in Pages
  BY DEF PageType
<1>2. CASE Receive
  <2>0. \A p \in Pages, s \in Screens :
          page' = To(p, s) => /\ page'.udid = p.udid /\ page'.lost = p.lost
                            /\ page'.driverless = p.driverless
    BY ToType
  <2>1. CASE Ready \/ Refused \/ Reviewed
    BY <1>1, <2>0, <2>1 DEF Ready, Refused, Reviewed, Screens,
       TransferScreens, LibraryScreens
  <2>2. CASE ConnectionLost \/ Driver \/ Started \/ VerificationProgress
             \/ ScanComplete
    BY <1>1, <2>2 DEF ConnectionLost, Driver, Started,
       VerificationProgress, ScanComplete, Pages
  <2>3. CASE VerificationComplete
    <3> DEFINE q == Judged(page, Head(pipe).items)
    <3>1. /\ q \in Pages /\ q.udid = page.udid /\ q.lost = page.lost
          /\ q.driverless = page.driverless
      BY <1>1, <2>3, Verdict, JudgedType
    <3>2. page' = To(q, "ready_to_clean")
      BY <2>3, Verdict
    <3> HIDE DEF q
    <3> QED
      BY <2>0, <3>1, <3>2 DEF Screens, TransferScreens
  <2>4. CASE DeleteProgress
    <3> DEFINE q == IF Head(pipe).tag = "deleted"
                    THEN [page EXCEPT !.deleted = @ + 1] ELSE page
    <3>1. /\ q \in Pages /\ q.udid = page.udid /\ q.lost = page.lost
          /\ q.driverless = page.driverless
      BY <1>1 DEF Pages
    <3>2. page' = To(q, "done") \/ page' = q
      BY <2>4 DEF DeleteProgress
    <3> HIDE DEF q
    <3> QED
      BY <2>0, <3>1, <3>2 DEF Screens, TransferScreens
  <2> QED
    BY <1>2, <2>1, <2>2, <2>3, <2>4 DEF Receive, Loud
<1>3. CASE User
  <2>0. \A p \in Pages, s \in Screens :
          page' = To(p, s) => /\ page'.udid = p.udid /\ page'.lost = p.lost
                            /\ page'.driverless = p.driverless
    BY ToType
  <2>1. CASE StartTransfer \/ PauseTransfer \/ RecheckLibrary
    BY <1>1, <2>0, <2>1 DEF StartTransfer, PauseTransfer, RecheckLibrary,
       Screens, TransferScreens
  <2>2. CASE FreeUpSpace
    <3> DEFINE q == [page EXCEPT !.cleanups = @ + 1]
    <3>1. /\ q \in Pages /\ q.udid = page.udid /\ q.lost = page.lost
          /\ q.driverless = page.driverless
      BY <1>1 DEF Pages
    <3>2. page' = To(q, "deleting")
      BY <2>2 DEF FreeUpSpace
    <3> HIDE DEF q
    <3> QED
      BY <2>0, <3>1, <3>2 DEF Screens, TransferScreens
  <2>3. CASE ChooseFolder
    <3>1. PICK r \in Roots :
              page' = To([page EXCEPT !.root = r], "library-scanning")
      BY <2>3 DEF ChooseFolder
    <3> DEFINE q == [page EXCEPT !.root = r]
    <3>2. /\ q \in Pages /\ q.udid = page.udid /\ q.lost = page.lost
          /\ q.driverless = page.driverless
      BY <1>1 DEF Pages
    <3>3. page' = To(q, "library-scanning")
      BY <3>1
    <3> HIDE DEF q
    <3> QED
      BY <2>0, <3>2, <3>3 DEF Screens, LibraryScreens
  <2>4. CASE SwitchMode
    <3>1. PICK m \in Modes :
              page' = To([page EXCEPT !.mode = m],
                         IF m = "library" THEN page.libraryScreen
                                          ELSE page.transferScreen)
      BY <2>4 DEF SwitchMode, Modes
    <3> DEFINE q == [page EXCEPT !.mode = m]
               s == IF m = "library" THEN page.libraryScreen
                                     ELSE page.transferScreen
    <3>2. /\ q \in Pages /\ q.udid = page.udid /\ q.lost = page.lost
          /\ q.driverless = page.driverless
      BY <1>1 DEF Pages
    <3>3. s \in Screens
      BY <1>1 DEF Pages, Screens
    <3>4. page' = To(q, s)
      BY <3>1
    <3> HIDE DEF q, s
    <3> QED
      BY <2>0, <3>2, <3>3, <3>4
  <2> QED
    BY <1>3, <2>1, <2>2, <2>3, <2>4 DEF User
<1>4. CASE ~Receive /\ ~User
  BY <1>4 DEF Next, Plug, Unplug, Trust, Service, Poll, PollFails,
     PollMissing, PollLists, Handlers, ConnectTimesOut, ConnectFails,
     ConnectWorks, ListWorks, ListFails, Settings, Groups, StartWorks,
     StartFails, Jobs, RunCopies, RunLost, RunPaused, RunDrains, DeleteOne,
     DeleteWorks, DeleteFails, Removed, RunRaises, ScanEnds, ScanRaises
<1> QED
  BY <1>2, <1>3, <1>4

LEMMA QuietSteps ==
    ASSUME TypeInv, Next, ~Loud
    PROVE  Calmly
<1> USE DEF TypeInv
<1>1. page \in Pages
  BY DEF PageType
<1>2. asked \in [Calls -> Nat]
  BY DEF AskedType
<1>3. Says(pipe, pipe, News4)
  BY SaysSame
<1>4. \A t \in Tags \ News4 : Write(Msg(t)) => Says(pipe, pipe', News4)
  BY SaysWrite
<1>5. \A t \in Tags \ News4 : Got(t) => Says(pipe, pipe', News4)
  BY SaysGot
<1>12. page'.udid = page.udid /\ (page.lost => page'.lost)
  BY PageCalm DEF Loud
<1>6. CASE Trust \/ Service \/ PollFails
  BY <1>3, <1>6, FaultType DEF Trust, Service, PollFails, backend, Calmly,
     WorldType
<1>7. CASE PollMissing
  <2>1. Says(pipe, pipe', News4)
    BY <1>4, <1>7 DEF PollMissing, Tags, News4, PhoneNews
  <2> QED
    BY <1>7, <2>1 DEF PollMissing, backend, Calmly, WorldType
<1>8. CASE Handlers
  <2>1. Says(pipe, pipe', News4)
    BY <1>4, <1>8 DEF Handlers, Loud, ListFails, Settings, Groups, StartWorks,
       StartFails, Tags, News4, PhoneNews
  <2>2. /\ UNCHANGED <<watcher, phone, page, client>>
        /\ Taken("list") \/ Taken("settings") \/ Taken("groups") \/ Taken("start")
    BY <1>8 DEF Handlers, Loud, ListFails, Settings, Groups, StartWorks,
       StartFails, backend
  <2>3. asked'["connect"] = asked["connect"]
    BY <1>2, <2>2 DEF Taken, Calls
  <2>4. UNCHANGED spent \/ \E b \in BOOLEAN : FaultIf(b)
    BY <1>8 DEF Handlers, Loud, ListFails, Settings, Groups, StartWorks,
       StartFails, FaultIf
  <2>5. spent'.unplugs = spent.unplugs
    BY <2>4, FaultType
  <2> QED
    BY <2>1, <2>2, <2>3, <2>5 DEF Calmly
<1>9. CASE Jobs
  <2>1. Says(pipe, pipe', News4)
    <3>1. CASE \E bad \in SUBSET Photos : RunDrains(bad)
      BY <3>1, SaysDrains DEF News4, PhoneNews
    <3>2. CASE \E i \in Photos : RunCopies(i)
      BY <1>3, <3>2 DEF RunCopies
    <3>3. CASE \/ RunLost \/ RunPaused \/ RunRaises \/ DeleteOne
             \/ ScanEnds \/ ScanRaises
      <4>1. \/ UNCHANGED pipe \/ Write(Msg("connection_lost"))
            \/ Write(Msg("deleted")) \/ Write(Msg("kept"))
            \/ Write(Msg("library_scan_complete"))
        BY <3>3 DEF RunLost, RunPaused, DeleteOne, DeleteWorks, DeleteFails,
           RunRaises, ScanEnds, ScanRaises
      <4> QED
        BY <1>3, <1>4, <4>1 DEF Tags, News4, PhoneNews
    <3> QED
      BY <1>9, <3>1, <3>2, <3>3 DEF Jobs
  <2>2. UNCHANGED <<watcher, phone, page, client, asked>>
    BY <1>9 DEF Jobs, RunCopies, RunLost, RunPaused, RunDrains, DeleteOne,
       DeleteWorks, DeleteFails, Removed, RunRaises, ScanEnds, ScanRaises
  <2>3. \/ UNCHANGED spent \/ \E b \in BOOLEAN : FaultIf(b)
        \/ \E j \in {"run", "scan"} : Dies(j)
    BY <1>9 DEF Jobs, RunCopies, RunLost, RunPaused, RunDrains, DeleteOne,
       DeleteWorks, DeleteFails, Removed, RunRaises, ScanEnds, ScanRaises,
       FaultIf
  <2>4. spent'.unplugs = spent.unplugs
    BY <2>3, FaultType, DiesType
  <2> QED
    BY <2>1, <2>2, <2>4 DEF Calmly
<1>10. CASE Receive
  <2>1. Says(pipe, pipe', News4)
    BY <1>5, <1>10 DEF Receive, Loud, Ready, Refused, ConnectionLost, Driver,
       Started, VerificationProgress, VerificationComplete, DeleteProgress,
       ScanComplete, Reviewed, Tags, News4, PhoneNews
  <2>2. UNCHANGED <<watcher, phone, client, spent>>
    BY <1>10 DEF Receive, Loud, Ready, Refused, ConnectionLost, Driver,
       Started, VerificationProgress, VerificationComplete, DeleteProgress,
       ScanComplete, Reviewed, Elsewhere, backend
  <2>3. UNCHANGED asked \/ Ask("settings") \/ Ask("groups")
    BY <1>10 DEF Receive, Loud, Ready, Refused, ConnectionLost, Driver,
       Started, VerificationProgress, VerificationComplete, DeleteProgress,
       ScanComplete, Reviewed
  <2>4. asked'["connect"] = asked["connect"]
    BY <1>2, <2>3 DEF Ask, Calls
  <2>5. page'.udid = page.udid /\ (page.lost => page'.lost)
    BY <1>12, <1>10 DEF Loud
  <2> QED
    BY <2>1, <2>2, <2>4, <2>5 DEF Calmly
<1>11. CASE User
  <2>1. UNCHANGED <<pipe, watcher, phone, client>>
    BY <1>11 DEF User, StartTransfer, PauseTransfer, FreeUpSpace,
       RecheckLibrary, ChooseFolder, SwitchMode, Click, backend
  <2>2. spent'.unplugs = spent.unplugs
    <3>1. CASE SwitchMode
      BY <3>1 DEF SwitchMode, WorldType
    <3>2. CASE ~SwitchMode
      BY <1>11, <3>2, ClickType DEF User, StartTransfer, PauseTransfer,
         FreeUpSpace, RecheckLibrary, ChooseFolder
    <3> QED
      BY <3>1, <3>2
  <2>3. UNCHANGED asked \/ Ask("start") \/ Ask("list")
    BY <1>11 DEF User, StartTransfer, PauseTransfer, FreeUpSpace,
       RecheckLibrary, ChooseFolder, SwitchMode
  <2>4. asked'["connect"] = asked["connect"]
    BY <1>2, <2>3 DEF Ask, Calls
  <2>5. page'.udid = page.udid /\ (page.lost => page'.lost)
    BY <1>12
  <2> QED
    BY <1>3, <2>1, <2>2, <2>4, <2>5 DEF Calmly
<1> QED
  BY <1>6, <1>7, <1>8, <1>9, <1>10, <1>11 DEF Next, Loud, Poll

LEMMA Counts == ASSUME TypeInv
    PROVE  /\ spent.unplugs \in Nat /\ asked["connect"] \in Nat
           /\ phone.plugged \in BOOLEAN /\ watcher.known \in BOOLEAN
BY DEF TypeInv, WorldType, Expenses, AskedType, Calls

LEMMA GotNews ==
    ASSUME PipeType, NEW h, Got(h)
    PROVE  \A T : /\ Carries(pipe, T) <=> h \in T \/ Carries(pipe', T)
                  /\ Single(pipe, T) => Single(pipe', T)
                  /\ Single(pipe, T) /\ h \in T => ~Carries(pipe', T)
<1> SUFFICES ASSUME NEW T
             PROVE  /\ Carries(pipe, T) <=> h \in T \/ Carries(pipe', T)
                    /\ Single(pipe, T) => Single(pipe', T)
                    /\ Single(pipe, T) /\ h \in T => ~Carries(pipe', T)
  OBVIOUS
<1>1. /\ pipe \in Seq(Messages) /\ pipe # <<>> /\ pipe' = Tail(pipe)
      /\ Head(pipe).tag = h
  BY DEF Got, PipeType
<1> QED
  BY <1>1, TailNews

LEMMA CableSteps ==
    ASSUME TypeInv, PhoneHeard, History, Plug \/ Unplug,
           NotBegun => NotBegun'
    PROVE  PhoneHeard' /\ History'
<1>1. UNCHANGED <<pipe, asked, page, watcher>>
  BY DEF Plug, Unplug
<1>2. spent.unplugs \in Nat /\ spent'.unplugs \in Nat
      /\ spent.unplugs <= spent'.unplugs
  BY DEF Plug, Unplug, TypeInv, WorldType, Expenses
<1>3. PhoneHeard'
  BY <1>1, <1>2 DEF PhoneHeard
<1>4. /\ OneConnect => OneConnect'
      /\ Underway' <=> Underway
      /\ FirstTime => FirstTime'
      /\ Forgotten' <=> Forgotten
  BY <1>1 DEF OneConnect, Underway, FirstTime, Forgotten
<1>5. CASE Plug
  <2>1. phone'.plugged /\ client' = client /\ spent' = spent /\ ~phone.plugged
    BY <1>5 DEF Plug, backend, TypeInv, WorldType
  <2>2. (NeverSeen => NeverSeen') /\ (Severed => Severed') /\ (Unmet => Unmet')
    BY <1>1, <1>4, <2>1 DEF NeverSeen, Severed, Unmet
  <2> QED
    BY <1>1, <1>3, <1>4, <2>1, <2>2 DEF History
<1>6. CASE Unplug
  <2>1. client' # "live" /\ spent'.unplugs = spent.unplugs + 1
    BY <1>6 DEF Unplug, TypeInv, WorldType
  <2> QED
    BY <1>1, <1>2, <1>3, <1>4, <2>1 DEF History, NeverSeen
<1> QED
  BY <1>5, <1>6

\* The connect call is answered.
LEMMA ConnectSteps ==
    ASSUME TypeInv, PhoneHeard, History,
           ConnectTimesOut \/ ConnectFails \/ ConnectWorks,
           NotBegun => NotBegun'
    PROVE  PhoneHeard' /\ History'
<1> USE DEF TypeInv
<1>1. /\ UNCHANGED <<page, watcher, phone>>
      /\ spent'.unplugs = spent.unplugs
  BY FaultType DEF ConnectTimesOut, ConnectFails, ConnectWorks
<1>2. /\ asked["connect"] \in Nat /\ asked["connect"] > 0
      /\ asked'["connect"] = asked["connect"] - 1
  BY DEF ConnectTimesOut, ConnectFails, ConnectWorks, Taken, AskedType, Calls
<1>3. Underway
  BY <1>2 DEF Underway
<1>4. ~NeverSeen /\ ~Severed
  BY <1>2, <1>3 DEF NeverSeen, Severed
<1>5. CASE ConnectTimesOut \/ ConnectFails
  <2>1. Says(pipe, pipe', News4)
    BY <1>5, SaysWrite DEF ConnectTimesOut, ConnectFails, Tags, News4, PhoneNews
  <2>2. client' = "live" => client = "live"
    BY <1>5 DEF ConnectTimesOut, ConnectFails, backend
  <2>3. /\ \A T \in {PhoneNews, Arrives, Departs} :
            /\ Carries(pipe', T) <=> Carries(pipe, T)
            /\ Single(pipe, T) => Single(pipe', T)
            /\ \A t : Latest(pipe', T, t) <=> Latest(pipe, T, t)
        /\ Followed(pipe, {"device_connected"}, Departs)
                => Followed(pipe', {"device_connected"}, Departs)
        /\ Led(pipe, {"connected"}, Departs) => Led(pipe', {"connected"}, Departs)
    <3>1. {PhoneNews, Arrives, Departs, {"device_connected"}, {"connected"}}
              \subseteq SUBSET News4
      BY DEF News4, PhoneNews, Departs, Arrives
    <3> QED
      BY <2>1, <3>1 DEF Says
  <2>4. PhoneHeard' /\ (Forgotten => Forgotten')
    BY <1>1, <2>3 DEF PhoneHeard, Forgotten
  <2>5. OneConnect => OneConnect'
    BY <1>2, <2>3 DEF OneConnect
  <2>6. (FirstTime => FirstTime') /\ (Unmet => Unmet')
    BY <1>3, <2>3, <2>5 DEF FirstTime, Unmet
  <2> QED
    BY <1>1, <1>4, <2>2, <2>4, <2>6 DEF History
<1>6. CASE ConnectWorks
  <2> DEFINE m == Msg("connected")
  <2>1. m \in Messages /\ m.tag = "connected" /\ pipe' = Append(pipe, m)
        /\ pipe \in Seq(Messages)
    BY <1>6, MsgType DEF ConnectWorks, Write, Tags, PipeType
  <2> HIDE DEF m
  <2>2. client' = "live" /\ phone.plugged
    BY <1>6 DEF ConnectWorks
  <2>3. /\ Carries(pipe', PhoneNews) <=> Carries(pipe, PhoneNews)
        /\ Carries(pipe', Departs) <=> Carries(pipe, Departs)
        /\ Carries(pipe', Arrives)
        /\ ~Carries(pipe, Arrives) => Single(pipe', Arrives)
        /\ Single(pipe, Departs) => Single(pipe', Departs)
        /\ Latest(pipe', PhoneNews, "device_connected")
                <=> Latest(pipe, PhoneNews, "device_connected")
    BY <2>1, AppendNews, Kinds DEF PhoneNews, Departs, Arrives
  <2>4. /\ Followed(pipe, {"device_connected"}, Departs)
                => Followed(pipe', {"device_connected"}, Departs)
        /\ Led(pipe, {"connected"}, Departs) /\ Carries(pipe, Departs)
                => Led(pipe', {"connected"}, Departs)
    BY <2>1, AppendOrder
  <2>5. PhoneHeard' /\ (Forgotten => Forgotten')
    BY <1>1, <2>3 DEF PhoneHeard, Forgotten
  <2>6. OneConnect => OneConnect'
    BY <1>2, <2>3 DEF OneConnect
  <2>7. (FirstTime => FirstTime') /\ (Unmet => Unmet')
    BY <1>3, <2>3, <2>4, <2>6 DEF FirstTime, Unmet
  <2> QED
    BY <1>1, <1>4, <2>2, <2>5, <2>7 DEF History
<1> QED
  BY <1>5, <1>6

\* The library is listed: that comes of a connection the page saw.
LEMMA ListStep ==
    ASSUME TypeInv, PhoneHeard, History,
           NEW gone \in SUBSET Photos, ListWorks(gone)
    PROVE  PhoneHeard' /\ History'
<1> USE DEF TypeInv
<1>1. /\ UNCHANGED <<page, watcher, phone, client>>
      /\ spent'.unplugs = spent.unplugs
  BY FaultType DEF ListWorks
<1>2. asked'["connect"] = asked["connect"] /\ asked["list"] > 0
  BY DEF ListWorks, Taken, AskedType, Calls
<1>3. client = "live"
  BY DEF ListWorks
<1>4. ~NotBegun
  BY <1>2 DEF NotBegun, AskedType, Calls
<1> DEFINE m == Msg("listed")
<1>5. m \in Messages /\ m.tag = "listed" /\ pipe' = Append(pipe, m)
      /\ pipe \in Seq(Messages)
  BY MsgType DEF ListWorks, Write, Tags, PipeType
<1> HIDE DEF m
<1>6. \A T \in {PhoneNews, Departs, Arrives} :
        /\ Carries(pipe', T) <=> Carries(pipe, T)
        /\ \A t : Latest(pipe', T, t) <=> Latest(pipe, T, t)
  BY <1>5, AppendNews DEF PhoneNews, Departs, Arrives
<1>7. PhoneHeard' /\ (Forgotten => Forgotten')
  BY <1>1, <1>6 DEF PhoneHeard, Forgotten
<1>8. FirstTime => FirstTime'
  <2>1. ASSUME FirstTime PROVE ~Underway
    BY <1>4, <2>1 DEF FirstTime
  <2>2. Underway' <=> Underway
    BY <1>2, <1>6 DEF Underway
  <2>3. ~Underway' => OneConnect'
    <3>1. ~Carries(pipe', Arrives) => Single(pipe', Arrives)
      BY Kinds
    <3>2. asked["connect"] \in Nat
      BY DEF AskedType, Calls
    <3> QED
      BY <1>2, <3>1, <3>2 DEF Underway, OneConnect
  <2> QED
    BY <1>6, <2>1, <2>2, <2>3 DEF FirstTime
<1> QED
  BY <1>1, <1>3, <1>4, <1>7, <1>8 DEF History, NeverSeen, Severed, Unmet

\* The page hears that the phone is there.
LEMMA ArriveStep ==
    ASSUME TypeInv, PhoneHeard, History, DeviceConnected,
           NotBegun => NotBegun'
    PROVE  PhoneHeard' /\ History'
<1> USE DEF TypeInv
<1>1. UNCHANGED <<watcher, phone, client, spent>>
  BY DEF DeviceConnected, Elsewhere, backend
<1>2. asked["connect"] \in Nat /\ asked'["connect"] = asked["connect"] + 1
  BY DEF DeviceConnected, Ask, AskedType, Calls
<1>3. page'.udid
  <2>1. page \in Pages
    BY DEF PageType
  <2> DEFINE q == [page EXCEPT !.udid = TRUE, !.lost = FALSE]
  <2>2. q \in Pages /\ q.udid = TRUE
    BY <2>1 DEF Pages
  <2>3. page' = To(q, "awaiting_trust")
    BY DEF DeviceConnected
  <2> HIDE DEF q
  <2> QED
    BY <2>2, <2>3, ToType DEF Screens, TransferScreens
<1>4. /\ pipe \in Seq(Messages) /\ pipe # <<>> /\ pipe' = Tail(pipe)
      /\ Head(pipe).tag = "device_connected"
  BY DEF DeviceConnected, Got, PipeType
<1>5. /\ Carries(pipe, {"device_connected"}) /\ Carries(pipe, Arrives)
      /\ Carries(pipe, PhoneNews)
      /\ Carries(pipe', Departs) <=> Carries(pipe, Departs)
      /\ Single(pipe, Arrives) => Single(pipe', Arrives) /\ ~Carries(pipe', Arrives)
      /\ Single(pipe, Departs) => Single(pipe', Departs)
  BY GotNews DEF DeviceConnected, Arrives, PhoneNews, Departs
<1>6. IF Carries(pipe', PhoneNews)
      THEN Latest(pipe', PhoneNews, "device_connected") <=> Latest(pipe, PhoneNews, "device_connected")
      ELSE Latest(pipe, PhoneNews, "device_connected")
  BY <1>4, TailNews DEF PhoneNews
<1>7. /\ Followed(pipe, {"device_connected"}, Departs)
            => Followed(pipe', {"device_connected"}, Departs)
      /\ Led(pipe, {"connected"}, Departs) => Led(pipe', {"connected"}, Departs)
  BY <1>4, TailOrder DEF Departs
<1>8. PhoneHeard'
  BY <1>1, <1>3, <1>5, <1>6 DEF PhoneHeard
<1>9. Underway /\ ~NeverSeen /\ ~Forgotten /\ ~Severed
  BY <1>5 DEF Underway, NeverSeen, Forgotten, Severed
<1>10. OneConnect => OneConnect'
  BY <1>2, <1>5 DEF OneConnect
<1>11. (FirstTime => FirstTime') /\ (Unmet => Unmet')
  BY <1>5, <1>7, <1>9, <1>10 DEF FirstTime, Unmet
<1> QED
  BY <1>1, <1>8, <1>9, <1>11 DEF History

\* The page sees the connection: from here on it may ask for listings.
LEMMA ConnectedStep ==
    ASSUME TypeInv, PhoneHeard, History, Connected
    PROVE  PhoneHeard' /\ History'
<1> USE DEF TypeInv
<1>1. UNCHANGED <<watcher, phone, client, spent>>
  BY DEF Connected, Elsewhere, backend
<1>2. asked["connect"] \in Nat /\ asked'["connect"] = asked["connect"]
  BY DEF Connected, Ask, AskedType, Calls
<1>3. page'.udid = page.udid /\ page'.lost = page.lost
  BY ToType DEF Connected, PageType, Screens, TransferScreens
<1>4. /\ pipe \in Seq(Messages) /\ pipe # <<>> /\ pipe' = Tail(pipe)
      /\ Head(pipe).tag = "connected"
  BY DEF Connected, Got, PipeType
<1>5. /\ Carries(pipe, Arrives)
      /\ Carries(pipe', PhoneNews) <=> Carries(pipe, PhoneNews)
      /\ Carries(pipe', Departs) <=> Carries(pipe, Departs)
      /\ Carries(pipe', {"device_connected"}) <=> Carries(pipe, {"device_connected"})
      /\ Single(pipe, Arrives) => Single(pipe', Arrives) /\ ~Carries(pipe', Arrives)
  BY GotNews DEF Connected, Arrives, PhoneNews, Departs
<1>6. Carries(pipe', PhoneNews) =>
        (Latest(pipe', PhoneNews, "device_connected") <=> Latest(pipe, PhoneNews, "device_connected"))
  BY <1>4, TailNews
<1>7. /\ Followed(pipe, {"connected", "listed"}, Departs)
            => Followed(pipe', {"connected", "listed"}, Departs)
      /\ ~Led(pipe, {"connected"}, Departs)
  BY <1>4, TailOrder
<1>8. PhoneHeard' /\ (Forgotten => Forgotten')
  BY <1>1, <1>3, <1>5, <1>6 DEF PhoneHeard, Forgotten
<1>9. Underway /\ ~NeverSeen /\ ~Unmet
  BY <1>5, <1>7 DEF Underway, NeverSeen, Unmet
<1>10. FirstTime => FirstTime'
  BY <1>2, <1>5 DEF FirstTime, OneConnect, Underway
<1>11. Severed => Severed'
  BY <1>1, <1>2, <1>5, <1>7 DEF Severed
<1> QED
  BY <1>1, <1>8, <1>9, <1>10, <1>11 DEF History

\* The page takes the banner away: not when the phone is gone.
LEMMA ListedStep ==
    ASSUME TypeInv, PhoneHeard, History, Listed
    PROVE  PhoneHeard' /\ History'
<1> USE DEF TypeInv
<1>1. UNCHANGED <<watcher, phone, client, spent>>
  BY DEF Listed, Elsewhere, backend
<1>2. asked["connect"] \in Nat /\ asked'["connect"] = asked["connect"]
  BY DEF Listed, Ask, AskedType, Calls
<1>3. page'.udid = page.udid
  BY DEF Listed, PageType, Pages
<1>4. /\ pipe \in Seq(Messages) /\ pipe # <<>> /\ pipe' = Tail(pipe)
      /\ Head(pipe).tag = "listed"
  BY DEF Listed, Got, PipeType
<1>5. /\ Carries(pipe, FirstHand)
      /\ \A T \in {PhoneNews, Departs, Arrives, {"device_connected"}} :
            /\ Carries(pipe', T) <=> Carries(pipe, T)
            /\ Single(pipe, T) => Single(pipe', T)
  BY GotNews DEF Listed, Arrives, PhoneNews, Departs, FirstHand
<1>6. Carries(pipe', PhoneNews) =>
        (Latest(pipe', PhoneNews, "device_connected") <=> Latest(pipe, PhoneNews, "device_connected"))
  BY <1>4, TailNews
<1>7. Followed(pipe, {"connected", "listed"}, Departs)
        => Followed(pipe', {"connected", "listed"}, Departs) /\ Carries(pipe', Departs)
  BY <1>4, TailOrder
<1>8. ~NotBegun /\ ~NeverSeen /\ ~Unmet
  BY <1>5 DEF NotBegun, NeverSeen, Unmet
<1>9. ~watcher.known /\ ~Carries(pipe', PhoneNews) => ~page.udid \/ spent.unplugs > 1
  <2>1. Carries(pipe', Departs) => Carries(pipe', PhoneNews)
    BY Kinds
  <2>2. spent.unplugs \in Nat
    BY DEF WorldType, Expenses
  <2> QED
    BY <1>7, <1>8, <2>1, <2>2 DEF History, Severed, Forgotten
<1>10. PhoneHeard' /\ (Forgotten => Forgotten')
  BY <1>1, <1>3, <1>5, <1>6, <1>9 DEF PhoneHeard, Forgotten
<1>11. (FirstTime => FirstTime') /\ (Severed => Severed')
  BY <1>1, <1>2, <1>5, <1>7, <1>8
     DEF FirstTime, OneConnect, Underway, Severed
<1> QED
  BY <1>1, <1>8, <1>10, <1>11 DEF History

\* The page hears that the phone is gone.
LEMMA DepartStep ==
    ASSUME TypeInv, PhoneHeard, History, DeviceDisconnected,
           NotBegun => NotBegun'
    PROVE  PhoneHeard' /\ History'
<1> USE DEF TypeInv
<1>1. UNCHANGED <<watcher, phone, client, spent, asked>>
  BY DEF DeviceDisconnected, Elsewhere, backend
<1>2. /\ page'.lost \/ ~page'.udid
      /\ NotBegun => ~page'.udid
  <2>1. page \in Pages
    BY DEF PageType
  <2> DEFINE q == [page EXCEPT !.udid = FALSE]
  <2>2. q \in Pages /\ q.udid = FALSE
    BY <2>1 DEF Pages
  <2>3. page' = To(q, "disconnected") => ~page'.udid
    <3> HIDE DEF q
    <3> QED
      BY <2>2, ToType DEF Screens, TransferScreens
  <2>4. NotBegun => page.screen # "transferring"
    BY Screenshot DEF NotBegun, TransferScreens
  <2>5. page' = [page EXCEPT !.lost = TRUE] => page'.lost
    BY <2>1 DEF Pages
  <2> QED
    BY <2>3, <2>4, <2>5 DEF DeviceDisconnected
<1>3. /\ pipe \in Seq(Messages) /\ pipe # <<>> /\ pipe' = Tail(pipe)
      /\ Head(pipe).tag = "device_disconnected"
  BY DEF DeviceDisconnected, Got, PipeType
<1>4. /\ Carries(pipe, Departs) /\ Carries(pipe, PhoneNews)
      /\ Carries(pipe', {"device_connected"}) <=> Carries(pipe, {"device_connected"})
      /\ Single(pipe, Departs) => ~Carries(pipe', Departs)
  BY GotNews DEF DeviceDisconnected, PhoneNews, Departs
<1>5. IF Carries(pipe', PhoneNews)
      THEN Latest(pipe', PhoneNews, "device_connected") <=> Latest(pipe, PhoneNews, "device_connected")
      ELSE ~Latest(pipe, PhoneNews, "device_connected")
  BY <1>3, TailNews DEF PhoneNews
<1>6. /\ Followed(pipe, {"connected", "listed"}, Departs)
            => Followed(pipe', {"connected", "listed"}, Departs)
      /\ Followed(pipe, {"device_connected"}, Departs)
            => Followed(pipe', {"device_connected"}, Departs)
  BY <1>3, TailOrder
<1>7. PhoneHeard'
  BY <1>1, <1>2, <1>4, <1>5 DEF PhoneHeard
<1>8. ~NeverSeen /\ ~Forgotten /\ ~FirstTime
  BY <1>4 DEF NeverSeen, Forgotten, FirstTime
<1>9. Severed => Severed'
  BY <1>1, <1>4, <1>6 DEF Severed
<1>10. Unmet => Forgotten'
  <2>1. ASSUME Unmet PROVE ~Carries(pipe', PhoneNews)
    BY <1>4, <1>6, <2>1, Kinds DEF Unmet
  <2> QED
    BY <1>2, <2>1 DEF Unmet, Forgotten
<1> QED
  BY <1>1, <1>7, <1>8, <1>9, <1>10 DEF History

\* What poll_once writes: of the driver first, then of the phone.
LEMMA PollWrites ==
    ASSUME PipeType, PollLists
    PROVE  \E s \in Seq(Messages) :
            /\ \/ s = pipe /\ ~watcher.missing
               \/ s = Append(pipe, Msg("driver_available")) /\ watcher.missing
            /\ IF phone.plugged = watcher.known THEN pipe' = s
               ELSE pipe' = Append(s, Msg(IF phone.plugged THEN "device_connected"
                                                           ELSE "device_disconnected"))
<1> DEFINE first == IF watcher.missing THEN <<Msg("driver_available")>> ELSE <<>>
           m == Msg(IF phone.plugged THEN "device_connected"
                                     ELSE "device_disconnected")
           second == IF phone.plugged = watcher.known THEN <<>> ELSE <<m>>
           s == pipe \o first
<1>1. Msg("driver_available") \in Messages /\ m \in Messages
  BY MsgType DEF Tags
<1>2. first \in Seq(Messages) /\ second \in Seq(Messages) /\ pipe \in Seq(Messages)
  BY <1>1 DEF PipeType
<1>3. News = first \o second
  BY DEF News
<1>4. pipe' = pipe \o (first \o second)
  BY <1>3 DEF PollLists
<1>5. s \in Seq(Messages)
  BY <1>2, SeqJoin
<1>6. pipe' = s \o second
  <2> HIDE DEF first, second
  <2> QED
    BY <1>2, <1>4, ConcatAssociative
<1>7. \/ s = pipe /\ ~watcher.missing
      \/ s = Append(pipe, Msg("driver_available")) /\ watcher.missing
  BY <1>1, <1>2, AppendIsConcat, ConcatEmptySeq
<1>8. IF phone.plugged = watcher.known THEN pipe' = s ELSE pipe' = Append(s, m)
  <2> HIDE DEF s, m
  <2> QED
    BY <1>1, <1>5, <1>6, AppendIsConcat, ConcatEmptySeq
<1> QED
  BY <1>5, <1>7, <1>8

LEMMA PollStep ==
    ASSUME TypeInv, PhoneHeard, History, PollLists,
           NotBegun => NotBegun'
    PROVE  PhoneHeard' /\ History'
<1> USE DEF TypeInv
<1>1. UNCHANGED <<phone, asked, client, page, spent>>
      /\ watcher'.known = phone.plugged
  BY DEF PollLists, backend
<1>2. /\ phone.plugged \in BOOLEAN /\ watcher.known \in BOOLEAN
      /\ spent.unplugs \in Nat /\ asked["connect"] \in Nat
  BY Counts
<1> DEFINE m == Msg(IF phone.plugged THEN "device_connected"
                                     ELSE "device_disconnected")
<1>3. PICK s \in Seq(Messages) :
        /\ s = pipe \/ s = Append(pipe, Msg("driver_available"))
        /\ IF phone.plugged = watcher.known THEN pipe' = s
           ELSE pipe' = Append(s, m)
  BY PollWrites
<1>4. Says(pipe, s, News4)
  <2>1. /\ Msg("driver_available") \in Messages
        /\ Msg("driver_available").tag \notin News4
    BY MsgType DEF Tags, News4, PhoneNews
  <2> QED
    BY <1>3, <2>1, SaysSame, SaysAppend DEF PipeType
<1>5. CASE phone.plugged = watcher.known
  <2>1. Calmly
    BY <1>1, <1>3, <1>4, <1>5 DEF Calmly
  <2> QED
    BY <2>1, CalmStays
<1>6. CASE phone.plugged # watcher.known
  <2>1. /\ m \in Messages /\ pipe' = Append(s, m)
        /\ m.tag = IF phone.plugged THEN "device_connected"
                                    ELSE "device_disconnected"
    BY <1>3, <1>6, MsgType DEF Tags
  <2> HIDE DEF m
  <2>2. Carries(pipe', PhoneNews)
        /\ (Latest(pipe', PhoneNews, "device_connected") <=> phone.plugged)
    <3>1. m.tag \in PhoneNews /\ (m.tag = "device_connected" <=> phone.plugged)
      BY <1>2, <2>1 DEF PhoneNews
    <3> QED
      BY <2>1, <3>1, AppendNews
  <2>3. PhoneHeard'
    BY <1>1, <2>2 DEF PhoneHeard
  <2>4. /\ \A T \in {Arrives, Departs, {"device_connected"}, {"connected"}} :
            Carries(s, T) <=> Carries(pipe, T)
        /\ Single(pipe, Arrives) => Single(s, Arrives)
    <3>1. {Arrives, Departs, {"device_connected"}, {"connected"}} \subseteq SUBSET News4
      BY DEF News4, PhoneNews, Departs, Arrives
    <3> QED
      BY <1>4, <3>1 DEF Says
  <2>5. CASE phone.plugged
    <3>1. ASSUME NeverSeen PROVE FirstTime'
      <4>1. asked'["connect"] = 0 /\ ~Carries(s, Arrives) /\ NotBegun'
        BY <1>1, <1>2, <2>4, <3>1 DEF NeverSeen, Underway
      <4>2. Single(pipe', Arrives)
        BY <2>1, <4>1, Kinds, AppendNews
      <4>3. ~Carries(pipe', Departs)
        <5>1. ~Carries(s, Departs)
          BY <2>4, <3>1, Kinds DEF NeverSeen, Forgotten
        <5> QED
          BY <2>1, <2>5, <5>1, AppendNews DEF Departs
      <4> QED
        BY <4>1, <4>2, <4>3 DEF FirstTime, OneConnect
    <3> QED
      BY <1>1, <1>2, <1>6, <2>3, <2>5, <3>1 DEF History
  <2>6. CASE ~phone.plugged
    <3>1. /\ m.tag = "device_disconnected" /\ watcher.known /\ ~watcher'.known
          /\ client # "live" /\ spent.unplugs # 0
      BY <1>1, <1>2, <1>6, <2>1, <2>6 DEF History
    <3>2. ASSUME FirstTime PROVE Severed' \/ Unmet'
      <4>1. CASE asked["connect"] = 0 /\ ~Carries(pipe, {"device_connected"})
        <5>1. ~Carries(pipe', {"device_connected"})
          BY <2>1, <2>4, <3>1, <4>1, AppendNews
        <5>2. Followed(pipe', {"connected", "listed"}, Departs)
          BY <2>1, <3>1, AppendOrder DEF Departs
        <5> QED
          BY <1>1, <3>1, <4>1, <5>1, <5>2 DEF Severed
      <4>2. CASE ~(asked["connect"] = 0 /\ ~Carries(pipe, {"device_connected"}))
        <5>1. Underway /\ NotBegun'
          BY <1>2, <3>2, <4>2, Kinds DEF Underway, FirstTime
        <5>2. ~Carries(pipe, {"connected"})
          BY <1>2, <3>2, <4>2, Kinds DEF FirstTime, OneConnect
        <5>3. /\ Carries(pipe', Arrives) <=> Carries(pipe, Arrives)
              /\ Single(pipe, Arrives) => Single(pipe', Arrives)
          BY <2>1, <2>4, <3>1, AppendNews DEF Arrives
        <5>4. OneConnect'
          BY <1>1, <3>2, <5>3 DEF FirstTime, OneConnect
        <5>5. Carries(pipe', Departs) /\ Single(pipe', Departs)
          <6>1. ~Carries(s, Departs)
            BY <2>4, <3>2 DEF FirstTime
          <6> QED
            BY <2>1, <3>1, <6>1, Kinds, AppendNews DEF Departs
        <5>6. Followed(pipe', {"device_connected"}, Departs)
          BY <2>1, <3>1, AppendOrder DEF Departs
        <5>7. Led(pipe', {"connected"}, Departs)
          <6>1. ~Carries(pipe', {"connected"})
            BY <2>1, <2>4, <3>1, <5>2, AppendNews
          <6> QED
            BY <6>1, Kinds
        <5> QED
          BY <5>1, <5>4, <5>5, <5>6, <5>7 DEF Unmet
      <4> QED
        BY <4>1, <4>2
    <3> QED
      BY <1>1, <1>2, <2>3, <2>6, <3>1, <3>2 DEF History
  <2> QED
    BY <1>2, <2>5, <2>6
<1> QED
  BY <1>5, <1>6

LEMMA PhoneNext ==
    TypeInv /\ PhoneHeard /\ History /\ [Next]_vars => PhoneHeard' /\ History'
<1> SUFFICES ASSUME TypeInv, PhoneHeard, History, [Next]_vars
             PROVE  PhoneHeard' /\ History'
  OBVIOUS
<1>1. CASE UNCHANGED vars
  <2>1. Calmly /\ (NotBegun => NotBegun')
    BY <1>1, SaysSame DEF vars, backend, Calmly, NotBegun
  <2> QED
    BY <2>1, CalmStays
<1>2. CASE Next
  <2>1. CASE Connected
    BY <2>1, ConnectedStep
  <2>2. CASE ~Connected
    <3>1. NotBegun => NotBegun'
      BY <1>2, <2>2, NotBegunStays
    <3> QED
      BY <1>2, <2>2, <3>1, QuietSteps, CalmStays, CableSteps, PollStep,
         ConnectSteps, ListStep, ArriveStep, ListedStep, DepartStep DEF Loud
  <2> QED
    BY <2>1, <2>2
<1> QED
  BY <1>1, <1>2

LEMMA DriverNext ==
    TypeInv /\ DriverHeard /\ [Next]_vars => DriverHeard'
<1> SUFFICES ASSUME TypeInv, DriverHeard, [Next]_vars
             PROVE  DriverHeard'
  OBVIOUS
<1> USE DEF TypeInv
<1>1. page \in Pages /\ pipe \in Seq(Messages)
  BY DEF PageType, PipeType
<1>2. /\ Says(pipe, pipe', DriverNews) /\ page'.driverless = page.driverless
      /\ watcher'.missing <=> watcher.missing
      => DriverHeard'
  BY DEF Says, DriverHeard
<1>3. /\ Says(pipe, pipe, DriverNews)
      /\ \A t \in Tags \ DriverNews :
            Write(Msg(t)) \/ Got(t) => Says(pipe, pipe', DriverNews)
  BY SaysSame, SaysWrite, SaysGot
<1>4. CASE UNCHANGED vars
  BY <1>2, <1>3, <1>4 DEF vars
<1>5. CASE PollMissing
  <2> DEFINE m == Msg("driver_missing")
  <2>1. /\ m \in Messages /\ m.tag = "driver_missing" /\ pipe' = Append(pipe, m)
        /\ watcher'.missing
    BY <1>5, MsgType DEF PollMissing, Write, Tags, WorldType
  <2> HIDE DEF m
  <2>2. Carries(pipe', DriverNews) /\ Latest(pipe', DriverNews, "driver_missing")
    BY <1>1, <2>1, AppendNews DEF DriverNews
  <2> QED
    BY <2>1, <2>2 DEF DriverHeard
<1>6. CASE PollLists
  <2>1. PICK s \in Seq(Messages) :
            /\ \/ s = pipe /\ ~watcher.missing
               \/ s = Append(pipe, Msg("driver_available")) /\ watcher.missing
            /\ IF phone.plugged = watcher.known THEN pipe' = s
               ELSE pipe' = Append(s, Msg(IF phone.plugged THEN "device_connected"
                                                           ELSE "device_disconnected"))
    BY <1>6, PollWrites
  <2>2. ~watcher'.missing /\ UNCHANGED page
    BY <1>6 DEF PollLists
  <2>3. Says(s, pipe', DriverNews)
    <3>1. \A t \in {"device_connected", "device_disconnected"} :
            Msg(t) \in Messages /\ Msg(t).tag \notin DriverNews
      BY MsgType DEF Tags, DriverNews
    <3> QED
      BY <2>1, <3>1, SaysSame, SaysAppend
  <2>4. CASE s = pipe /\ ~watcher.missing
    BY <1>2, <2>2, <2>3, <2>4
  <2>5. CASE s = Append(pipe, Msg("driver_available"))
    <3> DEFINE m == Msg("driver_available")
    <3>1. m \in Messages /\ m.tag = "driver_available" /\ s = Append(pipe, m)
      BY <2>5, MsgType DEF Tags
    <3> HIDE DEF m
    <3>2. Carries(s, DriverNews) /\ ~Latest(s, DriverNews, "driver_missing")
      <4>1. m.tag \in DriverNews /\ m.tag # "driver_missing"
        BY <3>1 DEF DriverNews
      <4> QED
        BY <1>1, <3>1, <4>1, AppendNews
    <3>3. Carries(pipe', DriverNews) /\ ~Latest(pipe', DriverNews, "driver_missing")
      BY <2>3, <3>2 DEF Says
    <3> QED
      BY <2>2, <3>3 DEF DriverHeard
  <2> QED
    BY <2>1, <2>4, <2>5
<1>7. CASE Driver
  <2>1. PICK h \in DriverNews :
            Got(h) /\ page' = [page EXCEPT !.driverless = (h = "driver_missing")]
    BY <1>7 DEF Driver, DriverNews
  <2>2. page'.driverless <=> h = "driver_missing"
    BY <1>1, <2>1 DEF Pages
  <2>3. UNCHANGED watcher
    BY <1>7 DEF Driver, Elsewhere
  <2>4. /\ pipe # <<>> /\ pipe' = Tail(pipe) /\ Head(pipe).tag = h
    BY <2>1 DEF Got
  <2>5. Carries(pipe, DriverNews)
    BY <2>1, GotNews
  <2>6. IF Carries(pipe', DriverNews)
        THEN Latest(pipe', DriverNews, "driver_missing") <=> Latest(pipe, DriverNews, "driver_missing")
        ELSE Latest(pipe, DriverNews, "driver_missing") <=> h = "driver_missing"
    BY <1>1, <2>1, <2>4, TailNews
  <2> QED
    BY <2>2, <2>3, <2>5, <2>6 DEF DriverHeard
<1>8. CASE Next /\ ~PollMissing /\ ~PollLists /\ ~Driver
  <2>1. UNCHANGED watcher
    BY <1>8 DEF Next, Plug, Unplug, Trust, Service, Poll, PollFails, Handlers,
       ConnectTimesOut, ConnectFails, ConnectWorks, ListWorks, ListFails,
       Settings, Groups, StartWorks, StartFails, Jobs, RunCopies, RunLost,
       RunPaused, RunDrains, DeleteOne, DeleteWorks, DeleteFails, Removed,
       RunRaises, ScanEnds, ScanRaises, Receive, DeviceConnected, Connected,
       Listed, Ready, Refused,
       DeviceDisconnected, ConnectionLost, Started, VerificationProgress,
       VerificationComplete, DeleteProgress, ScanComplete, Reviewed,
       Elsewhere, User, StartTransfer, PauseTransfer, FreeUpSpace,
       RecheckLibrary, ChooseFolder, SwitchMode, Click
  <2>2. Says(pipe, pipe', DriverNews)
    <3>1. CASE \E bad \in SUBSET Photos : RunDrains(bad)
      BY <3>1, SaysDrains DEF DriverNews
    <3>2. CASE ~(\E bad \in SUBSET Photos : RunDrains(bad))
      <4>1. \/ UNCHANGED pipe
            \/ \E t \in Tags \ DriverNews : Write(Msg(t)) \/ Got(t)
        BY <1>8, <3>2 DEF Next, Plug, Unplug, Trust, Service, Poll, PollFails,
           Handlers, ConnectTimesOut, ConnectFails, ConnectWorks, ListWorks,
           ListFails, Settings, Groups, StartWorks, StartFails, Jobs,
           RunCopies, RunLost, RunPaused, DeleteOne, DeleteWorks, DeleteFails,
           RunRaises, ScanEnds, ScanRaises, Receive, DeviceConnected,
           Connected, Listed, Ready,
           Refused, DeviceDisconnected, ConnectionLost, Started,
           VerificationProgress, VerificationComplete, DeleteProgress,
           ScanComplete, Reviewed, User, StartTransfer, PauseTransfer,
           FreeUpSpace, RecheckLibrary, ChooseFolder, SwitchMode, Click, Tags,
           DriverNews
      <4> QED
        BY <1>3, <4>1
    <3> QED
      BY <3>1, <3>2
  <2>3. page'.driverless = page.driverless
    <3>1. CASE DeviceConnected
      <4> DEFINE q == [page EXCEPT !.udid = TRUE, !.lost = FALSE]
      <4>1. q \in Pages /\ q.driverless = page.driverless
        BY <1>1 DEF Pages
      <4>2. page' = To(q, "awaiting_trust")
        BY <3>1 DEF DeviceConnected
      <4> HIDE DEF q
      <4> QED
        BY <4>1, <4>2, ToType DEF Screens, TransferScreens
    <3>2. CASE Connected \/ Listed
      BY <1>1, <3>2, ToType DEF Connected, Listed, Pages, Screens,
         TransferScreens
    <3>3. CASE DeviceDisconnected
      <4> DEFINE q == [page EXCEPT !.udid = FALSE]
      <4>1. q \in Pages /\ q.driverless = page.driverless
        BY <1>1 DEF Pages
      <4>2. page' = To(q, "disconnected") => page'.driverless = page.driverless
        <5> HIDE DEF q
        <5> QED
          BY <4>1, ToType DEF Screens, TransferScreens
      <4>3. page' = [page EXCEPT !.lost = TRUE] => page'.driverless = page.driverless
        BY <1>1 DEF Pages
      <4> QED
        BY <3>3, <4>2, <4>3 DEF DeviceDisconnected
    <3> QED
      BY <1>8, <3>1, <3>2, <3>3, PageCalm
  <2> QED
    BY <1>2, <2>1, <2>2, <2>3
<1> QED
  BY <1>4, <1>5, <1>6, <1>7, <1>8 DEF Next, Poll

LEMMA HearInit == Init => HearInv
<1> SUFFICES ASSUME Init PROVE HearInv
  OBVIOUS
<1> USE DEF Init
<1>1. /\ pipe = <<>> /\ ~watcher.known /\ ~watcher.missing
      /\ asked = [c \in Calls |-> 0] /\ client = "none" /\ spent.unplugs = 0
      /\ page.udid = FALSE /\ page.driverless = FALSE
      /\ page.transferScreen = "disconnected"
      /\ runs = 0 /\ engine = FALSE /\ batches = <<>>
  OBVIOUS
<1>2. \A T : ~Carries(pipe, T)
  BY <1>1 DEF Carries
<1>3. DriverHeard /\ PhoneHeard
  BY <1>1, <1>2 DEF DriverHeard, PhoneHeard
<1>4. asked["connect"] = 0 /\ asked["list"] = 0 /\ asked["settings"] = 0
      /\ asked["start"] = 0
  BY <1>1 DEF Calls
<1>5. NeverSeen
  BY <1>1, <1>2, <1>4 DEF NeverSeen, NotBegun, Underway, Forgotten
<1> QED
  BY <1>1, <1>3, <1>5 DEF HearInv, History

LEMMA Heard == Spec => []HearInv
<1>1. TypeInv /\ HearInv /\ [Next]_vars => HearInv'
  BY PhoneNext, DriverNext DEF HearInv
<1> QED
  BY HearInit, <1>1, Typed, PTL DEF Spec

\* What the page shows of the phone and of the driver, or is about to be told,
\* is what the watcher saw last, in whatever order the polls, the connections
\* and the answers come; a page that keeps a phone that is gone says so, when
\* the cable was pulled once at most (poll_once, handleDeviceDisconnected).
THEOREM PhoneIsHeard == Spec => []HearsOfPhone
<1>1. HearInv => HearsOfPhone
  BY BothHeard DEF HearInv
<1> QED
  BY <1>1, Heard, PTL

-----------------------------------------------------------------------------
(* DoneMeansFreed: the deletions the page counted, and those it is about to  *)
(* hear of, are photos that have left the phone.                            *)

Mentions(s, t) == {n \in DOMAIN s : s[n].tag = t}
Told(s) == Cardinality(Mentions(s, "deleted"))

LEMMA MentionsFinite ==
    ASSUME NEW s \in Seq(Messages), NEW t
    PROVE  IsFiniteSet(Mentions(s, t)) /\ Cardinality(Mentions(s, t)) \in Nat
<1>1. DOMAIN s = 1..Len(s) /\ Len(s) \in Nat
  OBVIOUS
<1>2. IsFiniteSet(1..Len(s))
  BY <1>1, FS_Interval
<1>3. Mentions(s, t) \in SUBSET (1..Len(s))
  BY <1>1 DEF Mentions
<1> QED
  BY <1>2, <1>3, FS_Subset, FS_CardinalityType

LEMMA ToldAppend ==
    ASSUME NEW s \in Seq(Messages), NEW m \in Messages
    PROVE  Told(Append(s, m)) = Told(s) + IF m.tag = "deleted" THEN 1 ELSE 0
<1> DEFINE u == Append(s, m)
           e == Len(s) + 1
<1>1. /\ DOMAIN u = 1..(Len(s) + 1)
      /\ \A n \in DOMAIN s : n \in DOMAIN u /\ n < e /\ u[n] = s[n]
      /\ e \in DOMAIN u /\ u[e] = m
      /\ \A n \in DOMAIN u : n \in Nat /\ (n \in DOMAIN s \/ n = e)
  BY Longer
<1> HIDE DEF u, e
<1>2. e \notin DOMAIN s
  <2>1. ASSUME e \in DOMAIN s PROVE FALSE
    <3>1. e < e /\ e \in Nat
      BY <1>1, <2>1
    <3> QED
      BY <3>1
  <2> QED
    BY <2>1
<1>3. Mentions(u, "deleted") = IF m.tag = "deleted"
                               THEN Mentions(s, "deleted") \cup {e}
                               ELSE Mentions(s, "deleted")
  BY <1>1 DEF Mentions
<1>4. /\ IsFiniteSet(Mentions(s, "deleted"))
      /\ Cardinality(Mentions(s, "deleted")) \in Nat
      /\ e \notin Mentions(s, "deleted")
  BY <1>2, MentionsFinite DEF Mentions
<1>5. Cardinality(Mentions(s, "deleted") \cup {e})
        = Cardinality(Mentions(s, "deleted")) + 1
  BY <1>4, FS_AddElement
<1>6. CASE m.tag = "deleted"
  BY <1>3, <1>5, <1>6 DEF Told, u
<1>7. CASE m.tag # "deleted"
  BY <1>3, <1>4, <1>7 DEF Told, u
<1> QED
  BY <1>6, <1>7

LEMMA ToldTail ==
    ASSUME NEW s \in Seq(Messages), s # <<>>
    PROVE  Told(s) = Told(Tail(s)) + IF Head(s).tag = "deleted" THEN 1 ELSE 0
<1> DEFINE u == Tail(s)
           S == Mentions(s, "deleted")
           U == Mentions(u, "deleted")
           f == [n \in U |-> n + 1]
<1>1. /\ \A n \in DOMAIN u : n \in Nat /\ n > 0 /\ n + 1 \in DOMAIN s /\ u[n] = s[n + 1]
      /\ \A n \in DOMAIN s : n \in Nat /\ n > 0
      /\ \A n \in DOMAIN s : n = 1 \/ (n - 1 \in DOMAIN u /\ u[n - 1] = s[n])
      /\ 1 \in DOMAIN s /\ s[1] = Head(s)
  BY Shorter
<1>2. IsFiniteSet(S) /\ IsFiniteSet(U) /\ Cardinality(U) \in Nat
        /\ Cardinality(S) \in Nat
  <2>1. u \in Seq(Messages)
    OBVIOUS
  <2> HIDE DEF u
  <2> QED
    BY <2>1, MentionsFinite
<1> HIDE DEF u
<1>3. \A n \in U : n \in Nat /\ n > 0 /\ n + 1 \in S
  BY <1>1 DEF Mentions
<1>4. \A n \in S : n \in Nat /\ (n # 1 => n - 1 \in U /\ (n - 1) + 1 = n)
  BY <1>1 DEF Mentions
<1>5. 1 \in S <=> Head(s).tag = "deleted"
  BY <1>1 DEF Mentions
<1> HIDE DEF S, U
<1>6. f \in [U -> S \ {1}]
  BY <1>3
<1>7. \A m, n \in U : f[m] = f[n] => m = n
  BY <1>3
<1>8. \A n \in S \ {1} : \E m \in U : f[m] = n
  BY <1>4
<1> HIDE DEF f
<1>9. f \in Bijection(U, S \ {1})
  BY <1>6, <1>7, <1>8 DEF Bijection, Injection, Surjection, IsInjective
<1>10. Cardinality(S \ {1}) = Cardinality(U)
  BY <1>2, <1>9, FS_Bijection DEF ExistsBijection
<1>11. Cardinality(S \ {1}) = IF 1 \in S THEN Cardinality(S) - 1 ELSE Cardinality(S)
  BY <1>2, FS_RemoveElement
<1>12. Cardinality(S) = Cardinality(U) + IF 1 \in S THEN 1 ELSE 0
  BY <1>2, <1>10, <1>11
<1> QED
  BY <1>5, <1>12 DEF Told, S, U, u

LEMMA ToldJoin ==
    ASSUME NEW s \in Seq(Messages), NEW u \in Seq(Messages),
           \A n \in DOMAIN u : u[n].tag # "deleted"
    PROVE  Told(s \o u) = Told(s)
<1> DEFINE w == s \o u
<1>1. /\ DOMAIN w = 1..(Len(s) + Len(u)) /\ DOMAIN s = 1..Len(s)
      /\ DOMAIN u = 1..Len(u) /\ Len(s) \in Nat /\ Len(u) \in Nat
      /\ \A n \in DOMAIN w : w[n] = IF n <= Len(s) THEN s[n] ELSE u[n - Len(s)]
  BY ConcatProperties
<1> HIDE DEF w
<1>2. \A n \in DOMAIN s : n \in DOMAIN w /\ w[n] = s[n]
  BY <1>1
<1>3. ASSUME NEW n \in DOMAIN w, n \notin DOMAIN s
      PROVE  w[n].tag # "deleted"
  <2>1. n - Len(s) \in DOMAIN u /\ w[n] = u[n - Len(s)]
    BY <1>1, <1>3
  <2> QED
    BY <2>1
<1>4. Mentions(w, "deleted") = Mentions(s, "deleted")
  BY <1>2, <1>3 DEF Mentions
<1> QED
  BY <1>4 DEF Told, w

\* What the page counts is no more than what left the phone, what it offered
\* no more than what it takes for verified; and of one verification and one
\* clean-up, nothing left the phone, nor is about to, that was not offered.
CleanInv ==
    /\ page.verdicts = 0 =>
        page.cleanups = 0 /\ page.transferScreen # "ready_to_clean"
    /\ page.cleanups = 0 => batches = <<>> /\ Has("deleted") = {}
    /\ page.verdicts = 1 /\ page.cleanups = 1 =>
        /\ Has("deleted") \subseteq page.offered
        /\ \A n \in DOMAIN batches : batches[n].left \subseteq page.offered
    /\ page.verified >= Cardinality(page.offered)
    /\ page.deleted + Told(pipe) <= Cardinality(Has("deleted"))
    /\ DoneMeansFreed

DeletionWorks == \E n \in DOMAIN batches, i \in Photos : DeleteWorks(n, i)

\* What a step may do without disturbing that.
Undisturbed ==
    /\ Told(pipe') = Told(pipe)
    /\ Has("deleted")' = Has("deleted")
    /\ DOMAIN batches' = DOMAIN batches
    /\ \A n \in DOMAIN batches : batches'[n].left \subseteq batches[n].left
    /\ page'.offered = page.offered /\ page'.verified >= page.verified
    /\ page'.deleted = page.deleted
    /\ page'.cleanups = page.cleanups /\ page'.verdicts = page.verdicts
    /\ \A s \in {"ready_to_clean", "done"} :
            page'.transferScreen = s => page.transferScreen = s

LEMMA GoneType == ASSUME TypeInv
    PROVE  /\ IsFiniteSet(Has("deleted")) /\ Cardinality(Has("deleted")) \in Nat
           /\ IsFiniteSet(page.offered) /\ Cardinality(page.offered) \in Nat
           /\ Has("deleted") \subseteq Photos /\ page.offered \subseteq Photos
<1>1. Has("deleted") \in SUBSET Photos
  BY DEF Has
<1>2. page.offered \in SUBSET Photos
  BY DEF TypeInv, PageType, Pages
<1> QED
  BY <1>1, <1>2, PhotosAssumption, FS_Subset, FS_CardinalityType

LEMMA FreedMeans ==
    ASSUME TypeInv
    PROVE  DoneMeansFreed <=>
             (/\ page.transferScreen = "done"
              /\ page.cleanups = 1 /\ page.verdicts = 1
              => page.offered \subseteq Has("deleted"))
BY DEF DoneMeansFreed, Has, TypeInv, PageType, Pages

LEMMA UndisturbedStays ==
    ASSUME TypeInv, TypeInv', CleanInv, Undisturbed
    PROVE  CleanInv'
<1> USE DEF Undisturbed
<1>1. /\ page.verified \in Nat /\ page'.verified \in Nat
      /\ Cardinality(page.offered) \in Nat
  BY GoneType DEF TypeInv, PageType, Pages
<1>2. page'.verdicts = 0 =>
        page'.cleanups = 0 /\ page'.transferScreen # "ready_to_clean"
  BY DEF CleanInv
<1>3. page'.cleanups = 0 => batches' = <<>> /\ Has("deleted")' = {}
  <2>1. batches = <<>> => DOMAIN batches' = {}
    OBVIOUS
  <2>2. DOMAIN batches' = {} => batches' = <<>>
    BY DEF TypeInv, BatchType
  <2> QED
    BY <2>1, <2>2 DEF CleanInv
<1>4. page'.verdicts = 1 /\ page'.cleanups = 1 =>
        /\ Has("deleted")' \subseteq page'.offered
        /\ \A n \in DOMAIN batches' : batches'[n].left \subseteq page'.offered
  BY DEF CleanInv
<1>5. page'.verified >= Cardinality(page'.offered)
  BY <1>1 DEF CleanInv
<1>6. page'.deleted + Told(pipe') <= Cardinality(Has("deleted")')
  BY DEF CleanInv
<1>7. DoneMeansFreed'
  <2>1. DoneMeansFreed
    BY DEF CleanInv
  <2>2. DoneMeansFreed' <=>
             (/\ page'.transferScreen = "done"
              /\ page'.cleanups = 1 /\ page'.verdicts = 1
              => page'.offered \subseteq Has("deleted")')
    BY DEF DoneMeansFreed, Has, TypeInv, PageType, Pages
  <2> QED
    BY <2>1, <2>2, FreedMeans
<1> QED
  BY <1>2, <1>3, <1>4, <1>5, <1>6, <1>7 DEF CleanInv

LEMMA RowsStay ==
    ASSUME TypeInv, Next, ~DeletionWorks
    PROVE  Has("deleted")' = Has("deleted")
<1> SUFFICES ASSUME NEW i \in Photos
             PROVE  row'[i] = "deleted" <=> row[i] = "deleted"
  BY DEF Has
<1>1. row \in [Photos -> Statuses]
  BY DEF TypeInv, BackendType
<1>2. CASE \E gone \in SUBSET Photos : ListWorks(gone)
  <2>1. PICK gone \in SUBSET Photos : ListWorks(gone)
    BY <1>2
  <2>2. i \in gone => row[i] \in {"copied", "verified"}
    BY <2>1 DEF ListWorks, Has
  <2>3. row'[i] = IF i \in gone \union Has("new") THEN "todo" ELSE row[i]
    BY <2>1 DEF ListWorks
  <2> QED
    BY <2>2, <2>3 DEF Has
<1>3. CASE StartWorks
  BY <1>3 DEF StartWorks
<1>4. CASE \E k \in Photos : RunCopies(k)
  <2>1. PICK k \in Photos, s \in {"copied", "failed"} :
            row[k] = "todo" /\ row' = [row EXCEPT ![k] = s]
    BY <1>4 DEF RunCopies
  <2> QED
    BY <1>1, <2>1
<1>5. CASE \E bad \in SUBSET Photos : RunDrains(bad)
  BY <1>5 DEF RunDrains
<1>6. CASE RunRaises
  BY <1>1, <1>6 DEF RunRaises, Has
<1>7. CASE /\ ~(\E gone \in SUBSET Photos : ListWorks(gone))
           /\ ~StartWorks /\ ~(\E k \in Photos : RunCopies(k))
           /\ ~(\E bad \in SUBSET Photos : RunDrains(bad)) /\ ~RunRaises
  <2>1. UNCHANGED row
    BY <1>7 DEF Next, Plug, Unplug, Trust, Service, Poll, PollFails,
       PollMissing, PollLists, Handlers, ConnectTimesOut, ConnectFails,
       ConnectWorks, ListFails, Settings, Groups, StartFails, Jobs, RunLost,
       RunPaused, DeleteOne, DeletionWorks, DeleteFails, ScanEnds, ScanRaises,
       Receive, DeviceConnected, Connected, Listed, Ready, Refused,
       DeviceDisconnected, ConnectionLost, Driver, Started,
       VerificationProgress, VerificationComplete, DeleteProgress,
       ScanComplete, Reviewed, Elsewhere, User, StartTransfer, PauseTransfer,
       FreeUpSpace, RecheckLibrary, ChooseFolder, SwitchMode, Click, backend
  <2> QED
    BY <2>1
<1> QED
  BY <1>2, <1>3, <1>4, <1>5, <1>6, <1>7

LEMMA BatchesShrink ==
    ASSUME TypeInv, Next, ~FreeUpSpace
    PROVE  /\ DOMAIN batches' = DOMAIN batches
           /\ \A n \in DOMAIN batches : batches'[n].left \subseteq batches[n].left
<1> USE DEF TypeInv
<1>1. CASE Unplug \/ ConnectFails \/ ConnectWorks
  BY <1>1, BrokenType DEF Unplug, ConnectFails, ConnectWorks
<1>2. CASE DeleteOne
  BY <1>2, RemovedType DEF DeleteOne, DeleteWorks, DeleteFails
<1>3. CASE ~Unplug /\ ~ConnectFails /\ ~ConnectWorks /\ ~DeleteOne
  <2>1. UNCHANGED batches
    BY <1>3 DEF Next, Plug, Trust, Service, Poll, PollFails, PollMissing,
       PollLists, Handlers, ConnectTimesOut, ListWorks, ListFails, Settings,
       Groups, StartWorks, StartFails, Jobs, RunCopies, RunLost, RunPaused,
       RunDrains, RunRaises, ScanEnds, ScanRaises, Receive, DeviceConnected,
       Connected, Listed,
       Ready, Refused, DeviceDisconnected, ConnectionLost, Driver, Started,
       VerificationProgress, VerificationComplete, DeleteProgress,
       ScanComplete, Reviewed, Elsewhere, User, StartTransfer, PauseTransfer,
       RecheckLibrary, ChooseFolder, SwitchMode, backend
  <2> QED
    BY <2>1
<1> QED
  BY <1>1, <1>2, <1>3

LEMMA ToldWrite ==
    ASSUME PipeType, NEW t \in Tags \ {"deleted"}, Write(Msg(t)) \/ Got(t)
    PROVE  Told(pipe') = Told(pipe)
<1>1. Told(pipe) \in Nat
  BY MentionsFinite DEF PipeType, Told
<1>2. CASE Write(Msg(t))
  <2>1. Msg(t) \in Messages /\ Msg(t).tag # "deleted"
    BY MsgType
  <2>2. pipe' = Append(pipe, Msg(t))
    BY <1>2 DEF Write
  <2>3. Told(pipe') = Told(pipe) + 0
    BY <2>1, <2>2, ToldAppend DEF PipeType
  <2> QED
    BY <1>1, <2>3
<1>3. CASE Got(t)
  <2>1. pipe # <<>> /\ pipe' = Tail(pipe) /\ Head(pipe).tag = t
    BY <1>3 DEF Got
  <2>2. Tail(pipe) \in Seq(Messages)
    BY <2>1 DEF PipeType
  <2>3. Told(pipe') \in Nat
    BY <2>1, <2>2, MentionsFinite DEF Told
  <2>4. Told(pipe) = Told(pipe') + 0
    BY <2>1, ToldTail DEF PipeType
  <2> QED
    BY <2>3, <2>4
<1> QED
  BY <1>2, <1>3

LEMMA ToldDrains ==
    ASSUME PipeType, NEW bad \in SUBSET Photos, RunDrains(bad)
    PROVE  Told(pipe') = Told(pipe)
<1> DEFINE some == [n \in 1..Cardinality(Has("copied") \ bad) |-> Msg("verified")]
           last == [tag |-> "verification_complete",
                    items |-> {i \in Photos : row'[i] = "verified"}]
<1>1. pipe' = pipe \o some \o <<last>>
  BY DEF RunDrains
<1>2. last \in Messages /\ last.tag # "deleted"
  BY DEF Messages, Tags
<1>3. Cardinality(Has("copied") \ bad) \in Nat
  BY PhotosAssumption, FS_Subset, FS_CardinalityType DEF Has
<1>4. Msg("verified") \in Messages /\ Msg("verified").tag # "deleted"
  BY MsgType DEF Tags
<1>5. some \in Seq(Messages)
  BY <1>3, <1>4, SameSeq
<1>6. \A n \in DOMAIN some : some[n].tag # "deleted"
  BY <1>4
<1> HIDE DEF some, last
<1>7. pipe \o some \in Seq(Messages)
  BY <1>5, SeqJoin DEF PipeType
<1>8. pipe' = Append(pipe \o some, last)
  BY <1>1, <1>2, <1>7, AppendIsConcat
<1>9. Told(pipe \o some) = Told(pipe) /\ Told(pipe) \in Nat
  BY <1>5, <1>6, ToldJoin, MentionsFinite DEF PipeType, Told
<1>10. Told(pipe') = Told(pipe \o some) + 0
  BY <1>2, <1>7, <1>8, ToldAppend
<1> QED
  BY <1>9, <1>10

LEMMA ToldPolls ==
    ASSUME PipeType, PollLists
    PROVE  Told(pipe') = Told(pipe)
<1>1. PICK s \in Seq(Messages) :
        /\ s = pipe \/ s = Append(pipe, Msg("driver_available"))
        /\ \/ pipe' = s
           \/ pipe' = Append(s, Msg("device_connected"))
           \/ pipe' = Append(s, Msg("device_disconnected"))
  BY PollWrites
<1>2. \A t \in {"driver_available", "device_connected", "device_disconnected"} :
        Msg(t) \in Messages /\ Msg(t).tag # "deleted"
  BY MsgType DEF Tags
<1>3. \A u \in Seq(Messages) :
        \A t \in {"driver_available", "device_connected", "device_disconnected"} :
            Told(Append(u, Msg(t))) = Told(u)
  <2> TAKE u \in Seq(Messages)
  <2> TAKE t \in {"driver_available", "device_connected", "device_disconnected"}
  <2>1. Told(u) \in Nat
    BY MentionsFinite DEF Told
  <2>2. Told(Append(u, Msg(t))) = Told(u) + 0
    BY <1>2, ToldAppend
  <2> QED
    BY <2>1, <2>2
<1> QED
  BY <1>1, <1>3 DEF PipeType

LEMMA ToldStays ==
    ASSUME TypeInv, Next, ~DeletionWorks, ~DeleteProgress
    PROVE  Told(pipe') = Told(pipe)
<1> USE DEF TypeInv
<1>1. CASE PollLists
  BY <1>1, ToldPolls
<1>2. CASE \E bad \in SUBSET Photos : RunDrains(bad)
  BY <1>2, ToldDrains
<1>3. CASE ~PollLists /\ ~(\E bad \in SUBSET Photos : RunDrains(bad))
  <2>1. \/ UNCHANGED pipe
        \/ \E t \in Tags \ {"deleted"} : Write(Msg(t)) \/ Got(t)
    BY <1>3 DEF Next, Plug, Unplug, Trust, Service, Poll, PollFails,
       PollMissing, Handlers, ConnectTimesOut, ConnectFails, ConnectWorks,
       ListWorks, ListFails, Settings, Groups, StartWorks, StartFails, Jobs,
       RunCopies, RunLost, RunPaused, DeleteOne, DeletionWorks, DeleteFails,
       RunRaises, ScanEnds, ScanRaises, Receive, DeviceConnected, Connected,
       Listed, Ready,
       Refused, DeviceDisconnected, ConnectionLost, Driver, Started,
       VerificationProgress, VerificationComplete, ScanComplete, Reviewed,
       User, StartTransfer, PauseTransfer, FreeUpSpace, RecheckLibrary,
       ChooseFolder, SwitchMode, Click, Tags
  <2> QED
    BY <2>1, ToldWrite
<1> QED
  BY <1>1, <1>2, <1>3

\* What a page q that was made of p keeps of the clean-up, s its next screen.
KeptBy(p, q) ==
    /\ q.offered = p.offered /\ q.verified >= p.verified
    /\ q.deleted = p.deleted
    /\ q.cleanups = p.cleanups /\ q.verdicts = p.verdicts

LEMMA ShownNext ==
    ASSUME NEW p \in Pages, NEW q \in Pages, KeptBy(p, q),
           q.transferScreen = p.transferScreen,
           NEW s \in Screens \ {"ready_to_clean", "done"}
    PROVE  /\ KeptBy(p, To(q, s))
           /\ \A x \in {"ready_to_clean", "done"} :
                To(q, s).transferScreen = x => p.transferScreen = x
BY ToType DEF KeptBy

LEMMA PageStays ==
    ASSUME TypeInv, Next,
           ~VerificationComplete, ~DeleteProgress, ~FreeUpSpace
    PROVE  /\ KeptBy(page, page')
           /\ \A x \in {"ready_to_clean", "done"} :
                page'.transferScreen = x => page.transferScreen = x
<1> DEFINE Kept == /\ KeptBy(page, page')
                   /\ \A x \in {"ready_to_clean", "done"} :
                        page'.transferScreen = x => page.transferScreen = x
<1> USE DEF TypeInv
<1>1. page \in Pages /\ page.verified \in Nat
  BY DEF PageType, Pages
<1>2. KeptBy(page, page)
  BY <1>1 DEF KeptBy
<1>3. {"disconnected", "awaiting_trust", "enumerating", "ready", "transferring",
       "library-scanning", "library-review"}
        \subseteq Screens \ {"ready_to_clean", "done"}
  BY DEF Screens, TransferScreens, LibraryScreens
<1>4. \A q \in Pages, s \in Screens \ {"ready_to_clean", "done"} :
        /\ KeptBy(page, q) /\ q.transferScreen = page.transferScreen
        /\ page' = To(q, s)
        => Kept
  BY <1>1, ShownNext
<1>5. CASE Connected \/ Ready \/ Refused \/ Reviewed
  BY <1>1, <1>2, <1>3, <1>4, <1>5 DEF Connected, Ready, Refused, Reviewed
<1>6. CASE DeviceConnected
  <2> DEFINE q == [page EXCEPT !.udid = TRUE, !.lost = FALSE]
  <2>1. q \in Pages
    BY <1>1 DEF Pages
  <2>2. /\ q.offered = page.offered /\ q.verified = page.verified
        /\ q.deleted = page.deleted /\ q.cleanups = page.cleanups
        /\ q.verdicts = page.verdicts
        /\ q.transferScreen = page.transferScreen
    BY <1>1 DEF Pages
  <2>3. page' = To(q, "awaiting_trust")
    BY <1>6 DEF DeviceConnected
  <2> HIDE DEF q
  <2> QED
    BY <1>1, <1>3, <1>4, <2>1, <2>2, <2>3 DEF KeptBy
<1>7. CASE DeviceDisconnected
  <2>1. CASE page.screen = "transferring"
    <3>1. page' = [page EXCEPT !.lost = TRUE]
      BY <1>7, <2>1 DEF DeviceDisconnected
    <3>2. /\ page'.offered = page.offered /\ page'.verified = page.verified
          /\ page'.deleted = page.deleted /\ page'.cleanups = page.cleanups
          /\ page'.verdicts = page.verdicts
          /\ page'.transferScreen = page.transferScreen
      BY <1>1, <3>1 DEF Pages
    <3> QED
      BY <1>1, <3>2 DEF KeptBy
  <2>2. CASE page.screen # "transferring"
    <3> DEFINE q == [page EXCEPT !.udid = FALSE]
    <3>1. q \in Pages
      BY <1>1 DEF Pages
    <3>2. /\ q.offered = page.offered /\ q.verified = page.verified
          /\ q.deleted = page.deleted /\ q.cleanups = page.cleanups
          /\ q.verdicts = page.verdicts
          /\ q.transferScreen = page.transferScreen
      BY <1>1 DEF Pages
    <3>3. page' = To(q, "disconnected")
      BY <1>7, <2>2 DEF DeviceDisconnected
    <3> HIDE DEF q
    <3> QED
      BY <1>1, <1>3, <1>4, <3>1, <3>2, <3>3 DEF KeptBy
  <2> QED
    BY <2>1, <2>2
<1>8. CASE Listed \/ ConnectionLost \/ Driver \/ Started
           \/ VerificationProgress \/ ScanComplete
  BY <1>1, <1>8 DEF Listed, ConnectionLost, Driver, Started,
     VerificationProgress, ScanComplete, Pages, KeptBy
<1>9. CASE StartTransfer \/ PauseTransfer \/ RecheckLibrary
  BY <1>1, <1>2, <1>3, <1>4, <1>9 DEF StartTransfer, PauseTransfer, RecheckLibrary
<1>10. CASE ChooseFolder
  <2>1. PICK r \in Roots :
            page' = To([page EXCEPT !.root = r], "library-scanning")
    BY <1>10 DEF ChooseFolder
  <2> DEFINE q == [page EXCEPT !.root = r]
  <2>2. q \in Pages /\ KeptBy(page, q) /\ q.transferScreen = page.transferScreen
    BY <1>1 DEF Pages, KeptBy
  <2>3. page' = To(q, "library-scanning")
    BY <2>1
  <2> HIDE DEF q
  <2> QED
    BY <1>3, <1>4, <2>2, <2>3
<1>11. CASE SwitchMode
  <2>1. PICK m \in Modes :
            page' = To([page EXCEPT !.mode = m],
                       IF m = "library" THEN page.libraryScreen
                                        ELSE page.transferScreen)
    BY <1>11 DEF SwitchMode, Modes
  <2> DEFINE q == [page EXCEPT !.mode = m]
             s == IF m = "library" THEN page.libraryScreen
                                   ELSE page.transferScreen
  <2>2. q \in Pages /\ KeptBy(page, q) /\ q.transferScreen = page.transferScreen
    BY <1>1 DEF Pages, KeptBy
  <2>3. s \in Screens /\ (s \in TransferScreens => s = page.transferScreen)
    BY <1>1 DEF Pages, Screens, TransferScreens, LibraryScreens
  <2>4. page' = To(q, s)
    BY <2>1
  <2> HIDE DEF q, s
  <2>5. page'.transferScreen = page.transferScreen /\ KeptBy(q, page')
    BY <2>2, <2>3, <2>4, ToType DEF KeptBy, Pages
  <2>6. page'.verified >= page.verified
    <3>1. q.verified \in Nat /\ page'.verified \in Nat
      BY <2>2, <2>3, <2>4, ToType DEF Pages
    <3> QED
      BY <1>1, <2>2, <2>5, <3>1 DEF KeptBy
  <2> QED
    BY <2>2, <2>5, <2>6 DEF KeptBy
<1>12. CASE ~Receive /\ ~User
  <2>1. UNCHANGED page
    BY <1>12 DEF Next, Plug, Unplug, Trust, Service, Poll, PollFails,
       PollMissing, PollLists, Handlers, ConnectTimesOut, ConnectFails,
       ConnectWorks, ListWorks, ListFails, Settings, Groups, StartWorks,
       StartFails, Jobs, RunCopies, RunLost, RunPaused, RunDrains, DeleteOne,
       DeleteWorks, DeleteFails, Removed, RunRaises, ScanEnds, ScanRaises
  <2> QED
    BY <1>2, <2>1
<1> QED
  BY <1>5, <1>6, <1>7, <1>8, <1>9, <1>10, <1>11, <1>12 DEF Receive, User

\* verification_complete: of a second verdict nothing is claimed, and a first
\* one comes before any clean-up.
LEMMA VerdictStep ==
    ASSUME TypeInv, TypeInv', CleanInv, VerificationComplete
    PROVE  CleanInv'
<1> DEFINE S == Head(pipe).items
           q == Judged(page, S)
<1>1. S \in SUBSET Photos /\ page' = To(q, "ready_to_clean")
  BY Verdict DEF TypeInv
<1>2. page \in Pages /\ page.verdicts \in Nat
  BY DEF TypeInv, PageType, Pages
<1>3. /\ q \in Pages /\ q.offered = S /\ q.verified = Cardinality(S)
      /\ q.verdicts = page.verdicts + 1 /\ q.cleanups = page.cleanups
      /\ q.deleted = page.deleted
  BY <1>1, <1>2, JudgedType
<1> HIDE DEF q
<1>4. /\ page'.offered = S /\ page'.verified = Cardinality(S)
      /\ page'.verdicts = page.verdicts + 1 /\ page'.cleanups = page.cleanups
      /\ page'.deleted = page.deleted /\ page'.transferScreen = "ready_to_clean"
  BY <1>1, <1>3, ToType DEF Screens, TransferScreens
<1>5. UNCHANGED <<row, batches>>
  BY DEF VerificationComplete, Elsewhere, backend
<1>6. Has("deleted")' = Has("deleted")
  BY <1>5 DEF Has
<1>7. Told(pipe') = Told(pipe)
  BY ToldWrite DEF TypeInv, VerificationComplete, Tags
<1>8. Cardinality(S) \in Nat
  BY <1>1, PhotosAssumption, FS_Subset, FS_CardinalityType
<1>9. page'.verdicts # 0 /\ (page'.verdicts = 1 => page'.cleanups = 0)
  BY <1>2, <1>4 DEF CleanInv
<1>10. page'.verified >= Cardinality(page'.offered)
  BY <1>4, <1>8
<1>11. DoneMeansFreed'
  BY <1>4 DEF DoneMeansFreed
<1> QED
  BY <1>4, <1>5, <1>6, <1>7, <1>9, <1>10, <1>11 DEF CleanInv

\* delete.batch is called from a page that was told a verdict; the first call
\* finds the phone as the verdict left it.
LEMMA FreeStep ==
    ASSUME TypeInv, TypeInv', CleanInv, FreeUpSpace
    PROVE  CleanInv'
<1> DEFINE q == [page EXCEPT !.cleanups = @ + 1]
           b == [left |-> page.offered \intersect Has("verified"),
                 live |-> client = "live"]
<1>1. page \in Pages /\ page.cleanups \in Nat /\ page.verdicts \in Nat
  BY DEF TypeInv, PageType, Pages
<1>2. page.transferScreen = "ready_to_clean"
  BY Screenshot DEF TypeInv, FreeUpSpace, Click, TransferScreens
<1>3. /\ q \in Pages /\ q.offered = page.offered /\ q.verified = page.verified
      /\ q.verdicts = page.verdicts /\ q.cleanups = page.cleanups + 1
      /\ q.deleted = page.deleted
  BY <1>1 DEF Pages
<1>4. page' = To(q, "deleting") /\ batches' = Append(batches, b)
  BY DEF FreeUpSpace
<1>5. UNCHANGED <<row, pipe>>
  BY DEF FreeUpSpace, Click
<1>6. b.left \subseteq page.offered
  OBVIOUS
<1> HIDE DEF q, b
<1>7. /\ page'.offered = page.offered /\ page'.verified = page.verified
      /\ page'.verdicts = page.verdicts /\ page'.cleanups = page.cleanups + 1
      /\ page'.deleted = page.deleted /\ page'.transferScreen = "deleting"
  BY <1>3, <1>4, ToType DEF Screens, TransferScreens
<1>8. Has("deleted")' = Has("deleted")
  BY <1>5 DEF Has
<1>9. page'.verdicts # 0 /\ page'.cleanups # 0
  BY <1>1, <1>2, <1>7 DEF CleanInv
<1>10. ASSUME page'.cleanups = 1
       PROVE  /\ Has("deleted")' \subseteq page'.offered
              /\ \A n \in DOMAIN batches' : batches'[n].left \subseteq page'.offered
  <2>1. page.cleanups = 0
    BY <1>1, <1>7, <1>10
  <2>2. batches = <<>> /\ Has("deleted") = {}
    BY <2>1 DEF CleanInv
  <2>3. batches' = <<b>>
    BY <1>4, <2>2
  <2> QED
    BY <1>6, <1>7, <1>8, <2>2, <2>3
<1>11. DoneMeansFreed'
  BY <1>7 DEF DoneMeansFreed
<1>12. /\ page'.verified >= Cardinality(page'.offered)
       /\ page'.deleted + Told(pipe') <= Cardinality(Has("deleted")')
  BY <1>5, <1>7, <1>8 DEF CleanInv
<1> QED
  BY <1>9, <1>10, <1>11, <1>12 DEF CleanInv

\* A photo leaves the phone before its event is written.
LEMMA DeletionStep ==
    ASSUME TypeInv, TypeInv', CleanInv, DeletionWorks
    PROVE  CleanInv'
<1>1. PICK n \in DOMAIN batches, i \in Photos : DeleteWorks(n, i)
  BY DEF DeletionWorks
<1>2. /\ i \in batches[n].left /\ row[i] = "verified"
      /\ row' = [row EXCEPT ![i] = "deleted"]
      /\ UNCHANGED page /\ Write(Msg("deleted"))
  BY <1>1 DEF DeleteWorks, Removed
<1>3. /\ DOMAIN batches' = DOMAIN batches
      /\ \A k \in DOMAIN batches : batches'[k].left \subseteq batches[k].left
  BY <1>1, RemovedType DEF TypeInv, DeleteWorks
<1>4. Has("deleted")' = Has("deleted") \cup {i} /\ i \notin Has("deleted")
  BY <1>2 DEF Has, TypeInv, BackendType
<1>5. Cardinality(Has("deleted")') = Cardinality(Has("deleted")) + 1
  BY <1>4, GoneType, FS_AddElement
<1>6. Told(pipe') = Told(pipe) + 1
  <2>1. Msg("deleted") \in Messages /\ Msg("deleted").tag = "deleted"
    BY MsgType DEF Tags
  <2>2. pipe' = Append(pipe, Msg("deleted"))
    BY <1>2 DEF Write
  <2> QED
    BY <2>1, <2>2, ToldAppend DEF TypeInv, PipeType
<1>7. /\ Told(pipe) \in Nat /\ page.deleted \in Nat
      /\ Cardinality(Has("deleted")) \in Nat
  BY MentionsFinite, GoneType DEF TypeInv, PipeType, Told, PageType, Pages
<1>8. page'.deleted + Told(pipe') <= Cardinality(Has("deleted")')
  BY <1>2, <1>5, <1>6, <1>7 DEF CleanInv
<1>9. page'.cleanups # 0
  <2>1. DOMAIN batches # {}
    BY <1>1
  <2>2. batches # <<>>
    BY <2>1
  <2> QED
    BY <1>2, <2>2 DEF CleanInv
<1>10. page'.verdicts = 1 /\ page'.cleanups = 1 =>
        /\ Has("deleted")' \subseteq page'.offered
        /\ \A k \in DOMAIN batches' : batches'[k].left \subseteq page'.offered
  BY <1>2, <1>3, <1>4 DEF CleanInv
<1>11. DoneMeansFreed'
  <2>1. DoneMeansFreed
    BY DEF CleanInv
  <2>2. \A k \in Photos : row[k] = "deleted" => row'[k] = "deleted"
    BY <1>2 DEF TypeInv, BackendType
  <2>3. page.offered \subseteq Photos
    BY GoneType
  <2> QED
    BY <1>2, <2>1, <2>2, <2>3 DEF DoneMeansFreed
<1> QED
  BY <1>2, <1>8, <1>9, <1>10, <1>11 DEF CleanInv

\* handleDeleteProgress: the page says done when it has counted as many as it
\* takes for verified, which are at least as many as it offered.
LEMMA ProgressStep ==
    ASSUME TypeInv, TypeInv', CleanInv, DeleteProgress
    PROVE  CleanInv'
<1> DEFINE one == IF Head(pipe).tag = "deleted" THEN 1 ELSE 0
           p == IF Head(pipe).tag = "deleted"
                THEN [page EXCEPT !.deleted = @ + 1] ELSE page
<1>1. page \in Pages /\ page.deleted \in Nat /\ page.verified \in Nat
  BY DEF TypeInv, PageType, Pages
<1>2. /\ p \in Pages /\ p.offered = page.offered /\ p.verified = page.verified
      /\ p.verdicts = page.verdicts /\ p.cleanups = page.cleanups
      /\ p.transferScreen = page.transferScreen
  BY <1>1 DEF Pages
<1>3. p.deleted = page.deleted + one
  BY <1>1 DEF Pages
<1>4. page' = IF p.deleted >= p.verified /\ p.verified > 0
              THEN To(p, "done") ELSE p
  BY DEF DeleteProgress
<1>5. UNCHANGED <<row, batches>>
  BY DEF DeleteProgress, Elsewhere, backend
<1>6. Told(pipe) = Told(pipe') + one
  BY ToldTail DEF DeleteProgress, Got, TypeInv, PipeType
<1>7. one \in Nat
  OBVIOUS
<1> HIDE DEF one, p
<1>8. /\ page'.offered = page.offered /\ page'.verified = page.verified
      /\ page'.verdicts = page.verdicts /\ page'.cleanups = page.cleanups
      /\ page'.deleted = page.deleted + one
      /\ \/ page'.transferScreen = page.transferScreen
         \/ page'.transferScreen = "done" /\ page'.deleted >= page'.verified
  <2>1. CASE p.deleted >= p.verified /\ p.verified > 0
    <3>1. page' = To(p, "done")
      BY <1>4, <2>1
    <3> QED
      BY <1>2, <1>3, <2>1, <3>1, ToType DEF Screens, TransferScreens
  <2>2. CASE ~(p.deleted >= p.verified /\ p.verified > 0)
    <3>1. page' = p
      BY <1>4, <2>2
    <3> QED
      BY <1>2, <1>3, <3>1
  <2> QED
    BY <2>1, <2>2
<1>9. Has("deleted")' = Has("deleted")
  BY <1>5 DEF Has
<1>10. /\ Told(pipe') \in Nat
       /\ Cardinality(Has("deleted")) \in Nat /\ Cardinality(page.offered) \in Nat
  BY MentionsFinite, GoneType DEF TypeInv, PipeType, Told
<1>11. page'.deleted + Told(pipe') <= Cardinality(Has("deleted"))
  BY <1>1, <1>6, <1>7, <1>8, <1>10 DEF CleanInv
<1>12. DoneMeansFreed'
  <2> SUFFICES ASSUME page'.transferScreen = "done",
                      page.cleanups = 1, page.verdicts = 1
               PROVE  \A i \in page.offered : row[i] = "deleted"
    BY <1>5, <1>8 DEF DoneMeansFreed
  <2>1. CASE page.transferScreen = "done"
    BY <2>1 DEF CleanInv, DoneMeansFreed
  <2>2. CASE page'.deleted >= page'.verified
    <3>1. Cardinality(page.offered) <= Cardinality(Has("deleted"))
      BY <1>1, <1>7, <1>8, <1>10, <1>11, <2>2 DEF CleanInv
    <3>2. Has("deleted") \in SUBSET page.offered
      BY DEF CleanInv
    <3>3. Has("deleted") = page.offered
      BY <1>10, <3>1, <3>2, GoneType, FS_Subset
    <3> QED
      BY <3>3 DEF Has
  <2> QED
    BY <1>8, <2>1, <2>2
<1> QED
  BY <1>5, <1>8, <1>9, <1>11, <1>12 DEF CleanInv

LEMMA CleanNext == TypeInv /\ TypeInv' /\ CleanInv /\ [Next]_vars => CleanInv'
<1> SUFFICES ASSUME TypeInv, TypeInv', CleanInv, [Next]_vars PROVE CleanInv'
  OBVIOUS
<1>1. CASE UNCHANGED vars
  BY <1>1 DEF vars, backend, CleanInv, Has, DoneMeansFreed
<1>2. CASE Next /\ ~VerificationComplete /\ ~DeleteProgress /\ ~FreeUpSpace
                /\ ~DeletionWorks
  <2>1. Undisturbed
    BY <1>2, ToldStays, RowsStay, BatchesShrink, PageStays
       DEF Undisturbed, KeptBy
  <2> QED
    BY <2>1, UndisturbedStays
<1> QED
  BY <1>1, <1>2, VerdictStep, FreeStep, DeletionStep, ProgressStep

LEMMA CleanInit == Init => CleanInv
<1> SUFFICES ASSUME Init PROVE CleanInv
  OBVIOUS
<1>1. /\ pipe = <<>> /\ batches = <<>> /\ row = [i \in Photos |-> "new"]
      /\ page.offered = {} /\ page.verified = 0 /\ page.deleted = 0
      /\ page.cleanups = 0 /\ page.verdicts = 0
      /\ page.transferScreen = "disconnected"
  BY DEF Init
<1>2. Has("deleted") = {}
  BY <1>1 DEF Has
<1>3. Mentions(pipe, "deleted") = {}
  BY <1>1 DEF Mentions
<1>4. Cardinality({}) = 0
  BY FS_EmptySet
<1>5. DoneMeansFreed
  BY <1>1 DEF DoneMeansFreed
<1>6. Told(pipe) = 0
  BY <1>3, <1>4 DEF Told
<1>7. /\ page.verified >= Cardinality(page.offered)
      /\ page.deleted + Told(pipe) <= Cardinality(Has("deleted"))
  <2>1. Cardinality(page.offered) = 0 /\ Cardinality(Has("deleted")) = 0
    <3> HIDE DEF Has
    <3> QED
      BY <1>1, <1>2, <1>4, Zenon
  <2> QED
    BY <1>1, <1>6, <2>1
<1> QED
  BY <1>1, <1>2, <1>5, <1>7 DEF CleanInv

\* The done screen is true: with one verification and one clean-up, whatever
\* pulled cables, failing deletions and repeated runs came between, all that
\* was offered has left the phone (handleDeleteProgress counts no failure).
THEOREM DoneIsFreed == Spec => []DoneMeansFreed
<1>1. CleanInv => DoneMeansFreed
  BY DEF CleanInv
<1> QED
  BY <1>1, CleanInit, CleanNext, Typed, PTL DEF Spec

=============================================================================
