-------------------------- MODULE IpcBridge_proofs --------------------------
(***************************************************************************)
(* What holds of IpcBridge for any number of calls and any bounds.  The    *)
(* type invariant is proved one part at a time, since each step disturbs   *)
(* few of them.                                                            *)
(***************************************************************************)
EXTENDS IpcBridge, TLAPS

-----------------------------------------------------------------------------
(* The types                                                                *)

LEMMA TypeInit == Init => TypeOK
<1> SUFFICES ASSUME Init PROVE TypeOK
  OBVIOUS
<1>1. CallType
  BY DEF Init, CallType
<1>2. PipeType /\ ShellType /\ SpentType
  BY DEF Init, PipeType, ShellType, SpentType
<1>3. BackendType
  BY DEF Init, BackendType, NoTasks, Settings, None
<1> QED
  BY <1>1, <1>2, <1>3 DEF TypeOK

LEMMA CountType ==
    ASSUME SpentType, NEW what \in {"starts", "deaths", "faults", "kills"}
    PROVE  Count(what) \in [starts : Nat, deaths : Nat, faults : Nat, kills : Nat]
BY DEF SpentType, Count

LEMMA LineTypes ==
    ASSUME NEW c \in Calls
    PROVE  Reply(c) \in Lines /\ Event(c) \in Lines
BY DEF Reply, Event, Lines

LEMMA SeqTypes ==
    ASSUME NEW S, NEW s \in Seq(S), NEW e \in S
    PROVE  Append(s, e) \in Seq(S) /\ <<>> \in Seq(S)
OBVIOUS

LEMMA CallNext == ASSUME TypeOK, Next PROVE CallType'
<1> USE DEF CallType
<1> call \in [Calls -> [pc : {"idle", "insert", "wait", "done"},
                        answer : Calls \union {None}]]
  BY DEF TypeOK
<1>1. CASE Exit
  BY <1>1 DEF Exit
<1>2. CASE Route
  <2> DEFINE line == Head(stdout)
  <2>1. CASE line.kind = "reply"
    <3>1. ASSUME NEW c \in Calls, c \in Taker(line.id) PROVE line.id \in Calls
      BY <3>1 DEF Taker
    <3>2. call' = [c \in Calls |-> IF c \in Taker(line.id)
                     THEN [pc |-> "done", answer |-> line.id] ELSE call[c]]
      BY <1>2, <2>1 DEF Route
    <3> HIDE DEF line
    <3> QED
      BY <3>1, <3>2
  <2>2. CASE line.kind # "reply"
    BY <1>2, <2>2 DEF Route
  <2> QED
    BY <2>1, <2>2
<1>3. ASSUME NEW c \in Calls, Invoke(c) PROVE CallType'
  BY <1>3 DEF Invoke, Settle
<1>4. ASSUME NEW c \in Calls, Send(c) PROVE CallType'
  BY <1>4 DEF Send, Settle
<1>5. CASE UNCHANGED call
  BY <1>5
<1> QED
  BY <1>1, <1>2, <1>3, <1>4, <1>5 DEF Next, Launch, Die, Write, ReadEof, Loop,
     Disable, DisableFails, ReadLine, End, Request, Handle, Emit

LEMMA PipeNext == ASSUME TypeOK, Next PROVE PipeType'
<1> USE DEF PipeType
<1>0. PipeType /\ ShellType
  BY DEF TypeOK
<1>1. CASE Launch
  BY <1>1 DEF Launch
<1>2. CASE Exit
  BY <1>0, <1>2 DEF Exit
<1>3. CASE Write
  <2>1. Head(queue) \in Calls /\ Tail(queue) \in Seq(Calls)
    BY <1>0, <1>3 DEF Write
  <2>2. queue' \in {<<>>, Tail(queue)} /\ stdin' \in {stdin, Append(stdin, Head(queue))}
    BY <1>3 DEF Write
  <2>3. UNCHANGED stdout
    BY <1>3 DEF Write
  <2>4. stdin' \in Seq(Calls) /\ queue' \in Seq(Calls)
    BY <1>0, <2>1, <2>2, SeqTypes
  <2> QED
    BY <1>0, <2>3, <2>4
<1>4. CASE Route
  BY <1>0, <1>4 DEF Route
<1>5. CASE DisableFails
  <2>1. \A k \in {"text", "bytes"} : Noise(k) \in Lines \union Noises
    BY DEF Noises
  <2>2. \/ UNCHANGED stdout
        \/ \E k \in {"text", "bytes"} : stdout' = Append(stdout, Noise(k))
    BY <1>5 DEF DisableFails
  <2>3. UNCHANGED <<queue, stdin>>
    BY <1>5 DEF DisableFails
  <2>4. stdout' \in Seq(Lines \union Noises)
    BY <1>0, <2>1, <2>2, SeqTypes
  <2> QED
    BY <1>0, <2>3, <2>4
<1>6. CASE ReadLine
  BY <1>0, <1>6 DEF ReadLine
<1>7. ASSUME NEW c \in Calls, Send(c) PROVE PipeType'
  <2>1. queue' \in {queue, Append(queue, c)} /\ UNCHANGED <<stdin, stdout>>
    BY <1>7 DEF Send
  <2> QED
    BY <1>0, <2>1
<1>8. ASSUME NEW c \in Calls, Request(c) PROVE PipeType'
  <2>1. WriteLine(Reply(c)) \in Seq(Lines \union Noises)
    BY <1>0, LineTypes DEF WriteLine
  <2>2. WriteLine(Event(c)) \in Seq(Lines \union Noises)
    BY <1>0, LineTypes DEF WriteLine
  <2>3. CASE Handle(c)
    BY <1>0, <2>1, <2>3 DEF Handle
  <2>4. CASE Emit(c)
    BY <1>0, <2>2, <2>4 DEF Emit
  <2> QED
    BY <1>8, <2>3, <2>4 DEF Request
<1>9. CASE UNCHANGED <<queue, stdin, stdout>>
  BY <1>0, <1>9
<1> QED
  BY <1>1, <1>2, <1>3, <1>4, <1>5, <1>6, <1>7, <1>8, <1>9 DEF Next, Die,
     Invoke, ReadEof, Loop, Disable, End

LEMMA ShellNext == ASSUME TypeOK, Next PROVE ShellType'
<1> USE DEF ShellType
<1>0. ShellType /\ PipeType
  BY DEF TypeOK
<1>1. CASE Launch
  BY <1>0, <1>1 DEF Launch
<1>2. CASE Exit
  BY <1>0, <1>2 DEF Exit
<1>3. CASE Write
  BY <1>0, <1>3 DEF Write
<1>4. CASE Route
  <2>1. pending' \subseteq Calls
    BY <1>0, <1>4 DEF Route
  <2>2. Head(stdout) \in Lines \union Noises
    BY <1>0, <1>4 DEF Route, PipeType
  <2>3. Head(stdout).kind = "event" => Head(stdout).id \in Calls
    BY <2>2 DEF Lines, Noises, Noise
  <2> QED
    BY <1>0, <1>4, <2>1, <2>3 DEF Route
<1>5. CASE ReadEof
  BY <1>0, <1>5 DEF ReadEof
<1>6. ASSUME NEW c \in Calls, Invoke(c) \/ Send(c) PROVE ShellType'
  BY <1>0, <1>6 DEF Invoke, Send
<1>7. CASE UNCHANGED <<pending, shell>>
  BY <1>0, <1>7
<1> QED
  BY <1>1, <1>2, <1>3, <1>4, <1>5, <1>6, <1>7 DEF Next, Die, Loop, Disable,
     DisableFails, ReadLine, End, Request, Handle, Emit

LEMMA BackendNext == ASSUME TypeOK, Next PROVE BackendType'
<1> USE DEF BackendType
<1>0. BackendType /\ PipeType
  BY DEF TypeOK
<1>1. CASE Launch
  <2>1. PICK spawned \in BOOLEAN :
          backend' = [pc |-> IF spawned THEN "init" ELSE "gone",
                      task |-> NoTasks, previous |-> None, written |-> <<>>]
    BY <1>1 DEF Launch
  <2> QED
    BY <1>0, <1>1, <2>1 DEF Launch, NoTasks
<1>2. CASE Exit
  <2>1. backend' \in {backend, [backend EXCEPT !.pc = "gone", !.task = NoTasks]}
    BY <1>2 DEF Exit
  <2>2. UNCHANGED usb
    BY <1>2 DEF Exit
  <2>3. CASE backend' = [backend EXCEPT !.pc = "gone", !.task = NoTasks]
    BY <1>0, <2>2, <2>3 DEF NoTasks
  <2> QED
    BY <1>0, <2>1, <2>2, <2>3
<1>3. CASE Disable
  BY <1>0, <1>3 DEF Disable, Settings
<1>4. CASE DisableFails
  BY <1>0, <1>4 DEF DisableFails, Settings
<1>5. CASE ReadLine
  <2>1. Head(stdin) \in Calls
    BY <1>0, <1>5 DEF ReadLine, PipeType
  <2> QED
    BY <1>0, <1>5, <2>1 DEF ReadLine
<1>6. CASE End
  <2>1. Restored \in Settings
    BY <1>0 DEF Restored
  <2> QED
    BY <1>0, <1>6, <2>1 DEF End, NoTasks
<1>7. CASE Die
  BY <1>0, <1>7 DEF Die, NoTasks
<1>8. ASSUME NEW c \in Calls, Request(c) PROVE BackendType'
  <2>1. Written(Reply(c)) \in Seq(Lines) /\ Written(Event(c)) \in Seq(Lines)
    BY <1>0, LineTypes DEF Written
  <2>2. CASE Handle(c)
    <3>1. PICK next \in {"job", "none"} :
            backend' = [backend EXCEPT !.written = Written(Reply(c)),
                                       !.task[c] = next]
      BY <2>2 DEF Handle
    <3> QED
      BY <1>0, <2>1, <2>2, <3>1 DEF Handle
  <2>3. CASE Emit(c)
    BY <1>0, <2>1, <2>3 DEF Emit
  <2> QED
    BY <1>8, <2>2, <2>3 DEF Request
<1>9. CASE UNCHANGED <<backend, usb>>
  BY <1>0, <1>9
<1> QED
  BY <1>1, <1>2, <1>3, <1>4, <1>5, <1>6, <1>7, <1>8, <1>9 DEF Next, Invoke,
     Send, Write, Route, ReadEof, Loop

LEMMA SpentNext == ASSUME TypeOK, Next PROVE SpentType'
<1>0. SpentType
  BY DEF TypeOK
<1>1. ASSUME NEW what \in {"starts", "deaths", "faults", "kills"},
             spent' = Count(what)
      PROVE  SpentType'
  BY <1>0, <1>1, CountType DEF SpentType
<1>2. CASE UNCHANGED spent
  BY <1>0, <1>2 DEF SpentType
<1> QED
  BY <1>1, <1>2 DEF Next, Launch, Exit, Die, Invoke, Send, Write, Route,
     ReadEof, Loop, Disable, DisableFails, ReadLine, End, Request, Handle, Emit

LEMMA TypeNext == TypeOK /\ [Next]_vars => TypeOK'
<1> SUFFICES ASSUME TypeOK, [Next]_vars PROVE TypeOK'
  OBVIOUS
<1>1. CASE UNCHANGED vars
  BY <1>1 DEF vars, TypeOK, CallType, PipeType, ShellType, BackendType, SpentType
<1>2. CASE Next
  BY <1>2, CallNext, PipeNext, ShellNext, BackendNext, SpentNext DEF TypeOK
<1> QED
  BY <1>1, <1>2

\* Every variable of the bridge keeps its type.
THEOREM TypeCorrect == Spec => []TypeOK
BY TypeInit, TypeNext, PTL DEF Spec

-----------------------------------------------------------------------------
(* The table of pending calls                                               *)

TableInv == PendingIsInFlight /\ GetsItsOwnAnswer

LEMMA TableNext == TypeOK /\ TableInv /\ [Next]_vars => TableInv'
<1> SUFFICES ASSUME TypeOK, TableInv, [Next]_vars PROVE TableInv'
  OBVIOUS
<1> USE DEF TableInv, PendingIsInFlight, GetsItsOwnAnswer, InFlight
<1>0. /\ call \in [Calls -> [pc : {"idle", "insert", "wait", "done"},
                             answer : Calls \union {None}]]
      /\ pending \subseteq Calls
  BY DEF TypeOK, CallType, ShellType
<1>1. CASE Exit
  BY <1>0, <1>1 DEF Exit
<1>2. CASE Route
  <2> DEFINE line == Head(stdout)
  <2>1. CASE line.kind = "reply"
    <3>1. pending' = pending \ Taker(line.id)
      BY <1>2, <2>1 DEF Route
    <3>2. call' = [c \in Calls |-> IF c \in Taker(line.id)
                     THEN [pc |-> "done", answer |-> line.id] ELSE call[c]]
      BY <1>2, <2>1 DEF Route
    <3>3. \A c \in Taker(line.id) : c = line.id
      BY DEF Taker
    <3> HIDE DEF line
    <3>4. PendingIsInFlight'
      BY <1>0, <3>1, <3>2
    <3>5. GetsItsOwnAnswer'
      BY <1>0, <3>2, <3>3
    <3> QED
      BY <3>4, <3>5
  <2>2. CASE line.kind # "reply"
    BY <1>2, <2>2 DEF Route
  <2> QED
    BY <2>1, <2>2
<1>3. ASSUME NEW c \in Calls, Invoke(c) PROVE TableInv'
  BY <1>0, <1>3 DEF Invoke, Settle
<1>4. ASSUME NEW c \in Calls, Send(c) PROVE TableInv'
  BY <1>0, <1>4 DEF Send, Settle
<1>5. CASE UNCHANGED <<call, pending>>
  BY <1>5
<1> QED
  BY <1>1, <1>2, <1>3, <1>4, <1>5 DEF vars, Next, Launch, Die, Write, ReadEof,
     Loop, Disable, DisableFails, ReadLine, End, Request, Handle, Emit

\* An answer settles the call it was written for and no other.
THEOREM OwnAnswers == Spec => []GetsItsOwnAnswer
<1>1. Init => TableInv
  BY DEF Init, TableInv, PendingIsInFlight, GetsItsOwnAnswer, InFlight
<1>2. TableInv => GetsItsOwnAnswer
  BY DEF TableInv
<1> QED
  BY <1>1, <1>2, TypeCorrect, TableNext, PTL DEF Spec

\* No entry of the table of pending calls outlives its call or goes missing.
THEOREM TableExact == Spec => []PendingIsInFlight
<1>1. Init => TableInv
  BY DEF Init, TableInv, PendingIsInFlight, GetsItsOwnAnswer, InFlight
<1>2. TableInv => PendingIsInFlight
  BY DEF TableInv
<1> QED
  BY <1>1, <1>2, TypeCorrect, TableNext, PTL DEF Spec

-----------------------------------------------------------------------------
(* The USB setting                                                          *)

\* As long as nothing went wrong, the setting is the user's own or the
\* running backend remembers it.
Clean == spent.deaths = 0 /\ spent.kills = 0 /\ spent.faults = 0
UsbInv == Clean => IF backend.pc = "loop" THEN backend.previous = "enabled"
                                          ELSE usb = "enabled"

LEMMA CleanBack == ASSUME SpentType,
                          \/ UNCHANGED spent
                          \/ spent' = Count("starts")
                   PROVE  Clean' = Clean
BY DEF SpentType, Count, Clean

LEMMA CleanGone ==
    ASSUME SpentType, NEW what \in {"deaths", "faults", "kills"},
           spent' = Count(what)
    PROVE  ~Clean'
BY DEF SpentType, Count, Clean

LEMMA UsbNext == TypeOK /\ UsbInv /\ [Next]_vars => UsbInv'
<1> SUFFICES ASSUME TypeOK, UsbInv, [Next]_vars PROVE UsbInv'
  OBVIOUS
<1> USE DEF UsbInv
<1>0. BackendType /\ SpentType
  BY DEF TypeOK
<1>1. CASE Launch
  <2>1. backend'.pc \in {"init", "gone"} /\ usb' = usb /\ backend.pc = "gone"
    BY <1>1 DEF Launch
  <2>2. Clean' = Clean
    BY <1>0, <1>1, CleanBack DEF Launch
  <2> QED
    BY <2>1, <2>2
<1>2. CASE Exit
  <2>1. usb' = usb
    BY <1>2 DEF Exit
  <2>2. CASE UNCHANGED <<backend, spent>>
    BY <1>0, <2>1, <2>2, CleanBack
  <2>3. CASE backend.pc = "gone" /\ backend'.pc = "gone" /\ UNCHANGED spent
    BY <1>0, <2>1, <2>3, CleanBack
  <2>4. CASE spent' = Count("kills")
    BY <1>0, <2>4, CleanGone
  <2>5. backend' = [backend EXCEPT !.pc = "gone", !.task = NoTasks]
          => backend'.pc = "gone"
    BY <1>0 DEF BackendType
  <2> QED
    BY <1>2, <2>2, <2>3, <2>4, <2>5 DEF Exit
<1>3. CASE Disable
  BY <1>0, <1>3, CleanBack DEF Disable, BackendType
<1>4. CASE DisableFails
  BY <1>0, <1>4, CleanGone DEF DisableFails
<1>5. CASE End
  <2>1. backend.pc = "loop" /\ backend'.pc = "gone"
    BY <1>0, <1>5 DEF End, BackendType
  <2>2. CASE usb' = Restored /\ UNCHANGED spent
    BY <1>0, <2>1, <2>2, CleanBack DEF Restored, None
  <2>3. CASE spent' = Count("faults")
    BY <1>0, <2>3, CleanGone
  <2> QED
    BY <1>5, <2>2, <2>3 DEF End
<1>6. CASE Die
  BY <1>0, <1>6, CleanGone DEF Die
<1>7. CASE UNCHANGED <<usb, spent>> /\ backend'.pc = backend.pc
                /\ backend'.previous = backend.previous
  BY <1>0, <1>7, CleanBack
<1>8. ASSUME NEW c \in Calls, Request(c) PROVE UsbInv'
  BY <1>0, <1>7, <1>8 DEF Request, Handle, Emit, BackendType
<1>9. CASE ReadLine
  BY <1>0, <1>7, <1>9 DEF ReadLine, BackendType
<1> QED
  BY <1>1, <1>2, <1>3, <1>4, <1>5, <1>6, <1>7, <1>8, <1>9 DEF vars, Next,
     Invoke, Send, Write, Route, ReadEof, Loop

\* Once the backend has ended on its own the user's setting is back, over any
\* number of starts.
THEOREM SettingRestored == Spec => []RestoresSetting
<1>1. Init => UsbInv
  BY DEF Init, UsbInv
<1>2. UsbInv => RestoresSetting
  BY DEF UsbInv, RestoresSetting, Clean
<1> QED
  BY <1>1, <1>2, TypeCorrect, UsbNext, PTL DEF Spec

-----------------------------------------------------------------------------
(* Events and answers                                                       *)

\* A job whose events can reach the pipe belongs to a call already answered.
JobAnswered ==
    \A c \in Calls : backend.task[c] = "job" /\ shell.reader =>
        \E j \in DOMAIN backend.written : backend.written[j] = Reply(c)
EventInv == JobAnswered /\ EventFollowsAnswer

LEMMA Appended ==
    ASSUME NEW w \in Seq(Lines), NEW line \in Lines
    PROVE  LET longer == Append(w, line) IN
           /\ DOMAIN longer = 1..(Len(w) + 1) /\ DOMAIN w = 1..Len(w)
           /\ Len(w) \in Nat /\ longer[Len(w) + 1] = line
           /\ \A i \in DOMAIN w : longer[i] = w[i] /\ i \in DOMAIN longer
OBVIOUS

\* A line may be added that is no event or that comes after its answer.
LEMMA FollowsAppend ==
    ASSUME EventFollowsAnswer, NEW line \in Lines,
           backend.written \in Seq(Lines),
           backend'.written = Append(backend.written, line),
           line.kind = "event" =>
             \E j \in DOMAIN backend.written : backend.written[j] = Reply(line.id)
    PROVE  EventFollowsAnswer'
<1> DEFINE w == backend.written
           longer == Append(w, line)
<1>1. /\ DOMAIN longer = 1..(Len(w) + 1) /\ DOMAIN w = 1..Len(w)
      /\ Len(w) \in Nat /\ longer[Len(w) + 1] = line
      /\ \A i \in DOMAIN w : longer[i] = w[i] /\ i \in DOMAIN longer
  BY Appended
<1>2. SUFFICES ASSUME NEW i \in DOMAIN longer, longer[i].kind = "event"
               PROVE  \E j \in 1..i : longer[j] = Reply(longer[i].id)
  BY DEF EventFollowsAnswer
<1>3. CASE i \in DOMAIN w
  <2>1. PICK j \in 1..i : w[j] = Reply(w[i].id)
    BY <1>1, <1>2, <1>3 DEF EventFollowsAnswer
  <2>2. j \in DOMAIN w
    BY <1>1, <1>3, <2>1
  <2> HIDE DEF longer
  <2> QED
    BY <1>1, <1>3, <2>1, <2>2
<1>4. CASE i = Len(w) + 1
  <2>1. PICK j \in DOMAIN w : w[j] = Reply(line.id)
    BY <1>1, <1>2, <1>4
  <2> HIDE DEF longer
  <2>2. longer[j] = Reply(longer[i].id) /\ j \in 1..i
    BY <1>1, <1>4, <2>1
  <2> QED
    BY <2>2
<1> QED
  BY <1>1, <1>3, <1>4

\* A line may be added and the task of its call set, if a job is set for an
\* answer only.
LEMMA JobAppend ==
    ASSUME JobAnswered, NEW line \in Lines, NEW c \in Calls, NEW next,
           backend.written \in Seq(Lines),
           backend.task \in [Calls -> {"none", "handle", "job"}],
           backend'.written = Append(backend.written, line),
           backend'.task = [backend.task EXCEPT ![c] = next],
           next = "job" => line = Reply(c),
           UNCHANGED shell
    PROVE  JobAnswered'
<1> DEFINE w == backend.written
           longer == Append(w, line)
<1>1. /\ DOMAIN longer = 1..(Len(w) + 1) /\ DOMAIN w = 1..Len(w)
      /\ Len(w) \in Nat /\ longer[Len(w) + 1] = line
      /\ \A i \in DOMAIN w : longer[i] = w[i] /\ i \in DOMAIN longer
  BY Appended
<1>2. SUFFICES ASSUME NEW d \in Calls, backend'.task[d] = "job", shell.reader
               PROVE  \E j \in DOMAIN longer : longer[j] = Reply(d)
  BY DEF JobAnswered
<1>3. CASE d = c
  <2> HIDE DEF longer
  <2> QED
    BY <1>1, <1>2, <1>3
<1>4. CASE d # c
  <2>1. PICK j \in DOMAIN w : w[j] = Reply(d)
    BY <1>2, <1>4 DEF JobAnswered
  <2> HIDE DEF longer
  <2> QED
    BY <1>1, <2>1
<1> QED
  BY <1>3, <1>4

LEMMA EventHandle ==
    ASSUME TypeOK, EventInv, NEW c \in Calls, Handle(c) PROVE EventInv'
<1>0. /\ backend.written \in Seq(Lines)
      /\ backend.task \in [Calls -> {"none", "handle", "job"}]
      /\ Reply(c) \in Lines /\ Reply(c).kind # "event"
      /\ UNCHANGED shell
  BY LineTypes DEF TypeOK, BackendType, Handle, Reply
<1>1. PICK next \in {"job", "none"} :
        /\ backend'.written = Written(Reply(c))
        /\ backend'.task = [backend.task EXCEPT ![c] = next]
  BY DEF Handle, TypeOK, BackendType
<1>2. CASE ~shell.reader
  BY <1>0, <1>1, <1>2 DEF EventInv, JobAnswered, EventFollowsAnswer, Written
<1>3. CASE shell.reader
  <2>1. backend'.written = Append(backend.written, Reply(c))
    BY <1>1, <1>3 DEF Written
  <2>2. JobAnswered'
    BY <1>0, <1>1, <2>1, JobAppend DEF EventInv
  <2>3. EventFollowsAnswer'
    BY <1>0, <2>1, FollowsAppend DEF EventInv
  <2> QED
    BY <2>2, <2>3 DEF EventInv
<1> QED
  BY <1>2, <1>3

LEMMA EventEmit ==
    ASSUME TypeOK, EventInv, NEW c \in Calls, Emit(c) PROVE EventInv'
<1>0. /\ backend.written \in Seq(Lines)
      /\ backend.task \in [Calls -> {"none", "handle", "job"}]
      /\ Event(c) \in Lines /\ Event(c).id = c
      /\ UNCHANGED shell
  BY LineTypes DEF TypeOK, BackendType, Emit, Event
<1>1. /\ backend.task[c] = "job"
      /\ backend'.written = Written(Event(c))
      /\ backend'.task = [backend.task EXCEPT ![c] = "none"]
  BY DEF Emit, TypeOK, BackendType
<1>2. CASE ~shell.reader
  BY <1>0, <1>1, <1>2 DEF EventInv, JobAnswered, EventFollowsAnswer, Written
<1>3. CASE shell.reader
  <2>1. backend'.written = Append(backend.written, Event(c))
    BY <1>1, <1>3 DEF Written
  <2>2. PICK j \in DOMAIN backend.written : backend.written[j] = Reply(c)
    BY <1>1, <1>3 DEF EventInv, JobAnswered
  <2>3. JobAnswered'
    BY <1>0, <1>1, <2>1, JobAppend DEF EventInv
  <2>4. EventFollowsAnswer'
    BY <1>0, <2>1, <2>2, FollowsAppend DEF EventInv
  <2> QED
    BY <2>3, <2>4 DEF EventInv
<1> QED
  BY <1>2, <1>3

LEMMA EventNext == TypeOK /\ EventInv /\ [Next]_vars => EventInv'
<1> SUFFICES ASSUME TypeOK, EventInv, [Next]_vars PROVE EventInv'
  OBVIOUS
<1>0. BackendType /\ ShellType
  BY DEF TypeOK
\* A step that writes no line and starts no job.
<1>1. ASSUME backend'.written = backend.written,
             \A c \in Calls : backend'.task[c] = "job" => backend.task[c] = "job",
             shell'.reader => shell.reader
      PROVE  EventInv'
  BY <1>1 DEF EventInv, JobAnswered, EventFollowsAnswer, Reply
<1>2. CASE Launch
  BY <1>2 DEF Launch, NoTasks, EventInv, JobAnswered, EventFollowsAnswer
<1>3. CASE Exit
  <2>1. shell'.reader = FALSE
    BY <1>0, <1>3 DEF Exit, ShellType
  <2>2. CASE UNCHANGED backend
    BY <1>1, <2>1, <2>2
  <2>3. CASE backend' = [backend EXCEPT !.pc = "gone", !.task = NoTasks]
    BY <1>0, <1>1, <2>1, <2>3 DEF NoTasks, BackendType
  <2> QED
    BY <1>3, <2>2, <2>3 DEF Exit
<1>4. CASE Die \/ End
  BY <1>0, <1>1, <1>4 DEF Die, End, NoTasks, BackendType
<1>5. CASE Disable \/ DisableFails
  <2>1. backend'.written = backend.written /\ backend'.task = backend.task
    BY <1>0, <1>5 DEF Disable, DisableFails, BackendType
  <2> QED
    BY <1>1, <1>5, <2>1 DEF Disable, DisableFails
<1>6. CASE ReadLine
  BY <1>0, <1>1, <1>6 DEF ReadLine, BackendType
<1>7. CASE Write \/ Route \/ ReadEof
  <2>1. UNCHANGED backend
    BY <1>7 DEF Write, Route, ReadEof
  <2>2. CASE Route
    BY <1>1, <2>1, <2>2 DEF Route
  <2>3. CASE Write \/ ReadEof
    <3>1. shell'.reader => shell.reader
      BY <1>0, <2>3 DEF Write, ReadEof, ShellType
    <3> QED
      BY <1>1, <2>1, <3>1
  <2> QED
    BY <1>7, <2>2, <2>3
<1>8. CASE UNCHANGED <<backend, shell>>
  BY <1>1, <1>8
<1> QED
  BY <1>2, <1>3, <1>4, <1>5, <1>6, <1>7, <1>8, EventHandle, EventEmit
     DEF vars, Next, Invoke, Send, Loop, Request

\* What a background job reports is never ahead of the answer of its call.
THEOREM EventsFollow == Spec => []EventFollowsAnswer
<1>1. Init => EventInv
  BY DEF Init, EventInv, JobAnswered, EventFollowsAnswer, NoTasks
<1>2. EventInv => EventFollowsAnswer
  BY DEF EventInv
<1> QED
  BY <1>1, <1>2, TypeCorrect, EventNext, PTL DEF Spec

-----------------------------------------------------------------------------
(* The backend answers each request once: a request is in one place at a    *)
(* time, on its way to the backend, with its handler, or answered.          *)

(* Membership in a channel.                                                 *)

On(s, x) == \E k \in 1..Len(s) : s[k] = x
NoRepeats(s) == \A j, k \in 1..Len(s) : s[j] = s[k] => j = k

LEMMA AppendOn ==
    ASSUME NEW S, NEW s \in Seq(S), NEW x \in S
    PROVE  /\ \A c : On(Append(s, x), c) <=> On(s, c) \/ c = x
           /\ NoRepeats(s) /\ ~On(s, x) => NoRepeats(Append(s, x))
<1>1. /\ Len(Append(s, x)) = Len(s) + 1 /\ Len(s) \in Nat
      /\ Append(s, x)[Len(s) + 1] = x
      /\ \A k \in 1..Len(s) : Append(s, x)[k] = s[k]
  OBVIOUS
<1> DEFINE longer == Append(s, x)
<1> HIDE DEF longer
<1>2. \A k \in 1..Len(longer) : k \in 1..Len(s) \/ k = Len(s) + 1
  BY <1>1 DEF longer
<1>3. \A k \in 1..Len(s) : k \in 1..Len(longer) /\ k # Len(s) + 1
  BY <1>1 DEF longer
<1>4. Len(s) + 1 \in 1..Len(longer)
  BY <1>1 DEF longer
<1>5. /\ longer[Len(s) + 1] = x
      /\ \A k \in 1..Len(s) : longer[k] = s[k]
  BY <1>1 DEF longer
<1>6. \A c : On(longer, c) <=> On(s, c) \/ c = x
  BY <1>2, <1>3, <1>4, <1>5 DEF On
<1>7. NoRepeats(s) /\ ~On(s, x) => NoRepeats(longer)
  BY <1>2, <1>3, <1>5 DEF On, NoRepeats
<1> QED
  BY <1>6, <1>7 DEF longer

LEMMA TailOn ==
    ASSUME NEW S, NEW s \in Seq(S), s # <<>>
    PROVE  /\ On(s, Head(s)) /\ Head(s) \in S
           /\ \A c : On(Tail(s), c) => On(s, c)
           /\ NoRepeats(s) => NoRepeats(Tail(s)) /\ ~On(Tail(s), Head(s))
<1>1. /\ Len(s) \in Nat /\ Len(s) > 0 /\ Head(s) = s[1] /\ Head(s) \in S
      /\ Len(Tail(s)) = Len(s) - 1
      /\ \A k \in 1..Len(Tail(s)) : Tail(s)[k] = s[k + 1]
  OBVIOUS
<1> DEFINE rest == Tail(s)
<1> HIDE DEF rest
<1>2. \A k \in 1..Len(rest) : k \in Nat /\ k + 1 \in 1..Len(s) /\ k + 1 # 1
  BY <1>1 DEF rest
<1>3. \A k \in 1..Len(rest) : rest[k] = s[k + 1]
  BY <1>1 DEF rest
<1>4. 1 \in 1..Len(s)
  BY <1>1
<1>5. On(s, Head(s)) /\ \A c : On(rest, c) => On(s, c)
  BY <1>1, <1>2, <1>3, <1>4 DEF On
<1>6. ASSUME NoRepeats(s) PROVE NoRepeats(rest) /\ ~On(rest, Head(s))
  <2>1. ASSUME NEW j \in 1..Len(rest), NEW k \in 1..Len(rest), rest[j] = rest[k]
        PROVE  j = k
    <3>1. j + 1 = k + 1
      BY <1>2, <1>3, <1>6, <2>1 DEF NoRepeats
    <3> QED
      BY <1>2, <3>1
  <2>2. ~On(rest, Head(s))
    BY <1>1, <1>2, <1>3, <1>4, <1>6 DEF On, NoRepeats
  <2> QED
    BY <2>1, <2>2 DEF NoRepeats
<1> QED
  BY <1>1, <1>5, <1>6 DEF rest

-----------------------------------------------------------------------------
(* A call was sent once; from then on it is in at most one place.           *)

Sent(c) == call[c].pc \in {"wait", "done"}
Handling(c) == backend.task[c] = "handle"
Answered(c) == On(backend.written, Reply(c))
OnePlace ==
    \A c \in Calls :
        /\ On(queue, c) => Sent(c) /\ ~On(stdin, c) /\ ~Handling(c) /\ ~Answered(c)
        /\ On(stdin, c) => Sent(c) /\ ~Handling(c) /\ ~Answered(c)
        /\ Handling(c) => Sent(c) /\ ~Answered(c)
        /\ Answered(c) => Sent(c)
AnswerInv == NoRepeats(queue) /\ NoRepeats(stdin) /\ AnswersOnce /\ OnePlace

LEMMA EmptyOn == /\ NoRepeats(<<>>) /\ \A c : ~On(<<>>, c)
BY DEF NoRepeats, On

\* What one more line does to the answers that were written.
LEMMA OneMoreLine ==
    ASSUME TypeOK, AnswersOnce, NEW line \in Lines,
           backend'.written = Append(backend.written, line),
           line.kind = "reply" => ~On(backend.written, line)
    PROVE  /\ AnswersOnce'
           /\ \A c \in Calls : Answered(c)' <=> Answered(c) \/ line = Reply(c)
<1>0. backend.written \in Seq(Lines)
  BY DEF TypeOK, BackendType
<1> DEFINE w == backend.written
           longer == Append(w, line)
<1>1. /\ DOMAIN longer = 1..(Len(w) + 1) /\ DOMAIN w = 1..Len(w)
      /\ Len(w) \in Nat /\ longer[Len(w) + 1] = line
      /\ \A i \in DOMAIN w : longer[i] = w[i] /\ i \in DOMAIN longer
  BY <1>0, Appended
<1>2. \A i \in DOMAIN longer : i \in DOMAIN w \/ i = Len(w) + 1
  BY <1>1
<1>3. \A i \in DOMAIN w : w[i] = line => line.kind # "reply"
  BY <1>1 DEF On
<1>4. \A i, j \in DOMAIN w : w[i] = w[j] /\ w[i].kind = "reply" => i = j
  BY DEF AnswersOnce
<1>5. AnswersOnce'
  <2> HIDE DEF longer, w
  <2>1. \A i, j \in DOMAIN longer :
            longer[i] = longer[j] /\ longer[i].kind = "reply" => i = j
    BY <1>1, <1>2, <1>3, <1>4
  <2> QED
    BY <2>1 DEF AnswersOnce, longer, w
<1>6. \A c \in Calls : Answered(c)' <=> Answered(c) \/ line = Reply(c)
  BY <1>0, AppendOn DEF Answered, Reply
<1> QED
  BY <1>5, <1>6

\* Steps that leave the backend and both pipes to it alone.
LEMMA PlacesStand ==
    ASSUME AnswerInv, UNCHANGED <<queue, stdin>>,
           backend'.written = backend.written,
           \A c \in Calls : Handling(c)' => Handling(c),
           \A c \in Calls : Sent(c) => Sent(c)'
    PROVE  AnswerInv'
BY DEF AnswerInv, OnePlace, AnswersOnce, Answered

LEMMA ShellAnswers ==
    ASSUME TypeOK, AnswerInv,
           Launch \/ Exit \/ Write \/ Route \/ ReadEof
              \/ \E c \in Calls : Invoke(c) \/ Send(c)
    PROVE  AnswerInv'
<1>0. /\ call \in [Calls -> [pc : {"idle", "insert", "wait", "done"},
                             answer : Calls \union {None}]]
      /\ queue \in Seq(Calls) /\ stdin \in Seq(Calls)
      /\ backend \in [pc : {"init", "loop", "gone"},
                      task : [Calls -> {"none", "handle", "job"}],
                      previous : Settings \union {None}, written : Seq(Lines)]
  BY DEF TypeOK, CallType, PipeType, BackendType
<1>1. CASE Launch
  BY <1>1, EmptyOn DEF Launch, AnswerInv, OnePlace, AnswersOnce, Answered, Handling,
                       NoTasks
<1>2. CASE Exit
  <2>1. \A c \in Calls : Sent(c) => Sent(c)'
    BY <1>0, <1>2 DEF Exit, Sent, InFlight
  <2>2. /\ backend'.written = backend.written
        /\ \A c \in Calls : Handling(c)' => Handling(c)
    BY <1>0, <1>2 DEF Exit, Handling, NoTasks
  <2> QED
    BY <1>2, <2>1, <2>2, EmptyOn
       DEF Exit, AnswerInv, OnePlace, AnswersOnce, Answered
<1>3. CASE Write
  <2>1. UNCHANGED <<call, backend>> /\ queue # <<>>
    BY <1>3 DEF Write
  <2>2. CASE queue' = <<>> /\ stdin' = stdin
    BY <2>1, <2>2, EmptyOn
       DEF AnswerInv, OnePlace, AnswersOnce, Answered, Handling, Sent
  <2>3. CASE stdin' = Append(stdin, Head(queue)) /\ queue' = Tail(queue)
    <3> DEFINE h == Head(queue)
    <3>1. /\ On(queue, h) /\ h \in Calls
          /\ \A c : On(queue', c) => On(queue, c)
          /\ NoRepeats(queue') /\ ~On(queue', h)
      BY <1>0, <2>1, <2>3, TailOn DEF AnswerInv
    <3>2. ~On(stdin, h)
      BY <3>1 DEF AnswerInv, OnePlace
    <3>3. /\ \A c : On(stdin', c) <=> On(stdin, c) \/ c = h
          /\ NoRepeats(stdin')
      BY <1>0, <2>3, <3>1, <3>2, AppendOn DEF AnswerInv
    <3> HIDE DEF h
    <3>4. \A c \in Calls : /\ Sent(c)' <=> Sent(c)
                           /\ Handling(c)' <=> Handling(c)
                           /\ Answered(c)' <=> Answered(c)
      BY <2>1 DEF Sent, Handling, Answered
    <3>5. AnswersOnce'
      BY <2>1 DEF AnswerInv, AnswersOnce
    <3>6. OnePlace'
      BY <3>1, <3>3, <3>4 DEF AnswerInv, OnePlace
    <3> QED
      BY <3>1, <3>3, <3>5, <3>6 DEF AnswerInv
  <2> QED
    BY <1>3, <2>2, <2>3 DEF Write
<1>4. CASE Route
  <2>1. /\ UNCHANGED <<queue, stdin, backend>>
        /\ \A c \in Calls : call'[c] = call[c] \/ call'[c].pc = "done"
    <3>1. CASE Head(stdout).kind = "reply"
      BY <1>4, <3>1 DEF Route
    <3>2. CASE Head(stdout).kind # "reply"
      BY <1>4, <3>2 DEF Route
    <3> QED
      BY <3>1, <3>2
  <2>2. \A c \in Calls : Sent(c) => Sent(c)'
    BY <2>1 DEF Sent
  <2> QED
    BY <2>1, <2>2, PlacesStand DEF Handling
<1>5. CASE ReadEof
  BY <1>5, PlacesStand DEF ReadEof, Handling, Sent
<1>6. ASSUME NEW c \in Calls, Invoke(c) PROVE AnswerInv'
  <2>1. \A d \in Calls : Sent(d) => Sent(d)'
    BY <1>0, <1>6 DEF Invoke, Settle, Sent
  <2> QED
    BY <1>6, <2>1, PlacesStand DEF Invoke, Handling
<1>7. ASSUME NEW c \in Calls, Send(c) PROVE AnswerInv'
  <2>1. \A d \in Calls : Sent(d)' <=> Sent(d) \/ d = c
    BY <1>0, <1>7 DEF Send, Settle, Sent
  <2>2. CASE queue' = queue
    BY <1>7, <2>1, <2>2, PlacesStand DEF Send, Handling
  <2>3. CASE queue' = Append(queue, c)
    <3>1. ~Sent(c) /\ UNCHANGED <<stdin, backend>>
      BY <1>7 DEF Send, Sent
    <3>2. ~On(queue, c) /\ ~On(stdin, c) /\ ~Handling(c) /\ ~Answered(c)
      BY <3>1 DEF AnswerInv, OnePlace
    <3>3. /\ \A d : On(queue', d) <=> On(queue, d) \/ d = c
          /\ NoRepeats(queue')
      BY <1>0, <2>3, <3>2, AppendOn DEF AnswerInv
    <3>4. \A d \in Calls : /\ Handling(d)' <=> Handling(d)
                           /\ Answered(d)' <=> Answered(d)
      BY <3>1 DEF Handling, Answered
    <3>5. OnePlace'
      BY <2>1, <3>1, <3>2, <3>3, <3>4 DEF AnswerInv, OnePlace
    <3> QED
      BY <3>1, <3>3, <3>5 DEF AnswerInv, AnswersOnce
  <2> QED
    BY <1>7, <2>2, <2>3 DEF Send
<1> QED
  BY <1>1, <1>2, <1>3, <1>4, <1>5, <1>6, <1>7

LEMMA BackendAnswers ==
    ASSUME TypeOK, AnswerInv,
           Die \/ Loop \/ \E c \in Calls : Request(c)
    PROVE  AnswerInv'
<1>0. /\ queue \in Seq(Calls) /\ stdin \in Seq(Calls)
      /\ backend \in [pc : {"init", "loop", "gone"},
                      task : [Calls -> {"none", "handle", "job"}],
                      previous : Settings \union {None}, written : Seq(Lines)]
  BY DEF TypeOK, PipeType, BackendType
<1>1. CASE Die \/ End
  <2>1. /\ UNCHANGED <<queue, stdin, call>>
        /\ backend' = [backend EXCEPT !.pc = "gone", !.task = NoTasks]
    BY <1>1 DEF Die, End
  <2>2. /\ backend'.written = backend.written
        /\ \A c \in Calls : Handling(c)' => Handling(c)
    BY <1>0, <2>1 DEF Handling, NoTasks
  <2> QED
    BY <2>1, <2>2, PlacesStand DEF Sent
<1>2. CASE Disable \/ DisableFails
  <2>1. /\ UNCHANGED <<queue, stdin, call>>
        /\ backend'.written = backend.written /\ backend'.task = backend.task
    BY <1>0, <1>2 DEF Disable, DisableFails
  <2> QED
    BY <2>1, PlacesStand DEF Sent, Handling
<1>3. CASE ReadLine
  <2> DEFINE h == Head(stdin)
  <2>1. stdin # <<>> /\ stdin' = Tail(stdin) /\ UNCHANGED <<queue, call>>
    BY <1>3 DEF ReadLine
  <2>2. /\ On(stdin, h) /\ h \in Calls
        /\ \A c : On(stdin', c) => On(stdin, c)
        /\ NoRepeats(stdin') /\ ~On(stdin', h)
    BY <1>0, <2>1, TailOn DEF AnswerInv
  <2>3. /\ backend'.written = backend.written
        /\ \A c \in Calls : Handling(c)' <=> Handling(c) \/ c = h
    BY <1>0, <1>3, <2>2 DEF ReadLine, Handling
  <2> HIDE DEF h
  <2>4. \A c \in Calls : /\ Sent(c)' <=> Sent(c)
                         /\ Answered(c)' <=> Answered(c)
    BY <2>1, <2>3 DEF Sent, Answered
  <2>5. OnePlace'
    BY <2>1, <2>2, <2>3, <2>4 DEF AnswerInv, OnePlace
  <2> QED
    BY <2>1, <2>2, <2>3, <2>5 DEF AnswerInv, AnswersOnce
<1>4. ASSUME NEW c \in Calls, Request(c) PROVE AnswerInv'
  <2> DEFINE line == IF Handling(c) THEN Reply(c) ELSE Event(c)
  <2>1. /\ UNCHANGED <<queue, stdin, call>>
        /\ backend'.written = Written(line)
        /\ \A d \in Calls : Handling(d)' <=> Handling(d) /\ d # c
    <3>1. CASE Handle(c)
      <4>1. PICK next \in {"job", "none"} :
               backend' = [backend EXCEPT !.written = Written(Reply(c)),
                                          !.task[c] = next]
        BY <3>1 DEF Handle
      <4>2. /\ backend'.written = Written(Reply(c))
            /\ backend'.task = [backend.task EXCEPT ![c] = next]
        BY <1>0, <4>1
      <4> QED
        BY <1>0, <3>1, <4>2 DEF Handle, Handling
    <3>2. CASE Emit(c)
      <4>1. /\ backend'.written = Written(Event(c))
            /\ backend'.task = [backend.task EXCEPT ![c] = "none"]
        BY <1>0, <3>2 DEF Emit
      <4> QED
        BY <1>0, <3>2, <4>1 DEF Emit, Handling
    <3> QED
      BY <1>4, <3>1, <3>2 DEF Request
  <2>2. CASE ~shell.reader
    BY <2>1, <2>2, PlacesStand DEF Written, Sent
  <2>3. CASE shell.reader
    <3>1. backend'.written = Append(backend.written, line)
      BY <2>1, <2>3 DEF Written
    <3>2. line \in Lines /\ (line.kind = "reply" => line = Reply(c) /\ Handling(c))
      BY DEF Reply, Event, Lines
    <3>3. line.kind = "reply" => ~On(backend.written, line)
      BY <3>2 DEF AnswerInv, OnePlace, Answered
    <3>4. \A d \in Calls : line = Reply(d) => d = c /\ Handling(c)
      BY <3>2 DEF Reply, Event
    <3> HIDE DEF line
    <3>5. /\ AnswersOnce'
          /\ \A d \in Calls : Answered(d)' <=> Answered(d) \/ line = Reply(d)
      BY <3>1, <3>2, <3>3, OneMoreLine DEF AnswerInv
    <3>6. \A d \in Calls : Sent(d)' <=> Sent(d)
      BY <2>1 DEF Sent
    <3>7. OnePlace'
      BY <2>1, <3>4, <3>5, <3>6 DEF AnswerInv, OnePlace
    <3> QED
      BY <2>1, <3>5, <3>7 DEF AnswerInv
  <2> QED
    BY <2>2, <2>3
<1> QED
  BY <1>1, <1>2, <1>3, <1>4 DEF Loop

LEMMA AnswerInductive ==
    /\ Init => AnswerInv
    /\ TypeOK /\ AnswerInv /\ [Next]_vars => AnswerInv'
<1>1. Init => AnswerInv
  BY EmptyOn DEF Init, AnswerInv, OnePlace, AnswersOnce, Answered, Handling, NoTasks
<1>2. ASSUME TypeOK, AnswerInv, [Next]_vars PROVE AnswerInv'
  <2>1. CASE UNCHANGED vars
    BY <1>2, <2>1, PlacesStand DEF vars, Handling, Sent
  <2>2. CASE Next
    BY <1>2, <2>2, ShellAnswers, BackendAnswers DEF Next
  <2> QED
    BY <1>2, <2>1, <2>2
<1> QED
  BY <1>1, <1>2

\* No request is answered twice: not by a handler that raises after it
\* answered, nor by a line that is read again after a crash or a new start.
THEOREM AnsweredOnce == Spec => []AnswersOnce
<1>1. AnswerInv => AnswersOnce
  BY DEF AnswerInv
<1> QED
  BY <1>1, TypeCorrect, AnswerInductive, PTL DEF Spec

=============================================================================
