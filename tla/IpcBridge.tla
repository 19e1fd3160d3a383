----------------------------- MODULE IpcBridge -----------------------------
(***************************************************************************)
(* The way of a call from the page to the Python backend and back: the     *)
(* shell's table of pending calls, its writer and reader tasks, the two    *)
(* pipes, the backend's stdio loop with one task per request, and the USB  *)
(* suspend setting the backend changes while it runs.                      *)
(*                                                                         *)
(* A call is identified by its uuid, so it is made once.  What a handler   *)
(* does is the other modules' business: here it answers, and may leave a   *)
(* background job behind that emits an event.                              *)
(***************************************************************************)
EXTENDS Naturals, Sequences

CONSTANTS
    Calls,      \* calls the page ever makes
    MaxStarts,  \* bound: starts of the app
    MaxDeaths,  \* bound: crashes of the backend
    MaxFaults   \* bound: times powercfg refuses

ASSUME BoundsAssumption ==
    MaxStarts \in Nat /\ MaxDeaths \in Nat /\ MaxFaults \in Nat

VARIABLES
    call,     \* each call, as the page sees it
    pending,  \* PendingMap
    shell,    \* the app, its two tasks, what it told the page
    queue,    \* lines sent to the writer task
    stdin,    \* lines in the pipe to the backend
    stdout,   \* lines in the pipe from the backend
    backend,  \* the stdio loop and the task of each request
    usb,      \* USB selective suspend of the power scheme
    spent     \* how much of the bounds is used, and how backends ended

vars == <<call, pending, shell, queue, stdin, stdout, backend, usb, spent>>

None == "none"
NoTasks == [c \in Calls |-> "none"]
InFlight == {"insert", "wait"}

\* Mutant of Reply: the id is forgotten.
ReplyUnnamed(c) == [kind |-> "reply", id |-> None]

Reply(c) == [kind |-> "reply", id |-> c]
Event(c) == [kind |-> "event", id |-> c]
Noise(k) == [kind |-> k, id |-> None]

Init ==
    /\ call = [c \in Calls |-> [pc |-> "idle", answer |-> None]]
    /\ pending = {}
    /\ shell = [up |-> FALSE, managed |-> FALSE, writer |-> FALSE,
                reader |-> FALSE, told |-> FALSE, events |-> {}]
    /\ queue = <<>> /\ stdin = <<>> /\ stdout = <<>>
    /\ backend = [pc |-> "gone", task |-> NoTasks, previous |-> None,
                  written |-> <<>>]
    /\ usb = "enabled"
    /\ spent = [starts |-> 0, deaths |-> 0, faults |-> 0, kills |-> 0]

Count(what) == [spent EXCEPT ![what] = @ + 1]
Settle(c, answer) == call' = [call EXCEPT ![c] = [pc |-> "done", answer |-> answer]]

-----------------------------------------------------------------------------
(* The shell                                                                *)

\* run(): the sidecar is spawned, or the app goes on without one.
Launch ==
    /\ ~shell.up /\ backend.pc = "gone"
    /\ spent.starts < MaxStarts
    /\ spent' = Count("starts")
    /\ \E spawned \in BOOLEAN :
        /\ shell' = [up |-> TRUE, managed |-> spawned,
                     writer |-> spawned, reader |-> spawned, told |-> FALSE, events |-> {}]
        /\ backend' = [pc |-> IF spawned THEN "init" ELSE "gone",
                       task |-> NoTasks, previous |-> None, written |-> <<>>]
    /\ queue' = <<>> /\ stdin' = <<>> /\ stdout' = <<>>
    /\ UNCHANGED <<call, pending, usb>>

\* call: a sender is put into the table; without a sidecar there is no client
\* and the command fails.
Invoke(c) ==
    /\ shell.up /\ call[c].pc = "idle"
    /\ IF shell.managed
       THEN /\ call' = [call EXCEPT ![c].pc = "insert"]
            /\ pending' = pending \union {c}
       ELSE Settle(c, None) /\ UNCHANGED pending
    /\ UNCHANGED <<shell, queue, stdin, stdout, backend, usb, spent>>

\* Mutant of Send: a call that could not be sent is left in the table.
SendKept(c) ==
    /\ call[c].pc = "insert"
    /\ IF shell.writer
       THEN /\ queue' = Append(queue, c)
            /\ call' = [call EXCEPT ![c].pc = "wait"]
       ELSE Settle(c, None) /\ UNCHANGED queue
    /\ UNCHANGED <<pending, shell, stdin, stdout, backend, usb, spent>>

\* ... and the request is sent; once the writer task is gone the call fails.
Send(c) ==
    /\ call[c].pc = "insert"
    /\ IF shell.writer
       THEN /\ queue' = Append(queue, c)
            /\ call' = [call EXCEPT ![c].pc = "wait"]
            /\ UNCHANGED pending
       ELSE /\ Settle(c, None)
            /\ pending' = pending \ {c}
            /\ UNCHANGED queue
    /\ UNCHANGED <<shell, stdin, stdout, backend, usb, spent>>

\* The writer task; it ends at the first write the backend does not take.
Write ==
    /\ shell.writer /\ queue # <<>>
    /\ IF backend.pc = "gone"
       THEN /\ shell' = [shell EXCEPT !.writer = FALSE]
            /\ queue' = <<>>
            /\ UNCHANGED stdin
       ELSE /\ stdin' = Append(stdin, Head(queue))
            /\ queue' = Tail(queue)
            /\ UNCHANGED shell
    /\ UNCHANGED <<call, pending, stdout, backend, usb, spent>>

\* Mutant of Taker: answers are taken to come in the order of the calls.
TakerInOrder(id) ==
    IF pending = {} THEN {} ELSE {CHOOSE c \in pending : TRUE}

\* The pending call that takes an answer.
Taker(id) == pending \intersect {id}

\* route_incoming_line: an answer settles its call, an event goes to the
\* page, a line that is not JSON is ignored, one that is not UTF-8 ends the
\* reader task without a word.
Route ==
    LET line == Head(stdout) IN
    /\ shell.reader /\ stdout # <<>>
    /\ stdout' = Tail(stdout)
    /\ IF line.kind = "reply"
       THEN /\ pending' = pending \ Taker(line.id)
            /\ call' = [c \in Calls |-> IF c \in Taker(line.id)
                         THEN [pc |-> "done", answer |-> line.id] ELSE call[c]]
       ELSE UNCHANGED <<pending, call>>
    /\ shell' = [shell EXCEPT
                  !.reader = line.kind # "bytes",
                  !.events = IF line.kind = "event" THEN @ \union {line.id} ELSE @]
    /\ UNCHANGED <<queue, stdin, backend, usb, spent>>

\* Mutant of ReadEof: the end of the stream ends the reader task, no more.
ReadEofQuiet ==
    /\ shell.reader /\ stdout = <<>> /\ backend.pc = "gone"
    /\ shell' = [shell EXCEPT !.reader = FALSE]
    /\ UNCHANGED <<call, pending, queue, stdin, stdout, backend, usb, spent>>

\* The end of the stream: backend_crashed is emitted.
ReadEof ==
    /\ shell.reader /\ stdout = <<>> /\ backend.pc = "gone"
    /\ shell' = [shell EXCEPT !.reader = FALSE, !.told = TRUE]
    /\ UNCHANGED <<call, pending, queue, stdin, stdout, backend, usb, spent>>

\* ExitRequested: the child is killed.  The packaged sidecar runs the loop in
\* a child of the process that is killed, which may live on with closed pipes.
Exit ==
    /\ shell.up
    /\ shell' = [shell EXCEPT !.up = FALSE, !.writer = FALSE, !.reader = FALSE]
    /\ call' = [c \in Calls |-> IF call[c].pc \in InFlight
                                THEN [pc |-> "done", answer |-> None] ELSE call[c]]
    /\ pending' = {} /\ queue' = <<>>
    /\ \/ /\ backend' = [backend EXCEPT !.pc = "gone", !.task = NoTasks]
          /\ spent' = IF backend.pc = "gone" THEN spent ELSE Count("kills")
       \/ UNCHANGED <<backend, spent>>
    /\ UNCHANGED <<stdin, stdout, usb>>

-----------------------------------------------------------------------------
(* The backend                                                              *)

\* disable_usb_selective_suspend, which remembers the setting it found.
Disable ==
    /\ backend.pc = "init"
    /\ backend' = [backend EXCEPT !.pc = "loop", !.previous = usb]
    /\ usb' = "disabled"
    /\ UNCHANGED <<call, pending, shell, queue, stdin, stdout, spent>>

\* powercfg cannot be asked, or refuses the new value and says so on the
\* standard output it inherits.
DisableFails ==
    /\ backend.pc = "init" /\ spent.faults < MaxFaults
    /\ \/ /\ backend' = [backend EXCEPT !.pc = "loop"]
          /\ UNCHANGED <<stdout, usb>>
       \/ \E k \in {"text", "bytes"} :
          /\ backend' = [backend EXCEPT !.pc = "loop", !.previous = usb]
          /\ usb' \in {usb, "disabled"}
          /\ stdout' = Append(stdout, Noise(k))
    /\ spent' = Count("faults")
    /\ UNCHANGED <<call, pending, shell, queue, stdin>>

\* _read_lines: a task is created for each line.
ReadLine ==
    /\ backend.pc = "loop" /\ stdin # <<>>
    /\ stdin' = Tail(stdin)
    /\ backend' = [backend EXCEPT !.task[Head(stdin)] = "handle"]
    /\ UNCHANGED <<call, pending, shell, queue, stdout, usb, spent>>

\* _write_message to a pipe nobody reads raises, whatever the message.
WriteLine(line) == IF shell.reader THEN Append(stdout, line) ELSE stdout
Written(line) ==
    IF shell.reader THEN Append(backend.written, line) ELSE backend.written

\* Mutant of Handle: the job is started, and emits, before the answer.
HandleLate(c) ==
    /\ backend.pc = "loop" /\ backend.task[c] = "handle"
    /\ \E emits \in BOOLEAN :
        LET line == IF emits THEN Event(c) ELSE Reply(c) IN
        /\ stdout' = WriteLine(line)
        /\ backend' = [backend EXCEPT !.written = Written(line),
                        !.task[c] = IF emits THEN "handle" ELSE "none"]
    /\ UNCHANGED <<call, pending, shell, queue, stdin, usb, spent>>

\* Mutant of Handle: the result and then an error are sent.
HandleTwice(c) ==
    /\ backend.pc = "loop" /\ backend.task[c] = "handle"
    /\ \E raises \in BOOLEAN :
        /\ stdout' = WriteLine(Reply(c))
        /\ backend' = [backend EXCEPT !.written = Written(Reply(c)),
                        !.task[c] = IF raises THEN "handle" ELSE "none"]
    /\ UNCHANGED <<call, pending, shell, queue, stdin, usb, spent>>

\* Mutant of Handle: a handler that raises answers nothing.
HandleSilent(c) ==
    /\ backend.pc = "loop" /\ backend.task[c] = "handle"
    /\ \/ /\ stdout' = WriteLine(Reply(c))
          /\ backend' = [backend EXCEPT !.written = Written(Reply(c)),
                          !.task[c] = "none"]
       \/ /\ backend' = [backend EXCEPT !.task[c] = "none"]
          /\ UNCHANGED stdout
    /\ UNCHANGED <<call, pending, shell, queue, stdin, usb, spent>>

\* _handle_line: dispatch returns or raises, and either is answered; nothing
\* is awaited between a handler's create_task and its answer.
Handle(c) ==
    /\ backend.pc = "loop" /\ backend.task[c] = "handle"
    /\ stdout' = WriteLine(Reply(c))
    /\ \E next \in {"job", "none"} :
        backend' = [backend EXCEPT !.written = Written(Reply(c)),
                                   !.task[c] = next]
    /\ UNCHANGED <<call, pending, shell, queue, stdin, usb, spent>>

\* emit_event, by a background job that then ends.
Emit(c) ==
    /\ backend.pc = "loop" /\ backend.task[c] = "job"
    /\ stdout' = WriteLine(Event(c))
    /\ backend' = [backend EXCEPT !.written = Written(Event(c)),
                                  !.task[c] = "none"]
    /\ UNCHANGED <<call, pending, shell, queue, stdin, usb, spent>>

\* restore_usb_selective_suspend: a no-op if the setting was never read.
Restored == IF backend.previous = None THEN usb ELSE backend.previous

\* Mutant of End: the setting is put back on no exit.
EndUnrestored ==
    /\ backend.pc = "loop" /\ stdin = <<>> /\ ~shell.writer
    /\ backend' = [backend EXCEPT !.pc = "gone", !.task = NoTasks]
    /\ UNCHANGED <<call, pending, shell, queue, stdin, stdout, usb, spent>>

\* The end of stdin: the finally clause, and asyncio.run cancels the tasks.
\* powercfg may refuse to restore.
End ==
    /\ backend.pc = "loop" /\ stdin = <<>> /\ ~shell.writer
    /\ backend' = [backend EXCEPT !.pc = "gone", !.task = NoTasks]
    /\ \/ /\ usb' = Restored
          /\ UNCHANGED spent
       \/ /\ spent.faults < MaxFaults
          /\ spent' = Count("faults")
          /\ UNCHANGED usb
    /\ UNCHANGED <<call, pending, shell, queue, stdin, stdout>>

Die ==
    /\ backend.pc # "gone"
    /\ spent.deaths < MaxDeaths
    /\ backend' = [backend EXCEPT !.pc = "gone", !.task = NoTasks]
    /\ spent' = Count("deaths")
    /\ UNCHANGED <<call, pending, shell, queue, stdin, stdout, usb>>

-----------------------------------------------------------------------------
Tasks == Write \/ Route \/ ReadEof \/ \E c \in Calls : Send(c)
Loop == Disable \/ DisableFails \/ ReadLine \/ End
Request(c) == Handle(c) \/ Emit(c)

Next ==
    \/ Launch \/ Exit \/ Die
    \/ \E c \in Calls : Invoke(c) \/ Send(c) \/ Request(c)
    \/ Write \/ Route \/ ReadEof \/ Loop

Spec == Init /\ [][Next]_vars

\* Both runtimes keep polling their tasks, and every handler returns.
Fairness ==
    /\ WF_vars(Write) /\ WF_vars(Route) /\ WF_vars(ReadEof) /\ WF_vars(Loop)
    /\ \A c \in Calls : WF_vars(Send(c)) /\ WF_vars(Handle(c)) /\ WF_vars(Emit(c))

FairSpec == Spec /\ Fairness

-----------------------------------------------------------------------------
(* Properties                                                               *)

Lines == [kind : {"reply", "event"}, id : Calls]
Noises == {Noise("text"), Noise("bytes")}
Settings == {"enabled", "disabled"}

CallType == call \in [Calls -> [pc : {"idle", "insert", "wait", "done"},
                                answer : Calls \union {None}]]
PipeType ==
    /\ queue \in Seq(Calls) /\ stdin \in Seq(Calls)
    /\ stdout \in Seq(Lines \union Noises)
ShellType ==
    /\ pending \subseteq Calls
    /\ shell \in [up : BOOLEAN, managed : BOOLEAN, writer : BOOLEAN,
                  reader : BOOLEAN, told : BOOLEAN, events : SUBSET Calls]
BackendType ==
    /\ backend \in [pc : {"init", "loop", "gone"},
                    task : [Calls -> {"none", "handle", "job"}],
                    previous : Settings \union {None}, written : Seq(Lines)]
    /\ usb \in Settings
SpentType == spent \in [starts : Nat, deaths : Nat, faults : Nat, kills : Nat]

\* Every variable has its type.
TypeOK == CallType /\ PipeType /\ ShellType /\ BackendType /\ SpentType

\* A call gets the answer to its own request, whatever order the handlers
\* finish in.
GetsItsOwnAnswer == \A c \in Calls : call[c].answer \in {c, None}

\* The table holds the calls in flight and nothing else: no entry is left
\* behind by a call that failed, and none is missing.
PendingIsInFlight == pending = {c \in Calls : call[c].pc \in InFlight}

\* The backend writes one answer to a request, also when a handler raises.
AnswersOnce ==
    \A i, j \in DOMAIN backend.written :
        backend.written[i] = backend.written[j]
            /\ backend.written[i].kind = "reply" => i = j

\* On the pipe, what a background job reports follows the answer of the call
\* that started it: main.js may rely on knowing the session first.
EventFollowsAnswer ==
    \A i \in DOMAIN backend.written : backend.written[i].kind = "event" =>
        \E j \in 1..i : backend.written[j] = Reply(backend.written[i].id)

\* The user's setting is back once the backend is gone, when it was never
\* killed, did not crash and powercfg did not refuse.
RestoresSetting ==
    backend.pc = "gone"
        /\ spent.deaths = 0 /\ spent.kills = 0 /\ spent.faults = 0
    => usb = "enabled"

\* While the backend runs and the reader reads, every call gets its answer.
LiveCallsReturn ==
    \A c \in Calls : call[c].pc \in InFlight ~>
        call[c].pc = "done" \/ backend.pc = "gone" \/ ~shell.reader

\* The page is told when the backend is gone, unless the app exits first or a
\* line of powercfg's may have stopped the reader.
DeathIsTold ==
    shell.reader /\ backend.pc = "gone" ~>
        shell.told \/ ~shell.up \/ spent.faults > 0

\* ipc.rs: a call returns Err on backend failure, disconnection or crash.
CallsReturn == \A c \in Calls : call[c].pc \in InFlight ~> call[c].pc = "done"

=============================================================================
