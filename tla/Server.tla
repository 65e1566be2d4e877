------------------------------- MODULE Server --------------------------------
(***************************************************************************)
(* The GDB stub: the server thread (Server.cpp), the emulator's thread     *)
(* that runs the main loop (main.cpp), and the two queues of commands      *)
(* between them (Server.hpp, ServerAsyncCommands.cpp).                     *)
(*                                                                         *)
(* The server thread turns packets into commands for the emulator's thread *)
(* and waits for the answers to some of them.  The emulator's thread       *)
(* executes the commands once per frame, reports breakpoints, and starts   *)
(* and stops the server thread.                                            *)
(*                                                                         *)
(* A step of a thread is what it does between two accesses to shared       *)
(* state.  server_queue_mutex is held through the phase "async" of the     *)
(* emulator and emu_queue_mutex through the phase "drain" of the server;   *)
(* the other critical sections are single steps.  Packets are reduced to   *)
(* what their handlers do to the queues.                                   *)
(***************************************************************************)
EXTENDS Naturals, Sequences

CONSTANTS
    Requests,   \* the requests of the client that wait for an answer
    MaxQueue,   \* bound on the commands and the breakpoints that wait
    MaxBatch,   \* bound on the packets that arrive at once
    MaxLosses   \* how often the connection breaks

ASSUME ServerAssumption ==
    /\ Requests \subseteq {"regs", "mem", "step"}
    /\ MaxQueue \in Nat \ {0} /\ MaxBatch \in Nat \ {0} /\ MaxLosses \in Nat

VARIABLES
    emu,       \* where the emulator's thread is
    srv,       \* where the server thread is, and what it waits for
    stop,      \* the stop token of the server thread
    open,      \* m_open
    running,   \* is_running
    s2e,       \* server_to_emu
    e2s,       \* emu_to_server
    stopped,   \* System::m_stopped
    losses,    \* connections that broke
    fate       \* of the process

vars == <<emu, srv, stop, open, running, s2e, e2s, stopped, losses, fate>>

Answered == Requests \cup {"stop"}
Commands == Answered \cup {"continue", "set"}

\* fresh: nothing was asked since the request that this one is, or answers.
Message(kinds) == [kind : kinds, fresh : BOOLEAN]

Waiting == {"await", "wait", "asleep"}

\* The thread goes to a place and forgets what it waited for.
At(place) == [at |-> place, want |-> "none", back |-> "none", batch |-> 0]
Data(batch) == [at |-> "data", want |-> "none", back |-> "none", batch |-> batch]
Await(want, back, batch) ==
    [at |-> "await", want |-> want, back |-> back, batch |-> batch]
-----------------------------------------------------------------------------
Aged(queue) == [i \in DOMAIN queue |-> [queue[i] EXCEPT !.fresh = FALSE]]

\* The mutex of the queue is free unless the emulator executes commands.
PushServerToEmuCommand(kind) ==
    /\ emu # "async"
    /\ s2e' = Append(Aged(s2e), [kind |-> kind, fresh |-> TRUE])
    /\ e2s' = Aged(e2s)

\* Wakes the server thread up if it sleeps.
PushEmuToServerCommand(kind, fresh) ==
    /\ srv.at # "drain"
    /\ e2s' = Append(e2s, [kind |-> kind, fresh |-> fresh])
    /\ srv' = IF srv.at = "asleep" THEN [srv EXCEPT !.at = "wait"] ELSE srv

\* A packet is sent: it may turn out that the connection is gone.
Sent(ok) ==
    \/ ok /\ UNCHANGED losses
    \/ ~ok /\ losses < MaxLosses /\ losses' = losses + 1
-----------------------------------------------------------------------------
(***************************************************************************)
(* The server thread.                                                      *)
(***************************************************************************)
Outer ==
    /\ srv.at = "outer"
    /\ srv' = At(IF stop THEN "leave" ELSE "accept")
    /\ UNCHANGED <<emu, stop, open, running, s2e, e2s, stopped, losses, fate>>

\* Bug: the connection is not marked as open.
AcceptClosed ==
    /\ srv.at = "accept" /\ ~stop
    /\ srv' = At("greet")
    /\ UNCHANGED <<emu, stop, open, running, s2e, e2s, stopped, losses, fate>>

Accept ==
    /\ srv.at = "accept" /\ ~stop
    /\ open' = TRUE
    /\ srv' = At("greet")
    /\ UNCHANGED <<emu, stop, running, s2e, e2s, stopped, losses, fate>>

\* ThreadMain goes on as if there were a connection.
AcceptStopped ==
    /\ srv.at = "accept" /\ stop
    /\ srv' = At("greet")
    /\ UNCHANGED <<emu, stop, open, running, s2e, e2s, stopped, losses, fate>>

Greet ==
    /\ srv.at = "greet"
    /\ PushServerToEmuCommand("stop")
    /\ srv' = Await("stop", "hello", 0)
    /\ UNCHANGED <<emu, stop, open, running, stopped, losses, fate>>

\* Bug: the stop request is only looked for in the wait itself.
AwaitCheckNever ==
    /\ srv.at = "await"
    /\ srv' = [srv EXCEPT !.at = "wait"]
    /\ UNCHANGED <<emu, stop, open, running, s2e, e2s, stopped, losses, fate>>

\* Without an answer the handshake ends the thread, a handler only itself.
AwaitCheck ==
    /\ srv.at = "await"
    /\ srv' = CASE ~stop -> [srv EXCEPT !.at = "wait"]
                [] stop /\ srv.back = "hello" -> At("leave")
                [] stop /\ srv.back # "hello" -> At("emu_commands")
    /\ UNCHANGED <<emu, stop, open, running, s2e, e2s, stopped, losses, fate>>

Inner == At(IF ~stop /\ open THEN "poll" ELSE "outer")

\* Bug: the type of the answer is not looked at.
AnswersAny(response) == response.kind # "break"

Answers(response) == response.kind = srv.want

\* The answer is there.  It is passed on to the client.
AwaitAnswer ==
    /\ srv.at = "wait" /\ e2s # <<>> /\ Answers(Head(e2s))
    /\ e2s' = Tail(e2s)
    /\ \/ srv.back = "hello" /\ srv' = Inner /\ UNCHANGED losses
       \/ srv.back = "ctrl_c" /\ Sent(TRUE) /\ srv' = At("emu_commands")
       \/ srv.back = "data" /\ Sent(TRUE) /\ srv' = Data(srv.batch)
       \/ srv.back # "hello" /\ Sent(FALSE) /\ srv' = At("outer")
    /\ UNCHANGED <<emu, stop, open, running, s2e, stopped, fate>>

\* A breakpoint is reported and another answer dropped.  HandlePackets catches the
\* exception of a broken connection and ThreadMain does not.
AwaitOther ==
    /\ srv.at = "wait" /\ e2s # <<>> /\ ~Answers(Head(e2s))
    /\ e2s' = Tail(e2s)
    /\ \/ Sent(TRUE) /\ srv' = [srv EXCEPT !.at = "await"] /\ UNCHANGED fate
       \/ /\ Head(e2s).kind = "break" /\ Sent(FALSE)
          /\ srv' = At("outer")
          /\ fate' = IF srv.back = "hello" THEN "terminated" ELSE fate
    /\ UNCHANGED <<emu, stop, open, running, s2e, stopped>>

\* The wait ends at once if a stop was requested, and the front of the empty queue
\* is taken.
AwaitEmpty ==
    /\ srv.at = "wait" /\ e2s = <<>>
    /\ \/ stop /\ fate' = "undefined" /\ UNCHANGED srv
       \/ ~stop /\ srv' = [srv EXCEPT !.at = "asleep"] /\ UNCHANGED fate
    /\ UNCHANGED <<emu, stop, open, running, s2e, e2s, stopped, losses>>

\* A condition variable may wake its waiters without reason.
SpuriousWakeUp ==
    /\ srv.at = "asleep"
    /\ srv' = [srv EXCEPT !.at = "wait"]
    /\ UNCHANGED <<emu, stop, open, running, s2e, e2s, stopped, losses, fate>>

\* HandlePackets: nothing to read, an error, or some packets.
Poll ==
    /\ srv.at = "poll"
    /\ \/ stop /\ srv' = At("outer") /\ UNCHANGED losses
       \/ ~stop /\ srv' = At("emu_commands") /\ UNCHANGED losses
       \/ ~stop /\ Sent(FALSE) /\ srv' = At("outer")
       \/ ~stop /\ UNCHANGED losses /\ \E batch \in 1..MaxBatch : srv' = Data(batch)
    /\ UNCHANGED <<emu, stop, open, running, s2e, e2s, stopped, fate>>

HasPacket == srv.at = "data" /\ ~stop /\ open /\ srv.batch > 0

PacketsEnd ==
    /\ srv.at = "data" /\ ~HasPacket
    /\ srv' = At(IF open THEN "emu_commands" ELSE "outer")
    /\ UNCHANGED <<emu, stop, open, running, s2e, e2s, stopped, losses, fate>>

\* Every packet is acknowledged first.
SendAckFails ==
    /\ HasPacket
    /\ Sent(FALSE)
    /\ srv' = At("outer")
    /\ UNCHANGED <<emu, stop, open, running, s2e, e2s, stopped, fate>>

HandleCtrlC ==
    /\ HasPacket
    /\ PushServerToEmuCommand("stop")
    /\ srv' = Await("stop", "ctrl_c", 0)
    /\ UNCHANGED <<emu, stop, open, running, stopped, losses, fate>>

\* g, m and the step of vCont.
HandleRequest(kind) ==
    /\ HasPacket
    /\ PushServerToEmuCommand(kind)
    /\ srv' = Await(kind, "data", srv.batch - 1)
    /\ UNCHANGED <<emu, stop, open, running, stopped, losses, fate>>

\* G, P, M, Z1 and z1 answer at once, the continue of vCont not at all.
HandleSet(kind) ==
    /\ HasPacket
    /\ Len(s2e) < MaxQueue
    /\ PushServerToEmuCommand(kind)
    /\ \/ Sent(TRUE) /\ srv' = Data(srv.batch - 1)
       \/ kind = "set" /\ Sent(FALSE) /\ srv' = At("outer")
    /\ UNCHANGED <<emu, stop, open, running, stopped, fate>>

\* What the server answers by itself.
HandleQuery ==
    /\ HasPacket
    /\ srv' = Data(srv.batch - 1)
    /\ UNCHANGED <<emu, stop, open, running, s2e, e2s, stopped, losses, fate>>

HandleDetach ==
    /\ HasPacket
    /\ open' = FALSE
    /\ srv' = Data(srv.batch - 1)
    /\ UNCHANGED <<emu, stop, running, s2e, e2s, stopped, losses, fate>>

\* Bug: the answers of the emulator are left in the queue.
HandleEmuCommandsSkips ==
    /\ srv.at = "emu_commands"
    /\ srv' = Inner
    /\ UNCHANGED <<emu, stop, open, running, s2e, e2s, stopped, losses, fate>>

\* Takes the mutex of the queue.
HandleEmuCommands ==
    /\ srv.at = "emu_commands"
    /\ srv' = IF open /\ running THEN At("drain") ELSE Inner
    /\ UNCHANGED <<emu, stop, open, running, s2e, e2s, stopped, losses, fate>>

\* Nobody catches the exception of a broken connection.
Drain ==
    /\ srv.at = "drain"
    /\ \/ /\ e2s = <<>> /\ srv' = Inner
          /\ UNCHANGED <<e2s, losses, fate>>
       \/ /\ e2s # <<>> /\ e2s' = Tail(e2s)
          /\ \/ Sent(TRUE) /\ UNCHANGED fate
             \/ Head(e2s).kind = "break" /\ Sent(FALSE) /\ fate' = "terminated"
          /\ UNCHANGED srv
    /\ UNCHANGED <<emu, stop, open, running, s2e, stopped>>

\* Shutdown, and the thread ends.
Leave ==
    /\ srv.at = "leave"
    /\ open' = FALSE
    /\ srv' = At("gone")
    /\ UNCHANGED <<emu, stop, running, s2e, e2s, stopped, losses, fate>>
-----------------------------------------------------------------------------
(***************************************************************************)
(* The emulator's thread: one round of the main loop.                      *)
(***************************************************************************)
\* Takes the mutex of the queue.
HandleAsyncCommands ==
    /\ emu = "loop"
    /\ emu' = IF open /\ running THEN "async" ELSE "run"
    /\ UNCHANGED <<srv, stop, open, running, s2e, e2s, stopped, losses, fate>>

\* Bug: the emulator answers and does not stop.
StoppedByIgnoring(kind) == IF kind = "continue" THEN {FALSE} ELSE {stopped}

\* The instruction of a step may call SystemError.
StoppedBy(kind) ==
    CASE kind = "stop" -> {TRUE}
      [] kind = "continue" -> {FALSE}
      [] kind = "step" -> {stopped, TRUE}
      [] kind \notin {"stop", "continue", "step"} -> {stopped}

Execute ==
    /\ emu = "async" /\ s2e # <<>>
    /\ s2e' = Tail(s2e)
    /\ stopped' \in StoppedBy(Head(s2e).kind)
    /\ IF Head(s2e).kind \in Answered
         THEN PushEmuToServerCommand(Head(s2e).kind, Head(s2e).fresh)
         ELSE UNCHANGED <<srv, e2s>>
    /\ UNCHANGED <<emu, stop, open, running, losses, fate>>

ExecutedAll ==
    /\ emu = "async" /\ s2e = <<>>
    /\ emu' = "run"
    /\ UNCHANGED <<srv, stop, open, running, s2e, e2s, stopped, losses, fate>>

\* A frame, or a part of one that ends at a breakpoint or in a call of SystemError.
RunInterpreterUntilBreakpoint ==
    /\ emu = "run"
    /\ \/ emu' = "ui" /\ UNCHANGED stopped
       \/ ~stopped /\ Len(e2s) < MaxQueue /\ emu' = "signal" /\ stopped' = TRUE
    /\ UNCHANGED <<srv, stop, open, running, s2e, e2s, losses, fate>>

\* Also without a connection, and without a server thread.
SignalBreakpoint ==
    /\ emu = "signal"
    /\ PushEmuToServerCommand("break", TRUE)
    /\ emu' = "ui"
    /\ UNCHANGED <<stop, open, running, s2e, stopped, losses, fate>>

\* The check box for free running is disabled while a client is connected.
DrawGui ==
    /\ emu = "ui"
    /\ emu' = "loop"
    /\ \/ UNCHANGED stopped
       \/ ~open /\ stopped' = ~stopped
    /\ UNCHANGED <<srv, stop, open, running, s2e, e2s, losses, fate>>

StartThread ==
    /\ emu = "ui" /\ ~running
    /\ s2e' = <<>> /\ e2s' = <<>>
    /\ stop' = FALSE
    /\ srv' = At("outer")
    /\ emu' = "start"
    /\ UNCHANGED <<open, running, stopped, losses, fate>>

\* The new thread runs before is_running says so.
Started ==
    /\ emu = "start"
    /\ running' = TRUE
    /\ emu' = "loop"
    /\ UNCHANGED <<srv, stop, open, s2e, e2s, stopped, losses, fate>>

\* The button of the debug view, or the window is closed.  The thread is joined.
StopThread(after) ==
    /\ emu = "ui" /\ running
    /\ stop' = TRUE
    /\ emu' = after
    /\ UNCHANGED <<srv, open, running, s2e, e2s, stopped, losses, fate>>

Joining == {"join", "join_exit"}

Join ==
    /\ emu \in Joining /\ srv.at = "gone"
    /\ s2e' = <<>> /\ e2s' = <<>>
    /\ running' = FALSE
    /\ srv' = At("none")
    /\ emu' = IF emu = "join" THEN "loop" ELSE "exit"
    /\ UNCHANGED <<stop, open, stopped, losses, fate>>

Exit ==
    /\ emu = "ui" /\ ~running
    /\ emu' = "exit"
    /\ UNCHANGED <<srv, stop, open, running, s2e, e2s, stopped, losses, fate>>
-----------------------------------------------------------------------------
Init ==
    /\ emu = "ui" /\ srv = At("none")
    /\ stop = FALSE /\ open = FALSE /\ running = FALSE
    /\ s2e = <<>> /\ e2s = <<>>
    /\ stopped = TRUE
    /\ losses = 0 /\ fate = "alive"

\* What the server thread does by itself, without a client that connects.
ServerStep ==
    /\ fate = "alive"
    /\ \/ Outer \/ AcceptStopped \/ Greet
       \/ AwaitCheck \/ AwaitAnswer \/ AwaitOther \/ AwaitEmpty
       \/ Poll \/ PacketsEnd \/ SendAckFails \/ HandleCtrlC
       \/ \E kind \in Requests : HandleRequest(kind)
       \/ \E kind \in {"set", "continue"} : HandleSet(kind)
       \/ HandleQuery \/ HandleDetach
       \/ HandleEmuCommands \/ Drain \/ Leave

EmuStep ==
    /\ fate = "alive"
    /\ \/ HandleAsyncCommands \/ Execute \/ ExecutedAll
       \/ RunInterpreterUntilBreakpoint \/ SignalBreakpoint
       \/ DrawGui \/ StartThread \/ Started
       \/ \E after \in Joining : StopThread(after)
       \/ Join \/ Exit

Next ==
    \/ ServerStep
    \/ EmuStep
    \/ fate = "alive" /\ Accept
    \/ fate = "alive" /\ SpuriousWakeUp

Spec == Init /\ [][Next]_vars

\* Both threads run, and a mutex that is released again and again is obtained.
FairSpec == Spec /\ SF_vars(ServerStep) /\ SF_vars(EmuStep)
-----------------------------------------------------------------------------
\* Every variable has its type.
TypeOK ==
    /\ emu \in {"loop", "async", "run", "signal", "ui", "start", "exit"} \cup Joining
    /\ srv \in [at : {"none", "outer", "accept", "greet", "poll", "data", "emu_commands",
                      "drain", "leave", "gone"} \cup Waiting,
                want : Answered \cup {"none"}, back : {"none", "hello", "ctrl_c", "data"},
                batch : 0..MaxBatch]
    /\ stop \in BOOLEAN /\ open \in BOOLEAN /\ running \in BOOLEAN
    /\ s2e \in Seq(Message(Commands))
    /\ e2s \in Seq(Message(Answered \cup {"break"}))
    /\ stopped \in BOOLEAN
    /\ losses \in 0..MaxLosses
    /\ fate \in {"alive", "terminated", "undefined"}

\* The answer that a request gets is the answer to that request: what a client left
\* behind in the queues when its connection broke is gone once the handshake of the
\* next client is over.  A second broken connection defeats this: the first leaves the
\* answer to an interrupt, which the next handshake takes for its own, and the
\* handshake after it then ends before the answers of the second client are gone.
AnswerIsFresh ==
    [][srv.at = "wait" /\ srv.back = "data" /\ srv' # srv /\ e2s # <<>> /\ Answers(Head(e2s))
         /\ losses <= 1
         => Head(e2s).fresh]_vars

\* When the handshake with a new client is over the emulator is stopped, although
\* the user may run it until the connection is accepted and the commands of an
\* earlier client may still be in the queue.  The exception is a handshake that takes
\* the answer to an interrupt of the earlier client for its own.
StoppedOnHello ==
    [][srv.at = "wait" /\ srv.back = "hello" /\ srv'.at = "poll" /\ Head(e2s).fresh
         => stopped]_vars

\* A thread that waits for the emulator gets its answer, unless the thread is to stop.
RequestAnswered ==
    srv.at \in Waiting /\ ~stop ~> srv.at \notin Waiting \/ stop \/ fate # "alive"

\* The thread is not between two connections.
Serving == srv.at \notin {"none", "outer", "accept", "leave", "gone"}

\* What the emulator puts in the queue while the thread serves a client, a breakpoint
\* above all, is taken from it, by HandleEmuCommands or by whoever waits for an answer,
\* unless the connection ends first.
BreakReported == Serving /\ e2s # <<>> ~> ~Serving \/ e2s = <<>> \/ fate # "alive"

\* A request to stop that does not meet the thread at the condition variable is
\* obeyed, wherever else the thread is: between two packets of a batch, in front of
\* the condition variable with its question already asked, waiting for a client, or
\* for a mutex.  It then neither falls asleep nor takes the front of the empty queue
\* (Server.hpp:87-98), and StopThread returns.
\* At the condition variable it need not: nothing there notifies the thread that
\* StopThread joins, and without this exception TLC finds both threads asleep.
StopObeyed ==
    emu \in Joining /\ srv.at \notin {"wait", "asleep"}
        ~> emu \notin Joining \/ fate = "terminated"
=============================================================================
