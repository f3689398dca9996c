----------------------------- MODULE EchoServer -----------------------------
(***************************************************************************)
(* The echo server (example/echoserver.c) on top of TaskPool: a listener   *)
(* task that accepts connections and starts one echo task for each.        *)
(*                                                                         *)
(* The listener passes the address of its local variable fd, which the     *)
(* next accept overwrites; the echo task reads it through that pointer.    *)
(* The listener does not look at what coroutine_new_task returns.          *)
(*                                                                         *)
(* The hooked calls are those of HookIO: accept tries and then polls, recv *)
(* polls and then tries, send tries and then polls; a poll of a task whose *)
(* limit is used up, or whose item add_timeout refuses, returns at once    *)
(* (accept and send then try again, which changes nothing here); a recv    *)
(* that fails returns 0.                                                   *)
(***************************************************************************)
EXTENDS Integers, Sequences, FiniteSets

CONSTANTS
  PoolSize,
  Fds,         \* descriptors for connections, all positive
  MaxBacklog   \* bound on the clients that wait to be accepted

NoFd == 0

ASSUME PoolAssumption == PoolSize \in Nat \ {0}
ASSUME FdsAssumption == Fds \subseteq Nat \ {NoFd}
ASSUME BacklogAssumption == MaxBacklog \in Nat

ListenerAttr == [max_timeout_ms |-> -1, timeout |-> FALSE]
EchoAttr == [max_timeout_ms |-> 5000, timeout |-> TRUE]

VARIABLES
  mainpc, created, size, working, free, callstack, costate, pc, fun, tstate, attr, timeout,
  at,        \* where the function of each task is
  fd,        \* the listener's variable fd
  sock,      \* the variable fd of each echo task
  conn,      \* the kernel's connections
  backlog,   \* clients not yet accepted
  lost       \* history: connections new_task was refused for

Pool == INSTANCE TaskPool WITH Attrs <- {ListenerAttr, EchoAttr}

Tasks == Pool!Tasks
poolVars == <<mainpc, created, size, working, free, callstack, costate, pc, fun, tstate,
              attr, timeout>>
own == <<at, fd, sock, conn, backlog, lost>>
vars == <<poolVars, own>>

Closed == [peer |-> "none", data |-> FALSE]

TypeOK ==
  /\ Pool!TypeOK
  /\ at \in [Tasks -> {"none", "accept", "spawn", "arg", "first", "recv", "sys", "send", "close"}]
  /\ fd \in Fds \cup {NoFd}
  /\ sock \in [Tasks -> Fds \cup {NoFd}]
  /\ conn \in [Fds -> [peer : {"none", "open", "ended"}, data : BOOLEAN]]
  /\ backlog \in 0..MaxBacklog
  /\ lost \subseteq Fds

Init ==
  /\ Pool!Init
  /\ at = [t \in Tasks |-> "none"]
  /\ fd = NoFd
  /\ sock = [t \in Tasks |-> NoFd]
  /\ conn = [f \in Fds |-> Closed]
  /\ backlog = 0
  /\ lost = {}

\* Task t executes its function, at step s.
In(t, s) == Pool!Running(t) /\ pc[t] = "user" /\ at[t] = s

Goes(t, s) == at' = [at EXCEPT ![t] = s]

-----------------------------------------------------------------------------
(***************************************************************************)
(* main and the library.                                                   *)
(***************************************************************************)

\* main: the listener is started first, then the loop.
Started == \E t \in Tasks : at[t] # "none"

StartListener ==
  /\ mainpc = "app" /\ ~Started
  /\ Pool!NewTask(ListenerAttr)
  /\ Goes(Head(free), "accept")
  /\ UNCHANGED <<fd, sock, conn, backlog, lost>>

StartLoop == Started /\ Pool!StartLoop /\ UNCHANGED own

\* What the library does by itself: create the pool, run and park tasks, call
\* the timeout callback, return from polls.
Library ==
  /\ \/ Pool!CreateTask
     \/ Pool!PoolReady
     \/ \E t \in Tasks :
          Pool!TaskWait(t) \/ Pool!TaskRun(t) \/ Pool!CallbackReturn(t) \/ Pool!PollReturn(t)
  /\ UNCHANGED own

LoopIdle == Pool!LoopIdle /\ UNCHANGED own

Wake(t) == Pool!Wake(t) /\ UNCHANGED own

-----------------------------------------------------------------------------
(***************************************************************************)
(* listener.                                                               *)
(***************************************************************************)

AcceptWaits(t) ==
  /\ In(t, "accept")
  /\ backlog = 0
  /\ Pool!UserPoll(t)
  /\ UNCHANGED own

\* The kernel gives the smallest descriptor that is free.
Accept(t) ==
  /\ In(t, "accept")
  /\ backlog > 0
  /\ \E f \in Fds :
       /\ conn[f] = Closed /\ \A g \in Fds : g < f => conn[g] # Closed
       /\ conn' = [conn EXCEPT ![f].peer = "open"]
       /\ fd' = f
  /\ backlog' = backlog - 1
  /\ Goes(t, "spawn")
  /\ UNCHANGED <<poolVars, sock, lost>>

\* No descriptor is left: accept returns -1 and is called again.
AcceptFails(t) ==
  /\ In(t, "accept")
  /\ backlog > 0
  /\ \A f \in Fds : conn[f] # Closed
  /\ fd' = NoFd
  /\ UNCHANGED <<poolVars, at, sock, conn, backlog, lost>>

\* coroutine_new_task(&attr): the echo task runs at once, and the listener
\* goes on when that task yields.
Spawn(t) ==
  /\ In(t, "spawn")
  /\ \/ /\ Pool!NewTask(EchoAttr)
        /\ at' = [at EXCEPT ![t] = "accept", ![Head(free)] = "arg"]
        /\ UNCHANGED lost
     \/ /\ Pool!NewTaskRefused
        /\ Goes(t, "accept")
        /\ lost' = lost \cup {fd}
  /\ UNCHANGED <<fd, sock, conn, backlog>>

-----------------------------------------------------------------------------
(***************************************************************************)
(* echo.                                                                   *)
(***************************************************************************)

\* Variant: the task may wait for something before it looks at its argument.
ReadArgLate(t) ==
  /\ In(t, "arg")
  /\ \/ Pool!UserPoll(t) /\ UNCHANGED own
     \/ /\ sock' = [sock EXCEPT ![t] = fd]
        /\ Goes(t, "first")
        /\ UNCHANGED <<poolVars, fd, conn, backlog, lost>>

\* int fd = *((int*)arg)
ReadArg(t) ==
  /\ In(t, "arg")
  /\ sock' = [sock EXCEPT ![t] = fd]
  /\ Goes(t, "first")
  /\ UNCHANGED <<poolVars, fd, conn, backlog, lost>>

\* The poll of recv: it suspends the task, finds that the limit is used up
\* (not the first one: the loop's clock has not moved since new_task), or
\* returns at once, because the limit was used up before or add_timeout
\* refuses the item.
RecvPoll(t) ==
  /\ In(t, "first") \/ In(t, "recv")
  /\ \/ Pool!UserPoll(t)
     \/ In(t, "recv") /\ Pool!UserTimesOut(t)
     \/ UNCHANGED poolVars
  /\ Goes(t, "sys")
  /\ UNCHANGED <<fd, sock, conn, backlog, lost>>

\* Variant: only -1 ends the loop of echo, and recv does not return that.
AfterEndIgnored == "recv"

\* n <= 0
AfterEnd == "close"

\* The system call of recv: data, nothing, or the end of the stream (a
\* connection that is reset looks the same, since recv then returns 0).
RecvSys(t) ==
  /\ In(t, "sys")
  /\ LET c == conn[sock[t]]
     IN  /\ conn' = [conn EXCEPT ![sock[t]].data = FALSE]
         /\ Goes(t, IF c.data THEN "send" ELSE IF c.peer = "ended" THEN AfterEnd ELSE "recv")
  /\ UNCHANGED <<poolVars, fd, sock, backlog, lost>>

\* send returns what it wrote, or fails because the peer is gone.
Send(t) ==
  /\ In(t, "send")
  /\ \/ Goes(t, "recv")
     \/ conn[sock[t]].peer = "ended" /\ Goes(t, "close")
  /\ UNCHANGED <<poolVars, fd, sock, conn, backlog, lost>>

\* The peer does not read: send polls.
SendWaits(t) ==
  /\ In(t, "send")
  /\ Pool!UserPoll(t) \/ Pool!UserTimesOut(t)
  /\ UNCHANGED own

\* close(fd), and echo returns.
CloseAndReturn(t) ==
  /\ In(t, "close")
  /\ conn' = [conn EXCEPT ![sock[t]] = Closed]
  /\ sock' = [sock EXCEPT ![t] = NoFd]
  /\ Goes(t, "none")
  /\ Pool!FunReturn(t) \/ Pool!FunReturnTimedOut(t)
  /\ UNCHANGED <<fd, backlog, lost>>

-----------------------------------------------------------------------------
(***************************************************************************)
(* The clients.                                                            *)
(***************************************************************************)

Connects ==
  /\ backlog < MaxBacklog
  /\ backlog' = backlog + 1
  /\ UNCHANGED <<poolVars, at, fd, sock, conn, lost>>

PeerSends(f) ==
  /\ conn[f].peer = "open"
  /\ conn' = [conn EXCEPT ![f].data = TRUE]
  /\ UNCHANGED <<poolVars, at, fd, sock, backlog, lost>>

PeerEnds(f) ==
  /\ conn[f].peer = "open"
  /\ conn' = [conn EXCEPT ![f].peer = "ended"]
  /\ UNCHANGED <<poolVars, at, fd, sock, backlog, lost>>

ListenerStep(t) == AcceptWaits(t) \/ Accept(t) \/ AcceptFails(t) \/ Spawn(t)

EchoStep(t) == ReadArg(t) \/ RecvPoll(t) \/ RecvSys(t) \/ CloseAndReturn(t)

Next ==
  \/ StartListener \/ StartLoop \/ Library \/ LoopIdle \/ Connects
  \/ \E t \in Tasks : Wake(t) \/ ListenerStep(t) \/ EchoStep(t) \/ Send(t) \/ SendWaits(t)
  \/ \E f \in Fds : PeerSends(f) \/ PeerEnds(f)

Spec == Init /\ [][Next]_vars

\* The program goes on when it has control; the loop wakes every task that
\* polls (EveryPollReturns of Scheduler); a send to a client that has closed
\* its end gets through or fails.  Nothing is assumed of the other clients:
\* they may stay silent, or not read, for ever.
FairSpec ==
  /\ Spec
  /\ WF_vars(StartListener \/ StartLoop \/ Library)
  /\ \A t \in Tasks :
       /\ WF_vars(ListenerStep(t) \/ EchoStep(t))
       /\ SF_vars(Wake(t))
       /\ SF_vars(Send(t) /\ conn[sock[t]].peer = "ended")

-----------------------------------------------------------------------------
(***************************************************************************)
(* Properties.                                                             *)
(***************************************************************************)

\* The tasks that have connection f, or are about to pass it on or to read it
\* through the pointer they were given.
Claims(f) ==
  {t \in Tasks : sock[t] = f \/ (at[t] \in {"spawn", "arg"} /\ fd = f)}

\* An accepted connection belongs to exactly one task until that task closes
\* it, except if coroutine_new_task was refused, and then to none: the
\* listener's variable still holds the right descriptor when the echo task
\* reads it, no two tasks get the same one, and no task uses or closes one
\* that is not its own.
OneHandler ==
  \A f \in Fds :
    Cardinality(Claims(f)) = IF conn[f] = Closed \/ f \in lost THEN 0 ELSE 1

\* A connection is only abandoned, open and with nobody to close it, by a
\* listener that finds every task of the pool busy.
LostOnlyWhenBusy ==
  [][lost' # lost => \A t \in Tasks : tstate[t] = "TASK_RUNNING"]_vars

\* A connection whose client has ended it, in an orderly way or not, is
\* closed by its echo task or abandoned, unless another task keeps control
\* for ever: an echo task whose limit is used up does while its client is
\* silent (see TimeoutEndsIo of HookIO), and the listener does while no
\* descriptor is left.
EndedIsClosed ==
  \A f \in Fds :
    []<>(Pool!Top = Pool!Main \/ sock[Pool!Top] = f) =>
      (conn[f].peer = "ended" ~> conn[f] = Closed \/ f \in lost)

=============================================================================
