------------------------------- MODULE HookIO -------------------------------
(***************************************************************************)
(* The hooked system calls (hook_sys_call.c): read, recv, write, send,     *)
(* accept, connect, close, fcntl, socket and the sleeps, as the tasks of   *)
(* one thread call them, with the table gSocketFd and the kernel's         *)
(* descriptors as those calls see them.                                    *)
(*                                                                         *)
(* Only the task that has control (cur) runs, until it suspends itself in  *)
(* a poll; the kernel goes on at any time, so each system call and each    *)
(* poll inside a hooked call is a step of its own.  A system call that     *)
(* blocks stops the whole thread: its step is not enabled, and nobody else *)
(* gets control.                                                           *)
(*                                                                         *)
(* poll is what module Scheduler makes of it: it suspends the task and     *)
(* returns 1 or 0, or returns -1 at once, because the task's limit is used *)
(* up or because add_timeout refuses.  recv and send differ from read and  *)
(* write only in the system call they make.                                *)
(***************************************************************************)
EXTENDS Integers, FiniteSets

CONSTANTS
  Tasks,         \* task numbers; 0 is main
  HookedTasks,   \* those with attr.enable_sys_hook
  LimitedTasks,  \* those with a max_timeout_ms
  Calls,         \* which calls the code of each task makes ("manage": socket,
                 \* listen, fcntl and close)
  Fds,           \* descriptor numbers
  MadeByMain,    \* kinds of (blocking) descriptors main leaves to the tasks
  MaxBytes,      \* capacity of a socket buffer, and of a backlog
  MaxCount,      \* the largest nbyte
  ConnectTries,  \* how often connect polls
  MayRefuse      \* may add_timeout refuse (clock set back, loop far behind)

CallNames == {"read", "write", "accept", "connect", "sleep"}

ASSUME TasksAssumption ==
  Tasks \subseteq Nat \ {0} /\ HookedTasks \subseteq Tasks /\ LimitedTasks \subseteq Tasks
ASSUME CallsAssumption == Calls \in [Tasks -> SUBSET (CallNames \cup {"manage"})]
ASSUME FdsAssumption == Fds \subseteq Nat
ASSUME MadeByMainAssumption == MadeByMain \subseteq {"listen", "stream"}
ASSUME MayRefuseAssumption == MayRefuse \in BOOLEAN
ASSUME BoundsAssumption ==
  MaxBytes \in Nat \ {0} /\ MaxCount \in Nat /\ ConnectTries \in Nat \ {0}

Loop == 0      \* main, in coroutine_eventloop
NoFd == -1

VARIABLES
  cur,       \* the coroutine that has control
  pc,        \* where each task is
  call,      \* the locals of the hooked call it is in
  raised,    \* the loop has an event for the task's poll
  timedout,  \* task->timeout
  hook,      \* gSocketFd[fd] != NULL
  file       \* the kernel's descriptors

taskVars == <<cur, pc, call, raised, timedout>>
vars == <<taskVars, hook, file>>

\* "idle"    between two functions
\* "user"    in the task's function
\* "poll"    about to poll, in a hooked call
\* "wait"    suspended in that poll
\* "sys"     about to make the system call
\* "direct"  in a system call that is not hooked
\* "ret"     the call returns call.ret
PcStates == {"idle", "user", "poll", "wait", "sys", "direct", "ret"}

\* History: moved counts the bytes the kernel has transferred for this call,
\* via says that it found an entry in the table, hard that its last system
\* call failed, gone that somebody has closed the descriptor meanwhile.
NoCall == [op |-> "none", fd |-> NoFd, nbyte |-> 0, n |-> 0, moved |-> 0,
           tries |-> 0, via |-> FALSE, hard |-> FALSE, gone |-> FALSE, ret |-> 0]

NoFile == [kind |-> "none", nonblock |-> FALSE, inq |-> 0, room |-> 0, peer |-> "open"]

Kinds == {"none", "fresh", "listen", "connecting", "failed", "stream"}

TypeOK ==
  /\ cur \in Tasks \cup {Loop}
  /\ pc \in [Tasks -> PcStates]
  /\ call \in [Tasks -> [op : CallNames \cup {"none"}, fd : Fds \cup {NoFd},
                         nbyte : 0..MaxCount, n : 0..MaxCount, moved : 0..MaxCount,
                         tries : 0..ConnectTries, via : BOOLEAN, hard : BOOLEAN, gone : BOOLEAN,
                         ret : Fds \cup -1..MaxCount]]
  /\ raised \in [Tasks -> BOOLEAN]
  /\ timedout \in [Tasks -> BOOLEAN]
  /\ hook \in [Fds -> BOOLEAN]
  /\ file \in [Fds -> [kind : Kinds, nonblock : BOOLEAN, inq : 0..MaxBytes,
                       room : 0..MaxBytes, peer : {"open", "closed", "reset"}]]

\* Main has made some descriptors and starts the loop.
Init ==
  /\ cur = Loop
  /\ pc = [t \in Tasks |-> "idle"]
  /\ call = [t \in Tasks |-> NoCall]
  /\ raised = [t \in Tasks |-> FALSE]
  /\ timedout = [t \in Tasks |-> FALSE]
  /\ hook = [f \in Fds |-> FALSE]
  /\ file \in [Fds -> {[NoFile EXCEPT !.kind = k] : k \in MadeByMain \cup {"none"}}]

-----------------------------------------------------------------------------
(***************************************************************************)
(* The kernel.  A system call is the set of its possible results: none if  *)
(* it blocks.                                                              *)
(***************************************************************************)

EAGAIN == -1         \* for connect: EINPROGRESS
EHARD == -2          \* any other error

\* What a call that finds nothing to do gives.
Nothing(f) == IF file[f].nonblock THEN {EAGAIN} ELSE {}

UpTo(a, b) == 1..(IF a < b THEN a ELSE b)

SysRead(f, want) ==
  CASE file[f].kind = "connecting" -> Nothing(f)
    [] file[f].kind # "stream" \/ file[f].peer = "reset" -> {EHARD}
    [] OTHER -> IF want = 0 THEN {0}
                ELSE IF file[f].inq > 0 THEN UpTo(file[f].inq, want)
                ELSE IF file[f].peer = "closed" THEN {0}
                ELSE Nothing(f)

SysWrite(f, want) ==
  CASE file[f].kind = "connecting" -> Nothing(f)
    [] file[f].kind # "stream" \/ file[f].peer = "reset" -> {EHARD}
    [] OTHER -> IF want = 0 THEN {0}
                ELSE IF file[f].room > 0 THEN UpTo(file[f].room, want)
                ELSE Nothing(f)

\* accept gives the new descriptor.
SysAccept(f) ==
  LET new == {g \in Fds : file[g].kind = "none"}
  IN  IF file[f].kind # "listen" \/ new = {} THEN {EHARD}
      ELSE IF file[f].inq > 0 THEN new
      ELSE Nothing(f)

\* Variant: a write that goes on asks for the whole count again.
WholeCount(c) == c.nbyte

\* nbyte - n
Rest(c) == c.nbyte - c.n

\* The results of the system call task t is about to make.
SysResults(t) ==
  LET c == call[t]
  IN  CASE c.op = "read"    -> SysRead(c.fd, Rest(c))
        [] c.op = "write"   -> SysWrite(c.fd, Rest(c))
        [] c.op = "accept"  -> SysAccept(c.fd)
        [] c.op = "connect" -> IF file[c.fd].kind = "connecting" THEN Nothing(c.fd)
                               ELSE {IF file[c.fd].kind = "stream" THEN 0 ELSE EHARD}
        [] OTHER            -> {0}

\* The descriptors after result r.
After(t, r) ==
  LET c == call[t]
  IN  CASE c.op = "read" /\ r > 0  -> [file EXCEPT ![c.fd].inq = @ - r]
        [] c.op = "write" /\ r > 0 -> [file EXCEPT ![c.fd].room = @ - r]
        [] c.op = "accept" /\ r >= 0 ->
             [file EXCEPT ![c.fd].inq = @ - 1, ![r] = [NoFile EXCEPT !.kind = "stream"]]
        [] OTHER -> file

\* Would poll report the descriptor, for the events that a call waits for.
HasEvents(op, f) ==
  LET k == file[f].kind
  IN  \/ k \in {"fresh", "failed"}
      \/ k = "listen" /\ op = "accept" /\ file[f].inq > 0
      \/ k = "stream" /\ \/ file[f].peer # "open"
                         \/ op \in {"write", "connect"} /\ file[f].room > 0
                         \/ op \in {"read", "accept"} /\ file[f].inq > 0

Arrive(f) ==
  /\ file[f].kind \in {"listen", "stream"}
  /\ file[f].peer = "open" /\ file[f].inq < MaxBytes
  /\ file' = [file EXCEPT ![f].inq = @ + 1]
  /\ UNCHANGED <<taskVars, hook>>

Drain(f) ==
  /\ file[f].kind = "stream" /\ file[f].peer # "reset" /\ file[f].room < MaxBytes
  /\ file' = [file EXCEPT ![f].room = @ + 1]
  /\ UNCHANGED <<taskVars, hook>>

PeerEnds(f) ==
  /\ file[f].kind = "stream"
  /\ \/ /\ file[f].peer = "open"
        /\ file' = [file EXCEPT ![f].peer = "closed"]
     \/ /\ file[f].peer # "reset"
        /\ file' = [file EXCEPT ![f].peer = "reset", ![f].inq = 0]
  /\ UNCHANGED <<taskVars, hook>>

ConnectEnds(f) ==
  /\ file[f].kind = "connecting"
  /\ \/ file' = [file EXCEPT ![f].kind = "stream", ![f].room = MaxBytes]
     \/ file' = [file EXCEPT ![f].kind = "failed"]
  /\ UNCHANGED <<taskVars, hook>>

-----------------------------------------------------------------------------
(***************************************************************************)
(* socket, close, fcntl.                                                   *)
(***************************************************************************)

\* Task t runs code of its own that makes the calls named op.
InUser(t, op) == cur = t /\ pc[t] = "user" /\ op \in Calls[t]

Hooked(t) == t \in HookedTasks

Socket(t, f) ==
  /\ InUser(t, "manage")
  /\ file[f].kind = "none"
  /\ file' = [file EXCEPT ![f] = [NoFile EXCEPT !.kind = "fresh", !.nonblock = Hooked(t)]]
  /\ hook' = [hook EXCEPT ![f] = @ \/ Hooked(t)]
  /\ UNCHANGED taskVars

Listen(t, f) ==
  /\ InUser(t, "manage")
  /\ file[f].kind = "fresh"
  /\ file' = [file EXCEPT ![f].kind = "listen"]
  /\ UNCHANGED <<taskVars, hook>>

\* Variant: the user's flags are taken as they are.
UserMode(t, f, nonblock) == nonblock

\* A descriptor of the table stays non-blocking.
NewMode(t, f, nonblock) == nonblock \/ (Hooked(t) /\ hook[f])

\* fcntl(f, F_SETFL, ...), with or without O_NONBLOCK.  The other commands go
\* to the system as they are.
SetFl(t, f, nonblock) ==
  /\ InUser(t, "manage")
  /\ file[f].kind # "none"
  /\ file' = [file EXCEPT ![f].nonblock = NewMode(t, f, nonblock)]
  /\ UNCHANGED <<taskVars, hook>>

\* close, by a task with or without hooks.
DoClose(hooked, f) ==
  /\ file' = [file EXCEPT ![f] = NoFile]
  /\ hook' = [hook EXCEPT ![f] = @ /\ ~hooked]

\* The calls in progress on f will find another file, or none.
Gone(f) ==
  [u \in Tasks |-> [call[u] EXCEPT !.gone = @ \/ call[u].fd = f]]

Close(t, f) ==
  /\ InUser(t, "manage")
  /\ DoClose(Hooked(t), f)
  /\ call' = Gone(f)
  /\ UNCHANGED <<cur, pc, raised, timedout>>

-----------------------------------------------------------------------------
(***************************************************************************)
(* A call begins.                                                          *)
(***************************************************************************)

\* The task has hooks and the descriptor an entry.
ViaTable(t, f) == Hooked(t) /\ f # NoFd /\ hook[f]

\* Task t is at step p of a call; hook and file are for the caller.
Enter(t, op, f, k, p) ==
  /\ InUser(t, op)
  /\ call' = [call EXCEPT ![t] = [NoCall EXCEPT !.op = op, !.fd = f, !.nbyte = k,
                                                 !.via = ViaTable(t, f)]]
  /\ pc' = [pc EXCEPT ![t] = p]
  /\ UNCHANGED <<cur, raised, timedout>>

\* read waits first, write tries first.
Read(t, f, k) ==
  /\ Enter(t, "read", f, k, IF ViaTable(t, f) THEN "poll" ELSE "direct")
  /\ UNCHANGED <<hook, file>>

Write(t, f, k) ==
  /\ Enter(t, "write", f, k, IF ViaTable(t, f) THEN "sys" ELSE "direct")
  /\ UNCHANGED <<hook, file>>

\* A listening descriptor without an entry gets one and becomes
\* non-blocking; fcntl fails if the descriptor is not open.
Accept(t, f) ==
  /\ Enter(t, "accept", f, 0, IF Hooked(t) THEN "sys" ELSE "direct")
  /\ hook' = [hook EXCEPT ![f] = @ \/ Hooked(t)]
  /\ file' = IF Hooked(t) /\ ~hook[f] /\ file[f].kind # "none"
             THEN [file EXCEPT ![f].nonblock = TRUE] ELSE file

\* connect on a new socket (another one fails at once).
Connect(t, f) ==
  /\ file[f].kind = "fresh"
  /\ Enter(t, "connect", f, 0, "sys")
  /\ file' = [file EXCEPT ![f].kind = "connecting"]
  /\ UNCHANGED hook

Sleep(t) ==
  /\ Enter(t, "sleep", NoFd, 0, IF Hooked(t) THEN "poll" ELSE "direct")
  /\ UNCHANGED <<hook, file>>

-----------------------------------------------------------------------------
(***************************************************************************)
(* System calls.                                                           *)
(***************************************************************************)

\* The value the caller sees for a result of the system.
Value(r) == IF r < 0 THEN -1 ELSE r

\* The call of t returns r, with the locals c.
Returns(t, c, r) ==
  /\ call' = [call EXCEPT ![t] = [c EXCEPT !.ret = r]]
  /\ pc' = [pc EXCEPT ![t] = "ret"]

\* Its loop goes on to the next poll.
GoesOn(t, c) ==
  /\ call' = [call EXCEPT ![t] = c]
  /\ pc' = [pc EXCEPT ![t] = "poll"]

\* Variant: after a partial transfer only the last part is counted.
LastPart(n, k) == IF k > 0 THEN k ELSE n

\* n += k
Plus(n, k) == n + k

\* The locals after result r; bytes are counted for read and write.
Moved(c, r) ==
  LET k == IF c.op \in {"read", "write"} /\ r > 0 THEN r ELSE 0
  IN  [c EXCEPT !.n = Plus(@, k), !.moved = @ + k, !.tries = 1, !.hard = (r = EHARD)]

\* read and recv: done as soon as there are bytes, at the end of the stream,
\* or at an error, which also returns n; a read of 0 bytes is done at once.
SysReadDone(t, r) ==
  LET c == Moved(call[t], r)
  IN  IF r = EAGAIN /\ c.n < c.nbyte THEN GoesOn(t, c) ELSE Returns(t, c, c.n)

\* Variant: a full buffer ends a write.
BrokenWhenFull(t, r) == r = 0 \/ (r < 0 /\ call[t].tries > 0)

\* The result ends a write, except an error of the first attempt.
Broken(t, r) == r = 0 \/ (r = EHARD /\ call[t].tries > 0)

\* write and send: goes on until all bytes are written.  An error ends it,
\* except one of the first attempt, which is made again.
SysWriteDone(t, r) ==
  LET c == Moved(call[t], r)
  IN  IF c.n < c.nbyte /\ ~Broken(t, r) THEN GoesOn(t, c)
      ELSE Returns(t, c, IF r <= 0 /\ c.n = 0 THEN Value(r) ELSE c.n)

\* accept: EAGAIN waits; connect: EINPROGRESS does if there is an entry.
SysOpenDone(t, r) ==
  IF r = EAGAIN /\ (call[t].op = "accept" \/ ViaTable(t, call[t].fd)) THEN GoesOn(t, call[t])
  ELSE Returns(t, call[t], Value(r))

\* The descriptor that accept returns gets an entry and becomes
\* non-blocking.
Accepted(t, r) ==
  /\ hook' = [hook EXCEPT ![r] = TRUE]
  /\ file' = [After(t, r) EXCEPT ![r].nonblock = TRUE]

\* A hooked call makes its system call.
Sys(t) ==
  /\ cur = t /\ pc[t] = "sys"
  /\ \E r \in SysResults(t) :
       /\ CASE call[t].op = "read"  -> SysReadDone(t, r)
            [] call[t].op = "write" -> SysWriteDone(t, r)
            [] OTHER                -> SysOpenDone(t, r)
       /\ IF call[t].op = "accept" /\ r >= 0 THEN Accepted(t, r)
          ELSE file' = After(t, r) /\ UNCHANGED hook
  /\ UNCHANGED <<cur, raised, timedout>>

\* A call that is not hooked does nothing else.
Direct(t) ==
  /\ cur = t /\ pc[t] = "direct"
  /\ \E r \in SysResults(t) :
       /\ file' = After(t, r)
       /\ Returns(t, Moved(call[t], r), Value(r))
  /\ UNCHANGED <<cur, raised, timedout, hook>>

-----------------------------------------------------------------------------
(***************************************************************************)
(* Polls of a hooked call.                                                 *)
(***************************************************************************)

\* wait_io_ready, given what poll returned and task->timeout.
WaitIoReady(r, late) == IF r = 0 /\ late THEN -1 ELSE 1

\* The call gives up: it closes its descriptor and returns r.
GivesUp(t, r) ==
  /\ DoClose(TRUE, call[t].fd)
  /\ call' = [Gone(call[t].fd) EXCEPT ![t] = [call[t] EXCEPT !.ret = r]]
  /\ pc' = [pc EXCEPT ![t] = "ret"]

ToSys(t) ==
  /\ pc' = [pc EXCEPT ![t] = "sys"]
  /\ UNCHANGED <<call, hook, file>>

ReadWriteGoesOn(t, r, late) ==
  LET c == call[t]
  IN  IF WaitIoReady(r, late) <= 0 THEN GivesUp(t, IF c.n = 0 THEN -1 ELSE c.n)
      ELSE ToSys(t)

\* Variant: only a poll that returned 0 counts as timed out.
AcceptGoesOnAfterLimit(t, r, late) ==
  IF r = 0 /\ late THEN GivesUp(t, -1) ELSE ToSys(t)

AcceptGoesOn(t, r, late) ==
  IF r <= 0 /\ late THEN GivesUp(t, -1) ELSE ToSys(t)

\* Variant: revents is not cleared before each poll.
ConnectedStale(r, out) == out

\* pf.revents & POLLOUT: the last poll reported the descriptor, and out says
\* that POLLOUT is among its events.
Connected(r, out) == r = 1 /\ out

\* connect polls ConnectTries times at most and takes POLLOUT as success.  The
\* kernel may report a failed attempt with or without it.
ConnectGoesOn(t, r, late) ==
  LET c == [call[t] EXCEPT !.tries = @ + 1]
  IN  /\ \/ /\ r = 1 \/ c.tries = ConnectTries
            /\ \E out \in BOOLEAN : Returns(t, c, IF Connected(r, out) THEN 0 ELSE -1)
         \/ /\ r # 1 /\ c.tries < ConnectTries
            /\ GoesOn(t, c)
      /\ UNCHANGED <<hook, file>>

\* poll returns r to the call of task t.
PollReturns(t, r, late) ==
  CASE call[t].op \in {"read", "write"} -> ReadWriteGoesOn(t, r, late)
    [] call[t].op = "accept"  -> AcceptGoesOn(t, r, late)
    [] call[t].op = "connect" -> ConnectGoesOn(t, r, late)
    [] OTHER -> Returns(t, call[t], 0) /\ UNCHANGED <<hook, file>>

InPoll(t) == cur = t /\ pc[t] = "poll"

\* The limit of the task is used up: poll returns -1, now and from now on.
PollTimesOut(t) ==
  /\ InPoll(t)
  /\ t \in LimitedTasks
  /\ timedout' = [timedout EXCEPT ![t] = TRUE]
  /\ PollReturns(t, -1, TRUE)
  /\ UNCHANGED <<cur, raised>>

\* add_timeout refuses: poll returns -1.
PollInvalid(t) ==
  /\ InPoll(t)
  /\ MayRefuse
  /\ ~timedout[t]
  /\ PollReturns(t, -1, FALSE)
  /\ UNCHANGED <<cur, raised, timedout>>

PollSuspends(t) ==
  /\ InPoll(t)
  /\ ~timedout[t]
  /\ cur' = Loop
  /\ pc' = [pc EXCEPT ![t] = "wait"]
  /\ raised' = [raised EXCEPT ![t] = FALSE]
  /\ UNCHANGED <<call, timedout, hook, file>>

-----------------------------------------------------------------------------
(***************************************************************************)
(* The event loop, and the functions of the tasks.                         *)
(***************************************************************************)

\* epoll_wait reports the descriptor of a suspended task.
Report(t) ==
  /\ cur = Loop /\ pc[t] = "wait" /\ ~raised[t]
  /\ call[t].fd # NoFd /\ HasEvents(call[t].op, call[t].fd)
  /\ raised' = [raised EXCEPT ![t] = TRUE]
  /\ UNCHANGED <<cur, pc, call, timedout, hook, file>>

\* The loop resumes it, for its event or because its time is up.
Wake(t) ==
  /\ cur = Loop /\ pc[t] = "wait"
  /\ cur' = t
  /\ PollReturns(t, IF raised[t] THEN 1 ELSE 0, timedout[t])
  /\ UNCHANGED <<raised, timedout>>

Return(t) ==
  /\ cur = t /\ pc[t] = "ret"
  /\ pc' = [pc EXCEPT ![t] = "user"]
  /\ call' = [call EXCEPT ![t] = NoCall]
  /\ UNCHANGED <<cur, raised, timedout, hook, file>>

\* The function of the task returns; later the task runs another one.
Finish(t) ==
  /\ cur = t /\ pc[t] = "user"
  /\ cur' = Loop
  /\ pc' = [pc EXCEPT ![t] = "idle"]
  /\ UNCHANGED <<call, raised, timedout, hook, file>>

Start(t) ==
  /\ cur = Loop /\ pc[t] = "idle"
  /\ cur' = t
  /\ pc' = [pc EXCEPT ![t] = "user"]
  /\ timedout' = [timedout EXCEPT ![t] = FALSE]
  /\ UNCHANGED <<call, raised, hook, file>>

\* What task t does inside a call.
CallStep(t) ==
  \/ Sys(t)
  \/ Direct(t)
  \/ PollTimesOut(t)
  \/ PollInvalid(t)
  \/ PollSuspends(t)
  \/ Return(t)

UserStep(t) ==
  \/ \E f \in Fds :
       \/ Socket(t, f)
       \/ Listen(t, f)
       \/ Close(t, f)
       \/ \E nonblock \in BOOLEAN : SetFl(t, f, nonblock)
       \/ \E k \in 0..MaxCount : Read(t, f, k) \/ Write(t, f, k)
       \/ Accept(t, f)
       \/ Connect(t, f)
  \/ Sleep(t)
  \/ Finish(t)

LoopStep(t) == Report(t) \/ Wake(t) \/ Start(t)

KernelStep(f) == Arrive(f) \/ Drain(f) \/ PeerEnds(f) \/ ConnectEnds(f)

Next ==
  \/ \E t \in Tasks : CallStep(t) \/ UserStep(t) \/ LoopStep(t)
  \/ \E f \in Fds : KernelStep(f)

Spec == Init /\ [][Next]_vars

\* A task in a call goes on when it has control, the loop resumes every
\* suspended task 10 ms after it gets control at the latest (EveryPollReturns
\* of Scheduler), and a limited task that goes on polling uses up its limit
\* (LimitEnforced of Scheduler).  Nothing is assumed of the network or of the
\* functions of the tasks.
FairSpec ==
  /\ Spec
  /\ \A t \in Tasks :
       /\ WF_vars(CallStep(t))
       /\ SF_vars(Wake(t))
       /\ SF_vars(PollTimesOut(t))

-----------------------------------------------------------------------------
(***************************************************************************)
(* Properties.                                                             *)
(***************************************************************************)

\* read, recv, write and send return the number of bytes the kernel moved
\* for them, however the transfer was cut up, interrupted by other tasks or
\* ended by an error; nothing is moved by a call that returns 0 or -1.
ByteCount ==
  \A t \in Tasks :
    call[t].op \in {"read", "write"} =>
      /\ call[t].n = call[t].moved \/ pc[t] = "ret"
      /\ pc[t] = "ret" => call[t].ret = call[t].moved
                          \/ (call[t].moved = 0 /\ call[t].ret = -1)

\* A hooked write or send that returns less than it was asked to write met
\* an error, or its task's limit is used up, which is meant to end it: a full
\* buffer, another writer that fills it again, or a poll that comes back
\* without an event or is refused does not.
ShortWriteExplained ==
  \A t \in Tasks :
    pc[t] = "ret" /\ call[t].op = "write" /\ call[t].via /\ call[t].nbyte > 0 =>
      call[t].ret = call[t].nbyte \/ call[t].hard \/ timedout[t]

\* A hooked call never blocks the thread in a system call on a descriptor
\* of the table: the descriptor is non-blocking or the call has something
\* to return.
ThreadNeverBlocks ==
  \A t \in Tasks :
    cur = t /\ pc[t] = "sys" /\ ViaTable(t, call[t].fd) => SysResults(t) # {}

\* connect only returns 0 when the attempt is over, however often its polls
\* came back empty (it may have failed: POLLOUT does not tell).
ConnectAnswer ==
  \A t \in Tasks :
    pc[t] = "ret" /\ call[t].op = "connect" /\ call[t].ret = 0 /\ ~call[t].gone =>
      file[call[t].fd].kind \in {"stream", "failed"}

MustEnd(t) ==
  \/ call[t].op \in {"sleep", "connect"}
  \/ call[t].op = "accept" /\ t \in LimitedTasks

\* A sleep, a connect, and an accept of a limited task come to an end,
\* whatever the network does and whatever other tasks do to the descriptors,
\* unless another task keeps control for ever (as a read whose limit is used
\* up does, see TimeoutEndsIo).
CallsEnd ==
  \A t \in Tasks :
    []<>(cur \in {Loop, t}) => (MustEnd(t) ~> pc[t] = "ret")

\* wait_io_ready's comment says that it returns -1 on timeout, which ends the
\* loops of read, recv, write and send: a task whose limit is used up comes
\* out of them.
TimeoutEndsIo ==
  \A t \in Tasks :
    (timedout[t] /\ call[t].op \in {"read", "write"}) ~> pc[t] = "ret"

=============================================================================
