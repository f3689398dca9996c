----------------------------- MODULE Scheduler ------------------------------
(***************************************************************************)
(* One thread of the library: its task pool, its event loop and the polls  *)
(* that connect them (poll_inner and fix_coroutine_timeout of              *)
(* coroutine_impl.c, with the kernel's epoll set as they use it).          *)
(*                                                                         *)
(* TaskPool leaves open when a poll suspends, times out or is woken, and   *)
(* EventLoop who arms an item and when; here poll_inner decides.  A task's *)
(* timer item and its poll_item_ts live on the stack of poll_inner: they   *)
(* exist only while the task is inside it (pc = "poll"), and everything    *)
(* that points to them, the epoll set and the timer lists, has to be gone  *)
(* when poll_inner returns.                                                *)
(*                                                                         *)
(* A call runs from resume to yield without interference from other        *)
(* coroutines, so what poll_inner does before its yield is one step and    *)
(* what it does after is another; only clock and descriptors change        *)
(* meanwhile.                                                              *)
(***************************************************************************)
EXTENDS Integers, Sequences, FiniteSets

CONSTANTS
  PoolSize, Attrs,                                  \* see TaskPool
  TimerSize, Clock, kMaxTimeoutMs, MayStepBack,     \* see EventLoop
  Fds,            \* descriptors
  PlainFds,       \* those epoll_ctl refuses with EPERM (regular files)
  PollTimeouts,   \* the timeouts callers pass to poll and sleep
  IntHalf         \* an int ranges from -IntHalf to IntHalf - 1

\* As in TaskPool and EventLoop.
ASSUME PoolAssumption ==
  /\ PoolSize \in Nat \ {0}
  /\ Attrs \subseteq [max_timeout_ms : Int, timeout : BOOLEAN]
ASSUME LoopAssumption ==
  /\ TimerSize \in Nat \ {0}
  /\ kMaxTimeoutMs \in Nat
  /\ kMaxTimeoutMs <= TimerSize
  /\ Clock \subseteq Nat \ {0}
  /\ MayStepBack \in BOOLEAN

ASSUME FdsAssumption == PlainFds \subseteq Fds
ASSUME PollTimeoutsAssumption == PollTimeouts \subseteq Int
ASSUME IntAssumption ==
  /\ IntHalf \in Nat \ {0}
  /\ \A a \in Attrs : a.max_timeout_ms \in -IntHalf..(IntHalf - 1)

Tasks == 1..PoolSize

\* What remains of a caller's timeout after fix_coroutine_timeout.
FixedTimeouts == {ms \in PollTimeouts \cup 0..kMaxTimeoutMs : ms <= kMaxTimeoutMs}

VARIABLES
  \* TaskPool
  mainpc, created, size, working, free, callstack, costate, pc, fun, tstate,
  attr, timeout,
  \* EventLoop; the timer item of task t is item t
  phase, clock, now, start, start_idx, list, parent, expire, timedout,
  detached, i, cnt,
  \* a task's limit
  leftmsec,    \* task->leftmsec
  last,        \* task->last
  started,     \* history: the clock when new_task started a limited task
  dated,       \* history: the loop had read the clock when it did
  \* the poll a task is in: poll_inner's locals
  fds,         \* the descriptors it asked for
  revents,     \* those it got events for
  raise_cnt,   \* arg.raise_cnt
  \* the kernel
  reg,         \* the epoll set: whose poll_item_t a descriptor points to, or 0
  ready,       \* descriptors with pending events
  waited,      \* epoll_wait was called in this iteration
  events       \* its result, as far as it is not processed

poolVars == <<mainpc, created, size, working, free, callstack, costate, pc,
              fun, tstate, attr, timeout>>
loopVars == <<phase, clock, now, start, start_idx, list, parent, expire,
              timedout, detached, i, cnt>>
limitVars == <<leftmsec, last, started, dated>>
pollVars == <<fds, revents, raise_cnt>>
waitVars == <<waited, events>>
kernelVars == <<reg, ready, waitVars>>
vars == <<poolVars, loopVars, limitVars, pollVars, kernelVars>>

Pool == INSTANCE TaskPool
Loop == INSTANCE EventLoop WITH Items <- Tasks, Timeouts <- FixedTimeouts

TypeOK ==
  /\ Pool!TypeOK
  /\ Loop!TypeOK
  /\ leftmsec \in [Tasks -> -IntHalf..(IntHalf - 1)]
  /\ last \in [Tasks -> Clock \cup {0}]
  /\ started \in [Tasks -> Clock \cup {0}]
  /\ dated \in [Tasks -> BOOLEAN]
  /\ fds \in [Tasks -> SUBSET Fds]
  /\ revents \in [Tasks -> SUBSET Fds]
  /\ raise_cnt \in [Tasks -> Nat]
  /\ reg \in [Fds -> Tasks \cup {0}]
  /\ ready \subseteq Fds
  /\ waited \in BOOLEAN
  /\ events \subseteq Fds \X Tasks

Init ==
  /\ Pool!Init
  /\ Loop!Init
  /\ leftmsec = [t \in Tasks |-> 0]
  /\ last = [t \in Tasks |-> 0]
  /\ started = [t \in Tasks |-> 0]
  /\ dated = [t \in Tasks |-> FALSE]
  /\ fds = [t \in Tasks |-> {}]
  /\ revents = [t \in Tasks |-> {}]
  /\ raise_cnt = [t \in Tasks |-> 0]
  /\ reg = [f \in Fds |-> 0]
  /\ ready = {}
  /\ waited = FALSE
  /\ events = {}

-----------------------------------------------------------------------------
(***************************************************************************)
(* Tasks.                                                                  *)
(***************************************************************************)

\* coroutine_new_task; the limit counts from the loop's last clock reading,
\* get_now(), which is 0 before the loop runs.
NewTask(a) ==
  /\ Pool!NewTask(a)
  /\ LET t == Head(free)
     IN  /\ leftmsec' = [leftmsec EXCEPT ![t] = a.max_timeout_ms]
         /\ last' = [last EXCEPT ![t] = now]
         /\ started' = [started EXCEPT ![t] = IF a.max_timeout_ms = -1 THEN 0 ELSE clock]
         /\ dated' = [dated EXCEPT ![t] = a.max_timeout_ms # -1 /\ now # 0]
  /\ UNCHANGED <<loopVars, pollVars, kernelVars>>

\* Creation of the pool, and task_main around the user's function.
PoolStep ==
  /\ \/ Pool!CreateTask
     \/ Pool!PoolReady
     \/ Pool!NewTaskRefused
     \/ \E t \in Tasks :
          \/ Pool!TaskWait(t)
          \/ Pool!TaskRun(t)
          \/ Pool!FunReturn(t)
          \/ Pool!FunReturnTimedOut(t)
          \/ Pool!CallbackReturn(t)
  /\ UNCHANGED <<loopVars, limitVars, pollVars, kernelVars>>

\* Main or a running task closes a descriptor; the kernel drops it from the
\* epoll set.  The number may be in use again at once.
Close(f) ==
  /\ Pool!CanCall
  /\ reg' = [reg EXCEPT ![f] = 0]
  /\ ready' = ready \ {f}
  /\ UNCHANGED <<poolVars, loopVars, limitVars, pollVars, waitVars>>

-----------------------------------------------------------------------------
(***************************************************************************)
(* poll_inner, before the yield.                                           *)
(***************************************************************************)

Limited(t) == attr[t].max_timeout_ms # -1

\* The value of an int that n is assigned to.
ToInt(n) == ((n + IntHalf) % (2 * IntHalf)) - IntHalf

\* task->leftmsec after fix_coroutine_timeout has charged the time since the
\* last poll.
Left(t) == ToInt(leftmsec[t] - ToInt(now - last[t]))

\* Variant: what is left is compared with, but not stored.
StoreLeftNot(t) == UNCHANGED leftmsec

StoreLeft(t) == leftmsec' = IF Limited(t) THEN [leftmsec EXCEPT ![t] = Left(t)] ELSE leftmsec

Charge(t) ==
  /\ StoreLeft(t)
  /\ last' = IF Limited(t) THEN [last EXCEPT ![t] = now] ELSE last
  /\ UNCHANGED <<started, dated>>

\* The timeout that remains, unless the task's time is used up.
Fix(t, ms) ==
  LET m == IF Limited(t) /\ (ms = -1 \/ ms > Left(t)) THEN Left(t) ELSE ms
  IN  IF m = -1 \/ m > kMaxTimeoutMs THEN kMaxTimeoutMs ELSE m

CallsPoll(t) == Pool!Running(t) /\ pc[t] = "user"

OutOfTime(t) == Limited(t) /\ Left(t) <= 0

\* poll returns -1: the limit is used up, now ...
PollTimesOut(t) ==
  /\ CallsPoll(t)
  /\ OutOfTime(t)
  /\ Pool!UserTimesOut(t)
  /\ Charge(t)
  /\ UNCHANGED <<loopVars, pollVars, kernelVars>>

\* ... or since an earlier poll, also in the timeout callback.
PollRefused(t) ==
  /\ Pool!Running(t) /\ pc[t] \in {"user", "callback"}
  /\ Limited(t) /\ timeout[t]
  /\ UNCHANGED vars

\* The descriptors of F go into the epoll set; one that is there already
\* (EEXIST) or cannot be (EPERM) is left as it is.
Register(t, F) ==
  reg' = [f \in Fds |-> IF f \in F \ PlainFds /\ reg[f] = 0 THEN t ELSE reg[f]]

\* Variant: only descriptors with events leave it.
UnregisterRaised(t, F) ==
  reg' = [f \in Fds |-> IF f \in F \cap revents[t] THEN 0 ELSE reg[f]]

\* The descriptors of F leave it, whoever put them there.
Unregister(t, F) ==
  reg' = [f \in Fds |-> IF f \in F THEN 0 ELSE reg[f]]

\* The hooked poll hands a single regular file to the system's poll;
\* coroutine_poll (pollfunc == NULL) goes on as with any other descriptor.
PollPlain(t, f) ==
  /\ CallsPoll(t)
  /\ ~timeout[t] /\ ~OutOfTime(t)
  /\ f \in PlainFds
  /\ Charge(t)
  /\ UNCHANGED <<poolVars, loopVars, pollVars, kernelVars>>

\* add_timeout refuses: poll returns -1 with EINVAL.
PollInvalid(t, F, ms) ==
  /\ CallsPoll(t)
  /\ ~timeout[t] /\ ~OutOfTime(t)
  /\ Loop!AddTimeoutFails(clock + Fix(t, ms))
  /\ Unregister(t, F)
  /\ Charge(t)
  /\ UNCHANGED <<poolVars, loopVars, pollVars, ready, waitVars>>

\* The poll is set up and the task yields.
PollSuspends(t, F, ms) ==
  /\ ~OutOfTime(t)
  /\ Pool!UserPoll(t)
  /\ Loop!AddTimeout(t, Fix(t, ms))
  /\ Register(t, F)
  /\ fds' = [fds EXCEPT ![t] = F]
  /\ revents' = [revents EXCEPT ![t] = {}]
  /\ raise_cnt' = [raise_cnt EXCEPT ![t] = 0]
  /\ Charge(t)
  /\ UNCHANGED <<ready, waitVars>>

\* poll_inner, after the yield: unregister and return raise_cnt.  The timer
\* item is off its list already (see ItemsLive), so remove_from_link returns
\* at once.
PollReturn(t) ==
  /\ Pool!PollReturn(t)
  /\ Unregister(t, fds[t])
  /\ fds' = [fds EXCEPT ![t] = {}]
  /\ revents' = [revents EXCEPT ![t] = {}]
  /\ raise_cnt' = [raise_cnt EXCEPT ![t] = 0]
  /\ UNCHANGED <<loopVars, limitVars, ready, waitVars>>

-----------------------------------------------------------------------------
(***************************************************************************)
(* coroutine_eventloop.                                                    *)
(***************************************************************************)

InLoop == Pool!Top = Pool!Main /\ mainpc = "loop"

StartLoop ==
  /\ Pool!StartLoop
  /\ Loop!StartLoop
  /\ UNCHANGED <<limitVars, pollVars, kernelVars>>

\* epoll_wait reports pending descriptors: all of them, those that fit, or
\* none if it is interrupted.
EpollWait ==
  /\ InLoop
  /\ phase = "collect" /\ ~waited
  /\ waited' = TRUE
  /\ \E F \in SUBSET {f \in ready : reg[f] # 0} :
       events' = {<<f, reg[f]>> : f \in F}
  /\ UNCHANGED <<poolVars, loopVars, limitVars, pollVars, reg, ready>>

\* Variant: the event is not counted.
CountEventNot(t) == UNCHANGED raise_cnt

CountEvent(t) == raise_cnt' = [raise_cnt EXCEPT ![t] = @ + 1]

\* prepare_poll_event, for one element of the result.
Prepare(f, t) ==
  /\ InLoop
  /\ <<f, t>> \in events
  /\ events' = events \ {<<f, t>>}
  /\ revents' = [revents EXCEPT ![t] = @ \cup {f}]
  /\ CountEvent(t)
  /\ IF detached[t] THEN UNCHANGED loopVars ELSE Loop!Detach(t)
  /\ UNCHANGED <<poolVars, limitVars, fds, reg, ready, waited>>

TakeBegin ==
  /\ InLoop
  /\ waited /\ events = {}
  /\ Loop!TakeBegin
  /\ waited' = FALSE
  /\ UNCHANGED <<poolVars, limitVars, pollVars, reg, ready, events>>

Take ==
  /\ InLoop
  /\ Loop!TakeSlot \/ Loop!TakeEnd \/ Loop!Drained
  /\ UNCHANGED <<poolVars, limitVars, pollVars, kernelVars>>

\* Variant: the coroutine is resumed, but its item stays on the list.
WakeKeepsItem(t) ==
  /\ InLoop
  /\ phase = "drain" /\ list[Loop!Active] # <<>> /\ t = Head(list[Loop!Active])
  /\ Pool!Resume(t)
  /\ UNCHANGED <<mainpc, created, size, working, free, fun, tstate, attr, timeout,
                 loopVars, limitVars, pollVars, kernelVars>>

\* The first active item is popped and process_poll_event resumes its
\* coroutine.
Wake(t) ==
  /\ InLoop
  /\ Loop!PopHead(t)
  /\ Pool!Resume(t)
  /\ UNCHANGED <<mainpc, created, size, working, free, fun, tstate, attr, timeout,
                 limitVars, pollVars, kernelVars>>

-----------------------------------------------------------------------------
(***************************************************************************)
(* The environment.                                                        *)
(***************************************************************************)

Tick ==
  /\ Loop!Advance
  /\ UNCHANGED <<poolVars, limitVars, pollVars, kernelVars>>

SetBack ==
  /\ Loop!StepBack
  /\ UNCHANGED <<poolVars, limitVars, pollVars, kernelVars>>

DataArrives(f) ==
  /\ f \notin ready
  /\ ready' = ready \cup {f}
  /\ UNCHANGED <<poolVars, loopVars, limitVars, pollVars, reg, waitVars>>

-----------------------------------------------------------------------------

Polls(t) ==
  \/ PollTimesOut(t)
  \/ PollRefused(t)
  \/ \E f \in Fds : PollPlain(t, f)
  \/ \E F \in SUBSET Fds, ms \in PollTimeouts :
       PollInvalid(t, F, ms) \/ PollSuspends(t, F, ms)

LoopStep ==
  \/ StartLoop
  \/ EpollWait
  \/ \E f \in Fds, t \in Tasks : Prepare(f, t)
  \/ TakeBegin
  \/ Take
  \/ \E t \in Tasks : Wake(t)

Next ==
  \/ PoolStep
  \/ LoopStep
  \/ \E a \in Attrs : NewTask(a)
  \/ \E t \in Tasks : Polls(t) \/ PollReturn(t)
  \/ \E f \in Fds : Close(f) \/ DataArrives(f)
  \/ Tick
  \/ SetBack

Spec == Init /\ [][Next]_vars

\* What a task does to give up control: poll, or return from its function.
GivesWay(t) ==
  \/ \E F \in SUBSET Fds, ms \in PollTimeouts : PollSuspends(t, F, ms)
  \/ /\ \/ Pool!FunReturn(t)
        \/ Pool!FunReturnTimedOut(t)
        \/ Pool!CallbackReturn(t)
     /\ UNCHANGED <<loopVars, limitVars, pollVars, kernelVars>>

\* The library's own steps are taken by whoever runs; main gets to its loop.
\* User code is cooperative: a function that gets control again and again
\* polls or returns some time (a hooked read whose limit is used up does not,
\* see TimeoutEndsIo of HookIO: such a thread stops).  The clock goes on.
LibraryStep(t) ==
  \/ PollReturn(t)
  \/ /\ Pool!TaskWait(t) \/ Pool!TaskRun(t)
     /\ UNCHANGED <<loopVars, limitVars, pollVars, kernelVars>>

FairSpec ==
  /\ Spec
  /\ WF_vars(PoolStep /\ mainpc = "boot")
  /\ WF_vars(LoopStep) /\ SF_vars(StartLoop)
  /\ \A t \in Tasks : WF_vars(LibraryStep(t)) /\ SF_vars(GivesWay(t))
  /\ WF_vars(Tick)

-----------------------------------------------------------------------------
(***************************************************************************)
(* Properties.                                                             *)
(***************************************************************************)

OnStack(t) == \E k \in 1..Len(callstack) : callstack[k] = t

\* The epoll set and the results taken from it point only into polls that
\* wait: poll_inner leaves no registration behind on any of its ways out,
\* even when several tasks poll one descriptor or close it meanwhile.
RegistrationsLive ==
  /\ \A f \in Fds :
       reg[f] # 0 => pc[reg[f]] = "poll" /\ f \in fds[reg[f]]
  /\ \A e \in events :
       pc[e[2]] = "poll" /\ ~OnStack(e[2]) /\ parent[e[2]] # Loop!NoList

\* The timer lists hold the items of exactly the polls that are suspended:
\* every waiting task will be found by a sweep, and when a poll goes on its
\* item is on no list.
ItemsLive ==
  \A t \in Tasks :
    parent[t] # Loop!NoList <=> pc[t] = "poll" /\ ~OnStack(t)

\* A poll that goes on has a reason: it returns the number of descriptors
\* with events, all among those it asked for, or 0 because its time is up.
PollAnswer ==
  \A t \in Tasks :
    pc[t] = "poll" /\ OnStack(t) =>
      /\ raise_cnt[t] = Cardinality(revents[t])
      /\ revents[t] \subseteq fds[t]
      /\ raise_cnt[t] = 0 => timedout[t] /\ expire[t] <= now

\* The thread's coroutines move only as TaskPool says: in particular the
\* loop resumes nobody but a task that waits in a poll.
ImplementsTaskPool == Pool!Spec

\* The polls use the timer wheel only as EventLoop says: no poll of a task
\* arms the task's item while it is linked from an earlier one or while the
\* loop walks its lists, and epoll reports events only of items that wait in
\* the wheel.  Neither poll_inner nor prepare_poll_event tests for it.
ImplementsEventLoop == Loop!Spec

\* Every poll returns, whether or not its descriptors could be registered:
\* "if fail,the timeout would work".
EveryPollReturns ==
  \A t \in Tasks : pc[t] = "poll" ~> pc[t] = "user"

\* A limit adds up over all the polls of a task that was started while the
\* loop runs: once the loop's clock is max_timeout_ms past its start, no poll
\* suspends it any more, although readings of the clock do not fit the int
\* that their difference is stored in.  (For a clock that is not set back.  A
\* task that was started earlier is first charged for the whole date, modulo
\* the width of an int: its limit is anything.)
LimitEnforced ==
  [][\A t \in Tasks :
       Limited(t) /\ dated[t] /\ pc[t] = "user" /\ pc'[t] = "poll" =>
         now - started[t] < attr[t].max_timeout_ms]_vars

\* A task is only marked as timed out ("already timeout") when it has had
\* its max_timeout_ms.
LimitNotEarly ==
  \A t \in Tasks :
    timeout[t] /\ pc[t] \in {"user", "callback"} =>
      clock - started[t] >= attr[t].max_timeout_ms

=============================================================================
