# libcr in TLA+

A verification development for libcr, a coroutine library for C: tasks run as
coroutines on one thread, blocking system calls are hooked, and a call that
would block suspends its task until an event loop wakes it. The modules are
written from the sources in `src/src`; `PROJECT.json` says which lines each
definition models.

## The system

| Part | State | Operations |
|---|---|---|
| Task pool (`coroutine_task.c`) | `task_t` (state, limit, timeout flag, next), `taskpool_t` (size, working, free) | `create_thread_taskpool`, `new_task`, `task_main` |
| Coroutines (`coroutine_impl.c`) | `coroutine_t` (state, fun), `env->callstack` | `coroutine_resume`, `yield_env` |
| Event loop, timer wheel (`epoll.c`) | slots, active and timeout list, `start`, `start_idx`, `now`; item: list pointers, `expire`, `timeout` | `add_timeout`, `takeAllTimeout`, `join`, `popHead`, `remove_from_link`, `coroutine_eventloop` |
| Poll (`coroutine_impl.c`) | `poll_context_t` on the caller's stack, the kernel's epoll set, a task's `leftmsec`, `last` | `poll_inner`, `fix_coroutine_timeout`, `prepare_poll_event`, `process_poll_event` |
| Hooked calls (`hook_sys_call.c`) | `gSocketFd`, the locals of a call in progress | `socket`, `accept`, `connect`, `close`, `read`, `recv`, `write`, `send`, `fcntl`, `setsockopt`, `select`, `poll`, `sleep`, `gethostbyname` |
| Context switch (`context.c`, `context_swap.S`) | registers | `context_make`, `context_swap` |
| Coroutine specific data | `co->spec` | `coroutine_getspecific`, `coroutine_setspecific` |

Main creates the pool (each task's coroutine runs once, up to its first
yield), starts some tasks with `coroutine_new_task` and calls
`coroutine_eventloop`, which does not return. A task runs until it polls, directly or
in a hooked call; poll registers descriptors with epoll, puts a timer item in
the wheel and yields to whoever resumed the task. An iteration of the loop
collects events, sweeps the due slots and resumes the coroutines concerned.

What makes this hard:

- Control is a stack: a task may start another one from inside its function or
  its timeout callback, which may do the same, before the first has returned.
- Timer item and epoll data live in a stack frame; everything that points
  there must be gone when the frame is left, on every way out.
- The wheel is a ring of one-millisecond slots that turns by the number of slots swept,
  under a clock (`gettimeofday`) that jumps both ways and a loop that may be
  held up for longer than a turn.
- Tasks share descriptors, close them while others poll them, and numbers are
  reused.
- A task's limit is charged in pieces, one per poll, against a cached clock.
- A system call that blocks, or a loop that does not yield, stops the thread.

## Modules

| Module | Models | Notes |
|---|---|---|
| `TaskPool` | task pool and call stack | one action per piece of code up to the next transfer of control |
| `TimerSpec` | what the loop promises about timers | abstract; no wheel, no lists |
| `EventLoop` | loop and wheel | one step per slot swept and per item popped; implements `TimerSpec` |
| `Scheduler` | one thread: pool, loop and `poll_inner` composed | instantiates both; shown to implement both |
| `HookIO` | the hooked calls over an abstract poll | one step per system call and per poll |
| `SelectHook` | the hooked `select` | the conversion to a poll array and back, while descriptors change |
| `HostLookup` | the hooked `gethostbyname`, coroutine specific data, thread environments | several threads |
| `ContextSwitch` | `context_make`, `context_swap` and their callers | registers and the pushed slots as data |
| `EchoServer` | `example/echoserver.c` | on top of `TaskPool`: composition of an application with the pool |
| `TaskPoolProofs`, `EventLoopProofs`, `HookIOProofs`, `ContextSwitchProofs`, `EchoServerProofs` | theorems about the module of that name | |
| `HookCallProofs` | theorems about `HostLookup` and `SelectHook` | |
| `SchedulerSteps`, `SchedulerProofs` | theorems about `Scheduler` | one step; then all behaviours, with the theorems of the parts |
| `MC*` | constants for TLC | |

How state corresponds to code is said at each variable. Some general choices:

- A task and its coroutine are one number; main is 0.
- A `timer_list_t` is the sequence of its items. The `parent` pointer is a
  variable of its own, because `add_tail` and `remove_from_link` decide by it;
  that pointers and sequences agree is the invariant `ListsSound`.
- `pc` says where a coroutine runs or where it will continue.
- `poll_inner` before its yield is one action (nothing else runs meanwhile
  except the kernel), after it another one. In `Scheduler` descriptors are a
  set, so one poll does not name a descriptor twice.
- Events are a set of descriptors, not flag words, except in `SelectHook`,
  whose subject they are.
- Differences and counts that are `int` in the code: `Scheduler` converts with `ToInt`
  (width `IntHalf`); in `EventLoop` the guard of `TickTo` keeps the clock
  within an `int` of the wheel's start, so stalls of 2^31 ms and more are outside.
- The wheel's comment "kMaxTimeoutMs MUST NOT bigger than epoll timer size" is the assumption
  `TimerSizeAssumption`.
- An `int` that is read before it is written (`ret` of `select`) is any member
  of `AnyInt`.
- History variables: `started` and `dated` in `Scheduler`; `moved`, `via`, `hard`, `gone` in
  `HookIO`'s calls; `raised` in `SelectHook`; `kept` in `ContextSwitch`. No
  action is guarded by them.

Two writes past the end of an array are outside the models. `create_thread_taskpool`
allocates `pool->tasks` with room for one pointer and stores one per task
(`coroutine_task.c:69,74`), so every pool of more than one task writes behind the
allocation when it is created. The array is never read and has no
variable here. `coroutine_resume` pushes on `env->callstack` without
comparing with `kMaxCallStack`, which is 128 while the default pool has 1000 tasks
(`coroutine_impl.c:195`); the sequence `callstack` has no bound either. What is
checked and proved holds of executions in which the first does no harm and
which do not nest more than 126 calls of `coroutine_new_task`.

In `HookIO` the kernel is modelled as far as the calls depend on it: buffers
and backlogs with a capacity, blocking mode, peers that close or reset, and
connection attempts that succeed or fail at any time. A call that blocks has no
result, so its step is disabled and, because the thread keeps control, nothing
but the kernel moves. Poll there is the contract that `Scheduler` establishes,
and `EchoServer` uses the hooked calls as `HookIO` has them.

`ContextSwitch` has all fourteen slots of a context in the order of the pushes and pops
of `context_swap.S`, the stacks as address ranges of any placement, and
the clamping and rounding of stack sizes. What other code does between two switches is
any contents of the registers and any use of the own stack.

In `HostLookup` a `hostbuf_wrap` is named by the caller that allocated it. A
thread without environment, and main, use the thread's own data; the others
that of the running coroutine. The resolver yields at any point, since its own poll may
be the hooked one.

## Runs

| Run | Bounds | States | Shows |
|---|---|---|---|
| `TaskPool` | 3 tasks | 16,542 | accounting, free list, call stack and what makes it grow, refusal and callback invariants under all nestings |
| `EventLoop` | 2 items, 3 slots, clock 1..6, timeouts -2, 0, 1, 2 | 480,174 | wheel and list invariants, order of wake-ups, refinement of `TimerSpec` |
| `SchedulerFds` | 2 tasks, 3 descriptors (one a regular file), clock 1..2 that is set back | 465,256 | no dangling registration or item, right answers, refinement of `EventLoop` |
| `SchedulerLimits` | 2 tasks with a limit of 2, 1 shared descriptor, clock 10..13 with an `int` of -4..3 | 85,128 | every poll returns, limits of tasks started by the loop add up, refinement of `TaskPool` |
| `HookIOData` | a hooked and an unhooked task, 2 descriptors, buffers of 2, counts up to 2 | 863,392 | byte counts, short writes |
| `HookIOSockets` | 2 hooked tasks, 2 descriptors | 335,861 | no hooked call blocks the thread, answers of connect, calls that must end do unless another task keeps control |
| `SelectHook` | 2 descriptors, all sets and all states of them | 488,192 | nothing is reported that was not asked for; waiting for one reader works |
| `ContextSwitch` | main and 2 coroutines, 3 requested stack sizes | 242,532 | whoever goes on finds its registers and stack, whoever starts does so on its own stack |
| `EchoServer` | 3 tasks, 3 descriptors, backlog of 1 | 83,522 | one task per connection, none abandoned while a task is free, ended connections are closed unless another task keeps control |
| `HostLookup` | 2 threads, main and 1 coroutine each, 2 names | 19,044 | an answer stays until its owner asks again, lookups end |
| `LimitNotEarly` | 1 task | | violation: see findings |
| `HookIOLimit` | 2 tasks, 2 descriptors | | violation: see findings |

Why the bounds are enough for the cases that matter: three tasks give two
levels of nesting with one task left over, so the free list is empty, short
and full. A clock that spans two turns of the wheel gives sweeps of no slot, some,
all, and more time than slots; two items give two in one slot, in two slots, one due
and one with events. Two tasks and two descriptors give sharing, closing
and reuse; counts of 2 over buffers that are partly full give partial transfers. In `SchedulerLimits` the readings of the clock do not fit an
`int` but their differences do, as a date in milliseconds does not and the
time between two polls of a limited task does if it is below 2^31 ms, 24.8 days.
A task started before the loop runs is charged the date itself, see the findings;
`LimitEnforced` is about the others (`dated`). Clock 10..13 lets a limit of 2 be used up in pieces.
Two coroutines give a resume from main and one from a coroutine; the stack
sizes are below the minimum, not a multiple of a page and above the
maximum. Three tasks in the echo server are the listener and two handlers, with
a third descriptor for the connection that finds no task. One of the two
names does not fit the first buffer. `HostLookup` has one coroutine beside main in each thread;
several coroutines of one thread are covered by the theorem `Answers`.

Deadlock is checked in every run.

Fairness.

- `Scheduler`: whoever has control takes the library's steps; user
  code that gets control again and again polls or returns some time, which is
  what cooperative scheduling demands of it; main gets to its loop; the clock
  goes on (`gettimeofday` on a running system). A hooked read whose limit is used up
  (second finding) is user code that does not give way: `EveryPollReturns`
  says nothing of a thread with such a task.
- `HookIO`: a task inside a call goes on when it has control; the loop resumes
  suspended tasks (`EveryPollReturns`); a limited task that polls again and
  again uses up its limit (`LimitEnforced`). Nothing is assumed of the network or
  of the functions that make the calls. `CallsEnd` has the condition that the loop or the
  caller itself gets control again and again, since a spinning read of another
  task, which the run contains, takes it from both.
- `EchoServer`: the library and a task that has control go on; the loop resumes
  the polls; a send to a client that has closed its end gets through or
  fails. Clients may stay silent for ever; `EndedIsClosed` has the same kind of condition, which
  fails when a silent client outlasts its limit of 5000 ms (second finding) or
  the descriptors have run out.
- `HostLookup`: every coroutine gets control again and again, and the
  resolver goes on when it has.

Liveness runs exclude a clock that is set back (`MayStepBack`) and an
`add_timeout` that refuses (`MayRefuse`): until the clock has caught up, polls fail with
EINVAL, and a hooked read then spins.

## Findings

- `LimitNotEarly`: a limited task started before the loop is charged from the
  cached clock, which is 0 then, and times out in its first poll under the
  loop, or gets a limit that is far too long, depending on the date modulo 2^32.
- `HookIOLimit`: once the limit of a task is used up, poll returns -1 and
  `wait_io_ready`, which waits for 0, never reports the timeout: a hooked read
  from a silent peer spins without yielding and stops the thread.

Smaller things met while reading, not stated as properties:

- `pool->tasks` is too short (see above); the timeout callback gets the `task_t`
  and not the user's argument.
- `fix_coroutine_timeout` returns 0 for a caller that passes 0, against its
  comment ("= 0: already timeout"); its caller looks at `istimeout`.
- A read that fails returns 0; connect returns 0 for a refused connection, if the
  kernel reports it with POLLOUT.
- `env->callstack` is shorter than the default pool (see above).
- `select` fills its poll array by the number of the set (`hook_sys_call.c:229`), so
  that it waits for the last descriptor of each set only, fills the sets from
  the requested events (245), returns an uninitialised value after a poll
  without events, and with a null timeout blocks the thread (181).
- Every timeout is capped at 10 ms in `poll_inner`, so a sleep ends after 10 ms.
- `gethostbyname` has no `HOOK_SYS_FUNC`: a caller without hooks goes through a
  null pointer (792). If `coroutine_setspecific` fails, the wrap is used
  nevertheless (756-762).
- The echo server ignores what `coroutine_new_task` returns; its
  `buf[n]` is one past the buffer when `recv` fills it (29).
- `gEnv` keeps the environment of a thread that has ended.

## Proofs

All proofs are checked by TLAPS, for every value of the constants that the
named assumptions allow. The type invariants of `TaskPool`, `EventLoop` and
`ContextSwitch` are proved and have no run.

`TaskPoolProofs`, from `PoolSizeAssumption` and `AttrsAssumption`: theorem `Inductive` shows the conjunction of the type
invariant, `FreeListSound`, `CallStackSound`, `ControlSound`,
`CallbackOnlyAfterTimeout` and the accounting of the pool to be inductive. None of them is inductive
alone: that the free list stays free of duplicates needs that a running task is not
on it, which needs the agreement of `tstate` and `pc`; that a yield returns
to the right coroutine needs that everything below the top is inside
`coroutine_new_task`. The counts are about cardinalities of
sets, so the proof of `Accounting` uses the library's theorems on finite sets.
`StackBound` (the stack is no deeper than the nesting of `coroutine_new_task`) follows from the
absence of duplicates and from what is below the top, `Refusal` from accounting.

`EventLoopProofs`, from the assumptions of `EventLoop`: theorem `Inductive`
shows `IInv`, the conjunction of the type invariant, `ListsSound`,
`WheelCoherent`, `SweepSound`, `NeverEarly` and `DueOrder`. `WheelCoherent` needs `SweepSound`, the loop
invariant of `takeAllTimeout`: after `i` slots exactly the items that expire
before `start + i` have left the wheel. The module begins with what unlinking, joining and
appending do to sequences without duplicates. From `IInv`, theorem
`Refinement` shows that every step is a step of `TimerSpec` or leaves its
variables alone: a sweep of many steps is one `Sweep` there, which happens at
`TakeEnd`.

`SchedulerSteps` and `SchedulerProofs`, from the assumptions of `Scheduler`,
compose the two. A step of a thread is a step of its pool and of its loop (`RefinesPool`,
`RefinesLoop`), so their inductive invariants hold of it too; but that the
loop resumes only a coroutine that polls, which `TaskPool` demands of `Wake`,
needs `ItemsLive`, and `ItemsLive` needs the lists and the call stack to be
sound. `IInv` is therefore the conjunction of the invariants of both parts with
`ItemsLive`, `RegistrationsLive` and three more: `Raised` (an item is detached exactly
when its poll has an event, and every active item has an event or is marked as timed out) and
`Collected` (the results of one `epoll_wait` are used up before the sweep, and before the call no item is
active, so no descriptor is counted twice) and `TakeTurns` (the loop is in the middle of an iteration only while main runs).
That a poll arms no item that is linked, and never while the loop walks its lists, is what
`EventLoop` demands and the code does not test; it follows from `ItemsLive` and `TakeTurns`. From `IInv` follow `PollAnswer` and the two
refinements, and through those every theorem about `TaskPool` and
`EventLoop` holds of a thread.

`LimitEnforced` needs `LimitInv` besides: of a task that has not timed out,
`leftmsec + last` is at most its start plus its limit, so the charges of all its
polls add up to the time that has passed; and something is left of the limit whenever the
loop reads the clock again, because every started task then waits in a poll that found it
so. The charge is exact only if the two conversions to `int` lose nothing.
`Limit_Enforced` therefore takes a clock that is not set back and `SpanFits`,
that an `int` holds the difference of two readings, and speaks of tasks that
were started while the loop runs; for the others the difference is the date, which is
the first finding.

`HookIOProofs`, from the assumptions of `HookIO`. `Bytes`, `ShortWrites` and
`Types` follow from `IInv`: the locals of every call agree with what the kernel
moved for it at each of its steps (`CallInv`), and a task that waits has not used up
its limit. `ShortWrites` allows a write to end with the limit, as the code means it to; by the second finding it
does not do so. `ConnectAnswers` adds `ConnectInv`: an attempt that was made on a descriptor
stays made while the call goes on, unless the descriptor is
closed meanwhile. `NeverBlocks` adds `TableInv`, that an open descriptor of the table is
non-blocking. It has the premise `HookedTasks = Tasks`, because a task without hooks can
close a descriptor and open the number again without the table's
noticing; the run that checks it has only hooked tasks as well.

`HookCallProofs`, from the assumptions of `HostLookup` and of `SelectHook`: `Answers` needs `Owner`, that nobody uses the
`hostbuf_wrap` of somebody else. For main that depends on when the thread got its environment: before it,
`top` is main. `SelectTypes`, `Nothing_Invented` and `One_Reader` follow from `SelectInv`: until select
answers, the caller's sets are as passed, and poll gets the array that `Fill`
makes of them. What that array holds (`FillElements`) is proved from its
definition: its first element stands for the read set, its second for the
write set, and every other asks for no event. A set has a last
descriptor because the distances from `MaxFd` have a least element.

`ContextSwitchProofs`, for any number of coroutines and any placement of the
stacks: `ContinuesRight` needs that what is pushed and what is popped match
slot by slot and that a suspended coroutine's slots are not written
(`KeptInv`); `StartsRight` that `context_make` leaves a stack pointer inside the stack,
aligned as a call leaves it.

`EchoServerProofs`, from the assumptions of `EchoServer`: every step moves
the pool as `TaskPool` says or leaves it alone (`PoolStep`), so the pool's inductive invariant
holds of the server. `OneHandler` needs it and four facts more, `EchoInv`: a task with a
descriptor to pass on or to fetch is the running one (`Placed`), so that the
listener's variable is not overwritten before the new task has read it; which tasks have a
descriptor of their own (`Named`); an abandoned descriptor stays open, so its number
is not given out again (`Opened`); and `Handled`, which is `OneHandler` with
sets in place of their sizes. `Lost_OnlyWhenBusy` follows from the accounting
of the pool, by which `new_task` refuses only when every task runs.

Only model-checked: liveness, which the prover cannot express
(`EveryPollReturns`, `CallsEnd`, `EndedIsClosed`, `LookupEnds`). Every other
property of a passing run has a theorem.

## Not modelled

- `oldsrc`: an earlier C++ version that the Makefile does not build.
  `example/sleep_coroutine.c` only calls `sleep`, which `HookIO` has;
  `test.cc` uses the old interface.
- The i386 and `ucontext` variants of the context switch, which are not built,
  and the stack copying in `coroutine_swap`, which is dead code.
- `setsockopt` stores timeouts that `poll_inner` caps at 10 ms; `HookIO`'s polls
  end at any time, which includes those.
- `dup`: descriptors stand for open files. Nothing in the library
  duplicates one. A duplicate would keep a registration alive that `Close` drops.
- Contents of buffers: `HookIO` counts bytes.
- Exit of threads: the event loop does not return.
- The doubly linked lists below the sequences of `EventLoop`. The list macros
  are straight-line code; `ListsSound` has what their callers rely on.
