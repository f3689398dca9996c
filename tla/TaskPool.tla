------------------------------ MODULE TaskPool ------------------------------
(***************************************************************************)
(* The task pool of one thread (coroutine_task.c) on top of the coroutine  *)
(* call stack (coroutine_resume and yield_env of coroutine_impl.c).        *)
(*                                                                         *)
(* Everything runs on one thread: only the coroutine on top of callstack   *)
(* executes.  coroutine_resume pushes its argument, yield_env pops the     *)
(* running coroutine and gives control back to the one below it, the one   *)
(* that resumed it.  An action is what the running coroutine does up to    *)
(* its next transfer of control or its next call into the library.         *)
(* env->callstack has kMaxCallStack entries and no test that they suffice: *)
(* the model describes the program as long as they do (StackIsNesting says *)
(* when that is).                                                          *)
(*                                                                         *)
(* Task t (a task_t) and the coroutine created for it are the same number: *)
(* create_thread_taskpool binds them once (task->coroutine, co->task) and  *)
(* nothing rebinds them.                                                   *)
(*                                                                         *)
(* Polling is abstracted to UserPoll, UserTimesOut, Wake and PollReturn;   *)
(* module Scheduler gives them their real guards.                          *)
(***************************************************************************)
EXTENDS Integers, Sequences, FiniteSets, Functions

CONSTANTS
  PoolSize,       \* gOptions.task_per_thread
  Attrs           \* the coroutine_task_attr_t values callers pass

\* coroutine_init_env replaces a task_per_thread of 0 by the default.
ASSUME PoolSizeAssumption == PoolSize \in Nat \ {0}

\* timeout: is a timeout callback given; max_timeout_ms: -1 means no limit.
ASSUME AttrsAssumption ==
  Attrs \subseteq [max_timeout_ms : Int, timeout : BOOLEAN]

Main == 0                    \* the thread's own coroutine, env->callstack[0]
Tasks == 1..PoolSize
Coroutines == 0..PoolSize

\* What memset leaves in task->attr.
ZeroAttr == [max_timeout_ms |-> 0, timeout |-> FALSE]

VARIABLES
  mainpc,     \* where main is: creating the pool, in application code, in the loop
  created,    \* the loop counter i of create_thread_taskpool
  size,       \* pool->size
  working,    \* pool->working
  free,       \* pool->free, the list linked by task->next, first element first
  callstack,  \* env->callstack[0 .. callstacksize - 1]
  costate,    \* co->state
  pc,         \* where each coroutine runs, or where it continues when resumed
  fun,        \* co->fun
  tstate,     \* task->state
  attr,       \* task->attr
  timeout     \* task->timeout

poolVars == <<created, size, working, free>>
taskVars == <<fun, tstate, attr, timeout>>
vars == <<mainpc, poolVars, callstack, costate, pc, taskVars>>

MainStates == {"boot", "app", "loop"}

\* "none"      not created
\* "loop"      in the while loop of task_main
\* "user"      in task->coroutine->fun(task->arg)
\* "callback"  in task->attr.timeout(...)
\* "poll"      suspended in poll_inner, below the user's function
PcStates == {"none", "loop", "user", "callback", "poll"}

TypeOK ==
  /\ mainpc \in MainStates
  /\ created \in 0..PoolSize
  /\ size \in {0, PoolSize}
  /\ working \in 0..PoolSize
  /\ free \in Seq(Tasks)
  /\ callstack \in Seq(Coroutines)
  /\ costate \in [Tasks -> {"INIT", "RUNNING"}]
  /\ pc \in [Tasks -> PcStates]
  /\ fun \in [Tasks -> {"NULL", "task_main", "user"}]
  /\ tstate \in [Tasks -> {"none", "TASK_RUNNING", "TASK_WAITING"}]
  /\ attr \in [Tasks -> Attrs \cup {ZeroAttr}]
  /\ timeout \in [Tasks -> BOOLEAN]

-----------------------------------------------------------------------------
(***************************************************************************)
(* The call stack.                                                         *)
(***************************************************************************)

\* curr_coroutine(env)
Top == callstack[Len(callstack)]

\* coroutine_resume(co): a coroutine that is not RUNNING gets a new context,
\* which starts in coroutine_main and from there in co->fun, task_main; one
\* that is RUNNING continues where it yielded.
Resume(co) ==
  /\ callstack' = Append(callstack, co)
  /\ pc' = IF costate[co] # "RUNNING" THEN [pc EXCEPT ![co] = "loop"] ELSE pc
  /\ costate' = [costate EXCEPT ![co] = "RUNNING"]

\* Variant: a yield resumes the coroutine below instead of returning to it.
YieldPushes == callstack' = Append(callstack, callstack[Len(callstack) - 1])

\* Variant: a yield always returns to main.
YieldToMain == callstack' = <<Main>>

\* yield_env(env): control returns to the coroutine below the top.
Yield == callstack' = SubSeq(callstack, 1, Len(callstack) - 1)

-----------------------------------------------------------------------------
(***************************************************************************)
(* init_curr_thread_env and create_thread_taskpool.                        *)
(***************************************************************************)

Init ==
  /\ mainpc = "boot"
  /\ created = 0
  /\ size = 0
  /\ working = 0
  /\ free = <<>>
  /\ callstack = <<Main>>
  /\ costate = [t \in Tasks |-> "INIT"]
  /\ pc = [t \in Tasks |-> "none"]
  /\ fun = [t \in Tasks |-> "NULL"]
  /\ tstate = [t \in Tasks |-> "none"]
  /\ attr = [t \in Tasks |-> ZeroAttr]
  /\ timeout = [t \in Tasks |-> FALSE]

\* One iteration of the creation loop, up to the transfer of control to the
\* new coroutine.  pool->tasks, which has room for one pointer but gets them
\* all, is left out: nothing reads it, and what the stores of the second and
\* later iterations overwrite is undefined (see README).
CreateTask ==
  /\ mainpc = "boot"
  /\ Top = Main
  /\ created < PoolSize
  /\ LET t == created + 1
     IN  /\ fun' = [fun EXCEPT ![t] = "task_main"]
         /\ tstate' = [tstate EXCEPT ![t] = "TASK_WAITING"]
         /\ free' = <<t>> \o free
         /\ Resume(t)
         /\ created' = t
  /\ UNCHANGED <<mainpc, size, working, attr, timeout>>

\* The end of the loop: pool->size is only set now.
PoolReady ==
  /\ mainpc = "boot"
  /\ Top = Main
  /\ created = PoolSize
  /\ size' = PoolSize
  /\ mainpc' = "app"
  /\ UNCHANGED <<created, working, free, callstack, costate, pc, taskVars>>

-----------------------------------------------------------------------------
(***************************************************************************)
(* new_task, called by main before the event loop or by a running task.    *)
(***************************************************************************)

\* Code that may call coroutine_new_task is running.
CanCall ==
  \/ Top = Main /\ mainpc = "app"
  \/ Top \in Tasks /\ pc[Top] \in {"user", "callback"}

\* Variant: one task is never used.
FullOffByOne == working >= size - 1 \/ free = <<>>

\* new_task returns -1.
Full == working = size \/ free = <<>>

NewTaskRefused ==
  /\ CanCall
  /\ Full
  /\ UNCHANGED vars

\* Variants: the task stays on the free list; its timeout flag stays.
KeepFree == UNCHANGED free

KeepTimeout(t) == UNCHANGED timeout

TakeFree == free' = Tail(free)

ClearTimeout(t) == timeout' = [timeout EXCEPT ![t] = FALSE]

\* The first free task gets the caller's parameters and runs at once.
NewTask(a) ==
  /\ CanCall
  /\ ~Full
  /\ LET t == Head(free)
     IN  /\ TakeFree
         /\ fun' = [fun EXCEPT ![t] = "user"]
         /\ tstate' = [tstate EXCEPT ![t] = "TASK_RUNNING"]
         /\ attr' = [attr EXCEPT ![t] = a]
         /\ ClearTimeout(t)
         /\ Resume(t)
  /\ UNCHANGED <<mainpc, created, size, working>>

-----------------------------------------------------------------------------
(***************************************************************************)
(* task_main.                                                              *)
(***************************************************************************)

Running(t) == Top = t

\* state == TASK_WAITING: yield, and look again when resumed.
TaskWait(t) ==
  /\ Running(t) /\ pc[t] = "loop"
  /\ tstate[t] = "TASK_WAITING"
  /\ Yield
  /\ UNCHANGED <<mainpc, poolVars, costate, pc, taskVars>>

\* Variants: the task does not count itself; it goes on counting as working.
CountInNot == UNCHANGED working

CountOutNot == UNCHANGED working

CountIn == working' = working + 1

CountOut == working' = working - 1

\* state == TASK_RUNNING: count the task as working and call its function.
TaskRun(t) ==
  /\ Running(t) /\ pc[t] = "loop"
  /\ tstate[t] = "TASK_RUNNING"
  /\ CountIn
  /\ pc' = [pc EXCEPT ![t] = "user"]
  /\ UNCHANGED <<mainpc, created, size, free, callstack, costate, taskVars>>

\* The tail of the loop body: back to the free list, parameters reset.
Release(t) ==
  /\ free' = <<t>> \o free
  /\ CountOut
  /\ fun' = [fun EXCEPT ![t] = "NULL"]
  /\ tstate' = [tstate EXCEPT ![t] = "TASK_WAITING"]
  /\ pc' = [pc EXCEPT ![t] = "loop"]
  /\ UNCHANGED <<mainpc, created, size, callstack, costate, attr, timeout>>

WantsCallback(t) == timeout[t] /\ attr[t].timeout

\* The user's function returns and the timeout callback is due.
FunReturnTimedOut(t) ==
  /\ Running(t) /\ pc[t] = "user"
  /\ WantsCallback(t)
  /\ pc' = [pc EXCEPT ![t] = "callback"]
  /\ UNCHANGED <<mainpc, poolVars, callstack, costate, taskVars>>

\* The user's function returns, no callback is due.
FunReturn(t) ==
  /\ Running(t) /\ pc[t] = "user"
  /\ ~WantsCallback(t)
  /\ Release(t)

CallbackReturn(t) ==
  /\ Running(t) /\ pc[t] = "callback"
  /\ Release(t)

-----------------------------------------------------------------------------
(***************************************************************************)
(* Polling and the event loop, as far as they move coroutines.             *)
(***************************************************************************)

\* poll_inner suspends the task (it does so only for a task that has not
\* timed out) ...
UserPoll(t) ==
  /\ Running(t) /\ pc[t] = "user"
  /\ ~timeout[t]
  /\ pc' = [pc EXCEPT ![t] = "poll"]
  /\ Yield
  /\ UNCHANGED <<mainpc, poolVars, costate, taskVars>>

\* ... or finds that its time is used up, and returns without yielding.
UserTimesOut(t) ==
  /\ Running(t) /\ pc[t] = "user"
  /\ attr[t].max_timeout_ms # -1
  /\ ~timeout[t]
  /\ timeout' = [timeout EXCEPT ![t] = TRUE]
  /\ UNCHANGED <<mainpc, poolVars, callstack, costate, pc, fun, tstate, attr>>

\* poll_inner goes on after its yield and returns to the user's function.
PollReturn(t) ==
  /\ Running(t) /\ pc[t] = "poll"
  /\ pc' = [pc EXCEPT ![t] = "user"]
  /\ UNCHANGED <<mainpc, poolVars, callstack, costate, taskVars>>

\* main calls coroutine_eventloop, which does not return.
StartLoop ==
  /\ Top = Main /\ mainpc = "app"
  /\ mainpc' = "loop"
  /\ UNCHANGED <<poolVars, callstack, costate, pc, taskVars>>

\* process_poll_event: the loop resumes a coroutine that polls.
Wake(t) ==
  /\ Top = Main /\ mainpc = "loop"
  /\ pc[t] = "poll"
  /\ Resume(t)
  /\ UNCHANGED <<mainpc, poolVars, taskVars>>

\* An iteration of the loop that has nothing to process.
LoopIdle ==
  /\ Top = Main /\ mainpc = "loop"
  /\ UNCHANGED vars

TaskStep(t) ==
  \/ TaskWait(t)
  \/ TaskRun(t)
  \/ FunReturn(t)
  \/ FunReturnTimedOut(t)
  \/ CallbackReturn(t)
  \/ UserPoll(t)
  \/ UserTimesOut(t)
  \/ PollReturn(t)

MainStep ==
  \/ CreateTask
  \/ PoolReady
  \/ StartLoop
  \/ LoopIdle
  \/ \E t \in Tasks : Wake(t)

Next ==
  \/ MainStep
  \/ \E t \in Tasks : TaskStep(t)
  \/ \E a \in Attrs : NewTask(a)
  \/ NewTaskRefused

Spec == Init /\ [][Next]_vars

-----------------------------------------------------------------------------
(***************************************************************************)
(* Properties.                                                             *)
(***************************************************************************)

Busy == {t \in Tasks : pc[t] \in {"user", "callback", "poll"}}

\* The task new_task has taken from the free list and that has not counted
\* itself as working yet.
Handoff == {t \in Tasks : pc[t] = "loop" /\ tstate[t] = "TASK_RUNNING"}

\* pool->working counts exactly the tasks that are inside a user's function,
\* its timeout callback or a poll below it, and every task of the finished
\* pool is in one place: working, on the free list, or being handed over.
PoolAccounting ==
  /\ working = Cardinality(Busy)
  /\ created = working + Len(free) + Cardinality(Handoff)

\* The free list holds every waiting task exactly once, and only tasks that
\* are parked in task_main: the coroutine new_task resumes is never one that
\* still executes a user's function or waits in a poll.
FreeListSound ==
  /\ \A i, j \in 1..Len(free) : free[i] = free[j] => i = j
  /\ \A t \in Tasks :
       /\ t \in Range(free) <=> tstate[t] = "TASK_WAITING"
       /\ t \in Range(free) => pc[t] = "loop" /\ fun[t] # "user"

\* The call stack starts at main, holds no coroutine twice, and below its
\* top holds only coroutines that are inside coroutine_new_task: whoever a
\* yield returns to is the one that resumed the yielder.
CallStackSound ==
  /\ Len(callstack) >= 1
  /\ callstack[1] = Main
  /\ \A i, j \in 1..Len(callstack) : callstack[i] = callstack[j] => i = j
  /\ \A i \in 2..(Len(callstack) - 1) : pc[callstack[i]] \in {"user", "callback"}

\* A task's state agrees with where its coroutine is: only a created task is
\* ever resumed; a task inside a user's function is TASK_RUNNING; one that
\* executes is on the call stack; one that has just been handed over is the
\* running one, so new_task never sees another call half done; and no task
\* runs before the pool is complete and pool->size is set.
ControlSound ==
  /\ size = (IF mainpc = "boot" THEN 0 ELSE PoolSize)
  /\ mainpc # "boot" => created = PoolSize
  /\ \A t \in Tasks :
       /\ t > created <=> pc[t] = "none"
       /\ costate[t] = "INIT" <=> pc[t] = "none"
       /\ tstate[t] = "none" <=> pc[t] = "none"
       /\ tstate[t] = "TASK_RUNNING" => mainpc # "boot"
       /\ t \in Busy => tstate[t] = "TASK_RUNNING"
       /\ pc[t] \in {"user", "callback"} => t \in Range(callstack)
       /\ t \in Handoff => Top = t

Nested == {t \in Tasks : pc[t] \in {"user", "callback"}}

\* Apart from main and the running coroutine, env->callstack holds only tasks
\* that have called coroutine_new_task from inside their functions: however
\* many tasks wait in polls, and however long the thread has run, they take
\* no entry, so only a nest of about kMaxCallStack calls overruns it.
StackIsNesting == Len(callstack) <= Cardinality(Nested) + 2

\* coroutine_new_task fails exactly when every task of the pool is busy:
\* neither of new_task's two tests refuses a caller while a task waits.
RefusedOnlyWhenBusy ==
  CanCall => (Full <=> \A t \in Tasks : tstate[t] = "TASK_RUNNING")

\* The timeout callback runs only for a task whose current execution timed
\* out, so never for one without a limit, whatever ran on it before.
CallbackOnlyAfterTimeout ==
  \A t \in Tasks :
    /\ timeout[t] => attr[t].max_timeout_ms # -1
    /\ pc[t] = "callback" => timeout[t]

=============================================================================
