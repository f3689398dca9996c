-------------------------- MODULE SchedulerProofs ---------------------------
(***************************************************************************)
(* Theorems about Scheduler.  The invariants of TaskPool and EventLoop     *)
(* carry over, because every step of a thread is a step of its pool and of *)
(* its loop, or leaves them alone; with them the steps preserve the        *)
(* invariant of the polls (SchedulerSteps) and, first here, the accounts   *)
(* of the limits.                                                          *)
(***************************************************************************)
EXTENDS SchedulerSteps

-----------------------------------------------------------------------------
(***************************************************************************)
(* The limits of the tasks, for a clock that is not set back.              *)
(***************************************************************************)

\* Task t, started while the loop runs, has a limit to use up.
UnderLimit(t) == Limited(t) /\ dated[t] /\ tstate[t] = "TASK_RUNNING" /\ ~timeout[t]

\* An int holds the time since such a task was last charged.  The readings of
\* the clock themselves need not fit.
SpanFits == \A t \in Tasks : UnderLimit(t) => now - last[t] < IntHalf

\* What is left of its limit is no more than the limit less the time from its
\* start to its last poll; something is left of it, or it has not polled yet
\* and runs in the iteration of the loop that it was started in.
Charged(t) ==
  /\ leftmsec[t] + last[t] - started[t] <= attr[t].max_timeout_ms
  /\ last[t] <= now
  /\ leftmsec[t] > 0 \/ (last[t] = now /\ pc[t] # "poll")

LimitInv ==
  /\ now <= clock
  /\ now = 0 => phase = "app"
  /\ \A t \in Tasks : UnderLimit(t) => Charged(t)

\* The values that the limits are computed from.
LEMMA LimitTypes ==
  ASSUME IInv
  PROVE  /\ now \in Clock \cup {0} /\ clock \in Clock /\ now \in Int /\ clock \in Int
         /\ Clock \subseteq Int /\ \A c \in Clock : c > 0
         /\ \A t \in Tasks :
              /\ leftmsec[t] \in -IntHalf..(IntHalf - 1) /\ leftmsec[t] \in Int
              /\ last[t] \in Clock \cup {0} /\ last[t] \in Int
              /\ started[t] \in Int
              /\ attr[t].max_timeout_ms \in Int
<1>1. Clock \subseteq Int /\ \A c \in Clock : c > 0
  BY LoopAssumption
<1>2. now \in Clock \cup {0} /\ clock \in Clock
  BY DEF IInv, LoopInv, Loop!TypeOK
<1>3. attr \in [Tasks -> [max_timeout_ms : Int, timeout : BOOLEAN]]
  BY PoolFacts DEF IInv
<1>4. ASSUME NEW t \in Tasks
      PROVE  /\ leftmsec[t] \in -IntHalf..(IntHalf - 1) /\ leftmsec[t] \in Int
             /\ last[t] \in Clock \cup {0} /\ last[t] \in Int
             /\ started[t] \in Int
  <2>1. leftmsec[t] \in -IntHalf..(IntHalf - 1)
    BY DEF IInv, OwnTypes
  <2>2. last[t] \in Clock \cup {0} /\ started[t] \in Clock \cup {0}
    BY DEF IInv, OwnTypes
  <2>3. -IntHalf..(IntHalf - 1) \subseteq Int
    BY IntAssumption
  <2>4. Clock \cup {0} \subseteq Int
    BY <1>1
  <2> QED
    BY <2>1, <2>2, <2>3, <2>4
<1> QED
  BY <1>1, <1>2, <1>3, <1>4

\* A value that fits an int is not changed by the conversion.
LEMMA IntExact ==
  ASSUME NEW n \in -IntHalf..(IntHalf - 1)
  PROVE  ToInt(n) = n
<1>1. PICK k \in Nat : k = 2 * IntHalf /\ k > 0
  BY IntAssumption
<1>2. n + IntHalf \in 0..(k - 1)
  BY <1>1, IntAssumption
<1>3. (n + IntHalf) % k = n + IntHalf
  BY <1>1, <1>2
<1> QED
  BY <1>1, <1>3, IntAssumption DEF ToInt

\* fix_coroutine_timeout charges a task that is under its limit for the time
\* since its last poll, exactly.
LEMMA LeftExact ==
  ASSUME IInv, LimitInv, SpanFits, NEW t \in Tasks, UnderLimit(t)
  PROVE  Left(t) = leftmsec[t] - (now - last[t])
<1>1. Charged(t)
  BY DEF LimitInv
<1>2. CASE last[t] = now
  <2>1. now - last[t] = 0 /\ 0 \in -IntHalf..(IntHalf - 1)
    BY <1>2, LimitTypes, IntAssumption
  <2>2. ToInt(now - last[t]) = 0
    BY <2>1, IntExact
  <2> QED
    BY <2>1, <2>2, LimitTypes, IntExact DEF Left
<1>3. CASE last[t] # now
  <2>1. leftmsec[t] > 0 /\ last[t] < now
    BY <1>1, <1>3, LimitTypes DEF Charged
  <2>2. now - last[t] < IntHalf
    BY DEF SpanFits
  <2>3. now - last[t] \in -IntHalf..(IntHalf - 1)
    BY <2>1, <2>2, LimitTypes, IntAssumption
  <2>4. leftmsec[t] - (now - last[t]) \in -IntHalf..(IntHalf - 1)
    BY <2>1, <2>2, LimitTypes, IntAssumption
  <2> QED
    BY <2>3, <2>4, IntExact DEF Left
<1> QED
  BY <1>2, <1>3

\* A step that charges nobody and does not touch the cached clock.
LEMMA LimitFrame ==
  ASSUME IInv, LimitInv,
         UNCHANGED <<limitVars, now>>, clock' \in Clock, clock' >= clock,
         phase' = phase \/ phase # "app",
         \A t \in Tasks : UnderLimit(t)' =>
           /\ UnderLimit(t) /\ attr'[t] = attr[t]
           /\ pc'[t] = "poll" => pc[t] = "poll"
  PROVE  LimitInv'
<1>1. UNCHANGED <<leftmsec, last, started, dated, now>>
  BY DEF limitVars
<1>2. now' <= clock' /\ (now' = 0 => phase' = "app")
  BY <1>1, LimitTypes DEF LimitInv
<1>3. ASSUME NEW t \in Tasks, UnderLimit(t)'
      PROVE  Charged(t)'
  BY <1>1, <1>3 DEF LimitInv, Charged
<1> QED
  BY <1>2, <1>3 DEF LimitInv

\* The types of the tasks' states and flags.
LEMMA StateTypes ==
  ASSUME IInv
  PROVE  /\ tstate \in [Tasks -> {"none", "TASK_RUNNING", "TASK_WAITING"}]
         /\ timeout \in [Tasks -> BOOLEAN]
         /\ pc \in [Tasks -> {"none", "loop", "user", "callback", "poll"}]
         /\ attr \in [Tasks -> [max_timeout_ms : Int, timeout : BOOLEAN]]
BY PoolFacts DEF IInv, PoolInv, Pool!TypeOK, Pool!Tasks, Tasks

\* No step of the pool starts a task or makes it poll.
LEMMA PoolStepTasks ==
  ASSUME IInv, PoolStep, NEW t \in Tasks
  PROVE  /\ attr'[t] = attr[t] /\ timeout'[t] = timeout[t]
         /\ tstate'[t] = "TASK_RUNNING" => tstate[t] = "TASK_RUNNING"
         /\ pc'[t] = "poll" => pc[t] = "poll"
<1>1. CASE Pool!CreateTask
  <2>1. PICK c \in Tasks : c = created + 1
    BY <1>1, PoolFacts, PoolAssumption DEF IInv, Pool!CreateTask, Tasks
  <2> QED
    BY <1>1, <2>1, StateTypes DEF Pool!CreateTask, Pool!Resume
<1>2. CASE Pool!PoolReady \/ Pool!NewTaskRefused
  BY <1>2 DEF Pool!PoolReady, Pool!NewTaskRefused, Pool!vars, Pool!taskVars
<1>3. CASE \E u \in Tasks : Pool!TaskWait(u) \/ Pool!TaskRun(u)
  BY <1>3, StateTypes DEF Pool!TaskWait, Pool!TaskRun, Pool!taskVars
<1>4. CASE \E u \in Tasks :
             Pool!FunReturn(u) \/ Pool!FunReturnTimedOut(u) \/ Pool!CallbackReturn(u)
  BY <1>4, StateTypes DEF Pool!FunReturn, Pool!FunReturnTimedOut, Pool!CallbackReturn,
              Pool!Release, Pool!taskVars
<1> QED
  BY <1>1, <1>2, <1>3, <1>4 DEF PoolStep

\* So a task that is under its limit after such a step was so before.
LEMMA PoolStepLimits == ASSUME IInv, LimitInv, PoolStep PROVE LimitInv'
<1>1. UNCHANGED <<limitVars, now, clock, phase>>
  BY DEF PoolStep, loopVars
<1> QED
  BY <1>1, PoolStepTasks, LimitFrame, LimitTypes DEF UnderLimit, Limited, limitVars

\* The polls that neither charge nor suspend, the environment and a return.
LEMMA QuietLimits ==
  ASSUME IInv, LimitInv, MayStepBack = FALSE,
         \/ \E t \in Tasks : PollRefused(t) \/ PollReturn(t)
         \/ \E f \in Fds : Close(f) \/ DataArrives(f)
         \/ Tick \/ SetBack \/ UNCHANGED vars
  PROVE  LimitInv'
<1>1. UNCHANGED <<limitVars, now, phase, tstate, attr, timeout>>
  BY ZenonT(30) DEF PollRefused, PollReturn, Pool!PollReturn, Pool!taskVars, Close, DataArrives,
         Tick, SetBack, vars, poolVars, loopVars, Loop!Advance, Loop!StepBack, Loop!TickTo
<1>2. clock' \in Clock /\ clock' >= clock
  <2>1. clock' = clock \/ Loop!Advance
    BY DEF PollRefused, PollReturn, Close, DataArrives, Tick, SetBack, vars, loopVars,
           Loop!StepBack
  <2> QED
    BY <2>1, LimitTypes DEF Loop!Advance, Loop!TickTo
<1>3. \A t \in Tasks : pc'[t] = "poll" => pc[t] = "poll"
  BY StateTypes DEF PollRefused, PollReturn, Pool!PollReturn, Close, DataArrives, Tick, SetBack,
         vars, poolVars
<1> QED
  BY <1>1, <1>2, <1>3, LimitFrame DEF UnderLimit, Limited, limitVars

\* The steps of the loop that do not read the clock.
LEMMA LoopLimits ==
  ASSUME IInv, LimitInv,
         \/ EpollWait \/ Take
         \/ \E f \in Fds, t \in Tasks : Prepare(f, t)
         \/ \E t \in Tasks : Wake(t)
  PROVE  LimitInv'
<1>1. UNCHANGED <<limitVars, now, clock, tstate, attr, timeout>>
  BY ZenonT(30) DEF EpollWait, Take, Prepare, Wake, poolVars, loopVars, Loop!Detach,
         Loop!TakeSlot, Loop!TakeEnd, Loop!Drained, Loop!PopHead
<1>2. phase' = phase \/ phase # "app"
  BY ZenonT(30) DEF EpollWait, Take, Prepare, Wake, loopVars, Loop!Detach,
         Loop!TakeSlot, Loop!TakeEnd, Loop!Drained, Loop!PopHead
<1>3. \A t \in Tasks : pc'[t] = "poll" => pc[t] = "poll"
  <2>1. CASE EpollWait \/ Take \/ \E f \in Fds, t \in Tasks : Prepare(f, t)
    BY <2>1, ZenonT(30) DEF EpollWait, Take, Prepare, poolVars
  <2>2. CASE \E t \in Tasks : Wake(t)
    BY <2>2, StateTypes DEF Wake, Pool!Resume
  <2> QED
    BY <2>1, <2>2
<1> QED
  BY <1>1, <1>2, <1>3, LimitFrame, LimitTypes DEF UnderLimit, Limited, limitVars

\* A new task has its whole limit left; its last poll counts as now.
LEMMA NewTaskLimits == ASSUME IInv, LimitInv, NEW a \in Attrs, NewTask(a) PROVE LimitInv'
<1>1. PICK c \in Tasks : pc[c] = "loop" /\ c = Head(free)
  BY PoolFacts DEF IInv, NewTask, Pool!NewTask, Pool!Full
<1>2. UNCHANGED <<now, clock, phase, pc>>
  <2>1. UNCHANGED <<now, clock, phase>>
    BY DEF NewTask, loopVars
  <2> QED
    BY <1>1, <2>1, PoolFacts DEF IInv, NewTask, Pool!NewTask, Pool!Resume
<1>3. /\ tstate' = [tstate EXCEPT ![c] = "TASK_RUNNING"]
      /\ attr' = [attr EXCEPT ![c] = a]
      /\ timeout' = [timeout EXCEPT ![c] = FALSE]
      /\ leftmsec' = [leftmsec EXCEPT ![c] = a.max_timeout_ms]
      /\ last' = [last EXCEPT ![c] = now]
      /\ started' = [started EXCEPT ![c] = IF a.max_timeout_ms = -1 THEN 0 ELSE clock]
      /\ dated' = [dated EXCEPT ![c] = a.max_timeout_ms # -1 /\ now # 0]
  BY <1>1 DEF NewTask, Pool!NewTask, Pool!ClearTimeout
<1>4. ASSUME NEW t \in Tasks, UnderLimit(t)'
      PROVE  Charged(t)'
  <2>1. CASE t = c
    <3>1. /\ attr'[t] = a /\ a.max_timeout_ms # -1
          /\ leftmsec'[t] = a.max_timeout_ms /\ last'[t] = now /\ started'[t] = clock
      BY <1>3, <1>4, <2>1, StateTypes DEF UnderLimit, Limited, IInv, OwnTypes
    <3>2. a.max_timeout_ms \in Int
      BY IntAssumption
    <3>3. a.max_timeout_ms + now - clock <= a.max_timeout_ms
      BY <3>2, LimitTypes DEF LimitInv
    <3> QED
      BY <1>1, <1>2, <2>1, <3>1, <3>3, LimitTypes DEF Charged
  <2>2. CASE t # c
    <3>1. /\ attr'[t] = attr[t] /\ timeout'[t] = timeout[t] /\ tstate'[t] = tstate[t]
          /\ leftmsec'[t] = leftmsec[t] /\ last'[t] = last[t] /\ started'[t] = started[t]
          /\ dated'[t] = dated[t]
      BY <1>3, <2>2, StateTypes DEF IInv, OwnTypes
    <3>2. Charged(t)
      BY <1>4, <3>1 DEF UnderLimit, Limited, LimitInv
    <3> QED
      BY <1>2, <3>1, <3>2 DEF Charged
  <2> QED
    BY <2>1, <2>2
<1> QED
  BY <1>2, <1>4 DEF LimitInv

\* fix_coroutine_timeout: what is left and the time of the last poll move
\* together, and the task is marked when nothing is left.
LEMMA ChargeLimits ==
  ASSUME IInv, LimitInv, SpanFits, NEW t \in Tasks, Charge(t),
         UNCHANGED <<now, clock, phase, tstate, attr>>,
         \A u \in Tasks : timeout[u] => timeout'[u],
         OutOfTime(t) => timeout'[t],
         \A u \in Tasks : u # t /\ pc'[u] = "poll" => pc[u] = "poll"
  PROVE  LimitInv'
<1>1. ASSUME NEW u \in Tasks, UnderLimit(u)'
      PROVE  Charged(u)'
  <2>1. UnderLimit(u) /\ Charged(u) /\ attr'[u] = attr[u] /\ started'[u] = started[u]
    BY <1>1 DEF UnderLimit, Limited, LimitInv, Charge
  <2>2. CASE u = t
    <3>1. leftmsec'[t] = Left(t) /\ last'[t] = now /\ Left(t) > 0
      <4>1. Limited(t) /\ ~OutOfTime(t)
        BY <1>1, <2>1, <2>2 DEF UnderLimit
      <4>2. Left(t) > 0
        BY <4>1, LeftRange, IntAssumption DEF OutOfTime, IInv
      <4> QED
        BY <4>1, <4>2 DEF Charge, StoreLeft, IInv, OwnTypes
    <3>2. Left(t) = leftmsec[t] - (now - last[t])
      BY <2>1, <2>2, LeftExact
    <3>3. leftmsec'[t] + last'[t] - started'[t] <= attr'[t].max_timeout_ms
      <4>1. leftmsec[t] + last[t] - started[t] <= attr[t].max_timeout_ms
        BY <2>1, <2>2 DEF Charged
      <4>2. /\ now \in Int /\ leftmsec[t] \in Int /\ last[t] \in Int /\ started[t] \in Int
            /\ attr[t].max_timeout_ms \in Int
        BY LimitTypes, Zenon
      <4> QED
        BY <2>1, <2>2, <3>1, <3>2, <4>1, <4>2
    <3> QED
      BY <2>2, <3>1, <3>3, LimitTypes DEF Charged
  <2>3. CASE u # t
    <3>1. leftmsec'[u] = leftmsec[u] /\ last'[u] = last[u]
      BY <2>3 DEF Charge, StoreLeft, IInv, OwnTypes
    <3> QED
      BY <2>1, <2>3, <3>1 DEF Charged
  <2> QED
    BY <2>2, <2>3
<1> QED
  BY <1>1 DEF LimitInv

\* The polls that charge.
LEMMA PollLimits ==
  ASSUME IInv, LimitInv, SpanFits, NEW t \in Tasks,
         \/ PollTimesOut(t)
         \/ \E f \in Fds : PollPlain(t, f)
         \/ \E F \in SUBSET Fds, ms \in PollTimeouts :
              PollInvalid(t, F, ms) \/ PollSuspends(t, F, ms)
  PROVE  LimitInv'
<1>1. CASE PollTimesOut(t)
  <2>1. /\ Charge(t) /\ timeout' = [timeout EXCEPT ![t] = TRUE]
        /\ UNCHANGED <<now, clock, phase, tstate, attr, pc>>
    BY <1>1, ZenonT(30) DEF PollTimesOut, Pool!UserTimesOut, loopVars
  <2>2. timeout'[t] /\ \A u \in Tasks : timeout[u] => timeout'[u]
    BY <2>1, StateTypes
  <2> QED
    BY <2>1, <2>2, ChargeLimits, ZenonT(30)
<1>2. CASE \/ \E f \in Fds : PollPlain(t, f)
           \/ \E F \in SUBSET Fds, ms \in PollTimeouts : PollInvalid(t, F, ms)
  <2>1. /\ Charge(t) /\ ~OutOfTime(t)
        /\ UNCHANGED <<now, clock, phase, tstate, attr, timeout, pc>>
    BY <1>2, ZenonT(30) DEF PollPlain, PollInvalid, poolVars, loopVars
  <2> QED
    BY <2>1, ChargeLimits, ZenonT(30)
<1>3. ASSUME NEW F \in SUBSET Fds, NEW ms \in PollTimeouts, PollSuspends(t, F, ms)
      PROVE  LimitInv'
  <2>1. /\ Charge(t) /\ ~OutOfTime(t)
        /\ UNCHANGED <<now, clock, phase, tstate, attr, timeout>>
        /\ pc' = [pc EXCEPT ![t] = "poll"]
    BY <1>3, ZenonT(30) DEF PollSuspends, Pool!UserPoll, Pool!taskVars, Loop!AddTimeout
  <2>2. \A u \in Tasks : u # t /\ pc'[u] = "poll" => pc[u] = "poll"
    BY <2>1, StateTypes
  <2> QED
    BY <2>1, <2>2, ChargeLimits, ZenonT(30)
<1> QED
  BY <1>1, <1>2, <1>3

\* While main runs, every started task waits in a poll.
LEMMA AllPoll ==
  ASSUME IInv, Pool!Top = Pool!Main
  PROVE  \A t \in Tasks : tstate[t] = "TASK_RUNNING" => pc[t] = "poll"
<1> SUFFICES ASSUME NEW t \in Tasks, tstate[t] = "TASK_RUNNING", pc[t] # "poll" PROVE FALSE
  OBVIOUS
<1> USE DEF Tasks, Pool!Tasks
<1>1. t # 0 /\ Pool!Top = 0
  BY PoolAssumption DEF Pool!Main
<1>2. pc[t] \in {"user", "callback"}
  <2>1. pc[t] # "none"
    BY DEF IInv, PoolInv, Pool!ControlSound
  <2>2. pc[t] # "loop"
    BY <1>1 DEF IInv, PoolInv, Pool!ControlSound, Pool!Handoff
  <2> QED
    BY <2>1, <2>2, StateTypes
<1>3. PICK k \in DOMAIN callstack : callstack[k] = t
  <2>1. t \in Pool!Range(callstack)
    BY <1>2 DEF IInv, PoolInv, Pool!ControlSound
  <2> QED
    BY <2>1 DEF Pool!Range
<1>4. PICK n \in Nat : n = Len(callstack) /\ n >= 1
  BY PoolFacts DEF IInv
<1>5. /\ callstack[1] = 0 /\ callstack[n] = 0 /\ DOMAIN callstack = 1..n
      /\ \A j, m \in 1..n : callstack[j] = callstack[m] => j = m
  BY <1>1, <1>4, PoolFacts DEF IInv, Pool!Top
<1>6. n = 1
  BY <1>4, <1>5
<1> QED
  BY <1>1, <1>3, <1>5, <1>6

\* The two steps that read the clock: every task under its limit has polled,
\* so something is left of its limit.
LEMMA ReadClockLimits ==
  ASSUME IInv, LimitInv, StartLoop \/ TakeBegin
  PROVE  LimitInv'
<1>1. /\ Pool!Top = Pool!Main
      /\ now' = clock /\ clock' = clock /\ phase' # "app" /\ UNCHANGED limitVars
      /\ UNCHANGED <<tstate, attr, timeout, pc>>
  BY DEF StartLoop, TakeBegin, InLoop, Pool!StartLoop, Pool!taskVars, Loop!StartLoop,
         Loop!TakeBegin, poolVars
<1>2. now' <= clock' /\ now' # 0
  BY <1>1, LimitTypes
<1>3. ASSUME NEW t \in Tasks, UnderLimit(t)'
      PROVE  Charged(t)'
  <2>1. UnderLimit(t) /\ Charged(t) /\ pc[t] = "poll"
    BY <1>1, <1>3, AllPoll DEF UnderLimit, Limited, LimitInv, limitVars
  <2>2. leftmsec'[t] = leftmsec[t] /\ last'[t] = last[t] /\ started'[t] = started[t]
    BY <1>1 DEF limitVars
  <2>3. last[t] <= now /\ now <= clock /\ leftmsec[t] > 0
    BY <2>1, LimitTypes DEF Charged, LimitInv
  <2>4. last[t] <= clock
    BY <2>3, LimitTypes
  <2>5. leftmsec[t] + last[t] - started[t] <= attr[t].max_timeout_ms
    BY <2>1 DEF Charged
  <2> QED
    BY <1>1, <2>2, <2>3, <2>4, <2>5, Zenon DEF Charged
<1> QED
  BY <1>1, <1>2, <1>3 DEF LimitInv

\* Initially no task is started.
LEMMA InitLimits == Init => LimitInv
<1> SUFFICES ASSUME Init PROVE LimitInv
  OBVIOUS
<1>1. now = 0 /\ clock \in Clock /\ phase = "app"
  BY DEF Init, Loop!Init
<1>2. \A t \in Tasks : tstate[t] = "none"
  BY DEF Init, Pool!Init, Pool!Tasks, Tasks
<1> QED
  BY <1>1, <1>2, LoopAssumption DEF LimitInv, UnderLimit

\* Every step keeps the accounts of the limits.
LEMMA StepLimits ==
  ASSUME IInv, LimitInv, [Next]_vars, MayStepBack = FALSE, SpanFits
  PROVE  LimitInv'
BY PoolStepLimits, QuietLimits, LoopLimits, NewTaskLimits, PollLimits, ReadClockLimits, ZenonT(30)
   DEF Next, LoopStep, Polls

\* Only poll_inner makes a task poll.
LEMMA PollBegins ==
  ASSUME IInv, [Next]_vars, NEW t \in Tasks, pc[t] # "poll", pc'[t] = "poll"
  PROVE  \E F \in SUBSET Fds, ms \in PollTimeouts : PollSuspends(t, F, ms)
<1> SUFFICES ASSUME \A F \in SUBSET Fds, ms \in PollTimeouts : ~PollSuspends(t, F, ms)
             PROVE  FALSE
  OBVIOUS
<1>1. ~PoolStep
  BY PoolStepTasks
<1>2. \A a \in Attrs : ~NewTask(a)
  <2> SUFFICES ASSUME NEW a \in Attrs, NewTask(a) PROVE FALSE
    OBVIOUS
  <2>1. pc' = pc
    BY PoolFacts DEF IInv, NewTask, Pool!NewTask, Pool!Full, Pool!Resume
  <2> QED
    BY <2>1
<1>3. ~LoopStep
  <2>1. \A u \in Tasks : ~Wake(u)
    BY StateTypes DEF Wake, Pool!Resume
  <2> QED
    BY <2>1, ZenonT(30) DEF LoopStep, StartLoop, Pool!StartLoop, EpollWait, TakeBegin, Take,
           Prepare, poolVars
<1>4. \A u \in Tasks : ~PollReturn(u)
  BY StateTypes DEF PollReturn, Pool!PollReturn
<1>5. \A u \in Tasks : ~Polls(u)
  <2> SUFFICES ASSUME NEW u \in Tasks, Polls(u) PROVE FALSE
    OBVIOUS
  <2>1. PICK F \in SUBSET Fds, ms \in PollTimeouts : PollSuspends(u, F, ms)
    BY ZenonT(30) DEF Polls, PollTimesOut, Pool!UserTimesOut, PollRefused, PollPlain,
           PollInvalid, vars, poolVars
  <2>2. u # t
    BY <2>1, Zenon
  <2> QED
    BY <2>1, <2>2, StateTypes DEF PollSuspends, Pool!UserPoll
<1> QED
  BY <1>1, <1>2, <1>3, <1>4, <1>5 DEF Next, Close, DataArrives, Tick, SetBack, vars, poolVars

\* A poll that suspends its task finds something left of the limit, so the
\* loop's clock has not reached the end of it.
LEMMA SuspendInTime ==
  ASSUME IInv, LimitInv, SpanFits, [Next]_vars
  PROVE  \A t \in Tasks :
           Limited(t) /\ dated[t] /\ pc[t] = "user" /\ pc'[t] = "poll" =>
             now - started[t] < attr[t].max_timeout_ms
<1> SUFFICES ASSUME NEW t \in Tasks, Limited(t), dated[t], pc[t] = "user", pc'[t] = "poll"
             PROVE  now - started[t] < attr[t].max_timeout_ms
  OBVIOUS
<1>1. ~OutOfTime(t) /\ ~timeout[t]
  BY PollBegins DEF PollSuspends, Pool!UserPoll
<1>2. tstate[t] = "TASK_RUNNING"
  BY DEF IInv, PoolInv, Pool!ControlSound, Pool!Busy, Pool!Tasks, Tasks
<1>3. UnderLimit(t) /\ Charged(t)
  BY <1>1, <1>2, Zenon DEF UnderLimit, LimitInv
<1>4. Left(t) > 0 /\ Left(t) = leftmsec[t] - (now - last[t])
  BY <1>1, <1>3, LeftExact, LeftRange, IntAssumption DEF OutOfTime, IInv
<1>5. leftmsec[t] + last[t] - started[t] <= attr[t].max_timeout_ms
  BY <1>3 DEF Charged
<1>6. /\ now \in Int /\ leftmsec[t] \in Int /\ last[t] \in Int /\ started[t] \in Int
      /\ attr[t].max_timeout_ms \in Int
  BY LimitTypes, Zenon
<1> QED
  BY <1>4, <1>5, <1>6

-----------------------------------------------------------------------------
(***************************************************************************)
(* What the two parts' proofs give.                                        *)
(***************************************************************************)

PoolP == INSTANCE TaskPoolProofs
LoopP == INSTANCE EventLoopProofs WITH Items <- Tasks, Timeouts <- FixedTimeouts

\* The assumptions of the two parts follow from those of the scheduler.
LEMMA Assumptions ==
  /\ PoolP!PoolSizeAssumption /\ PoolP!AttrsAssumption
  /\ LoopP!TimerSizeAssumption /\ LoopP!ClockAssumption
  /\ LoopP!TimeoutsAssumption /\ LoopP!StepBackAssumption
<1>1. \A ms \in FixedTimeouts : ms \in Int /\ ms <= kMaxTimeoutMs
  BY PollTimeoutsAssumption, LoopAssumption DEF FixedTimeouts
<1> QED
  BY <1>1, PoolAssumption, LoopAssumption
     DEF PoolP!PoolSizeAssumption, PoolP!AttrsAssumption,
         LoopP!TimerSizeAssumption, LoopP!ClockAssumption,
         LoopP!TimeoutsAssumption, LoopP!StepBackAssumption

\* The library's theorems on finite sets, as TaskPoolProofs has them.
LEMMA Counts ==
  /\ Counting
  /\ \A S : IsFiniteSet(S) /\ Cardinality(S) = 0 => S = {}
<1>1. \A S : (IsFiniteSet(S) <=> PoolP!IsFiniteSet(S)) /\ Cardinality(S) = PoolP!Cardinality(S)
  BY DEF IsFiniteSet, PoolP!IsFiniteSet, Cardinality, PoolP!Cardinality
<1>0. /\ PoolSize \in Nat \ {0} /\ Attrs \subseteq [max_timeout_ms : Int, timeout : BOOLEAN]
  BY PoolAssumption
<1>2. /\ IsFiniteSet({}) /\ Cardinality({}) = 0
      /\ \A S : IsFiniteSet(S) /\ Cardinality(S) = 0 => S = {}
  BY <1>0, <1>1, PoolP!FS_EmptySet, Zenon
<1>3. ASSUME NEW S, NEW x, IsFiniteSet(S), x \notin S
      PROVE  IsFiniteSet(S \cup {x}) /\ Cardinality(S \cup {x}) = Cardinality(S) + 1
  <2>1. /\ PoolP!IsFiniteSet(S \cup {x})
        /\ PoolP!Cardinality(S \cup {x}) = PoolP!Cardinality(S) + 1
    BY <1>0, <1>1, <1>3, PoolP!FS_AddElement, Zenon
  <2> QED
    BY <1>1, <2>1, Zenon
<1> QED
  BY <1>2, <1>3, Zenon DEF Counting

\* The invariants are those of TaskPoolProofs and EventLoopProofs.
LEMMA PoolInvSame == (PoolInv <=> PoolP!IInv) /\ (PoolInv <=> PoolP!IInv)'
<1>1. PoolInv <=> PoolP!IInv
  BY Zenon DEF PoolInv, PoolP!IInv, Pool!TypeOK, PoolP!TypeOK, Pool!CallStackSound,
     PoolP!CallStackSound, Pool!FreeListSound, PoolP!FreeListSound, Pool!ControlSound,
     PoolP!ControlSound, Pool!PoolAccounting, PoolP!PoolAccounting,
     Pool!CallbackOnlyAfterTimeout, PoolP!CallbackOnlyAfterTimeout, Pool!Tasks,
     PoolP!Tasks, Pool!Main, PoolP!Main, Pool!MainStates, PoolP!MainStates,
     Pool!Coroutines, PoolP!Coroutines, Pool!PcStates, PoolP!PcStates, Pool!ZeroAttr,
     PoolP!ZeroAttr, Pool!Range, PoolP!Range, Pool!Busy, PoolP!Busy, Pool!Handoff,
     PoolP!Handoff, Pool!Top, PoolP!Top, Pool!Cardinality, PoolP!Cardinality
<1> QED
  BY <1>1, PTL

\* The invariant of the loop is the one EventLoopProofs proves inductive.
LEMMA LoopInvSame == (LoopInv <=> LoopP!IInv) /\ (LoopInv <=> LoopP!IInv)'
<1>1. LoopInv <=> LoopP!IInv
  BY ZenonT(30) DEF LoopInv, LoopP!IInv, Loop!TypeOK, LoopP!TypeOK, Loop!ListsSound,
     LoopP!ListsSound,
         Loop!WheelCoherent, LoopP!WheelCoherent, Loop!SweepSound, LoopP!SweepSound,
         Loop!NeverEarly, LoopP!NeverEarly, Loop!DueOrder, LoopP!DueOrder, Loop!Lists,
         LoopP!Lists, Loop!NoList, LoopP!NoList, Loop!On, LoopP!On, Loop!Slots, LoopP!Slots,
         Loop!SlotOf, LoopP!SlotOf, Loop!Active, LoopP!Active, Loop!Timeout, LoopP!Timeout,
         Loop!SweepCount, LoopP!SweepCount, Loop!Range, LoopP!Range
<1> QED
  BY <1>1, PTL

\* The pool starts in its invariant.
LEMMA PoolInit == Pool!Init => PoolInv
<1>1. Pool!Init => PoolP!Init
  BY DEF Pool!Init, PoolP!Init, Pool!Tasks, PoolP!Tasks, Pool!Main, PoolP!Main,
         Pool!ZeroAttr, PoolP!ZeroAttr
<1> QED
  BY <1>1, PoolP!InitIInv, Assumptions, PoolInvSame

\* The loop starts in its invariant.
LEMMA LoopInit == Loop!Init => LoopInv
<1>1. Loop!Init => LoopP!Init
  BY DEF Loop!Init, LoopP!Init, Loop!Lists, LoopP!Lists, Loop!NoList, LoopP!NoList
<1> QED
  BY <1>1, LoopP!InitIInv, Assumptions, LoopInvSame

\* The two instances of EventLoop have the same actions.
LEMMA LoopArm ==
  ASSUME NEW x, NEW ms, Loop!Arm(x, ms)
  PROVE  LoopP!Arm(x, ms)
BY Zenon DEF Loop!Arm, LoopP!Arm, Loop!AddTimeout, LoopP!AddTimeout, Loop!CoroutinesRun, LoopP!CoroutinesRun,
       Loop!NoList, LoopP!NoList,
       Loop!AddTimeoutFails, LoopP!AddTimeoutFails, Loop!SlotOf, LoopP!SlotOf,
       Loop!AddTail, LoopP!AddTail, Loop!timerVars, LoopP!timerVars, Loop!takeVars, LoopP!takeVars

\* Moving an item to the active list is the same action in both instances.
LEMMA LoopPrepare == ASSUME NEW x, Loop!Prepare(x) PROVE LoopP!Prepare(x)
BY ZenonT(30) DEF Loop!Prepare, LoopP!Prepare, Loop!Detach, LoopP!Detach, Loop!Unlink, LoopP!Unlink, Loop!Active, LoopP!Active,
       Loop!NoList, LoopP!NoList, Loop!timerVars, LoopP!timerVars, Loop!takeVars, LoopP!takeVars

\* The sweep of takeAllTimeout is the same in both instances.
LEMMA LoopTake ==
  /\ Loop!TakeBegin => LoopP!TakeBegin
  /\ Loop!TakeSlot => LoopP!TakeSlot
  /\ Loop!TakeEnd => LoopP!TakeEnd
<1>1. Loop!TakeBegin => LoopP!TakeBegin
  BY DEF Loop!TakeBegin, LoopP!TakeBegin, Loop!SweepCount, LoopP!SweepCount,
       Loop!timerVars, LoopP!timerVars, Loop!itemVars, LoopP!itemVars
<1>2. Loop!TakeSlot => LoopP!TakeSlot
  BY DEF Loop!TakeSlot, LoopP!TakeSlot, Loop!Join, LoopP!Join, Loop!Timeout, LoopP!Timeout,
       Loop!timerVars, LoopP!timerVars
<1>3. Loop!TakeEnd => LoopP!TakeEnd
  BY DEF Loop!TakeEnd, LoopP!TakeEnd, Loop!Turn, LoopP!Turn, Loop!Join, LoopP!Join,
       Loop!Timeout, LoopP!Timeout, Loop!Active, LoopP!Active, Loop!timerVars, LoopP!timerVars
<1> QED
  BY <1>1, <1>2, <1>3

\* Start, pop and end of an iteration are the same in both instances.
LEMMA LoopLists ==
  /\ Loop!StartLoop => LoopP!StartLoop
  /\ Loop!Drained => LoopP!Drained
  /\ \A x : Loop!PopHead(x) => LoopP!PopHead(x)
BY DEF Loop!StartLoop, LoopP!StartLoop, Loop!PopHead, LoopP!PopHead, Loop!Drained, LoopP!Drained,
       Loop!Active, LoopP!Active, Loop!Timeout, LoopP!Timeout, Loop!NoList, LoopP!NoList,
       Loop!timerVars, LoopP!timerVars, Loop!takeVars, LoopP!takeVars

\* The clock moves in the same way in both instances.
LEMMA LoopClock ==
  /\ Loop!Advance => LoopP!Advance
  /\ Loop!StepBack => LoopP!StepBack
BY DEF Loop!Advance, LoopP!Advance, Loop!StepBack, LoopP!StepBack, Loop!TickTo, LoopP!TickTo,
       Loop!IntMax, LoopP!IntMax,
       Loop!timerVars, LoopP!timerVars, Loop!takeVars, LoopP!takeVars, Loop!itemVars, LoopP!itemVars

\* A step that leaves one instance of the loop alone leaves the other alone.
LEMMA LoopVars == UNCHANGED Loop!vars => UNCHANGED LoopP!vars
BY DEF Loop!vars, LoopP!vars,
       Loop!timerVars, LoopP!timerVars, Loop!takeVars, LoopP!takeVars, Loop!itemVars, LoopP!itemVars

\* Every step of the loop keeps its invariant.
LEMMA LoopInvStep == ASSUME LoopInv, [Loop!Next]_(Loop!vars) PROVE LoopInv'
<1>1. CASE Loop!LoopStep
  BY <1>1, LoopTake, LoopLists, LoopP!StepIInv, Assumptions, LoopInvSame
     DEF Loop!LoopStep, LoopP!Next, LoopP!LoopStep
<1>2. CASE Loop!Advance \/ Loop!StepBack
  BY <1>2, LoopClock, LoopP!StepIInv, Assumptions, LoopInvSame DEF LoopP!Next
<1>3. CASE \E x \in Tasks, ms \in FixedTimeouts : Loop!Arm(x, ms)
  BY <1>3, LoopArm, LoopP!StepIInv, Assumptions, LoopInvSame DEF LoopP!Next
<1>4. CASE \E x \in Tasks : Loop!Prepare(x)
  BY <1>4, LoopPrepare, LoopP!StepIInv, Assumptions, LoopInvSame DEF LoopP!Next
<1>5. CASE UNCHANGED Loop!vars
  BY <1>5, LoopVars, LoopP!StepIInv, Assumptions, LoopInvSame
<1> QED
  BY <1>1, <1>2, <1>3, <1>4, <1>5 DEF Loop!Next, Loop!ArmRefused

\* A step of the pool is the same in both instances.
LEMMA PoolNext == Pool!Next => PoolP!Next
BY Zenon DEF Pool!Next, PoolP!Next, Pool!MainStep, PoolP!MainStep, Pool!TaskStep,
   PoolP!TaskStep, Pool!CreateTask, PoolP!CreateTask, Pool!PoolReady, PoolP!PoolReady,
   Pool!StartLoop, PoolP!StartLoop, Pool!LoopIdle, PoolP!LoopIdle, Pool!Wake, PoolP!Wake,
   Pool!TaskWait, PoolP!TaskWait, Pool!TaskRun, PoolP!TaskRun, Pool!FunReturn,
   PoolP!FunReturn, Pool!FunReturnTimedOut, PoolP!FunReturnTimedOut, Pool!CallbackReturn,
   PoolP!CallbackReturn, Pool!UserPoll, PoolP!UserPoll, Pool!UserTimesOut,
   PoolP!UserTimesOut, Pool!PollReturn, PoolP!PollReturn, Pool!NewTask, PoolP!NewTask,
   Pool!NewTaskRefused, PoolP!NewTaskRefused, Pool!Release, PoolP!Release,
   Pool!WantsCallback, PoolP!WantsCallback, Pool!CountIn, PoolP!CountIn, Pool!CountOut,
   PoolP!CountOut, Pool!Running, PoolP!Running, Pool!Resume, PoolP!Resume, Pool!Yield,
   PoolP!Yield, Pool!TakeFree, PoolP!TakeFree, Pool!ClearTimeout, PoolP!ClearTimeout,
   Pool!CanCall, PoolP!CanCall, Pool!Full, PoolP!Full, Pool!Top, PoolP!Top, Pool!Main,
   PoolP!Main, Pool!Tasks, PoolP!Tasks, Pool!vars, PoolP!vars, Pool!poolVars, PoolP!poolVars,
   Pool!taskVars, PoolP!taskVars

\* A step that leaves one instance of the pool alone leaves the other alone.
LEMMA PoolVars == UNCHANGED Pool!vars => UNCHANGED PoolP!vars
BY DEF Pool!vars, PoolP!vars, Pool!poolVars, PoolP!poolVars, Pool!taskVars, PoolP!taskVars

\* Every step of the pool keeps its invariant.
LEMMA PoolInvStep == ASSUME PoolInv, [Pool!Next]_(Pool!vars) PROVE PoolInv'
<1>1. [PoolP!Next]_(PoolP!vars)
  BY PoolNext, PoolVars
<1> QED
  BY <1>1, PoolP!StepIInv, Assumptions, PoolInvSame

-----------------------------------------------------------------------------
(***************************************************************************)
(* The theorems.                                                           *)
(***************************************************************************)

\* The invariants of the pool, the loop and the polls hold together.
THEOREM Inductive == Spec => []IInv
<1>1. Init => IInv
  BY PoolInit, LoopInit, InitPolls DEF Init, IInv
<1>2. IInv /\ [Next]_vars => IInv'
  <2> SUFFICES ASSUME IInv, [Next]_vars PROVE IInv'
    OBVIOUS
  <2>1. PoolInv' /\ LoopInv'
    BY RefinesPool, RefinesLoop, PoolInvStep, LoopInvStep DEF IInv
  <2> QED
    BY <2>1, StepTypes, StepPolls, StepTurns, Counts DEF IInv
<1> QED
  BY <1>1, <1>2, PTL DEF Spec

\* Every variable of a thread keeps its type: what fix_coroutine_timeout
\* stores in leftmsec is an int.
THEOREM Types == Spec => []TypeOK
<1>1. IInv => TypeOK
  BY DEF IInv, PoolInv, LoopInv, OwnTypes, TypeOK
<1> QED
  BY Inductive, <1>1, PTL

\* The timer lists hold the items of exactly the suspended polls.
THEOREM Items_Live == Spec => []ItemsLive
BY Inductive, PTL DEF IInv, PollInv

\* poll_inner leaves no registration and no event behind that points into
\* the poll it returns from.
THEOREM Registrations_Live == Spec => []RegistrationsLive
BY Inductive, PTL DEF IInv, PollInv

\* poll returns the number of descriptors that have events, or 0 when its
\* time is up.
THEOREM Poll_Answers == Spec => []PollAnswer
<1>1. IInv => PollAnswer
  <2> SUFFICES ASSUME IInv, NEW t \in Tasks, pc[t] = "poll", OnStack(t)
               PROVE  /\ raise_cnt[t] = Cardinality(revents[t])
                      /\ revents[t] \subseteq fds[t]
                      /\ raise_cnt[t] = 0 => timedout[t] /\ expire[t] <= now
    BY DEF PollAnswer
  <2>1. /\ IsFiniteSet(revents[t])
        /\ raise_cnt[t] = Cardinality(revents[t])
        /\ revents[t] \subseteq fds[t]
        /\ detached[t] <=> revents[t] # {}
        /\ detached[t] \/ timedout[t]
        /\ timedout[t] => expire[t] <= now
    BY DEF IInv, PollInv, Raised
  <2>2. raise_cnt[t] = 0 => revents[t] = {}
    BY <2>1, Counts, ZenonT(30)
  <2> QED
    BY <2>1, <2>2
<1> QED
  BY Inductive, <1>1, PTL

\* A thread moves its coroutines only as TaskPool says, so all that is proved
\* of TaskPool holds of the thread.
THEOREM Implements_TaskPool == Spec => ImplementsTaskPool
<1>1. Init => Pool!Init
  BY DEF Init
<1>2. IInv /\ [Next]_vars => [Pool!Next]_(Pool!vars)
  BY RefinesPool
<1> QED
  BY Inductive, <1>1, <1>2, PTL DEF Spec, ImplementsTaskPool, Pool!Spec

\* A thread uses its timer wheel only as EventLoop says, so all that is
\* proved of EventLoop holds of the thread.
THEOREM Implements_EventLoop == Spec => ImplementsEventLoop
<1>1. Init => Loop!Init
  BY DEF Init
<1>2. IInv /\ [Next]_vars => [Loop!Next]_(Loop!vars)
  BY RefinesLoop
<1> QED
  BY Inductive, <1>1, <1>2, PTL DEF Spec, ImplementsEventLoop, Loop!Spec

\* A task's max_timeout_ms adds up over all its polls: fix_coroutine_timeout
\* lets none of them suspend the task once the loop's clock is past the limit.
\* It is so for a task that was started while the loop runs, with a clock that
\* is not set back, as long as an int holds the time since the task was last
\* charged; that the clock's readings do not fit an int does no harm.
THEOREM Limit_Enforced ==
  ASSUME MayStepBack = FALSE
  PROVE  Spec /\ []SpanFits => LimitEnforced
<1>1. Init => LimitInv
  BY InitLimits
<1>2. IInv /\ LimitInv /\ SpanFits /\ [Next]_vars => LimitInv'
  BY StepLimits, ZenonT(30)
<1>3. IInv /\ LimitInv /\ SpanFits /\ [Next]_vars =>
        [\A t \in Tasks :
           Limited(t) /\ dated[t] /\ pc[t] = "user" /\ pc'[t] = "poll" =>
             now - started[t] < attr[t].max_timeout_ms]_vars
  BY SuspendInTime
<1> QED
  BY Inductive, <1>1, <1>2, <1>3, PTL DEF Spec, LimitEnforced

=============================================================================
