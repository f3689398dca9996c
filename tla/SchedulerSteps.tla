--------------------------- MODULE SchedulerSteps ---------------------------
(***************************************************************************)
(* What one step of a thread does: it is a step of its pool and of its     *)
(* loop, or leaves them alone, and it preserves the invariant of the       *)
(* polls.                                                                  *)
(***************************************************************************)
EXTENDS Scheduler, TLAPS

\* What the steps need of finite sets (SchedulerProofs shows it): how many
\* elements no element and one more make.
Counting ==
  /\ IsFiniteSet({}) /\ Cardinality({}) = 0
  /\ \A S, x : IsFiniteSet(S) /\ x \notin S =>
       IsFiniteSet(S \cup {x}) /\ Cardinality(S \cup {x}) = Cardinality(S) + 1

\* The inductive invariants of TaskPool and of EventLoop.
PoolInv ==
  /\ Pool!TypeOK
  /\ Pool!CallStackSound
  /\ Pool!FreeListSound
  /\ Pool!ControlSound
  /\ Pool!PoolAccounting
  /\ Pool!CallbackOnlyAfterTimeout

LoopInv ==
  /\ Loop!TypeOK
  /\ Loop!ListsSound
  /\ Loop!WheelCoherent
  /\ Loop!SweepSound
  /\ Loop!NeverEarly
  /\ Loop!DueOrder

-----------------------------------------------------------------------------
(***************************************************************************)
(* Facts about one state of the loop and of the pool.                      *)
(***************************************************************************)

\* What the loop's invariant says of the types of its items and of parent.
LEMMA LoopFacts ==
  ASSUME LoopInv
  PROVE  /\ now \in Int /\ clock \in Int
         /\ parent \in [Tasks -> Int]
         /\ expire \in [Tasks -> Int]
         /\ timedout \in [Tasks -> BOOLEAN]
         /\ detached \in [Tasks -> BOOLEAN]
         /\ \A t \in Tasks :
              /\ \/ parent[t] = Loop!NoList
                 \/ parent[t] \in Loop!Slots
                 \/ parent[t] = Loop!Active
                 \/ parent[t] = Loop!Timeout
              /\ parent[t] \in Loop!Slots => ~timedout[t] /\ ~detached[t]
              /\ parent[t] = Loop!Timeout => phase = "take" /\ ~timedout[t]
              /\ parent[t] = Loop!Active => phase # "app"
              /\ parent[t] = Loop!Active /\ phase # "drain" => detached[t]
              /\ parent[t] # Loop!NoList /\ timedout[t] => expire[t] <= now
<1> USE LoopAssumption DEF Loop!NoList, Loop!Slots, Loop!Active, Loop!Timeout
<1>1. Loop!TypeOK /\ Loop!SweepSound /\ Loop!NeverEarly
  BY DEF LoopInv
<1>2. /\ now \in Int /\ clock \in Int
      /\ parent \in [Tasks -> Int]
      /\ expire \in [Tasks -> Int]
      /\ timedout \in [Tasks -> BOOLEAN]
      /\ detached \in [Tasks -> BOOLEAN]
  <2>1. Clock \cup {0} \subseteq Int /\ Loop!Lists \cup {Loop!NoList} \subseteq Int
    BY DEF Loop!Lists
  <2>2. now \in Int /\ clock \in Int
    BY <1>1, <2>1 DEF Loop!TypeOK
  <2>3. parent \in [Tasks -> Int]
    BY <1>1, <2>1 DEF Loop!TypeOK
  <2>4. expire \in [Tasks -> Int]
    BY <1>1, <2>1, ZenonT(30) DEF Loop!TypeOK
  <2> QED
    BY <1>1, <2>2, <2>3, <2>4 DEF Loop!TypeOK
<1>3. ASSUME NEW t \in Tasks
      PROVE  /\ \/ parent[t] = Loop!NoList
                \/ parent[t] \in Loop!Slots
                \/ parent[t] = Loop!Active
                \/ parent[t] = Loop!Timeout
             /\ parent[t] \in Loop!Slots => ~timedout[t] /\ ~detached[t]
             /\ parent[t] = Loop!Timeout => phase = "take" /\ ~timedout[t]
             /\ parent[t] = Loop!Active => phase # "app"
             /\ parent[t] = Loop!Active /\ phase # "drain" => detached[t]
             /\ parent[t] # Loop!NoList /\ timedout[t] => expire[t] <= now
  <2>1. parent[t] \in 0..(TimerSize + 1) \cup {-1}
    BY <1>1 DEF Loop!TypeOK, Loop!Lists
  <2>2. \/ parent[t] = Loop!NoList
        \/ parent[t] \in Loop!Slots
        \/ parent[t] = Loop!Active
        \/ parent[t] = Loop!Timeout
    BY <2>1
  <2> QED
    BY <2>2, <1>1 DEF Loop!SweepSound, Loop!NeverEarly
<1> QED
  BY <1>2, <1>3

\* The head of the active list is a task whose parent is that list.
LEMMA ActiveHead ==
  ASSUME LoopInv
  PROVE  /\ list[Loop!Active] # <<>> =>
              /\ Head(list[Loop!Active]) \in Tasks
              /\ parent[Head(list[Loop!Active])] = Loop!Active
         /\ list[Loop!Active] = <<>> => \A t \in Tasks : parent[t] # Loop!Active
<1> USE LoopAssumption DEF Loop!Active
<1>1. Loop!TypeOK /\ Loop!ListsSound
  BY DEF LoopInv
<1>2. Loop!Active \in Loop!Lists /\ list[Loop!Active] \in Seq(Tasks)
  BY <1>1 DEF Loop!TypeOK, Loop!Lists
<1>3. \A t \in Tasks : t \in Loop!Range(list[Loop!Active]) <=> parent[t] = Loop!Active
  BY <1>1, <1>2 DEF Loop!ListsSound, Loop!On
<1>4. ASSUME list[Loop!Active] # <<>>
      PROVE  /\ Head(list[Loop!Active]) \in Tasks
             /\ Head(list[Loop!Active]) \in Loop!Range(list[Loop!Active])
  <2>1. /\ 1 \in DOMAIN list[Loop!Active]
        /\ Head(list[Loop!Active]) = list[Loop!Active][1]
        /\ list[Loop!Active][1] \in Tasks
    BY <1>2, <1>4
  <2> QED
    BY <2>1 DEF Loop!Range
<1>5. list[Loop!Active] = <<>> => \A t \in Tasks : t \notin Loop!Range(list[Loop!Active])
  BY DEF Loop!Range
<1> QED
  BY <1>3, <1>4, <1>5

\* What the pool's invariant says of the call stack and of its tasks.
LEMMA PoolFacts ==
  ASSUME PoolInv
  PROVE  /\ callstack \in Seq(0..PoolSize) /\ Len(callstack) >= 1
         /\ callstack[1] = 0
         /\ \A j, k \in 1..Len(callstack) : callstack[j] = callstack[k] => j = k
         /\ \A k \in 2..(Len(callstack) - 1) : pc[callstack[k]] \in {"user", "callback"}
         /\ pc \in [Tasks -> {"none", "loop", "user", "callback", "poll"}]
         /\ costate \in [Tasks -> {"INIT", "RUNNING"}]
         /\ created \in 0..PoolSize
         /\ \A t \in Tasks : t > created => pc[t] = "none"
         /\ \A t \in Tasks : costate[t] = "INIT" <=> pc[t] = "none"
         /\ free # <<>> => Head(free) \in Tasks /\ pc[Head(free)] = "loop"
         /\ attr \in [Tasks -> [max_timeout_ms : Int, timeout : BOOLEAN]]
<1> USE PoolAssumption DEF Tasks, Pool!Tasks, Pool!Main, Pool!Coroutines
<1>1. Pool!TypeOK /\ Pool!CallStackSound /\ Pool!FreeListSound /\ Pool!ControlSound
  BY DEF PoolInv
<1>2. ASSUME free # <<>>
      PROVE  Head(free) \in Tasks /\ pc[Head(free)] = "loop"
  <2>1. /\ 1 \in DOMAIN free
        /\ Head(free) = free[1]
        /\ free[1] \in Tasks
    BY <1>1, <1>2 DEF Pool!TypeOK
  <2>2. Head(free) \in Pool!Range(free)
    BY <2>1 DEF Pool!Range
  <2> QED
    BY <1>1, <2>1, <2>2 DEF Pool!FreeListSound
<1>3. attr \in [Tasks -> [max_timeout_ms : Int, timeout : BOOLEAN]]
  <2>1. Attrs \cup {Pool!ZeroAttr} \subseteq [max_timeout_ms : Int, timeout : BOOLEAN]
    <3>1. Pool!ZeroAttr \in [max_timeout_ms : Int, timeout : BOOLEAN]
      BY DEF Pool!ZeroAttr
    <3> QED
      BY <3>1
  <2> QED
    BY <1>1, <2>1 DEF Pool!TypeOK
<1>4. /\ callstack \in Seq(0..PoolSize) /\ Len(callstack) >= 1
      /\ callstack[1] = 0
      /\ \A j, k \in 1..Len(callstack) : callstack[j] = callstack[k] => j = k
      /\ \A k \in 2..(Len(callstack) - 1) : pc[callstack[k]] \in {"user", "callback"}
  BY <1>1 DEF Pool!TypeOK, Pool!CallStackSound
<1>5. /\ pc \in [Tasks -> {"none", "loop", "user", "callback", "poll"}]
      /\ costate \in [Tasks -> {"INIT", "RUNNING"}]
      /\ created \in 0..PoolSize
  BY <1>1 DEF Pool!TypeOK, Pool!PcStates
<1>6. /\ \A t \in Tasks : t > created => pc[t] = "none"
      /\ \A t \in Tasks : costate[t] = "INIT" <=> pc[t] = "none"
  BY <1>1 DEF Pool!ControlSound
<1> QED
  BY <1>2, <1>3, <1>4, <1>5, <1>6

\* Who is on the stack after a resume and after a yield.
LEMMA Pushed ==
  ASSUME PoolInv, NEW c \in Tasks, callstack' = Append(callstack, c), NEW t
  PROVE  OnStack(t)' <=> OnStack(t) \/ t = c
<1>1. /\ callstack \in Seq(0..PoolSize) /\ Len(callstack) >= 1 /\ c \in 0..PoolSize
  BY PoolFacts, PoolAssumption DEF Tasks
<1>2. /\ Len(callstack') = Len(callstack) + 1
      /\ callstack'[Len(callstack) + 1] = c
      /\ \A k \in 1..Len(callstack) : callstack'[k] = callstack[k]
  BY <1>1
<1> QED
  BY <1>1, <1>2 DEF OnStack

\* A yield takes exactly the running coroutine off the call stack.
LEMMA Popped ==
  ASSUME PoolInv, Pool!Yield, NEW t
  PROVE  OnStack(t)' <=> OnStack(t) /\ t # Pool!Top
<1>1. /\ callstack \in Seq(0..PoolSize) /\ Len(callstack) >= 1
      /\ \A j, k \in 1..Len(callstack) : callstack[j] = callstack[k] => j = k
  BY PoolFacts
<1>2. Len(callstack') = Len(callstack) - 1
  <2>1. PICK n \in Nat : n = Len(callstack)
    BY <1>1
  <2> QED
    BY <1>1, <2>1 DEF Pool!Yield
<1>3. \A k \in 1..(Len(callstack) - 1) : callstack'[k] = callstack[k]
  BY <1>1 DEF Pool!Yield
<1> QED
  BY <1>1, <1>2, <1>3 DEF OnStack, Pool!Top

\* A coroutine inside poll that is on the call stack is the running one.
LEMMA OnTop ==
  ASSUME PoolInv
  PROVE  /\ OnStack(Pool!Top)
         /\ \A t \in Tasks : pc[t] = "poll" /\ OnStack(t) => Pool!Top = t
<1>1. OnStack(Pool!Top)
  BY PoolFacts DEF OnStack, Pool!Top
<1>2. ASSUME NEW t \in Tasks, pc[t] = "poll", OnStack(t)
      PROVE  Pool!Top = t
  <2>1. PICK k \in 1..Len(callstack) : callstack[k] = t
    BY <1>2 DEF OnStack
  <2>2. k # 1
    BY <2>1, PoolFacts, PoolAssumption DEF Tasks
  <2>3. k \notin 2..(Len(callstack) - 1)
    BY <2>1, <1>2, PoolFacts
  <2> QED
    BY <2>1, <2>2, <2>3, PoolFacts DEF Pool!Top
<1> QED
  BY <1>1, <1>2

-----------------------------------------------------------------------------
(***************************************************************************)
(* The inductive invariant.                                                *)
(***************************************************************************)

OwnTypes ==
  /\ leftmsec \in [Tasks -> -IntHalf..(IntHalf - 1)]
  /\ last \in [Tasks -> Clock \cup {0}]
  /\ started \in [Tasks -> Clock \cup {0}]
  /\ dated \in [Tasks -> BOOLEAN]
  /\ fds \in [Tasks -> SUBSET Fds]
  /\ revents \in [Tasks -> SUBSET Fds]
  /\ raise_cnt \in [Tasks -> Nat]
  /\ reg \in [Fds -> Tasks \cup {0}]
  /\ ready \subseteq Fds
  /\ waited \in BOOLEAN
  /\ events \subseteq Fds \X Tasks

\* prepare_poll_event counts every descriptor once and detaches the item with
\* the first of them, so that a poll on the active list has an event or is
\* marked as timed out, and still has when it goes on.
Raised ==
  \A t \in Tasks : pc[t] = "poll" =>
    /\ IsFiniteSet(revents[t])
    /\ raise_cnt[t] = Cardinality(revents[t])
    /\ revents[t] \subseteq fds[t]
    /\ detached[t] <=> revents[t] # {}
    /\ OnStack(t) \/ (parent[t] = Loop!Active /\ phase = "drain") =>
         detached[t] \/ timedout[t]
    /\ OnStack(t) /\ timedout[t] => expire[t] <= now

\* The events of one epoll_wait are used up in the iteration that called it,
\* each is for a descriptor its poll asked for and has not seen yet; before
\* the call no item is active.
Collected ==
  /\ waited => phase = "collect"
  /\ ~waited => events = {}
  /\ phase = "collect" /\ ~waited => \A t \in Tasks : parent[t] # Loop!Active
  /\ \A e \in events : e[1] \in fds[e[2]] \ revents[e[2]]

PollInv == ItemsLive /\ RegistrationsLive /\ Raised /\ Collected

\* The loop and the coroutines take turns: no coroutine runs while the loop
\* collects events or sweeps the wheel.
TakeTurns ==
  /\ mainpc # "loop" => phase = "app"
  /\ phase \in {"collect", "take"} => Pool!Top = Pool!Main

IInv == PoolInv /\ LoopInv /\ OwnTypes /\ PollInv /\ TakeTurns

\* No poll is in progress when the thread starts.
LEMMA InitPolls == Init => OwnTypes /\ PollInv /\ TakeTurns
<1> SUFFICES ASSUME Init PROVE OwnTypes /\ PollInv /\ TakeTurns
  OBVIOUS
<1>1. OwnTypes
  <2>1. 0 \in -IntHalf..(IntHalf - 1)
    BY IntAssumption
  <2> QED
    BY <2>1, ZenonT(30) DEF Init, OwnTypes
<1>2. \A t \in Tasks : pc[t] = "none" /\ parent[t] = Loop!NoList
  BY DEF Init, Pool!Init, Loop!Init, Pool!Tasks, Tasks
<1>3. PollInv
  BY <1>2, LoopAssumption
     DEF Init, Loop!Init, PollInv, ItemsLive, RegistrationsLive, Raised, Collected,
         Loop!NoList, Loop!Active
<1>4. TakeTurns
  BY DEF Init, Loop!Init, TakeTurns
<1> QED
  BY <1>1, <1>3, <1>4

-----------------------------------------------------------------------------
(***************************************************************************)
(* Limits: what fix_coroutine_timeout stores and returns.                  *)
(***************************************************************************)

\* A conversion to int yields an int.
LEMMA IntRange ==
  ASSUME NEW n \in Int
  PROVE  ToInt(n) \in -IntHalf..(IntHalf - 1)
<1>1. 2 * IntHalf \in Nat \ {0}
  BY IntAssumption
<1>2. (n + IntHalf) % (2 * IntHalf) \in 0..(2 * IntHalf - 1)
  BY <1>1, IntAssumption
<1> QED
  BY <1>2, IntAssumption DEF ToInt

\* What fix_coroutine_timeout computes as left fits an int.
LEMMA LeftRange ==
  ASSUME LoopInv, OwnTypes, NEW t \in Tasks
  PROVE  Left(t) \in -IntHalf..(IntHalf - 1)
<1>1. leftmsec[t] \in Int /\ now \in Int /\ last[t] \in Int
  <2>1. leftmsec[t] \in -IntHalf..(IntHalf - 1) /\ last[t] \in Clock \cup {0}
    BY DEF OwnTypes
  <2>2. Clock \cup {0} \subseteq Int
    BY LoopAssumption
  <2> QED
    BY <2>1, <2>2, LoopFacts, IntAssumption
<1>2. ToInt(now - last[t]) \in Int
  BY <1>1, IntRange, IntAssumption
<1> QED
  BY <1>1, <1>2, IntRange DEF Left

\* The cached clock is 0 or a reading of the clock.
LEMMA NowRange == LoopInv => now \in Clock \cup {0}
BY DEF LoopInv, Loop!TypeOK

\* Charging a task for the time since its last poll keeps the types.
LEMMA ChargeTypes ==
  ASSUME LoopInv, OwnTypes, NEW t \in Tasks, Charge(t)
  PROVE  /\ leftmsec' \in [Tasks -> -IntHalf..(IntHalf - 1)]
         /\ last' \in [Tasks -> Clock \cup {0}]
         /\ started' \in [Tasks -> Clock \cup {0}]
         /\ dated' \in [Tasks -> BOOLEAN]
BY LeftRange, NowRange DEF OwnTypes, Charge, StoreLeft

\* A poll that is not refused arms its item with a timeout the wheel takes.
LEMMA FixRange ==
  ASSUME PoolInv, LoopInv, OwnTypes, NEW t \in Tasks, NEW ms \in PollTimeouts, ~OutOfTime(t)
  PROVE  Fix(t, ms) \in FixedTimeouts
<1>1. Left(t) \in Int /\ ms \in Int /\ kMaxTimeoutMs \in Nat
  BY LeftRange, IntAssumption, PollTimeoutsAssumption, LoopAssumption
<1>2. CASE Limited(t) /\ (ms = -1 \/ ms > Left(t))
  <2>1. Left(t) > 0
    BY <1>1, <1>2 DEF OutOfTime
  <2> QED
    BY <1>1, <1>2, <2>1 DEF Fix, FixedTimeouts
<1>3. CASE ~(Limited(t) /\ (ms = -1 \/ ms > Left(t)))
  BY <1>1, <1>3 DEF Fix, FixedTimeouts
<1> QED
  BY <1>2, <1>3

-----------------------------------------------------------------------------
(***************************************************************************)
(* A thread implements its pool and its loop.                              *)
(***************************************************************************)

\* process_poll_event resumes a task that waits in a poll.
LEMMA WakePoll ==
  ASSUME IInv, NEW t \in Tasks, Wake(t)
  PROVE  pc[t] = "poll" /\ ~OnStack(t) /\ parent[t] = Loop!Active
<1>1. parent[t] = Loop!Active
  BY ActiveHead DEF IInv, Wake, Loop!PopHead
<1> QED
  BY <1>1, LoopAssumption DEF IInv, PollInv, ItemsLive, Loop!Active, Loop!NoList

\* Variables that a step leaves alone are left alone in the instances.
LEMMA Same ==
  /\ UNCHANGED poolVars => UNCHANGED Pool!vars
  /\ UNCHANGED loopVars => UNCHANGED Loop!vars
BY DEF poolVars, loopVars, Pool!vars, Pool!poolVars, Pool!taskVars, Loop!vars, Loop!timerVars,
       Loop!takeVars, Loop!itemVars

\* Every step of a thread is a step of its task pool, or leaves it alone.
LEMMA RefinesPool == ASSUME IInv, [Next]_vars PROVE [Pool!Next]_(Pool!vars)
<1>1. CASE PoolStep
  BY <1>1 DEF PoolStep, Pool!Next, Pool!MainStep, Pool!TaskStep, Pool!Tasks, Tasks
<1>2. CASE LoopStep
  <2>1. CASE StartLoop
    BY <2>1 DEF StartLoop, Pool!Next, Pool!MainStep
  <2>2. ASSUME NEW t \in Tasks, Wake(t)
        PROVE  Pool!Next
    <3>1. Pool!Wake(t)
      BY <2>2, WakePoll DEF Wake, Pool!Wake, InLoop, Pool!poolVars, Pool!taskVars
    <3> QED
      BY <3>1 DEF Pool!Next, Pool!MainStep, Pool!Tasks, Tasks
  <2>3. CASE EpollWait \/ TakeBegin \/ Take \/ \E f \in Fds, t \in Tasks : Prepare(f, t)
    BY <2>3, Same, ZenonT(30) DEF EpollWait, TakeBegin, Take, Prepare
  <2> QED
    BY <1>2, <2>1, <2>2, <2>3 DEF LoopStep
<1>3. CASE \E a \in Attrs : NewTask(a)
  BY <1>3 DEF NewTask, Pool!Next
<1>4. ASSUME NEW t \in Tasks, Polls(t) \/ PollReturn(t)
      PROVE  [Pool!Next]_(Pool!vars)
  <2>1. CASE PollTimesOut(t) \/ PollReturn(t)
    BY <2>1 DEF PollTimesOut, PollReturn, Pool!Next, Pool!TaskStep, Pool!Tasks, Tasks
  <2>2. CASE PollRefused(t) \/ \E f \in Fds : PollPlain(t, f)
    BY <2>2, Same DEF PollRefused, PollPlain, vars
  <2>3. ASSUME NEW F \in SUBSET Fds, NEW ms \in PollTimeouts, PollInvalid(t, F, ms)
        PROVE  UNCHANGED Pool!vars
    BY <2>3, Same DEF PollInvalid
  <2>4. ASSUME NEW F \in SUBSET Fds, NEW ms \in PollTimeouts, PollSuspends(t, F, ms)
        PROVE  Pool!Next
    BY <2>4 DEF PollSuspends, Pool!Next, Pool!TaskStep, Pool!Tasks, Tasks
  <2> QED
    BY <1>4, <2>1, <2>2, <2>3, <2>4 DEF Polls
<1>5. CASE (\E f \in Fds : Close(f) \/ DataArrives(f)) \/ Tick \/ SetBack
  BY <1>5, Same DEF Close, DataArrives, Tick, SetBack
<1>6. CASE UNCHANGED vars
  BY <1>6, Same DEF vars
<1> QED
  BY <1>1, <1>2, <1>3, <1>4, <1>5, <1>6 DEF Next

\* A task that calls poll runs, so the loop does not, and has no item linked.
LEMMA PollerFree ==
  ASSUME IInv, NEW t \in Tasks, Pool!Top = t, pc[t] = "user"
  PROVE  Loop!CoroutinesRun /\ parent[t] = Loop!NoList
<1>1. Pool!Top # Pool!Main
  BY PoolAssumption DEF Tasks, Pool!Main
<1>2. phase \in {"app", "collect", "take", "drain"}
  BY DEF IInv, LoopInv, Loop!TypeOK
<1> QED
  BY <1>1, <1>2 DEF IInv, PollInv, ItemsLive, TakeTurns, Loop!CoroutinesRun

\* An event is for an item that waits in the wheel, and comes in time.
LEMMA EventWaits ==
  ASSUME IInv, NEW f \in Fds, NEW t \in Tasks, <<f, t>> \in events
  PROVE  phase = "collect" /\ parent[t] # Loop!NoList
<1>1. parent[<<f, t>>[2]] # Loop!NoList
  BY DEF IInv, PollInv, RegistrationsLive
<1> QED
  BY <1>1 DEF IInv, PollInv, Collected

\* Every step of a thread is a step of its event loop, or leaves it alone.
LEMMA RefinesLoop == ASSUME IInv, [Next]_vars PROVE [Loop!Next]_(Loop!vars)
<1>1. CASE PoolStep \/ (\E a \in Attrs : NewTask(a))
  BY <1>1, Same DEF PoolStep, NewTask
<1>2. CASE LoopStep
  <2>1. CASE StartLoop \/ TakeBegin \/ Take \/ \E t \in Tasks : Wake(t)
    BY <2>1 DEF StartLoop, TakeBegin, Take, Wake, Loop!Next, Loop!LoopStep
  <2>2. CASE EpollWait
    BY <2>2, Same DEF EpollWait
  <2>3. ASSUME NEW f \in Fds, NEW t \in Tasks, Prepare(f, t)
        PROVE  [Loop!Next]_(Loop!vars)
    BY <2>3, EventWaits, Same DEF Prepare, Loop!Prepare, Loop!Next
  <2> QED
    BY <1>2, <2>1, <2>2, <2>3 DEF LoopStep
<1>3. ASSUME NEW t \in Tasks, Polls(t) \/ PollReturn(t)
      PROVE  [Loop!Next]_(Loop!vars)
  <2>1. CASE PollTimesOut(t) \/ PollReturn(t) \/ PollRefused(t) \/ \E f \in Fds : PollPlain(t, f)
    BY <2>1, Same DEF PollTimesOut, PollReturn, PollRefused, PollPlain, vars
  <2>2. ASSUME NEW F \in SUBSET Fds, NEW ms \in PollTimeouts, PollInvalid(t, F, ms)
        PROVE  UNCHANGED Loop!vars
    BY <2>2, Same DEF PollInvalid
  <2>3. ASSUME NEW F \in SUBSET Fds, NEW ms \in PollTimeouts, PollSuspends(t, F, ms)
        PROVE  Loop!Next
    <3>1. Fix(t, ms) \in FixedTimeouts
      BY <2>3, FixRange DEF PollSuspends, IInv
    <3>2. Loop!CoroutinesRun /\ parent[t] = Loop!NoList
      BY <2>3, PollerFree DEF PollSuspends, Pool!UserPoll, Pool!Running
    <3> QED
      BY <2>3, <3>1, <3>2 DEF PollSuspends, Loop!Arm, Loop!Next
  <2> QED
    BY <1>3, <2>1, <2>2, <2>3 DEF Polls
<1>4. CASE (\E f \in Fds : Close(f) \/ DataArrives(f)) \/ Tick \/ SetBack
  BY <1>4, Same DEF Close, DataArrives, Tick, SetBack, Loop!Next
<1>5. CASE UNCHANGED vars
  BY <1>5, Same DEF vars
<1> QED
  BY <1>1, <1>2, <1>3, <1>4, <1>5 DEF Next

-----------------------------------------------------------------------------
(***************************************************************************)
(* The steps.                                                              *)
(***************************************************************************)

\* A step that moves no poll and no item, and at most takes descriptors out
\* of the epoll set.
LEMMA Frame ==
  ASSUME PollInv, OwnTypes,
         UNCHANGED <<phase, now, parent, expire, timedout, detached, pollVars, waitVars>>,
         \A f \in Fds : reg'[f] = reg[f] \/ reg'[f] = 0,
         \A t \in Tasks : pc'[t] = "poll" <=> pc[t] = "poll",
         \A t \in Tasks : pc[t] = "poll" => (OnStack(t)' <=> OnStack(t))
  PROVE  PollInv'
<1>1. /\ phase' = phase /\ now' = now /\ parent' = parent /\ expire' = expire
      /\ timedout' = timedout /\ detached' = detached /\ fds' = fds /\ revents' = revents
      /\ raise_cnt' = raise_cnt /\ waited' = waited /\ events' = events
  BY DEF pollVars, waitVars
<1>2. ItemsLive'
  BY <1>1, ZenonT(30) DEF PollInv, ItemsLive
<1>3. RegistrationsLive'
  <2>1. ASSUME NEW f \in Fds, reg'[f] # 0
        PROVE  pc'[reg'[f]] = "poll" /\ f \in fds'[reg'[f]]
    BY <1>1, <2>1 DEF PollInv, RegistrationsLive, OwnTypes
  <2>2. ASSUME NEW e \in events
        PROVE  pc'[e[2]] = "poll" /\ ~OnStack(e[2])' /\ parent'[e[2]] # Loop!NoList
    <3>1. e[2] \in Tasks
      BY DEF OwnTypes
    <3> QED
      BY <1>1, <3>1 DEF PollInv, RegistrationsLive
  <2> QED
    BY <1>1, <2>1, <2>2, ZenonT(30) DEF RegistrationsLive, Loop!NoList
<1>4. Raised'
  <2> SUFFICES ASSUME NEW t \in Tasks, pc'[t] = "poll"
               PROVE  /\ IsFiniteSet(revents[t])
                      /\ raise_cnt[t] = Cardinality(revents[t])
                      /\ revents[t] \subseteq fds[t]
                      /\ detached[t] <=> revents[t] # {}
                      /\ OnStack(t)' \/ (parent[t] = Loop!Active /\ phase = "drain") =>
                           detached[t] \/ timedout[t]
                      /\ OnStack(t)' /\ timedout[t] => expire[t] <= now
    BY <1>1 DEF Raised, Loop!Active
  <2> QED
    BY DEF PollInv, Raised
<1>5. Collected'
  BY <1>1 DEF PollInv, Collected, Loop!Active
<1> QED
  BY <1>2, <1>3, <1>4, <1>5 DEF PollInv

\* task_main and the creation of the pool do not touch polls ...
LEMMA PoolStepPolls == ASSUME IInv, PoolStep PROVE PollInv'
<1>1. /\ UNCHANGED <<phase, now, parent, expire, timedout, detached, pollVars, waitVars>>
      /\ \A f \in Fds : reg'[f] = reg[f] \/ reg'[f] = 0
  BY DEF PoolStep, loopVars, kernelVars
<1> SUFFICES /\ \A t \in Tasks : pc'[t] = "poll" <=> pc[t] = "poll"
             /\ \A t \in Tasks : pc[t] = "poll" => (OnStack(t)' <=> OnStack(t))
  BY <1>1, Frame DEF IInv
<1>2. PoolInv /\ pc \in [Tasks -> {"none", "loop", "user", "callback", "poll"}]
  BY PoolFacts DEF IInv
<1>3. CASE Pool!CreateTask
  <2> DEFINE c == created + 1
  <2>1. /\ c \in Tasks
        /\ pc[c] = "none"
        /\ callstack' = Append(callstack, c)
        /\ pc' = [pc EXCEPT ![c] = "loop"]
    BY <1>2, <1>3, PoolFacts, PoolAssumption DEF Pool!CreateTask, Pool!Resume, Tasks
  <2> HIDE DEF c
  <2> QED
    BY <1>2, <2>1, Pushed
<1>4. CASE Pool!PoolReady \/ Pool!NewTaskRefused
  BY <1>4 DEF Pool!PoolReady, Pool!NewTaskRefused, Pool!vars, OnStack
<1>5. ASSUME NEW u \in Tasks, Pool!TaskWait(u)
      PROVE  /\ \A t \in Tasks : pc'[t] = "poll" <=> pc[t] = "poll"
             /\ \A t \in Tasks : pc[t] = "poll" => (OnStack(t)' <=> OnStack(t))
  <2>1. Pool!Yield /\ Pool!Top = u /\ pc[u] = "loop" /\ pc' = pc
    BY <1>5 DEF Pool!TaskWait, Pool!Running
  <2> QED
    BY <1>2, <2>1, Popped
<1>6. ASSUME NEW u \in Tasks,
             \/ Pool!TaskRun(u)
             \/ Pool!FunReturn(u)
             \/ Pool!FunReturnTimedOut(u)
             \/ Pool!CallbackReturn(u)
      PROVE  /\ \A t \in Tasks : pc'[t] = "poll" <=> pc[t] = "poll"
             /\ \A t \in Tasks : pc[t] = "poll" => (OnStack(t)' <=> OnStack(t))
  <2>1. /\ callstack' = callstack
        /\ pc[u] # "poll"
        /\ \E v \in {"loop", "user", "callback"} : pc' = [pc EXCEPT ![u] = v]
    BY <1>6 DEF Pool!TaskRun, Pool!FunReturn, Pool!FunReturnTimedOut, Pool!CallbackReturn,
                Pool!Release
  <2> QED
    BY <1>2, <2>1 DEF OnStack
<1> QED
  BY <1>3, <1>4, <1>5, <1>6 DEF PoolStep

\* ... and new_task takes a task from the free list, which does not poll.
LEMMA NewTaskPolls == ASSUME IInv, NEW a \in Attrs, NewTask(a) PROVE PollInv'
<1>1. /\ UNCHANGED <<phase, now, parent, expire, timedout, detached, pollVars, waitVars>>
      /\ \A f \in Fds : reg'[f] = reg[f] \/ reg'[f] = 0
  BY DEF NewTask, loopVars, kernelVars
<1>2. PICK c \in Tasks : pc[c] = "loop" /\ c = Head(free)
  BY PoolFacts DEF IInv, NewTask, Pool!NewTask, Pool!Full
<1>3. callstack' = Append(callstack, c) /\ pc' = pc
  BY <1>2, PoolFacts DEF IInv, NewTask, Pool!NewTask, Pool!Resume
<1> QED
  BY <1>1, <1>2, <1>3, Frame, Pushed DEF IInv

\* A poll that does not suspend, a close, data and the clock.
LEMMA QuietPolls ==
  ASSUME IInv,
         \/ \E t \in Tasks :
              \/ PollTimesOut(t) \/ PollRefused(t)
              \/ \E f \in Fds : PollPlain(t, f)
              \/ \E F \in SUBSET Fds, ms \in PollTimeouts : PollInvalid(t, F, ms)
         \/ \E f \in Fds : Close(f) \/ DataArrives(f)
         \/ Tick \/ SetBack \/ UNCHANGED vars
  PROVE  PollInv'
<1>1. pc' = pc /\ callstack' = callstack
  BY ZenonT(30) DEF PollTimesOut, Pool!UserTimesOut, PollRefused, PollPlain,
         PollInvalid, Close, DataArrives, Tick, SetBack, vars, poolVars
<1>2. UNCHANGED <<phase, now, parent, expire, timedout, detached>>
  BY ZenonT(30) DEF PollTimesOut, PollRefused, PollPlain, PollInvalid, Close, DataArrives,
         Tick, SetBack, vars, loopVars, Loop!vars, Loop!Advance, Loop!StepBack,
         Loop!TickTo, Loop!itemVars
<1>3. UNCHANGED <<pollVars, waitVars>>
  BY ZenonT(30) DEF PollTimesOut, PollRefused, PollPlain, PollInvalid, Close, DataArrives,
         Tick, SetBack, vars, kernelVars
<1>4. \A f \in Fds : reg'[f] = reg[f] \/ reg'[f] = 0
  BY DEF PollTimesOut, PollRefused, PollPlain, PollInvalid, Close, DataArrives,
         Tick, SetBack, vars, kernelVars, Unregister, IInv, OwnTypes
<1> QED
  BY <1>1, <1>2, <1>3, <1>4, Frame DEF IInv, OnStack

\* poll_inner up to its yield: nothing pointed into the poll before, and what
\* does now is its own.
LEMMA SuspendPolls ==
  ASSUME Counting, IInv, NEW t \in Tasks, NEW F \in SUBSET Fds, NEW ms \in PollTimeouts,
         PollSuspends(t, F, ms)
  PROVE  PollInv'
<1>1. /\ Pool!Top = t /\ pc[t] = "user"
      /\ pc \in [Tasks -> {"none", "loop", "user", "callback", "poll"}]
      /\ pc' = [pc EXCEPT ![t] = "poll"]
      /\ Pool!Yield
      /\ PoolInv /\ LoopInv
  BY PoolFacts DEF IInv, PollSuspends, Pool!UserPoll, Pool!Running
<1>2. PICK s \in Int : parent' = [parent EXCEPT ![t] = s] /\ s # Loop!NoList /\ s # Loop!Active
  <2> DEFINE slot == Loop!SlotOf(clock + Fix(t, ms))
  <2>1. slot \in 0..(TimerSize - 1)
    <3>1. start_idx \in Int /\ clock \in Int /\ start \in Int
      BY <1>1, LoopAssumption DEF LoopInv, Loop!TypeOK
    <3>2. Fix(t, ms) \in Int
      <4>1. Fix(t, ms) \in FixedTimeouts
        BY FixRange DEF IInv, PollSuspends
      <4>2. \A m \in FixedTimeouts : m \in Int
        BY PollTimeoutsAssumption, LoopAssumption DEF FixedTimeouts
      <4> QED
        BY <4>1, <4>2
    <3> QED
      BY <3>1, <3>2, LoopAssumption DEF Loop!SlotOf
  <2>2. parent' = [parent EXCEPT ![t] = slot]
    BY DEF PollSuspends, Loop!AddTimeout, Loop!AddTail
  <2> HIDE DEF slot
  <2>3. slot \in Int /\ slot # Loop!NoList /\ slot # Loop!Active
    BY <2>1, LoopAssumption DEF Loop!NoList, Loop!Active
  <2> QED
    BY <2>2, <2>3, ZenonT(30)
<1>3. /\ phase' = phase /\ now' = now
      /\ \E e : expire' = [expire EXCEPT ![t] = e]
      /\ timedout' = [timedout EXCEPT ![t] = FALSE]
      /\ detached' = [detached EXCEPT ![t] = FALSE]
      /\ fds' = [fds EXCEPT ![t] = F]
      /\ revents' = [revents EXCEPT ![t] = {}]
      /\ raise_cnt' = [raise_cnt EXCEPT ![t] = 0]
      /\ waited' = waited /\ events' = events
  BY ZenonT(30) DEF PollSuspends, Loop!AddTimeout, waitVars
<1>4. \A u \in Tasks : OnStack(u)' <=> OnStack(u) /\ u # t
  BY <1>1, Popped
<1>5. \A e \in events : e[2] \in Tasks /\ e[2] # t
  BY <1>1 DEF IInv, PollInv, RegistrationsLive, OwnTypes
<1>6. /\ parent \in [Tasks -> Int] /\ expire \in [Tasks -> Int]
      /\ timedout \in [Tasks -> BOOLEAN] /\ detached \in [Tasks -> BOOLEAN]
      /\ phase # "collect"
      /\ fds \in [Tasks -> SUBSET Fds] /\ revents \in [Tasks -> SUBSET Fds]
      /\ raise_cnt \in [Tasks -> Nat] /\ reg \in [Fds -> Tasks \cup {0}]
  BY <1>1, LoopFacts, PollerFree DEF IInv, OwnTypes, Loop!CoroutinesRun
<1>7. ItemsLive'
  BY <1>1, <1>2, <1>4, <1>6 DEF IInv, PollInv, ItemsLive, Loop!NoList
<1>8. RegistrationsLive'
  <2>1. ASSUME NEW f \in Fds, reg'[f] # 0
        PROVE  pc'[reg'[f]] = "poll" /\ f \in fds'[reg'[f]]
    <3>1. CASE reg'[f] = t /\ f \in F
      BY <1>1, <1>3, <1>6, <3>1
    <3>2. CASE reg'[f] = reg[f]
      BY <1>1, <1>3, <1>6, <2>1, <3>2 DEF IInv, PollInv, RegistrationsLive
    <3> QED
      BY <3>1, <3>2 DEF PollSuspends, Register
  <2>2. ASSUME NEW e \in events
        PROVE  pc'[e[2]] = "poll" /\ ~OnStack(e[2])' /\ parent'[e[2]] # Loop!NoList
    BY <1>1, <1>2, <1>4, <1>5, <1>6 DEF IInv, PollInv, RegistrationsLive
  <2> QED
    BY <1>3, <2>1, <2>2 DEF RegistrationsLive, Loop!NoList
<1>9. Raised'
  <2> SUFFICES ASSUME NEW u \in Tasks, pc'[u] = "poll"
               PROVE  /\ IsFiniteSet(revents'[u])
                      /\ raise_cnt'[u] = Cardinality(revents'[u])
                      /\ revents'[u] \subseteq fds'[u]
                      /\ detached'[u] <=> revents'[u] # {}
                      /\ OnStack(u)' \/ (parent'[u] = Loop!Active /\ phase' = "drain") =>
                           detached'[u] \/ timedout'[u]
                      /\ OnStack(u)' /\ timedout'[u] => expire'[u] <= now'
    BY ZenonT(30) DEF Raised, Loop!Active
  <2>1. CASE u = t
    <3>1. revents'[u] = {} /\ raise_cnt'[u] = 0 /\ detached'[u] = FALSE
      BY <1>3, <1>6, <2>1
    <3>2. ~OnStack(u)' /\ parent'[u] # Loop!Active
      BY <1>2, <1>4, <1>6, <2>1
    <3> QED
      BY <3>1, <3>2, ZenonT(30) DEF Counting
  <2>2. CASE u # t
    <3>1. /\ pc[u] = "poll" /\ revents'[u] = revents[u] /\ raise_cnt'[u] = raise_cnt[u]
          /\ fds'[u] = fds[u] /\ parent'[u] = parent[u] /\ expire'[u] = expire[u]
          /\ (OnStack(u)' <=> OnStack(u))
      BY <1>1, <1>2, <1>3, <1>4, <1>6, <2>2
    <3>2. (timedout'[u] <=> timedout[u]) /\ (detached'[u] <=> detached[u])
      BY <1>3, <1>6, <2>2
    <3> QED
      BY <1>3, <3>1, <3>2, ZenonT(30) DEF IInv, PollInv, Raised
  <2> QED
    BY <2>1, <2>2, ZenonT(30)
<1>10. Collected'
  BY <1>3, <1>5, <1>6 DEF IInv, PollInv, Collected, Loop!Active
<1> QED
  BY <1>7, <1>8, <1>9, <1>10 DEF PollInv

\* The end of poll_inner: no descriptor of its own is left in the epoll set.
LEMMA ReturnPolls ==
  ASSUME IInv, NEW t \in Tasks, PollReturn(t)
  PROVE  PollInv'
<1>1. /\ Pool!Top = t /\ pc[t] = "poll" /\ OnStack(t)
      /\ pc \in [Tasks -> {"none", "loop", "user", "callback", "poll"}]
      /\ pc' = [pc EXCEPT ![t] = "user"]
      /\ callstack' = callstack
  BY PoolFacts, OnTop DEF IInv, PollReturn, Pool!PollReturn, Pool!Running
<1>2. /\ phase' = phase /\ now' = now /\ parent' = parent /\ expire' = expire
      /\ timedout' = timedout /\ detached' = detached
      /\ waited' = waited /\ events' = events
      /\ fds' = [fds EXCEPT ![t] = {}]
      /\ revents' = [revents EXCEPT ![t] = {}]
      /\ raise_cnt' = [raise_cnt EXCEPT ![t] = 0]
      /\ fds \in [Tasks -> SUBSET Fds] /\ revents \in [Tasks -> SUBSET Fds]
      /\ raise_cnt \in [Tasks -> Nat] /\ reg \in [Fds -> Tasks \cup {0}]
  BY DEF PollReturn, loopVars, waitVars, IInv, OwnTypes
<1>3. \A u \in Tasks : OnStack(u)' <=> OnStack(u)
  BY <1>1 DEF OnStack
<1>4. \A e \in events : e[2] \in Tasks /\ e[2] # t
  BY <1>1 DEF IInv, PollInv, RegistrationsLive, OwnTypes
<1>5. ItemsLive'
  BY <1>1, <1>2, <1>3 DEF IInv, PollInv, ItemsLive, Loop!NoList
<1>6. RegistrationsLive'
  <2>1. ASSUME NEW f \in Fds, reg'[f] # 0
        PROVE  pc'[reg'[f]] = "poll" /\ f \in fds'[reg'[f]]
    <3>1. reg'[f] = reg[f] /\ f \notin fds[t]
      BY <2>1 DEF PollReturn, Unregister
    <3> QED
      BY <1>1, <1>2, <2>1, <3>1 DEF IInv, PollInv, RegistrationsLive
  <2>2. ASSUME NEW e \in events
        PROVE  pc'[e[2]] = "poll" /\ ~OnStack(e[2])' /\ parent'[e[2]] # Loop!NoList
    BY <1>1, <1>2, <1>3, <1>4 DEF IInv, PollInv, RegistrationsLive
  <2> QED
    BY <1>2, <2>1, <2>2 DEF RegistrationsLive, Loop!NoList
<1>7. Raised'
  <2> SUFFICES ASSUME NEW u \in Tasks, pc'[u] = "poll"
               PROVE  /\ IsFiniteSet(revents'[u])
                      /\ raise_cnt'[u] = Cardinality(revents'[u])
                      /\ revents'[u] \subseteq fds'[u]
                      /\ detached'[u] <=> revents'[u] # {}
                      /\ OnStack(u)' \/ (parent'[u] = Loop!Active /\ phase' = "drain") =>
                           detached'[u] \/ timedout'[u]
                      /\ OnStack(u)' /\ timedout'[u] => expire'[u] <= now'
    BY DEF Raised, Loop!Active
  <2>1. u # t /\ pc[u] = "poll"
    BY <1>1
  <2>2. revents'[u] = revents[u] /\ raise_cnt'[u] = raise_cnt[u] /\ fds'[u] = fds[u]
    BY <1>2, <2>1
  <2> QED
    BY <1>2, <1>3, <2>1, <2>2 DEF IInv, PollInv, Raised
<1>8. Collected'
  BY <1>2, <1>4 DEF IInv, PollInv, Collected, Loop!Active
<1> QED
  BY <1>5, <1>6, <1>7, <1>8 DEF PollInv

\* While the loop runs every poll is suspended.
LEMMA AllSuspended ==
  ASSUME IInv, Pool!Top = Pool!Main
  PROVE  \A t \in Tasks : pc[t] = "poll" => ~OnStack(t) /\ parent[t] # Loop!NoList
BY OnTop, PoolAssumption DEF IInv, PollInv, ItemsLive, Tasks, Pool!Main

\* A step of the loop that resumes nobody and links or unlinks no item.
LEMMA LoopFrame ==
  ASSUME IInv, Pool!Top = Pool!Main,
         UNCHANGED <<pc, callstack, fds, revents, raise_cnt, reg, detached>>,
         \A t \in Tasks : parent'[t] # Loop!NoList <=> parent[t] # Loop!NoList,
         phase' = "drain" =>
           \A t \in Tasks : parent'[t] = Loop!Active => detached[t] \/ timedout'[t],
         \A e \in events' : e[2] \in Tasks /\ pc[e[2]] = "poll",
         Collected'
  PROVE  PollInv'
<1>1. \A t \in Tasks : OnStack(t)' <=> OnStack(t)
  BY DEF OnStack
<1>2. ItemsLive'
  BY <1>1 DEF IInv, PollInv, ItemsLive, Loop!NoList
<1>3. RegistrationsLive'
  <2>1. ASSUME NEW e \in events'
        PROVE  pc'[e[2]] = "poll" /\ ~OnStack(e[2])' /\ parent'[e[2]] # Loop!NoList
    BY <1>1, AllSuspended
  <2>2. \A f \in Fds : reg'[f] # 0 => pc'[reg'[f]] = "poll" /\ f \in fds'[reg'[f]]
    BY DEF IInv, PollInv, RegistrationsLive
  <2> QED
    BY <2>1, <2>2 DEF RegistrationsLive, Loop!NoList
<1>4. Raised'
  <2> SUFFICES ASSUME NEW u \in Tasks, pc'[u] = "poll"
               PROVE  /\ IsFiniteSet(revents[u])
                      /\ raise_cnt[u] = Cardinality(revents[u])
                      /\ revents[u] \subseteq fds[u]
                      /\ detached[u] <=> revents[u] # {}
                      /\ OnStack(u)' \/ (parent'[u] = Loop!Active /\ phase' = "drain") =>
                           detached[u] \/ timedout'[u]
                      /\ OnStack(u)' /\ timedout'[u] => expire'[u] <= now'
    BY DEF Raised, Loop!Active
  <2>1. ~OnStack(u)'
    BY <1>1, AllSuspended, ZenonT(30)
  <2> QED
    BY <2>1 DEF IInv, PollInv, Raised
<1> QED
  BY <1>2, <1>3, <1>4 DEF PollInv

\* An event that is left over is one of a poll.
LEMMA EventPolls == IInv => \A e \in events : e[2] \in Tasks /\ pc[e[2]] = "poll"
BY DEF IInv, PollInv, RegistrationsLive, OwnTypes

\* coroutine_eventloop leaves alone the polls that began before it.
LEMMA StartLoopPolls == ASSUME IInv, StartLoop PROVE PollInv'
<1>1. /\ Pool!Top = Pool!Main
      /\ UNCHANGED <<pc, callstack, fds, revents, raise_cnt, reg, detached, parent, events, waited>>
      /\ phase = "app" /\ phase' = "collect"
  BY DEF StartLoop, Pool!StartLoop, Loop!StartLoop, pollVars, kernelVars, waitVars
<1>2. Collected'
  BY <1>1, LoopFacts DEF IInv, PollInv, Collected, Loop!Active
<1> QED
  BY <1>1, <1>2, LoopFrame, EventPolls

\* The events point into polls because the registrations do.
LEMMA EpollWaitPolls == ASSUME IInv, EpollWait PROVE PollInv'
<1>1. /\ Pool!Top = Pool!Main
      /\ UNCHANGED <<pc, callstack, fds, revents, raise_cnt, reg, detached, parent, phase>>
      /\ phase = "collect" /\ ~waited /\ waited' = TRUE
      /\ ready \subseteq Fds /\ reg \in [Fds -> Tasks \cup {0}]
  BY DEF EpollWait, InLoop, poolVars, loopVars, pollVars, IInv, OwnTypes
<1>2. ASSUME NEW e \in events'
      PROVE  /\ e[2] \in Tasks /\ pc[e[2]] = "poll"
             /\ e[1] \in fds[e[2]] \ revents[e[2]]
  <2>1. PICK f \in Fds : e = <<f, reg[f]>> /\ reg[f] # 0
    BY <1>1, <1>2 DEF EpollWait
  <2>2. reg[f] \in Tasks /\ pc[reg[f]] = "poll" /\ f \in fds[reg[f]]
    BY <1>1, <2>1 DEF IInv, PollInv, RegistrationsLive
  <2>3. parent[reg[f]] # Loop!NoList /\ parent[reg[f]] # Loop!Active
    BY <1>1, <2>2, AllSuspended DEF IInv, PollInv, Collected
  <2>4. ~detached[reg[f]]
    BY <1>1, <2>2, <2>3, LoopFacts DEF IInv
  <2>5. revents[reg[f]] = {}
    BY <2>2, <2>4 DEF IInv, PollInv, Raised
  <2> QED
    BY <2>1, <2>2, <2>5
<1>3. Collected'
  BY <1>1, <1>2 DEF Collected
<1> QED
  BY <1>1, <1>2, <1>3, LoopFrame

\* takeAllTimeout begins when the events of epoll_wait are used up.
LEMMA TakeBeginPolls == ASSUME IInv, TakeBegin PROVE PollInv'
<1>1. /\ Pool!Top = Pool!Main
      /\ UNCHANGED <<pc, callstack, fds, revents, raise_cnt, reg, detached, parent, events>>
      /\ phase' = "take" /\ waited' = FALSE /\ events = {}
  BY DEF TakeBegin, InLoop, Loop!TakeBegin, Loop!itemVars, poolVars, pollVars
<1>2. Collected'
  BY <1>1 DEF Collected
<1> QED
  BY <1>1, <1>2, LoopFrame

\* The sweep leaves every item linked, and what it joins to the active list
\* is marked.
LEMMA TakePolls == ASSUME IInv, Take PROVE PollInv'
<1> USE LoopAssumption DEF Loop!NoList, Loop!Active, Loop!Timeout
<1>1. /\ Pool!Top = Pool!Main
      /\ UNCHANGED <<pc, callstack, fds, revents, raise_cnt, reg, detached, events, waited>>
      /\ phase # "collect"
  BY DEF Take, InLoop, Loop!TakeSlot, Loop!TakeEnd, Loop!Drained, poolVars, pollVars, kernelVars,
         waitVars
<1>2. /\ ~waited /\ events = {}
      /\ parent \in [Tasks -> Int] /\ timedout \in [Tasks -> BOOLEAN]
  BY <1>1, LoopFacts DEF IInv, PollInv, Collected, OwnTypes
<1>3. CASE Loop!TakeSlot
  <2>1. phase' = "take"
    BY <1>3 DEF Loop!TakeSlot
  <2>2. \A t \in Tasks : parent'[t] # Loop!NoList <=> parent[t] # Loop!NoList
    <3>1. start_idx \in Int /\ i \in Int
      BY DEF IInv, LoopInv, Loop!TypeOK
    <3>2. (start_idx + i) % TimerSize \in 0..(TimerSize - 1)
      BY <3>1
    <3> QED
      BY <1>2, <1>3, <3>2 DEF Loop!TakeSlot, Loop!Join
  <2>3. Collected'
    BY <1>1, <1>2, <2>1 DEF Collected
  <2> QED
    BY <1>1, <1>2, <2>1, <2>2, <2>3, LoopFrame
<1>4. CASE Loop!TakeEnd
  <2>1. /\ phase = "take" /\ phase' = "drain"
        /\ timedout' = [x \in Tasks |-> timedout[x] \/ parent[x] = Loop!Timeout]
        /\ parent' = [x \in Tasks |-> IF parent[x] = Loop!Timeout THEN Loop!Active ELSE parent[x]]
    BY <1>4 DEF Loop!TakeEnd, Loop!Join
  <2>2. \A t \in Tasks : parent'[t] # Loop!NoList <=> parent[t] # Loop!NoList
    BY <1>2, <2>1
  <2>3. ASSUME NEW t \in Tasks, parent'[t] = Loop!Active
        PROVE  detached[t] \/ timedout'[t]
    <3>1. CASE parent[t] = Loop!Timeout
      BY <2>1, <3>1, ZenonT(30)
    <3>2. CASE parent[t] = Loop!Active
      BY <2>1, <3>2, LoopFacts DEF IInv
    <3> QED
      BY <2>1, <2>3, <3>1, <3>2
  <2>4. Collected'
    BY <1>1, <1>2, <2>1 DEF Collected
  <2> QED
    BY <1>1, <1>2, <2>1, <2>2, <2>3, <2>4, LoopFrame
<1>5. CASE Loop!Drained
  <2>1. phase' = "collect" /\ parent' = parent /\ list[Loop!Active] = <<>>
    BY <1>5 DEF Loop!Drained
  <2>2. \A t \in Tasks : parent[t] # Loop!Active
    BY <2>1, ActiveHead DEF IInv
  <2>3. Collected'
    BY <1>1, <1>2, <2>1, <2>2 DEF Collected
  <2> QED
    BY <1>1, <1>2, <2>1, <2>3, LoopFrame
<1> QED
  BY <1>3, <1>4, <1>5 DEF Take

\* prepare_poll_event: one more descriptor of the poll has events.
LEMMA PreparePolls ==
  ASSUME Counting, IInv, NEW f \in Fds, NEW t \in Tasks, Prepare(f, t)
  PROVE  PollInv'
<1>1. /\ Pool!Top = Pool!Main
      /\ pc' = pc /\ callstack' = callstack /\ fds' = fds /\ reg' = reg /\ waited' = waited
      /\ revents' = [revents EXCEPT ![t] = @ \cup {f}]
      /\ raise_cnt' = [raise_cnt EXCEPT ![t] = @ + 1]
      /\ <<f, t>> \in events /\ events' = events \ {<<f, t>>}
      /\ revents \in [Tasks -> SUBSET Fds] /\ raise_cnt \in [Tasks -> Nat]
      /\ detached \in [Tasks -> BOOLEAN] /\ parent \in [Tasks -> Int]
  BY LoopFacts, ZenonT(30) DEF Prepare, InLoop, CountEvent, poolVars, IInv, OwnTypes
<1>2. /\ pc[t] = "poll" /\ parent[t] # Loop!NoList
      /\ f \in fds[t] /\ f \notin revents[t]
      /\ waited /\ phase = "collect"
  <2>1. /\ pc[<<f, t>>[2]] = "poll" /\ parent[<<f, t>>[2]] # Loop!NoList
        /\ <<f, t>>[1] \in fds[<<f, t>>[2]] \ revents[<<f, t>>[2]]
    BY <1>1 DEF IInv, PollInv, RegistrationsLive, Collected
  <2> QED
    BY <1>1, <2>1 DEF IInv, PollInv, Collected
<1>3. /\ phase' = phase
      /\ detached' = [detached EXCEPT ![t] = TRUE]
      /\ \A u \in Tasks : parent'[u] # Loop!NoList <=> parent[u] # Loop!NoList
  <2>1. CASE detached[t]
    BY <1>1, <2>1 DEF Prepare, loopVars
  <2>2. CASE ~detached[t]
    <3>1. /\ phase' = phase
          /\ detached' = [detached EXCEPT ![t] = TRUE]
          /\ parent' = [parent EXCEPT ![t] = Loop!Active]
      BY <2>2 DEF Prepare, Loop!Detach
    <3>2. Loop!Active # Loop!NoList
      BY LoopAssumption DEF Loop!NoList, Loop!Active
    <3>3. \A u \in Tasks : parent'[u] = IF u = t THEN Loop!Active ELSE parent[u]
      BY <1>1, <3>1
    <3>4. parent[t] # Loop!NoList
      BY <1>2
    <3> QED
      BY <3>1, <3>2, <3>3, <3>4
  <2> QED
    BY <2>1, <2>2
<1>4. \A u \in Tasks : OnStack(u)' <=> OnStack(u)
  BY <1>1 DEF OnStack
<1>5. \A e \in events : e[2] \in Tasks /\ e = <<e[1], e[2]>>
  BY DEF IInv, OwnTypes
<1>6. ItemsLive'
  BY <1>1, <1>3, <1>4 DEF IInv, PollInv, ItemsLive, Loop!NoList
<1>7. RegistrationsLive'
  <2>1. ASSUME NEW e \in events'
        PROVE  pc'[e[2]] = "poll" /\ ~OnStack(e[2])' /\ parent'[e[2]] # Loop!NoList
    BY <1>1, <1>3, <1>4, <1>5 DEF IInv, PollInv, RegistrationsLive
  <2>2. \A g \in Fds : reg'[g] # 0 => pc'[reg'[g]] = "poll" /\ g \in fds'[reg'[g]]
    BY <1>1, ZenonT(30) DEF IInv, PollInv, RegistrationsLive
  <2> QED
    BY <2>1, <2>2, ZenonT(30) DEF RegistrationsLive, Loop!NoList
<1>8. Raised'
  <2> SUFFICES ASSUME NEW u \in Tasks, pc'[u] = "poll"
               PROVE  /\ IsFiniteSet(revents'[u])
                      /\ raise_cnt'[u] = Cardinality(revents'[u])
                      /\ revents'[u] \subseteq fds'[u]
                      /\ detached'[u] <=> revents'[u] # {}
                      /\ OnStack(u)' \/ (parent'[u] = Loop!Active /\ phase' = "drain") =>
                           detached'[u] \/ timedout'[u]
                      /\ OnStack(u)' /\ timedout'[u] => expire'[u] <= now'
    BY ZenonT(30) DEF Raised, Loop!Active
  <2>1. ~OnStack(u)' /\ phase' # "drain"
    BY <1>1, <1>2, <1>3, <1>4, AllSuspended, ZenonT(30)
  <2>2. /\ IsFiniteSet(revents[u])
        /\ raise_cnt[u] = Cardinality(revents[u])
        /\ revents[u] \subseteq fds[u]
        /\ detached[u] <=> revents[u] # {}
    BY <1>1, ZenonT(30) DEF IInv, PollInv, Raised
  <2>3. CASE u = t
    <3>1. /\ revents'[u] = revents[u] \cup {f} /\ raise_cnt'[u] = raise_cnt[u] + 1
          /\ fds'[u] = fds[u] /\ f \in fds[u]
      BY <1>1, <1>2, <2>3, ZenonT(30)
    <3>2. detached'[u] = TRUE
      BY <1>1, <1>3, <2>3
    <3>3. /\ IsFiniteSet(revents[u] \cup {f})
          /\ Cardinality(revents[u] \cup {f}) = Cardinality(revents[u]) + 1
      BY <1>2, <2>2, <2>3 DEF Counting
    <3> QED
      BY <2>1, <2>2, <3>1, <3>2, <3>3, ZenonT(30)
  <2>4. CASE u # t
    <3>1. revents'[u] = revents[u] /\ raise_cnt'[u] = raise_cnt[u] /\ fds'[u] = fds[u]
      BY <1>1, <2>4, ZenonT(30)
    <3>2. detached'[u] <=> detached[u]
      BY <1>1, <1>3, <2>4, ZenonT(30)
    <3> QED
      BY <2>1, <2>2, <3>1, <3>2, ZenonT(30)
  <2> QED
    BY <2>3, <2>4, ZenonT(30)
<1>9. Collected'
  <2>1. ASSUME NEW e \in events'
        PROVE  e[1] \in fds'[e[2]] \ revents'[e[2]]
    <3>1. e[1] \in fds[e[2]] \ revents[e[2]] /\ e[2] \in Tasks /\ (e[2] = t => e[1] # f)
      BY <1>1, <1>5 DEF IInv, PollInv, Collected
    <3> QED
      BY <1>1, <3>1, ZenonT(30)
  <2> QED
    BY <1>1, <1>2, <1>3, <2>1 DEF Collected
<1> QED
  BY <1>6, <1>7, <1>8, <1>9 DEF PollInv

\* process_poll_event: the poll that goes on has left the lists.
LEMMA WakePolls == ASSUME IInv, NEW t \in Tasks, Wake(t) PROVE PollInv'
<1>1. /\ Pool!Top = Pool!Main /\ phase = "drain"
      /\ phase' = phase /\ now' = now /\ expire' = expire /\ timedout' = timedout
      /\ detached' = detached /\ fds' = fds /\ revents' = revents /\ raise_cnt' = raise_cnt
      /\ reg' = reg /\ waited' = waited /\ events' = events
      /\ parent' = [parent EXCEPT ![t] = Loop!NoList]
      /\ callstack' = Append(callstack, t)
      /\ parent \in [Tasks -> Int]
  BY LoopFacts, ZenonT(30) DEF IInv, Wake, InLoop, Loop!PopHead, Pool!Resume,
         pollVars, kernelVars, waitVars
<1>2. pc[t] = "poll" /\ ~OnStack(t) /\ parent[t] = Loop!Active
  BY WakePoll
<1>3. pc' = pc
  <2>1. costate[t] = "RUNNING"
    BY <1>2, PoolFacts DEF IInv
  <2> QED
    BY <2>1 DEF Wake, Pool!Resume
<1>4. \A u \in Tasks : OnStack(u)' <=> OnStack(u) \/ u = t
  BY <1>1, Pushed DEF IInv
<1>5. ~waited /\ events = {}
  BY <1>1, ZenonT(30) DEF IInv, PollInv, Collected
<1>6. ItemsLive'
  BY <1>1, <1>2, <1>3, <1>4 DEF IInv, PollInv, ItemsLive, Loop!NoList
<1>7. RegistrationsLive'
  BY <1>1, <1>3, <1>5 DEF IInv, PollInv, RegistrationsLive
<1>8. Raised'
  <2> SUFFICES ASSUME NEW u \in Tasks, pc'[u] = "poll"
               PROVE  /\ IsFiniteSet(revents[u])
                      /\ raise_cnt[u] = Cardinality(revents[u])
                      /\ revents[u] \subseteq fds[u]
                      /\ detached[u] <=> revents[u] # {}
                      /\ OnStack(u)' \/ (parent'[u] = Loop!Active /\ phase = "drain") =>
                           detached[u] \/ timedout[u]
                      /\ OnStack(u)' /\ timedout[u] => expire[u] <= now
    BY <1>1, ZenonT(30) DEF Raised, Loop!Active
  <2>1. CASE u = t
    <3>1. timedout[u] => expire[u] <= now
      BY <1>2, <2>1, LoopFacts, LoopAssumption DEF IInv, Loop!Active, Loop!NoList
    <3> QED
      BY <1>1, <1>2, <2>1, <3>1, ZenonT(30) DEF IInv, PollInv, Raised
  <2>2. CASE u # t
    <3>1. parent'[u] = parent[u] /\ (OnStack(u)' <=> OnStack(u)) /\ pc[u] = "poll"
      BY <1>1, <1>3, <1>4, <2>2
    <3> QED
      BY <3>1, ZenonT(30) DEF IInv, PollInv, Raised
  <2> QED
    BY <2>1, <2>2, ZenonT(30)
<1>9. Collected'
  BY <1>1, <1>5 DEF Collected
<1> QED
  BY <1>6, <1>7, <1>8, <1>9 DEF PollInv

\* Only main, in its loop, moves the loop on, and only when it pops an item
\* does it resume a coroutine.
LEMMA StepTurns == ASSUME IInv, [Next]_vars PROVE TakeTurns'
<1> USE DEF TakeTurns
<1>1. TakeTurns /\ Pool!Main \notin Tasks /\ Pool!Main = 0
  BY PoolAssumption DEF IInv, Tasks, Pool!Main
<1>2. ASSUME UNCHANGED <<mainpc, callstack, phase>> PROVE TakeTurns'
  BY <1>1, <1>2 DEF Pool!Top, Pool!Main
<1>3. ASSUME phase \notin {"collect", "take"}, phase' = phase, mainpc' = mainpc PROVE TakeTurns'
  BY <1>1, <1>3
<1>4. ASSUME PoolStep PROVE TakeTurns'
  <2>1. phase' = phase
    BY <1>4 DEF PoolStep, loopVars
  <2>2. CASE Pool!CreateTask \/ Pool!PoolReady
    BY <1>1, <2>1, <2>2 DEF Pool!CreateTask, Pool!PoolReady
  <2>3. CASE Pool!NewTaskRefused
    BY <1>2, <2>1, <2>3, ZenonT(30) DEF Pool!NewTaskRefused, Pool!vars
  <2>4. ASSUME NEW t \in Tasks,
               \/ Pool!TaskWait(t) \/ Pool!TaskRun(t) \/ Pool!FunReturn(t)
               \/ Pool!FunReturnTimedOut(t) \/ Pool!CallbackReturn(t)
        PROVE  TakeTurns'
    <3>1. Pool!Top = t /\ mainpc' = mainpc
      BY <2>4 DEF Pool!TaskWait, Pool!TaskRun, Pool!FunReturn, Pool!FunReturnTimedOut,
                  Pool!CallbackReturn, Pool!Release, Pool!Running
    <3> QED
      BY <1>1, <1>3, <2>1, <3>1
  <2> QED
    BY <1>4, <2>2, <2>3, <2>4 DEF PoolStep
<1>5. ASSUME LoopStep PROVE TakeTurns'
  <2>1. CASE StartLoop
    BY <1>1, <2>1 DEF StartLoop, Pool!StartLoop, Loop!StartLoop, Pool!Top, Pool!Main
  <2>2. CASE EpollWait
    BY <1>2, <2>2 DEF EpollWait, poolVars, loopVars
  <2>3. ASSUME NEW f \in Fds, NEW t \in Tasks, Prepare(f, t) PROVE TakeTurns'
    BY <1>2, <2>3 DEF Prepare, poolVars, loopVars, Loop!Detach
  <2>4. CASE TakeBegin \/ Take
    <3>1. InLoop /\ UNCHANGED poolVars
      BY <2>4 DEF TakeBegin, Take
    <3> QED
      BY <3>1 DEF InLoop, poolVars, Pool!Top, Pool!Main
  <2>5. ASSUME NEW t \in Tasks, Wake(t) PROVE TakeTurns'
    BY <1>3, <2>5 DEF Wake, Loop!PopHead
  <2> QED
    BY <1>5, <2>1, <2>2, <2>3, <2>4, <2>5 DEF LoopStep
<1>6. ASSUME NEW a \in Attrs, NewTask(a) PROVE TakeTurns'
  <2>1. phase' = phase /\ mainpc' = mainpc /\ Pool!CanCall
    BY <1>6 DEF NewTask, Pool!NewTask, loopVars
  <2>2. phase \notin {"collect", "take"}
    BY <1>1, <2>1 DEF Pool!CanCall, Pool!Tasks, Tasks
  <2> QED
    BY <1>3, <2>1, <2>2
<1>7. ASSUME NEW t \in Tasks, Polls(t) \/ PollReturn(t) PROVE TakeTurns'
  <2>1. CASE PollReturn(t) \/ PollTimesOut(t)
    BY <1>2, <2>1 DEF PollReturn, Pool!PollReturn, PollTimesOut, Pool!UserTimesOut, loopVars
  <2>2. CASE PollRefused(t) \/ \E f \in Fds : PollPlain(t, f)
    BY <1>2, <2>2, ZenonT(30) DEF PollRefused, PollPlain, vars, poolVars, loopVars
  <2>3. ASSUME NEW F \in SUBSET Fds, NEW ms \in PollTimeouts, PollInvalid(t, F, ms)
        PROVE  TakeTurns'
    BY <1>2, <2>3 DEF PollInvalid, poolVars, loopVars
  <2>4. ASSUME NEW F \in SUBSET Fds, NEW ms \in PollTimeouts, PollSuspends(t, F, ms)
        PROVE  TakeTurns'
    <3>1. Pool!Top = t /\ mainpc' = mainpc /\ phase' = phase
      BY <2>4 DEF PollSuspends, Pool!UserPoll, Pool!Running, Loop!AddTimeout
    <3> QED
      BY <1>1, <1>3, <3>1
  <2> QED
    BY <1>7, <2>1, <2>2, <2>3, <2>4 DEF Polls
<1>8. CASE (\E f \in Fds : Close(f) \/ DataArrives(f)) \/ Tick \/ SetBack
  BY <1>2, <1>8 DEF Close, DataArrives, Tick, SetBack, poolVars, loopVars, Loop!Advance,
                    Loop!StepBack, Loop!TickTo
<1>9. CASE UNCHANGED vars
  BY <1>2, <1>9 DEF vars, poolVars, loopVars
<1> QED
  BY <1>4, <1>5, <1>6, <1>7, <1>8, <1>9 DEF Next

\* Limits stay ints, times are readings of the clock, and the poll state
\* names descriptors and tasks.
LEMMA StepTypes == ASSUME IInv, [Next]_vars PROVE OwnTypes'
<1>1. PoolInv /\ LoopInv /\ OwnTypes
  BY DEF IInv
<1>2. CASE PoolStep \/ StartLoop \/ Take \/ (\E t \in Tasks : Wake(t)) \/ Tick \/ SetBack
           \/ UNCHANGED vars
  <2>1. UNCHANGED <<limitVars, pollVars, kernelVars>>
    BY <1>2 DEF PoolStep, StartLoop, Take, Wake, Tick, SetBack, vars
  <2> QED
    BY <1>1, <2>1 DEF OwnTypes, limitVars, pollVars, kernelVars, waitVars
<1>3. ASSUME NEW a \in Attrs, NewTask(a)
      PROVE  OwnTypes'
  <2>1. Head(free) \in Tasks
    BY <1>1, <1>3, PoolFacts DEF NewTask, Pool!NewTask, Pool!Full
  <2>2. clock \in Clock /\ now \in Clock \cup {0}
    BY <1>1 DEF LoopInv, Loop!TypeOK
  <2>3. /\ leftmsec' \in [Tasks -> -IntHalf..(IntHalf - 1)]
        /\ last' \in [Tasks -> Clock \cup {0}]
        /\ started' \in [Tasks -> Clock \cup {0}]
    BY <1>1, <1>3, <2>1, <2>2, IntAssumption DEF NewTask, OwnTypes
  <2> QED
    BY <1>1, <1>3, <2>3 DEF NewTask, OwnTypes, pollVars, kernelVars, waitVars
<1>4. ASSUME NEW t \in Tasks, Charge(t), UNCHANGED <<pollVars, ready, waitVars>>,
             reg' \in [Fds -> Tasks \cup {0}]
      PROVE  OwnTypes'
  BY <1>1, <1>4, ChargeTypes DEF OwnTypes, pollVars, waitVars
<1>5. ASSUME NEW t \in Tasks, PollTimesOut(t) \/ \E f \in Fds : PollPlain(t, f)
      PROVE  OwnTypes'
  BY <1>1, <1>4, <1>5 DEF PollTimesOut, PollPlain, kernelVars, OwnTypes
<1>6. ASSUME NEW t \in Tasks, NEW F \in SUBSET Fds, NEW ms \in PollTimeouts, PollInvalid(t, F, ms)
      PROVE  OwnTypes'
  BY <1>1, <1>4, <1>6 DEF PollInvalid, Unregister, OwnTypes
<1>7. ASSUME NEW t \in Tasks, NEW F \in SUBSET Fds, NEW ms \in PollTimeouts, PollSuspends(t, F, ms)
      PROVE  OwnTypes'
  BY <1>1, <1>7, ChargeTypes DEF PollSuspends, Register, OwnTypes, waitVars
<1>8. ASSUME NEW t \in Tasks, PollReturn(t)
      PROVE  OwnTypes'
  BY <1>1, <1>8 DEF PollReturn, Unregister, OwnTypes, limitVars, waitVars
<1>9. CASE EpollWait
  <2>1. events' \subseteq Fds \X Tasks
    BY <1>1, <1>9 DEF EpollWait, OwnTypes
  <2> QED
    BY <1>1, <1>9, <2>1 DEF EpollWait, OwnTypes, limitVars, pollVars
<1>10. ASSUME NEW f \in Fds, NEW t \in Tasks, Prepare(f, t)
       PROVE  OwnTypes'
  BY <1>1, <1>10 DEF Prepare, CountEvent, OwnTypes, limitVars
<1>11. CASE TakeBegin
  BY <1>1, <1>11, ZenonT(30) DEF TakeBegin, OwnTypes, limitVars, pollVars
<1>12. ASSUME NEW f \in Fds, Close(f) \/ DataArrives(f)
       PROVE  OwnTypes'
  BY <1>1, <1>12 DEF Close, DataArrives, OwnTypes, limitVars, pollVars, waitVars
<1> QED
  BY <1>2, <1>3, <1>5, <1>6, <1>7, <1>8, <1>9, <1>10, <1>11, <1>12, ZenonT(30)
     DEF Next, LoopStep, Polls, PollRefused

\* No step of a thread breaks what is said of the polls.
LEMMA StepPolls == ASSUME Counting, IInv, [Next]_vars PROVE PollInv'
<1>1. LoopStep => PollInv'
  BY StartLoopPolls, EpollWaitPolls, PreparePolls, TakeBeginPolls, TakePolls, WakePolls
     DEF LoopStep
<1>2. (\E t \in Tasks : Polls(t) \/ PollReturn(t)) => PollInv'
  BY QuietPolls, SuspendPolls, ReturnPolls DEF Polls
<1>3. PoolStep \/ (\E a \in Attrs : NewTask(a)) => PollInv'
  BY PoolStepPolls, NewTaskPolls
<1>4. (\E f \in Fds : Close(f) \/ DataArrives(f)) \/ Tick \/ SetBack \/ UNCHANGED vars => PollInv'
  BY QuietPolls
<1> QED
  BY <1>1, <1>2, <1>3, <1>4 DEF Next

=============================================================================
