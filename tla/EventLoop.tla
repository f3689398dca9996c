----------------------------- MODULE EventLoop ------------------------------
(***************************************************************************)
(* The event loop of one thread and its timer wheel (epoll.c).             *)
(*                                                                         *)
(* A poll puts its timer item (poll_context_t.time) into the wheel with    *)
(* add_timeout.  An iteration of coroutine_eventloop moves the items whose *)
(* descriptors have events to the active list (prepare_poll_event), sweeps *)
(* the due slots of the wheel into the timeout list (takeAllTimeout),      *)
(* joins that to the active list and then pops the active items one by     *)
(* one, resuming the coroutine of each.  Between two pops coroutines run,  *)
(* and may arm their items again.                                          *)
(*                                                                         *)
(* A doubly linked timer_list_t is the sequence of its items; the parent   *)
(* pointer of an item, which add_tail and remove_from_link consult, is a   *)
(* variable of its own.  takeAllTimeout is one step per slot.              *)
(*                                                                         *)
(* The clock is gettimeofday: it need not be monotonic.                    *)
(***************************************************************************)
EXTENDS Integers, Sequences, Functions

CONSTANTS
  Items,          \* timer items, one per poll that can be outstanding
  TimerSize,      \* timer->size
  Clock,          \* the readings of GetTickMS that are explored
  Timeouts,       \* the timeouts polls are called with, as poll_inner fixes them
  kMaxTimeoutMs,
  MayStepBack     \* may the clock be set back

\* "attention: kMaxTimeoutMs MUST NOT bigger than epoll timer size"
ASSUME TimerSizeAssumption ==
  /\ TimerSize \in Nat \ {0}
  /\ kMaxTimeoutMs \in Nat
  /\ kMaxTimeoutMs <= TimerSize

\* The clock counts milliseconds since 1970 and never reads 0, so the
\* re-initialisation of a timer whose start is 0 never happens.
ASSUME ClockAssumption == Clock \subseteq Nat \ {0}

ASSUME TimeoutsAssumption == Timeouts \subseteq Int /\ \A ms \in Timeouts : ms <= kMaxTimeoutMs

ASSUME StepBackAssumption == MayStepBack \in BOOLEAN

\* The largest int: the width of cnt and diff.
IntMax == 2147483647

Slots == 0..(TimerSize - 1)
Active == TimerSize            \* epoll->active_list
Timeout == TimerSize + 1       \* epoll->timeout_list
Lists == 0..(TimerSize + 1)
NoList == -1                   \* item->parent == NULL

VARIABLES
  phase,       \* where the loop is
  clock,       \* what GetTickMS returns
  now,         \* epoll->now
  start,       \* timer->start
  start_idx,   \* timer->start_idx
  list,        \* the timer lists: slots of the wheel, active, timeout
  parent,      \* item->parent
  expire,      \* item->expire
  timedout,    \* item->timeout
  detached,    \* allEventDetatch of the item's poll_context_t
  i, cnt       \* takeAllTimeout's locals; cnt = 0 if it returned early

timerVars == <<start, start_idx>>
takeVars == <<i, cnt>>
itemVars == <<list, parent, expire, timedout, detached>>
vars == <<phase, clock, now, timerVars, itemVars, takeVars>>

TypeOK ==
  /\ phase \in {"app", "collect", "take", "drain"}
  /\ clock \in Clock
  /\ now \in Clock \cup {0}
  /\ start \in Clock
  /\ start_idx \in Nat
  /\ list \in [Lists -> Seq(Items)]
  /\ parent \in [Items -> Lists \cup {NoList}]
  /\ expire \in [Items -> Clock \cup {0}]
  /\ timedout \in [Items -> BOOLEAN]
  /\ detached \in [Items -> BOOLEAN]
  /\ cnt \in 0..TimerSize
  /\ i \in 0..TimerSize

-----------------------------------------------------------------------------
(***************************************************************************)
(* Lists.                                                                  *)
(***************************************************************************)

\* The list without item x, which is on it.
Unlink(s, x) ==
  LET k == CHOOSE n \in 1..Len(s) : s[n] = x
  IN  SubSeq(s, 1, k - 1) \o SubSeq(s, k + 1, Len(s))

\* add_tail(l, x), for an item that is on no list.
AddTail(l, x) ==
  /\ list' = [list EXCEPT ![l] = Append(@, x)]
  /\ parent' = [parent EXCEPT ![x] = l]

\* Variant: the items keep their parent pointers.
JoinKeepsParent(l, other) ==
  /\ list' = [list EXCEPT ![l] = @ \o list[other], ![other] = <<>>]
  /\ UNCHANGED parent

\* Variant: the items go to the front.
JoinFront(l, other) ==
  /\ list' = [list EXCEPT ![l] = list[other] \o @, ![other] = <<>>]
  /\ parent' = [x \in Items |-> IF parent[x] = other THEN l ELSE parent[x]]

\* join(l, other): the items of other move behind those of l.
Join(l, other) ==
  /\ list' = [list EXCEPT ![l] = @ \o list[other], ![other] = <<>>]
  /\ parent' = [x \in Items |-> IF parent[x] = other THEN l ELSE parent[x]]

-----------------------------------------------------------------------------
(***************************************************************************)
(* alloc_epoll: an empty wheel that starts at the current time.            *)
(***************************************************************************)

Init ==
  /\ phase = "app"
  /\ clock \in Clock
  /\ now = 0
  /\ start = clock
  /\ start_idx = 0
  /\ list = [l \in Lists |-> <<>>]
  /\ parent = [x \in Items |-> NoList]
  /\ expire = [x \in Items |-> 0]
  /\ timedout = [x \in Items |-> FALSE]
  /\ detached = [x \in Items |-> FALSE]
  /\ i = 0
  /\ cnt = 0

\* Time passes between any two steps; a reading stays within an int of the
\* wheel's start.
TickTo(c) ==
  /\ c - start + kMaxTimeoutMs <= IntMax
  /\ clock' = c
  /\ UNCHANGED <<phase, now, timerVars, itemVars, takeVars>>

Advance == \E c \in Clock : c > clock /\ TickTo(c)

StepBack == MayStepBack /\ \E c \in Clock : c < clock /\ TickTo(c)

-----------------------------------------------------------------------------
(***************************************************************************)
(* Arming an item: the end of poll_inner, from the clock reading to the    *)
(* yield.  The item is part of a poll_context_t that poll_inner has just   *)
(* zeroed.                                                                 *)
(***************************************************************************)

\* Coroutines run before the loop starts and between two pops.
CoroutinesRun == phase \in {"app", "drain"}

\* Variant: a whole turn of the wheel is accepted.
AddTimeoutTooFar(e) ==
  \/ clock < start
  \/ e < clock
  \/ e - start > TimerSize

\* The three tests of add_timeout that refuse the item.
AddTimeoutFails(e) ==
  \/ clock < start
  \/ e < clock
  \/ e - start >= TimerSize

\* The list add_timeout puts an item into.
SlotOf(e) == (start_idx + (e - start)) % TimerSize

\* What poll_inner does, whatever became of the item of an earlier poll.
AddTimeout(x, ms) ==
  /\ LET e == clock + ms
     IN  /\ ~AddTimeoutFails(e)
         /\ e \in Clock
         /\ expire' = [expire EXCEPT ![x] = e]
         /\ AddTail(SlotOf(e), x)
  /\ timedout' = [timedout EXCEPT ![x] = FALSE]
  /\ detached' = [detached EXCEPT ![x] = FALSE]
  /\ UNCHANGED <<phase, clock, now, timerVars, takeVars>>

\* The loop relies on it to happen only while coroutines run and for an item
\* that is on no list.
Arm(x, ms) == CoroutinesRun /\ parent[x] = NoList /\ AddTimeout(x, ms)

\* poll_inner returns -1 without yielding: nothing was linked.
ArmRefused(x, ms) ==
  /\ CoroutinesRun
  /\ parent[x] = NoList
  /\ AddTimeoutFails(clock + ms)
  /\ UNCHANGED vars

-----------------------------------------------------------------------------
(***************************************************************************)
(* coroutine_eventloop.  Every iteration begins with a cleared timeout     *)
(* list.                                                                   *)
(***************************************************************************)

StartLoop ==
  /\ phase = "app"
  /\ phase' = "collect"
  /\ now' = clock
  /\ list' = [list EXCEPT ![Timeout] = <<>>]
  /\ UNCHANGED <<clock, timerVars, parent, expire, timedout, detached, takeVars>>

\* prepare_poll_event, for the first event of the poll item x belongs to: x
\* leaves its slot for the active list.  (Further events of the same poll
\* find allEventDetatch set and leave the lists alone.)
Detach(x) ==
  /\ detached' = [detached EXCEPT ![x] = TRUE]
  /\ LET rest == IF parent[x] = NoList THEN list
                 ELSE [list EXCEPT ![parent[x]] = Unlink(@, x)]
     IN  list' = [rest EXCEPT ![Active] = Append(@, x)]
  /\ parent' = [parent EXCEPT ![x] = Active]
  /\ UNCHANGED <<phase, clock, now, timerVars, expire, timedout, takeVars>>

\* The loop relies on events to come only while it collects them, and for
\* items that wait in the wheel.
Prepare(x) == phase = "collect" /\ parent[x] # NoList /\ ~detached[x] /\ Detach(x)

\* Variants: one slot too many; one too few.
SweepCountTooMany(n) ==
  IF n < start THEN 0 ELSE LET c == n - start + 2
                           IN  IF c > TimerSize THEN TimerSize ELSE c

SweepCountTooFew(n) ==
  IF n < start THEN 0 ELSE LET c == n - start
                           IN  IF c > TimerSize THEN TimerSize ELSE c

\* How many slots takeAllTimeout sweeps at time n; 0 if it returns early.
SweepCount(n) ==
  IF n < start THEN 0 ELSE LET c == n - start + 1
                           IN  IF c > TimerSize THEN TimerSize ELSE c

\* All events are handled: read the clock and enter takeAllTimeout.
TakeBegin ==
  /\ phase = "collect"
  /\ phase' = "take"
  /\ now' = clock
  /\ i' = 0
  /\ cnt' = SweepCount(clock)
  /\ UNCHANGED <<clock, timerVars, itemVars>>

\* One iteration of its loop.
TakeSlot ==
  /\ phase = "take"
  /\ i < cnt
  /\ Join(Timeout, (start_idx + i) % TimerSize)
  /\ i' = i + 1
  /\ UNCHANGED <<phase, clock, now, timerVars, expire, timedout, detached, cnt>>

\* Variant: the wheel does not turn.
TurnKeepsIdx ==
  IF cnt = 0 THEN UNCHANGED timerVars
             ELSE start' = now /\ UNCHANGED start_idx

\* The end of takeAllTimeout: the slot of now becomes the first.
Turn ==
  IF cnt = 0 THEN UNCHANGED timerVars
             ELSE start' = now /\ start_idx' = start_idx + cnt - 1

\* takeAllTimeout returns; the loop marks the swept items and joins them to
\* the active list.
TakeEnd ==
  /\ phase = "take"
  /\ i = cnt
  /\ Turn
  /\ timedout' = [x \in Items |-> timedout[x] \/ parent[x] = Timeout]
  /\ Join(Active, Timeout)
  /\ phase' = "drain"
  /\ i' = 0 /\ cnt' = 0
  /\ UNCHANGED <<clock, now, expire, detached>>

\* Variant: the popped item keeps its parent pointer.
PopKeepsParent(x) ==
  /\ phase = "drain"
  /\ list[Active] # <<>>
  /\ x = Head(list[Active])
  /\ list' = [list EXCEPT ![Active] = Tail(@)]
  /\ UNCHANGED <<phase, clock, now, timerVars, parent, expire, timedout, detached, takeVars>>

\* popHead: the first active item is unlinked and its coroutine resumed.
PopHead(x) ==
  /\ phase = "drain"
  /\ list[Active] # <<>>
  /\ x = Head(list[Active])
  /\ list' = [list EXCEPT ![Active] = Tail(@)]
  /\ parent' = [parent EXCEPT ![x] = NoList]
  /\ UNCHANGED <<phase, clock, now, timerVars, expire, timedout, detached, takeVars>>

\* The active list is empty: the next iteration.
Drained ==
  /\ phase = "drain"
  /\ list[Active] = <<>>
  /\ list' = [list EXCEPT ![Timeout] = <<>>]
  /\ phase' = "collect"
  /\ UNCHANGED <<clock, now, timerVars, parent, expire, timedout, detached, takeVars>>

-----------------------------------------------------------------------------

LoopStep ==
  \/ StartLoop
  \/ TakeBegin
  \/ TakeSlot
  \/ TakeEnd
  \/ Drained
  \/ \E x \in Items : PopHead(x)

Next ==
  \/ LoopStep
  \/ Advance
  \/ StepBack
  \/ \E x \in Items, ms \in Timeouts : Arm(x, ms) \/ ArmRefused(x, ms)
  \/ \E x \in Items : Prepare(x)

Spec == Init /\ [][Next]_vars

-----------------------------------------------------------------------------
(***************************************************************************)
(* Properties.                                                             *)
(***************************************************************************)

On(x, l) == x \in Range(list[l])

\* Every item is on the list its parent pointer names and on no other, at
\* most once: add_tail, join, popHead and remove_from_link keep the pointers
\* and the lists in step, so remove_from_link always unlinks from the right
\* list and add_tail never drops an item silently.
ListsSound ==
  /\ \A l \in Lists : \A j, k \in 1..Len(list[l]) :
       list[l][j] = list[l][k] => j = k
  /\ \A x \in Items, l \in Lists : On(x, l) <=> parent[x] = l

\* Every item in the wheel is in the slot that takeAllTimeout reaches when
\* the clock reads the item's expiry, less than a turn of the wheel ahead,
\* however long the loop was held up and wherever the clock was set.
WheelCoherent ==
  \A x \in Items :
    parent[x] \in Slots =>
      /\ start <= expire[x] /\ expire[x] < start + TimerSize
      /\ parent[x] = SlotOf(expire[x])

\* An item is only marked as timed out when its time has come.
NeverEarly ==
  \A x \in Items :
    parent[x] # NoList /\ timedout[x] => expire[x] <= now

\* Once an iteration has swept the wheel, coroutines are resumed in order:
\* first those with events, then those that timed out, by expiry.
DueOrder ==
  phase = "drain" =>
    \A j, k \in 1..Len(list[Active]) :
      LET a == list[Active][j]
          b == list[Active][k]
      IN  j < k /\ timedout[a] => timedout[b] /\ expire[a] <= expire[b]

\* The invariant of takeAllTimeout's loop, and what it leaves behind: after i
\* slots exactly the items that expire less than i after the start of the
\* wheel are in the timeout list, by expiry; an item in the wheel is neither
\* marked nor detached, and an active one is there for its events until the
\* sweep is over.
SweepSound ==
  /\ phase = "take" =>
       /\ cnt = SweepCount(now) /\ i <= cnt
       /\ \A j, k \in 1..Len(list[Timeout]) :
            j < k => expire[list[Timeout][j]] <= expire[list[Timeout][k]]
  /\ \A x \in Items :
       /\ parent[x] \in Slots =>
            ~timedout[x] /\ ~detached[x] /\ (phase = "take" => expire[x] >= start + i)
       /\ parent[x] = Timeout =>
            phase = "take" /\ ~timedout[x] /\ start <= expire[x] /\ expire[x] < start + i
       /\ parent[x] = Active =>
            phase # "app" /\ (phase # "drain" => detached[x] /\ ~timedout[x])

\* The wheel and its lists implement TimerSpec: an iteration makes ready
\* exactly the items that had events and those that are due.
armed == {x \in Items : parent[x] \in Slots \cup {Timeout}}
ready == {x \in Items : parent[x] = Active}

Abstract == INSTANCE TimerSpec

ImplementsTimerSpec == Abstract!Spec

=============================================================================
