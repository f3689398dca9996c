----------------------------- MODULE TimerSpec ------------------------------
(***************************************************************************)
(* What the event loop promises about the timer items coroutines arm.  An  *)
(* iteration of the loop reads the clock once and then makes ready exactly *)
(* the armed items that had an event and those that expire no later than   *)
(* that reading: none earlier, none left behind.  Every ready item is      *)
(* delivered before the next iteration.  There is no wheel, no list and no *)
(* order here; module EventLoop implements this one.                       *)
(***************************************************************************)
EXTENDS Integers

CONSTANTS
  Items,   \* the timer items, one per poll that can be outstanding
  Clock    \* the readings GetTickMS may return

VARIABLES
  phase,   \* "app" before the loop runs, then the parts of an iteration
  clock,   \* what GetTickMS would return
  now,     \* the loop's last reading
  armed,   \* items waiting for an event or for their time
  ready,   \* items the current iteration has to deliver
  expire   \* the time an armed item waits for

vars == <<phase, clock, now, armed, ready, expire>>

Init ==
  /\ phase = "app"
  /\ clock \in Clock
  /\ now = 0
  /\ armed = {}
  /\ ready = {}
  /\ expire = [x \in Items |-> 0]

Tick ==
  /\ clock' \in Clock
  /\ UNCHANGED <<phase, now, armed, ready, expire>>

Arm(x) ==
  /\ phase \in {"app", "drain"}
  /\ x \notin armed \cup ready
  /\ \E e \in Clock : e >= clock /\ expire' = [expire EXCEPT ![x] = e]
  /\ armed' = armed \cup {x}
  /\ UNCHANGED <<phase, clock, now, ready>>

StartLoop ==
  /\ phase = "app"
  /\ phase' = "collect"
  /\ now' = clock
  /\ UNCHANGED <<clock, armed, ready, expire>>

Event(x) ==
  /\ phase = "collect"
  /\ x \in armed
  /\ armed' = armed \ {x}
  /\ ready' = ready \cup {x}
  /\ UNCHANGED <<phase, clock, now, expire>>

ReadClock ==
  /\ phase = "collect"
  /\ phase' = "take"
  /\ now' = clock
  /\ UNCHANGED <<clock, armed, ready, expire>>

Sweep ==
  /\ phase = "take"
  /\ phase' = "drain"
  /\ LET due == {x \in armed : expire[x] <= now}
     IN  armed' = armed \ due /\ ready' = ready \cup due
  /\ UNCHANGED <<clock, now, expire>>

Deliver(x) ==
  /\ phase = "drain"
  /\ x \in ready
  /\ ready' = ready \ {x}
  /\ UNCHANGED <<phase, clock, now, armed, expire>>

Drained ==
  /\ phase = "drain"
  /\ ready = {}
  /\ phase' = "collect"
  /\ UNCHANGED <<clock, now, armed, ready, expire>>

Next ==
  \/ Tick
  \/ StartLoop
  \/ ReadClock
  \/ Sweep
  \/ Drained
  \/ \E x \in Items : Arm(x) \/ Event(x) \/ Deliver(x)

Spec == Init /\ [][Next]_vars

=============================================================================
