---------------------------- MODULE MCEventLoop -----------------------------
(***************************************************************************)
(* EventLoop for TLC.  The wheel is smaller than the span of the clock, so *)
(* it turns around; the clock may jump over a whole turn, which is what    *)
(* the clamp in takeAllTimeout is for; a timeout may be negative, zero or  *)
(* as large as a slow loop makes too large for the wheel.                  *)
(***************************************************************************)
EXTENDS EventLoop

CONSTANT MaxClock     \* the last clock reading explored

MCClock == 1..MaxClock
MCTimeouts == {-2, 0, 1, 2}

=============================================================================
