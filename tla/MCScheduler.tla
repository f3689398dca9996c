---------------------------- MODULE MCScheduler -----------------------------
(***************************************************************************)
(* Scheduler for TLC.                                                      *)
(***************************************************************************)
EXTENDS Scheduler

CONSTANTS FirstClock, LastClock     \* the clock readings explored

MCClock == FirstClock..LastClock

Unlimited == [max_timeout_ms |-> -1, timeout |-> FALSE]
LimitOf2 == [max_timeout_ms |-> 2, timeout |-> TRUE]

MCAttrs == {Unlimited, LimitOf2}
MCUnlimited == {Unlimited}
MCLimited == {LimitOf2}

MCPollTimeouts == {-1, 0, 1}
MCForever == {-1}

=============================================================================
