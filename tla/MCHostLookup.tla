---------------------------- MODULE MCHostLookup ----------------------------
(***************************************************************************)
(* HostLookup for TLC: one answer fits the first buffer, one does not.     *)
(***************************************************************************)
EXTENDS HostLookup

MCNeedOf == [n \in Names |-> IF n = "short" THEN 100 ELSE 2048]

=============================================================================
