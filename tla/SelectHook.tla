----------------------------- MODULE SelectHook -----------------------------
(***************************************************************************)
(* A hooked task that calls select (hook_sys_call.c).  select asks the     *)
(* system once without waiting; if nothing is ready it converts the sets   *)
(* to a poll array, waits in poll and converts the array back.             *)
(* Descriptors change their state at any time.  The three sets are         *)
(* numbered as in the code's fds[]: 0 readfds, 1 writefds, 2 exceptfds.  A *)
(* null set behaves as an empty one, and the sets hold only descriptors    *)
(* below nfds.                                                             *)
(***************************************************************************)
EXTENDS Integers, FiniteSetsExt

CONSTANTS
  MaxFd,       \* descriptors are 0..MaxFd
  AnyInt       \* what an uninitialised int may hold

ASSUME MaxFdAssumption == MaxFd \in Nat
ASSUME AnyIntAssumption == AnyInt \subseteq Int /\ AnyInt # {}

Fds == 0..MaxFd
Sets == 0..2

VARIABLES
  phase,      \* where the call is
  asked,      \* the sets as the caller passed them
  fds,        \* the sets, as they are now
  poll_fds,   \* the poll array
  raised,     \* history: the elements of the array that poll counted
  ret,        \* the result
  state       \* the kernel's view of each descriptor

selectVars == <<phase, asked, fds, poll_fds, raised, ret, state>>

Flags == {"in", "out", "pri", "err"}

\* What a set of select asks for, and the events that stand for it in poll.
\* An error makes a descriptor readable and writable.
Wanted == [i \in Sets |-> <<{"in", "err"}, {"out", "err"}, {"pri"}>>[i + 1]]
poll_events == [i \in Sets |-> <<{"in"}, {"out"}, {}>>[i + 1]]

SelectTypeOK ==
  /\ phase \in {"idle", "try", "block", "wait", "done"}
  /\ asked \in [Sets -> SUBSET Fds]
  /\ fds \in [Sets -> SUBSET Fds]
  /\ DOMAIN poll_fds \subseteq Nat
  /\ \A j \in DOMAIN poll_fds : poll_fds[j] \in [fd : Fds, events : SUBSET Flags]
  /\ raised \subseteq DOMAIN poll_fds
  /\ ret \in Int
  /\ state \in [Fds -> SUBSET Flags]

SelectInit ==
  /\ phase = "idle"
  /\ asked = [i \in Sets |-> {}]
  /\ fds = asked
  /\ poll_fds = <<>>
  /\ raised = {}
  /\ ret = 0
  /\ state = [f \in Fds |-> {}]

-----------------------------------------------------------------------------

\* The task calls select, with a timeout or without.
Call ==
  /\ phase = "idle"
  /\ phase' \in {"try", "block"}
  /\ asked' \in [Sets -> SUBSET Fds]
  /\ fds' = asked'
  /\ ret' \in AnyInt
  /\ UNCHANGED <<poll_fds, raised, state>>

\* select has returned to the task.
Return ==
  /\ phase = "done"
  /\ phase' = "idle"
  /\ asked' = [i \in Sets |-> {}]
  /\ fds' = asked'
  /\ poll_fds' = <<>>
  /\ raised' = {}
  /\ ret' = 0
  /\ UNCHANGED state

\* The system's select: the descriptors of each set that are ready.
SysSelect == [i \in Sets |-> {f \in asked[i] : state[f] \cap Wanted[i] # {}}]

\* How many descriptors the three sets hold.
Count(s) == Cardinality(s[0]) + Cardinality(s[1]) + Cardinality(s[2])

AnswersAtOnce ==
  /\ Count(SysSelect) > 0
  /\ fds' = SysSelect
  /\ ret' = Count(SysSelect)
  /\ phase' = "done"
  /\ UNCHANGED <<asked, poll_fds, raised, state>>

\* With a timeout the system is asked once, without waiting ...
TryAnswers == phase = "try" /\ AnswersAtOnce

\* ... without one it is asked to wait, and the thread waits with it.
BlockingAnswers == phase = "block" /\ AnswersAtOnce

\* select fails, for instance because a descriptor is not open.
SysFails ==
  /\ phase \in {"try", "block"}
  /\ ret' = -1
  /\ phase' = "done"
  /\ UNCHANGED <<asked, fds, poll_fds, raised, state>>

\* Variant: the loop variable is used after its loop.
FdAfterLoop(set) == Max(set) + 1

\* What the loop over the descriptors of a set leaves in the element.
LastFd(set) == Max(set)

\* The array has an element per descriptor, but is filled by the number of
\* the set: of each set the last descriptor remains.  The other elements are
\* as calloc leaves them, and one that falls behind the end is lost in the
\* slack of the allocated block.
Fill ==
  [j \in 0..(Count(asked) - 1) |->
     IF j \in Sets /\ asked[j] # {} THEN [fd |-> LastFd(asked[j]), events |-> poll_events[j]]
     ELSE [fd |-> 0, events |-> {}]]

\* Nothing is ready: convert and poll, which suspends the task.
Waits ==
  /\ phase = "try"
  /\ Count(SysSelect) = 0
  /\ poll_fds' = Fill
  /\ phase' = "wait"
  /\ UNCHANGED <<asked, fds, raised, ret, state>>

\* poll returns 0 or -1: the sets stay as they are, and ret was never set.
PollEmpty ==
  /\ phase = "wait"
  /\ phase' = "done"
  /\ UNCHANGED <<asked, fds, poll_fds, raised, ret, state>>

\* Variant: poll's events are not looked at.
HitsAll(i) == IF i = 0 THEN DOMAIN poll_fds ELSE {}

\* The elements of the array that the conversion back adds to set i.
Hits(i) ==
  {j \in DOMAIN poll_fds :
     IF i = 2 THEN poll_fds[j].events \ {"in", "out"} # {}
     ELSE poll_events[i] \subseteq poll_fds[j].events}

\* The elements with events now; an error is reported unasked.
HasEvents == {j \in DOMAIN poll_fds : state[poll_fds[j].fd] \cap (poll_fds[j].events \cup {"err"}) # {}}

\* poll returns a positive number: the sets are filled from the array.
PollRaised ==
  /\ phase = "wait"
  /\ raised' \in (SUBSET HasEvents) \ {{}}
  /\ fds' = [i \in Sets |-> fds[i] \cup {poll_fds[j].fd : j \in Hits(i)}]
  /\ ret' = Count([i \in Sets |-> Hits(i)])
  /\ phase' = "done"
  /\ UNCHANGED <<asked, poll_fds, state>>

\* A descriptor gains or loses a condition.
Change(f) ==
  /\ \E e \in Flags : state' = [state EXCEPT ![f] = (@ \cup {e}) \ (@ \cap {e})]
  /\ UNCHANGED <<phase, asked, fds, poll_fds, raised, ret>>

SelectNext ==
  \/ Call
  \/ Return
  \/ TryAnswers
  \/ BlockingAnswers
  \/ SysFails
  \/ Waits
  \/ PollEmpty
  \/ PollRaised
  \/ \E f \in Fds : Change(f)

SelectSpec == SelectInit /\ [][SelectNext]_selectVars

-----------------------------------------------------------------------------
(***************************************************************************)
(* Properties.                                                             *)
(***************************************************************************)

\* select reports no descriptor that it was not asked for, although some
\* elements of its poll array name descriptor 0 for nobody.
NothingInvented == \A i \in Sets : fds[i] \subseteq asked[i]

\* Waiting for one descriptor to become readable works: the array holds just
\* that one, and if poll reports it so does select.
OneReaderRight ==
  Cardinality(asked[0]) = 1 /\ asked[1] = {} /\ asked[2] = {} =>
    /\ phase = "wait" => {poll_fds[j] : j \in DOMAIN poll_fds} =
                           {[fd |-> f, events |-> {"in"}] : f \in asked[0]}
    /\ raised # {} => fds = asked /\ ret = 1

=============================================================================
