------------------------------ MODULE MCHookIO ------------------------------
(***************************************************************************)
(* HookIO for TLC: two tasks.                                              *)
(***************************************************************************)
EXTENDS HookIO

\* Task 1 accepts connections and transfers data; task 2 writes, too, and
\* opens and closes descriptors.
MCCallsData == [t \in Tasks |-> IF t = 1 THEN {"accept", "read", "write"}
                                ELSE {"write", "manage"}]

\* Task 1 connects, accepts, reads (and may so keep control for ever) and
\* sleeps, while task 2 sleeps, opens, changes and closes the descriptors.
MCCallsSockets == [t \in Tasks |-> IF t = 1 THEN {"accept", "connect", "read", "sleep"}
                                   ELSE {"manage", "sleep"}]

\* An echo server's task accepts and reads, another task sleeps.
MCCallsLimit == [t \in Tasks |-> IF t = 1 THEN {"accept", "read"} ELSE {"sleep"}]

=============================================================================
