-------------------------- MODULE MCContextSwitch ---------------------------
EXTENDS ContextSwitch

\* Two coroutines beside main; their stacks begin at addresses of different
\* alignment.
MCStackStart == [c \in 0..2 |-> <<10000000, 20000008, 30000000>>[c + 1]]

\* Two register files in which no two registers are equal.
MCFiles ==
  {[r \in Registers |-> IF r = "rax" THEN k ELSE k + PopIndex(r)] : k \in {100, 200}}

=============================================================================
