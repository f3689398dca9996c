--------------------------- MODULE TaskPoolProofs ---------------------------
(***************************************************************************)
(* TaskPool's invariants, proved for every pool size and every set of      *)
(* attributes.                                                             *)
(*                                                                         *)
(* The inductive invariant is IInv.  None of its conjuncts is inductive    *)
(* alone: that new_task hands out a parked coroutine (FreeListSound) needs *)
(* to know who is on the call stack (CallStackSound), that needs to know   *)
(* that the executing tasks are on it (ControlSound), and the counter      *)
(* (PoolAccounting) needs all of them.                                     *)
(***************************************************************************)
EXTENDS TaskPool, FiniteSetTheorems, TLAPS

-----------------------------------------------------------------------------
(***************************************************************************)
(* The call stack and the free list as sequences.                          *)
(***************************************************************************)

\* coroutine_resume's push leaves the entries below alone.
LEMMA Push ==
  ASSUME NEW S, NEW s \in Seq(S), NEW x \in S
  PROVE  /\ Append(s, x) \in Seq(S)
         /\ Len(Append(s, x)) = Len(s) + 1
         /\ Append(s, x)[Len(s) + 1] = x
         /\ \A k \in 1..Len(s) : Append(s, x)[k] = s[k]
         /\ Range(Append(s, x)) = Range(s) \cup {x}
<1>1. /\ Append(s, x) \in Seq(S)
      /\ Len(Append(s, x)) = Len(s) + 1
      /\ Append(s, x)[Len(s) + 1] = x
      /\ \A k \in 1..Len(s) : Append(s, x)[k] = s[k]
  OBVIOUS
<1>2. DOMAIN Append(s, x) = DOMAIN s \cup {Len(s) + 1}
  OBVIOUS
<1>3. Range(Append(s, x)) = Range(s) \cup {x}
  BY <1>1, <1>2 DEF Range
<1> QED
  BY <1>1, <1>3

\* yield_env's pop removes the last entry only.
LEMMA Pop ==
  ASSUME NEW S, NEW s \in Seq(S), Len(s) >= 1
  PROVE  /\ SubSeq(s, 1, Len(s) - 1) \in Seq(S)
         /\ Len(SubSeq(s, 1, Len(s) - 1)) = Len(s) - 1
         /\ \A k \in 1..(Len(s) - 1) : SubSeq(s, 1, Len(s) - 1)[k] = s[k]
         /\ \A x : x \in Range(s) /\ x # s[Len(s)] =>
                     x \in Range(SubSeq(s, 1, Len(s) - 1))
<1> DEFINE p == SubSeq(s, 1, Len(s) - 1)
<1>1. /\ p \in Seq(S)
      /\ Len(p) = Len(s) - 1
      /\ \A k \in 1..(Len(s) - 1) : p[k] = s[k]
  <2>1. p \in Seq(S)
    OBVIOUS
  <2>2. Len(p) = Len(s) - 1
    <3>1. PICK n \in Nat : n = Len(s)
      OBVIOUS
    <3> QED
      BY <3>1
  <2>3. \A k \in 1..(Len(s) - 1) : p[k] = s[k]
    OBVIOUS
  <2> QED
    BY <2>1, <2>2, <2>3
<1> HIDE DEF p
<1>2. ASSUME NEW x, x \in Range(s), x # s[Len(s)]
      PROVE  x \in Range(p)
  <2>1. PICK k \in 1..Len(s) : s[k] = x
    BY <1>2 DEF Range
  <2>2. k \in 1..(Len(s) - 1)
    BY <2>1, <1>2
  <2>3. k \in DOMAIN p /\ p[k] = x
    BY <1>1, <2>1, <2>2
  <2> QED
    BY <2>3 DEF Range
<1> QED
  BY <1>1, <1>2 DEF p

\* A task returned to the free list becomes its first element.
LEMMA Prepend ==
  ASSUME NEW S, NEW s \in Seq(S), NEW x \in S
  PROVE  /\ <<x>> \o s \in Seq(S)
         /\ Len(<<x>> \o s) = Len(s) + 1
         /\ (<<x>> \o s)[1] = x
         /\ \A k \in 2..(Len(s) + 1) : (<<x>> \o s)[k] = s[k - 1]
         /\ Range(<<x>> \o s) = Range(s) \cup {x}
<1> DEFINE p == <<x>> \o s
<1>1. /\ p \in Seq(S)
      /\ Len(p) = Len(s) + 1
      /\ p[1] = x
      /\ \A k \in 2..(Len(s) + 1) : p[k] = s[k - 1]
  OBVIOUS
<1> HIDE DEF p
<1>2. ASSUME NEW k \in 1..Len(s)
      PROVE  k + 1 \in 1..Len(p) /\ p[k + 1] = s[k]
  <2>1. k + 1 \in 2..(Len(s) + 1) /\ k + 1 \in 1..(Len(s) + 1) /\ (k + 1) - 1 = k
    OBVIOUS
  <2>2. p[k + 1] = s[(k + 1) - 1]
    BY <1>1, <2>1
  <2> QED
    BY <1>1, <2>1, <2>2
<1>3. Range(p) \subseteq Range(s) \cup {x}
  <2>1. SUFFICES ASSUME NEW k \in 1..Len(p) PROVE p[k] \in Range(s) \cup {x}
    BY <1>1 DEF Range
  <2>2. CASE k = 1
    BY <1>1, <2>2
  <2>3. CASE k # 1
    <3>1. k - 1 \in 1..Len(s) /\ p[k] = s[k - 1]
      BY <1>1, <2>3
    <3> QED
      BY <3>1 DEF Range
  <2> QED
    BY <2>2, <2>3
<1>4. Range(s) \cup {x} \subseteq Range(p)
  <2>1. x \in Range(p)
    BY <1>1 DEF Range
  <2>2. \A k \in 1..Len(s) : s[k] \in Range(p)
    BY <1>1, <1>2 DEF Range
  <2> QED
    BY <2>1, <2>2 DEF Range
<1> QED
  BY <1>1, <1>3, <1>4 DEF p

\* new_task takes the first element of a free list without repetitions.
LEMMA TakeFirst ==
  ASSUME NEW S, NEW s \in Seq(S), s # <<>>,
         \A j, k \in 1..Len(s) : s[j] = s[k] => j = k
  PROVE  /\ Head(s) \in Range(s)
         /\ Head(s) \in S
         /\ Tail(s) \in Seq(S)
         /\ Len(Tail(s)) = Len(s) - 1
         /\ \A k \in 1..(Len(s) - 1) : Tail(s)[k] = s[k + 1]
         /\ Range(Tail(s)) = Range(s) \ {Head(s)}
<1> DEFINE t == Tail(s)
<1>1. /\ t \in Seq(S)
      /\ Len(t) = Len(s) - 1
      /\ \A k \in 1..(Len(s) - 1) : t[k] = s[k + 1]
      /\ Head(s) = s[1]
      /\ Len(s) >= 1
  OBVIOUS
<1> HIDE DEF t
<1>2. Head(s) \in Range(s) /\ Head(s) \in S
  BY <1>1 DEF Range
<1>3. Range(t) \subseteq Range(s) \ {Head(s)}
  <2>1. SUFFICES ASSUME NEW k \in 1..(Len(s) - 1)
                 PROVE  t[k] \in Range(s) /\ t[k] # Head(s)
    BY <1>1 DEF Range
  <2>2. k + 1 \in 1..Len(s) /\ 1 \in 1..Len(s) /\ k + 1 # 1
    BY <1>1
  <2>3. s[k + 1] # s[1]
    BY <2>2
  <2> QED
    BY <1>1, <2>2, <2>3 DEF Range
<1>4. Range(s) \ {Head(s)} \subseteq Range(t)
  <2>1. SUFFICES ASSUME NEW k \in 1..Len(s), s[k] # s[1]
                 PROVE  s[k] \in Range(t)
    BY <1>1 DEF Range
  <2>2. k - 1 \in 1..Len(t) /\ t[k - 1] = s[k]
    BY <1>1, <2>1
  <2> QED
    BY <1>1, <2>2 DEF Range
<1> QED
  BY <1>1, <1>2, <1>3, <1>4 DEF t

\* A task that is not on the free list may be returned to it.
LEMMA PrependNoRepeat ==
  ASSUME NEW S, NEW s \in Seq(S), NEW x \in S, x \notin Range(s),
         \A j, k \in 1..Len(s) : s[j] = s[k] => j = k
  PROVE  LET p == <<x>> \o s
         IN  \A j, k \in 1..Len(p) : p[j] = p[k] => j = k
<1> DEFINE p == <<x>> \o s
<1>1. /\ p \in Seq(S)
      /\ Len(p) = Len(s) + 1
      /\ p[1] = x
      /\ \A k \in 2..(Len(s) + 1) : p[k] = s[k - 1]
  BY Prepend
<1> HIDE DEF p
<1>2. PICK n \in Nat : n = Len(s)
  OBVIOUS
<1>3. \A k \in 1..n : s[k] # x
  BY <1>2 DEF Range
<1>4. ASSUME NEW j \in 1..(n + 1), NEW k \in 1..(n + 1), p[j] = p[k]
      PROVE  j = k
  <2>1. CASE j = 1 /\ k # 1
    <3>1. k - 1 \in 1..n /\ p[k] = s[k - 1]
      BY <1>1, <1>2, <2>1
    <3> QED
      BY <1>1, <1>3, <1>4, <2>1, <3>1
  <2>2. CASE j # 1 /\ k = 1
    <3>1. j - 1 \in 1..n /\ p[j] = s[j - 1]
      BY <1>1, <1>2, <2>2
    <3> QED
      BY <1>1, <1>3, <1>4, <2>2, <3>1
  <2>3. CASE j # 1 /\ k # 1
    <3>1. /\ j - 1 \in 1..n /\ p[j] = s[j - 1]
          /\ k - 1 \in 1..n /\ p[k] = s[k - 1]
      BY <1>1, <1>2, <2>3
    <3>2. j - 1 = k - 1
      BY <1>2, <1>4, <3>1, Zenon
    <3> QED
      BY <3>2
  <2> QED
    BY <2>1, <2>2, <2>3
<1> QED
  BY <1>1, <1>2, <1>4 DEF p

\* What new_task leaves of a free list without repetitions has none.
LEMMA TailNoRepeat ==
  ASSUME NEW S, NEW s \in Seq(S), s # <<>>,
         \A j, k \in 1..Len(s) : s[j] = s[k] => j = k
  PROVE  LET t == Tail(s)
         IN  \A j, k \in 1..Len(t) : t[j] = t[k] => j = k
<1> DEFINE t == Tail(s)
<1>1. /\ Len(t) = Len(s) - 1
      /\ \A k \in 1..(Len(s) - 1) : t[k] = s[k + 1]
  BY TakeFirst
<1> HIDE DEF t
<1>2. PICK n \in Nat : n = Len(s)
  OBVIOUS
<1>3. ASSUME NEW j \in 1..(n - 1), NEW k \in 1..(n - 1), t[j] = t[k]
      PROVE  j = k
  <2>1. j + 1 \in 1..n /\ k + 1 \in 1..n /\ s[j + 1] = s[k + 1]
    BY <1>1, <1>2, <1>3
  <2>2. j + 1 = k + 1
    BY <1>2, <2>1
  <2> QED
    BY <2>2
<1> QED
  BY <1>1, <1>2, <1>3 DEF t

-----------------------------------------------------------------------------
USE PoolSizeAssumption, AttrsAssumption

IInv ==
  /\ TypeOK
  /\ CallStackSound
  /\ FreeListSound
  /\ ControlSound
  /\ PoolAccounting
  /\ CallbackOnlyAfterTimeout

-----------------------------------------------------------------------------
(***************************************************************************)
(* Facts about one state.                                                  *)
(***************************************************************************)

\* A set of tasks is no larger than the pool.
LEMMA TaskSets ==
  ASSUME NEW S \in SUBSET Tasks
  PROVE  IsFiniteSet(S) /\ Cardinality(S) \in 0..PoolSize
<1>1. IsFiniteSet(Tasks) /\ Cardinality(Tasks) = PoolSize
  BY FS_Interval DEF Tasks
<1>2. IsFiniteSet(S) /\ Cardinality(S) <= Cardinality(Tasks)
  BY <1>1, FS_Subset
<1> QED
  BY <1>1, <1>2, FS_CardinalityType

\* The running coroutine is on the call stack; when it is main, alone.
LEMMA TopFacts ==
  ASSUME TypeOK, CallStackSound
  PROVE  /\ Len(callstack) \in Nat
         /\ Len(callstack) \in 1..Len(callstack)
         /\ 1 \in 1..Len(callstack)
         /\ Top \in Coroutines
         /\ Top \in Range(callstack)
         /\ Top = Main => \A k \in 1..Len(callstack) : k = 1
         /\ \A t \in Tasks : t # Main /\ (Top = t => Len(callstack) >= 2)
<1>1. PICK n \in Nat : n = Len(callstack)
  BY DEF TypeOK
<1>2. n >= 1 /\ n \in 1..n /\ 1 \in 1..n
  BY <1>1 DEF CallStackSound
<1>3. callstack \in [1..n -> Coroutines] /\ Top = callstack[n]
  BY <1>1 DEF TypeOK, Top
<1>4. Top \in Coroutines /\ Top \in Range(callstack)
  BY <1>2, <1>3 DEF Range
<1>5. Top = Main => n = 1
  BY <1>1, <1>2, <1>3, Zenon DEF CallStackSound
<1>6. \A t \in Tasks : t # Main
  BY DEF Tasks, Main
<1>7. n = 1 => Top = Main
  BY <1>1, <1>2, <1>3 DEF CallStackSound
<1> QED
  BY <1>1, <1>2, <1>4, <1>5, <1>6, <1>7

\* A task that waits in its loop or in a poll is not below the top.
LEMMA OnStack ==
  ASSUME TypeOK, CallStackSound,
         NEW t \in Tasks, t \in Range(callstack), t # Top
  PROVE  pc[t] \in {"user", "callback"}
<1>1. PICK n \in Nat : n = Len(callstack)
  BY DEF TypeOK
<1>2. PICK k \in 1..n : callstack[k] = t
  BY <1>1 DEF TypeOK, Range
<1>3. k # n
  BY <1>1, <1>2 DEF Top
<1>4. k # 1
  BY <1>2, TopFacts DEF CallStackSound
<1>5. k \in 2..(n - 1)
  BY <1>2, <1>3, <1>4
<1> QED
  BY <1>1, <1>2, <1>5 DEF CallStackSound

\* No task is being handed over unless the running coroutine is that task.
LEMMA NoHandoff ==
  ASSUME ControlSound, Top \in Tasks => Top \notin Handoff
  PROVE  Handoff = {}
<1>1. \A t \in Handoff : t \in Tasks /\ Top = t
  BY DEF ControlSound, Handoff
<1> QED
  BY <1>1

-----------------------------------------------------------------------------
(***************************************************************************)
(* What a transfer of control does to the call stack.                      *)
(***************************************************************************)

\* coroutine_resume of a coroutine that is not on the stack, by main or by a
\* task that executes.
LEMMA ResumeSound ==
  ASSUME TypeOK, CallStackSound,
         NEW t \in Tasks, t \notin Range(callstack),
         Top \in Tasks => pc[Top] \in {"user", "callback"},
         callstack' = Append(callstack, t),
         \A u \in Tasks : u # t => pc'[u] = pc[u]
  PROVE  /\ callstack' \in Seq(Coroutines)
         /\ CallStackSound'
         /\ Top' = t
         /\ Range(callstack') = Range(callstack) \cup {t}
<1>1. PICK n \in Nat : n = Len(callstack)
  BY DEF TypeOK
<1>2. t \in Coroutines
  BY DEF Tasks, Coroutines
<1>3. /\ callstack' \in Seq(Coroutines)
      /\ Len(callstack') = n + 1
      /\ callstack'[n + 1] = t
      /\ \A k \in 1..n : callstack'[k] = callstack[k]
      /\ Range(callstack') = Range(callstack) \cup {t}
  BY <1>1, <1>2, Push DEF TypeOK
<1>4. Top' = t
  BY <1>3 DEF Top
<1>5. /\ n \in 1..n /\ 1 \in 1..n
      /\ \A k \in 1..n : callstack[k] \in Coroutines /\ callstack[k] \in Range(callstack)
  <2>1. n \in 1..n /\ 1 \in 1..n
    BY <1>1, TopFacts
  <2>2. callstack \in [1..n -> Coroutines]
    BY <1>1 DEF TypeOK
  <2> QED
    BY <2>1, <2>2 DEF Range
<1>6. callstack'[1] = Main
  BY <1>3, <1>5 DEF CallStackSound
<1>7. ASSUME NEW j \in 1..(n + 1), NEW k \in 1..(n + 1), callstack'[j] = callstack'[k]
      PROVE  j = k
  <2>1. CASE j \in 1..n /\ k \in 1..n
    BY <1>1, <1>3, <1>7, <2>1 DEF CallStackSound
  <2>2. CASE j = n + 1 /\ k \in 1..n
    BY <1>3, <1>5, <1>7, <2>2
  <2>3. CASE j \in 1..n /\ k = n + 1
    BY <1>3, <1>5, <1>7, <2>3
  <2> QED
    BY <2>1, <2>2, <2>3
<1>8. ASSUME NEW k \in 2..n
      PROVE  pc'[callstack'[k]] \in {"user", "callback"}
  <2>1. /\ k \in 1..n /\ callstack'[k] = callstack[k] /\ callstack[k] # t
        /\ callstack[k] \in Coroutines /\ callstack[k] # Main
    BY <1>1, <1>3, <1>5 DEF CallStackSound
  <2>2. callstack[k] \in Tasks
    BY <2>1 DEF Coroutines, Tasks, Main
  <2>3. pc[callstack[k]] \in {"user", "callback"}
    <3>1. CASE k = n
      BY <1>1, <2>2, <3>1 DEF Top
    <3>2. CASE k \in 2..(n - 1)
      BY <1>1, <3>2 DEF CallStackSound
    <3> QED
      BY <3>1, <3>2
  <2> QED
    BY <2>1, <2>2, <2>3
<1>9. CallStackSound'
  BY <1>3, <1>6, <1>7, <1>8 DEF CallStackSound
<1> QED
  BY <1>3, <1>4, <1>9

\* yield_env by a task that is not marked as executing afterwards.
LEMMA YieldSound ==
  ASSUME TypeOK, CallStackSound,
         NEW t \in Tasks, Running(t), Yield,
         \A u \in Tasks : u # t => pc'[u] = pc[u]
  PROVE  /\ callstack' \in Seq(Coroutines)
         /\ CallStackSound'
         /\ \A u \in Range(callstack) : u # t => u \in Range(callstack')
<1>1. PICK n \in Nat : n = Len(callstack)
  BY DEF TypeOK
<1>2. n >= 2 /\ callstack[n] = t
  BY <1>1, TopFacts DEF Running, Top
<1>3. callstack \in [1..n -> Coroutines]
  BY <1>1 DEF TypeOK
<1>4. /\ callstack' \in Seq(Coroutines)
      /\ Len(callstack') = n - 1
      /\ \A k \in 1..(n - 1) : callstack'[k] = callstack[k]
      /\ \A u : u \in Range(callstack) /\ u # t => u \in Range(callstack')
  BY <1>1, <1>2, Pop DEF TypeOK, Yield
<1>5. callstack'[1] = Main
  BY <1>2, <1>4 DEF CallStackSound
<1>6. ASSUME NEW j \in 1..(n - 1), NEW k \in 1..(n - 1), callstack'[j] = callstack'[k]
      PROVE  j = k
  BY <1>1, <1>4, <1>6, SMTT(30) DEF CallStackSound
<1>7. ASSUME NEW k \in 2..(n - 2)
      PROVE  pc'[callstack'[k]] \in {"user", "callback"}
  <2>1. /\ callstack'[k] = callstack[k] /\ callstack[k] \in Coroutines
        /\ callstack[k] # Main /\ callstack[k] # t
    BY <1>1, <1>2, <1>3, <1>4 DEF CallStackSound
  <2>2. callstack[k] \in Tasks
    BY <2>1 DEF Coroutines, Tasks, Main
  <2>3. pc[callstack[k]] \in {"user", "callback"}
    BY <1>1 DEF CallStackSound
  <2> QED
    BY <2>1, <2>2, <2>3
<1>8. CallStackSound'
  BY <1>2, <1>4, <1>5, <1>6, <1>7 DEF CallStackSound
<1> QED
  BY <1>4, <1>8

\* A step that moves only the running task leaves the stack sound.
LEMMA StackKept ==
  ASSUME TypeOK, CallStackSound,
         NEW t \in Tasks, Running(t), UNCHANGED callstack,
         \A u \in Tasks : u # t => pc'[u] = pc[u]
  PROVE  CallStackSound'
<1>1. PICK n \in Nat : n = Len(callstack)
  BY DEF TypeOK
<1>2. callstack[n] = t /\ n \in 1..n
  BY <1>1, TopFacts DEF Running, Top
<1>3. callstack \in [1..n -> Coroutines]
  BY <1>1 DEF TypeOK
<1>4. ASSUME NEW k \in 2..(n - 1)
      PROVE  pc'[callstack'[k]] \in {"user", "callback"}
  <2>1. /\ callstack[k] \in Coroutines
        /\ callstack[k] # Main /\ callstack[k] # t
    BY <1>1, <1>2, <1>3 DEF CallStackSound
  <2>2. callstack[k] \in Tasks
    BY <2>1 DEF Coroutines, Tasks, Main
  <2>3. pc[callstack[k]] \in {"user", "callback"}
    BY <1>1 DEF CallStackSound
  <2> QED
    BY <2>1, <2>2, <2>3
<1> QED
  BY <1>1, <1>4 DEF CallStackSound

-----------------------------------------------------------------------------
(***************************************************************************)
(* Every action preserves IInv.                                            *)
(***************************************************************************)

\* A new thread environment satisfies IInv.
LEMMA InitIInv == Init => IInv
<1> SUFFICES ASSUME Init PROVE IInv
  OBVIOUS
<1>1. TypeOK
  BY DEF Init, TypeOK, MainStates, PcStates, Coroutines, Main, Tasks, ZeroAttr
<1>2. CallStackSound
  BY DEF Init, CallStackSound
<1>3. FreeListSound
  BY DEF Init, FreeListSound, Range
<1>4. ControlSound
  BY DEF Init, ControlSound, Busy, Handoff, Tasks
<1>5. PoolAccounting
  <2>1. Busy = {} /\ Handoff = {}
    BY DEF Init, Busy, Handoff
  <2> QED
    BY <2>1, FS_EmptySet DEF Init, PoolAccounting
<1>6. CallbackOnlyAfterTimeout
  BY DEF Init, CallbackOnlyAfterTimeout
<1> QED
  BY <1>1, <1>2, <1>3, <1>4, <1>5, <1>6 DEF IInv

\* create_thread_taskpool: a new task is parked and enters the free list.
LEMMA CreateTaskIInv == ASSUME IInv, CreateTask PROVE IInv'
<1> DEFINE t == created + 1
<1>1. t \in Tasks /\ t \in Nat /\ created \in Nat /\ t > created
  BY DEF IInv, TypeOK, CreateTask, Tasks
<1>2. /\ fun' = [fun EXCEPT ![t] = "task_main"]
      /\ tstate' = [tstate EXCEPT ![t] = "TASK_WAITING"]
      /\ free' = <<t>> \o free
      /\ Resume(t)
      /\ created' = t
      /\ Top = Main /\ mainpc = "boot"
      /\ UNCHANGED <<mainpc, size, working, attr, timeout>>
  BY DEF CreateTask
<1>3. pc[t] = "none" /\ costate[t] = "INIT" /\ tstate[t] = "none"
  BY <1>1 DEF IInv, ControlSound
<1>4. /\ pc' = [pc EXCEPT ![t] = "loop"]
      /\ costate' = [costate EXCEPT ![t] = "RUNNING"]
      /\ callstack' = Append(callstack, t)
  BY <1>2, <1>3 DEF Resume
<1> HIDE DEF t
<1>5. t \notin Range(callstack) /\ Top \notin Tasks
  BY <1>1, <1>2, <1>3, OnStack, TopFacts, Zenon DEF IInv
<1>6. /\ callstack' \in Seq(Coroutines)
      /\ CallStackSound'
      /\ Range(callstack') = Range(callstack) \cup {t}
  BY <1>1, <1>4, <1>5, ResumeSound DEF IInv, TypeOK
<1>7. /\ free' \in Seq(Tasks)
      /\ Len(free') = Len(free) + 1
      /\ free'[1] = t
      /\ \A k \in 2..(Len(free) + 1) : free'[k] = free[k - 1]
      /\ Range(free') = Range(free) \cup {t}
  BY <1>1, <1>2, Prepend DEF IInv, TypeOK
<1>8. TypeOK'
  BY <1>1, <1>2, <1>4, <1>6, <1>7 DEF IInv, TypeOK, PcStates, Tasks
<1>9. FreeListSound'
  <2>1. t \notin Range(free)
    BY <1>1, <1>3 DEF IInv, FreeListSound
  <2>2. \A j, k \in 1..Len(free') : free'[j] = free'[k] => j = k
    <3>1. free \in Seq(Tasks) /\ t \in Tasks /\ free' = <<t>> \o free
          /\ \A j, k \in 1..Len(free) : free[j] = free[k] => j = k
      BY <1>1, <1>2 DEF IInv, TypeOK, FreeListSound
    <3> QED
      BY <2>1, <3>1, PrependNoRepeat
  <2>3. ASSUME NEW u \in Tasks
        PROVE  /\ u \in Range(free') <=> tstate'[u] = "TASK_WAITING"
               /\ u \in Range(free') => pc'[u] = "loop" /\ fun'[u] # "user"
    BY <1>1, <1>2, <1>4, <1>7, Zenon DEF IInv, TypeOK, FreeListSound
  <2> QED
    BY <2>2, <2>3 DEF FreeListSound
<1>10. Busy' = Busy /\ Handoff' = Handoff
  BY <1>1, <1>2, <1>3, <1>4 DEF IInv, TypeOK, Busy, Handoff
<1>11. Handoff = {}
  BY <1>5, NoHandoff DEF IInv
<1>12. ControlSound'
  <2>1. created' = created + 1 /\ mainpc' = "boot" /\ size' = 0
    BY <1>2 DEF t, IInv, ControlSound
  <2>2. ASSUME NEW u \in Tasks, u # t
        PROVE  u > created' <=> u > created
    BY <1>1, <2>1, <2>2 DEF t, Tasks
  <2>3. ASSUME NEW u \in Tasks, u # t
        PROVE  /\ pc'[u] = pc[u] /\ costate'[u] = costate[u] /\ tstate'[u] = tstate[u]
               /\ u \in Busy' <=> u \in Busy
               /\ u \in Range(callstack) => u \in Range(callstack')
    BY <1>2, <1>4, <1>6, <1>10, <2>3 DEF IInv, TypeOK
  <2>4. /\ pc'[t] = "loop" /\ costate'[t] = "RUNNING" /\ tstate'[t] = "TASK_WAITING"
        /\ ~(t > created') /\ t \notin Busy'
    BY <1>1, <1>2, <1>4, <2>1 DEF t, IInv, TypeOK, Busy
  <2> QED
    BY <1>2, <1>10, <1>11, <2>1, <2>2, <2>3, <2>4 DEF IInv, ControlSound
<1>13. PoolAccounting'
  <2>1. Len(free) \in Nat
    BY DEF IInv, TypeOK
  <2>2. Cardinality(Busy)' = Cardinality(Busy) /\ Cardinality(Handoff)' = Cardinality(Handoff)
    BY <1>10
  <2>3. Cardinality(Handoff) = 0
    BY <1>11, FS_EmptySet
  <2>4. working' = working /\ created' = created + 1 /\ working \in Nat
    BY <1>2 DEF t, IInv, TypeOK
  <2> QED
    BY <1>1, <1>7, <2>1, <2>2, <2>3, <2>4 DEF IInv, PoolAccounting
<1>14. CallbackOnlyAfterTimeout'
  BY <1>1, <1>2, <1>4 DEF IInv, TypeOK, CallbackOnlyAfterTimeout
<1> QED
  BY <1>6, <1>8, <1>9, <1>12, <1>13, <1>14 DEF IInv

\* create_thread_taskpool: the pool is complete.
LEMMA PoolReadyIInv == ASSUME IInv, PoolReady PROVE IInv'
<1> USE DEF PoolReady, taskVars
<1>1. TypeOK'
  BY DEF IInv, TypeOK, MainStates
<1>2. CallStackSound' /\ FreeListSound' /\ CallbackOnlyAfterTimeout'
  BY DEF IInv, CallStackSound, FreeListSound, CallbackOnlyAfterTimeout
<1>3. Busy' = Busy /\ Handoff' = Handoff /\ Top' = Top
  BY DEF Busy, Handoff, Top
<1>4. ControlSound'
  BY <1>3 DEF IInv, ControlSound
<1>5. PoolAccounting'
  BY <1>3 DEF IInv, PoolAccounting
<1> QED
  BY <1>1, <1>2, <1>4, <1>5 DEF IInv

\* main enters coroutine_eventloop.
LEMMA StartLoopIInv == ASSUME IInv, StartLoop PROVE IInv'
<1> USE DEF StartLoop, poolVars, taskVars
<1>1. TypeOK'
  BY DEF IInv, TypeOK, MainStates
<1>2. CallStackSound' /\ FreeListSound' /\ CallbackOnlyAfterTimeout'
  BY DEF IInv, CallStackSound, FreeListSound, CallbackOnlyAfterTimeout
<1>3. Busy' = Busy /\ Handoff' = Handoff /\ Top' = Top
  BY DEF Busy, Handoff, Top
<1>4. ControlSound'
  BY <1>3 DEF IInv, ControlSound
<1>5. PoolAccounting'
  BY <1>3 DEF IInv, PoolAccounting
<1> QED
  BY <1>1, <1>2, <1>4, <1>5 DEF IInv

\* new_task that fails, or an idle iteration of the loop.
LEMMA StutterIInv == ASSUME IInv, UNCHANGED vars PROVE IInv'
<1> USE DEF vars, poolVars, taskVars
<1>1. TypeOK' /\ CallStackSound' /\ FreeListSound' /\ CallbackOnlyAfterTimeout'
  BY DEF IInv, TypeOK, CallStackSound, FreeListSound, CallbackOnlyAfterTimeout
<1>2. Busy' = Busy /\ Handoff' = Handoff /\ Top' = Top
  BY DEF Busy, Handoff, Top
<1>3. ControlSound' /\ PoolAccounting'
  BY <1>2 DEF IInv, ControlSound, PoolAccounting
<1> QED
  BY <1>1, <1>3 DEF IInv

\* new_task's caller executes, so no other task is being handed over and the
\* task it takes is parked: it is neither running nor below the top.
LEMMA CallerFacts ==
  ASSUME IInv, CanCall
  PROVE  /\ Handoff = {}
         /\ Top \in Tasks => pc[Top] \in {"user", "callback"}
         /\ mainpc # "boot"
<1>1. Top \in Tasks => pc[Top] \in {"user", "callback"}
  BY TopFacts DEF IInv, CanCall
<1>2. Handoff = {}
  BY <1>1, NoHandoff DEF IInv, Handoff
<1>3. mainpc # "boot"
  BY DEF IInv, CanCall, ControlSound, Busy
<1> QED
  BY <1>1, <1>2, <1>3

\* new_task: the first free task is handed over and runs.
LEMMA NewTaskIInv == ASSUME IInv, NEW a \in Attrs, NewTask(a) PROVE IInv'
<1> DEFINE t == Head(free)
<1>1. /\ free # <<>> /\ CanCall
      /\ free' = Tail(free)
      /\ fun' = [fun EXCEPT ![t] = "user"]
      /\ tstate' = [tstate EXCEPT ![t] = "TASK_RUNNING"]
      /\ attr' = [attr EXCEPT ![t] = a]
      /\ timeout' = [timeout EXCEPT ![t] = FALSE]
      /\ Resume(t)
      /\ UNCHANGED <<mainpc, created, size, working>>
  BY DEF NewTask, Full, TakeFree, ClearTimeout
<1>2. /\ t \in Range(free) /\ t \in Tasks
      /\ free' \in Seq(Tasks)
      /\ Len(free') = Len(free) - 1
      /\ Range(free') = Range(free) \ {t}
  BY <1>1, TakeFirst DEF IInv, TypeOK, FreeListSound
<1>3. \A j, k \in 1..Len(free') : free'[j] = free'[k] => j = k
  BY <1>1, TailNoRepeat DEF IInv, TypeOK, FreeListSound
<1> HIDE DEF t
<1>4. tstate[t] = "TASK_WAITING" /\ pc[t] = "loop" /\ costate[t] = "RUNNING"
  BY <1>2 DEF IInv, TypeOK, FreeListSound, ControlSound
<1>5. pc' = pc /\ costate' = costate /\ callstack' = Append(callstack, t)
  BY <1>1, <1>2, <1>4 DEF Resume, IInv, TypeOK
<1>6. /\ Handoff = {}
      /\ Top \in Tasks => pc[Top] \in {"user", "callback"}
      /\ mainpc # "boot"
  BY <1>1, CallerFacts
<1>7. t \notin Range(callstack)
  BY <1>2, <1>4, <1>6, OnStack DEF IInv
<1>8. /\ callstack' \in Seq(Coroutines)
      /\ CallStackSound'
      /\ Top' = t
      /\ Range(callstack') = Range(callstack) \cup {t}
  BY <1>2, <1>5, <1>6, <1>7, ResumeSound DEF IInv
<1>9. TypeOK'
  BY <1>1, <1>2, <1>5, <1>8 DEF IInv, TypeOK
<1>10. FreeListSound'
  <2>1. ASSUME NEW u \in Tasks
        PROVE  /\ u \in Range(free') <=> tstate'[u] = "TASK_WAITING"
               /\ u \in Range(free') => pc'[u] = "loop" /\ fun'[u] # "user"
    BY <1>1, <1>2, <1>5 DEF IInv, TypeOK, FreeListSound
  <2> QED
    BY <1>3, <2>1 DEF FreeListSound
<1>11. Busy' = Busy /\ t \notin Busy
  BY <1>4, <1>5 DEF Busy
<1>12. Handoff' = {t}
  BY <1>1, <1>2, <1>4, <1>5, <1>6 DEF Handoff, IInv, TypeOK
<1>13. ControlSound'
  <2>1. ASSUME NEW u \in Tasks
        PROVE  /\ u \in Busy' => u \in Busy /\ u # t
               /\ u # t => tstate'[u] = tstate[u]
               /\ tstate'[t] = "TASK_RUNNING"
               /\ u \in Range(callstack) => u \in Range(callstack')
               /\ u \in Handoff' => Top' = u
    BY <1>1, <1>2, <1>8, <1>11, <1>12 DEF IInv, TypeOK
  <2> QED
    BY <1>1, <1>2, <1>4, <1>5, <1>6, <2>1 DEF IInv, ControlSound
<1>14. PoolAccounting'
  <2>1. Cardinality(Busy)' = Cardinality(Busy)
    BY <1>11
  <2>2. Cardinality(Handoff) = 0 /\ Cardinality(Handoff)' = 1
    BY <1>6, <1>12, FS_EmptySet, FS_Singleton, Zenon
  <2>3. PICK n \in Nat : n = Len(free)
    BY DEF IInv, TypeOK
  <2>4. working \in Nat /\ created = working + n /\ Len(free') = n - 1
    BY <1>2, <2>2, <2>3 DEF IInv, TypeOK, PoolAccounting
  <2> QED
    BY <1>1, <2>1, <2>2, <2>4 DEF IInv, PoolAccounting
<1>15. CallbackOnlyAfterTimeout'
  BY <1>1, <1>2, <1>4, <1>5 DEF IInv, TypeOK, CallbackOnlyAfterTimeout
<1> QED
  BY <1>8, <1>9, <1>10, <1>13, <1>14, <1>15 DEF IInv

\* task_main: a waiting task yields to the one that resumed it.
LEMMA TaskWaitIInv == ASSUME IInv, NEW t \in Tasks, TaskWait(t) PROVE IInv'
<1> USE DEF TaskWait, poolVars, taskVars
<1>1. /\ callstack' \in Seq(Coroutines)
      /\ CallStackSound'
      /\ \A u \in Range(callstack) : u # t => u \in Range(callstack')
  BY YieldSound DEF IInv
<1>2. TypeOK' /\ FreeListSound' /\ CallbackOnlyAfterTimeout'
  BY <1>1 DEF IInv, TypeOK, FreeListSound, CallbackOnlyAfterTimeout
<1>3. Busy' = Busy /\ Handoff' = Handoff
  BY DEF Busy, Handoff
<1>4. Handoff = {}
  BY NoHandoff DEF IInv, Handoff, Running
<1>5. ControlSound'
  BY <1>1, <1>3, <1>4 DEF IInv, ControlSound
<1>6. PoolAccounting'
  BY <1>3 DEF IInv, PoolAccounting
<1> QED
  BY <1>1, <1>2, <1>5, <1>6 DEF IInv

\* task_main: the task that was handed over counts itself.
LEMMA TaskRunIInv == ASSUME IInv, NEW t \in Tasks, TaskRun(t) PROVE IInv'
<1> USE DEF TaskRun, CountIn, taskVars
<1>1. Handoff = {t} /\ Handoff' = {}
  BY DEF IInv, TypeOK, ControlSound, Handoff, Running
<1>2. Busy' = Busy \cup {t} /\ t \notin Busy
  BY DEF IInv, TypeOK, Busy
<1>3. Cardinality(Busy)' = Cardinality(Busy) + 1
  BY <1>2, TaskSets, FS_AddElement, SMTT(30) DEF Busy
<1>4. Cardinality(Busy') \in 0..PoolSize
  <2>1. Busy' \in SUBSET Tasks
    BY DEF Busy
  <2> QED
    BY <2>1, TaskSets
<1>5. TypeOK'
  BY <1>3, <1>4 DEF IInv, TypeOK, PcStates, PoolAccounting
<1>6. CallStackSound'
  BY StackKept DEF IInv, TypeOK
<1>7. FreeListSound' /\ CallbackOnlyAfterTimeout'
  BY DEF IInv, TypeOK, FreeListSound, CallbackOnlyAfterTimeout
<1>8. ControlSound'
  <2>1. t \in Range(callstack)
    BY TopFacts DEF IInv, Running
  <2> QED
    BY <1>1, <1>2, <2>1 DEF IInv, TypeOK, ControlSound
<1>9. PoolAccounting'
  <2>1. Cardinality(Handoff) = 1 /\ Cardinality(Handoff)' = 0
    BY <1>1, FS_EmptySet, FS_Singleton
  <2>2. PICK n \in Nat : n = Len(free)
    BY DEF IInv, TypeOK
  <2> QED
    BY <1>3, <2>1, <2>2 DEF IInv, TypeOK, PoolAccounting
<1> QED
  BY <1>5, <1>6, <1>7, <1>8, <1>9 DEF IInv

\* The task that returns to the free list is the running one, so it is not
\* on that list and no other task is being handed over.
LEMMA ReleaseIInv ==
  ASSUME IInv, NEW t \in Tasks, Running(t), pc[t] \in {"user", "callback"}, Release(t)
  PROVE  IInv'
<1> USE DEF Release, CountOut
<1>1. tstate[t] = "TASK_RUNNING" /\ t \in Busy /\ mainpc # "boot"
  BY DEF IInv, ControlSound, Busy
<1>2. Handoff = {}
  BY NoHandoff DEF IInv, Handoff, Running
<1>3. Handoff' = {}
  BY <1>2 DEF IInv, TypeOK, Handoff
<1>4. Busy' = Busy \ {t}
  BY DEF IInv, TypeOK, Busy
<1>5. Cardinality(Busy)' = Cardinality(Busy) - 1 /\ Cardinality(Busy) \in Nat
  <2>1. IsFiniteSet(Busy) /\ Cardinality(Busy) \in Nat
    BY TaskSets DEF Busy
  <2>2. Cardinality(Busy \ {t}) = Cardinality(Busy) - 1
    BY <1>1, <2>1, FS_RemoveElement, Zenon
  <2> QED
    BY <1>4, <2>1, <2>2
<1>6. Cardinality(Busy') \in 0..PoolSize
  <2>1. Busy' \in SUBSET Tasks
    BY DEF Busy
  <2> QED
    BY <2>1, TaskSets
<1>7. /\ free' \in Seq(Tasks)
      /\ Len(free') = Len(free) + 1
      /\ Range(free') = Range(free) \cup {t}
  BY Prepend DEF IInv, TypeOK
<1>8. TypeOK'
  BY <1>5, <1>6, <1>7 DEF IInv, TypeOK, PcStates, PoolAccounting
<1>9. CallStackSound'
  BY StackKept DEF IInv, TypeOK
<1>10. FreeListSound'
  <2>1. t \notin Range(free)
    BY <1>1 DEF IInv, FreeListSound
  <2>2. \A j, k \in 1..Len(free') : free'[j] = free'[k] => j = k
    BY <2>1, PrependNoRepeat DEF IInv, TypeOK, FreeListSound
  <2>3. ASSUME NEW u \in Tasks
        PROVE  /\ u \in Range(free') <=> tstate'[u] = "TASK_WAITING"
               /\ u \in Range(free') => pc'[u] = "loop" /\ fun'[u] # "user"
    BY <1>7 DEF IInv, TypeOK, FreeListSound
  <2> QED
    BY <2>2, <2>3 DEF FreeListSound
<1>11. ControlSound'
  <2>1. ASSUME NEW u \in Tasks
        PROVE  /\ u # t => tstate'[u] = tstate[u] /\ pc'[u] = pc[u]
               /\ tstate'[t] = "TASK_WAITING" /\ pc'[t] = "loop"
               /\ u \in Busy' => u \in Busy /\ u # t
               /\ u \notin Handoff'
    BY <1>3, <1>4 DEF IInv, TypeOK
  <2> QED
    BY <1>1, <2>1 DEF IInv, ControlSound
<1>12. PoolAccounting'
  <2>1. Cardinality(Handoff) = 0 /\ Cardinality(Handoff)' = 0
    BY <1>2, <1>3, FS_EmptySet
  <2>2. PICK n \in Nat : n = Len(free)
    BY DEF IInv, TypeOK
  <2>3. created = working + n /\ working \in Nat /\ Len(free') = n + 1
    BY <1>7, <2>1, <2>2 DEF IInv, TypeOK, PoolAccounting
  <2> QED
    BY <1>5, <2>1, <2>3 DEF IInv, PoolAccounting
<1>13. CallbackOnlyAfterTimeout'
  BY DEF IInv, TypeOK, CallbackOnlyAfterTimeout
<1> QED
  BY <1>8, <1>9, <1>10, <1>11, <1>12, <1>13 DEF IInv

\* A step of the running task within its function, a callback or a poll:
\* only its pc and its timeout flag change, and it stays busy.
LEMMA BusyStepIInv ==
  ASSUME IInv, NEW t \in Tasks, Running(t), t \in Busy,
         NEW q \in {"user", "callback"},
         pc' = [pc EXCEPT ![t] = q],
         timeout' \in [Tasks -> BOOLEAN],
         CallbackOnlyAfterTimeout',
         UNCHANGED <<mainpc, poolVars, callstack, costate, fun, tstate, attr>>
  PROVE  IInv'
<1> USE DEF poolVars
<1>1. TypeOK'
  BY Zenon DEF IInv, TypeOK, PcStates
<1>2. CallStackSound'
  BY StackKept DEF IInv, TypeOK
<1>3. FreeListSound'
  BY DEF IInv, TypeOK, FreeListSound, Busy
<1>4. Busy' = Busy /\ Handoff' = Handoff /\ Top' = Top
  BY DEF IInv, TypeOK, Busy, Handoff, Top
<1>5. ControlSound'
  <2>1. t \in Range(callstack)
    BY TopFacts DEF IInv, Running
  <2>2. tstate[t] = "TASK_RUNNING" /\ pc[t] # "none"
    BY DEF IInv, ControlSound, Busy
  <2> QED
    BY <1>4, <2>1, <2>2 DEF IInv, TypeOK, ControlSound
<1>6. PoolAccounting'
  BY <1>4 DEF IInv, PoolAccounting
<1> QED
  BY <1>1, <1>2, <1>3, <1>5, <1>6 DEF IInv

\* task_main: the user's function returned, the callback is called.
LEMMA FunReturnTimedOutIInv ==
  ASSUME IInv, NEW t \in Tasks, FunReturnTimedOut(t) PROVE IInv'
<1> USE DEF FunReturnTimedOut, taskVars
<1>1. t \in Busy /\ timeout' \in [Tasks -> BOOLEAN]
  BY DEF Busy, IInv, TypeOK
<1>2. CallbackOnlyAfterTimeout'
  BY DEF IInv, TypeOK, CallbackOnlyAfterTimeout, WantsCallback
<1> QED
  BY <1>1, <1>2, BusyStepIInv, Zenon

\* poll_inner returns to the user's function.
LEMMA PollReturnIInv ==
  ASSUME IInv, NEW t \in Tasks, PollReturn(t) PROVE IInv'
<1> USE DEF PollReturn, taskVars
<1>1. t \in Busy /\ timeout' \in [Tasks -> BOOLEAN]
  BY DEF Busy, IInv, TypeOK
<1>2. CallbackOnlyAfterTimeout'
  BY DEF IInv, TypeOK, CallbackOnlyAfterTimeout
<1> QED
  BY <1>1, <1>2, BusyStepIInv, Zenon

\* fix_coroutine_timeout marks a task with a limit.
LEMMA UserTimesOutIInv ==
  ASSUME IInv, NEW t \in Tasks, UserTimesOut(t) PROVE IInv'
<1> USE DEF UserTimesOut
<1>1. t \in Busy /\ timeout' \in [Tasks -> BOOLEAN] /\ pc' = [pc EXCEPT ![t] = "user"]
  BY DEF Busy, IInv, TypeOK
<1>2. CallbackOnlyAfterTimeout'
  BY DEF IInv, TypeOK, CallbackOnlyAfterTimeout
<1> QED
  BY <1>1, <1>2, BusyStepIInv, Zenon

\* poll_inner suspends a task.
LEMMA UserPollIInv == ASSUME IInv, NEW t \in Tasks, UserPoll(t) PROVE IInv'
<1> USE DEF UserPoll, poolVars, taskVars
<1>1. /\ callstack' \in Seq(Coroutines)
      /\ CallStackSound'
      /\ \A u \in Range(callstack) : u # t => u \in Range(callstack')
  BY YieldSound DEF IInv, TypeOK
<1>2. TypeOK' /\ FreeListSound' /\ CallbackOnlyAfterTimeout'
  BY <1>1 DEF IInv, TypeOK, PcStates, FreeListSound, CallbackOnlyAfterTimeout
<1>3. Busy' = Busy /\ Handoff' = Handoff /\ t \in Busy
  BY DEF IInv, TypeOK, Busy, Handoff
<1>4. Handoff = {}
  BY NoHandoff DEF IInv, Handoff, Running
<1>5. ControlSound'
  BY <1>1, <1>3, <1>4 DEF IInv, TypeOK, ControlSound
<1>6. PoolAccounting'
  BY <1>3 DEF IInv, PoolAccounting
<1> QED
  BY <1>1, <1>2, <1>5, <1>6 DEF IInv

\* process_poll_event resumes a task that polls.
LEMMA WakeIInv == ASSUME IInv, NEW t \in Tasks, Wake(t) PROVE IInv'
<1> USE DEF Wake, poolVars, taskVars
<1>1. costate[t] = "RUNNING" /\ t \in Busy
  BY DEF IInv, TypeOK, ControlSound, Busy
<1>2. pc' = pc /\ costate' = costate /\ callstack' = Append(callstack, t)
  BY <1>1 DEF IInv, TypeOK, Resume
<1>3. t \notin Range(callstack) /\ Top \notin Tasks
  BY OnStack, TopFacts DEF IInv
<1>4. /\ callstack' \in Seq(Coroutines)
      /\ CallStackSound'
      /\ Range(callstack') = Range(callstack) \cup {t}
  BY <1>2, <1>3, ResumeSound DEF IInv
<1>5. TypeOK' /\ FreeListSound' /\ CallbackOnlyAfterTimeout'
  BY <1>2, <1>4 DEF IInv, TypeOK, FreeListSound, CallbackOnlyAfterTimeout
<1>6. Busy' = Busy /\ Handoff' = Handoff /\ Handoff = {}
  BY <1>2, <1>3, NoHandoff DEF IInv, Busy, Handoff
<1>7. ControlSound'
  BY <1>2, <1>4, <1>6 DEF IInv, ControlSound
<1>8. PoolAccounting'
  BY <1>6 DEF IInv, PoolAccounting
<1> QED
  BY <1>4, <1>5, <1>7, <1>8 DEF IInv

-----------------------------------------------------------------------------
(***************************************************************************)
(* The theorems.                                                           *)
(***************************************************************************)

\* No step of main, of a task or of the loop breaks IInv.
LEMMA StepIInv == ASSUME IInv, [Next]_vars PROVE IInv'
<1>1. ASSUME Next PROVE IInv'
  <2>1. CASE MainStep
    BY <1>1, <2>1, CreateTaskIInv, PoolReadyIInv, StartLoopIInv, StutterIInv, WakeIInv
       DEF MainStep, LoopIdle
  <2>2. ASSUME NEW t \in Tasks, TaskStep(t) PROVE IInv'
    <3>1. CASE TaskWait(t)
      BY <1>1, <3>1, TaskWaitIInv
    <3>2. CASE TaskRun(t)
      BY <1>1, <3>2, TaskRunIInv
    <3>3. CASE FunReturn(t)
      BY <1>1, <3>3, ReleaseIInv DEF FunReturn
    <3>4. CASE FunReturnTimedOut(t)
      BY <1>1, <3>4, FunReturnTimedOutIInv
    <3>5. CASE CallbackReturn(t)
      BY <1>1, <3>5, ReleaseIInv DEF CallbackReturn
    <3>6. CASE UserPoll(t)
      BY <1>1, <3>6, UserPollIInv
    <3>7. CASE UserTimesOut(t)
      BY <1>1, <3>7, UserTimesOutIInv
    <3>8. CASE PollReturn(t)
      BY <1>1, <3>8, PollReturnIInv
    <3> QED
      BY <2>2, <3>1, <3>2, <3>3, <3>4, <3>5, <3>6, <3>7, <3>8 DEF TaskStep
  <2>3. ASSUME NEW a \in Attrs, NewTask(a) PROVE IInv'
    BY <1>1, <2>3, NewTaskIInv
  <2>4. CASE NewTaskRefused
    BY <1>1, <2>4, StutterIInv DEF NewTaskRefused
  <2> QED
    BY <1>1, <2>1, <2>2, <2>3, <2>4 DEF Next
<1> QED
  BY <1>1, StutterIInv

\* Whatever tasks do and in whatever order they poll, nest and time out,
\* IInv holds throughout.
THEOREM Inductive == Spec => []IInv
<1>1. IInv /\ [Next]_vars => IInv'
  BY StepIInv
<1> QED
  BY InitIInv, <1>1, PTL DEF Spec

\* The counters stay in range: neither pool->working nor the number of
\* created tasks leaves 0..PoolSize.
THEOREM Types == Spec => []TypeOK
<1>1. IInv => TypeOK
  BY DEF IInv
<1> QED
  BY <1>1, Inductive, PTL

\* The state of a task and the place where its coroutine is always agree, and
\* no task runs before the pool is complete.
THEOREM Control == Spec => []ControlSound
<1>1. IInv => ControlSound
  BY DEF IInv
<1> QED
  BY <1>1, Inductive, PTL

\* pool->working is exact and every created task is accounted for.
THEOREM Accounting == Spec => []PoolAccounting
<1>1. IInv => PoolAccounting
  BY DEF IInv
<1> QED
  BY <1>1, Inductive, PTL

\* new_task only ever takes parked tasks, each at most once.
THEOREM FreeList == Spec => []FreeListSound
<1>1. IInv => FreeListSound
  BY DEF IInv
<1> QED
  BY <1>1, Inductive, PTL

\* A yield always returns to the coroutine that resumed the yielder.
THEOREM CallStack == Spec => []CallStackSound
<1>1. IInv => CallStackSound
  BY DEF IInv
<1> QED
  BY <1>1, Inductive, PTL

\* The timeout callback never runs for a task that did not time out.
THEOREM Callback == Spec => []CallbackOnlyAfterTimeout
<1>1. IInv => CallbackOnlyAfterTimeout
  BY DEF IInv
<1> QED
  BY <1>1, Inductive, PTL

\* The depth of env->callstack is that of the nest of coroutine_new_task
\* calls, for a pool of any size: the entries between the first and the last
\* are different tasks inside their functions.
THEOREM StackBound == Spec => []StackIsNesting
<1>1. ASSUME IInv PROVE StackIsNesting
  <2>1. PICK n \in Nat : n = Len(callstack)
    BY <1>1 DEF IInv, TypeOK
  <2>2. IsFiniteSet(Nested) /\ Cardinality(Nested) \in Nat
    <3>1. IsFiniteSet(Tasks)
      BY FS_Interval DEF Tasks
    <3>2. IsFiniteSet(Nested)
      BY <3>1, FS_Subset DEF Nested
    <3> QED
      BY <3>2, FS_CardinalityType
  <2>3. CASE n <= 2
    BY <2>1, <2>2, <2>3 DEF StackIsNesting
  <2>4. CASE n > 2
    <3> DEFINE between == [k \in 1..(n - 2) |-> callstack[k + 1]]
    <3>1. \A k \in 1..(n - 2) : callstack[k + 1] \in Nested
      <4> SUFFICES ASSUME NEW k \in 1..(n - 2) PROVE callstack[k + 1] \in Nested
        OBVIOUS
      <4>1. k + 1 \in 2..(n - 1) /\ k + 1 \in 1..n /\ 1 \in 1..n /\ k + 1 # 1
        BY <2>4
      <4>2. /\ callstack[k + 1] \in Coroutines /\ callstack[k + 1] # callstack[1]
            /\ callstack[1] = Main
        BY <1>1, <2>1, <4>1 DEF IInv, TypeOK, CallStackSound
      <4>3. callstack[k + 1] \in Tasks
        BY <4>2 DEF Coroutines, Tasks, Main
      <4> QED
        BY <1>1, <2>1, <4>1, <4>3 DEF IInv, CallStackSound, Nested
    <3>2. \A j, k \in 1..(n - 2) : callstack[j + 1] = callstack[k + 1] => j = k
      BY <1>1, <2>1, <2>4 DEF IInv, CallStackSound
    <3>3. between \in Injection(1..(n - 2), Nested)
      BY <3>1, <3>2 DEF Injection, IsInjective
    <3>4. Cardinality(1..(n - 2)) = n - 2
      BY <2>4, FS_Interval
    <3>5. n - 2 <= Cardinality(Nested)
      BY <2>2, <3>3, <3>4, FS_Injection
    <3> QED
      BY <2>1, <2>2, <3>5 DEF StackIsNesting
  <2> QED
    BY <2>1, <2>3, <2>4
<1> QED
  BY <1>1, Inductive, PTL

\* In every state of the invariant neither test of new_task refuses a caller
\* while a task waits.
LEMMA RefusalState == ASSUME IInv PROVE RefusedOnlyWhenBusy
<1> SUFFICES ASSUME CanCall PROVE Full <=> \A t \in Tasks : tstate[t] = "TASK_RUNNING"
  BY DEF RefusedOnlyWhenBusy
<1>1. Handoff = {} /\ mainpc # "boot"
  BY CallerFacts
<1>2. PICK n \in Nat : n = Len(free)
  BY DEF IInv, TypeOK
<1>3. PoolSize = working + n /\ size = PoolSize /\ working \in Nat
  BY <1>1, <1>2, FS_EmptySet DEF IInv, TypeOK, ControlSound, PoolAccounting
<1>4. Full <=> free = <<>>
  BY <1>2, <1>3 DEF Full, IInv, TypeOK
<1>5. \A t \in Tasks : tstate[t] \in {"TASK_RUNNING", "TASK_WAITING"}
  BY <1>1 DEF IInv, TypeOK, ControlSound, Tasks
<1>6. \A t \in Tasks : t \in Range(free) <=> tstate[t] = "TASK_WAITING"
  BY DEF IInv, FreeListSound
<1>7. free = <<>> => Range(free) = {}
  BY DEF Range
<1>8. free # <<>> => Head(free) \in Range(free) /\ Head(free) \in Tasks
  BY TakeFirst DEF IInv, TypeOK, FreeListSound
<1> QED
  BY <1>4, <1>5, <1>6, <1>7, <1>8

\* coroutine_new_task returns -1 exactly when all tasks of the thread are
\* busy.
THEOREM Refusal == Spec => []RefusedOnlyWhenBusy
BY RefusalState, Inductive, PTL

=============================================================================
