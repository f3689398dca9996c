-------------------------- MODULE EchoServerProofs --------------------------
(***************************************************************************)
(* Theorems about EchoServer, for every pool, every set of descriptors and *)
(* any clients.                                                            *)
(*                                                                         *)
(* The inductive invariant is IInv: the pool's own, carried over because   *)
(* every step of the server is a step of the pool or leaves it alone, and  *)
(* EchoInv.  OneHandler is not inductive: that ReadArg fetches the right   *)
(* descriptor needs the task that fetches it to be the running one, so     *)
(* that the listener has not called accept again (Placed); that a new task *)
(* has no connection yet needs Named; that recv does not make an open      *)
(* connection look closed needs Opened.                                    *)
(***************************************************************************)
EXTENDS EchoServer, FiniteSetTheorems, TLAPS

\* The inductive invariant of TaskPool.
PoolInv ==
  /\ Pool!TypeOK
  /\ Pool!CallStackSound
  /\ Pool!FreeListSound
  /\ Pool!ControlSound
  /\ Pool!PoolAccounting
  /\ Pool!CallbackOnlyAfterTimeout

\* A task inside the function of the listener or of echo has been started
\* and is not in its timeout callback; one that has a descriptor to pass on
\* or to fetch is the running one.
Placed ==
  \A t \in Tasks :
    /\ at[t] # "none" => tstate[t] = "TASK_RUNNING" /\ pc[t] # "callback"
    /\ at[t] \in {"spawn", "arg"} => Pool!Top = t /\ pc[t] # "poll"

\* The tasks with a descriptor of their own, and when the listener's is one.
Named ==
  \A t \in Tasks :
    /\ sock[t] # NoFd <=> at[t] \in {"first", "recv", "sys", "send", "close"}
    /\ at[t] \in {"spawn", "arg"} => fd # NoFd

\* A descriptor in use has a client; an abandoned one stays in use.
Opened ==
  \A f \in Fds :
    /\ conn[f].peer = "none" => conn[f] = Closed
    /\ f \in lost => conn[f] # Closed

\* OneHandler, without counting.
Handled ==
  \A f \in Fds :
    /\ conn[f] = Closed \/ f \in lost => Claims(f) = {}
    /\ conn[f] # Closed /\ f \notin lost => \E t \in Tasks : Claims(f) = {t}

EchoInv == Placed /\ Named /\ Opened /\ Handled

Steps == {"none", "accept", "spawn", "arg", "first", "recv", "sys", "send", "close"}

\* TypeOK without the pool's.
OwnTypes ==
  /\ at \in [Tasks -> Steps]
  /\ fd \in Fds \cup {NoFd}
  /\ sock \in [Tasks -> Fds \cup {NoFd}]
  /\ conn \in [Fds -> [peer : {"none", "open", "ended"}, data : BOOLEAN]]
  /\ backlog \in 0..MaxBacklog
  /\ lost \subseteq Fds

IInv == PoolInv /\ OwnTypes /\ EchoInv

-----------------------------------------------------------------------------
(***************************************************************************)
(* One state.                                                              *)
(***************************************************************************)

\* What the steps need of the pool's invariant.
LEMMA PoolFacts ==
  ASSUME PoolInv
  PROVE  /\ pc \in [Tasks -> {"none", "loop", "user", "callback", "poll"}]
         /\ tstate \in [Tasks -> {"none", "TASK_RUNNING", "TASK_WAITING"}]
         /\ costate \in [Tasks -> {"INIT", "RUNNING"}]
         /\ created \in 0..PoolSize
         /\ created < PoolSize => created + 1 \in Tasks /\ tstate[created + 1] = "none"
         /\ \A t \in Tasks : costate[t] = "INIT" <=> pc[t] = "none"
         /\ \A t \in Tasks : t # Pool!Main
BY PoolAssumption DEF PoolInv, Pool!TypeOK, Pool!PcStates, Pool!ControlSound, Tasks, Pool!Tasks,
                      Pool!Main

\* The task that new_task takes is parked.
LEMMA FirstFree ==
  ASSUME PoolInv, free # <<>>
  PROVE  /\ Head(free) \in Tasks
         /\ tstate[Head(free)] = "TASK_WAITING" /\ pc[Head(free)] = "loop"
         /\ costate[Head(free)] = "RUNNING"
<1>1. free \in Seq(Tasks) /\ Len(free) >= 1 /\ Head(free) = free[1]
  BY DEF PoolInv, Pool!TypeOK, Tasks
<1>2. Head(free) \in Tasks /\ Head(free) \in Pool!Range(free)
  BY <1>1 DEF Pool!Range
<1>3. tstate[Head(free)] = "TASK_WAITING" /\ pc[Head(free)] = "loop"
  BY <1>2 DEF PoolInv, Pool!FreeListSound, Tasks
<1> QED
  BY <1>2, <1>3, PoolFacts

\* Only the running task can be about to pass on or to fetch a descriptor.
LEMMA OnlyRunning ==
  ASSUME Placed, NEW t, Pool!Top = t, t \notin Tasks \/ at[t] \notin {"spawn", "arg"}
  PROVE  \A u \in Tasks : at[u] \notin {"spawn", "arg"}
BY DEF Placed

\* A task that has a claim has the only one, to a connection in use.
LEMMA OwnClaim ==
  ASSUME Handled, NEW f \in Fds, NEW t \in Claims(f)
  PROVE  conn[f] # Closed /\ f \notin lost /\ Claims(f) = {t}
BY DEF Handled

-----------------------------------------------------------------------------
(***************************************************************************)
(* Frames.                                                                 *)
(***************************************************************************)

\* A step that starts no function, and leaves control with a task that is
\* about to pass on or to fetch a descriptor, keeps the places of the tasks.
LEMMA PlacedFrame ==
  ASSUME Placed,
         \A t \in Tasks : at'[t] # "none" =>
           at[t] # "none" /\ tstate'[t] = tstate[t] /\ pc'[t] # "callback",
         \/ \A t \in Tasks : at'[t] \notin {"spawn", "arg"}
         \/ /\ callstack' = callstack
            /\ \A t \in Tasks :
                 at'[t] \in {"spawn", "arg"} => at[t] \in {"spawn", "arg"} /\ pc'[t] # "poll"
  PROVE  Placed'
BY DEF Placed, Pool!Top, Tasks

\* A step that leaves the connections and the claims alone.
LEMMA HandledFrame ==
  ASSUME Handled, conn' = conn, lost' = lost, sock' = sock,
         \A t \in Tasks : at'[t] \in {"spawn", "arg"} /\ fd' # NoFd <=>
                          at[t] \in {"spawn", "arg"} /\ fd # NoFd,
         (\E t \in Tasks : at[t] \in {"spawn", "arg"}) => fd' = fd
  PROVE  Handled'
<1>1. \A f \in Fds : Claims(f)' = Claims(f)
  BY FdsAssumption DEF Claims, Tasks, NoFd
<1> QED
  BY <1>1 DEF Handled, Closed

\* What the pool does by itself keeps the places of the tasks.
LEMMA PoolKeepsPlaces ==
  ASSUME PoolInv, Placed, at' = at,
         \/ Pool!CreateTask \/ Pool!PoolReady \/ Pool!StartLoop \/ Pool!LoopIdle
         \/ \E t \in Tasks : \/ Pool!TaskWait(t) \/ Pool!TaskRun(t) \/ Pool!CallbackReturn(t)
                             \/ Pool!PollReturn(t) \/ Pool!Wake(t)
  PROVE  Placed'
<1> USE PoolFacts
<1>1. CASE Pool!CreateTask
  <2>1. \A u \in Tasks : at[u] \notin {"spawn", "arg"}
    BY <1>1, OnlyRunning DEF Pool!CreateTask
  <2>2. at[created + 1] = "none" /\ created + 1 \in Tasks
    BY <1>1 DEF Pool!CreateTask, Placed
  <2>3. /\ tstate' = [tstate EXCEPT ![created + 1] = "TASK_WAITING"]
        /\ pc' = pc \/ pc' = [pc EXCEPT ![created + 1] = "loop"]
    BY <1>1 DEF Pool!CreateTask, Pool!Resume
  <2> QED
    BY <2>1, <2>2, <2>3, PlacedFrame DEF Placed
<1>2. CASE Pool!PoolReady \/ Pool!StartLoop \/ Pool!LoopIdle
  BY <1>2 DEF Pool!PoolReady, Pool!StartLoop, Pool!LoopIdle, Pool!vars, Pool!taskVars,
              Pool!poolVars, Placed, Pool!Top, Tasks
<1>3. ASSUME NEW t \in Tasks, Pool!TaskWait(t) PROVE Placed'
  <2>1. at[t] = "none"
    BY <1>3 DEF Pool!TaskWait, Placed
  <2>2. \A u \in Tasks : at[u] \notin {"spawn", "arg"}
    BY <1>3, <2>1, OnlyRunning DEF Pool!TaskWait, Pool!Running
  <2> QED
    BY <1>3, <2>2, PlacedFrame DEF Pool!TaskWait, Pool!taskVars, Placed
<1>4. ASSUME NEW t \in Tasks, Pool!TaskRun(t) PROVE Placed'
  <2>1. pc' = [pc EXCEPT ![t] = "user"] /\ tstate' = tstate /\ callstack' = callstack
    BY <1>4 DEF Pool!TaskRun, Pool!taskVars
  <2> QED
    BY <2>1, PlacedFrame DEF Placed
<1>5. ASSUME NEW t \in Tasks, Pool!CallbackReturn(t) PROVE Placed'
  <2>1. at[t] = "none"
    BY <1>5 DEF Pool!CallbackReturn, Placed
  <2>2. /\ pc' = [pc EXCEPT ![t] = "loop"] /\ tstate' = [tstate EXCEPT ![t] = "TASK_WAITING"]
        /\ callstack' = callstack
    BY <1>5 DEF Pool!CallbackReturn, Pool!Release
  <2> QED
    BY <2>1, <2>2, PlacedFrame DEF Placed
<1>6. ASSUME NEW t \in Tasks, Pool!PollReturn(t) PROVE Placed'
  <2>1. pc' = [pc EXCEPT ![t] = "user"] /\ tstate' = tstate /\ callstack' = callstack
    BY <1>6 DEF Pool!PollReturn, Pool!taskVars
  <2> QED
    BY <2>1, PlacedFrame DEF Placed
<1>7. ASSUME NEW t \in Tasks, Pool!Wake(t) PROVE Placed'
  <2>1. \A u \in Tasks : at[u] \notin {"spawn", "arg"}
    BY <1>7, OnlyRunning DEF Pool!Wake
  <2>2. pc' = pc /\ tstate' = tstate
    BY <1>7 DEF Pool!Wake, Pool!Resume, Pool!taskVars
  <2> QED
    BY <2>1, <2>2, PlacedFrame DEF Placed
<1> QED
  BY <1>1, <1>2, <1>3, <1>4, <1>5, <1>6, <1>7

\* A poll of a task that is not about to pass on or to fetch a descriptor.
LEMMA PollKeepsPlaces ==
  ASSUME PoolInv, Placed, NEW t \in Tasks,
         Pool!Running(t), at[t] \notin {"none", "spawn", "arg"},
         NEW q \in {"accept", "recv", "sys", "send"}, at' = [at EXCEPT ![t] = q],
         at \in [Tasks -> Steps],
         Pool!UserPoll(t) \/ Pool!UserTimesOut(t) \/ UNCHANGED poolVars
  PROVE  Placed'
<1>1. \A u \in Tasks : at[u] \notin {"spawn", "arg"}
  BY OnlyRunning DEF Pool!Running
<1>2. tstate' = tstate /\ (pc' = pc \/ pc' = [pc EXCEPT ![t] = "poll"])
  BY DEF Pool!UserPoll, Pool!UserTimesOut, poolVars, Pool!taskVars
<1> QED
  BY <1>1, <1>2, PoolFacts, PlacedFrame DEF Placed

-----------------------------------------------------------------------------
(***************************************************************************)
(* The steps.                                                              *)
(***************************************************************************)

\* Library, LoopIdle, Wake and StartLoop.
LEMMA PoolSteps ==
  ASSUME IInv, StartLoop \/ Library \/ LoopIdle \/ \E t \in Tasks : Wake(t)
  PROVE  OwnTypes' /\ EchoInv'
<1>1. UNCHANGED own
  BY DEF StartLoop, Library, LoopIdle, Wake
<1>2. Placed'
  <2>1. at' = at
    BY <1>1 DEF own
  <2>2. \/ Pool!CreateTask \/ Pool!PoolReady \/ Pool!StartLoop \/ Pool!LoopIdle
        \/ \E t \in Tasks : \/ Pool!TaskWait(t) \/ Pool!TaskRun(t) \/ Pool!CallbackReturn(t)
                            \/ Pool!PollReturn(t) \/ Pool!Wake(t)
    BY DEF StartLoop, Library, LoopIdle, Wake
  <2> QED
    BY <2>1, <2>2, PoolKeepsPlaces DEF IInv, EchoInv
<1>3. Handled'
  BY <1>1, HandledFrame DEF IInv, EchoInv, own
<1> QED
  BY <1>1, <1>2, <1>3 DEF IInv, EchoInv, OwnTypes, Named, Opened, own, Tasks, Closed

\* main starts the listener.
LEMMA StartListenerStep ==
  ASSUME IInv, StartListener
  PROVE  OwnTypes' /\ EchoInv'
<1> DEFINE h == Head(free)
<1>1. /\ free # <<>> /\ at' = [at EXCEPT ![h] = "accept"]
      /\ UNCHANGED <<fd, sock, conn, backlog, lost>>
      /\ \A t \in Tasks : at[t] = "none"
      /\ tstate' = [tstate EXCEPT ![h] = "TASK_RUNNING"]
      /\ Pool!Resume(h)
  BY DEF StartListener, Pool!NewTask, Pool!Full, Goes, Started
<1>2. h \in Tasks /\ pc[h] = "loop" /\ costate[h] = "RUNNING"
  BY <1>1, FirstFree DEF IInv
<1> HIDE DEF h
<1>3. /\ at' \in [Tasks -> Steps]
      /\ \A t \in Tasks : at'[t] = IF t = h THEN "accept" ELSE "none"
  BY <1>1, <1>2 DEF IInv, OwnTypes, Steps
<1>4. Placed'
  <2>1. pc' = pc
    BY <1>1, <1>2 DEF Pool!Resume
  <2> QED
    BY <1>1, <1>2, <1>3, <2>1, PoolFacts DEF Placed, IInv, Tasks
<1>5. Handled'
  BY <1>1, <1>3, HandledFrame DEF IInv, EchoInv
<1>6. Named'
  BY <1>1, <1>3 DEF IInv, EchoInv, Named, Tasks
<1> QED
  BY <1>1, <1>3, <1>4, <1>5, <1>6 DEF IInv, EchoInv, OwnTypes, Opened, Tasks, Closed

\* What the running task knows when it is at step q of its function.
LEMMA AtStep ==
  ASSUME IInv, NEW t \in Tasks, NEW q, In(t, q)
  PROVE  /\ Pool!Top = t /\ at[t] = q /\ pc[t] = "user"
         /\ q \notin {"spawn", "arg"} => \A u \in Tasks : at[u] \notin {"spawn", "arg"}
         /\ q \in {"spawn", "arg"} =>
              /\ fd \in Fds /\ sock[t] = NoFd /\ t \in Claims(fd)
              /\ \A u \in Tasks : u # t => at[u] \notin {"spawn", "arg"}
         /\ q \in {"first", "recv", "sys", "send", "close"} =>
              sock[t] \in Fds /\ t \in Claims(sock[t])
BY DEF In, IInv, EchoInv, OwnTypes, Placed, Named, Pool!Running, Claims

\* A poll of the listener or of an echo task, in accept, recv or send.
LEMMA PollSteps ==
  ASSUME IInv, NEW t \in Tasks, AcceptWaits(t) \/ SendWaits(t) \/ RecvPoll(t)
  PROVE  OwnTypes' /\ EchoInv'
<1>1. PICK q \in {"accept", "first", "recv", "send"} : In(t, q)
  BY DEF AcceptWaits, SendWaits, RecvPoll
<1>2. /\ Pool!Running(t) /\ at[t] = q /\ Pool!Top = t
      /\ \A u \in Tasks : at[u] \notin {"spawn", "arg"}
  BY <1>1, AtStep DEF Pool!Running
<1>3. UNCHANGED <<fd, sock, conn, backlog, lost>>
  BY DEF AcceptWaits, SendWaits, RecvPoll, own
<1>4. /\ Pool!UserPoll(t) \/ Pool!UserTimesOut(t) \/ UNCHANGED poolVars
      /\ at' = [at EXCEPT ![t] = IF q \in {"first", "recv"} THEN "sys" ELSE q]
  BY <1>2 DEF AcceptWaits, SendWaits, RecvPoll, own, In, Goes, IInv, OwnTypes
<1>5. at' \in [Tasks -> Steps]
  BY <1>4 DEF IInv, OwnTypes, Steps
<1>6. Placed'
  BY <1>2, <1>4, PollKeepsPlaces, ZenonT(30) DEF IInv, EchoInv, OwnTypes
<1>7. \A u \in Tasks : at'[u] \notin {"spawn", "arg"}
  BY <1>2, <1>4 DEF IInv, OwnTypes
<1>8. Handled'
  BY <1>2, <1>3, <1>7, HandledFrame DEF IInv, EchoInv
<1>9. Named'
  BY <1>2, <1>3, <1>4, <1>7 DEF IInv, EchoInv, Named, OwnTypes, Tasks
<1> QED
  BY <1>3, <1>5, <1>6, <1>8, <1>9 DEF IInv, EchoInv, OwnTypes, Opened, Tasks, Closed

\* accept gives the listener a connection that nobody has a claim to.
LEMMA AcceptStep ==
  ASSUME IInv, NEW t \in Tasks, Accept(t)
  PROVE  OwnTypes' /\ EchoInv'
<1>1. /\ Pool!Top = t /\ at[t] = "accept" /\ pc[t] = "user"
      /\ \A u \in Tasks : at[u] \notin {"spawn", "arg"}
  BY AtStep DEF Accept
<1>2. PICK f \in Fds : /\ conn[f] = Closed /\ fd' = f
                       /\ conn' = [conn EXCEPT ![f].peer = "open"]
  BY ZenonT(30) DEF Accept
<1>3. /\ backlog > 0 /\ backlog' = backlog - 1
      /\ at' = [at EXCEPT ![t] = "spawn"]
      /\ UNCHANGED <<poolVars, sock, lost>>
  BY DEF Accept, Goes
<1>4. OwnTypes'
  BY <1>2, <1>3, BacklogAssumption DEF IInv, OwnTypes, Steps, Tasks
<1>5. Placed'
  BY <1>1, <1>3 DEF IInv, EchoInv, OwnTypes, Placed, poolVars, Pool!Top, Tasks
<1>6. Named'
  BY <1>1, <1>2, <1>3, FdsAssumption DEF IInv, EchoInv, OwnTypes, Named, NoFd, Tasks
<1>7. /\ \A g \in Fds : g # f => conn'[g] = conn[g]
      /\ conn'[f].peer = "open" /\ conn'[f] # Closed
  BY <1>2 DEF IInv, OwnTypes, Closed
<1>8. Opened'
  BY <1>2, <1>3, <1>7 DEF IInv, EchoInv, Opened, Closed
<1>9. Handled'
  <2>1. Claims(f) = {} /\ f \notin lost
    BY <1>2 DEF IInv, EchoInv, Handled, Opened
  <2>2. Claims(f)' = {t}
    BY <1>1, <1>2, <1>3, <2>1 DEF IInv, OwnTypes, Claims, Tasks
  <2>3. \A g \in Fds : g # f => Claims(g)' = Claims(g)
    BY <1>1, <1>2, <1>3 DEF IInv, OwnTypes, Claims, Tasks
  <2> QED
    BY <1>3, <1>7, <2>1, <2>2, <2>3 DEF IInv, EchoInv, Handled, Closed, Tasks
<1> QED
  BY <1>4, <1>5, <1>6, <1>8, <1>9 DEF EchoInv

\* accept fails: the listener has passed on what fd held before.
LEMMA AcceptFailsStep ==
  ASSUME IInv, NEW t \in Tasks, AcceptFails(t)
  PROVE  OwnTypes' /\ EchoInv'
<1>1. \A u \in Tasks : at[u] \notin {"spawn", "arg"}
  BY AtStep DEF AcceptFails
<1>2. fd' = NoFd /\ UNCHANGED <<poolVars, at, sock, conn, backlog, lost>>
  BY DEF AcceptFails
<1>3. Handled'
  BY <1>1, <1>2, HandledFrame DEF IInv, EchoInv
<1> QED
  BY <1>1, <1>2, <1>3
     DEF IInv, EchoInv, OwnTypes, Placed, Named, Opened, poolVars, Pool!Top, Tasks, Closed

\* The listener hands its connection to a new task, which has no other.
LEMMA SpawnStep ==
  ASSUME IInv, NEW t \in Tasks, In(t, "spawn"),
         Pool!NewTask(EchoAttr), at' = [at EXCEPT ![t] = "accept", ![Head(free)] = "arg"],
         UNCHANGED <<fd, sock, conn, backlog, lost>>
  PROVE  OwnTypes' /\ EchoInv'
<1> DEFINE h == Head(free)
<1>1. /\ fd \in Fds /\ sock[t] = NoFd /\ t \in Claims(fd) /\ at[t] = "spawn" /\ pc[t] = "user"
      /\ \A u \in Tasks : u # t => at[u] \notin {"spawn", "arg"}
  BY AtStep
<1>2. /\ free # <<>> /\ Pool!Resume(h)
      /\ tstate' = [tstate EXCEPT ![h] = "TASK_RUNNING"]
  BY DEF Pool!NewTask, Pool!Full
<1>3. h \in Tasks /\ tstate[h] = "TASK_WAITING" /\ pc[h] = "loop" /\ costate[h] = "RUNNING"
  BY <1>2, FirstFree DEF IInv
<1>4. at' = [at EXCEPT ![t] = "accept", ![h] = "arg"]
  OBVIOUS
<1> HIDE DEF h
<1>5. h # t /\ at[h] = "none" /\ sock[h] = NoFd
  BY <1>1, <1>3 DEF IInv, EchoInv, OwnTypes, Placed, Named
<1>6. OwnTypes'
  BY <1>3, <1>4, ZenonT(30) DEF IInv, OwnTypes, Steps, Tasks
<1>7. /\ at'[t] = "accept" /\ at'[h] = "arg"
      /\ \A u \in Tasks : u # t /\ u # h => at'[u] = at[u]
  BY <1>3, <1>4, <1>5 DEF IInv, OwnTypes
<1>8. Placed'
  <2>1. pc' = pc
    BY <1>2, <1>3 DEF Pool!Resume
  <2>2. callstack \in Seq(Pool!Coroutines) /\ callstack' = Append(callstack, h)
    BY <1>2 DEF IInv, PoolInv, Pool!TypeOK, Pool!Resume
  <2>3. Pool!Top' = h
    BY <2>2 DEF Pool!Top
  <2>4. \A u \in Tasks : at'[u] \in {"spawn", "arg"} => u = h
    BY <1>1, <1>7
  <2>5. \A u \in Tasks : at'[u] # "none" => tstate'[u] = "TASK_RUNNING" /\ pc'[u] # "callback"
    BY <1>1, <1>2, <1>3, <1>7, <2>1, PoolFacts DEF IInv, EchoInv, Placed
  <2> QED
    BY <1>3, <2>1, <2>3, <2>4, <2>5, ZenonT(30) DEF Placed, Tasks
<1>9. Named'
  <2>1. \A u \in Tasks : sock[u] # NoFd <=> at'[u] \in {"first", "recv", "sys", "send", "close"}
    BY <1>1, <1>5, <1>7, ZenonT(30) DEF IInv, EchoInv, Named
  <2>2. fd # NoFd
    BY <1>1, FdsAssumption
  <2> QED
    BY <2>1, <2>2, ZenonT(30) DEF Named, NoFd, Tasks
<1>10. Handled'
  <2>1. Claims(fd) = {t} /\ conn[fd] # Closed /\ fd \notin lost
    BY <1>1, OwnClaim DEF IInv, EchoInv
  <2>2. Claims(fd)' = {h}
    <3>1. \A u \in Tasks : sock[u] # fd
      BY <1>1, <2>1, FdsAssumption DEF Claims
    <3> QED
      BY <1>1, <1>3, <1>7, <3>1, ZenonT(30) DEF Claims, Tasks
  <2>3. \A g \in Fds : g # fd => Claims(g)' = Claims(g)
    BY DEF Claims, Tasks
  <2> QED
    BY <1>1, <1>3, <2>1, <2>2, <2>3 DEF IInv, EchoInv, Handled, Closed, Tasks
<1> QED
  BY <1>6, <1>8, <1>9, <1>10 DEF IInv, EchoInv, Opened, Closed

\* coroutine_new_task is refused: the connection is nobody's from now on.
LEMMA SpawnRefusedStep ==
  ASSUME IInv, NEW t \in Tasks, In(t, "spawn"),
         Pool!NewTaskRefused, Goes(t, "accept"), lost' = lost \cup {fd},
         UNCHANGED <<fd, sock, conn, backlog>>
  PROVE  OwnTypes' /\ EchoInv'
<1>1. /\ fd \in Fds /\ sock[t] = NoFd /\ t \in Claims(fd) /\ at[t] = "spawn" /\ pc[t] = "user"
      /\ \A u \in Tasks : u # t => at[u] \notin {"spawn", "arg"}
  BY AtStep
<1>2. at' = [at EXCEPT ![t] = "accept"]
  BY DEF Goes
<1>3. UNCHANGED <<callstack, pc, tstate>>
  BY DEF Pool!NewTaskRefused, Pool!vars, Pool!taskVars
<1>4. OwnTypes'
  BY <1>1, <1>2 DEF IInv, OwnTypes, Steps, Tasks
<1>5. \A u \in Tasks : /\ at'[u] = IF u = t THEN "accept" ELSE at[u]
                       /\ at'[u] \notin {"spawn", "arg"}
  BY <1>1, <1>2 DEF IInv, OwnTypes
<1>6. Placed'
  BY <1>1, <1>3, <1>5, PoolFacts, PlacedFrame DEF IInv, EchoInv, Placed
<1>7. Claims(fd) = {t} /\ conn[fd] # Closed /\ fd \notin lost
  BY <1>1, OwnClaim DEF IInv, EchoInv
<1>8. Named' /\ Opened'
  BY <1>1, <1>5, <1>7 DEF IInv, EchoInv, Named, Opened, NoFd, Tasks, Closed
<1>9. Handled'
  <2>1. Claims(fd)' = {}
    BY <1>1, <1>5, <1>7, FdsAssumption DEF Claims, NoFd, Tasks
  <2>2. \A g \in Fds : g # fd => Claims(g)' = Claims(g)
    BY <1>5 DEF Claims, Tasks
  <2> QED
    BY <1>1, <1>7, <2>1, <2>2 DEF IInv, EchoInv, Handled, Closed, Tasks
<1> QED
  BY <1>4, <1>6, <1>8, <1>9 DEF EchoInv

\* The echo task fetches its descriptor: the listener's variable still holds
\* the one it was started for, because no other task has run since.
LEMMA ReadArgStep ==
  ASSUME IInv, NEW t \in Tasks, ReadArg(t)
  PROVE  OwnTypes' /\ EchoInv'
<1>1. /\ fd \in Fds /\ sock[t] = NoFd /\ t \in Claims(fd) /\ at[t] = "arg" /\ pc[t] = "user"
      /\ \A u \in Tasks : u # t => at[u] \notin {"spawn", "arg"}
  BY AtStep DEF ReadArg
<1>2. /\ sock' = [sock EXCEPT ![t] = fd] /\ at' = [at EXCEPT ![t] = "first"]
      /\ UNCHANGED <<poolVars, fd, conn, backlog, lost>>
  BY DEF ReadArg, Goes
<1>3. OwnTypes'
  BY <1>1, <1>2 DEF IInv, OwnTypes, Steps, Tasks
<1>4. \A u \in Tasks : /\ at'[u] = IF u = t THEN "first" ELSE at[u]
                       /\ sock'[u] = IF u = t THEN fd ELSE sock[u]
                       /\ at'[u] \notin {"spawn", "arg"}
  BY <1>1, <1>2 DEF IInv, OwnTypes
<1>5. Placed'
  BY <1>1, <1>2, <1>4, PoolFacts, PlacedFrame DEF IInv, EchoInv, Placed, poolVars
<1>6. Named'
  BY <1>1, <1>4, FdsAssumption DEF IInv, EchoInv, Named, NoFd, Tasks
<1>7. Handled'
  <2>1. \A f \in Fds : Claims(f)' = Claims(f)
    BY <1>1, <1>4, FdsAssumption DEF Claims, NoFd, Tasks
  <2> QED
    BY <1>2, <2>1 DEF IInv, EchoInv, Handled, Closed, Tasks
<1> QED
  BY <1>2, <1>3, <1>5, <1>6, <1>7 DEF IInv, EchoInv, Opened, Closed

\* A step within recv or send: the task keeps its connection, which stays open.
LEMMA EchoGoesOn ==
  ASSUME IInv, NEW t \in Tasks, RecvSys(t) \/ Send(t)
  PROVE  OwnTypes' /\ EchoInv'
<1>1. /\ sock[t] \in Fds /\ t \in Claims(sock[t]) /\ at[t] \in {"sys", "send"} /\ pc[t] = "user"
      /\ \A u \in Tasks : at[u] \notin {"spawn", "arg"}
  BY AtStep DEF RecvSys, Send
<1>2. PICK f \in Fds : f = sock[t]
  BY <1>1
<1>3. PICK q \in {"recv", "send", "close"} : at' = [at EXCEPT ![t] = q]
  BY DEF RecvSys, Send, Goes, AfterEnd
<1>4. /\ conn' = conn \/ conn' = [conn EXCEPT ![f].data = FALSE]
      /\ UNCHANGED <<poolVars, fd, sock, backlog, lost>>
  BY <1>2 DEF RecvSys, Send
<1>5. OwnTypes'
  <2>1. at' \in [Tasks -> Steps]
    BY <1>3 DEF IInv, OwnTypes, Steps
  <2>2. conn' \in [Fds -> [peer : {"none", "open", "ended"}, data : BOOLEAN]]
    BY <1>4, ZenonT(30) DEF IInv, OwnTypes
  <2> QED
    BY <1>4, <2>1, <2>2 DEF IInv, OwnTypes, Tasks
<1>6. \A u \in Tasks : /\ at'[u] = IF u = t THEN q ELSE at[u]
                       /\ at'[u] \notin {"spawn", "arg"}
  BY <1>1, <1>3 DEF IInv, OwnTypes
<1>7. Placed'
  BY <1>1, <1>4, <1>6, PoolFacts, PlacedFrame DEF IInv, EchoInv, Placed, poolVars
<1>8. Named'
  BY <1>1, <1>4, <1>6, FdsAssumption DEF IInv, EchoInv, Named, NoFd, Tasks
<1>9. conn[f].peer # "none"
  BY <1>1, <1>2, OwnClaim DEF IInv, EchoInv, Opened
<1>10. \A g \in Fds : /\ conn'[g].peer = conn[g].peer
                      /\ conn'[g] = Closed <=> conn[g] = Closed
  <2>1. conn'[f].peer = conn[f].peer /\ \A g \in Fds : g # f => conn'[g] = conn[g]
    BY <1>4 DEF IInv, OwnTypes
  <2>2. conn'[f] # Closed /\ conn[f] # Closed
    BY <1>9, <2>1 DEF Closed
  <2> QED
    BY <2>1, <2>2
<1>11. Handled'
  <2>1. \A g \in Fds : Claims(g)' = Claims(g)
    BY <1>1, <1>4, <1>6 DEF Claims, Tasks
  <2> QED
    BY <1>4, <1>10, <2>1 DEF IInv, EchoInv, Handled, Closed, Tasks
<1> QED
  BY <1>4, <1>5, <1>7, <1>8, <1>10, <1>11 DEF IInv, EchoInv, Opened, Closed

\* echo closes its connection, gives up its claim and returns.
LEMMA CloseStep ==
  ASSUME IInv, NEW t \in Tasks, CloseAndReturn(t)
  PROVE  OwnTypes' /\ EchoInv'
<1>1. /\ sock[t] \in Fds /\ t \in Claims(sock[t])
      /\ \A u \in Tasks : at[u] \notin {"spawn", "arg"}
  BY AtStep DEF CloseAndReturn
<1>2. PICK f \in Fds : f = sock[t]
  BY <1>1
<1>3. /\ conn' = [conn EXCEPT ![f] = Closed] /\ sock' = [sock EXCEPT ![t] = NoFd]
      /\ at' = [at EXCEPT ![t] = "none"] /\ UNCHANGED <<fd, backlog, lost>>
  BY <1>2 DEF CloseAndReturn, Goes
<1>4. OwnTypes'
  <2>1. Closed \in [peer : {"none", "open", "ended"}, data : BOOLEAN]
    BY DEF Closed
  <2> QED
    BY <1>3, <2>1 DEF IInv, OwnTypes, Steps, Tasks
<1>5. \A u \in Tasks : /\ at'[u] = IF u = t THEN "none" ELSE at[u]
                       /\ at'[u] \notin {"spawn", "arg"}
                       /\ sock'[u] = IF u = t THEN NoFd ELSE sock[u]
  BY <1>1, <1>3 DEF IInv, OwnTypes
<1>6. Placed'
  <2>1. \A u \in Tasks : u # t => tstate'[u] = tstate[u] /\ pc'[u] = pc[u]
    BY PoolFacts DEF IInv, CloseAndReturn, Pool!FunReturn, Pool!FunReturnTimedOut, Pool!Release,
                     Pool!taskVars
  <2> QED
    BY <1>5, <2>1, PlacedFrame DEF IInv, EchoInv, Placed
<1>7. Named'
  BY <1>3, <1>5 DEF IInv, EchoInv, Named, NoFd, Tasks
<1>8. Claims(f) = {t} /\ f \notin lost
  BY <1>1, <1>2, OwnClaim DEF IInv, EchoInv
<1>9. conn'[f] = Closed /\ \A g \in Fds : g # f => conn'[g] = conn[g]
  BY <1>3 DEF IInv, OwnTypes
<1>10. Opened'
  BY <1>3, <1>8, <1>9 DEF IInv, EchoInv, Opened, Closed
<1>11. Handled'
  <2>1. Claims(f)' = {}
    BY <1>5, <1>8, FdsAssumption DEF Claims, NoFd, Tasks
  <2>2. \A g \in Fds : g # f => Claims(g)' = Claims(g)
    BY <1>1, <1>2, <1>5, FdsAssumption DEF Claims, NoFd, Tasks
  <2> QED
    BY <1>3, <1>9, <2>1, <2>2 DEF IInv, EchoInv, Handled, Closed, Tasks
<1> QED
  BY <1>4, <1>6, <1>7, <1>10, <1>11 DEF EchoInv

\* What the clients do.
LEMMA ClientSteps ==
  ASSUME IInv, Connects \/ \E f \in Fds : PeerSends(f) \/ PeerEnds(f)
  PROVE  OwnTypes' /\ EchoInv'
<1>1. UNCHANGED <<poolVars, at, fd, sock, lost>>
  BY DEF Connects, PeerSends, PeerEnds
<1>2. \/ conn' = conn
      \/ \E f \in Fds : /\ conn[f].peer = "open"
                        /\ \/ conn' = [conn EXCEPT ![f].data = TRUE]
                           \/ conn' = [conn EXCEPT ![f].peer = "ended"]
  BY DEF Connects, PeerSends, PeerEnds
<1>3. OwnTypes'
  <2>1. backlog' \in 0..MaxBacklog
    BY BacklogAssumption DEF IInv, OwnTypes, Connects, PeerSends, PeerEnds
  <2>2. conn' \in [Fds -> [peer : {"none", "open", "ended"}, data : BOOLEAN]]
    BY <1>2, ZenonT(30) DEF IInv, OwnTypes
  <2> QED
    BY <1>1, <2>1, <2>2 DEF IInv, OwnTypes, Tasks
<1>4. \A g \in Fds : \/ conn'[g] = conn[g]
                     \/ conn[g].peer # "none" /\ conn'[g].peer # "none"
  BY <1>2 DEF IInv, OwnTypes
<1>5. \A g \in Fds : conn'[g] = Closed <=> conn[g] = Closed
  BY <1>4 DEF Closed
<1>6. Opened'
  BY <1>1, <1>4, <1>5 DEF IInv, EchoInv, Opened, Closed
<1>7. Handled'
  <2>1. \A g \in Fds : Claims(g)' = Claims(g)
    BY <1>1 DEF Claims, Tasks
  <2> QED
    BY <1>1, <1>5, <2>1 DEF IInv, EchoInv, Handled, Closed, Tasks
<1> QED
  BY <1>1, <1>3, <1>6, <1>7 DEF IInv, EchoInv, Placed, Named, poolVars, Pool!Top, Tasks

\* Every step keeps what EchoServer adds to the pool.
LEMMA EchoSteps ==
  ASSUME IInv, [Next]_vars
  PROVE  OwnTypes' /\ EchoInv'
<1>1. CASE StartListener
  BY <1>1, StartListenerStep
<1>2. CASE StartLoop \/ Library \/ LoopIdle \/ \E t \in Tasks : Wake(t)
  BY <1>2, PoolSteps
<1>3. CASE Connects \/ \E f \in Fds : PeerSends(f) \/ PeerEnds(f)
  BY <1>3, ClientSteps
<1>4. ASSUME NEW t \in Tasks, ListenerStep(t) PROVE OwnTypes' /\ EchoInv'
  <2>1. CASE Spawn(t)
    BY <2>1, SpawnStep, SpawnRefusedStep DEF Spawn
  <2> QED
    BY <1>4, <2>1, PollSteps, AcceptStep, AcceptFailsStep DEF ListenerStep
<1>5. ASSUME NEW t \in Tasks, EchoStep(t) \/ Send(t) \/ SendWaits(t) PROVE OwnTypes' /\ EchoInv'
  BY <1>5, ReadArgStep, PollSteps, EchoGoesOn, CloseStep DEF EchoStep
<1>6. CASE UNCHANGED vars
  <2>1. UNCHANGED own /\ UNCHANGED <<callstack, pc, tstate>>
    BY <1>6 DEF vars, poolVars
  <2>2. Handled'
    BY <2>1, HandledFrame DEF IInv, EchoInv, own
  <2> QED
    BY <2>1, <2>2 DEF IInv, EchoInv, OwnTypes, Placed, Named, Opened, own, Pool!Top, Tasks, Closed
<1> QED
  BY <1>1, <1>2, <1>3, <1>4, <1>5, <1>6 DEF Next

-----------------------------------------------------------------------------
(***************************************************************************)
(* What the proofs about the pool give.                                    *)
(***************************************************************************)

PoolP == INSTANCE TaskPoolProofs WITH Attrs <- {ListenerAttr, EchoAttr}

\* The pool's assumptions follow from those of the server.
LEMMA Assumptions ==
  PoolP!PoolSizeAssumption /\ PoolP!AttrsAssumption
BY PoolAssumption DEF ListenerAttr, EchoAttr, PoolP!PoolSizeAssumption,
   PoolP!AttrsAssumption

\* The invariant is that of TaskPoolProofs.
LEMMA PoolInvSame == (PoolInv <=> PoolP!IInv) /\ (PoolInv <=> PoolP!IInv)'
<1>1. PoolInv <=> PoolP!IInv
  BY Zenon DEF PoolInv, PoolP!IInv, Pool!TypeOK, PoolP!TypeOK, Pool!CallStackSound,
     PoolP!CallStackSound, Pool!FreeListSound, PoolP!FreeListSound, Pool!ControlSound,
     PoolP!ControlSound, Pool!PoolAccounting, PoolP!PoolAccounting,
     Pool!CallbackOnlyAfterTimeout, PoolP!CallbackOnlyAfterTimeout, Pool!Tasks,
     PoolP!Tasks, Pool!Main, PoolP!Main, Pool!MainStates, PoolP!MainStates,
     Pool!Coroutines, PoolP!Coroutines, Pool!PcStates, PoolP!PcStates, Pool!ZeroAttr,
     PoolP!ZeroAttr, Pool!Range, PoolP!Range, Pool!Busy, PoolP!Busy, Pool!Handoff,
     PoolP!Handoff, Pool!Top, PoolP!Top, Pool!Cardinality, PoolP!Cardinality
<1> QED
  BY <1>1, PTL

\* The pool starts in its invariant.
LEMMA PoolInit == Pool!Init => PoolInv
<1>1. Pool!Init => PoolP!Init
  BY DEF Pool!Init, PoolP!Init, Pool!Tasks, PoolP!Tasks, Pool!Main, PoolP!Main,
         Pool!ZeroAttr, PoolP!ZeroAttr
<1> QED
  BY <1>1, PoolP!InitIInv, Assumptions, PoolInvSame

\* A step of the pool is the same in both instances.
LEMMA PoolNext == Pool!Next => PoolP!Next
BY Zenon DEF Pool!Next, PoolP!Next, Pool!MainStep, PoolP!MainStep, Pool!TaskStep,
   PoolP!TaskStep, Pool!CreateTask, PoolP!CreateTask, Pool!PoolReady, PoolP!PoolReady,
   Pool!StartLoop, PoolP!StartLoop, Pool!LoopIdle, PoolP!LoopIdle, Pool!Wake, PoolP!Wake,
   Pool!TaskWait, PoolP!TaskWait, Pool!TaskRun, PoolP!TaskRun, Pool!FunReturn,
   PoolP!FunReturn, Pool!FunReturnTimedOut, PoolP!FunReturnTimedOut, Pool!CallbackReturn,
   PoolP!CallbackReturn, Pool!UserPoll, PoolP!UserPoll, Pool!UserTimesOut,
   PoolP!UserTimesOut, Pool!PollReturn, PoolP!PollReturn, Pool!NewTask, PoolP!NewTask,
   Pool!NewTaskRefused, PoolP!NewTaskRefused, Pool!Release, PoolP!Release,
   Pool!WantsCallback, PoolP!WantsCallback, Pool!CountIn, PoolP!CountIn, Pool!CountOut,
   PoolP!CountOut, Pool!Running, PoolP!Running, Pool!Resume, PoolP!Resume, Pool!Yield,
   PoolP!Yield, Pool!TakeFree, PoolP!TakeFree, Pool!ClearTimeout, PoolP!ClearTimeout,
   Pool!CanCall, PoolP!CanCall, Pool!Full, PoolP!Full, Pool!Top, PoolP!Top, Pool!Main,
   PoolP!Main, Pool!Tasks, PoolP!Tasks, Pool!vars, PoolP!vars, Pool!poolVars, PoolP!poolVars,
   Pool!taskVars, PoolP!taskVars

\* A step that leaves one instance of the pool alone leaves the other alone.
LEMMA PoolVars == UNCHANGED Pool!vars => UNCHANGED PoolP!vars
BY DEF Pool!vars, PoolP!vars, Pool!poolVars, PoolP!poolVars, Pool!taskVars, PoolP!taskVars

\* Every step of the pool keeps its invariant.
LEMMA PoolInvStep == ASSUME PoolInv, [Pool!Next]_(Pool!vars) PROVE PoolInv'
<1>1. [PoolP!Next]_(PoolP!vars)
  BY PoolNext, PoolVars
<1> QED
  BY <1>1, PoolP!StepIInv, Assumptions, PoolInvSame

\* In every state of the pool's invariant new_task refuses nobody while a task
\* waits.
LEMMA PoolRefuses == ASSUME PoolInv PROVE Pool!RefusedOnlyWhenBusy
<1>1. PoolP!RefusedOnlyWhenBusy
  BY PoolP!RefusalState, Assumptions, PoolInvSame
<1> QED
  BY <1>1 DEF Pool!RefusedOnlyWhenBusy, PoolP!RefusedOnlyWhenBusy, Pool!CanCall, PoolP!CanCall,
     Pool!Full, PoolP!Full, Pool!Top, PoolP!Top, Pool!Main, PoolP!Main, Pool!Tasks, PoolP!Tasks

-----------------------------------------------------------------------------
(***************************************************************************)
(* The theorems.                                                           *)
(***************************************************************************)

\* Every step of the server is a step of its pool, or leaves the pool alone.
LEMMA PoolStep == [Next]_vars => [Pool!Next]_(Pool!vars)
<1> SUFFICES ASSUME [Next]_vars PROVE Pool!Next \/ UNCHANGED Pool!vars
  OBVIOUS
<1>1. UNCHANGED poolVars => UNCHANGED Pool!vars
  BY DEF poolVars, Pool!vars, Pool!poolVars, Pool!taskVars
<1>2. CASE StartListener \/ StartLoop \/ Library \/ LoopIdle \/ \E t \in Tasks : Wake(t)
  BY <1>2 DEF StartListener, StartLoop, Library, LoopIdle, Wake, Pool!Next, Pool!MainStep,
              Pool!TaskStep, Tasks
<1>3. CASE Connects \/ \E f \in Fds : PeerSends(f) \/ PeerEnds(f)
  BY <1>1, <1>3 DEF Connects, PeerSends, PeerEnds
<1>4. ASSUME NEW t \in Tasks, ListenerStep(t) PROVE Pool!Next \/ UNCHANGED Pool!vars
  BY <1>1, <1>4 DEF ListenerStep, AcceptWaits, Accept, AcceptFails, Spawn, Pool!Next,
                    Pool!TaskStep, Tasks
<1>5. ASSUME NEW t \in Tasks, EchoStep(t) \/ Send(t) \/ SendWaits(t)
      PROVE  Pool!Next \/ UNCHANGED Pool!vars
  BY <1>1, <1>5 DEF EchoStep, ReadArg, RecvPoll, RecvSys, CloseAndReturn, Send, SendWaits,
                    Pool!Next, Pool!TaskStep, Tasks
<1>6. CASE UNCHANGED vars
  BY <1>1, <1>6 DEF vars
<1> QED
  BY <1>2, <1>3, <1>4, <1>5, <1>6 DEF Next

\* The invariants of the pool and of the connections hold together.
LEMMA Inductive == Spec => []IInv
<1>1. Init => IInv
  <2> SUFFICES ASSUME Init PROVE IInv
    OBVIOUS
  <2>1. PoolInv
    BY PoolInit DEF Init
  <2>2. OwnTypes
    BY BacklogAssumption DEF Init, OwnTypes, Steps, Closed
  <2>3. Placed /\ Named /\ Opened
    BY DEF Init, Placed, Named, Opened
  <2>4. \A f \in Fds : Claims(f) = {}
    BY FdsAssumption DEF Init, Claims
  <2>5. Handled
    BY <2>4 DEF Init, Handled
  <2> QED
    BY <2>1, <2>2, <2>3, <2>5 DEF IInv, EchoInv
<1>2. IInv /\ [Next]_vars => IInv'
  <2> SUFFICES ASSUME IInv, [Next]_vars PROVE IInv'
    OBVIOUS
  <2>1. PoolInv'
    BY PoolStep, PoolInvStep DEF IInv
  <2>2. OwnTypes' /\ EchoInv'
    BY EchoSteps
  <2> QED
    BY <2>1, <2>2 DEF IInv
<1> QED
  BY <1>1, <1>2, PTL DEF Spec

\* The state of the server and of its connections stays in its types.
THEOREM Types == Spec => []TypeOK
<1>1. IInv => TypeOK
  BY DEF IInv, PoolInv, OwnTypes, Steps, TypeOK
<1> QED
  BY <1>1, Inductive, PTL

\* However many tasks, descriptors and clients there are, an accepted
\* connection has exactly one task until that task closes it, or none if
\* coroutine_new_task was refused for it: passing the address of the
\* listener's variable fd is safe, because the echo task reads it before the
\* listener runs again.
THEOREM One_Handler == Spec => []OneHandler
<1>1. IInv => OneHandler
  <2> SUFFICES ASSUME IInv, NEW f \in Fds
               PROVE  Cardinality(Claims(f)) = IF conn[f] = Closed \/ f \in lost THEN 0 ELSE 1
    BY DEF OneHandler
  <2>1. CASE conn[f] = Closed \/ f \in lost
    BY <2>1, FS_EmptySet DEF IInv, EchoInv, Handled
  <2>2. CASE ~(conn[f] = Closed \/ f \in lost)
    BY <2>2, FS_Singleton, ZenonT(30) DEF IInv, EchoInv, Handled
  <2> QED
    BY <2>1, <2>2
<1> QED
  BY <1>1, Inductive, PTL

\* The listener leaves a connection without a task only when every task of
\* the pool is busy, whatever the size of the pool.
THEOREM Lost_OnlyWhenBusy == Spec => LostOnlyWhenBusy
<1>1. IInv /\ [Next]_vars =>
        [lost' # lost => \A t \in Tasks : tstate[t] = "TASK_RUNNING"]_vars
  <2> SUFFICES ASSUME IInv, Next, lost' # lost
               PROVE  \A t \in Tasks : tstate[t] = "TASK_RUNNING"
    OBVIOUS
  <2>1. PICK t \in Tasks : Spawn(t)
    BY ZenonT(30)
       DEF Next, StartListener, StartLoop, Library, LoopIdle, Connects, Wake, ListenerStep,
           AcceptWaits, Accept, AcceptFails, EchoStep, ReadArg, RecvPoll, RecvSys,
           CloseAndReturn, Send, SendWaits, PeerSends, PeerEnds, own
  <2>2. Pool!CanCall /\ Pool!Full
    BY <2>1 DEF Spawn, Pool!NewTaskRefused
  <2> QED
    BY <2>2, PoolRefuses DEF IInv, Pool!RefusedOnlyWhenBusy, Tasks
<1> QED
  BY <1>1, Inductive, PTL DEF Spec, LostOnlyWhenBusy

=============================================================================
