---------------------------- MODULE HookIOProofs ----------------------------
(***************************************************************************)
(* Proofs about HookIO: what the hooked calls return and what they may do  *)
(* to the thread, for any tasks, descriptors, buffer sizes and counts.     *)
(***************************************************************************)
EXTENDS HookIO, TLAPS

CallType == [op : CallNames \cup {"none"}, fd : Fds \cup {NoFd},
             nbyte : 0..MaxCount, n : 0..MaxCount, moved : 0..MaxCount,
             tries : 0..ConnectTries, via : BOOLEAN, hard : BOOLEAN, gone : BOOLEAN,
             ret : Fds \cup -1..MaxCount]

FileType == [kind : Kinds, nonblock : BOOLEAN, inq : 0..MaxBytes,
             room : 0..MaxBytes, peer : {"open", "closed", "reset"}]

\* The locals c of a call that is at step p: the counts agree with the kernel,
\* connect has polls left, and what is returned is right.
CallInv(p, c) ==
  /\ c.op \in {"read", "write", "accept", "connect"} => c.fd \in Fds
  /\ c.n = c.moved /\ c.moved <= c.nbyte
  /\ p = "direct" => c.moved = 0
  /\ c.op \in {"read", "write"} /\ p = "ret" =>
       c.ret = c.moved \/ (c.moved = 0 /\ c.ret = -1)
  /\ c.op = "connect" => /\ p = "sys" => c.tries = 0
                         /\ p \in {"poll", "wait"} => c.tries < ConnectTries
                         /\ p # "direct"
  /\ c.op = "write" /\ c.via =>
       /\ p # "direct"
       /\ p = "ret" /\ c.nbyte > 0 => c.ret = c.nbyte \/ c.hard

CallsOK ==
  /\ pc \in [Tasks -> PcStates]
  /\ call \in [Tasks -> CallType]
  /\ \A t \in Tasks : CallInv(pc[t], call[t])

FilesOK == hook \in [Fds -> BOOLEAN] /\ file \in [Fds -> FileType]

\* A task that waits has not used up its limit: it would not have suspended.
LoopOK ==
  /\ cur \in Tasks \cup {Loop}
  /\ raised \in [Tasks -> BOOLEAN]
  /\ timedout \in [Tasks -> BOOLEAN]
  /\ \A t \in Tasks : pc[t] = "wait" => ~timedout[t]

IInv == CallsOK /\ FilesOK /\ LoopOK

-----------------------------------------------------------------------------
(***************************************************************************)
(* The kernel's results.                                                   *)
(***************************************************************************)

\* What a system call may return, by the call.
LEMMA Results ==
  ASSUME CallsOK, FilesOK, NEW t \in Tasks, NEW r \in SysResults(t)
  PROVE  /\ r \in Int /\ (r < 0 => r = EAGAIN \/ r = EHARD)
         /\ call[t].op = "read" => r <= file[call[t].fd].inq
         /\ call[t].op = "write" => r <= file[call[t].fd].room
         /\ call[t].op \in {"read", "write"} => r <= call[t].nbyte - call[t].n
         /\ call[t].op = "write" /\ r = 0 => call[t].nbyte = call[t].n
         /\ call[t].op = "accept" /\ r >= 0 =>
              r \in Fds /\ file[r].kind = "none" /\ file[call[t].fd].kind = "listen"
                /\ file[call[t].fd].inq > 0
         /\ call[t].op \notin {"read", "write", "accept"} => r <= 0
         /\ call[t].op = "connect" /\ r = 0 => file[call[t].fd].kind = "stream"
<1> DEFINE c == call[t]
           f == c.fd
           want == Rest(c)
<1>1. c \in CallType /\ CallInv(pc[t], c)
  BY DEF CallsOK
<1>2. want \in Nat /\ want = c.nbyte - c.n /\ c.nbyte \in Nat /\ c.n \in Nat
  BY <1>1, BoundsAssumption DEF CallType, CallInv, Rest
<1>3. \A g \in Fds : file[g].inq \in Nat /\ file[g].room \in Nat
  BY BoundsAssumption DEF FilesOK, FileType
<1>4. \A g : Nothing(g) \subseteq {EAGAIN}
  BY DEF Nothing
<1>5. \A a, b \in Nat : \A k \in UpTo(a, b) : k \in Int /\ k > 0 /\ k <= a /\ k <= b
  BY DEF UpTo
<1>6. c.op \in {"read", "write", "accept", "connect"} => f \in Fds
  BY <1>1 DEF CallInv
<1>7. Fds \subseteq Nat
  BY FdsAssumption
<1> HIDE DEF c, want
<1>8. CASE c.op = "read"
  <2>1. r \in SysRead(f, want)
    BY <1>8 DEF SysResults, c, want
  <2>2. r \in {EAGAIN, EHARD} \/ r = 0 \/ r \in UpTo(file[f].inq, want)
    BY <2>1, <1>4 DEF SysRead
  <2> QED BY <2>2, <1>2, <1>3, <1>5, <1>6, <1>8 DEF c, EAGAIN, EHARD
<1>9. CASE c.op = "write"
  <2>1. r \in SysWrite(f, want)
    BY <1>9 DEF SysResults, c, want
  <2>2. r \in {EAGAIN, EHARD} \/ (r = 0 /\ want = 0) \/ r \in UpTo(file[f].room, want)
    BY <2>1, <1>4 DEF SysWrite
  <2> QED BY <2>2, <1>2, <1>3, <1>5, <1>6, <1>9 DEF c, EAGAIN, EHARD
<1>10. CASE c.op = "accept"
  <2>1. r \in SysAccept(f)
    BY <1>10 DEF SysResults, c
  <2>2. \/ r \in {EAGAIN, EHARD}
        \/ r \in Fds /\ file[r].kind = "none" /\ file[f].kind = "listen" /\ file[f].inq > 0
    BY <2>1, <1>4 DEF SysAccept
  <2>3. r \in {EAGAIN, EHARD} \/ (r \in Nat /\ r # EAGAIN /\ r # EHARD)
    BY <2>2, <1>7 DEF EAGAIN, EHARD
  <2>4. r \in Int /\ (r < 0 => r = EAGAIN \/ r = EHARD) /\ (r >= 0 => r \notin {EAGAIN, EHARD})
    BY <2>3 DEF EAGAIN, EHARD
  <2> QED BY <2>2, <2>4, <1>10 DEF c
<1>11. CASE c.op = "connect"
  <2>1. r \in {EAGAIN, EHARD} \/ (r = 0 /\ file[f].kind = "stream")
    BY <1>11, <1>4 DEF SysResults, c
  <2> QED BY <2>1, <1>11 DEF c, EAGAIN, EHARD
<1>12. CASE c.op \notin {"read", "write", "accept", "connect"}
  <2>1. r = 0
    BY <1>12 DEF SysResults, c
  <2> QED BY <2>1, <1>12 DEF c, EAGAIN, EHARD
<1> QED BY <1>8, <1>9, <1>10, <1>11, <1>12

\* The entry of a descriptor that is not open has its type.
LEMMA NoFileOK == NoFile \in FileType
BY BoundsAssumption DEF NoFile, FileType, Kinds

\* A system call leaves the descriptors typed and their kinds as they were,
\* except that accept opens one.
LEMMA AfterOK ==
  ASSUME CallsOK, FilesOK, NEW t \in Tasks, NEW r \in SysResults(t)
  PROVE  /\ After(t, r) \in [Fds -> FileType]
         /\ \A g \in Fds :
              /\ After(t, r)[g].nonblock = file[g].nonblock
                   \/ (call[t].op = "accept" /\ g = r)
              /\ After(t, r)[g].kind = file[g].kind
                   \/ (call[t].op = "accept" /\ g = r /\ file[g].kind = "none"
                         /\ After(t, r)[g].kind = "stream")
<1> DEFINE c == call[t]
           f == c.fd
<1>1. c.op \in {"read", "write", "accept"} => f \in Fds
  BY DEF CallsOK, CallInv
<1>2. \A g \in Fds : file[g] \in FileType /\ file[g].inq \in Nat /\ file[g].room \in Nat
  BY BoundsAssumption DEF FilesOK, FileType
<1> HIDE DEF c
<1>3. CASE c.op = "read" /\ r > 0
  <2>1. After(t, r) = [file EXCEPT ![f].inq = @ - r]
    BY <1>3 DEF After, c
  <2>2. file[f].inq - r \in 0..MaxBytes
    BY <1>1, <1>2, <1>3, Results, BoundsAssumption DEF c, FileType
  <2> DEFINE d == [file[f] EXCEPT !.inq = @ - r]
  <2>3. d \in FileType /\ d.kind = file[f].kind /\ d.nonblock = file[f].nonblock
    BY <1>1, <1>2, <1>3, <2>2 DEF FileType
  <2>4. After(t, r) = [file EXCEPT ![f] = d]
    BY <2>1
  <2> HIDE DEF d
  <2> QED BY <1>1, <2>3, <2>4, <1>3 DEF FilesOK
<1>4. CASE c.op = "write" /\ r > 0
  <2>1. After(t, r) = [file EXCEPT ![f].room = @ - r]
    BY <1>4 DEF After, c
  <2>2. file[f].room - r \in 0..MaxBytes
    BY <1>1, <1>2, <1>4, Results, BoundsAssumption DEF c, FileType
  <2> DEFINE d == [file[f] EXCEPT !.room = @ - r]
  <2>3. d \in FileType /\ d.kind = file[f].kind /\ d.nonblock = file[f].nonblock
    BY <1>1, <1>2, <1>4, <2>2 DEF FileType
  <2>4. After(t, r) = [file EXCEPT ![f] = d]
    BY <2>1
  <2> HIDE DEF d
  <2> QED BY <1>1, <2>3, <2>4, <1>4 DEF FilesOK
<1>5. CASE c.op = "accept" /\ r >= 0
  <2>1. After(t, r) = [file EXCEPT ![f].inq = @ - 1, ![r] = [NoFile EXCEPT !.kind = "stream"]]
    BY <1>5 DEF After, c
  <2>2. r \in Fds /\ f # r /\ file[r].kind = "none" /\ file[f].inq - 1 \in 0..MaxBytes
    BY <1>1, <1>2, <1>5, Results, BoundsAssumption DEF c, FileType
  <2>3. [NoFile EXCEPT !.kind = "stream"] \in FileType
         /\ [NoFile EXCEPT !.kind = "stream"].kind = "stream"
    BY NoFileOK DEF FileType, Kinds
  <2>4. [file[f] EXCEPT !.inq = @ - 1] \in FileType
         /\ [file[f] EXCEPT !.inq = @ - 1].kind = file[f].kind
         /\ [file[f] EXCEPT !.inq = @ - 1].nonblock = file[f].nonblock
    BY <1>1, <1>2, <1>5, <2>2 DEF FileType
  <2> QED BY <1>1, <1>2, <1>5, <2>1, <2>2, <2>3, <2>4 DEF FilesOK, c
<1>6. CASE ~(c.op \in {"read", "write"} /\ r > 0) /\ ~(c.op = "accept" /\ r >= 0)
  <2>1. After(t, r) = file
    BY <1>6 DEF After, c
  <2> QED BY <2>1 DEF FilesOK
<1> QED BY <1>3, <1>4, <1>5, <1>6

-----------------------------------------------------------------------------
(***************************************************************************)
(* The locals of the calls.                                                *)
(***************************************************************************)

\* The entry of a task outside any call has its type.
LEMMA NoCallOK == NoCall \in CallType
BY BoundsAssumption DEF NoCall, CallType

\* One task goes on with other locals.
LEMMA SetCall ==
  ASSUME CallsOK, NEW t \in Tasks, NEW p \in PcStates, NEW c \in CallType, CallInv(p, c),
         pc' = [pc EXCEPT ![t] = p], call' = [call EXCEPT ![t] = c]
  PROVE  CallsOK'
<1>1. pc' \in [Tasks -> PcStates] /\ call' \in [Tasks -> CallType]
  BY DEF CallsOK
<1>2. \A u \in Tasks : CallInv(pc'[u], call'[u])
  <2> TAKE u \in Tasks
  <2>1. CASE u = t
    BY <2>1 DEF CallsOK
  <2>2. CASE u # t
    BY <2>2 DEF CallsOK
  <2> QED BY <2>1, <2>2
<1> QED BY <1>1, <1>2 DEF CallsOK, CallInv

\* A close marks calls, and changes nothing else of them.
LEMMA GoneOK ==
  ASSUME CallsOK, NEW f
  PROVE  /\ Gone(f) \in [Tasks -> CallType]
         /\ \A u \in Tasks :
              /\ \A p : CallInv(p, Gone(f)[u]) <=> CallInv(p, call[u])
              /\ Gone(f)[u].op = call[u].op /\ Gone(f)[u].fd = call[u].fd
              /\ Gone(f)[u].ret = call[u].ret
              /\ Gone(f)[u].gone = (call[u].gone \/ call[u].fd = f)
<1> SUFFICES ASSUME NEW u \in Tasks
             PROVE  /\ Gone(f)[u] \in CallType
                    /\ \A p : CallInv(p, Gone(f)[u]) <=> CallInv(p, call[u])
                    /\ Gone(f)[u].op = call[u].op /\ Gone(f)[u].fd = call[u].fd
                    /\ Gone(f)[u].ret = call[u].ret
                    /\ Gone(f)[u].gone = (call[u].gone \/ call[u].fd = f)
  BY DEF Gone
<1> DEFINE c == call[u]
           b == c.gone \/ c.fd = f
           d == [c EXCEPT !.gone = b]
<1>1. c \in CallType /\ b \in BOOLEAN
  BY DEF CallsOK, CallType
<1>2. Gone(f)[u] = d
  BY DEF Gone
<1> HIDE DEF c, b
<1>3. /\ d \in CallType
      /\ d.op = c.op /\ d.fd = c.fd /\ d.nbyte = c.nbyte /\ d.n = c.n /\ d.moved = c.moved
      /\ d.tries = c.tries /\ d.via = c.via /\ d.hard = c.hard /\ d.ret = c.ret /\ d.gone = b
  BY <1>1 DEF CallType
<1> HIDE DEF d
<1>4. \A p : CallInv(p, d) <=> CallInv(p, c)
  BY <1>3 DEF CallInv
<1> QED BY <1>2, <1>3, <1>4 DEF c, b

\* The counts after a system call.
LEMMA MovedOK ==
  ASSUME CallsOK, FilesOK, NEW t \in Tasks, NEW r \in SysResults(t)
  PROVE  LET c == call[t]
             d == Moved(c, r)
         IN  /\ d \in CallType
             /\ d.op = c.op /\ d.fd = c.fd /\ d.nbyte = c.nbyte /\ d.via = c.via
             /\ d.ret = c.ret /\ d.gone = c.gone /\ d.tries = 1 /\ d.hard = (r = EHARD)
             /\ d.moved = c.moved + (IF c.op \in {"read", "write"} /\ r > 0 THEN r ELSE 0)
             /\ d.n = d.moved /\ d.moved <= d.nbyte
<1> DEFINE c == call[t]
           k == IF c.op \in {"read", "write"} /\ r > 0 THEN r ELSE 0
           d == [c EXCEPT !.n = c.n + k, !.moved = c.moved + k, !.tries = 1, !.hard = (r = EHARD)]
<1>1. c \in CallType /\ c.n = c.moved /\ c.moved <= c.nbyte
  BY DEF CallsOK, CallInv
<1>2. Moved(c, r) = d
  BY DEF Moved, Plus
<1>3. c.nbyte \in 0..MaxCount /\ c.n \in Nat /\ MaxCount \in Nat /\ 1 \in 0..ConnectTries
  BY <1>1, BoundsAssumption DEF CallType
<1>4. k \in Nat /\ k <= c.nbyte - c.n
  BY <1>1, <1>3, Results
<1> HIDE DEF c, k
<1>5. c.n + k \in 0..MaxCount /\ c.moved + k = c.n + k /\ c.n + k <= c.nbyte
  BY <1>1, <1>3, <1>4
<1>6. d \in CallType
  BY <1>1, <1>3, <1>5 DEF CallType
<1>7. /\ d.op = c.op /\ d.fd = c.fd /\ d.nbyte = c.nbyte /\ d.via = c.via
      /\ d.ret = c.ret /\ d.gone = c.gone /\ d.tries = 1 /\ d.hard = (r = EHARD)
      /\ d.moved = c.moved + k /\ d.n = c.n + k
  BY <1>1 DEF CallType
<1> HIDE DEF d
<1> QED BY <1>2, <1>5, <1>6, <1>7 DEF c, k

\* A task at step p with new locals: a call begins.
LEMMA EnterOK ==
  ASSUME IInv, NEW t \in Tasks, NEW op \in CallNames, NEW f \in Fds \cup {NoFd},
         NEW k \in 0..MaxCount, NEW p \in {"poll", "sys", "direct"},
         Enter(t, op, f, k, p),
         op # "sleep" => f \in Fds,
         op = "connect" => p = "sys",
         op = "write" /\ ViaTable(t, f) => p # "direct"
  PROVE  CallsOK' /\ LoopOK'
<1> DEFINE b == ViaTable(t, f)
           c == [NoCall EXCEPT !.op = op, !.fd = f, !.nbyte = k, !.via = b]
<1>1. b \in BOOLEAN
  BY DEF ViaTable, IInv, FilesOK
<1>2. pc' = [pc EXCEPT ![t] = p] /\ call' = [call EXCEPT ![t] = c]
      /\ UNCHANGED <<cur, raised, timedout>>
  BY DEF Enter
<1>2a. op = "write" /\ b => p # "direct"
  OBVIOUS
<1> HIDE DEF b
<1>3. c \in CallType
  BY <1>1, NoCallOK DEF CallType
<1>4. /\ c.op = op /\ c.fd = f /\ c.nbyte = k /\ c.via = b
      /\ c.n = 0 /\ c.moved = 0 /\ c.tries = 0
  BY DEF NoCall
<1> HIDE DEF c
<1>5. CallInv(p, c)
  BY <1>2a, <1>4, BoundsAssumption DEF CallInv, CallNames
<1>6. CallsOK'
  <2>1. p \in PcStates
    BY DEF PcStates
  <2> QED BY <2>1, <1>2, <1>3, <1>5, SetCall DEF IInv
<1>7. LoopOK'
  BY <1>2 DEF IInv, CallsOK, LoopOK
<1> QED BY <1>6, <1>7

\* A call returns: its locals get the result.
LEMMA ReturnsOK ==
  ASSUME CallsOK, NEW t \in Tasks, NEW c \in CallType, NEW r \in Fds \cup -1..MaxCount,
         Returns(t, c, r),
         c.op \in {"read", "write", "accept", "connect"} => c.fd \in Fds,
         c.n = c.moved, c.moved <= c.nbyte,
         c.op \in {"read", "write"} => r = c.moved \/ (c.moved = 0 /\ r = -1),
         c.op = "write" /\ c.via /\ c.nbyte > 0 => r = c.nbyte \/ c.hard
  PROVE  CallsOK'
<1> DEFINE d == [c EXCEPT !.ret = r]
<1>1. d \in CallType
  BY DEF CallType
<1>2. /\ d.op = c.op /\ d.fd = c.fd /\ d.nbyte = c.nbyte /\ d.n = c.n /\ d.moved = c.moved
      /\ d.via = c.via /\ d.hard = c.hard /\ d.ret = r
  BY DEF CallType
<1>3. pc' = [pc EXCEPT ![t] = "ret"] /\ call' = [call EXCEPT ![t] = d]
  BY DEF Returns
<1> HIDE DEF d
<1>4. CallInv("ret", d)
  BY <1>2 DEF CallInv
<1>5. "ret" \in PcStates
  BY DEF PcStates
<1> QED BY <1>1, <1>3, <1>4, <1>5, SetCall

-----------------------------------------------------------------------------
(***************************************************************************)
(* System calls.                                                           *)
(***************************************************************************)

\* The step of a hooked call, for its locals.
LEMMA SysCallsOK ==
  ASSUME IInv, NEW t \in Tasks, pc[t] = "sys", NEW r \in SysResults(t),
         CASE call[t].op = "read"  -> SysReadDone(t, r)
           [] call[t].op = "write" -> SysWriteDone(t, r)
           [] OTHER                -> SysOpenDone(t, r)
  PROVE  /\ CallsOK'
         /\ \E p \in {"poll", "ret"} : pc' = [pc EXCEPT ![t] = p]
<1> DEFINE c == call[t]
           d == Moved(c, r)
<1> USE DEF IInv
<1>1. c \in CallType /\ CallInv("sys", c)
  BY DEF CallsOK
<1>2. /\ d \in CallType
      /\ d.op = c.op /\ d.fd = c.fd /\ d.nbyte = c.nbyte /\ d.via = c.via
      /\ d.hard = (r = EHARD) /\ d.n = d.moved /\ d.moved <= d.nbyte
      /\ d.moved = c.moved + (IF c.op \in {"read", "write"} /\ r > 0 THEN r ELSE 0)
  BY MovedOK
<1>3. /\ r \in Int /\ (r < 0 => r = EAGAIN \/ r = EHARD)
      /\ c.op = "write" /\ r = 0 => c.nbyte = c.n
      /\ c.op = "accept" /\ r >= 0 => r \in Fds
      /\ c.op \notin {"read", "write", "accept"} => r <= 0
  BY Results
<1>4. "poll" \in PcStates
  BY DEF PcStates
<1>5. /\ c.op = "read" => SysReadDone(t, r)
      /\ c.op = "write" => SysWriteDone(t, r)
      /\ c.op \notin {"read", "write"} => SysOpenDone(t, r)
  OBVIOUS
<1>6. d.n \in 0..MaxCount /\ d.nbyte \in 0..MaxCount /\ c.n \in 0..MaxCount /\ MaxCount \in Nat
  BY <1>1, <1>2, BoundsAssumption DEF CallType
<1>6a. SysReadDone(t, r) => IF r = EAGAIN /\ d.n < d.nbyte THEN GoesOn(t, d) ELSE Returns(t, d, d.n)
  BY DEF SysReadDone
<1>6b. SysWriteDone(t, r) => IF d.n < d.nbyte /\ ~Broken(t, r) THEN GoesOn(t, d)
                            ELSE Returns(t, d, IF r <= 0 /\ d.n = 0 THEN Value(r) ELSE d.n)
  BY DEF SysWriteDone
<1> DEFINE waits == c.op = "accept" \/ ViaTable(t, c.fd)
<1>6c. SysOpenDone(t, r) => IF r = EAGAIN /\ waits THEN GoesOn(t, c)
                           ELSE Returns(t, c, Value(r))
  BY DEF SysOpenDone
<1> HIDE DEF c, d, waits
<1>7. ASSUME GoesOn(t, d), c.op \in {"read", "write"} PROVE CallsOK'
  <2>1. CallInv("poll", d)
    BY <1>1, <1>2, <1>7 DEF CallInv
  <2> QED BY <2>1, <1>2, <1>4, <1>7, SetCall DEF GoesOn
<1>8. CASE c.op = "read"
  <2>1. CASE r = EAGAIN /\ d.n < d.nbyte
    BY <2>1, <1>5, <1>6a, <1>7, <1>8 DEF GoesOn
  <2>2. CASE ~(r = EAGAIN /\ d.n < d.nbyte)
    <3>1. Returns(t, d, d.n)
      BY <2>2, <1>5, <1>6a, <1>8
    <3>2. d.op = "read" /\ d.fd \in Fds /\ d.n \in Fds \cup -1..MaxCount
      BY <1>1, <1>2, <1>6, <1>8 DEF CallInv
    <3>3. CallsOK'
      BY <3>1, <3>2, <1>2, ReturnsOK
    <3> QED BY <3>1, <3>3 DEF Returns
  <2> QED BY <2>1, <2>2
<1>9. CASE c.op = "write"
  <2>1. CASE d.n < d.nbyte /\ ~Broken(t, r)
    BY <2>1, <1>5, <1>6b, <1>7, <1>9 DEF GoesOn
  <2>2. CASE ~(d.n < d.nbyte /\ ~Broken(t, r))
    <3> DEFINE v == IF r <= 0 /\ d.n = 0 THEN Value(r) ELSE d.n
    <3>1. Returns(t, d, v)
      BY <2>2, <1>5, <1>6b, <1>9
    <3>2. v = d.moved \/ (d.moved = 0 /\ v = -1)
      BY <1>2, <1>3, <1>6 DEF Value
    <3>3. d.nbyte > 0 => v = d.nbyte \/ d.hard
      <4>1. d.n = d.nbyte \/ r = EHARD
        BY <2>2, <1>1, <1>2, <1>3, <1>6, <1>9 DEF Broken, CallInv
      <4>2. r = EHARD => d.hard
        BY <1>2
      <4>3. d.nbyte > 0 /\ d.n = d.nbyte => v = d.nbyte
        BY <1>6
      <4> QED BY <4>1, <4>2, <4>3
    <3>4. v \in Fds \cup -1..MaxCount
      BY <3>2, <1>2, <1>6
    <3>5. d.op = "write" /\ d.fd \in Fds
      BY <1>1, <1>2, <1>9 DEF CallInv
    <3> HIDE DEF v
    <3>6. CallsOK'
      BY <3>1, <3>2, <3>3, <3>4, <3>5, <1>2, ReturnsOK
    <3> QED BY <3>1, <3>6 DEF Returns
  <2> QED BY <2>1, <2>2
<1>10. CASE c.op \notin {"read", "write"}
  <2>1. CASE r = EAGAIN /\ waits
    <3>1. GoesOn(t, c)
      BY <2>1, <1>5, <1>6c, <1>10
    <3>2. CallInv("poll", c)
      BY <1>1, <1>10, BoundsAssumption DEF CallInv
    <3>3. CallsOK'
      BY <3>1, <3>2, <1>1, <1>4, SetCall DEF GoesOn
    <3> QED BY <3>1, <3>3 DEF GoesOn
  <2>2. CASE ~(r = EAGAIN /\ waits)
    <3>1. Returns(t, c, Value(r))
      BY <2>2, <1>5, <1>6c, <1>10
    <3>2. Value(r) \in Fds \cup -1..MaxCount
      BY <1>3, <1>6, <1>10 DEF Value
    <3>3. CallsOK'
      BY <3>1, <3>2, <1>1, <1>10, ReturnsOK DEF CallInv
    <3> QED BY <3>1, <3>3 DEF Returns
  <2> QED BY <2>1, <2>2
<1> QED BY <1>8, <1>9, <1>10

\* A system call of a hooked call keeps the invariant.
LEMMA SysStep ==
  ASSUME IInv, NEW t \in Tasks, Sys(t)
  PROVE  IInv'
<1> USE DEF IInv
<1>1. PICK r \in SysResults(t) :
        /\ CASE call[t].op = "read"  -> SysReadDone(t, r)
             [] call[t].op = "write" -> SysWriteDone(t, r)
             [] OTHER                -> SysOpenDone(t, r)
        /\ IF call[t].op = "accept" /\ r >= 0 THEN Accepted(t, r)
           ELSE file' = After(t, r) /\ UNCHANGED hook
  BY DEF Sys
<1>2. CallsOK' /\ \E p \in {"poll", "ret"} : pc' = [pc EXCEPT ![t] = p]
  BY <1>1, SysCallsOK DEF Sys
<1>3. FilesOK'
  <2>1. After(t, r) \in [Fds -> FileType]
    BY AfterOK
  <2>2. CASE call[t].op = "accept" /\ r >= 0
    <3> DEFINE a == After(t, r)
    <3>1. r \in Fds /\ hook' = [hook EXCEPT ![r] = TRUE] /\ file' = [a EXCEPT ![r].nonblock = TRUE]
      BY <1>1, <2>2, Results DEF Accepted
    <3> HIDE DEF a
    <3>2. [a[r] EXCEPT !.nonblock = TRUE] \in FileType
      BY <2>1, <3>1 DEF FileType, a
    <3>3. file' = [a EXCEPT ![r] = [a[r] EXCEPT !.nonblock = TRUE]]
      BY <3>1
    <3> QED BY <2>1, <3>1, <3>2, <3>3 DEF FilesOK, a
  <2>3. CASE ~(call[t].op = "accept" /\ r >= 0)
    BY <1>1, <2>1, <2>3 DEF FilesOK
  <2> QED BY <2>2, <2>3
<1>4. LoopOK'
  BY <1>2 DEF Sys, LoopOK, CallsOK
<1> QED BY <1>2, <1>3, <1>4

\* A call that goes to the kernel without the hook keeps the invariant.
LEMMA DirectStep ==
  ASSUME IInv, NEW t \in Tasks, Direct(t)
  PROVE  IInv'
<1> USE DEF IInv
<1>1. PICK r \in SysResults(t) : file' = After(t, r) /\ Returns(t, Moved(call[t], r), Value(r))
  BY DEF Direct
<1> DEFINE c == call[t]
           d == Moved(c, r)
<1>2. c \in CallType /\ CallInv("direct", c)
  BY DEF CallsOK, Direct
<1>3. /\ d \in CallType
      /\ d.op = c.op /\ d.fd = c.fd /\ d.nbyte = c.nbyte /\ d.via = c.via
      /\ d.hard = (r = EHARD) /\ d.n = d.moved /\ d.moved <= d.nbyte
      /\ d.moved = c.moved + (IF c.op \in {"read", "write"} /\ r > 0 THEN r ELSE 0)
  BY MovedOK
<1>4. /\ r \in Int /\ (r < 0 => r = EAGAIN \/ r = EHARD)
      /\ c.op = "accept" /\ r >= 0 => r \in Fds
      /\ c.op \notin {"read", "write", "accept"} => r <= 0
  BY Results
<1>5. Returns(t, d, Value(r)) /\ MaxCount \in Nat /\ d.moved \in 0..MaxCount
  BY <1>1, <1>3, BoundsAssumption DEF CallType
<1> HIDE DEF c, d
<1>6. c.op \in {"read", "write"} => Value(r) = d.moved \/ (d.moved = 0 /\ Value(r) = -1)
  BY <1>2, <1>3, <1>4 DEF Value, CallInv
<1>7. Value(r) \in Fds \cup -1..MaxCount
  BY <1>4, <1>5, <1>6 DEF Value
<1>8. CallsOK'
  <2>1. /\ d.op \in {"read", "write", "accept", "connect"} => d.fd \in Fds
        /\ ~(d.op = "write" /\ d.via)
    BY <1>2, <1>3 DEF CallInv
  <2> QED BY <2>1, <1>3, <1>5, <1>6, <1>7, ReturnsOK
<1>9. FilesOK'
  BY <1>1, AfterOK DEF Direct, FilesOK
<1>10. LoopOK'
  BY <1>5 DEF Returns, Direct, LoopOK, CallsOK
<1> QED BY <1>8, <1>9, <1>10

-----------------------------------------------------------------------------
(***************************************************************************)
(* Polls and the event loop.                                               *)
(***************************************************************************)

\* Closing a descriptor leaves the descriptors and the table typed.
LEMMA DoCloseOK ==
  ASSUME FilesOK, NEW hooked \in BOOLEAN, NEW f, DoClose(hooked, f)
  PROVE  FilesOK'
BY NoFileOK DEF FilesOK, DoClose

\* accept gives up.  read and write do not: wait_io_ready wants a poll that
\* returned 0 to a task whose limit is used up, and there is none.
LEMMA GivesUpOK ==
  ASSUME IInv, NEW t \in Tasks, call[t].op = "accept", GivesUp(t, -1)
  PROVE  CallsOK' /\ FilesOK' /\ pc' = [pc EXCEPT ![t] = "ret"]
<1> DEFINE c == call[t]
           g == Gone(c.fd)
           d == [c EXCEPT !.ret = -1]
<1> USE DEF IInv
<1>1. /\ pc' = [pc EXCEPT ![t] = "ret"]
      /\ call' = [g EXCEPT ![t] = d]
      /\ DoClose(TRUE, c.fd)
  BY DEF GivesUp
<1>2. g \in [Tasks -> CallType] /\ \A u \in Tasks : \A p : CallInv(p, g[u]) <=> CallInv(p, call[u])
  BY GoneOK
<1>3. c \in CallType /\ CallInv(pc[t], c) /\ c.op = "accept"
  BY DEF CallsOK
<1> HIDE DEF g, c
<1>4. -1 \in Fds \cup -1..MaxCount
  BY BoundsAssumption
<1>5. d \in CallType
  BY <1>3, <1>4 DEF CallType
<1>6. d.op = c.op /\ d.fd = c.fd /\ d.n = c.n /\ d.moved = c.moved /\ d.nbyte = c.nbyte
  BY <1>3 DEF CallType
<1> HIDE DEF d
<1>7. CallInv("ret", d)
  BY <1>3, <1>6 DEF CallInv
<1>8. call' \in [Tasks -> CallType] /\ pc' \in [Tasks -> PcStates]
  BY <1>1, <1>2, <1>5 DEF CallsOK, PcStates
<1>9. \A u \in Tasks : CallInv(pc'[u], call'[u])
  <2> TAKE u \in Tasks
  <2>1. CASE u = t
    BY <2>1, <1>1, <1>2, <1>7 DEF CallsOK
  <2>2. CASE u # t
    BY <2>2, <1>1, <1>2 DEF CallsOK
  <2> QED BY <2>1, <2>2
<1>10. CallsOK'
  BY <1>8, <1>9 DEF CallsOK, CallInv
<1>11. FilesOK'
  BY <1>1, DoCloseOK
<1> QED BY <1>1, <1>10, <1>11

\* poll returns to a call.
LEMMA PollReturnsOK ==
  ASSUME IInv, NEW t \in Tasks, pc[t] \in {"poll", "wait"},
         NEW r \in {-1, 0, 1}, NEW late \in BOOLEAN, ~(r = 0 /\ late),
         PollReturns(t, r, late)
  PROVE  /\ CallsOK' /\ FilesOK'
         /\ \E p \in {"poll", "sys", "ret"} : pc' = [pc EXCEPT ![t] = p]
<1> DEFINE c == call[t]
<1> USE DEF IInv
<1>1. c \in CallType /\ CallInv(pc[t], c)
  BY DEF CallsOK
<1>2. ASSUME ToSys(t), c.op # "connect"
      PROVE  CallsOK' /\ FilesOK' /\ pc' = [pc EXCEPT ![t] = "sys"]
  <2>1. pc' = [pc EXCEPT ![t] = "sys"] /\ call' = call /\ hook' = hook /\ file' = file
    BY <1>2 DEF ToSys
  <2>2. call' = [call EXCEPT ![t] = c]
    BY <2>1 DEF CallsOK
  <2> HIDE DEF c
  <2>3. CallInv("sys", c)
    BY <1>1, <1>2 DEF CallInv
  <2>4. "sys" \in PcStates
    BY DEF PcStates
  <2>5. CallsOK'
    BY <2>1, <2>2, <2>3, <2>4, <1>1, SetCall
  <2> QED BY <2>1, <2>5 DEF FilesOK
<1>3. ASSUME NEW d \in CallType, NEW v \in {0, -1}, Returns(t, d, v), hook' = hook, file' = file,
             d.op = c.op, d.fd = c.fd, d.n = c.n, d.moved = c.moved, d.nbyte = c.nbyte,
             d.op \notin {"read", "write"}
      PROVE  CallsOK' /\ FilesOK' /\ pc' = [pc EXCEPT ![t] = "ret"]
  <2>1. v \in Fds \cup -1..MaxCount
    BY BoundsAssumption
  <2>2. CallsOK'
    BY <2>1, <1>1, <1>3, ReturnsOK DEF CallInv
  <2> QED BY <2>2, <1>3 DEF Returns, FilesOK
<1>4. CASE c.op \in {"read", "write"}
  <2>1. ToSys(t)
    BY <1>4 DEF PollReturns, ReadWriteGoesOn, WaitIoReady
  <2> QED BY <2>1, <1>2, <1>4
<1>5. CASE c.op = "accept"
  <2>1. GivesUp(t, -1) \/ ToSys(t)
    BY <1>5 DEF PollReturns, AcceptGoesOn
  <2> QED BY <2>1, <1>2, <1>5, GivesUpOK
<1>6. CASE c.op = "connect"
  <2> DEFINE d == [c EXCEPT !.tries = c.tries + 1]
  <2>1. /\ \/ Returns(t, d, 0) \/ Returns(t, d, -1)
           \/ GoesOn(t, d) /\ d.tries < ConnectTries
        /\ hook' = hook /\ file' = file
    BY <1>6 DEF PollReturns, ConnectGoesOn
  <2>2. c.tries \in Nat /\ c.tries < ConnectTries /\ c.tries + 1 \in 0..ConnectTries
    BY <1>1, <1>6, BoundsAssumption DEF CallType, CallInv
  <2> HIDE DEF c
  <2>3. d \in CallType
    BY <1>1, <2>2 DEF CallType
  <2>4. d.op = c.op /\ d.fd = c.fd /\ d.n = c.n /\ d.moved = c.moved /\ d.nbyte = c.nbyte
         /\ d.tries = c.tries + 1
    BY <1>1 DEF CallType
  <2> HIDE DEF d
  <2>5. CASE GoesOn(t, d) /\ d.tries < ConnectTries
    <3>1. CallInv("poll", d)
      BY <1>1, <1>6, <2>2, <2>4, <2>5, BoundsAssumption DEF CallInv
    <3>2. "poll" \in PcStates
      BY DEF PcStates
    <3>3. CallsOK'
      BY <3>1, <3>2, <2>3, <2>5, SetCall DEF GoesOn
    <3> QED BY <3>3, <2>1, <2>5 DEF GoesOn, FilesOK
  <2>6. CASE Returns(t, d, 0) \/ Returns(t, d, -1)
    BY <2>1, <2>3, <2>4, <2>6, <1>3, <1>6
  <2> QED BY <2>1, <2>5, <2>6
<1>7. CASE c.op \notin {"read", "write", "accept", "connect"}
  <2>1. Returns(t, c, 0) /\ hook' = hook /\ file' = file
    BY <1>7 DEF PollReturns
  <2> QED BY <2>1, <1>1, <1>3, <1>7
<1> QED BY <1>4, <1>5, <1>6, <1>7

\* The steps inside a poll, and those of the loop.
LEMMA PollSteps ==
  ASSUME IInv, NEW t \in Tasks,
         PollTimesOut(t) \/ PollInvalid(t) \/ PollSuspends(t) \/ Report(t) \/ Wake(t)
  PROVE  IInv'
<1> USE DEF IInv
<1>1. CASE PollTimesOut(t)
  <2>0. ~(-1 = 0 /\ TRUE)
    OBVIOUS
  <2>1. CallsOK' /\ FilesOK' /\ \E p \in {"poll", "sys", "ret"} : pc' = [pc EXCEPT ![t] = p]
    BY <2>0, <1>1, PollReturnsOK DEF PollTimesOut, InPoll
  <2>2. LoopOK'
    BY <2>1, <1>1 DEF PollTimesOut, LoopOK, CallsOK
  <2> QED BY <2>1, <2>2
<1>2. CASE PollInvalid(t)
  <2>1. CallsOK' /\ FilesOK' /\ \E p \in {"poll", "sys", "ret"} : pc' = [pc EXCEPT ![t] = p]
    BY <1>2, PollReturnsOK DEF PollInvalid, InPoll
  <2>2. LoopOK'
    BY <2>1, <1>2 DEF PollInvalid, LoopOK, CallsOK
  <2> QED BY <2>1, <2>2
<1>3. CASE PollSuspends(t)
  <2>1. CallInv("wait", call[t]) /\ call[t] \in CallType /\ "wait" \in PcStates
    BY <1>3 DEF PollSuspends, InPoll, CallsOK, CallInv, PcStates
  <2>2. pc' = [pc EXCEPT ![t] = "wait"] /\ call' = [call EXCEPT ![t] = call[t]]
    BY <1>3 DEF PollSuspends, CallsOK
  <2>3. CallsOK'
    BY <2>1, <2>2, SetCall
  <2>4. LoopOK'
    BY <1>3 DEF PollSuspends, LoopOK, CallsOK
  <2> QED BY <2>3, <2>4, <1>3 DEF PollSuspends, FilesOK
<1>4. CASE Report(t)
  BY <1>4 DEF Report, CallsOK, FilesOK, LoopOK
<1>5. CASE Wake(t)
  <2>1. timedout[t] = FALSE
    BY <1>5 DEF Wake, LoopOK
  <2>2. CallsOK' /\ FilesOK' /\ \E p \in {"poll", "sys", "ret"} : pc' = [pc EXCEPT ![t] = p]
    BY <2>1, <1>5, PollReturnsOK DEF Wake
  <2>3. LoopOK'
    BY <2>2, <1>5 DEF Wake, LoopOK, CallsOK
  <2> QED BY <2>2, <2>3
<1> QED BY <1>1, <1>2, <1>3, <1>4, <1>5

-----------------------------------------------------------------------------
(***************************************************************************)
(* The user's code and the kernel.                                         *)
(***************************************************************************)

\* One descriptor gets another state.
LEMMA SetFile ==
  ASSUME FilesOK, NEW f \in Fds, NEW x \in FileType,
         file' = [file EXCEPT ![f] = x], hook' \in [Fds -> BOOLEAN]
  PROVE  FilesOK'
BY DEF FilesOK

\* Functions begin and end.
LEMMA FunctionSteps ==
  ASSUME IInv, NEW t \in Tasks, Return(t) \/ Finish(t) \/ Start(t)
  PROVE  IInv'
<1> USE DEF IInv
<1>1. CASE Return(t)
  <2>1. CallInv("user", NoCall)
    BY DEF CallInv, NoCall
  <2>2. CallsOK'
    BY <2>1, <1>1, NoCallOK, SetCall DEF Return, PcStates
  <2>3. LoopOK'
    BY <1>1 DEF Return, LoopOK, CallsOK
  <2> QED BY <2>2, <2>3, <1>1 DEF Return, FilesOK
<1>2. ASSUME NEW p \in {"idle", "user"}, pc[t] \in {"idle", "user"},
             pc' = [pc EXCEPT ![t] = p], call' = call
      PROVE  CallsOK'
  <2>1. CallInv(p, call[t])
    BY <1>2 DEF CallsOK, CallInv
  <2>2. call' = [call EXCEPT ![t] = call[t]] /\ call[t] \in CallType /\ p \in PcStates
    BY <1>2 DEF CallsOK, PcStates
  <2> QED BY <2>1, <2>2, <1>2, SetCall
<1>3. CASE Finish(t)
  <2>1. CallsOK'
    BY <1>2, <1>3 DEF Finish
  <2>2. LoopOK'
    BY <1>3 DEF Finish, LoopOK, CallsOK
  <2> QED BY <2>1, <2>2, <1>3 DEF Finish, FilesOK
<1>4. CASE Start(t)
  <2>1. CallsOK'
    BY <1>2, <1>4 DEF Start
  <2>2. LoopOK'
    BY <1>4 DEF Start, LoopOK, CallsOK
  <2> QED BY <2>1, <2>2, <1>4 DEF Start, FilesOK
<1> QED BY <1>1, <1>3, <1>4

\* socket, listen, fcntl and close.
LEMMA ManageSteps ==
  ASSUME IInv, NEW t \in Tasks, NEW f \in Fds,
         Socket(t, f) \/ Listen(t, f) \/ Close(t, f)
           \/ \E nonblock \in BOOLEAN : SetFl(t, f, nonblock)
  PROVE  IInv'
<1> USE DEF IInv
<1>1. file[f] \in FileType /\ hook[f] \in BOOLEAN /\ Hooked(t) \in BOOLEAN
  BY DEF FilesOK, Hooked
<1>2. ASSUME UNCHANGED taskVars PROVE CallsOK' /\ LoopOK'
  BY <1>2 DEF taskVars, CallsOK, LoopOK
<1>3. CASE Socket(t, f)
  <2> DEFINE x == [NoFile EXCEPT !.kind = "fresh", !.nonblock = Hooked(t)]
  <2>1. x \in FileType
    BY <1>1, NoFileOK DEF FileType, Kinds
  <2>2. file' = [file EXCEPT ![f] = x] /\ hook' \in [Fds -> BOOLEAN]
    BY <1>1, <1>3 DEF Socket, FilesOK
  <2> HIDE DEF x
  <2> QED BY <2>1, <2>2, <1>2, <1>3, SetFile DEF Socket
<1>4. CASE Listen(t, f)
  <2> DEFINE x == [file[f] EXCEPT !.kind = "listen"]
  <2>1. x \in FileType
    BY <1>1 DEF FileType, Kinds
  <2>2. file' = [file EXCEPT ![f] = x] /\ hook' \in [Fds -> BOOLEAN]
    BY <1>4 DEF Listen, FilesOK
  <2> HIDE DEF x
  <2> QED BY <2>1, <2>2, <1>2, <1>4, SetFile DEF Listen
<1>5. CASE Close(t, f)
  <2>1. FilesOK'
    BY <1>1, <1>5, DoCloseOK DEF Close
  <2>2. CallsOK'
    <3>1. call' \in [Tasks -> CallType] /\ \A u \in Tasks : \A p : CallInv(p, call'[u]) <=> CallInv(p, call[u])
      BY <1>5, GoneOK DEF Close
    <3>2. pc' = pc
      BY <1>5 DEF Close
    <3>3. \A u \in Tasks : CallInv(pc'[u], call'[u])
      BY <3>1, <3>2 DEF CallsOK
    <3> QED BY <3>1, <3>2, <3>3 DEF CallsOK, CallInv
  <2> QED BY <2>1, <2>2, <1>5 DEF Close, LoopOK
<1>6. ASSUME NEW nonblock \in BOOLEAN, SetFl(t, f, nonblock) PROVE IInv'
  <2> DEFINE m == NewMode(t, f, nonblock)
             x == [file[f] EXCEPT !.nonblock = m]
  <2>1. m \in BOOLEAN
    BY <1>1 DEF NewMode
  <2>2. file' = [file EXCEPT ![f] = x] /\ hook' \in [Fds -> BOOLEAN]
    BY <1>6 DEF SetFl, FilesOK
  <2> HIDE DEF m
  <2>3. x \in FileType
    BY <1>1, <2>1 DEF FileType
  <2> HIDE DEF x
  <2> QED BY <2>2, <2>3, <1>2, <1>6, SetFile DEF SetFl
<1> QED BY <1>3, <1>4, <1>5, <1>6

\* sleep and its relatives keep the invariant.
LEMMA SleepStep ==
  ASSUME IInv, NEW t \in Tasks, Sleep(t)
  PROVE  IInv'
<1> USE DEF IInv
<1>1. NoFd \in Fds \cup {NoFd} /\ 0 \in 0..MaxCount /\ "sleep" \in CallNames
  BY BoundsAssumption DEF CallNames
<1>2. CallsOK' /\ LoopOK'
  BY <1>1, EnterOK DEF Sleep
<1> QED BY <1>2 DEF Sleep, FilesOK

\* The beginnings of the calls.
LEMMA BeginSteps ==
  ASSUME IInv, NEW t \in Tasks, NEW f \in Fds,
         \/ \E k \in 0..MaxCount : Read(t, f, k) \/ Write(t, f, k)
         \/ Accept(t, f) \/ Connect(t, f)
  PROVE  IInv'
<1> USE DEF IInv
<1>1. file[f] \in FileType /\ hook[f] \in BOOLEAN /\ Hooked(t) \in BOOLEAN /\ 0 \in 0..MaxCount
  BY BoundsAssumption DEF FilesOK, Hooked
<1>2. ASSUME NEW k \in 0..MaxCount, Read(t, f, k) PROVE IInv'
  BY <1>2, EnterOK DEF Read, CallNames, FilesOK
<1>3. ASSUME NEW k \in 0..MaxCount, Write(t, f, k) PROVE IInv'
  BY <1>3, EnterOK DEF Write, CallNames, FilesOK
<1>4. CASE Accept(t, f)
  <2>1. CallsOK' /\ LoopOK'
    BY <1>1, <1>4, EnterOK DEF Accept, CallNames
  <2> DEFINE x == [file[f] EXCEPT !.nonblock = TRUE]
  <2>2. x \in FileType
    BY <1>1 DEF FileType
  <2>3. (file' = [file EXCEPT ![f] = x] \/ file' = file) /\ hook' \in [Fds -> BOOLEAN]
    BY <1>1, <1>4 DEF Accept, FilesOK
  <2> HIDE DEF x
  <2>4. FilesOK'
    BY <2>2, <2>3, SetFile DEF FilesOK
  <2> QED BY <2>1, <2>4
<1>5. CASE Connect(t, f)
  <2>1. CallsOK' /\ LoopOK'
    BY <1>1, <1>5, EnterOK DEF Connect, CallNames
  <2> DEFINE x == [file[f] EXCEPT !.kind = "connecting"]
  <2>2. x \in FileType
    BY <1>1 DEF FileType, Kinds
  <2>3. file' = [file EXCEPT ![f] = x] /\ hook' \in [Fds -> BOOLEAN]
    BY <1>5 DEF Connect, FilesOK
  <2> HIDE DEF x
  <2>4. FilesOK'
    BY <2>2, <2>3, SetFile
  <2> QED BY <2>1, <2>4
<1> QED BY <1>2, <1>3, <1>4, <1>5

\* The network and the kernel go on.
LEMMA KernelSteps ==
  ASSUME IInv, NEW f \in Fds, KernelStep(f)
  PROVE  IInv'
<1> USE DEF IInv
<1>1. /\ file[f] \in FileType /\ MaxBytes \in Nat
      /\ file[f].inq \in 0..MaxBytes /\ file[f].room \in 0..MaxBytes
  BY BoundsAssumption DEF FilesOK, FileType
<1>2. UNCHANGED <<taskVars, hook>>
  BY DEF KernelStep, Arrive, Drain, PeerEnds, ConnectEnds
<1>3. CallsOK' /\ LoopOK' /\ hook' \in [Fds -> BOOLEAN]
  BY <1>2 DEF taskVars, CallsOK, LoopOK, FilesOK
<1>4. \E x \in FileType : file' = [file EXCEPT ![f] = x]
  <2>1. CASE Arrive(f)
    <3>1. file[f].inq + 1 \in 0..MaxBytes
      BY <1>1, <2>1 DEF Arrive
    <3>2. [file[f] EXCEPT !.inq = @ + 1] \in FileType
      BY <3>1, <1>1 DEF FileType
    <3> QED BY <3>2, <2>1 DEF Arrive
  <2>2. CASE Drain(f)
    <3>1. file[f].room + 1 \in 0..MaxBytes
      BY <1>1, <2>2 DEF Drain
    <3>2. [file[f] EXCEPT !.room = @ + 1] \in FileType
      BY <3>1, <1>1 DEF FileType
    <3> QED BY <3>2, <2>2 DEF Drain
  <2>3. CASE PeerEnds(f)
    <3>1. [file[f] EXCEPT !.peer = "closed"] \in FileType
      BY <1>1 DEF FileType
    <3>2. [[file[f] EXCEPT !.peer = "reset"] EXCEPT !.inq = 0] \in FileType
      <4> DEFINE y == [file[f] EXCEPT !.peer = "reset"]
      <4>1. y \in FileType /\ 0 \in 0..MaxBytes
        BY <1>1 DEF FileType
      <4> HIDE DEF y
      <4>2. [y EXCEPT !.inq = 0] \in FileType
        BY <4>1 DEF FileType
      <4> QED BY <4>2 DEF y
    <3>3. [file EXCEPT ![f].peer = "reset", ![f].inq = 0]
            = [file EXCEPT ![f] = [[file[f] EXCEPT !.peer = "reset"] EXCEPT !.inq = 0]]
      BY DEF FilesOK
    <3> QED BY <3>1, <3>2, <3>3, <2>3 DEF PeerEnds
  <2>4. CASE ConnectEnds(f)
    <3>1. [file[f] EXCEPT !.kind = "failed"] \in FileType
      BY <1>1 DEF FileType, Kinds
    <3>2. [[file[f] EXCEPT !.kind = "stream"] EXCEPT !.room = MaxBytes] \in FileType
      <4> DEFINE y == [file[f] EXCEPT !.kind = "stream"]
      <4>1. y \in FileType /\ MaxBytes \in 0..MaxBytes
        BY <1>1 DEF FileType, Kinds
      <4> HIDE DEF y
      <4>2. [y EXCEPT !.room = MaxBytes] \in FileType
        BY <4>1 DEF FileType
      <4> QED BY <4>2 DEF y
    <3>3. [file EXCEPT ![f].kind = "stream", ![f].room = MaxBytes]
            = [file EXCEPT ![f] = [[file[f] EXCEPT !.kind = "stream"] EXCEPT !.room = MaxBytes]]
      BY DEF FilesOK
    <3> QED BY <3>1, <3>2, <3>3, <2>4 DEF ConnectEnds
  <2> QED BY <2>1, <2>2, <2>3, <2>4 DEF KernelStep
<1> QED BY <1>3, <1>4, SetFile

-----------------------------------------------------------------------------
(***************************************************************************)
(* The theorems.                                                           *)
(***************************************************************************)

\* No call is in progress at the start.
LEMMA Initially == Init => IInv
<1> SUFFICES ASSUME Init PROVE IInv
  OBVIOUS
<1>1. CallInv("idle", NoCall)
  BY DEF CallInv, NoCall
<1>2. CallsOK
  BY <1>1, NoCallOK DEF Init, CallsOK, PcStates
<1>3. \A k \in MadeByMain \cup {"none"} : [NoFile EXCEPT !.kind = k] \in FileType
  BY NoFileOK, MadeByMainAssumption DEF FileType, Kinds
<1>4. FilesOK
  BY <1>3 DEF Init, FilesOK
<1>5. LoopOK
  BY DEF Init, LoopOK
<1> QED BY <1>2, <1>4, <1>5 DEF IInv

\* The counts of every call agree with the kernel in every reachable state.
LEMMA Inductive == Spec => []IInv
<1>1. IInv /\ [Next]_vars => IInv'
  <2> SUFFICES ASSUME IInv, [Next]_vars PROVE IInv'
    OBVIOUS
  <2>1. CASE UNCHANGED vars
    BY <2>1 DEF vars, taskVars, IInv, CallsOK, FilesOK, LoopOK
  <2>2. ASSUME NEW t \in Tasks, CallStep(t) PROVE IInv'
    BY <2>2, SysStep, DirectStep, PollSteps, FunctionSteps DEF CallStep
  <2>3. ASSUME NEW t \in Tasks, UserStep(t) PROVE IInv'
    BY <2>3, ManageSteps, BeginSteps, SleepStep, FunctionSteps DEF UserStep
  <2>4. ASSUME NEW t \in Tasks, LoopStep(t) PROVE IInv'
    BY <2>4, PollSteps, FunctionSteps DEF LoopStep
  <2> QED BY <2>1, <2>2, <2>3, <2>4, KernelSteps DEF Next
<1> QED BY <1>1, Initially, PTL DEF Spec

\* The locals of the calls, the table and the descriptors stay in their
\* types: no count exceeds nbyte, no buffer is overrun and connect does not
\* poll more often than it may.
THEOREM Types == Spec => []TypeOK
<1>1. IInv => TypeOK
  BY DEF IInv, CallsOK, FilesOK, LoopOK, TypeOK, CallType, FileType
<1> QED BY <1>1, Inductive, PTL

\* read, recv, write and send return what the kernel moved, for any tasks,
\* descriptors, buffers and counts.
THEOREM Bytes == Spec => []ByteCount
<1>1. IInv => ByteCount
  BY DEF IInv, CallsOK, CallInv, ByteCount
<1> QED BY <1>1, Inductive, PTL

\* A hooked write or send that is short met an error or its task's limit is
\* used up.
THEOREM ShortWrites == Spec => []ShortWriteExplained
<1>1. IInv => ShortWriteExplained
  BY DEF IInv, CallsOK, CallInv, ShortWriteExplained
<1> QED BY <1>1, Inductive, PTL

-----------------------------------------------------------------------------
(***************************************************************************)
(* connect.                                                                *)
(***************************************************************************)

Over == {"stream", "failed"}
Tried == Over \cup {"connecting"}

\* The descriptor of a connect is being connected until somebody closes it,
\* and the attempt is over when poll has reported it or connect returns 0.
ConnectOf(t) ==
  call[t].op = "connect" /\ ~call[t].gone =>
    /\ file[call[t].fd].kind \in Tried
    /\ pc[t] = "wait" /\ raised[t] => file[call[t].fd].kind \in Over
    /\ pc[t] = "ret" /\ call[t].ret = 0 => file[call[t].fd].kind \in Over

ConnectInv == \A t \in Tasks : ConnectOf(t)

\* A step does not undo an attempt on descriptor f.
Keeps(f) ==
  /\ file[f].kind \in Tried => file'[f].kind \in Tried
  /\ file[f].kind \in Over => file'[f].kind \in Over

\* A step does not touch the call of task u.
Others(u) ==
  /\ pc'[u] = pc[u] /\ raised'[u] = raised[u]
  /\ call'[u].op = call[u].op /\ call'[u].fd = call[u].fd /\ call'[u].ret = call[u].ret
  /\ ~call'[u].gone => ~call[u].gone

\* A step of another task that keeps the descriptor keeps the connect of this one.
LEMMA ConnectOther ==
  ASSUME NEW u \in Tasks, ConnectOf(u), Others(u),
         call[u].op = "connect" /\ ~call'[u].gone => Keeps(call[u].fd)
  PROVE  ConnectOf(u)'
BY DEF ConnectOf, Others, Keeps

\* What a poll that returns does to the calls and to the descriptors.
LEMMA PollEffect ==
  ASSUME IInv, NEW t \in Tasks, NEW r \in {-1, 0, 1}, NEW late \in BOOLEAN, ~(r = 0 /\ late),
         PollReturns(t, r, late)
  PROVE  /\ call'[t].op = call[t].op
         /\ call[t].op = "connect" =>
              /\ file' = file /\ call'[t].fd = call[t].fd /\ call'[t].gone = call[t].gone
              /\ pc'[t] # "wait" /\ (pc'[t] = "ret" /\ call'[t].ret = 0 => r = 1)
         /\ \A u \in Tasks \ {t} :
              /\ pc'[u] = pc[u]
              /\ call'[u].op = call[u].op /\ call'[u].fd = call[u].fd
              /\ call'[u].ret = call[u].ret
              /\ ~call'[u].gone => ~call[u].gone /\ (call[u].op = "connect" => Keeps(call[u].fd))
         /\ (file' = file /\ hook' = hook) \/ (\E f \in Fds : DoClose(TRUE, f))
<1> DEFINE c == call[t]
<1> USE DEF IInv
<1>1. c \in CallType /\ CallInv(pc[t], c)
  BY DEF CallsOK
<1>2. ASSUME NEW d, NEW p, call' = [call EXCEPT ![t] = d], pc' = [pc EXCEPT ![t] = p],
             file' = file, hook' = hook, d.op = c.op,
             c.op = "connect" => /\ d.fd = c.fd /\ d.gone = c.gone /\ p # "wait"
                                 /\ (p = "ret" /\ d.ret = 0 => r = 1)
      PROVE  /\ call'[t].op = call[t].op
             /\ call[t].op = "connect" =>
                  /\ file' = file /\ call'[t].fd = call[t].fd /\ call'[t].gone = call[t].gone
                  /\ pc'[t] # "wait" /\ (pc'[t] = "ret" /\ call'[t].ret = 0 => r = 1)
             /\ \A u \in Tasks \ {t} :
                  /\ pc'[u] = pc[u]
                  /\ call'[u].op = call[u].op /\ call'[u].fd = call[u].fd
                  /\ call'[u].ret = call[u].ret
                  /\ ~call'[u].gone => ~call[u].gone /\ (call[u].op = "connect" => Keeps(call[u].fd))
             /\ file' = file /\ hook' = hook
  <2>1. call'[t] = d /\ pc'[t] = p /\ \A u \in Tasks \ {t} : call'[u] = call[u] /\ pc'[u] = pc[u]
    BY <1>2 DEF CallsOK
  <2> QED BY <2>1, <1>2 DEF Keeps
<1>3. ASSUME ToSys(t), c.op # "connect"
      PROVE  call' = [call EXCEPT ![t] = c] /\ pc' = [pc EXCEPT ![t] = "sys"]
               /\ file' = file /\ hook' = hook
  BY <1>3 DEF ToSys, CallsOK
<1>4. CASE c.op \in {"read", "write"}
  <2>1. ToSys(t)
    BY <1>4 DEF PollReturns, ReadWriteGoesOn, WaitIoReady
  <2> QED BY <2>1, <1>2, <1>3, <1>4
<1>5. CASE c.op = "accept"
  <2>1. GivesUp(t, -1) \/ ToSys(t)
    BY <1>5 DEF PollReturns, AcceptGoesOn
  <2>2. CASE ToSys(t)
    BY <2>2, <1>2, <1>3, <1>5
  <2>3. CASE GivesUp(t, -1)
    <3> DEFINE f == c.fd
               g == Gone(f)
               d == [c EXCEPT !.ret = -1]
    <3>1. f \in Fds /\ DoClose(TRUE, f) /\ pc' = [pc EXCEPT ![t] = "ret"] /\ call' = [g EXCEPT ![t] = d]
      BY <2>3, <1>1, <1>5 DEF GivesUp, CallInv
    <3>2. d.op = c.op
      BY <1>1 DEF CallType
    <3>3. /\ g \in [Tasks -> CallType]
          /\ \A u \in Tasks :
               /\ g[u].op = call[u].op /\ g[u].fd = call[u].fd /\ g[u].ret = call[u].ret
               /\ ~g[u].gone => ~call[u].gone /\ call[u].fd # f
      BY GoneOK, ZenonT(40)
    <3>4. \A h \in Fds : h # f => file'[h] = file[h]
      BY <3>1 DEF DoClose, FilesOK
    <3>5. \A u \in Tasks : call[u].op = "connect" => call[u].fd \in Fds
      BY DEF CallsOK, CallInv
    <3> HIDE DEF g, d, c
    <3>6. call'[t] = d /\ \A u \in Tasks \ {t} : call'[u] = g[u] /\ pc'[u] = pc[u]
      BY <3>1, <3>3 DEF CallsOK
    <3>7. \A u \in Tasks \ {t} :
            /\ call'[u].op = call[u].op /\ call'[u].fd = call[u].fd
            /\ call'[u].ret = call[u].ret
            /\ ~call'[u].gone => ~call[u].gone /\ (call[u].op = "connect" => Keeps(call[u].fd))
      BY <3>3, <3>4, <3>5, <3>6 DEF Keeps
    <3> QED BY <3>1, <3>2, <3>6, <3>7, <1>5 DEF c
  <2> QED BY <2>1, <2>2, <2>3
<1>6. CASE c.op = "connect"
  <2> DEFINE d == [c EXCEPT !.tries = @ + 1]
             e == [d EXCEPT !.ret = 0]
             x == [d EXCEPT !.ret = -1]
  <2>1. /\ (r = 1 /\ Returns(t, d, 0)) \/ Returns(t, d, -1) \/ GoesOn(t, d)
        /\ hook' = hook /\ file' = file
    BY <1>6 DEF PollReturns, ConnectGoesOn, Connected
  <2>2. /\ d.op = c.op /\ d.fd = c.fd /\ d.gone = c.gone
        /\ e.op = c.op /\ e.fd = c.fd /\ e.gone = c.gone /\ e.ret = 0
        /\ x.op = c.op /\ x.fd = c.fd /\ x.gone = c.gone /\ x.ret = -1
    BY <1>1 DEF CallType
  <2>3. \/ r = 1 /\ call' = [call EXCEPT ![t] = e] /\ pc' = [pc EXCEPT ![t] = "ret"]
        \/ call' = [call EXCEPT ![t] = x] /\ pc' = [pc EXCEPT ![t] = "ret"]
        \/ call' = [call EXCEPT ![t] = d] /\ pc' = [pc EXCEPT ![t] = "poll"]
    BY <2>1 DEF Returns, GoesOn
  <2> HIDE DEF c, d, e, x
  <2> QED BY <2>1, <2>2, <2>3, <1>2, <1>6
<1>7. CASE c.op \notin {"read", "write", "accept", "connect"}
  <2> DEFINE d == [c EXCEPT !.ret = 0]
  <2>1. call' = [call EXCEPT ![t] = d] /\ pc' = [pc EXCEPT ![t] = "ret"] /\ hook' = hook /\ file' = file
    BY <1>7 DEF PollReturns, Returns
  <2>2. d.op = c.op
    BY <1>1 DEF CallType
  <2> HIDE DEF c, d
  <2> QED BY <2>1, <2>2, <1>2, <1>7
<1> QED BY <1>4, <1>5, <1>6, <1>7

\* The steps of a call keep what connect relies on.
LEMMA ConnectCallSteps ==
  ASSUME IInv, ConnectInv, NEW t \in Tasks, CallStep(t)
  PROVE  ConnectInv'
<1> USE DEF IInv
<1>0. call[t] \in CallType /\ CallInv(pc[t], call[t])
      /\ \A u \in Tasks : call[u].op = "connect" => call[u].fd \in Fds
  BY DEF CallsOK, CallInv
<1> SUFFICES ASSUME NEW u \in Tasks PROVE ConnectOf(u)'
  BY DEF ConnectInv
<1>1. ConnectOf(u) /\ ConnectOf(t)
  BY DEF ConnectInv
<1>2. CASE Sys(t)
  <2>1. PICK r \in SysResults(t) :
          /\ CASE call[t].op = "read"  -> SysReadDone(t, r)
               [] call[t].op = "write" -> SysWriteDone(t, r)
               [] OTHER                -> SysOpenDone(t, r)
          /\ IF call[t].op = "accept" /\ r >= 0 THEN Accepted(t, r)
             ELSE file' = After(t, r) /\ UNCHANGED hook
    BY <1>2 DEF Sys
  <2>2. \A g \in Fds : Keeps(g)
    <3> DEFINE a == After(t, r)
    <3>1. a \in [Fds -> FileType]
          /\ \A g \in Fds : a[g].kind = file[g].kind \/ file[g].kind = "none"
      BY AfterOK
    <3>2. file' = a \/ file' = [a EXCEPT ![r].nonblock = TRUE]
      BY <2>1 DEF Accepted
    <3> HIDE DEF a
    <3>3. \A g \in Fds : file'[g].kind = a[g].kind
      BY <3>1, <3>2 DEF FileType
    <3> QED BY <3>1, <3>3 DEF Keeps, Tried, Over
  <2>3. CASE u # t
    <3>1. \E d, p : call' = [call EXCEPT ![t] = d] /\ pc' = [pc EXCEPT ![t] = p]
      BY <2>1 DEF SysReadDone, SysWriteDone, SysOpenDone, Returns, GoesOn
    <3>2. Others(u)
      BY <3>1, <2>3, <1>2 DEF Others, Sys, CallsOK
    <3> QED BY <3>2, <2>2, <1>0, <1>1, ConnectOther
  <2>4. CASE u = t /\ call[t].op = "connect"
    <3>1. SysOpenDone(t, r) /\ (r = 0 => file[call[t].fd].kind = "stream") /\ r \in Int /\ r <= 0
      BY <2>1, <2>4, Results
    <3> DEFINE c == call[t]
               d == [c EXCEPT !.ret = Value(r)]
    <3>2. d.op = c.op /\ d.fd = c.fd /\ d.gone = c.gone /\ d.ret = Value(r)
      BY <1>0 DEF CallType
    <3>3. \/ call' = [call EXCEPT ![t] = c] /\ pc' = [pc EXCEPT ![t] = "poll"]
          \/ call' = [call EXCEPT ![t] = d] /\ pc' = [pc EXCEPT ![t] = "ret"]
      BY <3>1 DEF SysOpenDone, Returns, GoesOn
    <3>4. Value(r) = 0 => r = 0
      BY <3>1 DEF Value
    <3>5. file[c.fd].kind = "stream" => file[c.fd].kind \in Over
      BY DEF Over
    <3>6. Keeps(c.fd)
      BY <1>0, <2>2, <2>4
    <3> HIDE DEF c, d
    <3>7. CASE call' = [call EXCEPT ![t] = c] /\ pc' = [pc EXCEPT ![t] = "poll"]
      <4>1. call'[t] = c /\ pc'[t] = "poll" /\ call[t] = c
        BY <3>7 DEF CallsOK, c
      <4> QED BY <4>1, <3>6, <2>4, <1>1 DEF ConnectOf, Keeps
    <3>8. CASE call' = [call EXCEPT ![t] = d] /\ pc' = [pc EXCEPT ![t] = "ret"]
      <4>1. call'[t] = d /\ pc'[t] = "ret" /\ call[t] = c
        BY <3>8 DEF CallsOK, c
      <4>2. d.ret = 0 => file[c.fd].kind \in Over
        BY <3>1, <3>2, <3>4, <3>5 DEF c
      <4> QED BY <4>1, <4>2, <3>2, <3>6, <2>4, <1>1 DEF ConnectOf, Keeps
    <3> QED BY <3>3, <3>7, <3>8
  <2>5. CASE u = t /\ call[t].op # "connect"
    <3>1. Moved(call[t], r).op = call[t].op
      BY MovedOK
    <3>2. call'[t].op = call[t].op
      <4>1. PICK d, v :
              /\ d \in {call[t], Moved(call[t], r)}
              /\ call' = [call EXCEPT ![t] = d] \/ call' = [call EXCEPT ![t] = [d EXCEPT !.ret = v]]
        BY <2>1 DEF SysReadDone, SysWriteDone, SysOpenDone, Returns, GoesOn
      <4>2. d \in CallType /\ d.op = call[t].op
        BY <4>1, <1>0, <3>1, MovedOK
      <4>3. [d EXCEPT !.ret = v].op = d.op
        BY <4>2 DEF CallType
      <4>4. call'[t] = d \/ call'[t] = [d EXCEPT !.ret = v]
        BY <4>1 DEF CallsOK
      <4> QED BY <4>2, <4>3, <4>4
    <3> QED BY <3>2, <2>5 DEF ConnectOf
  <2> QED BY <2>3, <2>4, <2>5
<1>3. CASE Direct(t)
  <2>1. PICK r \in SysResults(t) : file' = After(t, r) /\ Returns(t, Moved(call[t], r), Value(r))
    BY <1>3 DEF Direct
  <2>2. \A g \in Fds : Keeps(g)
    BY <2>1, AfterOK DEF Keeps, Tried, Over
  <2> DEFINE m == Moved(call[t], r)
             d == [m EXCEPT !.ret = Value(r)]
  <2>3. d.op = call[t].op /\ call[t].op # "connect"
    <3>1. m \in CallType /\ m.op = call[t].op
      BY MovedOK
    <3>2. call[t].op # "connect"
      BY <1>0, <1>3 DEF Direct, CallInv
    <3> HIDE DEF m
    <3> QED BY <3>1, <3>2 DEF CallType
  <2>4. call' = [call EXCEPT ![t] = d] /\ pc' = [pc EXCEPT ![t] = "ret"]
    BY <2>1 DEF Returns
  <2> HIDE DEF d
  <2>5. CASE u = t
    BY <2>3, <2>4, <2>5 DEF ConnectOf, CallsOK
  <2>6. CASE u # t
    <3>1. Others(u)
      BY <2>4, <2>6, <1>3 DEF Others, Direct, CallsOK
    <3> QED BY <3>1, <2>2, <1>0, <1>1, ConnectOther
  <2> QED BY <2>5, <2>6
<1>4. CASE PollTimesOut(t) \/ PollInvalid(t)
  <2>0. ~(-1 = 0 /\ TRUE) /\ ~(-1 = 0 /\ FALSE) /\ -1 # 1
    OBVIOUS
  <2>1. PICK late \in BOOLEAN : PollReturns(t, -1, late) /\ ~(-1 = 0 /\ late)
    BY <1>4, <2>0 DEF PollTimesOut, PollInvalid
  <2>2. raised' = raised
    BY <1>4 DEF PollTimesOut, PollInvalid
  <2>3. CASE u = t
    BY <2>0, <2>1, <2>2, <2>3, <1>1, PollEffect, ZenonT(40) DEF ConnectOf
  <2>4. CASE u # t
    <3>1. /\ pc'[u] = pc[u]
          /\ call'[u].op = call[u].op /\ call'[u].fd = call[u].fd /\ call'[u].ret = call[u].ret
          /\ ~call'[u].gone => ~call[u].gone /\ (call[u].op = "connect" => Keeps(call[u].fd))
      BY <2>0, <2>1, <2>4, PollEffect, ZenonT(40)
    <3>2. Others(u)
      BY <3>1, <2>2 DEF Others
    <3> QED BY <3>1, <3>2, <1>1, ConnectOther
  <2> QED BY <2>3, <2>4
<1>5. CASE PollSuspends(t)
  <2>1. file' = file /\ call' = call /\ pc' = [pc EXCEPT ![t] = "wait"] /\ raised' = [raised EXCEPT ![t] = FALSE]
    BY <1>5 DEF PollSuspends
  <2>2. pc'[t] = "wait" /\ ~raised'[t] /\ (u # t => pc'[u] = pc[u] /\ raised'[u] = raised[u])
    BY <2>1 DEF CallsOK, LoopOK
  <2> QED BY <2>1, <2>2, <1>1 DEF ConnectOf
<1>6. CASE Return(t)
  <2>1. file' = file /\ call' = [call EXCEPT ![t] = NoCall] /\ pc' = [pc EXCEPT ![t] = "user"] /\ raised' = raised
    BY <1>6 DEF Return
  <2>2. call'[t].op # "connect" /\ (u # t => pc'[u] = pc[u] /\ call'[u] = call[u])
    BY <2>1 DEF CallsOK, NoCall
  <2> QED BY <2>1, <2>2, <1>1 DEF ConnectOf
<1> QED BY <1>2, <1>3, <1>4, <1>5, <1>6 DEF CallStep

\* So do the user's calls: a descriptor is not used by two attempts, and
\* close marks the calls on it.
LEMMA ConnectUserSteps ==
  ASSUME IInv, ConnectInv, NEW t \in Tasks, UserStep(t)
  PROVE  ConnectInv'
<1> USE DEF IInv
<1>0. \A u \in Tasks : call[u] \in CallType /\ (call[u].op = "connect" => call[u].fd \in Fds)
  BY DEF CallsOK, CallInv
<1> SUFFICES ASSUME NEW u \in Tasks PROVE ConnectOf(u)'
  BY DEF ConnectInv
<1>1. ConnectOf(u) /\ ConnectOf(t)
  BY DEF ConnectInv
<1>2. ASSUME NEW op, NEW f, NEW k, NEW p, Enter(t, op, f, k, p), op # "connect",
             \A g \in Fds : Keeps(g)
      PROVE  ConnectOf(u)'
  <2> DEFINE c == [NoCall EXCEPT !.op = op, !.fd = f, !.nbyte = k, !.via = ViaTable(t, f)]
  <2>1. c.op = op
    BY DEF NoCall
  <2>2. call' = [call EXCEPT ![t] = c] /\ pc' = [pc EXCEPT ![t] = p] /\ raised' = raised
    BY <1>2 DEF Enter
  <2> HIDE DEF c
  <2>3. CASE u = t
    BY <2>1, <2>2, <2>3, <1>2 DEF ConnectOf, CallsOK
  <2>4. CASE u # t
    <3>1. Others(u)
      BY <2>2, <2>4 DEF Others, CallsOK
    <3> QED BY <3>1, <1>0, <1>1, <1>2, ConnectOther
  <2> QED BY <2>3, <2>4
<1>3. file' = file => \A g \in Fds : Keeps(g)
  BY DEF Keeps
<1>4. ASSUME NEW f \in Fds, Socket(t, f) \/ Listen(t, f) \/ \E nonblock \in BOOLEAN : SetFl(t, f, nonblock)
      PROVE  ConnectOf(u)'
  <2>1. UNCHANGED taskVars
    BY <1>4 DEF Socket, Listen, SetFl
  <2>2. Others(u)
    BY <2>1 DEF Others, taskVars
  <2>3. \A g \in Fds : Keeps(g)
    <3>1. \A g \in Fds : file'[g].kind = file[g].kind \/ file[g].kind \in {"none", "fresh"}
      BY <1>4 DEF Socket, Listen, SetFl, FilesOK, FileType
    <3> QED BY <3>1 DEF Keeps, Tried, Over
  <2> QED BY <2>2, <2>3, <1>0, <1>1, ConnectOther
<1>5. ASSUME NEW f \in Fds, Close(t, f) PROVE ConnectOf(u)'
  <2>1. pc' = pc /\ raised' = raised /\ call' = Gone(f) /\ file' = [file EXCEPT ![f] = NoFile]
    BY <1>5 DEF Close, DoClose
  <2>2. /\ call'[u].op = call[u].op /\ call'[u].fd = call[u].fd /\ call'[u].ret = call[u].ret
        /\ ~call'[u].gone => ~call[u].gone /\ call[u].fd # f
    BY <2>1, GoneOK, ZenonT(40)
  <2>3. Others(u)
    BY <2>1, <2>2 DEF Others
  <2>4. call[u].op = "connect" /\ ~call'[u].gone => Keeps(call[u].fd)
    BY <2>1, <2>2, <1>0 DEF Keeps, FilesOK
  <2> QED BY <2>3, <2>4, <1>1, ConnectOther
<1>6. ASSUME NEW f \in Fds, NEW k \in 0..MaxCount, Read(t, f, k) \/ Write(t, f, k)
      PROVE  ConnectOf(u)'
  BY <1>2, <1>3, <1>6 DEF Read, Write
<1>7. ASSUME NEW f \in Fds, Accept(t, f) PROVE ConnectOf(u)'
  <2>1. \A g \in Fds : file'[g].kind = file[g].kind
    BY <1>7 DEF Accept, FilesOK, FileType
  <2> QED BY <2>1, <1>2, <1>7 DEF Accept, Keeps
<1>8. ASSUME NEW f \in Fds, Connect(t, f) PROVE ConnectOf(u)'
  <2> DEFINE c == [NoCall EXCEPT !.op = "connect", !.fd = f, !.nbyte = 0, !.via = ViaTable(t, f)]
  <2>1. c.fd = f
    BY DEF NoCall
  <2>2. /\ call' = [call EXCEPT ![t] = c] /\ pc' = [pc EXCEPT ![t] = "sys"] /\ raised' = raised
        /\ file[f].kind = "fresh" /\ file' = [file EXCEPT ![f].kind = "connecting"]
    BY <1>8 DEF Connect, Enter
  <2> HIDE DEF c
  <2>3. \A g \in Fds : file'[g].kind = file[g].kind \/ (g = f /\ file'[g].kind = "connecting")
    BY <2>2 DEF FilesOK, FileType
  <2>4. file'[f].kind = "connecting"
    BY <2>2 DEF FilesOK, FileType
  <2>5. CASE u = t
    BY <2>1, <2>2, <2>4, <2>5 DEF ConnectOf, CallsOK, Tried
  <2>6. CASE u # t
    <3>1. Others(u)
      BY <2>2, <2>6 DEF Others, CallsOK
    <3>2. \A g \in Fds : Keeps(g)
      BY <2>2, <2>3 DEF Keeps, Tried, Over
    <3> QED BY <3>1, <3>2, <1>0, <1>1, ConnectOther
  <2> QED BY <2>5, <2>6
<1>9. CASE Sleep(t)
  BY <1>2, <1>3, <1>9 DEF Sleep
<1>10. CASE Finish(t)
  <2>1. call' = call /\ file' = file /\ raised' = raised /\ pc' = [pc EXCEPT ![t] = "idle"]
    BY <1>10 DEF Finish
  <2>2. pc'[u] = pc[u] \/ (u = t /\ pc'[u] = "idle")
    BY <2>1 DEF CallsOK
  <2> QED BY <2>1, <2>2, <1>1 DEF ConnectOf
<1> QED BY <1>4, <1>5, <1>6, <1>7, <1>8, <1>9, <1>10 DEF UserStep

\* So do the loop and the kernel: what poll reports for a connect is the end
\* of the attempt.
LEMMA ConnectLoopSteps ==
  ASSUME IInv, ConnectInv, NEW t \in Tasks, LoopStep(t)
  PROVE  ConnectInv'
<1> USE DEF IInv
<1> SUFFICES ASSUME NEW u \in Tasks PROVE ConnectOf(u)'
  BY DEF ConnectInv
<1>1. ConnectOf(u) /\ ConnectOf(t)
  BY DEF ConnectInv
<1>2. CASE Report(t)
  <2>1. /\ call' = call /\ file' = file /\ pc' = pc /\ raised' = [raised EXCEPT ![t] = TRUE]
        /\ HasEvents(call[t].op, call[t].fd)
    BY <1>2 DEF Report
  <2>2. raised'[u] = raised[u] \/ u = t
    BY <2>1 DEF LoopOK
  <2>3. call[t].op = "connect" /\ ~call[t].gone => file[call[t].fd].kind \in Over
    BY <2>1, <1>1 DEF HasEvents, ConnectOf, Tried, Over
  <2> QED BY <2>1, <2>2, <2>3, <1>1 DEF ConnectOf
<1>3. CASE Wake(t)
  <2> DEFINE r == IF raised[t] THEN 1 ELSE 0
  <2>1. /\ pc[t] = "wait" /\ raised' = raised /\ timedout[t] = FALSE
        /\ PollReturns(t, r, FALSE)
    BY <1>3, ZenonT(40) DEF Wake, LoopOK
  <2>2. r \in {-1, 0, 1} /\ (r = 1 => raised[t]) /\ ~(r = 0 /\ FALSE)
    OBVIOUS
  <2> HIDE DEF r
  <2>3. CASE u = t
    <3>1. /\ call'[t].op = call[t].op
          /\ call[t].op = "connect" =>
               /\ file' = file /\ call'[t].fd = call[t].fd /\ call'[t].gone = call[t].gone
               /\ pc'[t] # "wait" /\ (pc'[t] = "ret" /\ call'[t].ret = 0 => r = 1)
      BY <2>1, <2>2, PollEffect, ZenonT(40)
    <3> QED BY <3>1, <2>1, <2>2, <2>3, <1>1 DEF ConnectOf
  <2>4. CASE u # t
    <3>1. /\ pc'[u] = pc[u]
          /\ call'[u].op = call[u].op /\ call'[u].fd = call[u].fd /\ call'[u].ret = call[u].ret
          /\ ~call'[u].gone => ~call[u].gone /\ (call[u].op = "connect" => Keeps(call[u].fd))
      <4>1. \A v \in Tasks \ {t} :
              /\ pc'[v] = pc[v]
              /\ call'[v].op = call[v].op /\ call'[v].fd = call[v].fd
              /\ call'[v].ret = call[v].ret
              /\ ~call'[v].gone => ~call[v].gone /\ (call[v].op = "connect" => Keeps(call[v].fd))
        BY <2>1, <2>2, PollEffect, ZenonT(40)
      <4> QED BY <4>1, <2>4
    <3>2. Others(u)
      BY <3>1, <2>1 DEF Others
    <3> QED BY <3>1, <3>2, <1>1, ConnectOther
  <2> QED BY <2>3, <2>4
<1>4. CASE Start(t)
  <2>1. call' = call /\ file' = file /\ raised' = raised /\ pc' = [pc EXCEPT ![t] = "user"]
    BY <1>4 DEF Start
  <2>2. pc'[u] = pc[u] \/ (u = t /\ pc'[u] = "user")
    BY <2>1 DEF CallsOK
  <2> QED BY <2>1, <2>2, <1>1 DEF ConnectOf
<1> QED BY <1>2, <1>3, <1>4 DEF LoopStep

\* What the kernel does to a descriptor keeps it open, keeps its mode, and
\* does not undo an attempt to connect.
LEMMA KernelKeeps ==
  ASSUME IInv, NEW f \in Fds, KernelStep(f), NEW g \in Fds
  PROVE  /\ Keeps(g) /\ UNCHANGED <<taskVars, hook>>
         /\ file'[g].nonblock = file[g].nonblock
         /\ file'[g].kind = "none" <=> file[g].kind = "none"
<1>1. file[f] \in FileType /\ file[g] \in FileType /\ file \in [Fds -> FileType]
  BY DEF IInv, FilesOK
<1>2. UNCHANGED <<taskVars, hook>>
  BY DEF KernelStep, Arrive, Drain, PeerEnds, ConnectEnds
<1>3. /\ file'[g].nonblock = file[g].nonblock
      /\ \/ file'[g].kind = file[g].kind
         \/ file[g].kind = "connecting" /\ file'[g].kind \in Over
  BY <1>1 DEF KernelStep, Arrive, Drain, PeerEnds, ConnectEnds, FileType, Over
<1> QED BY <1>2, <1>3 DEF Keeps, Tried, Over

\* A connect in progress has made its attempt, in every reachable state.
LEMMA ConnectInductive == Spec => []ConnectInv
<1>1. Init => ConnectInv
  BY DEF Init, ConnectInv, ConnectOf, NoCall
<1>2. IInv /\ ConnectInv /\ [Next]_vars => ConnectInv'
  <2> SUFFICES ASSUME IInv, ConnectInv, [Next]_vars PROVE ConnectInv'
    OBVIOUS
  <2>1. CASE UNCHANGED vars
    BY <2>1 DEF vars, taskVars, ConnectInv, ConnectOf
  <2>2. ASSUME NEW f \in Fds, KernelStep(f) PROVE ConnectInv'
    <3> SUFFICES ASSUME NEW u \in Tasks PROVE ConnectOf(u)'
      BY DEF ConnectInv
    <3>1. ConnectOf(u) /\ (call[u].op = "connect" => call[u].fd \in Fds)
      BY DEF ConnectInv, IInv, CallsOK, CallInv
    <3>2. (\A g \in Fds : Keeps(g)) /\ UNCHANGED taskVars
      BY <2>2, KernelKeeps
    <3>3. Others(u)
      BY <3>2 DEF Others, taskVars
    <3> QED BY <3>1, <3>2, <3>3, ConnectOther
  <2> QED BY <2>1, <2>2, ConnectCallSteps, ConnectUserSteps, ConnectLoopSteps DEF Next
<1> QED BY <1>1, <1>2, Inductive, PTL DEF Spec

\* connect returns 0 only when the attempt is over, for any number of polls
\* and whatever other tasks do to the descriptors.
THEOREM ConnectAnswers == Spec => []ConnectAnswer
<1>1. ConnectInv => ConnectAnswer
  BY DEF ConnectInv, ConnectOf, ConnectAnswer, Over
<1> QED BY <1>1, ConnectInductive, PTL

-----------------------------------------------------------------------------
(***************************************************************************)
(* The table.                                                              *)
(***************************************************************************)

\* An open descriptor of the table is non-blocking.
TableOf(f) == hook[f] /\ file[f].kind # "none" => file[f].nonblock

\* When every task has hooks, nobody accepts past the table.
TableInv ==
  /\ \A f \in Fds : TableOf(f)
  /\ \A t \in Tasks : pc[t] = "direct" => call[t].op # "accept"

\* A step of task t that does not put it in the middle of a direct accept.
LEMMA TableCalls ==
  ASSUME CallsOK, TableInv, NEW t \in Tasks, NEW p, pc' = [pc EXCEPT ![t] = p],
         p = "direct" => call'[t].op # "accept",
         \A u \in Tasks \ {t} : call'[u].op = call[u].op
  PROVE  \A u \in Tasks : pc'[u] = "direct" => call'[u].op # "accept"
BY DEF CallsOK, TableInv

\* A hooked close takes the descriptor off the table.
LEMMA TableClose ==
  ASSUME FilesOK, TableInv, NEW f \in Fds, DoClose(TRUE, f)
  PROVE  \A g \in Fds : TableOf(g)'
BY DEF DoClose, FilesOK, TableInv, TableOf, NoFile

\* A poll that returns closes a descriptor or leaves the table alone.
LEMMA TablePoll ==
  ASSUME IInv, TableInv, NEW t \in Tasks, pc[t] \in {"poll", "wait"},
         NEW r \in {-1, 0, 1}, NEW late \in BOOLEAN, ~(r = 0 /\ late),
         PollReturns(t, r, late)
  PROVE  TableInv'
<1>1. (file' = file /\ hook' = hook) \/ (\E f \in Fds : DoClose(TRUE, f))
  BY PollEffect
<1>2. \A f \in Fds : TableOf(f)'
  BY <1>1, TableClose DEF IInv, TableInv, TableOf
<1>3. \A u \in Tasks \ {t} : call'[u].op = call[u].op
  BY PollEffect
<1>4. PICK p \in {"poll", "sys", "ret"} : pc' = [pc EXCEPT ![t] = p]
  BY PollReturnsOK
<1>5. \A u \in Tasks : pc'[u] = "direct" => call'[u].op # "accept"
  BY <1>3, <1>4, TableCalls DEF IInv
<1> QED BY <1>2, <1>5 DEF TableInv

\* The steps of a hooked call keep the table's descriptors non-blocking.
LEMMA TableCallSteps ==
  ASSUME IInv, TableInv, NEW t \in Tasks, CallStep(t)
  PROVE  TableInv'
<1> USE DEF IInv
<1>1. CASE Sys(t)
  <2>1. PICK r \in SysResults(t) :
          /\ CASE call[t].op = "read"  -> SysReadDone(t, r)
               [] call[t].op = "write" -> SysWriteDone(t, r)
               [] OTHER                -> SysOpenDone(t, r)
          /\ IF call[t].op = "accept" /\ r >= 0 THEN Accepted(t, r)
             ELSE file' = After(t, r) /\ UNCHANGED hook
    BY <1>1 DEF Sys
  <2>2. \E d, p : call' = [call EXCEPT ![t] = d] /\ pc' = [pc EXCEPT ![t] = p] /\ p # "direct"
    BY <2>1 DEF SysReadDone, SysWriteDone, SysOpenDone, Returns, GoesOn
  <2>3. \A u \in Tasks : pc'[u] = "direct" => call'[u].op # "accept"
    BY <2>2 DEF CallsOK, TableInv
  <2> DEFINE a == After(t, r)
  <2>4. /\ a \in [Fds -> FileType]
        /\ \A g \in Fds : ~(call[t].op = "accept" /\ g = r) =>
             a[g].nonblock = file[g].nonblock /\ a[g].kind = file[g].kind
    BY AfterOK
  <2>5. call[t].op = "accept" /\ r >= 0 => r \in Fds
    BY Results
  <2> HIDE DEF a
  <2>6. ASSUME NEW g \in Fds PROVE TableOf(g)'
    <3>1. CASE call[t].op = "accept" /\ r >= 0
      <4>1. hook' = [hook EXCEPT ![r] = TRUE] /\ file' = [a EXCEPT ![r].nonblock = TRUE]
        BY <2>1, <3>1 DEF Accepted, a
      <4>2. g = r => file'[g].nonblock
        BY <4>1, <2>4 DEF FileType
      <4>3. g # r => file'[g] = a[g] /\ hook'[g] = hook[g]
        BY <4>1, <2>4 DEF FilesOK
      <4> QED BY <4>2, <4>3, <2>4 DEF TableOf, TableInv
    <3>2. CASE ~(call[t].op = "accept" /\ r >= 0)
      <4>1. file' = a /\ hook' = hook
        BY <2>1, <3>2 DEF a
      <4>2. ~(call[t].op = "accept" /\ g = r)
        BY <3>2, FdsAssumption
      <4> QED BY <4>1, <4>2, <2>4 DEF TableOf, TableInv
    <3> QED BY <3>1, <3>2
  <2> QED BY <2>3, <2>6 DEF TableInv
<1>2. CASE Direct(t)
  <2>1. PICK r \in SysResults(t) : file' = After(t, r) /\ Returns(t, Moved(call[t], r), Value(r))
    BY <1>2 DEF Direct
  <2>2. call[t].op # "accept" /\ hook' = hook
    BY <1>2 DEF Direct, TableInv
  <2>3. \A g \in Fds : file'[g].nonblock = file[g].nonblock /\ file'[g].kind = file[g].kind
    BY <2>1, <2>2, AfterOK
  <2>4. \A u \in Tasks : pc'[u] = "direct" => call'[u].op # "accept"
    BY <2>1 DEF Returns, CallsOK, TableInv
  <2> QED BY <2>2, <2>3, <2>4 DEF TableInv, TableOf
<1>3. CASE PollTimesOut(t) \/ PollInvalid(t)
  <2>0. ~(-1 = 0 /\ TRUE) /\ ~(-1 = 0 /\ FALSE)
    OBVIOUS
  <2>1. PICK late \in BOOLEAN : PollReturns(t, -1, late) /\ ~(-1 = 0 /\ late)
    BY <1>3, <2>0 DEF PollTimesOut, PollInvalid
  <2>2. pc[t] \in {"poll", "wait"} /\ -1 \in {-1, 0, 1}
    BY <1>3 DEF PollTimesOut, PollInvalid, InPoll
  <2> QED BY <2>1, <2>2, TablePoll
<1>4. CASE PollSuspends(t) \/ Return(t)
  <2>1. hook' = hook /\ file' = file
    BY <1>4 DEF PollSuspends, Return
  <2>2. \A u \in Tasks : pc'[u] = "direct" => call'[u].op # "accept"
    BY <1>4 DEF PollSuspends, Return, CallsOK, TableInv
  <2> QED BY <2>1, <2>2 DEF TableInv, TableOf
<1> QED BY <1>1, <1>2, <1>3, <1>4 DEF CallStep

\* This is where the tasks have to have hooks: one without would make
\* blocking descriptors under numbers that are still in the table.
LEMMA TableUserSteps ==
  ASSUME HookedTasks = Tasks, IInv, TableInv, NEW t \in Tasks, UserStep(t)
  PROVE  TableInv'
<1> USE DEF IInv
<1>0. Hooked(t)
  BY DEF Hooked
<1>1. ASSUME NEW op, NEW f, NEW k, NEW p, Enter(t, op, f, k, p), op = "accept" => p # "direct"
      PROVE  \A u \in Tasks : pc'[u] = "direct" => call'[u].op # "accept"
  <2> DEFINE c == [NoCall EXCEPT !.op = op, !.fd = f, !.nbyte = k, !.via = ViaTable(t, f)]
  <2>1. c.op = op
    BY DEF NoCall
  <2>2. call' = [call EXCEPT ![t] = c] /\ pc' = [pc EXCEPT ![t] = p]
    BY <1>1 DEF Enter
  <2> HIDE DEF c
  <2> QED BY <2>1, <2>2, <1>1 DEF CallsOK, TableInv
<1>2. ASSUME NEW f \in Fds, Socket(t, f) \/ Listen(t, f) \/ \E nonblock \in BOOLEAN : SetFl(t, f, nonblock)
      PROVE  TableInv'
  <2>1. ASSUME NEW g \in Fds PROVE TableOf(g)'
    <3>1. TableOf(g) /\ file[g] \in FileType /\ file[f] \in FileType
      BY DEF TableInv, FilesOK
    <3>2. CASE g # f
      BY <3>1, <3>2, <1>2 DEF Socket, Listen, SetFl, TableOf, FilesOK
    <3>3. CASE g = f /\ Socket(t, f)
      <4> DEFINE x == [NoFile EXCEPT !.kind = "fresh", !.nonblock = Hooked(t)]
      <4>1. x.nonblock = Hooked(t)
        BY DEF NoFile
      <4>2. file' = [file EXCEPT ![f] = x]
        BY <3>3 DEF Socket
      <4> HIDE DEF x
      <4> QED BY <4>1, <4>2, <3>3, <1>0 DEF TableOf, FilesOK
    <3>4. CASE g = f /\ Listen(t, f)
      <4>1. hook' = hook /\ file[f].kind = "fresh" /\ file'[f].nonblock = file[f].nonblock
        BY <3>1, <3>4 DEF Listen, FilesOK, FileType
      <4> QED BY <4>1, <3>1, <3>4 DEF TableOf
    <3>5. ASSUME NEW nonblock \in BOOLEAN, g = f /\ SetFl(t, f, nonblock) PROVE TableOf(g)'
      <4>1. hook' = hook /\ file'[f].nonblock = NewMode(t, f, nonblock)
        BY <3>1, <3>5 DEF SetFl, FilesOK, FileType
      <4> QED BY <4>1, <3>5, <1>0 DEF TableOf, NewMode
    <3> QED BY <3>2, <3>3, <3>4, <3>5, <1>2
  <2>2. pc' = pc /\ call' = call
    BY <1>2 DEF Socket, Listen, SetFl, taskVars
  <2> QED BY <2>1, <2>2 DEF TableInv
<1>3. ASSUME NEW f \in Fds, Close(t, f) PROVE TableInv'
  <2>1. DoClose(TRUE, f)
    BY <1>0, <1>3 DEF Close, DoClose, FilesOK
  <2>2. pc' = pc /\ \A u \in Tasks : call'[u].op = call[u].op
    BY <1>3, GoneOK DEF Close
  <2> QED BY <2>1, <2>2, TableClose DEF TableInv
<1>4. ASSUME NEW f \in Fds, NEW k \in 0..MaxCount, Read(t, f, k) \/ Write(t, f, k)
      PROVE  TableInv'
  <2>1. \A u \in Tasks : pc'[u] = "direct" => call'[u].op # "accept"
    BY <1>1, <1>4 DEF Read, Write
  <2> QED BY <2>1, <1>4 DEF Read, Write, TableInv, TableOf
<1>5. ASSUME NEW f \in Fds, Accept(t, f) PROVE TableInv'
  <2>1. \A u \in Tasks : pc'[u] = "direct" => call'[u].op # "accept"
    BY <1>0, <1>1, <1>5 DEF Accept
  <2>2. ASSUME NEW g \in Fds PROVE TableOf(g)'
    <3>1. TableOf(g) /\ file[g] \in FileType /\ file[f] \in FileType /\ hook[f] \in BOOLEAN
      BY DEF TableInv, FilesOK
    <3>2. CASE g # f
      BY <3>1, <3>2, <1>5 DEF Accept, TableOf, FilesOK
    <3>3. CASE g = f /\ (hook[f] \/ file[f].kind = "none")
      BY <3>1, <3>3, <1>5 DEF Accept, TableOf, FilesOK
    <3>4. CASE g = f /\ ~hook[f] /\ file[f].kind # "none"
      <4>1. file'[f].nonblock
        BY <3>1, <3>4, <1>0, <1>5 DEF Accept, FilesOK, FileType
      <4> QED BY <4>1, <3>4 DEF TableOf
    <3> QED BY <3>2, <3>3, <3>4
  <2> QED BY <2>1, <2>2 DEF TableInv
<1>6. ASSUME NEW f \in Fds, Connect(t, f) PROVE TableInv'
  <2>1. \A u \in Tasks : pc'[u] = "direct" => call'[u].op # "accept"
    BY <1>1, <1>6 DEF Connect
  <2>2. ASSUME NEW g \in Fds PROVE TableOf(g)'
    <3>1. TableOf(g) /\ file[g] \in FileType /\ file[f].kind = "fresh"
      BY <1>6 DEF Connect, TableInv, FilesOK
    <3>2. hook' = hook /\ file'[g].nonblock = file[g].nonblock
           /\ (file'[g].kind = file[g].kind \/ g = f)
      BY <1>6 DEF Connect, FilesOK, FileType
    <3> QED BY <3>1, <3>2 DEF TableOf
  <2> QED BY <2>1, <2>2 DEF TableInv
<1>7. CASE Sleep(t)
  <2>1. \A u \in Tasks : pc'[u] = "direct" => call'[u].op # "accept"
    BY <1>1, <1>7 DEF Sleep
  <2> QED BY <2>1, <1>7 DEF Sleep, TableInv, TableOf
<1>8. CASE Finish(t)
  BY <1>8 DEF Finish, TableInv, TableOf, CallsOK
<1> QED BY <1>2, <1>3, <1>4, <1>5, <1>6, <1>7, <1>8 DEF UserStep

\* So do the steps by which the loop resumes a task.
LEMMA TableLoopSteps ==
  ASSUME IInv, TableInv, NEW t \in Tasks, LoopStep(t)
  PROVE  TableInv'
<1> USE DEF IInv
<1>1. CASE Wake(t)
  <2> DEFINE r == IF raised[t] THEN 1 ELSE 0
  <2>1. /\ pc[t] \in {"poll", "wait"} /\ timedout[t] = FALSE /\ PollReturns(t, r, FALSE)
    BY <1>1 DEF Wake, LoopOK
  <2>2. r \in {-1, 0, 1} /\ ~(r = 0 /\ FALSE)
    OBVIOUS
  <2> HIDE DEF r
  <2> QED BY <2>1, <2>2, TablePoll
<1>2. CASE Report(t) \/ Start(t)
  <2>1. hook' = hook /\ file' = file /\ call' = call
    BY <1>2 DEF Report, Start
  <2>2. \A u \in Tasks : pc'[u] = "direct" => pc[u] = "direct"
    BY <1>2 DEF Report, Start, CallsOK
  <2> QED BY <2>1, <2>2 DEF TableInv, TableOf
<1> QED BY <1>1, <1>2 DEF LoopStep

\* With hooked tasks only, the table's descriptors are always non-blocking.
LEMMA TableInductive ==
  ASSUME HookedTasks = Tasks
  PROVE  Spec => []TableInv
<1>1. Init => TableInv
  BY DEF Init, TableInv, TableOf
<1>2. IInv /\ TableInv /\ [Next]_vars => TableInv'
  <2> SUFFICES ASSUME IInv, TableInv, [Next]_vars PROVE TableInv'
    OBVIOUS
  <2>1. CASE UNCHANGED vars
    BY <2>1 DEF vars, taskVars, TableInv, TableOf
  <2>2. ASSUME NEW f \in Fds, KernelStep(f) PROVE TableInv'
    <3>1. ASSUME NEW g \in Fds PROVE TableOf(g)'
      BY <2>2, KernelKeeps DEF TableInv, TableOf
    <3>2. pc' = pc /\ call' = call
      BY <2>2, KernelKeeps DEF taskVars
    <3> QED BY <3>1, <3>2 DEF TableInv
  <2> QED BY <2>1, <2>2, TableCallSteps, TableUserSteps, TableLoopSteps DEF Next
<1> QED BY <1>1, <1>2, Inductive, PTL DEF Spec

\* In a thread all of whose tasks have hooks, no hooked call blocks the
\* thread in a system call, whatever the tasks do to the descriptors.
THEOREM NeverBlocks ==
  ASSUME HookedTasks = Tasks
  PROVE  Spec => []ThreadNeverBlocks
<1>1. IInv /\ TableInv => ThreadNeverBlocks
  <2> SUFFICES ASSUME IInv, TableInv, NEW t \in Tasks, pc[t] = "sys", ViaTable(t, call[t].fd)
               PROVE  SysResults(t) # {}
    BY DEF ThreadNeverBlocks
  <2> DEFINE c == call[t]
             f == c.fd
             want == Rest(c)
  <2>1. c \in CallType /\ CallInv("sys", c)
    BY DEF IInv, CallsOK
  <2>2. f \in Fds /\ hook[f]
    BY <2>1 DEF ViaTable, CallType
  <2>3. file[f].inq \in Nat /\ file[f].room \in Nat /\ want \in Nat
    BY <2>1, <2>2, BoundsAssumption DEF IInv, FilesOK, FileType, CallType, CallInv, Rest
  <2>4. file[f].kind = "none" \/ Nothing(f) # {}
    BY <2>2 DEF TableInv, TableOf, Nothing
  <2>5. \A a, b \in Nat \ {0} : 1 \in UpTo(a, b)
    BY DEF UpTo
  <2> HIDE DEF c, want
  <2>6. SysRead(f, want) # {} /\ SysWrite(f, want) # {}
    <3>1. file[f].inq > 0 /\ want # 0 => 1 \in UpTo(file[f].inq, want)
      BY <2>3, <2>5
    <3>2. file[f].room > 0 /\ want # 0 => 1 \in UpTo(file[f].room, want)
      BY <2>3, <2>5
    <3> QED BY <3>1, <3>2, <2>4 DEF SysRead, SysWrite
  <2>7. SysAccept(f) # {}
    BY <2>4 DEF SysAccept
  <2> QED BY <2>4, <2>6, <2>7 DEF SysResults, c, want
<1> QED BY <1>1, Inductive, TableInductive, PTL

=============================================================================
