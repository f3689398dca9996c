--------------------------- MODULE HookCallProofs ---------------------------
(***************************************************************************)
(* Proofs about the hooked calls that keep a protocol of their own:        *)
(* gethostbyname (HostLookup), where a coroutine's answer stays its own,   *)
(* for any threads, coroutines and names; and select (SelectHook), where   *)
(* the answer is made of what was asked for, for any number of             *)
(* descriptors.  The two share no state.                                   *)
(***************************************************************************)
EXTENDS HostLookup, SelectHook, FiniteSetTheorems, WellFoundedInduction, TLAPS

\* Nobody uses the hostbuf_wrap of somebody else, and a lookup has one.
Owner ==
  /\ \A h \in Threads : h \notin gEnv => top[h] = Main
  /\ \A h \in Threads : pthread[h] \in {NULL, <<h, Main>>}
  /\ \A c \in Callers : spec[c] \in {NULL, c}
  /\ \A c \in Callers : asks[c] # NoName => WrapOf(c) # NULL

IInv == TypeOK /\ Owner /\ AnswerStays

-----------------------------------------------------------------------------
(***************************************************************************)
(* Who a caller is, and which wrap it finds.                               *)
(***************************************************************************)

\* A caller is a pair of its thread and its number.
LEMMA CallerParts ==
  ASSUME NEW c \in Callers
  PROVE  c[1] \in Threads /\ c[2] \in Coroutines /\ c = <<c[1], c[2]>> /\ c # NULL
BY ThreadsAssumption DEF Callers, NULL

\* The coroutine that runs in a thread is a caller.
LEMMA SelfIsCaller ==
  ASSUME TypeOK, NEW h \in Threads
  PROVE  Self(h) \in Callers /\ Self(h)[1] = h /\ Self(h)[2] = top[h] /\ Self(h) # NULL
<1>1. top[h] \in Coroutines
  BY DEF TypeOK
<1>2. Self(h) \in Callers /\ Self(h)[1] = h /\ Self(h)[2] = top[h]
  BY <1>1 DEF Self, Callers
<1> QED BY <1>2, CallerParts

\* What coroutine_getspecific returns is the specific data of the caller, and
\* the wrap that gethostbyname works on is the caller's own.
LEMMA OwnWrap ==
  ASSUME TypeOK, Owner, NEW h \in Threads
  PROVE  /\ UsesThread(h) <=> top[h] = Main
         /\ Get(h) = WrapOf(Self(h))
         /\ Get(h) \in {NULL, Self(h)}
         /\ Wrap(h) = Self(h)
<1>1. UsesThread(h) <=> top[h] = Main
  BY DEF UsesThread, Owner
<1>2. Get(h) = WrapOf(Self(h))
  BY <1>1, SelfIsCaller DEF Get, WrapOf
<1>3. Get(h) \in {NULL, Self(h)}
  <2>1. CASE top[h] = Main
    BY <2>1, <1>1 DEF Get, Self, Owner
  <2>2. CASE top[h] # Main
    BY <2>2, <1>1, SelfIsCaller DEF Get, Owner
  <2> QED BY <2>1, <2>2
<1> QED BY <1>1, <1>2, <1>3 DEF Wrap

\* The specific data of any caller is its own.
LEMMA WrapOfOwn ==
  ASSUME TypeOK, Owner, NEW c \in Callers
  PROVE  WrapOf(c) \in {NULL, c}
BY CallerParts DEF WrapOf, Owner

-----------------------------------------------------------------------------
(***************************************************************************)
(* The steps.                                                              *)
(***************************************************************************)

\* Steps of the threads and coroutines leave the wraps and the lookups alone.
LEMMA ControlSteps ==
  ASSUME IInv, NEW h \in Threads,
         InitEnv(h) \/ NextFunction(h) \/ \E co \in Coroutines : Switch(h, co)
  PROVE  IInv'
<1> USE DEF IInv
<1>1. CASE InitEnv(h)
  <2>1. TypeOK'
    BY <1>1 DEF InitEnv, TypeOK
  <2> QED BY <2>1, <1>1 DEF InitEnv, Owner, AnswerStays, WrapOf
<1>2. CASE NextFunction(h)
  <2>1. TypeOK'
    BY <1>2, SelfIsCaller DEF NextFunction, TypeOK
  <2>2. \A c \in Callers : answer'[c] \in {NoName, answer[c]}
    BY <1>2 DEF NextFunction, TypeOK
  <2> QED BY <2>1, <2>2, <1>2 DEF NextFunction, Owner, AnswerStays, WrapOf
<1>3. ASSUME NEW co \in Coroutines, Switch(h, co) PROVE IInv'
  <2>1. TypeOK'
    BY <1>3 DEF Switch, TypeOK
  <2>2. \A g \in Threads : g \notin gEnv => top'[g] = Main
    BY <1>3 DEF Switch, TypeOK, Owner
  <2> QED BY <2>1, <2>2, <1>3 DEF Switch, Owner, AnswerStays, WrapOf
<1> QED BY <1>1, <1>2, <1>3

\* A lookup begins: the caller gets a wrap, and gives up its answer.
LEMMA LookupStep ==
  ASSUME IInv, NEW h \in Threads, NEW name \in Names, Lookup(h, name)
  PROVE  IInv'
<1> USE DEF IInv
<1>0. PICK s \in Callers : s = Self(h)
  BY SelfIsCaller
<1>1. s \in Callers /\ s[1] = h /\ s[2] = top[h] /\ s # NULL /\ s = <<h, top[h]>>
  BY <1>0, SelfIsCaller DEF Self
<1>2. Wrap(h) = s /\ (UsesThread(h) <=> top[h] = Main)
  BY <1>0, OwnWrap
<1>3. Set(h, s)
  BY <1>0, <1>2 DEF Lookup
<1>4. /\ wrap' = [wrap EXCEPT ![s] = [size |-> FirstSize, holds |-> NoName]]
      /\ asks' = [asks EXCEPT ![s] = name]
      /\ answer' = [answer EXCEPT ![s] = NoName]
      /\ gEnv' = gEnv /\ top' = top
  BY <1>0, <1>2 DEF Lookup
<1>5. pthread' \in [Threads -> Callers \cup {NULL}] /\ spec' \in [Callers -> Callers \cup {NULL}]
  BY <1>0, <1>1, <1>3, ZenonT(30) DEF Set, TypeOK
<1>6. TypeOK'
  <2>1. FirstSize \in Sizes
    BY DEF Sizes
  <2>2. wrap' \in [Callers -> [size : Sizes, holds : Names \cup {NoName}]]
    BY <2>1, <1>1, <1>4 DEF TypeOK
  <2> QED BY <2>2, <1>1, <1>4, <1>5, ZenonT(30) DEF TypeOK
<1>7. /\ WrapOf(s)' = s
      /\ \A c \in Callers : c # s => WrapOf(c)' = WrapOf(c)
      /\ \A g \in Threads : pthread'[g] \in {NULL, <<g, Main>>}
      /\ \A c \in Callers : spec'[c] \in {NULL, c}
  <2>1. CASE top[h] = Main
    <3>1. pthread' = [pthread EXCEPT ![h] = s] /\ spec' = spec
      BY <2>1, <1>2, <1>3 DEF Set
    <3>2. \A c \in Callers : c # s /\ c[2] = Main => c[1] # h
      BY <2>1, <1>1, CallerParts
    <3> QED BY <3>1, <3>2, <2>1, <1>1, CallerParts DEF WrapOf, Owner, TypeOK
  <2>2. CASE top[h] # Main
    <3>1. spec' = [spec EXCEPT ![s] = s] /\ pthread' = pthread
      BY <2>2, <1>0, <1>2, <1>3 DEF Set
    <3> QED BY <3>1, <2>2, <1>1, CallerParts DEF WrapOf, Owner, TypeOK
  <2> QED BY <2>1, <2>2
<1>8. Owner'
  <2>1. \A c \in Callers : asks'[c] # NoName => WrapOf(c)' # NULL
    BY <1>1, <1>4, <1>7, ZenonT(30) DEF Owner, TypeOK
  <2> QED BY <2>1, <1>4, <1>7 DEF Owner
<1>9. AnswerStays'
  <2> SUFFICES ASSUME NEW c \in Callers, answer'[c] # NoName
               PROVE  /\ WrapOf(c)' # NULL
                      /\ wrap'[WrapOf(c)'].holds = answer'[c]
                      /\ wrap'[WrapOf(c)'].size >= NeedOf[answer'[c]]
    BY DEF AnswerStays
  <2>1. c # s /\ answer'[c] = answer[c] /\ wrap'[c] = wrap[c]
    BY <1>1, <1>4 DEF TypeOK
  <2>2. WrapOf(c)' = WrapOf(c) /\ WrapOf(c) \in {NULL, c}
    BY <2>1, <1>7, WrapOfOwn
  <2> QED BY <2>1, <2>2 DEF AnswerStays
<1> QED BY <1>6, <1>8, <1>9

\* The resolver writes to the caller's wrap only.
LEMMA ResolverStep ==
  ASSUME IInv, NEW h \in Threads, Resolver(h)
  PROVE  IInv'
<1> DEFINE s == Self(h)
           n == asks[s]
<1> USE DEF IInv
<1>1. s \in Callers /\ Wrap(h) = s
  BY SelfIsCaller, OwnWrap
<1>2. n \in Names /\ n # NoName /\ NeedOf[n] \in Nat
  BY <1>1, NeedAssumption DEF Resolver, Grow, Found, NotFound, TypeOK
<1>3. WrapOf(s) = s
  BY <1>1, <1>2, WrapOfOwn DEF Owner
<1>4. \A c \in Callers : wrap[c] \in [size : Sizes, holds : Names \cup {NoName}]
  BY DEF TypeOK
<1>5. Sizes \subseteq Nat
  BY DEF Sizes, FirstSize
<1>6. Fits(h) <=> NeedOf[n] <= wrap[s].size
  BY <1>1 DEF Fits
<1> HIDE DEF s
<1>7. CASE Grow(h)
  <2> DEFINE z == wrap[s].size
  <2>1. z \in Nat /\ z < NeedOf[n]
    BY <1>1, <1>2, <1>4, <1>5, <1>6, <1>7 DEF Grow
  <2>2. wrap' = [wrap EXCEPT ![s].size = z * 2]
    BY <1>1, <1>7 DEF Grow, Larger
  <2>3. z * 2 \in Sizes /\ z * 2 >= z
    BY <1>2, <2>1 DEF Sizes
  <2>4. wrap' \in [Callers -> [size : Sizes, holds : Names \cup {NoName}]]
    BY <1>1, <2>2, <2>3 DEF TypeOK
  <2>5. TypeOK'
    BY <1>7, <2>4 DEF Grow, TypeOK
  <2>6. Owner'
    BY <1>7 DEF Grow, Owner, WrapOf
  <2>7. \A c \in Callers : wrap'[c].holds = wrap[c].holds /\ wrap'[c].size >= wrap[c].size
    <3> TAKE c \in Callers
    <3>1. CASE c = s
      BY <3>1, <1>1, <1>4, <2>2, <2>3 DEF TypeOK
    <3>2. CASE c # s
      BY <3>2, <1>4, <1>5, <2>2 DEF TypeOK
    <3> QED BY <3>1, <3>2
  <2>8. AnswerStays'
    <3> SUFFICES ASSUME NEW c \in Callers, answer[c] # NoName
                 PROVE  /\ WrapOf(c) # NULL
                        /\ wrap'[WrapOf(c)].holds = answer[c]
                        /\ wrap'[WrapOf(c)].size >= NeedOf[answer[c]]
      BY <1>7 DEF Grow, AnswerStays, WrapOf
    <3>1. WrapOf(c) = c /\ answer[c] \in Names /\ NeedOf[answer[c]] \in Nat
      BY WrapOfOwn, NeedAssumption DEF AnswerStays, TypeOK
    <3>2. wrap'[c].size \in Nat /\ wrap[c].size \in Nat
      BY <1>4, <1>5, <2>4
    <3> QED BY <3>1, <3>2, <2>7 DEF AnswerStays
  <2> QED BY <2>5, <2>6, <2>8
<1>8. CASE Found(h)
  <2>1. /\ wrap' = [wrap EXCEPT ![s].holds = n]
        /\ answer' = [answer EXCEPT ![s] = n]
        /\ asks' = [asks EXCEPT ![s] = NoName]
        /\ NeedOf[n] <= wrap[s].size
    BY <1>1, <1>6, <1>8 DEF Found, s
  <2>2. wrap' \in [Callers -> [size : Sizes, holds : Names \cup {NoName}]]
    BY <1>1, <1>2, <2>1 DEF TypeOK
  <2>3. TypeOK'
    BY <1>1, <1>2, <1>8, <2>1, <2>2 DEF Found, TypeOK
  <2>4. \A c \in Callers : asks'[c] \in {NoName, asks[c]}
    BY <2>1 DEF TypeOK
  <2>5. Owner'
    BY <1>8, <2>4 DEF Found, Owner, WrapOf
  <2>6. AnswerStays'
    <3> SUFFICES ASSUME NEW c \in Callers, answer'[c] # NoName
                 PROVE  /\ WrapOf(c) # NULL
                        /\ wrap'[WrapOf(c)].holds = answer'[c]
                        /\ wrap'[WrapOf(c)].size >= NeedOf[answer'[c]]
      BY <1>8 DEF Found, AnswerStays, WrapOf
    <3>1. CASE c = s
      <4>1. wrap'[s].holds = n /\ wrap'[s].size = wrap[s].size /\ answer'[s] = n
        BY <1>1, <1>4, <2>1 DEF TypeOK
      <4>2. s # NULL
        BY <1>1, CallerParts
      <4>3. wrap[s].size \in Nat
        BY <1>1, <1>4, <1>5, ZenonT(30)
      <4> QED BY <4>1, <4>2, <4>3, <3>1, <1>2, <1>3, <2>1
    <3>2. CASE c # s
      <4>1. wrap'[c] = wrap[c] /\ answer'[c] = answer[c]
        BY <3>2, <2>1 DEF TypeOK
      <4>2. WrapOf(c) = c
        BY <4>1, WrapOfOwn DEF AnswerStays
      <4> QED BY <4>1, <4>2 DEF AnswerStays
    <3> QED BY <3>1, <3>2
  <2> QED BY <2>3, <2>5, <2>6
<1>9. CASE NotFound(h)
  <2>1. asks' = [asks EXCEPT ![s] = NoName]
    BY <1>9 DEF NotFound, s
  <2>2. TypeOK'
    BY <1>1, <1>9, <2>1, ZenonT(30) DEF NotFound, TypeOK
  <2>3. \A c \in Callers : asks'[c] \in {NoName, asks[c]}
    BY <2>1 DEF TypeOK
  <2> QED BY <2>2, <2>3, <1>9 DEF NotFound, Owner, AnswerStays, WrapOf
<1> QED BY <1>7, <1>8, <1>9 DEF Resolver

-----------------------------------------------------------------------------
(***************************************************************************)
(* The theorems.                                                           *)
(***************************************************************************)

\* Ownership of the buffers and the standing of answers are kept by every step.
LEMMA Inductive == Spec => []IInv
<1>1. Init => IInv
  <2> SUFFICES ASSUME Init PROVE IInv
    OBVIOUS
  <2>1. TypeOK
    BY CoroutinesAssumption DEF Init, TypeOK, NoWrap, Sizes
  <2> QED BY <2>1 DEF Init, IInv, Owner, AnswerStays
<1>2. IInv /\ [Next]_vars => IInv'
  <2> SUFFICES ASSUME IInv, [Next]_vars PROVE IInv'
    OBVIOUS
  <2>1. CASE Next
    BY <2>1, ControlSteps, LookupStep, ResolverStep DEF Next
  <2>2. CASE UNCHANGED vars
    BY <2>2 DEF vars, IInv, TypeOK, Owner, AnswerStays, WrapOf
  <2> QED BY <2>1, <2>2
<1> QED BY <1>1, <1>2, PTL DEF Spec

\* The state of coroutine specific data and of the lookups stays in its
\* types, and no buffer grows to twice the size of the largest answer.
THEOREM Types == Spec => []TypeOK
<1>1. IInv => TypeOK
  BY DEF IInv
<1> QED BY <1>1, Inductive, PTL

\* What gethostbyname returned to a coroutine is not written over by the
\* lookups of other coroutines and threads, however many there are.
THEOREM Answers == Spec => []AnswerStays
<1>1. IInv => AnswerStays
  BY DEF IInv
<1> QED BY <1>1, Inductive, PTL

-----------------------------------------------------------------------------
(***************************************************************************)
(* select.                                                                 *)
(***************************************************************************)

\* Before select answers the caller's sets are as passed, nothing is raised, and
\* the array that poll gets is the one the conversion makes of them.
SelectInv ==
  /\ SelectTypeOK
  /\ phase # "done" => fds = asked /\ raised = {}
  /\ phase = "wait" => poll_fds = Fill
  /\ NothingInvented
  /\ OneReaderRight

USE MaxFdAssumption, AnyIntAssumption

-----------------------------------------------------------------------------
(***************************************************************************)
(* What the two conversions compute.                                       *)
(***************************************************************************)

\* The loop over the descriptors of a set ends with one of the set.
LEMMA LastInSet ==
  ASSUME NEW S, S \subseteq 0..MaxFd, S # {}
  PROVE  LastFd(S) \in S
<1> DEFINE T == {MaxFd - f : f \in S}
           R == OpToRel(<, Nat)
<1>1. T \subseteq Nat /\ T # {}
  <2>1. \A f \in S : MaxFd - f \in Nat
    OBVIOUS
  <2>2. T \subseteq Nat
    BY <2>1
  <2>3. PICK f : f \in S
    OBVIOUS
  <2>4. MaxFd - f \in T
    BY <2>3
  <2> QED
    BY <2>2, <2>4
<1>2. PICK x \in T : \A y \in T : ~(<<y, x>> \in R)
  <2>1. IsWellFoundedOn(R, Nat)
    BY NatLessThanWellFounded, ZenonT(30)
  <2> HIDE DEF R, T
  <2> QED
    BY <1>1, <2>1, WFMin, ZenonT(30)
<1>3. PICK m \in S : x = MaxFd - m
  OBVIOUS
<1>4. \A f \in S : m >= f
  <2> TAKE f \in S
  <2>1. MaxFd - f \in T /\ MaxFd - f \in Nat /\ x \in Nat
    BY <1>1
  <2>2. ~(MaxFd - f < x)
    BY <1>2, <2>1, ZenonT(30) DEF OpToRel
  <2> QED
    BY <1>3, <2>2
<1>5. \E g \in S : \A f \in S : g >= f
  BY <1>4
<1> QED
  BY <1>5, Zenon DEF LastFd, Max

\* The three sets are finite, and their sizes add up.
LEMMA CountType ==
  ASSUME NEW s, \A i \in 0..2 : IsFiniteSet(s[i])
  PROVE  Count(s) \in Nat
<1>1. \A i \in 0..2 : Cardinality(s[i]) \in Nat
  BY FS_CardinalityType
<1> QED
  BY <1>1 DEF Count

\* A set of descriptors is finite.
LEMMA FdsFinite ==
  ASSUME NEW S, S \subseteq Fds
  PROVE  IsFiniteSet(S)
<1>1. IsFiniteSet(0..MaxFd)
  BY FS_Interval
<1> QED
  BY <1>1, FS_Subset, ZenonT(30) DEF Fds

\* The array holds, of each set that is not empty and whose number it has an
\* element for, one descriptor, with the events of that set; the other
\* elements ask for nothing.
LEMMA FillElements ==
  ASSUME SelectTypeOK
  PROVE  /\ Count(asked) \in Nat
         /\ DOMAIN Fill = 0..(Count(asked) - 1)
         /\ \A j \in DOMAIN Fill :
              /\ j \in Nat
              /\ Fill[j] \in [fd : Fds, events : SUBSET Flags]
              /\ "in" \in Fill[j].events => j = 0 /\ Fill[j].fd \in asked[0]
              /\ "out" \in Fill[j].events => j = 1 /\ Fill[j].fd \in asked[1]
              /\ Fill[j].events \subseteq {"in", "out"}
              /\ j = 0 /\ asked[0] # {} =>
                   Fill[j] = [fd |-> LastFd(asked[0]), events |-> {"in"}]
<1>1. asked \in [0..2 -> SUBSET Fds]
  BY DEF SelectTypeOK, Sets
<1>2. \A i \in 0..2 : IsFiniteSet(asked[i])
  BY <1>1, FdsFinite
<1>3. Count(asked) \in Nat
  BY <1>2, CountType
<1>4. DOMAIN Fill = 0..(Count(asked) - 1)
  BY DEF Fill
<1>5. ASSUME NEW j \in 0..(Count(asked) - 1)
      PROVE  /\ j \in Nat
             /\ Fill[j] \in [fd : Fds, events : SUBSET Flags]
             /\ "in" \in Fill[j].events => j = 0 /\ Fill[j].fd \in asked[0]
             /\ "out" \in Fill[j].events => j = 1 /\ Fill[j].fd \in asked[1]
             /\ Fill[j].events \subseteq {"in", "out"}
             /\ j = 0 /\ asked[0] # {} =>
                  Fill[j] = [fd |-> LastFd(asked[0]), events |-> {"in"}]
  <2>1. j \in Nat
    BY <1>3
  <2>2. CASE j \in 0..2 /\ asked[j] # {}
    <3>1. Fill[j] = [fd |-> LastFd(asked[j]), events |-> poll_events[j]]
      BY <2>2 DEF Fill, Sets
    <3>2. LastFd(asked[j]) \in asked[j] /\ asked[j] \subseteq Fds
      BY <1>1, <2>2, LastInSet DEF Fds
    <3>3. /\ j = 0 => poll_events[j] = {"in"}
          /\ j = 1 => poll_events[j] = {"out"}
          /\ j = 2 => poll_events[j] = {}
      BY <2>2 DEF poll_events, Sets
    <3>4. CASE j = 0
      BY <3>1, <3>2, <3>3, <3>4 DEF Flags
    <3>5. CASE j = 1
      BY <3>1, <3>2, <3>3, <3>5 DEF Flags
    <3>6. CASE j = 2
      BY <3>1, <3>2, <3>3, <3>6 DEF Flags
    <3> QED
      BY <2>2, <3>4, <3>5, <3>6
  <2>3. CASE ~(j \in 0..2 /\ asked[j] # {})
    <3>1. Fill[j] = [fd |-> 0, events |-> {}]
      BY <2>3 DEF Fill, Sets
    <3>2. 0 \in Fds
      BY DEF Fds
    <3> QED
      BY <2>1, <2>3, <3>1, <3>2
  <2> QED
    BY <2>2, <2>3
<1> QED
  BY <1>3, <1>4, <1>5

\* What the conversion back adds to a set it was asked about, by number.
LEMMA HitsRight ==
  ASSUME SelectTypeOK, poll_fds = Fill, NEW i \in 0..2
  PROVE  /\ IsFiniteSet(Hits(i))
         /\ \A j \in Hits(i) : poll_fds[j].fd \in asked[i]
         /\ i # 0 => 0 \notin Hits(i)
         /\ i = 0 /\ asked[0] # {} /\ Count(asked) > 0 => Hits(i) = {0}
<1>1. Hits(i) \subseteq 0..(Count(asked) - 1)
  BY FillElements DEF Hits
<1>2. IsFiniteSet(Hits(i))
  <2>1. IsFiniteSet(0..(Count(asked) - 1))
    BY FillElements, FS_Interval
  <2> QED
    BY <1>1, <2>1, FS_Subset, ZenonT(30)
<1>3. /\ poll_events[0] = {"in"}
      /\ poll_events[1] = {"out"}
  BY DEF poll_events, Sets
<1>4. CASE i = 0
  <2>1. Hits(i) = {j \in DOMAIN poll_fds : "in" \in poll_fds[j].events}
    BY <1>3, <1>4 DEF Hits
  <2> QED
    BY <1>2, <1>4, <2>1, FillElements
<1>5. CASE i = 1
  <2>1. Hits(i) = {j \in DOMAIN poll_fds : "out" \in poll_fds[j].events}
    BY <1>3, <1>5 DEF Hits
  <2> QED
    BY <1>2, <1>5, <2>1, FillElements
<1>6. CASE i = 2
  <2>1. Hits(i) = {}
    BY <1>6, FillElements DEF Hits
  <2> QED
    BY <1>2, <1>6, <2>1
<1> QED
  BY <1>4, <1>5, <1>6

\* With one descriptor to read from the array has one element, which asks for
\* it, and the conversion back finds that one.
LEMMA OneReader ==
  ASSUME SelectTypeOK,
         Cardinality(asked[0]) = 1, asked[1] = {}, asked[2] = {}
  PROVE  /\ {Fill[j] : j \in DOMAIN Fill} =
              {[fd |-> f, events |-> {"in"}] : f \in asked[0]}
         /\ poll_fds = Fill => Hits(0) = {0} /\ Hits(1) = {} /\ Hits(2) = {}
<1>1. PICK f : asked[0] = {f}
  <2>1. IsFiniteSet(asked[0])
    BY FdsFinite DEF SelectTypeOK, Sets
  <2> QED
    BY <2>1, FS_Singleton
<1>2. Count(asked) = 1
  BY FS_EmptySet DEF Count
<1>3. LastFd(asked[0]) = f
  <2>1. asked[0] \subseteq 0..MaxFd
    BY DEF SelectTypeOK, Sets, Fds
  <2> QED
    BY <1>1, <2>1, LastInSet
<1>4. DOMAIN Fill = {0} /\ Fill[0] = [fd |-> f, events |-> {"in"}]
  BY <1>1, <1>2, <1>3, FillElements
<1>5. {Fill[j] : j \in DOMAIN Fill} = {[fd |-> g, events |-> {"in"}] : g \in asked[0]}
  BY <1>1, <1>4
<1>6. ASSUME poll_fds = Fill
      PROVE  Hits(0) = {0} /\ Hits(1) = {} /\ Hits(2) = {}
  <2>1. \A i \in 0..2 : Hits(i) \subseteq {0}
    BY <1>4, <1>6 DEF Hits
  <2>2. Hits(0) = {0}
    BY <1>1, <1>2, <1>6, HitsRight
  <2>3. 0 \notin Hits(1) /\ 0 \notin Hits(2)
    BY <1>6, HitsRight
  <2> QED
    BY <2>1, <2>2, <2>3
<1> QED
  BY <1>5, <1>6

-----------------------------------------------------------------------------
(***************************************************************************)
(* The steps of a call of select.                                          *)
(***************************************************************************)

\* The calls, the answers that need no poll and the changes of descriptors.
LEMMA SelectQuiet ==
  ASSUME SelectInv,
         \/ Call \/ Return \/ SysFails \/ PollEmpty
         \/ \E f \in Fds : Change(f)
         \/ UNCHANGED selectVars
  PROVE  SelectInv'
<1> USE DEF SelectInv
<1>1. CASE Call
  <2>1. SelectTypeOK'
    BY <1>1, ZenonT(30) DEF Call, SelectTypeOK
  <2>2. phase' \notin {"done", "wait"} /\ fds' = asked' /\ raised' = {}
    BY <1>1 DEF Call
  <2> QED
    BY <2>1, <2>2 DEF NothingInvented, OneReaderRight
<1>2. CASE Return
  <2>1. /\ phase' = "idle" /\ poll_fds' = <<>> /\ raised' = {} /\ ret' = 0
        /\ asked' = [i \in Sets |-> {}] /\ fds' = asked' /\ state' = state
    BY <1>2 DEF Return
  <2>2. DOMAIN poll_fds' = {}
    BY <2>1
  <2>3. SelectTypeOK'
    BY <2>1, <2>2 DEF SelectTypeOK
  <2> QED
    BY <2>1, <2>3 DEF NothingInvented, OneReaderRight
<1>3. CASE SysFails
  <2>1. SelectTypeOK'
    BY <1>3 DEF SysFails, SelectTypeOK
  <2>2. /\ phase' = "done" /\ raised' = {} /\ fds' = asked'
    BY <1>3 DEF SysFails
  <2> QED
    BY <2>1, <2>2 DEF NothingInvented, OneReaderRight
<1>4. CASE PollEmpty
  <2>1. SelectTypeOK'
    BY <1>4 DEF PollEmpty, SelectTypeOK
  <2>2. /\ phase' = "done" /\ raised' = {} /\ fds' = asked'
    BY <1>4 DEF PollEmpty
  <2> QED
    BY <2>1, <2>2 DEF NothingInvented, OneReaderRight
<1>5. ASSUME NEW f \in Fds, Change(f) PROVE SelectInv'
  <2>1. UNCHANGED <<phase, asked, fds, poll_fds, raised, ret>>
    BY <1>5 DEF Change
  <2>2. state' \in [Fds -> SUBSET Flags]
    BY <1>5 DEF Change, SelectTypeOK
  <2>3. SelectTypeOK'
    BY <2>1, <2>2 DEF SelectTypeOK
  <2>4. Fill' = Fill
    BY <2>1 DEF Fill, Count
  <2> QED
    BY <2>1, <2>3, <2>4 DEF NothingInvented, OneReaderRight
<1>6. CASE UNCHANGED selectVars
  <2>1. UNCHANGED <<phase, asked, fds, poll_fds, raised, ret, state>>
    BY <1>6 DEF selectVars
  <2>2. Fill' = Fill
    BY <2>1 DEF Fill, Count
  <2> QED
    BY <2>1, <2>2 DEF SelectTypeOK, NothingInvented, OneReaderRight
<1> QED
  BY <1>1, <1>2, <1>3, <1>4, <1>5, <1>6

\* The system answers at once: with descriptors of the caller's sets.
LEMMA SelectAtOnce ==
  ASSUME SelectInv, TryAnswers \/ BlockingAnswers
  PROVE  SelectInv'
<1> USE DEF SelectInv
<1>1. phase \in {"try", "block"} /\ AnswersAtOnce
  BY DEF TryAnswers, BlockingAnswers
<1>2. /\ \A i \in Sets : SysSelect[i] \subseteq asked[i]
      /\ SysSelect \in [Sets -> SUBSET Fds]
  BY DEF SysSelect, SelectTypeOK
<1>3. Count(SysSelect) \in Nat
  BY <1>2, FdsFinite, CountType DEF Sets
<1>4. SelectTypeOK'
  BY <1>1, <1>2, <1>3 DEF AnswersAtOnce, SelectTypeOK
<1>5. phase' = "done" /\ raised' = {} /\ fds' = SysSelect /\ asked' = asked
  BY <1>1 DEF AnswersAtOnce
<1> QED
  BY <1>2, <1>4, <1>5 DEF NothingInvented, OneReaderRight

\* Nothing is ready: the array is made.
LEMMA SelectWaits ==
  ASSUME SelectInv, Waits
  PROVE  SelectInv'
<1> USE DEF SelectInv
<1>1. /\ phase' = "wait" /\ poll_fds' = Fill
      /\ fds = asked /\ raised = {}
      /\ UNCHANGED <<asked, fds, raised, ret, state>>
  BY DEF Waits
<1>2. Fill' = Fill
  BY <1>1 DEF Fill, Count
<1>3. SelectTypeOK'
  <2>1. DOMAIN poll_fds' \subseteq Nat
    BY <1>1, FillElements
  <2>2. \A j \in DOMAIN poll_fds' :
          poll_fds'[j] \in [fd : Fds, events : SUBSET Flags]
    BY <1>1, FillElements
  <2> QED
    BY <1>1, <2>1, <2>2 DEF SelectTypeOK
<1>4. OneReaderRight'
  BY <1>1, OneReader DEF OneReaderRight
<1> QED
  BY <1>1, <1>2, <1>3, <1>4 DEF NothingInvented

\* poll has counted elements: the sets are filled from the array.
LEMMA SelectRaised ==
  ASSUME SelectInv, PollRaised
  PROVE  SelectInv'
<1> USE DEF SelectInv
<1> DEFINE h == [i \in Sets |-> Hits(i)]
<1>1. /\ phase' = "done" /\ poll_fds = Fill /\ fds = asked
      /\ raised' \subseteq DOMAIN poll_fds
      /\ fds' = [i \in Sets |-> fds[i] \cup {poll_fds[j].fd : j \in Hits(i)}]
      /\ ret' = Count(h)
      /\ UNCHANGED <<asked, poll_fds, state>>
  BY DEF PollRaised, HasEvents
<1>2. ASSUME NEW i \in Sets
      PROVE  fds'[i] = asked[i]
  <2>1. fds'[i] = asked[i] \cup {poll_fds[j].fd : j \in Hits(i)}
    BY <1>1
  <2>2. \A j \in Hits(i) : poll_fds[j].fd \in asked[i]
    BY <1>1, HitsRight DEF Sets
  <2> QED
    BY <2>1, <2>2
<1>3. fds' = asked
  BY <1>1, <1>2 DEF SelectTypeOK
<1>4. Count(h) \in Nat
  <2>1. \A i \in 0..2 : IsFiniteSet(h[i])
    BY <1>1, HitsRight DEF Sets
  <2> HIDE DEF h
  <2> QED
    BY <2>1, CountType
<1>5. SelectTypeOK'
  BY <1>1, <1>3, <1>4 DEF SelectTypeOK
<1>6. ASSUME Cardinality(asked[0]) = 1, asked[1] = {}, asked[2] = {}
      PROVE  ret' = 1
  <2>1. h[0] = {0} /\ h[1] = {} /\ h[2] = {}
    BY <1>1, <1>6, OneReader DEF Sets
  <2>2. Cardinality({0}) = 1
    BY FS_Singleton
  <2> HIDE DEF h
  <2> QED
    BY <1>1, <2>1, <2>2, FS_EmptySet DEF Count
<1>7. OneReaderRight'
  BY <1>1, <1>3, <1>6 DEF OneReaderRight
<1> QED
  BY <1>1, <1>3, <1>5, <1>7 DEF NothingInvented

\* The invariant of a call of select holds throughout.
LEMMA SelectInductive == SelectSpec => []SelectInv
<1>1. SelectInit => SelectInv
  <2> SUFFICES ASSUME SelectInit PROVE SelectInv
    OBVIOUS
  <2>1. DOMAIN poll_fds = {}
    BY DEF SelectInit
  <2>2. SelectTypeOK
    BY <2>1 DEF SelectInit, SelectTypeOK
  <2> QED
    BY <2>2 DEF SelectInit, SelectInv, NothingInvented, OneReaderRight
<1>2. SelectInv /\ [SelectNext]_selectVars => SelectInv'
  BY SelectQuiet, SelectAtOnce, SelectWaits, SelectRaised DEF SelectNext
<1> QED
  BY <1>1, <1>2, PTL DEF SelectSpec

-----------------------------------------------------------------------------
(***************************************************************************)
(* The theorems about select.                                              *)
(***************************************************************************)

\* The state of a call of select stays in its types: the array that select
\* makes has elements for descriptors only, whatever the sets hold.
THEOREM SelectTypes == SelectSpec => []SelectTypeOK
<1>1. SelectInv => SelectTypeOK
  BY DEF SelectInv
<1> QED
  BY <1>1, SelectInductive, PTL

\* select reports no descriptor that it was not asked for, for any number of
\* descriptors, although elements of its array may name descriptor 0 for
\* nobody.
THEOREM Nothing_Invented == SelectSpec => []NothingInvented
<1>1. SelectInv => NothingInvented
  BY DEF SelectInv
<1> QED
  BY <1>1, SelectInductive, PTL

\* A select that waits for one descriptor to become readable polls just that
\* one, and answers it with the result 1.
THEOREM One_Reader == SelectSpec => []OneReaderRight
<1>1. SelectInv => OneReaderRight
  BY DEF SelectInv
<1> QED
  BY <1>1, SelectInductive, PTL

=============================================================================
