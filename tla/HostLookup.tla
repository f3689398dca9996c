----------------------------- MODULE HostLookup -----------------------------
(***************************************************************************)
(* Coroutine specific data and its one user, the hooked gethostbyname      *)
(* (hook_sys_call.c, coroutine_impl.c), in several threads.                *)
(*                                                                         *)
(* gethostbyname returns a pointer into a buffer.  The buffer belongs to   *)
(* the coroutine, so that a coroutine may keep the answer while others     *)
(* look up names, and it grows until the answer fits.  Main, and a thread  *)
(* that has no environment yet, use the specific data of the thread.       *)
(*                                                                         *)
(* One coroutine of a thread runs; control moves between them as TaskPool  *)
(* says, here: to anyone.  The resolver may yield, if its poll is the      *)
(* hooked one.  The threads share gEnv, which each indexes by its own id.  *)
(***************************************************************************)
EXTENDS Integers, FiniteSets

CONSTANTS
  Threads,       \* live threads, by their ids
  Coroutines,    \* coroutine numbers; 0 is main
  Names,         \* host names
  NeedOf         \* the bytes the answer for a name needs

Main == 0
FirstSize == 1024

ASSUME ThreadsAssumption == Threads \subseteq Nat
ASSUME CoroutinesAssumption == Main \in Coroutines /\ Coroutines \subseteq Nat
ASSUME NeedAssumption == NeedOf \in [Names -> Nat]

Callers == Threads \X Coroutines

\* A hostbuf_wrap is named after the coroutine that allocated it.
NULL == <<-1, -1>>
NoName == "none"
NoWrap == [size |-> 0, holds |-> NoName]    \* size 0: no buffer

VARIABLES
  gEnv,      \* the threads with an environment
  top,       \* the coroutine that runs in each thread
  pthread,   \* the thread's value for gCoroutineHostbufKey
  spec,      \* co->spec[gCoroutineHostbufKey].value
  wrap,      \* the hostbuf_wraps: buffer_size, and the name the buffer is about
  asks,      \* the name whose lookup a coroutine is in
  answer     \* history: the name of the answer a coroutine holds

vars == <<gEnv, top, pthread, spec, wrap, asks, answer>>

\* A buffer that has grown is less than twice as large as an answer.
Sizes == {0, FirstSize} \cup {s \in Nat : \E n \in Names : s < 2 * NeedOf[n]}

TypeOK ==
  /\ gEnv \subseteq Threads
  /\ top \in [Threads -> Coroutines]
  /\ pthread \in [Threads -> Callers \cup {NULL}]
  /\ spec \in [Callers -> Callers \cup {NULL}]
  /\ wrap \in [Callers -> [size : Sizes, holds : Names \cup {NoName}]]
  /\ asks \in [Callers -> Names \cup {NoName}]
  /\ answer \in [Callers -> Names \cup {NoName}]

Init ==
  /\ gEnv = {}
  /\ top = [h \in Threads |-> Main]
  /\ pthread = [h \in Threads |-> NULL]
  /\ spec = [c \in Callers |-> NULL]
  /\ wrap = [c \in Callers |-> NoWrap]
  /\ asks = [c \in Callers |-> NoName]
  /\ answer = [c \in Callers |-> NoName]

Self(h) == <<h, top[h]>>

-----------------------------------------------------------------------------
(***************************************************************************)
(* Threads and coroutines.                                                 *)
(***************************************************************************)

\* The first call that needs it creates the thread's environment.
InitEnv(h) ==
  /\ h \notin gEnv
  /\ asks[Self(h)] = NoName
  /\ gEnv' = gEnv \cup {h}
  /\ UNCHANGED <<top, pthread, spec, wrap, asks, answer>>

\* Control moves to another coroutine.  Main is not hooked: it does not yield
\* in the resolver.
Switch(h, co) ==
  /\ h \in gEnv
  /\ top[h] # co
  /\ top[h] = Main => asks[Self(h)] = NoName
  /\ top' = [top EXCEPT ![h] = co]
  /\ UNCHANGED <<gEnv, pthread, spec, wrap, asks, answer>>

\* The function of a task ends, and the task gets another one, which does not
\* have the answers of the first.  The specific data stays.
NextFunction(h) ==
  /\ top[h] # Main
  /\ asks[Self(h)] = NoName
  /\ answer' = [answer EXCEPT ![Self(h)] = NoName]
  /\ UNCHANGED <<gEnv, top, pthread, spec, wrap, asks>>

-----------------------------------------------------------------------------
(***************************************************************************)
(* coroutine_getspecific and coroutine_setspecific.                        *)
(***************************************************************************)

\* Variant: the data of every coroutine is the thread's.
AlwaysThread(h) == TRUE

\* !co || co->main
UsesThread(h) == h \notin gEnv \/ top[h] = Main

Get(h) == IF UsesThread(h) THEN pthread[h] ELSE spec[Self(h)]

Set(h, w) ==
  IF UsesThread(h) THEN pthread' = [pthread EXCEPT ![h] = w] /\ UNCHANGED spec
                   ELSE spec' = [spec EXCEPT ![Self(h)] = w] /\ UNCHANGED pthread

-----------------------------------------------------------------------------
(***************************************************************************)
(* coroutine_gethostbyname.                                                *)
(***************************************************************************)

\* The wrap of the caller: its own, or a new one.
Wrap(h) == IF Get(h) = NULL THEN Self(h) ELSE Get(h)

\* Up to the first call of gethostbyname_r: a buffer that has grown is given
\* back, and the answer the caller had is gone.
Lookup(h, name) ==
  /\ asks[Self(h)] = NoName
  /\ Set(h, Wrap(h))
  /\ wrap' = [wrap EXCEPT ![Wrap(h)] = [size |-> FirstSize, holds |-> NoName]]
  /\ asks' = [asks EXCEPT ![Self(h)] = name]
  /\ answer' = [answer EXCEPT ![Self(h)] = NoName]
  /\ UNCHANGED <<gEnv, top>>

Fits(h) == NeedOf[asks[Self(h)]] <= wrap[Wrap(h)].size

\* Variants: the buffer is allocated again as it was; it is doubled twice.
Same(n) == n

Quadruple(n) == n * 4

Larger(n) == n * 2

\* ERANGE: a larger buffer, and once more.
Grow(h) ==
  /\ asks[Self(h)] # NoName
  /\ ~Fits(h)
  /\ wrap' = [wrap EXCEPT ![Wrap(h)].size = Larger(@)]
  /\ UNCHANGED <<gEnv, top, pthread, spec, asks, answer>>

\* The name is found, and the answer written to the buffer.
Found(h) ==
  /\ asks[Self(h)] # NoName
  /\ Fits(h)
  /\ wrap' = [wrap EXCEPT ![Wrap(h)].holds = asks[Self(h)]]
  /\ answer' = [answer EXCEPT ![Self(h)] = asks[Self(h)]]
  /\ asks' = [asks EXCEPT ![Self(h)] = NoName]
  /\ UNCHANGED <<gEnv, top, pthread, spec>>

\* It is not: gethostbyname returns NULL.
NotFound(h) ==
  /\ asks[Self(h)] # NoName
  /\ Fits(h)
  /\ asks' = [asks EXCEPT ![Self(h)] = NoName]
  /\ UNCHANGED <<gEnv, top, pthread, spec, wrap, answer>>

Resolver(h) == Grow(h) \/ Found(h) \/ NotFound(h)

Next ==
  \E h \in Threads :
    \/ InitEnv(h)
    \/ NextFunction(h)
    \/ \E co \in Coroutines : Switch(h, co)
    \/ \E name \in Names : Lookup(h, name)
    \/ Resolver(h)

Spec == Init /\ [][Next]_vars

\* A thread goes on in the resolver, unless another of its coroutines has
\* control, and each gets it back.
FairSpec ==
  /\ Spec
  /\ \A h \in Threads : \A co \in Coroutines :
       /\ SF_vars(Resolver(h) /\ top[h] = co)
       /\ SF_vars(Switch(h, co))

-----------------------------------------------------------------------------
(***************************************************************************)
(* Properties.                                                             *)
(***************************************************************************)

\* The specific data of a coroutine, seen from outside.
WrapOf(c) == IF c[2] = Main THEN pthread[c[1]] ELSE spec[c]

\* What gethostbyname returned stays what it was until the same coroutine
\* looks up another name: whatever the coroutines of this and of other
\* threads look up meanwhile, whether they are in the middle of it or not,
\* and even if the thread gets its environment only after the answer.
AnswerStays ==
  \A c \in Callers :
    answer[c] # NoName =>
      /\ WrapOf(c) # NULL
      /\ wrap[WrapOf(c)].holds = answer[c]
      /\ wrap[WrapOf(c)].size >= NeedOf[answer[c]]

\* Every lookup ends: the loop that makes the buffer larger comes to a size
\* that is enough.
LookupEnds ==
  \A c \in Callers : asks[c] # NoName ~> asks[c] = NoName

=============================================================================
