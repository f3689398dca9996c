--------------------------- MODULE ContextSwitch ----------------------------
(***************************************************************************)
(* Coroutines of one thread at the level of registers: context_make        *)
(* (context.c), context_swap (context_swap.S, x86-64) and the functions    *)
(* that use them, coroutine_resume, yield_env and coroutine_main           *)
(* (coroutine_impl.c).                                                     *)
(*                                                                         *)
(* One processor; an action ends where the next coroutine goes on.  All    *)
(* values are integers: data, byte addresses, addresses of code, and a     *)
(* coroutine as the pointer to itself.  Registers that context_swap        *)
(* neither saves nor promises to keep (r10, r11, vectors) are left out.    *)
(***************************************************************************)
EXTENDS Integers, Sequences, Functions

CONSTANTS
  N,           \* coroutines are 1..N, 0 is main
  Requests,    \* options.stack_size, as callers give it
  StackStart,  \* where each stack begins
  Files,       \* what user code leaves in the registers
  Depths       \* how much of its stack it may use

ASSUME NAssumption == N \in Nat
ASSUME RequestsAssumption == Requests \subseteq Int
ASSUME StackStartAssumption == StackStart \in [0..N -> Nat]
kMinStackSize == 128 * 1024
kMaxStackSize == 8 * 1024 * 1024

Main == 0
Coroutines == 0..N

VARIABLES
  stack_size,  \* gOptions.stack_size
  callstack,   \* env->callstack
  costate,     \* co->state, or "none"
  context,     \* co->context.regs
  reg,         \* the processor
  kept         \* history: what a suspended coroutine relies on, if anything

vars == <<stack_size, callstack, costate, context, reg, kept>>

Slots == 0..13

\* The order of the pushes and pops of context_swap.  The first push is of
\* rax, which holds the caller's rsp; the address on the stack of the caller
\* is pushed as rip; it is popped into rax, pushed and returned to.
Pushed == <<"rsp", "rbx", "rcx", "rdx", "rip", "rsi", "rdi", "rbp", "r8", "r9",
            "r12", "r13", "r14", "r15">>
Popped == <<"r15", "r14", "r13", "r12", "r9", "r8", "rbp", "rdi", "rsi", "rip",
            "rdx", "rcx", "rbx", "rsp">>

Registers == Range(Popped) \cup {"rax"}

ASSUME UserAssumption == Files \subseteq [Registers -> Int] /\ Depths \subseteq Nat

\* What a C function leaves as it found it.
CalleeSaved == {"rbx", "rbp", "r12", "r13", "r14", "r15", "rsp"}

\* Code addresses: the entry of coroutine_main, and the instruction behind
\* the call of context_swap.
coroutine_main == -1
after_swap == -2

kRDI == 7
kRETAddr == 9
kRSP == 13

Top == callstack[Len(callstack)]

TypeOK ==
  /\ stack_size \in kMinStackSize..kMaxStackSize
  /\ callstack \in Seq(Coroutines)
  /\ costate \in [Coroutines -> {"none", "INIT", "RUNNING", "STOPPED"}]
  /\ context \in [Coroutines -> [Slots -> Int]]
  /\ reg \in [Registers -> Int]
  /\ kept \in [Coroutines -> SUBSET [CalleeSaved -> Int]]

-----------------------------------------------------------------------------

\* The stack size that coroutine_init_env makes of a request.
Clamp(size) == IF size < kMinStackSize THEN kMinStackSize
               ELSE IF size > kMaxStackSize THEN kMaxStackSize ELSE size

RoundUp(size) == IF size % 4096 # 0 THEN size - (size % 4096) + 4096 ELSE size

Init ==
  /\ stack_size \in {RoundUp(Clamp(size)) : size \in Requests}
  /\ callstack = <<Main>>
  /\ costate = [c \in Coroutines |-> IF c = Main THEN "INIT" ELSE "none"]
  /\ context = [c \in Coroutines |-> [i \in Slots |-> 0]]
  /\ reg \in {[f EXCEPT !["rsp"] = StackStart[Main] + stack_size] : f \in Files}
  /\ kept = [c \in Coroutines |-> {}]

\* Variant: the stack begins at its lowest address.
LowestSp(c) == StackStart[c] - (StackStart[c] % 16) - 8

InitialSp(c) ==
  LET sp == StackStart[c] + stack_size
  IN  sp - (sp % 16) - 8

\* context_make: the slots of a coroutine that will start in coroutine_main.
Make(c) ==
  [i \in Slots |-> CASE i = kRSP     -> InitialSp(c)
                     [] i = kRETAddr -> coroutine_main
                     [] i = kRDI     -> c
                     [] OTHER        -> 0]

\* Variant: the pushes go on from slot 12 downwards, as with 104(%rdi).
PushesTooLow(f) == [i \in Slots |-> IF i = 13 THEN 0 ELSE f[Pushed[13 - i]]]

\* context_swap: the pushes start behind the last slot, and the pops at the
\* first.
Pushes(f) == [i \in Slots |-> f[Pushed[14 - i]]]

PopIndex(r) == CHOOSE k \in 1..14 : Popped[k] = r

Pops(slots) == [r \in Registers |-> IF r = "rax" THEN 0 ELSE slots[PopIndex(r) - 1]]

\* What the caller of context_swap(curr, pending) has in its registers.
Caller(curr, pending) ==
  [reg EXCEPT !["rdi"] = curr, !["rsi"] = pending, !["rip"] = after_swap]

\* coroutine_swap; the code behind the call finds env->occupy NULL.
Swap(ctx, curr, pending) ==
  /\ context' = [ctx EXCEPT ![curr] = Pushes(Caller(curr, pending))]
  /\ reg' = Pops(context'[pending])

Relies == [r \in CalleeSaved |-> reg[r]]

-----------------------------------------------------------------------------

\* coroutine_new: create_env
New(c) ==
  /\ costate[c] = "none"
  /\ costate' = [costate EXCEPT ![c] = "INIT"]
  /\ UNCHANGED <<stack_size, callstack, context, reg, kept>>

\* coroutine_free, of a coroutine that is not in use.
Free(c) ==
  /\ c # Main /\ costate[c] \in {"INIT", "STOPPED"}
  /\ costate' = [costate EXCEPT ![c] = "none"]
  /\ UNCHANGED <<stack_size, callstack, context, reg, kept>>

\* The running code computes, calls and returns, within its stack.
Work(f, depth) ==
  /\ depth <= stack_size
  /\ reg' = [f EXCEPT !["rsp"] = StackStart[Top] + stack_size - depth]
  /\ UNCHANGED <<stack_size, callstack, costate, context, kept>>

\* Variant: only a coroutine that never ran gets a context.
NeedsOnlyFirst(c) == costate[c] = "INIT"

NeedsContext(c) == costate[c] # "RUNNING"

\* coroutine_resume, of a coroutine that is not in the middle of a resume
\* itself.
Resume(c) ==
  /\ costate[c] # "none" /\ c \notin Range(callstack)
  /\ costate' = [costate EXCEPT ![c] = "RUNNING"]
  /\ callstack' = Append(callstack, c)
  /\ Swap(IF NeedsContext(c) THEN [context EXCEPT ![c] = Make(c)] ELSE context, Top, c)
  /\ kept' = [kept EXCEPT ![Top] = {Relies}, ![c] = {}]
  /\ UNCHANGED stack_size

\* yield_env; the coroutine below the top goes on, which relies on nothing
\* any more then.
Yield(relies) ==
  /\ Len(callstack) > 1
  /\ LET last == callstack[Len(callstack) - 1]
     IN  /\ callstack' = SubSeq(callstack, 1, Len(callstack) - 1)
         /\ Swap(context, Top, last)
         /\ kept' = [kept EXCEPT ![Top] = relies, ![last] = {}]
  /\ UNCHANGED stack_size

\* coroutine_yield, coroutine_yield_context
YieldCoroutine ==
  /\ Yield({Relies})
  /\ UNCHANGED costate

\* The function has returned to coroutine_main, which yields for good.
FunEnds ==
  /\ costate' = [costate EXCEPT ![Top] = "STOPPED"]
  /\ Yield({})

Next ==
  \/ \E c \in Coroutines : New(c) \/ Free(c) \/ Resume(c)
  \/ \E f \in Files, depth \in Depths : Work(f, depth)
  \/ YieldCoroutine
  \/ FunEnds

Spec == Init /\ [][Next]_vars

-----------------------------------------------------------------------------
(***************************************************************************)
(* Properties.                                                             *)
(***************************************************************************)

\* A coroutine that goes on after a switch does so behind its own call of
\* context_swap, with every register a C function relies on as it was when
\* it gave up control, however many others ran, ended or restarted between.
Continues ==
  [][\A c \in Coroutines : Top # c /\ Top' = c =>
       \A f \in kept[c] :
         /\ reg'["rip"] = after_swap
         /\ \A r \in CalleeSaved : reg'[r] = f[r]]_vars

\* A coroutine that is resumed for the first time, or again after its
\* function has ended, starts at coroutine_main with itself as argument, at
\* the very top of its stack and aligned as a called function expects it; so
\* coroutine_main never returns from its last yield.
StartsAnew ==
  [][\A c \in Coroutines : Top # c /\ Top' = c /\ kept[c] = {} =>
       /\ reg'["rip"] = coroutine_main
       /\ reg'["rdi"] = c
       /\ (reg'["rsp"] + 8) % 16 = 0
       /\ StackStart[c] + stack_size - reg'["rsp"] \in 8..23]_vars

\* The running coroutine is on its own stack, so no coroutine's frames are
\* written by another.
OnOwnStack ==
  reg["rsp"] \in StackStart[Top]..(StackStart[Top] + stack_size)

=============================================================================
