------------------------ MODULE ContextSwitchProofs -------------------------
(***************************************************************************)
(* Proofs for ContextSwitch: for any number of coroutines, any stacks and  *)
(* any values in the registers, a switch keeps what a coroutine relies on. *)
(***************************************************************************)
EXTENDS ContextSwitch, TLAPS

-----------------------------------------------------------------------------
(***************************************************************************)
(* What context_swap does to registers and slots.                          *)
(***************************************************************************)

\* The registers that context_swap saves and restores, and rax.
LEMMA RegisterNames ==
  Registers = {"rax", "rbx", "rcx", "rdx", "rsi", "rdi", "rbp", "r8", "r9", "r12", "r13",
               "r14", "r15", "rsp", "rip"}
<1>1. Range(Popped) = {"rbx", "rcx", "rdx", "rsi", "rdi", "rbp", "r8", "r9", "r12", "r13",
                       "r14", "r15", "rsp", "rip"}
  <2>1. DOMAIN Popped = 1..14
    BY DEF Popped
  <2>2. Range(Popped) = {Popped[k] : k \in 1..14}
    BY <2>1 DEF Range
  <2> QED
    BY <2>2 DEF Popped
<1> QED
  BY <1>1 DEF Registers

\* Which pop of context_swap loads which register.
LEMMA Indices ==
  /\ PopIndex("r15") = 1
  /\ PopIndex("r14") = 2
  /\ PopIndex("r13") = 3
  /\ PopIndex("r12") = 4
  /\ PopIndex("rbp") = 7
  /\ PopIndex("rdi") = 8
  /\ PopIndex("rip") = 10
  /\ PopIndex("rbx") = 13
  /\ PopIndex("rsp") = 14
<1>1. /\ \A k \in 1..14 : Popped[k] = "r15" <=> k = 1
      /\ \A k \in 1..14 : Popped[k] = "r14" <=> k = 2
      /\ \A k \in 1..14 : Popped[k] = "r13" <=> k = 3
      /\ \A k \in 1..14 : Popped[k] = "r12" <=> k = 4
      /\ \A k \in 1..14 : Popped[k] = "rbp" <=> k = 7
      /\ \A k \in 1..14 : Popped[k] = "rdi" <=> k = 8
      /\ \A k \in 1..14 : Popped[k] = "rip" <=> k = 10
      /\ \A k \in 1..14 : Popped[k] = "rbx" <=> k = 13
      /\ \A k \in 1..14 : Popped[k] = "rsp" <=> k = 14
  BY DEF Popped
<1> QED
  BY <1>1 DEF PopIndex

\* The slot of each register that a coroutine relies on, when it is saved and
\* when it is loaded.
LEMMA Saved ==
  ASSUME NEW f \in [Registers -> Int]
  PROVE  /\ Pushes(f) \in [Slots -> Int]
         /\ Pushes(f)[0] = f["r15"]
         /\ Pushes(f)[1] = f["r14"]
         /\ Pushes(f)[2] = f["r13"]
         /\ Pushes(f)[3] = f["r12"]
         /\ Pushes(f)[6] = f["rbp"]
         /\ Pushes(f)[9] = f["rip"]
         /\ Pushes(f)[12] = f["rbx"]
         /\ Pushes(f)[13] = f["rsp"]
<1>1. \A i \in Slots : Pushed[14 - i] \in Registers
  BY RegisterNames DEF Slots, Pushed
<1>2. Pushes(f) \in [Slots -> Int]
  BY <1>1 DEF Pushes
<1> QED
  BY <1>2 DEF Pushes, Pushed, Slots

\* What the pops of context_swap load from the slots of a context.
LEMMA Loaded ==
  ASSUME NEW s \in [Slots -> Int]
  PROVE  /\ Pops(s) \in [Registers -> Int]
         /\ Pops(s)["r15"] = s[0]
         /\ Pops(s)["r14"] = s[1]
         /\ Pops(s)["r13"] = s[2]
         /\ Pops(s)["r12"] = s[3]
         /\ Pops(s)["rbp"] = s[6]
         /\ Pops(s)["rdi"] = s[7]
         /\ Pops(s)["rip"] = s[9]
         /\ Pops(s)["rbx"] = s[12]
         /\ Pops(s)["rsp"] = s[13]
<1>1. \A r \in Registers : r # "rax" => PopIndex(r) \in 1..14
  <2>1. \A r \in Range(Popped) : \E k \in 1..14 : Popped[k] = r
    <3>1. DOMAIN Popped = 1..14
      BY DEF Popped
    <3> QED
      BY <3>1 DEF Range
  <2>2. \A r \in Registers : r # "rax" => r \in Range(Popped)
    BY DEF Registers
  <2> QED
    BY <2>1, <2>2 DEF PopIndex
<1>2. \A r \in Registers : r # "rax" => s[PopIndex(r) - 1] \in Int
  BY <1>1 DEF Slots
<1>3. Pops(s) \in [Registers -> Int]
  BY <1>2 DEF Pops
<1> QED
  BY <1>3, Indices, RegisterNames DEF Pops

\* The two limits of coroutine_new on the size of a stack.
LEMMA Sizes ==
  /\ kMinStackSize \in Nat /\ kMaxStackSize \in Nat
  /\ 32 <= kMinStackSize /\ kMinStackSize <= kMaxStackSize
  /\ kMaxStackSize % 4096 = 0
BY DEF kMinStackSize, kMaxStackSize

\* context_make
LEMMA Made ==
  ASSUME TypeOK, NEW c \in Coroutines
  PROVE  /\ Make(c) \in [Slots -> Int]
         /\ Make(c)[7] = c
         /\ Make(c)[9] = coroutine_main
         /\ Make(c)[13] = InitialSp(c)
         /\ InitialSp(c) \in Int
         /\ (InitialSp(c) + 8) % 16 = 0
         /\ StackStart[c] + stack_size - InitialSp(c) \in 8..23
         /\ InitialSp(c) \in StackStart[c]..(StackStart[c] + stack_size)
<1> DEFINE sp == StackStart[c] + stack_size
<1>1. stack_size \in Nat /\ stack_size >= 32 /\ StackStart[c] \in Nat /\ c \in Int
  BY Sizes, StackStartAssumption, NAssumption DEF TypeOK, Coroutines
<1>2. sp \in Nat
  BY <1>1
<1>3. InitialSp(c) = sp - (sp % 16) - 8
  BY DEF InitialSp
<1> HIDE DEF sp
<1>4. sp % 16 \in 0..15 /\ (sp - (sp % 16)) % 16 = 0
  BY <1>2
<1>5. /\ InitialSp(c) \in Int
      /\ (InitialSp(c) + 8) % 16 = 0
      /\ sp - InitialSp(c) \in 8..23
  BY <1>2, <1>3, <1>4
<1>6. /\ StackStart[c] + stack_size - InitialSp(c) \in 8..23
      /\ InitialSp(c) \in StackStart[c]..(StackStart[c] + stack_size)
  BY <1>1, <1>5 DEF sp
<1>7. coroutine_main \in Int
  BY DEF coroutine_main
<1>8. /\ Make(c) \in [Slots -> Int]
      /\ Make(c)[7] = c
      /\ Make(c)[9] = coroutine_main
      /\ Make(c)[13] = InitialSp(c)
  BY <1>1, <1>5, <1>7 DEF Make, Slots, kRSP, kRETAddr, kRDI
<1> QED
  BY <1>5, <1>6, <1>8

-----------------------------------------------------------------------------
(***************************************************************************)
(* The inductive invariant.                                                *)
(***************************************************************************)

Within(c, sp) == sp \in StackStart[c]..(StackStart[c] + stack_size)

\* The slots s hold the registers f of a coroutine in context_swap.
Hold(s, f) ==
  /\ s[0] = f["r15"]
  /\ s[1] = f["r14"]
  /\ s[2] = f["r13"]
  /\ s[3] = f["r12"]
  /\ s[6] = f["rbp"]
  /\ s[9] = after_swap
  /\ s[12] = f["rbx"]
  /\ s[13] = f["rsp"]

StackInv ==
  /\ Len(callstack) >= 1
  /\ callstack[1] = Main
  /\ \A i, j \in 1..Len(callstack) : callstack[i] = callstack[j] => i = j
  /\ costate[Main] = "INIT"
  /\ \A i \in 2..Len(callstack) : costate[callstack[i]] = "RUNNING"

\* Exactly the coroutines that are in the middle of something and do not
\* run, main included, rely on their slots.
KeptInv ==
  /\ kept[Top] = {}
  /\ \A c \in Coroutines : c # Top =>
       /\ kept[c] # {} <=> c = Main \/ costate[c] = "RUNNING"
       /\ \A f \in kept[c] : Hold(context[c], f) /\ Within(c, f["rsp"])

IInv == TypeOK /\ StackInv /\ KeptInv /\ OnOwnStack

\* The running coroutine is one.
LEMMA TopTyped ==
  ASSUME TypeOK, StackInv
  PROVE  Top \in Coroutines /\ Len(callstack) \in Nat /\ Main \in Coroutines
BY NAssumption DEF TypeOK, StackInv, Top, Coroutines, Main

\* Main starts on its own stack, with no context stored.
LEMMA InitIInv == Init => IInv
<1> SUFFICES ASSUME Init PROVE IInv
  OBVIOUS
<1>1. callstack = <<0>> /\ Len(callstack) = 1 /\ Top = 0 /\ callstack \in Seq(Coroutines)
  BY NAssumption DEF Init, Main, Top, Coroutines
<1>2. stack_size \in kMinStackSize..kMaxStackSize
  <2>1. PICK size \in Requests : stack_size = RoundUp(Clamp(size))
    BY DEF Init
  <2>2. Clamp(size) \in kMinStackSize..kMaxStackSize
    BY Sizes, RequestsAssumption DEF Clamp
  <2> QED
    BY <2>1, <2>2, Sizes DEF RoundUp
<1>3. StackStart[0] \in Nat /\ StackStart[0] + stack_size \in Int
  BY <1>2, Sizes, StackStartAssumption, NAssumption
<1>4. PICK f \in Files : reg = [f EXCEPT !["rsp"] = StackStart[Main] + stack_size]
  BY DEF Init
<1>5. reg \in [Registers -> Int] /\ reg["rsp"] = StackStart[0] + stack_size
  BY <1>3, <1>4, UserAssumption, RegisterNames DEF Main
<1>6. TypeOK
  BY <1>1, <1>2, <1>5 DEF Init, TypeOK
<1>7. StackInv
  BY <1>1, NAssumption DEF Init, StackInv, Coroutines, Main
<1>8. KeptInv
  BY <1>1 DEF Init, KeptInv, Coroutines, Main
<1>9. OnOwnStack
  BY <1>1, <1>2, <1>3, <1>5, Sizes DEF OnOwnStack
<1> QED
  BY <1>6, <1>7, <1>8, <1>9 DEF IInv

\* What a switch does to the slots and to the processor.
LEMMA SwapEffect ==
  ASSUME TypeOK, StackInv,
         NEW ctx \in [Coroutines -> [Slots -> Int]],
         NEW pending \in Coroutines, pending # Top,
         Swap(ctx, Top, pending)
  PROVE  /\ context' \in [Coroutines -> [Slots -> Int]]
         /\ reg' \in [Registers -> Int]
         /\ reg' = Pops(ctx[pending])
         /\ \A c \in Coroutines : c # Top => context'[c] = ctx[c]
         /\ context'[Top][0] = reg["r15"]
         /\ context'[Top][1] = reg["r14"]
         /\ context'[Top][2] = reg["r13"]
         /\ context'[Top][3] = reg["r12"]
         /\ context'[Top][6] = reg["rbp"]
         /\ context'[Top][9] = after_swap
         /\ context'[Top][12] = reg["rbx"]
         /\ context'[Top][13] = reg["rsp"]
<1> DEFINE f == Caller(Top, pending)
<1>1. Top \in Coroutines /\ Top \in Int /\ pending \in Int /\ after_swap \in Int
  BY TopTyped, NAssumption DEF Coroutines, after_swap
<1>2. f \in [Registers -> Int]
  BY <1>1 DEF Caller, TypeOK
<1>3. /\ f["r15"] = reg["r15"] /\ f["r14"] = reg["r14"] /\ f["r13"] = reg["r13"]
      /\ f["r12"] = reg["r12"] /\ f["rbp"] = reg["rbp"] /\ f["rip"] = after_swap
      /\ f["rbx"] = reg["rbx"] /\ f["rsp"] = reg["rsp"]
  BY <1>1, RegisterNames DEF Caller, TypeOK
<1>4. context' = [ctx EXCEPT ![Top] = Pushes(f)] /\ reg' = Pops(context'[pending])
  BY DEF Swap
<1> HIDE DEF f
<1>5. /\ Pushes(f) \in [Slots -> Int]
      /\ Pushes(f)[0] = f["r15"] /\ Pushes(f)[1] = f["r14"] /\ Pushes(f)[2] = f["r13"]
      /\ Pushes(f)[3] = f["r12"] /\ Pushes(f)[6] = f["rbp"] /\ Pushes(f)[9] = f["rip"]
      /\ Pushes(f)[12] = f["rbx"] /\ Pushes(f)[13] = f["rsp"]
  BY <1>2, Saved
<1>6. /\ context' \in [Coroutines -> [Slots -> Int]]
      /\ context'[Top] = Pushes(f)
      /\ \A c \in Coroutines : c # Top => context'[c] = ctx[c]
  BY <1>1, <1>4, <1>5
<1>7. reg' = Pops(ctx[pending]) /\ ctx[pending] \in [Slots -> Int]
  BY <1>4, <1>6
<1>8. reg' \in [Registers -> Int]
  BY <1>7, Loaded
<1> QED
  BY <1>3, <1>5, <1>6, <1>7, <1>8

\* What the coroutine that gives up control relies on.
LEMMA ReliesHold ==
  ASSUME TypeOK, StackInv, OnOwnStack,
         NEW ctx \in [Coroutines -> [Slots -> Int]],
         NEW pending \in Coroutines, pending # Top,
         Swap(ctx, Top, pending)
  PROVE  /\ Relies \in [CalleeSaved -> Int]
         /\ Hold(context'[Top], Relies)
         /\ Within(Top, Relies["rsp"])
<1>1. Relies \in [CalleeSaved -> Int]
  BY RegisterNames DEF Relies, CalleeSaved, TypeOK
<1>2. /\ Relies["r15"] = reg["r15"] /\ Relies["r14"] = reg["r14"] /\ Relies["r13"] = reg["r13"]
      /\ Relies["r12"] = reg["r12"] /\ Relies["rbp"] = reg["rbp"]
      /\ Relies["rbx"] = reg["rbx"] /\ Relies["rsp"] = reg["rsp"]
  BY DEF Relies, CalleeSaved
<1>3. Hold(context'[Top], Relies)
  BY <1>2, SwapEffect DEF Hold
<1> QED
  BY <1>1, <1>2, <1>3 DEF Within, OnOwnStack

\* The registers of the coroutine that goes on.
LEMMA GoesOnRight ==
  ASSUME NEW s \in [Slots -> Int], NEW f \in [CalleeSaved -> Int], Hold(s, f)
  PROVE  /\ Pops(s)["rip"] = after_swap
         /\ \A r \in CalleeSaved : Pops(s)[r] = f[r]
BY Loaded DEF Hold, CalleeSaved

\* A resume: the resumer relies on its slots, the resumed runs.
LEMMA ResumeStep ==
  ASSUME IInv, NEW c \in Coroutines, Resume(c)
  PROVE  /\ IInv'
         /\ Top' = c
         /\ \A f \in kept[c] : reg'["rip"] = after_swap /\ \A r \in CalleeSaved : reg'[r] = f[r]
         /\ kept[c] = {} => reg' = Pops(Make(c))
<1> DEFINE ctx == IF NeedsContext(c) THEN [context EXCEPT ![c] = Make(c)] ELSE context
           n == Len(callstack)
<1> USE DEF IInv
<1>1. Top \in Coroutines /\ n \in Nat /\ n >= 1 /\ Main \in Coroutines
  BY TopTyped DEF StackInv
<1>2. c # Top /\ c # Main /\ \A i \in 1..n : callstack[i] # c
  BY <1>1 DEF Resume, Range, Top, StackInv, TypeOK
<1>3. Make(c) \in [Slots -> Int] /\ InitialSp(c) \in StackStart[c]..(StackStart[c] + stack_size)
  BY Made
<1>4. ctx \in [Coroutines -> [Slots -> Int]]
  BY <1>3 DEF TypeOK
<1>5. Swap(ctx, Top, c) /\ UNCHANGED stack_size
  BY DEF Resume
<1>6. /\ callstack' = Append(callstack, c)
      /\ costate' = [costate EXCEPT ![c] = "RUNNING"]
      /\ kept' = [kept EXCEPT ![Top] = {Relies}, ![c] = {}]
  BY DEF Resume
<1>7. /\ ctx[c] = IF kept[c] = {} THEN Make(c) ELSE context[c]
      /\ \A d \in Coroutines : d # c => ctx[d] = context[d]
  BY <1>2 DEF NeedsContext, KeptInv, TypeOK
<1> HIDE DEF ctx
<1>8. /\ Relies \in [CalleeSaved -> Int]
      /\ Hold(context'[Top], Relies)
      /\ Within(Top, Relies["rsp"])
  BY <1>2, <1>4, <1>5, ReliesHold
<1>9. /\ context' \in [Coroutines -> [Slots -> Int]]
      /\ reg' \in [Registers -> Int]
      /\ reg' = Pops(ctx[c])
      /\ \A d \in Coroutines : d # Top => context'[d] = ctx[d]
  BY <1>2, <1>4, <1>5, SwapEffect
<1>10. Len(callstack') = n + 1 /\ callstack'[n + 1] = c /\ Top' = c
       /\ \A i \in 1..n : callstack'[i] = callstack[i]
  BY <1>1, <1>6 DEF TypeOK, Top
<1>11. TypeOK'
  <2>1. callstack' \in Seq(Coroutines) /\ stack_size' \in kMinStackSize..kMaxStackSize
    BY <1>5, <1>6 DEF TypeOK
  <2>2. costate' \in [Coroutines -> {"none", "INIT", "RUNNING", "STOPPED"}]
    BY <1>6 DEF TypeOK
  <2>3. kept' \in [Coroutines -> SUBSET [CalleeSaved -> Int]]
    BY <1>6, <1>8 DEF TypeOK
  <2> QED
    BY <1>9, <2>1, <2>2, <2>3 DEF TypeOK
<1>12. StackInv'
  <2>1. \A i, j \in 1..(n + 1) : callstack'[i] = callstack'[j] => i = j
    BY <1>1, <1>2, <1>10 DEF StackInv
  <2>2. \A i \in 2..(n + 1) : costate'[callstack'[i]] = "RUNNING"
    <3> TAKE i \in 2..(n + 1)
    <3>1. CASE i = n + 1
      BY <3>1, <1>6, <1>10 DEF TypeOK
    <3>2. CASE i # n + 1
      <4>1. i \in 2..n /\ callstack'[i] = callstack[i] /\ callstack[i] \in Coroutines
        BY <1>1, <3>2, <1>10 DEF TypeOK
      <4> QED
        BY <4>1, <1>1, <1>2, <1>6 DEF StackInv, TypeOK
    <3> QED
      BY <3>1, <3>2
  <2>3. costate'[Main] = "INIT"
    BY <1>1, <1>2, <1>6 DEF StackInv, TypeOK
  <2> QED
    BY <1>1, <1>10, <2>1, <2>2, <2>3 DEF StackInv
<1>13. KeptInv'
  <2>1. kept'[c] = {} /\ kept'[Top] = {Relies}
        /\ \A d \in Coroutines : d # c /\ d # Top => kept'[d] = kept[d]
    BY <1>1, <1>2, <1>6 DEF TypeOK
  <2>2. costate[Top] = "RUNNING" \/ Top = Main
    BY <1>1 DEF StackInv, Top
  <2>3. ASSUME NEW d \in Coroutines, d # c
        PROVE  kept'[d] # {} <=> d = Main \/ costate'[d] = "RUNNING"
    BY <1>6, <2>1, <2>2, <2>3 DEF KeptInv, TypeOK
  <2>4. ASSUME NEW d \in Coroutines, d # c, NEW f \in kept'[d]
        PROVE  Hold(context'[d], f) /\ Within(d, f["rsp"])'
    <3>1. CASE d = Top
      BY <3>1, <2>1, <2>4, <1>5, <1>8 DEF Within
    <3>2. CASE d # Top
      BY <3>2, <2>1, <2>4, <1>5, <1>7, <1>9 DEF Within, KeptInv
    <3> QED
      BY <3>1, <3>2
  <2> QED
    BY <2>1, <2>3, <2>4, <1>10 DEF KeptInv
<1>14. /\ \A f \in kept[c] : reg'["rip"] = after_swap /\ \A r \in CalleeSaved : reg'[r] = f[r]
       /\ kept[c] = {} => reg' = Pops(Make(c))
  <2>1. ASSUME NEW f \in kept[c]
        PROVE  reg'["rip"] = after_swap /\ \A r \in CalleeSaved : reg'[r] = f[r]
    <3>1. Hold(context[c], f) /\ f \in [CalleeSaved -> Int] /\ context[c] \in [Slots -> Int]
      BY <1>2, <2>1 DEF KeptInv, TypeOK
    <3>2. reg' = Pops(context[c])
      BY <2>1, <1>7, <1>9
    <3> QED
      BY <3>1, <3>2, GoesOnRight
  <2> QED
    BY <2>1, <1>7, <1>9
<1>15. OnOwnStack'
  <2>1. CASE kept[c] = {}
    <3>1. reg'["rsp"] = InitialSp(c)
      BY <2>1, <1>3, <1>14, Loaded, Made
    <3> QED
      BY <3>1, <1>3, <1>5, <1>10 DEF OnOwnStack
  <2>2. CASE kept[c] # {}
    <3>1. PICK f \in kept[c] : TRUE
      BY <2>2
    <3>2. reg'["rsp"] = f["rsp"] /\ Within(c, f["rsp"])
      BY <3>1, <1>2, <1>14 DEF CalleeSaved, KeptInv
    <3> QED
      BY <3>2, <1>5, <1>10 DEF OnOwnStack, Within
  <2> QED
    BY <2>1, <2>2
<1> QED
  BY <1>10, <1>11, <1>12, <1>13, <1>14, <1>15

\* A yield, of a coroutine that relies on its slots or has ended.
LEMMA YieldStep ==
  ASSUME IInv, NEW ended \in BOOLEAN, Yield(IF ended THEN {} ELSE {Relies}),
         costate' = IF ended THEN [costate EXCEPT ![Top] = "STOPPED"] ELSE costate
  PROVE  /\ IInv'
         /\ Top' # Top
         /\ Top' \in Coroutines
         /\ kept[Top'] # {}
         /\ \A f \in kept[Top'] :
              reg'["rip"] = after_swap /\ \A r \in CalleeSaved : reg'[r] = f[r]
<1> DEFINE n == Len(callstack)
           c == callstack[n - 1]
<1> USE DEF IInv
<1>1. Top \in Coroutines /\ n \in Nat /\ n > 1 /\ Top = callstack[n]
  BY TopTyped DEF Yield, Top
<1>2. c \in Coroutines /\ c # Top
  <2>1. n - 1 \in 1..n /\ n \in 1..n /\ n - 1 # n
    BY <1>1
  <2>2. c # callstack[n]
    BY <2>1 DEF StackInv
  <2>3. c \in Coroutines
    BY <2>1 DEF TypeOK
  <2> QED
    BY <2>2, <2>3, <1>1
<1>3. Top # Main /\ costate[Top] = "RUNNING"
  BY <1>1 DEF StackInv
<1>4. kept[c] # {}
  <2>1. c = Main \/ costate[c] = "RUNNING"
    BY <1>1 DEF StackInv
  <2> QED
    BY <2>1, <1>2 DEF KeptInv
<1>5. /\ callstack' = SubSeq(callstack, 1, n - 1)
      /\ Swap(context, Top, c) /\ UNCHANGED stack_size
      /\ kept' = [kept EXCEPT ![Top] = IF ended THEN {} ELSE {Relies}, ![c] = {}]
  BY DEF Yield
<1>6. context \in [Coroutines -> [Slots -> Int]]
  BY DEF TypeOK
<1>7. /\ Relies \in [CalleeSaved -> Int]
      /\ Hold(context'[Top], Relies)
      /\ Within(Top, Relies["rsp"])
  BY <1>2, <1>5, <1>6, ReliesHold
<1>8. /\ context' \in [Coroutines -> [Slots -> Int]]
      /\ reg' \in [Registers -> Int]
      /\ reg' = Pops(context[c])
      /\ \A d \in Coroutines : d # Top => context'[d] = context[d]
  BY <1>2, <1>5, <1>6, SwapEffect
<1>9. /\ callstack' \in Seq(Coroutines) /\ Len(callstack') = n - 1
      /\ \A i \in 1..(n - 1) : callstack'[i] = callstack[i]
  BY <1>1, <1>5 DEF TypeOK
<1>10. Top' = c
  BY <1>1, <1>9 DEF Top
<1> HIDE DEF c
<1>11. TypeOK'
  <2>1. costate' \in [Coroutines -> {"none", "INIT", "RUNNING", "STOPPED"}]
    BY <1>1 DEF TypeOK
  <2>2. kept' \in [Coroutines -> SUBSET [CalleeSaved -> Int]]
    BY <1>5, <1>7 DEF TypeOK
  <2> QED
    BY <1>5, <1>8, <1>9, <2>1, <2>2 DEF TypeOK
<1>12. StackInv'
  <2>1. \A i, j \in 1..(n - 1) : callstack'[i] = callstack'[j] => i = j
    BY <1>1, <1>9 DEF StackInv
  <2>2. \A i \in 2..(n - 1) : costate'[callstack'[i]] = "RUNNING"
    <3> TAKE i \in 2..(n - 1)
    <3>1. callstack'[i] = callstack[i] /\ callstack[i] \in Coroutines /\ callstack[i] # Top
      <4>1. i \in 1..n /\ n \in 1..n /\ i # n /\ i \in 1..(n - 1)
        BY <1>1
      <4>2. callstack[i] # callstack[n]
        BY <4>1 DEF StackInv
      <4> QED
        BY <4>1, <4>2, <1>1, <1>9 DEF TypeOK
    <3> QED
      BY <3>1, <1>1 DEF StackInv, TypeOK
  <2>3. costate'[Main] = "INIT"
    BY <1>3, TopTyped DEF StackInv, TypeOK
  <2> QED
    BY <1>1, <1>9, <2>1, <2>2, <2>3 DEF StackInv
<1>13. KeptInv'
  <2>1. /\ kept'[c] = {} /\ kept'[Top] = IF ended THEN {} ELSE {Relies}
        /\ \A d \in Coroutines : d # c /\ d # Top => kept'[d] = kept[d]
    BY <1>1, <1>2, <1>5 DEF TypeOK
  <2>2. ASSUME NEW d \in Coroutines, d # c
        PROVE  kept'[d] # {} <=> d = Main \/ costate'[d] = "RUNNING"
    BY <1>3, <2>1, <2>2 DEF KeptInv, TypeOK
  <2>3. ASSUME NEW d \in Coroutines, d # c, NEW f \in kept'[d]
        PROVE  Hold(context'[d], f) /\ Within(d, f["rsp"])'
    <3>1. CASE d = Top
      BY <3>1, <2>1, <2>3, <1>5, <1>7 DEF Within
    <3>2. CASE d # Top
      BY <3>2, <2>1, <2>3, <1>5, <1>8 DEF Within, KeptInv
    <3> QED
      BY <3>1, <3>2
  <2> QED
    BY <2>1, <2>2, <2>3, <1>10 DEF KeptInv
<1>14. ASSUME NEW f \in kept[c]
       PROVE  /\ reg'["rip"] = after_swap
              /\ \A r \in CalleeSaved : reg'[r] = f[r]
              /\ Within(c, f["rsp"])
  <2>1. Hold(context[c], f) /\ f \in [CalleeSaved -> Int] /\ context[c] \in [Slots -> Int]
        /\ Within(c, f["rsp"])
    BY <1>2, <1>14 DEF KeptInv, TypeOK
  <2> QED
    BY <2>1, <1>8, GoesOnRight
<1>15. OnOwnStack'
  <2>1. PICK f \in kept[c] : TRUE
    BY <1>4
  <2> QED
    BY <2>1, <1>5, <1>10, <1>14 DEF OnOwnStack, Within, CalleeSaved
<1> QED
  BY <1>2, <1>4, <1>10, <1>11, <1>12, <1>13, <1>14, <1>15

\* The other actions switch nothing.
LEMMA QuietStep ==
  ASSUME IInv,
         \/ UNCHANGED vars
         \/ \E c \in Coroutines : New(c) \/ Free(c)
         \/ \E f \in Files, depth \in Depths : Work(f, depth)
  PROVE  IInv' /\ Top' = Top
<1> USE DEF IInv
<1>1. CASE UNCHANGED vars
  BY <1>1 DEF vars, TypeOK, StackInv, KeptInv, OnOwnStack, Top, Within
<1>2. ASSUME NEW c \in Coroutines, New(c) \/ Free(c)
      PROVE  IInv' /\ Top' = Top
  <2>1. /\ UNCHANGED <<stack_size, callstack, context, reg, kept>>
        /\ costate[c] # "RUNNING" /\ c # Main
        /\ \E s \in {"none", "INIT"} : costate' = [costate EXCEPT ![c] = s]
    BY <1>2 DEF New, Free, StackInv
  <2>2. TypeOK'
    BY <2>1 DEF TypeOK
  <2>3. StackInv'
    BY <2>1, TopTyped DEF StackInv, TypeOK
  <2>4. KeptInv'
    BY <2>1 DEF KeptInv, Top, TypeOK, Within
  <2> QED
    BY <2>1, <2>2, <2>3, <2>4 DEF OnOwnStack, Top
<1>3. ASSUME NEW f \in Files, NEW depth \in Depths, Work(f, depth)
      PROVE  IInv' /\ Top' = Top
  <2>1. /\ UNCHANGED <<stack_size, callstack, costate, context, kept>>
        /\ depth \in Nat /\ depth <= stack_size
        /\ reg' = [f EXCEPT !["rsp"] = StackStart[Top] + stack_size - depth]
    BY <1>3, UserAssumption DEF Work
  <2>2. StackStart[Top] \in Nat /\ stack_size \in Nat
    BY TopTyped, StackStartAssumption, Sizes DEF TypeOK, Coroutines
  <2>3. reg' \in [Registers -> Int] /\ reg'["rsp"] = StackStart[Top] + stack_size - depth
    BY <2>1, <2>2, UserAssumption, RegisterNames
  <2>4. TypeOK'
    BY <2>1, <2>3 DEF TypeOK
  <2>5. StackInv' /\ KeptInv' /\ Top' = Top
    BY <2>1 DEF StackInv, KeptInv, Top, Within
  <2> QED
    BY <2>1, <2>2, <2>3, <2>4, <2>5 DEF OnOwnStack
<1> QED
  BY <1>1, <1>2, <1>3

-----------------------------------------------------------------------------
(***************************************************************************)
(* The theorems.                                                           *)
(***************************************************************************)

\* A step as it affects who runs.
LEMMA StepKinds ==
  ASSUME IInv, [Next]_vars
  PROVE  \/ IInv' /\ Top' = Top
         \/ \E c \in Coroutines : Resume(c)
         \/ \E ended \in BOOLEAN :
              /\ Yield(IF ended THEN {} ELSE {Relies})
              /\ costate' = IF ended THEN [costate EXCEPT ![Top] = "STOPPED"] ELSE costate
<1>1. CASE YieldCoroutine
  BY <1>1 DEF YieldCoroutine
<1>2. CASE FunEnds
  BY <1>2 DEF FunEnds
<1>3. CASE \E c \in Coroutines : New(c) \/ Free(c)
  BY <1>3, QuietStep
<1>4. CASE \E f \in Files, depth \in Depths : Work(f, depth)
  BY <1>4, QuietStep
<1>5. CASE UNCHANGED vars
  BY <1>5, QuietStep
<1> QED
  BY <1>1, <1>2, <1>3, <1>4, <1>5 DEF Next

\* Every step keeps the invariant.
LEMMA StepIInv == ASSUME IInv, [Next]_vars PROVE IInv'
BY StepKinds, ResumeStep, YieldStep

\* The invariant holds of every behaviour of the switching code.
THEOREM Inductive == Spec => []IInv
BY InitIInv, StepIInv, PTL DEF Spec

\* The running coroutine is always on its own stack, for any placement of
\* the stacks and every requested size.
THEOREM OwnStack == Spec => []OnOwnStack
BY Inductive, PTL DEF IInv

\* Types, and a stack size within the limits whatever options ask for.
THEOREM Types == Spec => []TypeOK
BY Inductive, PTL DEF IInv

\* A coroutine that goes on after coroutine_resume or a yield finds its
\* registers as it left them.
THEOREM ContinuesRight == Spec => Continues
<1> DEFINE Step == \A c \in Coroutines : Top # c /\ Top' = c =>
                     \A f \in kept[c] :
                       /\ reg'["rip"] = after_swap
                       /\ \A r \in CalleeSaved : reg'[r] = f[r]
<1>1. ASSUME IInv, [Next]_vars PROVE [Step]_vars
  BY <1>1, StepKinds, ResumeStep, YieldStep
<1> QED
  BY <1>1, Inductive, PTL DEF Spec, Continues

\* A coroutine that starts, for the first time or again, is at the entry of
\* coroutine_main on an empty, aligned stack.
THEOREM StartsRight == Spec => StartsAnew
<1> DEFINE Step == \A c \in Coroutines : Top # c /\ Top' = c /\ kept[c] = {} =>
                     /\ reg'["rip"] = coroutine_main
                     /\ reg'["rdi"] = c
                     /\ (reg'["rsp"] + 8) % 16 = 0
                     /\ StackStart[c] + stack_size - reg'["rsp"] \in 8..23
<1>1. ASSUME IInv, [Next]_vars PROVE [Step]_vars
  <2>1. ASSUME NEW c \in Coroutines, Resume(c), kept[c] = {}
        PROVE  /\ reg'["rip"] = coroutine_main
               /\ reg'["rdi"] = c
               /\ (reg'["rsp"] + 8) % 16 = 0
               /\ StackStart[c] + stack_size - reg'["rsp"] \in 8..23
    <3>1. reg' = Pops(Make(c))
      BY <1>1, <2>1, ResumeStep
    <3>2. /\ Make(c) \in [Slots -> Int] /\ Make(c)[7] = c /\ Make(c)[9] = coroutine_main
          /\ Make(c)[13] = InitialSp(c) /\ (InitialSp(c) + 8) % 16 = 0
          /\ StackStart[c] + stack_size - InitialSp(c) \in 8..23
      BY <1>1, Made DEF IInv
    <3> QED
      BY <3>1, <3>2, Loaded
  <2> QED
    BY <1>1, <2>1, StepKinds, ResumeStep, YieldStep
<1> QED
  BY <1>1, Inductive, PTL DEF Spec, StartsAnew

=============================================================================
