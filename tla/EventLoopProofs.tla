-------------------------- MODULE EventLoopProofs ---------------------------
(***************************************************************************)
(* EventLoop's invariants and its refinement of TimerSpec, for every size  *)
(* of the wheel, every set of items and every sequence of clock readings.  *)
(***************************************************************************)
EXTENDS EventLoop, TLAPS

-----------------------------------------------------------------------------
(***************************************************************************)
(* The lists of items as sequences.                                        *)
(***************************************************************************)

\* add_tail leaves the items before the new one alone.
LEMMA Push ==
  ASSUME NEW S, NEW s \in Seq(S), NEW x \in S
  PROVE  /\ Append(s, x) \in Seq(S)
         /\ Len(Append(s, x)) = Len(s) + 1
         /\ Append(s, x)[Len(s) + 1] = x
         /\ \A k \in 1..Len(s) : Append(s, x)[k] = s[k]
         /\ Range(Append(s, x)) = Range(s) \cup {x}
<1>1. /\ Append(s, x) \in Seq(S)
      /\ Len(Append(s, x)) = Len(s) + 1
      /\ Append(s, x)[Len(s) + 1] = x
      /\ \A k \in 1..Len(s) : Append(s, x)[k] = s[k]
  OBVIOUS
<1>2. DOMAIN Append(s, x) = DOMAIN s \cup {Len(s) + 1}
  OBVIOUS
<1>3. Range(Append(s, x)) = Range(s) \cup {x}
  BY <1>1, <1>2 DEF Range
<1> QED
  BY <1>1, <1>3

\* add_tail puts an item that is not on the list behind the last one.
LEMMA PushNoRepeat ==
  ASSUME NEW S, NEW s \in Seq(S), NEW x \in S, x \notin Range(s),
         \A j, k \in 1..Len(s) : s[j] = s[k] => j = k
  PROVE  LET p == Append(s, x)
         IN  \A j, k \in 1..Len(p) : p[j] = p[k] => j = k
<1> DEFINE p == Append(s, x)
<1>1. /\ Len(p) = Len(s) + 1
      /\ p[Len(s) + 1] = x
      /\ \A k \in 1..Len(s) : p[k] = s[k]
  BY Push
<1> HIDE DEF p
<1>2. PICK n \in Nat : n = Len(s)
  OBVIOUS
<1>3. \A k \in 1..n : p[k] # x
  BY <1>1, <1>2 DEF Range
<1>4. ASSUME NEW j \in 1..(n + 1), NEW k \in 1..(n + 1), p[j] = p[k]
      PROVE  j = k
  <2>1. CASE j \in 1..n /\ k \in 1..n
    BY <1>1, <1>2, <1>4, <2>1
  <2>2. CASE j \in 1..n /\ k = n + 1
    BY <1>1, <1>2, <1>3, <1>4, <2>2
  <2>3. CASE j = n + 1 /\ k \in 1..n
    BY <1>1, <1>2, <1>3, <1>4, <2>3
  <2> QED
    BY <2>1, <2>2, <2>3
<1> QED
  BY <1>1, <1>2, <1>4 DEF p

\* popHead takes the first item of a list without repetitions.
LEMMA TakeFirst ==
  ASSUME NEW S, NEW s \in Seq(S), s # <<>>,
         \A j, k \in 1..Len(s) : s[j] = s[k] => j = k
  PROVE  /\ Head(s) \in Range(s)
         /\ Head(s) \in S
         /\ Tail(s) \in Seq(S)
         /\ Len(Tail(s)) = Len(s) - 1
         /\ \A k \in 1..(Len(s) - 1) : Tail(s)[k] = s[k + 1]
         /\ Range(Tail(s)) = Range(s) \ {Head(s)}
<1> DEFINE t == Tail(s)
<1>1. /\ t \in Seq(S)
      /\ Len(t) = Len(s) - 1
      /\ \A k \in 1..(Len(s) - 1) : t[k] = s[k + 1]
      /\ Head(s) = s[1]
      /\ Len(s) >= 1
  OBVIOUS
<1> HIDE DEF t
<1>2. Head(s) \in Range(s) /\ Head(s) \in S
  BY <1>1 DEF Range
<1>3. Range(t) \subseteq Range(s) \ {Head(s)}
  <2>1. SUFFICES ASSUME NEW k \in 1..(Len(s) - 1)
                 PROVE  t[k] \in Range(s) /\ t[k] # Head(s)
    BY <1>1 DEF Range
  <2>2. k + 1 \in 1..Len(s) /\ 1 \in 1..Len(s) /\ k + 1 # 1
    BY <1>1
  <2>3. s[k + 1] # s[1]
    BY <2>2
  <2> QED
    BY <1>1, <2>2, <2>3 DEF Range
<1>4. Range(s) \ {Head(s)} \subseteq Range(t)
  <2>1. SUFFICES ASSUME NEW k \in 1..Len(s), s[k] # s[1]
                 PROVE  s[k] \in Range(t)
    BY <1>1 DEF Range
  <2>2. k - 1 \in 1..Len(t) /\ t[k - 1] = s[k]
    BY <1>1, <2>1
  <2> QED
    BY <1>1, <2>2 DEF Range
<1> QED
  BY <1>1, <1>2, <1>3, <1>4 DEF t

\* What popHead leaves of a list without repetitions has none.
LEMMA TailNoRepeat ==
  ASSUME NEW S, NEW s \in Seq(S), s # <<>>,
         \A j, k \in 1..Len(s) : s[j] = s[k] => j = k
  PROVE  LET t == Tail(s)
         IN  \A j, k \in 1..Len(t) : t[j] = t[k] => j = k
<1> DEFINE t == Tail(s)
<1>1. /\ Len(t) = Len(s) - 1
      /\ \A k \in 1..(Len(s) - 1) : t[k] = s[k + 1]
  BY TakeFirst
<1> HIDE DEF t
<1>2. PICK n \in Nat : n = Len(s)
  OBVIOUS
<1>3. ASSUME NEW j \in 1..(n - 1), NEW k \in 1..(n - 1), t[j] = t[k]
      PROVE  j = k
  <2>1. j + 1 \in 1..n /\ k + 1 \in 1..n /\ s[j + 1] = s[k + 1]
    BY <1>1, <1>2, <1>3
  <2>2. j + 1 = k + 1
    BY <1>2, <2>1
  <2> QED
    BY <2>2
<1> QED
  BY <1>1, <1>2, <1>3 DEF t

\* join puts one list behind another that shares no item with it.
LEMMA Concat ==
  ASSUME NEW S, NEW s \in Seq(S), NEW t \in Seq(S)
  PROVE  /\ s \o t \in Seq(S)
         /\ Len(s \o t) = Len(s) + Len(t)
         /\ \A k \in 1..Len(s) : (s \o t)[k] = s[k]
         /\ \A k \in (Len(s) + 1)..(Len(s) + Len(t)) : (s \o t)[k] = t[k - Len(s)]
         /\ Range(s \o t) = Range(s) \cup Range(t)
<1> DEFINE p == s \o t
<1>1. /\ p \in Seq(S)
      /\ Len(p) = Len(s) + Len(t)
      /\ \A k \in 1..Len(s) : p[k] = s[k]
      /\ \A k \in (Len(s) + 1)..(Len(s) + Len(t)) : p[k] = t[k - Len(s)]
  OBVIOUS
<1> HIDE DEF p
<1>2. PICK m \in Nat : m = Len(s)
  OBVIOUS
<1>3. PICK n \in Nat : n = Len(t)
  OBVIOUS
<1>4. ASSUME NEW k \in 1..(m + n) PROVE p[k] \in Range(s) \cup Range(t)
  <2>1. CASE k \in 1..m
    BY <1>1, <1>2, <2>1 DEF Range
  <2>2. CASE k \in (m + 1)..(m + n)
    <3>1. k - m \in 1..n /\ p[k] = t[k - m]
      BY <1>1, <1>2, <1>3, <2>2
    <3> QED
      BY <1>3, <3>1 DEF Range
  <2> QED
    BY <2>1, <2>2
<1>5. ASSUME NEW k \in 1..m PROVE s[k] \in Range(p)
  <2>1. k \in DOMAIN p /\ p[k] = s[k]
    BY <1>1, <1>2, <1>3
  <2> QED
    BY <2>1 DEF Range
<1>6. ASSUME NEW k \in 1..n PROVE t[k] \in Range(p)
  <2>1. k + m \in (m + 1)..(m + n) /\ k + m \in 1..(m + n) /\ (k + m) - m = k
    OBVIOUS
  <2>2. p[k + m] = t[(k + m) - m]
    BY <1>1, <1>2, <1>3, <2>1
  <2>3. k + m \in DOMAIN p /\ p[k + m] = t[k]
    BY <1>1, <1>2, <1>3, <2>1, <2>2
  <2> QED
    BY <2>3 DEF Range
<1>7. Range(p) = Range(s) \cup Range(t)
  <2>1. Range(p) \subseteq Range(s) \cup Range(t)
    BY <1>1, <1>2, <1>3, <1>4 DEF Range
  <2>2. Range(s) \cup Range(t) \subseteq Range(p)
    BY <1>2, <1>3, <1>5, <1>6 DEF Range
  <2> QED
    BY <2>1, <2>2
<1> QED
  BY <1>1, <1>7 DEF p

\* Joining two disjoint lists without repetitions makes no repetition.
LEMMA ConcatNoRepeat ==
  ASSUME NEW S, NEW s \in Seq(S), NEW t \in Seq(S),
         Range(s) \cap Range(t) = {},
         \A j, k \in 1..Len(s) : s[j] = s[k] => j = k,
         \A j, k \in 1..Len(t) : t[j] = t[k] => j = k
  PROVE  LET p == s \o t
         IN  \A j, k \in 1..Len(p) : p[j] = p[k] => j = k
<1> DEFINE p == s \o t
<1>1. /\ Len(p) = Len(s) + Len(t)
      /\ \A k \in 1..Len(s) : p[k] = s[k]
      /\ \A k \in (Len(s) + 1)..(Len(s) + Len(t)) : p[k] = t[k - Len(s)]
  BY Concat
<1> HIDE DEF p
<1>2. PICK m \in Nat : m = Len(s)
  OBVIOUS
<1>3. PICK n \in Nat : n = Len(t)
  OBVIOUS
<1>4. ASSUME NEW j \in 1..m, NEW k \in (m + 1)..(m + n)
      PROVE  p[j] # p[k]
  <2>1. p[j] \in Range(s)
    BY <1>1, <1>2 DEF Range
  <2>2. k - m \in 1..n /\ p[k] = t[k - m]
    BY <1>1, <1>2, <1>3
  <2>3. p[k] \in Range(t)
    BY <1>3, <2>2 DEF Range
  <2> QED
    BY <2>1, <2>3
<1>5. ASSUME NEW j \in (m + 1)..(m + n), NEW k \in (m + 1)..(m + n), p[j] = p[k]
      PROVE  j = k
  <2>1. /\ j - m \in 1..n /\ p[j] = t[j - m]
        /\ k - m \in 1..n /\ p[k] = t[k - m]
    BY <1>1, <1>2, <1>3
  <2>2. j - m = k - m
    BY <1>3, <1>5, <2>1, Zenon
  <2> QED
    BY <2>2
<1>6. ASSUME NEW j \in 1..m, NEW k \in 1..m, p[j] = p[k]
      PROVE  j = k
  BY <1>1, <1>2, <1>6
<1>7. ASSUME NEW j \in 1..(m + n), NEW k \in 1..(m + n), p[j] = p[k]
      PROVE  j = k
  <2>1. /\ j \in 1..m \/ j \in (m + 1)..(m + n)
        /\ k \in 1..m \/ k \in (m + 1)..(m + n)
    OBVIOUS
  <2> QED
    BY <1>4, <1>5, <1>6, <1>7, <2>1
<1> QED
  BY <1>1, <1>2, <1>3, <1>7 DEF p

\* remove_from_link takes one item out of a list without repetitions.
LEMMA Removal ==
  ASSUME NEW S, NEW s \in Seq(S), NEW k \in 1..Len(s)
  PROVE  LET r == SubSeq(s, 1, k - 1) \o SubSeq(s, k + 1, Len(s))
         IN  /\ r \in Seq(S)
             /\ Len(r) = Len(s) - 1
             /\ \A j \in 1..(k - 1) : r[j] = s[j]
             /\ \A j \in k..(Len(s) - 1) : r[j] = s[j + 1]
<1> DEFINE a == SubSeq(s, 1, k - 1)
           b == SubSeq(s, k + 1, Len(s))
           r == a \o b
<1>1. PICK n \in Nat : n = Len(s)
  OBVIOUS
<1>2. k \in 1..n /\ k \in Int
  BY <1>1
<1>3. a \in Seq(S) /\ b \in Seq(S)
  <2>1. a \in Seq(S)
    BY <1>1, <1>2
  <2>2. b \in Seq(S)
    BY <1>1, <1>2
  <2> QED
    BY <2>1, <2>2
<1>4. Len(a) = k - 1
  BY <1>1, <1>2
<1>5. Len(b) = n - k
  BY <1>1, <1>2
<1>6. \A j \in 1..(k - 1) : a[j] = s[j]
  BY <1>1, <1>2
<1>7. \A j \in 1..(n - k) : b[j] = s[k + j]
  BY <1>1, <1>2
<1> HIDE DEF a, b
<1>8. /\ r \in Seq(S)
      /\ Len(r) = Len(a) + Len(b)
      /\ \A j \in 1..Len(a) : r[j] = a[j]
      /\ \A j \in (Len(a) + 1)..(Len(a) + Len(b)) : r[j] = b[j - Len(a)]
  BY <1>3, Concat, Zenon
<1> HIDE DEF r
<1>9. Len(r) = n - 1
  BY <1>2, <1>4, <1>5, <1>8
<1>10. \A j \in 1..(k - 1) : r[j] = s[j]
  BY <1>4, <1>6, <1>8
<1>11. \A j \in k..(n - 1) : r[j] = s[j + 1]
  <2> TAKE j \in k..(n - 1)
  <2>1. /\ j \in (k - 1 + 1)..(k - 1 + (n - k))
        /\ j - (k - 1) \in 1..(n - k)
        /\ k + (j - (k - 1)) = j + 1
    BY <1>2
  <2>2. r[j] = b[j - (k - 1)]
    BY <1>4, <1>5, <1>8, <2>1
  <2>3. b[j - (k - 1)] = s[k + (j - (k - 1))]
    BY <1>7, <2>1
  <2> QED
    BY <2>1, <2>2, <2>3
<1> QED
  BY <1>1, <1>8, <1>9, <1>10, <1>11, Zenon DEF r, a, b

\* Unlinking an item of a list without repetitions removes it and only it.
LEMMA RemovalNoRepeat ==
  ASSUME NEW S, NEW s \in Seq(S), NEW k \in 1..Len(s),
         \A j, l \in 1..Len(s) : s[j] = s[l] => j = l
  PROVE  LET r == SubSeq(s, 1, k - 1) \o SubSeq(s, k + 1, Len(s))
         IN  /\ \A j, l \in 1..Len(r) : r[j] = r[l] => j = l
             /\ Range(r) = Range(s) \ {s[k]}
<1> DEFINE r == SubSeq(s, 1, k - 1) \o SubSeq(s, k + 1, Len(s))
<1>1. PICK n \in Nat : n = Len(s)
  OBVIOUS
<1>2. /\ r \in Seq(S)
      /\ Len(r) = n - 1
      /\ \A j \in 1..(k - 1) : r[j] = s[j]
      /\ \A j \in k..(n - 1) : r[j] = s[j + 1]
  BY <1>1, Removal, Zenon
<1> HIDE DEF r
<1> DEFINE from(j) == IF j < k THEN j ELSE j + 1
<1>3. ASSUME NEW j \in 1..(n - 1)
      PROVE  from(j) \in 1..n /\ from(j) # k /\ r[j] = s[from(j)]
  <2>1. CASE j \in 1..(k - 1)
    BY <1>1, <1>2, <2>1
  <2>2. CASE j \in k..(n - 1)
    BY <1>1, <1>2, <2>2
  <2> QED
    BY <1>1, <2>1, <2>2
<1>4. ASSUME NEW j \in 1..(n - 1), NEW l \in 1..(n - 1), r[j] = r[l]
      PROVE  j = l
  <2>1. s[from(j)] = s[from(l)] /\ from(j) \in 1..n /\ from(l) \in 1..n
    BY <1>3, <1>4
  <2>2. from(j) = from(l)
    BY <1>1, <2>1
  <2> QED
    BY <1>1, <2>2
<1>5. \A j \in 1..(n - 1) : r[j] \in Range(s) \ {s[k]}
  <2> TAKE j \in 1..(n - 1)
  <2>1. from(j) \in 1..n /\ from(j) # k /\ r[j] = s[from(j)]
    BY <1>3
  <2>2. s[from(j)] # s[k]
    BY <1>1, <2>1
  <2> HIDE DEF from
  <2> QED
    BY <1>1, <2>1, <2>2 DEF Range
<1>6. \A j \in 1..n : s[j] # s[k] => s[j] \in Range(r)
  <2> TAKE j \in 1..n
  <2> HAVE s[j] # s[k]
  <2>1. CASE j < k
    <3>1. j \in 1..(k - 1) /\ j \in 1..(n - 1) /\ r[j] = s[j]
      BY <1>1, <1>2, <2>1
    <3> QED
      BY <1>2, <3>1 DEF Range
  <2>2. CASE j > k
    <3>1. j - 1 \in k..(n - 1) /\ j - 1 \in 1..(n - 1) /\ (j - 1) + 1 = j
      BY <1>1, <2>2
    <3>2. r[j - 1] = s[(j - 1) + 1]
      BY <1>2, <3>1
    <3> QED
      BY <1>2, <3>1, <3>2 DEF Range
  <2> QED
    BY <2>1, <2>2
<1>7. Range(r) = Range(s) \ {s[k]}
  <2>1. Range(r) \subseteq Range(s) \ {s[k]}
    BY <1>2, <1>5 DEF Range
  <2>2. Range(s) \ {s[k]} \subseteq Range(r)
    BY <1>1, <1>6 DEF Range
  <2> QED
    BY <2>1, <2>2
<1> QED
  BY <1>2, <1>4, <1>7, Zenon DEF r

-----------------------------------------------------------------------------
USE TimerSizeAssumption, ClockAssumption, TimeoutsAssumption, StepBackAssumption

-----------------------------------------------------------------------------
(***************************************************************************)
(* Arithmetic of the wheel.                                                *)
(***************************************************************************)

\* The index add_timeout and takeAllTimeout compute is one of a slot.
LEMMA ModRange ==
  ASSUME NEW m \in Int
  PROVE  m % TimerSize \in Slots /\ m % TimerSize \in Lists
BY DEF Slots, Lists

\* Two distances of less than a turn lead to the same slot only if they are
\* equal.
LEMMA ModInjective ==
  ASSUME NEW m \in Int, NEW a \in Slots, NEW b \in Slots,
         (m + a) % TimerSize = (m + b) % TimerSize
  PROVE  a = b
<1> DEFINE p == (m + a) \div TimerSize
           q == (m + b) \div TimerSize
           r == (m + a) % TimerSize
<1>1. /\ a \in Int /\ b \in Int /\ p \in Int /\ q \in Int /\ r \in Int
      /\ 0 <= a /\ a < TimerSize /\ 0 <= b /\ b < TimerSize
  BY DEF Slots
<1>2. m + a = TimerSize * p + r
  BY <1>1
<1>3. m + b = TimerSize * q + r
  BY <1>1
<1> HIDE DEF p, q, r
<1>4. a - b = TimerSize * (p - q)
  BY <1>1, <1>2, <1>3
<1>5. CASE p - q >= 1
  <2>1. TimerSize * (p - q) >= TimerSize
    BY <1>1, <1>5
  <2> QED
    BY <1>1, <1>4, <2>1
<1>6. CASE p - q <= -1
  <2>1. TimerSize * (p - q) <= -TimerSize
    BY <1>1, <1>6
  <2> QED
    BY <1>1, <1>4, <2>1
<1>7. CASE p - q = 0
  BY <1>1, <1>4, <1>7
<1> QED
  BY <1>1, <1>5, <1>6, <1>7

\* The inductive invariant: each conjunct needs the others.  An item stays in
\* the right slot because the sweep takes exactly the slots it skips, and the
\* sweep takes nothing early because the items are in the right slots.
IInv ==
  /\ TypeOK
  /\ ListsSound
  /\ WheelCoherent
  /\ SweepSound
  /\ NeverEarly
  /\ DueOrder

\* The lists and the parent pointers, as TypeOK types them.
ListsOK ==
  /\ list \in [Lists -> Seq(Items)]
  /\ parent \in [Items -> Lists \cup {NoList}]
  /\ ListsSound

\* The wheel's slots, the active and the timeout list are different lists.
LEMMA ListIds ==
  /\ Active \in Lists /\ Timeout \in Lists /\ Active # Timeout
  /\ Active \notin Slots /\ Timeout \notin Slots
  /\ Slots \subseteq Lists /\ Lists = Slots \cup {Active, Timeout}
  /\ NoList \notin Lists
BY DEF Active, Timeout, Slots, Lists, NoList

-----------------------------------------------------------------------------
(***************************************************************************)
(* Every list operation keeps lists and parent pointers in step.           *)
(***************************************************************************)

\* join
LEMMA JoinSound ==
  ASSUME ListsOK, NEW l \in Lists, NEW o \in Lists, l # o, Join(l, o)
  PROVE  /\ ListsOK'
         /\ list'[l] = list[l] \o list[o]
         /\ \A m \in Lists : m # l /\ m # o => list'[m] = list[m]
         /\ \A x \in Items : parent'[x] = IF parent[x] = o THEN l ELSE parent[x]
<1>1. /\ list'[l] = list[l] \o list[o]
      /\ list'[o] = <<>>
      /\ \A m \in Lists : m # l /\ m # o => list'[m] = list[m]
      /\ \A x \in Items : parent'[x] = IF parent[x] = o THEN l ELSE parent[x]
  BY DEF Join, ListsOK
<1>2. /\ list[l] \in Seq(Items) /\ list[o] \in Seq(Items)
      /\ Range(list[l]) \cap Range(list[o]) = {}
  <2>1. list[l] \in Seq(Items) /\ list[o] \in Seq(Items)
    BY DEF ListsOK
  <2>2. \A x \in Range(list[o]) : x \in Items
    BY <2>1 DEF Range
  <2> QED
    BY <2>1, <2>2 DEF ListsOK, ListsSound, On
<1>3. /\ list[l] \o list[o] \in Seq(Items)
      /\ Range(list[l] \o list[o]) = Range(list[l]) \cup Range(list[o])
  BY <1>2, Concat
<1>4. list' \in [Lists -> Seq(Items)]
  <2> DEFINE c == list[l] \o list[o]
  <2>1. c \in Seq(Items) /\ <<>> \in Seq(Items)
    BY <1>3
  <2>2. list' = [list EXCEPT ![l] = c, ![o] = <<>>]
    BY DEF Join
  <2> HIDE DEF c
  <2> QED
    BY <2>1, <2>2 DEF ListsOK
<1>5. parent' \in [Items -> Lists \cup {NoList}]
  BY DEF Join, ListsOK
<1>6. ASSUME NEW m \in Lists
      PROVE  \A j, k \in 1..Len(list'[m]) : list'[m][j] = list'[m][k] => j = k
  <2>1. CASE m = l
    <3>1. /\ \A j, k \in 1..Len(list[l]) : list[l][j] = list[l][k] => j = k
          /\ \A j, k \in 1..Len(list[o]) : list[o][j] = list[o][k] => j = k
      BY DEF ListsOK, ListsSound
    <3> DEFINE c == list[l] \o list[o]
    <3>2. \A j, k \in 1..Len(c) : c[j] = c[k] => j = k
      BY <1>2, <3>1, ConcatNoRepeat, Zenon
    <3>3. list'[m] = c
      BY <1>1, <2>1, Zenon
    <3> HIDE DEF c
    <3> QED
      BY <3>2, <3>3
  <2>2. CASE m = o
    BY <1>1, <2>2
  <2>3. CASE m # l /\ m # o
    BY <1>1, <2>3 DEF ListsOK, ListsSound
  <2> QED
    BY <2>1, <2>2, <2>3
<1>7. ASSUME NEW x \in Items, NEW m \in Lists
      PROVE  x \in Range(list'[m]) <=> parent'[x] = m
  <2>1. x \in Range(<<>>) <=> FALSE
    BY DEF Range
  <2>2. \A n \in Lists : x \in Range(list[n]) <=> parent[x] = n
    BY DEF ListsOK, ListsSound, On
  <2>3. CASE m = l
    BY <1>1, <1>3, <2>2, <2>3, Zenon
  <2>4. CASE m = o
    BY <1>1, <2>1, <2>4
  <2>5. CASE m # l /\ m # o
    BY <1>1, <2>2, <2>5
  <2> QED
    BY <2>3, <2>4, <2>5
<1>8. ListsSound'
  BY <1>6, <1>7 DEF ListsSound, On
<1> QED
  BY <1>1, <1>4, <1>5, <1>8 DEF ListsOK

\* add_tail of an item that is on no list
LEMMA AddTailSound ==
  ASSUME ListsOK, NEW x \in Items, parent[x] = NoList, NEW l \in Lists,
         list' = [list EXCEPT ![l] = Append(@, x)],
         parent' = [parent EXCEPT ![x] = l]
  PROVE  ListsOK'
<1>1. list[l] \in Seq(Items) /\ x \notin Range(list[l])
  BY ListIds DEF ListsOK, ListsSound, On
<1>2. /\ Append(list[l], x) \in Seq(Items)
      /\ Range(Append(list[l], x)) = Range(list[l]) \cup {x}
  BY <1>1, Push
<1>3. /\ list' \in [Lists -> Seq(Items)]
      /\ parent' \in [Items -> Lists \cup {NoList}]
      /\ list'[l] = Append(list[l], x)
      /\ \A m \in Lists : m # l => list'[m] = list[m]
  BY <1>2 DEF ListsOK
<1>4. ASSUME NEW m \in Lists
      PROVE  \A j, k \in 1..Len(list'[m]) : list'[m][j] = list'[m][k] => j = k
  <2>1. CASE m = l
    <3>1. \A j, k \in 1..Len(list[l]) : list[l][j] = list[l][k] => j = k
      BY DEF ListsOK, ListsSound
    <3> QED
      BY <1>1, <1>3, <2>1, <3>1, PushNoRepeat
  <2>2. CASE m # l
    BY <1>3, <2>2 DEF ListsOK, ListsSound
  <2> QED
    BY <2>1, <2>2
<1>5. ASSUME NEW y \in Items, NEW m \in Lists
      PROVE  y \in Range(list'[m]) <=> parent'[y] = m
  <2>1. \A n \in Lists : y \in Range(list[n]) <=> parent[y] = n
    BY DEF ListsOK, ListsSound, On
  <2>2. parent'[y] = IF y = x THEN l ELSE parent[y]
    BY DEF ListsOK
  <2>3. CASE m = l
    BY <1>2, <1>3, <2>1, <2>2, <2>3
  <2>4. CASE m # l
    BY <1>3, <2>1, <2>2, <2>4, ListIds
  <2> QED
    BY <2>3, <2>4
<1>6. ListsSound'
  BY <1>4, <1>5 DEF ListsSound, On
<1> QED
  BY <1>3, <1>6 DEF ListsOK

\* popHead
LEMMA PopSound ==
  ASSUME ListsOK, list[Active] # <<>>, NEW x \in Items, x = Head(list[Active]),
         list' = [list EXCEPT ![Active] = Tail(@)],
         parent' = [parent EXCEPT ![x] = NoList]
  PROVE  ListsOK' /\ parent[x] = Active
<1>1. /\ list[Active] \in Seq(Items)
      /\ \A j, k \in 1..Len(list[Active]) : list[Active][j] = list[Active][k] => j = k
  BY ListIds DEF ListsOK, ListsSound
<1>2. /\ x \in Range(list[Active])
      /\ Tail(list[Active]) \in Seq(Items)
      /\ Range(Tail(list[Active])) = Range(list[Active]) \ {x}
  BY <1>1, TakeFirst
<1>3. /\ list' \in [Lists -> Seq(Items)]
      /\ parent' \in [Items -> Lists \cup {NoList}]
      /\ list'[Active] = Tail(list[Active])
      /\ \A m \in Lists : m # Active => list'[m] = list[m]
  BY <1>2, ListIds DEF ListsOK
<1>4. parent[x] = Active
  BY <1>2, ListIds DEF ListsOK, ListsSound, On
<1>5. ASSUME NEW m \in Lists
      PROVE  \A j, k \in 1..Len(list'[m]) : list'[m][j] = list'[m][k] => j = k
  <2>1. CASE m = Active
    BY <1>1, <1>3, <2>1, TailNoRepeat
  <2>2. CASE m # Active
    BY <1>3, <2>2 DEF ListsOK, ListsSound
  <2> QED
    BY <2>1, <2>2, Zenon
<1>6. ASSUME NEW y \in Items, NEW m \in Lists
      PROVE  y \in Range(list'[m]) <=> parent'[y] = m
  <2>1. \A n \in Lists : y \in Range(list[n]) <=> parent[y] = n
    BY DEF ListsOK, ListsSound, On
  <2>2. parent'[y] = IF y = x THEN NoList ELSE parent[y]
    BY DEF ListsOK
  <2>3. CASE m = Active
    BY <1>2, <1>3, <2>1, <2>2, <2>3, ListIds
  <2>4. CASE m # Active
    BY <1>3, <1>4, <2>1, <2>2, <2>4, ListIds
  <2> QED
    BY <2>3, <2>4
<1>7. ListsSound'
  BY <1>5, <1>6, Zenon DEF ListsSound, On
<1> QED
  BY <1>3, <1>4, <1>7 DEF ListsOK

\* remove_from_link, on the list the item is on
LEMMA UnlinkSound ==
  ASSUME NEW s \in Seq(Items), NEW x \in Range(s),
         \A j, k \in 1..Len(s) : s[j] = s[k] => j = k
  PROVE  /\ Unlink(s, x) \in Seq(Items)
         /\ \A j, k \in 1..Len(Unlink(s, x)) : Unlink(s, x)[j] = Unlink(s, x)[k] => j = k
         /\ Range(Unlink(s, x)) = Range(s) \ {x}
<1> DEFINE n == CHOOSE k \in 1..Len(s) : s[k] = x
           r == SubSeq(s, 1, n - 1) \o SubSeq(s, n + 1, Len(s))
<1>1. \E k \in 1..Len(s) : s[k] = x
  BY DEF Range
<1>2. n \in 1..Len(s) /\ s[n] = x
  BY <1>1
<1>3. Unlink(s, x) = r
  BY DEF Unlink
<1> HIDE DEF n
<1>4. r \in Seq(Items)
  BY <1>2, Removal
<1>5. \A j, k \in 1..Len(r) : r[j] = r[k] => j = k
  BY <1>2, RemovalNoRepeat, Zenon
<1>6. Range(r) = Range(s) \ {s[n]}
  BY <1>2, RemovalNoRepeat, Zenon
<1> HIDE DEF r
<1> QED
  BY <1>2, <1>3, <1>4, <1>5, <1>6

\* remove_from_link, then add_tail to the active list
LEMMA PrepareSound ==
  ASSUME ListsOK, NEW x \in Items, parent[x] \in Slots,
         list' = [[list EXCEPT ![parent[x]] = Unlink(@, x)] EXCEPT ![Active] = Append(@, x)],
         parent' = [parent EXCEPT ![x] = Active]
  PROVE  ListsOK'
<1> DEFINE s == parent[x]
           u == Unlink(list[s], x)
           a == Append(list[Active], x)
<1>1. s \in Lists /\ s # Active /\ x \in Range(list[s]) /\ x \notin Range(list[Active])
  BY ListIds DEF ListsOK, ListsSound, On
<1>2. /\ list[s] \in Seq(Items) /\ list[Active] \in Seq(Items)
      /\ \A j, k \in 1..Len(list[s]) : list[s][j] = list[s][k] => j = k
      /\ \A j, k \in 1..Len(list[Active]) : list[Active][j] = list[Active][k] => j = k
  BY <1>1, ListIds DEF ListsOK, ListsSound
<1>3. /\ u \in Seq(Items)
      /\ \A j, k \in 1..Len(u) : u[j] = u[k] => j = k
      /\ Range(u) = Range(list[s]) \ {x}
  BY <1>1, <1>2, UnlinkSound, Zenon
<1>4. /\ a \in Seq(Items)
      /\ \A j, k \in 1..Len(a) : a[j] = a[k] => j = k
      /\ Range(a) = Range(list[Active]) \cup {x}
  <2>1. a \in Seq(Items) /\ Range(a) = Range(list[Active]) \cup {x}
    BY <1>2, Push
  <2>2. \A j, k \in 1..Len(a) : a[j] = a[k] => j = k
    BY <1>1, <1>2, PushNoRepeat, Zenon
  <2> QED
    BY <2>1, <2>2
<1>5. list' = [[list EXCEPT ![s] = u] EXCEPT ![Active] = a]
  BY <1>1, ListIds DEF ListsOK
<1> HIDE DEF u, a
<1>6. /\ list' \in [Lists -> Seq(Items)]
      /\ parent' \in [Items -> Lists \cup {NoList}]
      /\ list'[s] = u /\ list'[Active] = a
      /\ \A m \in Lists : m # s /\ m # Active => list'[m] = list[m]
  <2>1. list' \in [Lists -> Seq(Items)]
    BY <1>3, <1>4, <1>5, Zenon DEF ListsOK
  <2>2. parent' \in [Items -> Lists \cup {NoList}]
    BY ListIds DEF ListsOK
  <2>3. /\ list'[s] = u /\ list'[Active] = a
        /\ \A m \in Lists : m # s /\ m # Active => list'[m] = list[m]
    BY <1>1, <1>5, ListIds DEF ListsOK
  <2> QED
    BY <2>1, <2>2, <2>3, SMTT(30)
<1>7. ASSUME NEW m \in Lists
      PROVE  \A j, k \in 1..Len(list'[m]) : list'[m][j] = list'[m][k] => j = k
  <2>1. CASE m = s
    BY <1>3, <1>6, <2>1
  <2>2. CASE m = Active
    BY <1>4, <1>6, <2>2
  <2>3. CASE m # s /\ m # Active
    BY <1>6, <2>3 DEF ListsOK, ListsSound
  <2> QED
    BY <2>1, <2>2, <2>3, Zenon
<1>8. ASSUME NEW y \in Items, NEW m \in Lists
      PROVE  y \in Range(list'[m]) <=> parent'[y] = m
  <2>1. \A n \in Lists : y \in Range(list[n]) <=> parent[y] = n
    BY DEF ListsOK, ListsSound, On
  <2>2. parent'[y] = IF y = x THEN Active ELSE parent[y]
    BY DEF ListsOK
  <2>3. CASE m = s
    BY <1>1, <1>3, <1>6, <2>1, <2>2, <2>3
  <2>4. CASE m = Active
    BY <1>4, <1>6, <2>1, <2>2, <2>4, Zenon
  <2>5. CASE m # s /\ m # Active
    BY <1>6, <2>1, <2>2, <2>5
  <2> QED
    BY <2>3, <2>4, <2>5
<1>9. ListsSound'
  BY <1>7, <1>8, Zenon DEF ListsSound, On
<1> QED
  BY <1>6, <1>9 DEF ListsOK

-----------------------------------------------------------------------------
(***************************************************************************)
(* Facts about one state.                                                  *)
(***************************************************************************)

\* Whatever is on a list is an item whose parent is that list.
LEMMA Members ==
  ASSUME ListsOK, NEW l \in Lists, NEW k \in 1..Len(list[l])
  PROVE  list[l][k] \in Items /\ parent[list[l][k]] = l
<1>1. list[l] \in Seq(Items)
  BY DEF ListsOK
<1>2. list[l][k] \in Items /\ list[l][k] \in Range(list[l])
  BY <1>1 DEF Range
<1> QED
  BY <1>2 DEF ListsOK, ListsSound, On

\* IInv has what the lemmas about lists need.
LEMMA IInvLists == IInv => ListsOK
BY DEF IInv, TypeOK, ListsOK

\* Outside a sweep the timeout list is empty.
LEMMA TimeoutEmpty ==
  ASSUME IInv, phase # "take"
  PROVE  list[Timeout] = <<>>
<1>1. ListsOK /\ Timeout \in Lists
  BY IInvLists, ListIds
<1>2. list[Timeout] \in Seq(Items)
  BY <1>1 DEF ListsOK
<1>3. \A k \in 1..Len(list[Timeout]) : FALSE
  BY <1>1, Members DEF IInv, SweepSound
<1> QED
  BY <1>2, <1>3

\* Before the loop delivers anything, nothing on a list is marked.
LEMMA NothingMarked ==
  ASSUME IInv, phase # "drain", NEW x \in Items, parent[x] # NoList
  PROVE  ~timedout[x]
<1>1. parent[x] \in Slots \/ parent[x] = Active \/ parent[x] = Timeout
  BY ListIds DEF IInv, TypeOK
<1> QED
  BY <1>1 DEF IInv, SweepSound

\* The numbers of a state are naturals.
LEMMA Numbers ==
  ASSUME TypeOK
  PROVE  /\ clock \in Nat /\ now \in Nat /\ start \in Nat /\ start_idx \in Nat
         /\ i \in Nat /\ cnt \in Nat /\ TimerSize \in Nat /\ TimerSize > 0
         /\ \A x \in Items : expire[x] \in Nat
<1>1. Clock \subseteq Nat /\ TimerSize \in Nat /\ TimerSize > 0
  BY TimerSizeAssumption, ClockAssumption
<1>2. clock \in Nat /\ now \in Nat /\ start \in Nat /\ start_idx \in Nat
  BY <1>1 DEF TypeOK
<1>3. i \in Nat /\ cnt \in Nat
  BY <1>1 DEF TypeOK
<1>4. \A x \in Items : expire[x] \in Nat
  <2>1. expire \in [Items -> Clock \cup {0}]
    BY DEF TypeOK
  <2>2. Clock \cup {0} \subseteq Nat
    BY <1>1
  <2> QED
    BY <2>1, <2>2, Zenon
<1> QED
  BY <1>1, <1>2, <1>3, <1>4

\* takeAllTimeout's cnt: 0 if the clock is behind the wheel, else the slots up
\* to the clock reading, and never more than the wheel has.
LEMMA SweepCountFacts ==
  ASSUME NEW n \in Nat, start \in Nat
  PROVE  /\ SweepCount(n) \in 0..TimerSize
         /\ SweepCount(n) = 0 <=> n < start
         /\ SweepCount(n) # 0 =>
              \/ SweepCount(n) = n - start + 1
              \/ SweepCount(n) = TimerSize /\ start + TimerSize <= n + 1
BY DEF SweepCount

-----------------------------------------------------------------------------
(***************************************************************************)
(* Every action preserves IInv.                                            *)
(***************************************************************************)

\* alloc_epoll: an empty wheel satisfies IInv.
LEMMA InitIInv == Init => IInv
<1> SUFFICES ASSUME Init PROVE IInv
  OBVIOUS
<1>1. TypeOK
  BY DEF Init, TypeOK
<1>2. ListsSound
  BY ListIds DEF Init, ListsSound, On, Range
<1>3. WheelCoherent /\ SweepSound /\ NeverEarly /\ DueOrder
  BY ListIds DEF Init, WheelCoherent, SweepSound, NeverEarly, DueOrder
<1> QED
  BY <1>1, <1>2, <1>3 DEF IInv

\* The clock may change in any way.
LEMMA TickIInv == ASSUME IInv, NEW c \in Clock, TickTo(c) PROVE IInv'
<1> USE DEF TickTo, timerVars, itemVars, takeVars
<1>1. TypeOK'
  BY DEF IInv, TypeOK
<1>2. ListsSound'
  BY DEF IInv, ListsSound, On
<1>3. WheelCoherent' /\ NeverEarly' /\ DueOrder'
  BY DEF IInv, WheelCoherent, NeverEarly, DueOrder, SlotOf
<1>4. SweepSound'
  BY DEF IInv, SweepSound, SweepCount
<1> QED
  BY <1>1, <1>2, <1>3, <1>4 DEF IInv

\* A poll that add_timeout refuses changes nothing.
LEMMA StutterIInv == ASSUME IInv, UNCHANGED vars PROVE IInv'
<1> USE DEF vars, timerVars, itemVars, takeVars
<1>1. TypeOK'
  BY DEF IInv, TypeOK
<1>2. ListsSound'
  BY DEF IInv, ListsSound, On
<1>3. WheelCoherent' /\ NeverEarly' /\ DueOrder'
  BY DEF IInv, WheelCoherent, NeverEarly, DueOrder, SlotOf
<1>4. SweepSound'
  BY DEF IInv, SweepSound, SweepCount
<1> QED
  BY <1>1, <1>2, <1>3, <1>4 DEF IInv

\* What arming an item does, in the terms of the invariant.
LEMMA ArmFacts ==
  ASSUME IInv, NEW x \in Items, NEW ms \in Timeouts, Arm(x, ms)
  PROVE  \E e \in Clock :
           /\ clock <= e /\ start <= e /\ e < start + TimerSize
           /\ SlotOf(e) \in Slots
           /\ expire' = [expire EXCEPT ![x] = e]
           /\ list' = [list EXCEPT ![SlotOf(e)] = Append(@, x)]
           /\ parent' = [parent EXCEPT ![x] = SlotOf(e)]
<1> DEFINE e == clock + ms
<1>1. /\ e \in Clock /\ ~AddTimeoutFails(e)
      /\ expire' = [expire EXCEPT ![x] = e]
      /\ list' = [list EXCEPT ![SlotOf(e)] = Append(@, x)]
      /\ parent' = [parent EXCEPT ![x] = SlotOf(e)]
  BY DEF Arm, AddTimeout, AddTail
<1> HIDE DEF e
<1>2. e \in Nat
  BY <1>1
<1>3. clock <= e /\ start <= e /\ e < start + TimerSize
  BY <1>1, <1>2, Numbers DEF IInv, AddTimeoutFails
<1>4. SlotOf(e) \in Slots
  <2>1. start_idx + (e - start) \in Int
    BY <1>2, Numbers DEF IInv
  <2> QED
    BY <2>1, ModRange DEF SlotOf
<1> QED
  BY <1>1, <1>3, <1>4, Zenon

\* add_timeout puts an item into the slot of its expiry.
LEMMA ArmIInv ==
  ASSUME IInv, NEW x \in Items, NEW ms \in Timeouts, Arm(x, ms) PROVE IInv'
<1>1. PICK e \in Clock :
           /\ clock <= e /\ start <= e /\ e < start + TimerSize
           /\ SlotOf(e) \in Slots
           /\ expire' = [expire EXCEPT ![x] = e]
           /\ list' = [list EXCEPT ![SlotOf(e)] = Append(@, x)]
           /\ parent' = [parent EXCEPT ![x] = SlotOf(e)]
  BY ArmFacts
<1>2. /\ CoroutinesRun /\ parent[x] = NoList
      /\ timedout' = [timedout EXCEPT ![x] = FALSE]
      /\ detached' = [detached EXCEPT ![x] = FALSE]
      /\ UNCHANGED <<phase, clock, now, timerVars, takeVars>>
  BY DEF Arm, AddTimeout, AddTail
<1> USE DEF timerVars, takeVars
<1>3. ListsOK'
  BY <1>1, <1>2, IInvLists, ListIds, AddTailSound, Zenon
<1>4. TypeOK'
  BY <1>1, <1>2, <1>3 DEF IInv, TypeOK, ListsOK
<1>5. \A e1 : SlotOf(e1)' = (start_idx + (e1' - start)) % TimerSize
  BY <1>2 DEF SlotOf
<1>6. ASSUME NEW y \in Items
      PROVE  /\ y = x => /\ parent'[y] = SlotOf(e) /\ expire'[y] = e
                         /\ ~timedout'[y] /\ ~detached'[y]
             /\ y # x => /\ parent'[y] = parent[y] /\ expire'[y] = expire[y]
                         /\ timedout'[y] = timedout[y] /\ detached'[y] = detached[y]
  BY <1>1, <1>2, Zenon DEF IInv, TypeOK
<1>7. WheelCoherent'
  BY <1>1, <1>2, <1>6, Zenon DEF IInv, WheelCoherent, SlotOf
<1>8. phase # "take" /\ phase' = phase
  BY <1>2 DEF CoroutinesRun
<1>9. SweepSound'
  BY <1>1, <1>6, <1>8, ListIds DEF IInv, SweepSound
<1>10. NeverEarly'
  BY <1>2, <1>6, Zenon DEF IInv, NeverEarly
<1>11. DueOrder'
  <2>1. list'[Active] = list[Active]
    BY <1>1, ListIds DEF IInv, TypeOK
  <2>2. \A k \in 1..Len(list[Active]) : list[Active][k] \in Items /\ list[Active][k] # x
    BY <1>2, IInvLists, ListIds, Members
  <2> QED
    BY <1>6, <1>8, <2>1, <2>2 DEF IInv, DueOrder
<1> QED
  BY <1>3, <1>4, <1>7, <1>9, <1>10, <1>11 DEF IInv, ListsOK

\* A list operation or a phase change that leaves the wheel alone: emptying
\* the empty timeout list changes nothing.
LEMMA ClearTimeout ==
  ASSUME IInv, phase # "take", list' = [list EXCEPT ![Timeout] = <<>>]
  PROVE  list' = list
BY TimeoutEmpty, ListIds DEF IInv, TypeOK

\* coroutine_eventloop begins.
LEMMA StartLoopIInv == ASSUME IInv, StartLoop PROVE IInv'
<1>1. /\ phase = "app" /\ phase' = "collect" /\ now' = clock /\ list' = list
      /\ UNCHANGED <<clock, start, start_idx, parent, expire, timedout, detached, i, cnt>>
  BY ClearTimeout DEF StartLoop, timerVars, takeVars
<1>2. TypeOK'
  BY <1>1 DEF IInv, TypeOK
<1>3. ListsSound' /\ WheelCoherent' /\ DueOrder'
  BY <1>1 DEF IInv, ListsSound, On, WheelCoherent, SlotOf, DueOrder
<1>4. SweepSound'
  BY <1>1 DEF IInv, SweepSound
<1>5. NeverEarly'
  BY <1>1, NothingMarked DEF NeverEarly
<1> QED
  BY <1>2, <1>3, <1>4, <1>5 DEF IInv

\* The next iteration of coroutine_eventloop.
LEMMA DrainedIInv == ASSUME IInv, Drained PROVE IInv'
<1>1. /\ phase = "drain" /\ phase' = "collect" /\ list' = list /\ list[Active] = <<>>
      /\ UNCHANGED <<clock, now, start, start_idx, parent, expire, timedout, detached, i, cnt>>
  BY ClearTimeout DEF Drained, timerVars, takeVars
<1>2. TypeOK'
  BY <1>1 DEF IInv, TypeOK
<1>3. ListsSound' /\ WheelCoherent' /\ DueOrder' /\ NeverEarly'
  BY <1>1 DEF IInv, ListsSound, On, WheelCoherent, SlotOf, DueOrder, NeverEarly
<1>4. \A x \in Items : parent[x] # Active
  BY <1>1, ListIds DEF IInv, ListsSound, On, Range
<1>5. SweepSound'
  BY <1>1, <1>4 DEF IInv, SweepSound
<1> QED
  BY <1>2, <1>3, <1>5 DEF IInv

\* prepare_poll_event moves an item from its slot to the active list.
LEMMA PrepareIInv == ASSUME IInv, NEW x \in Items, Prepare(x) PROVE IInv'
<1>1. /\ phase = "collect" /\ parent[x] # NoList /\ ~detached[x]
      /\ detached' = [detached EXCEPT ![x] = TRUE]
      /\ list' = [[list EXCEPT ![parent[x]] = Unlink(@, x)] EXCEPT ![Active] = Append(@, x)]
      /\ parent' = [parent EXCEPT ![x] = Active]
      /\ UNCHANGED <<phase, clock, now, start, start_idx, expire, timedout, i, cnt>>
  BY DEF Prepare, Detach, timerVars, takeVars
<1>2. parent[x] \in Slots
  BY <1>1, ListIds DEF IInv, TypeOK, SweepSound
<1>3. ListsOK'
  BY <1>1, <1>2, IInvLists, PrepareSound, Zenon
<1>4. TypeOK'
  BY <1>1, <1>3, Zenon DEF IInv, TypeOK, ListsOK
<1>5. ASSUME NEW y \in Items
      PROVE  /\ y = x => parent'[y] = Active /\ detached'[y] /\ ~timedout[y]
             /\ y # x => parent'[y] = parent[y] /\ detached'[y] = detached[y]
  BY <1>1, <1>2, Zenon DEF IInv, TypeOK, SweepSound
<1>6. WheelCoherent'
  BY <1>1, <1>5, ListIds DEF IInv, WheelCoherent, SlotOf
<1>7. SweepSound'
  BY <1>1, <1>5, ListIds, Zenon DEF IInv, SweepSound
<1>8. NeverEarly' /\ DueOrder'
  BY <1>1, <1>5 DEF IInv, NeverEarly, DueOrder
<1> QED
  BY <1>3, <1>4, <1>6, <1>7, <1>8 DEF IInv, ListsOK

\* takeAllTimeout begins.
LEMMA TakeBeginIInv == ASSUME IInv, TakeBegin PROVE IInv'
<1>1. /\ phase = "collect" /\ phase' = "take" /\ now' = clock /\ i' = 0
      /\ cnt' = SweepCount(clock)
      /\ UNCHANGED <<clock, start, start_idx, list, parent, expire, timedout, detached>>
  BY DEF TakeBegin, timerVars, itemVars
<1>2. cnt' \in 0..TimerSize
  BY <1>1, Numbers, SweepCountFacts DEF IInv
<1>3. TypeOK'
  BY <1>1, <1>2 DEF IInv, TypeOK
<1>4. ListsSound' /\ WheelCoherent' /\ DueOrder'
  BY <1>1 DEF IInv, ListsSound, On, WheelCoherent, SlotOf, DueOrder
<1>5. NeverEarly'
  BY <1>1, NothingMarked DEF NeverEarly
<1>6. list'[Timeout] = <<>>
  BY <1>1, TimeoutEmpty
<1>7. \A x \in Items : parent[x] \in Slots => expire[x] >= start + 0
  BY Numbers DEF IInv, WheelCoherent
<1>8. cnt' = SweepCount(now)' /\ i' <= cnt'
  BY <1>1, <1>2 DEF SweepCount
<1>9. SweepSound'
  BY <1>1, <1>6, <1>7, <1>8 DEF IInv, SweepSound
<1> QED
  BY <1>3, <1>4, <1>5, <1>9 DEF IInv

\* popHead takes the first active item.
LEMMA PopHeadIInv == ASSUME IInv, NEW x \in Items, PopHead(x) PROVE IInv'
<1>1. /\ phase = "drain" /\ list[Active] # <<>> /\ x = Head(list[Active])
      /\ list' = [list EXCEPT ![Active] = Tail(@)]
      /\ parent' = [parent EXCEPT ![x] = NoList]
      /\ UNCHANGED <<phase, clock, now, start, start_idx, expire, timedout, detached, i, cnt>>
  BY DEF PopHead, timerVars, takeVars
<1>2. ListsOK' /\ parent[x] = Active
  BY <1>1, IInvLists, PopSound, Zenon
<1>3. TypeOK'
  BY <1>1, <1>2 DEF IInv, TypeOK, ListsOK
<1>4. \A y \in Items : parent'[y] = IF y = x THEN NoList ELSE parent[y]
  BY <1>1 DEF IInv, TypeOK
<1>5. NoList \notin Slots /\ NoList # Active /\ NoList # Timeout
  BY ListIds
<1>6. WheelCoherent' /\ NeverEarly'
  BY <1>1, <1>4, <1>5 DEF IInv, WheelCoherent, NeverEarly, SlotOf
<1>7. SweepSound'
  BY <1>1, <1>4, <1>5 DEF IInv, SweepSound
<1>8. DueOrder'
  <2> DEFINE s == list[Active]
             t == Tail(s)
  <2>1. s \in Seq(Items) /\ s # <<>> /\ list'[Active] = t
    BY <1>1, ListIds DEF IInv, TypeOK
  <2>2. Len(t) = Len(s) - 1 /\ \A k \in 1..Len(t) : t[k] = s[k + 1]
    BY <2>1
  <2>3. \A j, k \in 1..Len(s) :
          j < k /\ timedout[s[j]] => timedout[s[k]] /\ expire[s[j]] <= expire[s[k]]
    BY <1>1 DEF IInv, DueOrder
  <2>4. PICK n \in Nat : n = Len(s)
    BY <2>1
  <2> HIDE DEF s, t
  <2>5. \A j, k \in 1..Len(t) :
          j < k /\ timedout[t[j]] => timedout[t[k]] /\ expire[t[j]] <= expire[t[k]]
    <3> SUFFICES ASSUME NEW j \in 1..Len(t), NEW k \in 1..Len(t), j < k, timedout[t[j]]
                 PROVE  timedout[t[k]] /\ expire[t[j]] <= expire[t[k]]
      OBVIOUS
    <3>1. j + 1 \in 1..Len(s) /\ k + 1 \in 1..Len(s) /\ j + 1 < k + 1
      BY <2>2, <2>4
    <3> QED
      BY <2>2, <2>3, <3>1, Zenon
  <2> QED
    BY <1>1, <2>1, <2>5, Zenon DEF DueOrder
<1> QED
  BY <1>2, <1>3, <1>6, <1>7, <1>8 DEF IInv, ListsOK

\* The slot takeAllTimeout reaches after i others holds exactly the items
\* that expire i after the start of the wheel.
LEMMA SweptSlot ==
  ASSUME IInv, phase = "take", i < cnt, NEW y \in Items, parent[y] \in Slots
  PROVE  /\ parent[y] = (start_idx + i) % TimerSize => expire[y] = start + i
         /\ parent[y] # (start_idx + i) % TimerSize => expire[y] >= start + i + 1
<1>1. /\ start \in Nat /\ start_idx \in Nat /\ i \in Nat /\ expire[y] \in Nat
      /\ TimerSize \in Nat
  BY Numbers DEF IInv
<1>2. /\ start <= expire[y] /\ expire[y] < start + TimerSize
      /\ parent[y] = (start_idx + (expire[y] - start)) % TimerSize
      /\ expire[y] >= start + i
  BY DEF IInv, WheelCoherent, SlotOf, SweepSound
<1>3. i \in Slots
  BY <1>1 DEF IInv, TypeOK, Slots
<1>4. PICK d \in Nat : d = expire[y] - start
  BY <1>1, <1>2
<1>5. d \in Slots /\ expire[y] = start + d
  BY <1>1, <1>2, <1>4 DEF Slots
<1>6. CASE parent[y] = (start_idx + i) % TimerSize
  <2>1. (start_idx + d) % TimerSize = (start_idx + i) % TimerSize
    BY <1>2, <1>4, <1>6
  <2>2. d = i
    BY <1>1, <1>3, <1>5, <2>1, ModInjective
  <2> QED
    BY <1>5, <1>6, <2>2
<1>7. CASE parent[y] # (start_idx + i) % TimerSize
  <2>1. d # i
    BY <1>2, <1>4, <1>7
  <2> QED
    BY <1>1, <1>2, <1>5, <1>7, <2>1
<1> QED
  BY <1>6, <1>7

\* takeAllTimeout moves one slot behind what it has collected.
LEMMA TakeSlotIInv == ASSUME IInv, TakeSlot PROVE IInv'
<1> DEFINE s == (start_idx + i) % TimerSize
<1>1. /\ phase = "take" /\ i < cnt /\ Join(Timeout, s) /\ i' = i + 1
      /\ UNCHANGED <<phase, clock, now, start, start_idx, expire, timedout, detached, cnt>>
  BY DEF TakeSlot, timerVars
<1>2. /\ start \in Nat /\ start_idx \in Nat /\ i \in Nat /\ cnt \in Nat
      /\ \A y \in Items : expire[y] \in Nat
  BY Numbers DEF IInv
<1>3. s \in Slots /\ s \in Lists /\ s # Timeout /\ s # Active
  BY <1>2, ModRange, ListIds
<1>4. \A y \in Items : parent[y] \in Slots =>
        /\ parent[y] = s => expire[y] = start + i
        /\ parent[y] # s => expire[y] >= start + i + 1
  BY <1>1, SweptSlot
<1> HIDE DEF s
<1>5. /\ ListsOK'
      /\ list'[Timeout] = list[Timeout] \o list[s]
      /\ \A m \in Lists : m # Timeout /\ m # s => list'[m] = list[m]
      /\ \A y \in Items : parent'[y] = IF parent[y] = s THEN Timeout ELSE parent[y]
  <2>1. ListsOK /\ Timeout \in Lists /\ Timeout # s /\ s \in Lists /\ Join(Timeout, s)
    BY <1>1, <1>3, IInvLists, ListIds
  <2> QED
    BY <2>1, JoinSound, Zenon
<1>6. i' \in 0..TimerSize
  BY <1>1, <1>2 DEF IInv, TypeOK
<1>7. TypeOK'
  BY <1>1, <1>5, <1>6 DEF IInv, TypeOK, ListsOK
<1>8. WheelCoherent'
  BY <1>1, <1>5, ListIds DEF IInv, WheelCoherent, SlotOf
<1>9. NeverEarly' /\ DueOrder'
  BY <1>1, <1>3, <1>5, ListIds DEF IInv, NeverEarly, DueOrder
<1>10. cnt' = SweepCount(now)' /\ i' <= cnt'
  BY <1>1, <1>2 DEF IInv, SweepSound, SweepCount
<1>11. ASSUME NEW y \in Items
       PROVE  /\ parent'[y] \in Slots =>
                   ~timedout'[y] /\ ~detached'[y] /\ expire'[y] >= start' + i'
              /\ parent'[y] = Timeout =>
                   ~timedout'[y] /\ start' <= expire'[y] /\ expire'[y] < start' + i'
              /\ parent'[y] = Active => detached'[y] /\ ~timedout'[y]
  <2>1. CASE parent[y] = s
    BY <1>1, <1>2, <1>3, <1>4, <1>5, <2>1, ListIds DEF IInv, SweepSound
  <2>2. CASE parent[y] # s
    BY <1>1, <1>2, <1>4, <1>5, <2>2, ListIds DEF IInv, SweepSound
  <2> QED
    BY <2>1, <2>2
<1>12. \A j, k \in 1..Len(list'[Timeout]) :
         j < k => expire[list'[Timeout][j]] <= expire[list'[Timeout][k]]
  <2> DEFINE a == list[Timeout]
             b == list[s]
             c == a \o b
  <2>1. a \in Seq(Items) /\ b \in Seq(Items)
    BY <1>3, ListIds DEF IInv, TypeOK
  <2>2. \A k \in 1..Len(a) : a[k] \in Items /\ expire[a[k]] < start + i
    BY IInvLists, ListIds, Members DEF IInv, SweepSound
  <2>3. \A k \in 1..Len(b) : b[k] \in Items /\ expire[b[k]] = start + i
    BY <1>3, <1>4, IInvLists, Members
  <2>4. \A j, k \in 1..Len(a) : j < k => expire[a[j]] <= expire[a[k]]
    BY <1>1 DEF IInv, SweepSound
  <2>5. list'[Timeout] = c
    BY <1>5
  <2> HIDE DEF a, b
  <2>6. /\ Len(c) = Len(a) + Len(b)
        /\ \A k \in 1..Len(a) : c[k] = a[k]
        /\ \A k \in (Len(a) + 1)..(Len(a) + Len(b)) : c[k] = b[k - Len(a)]
    BY <2>1, Concat
  <2>7. PICK m \in Nat, n \in Nat : m = Len(a) /\ n = Len(b)
    BY <2>1
  <2> HIDE DEF c
  <2>8. ASSUME NEW j \in 1..Len(c), NEW k \in 1..Len(c), j < k
        PROVE  expire[c[j]] <= expire[c[k]]
    <3>1. CASE k <= m
      BY <2>6, <2>4, <2>7, <2>8, <3>1
    <3>2. CASE k > m /\ j <= m
      <4>1. expire[c[k]] = start + i
        <5>1. c[k] = b[k - m] /\ k - m \in 1..n
          BY <2>6, <2>7, <3>2
        <5> QED
          BY <2>3, <2>7, <5>1
      <4>2. c[j] \in Items /\ expire[c[j]] < start + i
        BY <2>6, <2>2, <2>7, <3>2
      <4> QED
        BY <1>2, <4>1, <4>2
    <3>3. CASE k > m /\ j > m
      <4>1. c[k] = b[k - m] /\ k - m \in 1..n /\ c[j] = b[j - m] /\ j - m \in 1..n
        BY <2>6, <2>7, <3>3
      <4>2. expire[c[k]] = start + i /\ expire[c[j]] = start + i
        BY <2>3, <2>7, <4>1
      <4> QED
        BY <1>2, <4>2
    <3> QED
      BY <2>7, <3>1, <3>2, <3>3
  <2> QED
    BY <2>5, <2>8
<1>13. SweepSound'
  BY <1>1, <1>10, <1>11, <1>12 DEF SweepSound
<1> QED
  BY <1>5, <1>7, <1>8, <1>9, <1>13 DEF IInv, ListsOK

\* How far the sweep that ends got: everything left in the wheel expires
\* after the loop's clock reading, everything swept not after it.
LEMMA SweepReach ==
  ASSUME IInv, phase = "take", i = cnt, NEW y \in Items
  PROVE  /\ parent[y] \in Slots => cnt = 0 \/ cnt = now - start + 1
         /\ parent[y] \in Slots => expire[y] > now
         /\ parent[y] = Timeout => cnt # 0 /\ expire[y] <= now
<1>1. /\ start \in Nat /\ now \in Nat /\ i \in Nat /\ cnt \in Nat /\ TimerSize \in Nat
      /\ expire[y] \in Nat
  BY Numbers DEF IInv
<1>2. cnt = SweepCount(now)
  BY DEF IInv, SweepSound
<1>3. /\ cnt = 0 <=> now < start
      /\ cnt # 0 => \/ cnt = now - start + 1
                    \/ cnt = TimerSize /\ start + TimerSize <= now + 1
  BY <1>1, <1>2, SweepCountFacts
<1>4. parent[y] \in Slots => /\ start <= expire[y] /\ expire[y] < start + TimerSize
                             /\ expire[y] >= start + cnt
  BY DEF IInv, WheelCoherent, SweepSound
<1>5. parent[y] = Timeout => start <= expire[y] /\ expire[y] < start + cnt
  BY DEF IInv, SweepSound
<1> QED
  BY <1>1, <1>3, <1>4, <1>5

\* takeAllTimeout turns the wheel; its result joins the active list.
LEMMA TakeEndIInv == ASSUME IInv, TakeEnd PROVE IInv'
<1>1. /\ phase = "take" /\ i = cnt /\ phase' = "drain" /\ i' = 0 /\ cnt' = 0
      /\ cnt = 0 => start' = start /\ start_idx' = start_idx
      /\ cnt # 0 => start' = now /\ start_idx' = start_idx + cnt - 1
      /\ timedout' = [x \in Items |-> timedout[x] \/ parent[x] = Timeout]
      /\ Join(Active, Timeout)
      /\ UNCHANGED <<clock, now, expire, detached>>
  BY DEF TakeEnd, Turn, timerVars
<1>2. /\ start \in Nat /\ start_idx \in Nat /\ now \in Nat /\ cnt \in Nat
      /\ TimerSize \in Nat /\ TimerSize > 0 /\ \A y \in Items : expire[y] \in Nat
  BY Numbers DEF IInv
<1>3. /\ ListsOK'
      /\ list'[Active] = list[Active] \o list[Timeout]
      /\ \A y \in Items : parent'[y] = IF parent[y] = Timeout THEN Active ELSE parent[y]
  <2>1. /\ ListsOK /\ Active \in Lists /\ Timeout \in Lists /\ Active # Timeout
        /\ Join(Active, Timeout)
    BY <1>1, IInvLists, ListIds
  <2> QED
    BY <2>1, JoinSound, Zenon
<1>4. \A y \in Items :
        /\ parent[y] \in Slots => cnt = 0 \/ cnt = now - start + 1
        /\ parent[y] \in Slots => expire[y] > now
        /\ parent[y] = Timeout => cnt # 0 /\ expire[y] <= now
  BY <1>1, SweepReach
<1>5. TypeOK'
  <2>1. start' \in Clock /\ start_idx' \in Nat
    <3>1. CASE cnt = 0
      BY <1>1, <3>1 DEF IInv, TypeOK
    <3>2. CASE cnt # 0
      <4>1. ~(now < start) /\ start # 0
        BY <1>1, <1>2, <3>2, SweepCountFacts DEF IInv, SweepSound, TypeOK
      <4>2. now \in Clock
        BY <1>2, <4>1 DEF IInv, TypeOK
      <4> QED
        BY <1>1, <1>2, <3>2, <4>2
    <3> QED
      BY <3>1, <3>2
  <2>2. timedout' \in [Items -> BOOLEAN]
    BY <1>1
  <2> QED
    BY <1>1, <1>2, <1>3, <2>1, <2>2 DEF IInv, TypeOK, ListsOK
<1>6. WheelCoherent'
  <2> SUFFICES ASSUME NEW y \in Items, parent'[y] \in Slots
               PROVE  /\ start' <= expire[y] /\ expire[y] < start' + TimerSize
                      /\ parent'[y] = (start_idx' + (expire[y] - start')) % TimerSize
    BY <1>1 DEF WheelCoherent, SlotOf
  <2>1. parent[y] \in Slots /\ parent'[y] = parent[y]
    BY <1>3, ListIds
  <2>2. /\ start <= expire[y] /\ expire[y] < start + TimerSize
        /\ parent[y] = (start_idx + (expire[y] - start)) % TimerSize
    BY <2>1 DEF IInv, WheelCoherent, SlotOf
  <2>3. CASE cnt = 0
    BY <1>1, <2>1, <2>2, <2>3
  <2>4. CASE cnt # 0
    <3>1. cnt = now - start + 1 /\ expire[y] > now
      BY <1>4, <2>1, <2>4
    <3>2. start' = now /\ start_idx' = start_idx + cnt - 1
      BY <1>1, <2>4
    <3>3. start_idx' + (expire[y] - start') = start_idx + (expire[y] - start)
      BY <1>2, <3>1, <3>2
    <3>4. now <= expire[y] /\ expire[y] < now + TimerSize
      BY <1>2, <2>2, <2>4, <3>1
    <3> QED
      BY <2>1, <2>2, <3>2, <3>3, <3>4
  <2> QED
    BY <2>3, <2>4
<1>7. SweepSound'
  <2>1. \A y \in Items : parent'[y] # Timeout /\ (parent'[y] \in Slots => parent[y] \in Slots)
    BY <1>3, ListIds
  <2>2. \A y \in Items : parent[y] \in Slots => ~timedout'[y] /\ ~detached[y]
    BY <1>1, ListIds, Zenon DEF IInv, SweepSound
  <2>3. \A y \in Items : parent'[y] \in Slots => ~timedout'[y] /\ ~detached'[y]
    BY <1>1, <2>1, <2>2
  <2>4. phase' # "take" /\ phase' # "app" /\ phase' = "drain"
    BY <1>1
  <2> QED
    BY <2>1, <2>3, <2>4 DEF SweepSound
<1>8. \A y \in Items : parent'[y] # NoList /\ timedout'[y] => parent[y] = Timeout
  <2> SUFFICES ASSUME NEW y \in Items, parent'[y] # NoList, timedout'[y], parent[y] # Timeout
               PROVE  FALSE
    OBVIOUS
  <2>1. timedout[y] /\ parent[y] # NoList
    BY <1>1, <1>3, Zenon
  <2> QED
    BY <1>1, <2>1, NothingMarked
<1>9. NeverEarly'
  BY <1>1, <1>4, <1>8 DEF NeverEarly
<1>10. DueOrder'
  <2> DEFINE a == list[Active]
             b == list[Timeout]
             c == a \o b
  <2>1. a \in Seq(Items) /\ b \in Seq(Items)
    BY ListIds DEF IInv, TypeOK
  <2>2. \A k \in 1..Len(a) : ~timedout'[a[k]]
    <3> SUFFICES ASSUME NEW k \in 1..Len(a) PROVE ~timedout'[a[k]]
      OBVIOUS
    <3>1. a[k] \in Items /\ parent[a[k]] = Active
      BY IInvLists, ListIds, Members
    <3>2. parent'[a[k]] # NoList /\ parent[a[k]] # Timeout
      BY <1>3, <3>1, ListIds
    <3> QED
      BY <1>8, <3>1, <3>2
  <2>3. \A k \in 1..Len(b) : timedout'[b[k]]
    BY <1>1, IInvLists, ListIds, Members, Zenon
  <2>4. \A j, k \in 1..Len(b) : j < k => expire[b[j]] <= expire[b[k]]
    BY <1>1 DEF IInv, SweepSound
  <2>5. list'[Active] = c
    BY <1>3
  <2> HIDE DEF a, b
  <2>6. /\ Len(c) = Len(a) + Len(b)
        /\ \A k \in 1..Len(a) : c[k] = a[k]
        /\ \A k \in (Len(a) + 1)..(Len(a) + Len(b)) : c[k] = b[k - Len(a)]
    BY <2>1, Concat
  <2>7. PICK m \in Nat, n \in Nat : m = Len(a) /\ n = Len(b)
    BY <2>1
  <2> HIDE DEF c
  <2>8. ASSUME NEW j \in 1..Len(c), NEW k \in 1..Len(c), j < k, timedout'[c[j]]
        PROVE  timedout'[c[k]] /\ expire[c[j]] <= expire[c[k]]
    <3>1. j > m
      BY <2>2, <2>6, <2>7, <2>8
    <3>2. /\ c[k] = b[k - m] /\ k - m \in 1..n
          /\ c[j] = b[j - m] /\ j - m \in 1..n /\ j - m < k - m
      BY <2>6, <2>7, <2>8, <3>1
    <3> QED
      BY <2>3, <2>4, <2>7, <3>2
  <2> QED
    BY <1>1, <2>5, <2>8 DEF DueOrder
<1> QED
  BY <1>3, <1>5, <1>6, <1>7, <1>9, <1>10 DEF IInv, ListsOK

-----------------------------------------------------------------------------
(***************************************************************************)
(* The invariants of every behaviour.                                      *)
(***************************************************************************)

\* No step of the loop, the clock or a coroutine breaks IInv.
LEMMA StepIInv == ASSUME IInv, [Next]_vars PROVE IInv'
<1>1. CASE LoopStep
  BY <1>1, StartLoopIInv, TakeBeginIInv, TakeSlotIInv, TakeEndIInv, DrainedIInv, PopHeadIInv
     DEF LoopStep
<1>2. CASE Advance \/ StepBack
  BY <1>2, TickIInv DEF Advance, StepBack
<1>3. CASE \E x \in Items, ms \in Timeouts : Arm(x, ms) \/ ArmRefused(x, ms)
  BY <1>3, ArmIInv, StutterIInv DEF ArmRefused
<1>4. CASE \E x \in Items : Prepare(x)
  BY <1>4, PrepareIInv
<1>5. CASE UNCHANGED vars
  BY <1>5, StutterIInv
<1> QED
  BY <1>1, <1>2, <1>3, <1>4, <1>5 DEF Next

\* IInv holds in every reachable state of the event loop.
THEOREM Inductive == Spec => []IInv
<1>1. IInv /\ [Next]_vars => IInv'
  BY StepIInv
<1> QED
  BY InitIInv, <1>1, PTL DEF Spec

\* takeAllTimeout's counters stay within the wheel, and every list holds
\* items.
THEOREM Types == Spec => []TypeOK
BY Inductive, PTL DEF IInv

\* add_tail, join, popHead and remove_from_link keep the lists and the parent
\* pointers of the items in step.
THEOREM Lists_Sound == Spec => []ListsSound
BY Inductive, PTL DEF IInv

\* An armed item is always in the slot that the sweep reaches at its expiry.
THEOREM Wheel == Spec => []WheelCoherent
BY Inductive, PTL DEF IInv

\* takeAllTimeout sweeps exactly the due slots, in the order of expiry.
THEOREM Sweep == Spec => []SweepSound
BY Inductive, PTL DEF IInv

\* No poll times out before its time.
THEOREM Never_Early == Spec => []NeverEarly
BY Inductive, PTL DEF IInv

\* An iteration resumes the coroutines with events before those that timed
\* out, and these by expiry.
THEOREM Due_Order == Spec => []DueOrder
BY Inductive, PTL DEF IInv

-----------------------------------------------------------------------------
(***************************************************************************)
(* The wheel implements TimerSpec.                                         *)
(***************************************************************************)

\* The abstract sets, item by item.
LEMMA ArmedReady ==
  ASSUME NEW x \in Items
  PROVE  /\ x \in armed <=> parent[x] \in Slots \/ parent[x] = Timeout
         /\ x \in ready <=> parent[x] = Active
         /\ x \in armed' <=> parent'[x] \in Slots \/ parent'[x] = Timeout
         /\ x \in ready' <=> parent'[x] = Active
BY DEF armed, ready

\* Steps that leave the parent pointers alone leave the abstract sets alone.
LEMMA SameSets == ASSUME parent' = parent PROVE armed' = armed /\ ready' = ready
BY DEF armed, ready

\* The abstract sets are sets of items.
LEMMA Subsets == armed \subseteq Items /\ ready \subseteq Items
                   /\ armed' \subseteq Items /\ ready' \subseteq Items
BY DEF armed, ready

\* add_timeout implements Arm.
LEMMA ArmRefines ==
  ASSUME IInv, NEW x \in Items, NEW ms \in Timeouts, Arm(x, ms)
  PROVE  Abstract!Arm(x)
<1>1. PICK e \in Clock :
           /\ clock <= e /\ start <= e /\ e < start + TimerSize
           /\ SlotOf(e) \in Slots
           /\ expire' = [expire EXCEPT ![x] = e]
           /\ list' = [list EXCEPT ![SlotOf(e)] = Append(@, x)]
           /\ parent' = [parent EXCEPT ![x] = SlotOf(e)]
  BY ArmFacts
<1>2. /\ phase \in {"app", "drain"} /\ parent[x] = NoList
      /\ UNCHANGED <<phase, clock, now>>
  BY DEF Arm, AddTimeout, AddTail, CoroutinesRun
<1>3. \A y \in Items : parent'[y] = IF y = x THEN SlotOf(e) ELSE parent[y]
  BY <1>1 DEF IInv, TypeOK
<1>4. x \notin armed \cup ready
  BY <1>2, ArmedReady, ListIds
<1>5. \A y \in Items : /\ (y \in armed' <=> y \in armed \/ y = x)
                        /\ (y \in ready' <=> y \in ready)
  <2> SUFFICES ASSUME NEW y \in Items
               PROVE  (y \in armed' <=> y \in armed \/ y = x) /\ (y \in ready' <=> y \in ready)
    OBVIOUS
  <2>1. CASE y = x
    BY <1>1, <1>3, <1>4, <2>1, ArmedReady, ListIds
  <2>2. CASE y # x
    BY <1>3, <2>2, ArmedReady
  <2> QED
    BY <2>1, <2>2
<1>6. armed' = armed \cup {x} /\ ready' = ready
  BY <1>5, Subsets
<1>7. e >= clock
  BY <1>1, Numbers DEF IInv
<1> QED
  BY <1>1, <1>2, <1>4, <1>6, <1>7, Zenon DEF Abstract!Arm

\* prepare_poll_event implements Event.
LEMMA PrepareRefines ==
  ASSUME IInv, NEW x \in Items, Prepare(x)
  PROVE  Abstract!Event(x)
<1>1. /\ phase = "collect" /\ parent[x] # NoList /\ ~detached[x]
      /\ parent' = [parent EXCEPT ![x] = Active]
      /\ UNCHANGED <<phase, clock, now, expire>>
  BY DEF Prepare, Detach
<1>2. parent[x] \in Slots
  BY <1>1, ListIds DEF IInv, TypeOK, SweepSound
<1>3. \A y \in Items : parent'[y] = IF y = x THEN Active ELSE parent[y]
  BY <1>1 DEF IInv, TypeOK
<1>4. x \in armed
  BY <1>2, ArmedReady
<1>5. \A y \in Items : (y \in armed' <=> y \in armed /\ y # x) /\ (y \in ready' <=> y \in ready \/ y = x)
  BY <1>3, ArmedReady, ListIds
<1>6. armed' = armed \ {x} /\ ready' = ready \cup {x}
  BY <1>5, Subsets
<1> QED
  BY <1>1, <1>4, <1>6 DEF Abstract!Event

\* An iteration of takeAllTimeout is invisible.
LEMMA TakeSlotRefines ==
  ASSUME IInv, TakeSlot
  PROVE  UNCHANGED Abstract!vars
<1> DEFINE s == (start_idx + i) % TimerSize
<1>1. /\ UNCHANGED <<phase, clock, now, expire>>
      /\ parent' = [y \in Items |-> IF parent[y] = s THEN Timeout ELSE parent[y]]
  BY DEF TakeSlot, Join
<1>2. s \in Slots
  BY ModRange, Numbers DEF IInv
<1> HIDE DEF s
<1>3. \A y \in Items : (y \in armed' <=> y \in armed) /\ (y \in ready' <=> y \in ready)
  BY <1>1, <1>2, ArmedReady, ListIds
<1>4. armed' = armed /\ ready' = ready
  BY <1>3, Subsets
<1> QED
  BY <1>1, <1>4 DEF Abstract!vars

\* The end of takeAllTimeout implements Sweep.
LEMMA TakeEndRefines ==
  ASSUME IInv, TakeEnd
  PROVE  Abstract!Sweep
<1>1. /\ phase = "take" /\ i = cnt /\ phase' = "drain"
      /\ UNCHANGED <<clock, now, expire>>
      /\ parent' = [y \in Items |-> IF parent[y] = Timeout THEN Active ELSE parent[y]]
  BY DEF TakeEnd, Join
<1> DEFINE due == {x \in armed : expire[x] <= now}
<1>2. \A y \in Items : /\ (parent[y] \in Slots => expire[y] > now)
                        /\ (parent[y] = Timeout => expire[y] <= now)
                        /\ expire[y] \in Nat /\ now \in Nat
  BY <1>1, SweepReach, Numbers DEF IInv
<1>3. \A y \in Items : y \in due <=> parent[y] = Timeout
  BY <1>2, ArmedReady
<1> HIDE DEF due
<1>4. \A y \in Items : (y \in armed' <=> y \in armed /\ y \notin due)
                        /\ (y \in ready' <=> y \in ready \/ y \in due)
  BY <1>1, <1>3, ArmedReady, ListIds
<1>5. due \subseteq Items
  BY Subsets DEF due
<1>6. armed' = armed \ due /\ ready' = ready \cup due
  BY <1>4, <1>5, Subsets
<1> QED
  BY <1>1, <1>6 DEF Abstract!Sweep, due

\* popHead implements Deliver.
LEMMA PopHeadRefines ==
  ASSUME IInv, NEW x \in Items, PopHead(x)
  PROVE  Abstract!Deliver(x)
<1>1. /\ phase = "drain" /\ list[Active] # <<>> /\ x = Head(list[Active])
      /\ list' = [list EXCEPT ![Active] = Tail(@)]
      /\ parent' = [parent EXCEPT ![x] = NoList]
      /\ UNCHANGED <<phase, clock, now, expire>>
  BY DEF PopHead
<1>2. parent[x] = Active
  BY <1>1, IInvLists, PopSound, Zenon
<1>3. \A y \in Items : parent'[y] = IF y = x THEN NoList ELSE parent[y]
  BY <1>1 DEF IInv, TypeOK
<1>4. x \in ready
  BY <1>2, ArmedReady
<1>5. \A y \in Items : (y \in armed' <=> y \in armed) /\ (y \in ready' <=> y \in ready /\ y # x)
  <2> SUFFICES ASSUME NEW y \in Items
               PROVE  (y \in armed' <=> y \in armed) /\ (y \in ready' <=> y \in ready /\ y # x)
    OBVIOUS
  <2>1. CASE y = x
    BY <1>2, <1>3, <2>1, ArmedReady, ListIds
  <2>2. CASE y # x
    BY <1>3, <2>2, ArmedReady
  <2> QED
    BY <2>1, <2>2
<1>6. armed' = armed /\ ready' = ready \ {x}
  BY <1>5, Subsets
<1> QED
  BY <1>1, <1>4, <1>6 DEF Abstract!Deliver

\* The end of the inner loop implements Drained.
LEMMA DrainedRefines ==
  ASSUME IInv, Drained
  PROVE  Abstract!Drained
<1>1. /\ phase = "drain" /\ list[Active] = <<>> /\ phase' = "collect"
      /\ UNCHANGED <<clock, now, parent, expire>>
  BY DEF Drained
<1>2. \A x \in Items : parent[x] # Active
  BY <1>1, ListIds DEF IInv, ListsSound, On, Range
<1>3. ready = {}
  BY <1>2 DEF ready
<1> QED
  BY <1>1, <1>3, SameSets DEF Abstract!Drained

\* Every behaviour of the wheel, its lists and the loop is one TimerSpec
\* allows: an iteration makes ready the items that had events and those that
\* are due at its clock reading, no others, and leaves none of them behind.
THEOREM Refinement == Spec => ImplementsTimerSpec
<1>1. Init => Abstract!Init
  <2> SUFFICES ASSUME Init PROVE Abstract!Init
    OBVIOUS
  <2>1. \A x \in Items : parent[x] = NoList
    BY DEF Init
  <2>2. armed = {} /\ ready = {}
    BY <2>1, ListIds DEF armed, ready
  <2> QED
    BY <2>2 DEF Init, Abstract!Init
<1>2. IInv /\ [Next]_vars => [Abstract!Next]_Abstract!vars
  <2> SUFFICES ASSUME IInv, [Next]_vars PROVE Abstract!Next \/ UNCHANGED Abstract!vars
    OBVIOUS
  <2>1. CASE StartLoop
    BY <2>1, SameSets DEF StartLoop, Abstract!StartLoop, Abstract!Next
  <2>2. CASE TakeBegin
    BY <2>2, SameSets DEF TakeBegin, itemVars, Abstract!ReadClock, Abstract!Next
  <2>3. CASE TakeSlot
    BY <2>3, TakeSlotRefines
  <2>4. CASE TakeEnd
    BY <2>4, TakeEndRefines DEF Abstract!Next
  <2>5. CASE Drained
    BY <2>5, DrainedRefines DEF Abstract!Next
  <2>6. CASE \E x \in Items : PopHead(x)
    BY <2>6, PopHeadRefines DEF Abstract!Next
  <2>7. CASE Advance \/ StepBack
    BY <2>7, SameSets DEF Advance, StepBack, TickTo, itemVars, Abstract!Tick, Abstract!Next
  <2>8. CASE \E x \in Items : Prepare(x)
    BY <2>8, PrepareRefines DEF Abstract!Next
  <2>9. CASE \E x \in Items, ms \in Timeouts : Arm(x, ms)
    BY <2>9, ArmRefines DEF Abstract!Next
  <2>10. CASE UNCHANGED vars
    BY <2>10, SameSets DEF vars, itemVars, Abstract!vars
  <2>11. CASE \E x \in Items, ms \in Timeouts : ArmRefused(x, ms)
    BY <2>10, <2>11 DEF ArmRefused
  <2> QED
    BY <2>1, <2>2, <2>3, <2>4, <2>5, <2>6, <2>7, <2>8, <2>9, <2>10, <2>11 DEF Next, LoopStep
<1> QED
  BY <1>1, <1>2, Inductive, PTL DEF Spec, ImplementsTimerSpec, Abstract!Spec

=============================================================================
